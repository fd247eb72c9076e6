-------------------------- MODULE RendererBoundary --------------------------
(***************************************************************************)
(* What a request to change renderers promises to the rest of the daemon:  *)
(* it ends in success, with a new set of renderers, or in an error, with   *)
(* every renderer, every scene mark and every assignment as they were.     *)
(* Apart from that a renderer leaves its place only when it exited by      *)
(* itself, when its transition is over, or when an output departs.         *)
(***************************************************************************)
EXTENDS FiniteSets

CONSTANTS Places,   \* where a renderer can be installed
          Overlay,  \* the place of the transition overlay
          Nobody    \* the occupant of an empty place

VARIABLES world,    \* the renderer of each place
          marks,    \* the places marked as native scenes
          assigned, \* the wallpaper recorded for each output
          exited,   \* the renderers that exited by themselves
          outcome   \* what the last request returned, or "running"

vars == <<world, marks, assigned, exited, outcome>>
screen == <<world, marks, assigned>>

Begin == outcome # "running" /\ outcome' = "running" /\ UNCHANGED <<screen, exited>>

\* The request returns Ok.  What it leaves behind is up to the request.
Replace == /\ outcome = "running" /\ outcome' = "ok"
           /\ DOMAIN world' = DOMAIN world /\ marks' \subseteq DOMAIN world
           /\ UNCHANGED exited

\* The request returns an error, and nothing has changed.
Refuse == outcome = "running" /\ outcome' = "error" /\ UNCHANGED <<screen, exited>>

\* Renderers exit, and their numbers are used again.
Exit == exited' # exited /\ UNCHANGED <<screen, outcome>>

\* Renderers that exited are collected, with their marks.
Collect == \E gone \in SUBSET {s \in Places : world[s] \in exited} :
    /\ gone # {}
    /\ world' = [s \in DOMAIN world |-> IF s \in gone THEN Nobody ELSE world[s]]
    /\ marks' \in {marks, marks \ gone}
    /\ exited' \subseteq exited
    /\ UNCHANGED <<assigned, outcome>>

\* The overlay's transition is over.
Retire == /\ world[Overlay] # Nobody /\ world' = [world EXCEPT ![Overlay] = Nobody]
          /\ exited' = exited \ {world[Overlay]}
          /\ UNCHANGED <<marks, assigned, outcome>>

\* Outputs come and go between two requests.
Hotplug == /\ outcome # "running" /\ outcome' = outcome
           /\ \A s \in DOMAIN world : world'[s] \in {world[s], Nobody}
           /\ \A s \in DOMAIN world : world'[s] = Nobody => s \notin marks' \/ world[s] = Nobody
           /\ marks' \subseteq marks /\ exited' \subseteq exited
           /\ DOMAIN assigned' = DOMAIN assigned

Init == /\ world = [s \in Places |-> Nobody] /\ marks = {} /\ exited = {}
        /\ outcome = "none"
Next == Begin \/ Replace \/ Refuse \/ Exit \/ Collect \/ Retire \/ Hotplug
Spec == Init /\ [][Next]_vars
=============================================================================
