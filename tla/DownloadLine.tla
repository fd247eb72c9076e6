---------------------------- MODULE DownloadLine ----------------------------
(***************************************************************************)
(* What one download gate promises the requests that hold a reservation:   *)
(* they are served first come, first served, at most Cap at a time.        *)
(* DownloadQueue implements it with tickets, a mutex and a condvar.        *)
(***************************************************************************)
EXTENDS Naturals, Sequences, FiniteSets

CONSTANTS Downloads,  \* the requests
          Cap         \* how many may run at once

VARIABLES line,       \* the requests waiting, first come first
          running,    \* the requests that hold a slot
          served      \* the requests that have been given a slot

lineVars == <<line, running, served>>

Init == line = <<>> /\ running = {} /\ served = {}

Known == running \cup served \cup {line[i] : i \in DOMAIN line}

HasRoom == Cardinality(running) < Cap

Join(d) ==
    /\ d \notin Known
    /\ IF line = <<>> /\ HasRoom
       THEN running' = running \cup {d} /\ served' = served \cup {d} /\ UNCHANGED line
       ELSE line' = Append(line, d) /\ UNCHANGED <<running, served>>

Serve ==
    /\ line # <<>> /\ HasRoom
    /\ running' = running \cup {Head(line)}
    /\ served' = served \cup {Head(line)}
    /\ line' = Tail(line)

Leave(d) ==
    /\ d \in running
    /\ running' = running \ {d}
    /\ UNCHANGED <<line, served>>

Next == Serve \/ \E d \in Downloads : Join(d) \/ Leave(d)

\* A slot is handed on as soon as there is one and somebody waits for it.
Spec == Init /\ [][Next]_lineVars /\ WF_lineVars(Serve)
=============================================================================
