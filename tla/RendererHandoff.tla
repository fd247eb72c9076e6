--------------------------- MODULE RendererHandoff ---------------------------
(***************************************************************************)
(* How a wallpaper request replaces the renderer processes of the screens. *)
(* A request runs a program: it spawns candidates, which displace their    *)
(* incumbents, waits until they are ready, reveals and prepares them, and  *)
(* only then finalizes them one by one.  An error before that point drops  *)
(* the open transactions: each kills its candidate and puts its incumbents *)
(* back.  Meanwhile renderers answer, exit and are collected.              *)
(***************************************************************************)
EXTENDS Naturals, Sequences, FiniteSetsExt, Functions

CONSTANTS Pids,         \* process identifiers, numbered
          Outputs,      \* every output that may be connected
          OutputOrder,  \* the sequence in which outputs::names() gives them
          Kind,         \* the kind of each wallpaper: "static", "video" or "we"
          Requests,     \* the requests [op, want, fill, fade]: see Start
          MultiProcess, \* the setting renderer.video_multi_process
          MaxExits,     \* bound: how many renderers exit by themselves
          MaxRequests,  \* bound: how many requests are made
          Nobody,       \* the occupant of an empty slot
          Blank         \* the assignment of an output that has none

Ops == {"reconcile", "video", "we", "static", "fade"}

\* The places of a RendererTarget.  <<"video", {}>> is the map entry "*",
\* <<"still", G>> and <<"video", G>> the entry of G's sorted names, and
\* <<"overlay", G>> the transaction's own hold on a Detached candidate.
Base == <<"base", {}>>
Paper == <<"paper", {}>>
Shared == <<"video", {}>>
Multi == <<"multi", {}>>
Groups == (SUBSET Outputs) \ {{}}
Stills == {<<"still", G>> : G \in Groups}
Videos == {<<"video", G>> : G \in Groups} \cup {Shared, Multi}
Installed == {Base, Paper} \cup Stills \cup Videos
Slots == Installed \cup {<<"overlay", G>> : G \in Groups}

ASSUME HandoffAssumption ==
    /\ Pids \subseteq Nat \ {0} /\ IsFiniteSet(Pids) /\ Nobody \notin Pids
    /\ MaxExits \in Nat /\ MaxRequests \in Nat /\ MultiProcess \in BOOLEAN
    /\ Blank \notin DOMAIN Kind /\ \A shares \in SUBSET (Outputs \X DOMAIN Kind) : shares # Blank
    /\ Outputs # {} /\ Multi \notin Outputs
    /\ OutputOrder \in Seq(Outputs) /\ Range(OutputOrder) = Outputs
    /\ Requests \subseteq [op : Ops, want : [Outputs -> DOMAIN Kind], fill : [Outputs -> Nat],
                           fade : BOOLEAN]
    /\ \A w \in DOMAIN Kind : Kind[w] \in {"static", "video", "we"}
    /\ \A r \in Requests, o \in Outputs :
          r.op # "reconcile" => (Kind[r.want[o]] = "we" <=> r.op = "we")

VARIABLES
    slot,      \* the renderer in each slot
    marks,     \* scene_papers: the video slots marked as native scenes
    assigned,  \* assignments, with the key Multi for "multi"
    weRender,  \* we_render.groups, as pairs of an output and its scene
    phase,     \* the life of each process
    role,      \* the launch a process was started for
    gate,      \* ReadinessRegistry::gates: the result latched for a process
    open,      \* the RendererTransactions that are neither committed nor dropped
    plan,      \* the request being run
    todo,      \* the instructions of its program that remain
    prior,     \* the assignments saved at its start
    outcome,   \* what the last request returned, or "running"
    timers,    \* the processes a retire_paper_after thread sleeps for
    deferred,  \* the processes a deferred kill thread holds
    linger,    \* the detached overlays waited for after their commit
    live,      \* the connected outputs
    used       \* how many requests were made, and how many renderers exited

vars == <<slot, marks, assigned, weRender, phase, role, gate, open, plan, todo, prior,
          outcome, timers, deferred, linger, live, used>>

NoLaunch == [slot |-> Base, serves |-> {}, hidden |-> FALSE, scene |-> FALSE,
             shared |-> FALSE, keep |-> {}]
NoPlan == [op |-> "none"]
Answering == {"loading", "preloading", "revealing"}
Phases == Answering \cup {"free", "hidden", "up", "broken", "dead"}
Alive(s) == slot[s] # Nobody /\ phase[slot[s]] # "dead"

Launches == [slot : Slots, serves : SUBSET Outputs, hidden : BOOLEAN, scene : BOOLEAN,
             shared : BOOLEAN, keep : SUBSET Slots]
Wishes == UNION {[G -> DOMAIN Kind] : G \in Groups}
Plans == [op : Ops, want : Wishes, fill : [Outputs -> Nat], fade : BOOLEAN,
          single : SUBSET Outputs, kept : SUBSET Launches, fades : SUBSET Outputs,
          same : SUBSET Outputs]
Instructions == [stage : Nat, half : {1, 2}, launch : Launches,
    do : {"spawn", "wait", "reveal", "answer", "prepare", "start", "commit", "tail"}]

TypeOK ==
    /\ slot \in [Slots -> Pids \cup {Nobody}]
    /\ marks \subseteq Videos
    /\ DOMAIN assigned = Outputs \cup {Multi} /\ DOMAIN prior = DOMAIN assigned
    /\ \A o \in Outputs : {assigned[o], prior[o]} \subseteq DOMAIN Kind \cup {Blank}
    /\ weRender \subseteq Outputs \X DOMAIN Kind
    /\ phase \in [Pids -> Phases] /\ gate \in [Pids -> {"none", "ok", "err"}]
    /\ role \in [Pids -> Launches]
    /\ \A t \in open : /\ t.pid \in Pids /\ t.launch \in Launches
                       /\ DOMAIN t.from \subseteq Installed /\ t.from \in [DOMAIN t.from -> Pids]
                       /\ t.marks \subseteq Videos \cap DOMAIN t.from
    /\ plan \in Plans \cup {NoPlan} /\ todo \subseteq Instructions
    /\ outcome \in {"none", "running", "ok", "error"}
    /\ timers \cup deferred \cup linger \subseteq Pids /\ live \in Groups
    /\ used \in [requests : 0..MaxRequests, exits : 0..MaxExits]

Init ==
    /\ slot = [s \in Slots |-> Nobody] /\ marks = {} /\ weRender = {}
    /\ assigned = [k \in Outputs \cup {Multi} |-> Blank] /\ prior = assigned
    /\ phase = [p \in Pids |-> "free"] /\ role = [p \in Pids |-> NoLaunch]
    /\ gate = [p \in Pids |-> "none"]
    /\ open = {} /\ plan = NoPlan /\ todo = {} /\ outcome = "none"
    /\ timers = {} /\ deferred = {} /\ linger = {} /\ live = Outputs
    /\ used = [requests |-> 0, exits |-> 0]

Idle == outcome # "running"

--------------------------------------------------------------------------------
(* The programs.  A launch names its slot, the outputs it serves, whether it   *)
(* starts hidden, whether a shared renderer may be given up for one per output *)
(* and the slots that must be alive for the launch to be skipped (a warm swap, *)
(* or an unchanged wallpaper); {} means a new process in any case.  A program  *)
(* is a set of instructions.  They run stage by stage, in a stage in the turns *)
(* of their launches, and of two instructions for one launch half 1 is first.  *)
Launch(s, serves) == [NoLaunch EXCEPT !.slot = s, !.serves = serves]
Part(n, h, do, launches) ==
    {[stage |-> n, half |-> h, do |-> do, launch |-> l] : l \in launches}
Each(n, do, launches) == Part(n, 1, do, launches)
Pairs(n, first, second, launches) == Part(n, 1, first, launches) \cup Part(n, 2, second, launches)
\* spawn(..)?.wait_ready()? one after the other, or spawn all and then wait for all
Started(n, launches) == Pairs(n, "spawn", "wait", launches)
StartedTogether(n, launches) == Each(n, "spawn", launches) \cup Each(n + 1, "wait", launches)
LastStage == 12
Ending == Each(LastStage, "tail", {NoLaunch})

Place(o) == CHOOSE n \in DOMAIN OutputOrder : OutputOrder[n] = o
\* the first of a set of outputs
First(S) == {o \in S : \A q \in S : Place(o) <= Place(q)}
\* Shared stills come first, then the shared video, and then the outputs in order.
Turn(l) == Min({Place(o) : o \in l.slot[2] \cup l.serves})
           + Len(OutputOrder) * (IF ~l.shared THEN 2 ELSE IF l.slot = Multi THEN 1 ELSE 0)
Before(i, j) ==
    \/ i.stage < j.stage
    \/ /\ i.stage = j.stage
       /\ \/ i.launch # j.launch /\ Turn(i.launch) < Turn(j.launch)
          \/ i.launch = j.launch /\ i.half < j.half
\* the next instruction, if it is of this kind
Reached(do) == {i \in todo : i.do = do /\ \A j \in todo \ {i} : Before(i, j)}
\* The program is past its last step that can fail: only commits remain.
Committing == todo # {} /\ \A i \in todo : i.do \in {"commit", "tail"}

Wanting(r, kind) == {o \in DOMAIN r.want : Kind[r.want[o]] = kind}
\* the outputs that show the same wallpaper in the same way
Alike(r, o) == {q \in DOMAIN r.want : r.want[q] = r.want[o] /\ r.fill[q] = r.fill[o]}
Uniform(r) == \A o, q \in DOMAIN r.want : r.fill[o] = r.fill[q]
Warm(r) == Cardinality(DOMAIN r.want) <= 1 /\ r.fades = {}

\* reconcile_static_multi and reconcile_video_multi, given the outputs whose
\* shared renderer has already failed
SharedStills(r) ==
    {G \in {Alike(r, o) : o \in Wanting(r, "static") \ r.single} :
        Cardinality(G) > 1 /\ G \cap r.single = {}}
SharedVideo(r) ==
    LET V == Wanting(r, "video") IN
    IF MultiProcess /\ Cardinality(V) > 1 /\ V \cap r.single = {} /\
       \A o, q \in V : r.fill[o] = r.fill[q] THEN V ELSE {}
SceneGroups(r) == {Alike(r, o) : o \in Wanting(r, "we")}
WeGroups(r) == {<<o, r.want[o]>> : o \in Wanting(r, "we")}

Still(r, G) == [Launch(<<"still", G>>, G) EXCEPT !.hidden = r.fades # {},
                   !.shared = Cardinality(G) > 1,
                   !.keep = IF Warm(r) THEN {<<"still", G>>} ELSE {}]
Video(r, o) == [Launch(<<"video", {o}>>, {o}) EXCEPT
                   !.keep = IF o \in r.same \/ Warm(r) THEN {<<"video", {o}>>} ELSE {}]
MultiVideo(r, V) == [Launch(Multi, V) EXCEPT !.shared = TRUE,
                        !.keep = IF prior[Multi] = {<<o, r.want[o]>> : o \in V}
                                 THEN {Multi} ELSE {}]
Handoffs(r) ==
    {Still(r, G) : G \in SharedStills(r)}
    \cup {Still(r, {o}) : o \in Wanting(r, "static") \ UNION SharedStills(r)}
    \cup {MultiVideo(r, V) : V \in {SharedVideo(r)} \ {{}}}
    \cup {Video(r, o) : o \in Wanting(r, "video") \ SharedVideo(r)}

Scenes(r) ==
    LET slots == {<<"video", G>> : G \in SceneGroups(r)} IN
    {[Launch(<<"video", G>>, G) EXCEPT !.scene = TRUE,
        !.keep = IF r.op = "we" THEN {<<"video", G>>}
                 ELSE IF weRender = WeGroups(r) THEN slots ELSE {}] : G \in SceneGroups(r)}

Overlays(sets) == {Launch(<<"overlay", G>>, {}) : G \in sets}

\* reconcile_outputs_inner, with prepare_batch and PreparedBatch::finalize
ReconcileProgram(r) ==
    LET overlays == Overlays({{o} : o \in r.fades})
    IN Started(1, Handoffs(r)) \cup Started(2, Scenes(r)) \cup StartedTogether(3, overlays)
       \cup Pairs(5, "reveal", "prepare", Handoffs(r)) \cup Each(6, "prepare", Scenes(r))
       \cup Each(7, "prepare", overlays) \cup Each(8, "start", overlays)
       \cup Each(9, "commit", overlays) \cup Each(10, "commit", Handoffs(r))
       \cup Each(11, "commit", Scenes(r)) \cup Ending

\* apply_video_vk
VideoProgram(r) ==
    LET video == {[Launch(Shared, DOMAIN r.want) EXCEPT !.keep = {Shared}]}
    IN Started(1, video) \cup Each(2, "prepare", video) \cup Each(3, "commit", video) \cup Ending

\* apply_we, with commit_scene_set
WeProgram(r) ==
    Started(1, Scenes(r)) \cup Each(2, "prepare", Scenes(r)) \cup Each(3, "commit", Scenes(r))
    \cup Ending

\* spawn_resolved_stills
StaticProgram(r) ==
    LET each == {<<"still", {o}>> : o \in DOMAIN r.want}
        stills == IF Uniform(r) THEN {[Launch(Base, DOMAIN r.want) EXCEPT !.keep = {Base}]}
                  ELSE {[Launch(<<"still", {o}>>, {o}) EXCEPT !.keep = each] : o \in DOMAIN r.want}
    IN StartedTogether(1, stills) \cup Each(3, "prepare", stills) \cup Each(4, "commit", stills)
       \cup Ending

\* apply_static_transition, and apply_static_per_output_transition when the
\* fill modes differ or only the primary output fades
Managed(r) == Uniform(r) /\ ~r.fade
FadeGroups(r) == {Alike(r, o) : o \in DOMAIN r.want}
FadeProgram(r) ==
    LET stills == IF Uniform(r) THEN {[Launch(Base, DOMAIN r.want) EXCEPT !.hidden = TRUE]}
                  ELSE {[Launch(<<"still", G>>, G) EXCEPT !.hidden = TRUE] : G \in FadeGroups(r)}
        overlays == IF Managed(r) THEN {Launch(Paper, {})}
                    ELSE Overlays(IF r.fade THEN {First(DOMAIN r.want)} ELSE FadeGroups(r))
    IN Started(1, stills) \cup Started(2, overlays) \cup Pairs(3, "reveal", "prepare", stills)
       \cup Each(4, "prepare", overlays) \cup Each(5, "start", overlays)
       \cup Each(IF Managed(r) THEN 6 ELSE 7, "commit", overlays)
       \cup Each(IF Managed(r) THEN 7 ELSE 6, "commit", stills) \cup Ending

Program(r) == CASE r.op = "reconcile" -> ReconcileProgram(r)
                [] r.op = "video" -> VideoProgram(r)
                [] r.op = "we" -> WeProgram(r)
                [] r.op = "static" -> StaticProgram(r)
                [] r.op = "fade" -> FadeProgram(r)

\* The slots each request empties at its end, and how: at once or by a thread
\* that sleeps first.
Keeps(r) == CASE r.op = "reconcile" -> {h.slot : h \in Handoffs(r) \cup Scenes(r)}
              [] r.op = "video" -> {Shared}
              [] r.op = "we" -> {h.slot : h \in Scenes(r)}
              [] r.op = "static" -> IF Uniform(r) THEN {Base}
                                    ELSE {<<"still", {o}>> : o \in DOMAIN r.want}
              [] r.op = "fade" -> IF Managed(r) THEN {Base, Paper}
                                  ELSE IF Uniform(r) THEN {Base}
                                  ELSE {<<"still", G>> : G \in FadeGroups(r)}
\* mutant: the base still is never killed
EmptiedButBase(r) == Installed \ (Keeps(r) \cup {Base})
Emptied(r) == Installed \ Keeps(r)
Deferred(r) == CASE r.op = "video" -> Emptied(r)
                 [] r.op = "we" -> Emptied(r) \cap (Stills \cup {Base})
                 [] OTHER -> {}

--------------------------------------------------------------------------------
\* ps are killed and waited for
Kill(ps) == /\ phase' = [p \in Pids |-> IF p \in ps THEN "free" ELSE phase[p]]
            /\ role' = [p \in Pids |-> IF p \in ps THEN NoLaunch ELSE role[p]]
In(S) == {slot[s] : s \in S} \ {Nobody}
Without(S) == [s \in Slots |-> IF s \in S THEN Nobody ELSE slot[s]]
Only(f, S) == [s \in S |-> f[s]]
quiet == <<weRender, timers, deferred, linger, live, used>>

\* mutant: the map of assignments is replaced, not cleared and filled
AllAssignedOnly(r) == [k \in DOMAIN r.want |-> r.want[k]]
\* set_all_assignments
AllAssigned(r) ==
    [k \in DOMAIN assigned |-> IF k \in DOMAIN r.want THEN r.want[k] ELSE Blank]
\* what a handoff of reconcile assigns
HandedOver(r, l) ==
    [k \in DOMAIN assigned |->
        IF k \in l.serves /\ Kind[r.want[k]] # "we" THEN r.want[k]
        ELSE IF k = Multi /\ l.slot = Multi THEN {<<o, r.want[o]>> : o \in l.serves}
        ELSE assigned[k]]

\* A request begins under the apply lock.  "static" and "video" record their
\* assignments first and put the old ones back when they fail.
Start(q) ==
    /\ Idle /\ todo = {} /\ used.requests < MaxRequests /\ used' = [used EXCEPT !.requests = @ + 1]
    /\ LET want == Only(q.want, live)
           r == [op |-> q.op, want |-> want, fill |-> q.fill, fade |-> q.fade, single |-> {}, kept |-> {},
                 fades |-> {o \in live : q.op = "reconcile" /\ q.fade /\
                              Kind[want[o]] = "static" /\ assigned[o] \notin {Blank, want[o]}},
                 same |-> {o \in live : assigned[o] = want[o]}]
       IN /\ plan' = r /\ todo' = Program(r)
          /\ assigned' = IF q.op \in {"static", "video"} THEN AllAssigned(r) ELSE assigned
    /\ prior' = assigned /\ outcome' = "running"
    /\ UNCHANGED <<slot, marks, phase, role, gate, open, weRender, timers, deferred, linger, live>>

\* mutant: a dropped transaction forgets what it displaced
UndoForgets(t) ==
    /\ open' = open \ {t}
    /\ gate' = [gate EXCEPT ![t.pid] = "none"]
    /\ slot' = Without({t.launch.slot}) /\ marks' = marks \ {t.launch.slot}
    /\ Kill({slot[t.launch.slot]} \cap {t.pid})

\* Dropping a transaction kills its candidate and puts its incumbents back.
Undo(t) ==
    /\ open' = open \ {t}
    /\ gate' = [gate EXCEPT ![t.pid] = "none"]
    /\ slot' = [s \in Slots |-> IF s \in DOMAIN t.from THEN t.from[s]
                                ELSE IF s = t.launch.slot /\ slot[s] = t.pid THEN Nobody
                                ELSE slot[s]]
    /\ Kill({slot[t.launch.slot]} \cap {t.pid})
    /\ marks' = (marks \ {t.launch.slot}) \cup t.marks

Of(l) == {t \in open : t.launch = l}
\* the program of r, given the launches that are under way
Rest(r) == {i \in Program(r) : i.do \in {"spawn", "wait"} => Of(i.launch) = {}}

\* The outputs of a shared renderer get one each; any other error ends the program.
GiveUp(l) ==
    /\ plan' = IF l.shared THEN [plan EXCEPT !.single = @ \cup l.serves] ELSE plan
    /\ todo' = IF l.shared THEN Rest(plan') ELSE {}
Step(i) == todo' = todo \ {i} /\ UNCHANGED plan

\* Assumed of the kernel: the pid of a new process is that of no process still there,
\* and not one the registry remembers an answer for; pids are handed out in turn, and
\* none comes round again within GATE_TTL.
Fresh == {p \in Pids : phase[p] = "free" /\ gate[p] = "none"}

Taken(l) == CASE l.slot = Shared -> Videos \cup {Paper}
              [] l.slot \in Stills \cup Videos \cup {Base, Paper} -> {l.slot}
              [] OTHER -> {}

\* RendererLaunchSpec::spawn, and the reuse of a live renderer that precedes it
Spawn ==
    /\ \E i \in Reached("spawn") :
          LET l == i.launch
              taken == {s \in Taken(l) : slot[s] # Nobody}
          IN \/ \E p \in Fresh :
                  /\ \A q \in Fresh : p <= q
                  /\ slot' = [Without(taken) EXCEPT ![l.slot] = p]
                  /\ marks' = IF l.slot \in Videos
                              THEN (marks \ (Taken(l) \cup {l.slot})) \cup
                                   (IF l.scene THEN {l.slot} ELSE {})
                              ELSE marks
                  /\ open' = open \cup {[launch |-> l, pid |-> p, from |-> Only(slot, taken),
                                         marks |-> marks \cap taken]}
                  /\ phase' = [phase EXCEPT ![p] = IF l.hidden THEN "preloading" ELSE "loading"]
                  /\ role' = [role EXCEPT ![p] = l]
                  /\ Step(i)
             \/ GiveUp(l) /\ UNCHANGED <<slot, marks, open, phase, role>>
    /\ UNCHANGED <<gate, assigned, prior, outcome, quiet>>

Reuse ==
    /\ \E i \in Reached("spawn") :
          LET l == i.launch
              together == {j.launch : j \in {k \in todo : k.launch.keep = l.keep}}
          IN /\ l.keep # {} /\ \A s \in l.keep : Alive(s) /\ (s \in marks <=> l.scene)
             /\ \A t \in open : t.launch.keep # l.keep
             /\ \/ /\ todo' = {j \in todo : j.launch \notin together}
                   /\ plan' = [plan EXCEPT !.kept = @ \cup together]
                   /\ assigned' = IF plan.op = "reconcile" THEN HandedOver(plan, l) ELSE assigned
                \* the swap of "*" or of a scene is waited for, and fails the request
                \/ plan.op \in {"video", "we"} /\ GiveUp(l) /\ UNCHANGED assigned
    /\ UNCHANGED <<slot, marks, phase, role, gate, open, prior, outcome, quiet>>

\* candidate_alive: a detached overlay that has ended well also counts
CandidateAlive(t) == slot[t.launch.slot] = t.pid /\
    (phase[t.pid] # "dead" \/ t.launch.slot \notin Installed)
CandidateGone(t) == slot[t.launch.slot] # t.pid \/ phase[t.pid] = "dead"

\* mutant: the wait has no timeout
RefusedOnly(p) == gate[p] = "err"
Unready(p) == gate[p] # "ok"

\* RendererStartup::wait_ready: the gate's result, or the timeout.  Only the
\* first wait of a shared renderer falls back.
Wait ==
    /\ \E i \in Reached("wait") \cup Reached("answer") : \E t \in Of(i.launch) :
          \/ /\ gate[t.pid] = "ok" /\ CandidateAlive(t) /\ Step(i)
             /\ gate' = [gate EXCEPT ![t.pid] = "none"] /\ UNCHANGED <<slot, marks, phase, role, open>>
          \/ /\ Unready(t.pid) \/ CandidateGone(t)
             /\ IF i.do = "wait" /\ t.launch.shared THEN GiveUp(t.launch) /\ Undo(t)
                ELSE /\ todo' = {} /\ gate' = [gate EXCEPT ![t.pid] = "none"]
                     /\ UNCHANGED <<plan, slot, marks, phase, role, open>>
    /\ UNCHANGED <<assigned, prior, outcome, quiet>>

\* mutant: a hidden candidate is never revealed
RevealNothing ==
    /\ \E i \in Reached("reveal") : Step(i)
    /\ UNCHANGED <<slot, marks, phase, role, gate, open, assigned, prior, outcome, quiet>>

\* ReadyRenderer::reveal_still: a second round of the gate
Reveal ==
    /\ \E i \in Reached("reveal") : \E t \in Of(i.launch) :
          \/ ~t.launch.hidden /\ Step(i) /\ UNCHANGED <<gate, phase>>
          \/ /\ t.launch.hidden /\ gate' = [gate EXCEPT ![t.pid] = "none"]
             /\ \/ /\ slot[t.launch.slot] = t.pid
                   /\ phase' = [phase EXCEPT ![t.pid] = IF @ = "hidden" THEN "revealing" ELSE @]
                   /\ todo' = (todo \ {i}) \cup {[i EXCEPT !.do = "answer"]} /\ UNCHANGED plan
                \* the command could not be written, or the candidate is gone
                \/ todo' = {} /\ UNCHANGED <<plan, phase>>
    /\ UNCHANGED <<slot, marks, role, open, assigned, prior, outcome, quiet>>

\* ReadyRenderer::prepare_commit and PreparedRenderer::start_transition
Prepare ==
    /\ \E i \in Reached("prepare") \cup Reached("start") : \E t \in Of(i.launch) :
          \/ CandidateAlive(t) /\ Step(i)
          \/ /\ CandidateGone(t) \/ i.do = "start"
             /\ todo' = {} /\ UNCHANGED plan
    /\ UNCHANGED <<slot, marks, phase, role, gate, open, assigned, prior, outcome, quiet>>

\* PreparedRenderer::finalize, with PreparedHandoff::finalize
Commit ==
    /\ \E i \in Reached("commit") : \E t \in Of(i.launch) :
          /\ open' = open \ {t}
          /\ Kill(Range(t.from))
          /\ IF t.launch.slot \in Installed THEN UNCHANGED <<slot, linger>>
             ELSE slot' = Without({t.launch.slot}) /\ linger' = linger \cup {t.pid}
          /\ assigned' = IF plan.op = "reconcile" THEN HandedOver(plan, t.launch) ELSE assigned
          /\ Step(i)
    /\ UNCHANGED <<marks, gate, prior, outcome, weRender, timers, deferred, live,
                   used>>

\* the assignments once the whole program has run
Settled ==
    IF plan.op = "reconcile"
    THEN LET multi == {t \in open : t.launch.slot = Multi} IN
         [k \in DOMAIN assigned |->
            IF k = Multi /\ multi # {} THEN HandedOver(plan, (CHOOSE t \in multi : TRUE).launch)[Multi]
            ELSE IF k \in DOMAIN plan.want THEN plan.want[k] ELSE assigned[k]]
    ELSE IF plan.op = "we"
    THEN [k \in DOMAIN assigned |-> IF k \in DOMAIN plan.want THEN plan.want[k] ELSE assigned[k]]
    ELSE AllAssigned(plan)

\* the kills and retains at the end of each request
Tidy ==
    /\ Reached("tail") # {}
    /\ slot' = Without(Emptied(plan))
    /\ marks' = marks \ Emptied(plan)
    /\ Kill(In(Emptied(plan) \ Deferred(plan)))
    /\ deferred' = deferred \cup In(Deferred(plan))
    /\ timers' = timers \cup In({Paper} \cap Keeps(plan))
    /\ weRender' = IF plan.op \in {"reconcile", "we"} THEN WeGroups(plan) ELSE {}
    /\ assigned' = Settled
    /\ outcome' = "ok" /\ todo' = {} /\ plan' = NoPlan /\ prior' = assigned'
    /\ UNCHANGED <<gate, open, linger, live, used>>

\* <RendererTransaction as Drop>::drop
Drop ==
    /\ outcome = "running" /\ todo = {}
    /\ \E t \in open : Undo(t)
    /\ UNCHANGED <<assigned, plan, todo, prior, outcome, quiet>>

\* mutant: the old assignments are not put back
FailKeeps ==
    /\ outcome = "running" /\ todo = {} /\ open = {}
    /\ outcome' = "error" /\ plan' = NoPlan /\ prior' = assigned
    /\ UNCHANGED <<slot, marks, assigned, phase, role, gate, open, todo, quiet>>

\* the error reaches the caller
Fail ==
    /\ outcome = "running" /\ todo = {} /\ open = {}
    /\ assigned' = IF plan.op \in {"static", "video"} THEN prior ELSE assigned
    /\ outcome' = "error" /\ plan' = NoPlan /\ prior' = assigned'
    /\ UNCHANGED <<slot, marks, phase, role, gate, open, todo, quiet>>

--------------------------------------------------------------------------------
program == <<slot, marks, assigned, open, plan, todo, prior, outcome>>

\* PAPER_READY and PAPER_FAILED: the first result of a process is latched
Signal(p, result) ==
    /\ phase[p] \in Answering
    /\ gate' = [gate EXCEPT ![p] = IF @ = "none" THEN result ELSE @]
    /\ phase' = [phase EXCEPT ![p] = IF result = "err" THEN "broken"
                                     ELSE IF @ = "preloading" THEN "hidden" ELSE "up"]
    /\ UNCHANGED <<program, role, quiet>>

\* a renderer exits by itself
Exit(p) ==
    /\ phase[p] \notin {"free", "dead"}
    /\ used.exits < MaxExits /\ used' = [used EXCEPT !.exits = @ + 1]
    /\ phase' = [phase EXCEPT ![p] = "dead"]
    /\ UNCHANGED <<program, role, gate, weRender, timers, deferred, linger, live>>

\* reap_exited_paper (at every RPC) and reap_exited
Reap ==
    /\ \E S \in {{Paper}, Installed} :
          LET exited == {s \in S : slot[s] # Nobody /\ ~Alive(s)} IN
          /\ exited # {}
          /\ slot' = Without(exited) /\ marks' = marks \ exited
          /\ Kill(In(exited))
    /\ UNCHANGED <<assigned, gate, open, plan, todo, prior, outcome, quiet>>

\* retire_paper_after: the pid check is made when the thread wakes up
RetirePaper(p) ==
    /\ p \in timers /\ timers' = timers \ {p}
    /\ IF slot[Paper] = p THEN slot' = Without({Paper}) /\ Kill({p})
       ELSE UNCHANGED <<slot, phase, role>>
    /\ UNCHANGED <<marks, assigned, gate, open, plan, todo, prior, outcome,
                   weRender, deferred, linger, live, used>>

\* defer_kill_after_swap, defer_kill_stills; the linger thread of an overlay
ReleaseDeferred(p) ==
    /\ \/ p \in deferred /\ deferred' = deferred \ {p} /\ UNCHANGED linger
       \/ p \in linger /\ linger' = linger \ {p} /\ UNCHANGED deferred
    /\ Kill({p})
    /\ UNCHANGED <<program, gate, weRender, timers, live, used>>

\* The renderer part of restore_pass: kill_departed_outputs (which looks for the
\* key of a shared renderer among the output names), the assignments that
\* remain, and the shared renderers that no longer fit.
DepartedSlots(now) == {s \in Stills \cup Videos : s[2] # {} /\ ~\E o \in now : s[2] = {o}}
Hotplug ==
    /\ Idle /\ todo = {}
    /\ \E now \in Groups :
        LET lost == assigned[Multi] # Blank /\ \E e \in assigned[Multi] : e[1] \notin now
            kept(k) == IF k = Multi THEN ~lost
                       ELSE k \in now /\ ~(lost /\ \E e \in assigned[Multi] : e[1] = k)
            unassigned == \E o \in now : assigned[o] = Blank \/ ~kept(o)
            gone == DepartedSlots(now) \cup (IF lost THEN {Multi} ELSE {})
                    \cup (IF unassigned /\ Alive(Shared) THEN {Shared} ELSE {})
        IN /\ live' = now
           /\ assigned' = [k \in DOMAIN assigned |-> IF kept(k) THEN assigned[k] ELSE Blank]
           /\ slot' = Without(gone) /\ marks' = marks \ gone /\ Kill(In(gone))
    /\ prior' = assigned'
    /\ UNCHANGED <<gate, open, plan, todo, outcome, weRender, timers, deferred,
                   linger, used>>

Run == Spawn \/ Reuse \/ Wait \/ Reveal \/ Prepare \/ Commit \/ Tidy \/ Drop \/ Fail
Next == \/ \E q \in Requests : Start(q)
        \/ Run
        \/ \E p \in Pids : \/ \E result \in {"ok", "err"} : Signal(p, result)
                           \/ Exit(p) \/ RetirePaper(p) \/ ReleaseDeferred(p)
        \/ Reap \/ Hotplug
Spec == Init /\ [][Next]_vars
\* The waits have timeouts and the threads sleep for a bounded time.
FairSpec == Spec /\ WF_vars(Run)
                 /\ \A p \in Pids : WF_vars(RetirePaper(p)) /\ WF_vars(ReleaseDeferred(p))

--------------------------------------------------------------------------------
(* Properties *)

Undone ==
    [s \in Installed |->
        IF \E t \in open : s \in DOMAIN t.from
        THEN (CHOOSE t \in open : s \in DOMAIN t.from).from[s]
        ELSE IF \E t \in open : s = t.launch.slot /\ slot[s] = t.pid THEN Nobody ELSE slot[s]]
UndoneMarks == (marks \ {t.launch.slot : t \in open}) \cup UNION {t.marks : t \in open}
Final == [s \in Installed |-> IF s \in Emptied(plan) THEN Nobody ELSE slot[s]]

\* A request is all or nothing: seen through its open transactions, it replaces
\* the renderers, the scene marks and the assignments in one step or in none.
Boundary == INSTANCE RendererBoundary WITH
    Places <- Installed, Overlay <- Paper,
    world <- IF Committing THEN Final ELSE Undone,
    marks <- IF Committing THEN marks \ Emptied(plan) ELSE UndoneMarks,
    assigned <- IF Committing THEN Settled ELSE IF Idle THEN assigned ELSE prior,
    exited <- {p \in Pids : phase[p] = "dead"},
    outcome <- IF Committing THEN "ok" ELSE outcome
AllOrNothing == Boundary!Spec

\* Every process has exactly one holder that will kill or collect it: a slot, a
\* transaction that displaced it, or a thread.  None leaks, none is held twice.
Holders(p) ==
    {<<"slot", s>> : s \in {x \in Slots : slot[x] = p}}
    \cup {<<"displaced", t.launch.slot>> : t \in {x \in open : p \in Range(x.from)}}
    \cup {<<"thread", "deferred">> : q \in {p} \cap deferred}
    \cup {<<"thread", "linger">> : q \in {p} \cap linger}
Owned == \A p \in Pids : Cardinality(Holders(p)) = IF phase[p] = "free" THEN 0 ELSE 1

\* Between requests no output is drawn by two renderers, and the scene marks
\* name exactly the native scenes.
OneRenderer == Idle =>
    /\ \A s \in Installed, x \in Installed :
          s # x /\ slot[s] # Nobody /\ slot[x] # Nobody =>
             role[slot[s]].serves \cap role[slot[x]].serves = {}
    /\ \A s \in Videos : slot[s] # Nobody => (s \in marks <=> role[slot[s]].scene)
    /\ \A s \in Installed : slot[s] # Nobody => phase[slot[s]] \notin Answering \cup {"hidden"}

\* When a request passes the point of no return, each output it was asked for
\* has a candidate of the right kind that has answered its last command, or a
\* renderer that was kept.
CommitCovers == [][~Committing /\ Committing' =>
    \A o \in DOMAIN plan'.want :
        LET fits(l) == o \in l.serves /\ (l.scene <=> Kind[plan'.want[o]] = "we") IN
        \/ \E l \in plan'.kept : fits(l)
        \/ \E t \in open' : fits(t.launch) /\
                phase'[t.pid] \notin Answering \cup {"hidden", "broken"}]_vars

\* A renderer that was taken out of its slot is put back or stopped in the end,
\* and so is a candidate: no request and no retirement hangs.
Settled1(p) == phase[p] = "free" \/ (Idle /\ p \in In(Installed))
Settles == \A p \in Pids : []<>Settled1(p)

\* Between requests a renderer whose outputs all stay connected, and keep their
\* assignments, keeps running: the test departed_output_renderers_are_killed says
\* "renderer must survive its output staying connected" (renderers/tests.rs:186).
SurvivesConnected == [][Idle /\ Idle' =>
    \A s \in Stills \cup Videos :
        s[2] # {} /\ Alive(s) /\ s[2] \subseteq live' /\ (\A o \in s[2] : assigned'[o] = assigned[o])
        => slot'[s] = slot[s]]_vars
=============================================================================
