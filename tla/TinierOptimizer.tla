--------------------------- MODULE TinierOptimizer ---------------------------
(***************************************************************************)
(* VideoOptimizer of skwd-walld: requests to prepare a video for the       *)
(* tinier player share works, one runner converts one work at a time under *)
(* the gate it shares with the image optimizer, and a task can be stopped. *)
(* The handler thread of wall.apply makes the requests one after another;  *)
(* stops come from the connection threads.  A work is named after the      *)
(* request that created it.                                                *)
(***************************************************************************)
EXTENDS Naturals, Sequences, FiniteSets, SequencesExt

CONSTANTS Requests,   \* the calls of prepare
          Stops,      \* the calls of stop
          Sources,    \* the videos; a source also names its task
          SourceOf,   \* the video of each request and each stop
          Replaces,   \* the requests with replace: no activity is named
          None

ASSUME TinierAssumption ==
    /\ SourceOf \in [Requests \cup Stops -> Sources] /\ Requests \cap Stops = {}
    /\ Replaces \subseteq Requests /\ None \notin Requests

VARIABLES
    queue,     \* VideoOptimizer::queue
    running,   \* VideoOptimizer::running
    current,   \* VideoOptimizer::current_tinier
    gate,      \* work_gate: "free", or held for the "images" or a "video"
    cancelled, interactive, result,  \* fields of the works
    tasks,     \* the state of each source's task in the TaskRegistry
    runner,    \* where the runner is
    job,       \* the work it has popped
    outcome,   \* what converting that work gave
    pc,        \* where each request and each stop is
    work,      \* the work a request found, or a stop took from the queue
    clock, rank  \* history: when a replacing request last put a work first

flags == <<cancelled, interactive>>
run == <<runner, job, outcome>>
calls == <<pc, work>>
ghost == <<clock, rank>>
vars == <<queue, running, current, gate, cancelled, interactive, result, tasks,
          runner, job, outcome, pc, work, clock, rank>>

Results == {"ok", "cancelled", "failed"}

TypeOK ==
    /\ queue \in Seq(Requests)
    /\ running \in BOOLEAN
    /\ current \in Requests \cup {None} /\ job \in Requests \cup {None}
    /\ gate \in {"free", "images", "video"}
    /\ cancelled \in [Requests -> BOOLEAN] /\ interactive \in [Requests -> BOOLEAN]
    /\ result \in [Requests -> Results \cup {None}]
    /\ tasks \in [Sources -> {None, "running", "completed", "cancelled", "failed"}]
    /\ runner \in {"off", "popping", "popped", "deselected", "starting", "encoding", "checking",
                   "converted", "reported", "clearing"}
    /\ outcome \in Results \cup {None}
    /\ pc \in [Requests \cup Stops -> {"idle", "finding", "found", "subscribed", "published",
                   "waiting", "queue", "removed", "finished", "stopped", "refused"}]
    /\ work \in [Requests \cup Stops -> Requests \cup {None}]
    /\ clock \in Nat /\ rank \in [Requests -> Nat]

Init ==
    /\ queue = <<>> /\ running = FALSE /\ current = None /\ gate = "free"
    /\ cancelled = [w \in Requests |-> FALSE] /\ interactive = [w \in Requests |-> FALSE]
    /\ result = [w \in Requests |-> None]
    /\ tasks = [s \in Sources |-> None]
    /\ runner = "off" /\ job = None /\ outcome = None
    /\ pc = [c \in Requests \cup Stops |-> "idle"]
    /\ work = [c \in Requests \cup Stops |-> None]
    /\ clock = 0 /\ rank = [w \in Requests |-> 0]

Goto(c, to) == pc' = [pc EXCEPT ![c] = to]
Run(to) == runner' = to
\* the work is taken out from where it is in the queue
Without(w) == IF \A i \in DOMAIN queue : queue[i] # w THEN queue
              ELSE RemoveAt(queue, CHOOSE i \in DOMAIN queue : queue[i] = w)
Queued(s) == {w \in Requests : SourceOf[w] = s /\ \E i \in DOMAIN queue : queue[i] = w}
\* TaskRegistry::finish: a task nobody has published yet is not added
FinishTask(s, state) == tasks' = [tasks EXCEPT ![s] = IF @ = None THEN None ELSE state]
\* TinierWork::finish: every subscriber receives the result, later ones at once
Finish(w, r) == result' = [result EXCEPT ![w] = r]

-----------------------------------------------------------------------------
(* prepare, on the thread that runs the apply requests.                    *)

\* find_or_queue first looks at the conversion in progress.
FindCurrent(r) ==
    /\ pc[r] = "idle" /\ \A q \in Requests : pc[q] \in {"idle", "waiting"}
    /\ IF current # None /\ SourceOf[current] = SourceOf[r] /\ ~cancelled[current]
       THEN work' = [work EXCEPT ![r] = current] /\ Goto(r, "found")
       ELSE Goto(r, "finding") /\ UNCHANGED work
    /\ UNCHANGED <<queue, running, current, gate, flags, result, tasks, run, ghost>>

\* it then looks at the queue: an ordinary request shares a queued work or adds one,
FindOrAppend(r) ==
    /\ pc[r] = "finding" /\ r \notin Replaces
    /\ LET same == Queued(SourceOf[r])
           w == IF same = {} THEN r ELSE CHOOSE v \in same : TRUE
       IN  /\ queue' = IF same = {} THEN Append(queue, r) ELSE queue
           /\ work' = [work EXCEPT ![r] = w]
    /\ Goto(r, "found")
    /\ UNCHANGED <<running, current, gate, flags, result, tasks, run, ghost>>

\* a replacing request is added behind the others
MutPlace(w) == Append(Without(w), w)
Place(w) == <<w>> \o Without(w)

\* and a replacing one stops the conversion in progress and goes to the front.
FindOrReplace(r) ==
    /\ pc[r] = "finding" /\ r \in Replaces
    /\ cancelled' = [w \in Requests |-> cancelled[w] \/ w = current]
    /\ LET same == Queued(SourceOf[r])
           w == IF same = {} THEN r ELSE CHOOSE v \in same : TRUE
       IN  /\ queue' = Place(w)
           /\ work' = [work EXCEPT ![r] = w]
           /\ rank' = [rank EXCEPT ![w] = clock + 1]
    /\ clock' = clock + 1
    /\ Goto(r, "found")
    /\ UNCHANGED <<running, current, gate, interactive, result, tasks, run>>

Subscribe(r) ==
    /\ pc[r] = "found"
    /\ interactive' = [interactive EXCEPT ![work[r]] = TRUE]
    /\ Goto(r, "subscribed")
    /\ UNCHANGED <<queue, running, current, gate, cancelled, result, tasks, run, work,
                   ghost>>

\* publish_task(.., "Queued"), whatever became of the work meanwhile
PublishQueued(r) ==
    /\ pc[r] = "subscribed"
    /\ tasks' = [tasks EXCEPT ![SourceOf[r]] = "running"]
    /\ Goto(r, "published")
    /\ UNCHANGED <<queue, running, current, gate, flags, result, run, work, ghost>>

\* spawn_next; the caller then waits on the receiver in a thread of its own.
SpawnNext(r) ==
    /\ pc[r] = "published"
    /\ running' = TRUE
    /\ IF running THEN UNCHANGED runner ELSE Run("popping")
    /\ Goto(r, "waiting")
    /\ UNCHANGED <<queue, current, gate, flags, result, tasks, job, outcome, work, ghost>>

-----------------------------------------------------------------------------
(* The runner.                                                             *)

\* the runner stops without clearing the flag that says it runs
MutPop ==
    /\ runner = "popping"
    /\ IF queue = <<>> THEN Run("off") /\ UNCHANGED <<queue, job>>
       ELSE job' = Head(queue) /\ queue' = Tail(queue) /\ Run("popped")
    /\ UNCHANGED <<running, current, gate, flags, result, tasks, outcome, calls, ghost>>

\* pop_task
Pop ==
    /\ runner = "popping"
    /\ IF queue = <<>>
       THEN running' = FALSE /\ Run("off") /\ UNCHANGED <<queue, job>>
       ELSE job' = Head(queue) /\ queue' = Tail(queue) /\ Run("popped") /\ UNCHANGED running
    /\ UNCHANGED <<current, gate, flags, result, tasks, outcome, calls, ghost>>

\* run_task takes the gate, and the user may have chosen another engine
\* since.
TakeGate ==
    /\ runner = "popped" /\ gate = "free"
    /\ gate' = "video"
    /\ \/ Run("starting") /\ UNCHANGED outcome
       \/ Run("deselected") /\ outcome' = "failed"
    /\ UNCHANGED <<queue, running, current, flags, result, tasks, job, calls, ghost>>

Deselected ==
    /\ runner = "deselected"
    /\ IF interactive[job] THEN FinishTask(SourceOf[job], "cancelled") ELSE UNCHANGED tasks
    /\ Run("reported")
    /\ UNCHANGED <<queue, running, current, gate, flags, result, job, outcome, calls,
                   ghost>>

PublishRunning == IF interactive[job] THEN tasks' = [tasks EXCEPT ![SourceOf[job]] = "running"]
                  ELSE UNCHANGED tasks

\* The work becomes the current one; probing it may fail before ffmpeg starts.
Start ==
    /\ runner = "starting"
    /\ current' = job
    /\ PublishRunning
    /\ \/ Run("encoding") /\ UNCHANGED outcome
       \/ Run("converted") /\ outcome' = "failed"
    /\ UNCHANGED <<queue, running, gate, flags, result, job, calls, ghost>>

\* A line of ffmpeg's progress: a cancelled work is killed, else progress is shown;
\* or the last line.
Encode ==
    /\ runner = "encoding"
    /\ \/ cancelled[job] /\ Run("converted") /\ outcome' = "cancelled" /\ UNCHANGED tasks
       \/ ~cancelled[job] /\ PublishRunning /\ UNCHANGED <<runner, outcome>>
       \/ Run("checking") /\ UNCHANGED <<tasks, outcome>>
    /\ UNCHANGED <<queue, running, current, gate, flags, result, job, calls, ghost>>

\* the flag is not looked at again when ffmpeg has no more to say
MutVerdicts == {"ok", "failed"}
\* run_tinier_encoder's last look at the flag, then the validation and the record
Verdicts == IF cancelled[job] THEN {"cancelled"} ELSE {"ok", "failed"}

Check ==
    /\ runner = "checking"
    /\ outcome' \in Verdicts
    /\ Run("converted")
    /\ UNCHANGED <<queue, running, current, gate, flags, result, tasks, job, calls, ghost>>

\* run_task tells the registry and then the subscribers.
Report ==
    /\ runner = "converted"
    /\ LET state == IF outcome = "ok" THEN "completed"
                    ELSE IF cancelled[job] THEN "cancelled" ELSE "failed"
       IN  IF interactive[job] THEN FinishTask(SourceOf[job], state) ELSE UNCHANGED tasks
    /\ Run("reported")
    /\ UNCHANGED <<queue, running, current, gate, flags, result, job, outcome, calls,
                   ghost>>

FinishWork ==
    /\ runner = "reported"
    /\ Finish(job, outcome)
    /\ Run("clearing")
    /\ UNCHANGED <<queue, running, current, gate, flags, tasks, job, outcome, calls,
                   ghost>>

\* Forget the current work, release the gate, pop again.
Clear ==
    /\ runner = "clearing"
    /\ current' = IF current = job THEN None ELSE current
    /\ gate' = "free" /\ job' = None /\ outcome' = None
    /\ Run("popping")
    /\ UNCHANGED <<queue, running, flags, result, tasks, calls, ghost>>

-----------------------------------------------------------------------------
(* stop, on a connection's thread.                                         *)

StopCurrent(t) ==
    /\ pc[t] = "idle"
    /\ IF current # None /\ SourceOf[current] = SourceOf[t]
       THEN cancelled' = [cancelled EXCEPT ![current] = TRUE] /\ Goto(t, "stopped")
       ELSE Goto(t, "queue") /\ UNCHANGED cancelled
    /\ UNCHANGED <<queue, running, current, gate, interactive, result, tasks, run, work,
                   ghost>>

StopQueued(t) ==
    /\ pc[t] = "queue"
    /\ \/ \E w \in Queued(SourceOf[t]) :
             /\ queue' = Without(w)
             /\ work' = [work EXCEPT ![t] = w]
             /\ Goto(t, "removed")
       \/ Queued(SourceOf[t]) = {} /\ Goto(t, "refused") /\ UNCHANGED <<queue, work>>
    /\ UNCHANGED <<running, current, gate, flags, result, tasks, run, ghost>>

StopFinish(t) ==
    /\ pc[t] = "removed"
    /\ Finish(work[t], "cancelled")
    /\ Goto(t, "finished")
    /\ UNCHANGED <<queue, running, current, gate, flags, tasks, run, work, ghost>>

StopTask(t) ==
    /\ pc[t] = "finished"
    /\ FinishTask(SourceOf[t], "cancelled")
    /\ Goto(t, "stopped")
    /\ UNCHANGED <<queue, running, current, gate, flags, result, run, work, ghost>>

-----------------------------------------------------------------------------
\* The image optimizer's batches take the same gate.
ImagesTake ==
    /\ gate = "free" /\ gate' = "images"
    /\ UNCHANGED <<queue, running, current, flags, result, tasks, run, calls, ghost>>

ImagesRelease ==
    /\ gate = "images" /\ gate' = "free"
    /\ UNCHANGED <<queue, running, current, flags, result, tasks, run, calls, ghost>>

Prepare(r) == FindCurrent(r) \/ FindOrAppend(r) \/ FindOrReplace(r) \/ Subscribe(r)
              \/ PublishQueued(r) \/ SpawnNext(r)
Runner == Pop \/ Deselected \/ Start \/ Check \/ Report \/ FinishWork \/ Clear
Stop(t) == StopCurrent(t) \/ StopQueued(t) \/ StopFinish(t) \/ StopTask(t)

Next ==
    \/ \E r \in Requests : Prepare(r)
    \/ Runner \/ TakeGate \/ Encode
    \/ \E t \in Stops : Stop(t)
    \/ ImagesTake \/ ImagesRelease

\* The runner goes on, ffmpeg ends, an image batch ends and the gate is not always
\* taken by the next one first; a call that has begun ends.
Spec ==
    /\ Init /\ [][Next]_vars
    /\ WF_vars(Runner) /\ SF_vars(TakeGate) /\ WF_vars(Encode /\ runner' # "encoding")
    /\ WF_vars(ImagesRelease)
    /\ \A r \in Requests : WF_vars(pc[r] # "idle" /\ Prepare(r))
    /\ \A t \in Stops : WF_vars(pc[t] # "idle" /\ Stop(t))

-----------------------------------------------------------------------------
Answered(r) == pc[r] = "waiting" /\ result[work[r]] # None

(* Every preparation is answered, whether its work was new, shared with a  *)
(* queued one, shared with one that ended that very moment, stopped, or    *)
(* queued while the runner was going away (subscribe, spawn_next,          *)
(* pop_task): otherwise its deferred apply would wait for ever.            *)
EveryPreparationAnswered == \A r \in Requests : pc[r] # "idle" ~> Answered(r)

(* A work that is stopped or replaced before ffmpeg is looked at for the   *)
(* last time is never reported as prepared (stop, find_or_queue,           *)
(* run_tinier_encoder).                                                    *)
StopTakes ==
    \A w \in Requests :
        (job = w /\ runner \in {"encoding", "checking"} /\ cancelled[w])
            ~> (result[w] \in {"cancelled", "failed"})

(* The queue holds the works of replacing requests, the newest first, and  *)
(* then the others; no work twice; and none that has been answered, is     *)
(* being converted or has been stopped (find_or_queue, pop_task, stop).    *)
QueueOrder ==
    /\ \A i, j \in DOMAIN queue : i < j =>
          /\ queue[i] # queue[j]
          /\ rank[queue[i]] > rank[queue[j]] \/ rank[queue[j]] = 0
    /\ \A i \in DOMAIN queue : queue[i] # job /\ result[queue[i]] = None

(* A task that the registry shows running, and so with the capability to   *)
(* stop, is not refused a stop while its work has not ended                *)
(* (tinier_task_status, stop).                                             *)
RunningTasksStop ==
    [][\A t \in Stops : pc[t] = "queue" /\ pc'[t] = "refused" =>
          ~ /\ tasks[SourceOf[t]] = "running"
            /\ job # None /\ SourceOf[job] = SourceOf[t] /\ interactive[job]
            /\ result[job] = None]_vars
=============================================================================
