-------------------------------- MODULE Apply --------------------------------
(***************************************************************************)
(* The apply pipeline of skwd-walld: every source of a wallpaper (a user   *)
(* request, a deferred one whose video is still being prepared, a rotation *)
(* or schedule tick, the startup restore, a hotplug) runs through          *)
(* apply_core under one lock, and claims a generation before it renders.   *)
(* An attempt is one call of that pipeline with its caller.  Its wallpaper *)
(* is the attempt itself.                                                  *)
(***************************************************************************)
EXTENDS Naturals, Sequences, FiniteSets

CONSTANTS Attempts,     \* the attempts to apply something
          Mode,         \* what kind of caller each attempt has
          OutputOf,     \* the output each attempt names, or All
          Outputs,      \* the connected outputs
          OutputOrder,  \* the sequence in which outputs::names() gives them
          All,          \* the output name that means every output
          Lockable,     \* the outputs the user locks and unlocks
          MaxTries,     \* 1 + the number of RESTORE_RETRY_DELAYS
          Casts,        \* the sets of attempts that may meet in one behaviour
          Free,         \* nobody holds the apply lock
          Blank,        \* what an output without a renderer shows
          Old           \* the wallpaper of the previous session

Modes == {"user", "override", "deferred", "intent", "rotation", "restore", "hotplug"}

ASSUME AttemptsAssumption ==
    /\ Mode \in [Attempts -> Modes]
    /\ OutputOf \in [Attempts -> Outputs \cup {All}] /\ All \notin Outputs
    /\ Free \notin Attempts /\ Blank \notin Attempts \cup {Old} /\ Old \notin Attempts
    /\ MaxTries \in Nat \ {0} /\ Lockable \subseteq Outputs
    /\ Casts \subseteq SUBSET Attempts
    /\ OutputOrder \in Seq(Outputs)
    /\ \A o \in Outputs : \E i \in DOMAIN OutputOrder : OutputOrder[i] = o

VARIABLES
    pc,                \* where each attempt is
    lock,              \* who holds ApplyRuntime::lock
    generation,        \* ApplyRuntime::generation
    intents,           \* the attempts whose ApplyIntent is in Intents::targets
    restoreCancelled,  \* ApplyRuntime::restore_cancelled
    expected,          \* the generation a deferred attempt expects to find
    claimed,           \* the generation an attempt claimed
    locked,            \* the outputs locked in the configuration
    preserved,         \* the locked outputs an attempt has seen
    desired,           \* outputs.json
    previous,          \* a fan-out's previous_desired
    shown,             \* what the renderers show
    remembered,        \* the wallpaper recorded for each monitor at a commit
    todo,              \* the outputs a restore pass has yet to apply
    failedGroup,       \* whether a group of the pass failed
    tries,             \* how many more passes the restore may start
    clock, stamp, top  \* history: the order of requests, see NewestWins

runtime == <<lock, generation, intents, restoreCancelled>>
tokens == <<expected, claimed, preserved, previous>>
pass == <<todo, failedGroup, tries>>
screen == <<desired, shown, remembered>>
ghost == <<clock, stamp, top>>
vars == <<pc, lock, generation, intents, restoreCancelled, expected, claimed, locked,
          preserved, desired, previous, shown, remembered, todo, failedGroup, tries,
          clock, stamp, top>>

Wallpapers == Attempts \cup {Old}
\* "halfway" is a failure that left some outputs changed: see TinierFailsHalfway.
Ended == {"done", "noop", "superseded", "failed", "halfway"}
\* The states in which an attempt has claimed its generation and not yet ended.
Authorized == {"staged", "claimed", "rendered", "rolling"}
InLock == {"locked", "planned"} \cup Authorized
Restores == {a \in Attempts : Mode[a] \in {"restore", "hotplug"}}

TypeOK ==
    /\ pc \in [Attempts -> {"absent", "idle", "accepted", "preparing", "entering", "waiting", "retrying"}
                           \cup InLock \cup Ended]
    /\ lock \in Attempts \cup {Free}
    /\ generation \in Nat /\ clock \in Nat
    /\ intents \subseteq Attempts
    /\ restoreCancelled \in BOOLEAN
    /\ expected \in [Attempts -> Nat] /\ claimed \in [Attempts -> Nat]
    /\ locked \subseteq Outputs
    /\ preserved \in [Attempts -> SUBSET Outputs]
    /\ desired \in [Outputs -> Wallpapers] /\ remembered \in [Outputs -> Wallpapers]
    /\ shown \in [Outputs -> Wallpapers \cup {Blank}]
    /\ previous \in [Attempts -> [Outputs -> Wallpapers]]
    /\ todo \in [Attempts -> SUBSET Outputs]
    /\ failedGroup \in [Attempts -> BOOLEAN]
    /\ tries \in [Attempts -> Nat]
    /\ stamp \in [Attempts -> Nat] /\ top \in [Outputs -> Nat]

\* An attempt that is not in the cast never starts.
Init ==
    /\ \E cast \in Casts : pc = [a \in Attempts |-> IF a \in cast THEN "idle" ELSE "absent"]
    /\ lock = Free /\ generation = 0 /\ intents = {} /\ restoreCancelled = FALSE
    /\ expected = [a \in Attempts |-> 0] /\ claimed = [a \in Attempts |-> 0]
    /\ locked \in SUBSET Lockable
    /\ preserved = [a \in Attempts |-> {}]
    /\ desired = [o \in Outputs |-> Old] /\ remembered = [o \in Outputs |-> Old]
    /\ previous = [a \in Attempts |-> [o \in Outputs |-> Old]]
    /\ shown = [o \in Outputs |-> Blank]
    /\ todo = [a \in Attempts |-> {}]
    /\ failedGroup = [a \in Attempts |-> FALSE]
    /\ tries = [a \in Attempts |-> IF Mode[a] = "restore" THEN MaxTries ELSE 1]
    /\ clock = 0 /\ stamp = [a \in Attempts |-> 0] /\ top = [o \in Outputs |-> 0]

Goto(a, to) == pc' = [pc EXCEPT ![a] = to]

\* The attempt ends; what its thread remembered is gone.
End(a, to) ==
    /\ Goto(a, to)
    /\ expected' = [expected EXCEPT ![a] = 0]
    /\ claimed' = [claimed EXCEPT ![a] = 0]
    /\ preserved' = [preserved EXCEPT ![a] = {}]
    /\ previous' = [previous EXCEPT ![a] = [o \in Outputs |-> Old]]
    /\ stamp' = [stamp EXCEPT ![a] = 0]

Unlock(a, to) == End(a, to) /\ lock' = Free

Targets(a) == IF OutputOf[a] = All THEN Outputs ELSE {OutputOf[a]}
RespectsLocks(a) == Mode[a] \in {"user", "deferred", "intent", "rotation"}
\* apply_locked_fanout is taken for "*" when some output is locked
FansOut(a) == OutputOf[a] = All /\ preserved[a] # {}

\* a fan-out renders as if no output were locked
MutAllOutputs(a) == Targets(a)
\* The outputs an apply is to change: the unlocked outputs of a fan-out, or its target.
Scope(a) == Targets(a) \ preserved[a]

-----------------------------------------------------------------------------
(* Before the lock.                                                        *)

\* a request takes its place without waiting for the apply in progress
MutNoLock == TRUE
\* The step holds ApplyRuntime::lock from its beginning to its end.
UnderBriefLock == lock = Free

\* ApplyQueue::submit accepts a wall.apply request: the restore is cancelled at
\* once, long before the request runs.
Accept(a) ==
    /\ pc[a] = "idle" /\ Mode[a] \in {"user", "override", "deferred", "intent"}
    /\ restoreCancelled' = TRUE
    /\ Goto(a, "accepted")
    /\ UNCHANGED <<lock, generation, intents, tokens, locked, screen, pass, ghost>>

\* Rotation, schedule and workspace ticks, and an accepted immediate request, go
\* straight to apply_core.
Enter(a) ==
    /\ \/ pc[a] = "idle" /\ Mode[a] = "rotation"
       \/ pc[a] = "accepted" /\ Mode[a] \in {"user", "override"}
    /\ Goto(a, "entering")
    /\ UNCHANGED <<runtime, tokens, locked, screen, pass, ghost>>

Stamp(a) == clock' = clock + 1 /\ stamp' = [stamp EXCEPT ![a] = clock + 1] /\ UNCHANGED top

\* wall_apply with a video to prepare: take the next generation under the lock,
\* which also forgets every intent, and prepare in the background.
Defer(a) ==
    /\ pc[a] = "accepted" /\ Mode[a] = "deferred" /\ UnderBriefLock
    /\ generation' = generation + 1
    /\ expected' = [expected EXCEPT ![a] = generation + 1]
    /\ intents' = {}
    /\ Stamp(a)
    /\ Goto(a, "preparing")
    /\ UNCHANGED <<lock, restoreCancelled, claimed, preserved, previous, locked, screen, pass>>

Overlap(a, b) == OutputOf[a] = All \/ OutputOf[b] = All \/ OutputOf[a] = OutputOf[b]

\* only an intent for the very same output is dropped
MutSameOutput(a) == {b \in intents : OutputOf[a] # OutputOf[b]}
\* Intents::targets.retain in ApplyRuntime::intent
Retained(a) == {b \in intents : ~Overlap(a, b)}

\* wall_apply for the current activity: register an intent under the lock.  It goes
\* on at once, or after a preparation in the background.
Intend(a) ==
    /\ pc[a] = "accepted" /\ Mode[a] = "intent" /\ UnderBriefLock
    /\ intents' = Retained(a) \cup {a}
    /\ Stamp(a)
    /\ \E to \in {"preparing", "entering"} : Goto(a, to)
    /\ UNCHANGED <<lock, generation, restoreCancelled, tokens, locked, screen, pass>>

\* ExpectedApply::current
Current(a) == IF Mode[a] = "intent" THEN a \in intents ELSE generation = expected[a]

\* a preparation that was superseded meanwhile is dropped without an answer
MutPreparedIfCurrent(a) ==
    /\ pc[a] = "preparing" /\ Current(a)
    /\ Goto(a, "entering")
    /\ UNCHANGED <<runtime, tokens, locked, screen, pass, ghost>>

\* The preparation answers.  preparation_terminal tells a superseded attempt from
\* a failed one, without the lock.
Prepared(a) ==
    /\ pc[a] = "preparing"
    /\ \/ Current(a) /\ Goto(a, "entering") /\ UNCHANGED <<tokens, stamp>>
       \/ Current(a) /\ End(a, "failed")
       \/ ~Current(a) /\ End(a, "superseded")
    /\ UNCHANGED <<runtime, locked, screen, pass, clock, top>>

\* The activity of the request is gone, so Target::enter fails.
NoTarget(a) ==
    /\ pc[a] = "entering" /\ Mode[a] = "intent"
    /\ End(a, "failed")
    /\ UNCHANGED <<runtime, locked, screen, pass, clock, top>>

\* apply_core looks at the output locks before it takes the apply lock.
ReadLocks(a) ==
    /\ pc[a] = "entering"
    /\ LET kept == IF RespectsLocks(a) THEN Targets(a) \cap locked ELSE {}
       IN  IF OutputOf[a] # All /\ kept # {}
           THEN End(a, "noop")
           ELSE /\ preserved' = [preserved EXCEPT ![a] = kept]
                /\ Goto(a, "waiting")
                /\ UNCHANGED <<expected, claimed, previous, stamp>>
    /\ UNCHANGED <<runtime, locked, screen, pass, clock, top>>

Lock(a) ==
    /\ pc[a] = "waiting" /\ lock = Free
    /\ lock' = a
    /\ Goto(a, "locked")
    /\ UNCHANGED <<generation, intents, restoreCancelled, tokens, locked, screen, pass, ghost>>

-----------------------------------------------------------------------------
(* Under the lock: apply_locked_fanout and apply_core_locked.              *)

\* sync_current fails, or every output of the fan-out is locked.
GiveUp(a) ==
    /\ pc[a] = "locked" /\ a \notin Restores
    /\ Unlock(a, IF FansOut(a) /\ Scope(a) = {} THEN "noop" ELSE "failed")
    /\ UNCHANGED <<generation, intents, restoreCancelled, locked, screen, pass, clock, top>>

Claimable(a) ==
    CASE Mode[a] = "intent" -> a \in intents
      [] Mode[a] = "deferred" -> generation = expected[a]
      [] OTHER -> TRUE

\* claim_intent takes its own intent away, next_generation all of them, and
\* claim_generation's compare-exchange none.
IntentsAfterClaim(a) ==
    CASE Mode[a] = "intent" -> intents \ {a}
      [] Mode[a] = "deferred" -> intents
      [] OTHER -> {}

\* claim_generation.  An attempt that expects nothing is requested when it claims.
Claim(a) ==
    /\ generation' = generation + 1
    /\ claimed' = [claimed EXCEPT ![a] = generation + 1]
    /\ intents' = IntentsAfterClaim(a)
    /\ IF Mode[a] \in {"intent", "deferred"} THEN UNCHANGED ghost ELSE Stamp(a)

\* A claim that comes too late is a SupersededApply.
TooLate(a) ==
    /\ pc[a] = "locked" /\ a \notin Restores
    /\ ~Claimable(a)
    /\ restoreCancelled' = IF FansOut(a) THEN restoreCancelled ELSE TRUE
    /\ Unlock(a, "superseded")
    /\ UNCHANGED <<generation, intents, locked, screen, pass, clock, top>>

\* A weather, schedule or rotation attempt may have lost its permission to an
\* outdoors session or a newer decision: a SupersededApply before any claim.
Refused(a) ==
    /\ pc[a] = "locked" /\ Mode[a] = "rotation" /\ ~FansOut(a)
    /\ Unlock(a, "superseded")
    /\ UNCHANGED <<generation, intents, restoreCancelled, locked, screen, pass, clock, top>>

\* apply_core_locked with GenerationRequest::Claim
ClaimPlain(a) ==
    /\ pc[a] = "locked" /\ a \notin Restores /\ ~FansOut(a)
    /\ Claimable(a)
    /\ restoreCancelled' = TRUE
    /\ Claim(a)
    /\ Goto(a, "claimed")
    /\ UNCHANGED <<lock, expected, preserved, previous, locked, screen, pass>>

\* apply_locked_fanout: claim, remember outputs.json, stage the unlocked outputs.
ClaimFanOut(a) ==
    /\ pc[a] = "locked" /\ a \notin Restores /\ FansOut(a) /\ Scope(a) # {}
    /\ Claimable(a)
    /\ Claim(a)
    /\ previous' = [previous EXCEPT ![a] = desired]
    /\ desired' = [o \in Outputs |-> IF o \in Scope(a) THEN a ELSE desired[o]]
    /\ Goto(a, "staged")
    /\ UNCHANGED <<lock, restoreCancelled, expected, preserved, locked, shown, remembered, pass>>

\* apply_core_locked with GenerationRequest::Reserved
EnterReserved(a) ==
    /\ pc[a] = "staged"
    /\ restoreCancelled' = TRUE
    /\ Goto(a, "claimed")
    /\ UNCHANGED <<lock, generation, intents, tokens, locked, screen, pass, ghost>>

\* The media arm fails before anything reached a renderer, or the renderers rolled
\* back and outputs.json with them.  A fan-out may also be refused here, like
\* Refused, with its outputs already staged.
Fails(a) ==
    /\ a \notin Restores
    /\ \/ pc[a] = "claimed" /\ ~FansOut(a) /\ Unlock(a, "failed")
       \/ /\ pc[a] = "claimed" \/ (pc[a] = "staged" /\ Mode[a] = "rotation")
          /\ FansOut(a) /\ Goto(a, "rolling")
          /\ UNCHANGED <<lock, tokens, stamp>>
    /\ UNCHANGED <<generation, intents, restoreCancelled, locked, screen, pass, clock, top>>

\* a failed fan-out leaves its outputs staged
MutKeepStaged(a) ==
    /\ pc[a] = "rolling"
    /\ Unlock(a, "failed")
    /\ UNCHANGED <<generation, intents, restoreCancelled, locked, screen, pass, clock, top>>

\* apply_locked_fanout's error path: put outputs.json back, and let
\* restore_renderer_snapshot try to render it.
RollBack(a) ==
    /\ pc[a] = "rolling"
    /\ desired' = previous[a]
    /\ shown' \in {shown, previous[a]}
    /\ Unlock(a, "failed")
    /\ UNCHANGED <<generation, intents, restoreCancelled, locked, remembered, pass, clock, top>>

\* Record the outputs in outputs.json, then reconcile every output with it.
Show(outs, wallpaper) ==
    /\ desired' = [o \in Outputs |-> IF o \in outs THEN wallpaper ELSE desired[o]]
    /\ shown' = desired'

\* The outputs a loop over outputs::names() has done when a later one fails.
FirstOutputs == {{OutputOrder[i] : i \in 1 .. n} : n \in 1 .. Len(OutputOrder) - 1}

RenderOk(a) ==
    /\ pc[a] = "claimed" /\ a \notin Restores
    /\ Show(Scope(a), a)
    /\ Goto(a, "rendered")
    /\ UNCHANGED <<runtime, tokens, locked, remembered, pass, ghost>>

\* A prepared video for every output is applied output by output: a failure leaves
\* the outputs before it changed, on the screen and in outputs.json.
TinierFailsHalfway(a) ==
    /\ pc[a] = "claimed" /\ a \notin Restores /\ OutputOf[a] = All /\ ~FansOut(a)
    /\ \E outs \in FirstOutputs : Show(outs, a)
    /\ Unlock(a, "halfway")
    /\ UNCHANGED <<generation, intents, restoreCancelled, locked, remembered, pass, clock, top>>

authorize_commit(a) == generation = claimed[a]

\* commit and publish: the monitors remember the wallpaper.
Commit(a) ==
    /\ pc[a] = "rendered" /\ a \notin Restores
    /\ IF authorize_commit(a)
       THEN /\ remembered' = [o \in Outputs |-> IF o \in Scope(a) THEN a ELSE remembered[o]]
            /\ top' = [o \in Outputs |-> IF o \in Scope(a) THEN stamp[a] ELSE top[o]]
            /\ Unlock(a, "done")
       ELSE /\ IF FansOut(a)
               THEN Goto(a, "rolling") /\ UNCHANGED <<lock, tokens, stamp>>
               ELSE Unlock(a, "superseded")
            /\ UNCHANGED <<remembered, top>>
    /\ UNCHANGED <<generation, intents, restoreCancelled, locked, desired, shown, pass, clock>>

-----------------------------------------------------------------------------
(* restore_pass: one hold of the lock for the whole pass.                  *)

\* one delay too many
MutAfterFailure(left) == IF left >= 0 THEN "retrying" ELSE "failed"
\* What retry_restore does with a failed pass when so many delays are left.
AfterFailure(left) == IF left > 0 THEN "retrying" ELSE "failed"

\* A pass starts; a hotplug reaps the renderers of departed outputs first.
StartPass(r) ==
    /\ r \in Restores /\ lock = Free
    /\ pc[r] \in {"idle", "retrying"}
    /\ \E gone \in SUBSET Outputs :
          /\ Mode[r] = "restore" => gone = {}
          /\ shown' = [o \in Outputs |-> IF o \in gone THEN Blank ELSE shown[o]]
    /\ IF Mode[r] = "restore" /\ restoreCancelled
       THEN Goto(r, "superseded") /\ UNCHANGED <<lock, pass>>
       ELSE /\ todo' = [todo EXCEPT ![r] = {o \in Outputs : shown'[o] # remembered[o]}]
            /\ failedGroup' = [failedGroup EXCEPT ![r] = FALSE]
            /\ tries' = [tries EXCEPT ![r] = @ - 1]
            /\ lock' = r
            /\ Goto(r, "planned")
    /\ UNCHANGED <<generation, intents, restoreCancelled, tokens, locked, desired, remembered,
                   ghost>>

\* The compositor names no outputs yet: the pass fails before it does anything.
NoOutputs(r) ==
    /\ r \in Restores /\ lock = Free
    /\ pc[r] \in {"idle", "retrying"}
    /\ ~(Mode[r] = "restore" /\ restoreCancelled)
    /\ tries' = [tries EXCEPT ![r] = @ - 1]
    /\ Goto(r, AfterFailure(tries[r] - 1))
    /\ UNCHANGED <<runtime, tokens, locked, screen, todo, failedGroup, ghost>>

\* The file of a group's wallpaper is gone: its outputs are skipped, which is no failure.
SkipGone(r) ==
    /\ pc[r] = "planned" /\ todo[r] # {}
    /\ \E o \in todo[r] :
          todo' = [todo EXCEPT ![r] = {p \in todo[r] : remembered[p] # remembered[o]}]
    /\ Goto(r, "planned")
    /\ UNCHANGED <<runtime, tokens, locked, screen, failedGroup, tries, ghost>>

\* the restore goes on after the user asked for something else
MutRestoreGoesOn(r) == r \notin Restores
RestoreStopped(r) == Mode[r] = "restore" /\ restoreCancelled

\* The next group: stopped if the restore was cancelled meanwhile, else claimed.
NextGroup(r) ==
    /\ pc[r] = "planned" /\ todo[r] # {}
    /\ IF RestoreStopped(r)
       THEN Unlock(r, "superseded") /\ UNCHANGED <<generation, intents, clock, top>>
       ELSE /\ Claim(r) /\ Goto(r, "claimed")
            /\ UNCHANGED <<lock, expected, preserved, previous>>
    /\ UNCHANGED <<restoreCancelled, locked, screen, pass>>

\* The group is "*" when every output is pending for one wallpaper with one audio
\* setting; otherwise restore::pending and expand_group_target go output by output.
Groups(r) ==
    {{o} : o \in todo[r]}
    \cup {g \in {Outputs} : g = todo[r] /\ \A o, p \in g : remembered[o] = remembered[p]}

GroupOk(r) ==
    /\ pc[r] = "claimed" /\ r \in Restores
    /\ \E g \in Groups(r) : \E o \in g :
          /\ Show(g, remembered[o])
          /\ todo' = [todo EXCEPT ![r] = @ \ g]
    /\ Goto(r, "planned")
    /\ UNCHANGED <<runtime, tokens, locked, remembered, failedGroup, tries, ghost>>

\* A group fails as a whole, or like TinierFailsHalfway.
GroupFails(r) ==
    /\ pc[r] = "claimed" /\ r \in Restores
    /\ \E g \in Groups(r) :
          /\ todo' = [todo EXCEPT ![r] = @ \ g]
          /\ \/ UNCHANGED <<desired, shown>>
             \/ g = Outputs /\ \E o \in g, outs \in FirstOutputs : Show(outs, remembered[o])
    /\ failedGroup' = [failedGroup EXCEPT ![r] = TRUE]
    /\ Goto(r, "planned")
    /\ UNCHANGED <<runtime, tokens, locked, remembered, tries, ghost>>

\* retry_restore: a failed pass is repeated after a delay while tries remain.
EndPass(r) ==
    /\ pc[r] = "planned" /\ todo[r] = {}
    /\ Unlock(r, IF failedGroup[r] THEN AfterFailure(tries[r]) ELSE "done")
    /\ UNCHANGED <<generation, intents, restoreCancelled, locked, screen, pass, clock, top>>

-----------------------------------------------------------------------------
\* The user edits the output locks at any time.
EditLocks ==
    /\ \E l \in SUBSET Lockable : l # locked /\ locked' = l
    /\ UNCHANGED <<pc, runtime, tokens, screen, pass, ghost>>

Step(a) ==
    \/ Enter(a) \/ Defer(a) \/ Intend(a) \/ Prepared(a) \/ NoTarget(a) \/ ReadLocks(a)
    \/ Lock(a) \/ GiveUp(a) \/ TooLate(a) \/ Refused(a) \/ ClaimPlain(a) \/ ClaimFanOut(a) \/ EnterReserved(a)
    \/ Fails(a) \/ RollBack(a) \/ RenderOk(a) \/ TinierFailsHalfway(a) \/ Commit(a)
    \/ StartPass(a) \/ NoOutputs(a) \/ SkipGone(a) \/ NextGroup(a) \/ GroupOk(a) \/ GroupFails(a)
    \/ EndPass(a)

Next == EditLocks \/ \E a \in Attempts : Accept(a) \/ Step(a)

\* Every thread is scheduled, renderers answer or time out, a preparation ends, and
\* the restore's delays pass.  Nothing makes the user ask or edit.
Spec == Init /\ [][Next]_vars /\ \A a \in Attempts : WF_vars(Step(a))

-----------------------------------------------------------------------------
(* From its claim to its end an attempt holds the lock and the current     *)
(* generation, so a receipt that reaches commit is never refused and two   *)
(* attempts never render at once (claim_generation, authorize_commit).     *)
AuthorityIsExclusive ==
    \A a \in Attempts : pc[a] \in Authorized => lock = a /\ generation = claimed[a]

(* What was asked for later is never overwritten by what was asked for     *)
(* earlier: a deferred apply that took minutes to prepare yields to every  *)
(* later one on its outputs, and whatever is claimed meanwhile, it does    *)
(* not come back (ExpectedApply, claim_intent, claim_generation).          *)
NewestWins == [][\A o \in Outputs : top'[o] >= top[o]]_vars

Requested == {"user", "override", "deferred", "intent"}

(* Once a request has been accepted, or another source has committed, the  *)
(* startup restore claims nothing: not in the middle of a pass, and not in *)
(* a retry (restore_pass, retry_restore, cancel_restore).                  *)
RestoreYields ==
    [][\A r, a \in Attempts :
          /\ Mode[r] = "restore" /\ pc[r] = "planned" /\ pc'[r] = "claimed"
          /\ a \notin Restores
          => pc[a] # "done" /\ (Mode[a] \in Requested => pc[a] \in {"absent", "idle"})]_vars

Halfway(a) == pc[a] = "halfway"

(* Between applies the screen shows what outputs.json says, outputs.json   *)
(* is what the monitors remember, and only committed wallpapers are in     *)
(* either, whatever failed, was superseded or was rolled back before; the  *)
(* one exception is a prepared video that failed on a later output.        *)
StoresAgree ==
    lock = Free => \A o \in Outputs :
        /\ shown[o] \in {desired[o], Blank}
        /\ desired[o] # remembered[o] => desired[o] # Old /\ Halfway(desired[o])
        /\ remembered[o] # Old => pc[remembered[o]] = "done"

(* An output that was locked when a request looked keeps its wallpaper     *)
(* through that request's apply, its failure and its rollback; at most an  *)
(* output that showed nothing is given its own wallpaper back.             *)
LockedOutputsKept ==
    [][\A a \in Attempts : lock = a => \A o \in preserved[a] :
          desired'[o] = desired[o] /\ shown'[o] \in {shown[o], desired[o]}]_vars

(* Whoever has begun ends, and for good: nobody waits for the lock or for  *)
(* a preparation for ever, and the restore stops retrying (ApplyRuntime's  *)
(* lock, preparation_terminal, retry_restore).                             *)
EveryAttemptEnds == <>[](\A a \in Attempts : pc[a] \in Ended \cup {"absent", "idle"})
=============================================================================
