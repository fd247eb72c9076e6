---------------------------- MODULE Apply_proofs ----------------------------
(***************************************************************************)
(* Proofs about Apply, for any set of attempts and outputs.  The inductive *)
(* invariant is the conjunction of the parts below; each part says what    *)
(* one of the properties needs to be true inside an apply.                 *)
(***************************************************************************)
EXTENDS Apply, TLAPS

\* A restore that may start a pass has one left to start.
TriesLeft == \A a \in Attempts : pc[a] \in {"idle", "retrying"} => tries[a] > 0

\* Whoever is inside apply_core or restore_pass holds the lock; whoever has claimed
\* has the current generation; and the restores take a path of their own.
Authority ==
    /\ \A a \in Attempts : pc[a] \in InLock => lock = a
    /\ \A a \in Attempts : lock = a => pc[a] \in InLock
    /\ \A a \in Attempts : pc[a] \in Authorized => generation = claimed[a]
    /\ \A a \in Attempts : pc[a] = "planned" => a \in Restores
    /\ \A a \in Attempts : pc[a] \in {"accepted", "preparing", "entering", "waiting", "locked", "staged",
                                "rolling", "rendered"} => a \notin Restores

\* What the restore must not overrule has cancelled it.
Cancels ==
    \A a \in Attempts \ Restores :
        pc[a] \in {"claimed", "rendered", "done"} \/ (Mode[a] \in Requested /\ pc[a] \notin {"absent", "idle"})
            => restoreCancelled

\* An attempt that has asked and not yet claimed, and may still claim.
Asking == {"preparing", "entering", "waiting", "locked"}
Pending(a) == pc[a] \in Asking
Deferred == {a \in Attempts : Mode[a] = "deferred"}

\* The order of requests: no later commit has passed by an attempt that may still commit.
Order ==
    /\ \A o \in Outputs : top[o] <= clock
    /\ \A a \in Attempts : stamp[a] <= clock /\ expected[a] <= generation
    /\ \A a \in intents : Mode[a] = "intent"
    /\ \A a \in intents : Pending(a) => \A o \in Targets(a) : top[o] <= stamp[a]
    /\ \A a, b \in intents : a # b => ~Overlap(a, b)
    /\ \A b \in Deferred : Pending(b) /\ generation = expected[b] =>
          /\ \A o \in Outputs : top[o] <= stamp[b]
          /\ \A a \in intents : Pending(a) => stamp[b] < stamp[a]
    /\ \A a \in Attempts \ Restores : pc[a] \in Authorized =>
          /\ \A o \in Targets(a) : top[o] <= stamp[a]
          /\ \A i \in intents : Pending(i) /\ Targets(i) \cap Targets(a) # {} => stamp[a] <= stamp[i]
    /\ \A a \in Attempts : pc[a] \in Authorized => \A b \in Attempts : expected[b] < generation

\* Only a fan-out preserves outputs, and what it does not change is as it was.
Kept ==
    /\ \A a \in Attempts : preserved[a] # {} => OutputOf[a] = All /\ a \notin Restores
    /\ \A a \in Attempts : pc[a] \in {"staged", "rolling"} => FansOut(a)
    /\ \A a \in Attempts : pc[a] \in {"staged", "claimed", "rolling"} /\ FansOut(a) =>
          \A o \in Outputs \ Scope(a) : previous[a][o] = desired[o]

\* What outputs.json was before a fan-out staged its own outputs.
StagedBy(a) == pc[a] \in {"staged", "claimed", "rolling"} /\ FansOut(a)
Was == IF \E a \in Attempts : StagedBy(a) THEN previous[lock] ELSE desired

\* Inside an apply too, the screen and the stores differ only by what it is doing.
Stores ==
    /\ \A o \in Outputs : shown[o] \in {Was[o], Blank}
    /\ \A o \in Outputs : Was[o] # remembered[o] =>
          \/ Was[o] # Old /\ Halfway(Was[o])
          \/ \E a \in Attempts : pc[a] = "rendered" /\ o \in Scope(a)
    /\ \A a \in Attempts : pc[a] = "rendered" => \A o \in Scope(a) : desired[o] = a
    /\ \A o \in Outputs : remembered[o] # Old => pc[remembered[o]] = "done"

Inv == TypeOK /\ TriesLeft /\ Authority /\ Cancels /\ Order /\ Kept /\ Stores

\* The actions of each kind, by what they leave alone.
Outside(a) == Accept(a) \/ Enter(a) \/ Prepared(a) \/ NoTarget(a) \/ ReadLocks(a)
Asks(a) == Defer(a) \/ Intend(a)
Leaves(a) == GiveUp(a) \/ TooLate(a) \/ Refused(a)
Claims(a) == ClaimPlain(a) \/ ClaimFanOut(a)
Applies(a) == EnterReserved(a) \/ Fails(a) \/ RollBack(a) \/ RenderOk(a)
              \/ TinierFailsHalfway(a) \/ Commit(a)
Passes(r) == StartPass(r) \/ NoOutputs(r) \/ SkipGone(r) \/ NextGroup(r) \/ GroupOk(r)
             \/ GroupFails(r) \/ EndPass(r)

LEMMA Kinds ==
    ASSUME Next
    PROVE  \/ EditLocks
           \/ \E a \in Attempts : Outside(a) \/ Asks(a) \/ Lock(a) \/ Leaves(a) \/ Claims(a)
                                  \/ Applies(a) \/ Passes(a)
BY DEF Next, Step, Outside, Asks, Leaves, Claims, Applies, Passes

-----------------------------------------------------------------------------
LEMMA EndTypes ==
    ASSUME TypeOK, NEW a \in Attempts, NEW to \in Ended \cup {"retrying"}, End(a, to)
    PROVE  /\ pc' = [pc EXCEPT ![a] = to]
           /\ pc' \in [Attempts -> {"absent", "idle", "accepted", "preparing", "entering", "waiting", "retrying"}
                                   \cup InLock \cup Ended]
           /\ expected' \in [Attempts -> Nat] /\ claimed' \in [Attempts -> Nat]
           /\ preserved' \in [Attempts -> SUBSET Outputs]
           /\ previous' \in [Attempts -> [Outputs -> Wallpapers]]
           /\ stamp' \in [Attempts -> Nat]
BY DEF End, Goto, TypeOK, Wallpapers

LEMMA ShowTypes ==
    ASSUME TypeOK, NEW outs, NEW w \in Wallpapers, Show(outs, w)
    PROVE  /\ desired' \in [Outputs -> Wallpapers] /\ shown' \in [Outputs -> Wallpapers \cup {Blank}]
           /\ shown' = desired'
           /\ \A o \in Outputs : desired'[o] = IF o \in outs THEN w ELSE desired[o]
BY DEF Show, TypeOK

LEMMA ClaimTypes ==
    ASSUME TypeOK, NEW a \in Attempts, Claim(a)
    PROVE  /\ generation' = generation + 1 /\ generation' \in Nat /\ clock' \in Nat
           /\ claimed' = [claimed EXCEPT ![a] = generation + 1]
           /\ claimed' \in [Attempts -> Nat] /\ intents' \subseteq Attempts
           /\ stamp' \in [Attempts -> Nat] /\ top' = top
<1>1. IntentsAfterClaim(a) \subseteq intents
  <2>1. CASE Mode[a] = "intent"
    BY <2>1 DEF IntentsAfterClaim
  <2>2. CASE Mode[a] = "deferred"
    BY <2>2 DEF IntentsAfterClaim
  <2>3. CASE Mode[a] \notin {"intent", "deferred"}
    BY <2>3 DEF IntentsAfterClaim
  <2> QED
    BY <2>1, <2>2, <2>3
<1>2. CASE Mode[a] \in {"intent", "deferred"}
    BY <1>1, <1>2 DEF Claim, TypeOK, ghost
<1>3. CASE Mode[a] \notin {"intent", "deferred"}
    BY <1>1, <1>3 DEF Claim, Stamp, TypeOK
<1> QED
    BY <1>2, <1>3

\* What a commit does, given that nobody claimed since: it is never refused.
LEMMA CommitPasses ==
    ASSUME Authority, NEW a \in Attempts, Commit(a)
    PROVE  /\ pc[a] = "rendered" /\ a \notin Restores /\ generation = claimed[a]
           /\ remembered' = [o \in Outputs |-> IF o \in Scope(a) THEN a ELSE remembered[o]]
           /\ top' = [o \in Outputs |-> IF o \in Scope(a) THEN stamp[a] ELSE top[o]]
           /\ End(a, "done") /\ lock' = Free
           /\ UNCHANGED <<generation, intents, restoreCancelled, locked, desired, shown, todo,
                          failedGroup, tries, clock>>
BY DEF Commit, authorize_commit, Authority, Authorized, Unlock, pass

\* A group that fails leaves the screen alone, or was the one wallpaper of every output.
LEMMA GroupFailing ==
    ASSUME NEW r, GroupFails(r)
    PROVE  \/ UNCHANGED <<desired, shown>>
           \/ \E o \in Outputs, outs \in FirstOutputs :
                 Show(outs, remembered[o]) /\ \A p \in Outputs : remembered[p] = remembered[o]
<1>1. PICK g \in Groups(r) :
          \/ UNCHANGED <<desired, shown>>
          \/ g = Outputs /\ \E o \in g, outs \in FirstOutputs : Show(outs, remembered[o])
    BY DEF GroupFails
<1>2. \A o, p \in g : remembered[o] = remembered[p]
    BY DEF Groups
<1> QED
    BY <1>1, <1>2

LEMMA TypePreserved == Inv /\ [Next]_vars => TypeOK'
<1> SUFFICES ASSUME Inv, [Next]_vars PROVE TypeOK'
    OBVIOUS
<1> USE DEF runtime, tokens, pass, screen, ghost
<1>0. Authority
    BY DEF Inv
<1>1. TypeOK /\ TriesLeft
    BY DEF Inv
<1>2. CASE EditLocks
    BY <1>1, <1>2, AttemptsAssumption DEF EditLocks, TypeOK
<1>3. ASSUME NEW a \in Attempts, Outside(a) PROVE TypeOK'
  <2>1. CASE Accept(a)
    BY <1>1, <2>1 DEF Accept, Goto, TypeOK
  <2>2. CASE Enter(a)
    BY <1>1, <2>2 DEF Enter, Goto, TypeOK
  <2>3. CASE Prepared(a)
    BY <1>1, <2>3, EndTypes DEF Prepared, Goto, TypeOK, Ended
  <2>5. CASE NoTarget(a)
    BY <1>1, <2>5, EndTypes DEF NoTarget, TypeOK, Ended
  <2>4. CASE ReadLocks(a)
    <3>1. UNCHANGED <<lock, generation, intents, restoreCancelled, locked, desired, shown,
                     remembered, todo, failedGroup, tries, clock, top>>
      BY <2>4 DEF ReadLocks
    <3>2. CASE End(a, "noop")
      BY <1>1, <3>1, <3>2, EndTypes DEF TypeOK, Ended
    <3>3. ASSUME NEW kept \in SUBSET Outputs, preserved' = [preserved EXCEPT ![a] = kept],
                 Goto(a, "waiting"), UNCHANGED <<expected, claimed, previous, stamp>>
          PROVE  TypeOK'
      BY <1>1, <3>1, <3>3 DEF Goto, TypeOK
    <3>4. (IF RespectsLocks(a) THEN Targets(a) \cap locked ELSE {}) \in SUBSET Outputs
      BY <1>1 DEF TypeOK
    <3> QED
      BY <2>4, <3>2, <3>3, <3>4 DEF ReadLocks
  <2> QED
    BY <1>3, <2>1, <2>2, <2>3, <2>4, <2>5 DEF Outside
<1>4. ASSUME NEW a \in Attempts, Asks(a) PROVE TypeOK'
  <2>1. CASE Defer(a)
    BY <1>1, <2>1 DEF Defer, Stamp, Goto, TypeOK
  <2>2. CASE Intend(a)
    BY <1>1, <2>2 DEF Intend, Retained, Stamp, Goto, TypeOK
  <2> QED
    BY <1>4, <2>1, <2>2 DEF Asks
<1>5. ASSUME NEW a \in Attempts, Lock(a) PROVE TypeOK'
    BY <1>1, <1>5 DEF Lock, Goto, TypeOK, InLock
<1>6. ASSUME NEW a \in Attempts, Leaves(a) PROVE TypeOK'
    BY <1>1, <1>6, EndTypes DEF Leaves, GiveUp, TooLate, Refused, Unlock, TypeOK, Ended
<1>7. ASSUME NEW a \in Attempts, Claims(a) PROVE TypeOK'
  <2>1. CASE ClaimPlain(a)
    BY <1>1, <2>1, ClaimTypes DEF ClaimPlain, Goto, TypeOK, InLock, Authorized
  <2>2. CASE ClaimFanOut(a)
    BY <1>1, <2>2, ClaimTypes DEF ClaimFanOut, Goto, TypeOK, InLock, Authorized, Wallpapers
  <2> QED
    BY <1>7, <2>1, <2>2 DEF Claims
<1>8. ASSUME NEW a \in Attempts, Applies(a) PROVE TypeOK'
  <2>1. CASE EnterReserved(a)
    BY <1>1, <2>1 DEF EnterReserved, Goto, TypeOK, InLock, Authorized
  <2>2. CASE Fails(a)
    BY <1>1, <2>2, EndTypes DEF Fails, Unlock, Goto, TypeOK, InLock, Authorized, Ended
  <2>3. CASE RollBack(a)
    BY <1>1, <2>3, EndTypes DEF RollBack, Unlock, TypeOK, Ended
  <2>4. CASE RenderOk(a)
    BY <1>1, <2>4, ShowTypes DEF RenderOk, Goto, TypeOK, InLock, Authorized, Wallpapers
  <2>5. CASE TinierFailsHalfway(a)
    BY <1>1, <2>5, EndTypes, ShowTypes DEF TinierFailsHalfway, Unlock, TypeOK, Ended, Wallpapers
  <2>6. CASE Commit(a)
    <3>1. /\ remembered' = [o \in Outputs |-> IF o \in Scope(a) THEN a ELSE remembered[o]]
          /\ top' = [o \in Outputs |-> IF o \in Scope(a) THEN stamp[a] ELSE top[o]]
          /\ UNCHANGED <<generation, intents, restoreCancelled, locked, desired, shown, todo,
                         failedGroup, tries, clock>>
          /\ End(a, "done") /\ lock' = Free
      BY <1>0, <2>6, CommitPasses
    <3>2. remembered' \in [Outputs -> Wallpapers] /\ top' \in [Outputs -> Nat]
      BY <1>1, <3>1 DEF TypeOK, Wallpapers
    <3> QED
      BY <1>1, <3>1, <3>2, EndTypes DEF TypeOK, Ended
  <2> QED
    BY <1>8, <2>1, <2>2, <2>3, <2>4, <2>5, <2>6 DEF Applies
<1>9. ASSUME NEW r \in Attempts, Passes(r) PROVE TypeOK'
  <2>1. CASE StartPass(r)
    <3>1. /\ shown' \in [Outputs -> Wallpapers \cup {Blank}]
          /\ UNCHANGED <<generation, intents, restoreCancelled, expected, claimed, preserved,
                         previous, locked, desired, remembered, clock, stamp, top>>
      BY <1>1, <2>1 DEF StartPass, TypeOK
    <3>2. /\ todo' \in [Attempts -> SUBSET Outputs] /\ failedGroup' \in [Attempts -> BOOLEAN]
          /\ tries' \in [Attempts -> Nat] /\ lock' \in Attempts \cup {Free}
      <4>1. tries[r] > 0 /\ tries[r] \in Nat
        BY <1>1, <2>1 DEF StartPass, TypeOK, TriesLeft
      <4>2. CASE Mode[r] = "restore" /\ restoreCancelled
        BY <1>1, <2>1, <4>2 DEF StartPass, TypeOK
      <4>3. CASE ~(Mode[r] = "restore" /\ restoreCancelled)
        <5>1. /\ todo' = [todo EXCEPT ![r] = {o \in Outputs : shown'[o] # remembered[o]}]
              /\ failedGroup' = [failedGroup EXCEPT ![r] = FALSE]
              /\ tries' = [tries EXCEPT ![r] = @ - 1]
              /\ lock' = r
          BY <2>1, <4>3 DEF StartPass
        <5> QED
          BY <1>1, <4>1, <5>1 DEF TypeOK
      <4> QED
        BY <4>2, <4>3
    <3>3. PICK to \in {"superseded", "planned"} : Goto(r, to)
      BY <2>1 DEF StartPass
    <3> QED
      BY <1>1, <3>1, <3>2, <3>3 DEF Goto, TypeOK, InLock, Ended
  <2>2. CASE NoOutputs(r)
    BY <1>1, <2>2 DEF NoOutputs, AfterFailure, Goto, TypeOK, TriesLeft, Ended
  <2>3. CASE NextGroup(r)
    BY <1>1, <2>3, EndTypes, ClaimTypes
    DEF NextGroup, Unlock, Goto, TypeOK, InLock, Authorized, Ended
  <2>4. CASE GroupOk(r)
    BY <1>1, <2>4, ShowTypes DEF GroupOk, Groups, Goto, TypeOK, InLock
  <2>5. CASE GroupFails(r)
    <3>1. /\ UNCHANGED <<runtime, tokens, locked, remembered, tries, ghost>>
          /\ Goto(r, "planned")
          /\ todo' \in [Attempts -> SUBSET Outputs] /\ failedGroup' \in [Attempts -> BOOLEAN]
      BY <1>1, <2>5 DEF GroupFails, TypeOK
    <3>2. desired' \in [Outputs -> Wallpapers] /\ shown' \in [Outputs -> Wallpapers \cup {Blank}]
      <4>1. CASE UNCHANGED <<desired, shown>>
        BY <1>1, <4>1 DEF TypeOK
      <4>2. ASSUME NEW o \in Outputs, NEW outs, Show(outs, remembered[o])
            PROVE  desired' \in [Outputs -> Wallpapers] /\ shown' \in [Outputs -> Wallpapers \cup {Blank}]
        BY <1>1, <4>2, ShowTypes DEF TypeOK
      <4> QED
        BY <2>5, <4>1, <4>2, GroupFailing
    <3> QED
      BY <1>1, <3>1, <3>2 DEF Goto, TypeOK, InLock
  <2>7. CASE SkipGone(r)
    BY <1>1, <2>7 DEF SkipGone, Goto, TypeOK, InLock
  <2>6. CASE EndPass(r)
    BY <1>1, <2>6, EndTypes DEF EndPass, AfterFailure, Unlock, TypeOK, Ended
  <2> QED
    BY <1>9, <2>1, <2>2, <2>3, <2>4, <2>5, <2>6, <2>7 DEF Passes
<1>10. CASE UNCHANGED vars
    BY <1>1, <1>10 DEF vars, TypeOK
<1> QED
    BY <1>2, <1>3, <1>4, <1>5, <1>6, <1>7, <1>8, <1>9, <1>10, Kinds

-----------------------------------------------------------------------------
\* The passes left, the lock and the generation, and the restore's flag are looked at
\* together: one step for each kind of action.
LEMMA ControlPreserved == Inv /\ [Next]_vars => TriesLeft' /\ Authority' /\ Cancels'
<1> SUFFICES ASSUME Inv, [Next]_vars PROVE TriesLeft' /\ Authority' /\ Cancels'
    OBVIOUS
<1> USE DEF runtime, tokens, pass, screen, ghost, InLock, Authorized, Ended, Requested
<1>1. TypeOK /\ TriesLeft /\ Authority /\ Cancels
    BY DEF Inv
<1>2. CASE EditLocks \/ UNCHANGED vars
    BY <1>1, <1>2 DEF EditLocks, TriesLeft, Authority, Cancels, vars
<1>3. ASSUME NEW a \in Attempts, Outside(a) PROVE TriesLeft' /\ Authority' /\ Cancels'
  <2>1. PICK to \in {"accepted", "entering", "waiting", "noop", "failed", "superseded"} : Goto(a, to)
    BY <1>3 DEF Outside, Accept, Enter, Prepared, NoTarget, ReadLocks, End
  <2>2. /\ pc[a] \in {"idle", "accepted", "preparing", "entering"}
        /\ UNCHANGED <<lock, generation, tries>>
        /\ \A b \in Attempts \ {a} : claimed'[b] = claimed[b]
        /\ a \notin Restores
    BY <1>1, <1>3 DEF Outside, Accept, Enter, Prepared, NoTarget, ReadLocks, End, TypeOK, Authority, Restores
  <2>3. restoreCancelled' \/ (UNCHANGED restoreCancelled /\ (pc[a] = "idle" => Mode[a] = "rotation"))
    BY <1>3 DEF Outside, Accept, Enter, Prepared, NoTarget, ReadLocks
  <2>4. TriesLeft' /\ Authority'
    BY <1>1, <2>1, <2>2 DEF TriesLeft, Authority, Goto, TypeOK
  <2>5. Cancels'
    BY <1>1, <2>1, <2>2, <2>3 DEF Cancels, Goto, TypeOK, Restores
  <2> QED
    BY <2>4, <2>5
<1>4. ASSUME NEW a \in Attempts, Asks(a) PROVE TriesLeft' /\ Authority' /\ Cancels'
  <2>1. PICK to \in {"preparing", "entering"} : Goto(a, to)
    BY <1>4 DEF Asks, Defer, Intend
  <2>2. /\ pc[a] = "accepted" /\ lock = Free /\ Free \notin Attempts
        /\ UNCHANGED <<lock, restoreCancelled, claimed, tries>>
    BY <1>4, AttemptsAssumption DEF Asks, Defer, Intend, UnderBriefLock
  <2> QED
    BY <1>1, <2>1, <2>2 DEF TriesLeft, Authority, Cancels, Goto, TypeOK
<1>5. ASSUME NEW a \in Attempts, Lock(a) PROVE TriesLeft' /\ Authority' /\ Cancels'
    BY <1>1, <1>5, AttemptsAssumption DEF Lock, TriesLeft, Authority, Cancels, Goto, TypeOK
<1>6. ASSUME NEW a \in Attempts, Leaves(a) PROVE TriesLeft' /\ Authority' /\ Cancels'
  <2>1. PICK to \in Ended \ {"done"} : End(a, to) /\ lock' = Free
    BY <1>6 DEF Leaves, GiveUp, TooLate, Refused, Unlock
  <2>2. /\ pc[a] = "locked" /\ UNCHANGED <<generation, tries>>
        /\ restoreCancelled => restoreCancelled'
    BY <1>1, <1>6 DEF Leaves, GiveUp, TooLate, Refused, TypeOK
  <2> QED
    BY <1>1, <2>1, <2>2, AttemptsAssumption
    DEF TriesLeft, Authority, Cancels, End, Goto, TypeOK
<1>7. ASSUME NEW a \in Attempts, Claims(a) PROVE TriesLeft' /\ Authority' /\ Cancels'
  <2>1. Claim(a) /\ pc[a] = "locked" /\ lock' = lock /\ tries' = tries
    BY <1>7 DEF Claims, ClaimPlain, ClaimFanOut
  <2>2. PICK to \in {"claimed", "staged"} : Goto(a, to)
    BY <1>7 DEF Claims, ClaimPlain, ClaimFanOut
  <2>3. (restoreCancelled => restoreCancelled') /\ (pc'[a] = "claimed" => restoreCancelled')
    BY <1>1, <1>7 DEF Claims, ClaimPlain, ClaimFanOut, Goto, TypeOK
  <2> QED
    BY <1>1, <2>1, <2>2, <2>3, ClaimTypes DEF TriesLeft, Authority, Cancels, Goto, TypeOK
<1>8. ASSUME NEW a \in Attempts, Applies(a) PROVE TriesLeft' /\ Authority' /\ Cancels'
  <2>1. /\ pc[a] \in Authorized /\ UNCHANGED <<generation, tries>> /\ a \notin Restores
        /\ restoreCancelled => restoreCancelled'
    BY <1>1, <1>8 
    DEF TypeOK, Authority, Restores, Applies, EnterReserved, Fails, RollBack, RenderOk,
        TinierFailsHalfway, Commit
  <2>2. ASSUME NEW to \in {"failed", "halfway"}, End(a, to), lock' = Free
        PROVE  TriesLeft' /\ Authority' /\ Cancels'
    BY <1>1, <2>1, <2>2, AttemptsAssumption
    DEF TriesLeft, Authority, Cancels, End, Goto, TypeOK
  <2>3. ASSUME NEW to \in {"claimed", "rolling", "rendered"}, Goto(a, to),
               UNCHANGED <<lock, claimed>>,
               to = "claimed" => restoreCancelled', to = "rendered" => pc[a] = "claimed"
        PROVE  TriesLeft' /\ Authority' /\ Cancels'
    BY <1>1, <2>1, <2>3 DEF TriesLeft, Authority, Cancels, Goto, TypeOK
  <2>4. CASE Commit(a)
    <3>1. /\ pc[a] = "rendered" /\ lock' = Free
          /\ End(a, "done")
      BY <1>1, <2>4, CommitPasses
    <3> QED
      BY <1>1, <2>1, <3>1, AttemptsAssumption
      DEF TriesLeft, Authority, Cancels, End, Goto, TypeOK
  <2>5. CASE EnterReserved(a) \/ Fails(a) \/ RenderOk(a)
    BY <2>2, <2>3, <2>5 DEF EnterReserved, Fails, RenderOk, Unlock
  <2>6. CASE RollBack(a) \/ TinierFailsHalfway(a)
    BY <2>2, <2>6 DEF RollBack, TinierFailsHalfway, Unlock
  <2> QED
    BY <1>8, <2>4, <2>5, <2>6 DEF Applies
<1>9. ASSUME NEW r \in Attempts, Passes(r) PROVE TriesLeft' /\ Authority' /\ Cancels'
  <2>1. /\ r \in Restores /\ restoreCancelled' = restoreCancelled
        /\ \A b \in Attempts \ {r} : tries'[b] = tries[b]
    BY <1>1, <1>9 DEF Passes, StartPass, NoOutputs, SkipGone, NextGroup, GroupOk, GroupFails, EndPass,
       Authority, TypeOK
  <2>2. CASE StartPass(r) \/ NoOutputs(r)
    <3>1. /\ lock = Free /\ UNCHANGED <<generation, claimed>> /\ Free \notin Attempts
          /\ pc[r] \in {"idle", "retrying"}
      BY <2>2, AttemptsAssumption DEF StartPass, NoOutputs
    <3>2. \/ Goto(r, "superseded") /\ UNCHANGED lock
          \/ Goto(r, "failed") /\ UNCHANGED lock
          \/ Goto(r, "retrying") /\ UNCHANGED lock /\ tries'[r] > 0
          \/ Goto(r, "planned") /\ lock' = r
      BY <1>1, <2>2 DEF StartPass, NoOutputs, AfterFailure, TypeOK
    <3>3. ASSUME NEW to \in {"superseded", "failed", "retrying"}, Goto(r, to), UNCHANGED lock,
                 to = "retrying" => tries'[r] > 0
          PROVE  TriesLeft' /\ Authority' /\ Cancels'
      BY <1>1, <2>1, <3>1, <3>3 DEF TriesLeft, Authority, Cancels, Goto, TypeOK
    <3>4. CASE Goto(r, "planned") /\ lock' = r
      BY <1>1, <2>1, <3>1, <3>4 DEF TriesLeft, Authority, Cancels, Goto, TypeOK
    <3> QED
      BY <3>2, <3>3, <3>4
  <2>3. CASE NextGroup(r)
    <3>1. pc[r] = "planned" /\ tries' = tries
      BY <2>3 DEF NextGroup
    <3>2. CASE Unlock(r, "superseded") /\ generation' = generation
      BY <1>1, <2>1, <3>1, <3>2, AttemptsAssumption
      DEF Unlock, End, TriesLeft, Authority, Cancels, Goto, TypeOK
    <3>3. CASE Claim(r) /\ Goto(r, "claimed") /\ lock' = lock
      BY <1>1, <2>1, <3>1, <3>3, ClaimTypes DEF TriesLeft, Authority, Cancels, Goto, TypeOK
    <3> QED
      BY <2>3, <3>2, <3>3 DEF NextGroup
  <2>6. CASE SkipGone(r)
    BY <1>1, <2>1, <2>6 DEF SkipGone, TriesLeft, Authority, Cancels, Goto, TypeOK
  <2>4. CASE GroupOk(r) \/ GroupFails(r)
    <3>1. /\ Goto(r, "planned") /\ pc[r] = "claimed"
          /\ UNCHANGED <<lock, generation, claimed, tries>>
      BY <2>4 DEF GroupOk, GroupFails
    <3> QED
      BY <1>1, <2>1, <3>1 DEF TriesLeft, Authority, Cancels, Goto, TypeOK
  <2>5. CASE EndPass(r)
    <3>1. /\ lock' = Free /\ pc[r] = "planned" /\ UNCHANGED <<generation, tries>>
          /\ \/ End(r, "done") \/ End(r, "failed")
             \/ End(r, "retrying") /\ tries[r] > 0
      BY <2>5 DEF EndPass, AfterFailure, Unlock
    <3>2. PICK to \in {"done", "failed", "retrying"} : End(r, to) /\ (to = "retrying" => tries[r] > 0)
      BY <3>1
    <3>3. TriesLeft'
      BY <1>1, <3>1, <3>2 DEF TriesLeft, End, Goto, TypeOK
    <3>4. Authority'
      BY <1>1, <2>1, <3>1, <3>2, AttemptsAssumption DEF Authority, End, Goto, TypeOK
    <3>5. Cancels'
      BY <1>1, <2>1, <3>2 DEF Cancels, End, Goto, TypeOK
    <3> QED
      BY <3>3, <3>4, <3>5
  <2> QED
    BY <1>9, <2>2, <2>3, <2>4, <2>5, <2>6 DEF Passes
<1> QED
    BY <1>2, <1>3, <1>4, <1>5, <1>6, <1>7, <1>8, <1>9, Kinds

-----------------------------------------------------------------------------
\* Nothing that orders requests changes, but an attempt moves without claiming.
LEMMA OrderStays ==
    ASSUME TypeOK, Authority, Order, NEW a \in Attempts, NEW to,
           pc' = [pc EXCEPT ![a] = to],
           to \in Asking => Pending(a) \/ Mode[a] \notin {"intent", "deferred"},
           to \in Authorized => pc[a] \in Authorized,
           UNCHANGED <<generation, intents, clock, top>>,
           \/ UNCHANGED <<expected, stamp>>
           \/ /\ to \notin Asking \cup Authorized
              /\ expected' = [expected EXCEPT ![a] = 0] /\ stamp' = [stamp EXCEPT ![a] = 0]
    PROVE  Order'
<1> USE DEF Authorized, Asking
<1>1. \A b \in Attempts : b # a => pc'[b] = pc[b] /\ expected'[b] = expected[b] /\ stamp'[b] = stamp[b]
    BY DEF TypeOK
<1>2. /\ \A b \in Attempts : stamp'[b] <= clock' /\ expected'[b] <= generation'
      /\ \A b \in Attempts : expected'[b] <= expected[b]
  <2>1. expected \in [Attempts -> Nat] /\ stamp \in [Attempts -> Nat] /\ clock \in Nat /\ generation \in Nat
    BY DEF TypeOK
  <2>2. \A b \in Attempts : stamp[b] <= clock /\ expected[b] <= generation
    BY DEF Order
  <2>3. CASE UNCHANGED <<expected, stamp>>
    BY <2>1, <2>2, <2>3
  <2>4. CASE expected' = [expected EXCEPT ![a] = 0] /\ stamp' = [stamp EXCEPT ![a] = 0]
    BY <2>1, <2>2, <2>4
  <2> QED
    BY <2>3, <2>4
<1>3. \A b \in intents' : Mode[b] = "intent" /\ (Pending(b)' => Pending(b) /\ stamp'[b] = stamp[b])
    BY <1>1 DEF Order, TypeOK, Pending
<1>4. \A b \in Deferred : Pending(b)' => Pending(b) /\ stamp'[b] = stamp[b] /\ expected'[b] = expected[b]
    BY <1>1 DEF TypeOK, Pending, Deferred
<1>5. \A b \in Attempts : pc'[b] \in Authorized => pc[b] \in Authorized /\ stamp'[b] = stamp[b]
    BY <1>1 DEF TypeOK
<1>6. \A b \in Attempts : Targets(b)' = Targets(b)
    BY DEF Targets
<1>7. \A b \in intents' : Pending(b)' => \A o \in Targets(b)' : top'[o] <= stamp'[b]
    BY <1>3, <1>6 DEF Order
<1>8. \A b \in Deferred : Pending(b)' /\ generation' = expected'[b] =>
          /\ \A o \in Outputs : top'[o] <= stamp'[b]
          /\ \A i \in intents' : Pending(i)' => stamp'[b] < stamp'[i]
    BY <1>3, <1>4 DEF Order
<1>9. \A b \in Attempts \ Restores : pc'[b] \in Authorized =>
          /\ \A o \in Targets(b)' : top'[o] <= stamp'[b]
          /\ \A i \in intents' : Pending(i)' /\ Targets(i)' \cap Targets(b)' # {}
                                  => stamp'[b] <= stamp'[i]
    BY <1>3, <1>5, <1>6 DEF Order
<1>10. \A b \in Attempts : pc'[b] \in Authorized => \A c \in Attempts : expected'[c] < generation'
    BY <1>1, <1>2, <1>5 DEF Order, TypeOK
<1>11. \A b, c \in intents' : b # c => ~Overlap(b, c)'
    BY DEF Order, Overlap
<1>12. \A o \in Outputs : top'[o] <= clock'
    BY DEF Order
<1> QED
    BY <1>2, <1>3, <1>7, <1>8, <1>9, <1>10, <1>11, <1>12 DEF Order, Deferred, Restores

\* A deferred request drops every intent and makes every older token stale.
LEMMA OrderDefer ==
    ASSUME TypeOK, Authority, Order, NEW a \in Attempts, Defer(a)
    PROVE  Order'
<1> USE DEF Authorized, Asking
<1>1. /\ intents' = {} /\ generation' = generation + 1 /\ top' = top /\ clock' = clock + 1
      /\ pc' = [pc EXCEPT ![a] = "preparing"] /\ stamp' = [stamp EXCEPT ![a] = clock + 1]
      /\ expected' = [expected EXCEPT ![a] = generation + 1]
      /\ lock = Free /\ Mode[a] = "deferred"
    BY DEF Defer, UnderBriefLock, Stamp, Goto
<1>2. \A b \in Attempts : pc'[b] \notin Authorized
    BY <1>1, AttemptsAssumption DEF Authority, InLock, TypeOK
<1>3. \A b \in Attempts : stamp'[b] <= clock' /\ expected'[b] <= generation'
    BY <1>1 DEF Order, TypeOK
<1>4. \A b \in Attempts : generation' = expected'[b] => b = a
    BY <1>1 DEF Order, TypeOK
<1>5. \A o \in Outputs : top'[o] <= clock' /\ top'[o] <= stamp'[a]
    BY <1>1 DEF Order, TypeOK
<1>6. \A b \in Deferred : Pending(b)' /\ generation' = expected'[b] =>
          /\ \A o \in Outputs : top'[o] <= stamp'[b]
          /\ \A i \in intents' : Pending(i)' => stamp'[b] < stamp'[i]
    BY <1>1, <1>4, <1>5 DEF Deferred
<1>7. /\ \A b \in intents' : Mode[b] = "intent" /\ (Pending(b)' => \A o \in Targets(b)' : top'[o] <= stamp'[b])
      /\ \A b, c \in intents' : b # c => ~Overlap(b, c)'
    BY <1>1
<1> QED
    BY <1>2, <1>3, <1>5, <1>6, <1>7 DEF Order, Deferred, Restores

\* A new intent is the newest, and drops the others on its outputs.
LEMMA OrderIntend ==
    ASSUME TypeOK, Authority, Order, NEW a \in Attempts, Intend(a)
    PROVE  Order'
<1> USE DEF Authorized, Asking
<1>1. /\ intents' = Retained(a) \cup {a} /\ generation' = generation /\ top' = top
      /\ clock' = clock + 1 /\ expected' = expected
      /\ stamp' = [stamp EXCEPT ![a] = clock + 1]
      /\ lock = Free /\ Mode[a] = "intent"
    BY DEF Intend, UnderBriefLock, Stamp, tokens
<1>2. PICK to \in {"preparing", "entering"} : pc' = [pc EXCEPT ![a] = to]
    BY DEF Intend, Goto
<1>3. \A b \in Attempts : pc'[b] \notin Authorized
    BY <1>1, <1>2, AttemptsAssumption DEF Authority, InLock, TypeOK
<1>4. \A b \in Attempts : stamp'[b] <= clock' /\ expected'[b] <= generation'
    BY <1>1 DEF Order, TypeOK
<1>5. \A o \in Outputs : top'[o] <= clock' /\ top'[o] <= stamp'[a]
    BY <1>1 DEF Order, TypeOK
<1>6. \A b \in Attempts : b # a => (Pending(b)' <=> Pending(b)) /\ stamp'[b] = stamp[b]
    BY <1>1, <1>2 DEF Pending, TypeOK
<1>7. \A b \in intents' : Mode[b] = "intent" /\ (b # a => b \in intents /\ ~Overlap(a, b))
    BY <1>1 DEF Retained, Order
<1>8. \A b \in Attempts : Targets(b)' = Targets(b) /\ (Targets(b) \subseteq Outputs)
    BY AttemptsAssumption DEF Targets
<1>9. \A b \in intents' : Pending(b)' => \A o \in Targets(b)' : top'[o] <= stamp'[b]
  <2> SUFFICES ASSUME NEW b \in intents', Pending(b)'
               PROVE  \A o \in Targets(b) : top'[o] <= stamp'[b]
    BY <1>1, <1>8 DEF Retained, TypeOK
  <2>1. CASE b = a
    BY <1>5, <1>8, <2>1
  <2>2. CASE b # a
    <3>1. b \in intents /\ b \in Attempts
      BY <1>7, <2>2 DEF TypeOK
    <3>2. Pending(b) /\ stamp'[b] = stamp[b]
      BY <1>6, <2>2, <3>1
    <3>3. \A o \in Targets(b) : top[o] <= stamp[b]
      BY <3>1, <3>2 DEF Order
    <3> QED
      BY <1>1, <3>2, <3>3
  <2> QED
    BY <2>1, <2>2
<1>10. \A b, c \in intents' : b # c => ~Overlap(b, c)'
    BY <1>7 DEF Order, Overlap
<1>11. ASSUME NEW b \in Deferred, Pending(b)', generation' = expected'[b]
       PROVE  /\ \A o \in Outputs : top'[o] <= stamp'[b]
              /\ \A i \in intents' : Pending(i)' => stamp'[b] < stamp'[i]
  <2>1. b # a /\ b \in Attempts /\ Pending(b) /\ stamp'[b] = stamp[b] /\ stamp[b] <= clock
    BY <1>1, <1>6, <1>11 DEF Deferred, Order
  <2>2. stamp'[b] < stamp'[a]
    BY <1>1, <2>1 DEF TypeOK
  <2> QED
    BY <1>1, <1>6, <1>7, <1>11, <2>1, <2>2 DEF Order, TypeOK
<1> QED
    BY <1>3, <1>4, <1>5, <1>7, <1>9, <1>10, <1>11 DEF Order, Deferred

\* A claim may commit ahead of nothing newer, and makes every deferred token stale.
LEMMA OrderClaim ==
    ASSUME TypeOK, Authority, Order, NEW a \in Attempts, Claim(a), lock = a,
           a \in Restores \/ (Claimable(a) /\ pc[a] = "locked"),
           NEW to \in {"claimed", "staged"}, pc' = [pc EXCEPT ![a] = to], expected' = expected
    PROVE  Order'
<1> USE DEF Authorized, Asking
<1>1. /\ generation' = generation + 1 /\ top' = top /\ intents' \subseteq intents
      /\ \A b \in Attempts : b # a => pc'[b] = pc[b] /\ stamp'[b] = stamp[b]
      /\ clock' \in Nat /\ clock <= clock' /\ generation \in Nat /\ clock \in Nat
      /\ \A b \in Attempts : stamp[b] \in Nat /\ expected[b] \in Nat
  <2>1. CASE Mode[a] = "intent"
    BY <2>1 DEF Claim, IntentsAfterClaim, TypeOK, ghost
  <2>2. CASE Mode[a] = "deferred"
    BY <2>2 DEF Claim, IntentsAfterClaim, TypeOK, ghost
  <2>3. CASE Mode[a] \notin {"intent", "deferred"}
    BY <2>3 DEF Claim, IntentsAfterClaim, Stamp, TypeOK
  <2> QED
    BY <2>1, <2>2, <2>3
<1>2. \A b \in Attempts : b # a => pc'[b] \notin Authorized
    BY <1>1 DEF Authority, InLock
<1>3. \A b \in Attempts : expected'[b] < generation'
    BY <1>1 DEF Order
<1>4. stamp'[a] <= clock' /\ (a \notin Restores =>
          /\ \A o \in Targets(a) : top[o] <= stamp'[a]
          /\ \A i \in intents' : Pending(i)' /\ Targets(i) \cap Targets(a) # {} => stamp'[a] <= stamp'[i])
  <2>0. Targets(a) \subseteq Outputs
    BY AttemptsAssumption DEF Targets
  <2>1. CASE Mode[a] = "intent"
    <3>1. /\ a \notin Restores /\ a \in intents /\ Pending(a) /\ stamp' = stamp /\ clock' = clock
          /\ intents' = intents \ {a}
      BY <2>1 DEF Claim, IntentsAfterClaim, ghost, Restores, Claimable, Pending
    <3>2. \A i \in intents' : Targets(i) \cap Targets(a) = {}
      <4> SUFFICES ASSUME NEW i \in intents' PROVE Targets(i) \cap Targets(a) = {}
        OBVIOUS
      <4>1. ~Overlap(i, a)
        BY <3>1 DEF Order
      <4> QED
        BY <4>1 DEF Overlap, Targets
    <3> QED
      BY <3>1, <3>2 DEF Order
  <2>2. CASE Mode[a] = "deferred"
    <3>1. /\ a \notin Restores /\ a \in Deferred /\ Pending(a) /\ generation = expected[a]
          /\ stamp' = stamp /\ clock' = clock /\ intents' = intents
      BY <2>2 DEF Claim, IntentsAfterClaim, ghost, Restores, Deferred, Claimable, Pending
    <3>2. \A i \in intents' : Pending(i)' => Pending(i) /\ i \in Attempts
      BY <1>1, <3>1 DEF Pending, TypeOK
    <3>3. \A i \in intents' : Pending(i)' => stamp[a] < stamp[i]
      BY <3>1, <3>2 DEF Order
    <3> QED
      BY <1>1, <2>0, <3>1, <3>3 DEF Order, TypeOK
  <2>3. CASE Mode[a] \notin {"intent", "deferred"}
    BY <1>1, <2>0, <2>3 DEF Claim, IntentsAfterClaim, Stamp, Order, TypeOK
  <2> QED
    BY <2>1, <2>2, <2>3
<1>5. pc'[a] \notin Asking
    BY DEF TypeOK
<1>6. \A b \in intents' : Mode[b] = "intent" /\ (Pending(b)' => b # a /\ Pending(b))
    BY <1>1, <1>5 DEF Order, Pending, TypeOK
<1>7. \A b \in Attempts : Targets(b)' = Targets(b)
    BY DEF Targets
<1>8. \A b \in intents' : Pending(b)' => \A o \in Targets(b)' : top'[o] <= stamp'[b]
    BY <1>1, <1>6, <1>7 DEF Order, TypeOK
<1>9. \A b \in Attempts : stamp'[b] <= clock' /\ expected'[b] <= generation'
    BY <1>1, <1>3, <1>4 DEF Order, TypeOK
<1>10. \A o \in Outputs : top'[o] <= clock'
    BY <1>1 DEF Order, TypeOK
<1>11. \A b, c \in intents' : b # c => ~Overlap(b, c)'
    BY <1>1 DEF Order, Overlap
<1>12. \A b \in Deferred : generation' # expected'[b]
    BY <1>3 DEF Deferred, TypeOK
<1>13. \A b \in Attempts \ Restores : pc'[b] \in Authorized =>
          /\ \A o \in Targets(b)' : top'[o] <= stamp'[b]
          /\ \A i \in intents' : Pending(i)' /\ Targets(i)' \cap Targets(b)' # {}
                                  => stamp'[b] <= stamp'[i]
    BY <1>1, <1>2, <1>4, <1>7 DEF TypeOK
<1> QED
    BY <1>3, <1>6, <1>8, <1>9, <1>10, <1>11, <1>12, <1>13 DEF Order, Deferred, Restores

\* A commit raises the outputs it is about to its own place in the order.
LEMMA OrderCommit ==
    ASSUME TypeOK, Authority, Order, NEW a \in Attempts, Commit(a)
    PROVE  Order' /\ \A o \in Outputs : top'[o] >= top[o]
<1> USE DEF Authorized, Asking
<1>1. /\ pc[a] = "rendered" /\ a \notin Restores /\ lock = a
      /\ UNCHANGED <<generation, intents, clock>>
      /\ \E to \in Ended : pc' = [pc EXCEPT ![a] = to]
      /\ expected' = [expected EXCEPT ![a] = 0] /\ stamp' = [stamp EXCEPT ![a] = 0]
    BY CommitPasses DEF End, Goto, Authority, InLock, Ended
<1>2. \A b \in Attempts : /\ b # a => pc'[b] = pc[b] /\ stamp'[b] = stamp[b]
                         /\ expected'[b] <= expected[b] /\ expected[b] < generation
                         /\ stamp'[b] <= stamp[b] /\ stamp[b] <= clock
                         /\ stamp'[b] \in Nat /\ stamp[b] \in Nat
                         /\ expected[b] \in Nat /\ expected'[b] \in Nat
    BY <1>1 DEF Order, TypeOK
<1>3. Scope(a) \subseteq Targets(a) /\ Targets(a) \subseteq Outputs
    BY AttemptsAssumption DEF Scope, Targets
<1>4. \A o \in Outputs : /\ top'[o] = top[o] \/ (o \in Targets(a) /\ top'[o] = stamp[a])
                        /\ top[o] \in Nat /\ top'[o] \in Nat
    BY <1>1, <1>2, <1>3, CommitPasses DEF TypeOK
<1>5. \A o \in Targets(a) : top[o] <= stamp[a]
    BY <1>1 DEF Order
<1>6. \A o \in Outputs : top'[o] >= top[o] /\ top'[o] <= clock'
    BY <1>1, <1>2, <1>4, <1>5 DEF Order, TypeOK
<1>7. \A b \in Attempts : /\ pc'[b] \notin Authorized /\ (pc'[b] \in Asking => b # a /\ Pending(b))
                         /\ Targets(b)' = Targets(b)
    BY <1>1, <1>2 DEF Authority, InLock, Ended, Refused, TypeOK, Pending, Targets
<1>8. \A b \in intents' : Pending(b)' => \A o \in Targets(b)' : top'[o] <= stamp'[b]
  <2> SUFFICES ASSUME NEW b \in intents', Pending(b)', NEW o \in Targets(b)
               PROVE  top'[o] <= stamp'[b]
    BY <1>1, <1>7 DEF TypeOK
  <2>0. b \in intents /\ b \in Attempts /\ pc'[b] \in Asking
    BY <1>1 DEF Pending, TypeOK
  <2>1. /\ b \in intents /\ b \in Attempts /\ b # a /\ Pending(b) /\ stamp'[b] = stamp[b]
        /\ o \in Outputs
    <3>1. b # a /\ Pending(b)
      BY <1>7, <2>0
    <3>2. Targets(b) \subseteq Outputs
      BY <2>0, AttemptsAssumption DEF Targets
    <3> QED
      BY <1>2, <2>0, <3>1, <3>2
  <2>2. top[o] <= stamp[b]
    BY <2>1 DEF Order
  <2>3. o \in Targets(a) => stamp[a] <= stamp[b]
    BY <1>1, <2>1 DEF Order
  <2> QED
    BY <1>4, <2>1, <2>2, <2>3
<1>9. \A b \in Attempts : generation' # expected'[b] /\ expected'[b] <= generation' /\ stamp'[b] <= clock'
    BY <1>1, <1>2 DEF TypeOK
<1>10. \A b \in intents' : Mode[b] = "intent"
    BY <1>1 DEF Order
<1>11. \A b, c \in intents' : b # c => ~Overlap(b, c)'
    BY <1>1 DEF Order, Overlap
<1> QED
    BY <1>6, <1>7, <1>8, <1>9, <1>10, <1>11 DEF Order, Deferred, Restores

LEMMA OrderPreserved == Inv /\ [Next]_vars => Order'
<1> SUFFICES ASSUME Inv, [Next]_vars PROVE Order'
    OBVIOUS
<1> USE DEF runtime, tokens, pass, screen, ghost
<1>1. TypeOK /\ Authority /\ Order
    BY DEF Inv
<1>2. CASE EditLocks \/ UNCHANGED vars
  <2>1. UNCHANGED <<pc, generation, intents, expected, clock, stamp, top>>
    BY <1>2 DEF EditLocks, vars
  <2>2. \A b \in Attempts : Targets(b)' = Targets(b) /\ (Pending(b)' <=> Pending(b))
    BY <2>1 DEF Targets, Pending
  <2>3. \A b, c \in Attempts : Overlap(b, c)' <=> Overlap(b, c)
    BY DEF Overlap
  <2>4. intents \subseteq Attempts
    BY <1>1 DEF TypeOK
  <2> QED
    BY <1>1, <2>1, <2>2, <2>3, <2>4 DEF Order, Deferred, Restores
<1>3. ASSUME NEW a \in Attempts, Outside(a) PROVE Order'
  <2>1. UNCHANGED <<generation, intents, clock, top>>
    BY <1>3 DEF Outside, Accept, Enter, Prepared, NoTarget, ReadLocks
  <2>2. \/ Goto(a, "accepted") /\ UNCHANGED <<expected, stamp>>
        \/ Goto(a, "entering") /\ UNCHANGED <<expected, stamp>>
           /\ (Pending(a) \/ Mode[a] \notin {"intent", "deferred"})
        \/ Goto(a, "waiting") /\ UNCHANGED <<expected, stamp>> /\ Pending(a)
        \/ End(a, "noop") \/ End(a, "failed") \/ End(a, "superseded")
    BY <1>3 DEF Outside, Accept, Enter, Prepared, NoTarget, ReadLocks, Pending, Asking
  <2>3. CASE Goto(a, "accepted") /\ UNCHANGED <<expected, stamp>>
    BY <1>1, <2>1, <2>3, OrderStays DEF Goto, Asking, Authorized
  <2>4. ASSUME NEW to \in {"entering", "waiting"}, Goto(a, to), UNCHANGED <<expected, stamp>>,
               Pending(a) \/ Mode[a] \notin {"intent", "deferred"}
        PROVE  Order'
    BY <1>1, <2>1, <2>4, OrderStays DEF Goto, Authorized
  <2>5. ASSUME NEW to \in {"noop", "failed", "superseded"}, End(a, to) PROVE Order'
    BY <1>1, <2>1, <2>5, OrderStays DEF Goto, End, Asking, Authorized
  <2> QED
    BY <2>2, <2>3, <2>4, <2>5
<1>4. ASSUME NEW a \in Attempts, Asks(a) PROVE Order'
    BY <1>1, <1>4, OrderDefer, OrderIntend DEF Asks
<1>5. ASSUME NEW a \in Attempts, Lock(a) PROVE Order'
  <2>1. /\ pc' = [pc EXCEPT ![a] = "locked"] /\ Pending(a)
        /\ UNCHANGED <<generation, intents, clock, top, expected, stamp>>
    BY <1>5 DEF Lock, Goto, Pending, Asking
  <2> QED
    BY <1>1, <2>1, OrderStays DEF Authorized
<1>6. ASSUME NEW a \in Attempts, Leaves(a) PROVE Order'
  <2>1. PICK to \in Ended : End(a, to) /\ UNCHANGED <<generation, intents, clock, top>>
    BY <1>6 DEF Leaves, GiveUp, TooLate, Refused, Unlock, Ended
  <2> QED
    BY <1>1, <2>1, OrderStays DEF End, Goto, Ended, Asking, Authorized
<1>7. ASSUME NEW a \in Attempts, Claims(a) PROVE Order'
  <2>1. /\ Claim(a) /\ pc[a] = "locked" /\ Claimable(a) /\ expected' = expected
        /\ Goto(a, "claimed") \/ Goto(a, "staged")
    BY <1>7 DEF Claims, ClaimPlain, ClaimFanOut
  <2>2. lock = a
    BY <1>1, <2>1 DEF Authority, InLock
  <2> QED
    BY <1>1, <2>1, <2>2, OrderClaim DEF Goto
<1>8. ASSUME NEW a \in Attempts, Applies(a) PROVE Order'
  <2>1. CASE Commit(a)
    BY <1>1, <2>1, OrderCommit
  <2>2. CASE EnterReserved(a) \/ Fails(a) \/ RollBack(a) \/ RenderOk(a) \/ TinierFailsHalfway(a)
    <3>1. pc[a] \in Authorized /\ UNCHANGED <<generation, intents, clock, top>>
      BY <2>2 DEF EnterReserved, Fails, RollBack, RenderOk, TinierFailsHalfway, Authorized
    <3>2. \/ \E to \in {"failed", "halfway"} : End(a, to)
          \/ \E to \in {"claimed", "rolling", "rendered"} : Goto(a, to) /\ UNCHANGED <<expected, stamp>>
      BY <2>2 DEF EnterReserved, Fails, RollBack, RenderOk, TinierFailsHalfway, Unlock
    <3>3. ASSUME NEW to \in {"failed", "halfway"}, End(a, to) PROVE Order'
      BY <1>1, <3>1, <3>3, OrderStays DEF End, Goto, Asking, Authorized
    <3>4. ASSUME NEW to \in {"claimed", "rolling", "rendered"}, Goto(a, to), UNCHANGED <<expected, stamp>>
          PROVE  Order'
      BY <1>1, <3>1, <3>4, OrderStays DEF Goto, Asking
    <3> QED
      BY <3>2, <3>3, <3>4
  <2> QED
    BY <1>8, <2>1, <2>2 DEF Applies
<1>9. ASSUME NEW r \in Attempts, Passes(r) PROVE Order'
  <2>1. CASE NextGroup(r) /\ Claim(r)
    <3>1. pc[r] = "planned" /\ r \in Restores /\ lock = r
      BY <1>1, <2>1 DEF NextGroup, Authority, InLock
    <3>2. generation' # generation
      BY <1>1, <2>1 DEF Claim, TypeOK
    <3>3. Goto(r, "claimed") /\ expected' = expected
      BY <2>1, <3>2 DEF NextGroup
    <3> QED
      BY <1>1, <2>1, <3>1, <3>2, <3>3, OrderClaim DEF Goto
  <2>2. CASE ~(NextGroup(r) /\ Claim(r))
    <3>1. UNCHANGED <<generation, intents, clock, top>>
      BY <1>9, <2>2 DEF Passes, StartPass, NoOutputs, SkipGone, NextGroup, GroupOk, GroupFails, EndPass
    <3>2. \E to \in {"planned", "retrying"} \cup Ended :
             End(r, to) \/ (Goto(r, to) /\ UNCHANGED <<expected, stamp>>)
      BY <1>9, <2>2 DEF Passes, StartPass, NoOutputs, SkipGone, NextGroup, GroupOk, GroupFails, EndPass,
         Unlock, AfterFailure, Ended
    <3>3. PICK to \in {"planned", "retrying"} \cup Ended :
             End(r, to) \/ (Goto(r, to) /\ UNCHANGED <<expected, stamp>>)
      BY <3>2
    <3>4. to \notin Asking \cup Authorized
      BY DEF Ended, Asking, Authorized
    <3> QED
      BY <1>1, <3>1, <3>3, <3>4, OrderStays DEF End, Goto
  <2> QED
    BY <2>1, <2>2
<1> QED
    BY <1>2, <1>3, <1>4, <1>5, <1>6, <1>7, <1>8, <1>9, Kinds

-----------------------------------------------------------------------------
\* One attempt moves; only the holder of the lock changes outputs.json.
LEMMA KeptStays ==
    ASSUME TypeOK, Authority, Kept, NEW a \in Attempts, NEW to,
           pc' = [pc EXCEPT ![a] = to],
           \A b \in Attempts \ {a} : preserved'[b] = preserved[b] /\ previous'[b] = previous[b],
           preserved'[a] # {} => OutputOf[a] = All /\ a \notin Restores,
           to \in {"staged", "rolling"} => OutputOf[a] = All /\ preserved'[a] # {},
           to \in {"staged", "claimed", "rolling"} /\ OutputOf[a] = All /\ preserved'[a] # {} =>
               \A o \in Outputs \ (Targets(a) \ preserved'[a]) : previous'[a][o] = desired'[o],
           desired' = desired \/ lock = a
    PROVE  Kept'
<1>1. \A b \in Attempts : /\ b # a => pc'[b] = pc[b] /\ (FansOut(b)' <=> FansOut(b)) /\ Scope(b)' = Scope(b)
                         /\ pc'[a] = to
    BY DEF TypeOK, FansOut, Scope, Targets
<1>2. (FansOut(a)' <=> OutputOf[a] = All /\ preserved'[a] # {}) /\ Scope(a)' = Targets(a) \ preserved'[a]
    BY DEF FansOut, Scope, Targets
<1>3. \A b \in Attempts : b # a /\ pc[b] \in {"staged", "claimed", "rolling"} => desired' = desired
    BY DEF Authority, InLock, Authorized
<1>4. \A b \in Attempts : preserved'[b] # {} => OutputOf[b] = All /\ b \notin Restores
    BY DEF Kept
<1>5. \A b \in Attempts : pc'[b] \in {"staged", "rolling"} => FansOut(b)'
    BY <1>1, <1>2 DEF Kept
<1>6. ASSUME NEW b \in Attempts, pc'[b] \in {"staged", "claimed", "rolling"}, FansOut(b)'
      PROVE  \A o \in Outputs \ Scope(b)' : previous'[b][o] = desired'[o]
  <2>1. CASE b = a
    BY <1>1, <1>2, <1>6, <2>1
  <2>2. CASE b # a
    BY <1>1, <1>3, <1>6, <2>2 DEF Kept
  <2> QED
    BY <2>1, <2>2
<1> QED
    BY <1>4, <1>5, <1>6 DEF Kept, Restores

LEMMA KeptPreserved == Inv /\ [Next]_vars => Kept'
<1> SUFFICES ASSUME Inv, [Next]_vars PROVE Kept'
    OBVIOUS
<1> USE DEF runtime, tokens, pass, screen, ghost
<1>1. TypeOK /\ Authority /\ Kept
    BY DEF Inv
<1>2. CASE EditLocks \/ UNCHANGED vars
    BY <1>1, <1>2 DEF EditLocks, vars, Kept, FansOut, Scope, Targets, Restores
<1>3. ASSUME NEW a \in Attempts, Outside(a) PROVE Kept'
  <2>1. desired' = desired
    BY <1>3 DEF Outside, Accept, Enter, Prepared, NoTarget, ReadLocks
  <2>2. PICK to \in {"accepted", "entering", "waiting", "noop", "failed", "superseded"} : Goto(a, to)
    BY <1>3 DEF Outside, Accept, Enter, Prepared, NoTarget, ReadLocks, End
  <2>3. \A b \in Attempts \ {a} : preserved'[b] = preserved[b] /\ previous'[b] = previous[b]
    BY <1>1, <1>3 DEF Outside, Accept, Enter, Prepared, NoTarget, ReadLocks, End, TypeOK
  <2>4. preserved'[a] # {} => OutputOf[a] = All /\ a \notin Restores
    <3>1. CASE Accept(a) \/ Enter(a) \/ Prepared(a) \/ NoTarget(a)
      BY <1>1, <3>1 DEF Accept, Enter, Prepared, NoTarget, End, TypeOK, Kept
    <3>2. CASE ReadLocks(a)
      <4>1. a \notin Restores
        BY <1>1, <3>2 DEF ReadLocks, Authority
      <4>2. End(a, "noop") => preserved'[a] = {}
        BY <1>1 DEF End, TypeOK
      <4> DEFINE kept == IF RespectsLocks(a) THEN Targets(a) \cap locked ELSE {}
      <4>3. ~End(a, "noop") => preserved'[a] = kept /\ (OutputOf[a] = All \/ kept = {})
        BY <1>1, <3>2 DEF ReadLocks, TypeOK
      <4> QED
        BY <4>1, <4>2, <4>3
    <3> QED
      BY <1>3, <3>1, <3>2 DEF Outside
  <2> QED
    BY <1>1, <2>1, <2>2, <2>3, <2>4, KeptStays DEF Goto
<1>4. ASSUME NEW a \in Attempts, Asks(a) \/ Lock(a) \/ Leaves(a) PROVE Kept'
  <2>1. desired' = desired
    BY <1>4 DEF Asks, Defer, Intend, Lock, Leaves, GiveUp, TooLate, Refused
  <2>2. PICK to \in {"preparing", "entering", "locked"} \cup Ended : Goto(a, to)
    BY <1>4 DEF Asks, Defer, Intend, Lock, Leaves, GiveUp, TooLate, Refused, Unlock, End, Ended
  <2>3. /\ \A b \in Attempts \ {a} : preserved'[b] = preserved[b] /\ previous'[b] = previous[b]
        /\ preserved'[a] \in {preserved[a], {}}
    BY <1>1, <1>4 DEF Asks, Defer, Intend, Lock, Leaves, GiveUp, TooLate, Refused, Unlock, End, TypeOK
  <2> QED
    BY <1>1, <2>1, <2>2, <2>3, KeptStays DEF Goto, Kept, Ended
<1>5. ASSUME NEW a \in Attempts, ClaimPlain(a) PROVE Kept'
  <2>1. /\ UNCHANGED <<desired, preserved, previous>> /\ ~FansOut(a) /\ Goto(a, "claimed")
    BY <1>5 DEF ClaimPlain
  <2> QED
    BY <1>1, <2>1, KeptStays DEF Goto, Kept, FansOut
<1>6. ASSUME NEW a \in Attempts, ClaimFanOut(a) PROVE Kept'
  <2>1. /\ FansOut(a) /\ Goto(a, "staged") /\ preserved' = preserved /\ lock = a
        /\ previous' = [previous EXCEPT ![a] = desired]
        /\ desired' = [o \in Outputs |-> IF o \in Scope(a) THEN a ELSE desired[o]]
    BY <1>1, <1>6 DEF ClaimFanOut, Authority, InLock
  <2>2. \A o \in Outputs \ (Targets(a) \ preserved'[a]) : previous'[a][o] = desired'[o]
    BY <1>1, <2>1 DEF Scope, TypeOK
  <2>3. \A b \in Attempts \ {a} : preserved'[b] = preserved[b] /\ previous'[b] = previous[b]
    BY <1>1, <2>1 DEF TypeOK
  <2> QED
    BY <1>1, <2>1, <2>2, <2>3, KeptStays DEF Goto, Kept, FansOut
<1>7. ASSUME NEW a \in Attempts, Applies(a) PROVE Kept'
  <2>0. pc[a] \in Authorized
    BY <1>7 DEF Applies, EnterReserved, Fails, RollBack, RenderOk, TinierFailsHalfway, Commit, Authorized
  <2>1. lock = a /\ a \notin Restores
    <3>1. lock = a
      BY <1>1, <2>0 DEF Authority, InLock
    <3>2. CASE TinierFailsHalfway(a)
      BY <3>1, <3>2 DEF TinierFailsHalfway, Restores
    <3>3. CASE ~TinierFailsHalfway(a)
      BY <1>1, <1>7, <3>1, <3>3 DEF Applies, EnterReserved, Fails, RollBack, RenderOk, Commit, Authority
    <3> QED
      BY <3>2, <3>3
  <2>2. CASE EnterReserved(a) \/ RenderOk(a)
    <3>1. CASE EnterReserved(a)
      <4>1. /\ Goto(a, "claimed") /\ pc[a] = "staged"
            /\ UNCHANGED <<desired, preserved, previous>>
        BY <3>1 DEF EnterReserved
      <4>2. FansOut(a) /\ \A o \in Outputs \ Scope(a) : previous[a][o] = desired[o]
        BY <1>1, <4>1 DEF Kept
      <4> QED
        BY <1>1, <2>1, <4>1, <4>2, KeptStays DEF Goto, FansOut, Scope
    <3>2. CASE RenderOk(a)
      <4>1. Goto(a, "rendered") /\ UNCHANGED <<preserved, previous>>
        BY <3>2 DEF RenderOk
      <4>2. preserved'[a] # {} => OutputOf[a] = All /\ a \notin Restores
        BY <1>1, <4>1 DEF Kept
      <4> QED
        BY <1>1, <2>1, <4>1, <4>2, KeptStays DEF Goto
    <3> QED
      BY <2>2, <3>1, <3>2
  <2>3. ASSUME FansOut(a), Goto(a, "rolling"), pc[a] \in {"claimed", "staged"},
               UNCHANGED <<desired, preserved, previous>>
        PROVE  Kept'
    BY <1>1, <2>1, <2>3, KeptStays DEF Goto, Kept, FansOut, Scope
  <2>4. ASSUME NEW to \in Ended, End(a, to) PROVE Kept'
    <3>1. /\ \A b \in Attempts \ {a} : preserved'[b] = preserved[b] /\ previous'[b] = previous[b]
          /\ preserved'[a] = {} /\ pc' = [pc EXCEPT ![a] = to]
      BY <1>1, <2>4 DEF End, Goto, TypeOK
    <3> QED
      BY <1>1, <2>1, <3>1, KeptStays DEF Ended
  <2>5. CASE Fails(a)
    BY <2>3, <2>4, <2>5 DEF Fails, Unlock, Ended
  <2>6. CASE RollBack(a) \/ TinierFailsHalfway(a)
    BY <2>4, <2>6 DEF RollBack, TinierFailsHalfway, Unlock, Ended
  <2>7. CASE Commit(a)
    BY <1>1, <2>4, <2>7, CommitPasses DEF Ended
  <2> QED
    BY <1>7, <2>2, <2>5, <2>6, <2>7 DEF Applies
<1>8. ASSUME NEW r \in Attempts, Passes(r) PROVE Kept'
  <2>1. r \in Restores /\ preserved[r] = {}
    BY <1>1, <1>8 DEF Passes, StartPass, NoOutputs, SkipGone, NextGroup, GroupOk, GroupFails, EndPass,
       Authority, Kept
  <2>2. desired' = desired \/ lock = r
    BY <1>1, <1>8 DEF Passes, StartPass, NoOutputs, SkipGone, NextGroup, GroupOk, GroupFails, EndPass,
       Authority, InLock, Authorized
  <2>3. /\ \A b \in Attempts \ {r} : preserved'[b] = preserved[b] /\ previous'[b] = previous[b]
        /\ preserved'[r] = {}
    BY <1>1, <1>8, <2>1 DEF Passes, StartPass, NoOutputs, SkipGone, NextGroup, GroupOk, GroupFails, EndPass,
       Unlock, End, TypeOK
  <2>4. PICK to \in {"planned", "retrying", "claimed"} \cup Ended : Goto(r, to)
    BY <1>8 DEF Passes, StartPass, NoOutputs, SkipGone, NextGroup, GroupOk, GroupFails, EndPass,
       Unlock, End, AfterFailure, Ended
  <2> QED
    BY <1>1, <2>1, <2>2, <2>3, <2>4, KeptStays DEF Goto, Ended
<1> QED
    BY <1>2, <1>3, <1>4, <1>5, <1>6, <1>7, <1>8, Kinds DEF Claims

-----------------------------------------------------------------------------
\* What Was is for the holder of the lock, and for a free lock.
LEMMA WasIs ==
    ASSUME TypeOK, Authority
    PROVE  /\ \A a \in Attempts : lock = a => Was = IF StagedBy(a) THEN previous[a] ELSE desired
           /\ lock = Free => Was = desired
           /\ \A a \in Attempts : StagedBy(a) => lock = a
<1>1. \A a \in Attempts : StagedBy(a) => lock = a
    BY DEF Authority, StagedBy, InLock, Authorized
<1>2. \A a \in Attempts : lock = a => ((\E b \in Attempts : StagedBy(b)) <=> StagedBy(a))
    BY <1>1
<1> QED
    BY <1>1, <1>2, AttemptsAssumption DEF Was

\* A move outside the renderers leaves Was alone.
LEMMA WasStays ==
    ASSUME TypeOK, Authority, NEW a \in Attempts, NEW to,
           pc' = [pc EXCEPT ![a] = to],
           \A b \in Attempts \ {a} : preserved'[b] = preserved[b] /\ previous'[b] = previous[b],
           desired' = desired,
           lock' = lock \/ (lock \in {Free, a} /\ lock' \in {Free, a}),
           ~StagedBy(a), to \in {"staged", "claimed", "rolling"} => OutputOf[a] # All \/ preserved'[a] = {}
    PROVE  Was' = Was
<1>1. ~StagedBy(a)'
    BY DEF StagedBy, FansOut, TypeOK
<1>2. \A b \in Attempts : StagedBy(b)' <=> StagedBy(b)
    BY <1>1 DEF StagedBy, FansOut, TypeOK
<1>3. \A b \in Attempts : StagedBy(b) => lock = b /\ b # a
    BY WasIs
<1>4. CASE \E b \in Attempts : StagedBy(b)
  <2>1. lock \in Attempts /\ lock # a /\ lock' = lock /\ StagedBy(lock)
    BY <1>3, <1>4, AttemptsAssumption
  <2>2. previous'[lock'] = previous[lock]
    BY <2>1
  <2> QED
    BY <1>2, <1>4, <2>2 DEF Was
<1>5. CASE ~\E b \in Attempts : StagedBy(b)
    BY <1>2, <1>5 DEF Was
<1> QED
    BY <1>4, <1>5

\* Halfway, of the wallpaper w after the step.
LeftHalfway(w) == pc'[w] = "halfway"

\* A move that renders nothing and remembers nothing keeps the stores in agreement.
LEMMA StoresStay ==
    ASSUME TypeOK, Authority, Stores, NEW a \in Attempts, NEW to,
           pc' = [pc EXCEPT ![a] = to],
           pc[a] \notin {"done", "halfway", "rendered"}, to # "rendered",
           \A b \in Attempts \ {a} : preserved'[b] = preserved[b],
           desired' = desired \/ lock = a,
           remembered' = remembered, Was' = Was,
           \A o \in Outputs : shown'[o] \in {shown[o], Was[o], Blank}
    PROVE  Stores'
<1>1. \A b \in Attempts : /\ b # a => pc'[b] = pc[b] /\ Scope(b)' = Scope(b)
                         /\ pc'[a] = to
    BY DEF TypeOK, Scope, Targets
<1>2. \A o \in Outputs : shown'[o] \in {Was'[o], Blank}
    BY DEF Stores
<1>3. ASSUME NEW b \in Attempts, pc'[b] = "rendered"
      PROVE  b # a /\ pc[b] = "rendered" /\ Scope(b)' = Scope(b) /\ desired' = desired
    BY <1>1, <1>3 DEF Authority, InLock, Authorized
<1>4. \A b \in Attempts : pc'[b] = "rendered" => \A o \in Scope(b)' : desired'[o] = b
    BY <1>3 DEF Stores
<1>5. \A w : w \in Wallpapers /\ w # Old => w \in Attempts
    BY DEF Wallpapers
<1>6. \A o \in Outputs : remembered'[o] # Old => pc'[remembered'[o]] = "done"
    BY <1>1, <1>5 DEF Stores, TypeOK
<1>7. ASSUME NEW o \in Outputs, Was'[o] # remembered'[o]
      PROVE  \/ Was'[o] # Old /\ LeftHalfway(Was'[o])
             \/ \E b \in Attempts : pc'[b] = "rendered" /\ o \in Scope(b)'
  <2>1. CASE Was[o] # Old /\ Halfway(Was[o])
    <3>1. pc'[Was[o]] = pc[Was[o]]
      BY <2>1 DEF Halfway, TypeOK
    <3> QED
      BY <2>1, <3>1 DEF Halfway, LeftHalfway
  <2>2. ASSUME NEW b \in Attempts, pc[b] = "rendered", o \in Scope(b)
        PROVE  pc'[b] = "rendered" /\ o \in Scope(b)'
    BY <1>1, <2>2
  <2> QED
    BY <1>7, <2>1, <2>2 DEF Stores
<1>8. \A o \in Outputs : Was'[o] # remembered'[o] =>
          \/ Was'[o] # Old /\ LeftHalfway(Was'[o])
          \/ \E b \in Attempts : pc'[b] = "rendered" /\ o \in Scope(b)'
    BY <1>7
<1> QED
    BY <1>2, <1>4, <1>6, <1>8 DEF Stores, Halfway, LeftHalfway

\* One holder shows outs as it says, on the screen and in outputs.json alike.
LEMMA StoresShow ==
    ASSUME TypeOK, Authority, Stores, Kept, NEW a \in Attempts, NEW outs, NEW w \in Wallpapers,
           lock = a, lock' = lock \/ lock' = Free, pc[a] = "claimed", Show(outs, w),
           NEW to \in {"rendered", "planned", "halfway"}, pc' = [pc EXCEPT ![a] = to],
           \A b \in Attempts \ {a} : preserved'[b] = preserved[b],
           remembered' = remembered,
           FansOut(a) => to = "rendered" /\ outs = Scope(a),
           to = "rendered" => w = a /\ outs = Scope(a) /\ preserved' = preserved,
           to = "halfway" => w = a,
           to = "planned" => \A o \in outs \cap Outputs : w = remembered[o]
    PROVE  Stores'
<1>1. /\ shown' = desired' /\ shown' \in [Outputs -> Wallpapers \cup {Blank}]
      /\ \A o \in Outputs : desired'[o] = IF o \in outs THEN w ELSE desired[o]
    BY ShowTypes
<1>2. \A b \in Attempts : b # a => pc'[b] = pc[b] /\ pc[b] \notin InLock
    BY DEF TypeOK, Authority
<1>3. pc'[a] = to
    BY DEF TypeOK
<1>4. \A b \in Attempts : ~StagedBy(b)'
    BY <1>2, <1>3 DEF StagedBy, InLock, Authorized
<1>5. Was' = desired'
    BY <1>4 DEF Was
<1>6. \A o \in Outputs : o \notin outs => Was'[o] = Was[o]
  <2>1. CASE FansOut(a)
    <3>1. StagedBy(a) /\ Was = previous[a]
      BY <2>1, WasIs DEF StagedBy
    <3> QED
      BY <1>1, <1>5, <2>1, <3>1 DEF Kept
  <2>2. CASE ~FansOut(a)
    BY <1>1, <1>5, <2>2, WasIs DEF StagedBy
  <2> QED
    BY <2>1, <2>2
<1>7. \A b \in Attempts : pc'[b] = "rendered" => b = a /\ to = "rendered" /\ Scope(a)' = Scope(a)
    BY <1>2, <1>3 DEF InLock, Authorized, Scope, Targets
<1>8. \A b \in Attempts : pc'[b] = "rendered" => \A o \in Scope(b)' : desired'[o] = b
  <2>1. Scope(a) \subseteq Outputs
    BY AttemptsAssumption DEF Scope, Targets
  <2> QED
    BY <1>1, <1>7, <2>1
<1>9. \A o \in Outputs : remembered'[o] # Old => pc'[remembered'[o]] = "done"
    BY <1>2, <1>3 DEF Stores, TypeOK, Wallpapers
<1>10. ASSUME NEW o \in Outputs, Was'[o] # remembered'[o]
       PROVE  \/ Was'[o] # Old /\ LeftHalfway(Was'[o])
              \/ \E b \in Attempts : pc'[b] = "rendered" /\ o \in Scope(b)'
  <2>1. CASE o \in outs
    <3>1. CASE to = "rendered"
      BY <1>3, <1>7, <2>1, <3>1
    <3>2. CASE to = "halfway"
      <4>1. Was'[o] = a /\ a # Old /\ pc'[a] = "halfway"
        BY <1>1, <1>3, <1>5, <2>1, <3>2, AttemptsAssumption
      <4> QED
        BY <3>2, <4>1 DEF LeftHalfway
    <3>3. CASE to = "planned"
      BY <1>1, <1>5, <1>10, <2>1, <3>3
    <3> QED
      BY <3>1, <3>2, <3>3
  <2>2. CASE o \notin outs
    <3>1. Was'[o] = Was[o] /\ Was[o] # remembered[o]
      BY <1>6, <1>10, <2>2
    <3>2. Was[o] # Old /\ Halfway(Was[o])
      <4>1. \A b \in Attempts : pc[b] # "rendered"
        BY <1>2 DEF InLock, Authorized
      <4> QED
        BY <3>1, <4>1 DEF Stores
    <3>3. pc'[Was[o]] = "halfway"
      BY <3>2 DEF Halfway, TypeOK
    <3> QED
      BY <3>1, <3>2, <3>3 DEF Halfway, LeftHalfway
  <2> QED
    BY <2>1, <2>2
<1>11. \A o \in Outputs : Was'[o] # remembered'[o] =>
          \/ Was'[o] # Old /\ LeftHalfway(Was'[o])
          \/ \E b \in Attempts : pc'[b] = "rendered" /\ o \in Scope(b)'
    BY <1>10
<1>12. \A o \in Outputs : shown'[o] \in {Was'[o], Blank}
    BY <1>1, <1>5
<1> QED
    BY <1>8, <1>9, <1>11, <1>12 DEF Stores, Halfway, LeftHalfway

-----------------------------------------------------------------------------
LEMMA StoresPreserved == Inv /\ [Next]_vars => Stores'
<1> SUFFICES ASSUME Inv, [Next]_vars PROVE Stores'
    OBVIOUS
<1> USE DEF runtime, tokens, pass, screen, ghost
<1>1. TypeOK /\ Authority /\ Kept /\ Stores
    BY DEF Inv
<1>2. CASE EditLocks \/ UNCHANGED vars
  <2>1. UNCHANGED <<pc, lock, preserved, previous, desired, shown, remembered>>
    BY <1>2 DEF EditLocks, vars
  <2>2. Was' = Was
    BY <2>1 DEF Was, StagedBy, FansOut
  <2> QED
    BY <1>1, <2>1, <2>2 DEF Stores, Halfway, Scope, Targets
<1>3. ASSUME NEW a \in Attempts, Outside(a) \/ Asks(a) \/ Lock(a) \/ Leaves(a) PROVE Stores'
  <2>1. /\ UNCHANGED <<desired, shown, remembered>>
        /\ pc[a] \in {"idle", "accepted", "preparing", "entering", "waiting", "locked"}
    BY <1>3 DEF Outside, Accept, Enter, Prepared, NoTarget, ReadLocks, Asks, Defer, Intend, Lock, Leaves,
       GiveUp, TooLate, Refused
  <2>2. lock' = lock \/ (lock \in {Free, a} /\ lock' \in {Free, a})
    <3>1. CASE Leaves(a)
      BY <1>1, <3>1 DEF Leaves, GiveUp, TooLate, Refused, Unlock, Authority, InLock
    <3>2. CASE Outside(a) \/ Asks(a) \/ Lock(a)
      BY <3>2 DEF Outside, Accept, Enter, Prepared, NoTarget, ReadLocks, Asks, Defer, Intend, Lock
    <3> QED
      BY <1>3, <3>1, <3>2
  <2>3. \A b \in Attempts \ {a} : preserved'[b] = preserved[b] /\ previous'[b] = previous[b]
    <3>1. CASE Outside(a)
      BY <1>1, <3>1 DEF Outside, Accept, Enter, Prepared, NoTarget, ReadLocks, End, TypeOK
    <3>2. CASE Asks(a) \/ Lock(a) \/ Leaves(a)
      BY <1>1, <3>2 DEF Asks, Defer, Intend, Lock, Leaves, GiveUp, TooLate, Refused, Unlock, End, TypeOK
    <3> QED
      BY <1>3, <3>1, <3>2
  <2>4. PICK to \in {"accepted", "preparing", "entering", "waiting", "locked"} \cup Ended : Goto(a, to)
    <3>1. CASE Outside(a)
      BY <3>1 DEF Outside, Accept, Enter, Prepared, NoTarget, ReadLocks, End, Ended
    <3>2. CASE Asks(a) \/ Lock(a) \/ Leaves(a)
      BY <3>2 DEF Asks, Defer, Intend, Lock, Leaves, GiveUp, TooLate, Refused, Unlock, End, Ended
    <3> QED
      BY <1>3, <3>1, <3>2
  <2>5. to \notin {"staged", "claimed", "rolling", "rendered"} /\ ~StagedBy(a)
    BY <2>1 DEF Ended, StagedBy
  <2>6. Was' = Was
    BY <1>1, <2>1, <2>2, <2>3, <2>4, <2>5, WasStays DEF Goto
  <2> QED
    BY <1>1, <2>1, <2>3, <2>4, <2>5, <2>6, StoresStay DEF Goto
<1>4. ASSUME NEW a \in Attempts, ClaimPlain(a) PROVE Stores'
  <2>1. /\ UNCHANGED <<lock, preserved, previous, desired, shown, remembered>>
        /\ ~FansOut(a) /\ Goto(a, "claimed") /\ pc[a] = "locked"
    BY <1>4 DEF ClaimPlain
  <2>2. Was' = Was
    BY <1>1, <2>1, WasStays DEF Goto, StagedBy, FansOut
  <2> QED
    BY <1>1, <2>1, <2>2, StoresStay DEF Goto
<1>5. ASSUME NEW a \in Attempts, ClaimFanOut(a) PROVE Stores'
  <2>1. /\ UNCHANGED <<lock, preserved, shown, remembered>> /\ lock = a
        /\ FansOut(a) /\ Goto(a, "staged") /\ pc[a] = "locked"
        /\ previous' = [previous EXCEPT ![a] = desired]
    BY <1>1, <1>5 DEF ClaimFanOut, Authority, InLock
  <2>2. Was = desired
    BY <1>1, <2>1, WasIs DEF StagedBy
  <2>3. StagedBy(a)'
    BY <1>1, <2>1 DEF StagedBy, FansOut, Goto, TypeOK
  <2>4. Was' = previous'[lock']
    BY <2>3 DEF Was
  <2>5. Was' = Was
    BY <1>1, <2>1, <2>2, <2>4 DEF TypeOK
  <2> QED
    BY <1>1, <2>1, <2>5, StoresStay DEF Goto
<1>6. ASSUME NEW a \in Attempts, Applies(a) PROVE Stores'
  <2>1. lock = a
    <3>1. pc[a] \in Authorized
      BY <1>6 DEF Applies, EnterReserved, Fails, RollBack, RenderOk, TinierFailsHalfway, Commit, Authorized
    <3> QED
      BY <1>1, <3>1 DEF Authority, InLock
  <2>2. ASSUME FansOut(a), pc[a] \in {"staged", "claimed"}, NEW to \in {"claimed", "rolling"}, Goto(a, to),
               UNCHANGED <<lock, preserved, previous, desired, shown, remembered>>
        PROVE  Stores'
    <3>1. StagedBy(a) /\ StagedBy(a)'
      BY <1>1, <2>2 DEF StagedBy, FansOut, Goto, TypeOK
    <3>2. Was' = Was
      BY <2>2, <3>1 DEF Was
    <3> QED
      BY <1>1, <2>2, <3>2, StoresStay DEF Goto
  <2>3. CASE EnterReserved(a)
    BY <1>1, <2>2, <2>3 DEF EnterReserved, Kept
  <2>4. CASE Fails(a)
    <3>1. CASE pc[a] = "claimed" /\ ~FansOut(a) /\ Unlock(a, "failed")
      <4>1. /\ pc' = [pc EXCEPT ![a] = "failed"] /\ lock' = Free
            /\ UNCHANGED <<desired, shown, remembered>>
            /\ \A b \in Attempts \ {a} : preserved'[b] = preserved[b] /\ previous'[b] = previous[b]
        BY <1>1, <2>4, <3>1 DEF Fails, Unlock, End, Goto, TypeOK
      <4>2. Was' = Was
        BY <1>1, <2>1, <3>1, <4>1, WasStays DEF StagedBy
      <4> QED
        BY <1>1, <3>1, <4>1, <4>2, StoresStay
    <3> QED
      BY <2>2, <2>4, <3>1 DEF Fails
  <2>5. CASE RollBack(a)
    <3>1. /\ pc' = [pc EXCEPT ![a] = "failed"] /\ pc[a] = "rolling" /\ lock' = Free
          /\ desired' = previous[a] /\ shown' \in {shown, previous[a]} /\ remembered' = remembered
          /\ \A b \in Attempts \ {a} : preserved'[b] = preserved[b] /\ previous'[b] = previous[b]
      BY <1>1, <2>5 DEF RollBack, Unlock, End, Goto, TypeOK
    <3>2. StagedBy(a) /\ Was = previous[a]
      BY <1>1, <2>1, <3>1, WasIs DEF Kept, StagedBy
    <3>3. \A b \in Attempts : ~StagedBy(b)'
      BY <1>1, <2>1, <3>1 DEF StagedBy, TypeOK, Authority, InLock, Authorized
    <3>4. Was' = Was
      BY <3>1, <3>2, <3>3 DEF Was
    <3> QED
      BY <1>1, <2>1, <3>1, <3>2, <3>4, StoresStay
  <2>6. CASE RenderOk(a)
    BY <1>1, <2>1, <2>6, StoresShow DEF RenderOk, Goto, Wallpapers
  <2>7. CASE TinierFailsHalfway(a)
    <3>1. /\ pc' = [pc EXCEPT ![a] = "halfway"] /\ pc[a] = "claimed" /\ lock' = Free
          /\ ~FansOut(a) /\ remembered' = remembered
          /\ \A b \in Attempts \ {a} : preserved'[b] = preserved[b]
      BY <1>1, <2>7 DEF TinierFailsHalfway, Unlock, End, Goto, TypeOK
    <3>2. PICK outs : Show(outs, a)
      BY <2>7 DEF TinierFailsHalfway
    <3> QED
      BY <1>1, <2>1, <3>1, <3>2, StoresShow DEF Wallpapers
  <2>8. CASE Commit(a)
    <3>1. /\ pc[a] = "rendered" /\ generation = claimed[a] /\ lock' = Free
          /\ UNCHANGED <<desired, shown>>
          /\ remembered' = [o \in Outputs |-> IF o \in Scope(a) THEN a ELSE remembered[o]]
          /\ pc' = [pc EXCEPT ![a] = "done"]
      BY <1>1, <2>8, CommitPasses DEF End, Goto
    <3>2. \A b \in Attempts : pc'[b] # "rendered" /\ ~StagedBy(b) /\ ~StagedBy(b)'
      BY <1>1, <2>1, <3>1 DEF StagedBy, TypeOK, Authority, InLock, Authorized
    <3>3. Was = desired /\ Was' = desired
      BY <3>1, <3>2 DEF Was
    <3>4. \A o \in Outputs : shown'[o] \in {Was'[o], Blank}
      BY <1>1, <3>1, <3>3 DEF Stores
    <3>5. \A o \in Outputs : remembered'[o] # Old => pc'[remembered'[o]] = "done"
      BY <1>1, <3>1 DEF Stores, TypeOK, Wallpapers
    <3>6. ASSUME NEW o \in Outputs, Was'[o] # remembered'[o]
          PROVE  Was'[o] # Old /\ LeftHalfway(Was'[o])
      <4>1. \A b \in Attempts : pc[b] = "rendered" => b = a
        BY <1>1, <2>1 DEF Authority, InLock, Authorized
      <4>2. o \notin Scope(a) /\ Was[o] # remembered[o]
        BY <1>1, <3>1, <3>3, <3>6 DEF Stores
      <4>3. Was[o] # Old /\ Halfway(Was[o])
        BY <1>1, <4>1, <4>2 DEF Stores
      <4>4. pc'[Was[o]] = "halfway"
        BY <1>1, <3>1, <4>3 DEF Halfway, TypeOK
      <4> QED
        BY <3>3, <4>3, <4>4 DEF Halfway, LeftHalfway
    <3> QED
      BY <3>2, <3>4, <3>5, <3>6 DEF Stores, Halfway, LeftHalfway
  <2> QED
    BY <1>6, <2>3, <2>4, <2>5, <2>6, <2>7, <2>8 DEF Applies
<1>7. ASSUME NEW r \in Attempts, Passes(r) PROVE Stores'
  <2>0. preserved[r] = {} /\ r \in Restores /\ ~FansOut(r) /\ ~StagedBy(r)
    BY <1>1, <1>7 DEF Passes, StartPass, NoOutputs, SkipGone, NextGroup, GroupOk, GroupFails, EndPass,
       Authority, Kept, FansOut, StagedBy
  <2>1. CASE GroupOk(r)
    <3>1. /\ pc[r] = "claimed" /\ pc' = [pc EXCEPT ![r] = "planned"] /\ lock = r
          /\ UNCHANGED <<lock, preserved, remembered>>
      BY <1>1, <2>1 DEF GroupOk, Goto, Authority, InLock, Authorized
    <3>2. PICK g \in Groups(r) : \E o \in g : Show(g, remembered[o])
      BY <2>1 DEF GroupOk
    <3>3. PICK o \in g : Show(g, remembered[o])
      BY <3>2
    <3>4. todo[r] \subseteq Outputs
      BY <1>1 DEF TypeOK
    <3>5. o \in Outputs /\ \A p \in g \cap Outputs : remembered[p] = remembered[o]
      BY <3>2, <3>4 DEF Groups
    <3>6. remembered[o] \in Wallpapers
      BY <1>1, <3>5 DEF TypeOK
    <3> QED
      BY <1>1, <2>0, <3>1, <3>3, <3>5, <3>6, StoresShow
  <2>3. ASSUME GroupFails(r), NEW o \in Outputs, NEW outs, Show(outs, remembered[o]),
               \A p \in Outputs : remembered[p] = remembered[o]
        PROVE  Stores'
    <3>1. /\ pc[r] = "claimed" /\ pc' = [pc EXCEPT ![r] = "planned"] /\ lock = r
          /\ UNCHANGED <<lock, preserved, remembered>>
      BY <1>1, <2>3 DEF GroupFails, Goto, Authority, InLock, Authorized
    <3>2. remembered[o] \in Wallpapers
      BY <1>1 DEF TypeOK
    <3> QED
      BY <1>1, <2>0, <2>3, <3>1, <3>2, StoresShow
  <2>2. CASE ~GroupOk(r) /\ (GroupFails(r) => UNCHANGED <<desired, shown>>)
    <3>1. /\ UNCHANGED <<desired, remembered>>
          /\ pc[r] \in {"idle", "retrying", "planned", "claimed"}
      BY <1>7, <2>2 DEF Passes, StartPass, NoOutputs, SkipGone, NextGroup, GroupFails, EndPass
    <3>2. \A b \in Attempts \ {r} : preserved'[b] = preserved[b] /\ previous'[b] = previous[b]
      BY <1>1, <1>7, <2>2 DEF Passes, StartPass, NoOutputs, SkipGone, NextGroup, GroupFails, EndPass,
         Unlock, End, TypeOK
    <3>3. lock' = lock \/ (lock \in {Free, r} /\ lock' \in {Free, r})
      <4>1. pc[r] = "planned" => lock = r
        BY <1>1 DEF Authority, InLock
      <4> QED
        BY <1>7, <2>2, <4>1 DEF Passes, StartPass, NoOutputs, SkipGone, NextGroup, GroupFails, EndPass, Unlock
    <3>4. PICK to \in {"planned", "retrying", "claimed"} \cup Ended :
             Goto(r, to) /\ (to = "claimed" => preserved' = preserved)
      BY <1>7, <2>2 DEF Passes, StartPass, NoOutputs, SkipGone, NextGroup, GroupFails, EndPass,
         Unlock, End, AfterFailure, Ended
    <3>5. to \notin {"staged", "rolling", "rendered"}
      BY DEF Ended
    <3>6. Was' = Was
      BY <1>1, <2>0, <3>1, <3>2, <3>3, <3>4, <3>5, WasStays DEF Goto
    <3>7. \A o \in Outputs : shown'[o] \in {shown[o], Blank}
      BY <1>1, <1>7, <2>2 DEF Passes, StartPass, NoOutputs, SkipGone, NextGroup, GroupFails, EndPass, TypeOK
    <3> QED
      BY <1>1, <3>1, <3>2, <3>4, <3>5, <3>6, <3>7, StoresStay DEF Goto
  <2> QED
    BY <2>1, <2>2, <2>3, GroupFailing
<1> QED
    BY <1>2, <1>3, <1>4, <1>5, <1>6, <1>7, Kinds DEF Claims

-----------------------------------------------------------------------------
LEMMA Initially == Init => Inv
<1> SUFFICES ASSUME Init PROVE Inv
    OBVIOUS
<1>1. \A a \in Attempts : pc[a] \in {"absent", "idle"} /\ preserved[a] = {} /\ expected[a] = 0 /\ stamp[a] = 0
    BY DEF Init
<1>2. TypeOK
    BY AttemptsAssumption DEF Init, TypeOK, Wallpapers
<1>3. TriesLeft
    BY AttemptsAssumption DEF Init, TriesLeft
<1>4. Authority /\ Cancels
    BY <1>1, AttemptsAssumption DEF Init, Authority, Cancels, InLock, Authorized, Requested
<1>5. Order
    BY <1>1 DEF Init, Order, Pending, Asking, Authorized, Deferred
<1>6. Kept
    BY <1>1 DEF Kept, FansOut
<1>7. Stores
  <2>1. Was = desired
    BY <1>1 DEF Was, StagedBy
  <2> QED
    BY <1>1, <2>1 DEF Init, Stores
<1> QED
    BY <1>2, <1>3, <1>4, <1>5, <1>6, <1>7 DEF Inv

LEMMA Inductive == Spec => []Inv
<1>1. Inv /\ [Next]_vars => Inv'
    BY TypePreserved, ControlPreserved, OrderPreserved, KeptPreserved, StoresPreserved DEF Inv
<1> QED
    BY <1>1, Initially, PTL DEF Spec

\* The variables keep their types, and so does every attempt's record of what it has
\* claimed, seen locked and found in outputs.json (apply_core, restore_pass).
THEOREM TypeCorrect == Spec => []TypeOK
<1>1. Inv => TypeOK
    BY DEF Inv
<1> QED
    BY <1>1, Inductive, PTL

\* An attempt that has claimed holds the lock and the current generation until it
\* ends, so authorize_commit never refuses what was rendered (claim_generation).
THEOREM CommitIsAuthorized == Spec => []AuthorityIsExclusive
<1>1. Inv => AuthorityIsExclusive
    BY DEF Inv, Authority, AuthorityIsExclusive, InLock
<1> QED
    BY <1>1, Inductive, PTL

\* Where a step that claims nothing leads.
Unclaimed == {"accepted", "preparing", "entering", "waiting", "retrying", "locked", "planned",
              "staged", "rendered", "rolling"} \cup Ended

LEMMA Moves ==
    ASSUME Next
    PROVE  pc' = pc \/ \E b \in Attempts : \/ NextGroup(b) \/ ClaimPlain(b) \/ EnterReserved(b)
                                           \/ \E to \in Unclaimed : Goto(b, to)
<1> USE DEF Unclaimed, Ended
<1>1. EditLocks => pc' = pc
    BY DEF EditLocks
<1>2. \A a \in Attempts : Outside(a) => \E to \in Unclaimed : Goto(a, to)
    BY DEF Outside, Accept, Enter, Prepared, NoTarget, ReadLocks, End
<1>3. \A a \in Attempts : Asks(a) \/ Lock(a) \/ Leaves(a) => \E to \in Unclaimed : Goto(a, to)
    BY DEF Asks, Defer, Intend, Lock, Leaves, GiveUp, TooLate, Refused, Unlock, End
<1>4. \A a \in Attempts : ClaimFanOut(a) => \E to \in Unclaimed : Goto(a, to)
    BY DEF ClaimFanOut
<1>5. \A a \in Attempts : Applies(a) => EnterReserved(a) \/ \E to \in Unclaimed : Goto(a, to)
    BY DEF Applies, Fails, RollBack, RenderOk, TinierFailsHalfway, Commit, Unlock, End
<1>6. \A a \in Attempts : Passes(a) => NextGroup(a) \/ \E to \in Unclaimed : Goto(a, to)
    BY DEF Passes, StartPass, NoOutputs, SkipGone, GroupOk, GroupFails, EndPass, AfterFailure, Unlock, End
<1> QED
    BY <1>1, <1>2, <1>3, <1>4, <1>5, <1>6, Kinds DEF Claims

\* After a request has been accepted, or another source has committed, the startup
\* restore claims no further group (cancel_restore, restore_pass).
THEOREM RestoreGivesWay == Spec => RestoreYields
<1>1. Inv /\ [Next]_vars =>
         [\A r, a \in Attempts :
             /\ Mode[r] = "restore" /\ pc[r] = "planned" /\ pc'[r] = "claimed"
             /\ a \notin Restores
             => pc[a] # "done" /\ (Mode[a] \in Requested => pc[a] \in {"absent", "idle"})]_vars
  <2> SUFFICES ASSUME Inv, Next, NEW r \in Attempts, NEW a \in Attempts,
                      Mode[r] = "restore", pc[r] = "planned", pc'[r] = "claimed", a \notin Restores
               PROVE  pc[a] # "done" /\ (Mode[a] \in Requested => pc[a] \in {"absent", "idle"})
    BY DEF vars
  <2>1. ~restoreCancelled
    <3>1. pc' = pc \/ \E b \in Attempts : \/ NextGroup(b) \/ ClaimPlain(b) \/ EnterReserved(b)
                                         \/ \E to \in Unclaimed : Goto(b, to)
      BY Moves
    <3>2. NextGroup(r)
      <4>1. pc \in [Attempts -> {"absent", "idle", "accepted", "preparing", "entering", "waiting", "retrying"}
                                \cup InLock \cup Ended]
        BY DEF Inv, TypeOK
      <4>2. ASSUME NEW b \in Attempts, NEW to, Goto(b, to) PROVE b = r /\ to = "claimed"
        BY <3>1, <4>1, <4>2 DEF Goto
      <4>3. \A b \in Attempts : ~ClaimPlain(b) /\ ~EnterReserved(b)
        BY <4>2 DEF ClaimPlain, EnterReserved
      <4>4. ASSUME NEW b \in Attempts, NEW to \in Unclaimed PROVE ~Goto(b, to)
        BY <4>2, <4>4 DEF Unclaimed, Ended
      <4>5. PICK b \in Attempts : NextGroup(b)
        BY <3>1, <4>3, <4>4
      <4>6. \E to : Goto(b, to)
        BY <4>5 DEF NextGroup, Unlock, End
      <4> QED
        BY <4>2, <4>5, <4>6
    <3>3. ~RestoreStopped(r)
      BY <3>2 DEF Inv, TypeOK, NextGroup, Unlock, End, Goto
    <3> QED
      BY <3>3 DEF RestoreStopped
  <2> QED
    BY <2>1 DEF Inv, Cancels
<1> QED
    BY <1>1, Inductive, PTL DEF Spec, RestoreYields

\* What was asked for later is never overwritten by what was asked for earlier, however
\* long a preparation takes and whatever is claimed meanwhile (ExpectedApply).
THEOREM LaterRequestWins == Spec => NewestWins
<1>1. Inv /\ [Next]_vars => [\A o \in Outputs : top'[o] >= top[o]]_vars
  <2> SUFFICES ASSUME Inv, [Next]_vars PROVE \A o \in Outputs : top'[o] >= top[o]
    OBVIOUS
  <2>1. TypeOK /\ Authority /\ Order
    BY DEF Inv
  <2>2. CASE top' = top
    BY <2>1, <2>2 DEF TypeOK
  <2>3. ASSUME NEW a \in Attempts, Commit(a) PROVE \A o \in Outputs : top'[o] >= top[o]
    BY <2>1, <2>3, OrderCommit
  <2>4. top' = top \/ \E a \in Attempts : Commit(a)
    <3> USE DEF ghost
    <3>1. EditLocks \/ UNCHANGED vars => top' = top
      BY DEF EditLocks, vars
    <3>2. \A a \in Attempts : Outside(a) \/ Asks(a) \/ Lock(a) \/ Leaves(a) => top' = top
      BY DEF Outside, Accept, Enter, Prepared, NoTarget, ReadLocks, Asks, Defer, Intend, Stamp, Lock, Leaves,
         GiveUp, TooLate, Refused
    <3>3. \A a \in Attempts : Claims(a) => top' = top
      BY <2>1, ClaimTypes DEF Claims, ClaimPlain, ClaimFanOut
    <3>4. \A a \in Attempts : Applies(a) => Commit(a) \/ top' = top
      BY DEF Applies, EnterReserved, Fails, RollBack, RenderOk, TinierFailsHalfway
    <3>5. \A a \in Attempts : Passes(a) => top' = top
      BY <2>1, ClaimTypes DEF Passes, StartPass, NoOutputs, SkipGone, NextGroup, GroupOk, GroupFails, EndPass
    <3> QED
      BY <3>1, <3>2, <3>3, <3>4, <3>5, Kinds
  <2> QED
    BY <2>2, <2>3, <2>4
<1> QED
    BY <1>1, Inductive, PTL DEF Spec, NewestWins

\* An output seen locked keeps its wallpaper through the whole apply, its failure and
\* its rollback (apply_locked_fanout, stage_unlocked_media_outputs).
THEOREM LocksAreKept == Spec => LockedOutputsKept
<1>1. Inv /\ [Next]_vars =>
         [\A a \in Attempts : lock = a => \A o \in preserved[a] :
             desired'[o] = desired[o] /\ shown'[o] \in {shown[o], desired[o]}]_vars
  <2> SUFFICES ASSUME Inv, Next, NEW a \in Attempts, lock = a, NEW o \in preserved[a]
               PROVE  desired'[o] = desired[o] /\ shown'[o] \in {shown[o], desired[o]}
    BY DEF vars
  <2> USE DEF screen
  <2>1. TypeOK /\ Authority /\ Kept /\ o \in Outputs /\ OutputOf[a] = All /\ FansOut(a) /\ a \notin Restores
    BY DEF Inv, TypeOK, Kept, FansOut
  <2>2. CASE UNCHANGED <<desired, shown>>
    BY <2>2
  <2>3. ASSUME NEW b \in Attempts,
               \/ ClaimFanOut(b) \/ RollBack(b) \/ RenderOk(b) \/ TinierFailsHalfway(b)
               \/ StartPass(b) \/ GroupOk(b) \/ GroupFails(b)
        PROVE  desired'[o] = desired[o] /\ shown'[o] \in {shown[o], desired[o]}
    <3>1. b = a
      BY <2>1, <2>3, AttemptsAssumption
      DEF ClaimFanOut, RollBack, RenderOk, TinierFailsHalfway, StartPass, GroupOk, GroupFails,
          Authority, InLock, Authorized
    <3>2. o \notin Scope(a)
      BY DEF Scope
    <3>3. CASE ClaimFanOut(a)
      BY <2>1, <3>2, <3>3 DEF ClaimFanOut
    <3>4. CASE RollBack(a)
      BY <2>1, <3>2, <3>4 DEF RollBack, Kept
    <3>5. CASE RenderOk(a)
      BY <2>1, <3>2, <3>5 DEF RenderOk, Show
    <3> QED
      BY <2>1, <2>3, <3>1, <3>3, <3>4, <3>5 DEF TinierFailsHalfway, StartPass, GroupOk, GroupFails
  <2>4. UNCHANGED <<desired, shown>> \/ \E b \in Attempts :
               \/ ClaimFanOut(b) \/ RollBack(b) \/ RenderOk(b) \/ TinierFailsHalfway(b)
               \/ StartPass(b) \/ GroupOk(b) \/ GroupFails(b)
    <3>1. EditLocks => UNCHANGED <<desired, shown>>
      BY DEF EditLocks
    <3>2. \A b \in Attempts : Outside(b) \/ Asks(b) \/ Lock(b) \/ Leaves(b) \/ ClaimPlain(b)
                              => UNCHANGED <<desired, shown>>
      BY DEF Outside, Accept, Enter, Prepared, NoTarget, ReadLocks, Asks, Defer, Intend, Lock, Leaves,
         GiveUp, TooLate, Refused, ClaimPlain
    <3>3. \A b \in Attempts : EnterReserved(b) \/ Fails(b) \/ Commit(b) => UNCHANGED <<desired, shown>>
      BY DEF EnterReserved, Fails, Commit
    <3>4. \A b \in Attempts : NoOutputs(b) \/ SkipGone(b) \/ NextGroup(b) \/ EndPass(b)
                              => UNCHANGED <<desired, shown>>
      BY DEF NoOutputs, SkipGone, NextGroup, EndPass
    <3> QED
      BY <3>1, <3>2, <3>3, <3>4, Kinds DEF Claims, Applies, Passes
  <2> QED
    BY <2>2, <2>3, <2>4
<1> QED
    BY <1>1, Inductive, PTL DEF Spec, LockedOutputsKept

\* Between applies the screen, outputs.json and the remembered monitors agree, whatever
\* failed or was rolled back before (apply_locked_fanout, publish, restore_group).
THEOREM StoresConverge == Spec => []StoresAgree
<1>1. Inv => StoresAgree
  <2> SUFFICES ASSUME Inv, lock = Free, NEW o \in Outputs
               PROVE  /\ shown[o] \in {desired[o], Blank}
                      /\ desired[o] # remembered[o] => desired[o] # Old /\ Halfway(desired[o])
                      /\ remembered[o] # Old => pc[remembered[o]] = "done"
    BY DEF StoresAgree
  <2>1. Was = desired
    BY WasIs DEF Inv
  <2>2. \A a \in Attempts : pc[a] # "rendered"
    BY AttemptsAssumption DEF Inv, Authority, InLock, Authorized
  <2> QED
    BY <2>1, <2>2 DEF Inv, Stores
<1> QED
    BY <1>1, Inductive, PTL
=============================================================================
