------------------------ MODULE DownloadQueue_proofs ------------------------
(***************************************************************************)
(* Proofs about DownloadQueue, for any number of requests, keys, slots and *)
(* places in the queue.  Inv is the inductive invariant: the properties    *)
(* the runs check, and what they need of each waiting thread's ticket.     *)
(***************************************************************************)
EXTENDS DownloadQueue, SequenceTheorems, FiniteSetTheorems, TLAPS

Waiting == At({"waiting"})

\* Every ticket of a waiting thread lies between the two counters and belongs to
\* one thread, and there are as many as the counters say.
Tickets ==
    /\ \A d \in Waiting : admitted <= ticket[d] /\ ticket[d] < issued
    /\ \A d, e \in Waiting : ticket[d] = ticket[e] => d = e
    /\ \A t \in Nat : admitted <= t /\ t < issued => \E d \in Waiting : ticket[d] = t
    /\ Cardinality(Waiting) + admitted = issued

\* What a waiting thread last told its client is no better than its place now.
Told ==
    \A d \in Downloads : IF pc[d] = "waiting" THEN ticket[d] - admitted <= told[d]
                         ELSE told[d] = Unset

\* The keys of the owners are in flight, each for one owner.
Owners == At(Owning \ {"unreserving"})
KeysHeld ==
    /\ \A d \in Downloads : pc[d] # "idle" => key[d] \in Keys
    /\ \A d \in Owners : key[d] \in inflight
    /\ OneOwnerPerKey

Inv == TypeOK /\ Accounting /\ Tickets /\ Told /\ KeysHeld

-----------------------------------------------------------------------------
(* What a step of one request does to the sets of requests.                *)

\* The set of the requests in given states is finite, and a request in it counts.
LEMMA AtFinite ==
    ASSUME NEW S
    PROVE  /\ IsFiniteSet(At(S)) /\ Cardinality(At(S)) \in Nat
           /\ Cardinality(At(S)) <= Cardinality(Downloads)
           /\ Cardinality(Downloads) \in Nat
           /\ \A d \in At(S) : Cardinality(At(S)) > 0
<1>1. At(S) \subseteq Downloads
    BY DEF At
<1>2. IsFiniteSet(At(S)) /\ Cardinality(At(S)) <= Cardinality(Downloads)
    BY <1>1, FS_Subset, DownloadsAssumption
<1>3. Cardinality(At(S)) \in Nat /\ Cardinality(Downloads) \in Nat
    BY <1>2, FS_CardinalityType, DownloadsAssumption
<1>4. \A d \in At(S) : Cardinality(At(S)) # 0
    BY <1>2, FS_EmptySet
<1> QED
    BY <1>2, <1>3, <1>4

\* A request that goes to a state enters or leaves each set of states alone.
LEMMA Move ==
    ASSUME TypeOK, NEW d \in Downloads, NEW to, Goto(d, to), NEW S
    PROVE  /\ to \in S => At(S)' = At(S) \cup {d}
           /\ to \notin S => At(S)' = At(S) \ {d}
           /\ Cardinality(At(S)') = Cardinality(At(S))
                  + (IF to \in S THEN 1 ELSE 0) - (IF pc[d] \in S THEN 1 ELSE 0)
<1>1. to \in S => At(S)' = At(S) \cup {d}
    BY DEF At, Goto, TypeOK
<1>2. to \notin S => At(S)' = At(S) \ {d}
    BY DEF At, Goto, TypeOK
<1>3. IsFiniteSet(At(S)) /\ Cardinality(At(S)) \in Nat
    BY AtFinite
<1>4. d \in At(S) <=> pc[d] \in S
    BY DEF At
<1>5. Cardinality(At(S) \cup {d}) = IF d \in At(S) THEN Cardinality(At(S)) ELSE Cardinality(At(S)) + 1
    BY <1>3, FS_AddElement
<1>6. Cardinality(At(S) \ {d}) = IF d \in At(S) THEN Cardinality(At(S)) - 1 ELSE Cardinality(At(S))
    BY <1>3, FS_RemoveElement
<1> QED
    BY <1>1, <1>2, <1>3, <1>4, <1>5, <1>6

\* The counters never run out of what is taken from them.
LEMMA Positive ==
    ASSUME TypeOK, Accounting, NEW d \in Downloads
    PROVE  /\ pc[d] \in Holding => outstanding - 1 \in Nat
           /\ pc[d] \in Running => active - 1 \in Nat
<1>1. /\ pc[d] \in Holding => Cardinality(At(Holding)) > 0
      /\ pc[d] \in Running => Cardinality(At(Running)) > 0
    BY AtFinite DEF At
<1> QED
    BY <1>1 DEF Accounting, TypeOK

LEMMA Initially == Init => Inv
<1> SUFFICES ASSUME Init PROVE Inv
    OBVIOUS
<1>1. Unset \in Nat
    BY FS_CardinalityType, DownloadsAssumption DEF Unset
<1>2. TypeOK
    BY <1>1, KeysAssumption DEF Init, TypeOK, Ended, Refusals, Owning, Holding, Running
<1>3. At(Holding) = {} /\ At(Running) = {} /\ Waiting = {} /\ Owners = {}
    BY DEF Init, At, Waiting, Owners, Owning, Holding, Running
<1>4. Accounting
    BY <1>3, FS_EmptySet, GateAssumption DEF Init, Accounting, MaxOutstanding
<1>5. Tickets
    BY <1>3, FS_EmptySet DEF Init, Tickets
<1>6. Told
    BY DEF Init, Told
<1>7. KeysHeld
    BY <1>3 DEF Init, KeysHeld, OneOwnerPerKey, Owners
<1> QED
    BY <1>2, <1>4, <1>5, <1>6, <1>7 DEF Inv

-----------------------------------------------------------------------------
(* Each part of the invariant is preserved by every step.                  *)

\* A ticket and the position told from it are numbers.
LEMMA EntryTypes ==
    ASSUME TypeOK, Tickets, NEW d \in Downloads, NEW my \in Nat, admitted <= my,
           TryEnter(d, my)
    PROVE  /\ pc' = [pc EXCEPT ![d] = pc'[d]] /\ pc'[d] \in {"admitted", "waiting"}
           /\ ticket' \in [Downloads -> Nat] /\ told' \in [Downloads -> Nat]
           /\ asleep' \subseteq Downloads /\ admitted' \in Nat /\ active' \in Nat
<1>1. Unset \in Nat
    BY FS_CardinalityType, DownloadsAssumption DEF Unset
<1>2. CASE MayEnter(my)
    BY <1>1, <1>2 DEF TryEnter, Goto, TypeOK
<1>3. CASE ~MayEnter(my)
    BY <1>1, <1>3 DEF TryEnter, Goto, TypeOK, Ahead
<1> QED
    BY <1>2, <1>3

LEMMA TypePreserved == Inv /\ [Next]_vars => TypeOK'
<1> SUFFICES ASSUME Inv, [Next]_vars PROVE TypeOK'
    OBVIOUS
<1> USE DEF Ended, Refusals, Owning, Holding, Running
<1>1. TypeOK /\ Accounting /\ Tickets /\ KeysHeld
    BY DEF Inv
<1>2. ASSUME NEW d \in Downloads, CheckLibrary(d) PROVE TypeOK'
  <2>1. PICK k \in Wanted[d] : /\ key' = [key EXCEPT ![d] = k]
                               /\ Goto(d, IF k \in library THEN "exists" ELSE "checked")
    BY <1>2 DEF CheckLibrary
  <2>2. k \in Keys
    BY KeysAssumption
  <2> QED
    BY <1>1, <1>2, <2>1, <2>2 DEF CheckLibrary, Goto, TypeOK, line
<1>3. ASSUME NEW d \in Downloads, dl_inflight_begin(d) PROVE TypeOK'
  <2>1. key[d] \in Keys
    BY <1>1, <1>3 DEF KeysHeld, dl_inflight_begin
  <2> QED
    BY <1>1, <1>3, <2>1 DEF dl_inflight_begin, IsFree, Goto, TypeOK, line, local
<1>4. ASSUME NEW d \in Downloads, LoadOutstanding(d) PROVE TypeOK'
    BY <1>1, <1>4 DEF LoadOutstanding, Goto, TypeOK, line
<1>5. ASSUME NEW d \in Downloads, RefuseFull(d) PROVE TypeOK'
    BY <1>1, <1>5 DEF RefuseFull, Goto, TypeOK, line
<1>6. ASSUME NEW d \in Downloads, CompareExchange(d) PROVE TypeOK'
    BY <1>1, <1>6 DEF CompareExchange, Goto, TypeOK, line
<1>7. ASSUME NEW d \in Downloads, SpawnFails(d) PROVE TypeOK'
    BY <1>1, <1>7 DEF SpawnFails, Goto, TypeOK, line, local
<1>8. ASSUME NEW d \in Downloads, DropReservation(d) PROVE TypeOK'
    BY <1>1, <1>8, Positive DEF DropReservation, Goto, TypeOK, line, local
<1>9. ASSUME NEW d \in Downloads, acquire_reserved(d) PROVE TypeOK'
  <2>1. admitted <= issued
    BY <1>1, AtFinite DEF Tickets, TypeOK, Waiting
  <2> QED
    BY <1>1, <1>9, <2>1, EntryTypes DEF acquire_reserved, TypeOK
<1>10. ASSUME NEW d \in Downloads, Recheck(d) PROVE TypeOK'
  <2>1. admitted <= ticket[d] /\ ticket[d] \in Nat
    BY <1>1, <1>10 DEF Tickets, TypeOK, Waiting, At, Recheck
  <2> QED
    BY <1>1, <1>10, <2>1, EntryTypes DEF Recheck, TypeOK
<1>11. ASSUME NEW d \in Downloads, SpuriousWake(d) PROVE TypeOK'
    BY <1>1, <1>11 DEF SpuriousWake, TypeOK, line, local
<1>12. ASSUME NEW d \in Downloads, NotifyAdmission(d) PROVE TypeOK'
    BY <1>1, <1>12 DEF NotifyAdmission, Goto, TypeOK, line, local
<1>13. ASSUME NEW d \in Downloads, Slot_drop(d) PROVE TypeOK'
  <2>1. active - 1 \in Nat
    BY <1>1, <1>13, Positive DEF Slot_drop
  <2>2. key[d] \in Keys
    BY <1>1, <1>13 DEF Slot_drop, KeysHeld
  <2> QED
    BY <1>1, <1>13, <2>1, <2>2 DEF Slot_drop, Goto, TypeOK, local
<1>14. ASSUME NEW d \in Downloads, GiveBackOutstanding(d) PROVE TypeOK'
    BY <1>1, <1>14, Positive DEF GiveBackOutstanding, Goto, TypeOK, line, local
<1>15. ASSUME NEW d \in Downloads, NotifyRelease(d) PROVE TypeOK'
    BY <1>1, <1>15 DEF NotifyRelease, Goto, TypeOK, line, local
<1>16. ASSUME NEW d \in Downloads, InflightGuard_drop(d) PROVE TypeOK'
    BY <1>1, <1>16 DEF InflightGuard_drop, Goto, TypeOK, line, local
<1>17. CASE UNCHANGED vars
    BY <1>1, <1>17 DEF TypeOK, vars
<1> QED
    BY <1>2, <1>3, <1>4, <1>5, <1>6, <1>7, <1>8, <1>9, <1>10, <1>11, <1>12, <1>13, <1>14,
       <1>15, <1>16, <1>17 DEF Next, Step, Terminated

\* A set of states that a step neither enters nor leaves keeps its requests.
LEMMA CountsStay ==
    ASSUME TypeOK, NEW d \in Downloads, NEW to, Goto(d, to),
           pc[d] \in Holding <=> to \in Holding, pc[d] \in Running <=> to \in Running,
           UNCHANGED <<outstanding, active>>, Accounting
    PROVE  Accounting'
<1>1. /\ Cardinality(At(Holding)') = Cardinality(At(Holding))
      /\ Cardinality(At(Running)') = Cardinality(At(Running))
    BY Move, AtFinite
<1> QED
    BY <1>1 DEF Accounting, MaxOutstanding

LEMMA AccountingPreserved == Inv /\ [Next]_vars => Accounting'
<1> SUFFICES ASSUME Inv, [Next]_vars PROVE Accounting'
    OBVIOUS
<1>1. TypeOK /\ Accounting
    BY DEF Inv
<1>2. /\ Cardinality(At(Holding)) \in Nat /\ Cardinality(At(Running)) \in Nat
      /\ Cap \in Nat /\ MaxQueued \in Nat /\ active \in Nat /\ outstanding \in Nat
    BY <1>1, AtFinite, GateAssumption DEF TypeOK
<1>3. ASSUME NEW d \in Downloads, CompareExchange(d) PROVE Accounting'
  <2>1. CASE UNCHANGED <<pc, outstanding>>
    BY <1>1, <1>3, <2>1 DEF CompareExchange, Accounting, At, line
  <2>2. CASE observed[d] = outstanding /\ outstanding' = outstanding + 1 /\ Goto(d, "reserved")
    <3>1. /\ Cardinality(At(Holding)') = Cardinality(At(Holding)) + 1
          /\ Cardinality(At(Running)') = Cardinality(At(Running))
      BY <1>1, <1>2, <1>3, <2>2, Move DEF CompareExchange, Holding, Running
    <3> QED
      BY <1>1, <1>2, <1>3, <2>2, <3>1 DEF CompareExchange, Accounting, MaxOutstanding, line
  <2> QED
    BY <1>3, <2>1, <2>2 DEF CompareExchange
<1>4. ASSUME NEW d \in Downloads, DropReservation(d) \/ GiveBackOutstanding(d)
      PROVE  Accounting'
  <2>1. PICK to \in {"spawn_failed", "decremented"} : Goto(d, to)
    BY <1>4 DEF DropReservation, GiveBackOutstanding
  <2>2. pc[d] \in {"unreserving", "released"} /\ outstanding' = outstanding - 1 /\ active' = active
    BY <1>4 DEF DropReservation, GiveBackOutstanding, line
  <2>3. /\ Cardinality(At(Holding)') = Cardinality(At(Holding)) - 1
        /\ Cardinality(At(Running)') = Cardinality(At(Running))
    BY <1>1, <1>2, <2>1, <2>2, Move DEF Holding, Running
  <2> QED
    BY <1>1, <1>2, <2>2, <2>3 DEF Accounting, MaxOutstanding
<1>5. ASSUME NEW d \in Downloads, acquire_reserved(d) \/ Recheck(d) PROVE Accounting'
  <2>1. PICK my : TryEnter(d, my)
    BY <1>5 DEF acquire_reserved, Recheck
  <2>2. pc[d] \in {"reserved", "waiting"} /\ outstanding' = outstanding
    BY <1>5 DEF acquire_reserved, Recheck
  <2>3. CASE MayEnter(my)
    <3>1. Goto(d, "admitted") /\ active' = active + 1 /\ active < Cap
      BY <2>1, <2>3 DEF TryEnter, MayEnter
    <3>2. /\ Cardinality(At(Holding)') = Cardinality(At(Holding))
          /\ Cardinality(At(Running)') = Cardinality(At(Running)) + 1
      BY <1>1, <1>2, <2>2, <3>1, Move DEF Holding, Running
    <3> QED
      BY <1>1, <1>2, <2>2, <3>1, <3>2 DEF Accounting, MaxOutstanding
  <2>4. CASE ~MayEnter(my)
    <3>1. Goto(d, "waiting") /\ active' = active
      BY <2>1, <2>4 DEF TryEnter
    <3> QED
      BY <1>1, <2>2, <3>1, CountsStay DEF Holding, Running
  <2> QED
    BY <2>3, <2>4
<1>6. ASSUME NEW d \in Downloads, Slot_drop(d) PROVE Accounting'
  <2>1. /\ Cardinality(At(Holding)') = Cardinality(At(Holding))
        /\ Cardinality(At(Running)') = Cardinality(At(Running)) - 1
    BY <1>1, <1>2, <1>6, Move DEF Slot_drop, Holding, Running
  <2> QED
    BY <1>1, <1>2, <1>6, <2>1 DEF Slot_drop, Accounting, MaxOutstanding
<1>7. ASSUME NEW d \in Downloads, CheckLibrary(d) \/ dl_inflight_begin(d) \/ LoadOutstanding(d)
                                  \/ RefuseFull(d) \/ SpawnFails(d) \/ NotifyAdmission(d)
                                  \/ NotifyRelease(d) \/ InflightGuard_drop(d)
      PROVE  Accounting'
  <2>1. PICK to : /\ Goto(d, to)
                  /\ pc[d] \in Holding <=> to \in Holding
                  /\ pc[d] \in Running <=> to \in Running
    BY <1>7 DEF CheckLibrary, dl_inflight_begin, LoadOutstanding, RefuseFull, SpawnFails,
       NotifyAdmission, NotifyRelease, InflightGuard_drop, Holding, Running
  <2>2. UNCHANGED <<outstanding, active>>
    BY <1>7 DEF CheckLibrary, dl_inflight_begin, LoadOutstanding, RefuseFull, SpawnFails,
       NotifyAdmission, NotifyRelease, InflightGuard_drop, line
  <2> QED
    BY <1>1, <2>1, <2>2, CountsStay
<1>8. ASSUME NEW d \in Downloads, SpuriousWake(d) PROVE Accounting'
    BY <1>1, <1>8 DEF SpuriousWake, Accounting, At, line
<1>9. CASE UNCHANGED vars
    BY <1>1, <1>9 DEF Accounting, At, vars
<1> QED
    BY <1>3, <1>4, <1>5, <1>6, <1>7, <1>8, <1>9 DEF Next, Step, Terminated

\* Most steps leave the line alone: no ticket, no position and nobody waiting changes.
LEMMA LineStays ==
    ASSUME Inv, NEW d \in Downloads, NEW to,
           Goto(d, to), pc[d] # "waiting", to # "waiting",
           UNCHANGED <<ticket, told, issued, admitted>>
    PROVE  Tickets' /\ Told'
<1>1. Waiting' = Waiting
    BY DEF Waiting, At, Goto, Inv, TypeOK
<1>2. Tickets'
    BY <1>1 DEF Tickets, Inv
<1>3. Told'
    BY DEF Told, Goto, Inv, TypeOK, Unset
<1> QED
    BY <1>2, <1>3

\* A thread that is admitted takes the lowest ticket, or a new one when nobody waits.
LEMMA Admission ==
    ASSUME Inv, NEW d \in Downloads, NEW my \in Nat, MayEnter(my), TryEnter(d, my),
           \/ pc[d] = "waiting" /\ my = ticket[d] /\ issued' = issued
           \/ pc[d] = "reserved" /\ my = issued /\ issued' = issued + 1
    PROVE  Tickets' /\ Told'
<1>1. /\ TypeOK /\ Tickets /\ Told /\ Cardinality(Waiting) \in Nat
      /\ my = admitted /\ admitted' = admitted + 1
      /\ ticket' = [ticket EXCEPT ![d] = 0] /\ told' = [told EXCEPT ![d] = Unset]
      /\ Goto(d, "admitted")
    BY AtFinite DEF Inv, TryEnter, MayEnter, Waiting
<1>2. admitted \in Nat /\ issued \in Nat /\ ticket \in [Downloads -> Nat]
    BY <1>1 DEF TypeOK
<1>3. Waiting' = Waiting \ {d}
    BY <1>1, Move DEF Waiting
<1>4. \A e \in Waiting' : e \in Waiting /\ ticket'[e] = ticket[e] /\ e # d /\ e \in Downloads
    BY <1>1, <1>3 DEF Waiting, At, TypeOK
<1>5. \A e \in Waiting' : ticket[e] # my
    BY <1>1, <1>2, <1>4 DEF Tickets, Waiting, At
<1>6. \A e \in Waiting' : admitted' <= ticket'[e] /\ ticket'[e] < issued'
    BY <1>1, <1>2, <1>4, <1>5 DEF Tickets
<1>7. \A e, f \in Waiting' : ticket'[e] = ticket'[f] => e = f
    BY <1>1, <1>4 DEF Tickets
<1>8. ASSUME NEW t \in Nat, admitted' <= t, t < issued'
      PROVE  \E e \in Waiting' : ticket'[e] = t
  <2>1. admitted <= t /\ t < issued /\ t # my
    BY <1>1, <1>2, <1>8
  <2>2. PICK e \in Waiting : ticket[e] = t
    BY <1>1, <2>1 DEF Tickets
  <2>3. e # d
    BY <1>1, <2>1, <2>2 DEF Waiting, At
  <2> QED
    BY <1>3, <1>4, <2>2, <2>3
<1>9. Cardinality(Waiting') = Cardinality(Waiting) - (IF pc[d] = "waiting" THEN 1 ELSE 0)
    BY <1>1, Move DEF Waiting
<1>10. Cardinality(Waiting') + admitted' = issued'
    BY <1>1, <1>2, <1>9 DEF Tickets
<1>11. Tickets'
    BY <1>6, <1>7, <1>8, <1>10 DEF Tickets
<1>12. Told'
  <2> SUFFICES ASSUME NEW e \in Downloads
               PROVE  IF pc'[e] = "waiting" THEN ticket'[e] - admitted' <= told'[e]
                      ELSE told'[e] = Unset
    BY DEF Told, Unset
  <2>1. CASE e = d
    BY <1>1, <2>1 DEF Goto, TypeOK
  <2>2. CASE e # d
    BY <1>1, <1>2, <2>2 DEF Goto, TypeOK, Told
  <2> QED
    BY <2>1, <2>2
<1> QED
    BY <1>11, <1>12

\* A thread that may not enter waits with its ticket, new or old.
LEMMA Waits ==
    ASSUME Inv, NEW d \in Downloads, NEW my \in Nat, ~MayEnter(my), TryEnter(d, my),
           \/ pc[d] = "waiting" /\ my = ticket[d] /\ issued' = issued
           \/ pc[d] = "reserved" /\ my = issued /\ issued' = issued + 1
    PROVE  Tickets' /\ Told'
<1>1. /\ TypeOK /\ Tickets /\ Told /\ Cardinality(Waiting) \in Nat
      /\ admitted' = admitted
      /\ ticket' = [ticket EXCEPT ![d] = my] /\ told' = [told EXCEPT ![d] = my - admitted]
      /\ Goto(d, "waiting")
    BY AtFinite DEF Inv, TryEnter, Ahead, Waiting
<1>2. admitted \in Nat /\ issued \in Nat /\ ticket \in [Downloads -> Nat] /\ told \in [Downloads -> Nat]
    BY <1>1 DEF TypeOK
<1>3. Waiting' = Waiting \cup {d}
    BY <1>1, Move DEF Waiting
<1>4. admitted <= my /\ my < issued' /\ ticket'[d] = my
    BY <1>1, <1>2 DEF Tickets, Waiting, At
<1>5. \A e \in Waiting : e # d => ticket'[e] = ticket[e] /\ ticket[e] # my
    BY <1>1, <1>2 DEF Tickets, Waiting, At
<1>6. \A e \in Waiting' : admitted' <= ticket'[e] /\ ticket'[e] < issued'
    BY <1>1, <1>2, <1>3, <1>4, <1>5 DEF Tickets, Waiting, At
<1>7. \A e, f \in Waiting' : ticket'[e] = ticket'[f] => e = f
    BY <1>1, <1>3, <1>4, <1>5 DEF Tickets
<1>8. ASSUME NEW t \in Nat, admitted' <= t, t < issued'
      PROVE  \E e \in Waiting' : ticket'[e] = t
  <2>1. CASE t = my
    BY <1>3, <1>4, <2>1
  <2>2. CASE t # my
    <3>1. admitted <= t /\ t < issued
      BY <1>1, <1>2, <1>8, <2>2
    <3>2. PICK e \in Waiting : ticket[e] = t
      BY <1>1, <3>1 DEF Tickets
    <3>3. e # d
      BY <1>1, <2>2, <3>2 DEF Waiting, At
    <3> QED
      BY <1>3, <1>5, <3>2, <3>3
  <2> QED
    BY <2>1, <2>2
<1>9. Cardinality(Waiting') = Cardinality(Waiting) + 1 - (IF pc[d] = "waiting" THEN 1 ELSE 0)
    BY <1>1, Move DEF Waiting
<1>10. Cardinality(Waiting') + admitted' = issued'
    BY <1>1, <1>2, <1>9 DEF Tickets
<1>11. Tickets'
    BY <1>6, <1>7, <1>8, <1>10 DEF Tickets
<1>12. Told'
  <2> SUFFICES ASSUME NEW e \in Downloads
               PROVE  IF pc'[e] = "waiting" THEN ticket'[e] - admitted' <= told'[e]
                      ELSE told'[e] = Unset
    BY DEF Told, Unset
  <2>1. CASE e = d
    BY <1>1, <1>2, <1>4, <2>1 DEF Goto, TypeOK
  <2>2. CASE e # d
    BY <1>1, <1>2, <2>2 DEF Goto, TypeOK, Told
  <2> QED
    BY <2>1, <2>2
<1> QED
    BY <1>11, <1>12

LEMMA LinePreserved == Inv /\ [Next]_vars => Tickets' /\ Told'
<1> SUFFICES ASSUME Inv, [Next]_vars PROVE Tickets' /\ Told'
    OBVIOUS
<1>1. TypeOK
    BY DEF Inv
<1>2. ASSUME NEW d \in Downloads, acquire_reserved(d) PROVE Tickets' /\ Told'
    BY <1>1, <1>2, Admission, Waits DEF acquire_reserved, TypeOK
<1>3. ASSUME NEW d \in Downloads, Recheck(d) PROVE Tickets' /\ Told'
    BY <1>1, <1>3, Admission, Waits DEF Recheck, TypeOK
<1>4. ASSUME NEW d \in Downloads, CheckLibrary(d) \/ dl_inflight_begin(d) \/ LoadOutstanding(d)
                                  \/ RefuseFull(d) \/ SpawnFails(d) \/ DropReservation(d)
                                  \/ NotifyAdmission(d) \/ Slot_drop(d)
                                  \/ GiveBackOutstanding(d) \/ NotifyRelease(d)
                                  \/ InflightGuard_drop(d)
      PROVE  Tickets' /\ Told'
  <2>1. PICK to : Goto(d, to) /\ pc[d] # "waiting" /\ to # "waiting"
    BY <1>4 DEF CheckLibrary, dl_inflight_begin, LoadOutstanding, RefuseFull, SpawnFails,
       DropReservation, NotifyAdmission, Slot_drop, GiveBackOutstanding, NotifyRelease,
       InflightGuard_drop
  <2>2. UNCHANGED <<ticket, told, issued, admitted>>
    BY <1>4 DEF CheckLibrary, dl_inflight_begin, LoadOutstanding, RefuseFull, SpawnFails,
       DropReservation, NotifyAdmission, Slot_drop, GiveBackOutstanding, NotifyRelease,
       InflightGuard_drop, line, local
  <2> QED
    BY <2>1, <2>2, LineStays
<1>5. ASSUME NEW d \in Downloads, CompareExchange(d) PROVE Tickets' /\ Told'
  <2>1. UNCHANGED <<ticket, told, issued, admitted>>
    BY <1>5 DEF CompareExchange, line
  <2>2. CASE Goto(d, "reserved")
    BY <1>5, <2>1, <2>2, LineStays DEF CompareExchange
  <2>3. CASE UNCHANGED pc
    BY <2>1, <2>3 DEF Inv, Tickets, Told, Waiting, At, Unset
  <2> QED
    BY <1>5, <2>2, <2>3 DEF CompareExchange
<1>6. CASE (\E d \in Downloads : SpuriousWake(d)) \/ UNCHANGED vars
    BY <1>6 DEF SpuriousWake, Inv, Tickets, Told, Waiting, At, Unset, line, local, vars
<1> QED
    BY <1>2, <1>3, <1>4, <1>5, <1>6 DEF Next, Step, Terminated

\* A request that owns its key before and after a step, or does not own it after,
\* disturbs nobody.
LEMMA OwnersShrink ==
    ASSUME TypeOK, KeysHeld, NEW d \in Downloads, NEW to, Goto(d, to), pc[d] # "idle",
           to \in Owning \ {"unreserving"} => pc[d] \in Owning \ {"unreserving"},
           key' = key, inflight' = inflight
    PROVE  KeysHeld'
<1>1. Owners' \subseteq Owners
    BY DEF Owners, At, Goto, TypeOK
<1> QED
    BY <1>1 DEF KeysHeld, OneOwnerPerKey, Owners, At, Goto, TypeOK

\* An owner that stops owning takes its key out, and nobody else's.
LEMMA KeyReleased ==
    ASSUME TypeOK, KeysHeld, NEW d \in Owners, NEW to, Goto(d, to),
           to \notin Owning \ {"unreserving"}, key' = key, inflight' = inflight \ {key[d]}
    PROVE  KeysHeld'
<1>1. Owners' = Owners \ {d}
    BY DEF Owners, At, Goto, TypeOK
<1>2. \A e \in Owners' : key[e] # key[d]
    BY <1>1 DEF KeysHeld, OneOwnerPerKey, Owners
<1>3. \A e \in Downloads : pc'[e] # "idle" => key'[e] \in Keys
    BY DEF KeysHeld, Goto, TypeOK, Owners, At, Owning, Holding, Running
<1>4. \A e \in Owners' : key'[e] \in inflight'
    BY <1>1, <1>2 DEF KeysHeld
<1>5. OneOwnerPerKey'
    BY <1>1 DEF KeysHeld, OneOwnerPerKey, Owners
<1> QED
    BY <1>3, <1>4, <1>5 DEF KeysHeld

LEMMA KeysPreserved == Inv /\ [Next]_vars => KeysHeld'
<1> SUFFICES ASSUME Inv, [Next]_vars PROVE KeysHeld'
    OBVIOUS
<1>1. TypeOK /\ KeysHeld
    BY DEF Inv
<1>2. ASSUME NEW d \in Downloads, CheckLibrary(d) PROVE KeysHeld'
  <2>1. PICK k \in Wanted[d] : /\ key' = [key EXCEPT ![d] = k]
                               /\ Goto(d, IF k \in library THEN "exists" ELSE "checked")
    BY <1>2 DEF CheckLibrary
  <2>2. k \in Keys
    BY KeysAssumption
  <2>3. Owners' = Owners /\ d \notin Owners /\ inflight' = inflight
    BY <1>1, <1>2, <2>1 DEF CheckLibrary, Owners, At, Goto, TypeOK, Owning, Holding, Running
  <2>4. \A e \in Owners : key'[e] = key[e]
    BY <1>1, <2>1, <2>3 DEF Owners, At, TypeOK
  <2>5. \A e \in Downloads : pc'[e] # "idle" => key'[e] \in Keys
    BY <1>1, <2>1, <2>2 DEF KeysHeld, Goto, TypeOK
  <2>6. OneOwnerPerKey'
    BY <1>1, <2>3, <2>4 DEF KeysHeld, OneOwnerPerKey, Owners
  <2> QED
    BY <1>1, <2>3, <2>4, <2>5, <2>6 DEF KeysHeld
<1>3. ASSUME NEW d \in Downloads, dl_inflight_begin(d) PROVE KeysHeld'
  <2>1. CASE IsFree(d)
    <3>1. Owners' = Owners \cup {d} /\ key' = key /\ inflight' = inflight \cup {key[d]}
      BY <1>1, <1>3, <2>1 DEF dl_inflight_begin, Owners, At, Goto, TypeOK, Owning, local
    <3>2. \A e \in Owners : key[e] # key[d]
      BY <1>1, <2>1 DEF KeysHeld, IsFree
    <3>3. \A e \in Downloads : pc'[e] # "idle" => key'[e] \in Keys
      BY <1>1, <1>3, <2>1, <3>1 DEF KeysHeld, dl_inflight_begin, Goto, TypeOK
    <3>4. OneOwnerPerKey'
      BY <1>1, <3>1, <3>2 DEF KeysHeld, OneOwnerPerKey, Owners
    <3> QED
      BY <1>1, <3>1, <3>3, <3>4 DEF KeysHeld
  <2>2. CASE ~IsFree(d)
    BY <1>1, <1>3, <2>2, OwnersShrink DEF dl_inflight_begin, Owning, Holding, Running, local
  <2> QED
    BY <2>1, <2>2
<1>4. ASSUME NEW d \in Downloads, RefuseFull(d) \/ SpawnFails(d) \/ InflightGuard_drop(d)
      PROVE  KeysHeld'
  <2>1. PICK to : Goto(d, to) /\ to \notin Owning \ {"unreserving"}
    BY <1>4 DEF RefuseFull, SpawnFails, InflightGuard_drop, Owning, Holding, Running
  <2>2. d \in Owners /\ key' = key /\ inflight' = inflight \ {key[d]}
    BY <1>4 DEF RefuseFull, SpawnFails, InflightGuard_drop, Owners, At, Owning, Holding, local
  <2> QED
    BY <1>1, <2>1, <2>2, KeyReleased
<1>5. ASSUME NEW d \in Downloads, LoadOutstanding(d) \/ DropReservation(d) \/ NotifyAdmission(d)
                                  \/ Slot_drop(d) \/ GiveBackOutstanding(d) \/ NotifyRelease(d)
      PROVE  KeysHeld'
  <2>1. PICK to : /\ Goto(d, to) /\ pc[d] # "idle"
                  /\ to \in Owning \ {"unreserving"} => pc[d] \in Owning \ {"unreserving"}
    BY <1>5 DEF LoadOutstanding, DropReservation, NotifyAdmission, Slot_drop,
       GiveBackOutstanding, NotifyRelease, Owning, Holding, Running
  <2>2. key' = key /\ inflight' = inflight
    BY <1>5 DEF LoadOutstanding, DropReservation, NotifyAdmission, Slot_drop,
       GiveBackOutstanding, NotifyRelease, local
  <2> QED
    BY <1>1, <2>1, <2>2, OwnersShrink
<1>6. ASSUME NEW d \in Downloads, acquire_reserved(d) \/ Recheck(d) PROVE KeysHeld'
  <2>1. PICK to \in {"admitted", "waiting"} : Goto(d, to)
    BY <1>6 DEF acquire_reserved, Recheck, TryEnter
  <2>2. key' = key /\ inflight' = inflight /\ pc[d] \in {"reserved", "waiting"}
    BY <1>6 DEF acquire_reserved, Recheck
  <2> QED
    BY <1>1, <2>1, <2>2, OwnersShrink DEF Owning, Holding
<1>7. ASSUME NEW d \in Downloads, CompareExchange(d) PROVE KeysHeld'
  <2>1. key' = key /\ inflight' = inflight
    BY <1>7 DEF CompareExchange
  <2>2. CASE Goto(d, "reserved")
    BY <1>1, <1>7, <2>1, <2>2, OwnersShrink DEF CompareExchange, Owning
  <2>3. CASE UNCHANGED pc
    BY <1>1, <2>1, <2>3 DEF KeysHeld, OneOwnerPerKey, Owners, At
  <2> QED
    BY <1>7, <2>2, <2>3 DEF CompareExchange
<1>8. CASE (\E d \in Downloads : SpuriousWake(d)) \/ UNCHANGED vars
    BY <1>1, <1>8 DEF SpuriousWake, KeysHeld, OneOwnerPerKey, Owners, At, local, vars
<1> QED
    BY <1>2, <1>3, <1>4, <1>5, <1>6, <1>7, <1>8 DEF Next, Step, Terminated

-----------------------------------------------------------------------------
(* Each step as one of the line.                                           *)

InLine ==
    /\ issued - admitted \in Nat /\ Line \in Seq(Downloads) /\ Len(Line) = issued - admitted
    /\ \A i \in 1 .. Len(Line) : Line[i] \in Waiting /\ ticket[Line[i]] = admitted + i - 1

\* The waiting threads by their tickets are a sequence, each at the place of its ticket.
LEMMA LineKnown == TypeOK /\ Tickets => InLine
<1> SUFFICES ASSUME TypeOK, Tickets PROVE InLine
    OBVIOUS
<1>1. admitted \in Nat /\ issued \in Nat /\ issued - admitted \in Nat
    BY AtFinite DEF TypeOK, Tickets, Waiting
<1>2. ASSUME NEW i \in 1 .. (issued - admitted)
      PROVE  Line[i] \in Waiting /\ ticket[Line[i]] = admitted + i - 1
  <2>1. PICK d \in Waiting : ticket[d] = admitted + i - 1
    BY <1>1 DEF Tickets
  <2>2. d \in Downloads /\ pc[d] = "waiting"
    BY DEF Waiting, At
  <2>3. Line[i] = CHOOSE e \in Downloads : pc[e] = "waiting" /\ ticket[e] = admitted + i - 1
    BY DEF Line
  <2> QED
    BY <2>1, <2>2, <2>3 DEF Waiting, At
<1>3. Line \in [1 .. (issued - admitted) -> Downloads]
  <2>1. Waiting \subseteq Downloads
    BY DEF Waiting, At
  <2>2. Line = [i \in 1 .. (issued - admitted) |-> Line[i]]
    BY DEF Line
  <2> HIDE DEF Line
  <2> QED
    BY <1>2, <2>1, <2>2
<1> HIDE DEF Line
<1>4. Line \in Seq(Downloads) /\ Len(Line) = issued - admitted
    BY <1>1, <1>3
<1> QED
    BY <1>1, <1>2, <1>4 DEF InLine

\* A waiting thread is at its place.
LEMMA Placed ==
    ASSUME TypeOK, Tickets, InLine, NEW d \in Waiting
    PROVE  /\ ticket[d] - admitted + 1 \in 1 .. Len(Line)
           /\ Line[ticket[d] - admitted + 1] = d
<1> DEFINE i == ticket[d] - admitted + 1
<1>1. ticket[d] \in Nat /\ admitted \in Nat /\ issued \in Nat
    BY DEF TypeOK, Waiting, At
<1>2. i \in 1 .. Len(Line) /\ admitted + i - 1 = ticket[d]
    BY <1>1 DEF Tickets, InLine
<1>3. Line[i] \in Waiting /\ ticket[Line[i]] = ticket[d]
    BY <1>2 DEF InLine
<1> QED
    BY <1>2, <1>3 DEF Tickets

ServeStep == Abstract!Next \/ UNCHANGED <<Line, At(Running), At(Served)>>

\* The gate's own view of whether somebody may enter.
LEMMA Room == Inv => (Abstract!HasRoom <=> active < Cap)
<1>1. Abstract!Cardinality(At(Running)) = Cardinality(At(Running))
    BY DEF Abstract!Cardinality, Cardinality
<1> QED
    BY <1>1 DEF Inv, Accounting, Abstract!HasRoom

\* The line after a step that leaves the waiting threads and their tickets as they were.
LEMMA SameLine ==
    ASSUME InLine, InLine', Tickets, Waiting' = Waiting, UNCHANGED <<issued, admitted>>,
           \A d \in Waiting : ticket'[d] = ticket[d]
    PROVE  Line' = Line
<1>1. /\ Line \in Seq(Downloads) /\ Line' \in Seq(Downloads) /\ Len(Line') = Len(Line)
      /\ \A i \in 1 .. Len(Line) : /\ Line[i] \in Waiting /\ ticket[Line[i]] = admitted + i - 1
                                   /\ Line'[i] \in Waiting /\ ticket[Line'[i]] = admitted + i - 1
    BY DEF InLine
<1>2. \A i \in 1 .. Len(Line) : Line'[i] = Line[i]
    BY <1>1 DEF Tickets
<1> HIDE DEF Line
<1> QED
    BY <1>1, <1>2, SeqEqual

\* A step outside the gate.
LEMMA Outside ==
    ASSUME Inv, InLine, InLine', NEW d \in Downloads, NEW to, Goto(d, to),
           pc[d] # "waiting", to # "waiting", pc[d] \in Running <=> to \in Running,
           pc[d] \in Served <=> to \in Served, UNCHANGED <<ticket, issued, admitted>>
    PROVE  ServeStep
<1>1. Waiting' = Waiting /\ At(Running)' = At(Running) /\ At(Served)' = At(Served)
    BY DEF Inv, TypeOK, Goto, Waiting, At
<1>2. Line' = Line
    BY <1>1, SameLine DEF Inv
<1> QED
    BY <1>1, <1>2 DEF ServeStep

\* A thread takes a ticket: it enters at once, or stands at the end of the line.
LEMMA Joins ==
    ASSUME Inv, Inv', InLine, InLine', NEW d \in Downloads, acquire_reserved(d)
    PROVE  ServeStep
<1>1. /\ TypeOK /\ Tickets /\ admitted \in Nat /\ issued \in Nat
      /\ Line \in Seq(Downloads) /\ Line' \in Seq(Downloads)
      /\ Len(Line) = issued - admitted /\ Len(Line') = issued' - admitted' /\ issued' = issued + 1
      /\ pc[d] = "reserved" /\ d \notin Waiting
    BY DEF Inv, TypeOK, InLine, acquire_reserved, Waiting, At
<1>2. Line = <<>> <=> issued = admitted
  <2>1. Line = <<>> <=> Len(Line) = 0
    BY <1>1, EmptySeq
  <2> QED
    BY <1>1, <2>1
<1>3. d \notin Abstract!Known
  <2>1. d \notin At(Running) /\ d \notin At(Served)
    BY <1>1 DEF At, Running, Served
  <2>2. \A i \in DOMAIN Line : Line[i] # d
    BY <1>1, LenProperties DEF InLine
  <2> QED
    BY <2>1, <2>2 DEF Abstract!Known
<1>4. CASE MayEnter(issued)
  <2>1. issued = admitted /\ active < Cap /\ admitted' = admitted + 1 /\ Goto(d, "admitted")
    BY <1>4 DEF acquire_reserved, TryEnter, MayEnter
  <2>2. Line = <<>> /\ Abstract!HasRoom
    BY <1>2, <2>1, Room
  <2>3. Line' = <<>>
    BY <1>1, <2>1, EmptySeq
  <2>4. At(Running)' = At(Running) \cup {d} /\ At(Served)' = At(Served) \cup {d}
    BY <1>1, <2>1, Move DEF Running, Served
  <2>5. Abstract!Join(d)
    BY <1>3, <2>2, <2>3, <2>4 DEF Abstract!Join
  <2> QED
    BY <2>5 DEF ServeStep, Abstract!Next
<1>5. CASE ~MayEnter(issued)
  <2>1. /\ issued # admitted \/ ~(active < Cap)
        /\ admitted' = admitted /\ Goto(d, "waiting") /\ ticket' = [ticket EXCEPT ![d] = issued]
    BY <1>5 DEF acquire_reserved, TryEnter, MayEnter
  <2>2. Waiting' = Waiting \cup {d} /\ ticket'[d] = issued
        /\ \A e \in Waiting : ticket'[e] = ticket[e]
    <3>1. Waiting' = Waiting \cup {d}
      BY <1>1, <2>1, Move DEF Waiting
    <3>2. \A e \in Waiting : e \in Downloads /\ e # d
      BY <1>1 DEF Waiting, At
    <3> QED
      BY <1>1, <2>1, <3>1, <3>2 DEF TypeOK
  <2>3. /\ Append(Line, d) \in Seq(Downloads) /\ Len(Append(Line, d)) = Len(Line) + 1
        /\ \A i \in 1 .. Len(Line) : Append(Line, d)[i] = Line[i]
        /\ Append(Line, d)[Len(Line) + 1] = d
    BY <1>1, AppendProperties
  <2>4. \A i \in 1 .. Len(Line') : Line'[i] \in Waiting' /\ ticket'[Line'[i]] = admitted + i - 1
    BY <2>1 DEF InLine
  <2>5. \A e, f \in Waiting' : ticket'[e] = ticket'[f] => e = f
    BY DEF Inv, Tickets
  <2>6. \A i \in 1 .. Len(Line) : Line[i] \in Waiting' /\ ticket'[Line[i]] = admitted + i - 1
    BY <2>2 DEF InLine
  <2> HIDE DEF Line
  <2>7. Len(Line') = Len(Line) + 1
    BY <1>1, <2>1
  <2>8. ASSUME NEW i \in 1 .. Len(Line')
        PROVE  Line'[i] = Append(Line, d)[i]
    <3>1. CASE i \in 1 .. Len(Line)
      BY <2>3, <2>4, <2>5, <2>6, <3>1
    <3>2. CASE i = Len(Line) + 1
      <4>1. ticket'[Line'[i]] = ticket'[d] /\ d \in Waiting'
        BY <1>1, <2>2, <2>4, <3>2
      <4> QED
        BY <2>3, <2>4, <2>5, <3>2, <4>1
    <3> QED
      BY <1>1, <2>7, <3>1, <3>2
  <2>9. Line' = Append(Line, d)
    BY <1>1, <2>3, <2>7, <2>8, SeqEqual
  <2>10. At(Running)' = At(Running) /\ At(Served)' = At(Served)
    BY <1>1, <2>1 DEF TypeOK, Goto, At, Running, Served
  <2>11. ~(Line = <<>> /\ Abstract!HasRoom)
    BY <1>2, <2>1, Room
  <2>12. Abstract!Join(d)
    BY <1>3, <2>9, <2>10, <2>11 DEF Abstract!Join
  <2> QED
    BY <2>12 DEF ServeStep, Abstract!Next
<1> QED
    BY <1>4, <1>5

\* A waiting thread looks again: it is the first of the line and enters, or stays.
LEMMA Serves ==
    ASSUME Inv, Inv', InLine, InLine', NEW d \in Downloads, Recheck(d)
    PROVE  ServeStep
<1>1. /\ TypeOK /\ Tickets /\ admitted \in Nat /\ issued \in Nat
      /\ Line \in Seq(Downloads) /\ Line' \in Seq(Downloads)
      /\ Len(Line) = issued - admitted /\ Len(Line') = issued' - admitted' /\ issued' = issued
      /\ pc[d] = "waiting" /\ d \in Waiting
    BY DEF Inv, TypeOK, InLine, Recheck, Waiting, At
<1>2. ticket[d] - admitted + 1 \in 1 .. Len(Line) /\ Line[ticket[d] - admitted + 1] = d
    BY <1>1, Placed
<1>3. CASE MayEnter(ticket[d])
  <2>1. /\ ticket[d] = admitted /\ active < Cap /\ admitted' = admitted + 1 /\ Goto(d, "admitted")
        /\ ticket' = [ticket EXCEPT ![d] = 0]
    BY <1>3 DEF Recheck, TryEnter, MayEnter
  <2>2. Line # <<>> /\ Line[1] = d
    BY <1>1, <1>2, <2>1, EmptySeq
  <2>3. Abstract!HasRoom
    BY <2>1, Room
  <2>4. Waiting' = Waiting \ {d} /\ \A e \in Waiting' : ticket'[e] = ticket[e]
    <3>1. Waiting' = Waiting \ {d}
      BY <1>1, <2>1, Move DEF Waiting
    <3>2. \A e \in Waiting' : e \in Downloads /\ e # d
      BY <3>1 DEF Waiting, At
    <3> QED
      BY <1>1, <2>1, <3>1, <3>2 DEF TypeOK
  <2>5. \A i \in 1 .. Len(Line') : Line'[i] \in Waiting' /\ ticket'[Line'[i]] = admitted + i
    BY <1>1, <2>1 DEF InLine
  <2>6. \A i \in 1 .. Len(Line) : Line[i] \in Waiting /\ ticket[Line[i]] = admitted + i - 1
    BY DEF InLine
  <2> HIDE DEF Line
  <2>7. /\ Tail(Line) \in Seq(Downloads) /\ Len(Tail(Line)) = Len(Line) - 1
        /\ \A i \in 1 .. Len(Tail(Line)) : Tail(Line)[i] = Line[i + 1]
        /\ Head(Line) = d
    BY <1>1, <2>2, HeadTailProperties
  <2>8. Len(Line') = Len(Tail(Line))
    BY <1>1, <2>1, <2>7
  <2>9. ASSUME NEW i \in 1 .. Len(Line')
        PROVE  Line'[i] = Tail(Line)[i]
    <3>1. i + 1 \in 1 .. Len(Line) /\ Tail(Line)[i] = Line[i + 1] /\ i \in Nat
      BY <1>1, <2>7, <2>8
    <3>2. Line[i + 1] \in Waiting /\ ticket[Line[i + 1]] = admitted + i
      BY <1>1, <2>6, <3>1
    <3>3. Line'[i] \in Waiting /\ ticket[Line'[i]] = admitted + i
      BY <2>4, <2>5
    <3> QED
      BY <1>1, <3>1, <3>2, <3>3 DEF Tickets
  <2>10. Line' = Tail(Line)
    BY <1>1, <2>7, <2>8, <2>9, SeqEqual
  <2>11. At(Running)' = At(Running) \cup {d} /\ At(Served)' = At(Served) \cup {d}
    BY <1>1, <2>1, Move DEF Running, Served
  <2>12. Abstract!Serve
    BY <2>2, <2>3, <2>7, <2>10, <2>11 DEF Abstract!Serve
  <2> QED
    BY <2>12 DEF ServeStep, Abstract!Next
<1>4. CASE ~MayEnter(ticket[d])
  <2>1. admitted' = admitted /\ Goto(d, "waiting") /\ ticket' = [ticket EXCEPT ![d] = ticket[d]]
    BY <1>4 DEF Recheck, TryEnter
  <2>2. pc' = pc /\ ticket' = ticket
    BY <1>1, <2>1 DEF Goto, TypeOK
  <2>3. Waiting' = Waiting /\ At(Running)' = At(Running) /\ At(Served)' = At(Served)
    BY <2>2 DEF Waiting, At
  <2>4. Line' = Line
    BY <1>1, <2>1, <2>2, <2>3, SameLine
  <2> QED
    BY <2>3, <2>4 DEF ServeStep
<1> QED
    BY <1>3, <1>4

LEMMA StepServes == Inv /\ Inv' /\ InLine /\ InLine' /\ [Next]_vars => ServeStep
<1> SUFFICES ASSUME Inv, Inv', InLine, InLine', [Next]_vars PROVE ServeStep
    OBVIOUS
<1>1. ASSUME NEW d \in Downloads,
             CheckLibrary(d) \/ dl_inflight_begin(d) \/ LoadOutstanding(d) \/ RefuseFull(d)
             \/ SpawnFails(d) \/ DropReservation(d) \/ NotifyAdmission(d)
             \/ GiveBackOutstanding(d) \/ NotifyRelease(d) \/ InflightGuard_drop(d)
      PROVE  ServeStep
  <2>1. PICK to : /\ Goto(d, to) /\ pc[d] # "waiting" /\ to # "waiting"
                  /\ pc[d] \in Running <=> to \in Running
                  /\ pc[d] \in Served <=> to \in Served
    BY <1>1 DEF CheckLibrary, dl_inflight_begin, LoadOutstanding, RefuseFull, SpawnFails,
       DropReservation, NotifyAdmission, GiveBackOutstanding, NotifyRelease,
       InflightGuard_drop, Running, Served
  <2>2. UNCHANGED <<ticket, issued, admitted>>
    BY <1>1 DEF CheckLibrary, dl_inflight_begin, LoadOutstanding, RefuseFull, SpawnFails,
       DropReservation, NotifyAdmission, GiveBackOutstanding, NotifyRelease,
       InflightGuard_drop, line, local
  <2> QED
    BY <2>1, <2>2, Outside
<1>2. ASSUME NEW d \in Downloads, Slot_drop(d) PROVE ServeStep
  <2>1. Goto(d, "released") /\ pc[d] = "working" /\ UNCHANGED <<ticket, issued, admitted>>
    BY <1>2 DEF Slot_drop, local
  <2>2. /\ d \in At(Running) /\ At(Running)' = At(Running) \ {d}
        /\ At(Served)' = At(Served) /\ Waiting' = Waiting
    BY <2>1 DEF Inv, TypeOK, Goto, At, Running, Served, Waiting
  <2>3. Line' = Line
    BY <2>1, <2>2, SameLine DEF Inv
  <2>4. Abstract!Leave(d)
    BY <2>2, <2>3 DEF Abstract!Leave
  <2> QED
    BY <2>4 DEF ServeStep, Abstract!Next
<1>3. ASSUME NEW d \in Downloads, CompareExchange(d) PROVE ServeStep
  <2>1. UNCHANGED <<ticket, issued, admitted>> /\ pc[d] = "loaded"
    BY <1>3 DEF CompareExchange, line
  <2>2. CASE Goto(d, "reserved")
    BY <2>1, <2>2, Outside DEF Running, Served
  <2>3. CASE UNCHANGED pc
    BY <2>1, <2>3, SameLine DEF ServeStep, Waiting, At, Inv
  <2> QED
    BY <1>3, <2>2, <2>3 DEF CompareExchange
<1>4. CASE (\E d \in Downloads : SpuriousWake(d)) \/ UNCHANGED vars
  <2>1. UNCHANGED <<pc, ticket, issued, admitted>>
    BY <1>4 DEF SpuriousWake, line, local, vars
  <2> QED
    BY <2>1, SameLine DEF ServeStep, Waiting, At, Inv
<1> QED
    BY <1>1, <1>2, <1>3, <1>4, Joins, Serves DEF Next, Step, Terminated

-----------------------------------------------------------------------------
(* The theorems.                                                           *)

LEMMA Inductive == Spec => []Inv
<1>1. Inv /\ [Next]_vars => Inv'
    BY TypePreserved, AccountingPreserved, LinePreserved, KeysPreserved DEF Inv
<1> QED
    BY Initially, <1>1, PTL DEF Spec, Init_Next

(* Every counter, ticket and position stays a natural number: no           *)
(* subtraction in dlqueue.rs wraps or saturates.                           *)
THEOREM TypeCorrect == Spec => []TypeOK
<1>1. Inv => TypeOK
    BY DEF Inv
<1> QED
    BY Inductive, <1>1, PTL

(* The two counters count exactly the threads that hold them, within the   *)
(* gate's bounds (try_reserve, Reservation::drop, Slot::drop).             *)
THEOREM CountersExact == Spec => []Accounting
<1>1. Inv => Accounting
    BY DEF Inv
<1> QED
    BY Inductive, <1>1, PTL

(* No two requests ever fetch one key at once (dl_inflight_begin,          *)
(* InflightGuard).                                                         *)
THEOREM KeysExclusive == Spec => []OneOwnerPerKey
<1>1. Inv => OneOwnerPerKey
    BY DEF Inv, KeysHeld
<1> QED
    BY Inductive, <1>1, PTL

(* The tickets issued and not admitted are those of the waiting threads,   *)
(* one each: nobody is lost from the line (acquire_reserved).              *)
THEOREM NobodyLost == Spec => []TicketsMatch
<1>1. Inv => TicketsMatch
  <2> SUFFICES ASSUME Inv PROVE TicketsMatch
    OBVIOUS
  <2>1. /\ TypeOK /\ Tickets /\ Cardinality(Waiting) \in Nat
        /\ admitted \in Nat /\ issued \in Nat
    BY AtFinite DEF Inv, Waiting, TypeOK
  <2>2. admitted <= issued /\ Cardinality(Waiting) = issued - admitted
    BY <2>1 DEF Tickets
  <2>3. ASSUME NEW t \in admitted .. (issued - 1) PROVE \E d \in Waiting : ticket[d] = t
    BY <2>1 DEF Tickets
  <2> QED
    BY <2>2, <2>3 DEF TicketsMatch, Waiting
<1> QED
    BY Inductive, <1>1, PTL

(* The position told to a waiting client never grows, at its first report  *)
(* or at a later one (acquire_reserved's on_wait).                         *)
THEOREM PositionsFall == Spec => PositionNeverGrows
<1>1. Inv /\ [Next]_vars => [\A d \in Downloads : pc'[d] = "waiting" => told'[d] <= told[d]]_vars
  <2> SUFFICES ASSUME Inv, [Next]_vars, Inv', NEW d \in Downloads, pc'[d] = "waiting"
               PROVE  told'[d] <= told[d]
    BY TypePreserved, AccountingPreserved, LinePreserved, KeysPreserved DEF Inv
  <2>1. /\ TypeOK /\ Tickets /\ Told /\ TypeOK' /\ told[d] \in Nat
    BY DEF Inv, TypeOK
  <2>2. ASSUME NEW e \in Downloads, NEW my \in Nat, TryEnter(e, my),
               \/ pc[e] = "waiting" /\ my = ticket[e] /\ issued' = issued
               \/ pc[e] = "reserved" /\ my = issued /\ issued' = issued + 1
        PROVE  told'[d] <= told[d]
    <3>1. CASE d # e
      BY <2>1, <2>2, <3>1 DEF TryEnter, Goto, TypeOK
    <3>2. CASE d = e
      <4>1. told'[d] = my - admitted /\ admitted \in Nat /\ issued \in Nat
        BY <2>1, <2>2, <3>2 DEF TryEnter, Goto, Ahead, TypeOK
      <4>2. CASE pc[e] = "waiting" /\ my = ticket[e]
        BY <2>1, <3>2, <4>1, <4>2 DEF Told
      <4>3. CASE pc[e] = "reserved" /\ my = issued
        <5>1. /\ Cardinality(Waiting) \in Nat /\ Cardinality(Downloads) \in Nat
              /\ Cardinality(Waiting) <= Cardinality(Downloads)
          BY AtFinite DEF Waiting
        <5>2. issued - admitted = Cardinality(Waiting) /\ told[d] = Unset
          BY <2>1, <3>2, <4>1, <4>3, <5>1 DEF Tickets, Told
        <5> QED
          BY <4>1, <4>3, <5>1, <5>2 DEF Unset
      <4> QED
        BY <2>2, <4>2, <4>3
    <3> QED
      BY <3>1, <3>2
  <2>3. CASE \E e \in Downloads : acquire_reserved(e) \/ Recheck(e)
    BY <2>1, <2>2, <2>3 DEF acquire_reserved, Recheck, TypeOK
  <2>4. CASE told' = told
    BY <2>1, <2>4
  <2> QED
    BY <2>3, <2>4 DEF Next, Step, Terminated, CheckLibrary, SpawnFails, SpuriousWake,
       dl_inflight_begin, LoadOutstanding, RefuseFull, CompareExchange, DropReservation,
       NotifyAdmission, Slot_drop, GiveBackOutstanding, NotifyRelease, InflightGuard_drop,
       local, vars
<1> QED
    BY Inductive, <1>1, PTL DEF Spec, Init_Next, PositionNeverGrows

(* The gate implements DownloadLine: whoever takes a ticket is served in   *)
(* the order of the tickets, at most Cap at a time (acquire_reserved,      *)
(* Slot::drop).  That a free slot is handed on stays with TLC.             *)
THEOREM FirstComeFirstServed ==
    Spec => Abstract!Init /\ [][Abstract!Next]_<<Line, At(Running), At(Served)>>
<1>1. Init => Abstract!Init
  <2> SUFFICES ASSUME Init PROVE Abstract!Init
    OBVIOUS
  <2>1. InLine /\ Len(Line) = 0
    BY Initially, LineKnown DEF Init, Inv, InLine
  <2>2. Line = <<>>
    BY <2>1, EmptySeq DEF InLine
  <2>3. At(Running) = {} /\ At(Served) = {}
    BY DEF Init, At, Running, Served
  <2> QED
    BY <2>2, <2>3 DEF Abstract!Init
<1>2. Inv => InLine
    BY LineKnown DEF Inv
<1>3. Inv /\ Inv' /\ InLine /\ InLine' /\ [Next]_vars
          => [Abstract!Next]_<<Line, At(Running), At(Served)>>
    BY StepServes DEF ServeStep
<1> QED
    BY Inductive, <1>1, <1>2, <1>3, PTL DEF Spec, Init_Next
=============================================================================
