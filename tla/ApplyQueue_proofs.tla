-------------------------- MODULE ApplyQueue_proofs --------------------------
(***************************************************************************)
(* Proofs about ApplyQueue, for any requests, keys and room to wait.  Inv  *)
(* is the inductive invariant: the properties the run checks, the bound of *)
(* the deque, and where the one runner is.                                 *)
(***************************************************************************)
EXTENDS ApplyQueue, SequenceTheorems, FiniteSetTheorems, TLAPS

\* Where the runner is, if there is one: it has a job, or is between two jobs.
NoRunner == ~running /\ starting = {} /\ executing = {} /\ looking = 0 /\ pending = <<>>
RunnerWith(r) ==
    /\ running /\ looking = 0
    /\ (starting = {r} /\ executing = {}) \/ (starting = {} /\ executing = {r})
RunnerBetween == running /\ looking = 1 /\ starting = {} /\ executing = {}
OneRunner == NoRunner \/ RunnerBetween \/ \E r \in Requests : RunnerWith(r)

\* The runner's job does not wait at the same time.
JobsApart == \A r \in starting \cup executing : r \notin Pending

Inv == /\ TypeOK /\ OneRunner /\ JobsApart /\ AnsweredOnce
       /\ Len(pending) <= MaxPending

-----------------------------------------------------------------------------
(* The operations of the deque.                                            *)

\* What RemoveAt leaves.
LEMMA Removing ==
    ASSUME NEW S, NEW s \in Seq(S), NEW i \in 1 .. Len(s)
    PROVE  /\ RemoveAt(s, i) \in Seq(S)
           /\ Len(RemoveAt(s, i)) = Len(s) - 1
           /\ \A j \in 1 .. Len(s) - 1 :
                 RemoveAt(s, i)[j] = IF j < i THEN s[j] ELSE s[j + 1]
<1> DEFINE front == SubSeq(s, 1, i - 1)
           back == SubSeq(s, i + 1, Len(s))
<1>1. Len(s) \in Nat
    BY LenProperties
<1>2. /\ front \in Seq(S) /\ Len(front) = i - 1
      /\ \A j \in 1 .. i - 1 : front[j] = s[j]
  <2>1. \A j \in 1 .. i - 1 : s[j] \in S
    BY <1>1, ElementOfSeq
  <2>2. 1 \in Int /\ i - 1 \in Int
    BY <1>1
  <2> QED
    BY <1>1, <2>1, <2>2, SubSeqProperties
<1>3. /\ back \in Seq(S) /\ Len(back) = Len(s) - i
      /\ \A j \in 1 .. Len(s) - i : back[j] = s[i + j]
  <2>1. \A j \in i + 1 .. Len(s) : s[j] \in S
    BY <1>1, ElementOfSeq
  <2> QED
    BY <1>1, <2>1, SubSeqProperties
<1>4. RemoveAt(s, i) = front \o back
    BY DEF RemoveAt
<1>5. /\ front \o back \in Seq(S) /\ Len(front \o back) = Len(front) + Len(back)
      /\ \A j \in 1 .. Len(front) + Len(back) :
            (front \o back)[j] = IF j <= Len(front) THEN front[j] ELSE back[j - Len(front)]
    BY <1>2, <1>3, ConcatProperties
<1> HIDE DEF front, back
<1> QED
    BY <1>1, <1>2, <1>3, <1>4, <1>5

\* Of the requests of a sequence no two are about the same.
OnePerKey(s) == \A i, j \in DOMAIN s : supersedes(s[i], s[j]) => i = j

LEMMA Waiting ==
    ASSUME pending \in Seq(Requests)
    PROVE  /\ Len(pending) \in Nat /\ DOMAIN pending = 1 .. Len(pending)
           /\ \A i \in 1 .. Len(pending) : pending[i] \in Requests
           /\ Pending = {pending[i] : i \in 1 .. Len(pending)} /\ Pending \subseteq Requests
<1>1. Len(pending) \in Nat /\ DOMAIN pending = 1 .. Len(pending)
    BY LenProperties
<1>2. \A i \in 1 .. Len(pending) : pending[i] \in Requests
    BY ElementOfSeq
<1> QED
    BY <1>1, <1>2 DEF Pending, ToSet

\* Retaining takes exactly the superseded request out, if there is one.
LEMMA Retaining ==
    ASSUME pending \in Seq(Requests), OnePerKey(pending), NEW r \in Requests
    PROVE  /\ Retained(r) \in Seq(Requests) /\ OnePerKey(Retained(r))
           /\ Len(Retained(r)) = Len(pending) - (IF Superseded(r) = {} THEN 0 ELSE 1)
           /\ ToSet(Retained(r)) = Pending \ Superseded(r)
<1>1. /\ Len(pending) \in Nat /\ DOMAIN pending = 1 .. Len(pending)
      /\ \A i \in 1 .. Len(pending) : pending[i] \in Requests
      /\ Pending = {pending[i] : i \in 1 .. Len(pending)}
    BY Waiting
<1>2. CASE Superseded(r) = {}
    BY <1>1, <1>2 DEF Retained, Pending
<1>3. CASE Superseded(r) # {}
  <2> DEFINE at == CHOOSE i \in DOMAIN pending : supersedes(r, pending[i])
  <2>1. at \in 1 .. Len(pending) /\ supersedes(r, pending[at])
    BY <1>1, <1>3 DEF Superseded
  <2>2. Retained(r) = RemoveAt(pending, at)
    BY <1>3 DEF Retained
  <2> HIDE DEF at
  <2> DEFINE rest == Retained(r)
  <2>3. /\ rest \in Seq(Requests) /\ Len(rest) = Len(pending) - 1
        /\ \A j \in 1 .. Len(pending) - 1 :
              rest[j] = IF j < at THEN pending[j] ELSE pending[j + 1]
    BY <2>1, <2>2, Removing
  <2>4. DOMAIN rest = 1 .. Len(pending) - 1
    BY <2>3, LenProperties
  <2> HIDE DEF rest
  <2>5. OnePerKey(rest)
    <3> SUFFICES ASSUME NEW i \in DOMAIN rest, NEW j \in DOMAIN rest, supersedes(rest[i], rest[j])
                 PROVE  i = j
      BY DEF OnePerKey
    <3> DEFINE old(k) == IF k < at THEN k ELSE k + 1
    <3>1. ASSUME NEW k \in DOMAIN rest
          PROVE  old(k) \in DOMAIN pending /\ rest[k] = pending[old(k)]
      <4>1. k \in 1 .. Len(pending) - 1 /\ k \in Nat /\ at \in Nat
        BY <1>1, <2>1, <2>4
      <4>2. old(k) \in 1 .. Len(pending)
        BY <1>1, <4>1
      <4> QED
        BY <1>1, <2>3, <4>1, <4>2
    <3> HIDE DEF old
    <3>2. old(i) = old(j)
      BY <3>1 DEF OnePerKey
    <3> QED
      BY <1>1, <2>1, <2>4, <3>2 DEF old
  <2>6. Superseded(r) = {pending[at]} /\ \A i \in 1 .. Len(pending) : i # at => pending[i] # pending[at]
    BY <1>1, <2>1 DEF Superseded, OnePerKey, supersedes
  <2>7. ToSet(rest) = Pending \ {pending[at]}
    <3>1. ASSUME NEW e \in ToSet(rest) PROVE e \in Pending \ {pending[at]}
      <4>1. PICK j \in 1 .. Len(pending) - 1 : e = rest[j]
        BY <2>4, <3>1 DEF ToSet
      <4>2. CASE j < at
        BY <1>1, <2>1, <2>3, <2>6, <4>1, <4>2
      <4>3. CASE ~(j < at)
        <5>1. e = pending[j + 1] /\ j + 1 \in 1 .. Len(pending) /\ j + 1 # at
          BY <1>1, <2>1, <2>3, <4>1, <4>3
        <5> QED
          BY <1>1, <2>6, <5>1
      <4> QED
        BY <4>2, <4>3
    <3>2. ASSUME NEW e \in Pending \ {pending[at]} PROVE e \in ToSet(rest)
      <4>1. PICK i \in 1 .. Len(pending) : e = pending[i] /\ i # at
        BY <1>1, <3>2
      <4>2. CASE i < at
        BY <1>1, <2>1, <2>3, <2>4, <4>1, <4>2 DEF ToSet
      <4>3. CASE ~(i < at)
        <5>1. i - 1 \in DOMAIN rest /\ rest[i - 1] = e
          BY <1>1, <2>1, <2>3, <2>4, <4>1, <4>3
        <5> QED
          BY <5>1 DEF ToSet
      <4> QED
        BY <4>2, <4>3
    <3> QED
      BY <3>1, <3>2
  <2> QED
    BY <1>3, <2>3, <2>5, <2>6, <2>7 DEF rest
<1> QED
    BY <1>2, <1>3

\* push_back puts the request into the deque, unless it is full.
LEMMA Enqueueing ==
    ASSUME pending \in Seq(Requests), OnePerKey(pending), Len(pending) <= MaxPending,
           NEW r \in Requests, Enqueue(r, Retained(r))
    PROVE  /\ pending' \in Seq(Requests) /\ OnePerKey(pending') /\ Len(pending') <= MaxPending
           /\ Pending' = (Pending \ Superseded(r))
                             \cup (IF Len(Retained(r)) = MaxPending THEN {} ELSE {r})
<1> DEFINE rest == Retained(r)
<1>1. /\ rest \in Seq(Requests) /\ OnePerKey(rest) /\ ToSet(rest) = Pending \ Superseded(r)
      /\ Len(rest) = Len(pending) - (IF Superseded(r) = {} THEN 0 ELSE 1)
    BY Retaining
<1>2. /\ Len(pending) \in Nat /\ Len(rest) \in Nat /\ MaxPending \in Nat
      /\ DOMAIN rest = 1 .. Len(rest)
    BY <1>1, LenProperties, QueueAssumption
<1>3. pending' = IF Len(rest) = MaxPending THEN rest ELSE Append(rest, r)
    BY DEF Enqueue
<1> HIDE DEF rest
<1>4. CASE Len(rest) = MaxPending
    BY <1>1, <1>2, <1>3, <1>4 DEF rest, Pending
<1>5. CASE Len(rest) # MaxPending
  <2>1. /\ pending' \in Seq(Requests) /\ Len(pending') = Len(rest) + 1
        /\ \A i \in 1 .. Len(rest) : pending'[i] = rest[i]
        /\ pending'[Len(rest) + 1] = r
    BY <1>1, <1>3, <1>5, AppendProperties
  <2>2. DOMAIN pending' = 1 .. Len(rest) + 1
    BY <2>1, LenProperties
  <2>3. \A i \in 1 .. Len(rest) : ~supersedes(r, rest[i]) /\ ~supersedes(rest[i], r)
    BY <1>1, <1>2 DEF ToSet, Superseded, supersedes
  <2>4. OnePerKey(pending')
    <3> SUFFICES ASSUME NEW i \in 1 .. Len(rest) + 1, NEW j \in 1 .. Len(rest) + 1,
                        supersedes(pending'[i], pending'[j])
                 PROVE  i = j
      BY <2>2 DEF OnePerKey
    <3>1. i \in 1 .. Len(rest) \/ i = Len(rest) + 1
      BY <1>2
    <3>2. j \in 1 .. Len(rest) \/ j = Len(rest) + 1
      BY <1>2
    <3> QED
      BY <1>1, <1>2, <2>1, <2>3, <3>1, <3>2 DEF OnePerKey
  <2>5. Pending' = ToSet(rest) \cup {r}
    <3>1. Pending' = {pending'[i] : i \in 1 .. Len(rest) + 1}
      BY <2>2 DEF Pending, ToSet
    <3>2. 1 .. Len(rest) + 1 = 1 .. Len(rest) \cup {Len(rest) + 1}
      BY <1>2
    <3> QED
      BY <1>2, <2>1, <3>1, <3>2 DEF ToSet
  <2> QED
    BY <1>1, <1>2, <1>5, <2>1, <2>4, <2>5 DEF rest
<1> QED
    BY <1>4, <1>5

\* pop_front takes the first request out, and it waits no longer.
LEMMA Popping ==
    ASSUME pending \in Seq(Requests), OnePerKey(pending), pending # <<>>
    PROVE  /\ Head(pending) \in Pending /\ Tail(pending) \in Seq(Requests)
           /\ OnePerKey(Tail(pending)) /\ Len(Tail(pending)) = Len(pending) - 1
           /\ ToSet(Tail(pending)) = Pending \ {Head(pending)}
<1>1. /\ Len(pending) \in Nat /\ Len(pending) # 0 /\ DOMAIN pending = 1 .. Len(pending)
      /\ Pending = {pending[i] : i \in 1 .. Len(pending)}
    BY Waiting, EmptySeq
<1>2. Head(pending) = pending[1]
    BY DEF Head
<1> DEFINE rest == Tail(pending)
<1>3. /\ rest \in Seq(Requests) /\ Len(rest) = Len(pending) - 1
      /\ \A i \in 1 .. Len(pending) - 1 : rest[i] = pending[i + 1]
    BY HeadTailProperties
<1>4. DOMAIN rest = 1 .. Len(pending) - 1
    BY <1>3, LenProperties
<1> HIDE DEF rest
<1>5. OnePerKey(rest)
  <2> SUFFICES ASSUME NEW i \in 1 .. Len(pending) - 1, NEW j \in 1 .. Len(pending) - 1,
                      supersedes(rest[i], rest[j])
               PROVE  i = j
    BY <1>4 DEF OnePerKey
  <2>1. supersedes(pending[i + 1], pending[j + 1]) /\ {i + 1, j + 1} \subseteq DOMAIN pending
    BY <1>1, <1>3
  <2>2. i + 1 = j + 1
    BY <2>1 DEF OnePerKey
  <2> QED
    BY <1>1, <2>2
<1>6. \A i \in 1 .. Len(pending) - 1 : pending[i + 1] # pending[1]
  <2> SUFFICES ASSUME NEW i \in 1 .. Len(pending) - 1, pending[i + 1] = pending[1] PROVE FALSE
    OBVIOUS
  <2>1. supersedes(pending[i + 1], pending[1]) /\ {i + 1, 1} \subseteq DOMAIN pending
    BY <1>1 DEF supersedes
  <2>2. i + 1 = 1
    BY <2>1 DEF OnePerKey
  <2> QED
    BY <1>1, <2>2
<1>7. ToSet(rest) = Pending \ {pending[1]}
  <2>1. ToSet(rest) = {pending[i + 1] : i \in 1 .. Len(pending) - 1}
    BY <1>1, <1>3, <1>4 DEF ToSet
  <2>2. ASSUME NEW e \in Pending \ {pending[1]} PROVE e \in ToSet(rest)
    <3>1. PICK i \in 1 .. Len(pending) : e = pending[i] /\ i # 1
      BY <1>1, <2>2
    <3>2. i - 1 \in DOMAIN rest /\ rest[i - 1] = e
      BY <1>1, <1>3, <1>4, <3>1
    <3> QED
      BY <3>2 DEF ToSet
  <2>3. ASSUME NEW e \in ToSet(rest) PROVE e \in Pending \ {pending[1]}
    BY <1>1, <1>6, <2>1, <2>3
  <2> QED
    BY <2>2, <2>3
<1> QED
    BY <1>1, <1>2, <1>3, <1>5, <1>7 DEF rest

-----------------------------------------------------------------------------
(* The invariant.                                                          *)

LEMMA Initially == Init => Inv
<1> SUFFICES ASSUME Init PROVE Inv
    OBVIOUS
<1>1. pending = <<>> /\ pending \in Seq(Requests) /\ Len(pending) = 0 /\ DOMAIN pending = {}
  <2>1. pending = <<>> /\ <<>> \in Seq(Requests) /\ Len(<<>>) = 0
    BY EmptySeq DEF Init
  <2> QED
    BY <2>1, LenProperties
<1>2. TypeOK
  <2>1. answers = [r \in Requests |-> 1] /\ restoreCancelled = {} /\ running = FALSE
    BY DEF Init
  <2>2. answers \in [Requests -> 0 .. 1]
    BY <2>1
  <2> QED
    BY <1>1, <2>1, <2>2 DEF Init, TypeOK
<1>3. Pending = {} /\ Owned = {}
    BY <1>1 DEF Init, Owned, Pending, ToSet
<1> QED
    BY <1>1, <1>2, <1>3, QueueAssumption
    DEF Init, Inv, OneRunner, NoRunner, JobsApart, AnsweredOnce

\* A request that may be asked again is in nobody's hands.
LEMMA AskedIsFree ==
    ASSUME Inv, NEW r \in Requests, CanAsk(r)
    PROVE  r \notin Owned /\ answers[r] = 1
BY DEF Inv, CanAsk, AnsweredOnce

\* What push answers, as a number of replies for each request.
LEMMA Replying ==
    ASSUME Inv, NEW r \in Requests, CanAsk(r), ReplyFromPush(r, Retained(r))
    PROVE  answers' = [e \in Requests |->
               IF e = r THEN IF Len(Retained(r)) = MaxPending THEN 1 ELSE 0
               ELSE IF e \in Superseded(r) THEN 1 ELSE answers[e]]
<1>1. r \notin Pending /\ Superseded(r) \subseteq Pending /\ Pending \subseteq Owned
    BY AskedIsFree DEF Owned, Superseded
<1>2. \A e \in Superseded(r) : answers[e] = 0 /\ e # r
    BY <1>1, Waiting DEF Inv, TypeOK, AnsweredOnce
<1>3. answers \in [Requests -> 0 .. 1]
    BY DEF Inv, TypeOK
<1> QED
    BY <1>1, <1>2, <1>3 DEF ReplyFromPush, Answer

LEMMA SubmitKeeps == ASSUME Inv, NEW r \in Requests, submit(r) PROVE Inv'
<1>1. /\ TypeOK /\ OneRunner /\ JobsApart /\ AnsweredOnce /\ OnePerKey(pending)
      /\ Len(pending) <= MaxPending /\ pending \in Seq(Requests)
    BY DEF Inv, TypeOK, AnsweredOnce, OnePerKey
<1>2. r \notin Owned /\ answers[r] = 1 /\ CanAsk(r)
    BY AskedIsFree DEF submit
<1>3. restoreCancelled' \subseteq {ActivityOf[e] : e \in Requests}
    BY <1>1 DEF submit, TypeOK
<1>4. CASE PushFirst(r)
  <2>1. /\ NoRunner /\ pending' = pending /\ Pending' = Pending
        /\ running' = TRUE /\ starting' = {r} /\ executing' = {} /\ looking' = 0
        /\ answers' = [answers EXCEPT ![r] = 0]
    BY <1>1, <1>4 DEF PushFirst, submit, OneRunner, NoRunner, RunnerWith, RunnerBetween, Pending
  <2>2. Owned' = Owned \cup {r}
    BY <2>1 DEF Owned, NoRunner
  <2>3. AnsweredOnce'
    BY <1>1, <2>1, <2>2 DEF AnsweredOnce, TypeOK, supersedes
  <2>4. OneRunner' /\ JobsApart'
    BY <1>2, <2>1 DEF OneRunner, RunnerWith, JobsApart, Owned
  <2> QED
    BY <1>1, <1>3, <2>1, <2>3, <2>4 DEF Inv, TypeOK
<1>5. CASE PushBehind(r)
  <2>1. /\ pending' \in Seq(Requests) /\ OnePerKey(pending') /\ Len(pending') <= MaxPending
        /\ Pending' = (Pending \ Superseded(r))
                           \cup (IF Len(Retained(r)) = MaxPending THEN {} ELSE {r})
    BY <1>1, <1>5, Enqueueing DEF PushBehind
  <2>2. /\ running /\ running' = running /\ starting' = starting /\ executing' = executing
        /\ looking' = looking
    BY <1>5 DEF PushBehind, submit
  <2>3. answers' = [e \in Requests |->
               IF e = r THEN IF Len(Retained(r)) = MaxPending THEN 1 ELSE 0
               ELSE IF e \in Superseded(r) THEN 1 ELSE answers[e]]
    BY <1>2, <1>5, Replying DEF PushBehind
  <2>4. Owned' = (Owned \ Superseded(r)) \cup (IF Len(Retained(r)) = MaxPending THEN {} ELSE {r})
    BY <1>1, <2>1, <2>2 DEF Owned, JobsApart, Superseded
  <2>5. AnsweredOnce'
    BY <1>1, <1>2, <2>1, <2>3, <2>4 DEF AnsweredOnce, OnePerKey, supersedes, Owned, Superseded
  <2>6. OneRunner' /\ JobsApart'
    BY <1>1, <1>2, <2>1, <2>2
    DEF OneRunner, NoRunner, RunnerWith, RunnerBetween, JobsApart, Owned
  <2>7. answers' \in [Requests -> 0 .. 1]
    BY <1>1, <2>3 DEF TypeOK
  <2> QED
    BY <1>1, <1>3, <2>1, <2>2, <2>5, <2>6, <2>7 DEF Inv, TypeOK
<1> QED
    BY <1>4, <1>5 DEF submit

LEMMA NextKeeps == ASSUME Inv, next PROVE Inv'
<1>1. /\ TypeOK /\ JobsApart /\ AnsweredOnce /\ OnePerKey(pending) /\ RunnerBetween
      /\ Len(pending) <= MaxPending /\ pending \in Seq(Requests)
    BY DEF Inv, TypeOK, AnsweredOnce, OnePerKey, next, OneRunner, NoRunner, RunnerWith,
       RunnerBetween
<1>2. /\ looking' = 0 /\ starting' = {} /\ answers' = answers
      /\ restoreCancelled' = restoreCancelled
    BY <1>1 DEF next, RunnerBetween
<1>3. CASE pending = <<>>
  <2>1. running' = FALSE /\ pending' = pending /\ executing' = {} /\ Owned' = Owned
    BY <1>1, <1>2, <1>3 DEF next, RunnerBetween, Owned, Pending
  <2> QED
    BY <1>1, <1>2, <1>3, <2>1
    DEF Inv, TypeOK, OneRunner, NoRunner, JobsApart, AnsweredOnce, supersedes
<1>4. CASE pending # <<>>
  <2> DEFINE r == Head(pending)
  <2>1. /\ r \in Pending /\ r \in Requests /\ OnePerKey(pending') /\ pending' \in Seq(Requests)
        /\ Len(pending') <= MaxPending /\ Pending' = Pending \ {r}
    <3>1. pending' = Tail(pending)
      BY <1>4 DEF next
    <3>2. /\ r \in Pending /\ Tail(pending) \in Seq(Requests) /\ OnePerKey(Tail(pending))
          /\ Len(Tail(pending)) = Len(pending) - 1
          /\ ToSet(Tail(pending)) = Pending \ {r}
      BY <1>1, <1>4, Popping
    <3>3. Pending \subseteq Requests /\ Len(pending) \in Nat
      BY <1>1, Waiting
    <3> HIDE DEF r
    <3>4. Pending' = ToSet(Tail(pending)) /\ OnePerKey(pending')
      BY <3>1, <3>2 DEF Pending
    <3>5. Len(pending') <= MaxPending
      BY <1>1, <3>1, <3>2, <3>3, QueueAssumption
    <3> QED
      BY <3>1, <3>2, <3>3, <3>4, <3>5
  <2>2. running' = running /\ executing' = {r}
    BY <1>1, <1>4 DEF next, RunnerBetween
  <2> HIDE DEF r
  <2>3. Owned' = Owned
    BY <1>1, <1>2, <2>1, <2>2 DEF Owned, RunnerBetween
  <2>4. AnsweredOnce'
    BY <1>1, <1>2, <2>1, <2>3 DEF AnsweredOnce, OnePerKey, supersedes
  <2>5. OneRunner' /\ JobsApart'
    BY <1>1, <1>2, <2>1, <2>2 DEF OneRunner, RunnerWith, RunnerBetween, JobsApart
  <2> QED
    BY <1>1, <1>2, <2>1, <2>2, <2>4, <2>5 DEF Inv, TypeOK
<1> QED
    BY <1>3, <1>4

LEMMA Preserved == Inv /\ [Next]_vars => Inv'
<1> SUFFICES ASSUME Inv, [Next]_vars PROVE Inv'
    OBVIOUS
<1>1. TypeOK /\ OneRunner /\ JobsApart /\ AnsweredOnce
    BY DEF Inv
<1>2. ASSUME NEW r \in Requests, Reject(r) PROVE Inv'
  <2>1. answers' = answers /\ UNCHANGED <<queue, runners, restoreCancelled>>
    BY <1>1, <1>2, AskedIsFree DEF Reject, TypeOK
  <2> QED
    BY <1>1, <2>1 DEF Inv, queue, runners, TypeOK, OneRunner, NoRunner, RunnerWith,
       RunnerBetween, JobsApart, AnsweredOnce, Owned, Pending, supersedes
<1>3. ASSUME NEW r \in Requests, Dispatch(r) PROVE Inv'
  <2>1. RunnerWith(r) /\ starting = {r} /\ executing = {}
    BY <1>1, <1>3 DEF Dispatch, OneRunner, NoRunner, RunnerWith, RunnerBetween
  <2>2. /\ starting' = {} /\ executing' = {r} /\ pending' = pending /\ running' = running
        /\ looking' = looking /\ answers' = answers /\ restoreCancelled' = restoreCancelled
    BY <1>3, <2>1 DEF Dispatch, queue
  <2>3. Pending' = Pending /\ Owned' = Owned
    BY <2>1, <2>2 DEF Pending, Owned
  <2> QED
    BY <1>1, <2>1, <2>2, <2>3
    DEF Inv, TypeOK, OneRunner, RunnerWith, JobsApart, AnsweredOnce, supersedes
<1>4. ASSUME NEW r \in Requests, Reply(r) PROVE Inv'
  <2>1. RunnerWith(r) /\ starting = {} /\ executing = {r}
    BY <1>1, <1>4 DEF Reply, OneRunner, NoRunner, RunnerWith, RunnerBetween
  <2>2. /\ starting' = {} /\ executing' = {} /\ pending' = pending /\ running' = running
        /\ looking' = 1 /\ restoreCancelled' = restoreCancelled
    BY <1>4, <2>1 DEF Reply, queue, RunnerWith
  <2>3. Pending' = Pending /\ Owned' = Owned \ {r} /\ r \in Owned
    BY <1>1, <2>1, <2>2 DEF Pending, Owned, JobsApart
  <2>4. answers' = [answers EXCEPT ![r] = 1]
    <3>1. answers[r] = 0 /\ answers \in [Requests -> 0 .. 1]
      BY <1>1, <2>3 DEF AnsweredOnce, TypeOK
    <3>2. answers' = [e \in Requests |-> IF e \in {r} THEN answers[e] + 1 ELSE answers[e]]
      BY <1>4 DEF Reply, Answer
    <3>3. answers' \in [Requests -> Int] /\ \A e \in Requests : answers'[e] = IF e = r THEN 1 ELSE answers[e]
      BY <3>1, <3>2
    <3>4. answers' = [e \in Requests |-> answers'[e]]
      BY <3>3
    <3> QED
      BY <3>1, <3>3, <3>4
  <2>5. AnsweredOnce'
    BY <1>1, <2>2, <2>3, <2>4 DEF AnsweredOnce, TypeOK, supersedes
  <2> QED
    BY <1>1, <2>1, <2>2, <2>4, <2>5
    DEF Inv, TypeOK, OneRunner, RunnerWith, RunnerBetween, JobsApart
<1>5. CASE UNCHANGED vars
    BY <1>5 DEF vars, Inv, TypeOK, OneRunner, NoRunner, RunnerWith,
       RunnerBetween, JobsApart, AnsweredOnce, Owned, Pending, supersedes
<1> QED
    BY <1>2, <1>3, <1>4, <1>5, SubmitKeeps, NextKeeps DEF Next, Run

LEMMA Inductive == Spec => []Inv
    BY Initially, Preserved, PTL DEF Spec

-----------------------------------------------------------------------------
(* Each step as one of the mailboxes.                                      *)

Keys == {KeyOf[r] : r \in Requests}
MailStep == Mailbox!Next \/ UNCHANGED <<Box, Busy>>

\* What the boxes hold when P are the requests that wait.
BoxOf(P) == [k \in Keys |-> IF \E r \in P : KeyOf[r] = k
                            THEN CHOOSE r \in P : KeyOf[r] = k ELSE None]
Apart(P) == P \subseteq Requests /\ \A r, e \in P : KeyOf[r] = KeyOf[e] => r = e

LEMMA BoxHolds ==
    ASSUME NEW P, Apart(P)
    PROVE  /\ \A r \in P : BoxOf(P)[KeyOf[r]] = r
           /\ \A k \in Keys : (\A r \in P : KeyOf[r] # k) => BoxOf(P)[k] = None
           /\ \A k \in Keys : BoxOf(P)[k] \in P \cup {None}
           /\ BoxOf(P) = [k \in Keys |-> BoxOf(P)[k]]
<1>1. ASSUME NEW r \in P PROVE BoxOf(P)[KeyOf[r]] = r
  <2>1. KeyOf[r] \in Keys
    BY DEF Apart, Keys
  <2>2. (CHOOSE e \in P : KeyOf[e] = KeyOf[r]) = r
    BY DEF Apart
  <2> QED
    BY <2>1, <2>2 DEF BoxOf
<1>2. \A k \in Keys : BoxOf(P)[k] \in P \cup {None}
    BY DEF BoxOf
<1> QED
    BY <1>1, <1>2 DEF BoxOf

\* The boxes after one request was put into its box, or taken out of it.
LEMMA BoxChanges ==
    ASSUME NEW P, Apart(P), NEW r \in Requests
    PROVE  /\ BoxOf((P \ {e \in P : KeyOf[e] = KeyOf[r]}) \cup {r})
                 = [BoxOf(P) EXCEPT ![KeyOf[r]] = r]
           /\ r \in P => BoxOf(P \ {r}) = [BoxOf(P) EXCEPT ![KeyOf[r]] = None]
<1> DEFINE posted == (P \ {e \in P : KeyOf[e] = KeyOf[r]}) \cup {r}
<1>1. Apart(posted) /\ Apart(P \ {r})
    BY DEF Apart
<1>2. KeyOf[r] \in Keys
    BY DEF Keys
<1>3. ASSUME NEW k \in Keys
      PROVE  /\ BoxOf(posted)[k] = IF k = KeyOf[r] THEN r ELSE BoxOf(P)[k]
             /\ r \in P => BoxOf(P \ {r})[k] = IF k = KeyOf[r] THEN None ELSE BoxOf(P)[k]
  <2>1. CASE k = KeyOf[r]
    <3>1. BoxOf(posted)[k] = r
      BY <1>1, <2>1, BoxHolds
    <3>2. r \in P => \A e \in P \ {r} : KeyOf[e] # k
      BY <2>1 DEF Apart
    <3> QED
      BY <1>1, <2>1, <3>1, <3>2, BoxHolds
  <2>2. CASE k # KeyOf[r] /\ \E e \in P : KeyOf[e] = k
    <3>1. PICK e \in P : KeyOf[e] = k
      BY <2>2
    <3>2. BoxOf(P)[k] = e /\ e \in posted /\ e \in P \ {r}
      BY <2>2, <3>1, BoxHolds
    <3>3. BoxOf(posted)[KeyOf[e]] = e /\ BoxOf(P \ {r})[KeyOf[e]] = e
      BY <1>1, <3>2, BoxHolds
    <3> QED
      BY <2>2, <3>1, <3>2, <3>3
  <2>3. CASE k # KeyOf[r] /\ \A e \in P : KeyOf[e] # k
    <3>1. (\A e \in posted : KeyOf[e] # k) /\ (\A e \in P \ {r} : KeyOf[e] # k)
      BY <2>3
    <3> HIDE DEF posted
    <3> QED
      BY <1>1, <2>3, <3>1, BoxHolds
  <2> QED
    BY <2>1, <2>2, <2>3
<1>4. \A Q : BoxOf(Q) = [k \in Keys |-> BoxOf(Q)[k]]
    BY DEF BoxOf
<1> HIDE DEF posted
<1>5. BoxOf(posted) = [BoxOf(P) EXCEPT ![KeyOf[r]] = r]
    BY <1>2, <1>3, <1>4
<1>6. r \in P => BoxOf(P \ {r}) = [BoxOf(P) EXCEPT ![KeyOf[r]] = None]
    BY <1>2, <1>3, <1>4
<1> QED
    BY <1>5, <1>6 DEF posted

\* The state of the mailboxes is that of the deque and its runner.
LEMMA Mapped ==
    ASSUME Inv
    PROVE  /\ Apart(Pending) /\ Box = BoxOf(Pending)
           /\ \A r \in Requests : starting \cup executing = {r} => Busy = r
           /\ starting \cup executing = {} <=> Busy = None
<1>1. /\ TypeOK /\ OnePerKey(pending) /\ None \notin Requests /\ OneRunner
    BY QueueAssumption DEF Inv, AnsweredOnce, OnePerKey
<1>2. Apart(Pending)
  <2>1. /\ DOMAIN pending = 1 .. Len(pending) /\ Pending \subseteq Requests
        /\ Pending = {pending[i] : i \in 1 .. Len(pending)}
    BY <1>1, Waiting DEF TypeOK
  <2>2. ASSUME NEW r \in Pending, NEW e \in Pending, KeyOf[r] = KeyOf[e] PROVE r = e
    <3>1. PICK i \in DOMAIN pending, j \in DOMAIN pending : r = pending[i] /\ e = pending[j]
      BY <2>1
    <3>2. supersedes(pending[i], pending[j])
      BY <2>2, <3>1 DEF supersedes
    <3> QED
      BY <1>1, <3>1, <3>2 DEF OnePerKey
  <2> QED
    BY <2>1, <2>2 DEF Apart
<1>3. Box = BoxOf(Pending)
    BY DEF Box, BoxOf, Keys
<1>4. \A r : starting \cup executing = {r} => Busy = r
    BY DEF Busy
<1>5. starting \cup executing = {} <=> Busy = None
  <2>1. starting \cup executing # {} => \E r \in Requests : starting \cup executing = {r}
    BY <1>1 DEF OneRunner, NoRunner, RunnerWith, RunnerBetween
  <2> QED
    BY <1>1, <1>4, <2>1 DEF Busy
<1> QED
    BY <1>2, <1>3, <1>4, <1>5

\* The same of the next state, where it holds by definition.
LEMMA MappedNext ==
    /\ Box' = BoxOf(Pending')
    /\ \A e : starting' \cup executing' = {e} => Busy' = e
    /\ starting' \cup executing' = {} => Busy' = None
<1>1. Box' = BoxOf(Pending')
    BY DEF Box, BoxOf, Keys
<1>2. \A e : starting' \cup executing' = {e} => Busy' = e
    BY DEF Busy
<1>3. starting' \cup executing' = {} => Busy' = None
    BY DEF Busy
<1> QED
    BY <1>1, <1>2, <1>3

\* What push does, seen from outside: the request is taken or turned away.
LEMMA Accepting ==
    ASSUME Inv, NEW r \in Requests, submit(r), running
    PROVE  /\ accepts(r) <=> Len(Retained(r)) # MaxPending
           /\ starting' = starting /\ executing' = executing
           /\ Pending' = IF accepts(r) THEN (Pending \ Superseded(r)) \cup {r} ELSE Pending
<1>1. PushBehind(r)
    BY DEF submit, PushFirst
<1>2. /\ pending \in Seq(Requests) /\ OnePerKey(pending) /\ Len(pending) <= MaxPending
    BY DEF Inv, TypeOK, AnsweredOnce, OnePerKey
<1>3. /\ Len(pending) \in Nat /\ MaxPending \in Nat
      /\ Len(Retained(r)) = Len(pending) - (IF Superseded(r) = {} THEN 0 ELSE 1)
  <2>1. Len(pending) \in Nat /\ MaxPending \in Nat
    BY <1>2, LenProperties, QueueAssumption
  <2>2. Len(Retained(r)) = Len(pending) - (IF Superseded(r) = {} THEN 0 ELSE 1)
    BY <1>2, Retaining
  <2> QED
    BY <2>1, <2>2
<1>4. accepts(r) <=> Len(Retained(r)) # MaxPending
    BY <1>2, <1>3 DEF accepts
<1>5. Pending' = (Pending \ Superseded(r))
                    \cup (IF Len(Retained(r)) = MaxPending THEN {} ELSE {r})
    BY <1>1, <1>2, Enqueueing DEF PushBehind
<1> QED
    BY <1>1, <1>4, <1>5 DEF PushBehind, submit, accepts

\* At most as many boxes are filled as requests wait.
LEMMA BoxesFilled ==
    ASSUME Inv
    PROVE  /\ Mailbox!Waiting = {KeyOf[r] : r \in Pending}
           /\ Cardinality(Mailbox!Waiting) \in Nat /\ Cardinality(Mailbox!Waiting) <= Len(pending)
<1>1. /\ pending \in Seq(Requests) /\ None \notin Requests
      /\ Apart(Pending) /\ Box = BoxOf(Pending)
    BY Mapped, QueueAssumption DEF Inv, TypeOK
<1>2. Mailbox!Waiting = {KeyOf[r] : r \in Pending}
  <2>1. Mailbox!Waiting = {k \in Keys : BoxOf(Pending)[k] # None}
    BY <1>1 DEF Mailbox!Waiting, Mailbox!Keys, Keys
  <2>2. Pending \subseteq Requests
    BY <1>1 DEF Apart
  <2>3. \A r \in Pending : KeyOf[r] \in Keys /\ BoxOf(Pending)[KeyOf[r]] = r /\ r # None
    BY <1>1, <2>2, BoxHolds DEF Keys
  <2>4. \A k \in Keys : (\A r \in Pending : KeyOf[r] # k) => BoxOf(Pending)[k] = None
    BY <1>1, BoxHolds
  <2> QED
    BY <2>1, <2>3, <2>4
<1>3. /\ Len(pending) \in Nat /\ Pending = {pending[i] : i \in 1 .. Len(pending)}
    BY <1>1, Waiting
<1> DEFINE f == [i \in 1 .. Len(pending) |-> KeyOf[pending[i]]]
<1>4. f \in Surjection(1 .. Len(pending), Mailbox!Waiting)
    BY <1>2, <1>3 DEF Surjection
<1>5. IsFiniteSet(1 .. Len(pending)) /\ Cardinality(1 .. Len(pending)) = Len(pending)
  <2>1. Len(pending) \in Int /\ 1 \in Int
    BY <1>3
  <2>2. /\ IsFiniteSet(1 .. Len(pending))
        /\ Cardinality(1 .. Len(pending)) = IF 1 > Len(pending) THEN 0 ELSE Len(pending) - 1 + 1
    BY <2>1, FS_Interval, Zenon
  <2> QED
    BY <1>3, <2>2
<1>6. IsFiniteSet(Mailbox!Waiting) /\ Cardinality(Mailbox!Waiting) <= Len(pending)
    BY <1>4, <1>5, FS_Surjection
<1> QED
    BY <1>2, <1>6, FS_CardinalityType

LEMMA SubmitMaps == ASSUME Inv, NEW r \in Requests, submit(r) PROVE MailStep
<1>1. /\ Apart(Pending) /\ Box = BoxOf(Pending) /\ Box' = BoxOf(Pending')
      /\ starting \cup executing = {} <=> Busy = None
      /\ \A e \in Requests : starting \cup executing = {e} => Busy = e
      /\ \A e \in Requests : starting' \cup executing' = {e} => Busy' = e
    BY Mapped, MappedNext
<1>2. r \notin Owned /\ r \notin Pending /\ r \notin starting \cup executing /\ r # None
    BY AskedIsFree, QueueAssumption DEF submit, Owned
<1>3. CASE PushFirst(r)
  <2>1. /\ NoRunner /\ pending' = pending /\ starting' \cup executing' = {r}
    BY <1>3 DEF Inv, PushFirst, submit, OneRunner, NoRunner, RunnerWith, RunnerBetween
  <2>2. Pending = {} /\ Pending' = Pending
    BY <2>1 DEF NoRunner, Pending, ToSet
  <2>3. Busy = None /\ Busy' = r /\ Box' = Box /\ Mailbox!Waiting = {}
    BY <1>1, <2>1, <2>2, BoxesFilled DEF NoRunner
  <2> QED
    BY <2>3 DEF MailStep, Mailbox!Next, Mailbox!Begin
<1>4. CASE running
  <2>1. /\ starting' = starting /\ executing' = executing
        /\ Pending' = IF accepts(r) THEN (Pending \ Superseded(r)) \cup {r} ELSE Pending
    BY <1>4, Accepting
  <2>2. Busy' = Busy
    BY <2>1 DEF Busy
  <2>3. CASE ~accepts(r)
    BY <1>1, <2>1, <2>2, <2>3 DEF MailStep
  <2>4. CASE accepts(r)
    <3>1. Superseded(r) = {e \in Pending : KeyOf[e] = KeyOf[r]}
      BY DEF Superseded, supersedes
    <3>2. Box' = [Box EXCEPT ![KeyOf[r]] = r]
      BY <1>1, <2>1, <2>4, <3>1, BoxChanges
    <3>3. r # Busy
      <4>1. starting \cup executing = {} \/ \E e \in Requests : starting \cup executing = {e}
        BY DEF Inv, OneRunner, NoRunner, RunnerWith, RunnerBetween
      <4> QED
        BY <1>1, <1>2, <4>1
    <3>4. r \notin {Box[k] : k \in Mailbox!Keys}
      <4>1. \A k \in Keys : BoxOf(Pending)[k] \in Pending \cup {None}
        BY <1>1, BoxHolds
      <4> QED
        BY <1>1, <1>2, <4>1 DEF Keys, Mailbox!Keys
    <3>5. KeyOf[r] \in Mailbox!Waiting \/ Cardinality(Mailbox!Waiting) < MaxPending
      <4>1. Superseded(r) # {} \/ Len(pending) < MaxPending
        BY <1>4, <2>4 DEF accepts
      <4>2. CASE Superseded(r) # {}
        BY <3>1, <4>2, BoxesFilled
      <4>3. CASE Len(pending) < MaxPending
        <5>1. Len(pending) \in Nat /\ MaxPending \in Nat
          BY LenProperties, QueueAssumption DEF Inv, TypeOK
        <5> QED
          BY <4>3, <5>1, BoxesFilled
      <4> QED
        BY <4>1, <4>2, <4>3
    <3>6. Mailbox!Cardinality(Mailbox!Waiting) = Cardinality(Mailbox!Waiting)
      BY DEF Mailbox!Cardinality, Cardinality
    <3>7. Mailbox!Post(r)
      BY <2>2, <3>2, <3>3, <3>4, <3>5, <3>6 DEF Mailbox!Post
    <3> QED
      BY <3>7 DEF MailStep, Mailbox!Next
  <2> QED
    BY <2>3, <2>4
<1> QED
    BY <1>3, <1>4 DEF submit, PushBehind

LEMMA NextMaps == ASSUME Inv, next PROVE MailStep
<1>1. /\ Apart(Pending) /\ Box = BoxOf(Pending) /\ Box' = BoxOf(Pending')
      /\ starting \cup executing = {} <=> Busy = None
      /\ \A e \in Requests : starting' \cup executing' = {e} => Busy' = e
    BY Mapped, MappedNext
<1>2. RunnerBetween /\ pending \in Seq(Requests) /\ OnePerKey(pending)
    BY DEF Inv, TypeOK, AnsweredOnce, OnePerKey, next, OneRunner, NoRunner, RunnerWith,
       RunnerBetween
<1>3. CASE pending = <<>>
  <2>1. UNCHANGED <<pending, starting, executing>>
    BY <1>3 DEF next
  <2> QED
    BY <2>1 DEF MailStep, Box, Busy, Pending
<1>4. CASE pending # <<>>
  <2> DEFINE r == Head(pending)
  <2>1. r \in Pending /\ r \in Requests /\ ToSet(Tail(pending)) = Pending \ {r}
    BY <1>2, <1>4, Popping, Waiting
  <2>2. pending' = Tail(pending) /\ starting' \cup executing' = {r}
    BY <1>2, <1>4 DEF next, RunnerBetween
  <2> HIDE DEF r
  <2>3. Pending' = Pending \ {r}
    BY <2>1, <2>2 DEF Pending
  <2>4. Box' = [Box EXCEPT ![KeyOf[r]] = None]
    BY <1>1, <2>1, <2>3, BoxChanges
  <2>5. Busy = None /\ Busy' = r
    BY <1>1, <1>2, <2>1, <2>2 DEF RunnerBetween
  <2>6. KeyOf[r] \in Mailbox!Waiting /\ Box[KeyOf[r]] = r
    BY <1>1, <2>1, BoxesFilled, BoxHolds
  <2>7. Mailbox!Take(KeyOf[r]) /\ KeyOf[r] \in Mailbox!Keys
    BY <2>1, <2>4, <2>5, <2>6 DEF Mailbox!Take, Mailbox!Keys
  <2> QED
    BY <2>7 DEF MailStep, Mailbox!Next
<1> QED
    BY <1>3, <1>4

LEMMA StepMaps == Inv /\ [Next]_vars => MailStep
<1> SUFFICES ASSUME Inv, [Next]_vars PROVE MailStep
    OBVIOUS
<1>1. ASSUME NEW r \in Requests, Dispatch(r) PROVE MailStep
  <2>1. starting = {r} /\ executing = {} /\ starting' = {} /\ executing' = {r} /\ pending' = pending
    BY <1>1 DEF Inv, Dispatch, OneRunner, NoRunner, RunnerWith, RunnerBetween, queue
  <2>2. starting' \cup executing' = starting \cup executing
    BY <2>1
  <2> QED
    BY <2>1, <2>2 DEF MailStep, Box, Busy, Pending
<1>2. ASSUME NEW r \in Requests, Reply(r) PROVE MailStep
  <2>1. starting = {} /\ executing = {r} /\ starting' = {} /\ executing' = {} /\ pending' = pending
    BY <1>2 DEF Inv, Reply, OneRunner, NoRunner, RunnerWith, RunnerBetween, queue
  <2>2. Busy # None /\ Busy' = None /\ Box' = Box
    BY <2>1, Mapped, MappedNext DEF Box, Pending
  <2> QED
    BY <2>2 DEF MailStep, Mailbox!Next, Mailbox!Finish
<1>3. ASSUME UNCHANGED <<pending, starting, executing>> PROVE MailStep
    BY <1>3 DEF MailStep, Box, Busy, Pending
<1>4. CASE (\E r \in Requests : Reject(r)) \/ UNCHANGED vars
    BY <1>3, <1>4 DEF Reject, vars, queue, runners
<1> QED
    BY <1>1, <1>2, <1>4, SubmitMaps, NextMaps DEF Next, Run

-----------------------------------------------------------------------------
(* The theorems.                                                           *)

(* The queue's state keeps its types: in particular a submission never     *)
(* gets a second reply (QueuedApply::reply).                               *)
THEOREM TypeCorrect == Spec => []TypeOK
<1>1. Inv => TypeOK
    BY DEF Inv
<1> QED
    BY Inductive, <1>1, PTL

(* There is one runner while `running` is set and none otherwise, and      *)
(* nothing waits without one (QueueState::push and next, run).             *)
THEOREM RunnerComes == Spec => []RunnerCoversQueue
<1>1. Inv => RunnerCoversQueue
  <2> SUFFICES ASSUME Inv PROVE RunnerCoversQueue
    OBVIOUS
  <2>1. Cardinality({}) = 0 /\ \A r : Cardinality({r}) = 1
    BY FS_EmptySet, FS_Singleton
  <2>2. CASE NoRunner
    BY <2>1, <2>2 DEF NoRunner, RunnerCoversQueue
  <2>3. CASE RunnerBetween
    BY <2>1, <2>3 DEF RunnerBetween, RunnerCoversQueue
  <2>4. ASSUME NEW r \in Requests, RunnerWith(r) PROVE RunnerCoversQueue
    <3>1. Cardinality(starting) + Cardinality(executing) = 1
      BY <2>1, <2>4 DEF RunnerWith
    <3> QED
      BY <2>4, <3>1 DEF RunnerWith, RunnerCoversQueue
  <2> QED
    BY <2>2, <2>3, <2>4 DEF Inv, OneRunner
<1> QED
    BY Inductive, <1>1, PTL

(* Every submission gets exactly one reply, when nobody owns it any more,  *)
(* and of the requests about the same one waits at most (push, run).       *)
THEOREM RepliesExact == Spec => []AnsweredOnce
<1>1. Inv => AnsweredOnce
    BY DEF Inv
<1> QED
    BY Inductive, <1>1, PTL

(* Exactly the requests that are taken cancel the restore of their         *)
(* activity: accepts foretells what push does (submit).                    *)
THEOREM RestoreCancelled == Spec => CancelsRestoreIffAccepted
<1> DEFINE taken == {ActivityOf[r] : r \in Owned' \ Owned}
           A == /\ taken \subseteq restoreCancelled'
                /\ restoreCancelled' \ restoreCancelled \subseteq taken
<1>1. Inv /\ [Next]_vars => [A]_vars
  <2> SUFFICES ASSUME Inv, [Next]_vars PROVE A
    OBVIOUS
  <2>1. ASSUME NEW r \in Requests, submit(r) PROVE A
    <3>1. r \notin Owned
      BY <2>1, AskedIsFree DEF submit
    <3>2. Owned' \ Owned = IF accepts(r) THEN {r} ELSE {}
      <4>1. CASE PushFirst(r)
        BY <2>1, <3>1, <4>1 DEF PushFirst, submit, Owned, Pending, accepts
      <4>2. CASE running
        BY <2>1, <3>1, <4>2, Accepting DEF Owned
      <4> QED
        BY <2>1, <4>1, <4>2 DEF submit, PushBehind
    <3>3. restoreCancelled' = IF accepts(r) THEN restoreCancelled \cup {ActivityOf[r]}
                                            ELSE restoreCancelled
      BY <2>1 DEF submit
    <3> QED
      BY <3>2, <3>3
  <2>2. CASE next
    <3>1. RunnerBetween /\ pending \in Seq(Requests) /\ OnePerKey(pending)
      BY <2>2 DEF Inv, TypeOK, AnsweredOnce, OnePerKey, next, OneRunner, NoRunner, RunnerWith,
         RunnerBetween
    <3>2. Owned' \subseteq Owned
      <4>1. CASE pending = <<>>
        BY <2>2, <4>1 DEF next, Owned, Pending
      <4>2. CASE pending # <<>>
        BY <2>2, <3>1, <4>2, Popping DEF next, RunnerBetween, Owned, Pending
      <4> QED
        BY <4>1, <4>2
    <3> QED
      BY <2>2, <3>2 DEF next
  <2>3. CASE UNCHANGED vars \/ \E r \in Requests : Reject(r) \/ Dispatch(r) \/ Reply(r)
    <3>1. restoreCancelled' = restoreCancelled /\ Owned' \subseteq Owned
      BY <2>3 DEF vars, Reject, Dispatch, Reply, queue, runners, Owned, Pending
    <3> QED
      BY <3>1
  <2> QED
    BY <2>1, <2>2, <2>3 DEF Next, Run
<1> QED
    BY Inductive, <1>1, PTL DEF Spec, CancelsRestoreIffAccepted

(* The deque implements one mailbox for each key: the latest request about *)
(* something replaces the one that waits, one apply runs at a time, and at *)
(* most MaxPending wait.  (The fairness of the mailboxes stays with TLC.)  *)
THEOREM ImplementsMailboxes == Spec => Mailbox!Init /\ [][Mailbox!Next]_<<Box, Busy>>
<1>1. Init => Mailbox!Init
  <2> SUFFICES ASSUME Init PROVE Mailbox!Init
    OBVIOUS
  <2>1. Inv /\ Pending = {} /\ starting \cup executing = {}
    BY Initially DEF Init, Pending, ToSet
  <2>2. Busy = None /\ Box = BoxOf({})
    BY <2>1, Mapped
  <2> QED
    BY <2>2 DEF Mailbox!Init, BoxOf, Keys, Mailbox!Keys
<1>2. Inv /\ [Next]_vars => [Mailbox!Next]_<<Box, Busy>>
    BY StepMaps DEF MailStep
<1> QED
    BY Inductive, <1>1, <1>2, PTL DEF Spec
=============================================================================
