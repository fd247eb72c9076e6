------------------------ MODULE TinierOptimizer_proofs ------------------------
(***************************************************************************)
(* Proofs about the queue of the video optimizer, for any requests, stops  *)
(* and videos.  Inv is the inductive invariant: the order of the queue,    *)
(* what a request has not created yet, and what a stop has taken out.      *)
(***************************************************************************)
EXTENDS TinierOptimizer, SequenceTheorems, TLAPS

InQueue(w) == \E i \in DOMAIN queue : queue[i] = w

\* Behind a work of the queue are others, and none that a replacing request put
\* first later.
Ordered == \A i, j \in DOMAIN queue : i < j =>
               /\ queue[i] # queue[j]
               /\ rank[queue[i]] > rank[queue[j]] \/ rank[queue[j]] = 0
Unanswered == \A i \in DOMAIN queue : queue[i] # job /\ result[queue[i]] = None

\* The work of a request that has not looked at the queue yet does not exist.
Unborn == \A r \in Requests : pc[r] \in {"idle", "finding"} =>
              /\ ~InQueue(r) /\ job # r /\ result[r] = None /\ rank[r] = 0
              /\ \A t \in Stops : pc[t] = "removed" => work[t] # r

\* A work that was stopped in the queue is not in the queue again.
TakenOut == \A t \in Stops : pc[t] = "removed" => work[t] \in Requests /\ ~InQueue(work[t])

\* The runner has a work from when it pops one until it clears it.
JobKnown == runner \notin {"off", "popping"} => job \in Requests
Ranked == \A w \in Requests : rank[w] <= clock

Inv == TypeOK /\ Ordered /\ Unanswered /\ Unborn /\ TakenOut /\ JobKnown /\ Ranked

-----------------------------------------------------------------------------
(* What the operations on the queue return *)

\* What RemoveAt leaves.
LEMMA Removing ==
    ASSUME NEW S, NEW s \in Seq(S), NEW i \in 1 .. Len(s)
    PROVE  /\ RemoveAt(s, i) \in Seq(S) /\ Len(RemoveAt(s, i)) = Len(s) - 1
           /\ \A j \in 1 .. Len(s) - 1 :
                 RemoveAt(s, i)[j] = IF j < i THEN s[j] ELSE s[j + 1]
<1> DEFINE front == SubSeq(s, 1, i - 1)
           back == SubSeq(s, i + 1, Len(s))
<1>1. Len(s) \in Nat
    BY LenProperties
<1>2. /\ front \in Seq(S) /\ Len(front) = i - 1
      /\ \A j \in 1 .. i - 1 : front[j] = s[j]
  <2>1. \A j \in 1 .. i - 1 : s[j] \in S
      BY <1>1, ElementOfSeq
  <2>2. 1 \in Int /\ i - 1 \in Int
      BY <1>1
  <2> QED
      BY <1>1, <2>1, <2>2, SubSeqProperties
<1>3. /\ back \in Seq(S) /\ Len(back) = Len(s) - i
      /\ \A j \in 1 .. Len(s) - i : back[j] = s[i + j]
  <2>1. \A j \in i + 1 .. Len(s) : s[j] \in S
      BY <1>1, ElementOfSeq
  <2> QED
      BY <1>1, <2>1, SubSeqProperties
<1>4. RemoveAt(s, i) = front \o back
    BY DEF RemoveAt
<1>5. /\ front \o back \in Seq(S) /\ Len(front \o back) = Len(front) + Len(back)
      /\ \A j \in 1 .. Len(front) + Len(back) :
            (front \o back)[j] = IF j <= Len(front) THEN front[j] ELSE back[j - Len(front)]
    BY <1>2, <1>3, ConcatProperties
<1> HIDE DEF front, back
<1> QED
    BY <1>1, <1>2, <1>3, <1>4, <1>5

LEMMA Waiting ==
    ASSUME queue \in Seq(Requests)
    PROVE  /\ Len(queue) \in Nat /\ DOMAIN queue = 1 .. Len(queue)
           /\ \A i \in DOMAIN queue : queue[i] \in Requests
BY LenProperties, ElementOfSeq

\* A part of the queue: the same works in the same order.
Part(q) == /\ q \in Seq(Requests)
           /\ \A i \in DOMAIN q : InQueue(q[i])
           /\ \A i, j \in DOMAIN q : i < j =>
                 \E a, b \in DOMAIN queue : a < b /\ queue[a] = q[i] /\ queue[b] = q[j]

LEMMA TakingOut ==
    ASSUME queue \in Seq(Requests), Ordered, NEW w \in Requests
    PROVE  Part(Without(w)) /\ \A i \in DOMAIN Without(w) : Without(w)[i] # w
<1> DEFINE rest == Without(w)
<1>1. /\ Len(queue) \in Nat /\ DOMAIN queue = 1 .. Len(queue)
      /\ \A i \in DOMAIN queue : queue[i] \in Requests
    BY Waiting
<1>2. CASE \A i \in DOMAIN queue : queue[i] # w
  <2>1. rest = queue
      BY <1>2 DEF Without
  <2> QED
      BY <1>2, <2>1 DEF Part, InQueue
<1>3. CASE \E i \in DOMAIN queue : queue[i] = w
  <2> DEFINE at == CHOOSE i \in DOMAIN queue : queue[i] = w
  <2>1. at \in 1 .. Len(queue) /\ queue[at] = w
      BY <1>1, <1>3
  <2>2. rest = RemoveAt(queue, at)
      BY <1>3 DEF Without
  <2> HIDE DEF at, rest
  <2>3. /\ rest \in Seq(Requests) /\ Len(rest) = Len(queue) - 1
        /\ \A j \in 1 .. Len(queue) - 1 : rest[j] = IF j < at THEN queue[j] ELSE queue[j + 1]
      BY <2>1, <2>2, Removing
  <2>4. DOMAIN rest = 1 .. Len(queue) - 1
      BY <2>3, LenProperties
  <2> DEFINE old(k) == IF k < at THEN k ELSE k + 1
  <2>5. ASSUME NEW k \in DOMAIN rest
        PROVE  old(k) \in DOMAIN queue /\ rest[k] = queue[old(k)] /\ old(k) # at
    <3>1. k \in 1 .. Len(queue) - 1 /\ k \in Nat /\ at \in Nat
        BY <1>1, <2>1, <2>4
    <3>2. old(k) \in 1 .. Len(queue) /\ old(k) # at
        BY <1>1, <3>1
    <3> QED
        BY <1>1, <2>3, <3>1, <3>2
  <2>6. ASSUME NEW i \in DOMAIN rest, NEW j \in DOMAIN rest, i < j
        PROVE  old(i) < old(j)
    <3>1. i \in Nat /\ j \in Nat /\ at \in Nat
        BY <1>1, <2>1, <2>4
    <3> QED
        BY <2>6, <3>1
  <2> HIDE DEF old
  <2>7. ASSUME NEW i \in DOMAIN rest
        PROVE  rest[i] # w /\ InQueue(rest[i])
    <3>1. old(i) \in DOMAIN queue /\ rest[i] = queue[old(i)] /\ old(i) # at
        BY <2>5
    <3>2. old(i) \in Nat /\ at \in Nat
        BY <1>1, <2>1, <3>1
    <3>3. old(i) < at \/ at < old(i)
        BY <3>1, <3>2
    <3>4. queue[old(i)] # queue[at]
        BY <1>1, <2>1, <3>1, <3>3 DEF Ordered
    <3> QED
        BY <2>1, <3>1, <3>4 DEF InQueue
  <2>8. Part(rest)
      BY <2>3, <2>5, <2>6, <2>7 DEF Part
  <2> QED
      BY <2>7, <2>8 DEF rest
<1> QED
    BY <1>2, <1>3

LEMMA Placing ==
    ASSUME queue \in Seq(Requests), Ordered, NEW w \in Requests
    PROVE  /\ Place(w) \in Seq(Requests) /\ 1 \in DOMAIN Place(w) /\ Place(w)[1] = w
           /\ DOMAIN Place(w) \subseteq Nat \ {0}
           /\ \A i \in DOMAIN Place(w) : i # 1 =>
                 /\ i - 1 \in DOMAIN Without(w) /\ Place(w)[i] = Without(w)[i - 1]
<1> DEFINE rest == Without(w)
           front == <<w>>
<1>1. rest \in Seq(Requests)
    BY TakingOut DEF Part
<1>2. front \in Seq(Requests) /\ Len(front) = 1 /\ front[1] = w
    OBVIOUS
<1>3. Place(w) = front \o rest
    BY DEF Place
<1> HIDE DEF rest, front
<1>4. /\ front \o rest \in Seq(Requests) /\ Len(front \o rest) = Len(front) + Len(rest)
      /\ \A i \in 1 .. Len(front) + Len(rest) :
            (front \o rest)[i] = IF i <= Len(front) THEN front[i] ELSE rest[i - Len(front)]
    BY <1>1, <1>2, ConcatProperties
<1>5. Len(rest) \in Nat /\ DOMAIN rest = 1 .. Len(rest)
    BY <1>1, LenProperties
<1>6. DOMAIN (front \o rest) = 1 .. Len(rest) + 1
    BY <1>2, <1>4, <1>5, LenProperties
<1> QED
    BY <1>2, <1>3, <1>4, <1>5, <1>6 DEF rest

-----------------------------------------------------------------------------
(* The steps *)

Rest == Ordered /\ Unanswered /\ Unborn /\ TakenOut /\ JobKnown /\ Ranked

Going(c, to) == /\ pc'[c] = to /\ \A d \in (Requests \cup Stops) \ {c} : pc'[d] = pc[d]

LEMMA Went ==
    ASSUME TypeOK, NEW c \in Requests \cup Stops, NEW to, Goto(c, to)
    PROVE  Going(c, to)
BY DEF TypeOK, Goto, Going

\* A step that leaves the queue, and what its works gave, as they were.
LEMMA Still ==
    ASSUME Rest, UNCHANGED <<queue, job, result, rank, clock>>,
           \A r \in Requests : pc'[r] \in {"idle", "finding"} => pc[r] \in {"idle", "finding"},
           \A t \in Stops : pc'[t] = "removed" => pc[t] = "removed" /\ work'[t] = work[t],
           runner' \notin {"off", "popping"} => runner \notin {"off", "popping"}
    PROVE  Rest'
<1>1. Ordered' /\ Unanswered' /\ Ranked' /\ JobKnown'
    BY DEF Rest, Ordered, Unanswered, Ranked, JobKnown
<1>2. Unborn' /\ TakenOut'
    BY DEF Rest, Unborn, TakenOut, InQueue
<1> QED
    BY <1>1, <1>2 DEF Rest

\* A step that takes works out of the queue.
LEMMA PartOrdered ==
    ASSUME Ordered, NEW q, q = queue', Part(q), rank' = rank
    PROVE  Ordered'
BY DEF Ordered, Part

LEMMA Appending ==
    ASSUME TypeOK, Rest, NEW r \in Requests, pc[r] = "finding", queue' = Append(queue, r),
           Going(r, "found"), UNCHANGED <<job, result, rank, clock, runner>>,
           \A t \in Stops : work'[t] = work[t]
    PROVE  Rest'
<1>1. /\ Len(queue) \in Nat /\ DOMAIN queue = 1 .. Len(queue) /\ queue \in Seq(Requests)
      /\ \A i \in DOMAIN queue : queue[i] \in Requests
    BY Waiting DEF TypeOK
<1>2. /\ Len(queue') = Len(queue) + 1 /\ queue' \in Seq(Requests)
      /\ \A i \in 1 .. Len(queue) : queue'[i] = queue[i]
      /\ queue'[Len(queue) + 1] = r
    BY <1>1, AppendProperties
<1>3. DOMAIN queue' = 1 .. Len(queue) + 1
    BY <1>2, LenProperties
<1>4. ~InQueue(r) /\ job # r /\ result[r] = None /\ rank[r] = 0
      /\ \A t \in Stops : pc[t] = "removed" => work[t] # r
    BY DEF Rest, Unborn
<1>5. \A i \in DOMAIN queue' : i \in DOMAIN queue \/ i = Len(queue) + 1
    BY <1>1, <1>3
<1>6. \A w : InQueue(w)' <=> InQueue(w) \/ w = r
    BY <1>1, <1>2, <1>3, <1>5 DEF InQueue
<1>7. Ordered'
  <2> SUFFICES ASSUME NEW i \in DOMAIN queue', NEW j \in DOMAIN queue', i < j
               PROVE  queue'[i] # queue'[j] /\ (rank[queue'[i]] > rank[queue'[j]] \/ rank[queue'[j]] = 0)
      BY DEF Ordered
  <2>1. i \in DOMAIN queue
      BY <1>1, <1>3, <1>5
  <2>2. CASE j \in DOMAIN queue
      BY <1>1, <1>2, <2>1, <2>2 DEF Rest, Ordered
  <2>3. CASE j = Len(queue) + 1
      BY <1>1, <1>2, <1>4, <2>1, <2>3 DEF InQueue
  <2> QED
      BY <1>5, <2>2, <2>3
<1>8. Unanswered'
    BY <1>1, <1>2, <1>4, <1>5 DEF Rest, Unanswered
<1>9. Unborn' /\ TakenOut'
  <2>1. \A q \in Requests : pc'[q] \in {"idle", "finding"} => pc[q] \in {"idle", "finding"} /\ q # r
      BY DEF Going
  <2>2. \A t \in Stops : pc'[t] = pc[t]
      BY TinierAssumption DEF Going
  <2> QED
      BY <1>4, <1>6, <2>1, <2>2 DEF Rest, Unborn, TakenOut
<1> QED
    BY <1>7, <1>8, <1>9 DEF Rest, JobKnown, Ranked

LEMMA Putting ==
    ASSUME TypeOK, Rest, NEW r \in Requests, pc[r] = "finding", NEW w \in Requests,
           w = r \/ InQueue(w), queue' = Place(w),
           Going(r, "found"), rank' = [rank EXCEPT ![w] = clock + 1], clock' = clock + 1,
           UNCHANGED <<job, result, runner>>, \A t \in Stops : work'[t] = work[t]
    PROVE  Rest'
<1> DEFINE rest == Without(w)
<1>1. Part(rest) /\ \A i \in DOMAIN rest : rest[i] # w
    BY TakingOut DEF TypeOK, Rest
<1>2. /\ 1 \in DOMAIN queue' /\ queue'[1] = w /\ DOMAIN queue' \subseteq Nat \ {0}
      /\ \A i \in DOMAIN queue' : i # 1 => i - 1 \in DOMAIN rest /\ queue'[i] = rest[i - 1]
  <2>1. queue \in Seq(Requests) /\ Ordered
      BY DEF TypeOK, Rest
  <2>2. /\ 1 \in DOMAIN Place(w) /\ Place(w)[1] = w /\ DOMAIN Place(w) \subseteq Nat \ {0}
        /\ \A i \in DOMAIN Place(w) : i # 1 =>
              /\ i - 1 \in DOMAIN rest /\ Place(w)[i] = rest[i - 1]
      BY <2>1, Placing
  <2> QED
      BY <2>2
<1>3. /\ rank \in [Requests -> Nat] /\ clock \in Nat /\ rank'[w] = clock + 1
      /\ \A v \in Requests \ {w} : rank'[v] = rank[v]
    BY DEF TypeOK
<1>4. \A i \in DOMAIN rest : rest[i] \in Requests \ {w} /\ InQueue(rest[i])
    BY <1>1, ElementOfSeq, LenProperties DEF Part
<1>5. ~InQueue(r) /\ job # r /\ result[r] = None /\ rank[r] = 0
      /\ \A t \in Stops : pc[t] = "removed" => work[t] # r
    BY DEF Rest, Unborn
<1> HIDE DEF rest
<1>6. Ordered'
  <2> SUFFICES ASSUME NEW i \in DOMAIN queue', NEW j \in DOMAIN queue', i < j
               PROVE  /\ queue'[i] # queue'[j]
                      /\ rank'[queue'[i]] > rank'[queue'[j]] \/ rank'[queue'[j]] = 0
      BY DEF Ordered
  <2>1. j # 1 /\ i \in Nat /\ j \in Nat
      BY <1>2
  <2>2. j - 1 \in DOMAIN rest /\ queue'[j] = rest[j - 1]
      BY <1>2, <2>1
  <2>3. CASE i = 1
    <3>1. rank'[queue'[j]] = rank[rest[j - 1]] /\ rank[rest[j - 1]] \in Nat
          /\ rank[rest[j - 1]] <= clock
        BY <1>3, <1>4, <2>2 DEF Rest, Ranked
    <3>2. queue'[i] = w /\ rank'[queue'[i]] = clock + 1
        BY <1>2, <1>3, <2>3
    <3> QED
        BY <1>3, <1>4, <2>2, <3>1, <3>2
  <2>4. CASE i # 1
    <3>1. i - 1 \in DOMAIN rest /\ queue'[i] = rest[i - 1] /\ i - 1 < j - 1
        BY <1>2, <2>1, <2>4
    <3>2. PICK a \in DOMAIN queue, b \in DOMAIN queue :
             a < b /\ queue[a] = rest[i - 1] /\ queue[b] = rest[j - 1]
        BY <1>1, <2>2, <3>1 DEF Part
    <3>3. /\ rest[i - 1] # rest[j - 1]
          /\ rank[rest[i - 1]] > rank[rest[j - 1]] \/ rank[rest[j - 1]] = 0
        BY <3>2 DEF Rest, Ordered
    <3> QED
        BY <1>3, <1>4, <2>2, <3>1, <3>3
  <2> QED
      BY <2>3, <2>4
<1>7. \A v : InQueue(v)' => v = w \/ InQueue(v)
    BY <1>2, <1>4 DEF InQueue
<1>8. job # w /\ result[w] = None /\ \A t \in Stops : pc[t] = "removed" => work[t] # w
    BY <1>5 DEF Rest, Unanswered, TakenOut, InQueue
<1>9. Unanswered'
  <2>1. ASSUME NEW i \in DOMAIN queue'
        PROVE  queue'[i] # job /\ result[queue'[i]] = None
    <3>1. queue'[i] = w \/ InQueue(queue'[i])
        BY <1>7 DEF InQueue
    <3> QED
        BY <1>8, <3>1 DEF Rest, Unanswered, InQueue
  <2> QED
      BY <2>1 DEF Unanswered
<1>10. Unborn' /\ TakenOut'
  <2>1. \A q \in Requests : pc'[q] \in {"idle", "finding"} => pc[q] \in {"idle", "finding"} /\ q # r
      BY DEF Going
  <2>2. \A t \in Stops : pc'[t] = pc[t]
      BY TinierAssumption DEF Going
  <2>3. ASSUME NEW q \in Requests, pc'[q] \in {"idle", "finding"}
        PROVE  /\ ~InQueue(q)' /\ job # q /\ result[q] = None /\ rank'[q] = 0
               /\ \A t \in Stops : pc'[t] = "removed" => work'[t] # q
    <3>1. /\ ~InQueue(q) /\ job # q /\ result[q] = None /\ rank[q] = 0 /\ q # r
          /\ \A t \in Stops : pc[t] = "removed" => work[t] # q
        BY <2>1, <2>3 DEF Rest, Unborn
    <3>2. q # w
        BY <3>1
    <3> QED
        BY <1>3, <1>7, <2>2, <3>1, <3>2
  <2>4. TakenOut'
      BY <1>7, <1>8, <2>2 DEF Rest, TakenOut
  <2> QED
      BY <2>3, <2>4 DEF Unborn
<1>11. Ranked'
    BY <1>3 DEF Rest, Ranked
<1> QED
    BY <1>6, <1>9, <1>10, <1>11 DEF Rest, JobKnown

LEMMA Popping ==
    ASSUME TypeOK, Rest, Pop
    PROVE  queue' \in Seq(Requests) /\ job' \in Requests \cup {None} /\ Rest'
<1>1. /\ Len(queue) \in Nat /\ DOMAIN queue = 1 .. Len(queue) /\ queue \in Seq(Requests)
      /\ \A i \in DOMAIN queue : queue[i] \in Requests
    BY Waiting DEF TypeOK
<1>2. CASE queue = <<>>
  <2>1. UNCHANGED <<queue, job, result, rank, clock, pc, work>> /\ runner' = "off"
      BY <1>2 DEF Pop, Run, calls, ghost
  <2> QED
      BY <2>1, Still DEF TypeOK
<1>3. CASE queue # <<>>
  <2>1. /\ job' = Head(queue) /\ queue' = Tail(queue)
        /\ UNCHANGED <<result, rank, clock, pc, work>>
      BY <1>3 DEF Pop, Run, calls, ghost
  <2>2. /\ Head(queue) = queue[1] /\ Tail(queue) \in Seq(Requests)
        /\ Len(Tail(queue)) = Len(queue) - 1
        /\ \A i \in 1 .. Len(Tail(queue)) : Tail(queue)[i] = queue[i + 1]
      BY <1>1, <1>3, HeadTailProperties
  <2>3. DOMAIN queue' = 1 .. Len(queue) - 1 /\ 1 \in DOMAIN queue
    <3>1. Len(queue) # 0
        BY <1>1, <1>3, EmptySeq
    <3> QED
        BY <1>1, <2>1, <2>2, <3>1, LenProperties
  <2>4. \A i \in DOMAIN queue' : /\ i + 1 \in DOMAIN queue /\ queue'[i] = queue[i + 1] /\ 1 < i + 1
                                 /\ i \in Nat
      BY <1>1, <2>1, <2>2, <2>3
  <2>5. Ordered'
    <3> SUFFICES ASSUME NEW i \in DOMAIN queue', NEW j \in DOMAIN queue', i < j
                 PROVE  /\ queue'[i] # queue'[j]
                        /\ rank[queue'[i]] > rank[queue'[j]] \/ rank[queue'[j]] = 0
        BY <2>1 DEF Ordered
    <3>1. i + 1 < j + 1
        BY <2>4
    <3> QED
        BY <2>4, <3>1 DEF Rest, Ordered
  <2>6. Unanswered'
    <3>1. \A i \in DOMAIN queue' : queue'[i] # queue[1] /\ result[queue'[i]] = None
        BY <2>3, <2>4 DEF Rest, Ordered, Unanswered
    <3> QED
        BY <2>1, <2>2, <3>1 DEF Unanswered
  <2>7. job' \in Requests /\ InQueue(job') /\ \A v : (\E i \in DOMAIN queue' : queue'[i] = v) => InQueue(v)
      BY <1>1, <2>1, <2>2, <2>3, <2>4 DEF InQueue
  <2>8. Unborn' /\ TakenOut'
      BY <2>1, <2>7 DEF Rest, Unborn, TakenOut, InQueue
  <2>9. JobKnown' /\ Ranked'
      BY <2>1, <2>7 DEF JobKnown, Rest, Ranked
  <2> QED
      BY <2>1, <2>2, <2>5, <2>6, <2>7, <2>8, <2>9 DEF Rest
<1> QED
    BY <1>2, <1>3

\* A stop takes a work out of the queue.
LEMMA TakenFromQueue ==
    ASSUME TypeOK, Rest, NEW t \in Stops, NEW w \in Requests, InQueue(w), queue' = Without(w),
           work' = [work EXCEPT ![t] = w], Going(t, "removed"),
           UNCHANGED <<job, result, rank, clock, runner>>
    PROVE  queue' \in Seq(Requests) /\ Rest'
<1> DEFINE rest == Without(w)
<1>1. Part(rest) /\ \A i \in DOMAIN rest : rest[i] # w
    BY TakingOut DEF TypeOK, Rest
<1>2. queue' = rest /\ \A v : InQueue(v)' => InQueue(v) /\ v # w
    BY <1>1 DEF Part, InQueue
<1> HIDE DEF rest
<1>3. queue' \in Seq(Requests) /\ Ordered'
    BY <1>1, <1>2, PartOrdered DEF Part, Rest
<1>4. Unanswered'
  <2>1. ASSUME NEW i \in DOMAIN queue'
        PROVE  queue'[i] # job /\ result[queue'[i]] = None
    <3>1. InQueue(queue'[i])
        BY <1>2 DEF InQueue
    <3> QED
        BY <3>1 DEF Rest, Unanswered, InQueue
  <2> QED
      BY <2>1 DEF Unanswered
<1>5. Unborn' /\ TakenOut'
  <2>1. \A r \in Requests : pc'[r] = pc[r]
      BY TinierAssumption DEF Going
  <2>2. /\ work'[t] = w /\ pc'[t] = "removed"
        /\ \A u \in Stops \ {t} : work'[u] = work[u] /\ pc'[u] = pc[u]
      BY DEF TypeOK, Going
  <2>3. \A r \in Requests : pc[r] \in {"idle", "finding"} => r # w
      BY DEF Rest, Unborn
  <2>4. Unborn'
      BY <1>2, <2>1, <2>2, <2>3 DEF Rest, Unborn
  <2>5. TakenOut'
      BY <1>2, <2>2 DEF Rest, TakenOut
  <2> QED
      BY <2>4, <2>5
<1> QED
    BY <1>3, <1>4, <1>5 DEF Rest, JobKnown, Ranked

\* A work that is not in the queue, and whose request has looked, is answered.
LEMMA Answering ==
    ASSUME TypeOK, Rest, NEW w \in Requests, NEW r, Finish(w, r), ~InQueue(w),
           \A q \in Requests : pc[q] \in {"idle", "finding"} => q # w,
           UNCHANGED <<queue, job, rank, clock, work>>,
           \A q \in Requests : pc'[q] = pc[q],
           \A t \in Stops : pc'[t] = "removed" => pc[t] = "removed",
           runner' \notin {"off", "popping"} => runner \notin {"off", "popping"}
    PROVE  Rest'
<1>1. \A v \in Requests \ {w} : result'[v] = result[v]
    BY DEF TypeOK, Finish
<1>2. \A i \in DOMAIN queue : queue[i] \in Requests \ {w}
    BY Waiting DEF TypeOK, InQueue
<1>3. Ordered' /\ Unanswered' /\ Ranked' /\ JobKnown'
    BY <1>1, <1>2 DEF Rest, Ordered, Unanswered, Ranked, JobKnown
<1>4. Unborn' /\ TakenOut'
    BY <1>1 DEF Rest, Unborn, TakenOut, InQueue
<1> QED
    BY <1>3, <1>4 DEF Rest

-----------------------------------------------------------------------------
(* The types *)

LEMMA TypesKept ==
    ASSUME TypeOK, Rest, [Next]_vars
    PROVE  TypeOK'
<1> USE TinierAssumption DEF flags, run, calls, ghost, Results, Goto, Run
<1>1. CASE UNCHANGED vars
    BY <1>1 DEF TypeOK, vars
<1>2. ASSUME NEW r \in Requests, FindCurrent(r)
      PROVE  TypeOK'
  <2>1. UNCHANGED <<queue, running, current, gate, flags, result, tasks, run, ghost>>
      BY <1>2 DEF FindCurrent
  <2>2. work' \in [Requests \cup Stops -> Requests \cup {None}]
    <3>1. work \in [Requests \cup Stops -> Requests \cup {None}] /\ current \in Requests \cup {None}
        BY DEF TypeOK
    <3>2. work' = [work EXCEPT ![r] = current] \/ work' = work
        BY <1>2 DEF FindCurrent
    <3> QED
        BY <3>1, <3>2
  <2>3. pc' = [pc EXCEPT ![r] = "found"] \/ pc' = [pc EXCEPT ![r] = "finding"]
      BY <1>2 DEF FindCurrent
  <2>4. pc' \in [Requests \cup Stops -> {"idle", "finding", "found", "subscribed", "published",
                   "waiting", "queue", "removed", "finished", "stopped", "refused"}]
      BY <2>3 DEF TypeOK
  <2> QED
      BY <2>1, <2>2, <2>4 DEF TypeOK
<1>3. ASSUME NEW r \in Requests, FindOrAppend(r)
      PROVE  TypeOK'
  <2>1. PICK w \in Requests : work' = [work EXCEPT ![r] = w]
    <3>1. Queued(SourceOf[r]) \subseteq Requests
        BY DEF Queued
    <3> QED
        BY <1>3, <3>1 DEF FindOrAppend
  <2>2. queue' \in Seq(Requests)
    <3>1. queue \in Seq(Requests) /\ Append(queue, r) \in Seq(Requests)
        BY AppendProperties DEF TypeOK
    <3> QED
        BY <1>3, <3>1 DEF FindOrAppend
  <2>3. Goto(r, "found") /\ UNCHANGED <<running, current, gate, flags, result, tasks, run, ghost>>
      BY <1>3 DEF FindOrAppend
  <2> QED
      BY <2>1, <2>2, <2>3 DEF TypeOK
<1>4. ASSUME NEW r \in Requests, FindOrReplace(r)
      PROVE  TypeOK'
  <2>1. PICK v \in Requests : /\ work' = [work EXCEPT ![r] = v] /\ queue' = Place(v)
                              /\ rank' = [rank EXCEPT ![v] = clock + 1]
    <3>1. Queued(SourceOf[r]) \subseteq Requests
        BY DEF Queued
    <3> QED
        BY <1>4, <3>1 DEF FindOrReplace
  <2>2. queue' \in Seq(Requests)
      BY <2>1, Placing DEF TypeOK, Rest
  <2>3. /\ Goto(r, "found") /\ clock' = clock + 1
        /\ cancelled' = [w \in Requests |-> cancelled[w] \/ w = current]
        /\ UNCHANGED <<running, current, gate, interactive, result, tasks, run>>
      BY <1>4 DEF FindOrReplace
  <2>4. cancelled' \in [Requests -> BOOLEAN]
      BY <2>3
  <2>5. work' \in [Requests \cup Stops -> Requests \cup {None}] /\ rank' \in [Requests -> Nat]
        /\ clock' \in Nat
      BY <2>1, <2>3 DEF TypeOK
  <2> QED
      BY <2>2, <2>3, <2>4, <2>5 DEF TypeOK
<1>5. ASSUME NEW r \in Requests, Subscribe(r)
      PROVE  TypeOK'
    BY <1>5 DEF TypeOK, Subscribe
<1>6. ASSUME NEW r \in Requests, PublishQueued(r)
      PROVE  TypeOK'
    BY <1>6 DEF TypeOK, PublishQueued
<1>7. ASSUME NEW r \in Requests, SpawnNext(r)
      PROVE  TypeOK'
    BY <1>7 DEF TypeOK, SpawnNext
<1>8. CASE Pop
  <2>1. queue' \in Seq(Requests) /\ job' \in Requests \cup {None}
      BY <1>8, Popping
  <2>2. /\ running' \in BOOLEAN /\ runner' \in {"off", "popped"}
        /\ UNCHANGED <<current, gate, flags, result, tasks, outcome, calls, ghost>>
      BY <1>8 DEF Pop, TypeOK
  <2> QED
      BY <2>1, <2>2 DEF TypeOK
<1>9. CASE Deselected \/ Start \/ Check
    BY <1>9 DEF TypeOK, Deselected, FinishTask, Start, PublishRunning, Check, Verdicts
<1>10. CASE Report \/ FinishWork \/ Clear
    BY <1>10 DEF TypeOK, Report, FinishTask, FinishWork, Finish, Clear
<1>11. CASE TakeGate \/ Encode \/ ImagesTake \/ ImagesRelease
    BY <1>11 DEF TypeOK, TakeGate, Encode, PublishRunning, ImagesTake, ImagesRelease
<1>12. ASSUME NEW t \in Stops, StopCurrent(t)
       PROVE  TypeOK'
    BY <1>12 DEF TypeOK, StopCurrent
<1>13. ASSUME NEW t \in Stops, StopQueued(t)
       PROVE  TypeOK'
  <2>1. UNCHANGED <<running, current, gate, flags, result, tasks, run, ghost>>
      BY <1>13 DEF StopQueued
  <2>2. pc' \in [Requests \cup Stops -> {"idle", "finding", "found", "subscribed", "published",
                   "waiting", "queue", "removed", "finished", "stopped", "refused"}]
      BY <1>13 DEF StopQueued, TypeOK
  <2>3. CASE \E w \in Queued(SourceOf[t]) : queue' = Without(w) /\ work' = [work EXCEPT ![t] = w]
    <3>1. PICK w \in Requests : queue' = Without(w) /\ work' = [work EXCEPT ![t] = w]
        BY <2>3 DEF Queued
    <3>2. queue' \in Seq(Requests)
        BY <3>1, TakingOut DEF TypeOK, Rest, Part
    <3> QED
        BY <2>1, <2>2, <3>1, <3>2 DEF TypeOK
  <2>4. CASE UNCHANGED <<queue, work>>
      BY <2>1, <2>2, <2>4 DEF TypeOK
  <2> QED
      BY <1>13, <2>3, <2>4 DEF StopQueued
<1>14. ASSUME NEW t \in Stops, StopFinish(t)
       PROVE  TypeOK'
    BY <1>14 DEF TypeOK, StopFinish, Finish
<1>15. ASSUME NEW t \in Stops, StopTask(t)
       PROVE  TypeOK'
    BY <1>15 DEF TypeOK, StopTask, FinishTask
<1> QED
    BY <1>1, <1>2, <1>3, <1>4, <1>5, <1>6, <1>7, <1>8, <1>9, <1>10, <1>11, <1>12, <1>13, <1>14, <1>15
       DEF Next, Prepare, Runner, Stop

-----------------------------------------------------------------------------
(* The invariant *)

LEMMA RestKept ==
    ASSUME TypeOK, Rest, [Next]_vars
    PROVE  Rest'
<1> USE DEF flags, run, calls, ghost, Run
<1>1. CASE UNCHANGED vars
    BY <1>1, Still DEF vars
<1>2. ASSUME NEW r \in Requests, FindCurrent(r)
      PROVE  Rest'
  <2>1. Going(r, "found") \/ Going(r, "finding")
      BY <1>2, Went DEF FindCurrent
  <2>2. \A t \in Stops : work'[t] = work[t]
      BY <1>2, TinierAssumption DEF FindCurrent, TypeOK
  <2> QED
      BY <1>2, <2>1, <2>2, Still, TinierAssumption DEF FindCurrent, Going
<1>3. ASSUME NEW r \in Requests, FindOrAppend(r)
      PROVE  Rest'
  <2>1. /\ pc[r] = "finding" /\ Going(r, "found")
        /\ UNCHANGED <<job, result, rank, clock, runner>>
      BY <1>3, Went DEF FindOrAppend
  <2>2. \A t \in Stops : work'[t] = work[t]
      BY <1>3, TinierAssumption DEF FindOrAppend, TypeOK
  <2>3. CASE queue' = Append(queue, r)
      BY <2>1, <2>2, <2>3, Appending
  <2>4. CASE queue' = queue
      BY <2>1, <2>2, <2>4, Still, TinierAssumption DEF Going
  <2> QED
      BY <1>3, <2>3, <2>4 DEF FindOrAppend
<1>4. ASSUME NEW r \in Requests, FindOrReplace(r)
      PROVE  Rest'
  <2>1. /\ pc[r] = "finding" /\ Going(r, "found") /\ clock' = clock + 1
        /\ UNCHANGED <<job, result, runner>>
      BY <1>4, Went DEF FindOrReplace
  <2>2. \A t \in Stops : work'[t] = work[t]
      BY <1>4, TinierAssumption DEF FindOrReplace, TypeOK
  <2>3. PICK w \in Requests : /\ queue' = Place(w) /\ rank' = [rank EXCEPT ![w] = clock + 1]
                              /\ w = r \/ InQueue(w)
    <3>1. \A w \in Queued(SourceOf[r]) : w \in Requests /\ InQueue(w)
        BY DEF Queued, InQueue
    <3> QED
        BY <1>4, <3>1 DEF FindOrReplace
  <2> QED
      BY <2>1, <2>2, <2>3, Putting
<1>5. ASSUME NEW r \in Requests, Subscribe(r) \/ PublishQueued(r)
      PROVE  Rest'
  <2>1. Going(r, "subscribed") \/ Going(r, "published")
      BY <1>5, Went DEF Subscribe, PublishQueued
  <2> QED
      BY <1>5, <2>1, Still, TinierAssumption DEF Subscribe, PublishQueued, Going
<1>6. ASSUME NEW r \in Requests, SpawnNext(r)
      PROVE  Rest'
  <2>1. Going(r, "waiting")
      BY <1>6, Went DEF SpawnNext
  <2> QED
      BY <1>6, <2>1, Still, TinierAssumption DEF SpawnNext, Going
<1>7. CASE Pop
    BY <1>7, Popping
<1>8. CASE Deselected \/ Start \/ Check \/ Report
    BY <1>8, Still DEF Deselected, Start, Check, Report
<1>9. CASE TakeGate \/ Encode \/ ImagesTake \/ ImagesRelease
    BY <1>9, Still DEF TakeGate, Encode, ImagesTake, ImagesRelease
<1>10. CASE FinishWork
  <2>1. job \in Requests /\ ~InQueue(job) /\ \A q \in Requests : pc[q] \in {"idle", "finding"} => q # job
      BY <1>10 DEF FinishWork, Rest, JobKnown, Unanswered, Unborn, InQueue
  <2>2. /\ Finish(job, outcome) /\ runner = "reported"
        /\ UNCHANGED <<queue, job, rank, clock, work, pc>>
      BY <1>10 DEF FinishWork
  <2> QED
      BY <2>1, <2>2, Answering
<1>11. CASE Clear
  <2>1. /\ job' = None /\ runner' = "popping"
        /\ UNCHANGED <<queue, result, pc, work, rank, clock>>
      BY <1>11 DEF Clear
  <2>2. \A i \in DOMAIN queue : queue[i] # None
      BY Waiting, TinierAssumption DEF TypeOK
  <2>3. Unanswered' /\ Unborn'
      BY <2>1, <2>2, TinierAssumption DEF Rest, Unanswered, Unborn, InQueue
  <2> QED
      BY <2>1, <2>3 DEF Rest, Ordered, TakenOut, InQueue, JobKnown, Ranked
<1>12. ASSUME NEW t \in Stops, StopCurrent(t)
       PROVE  Rest'
  <2>1. Going(t, "stopped") \/ Going(t, "queue")
      BY <1>12, Went DEF StopCurrent
  <2> QED
      BY <1>12, <2>1, Still, TinierAssumption DEF StopCurrent, Going
<1>13. ASSUME NEW t \in Stops, StopQueued(t)
       PROVE  Rest'
  <2>1. UNCHANGED <<job, result, rank, clock, runner>>
      BY <1>13 DEF StopQueued
  <2>2. ASSUME NEW w \in Queued(SourceOf[t]), queue' = Without(w),
               work' = [work EXCEPT ![t] = w], Goto(t, "removed")
        PROVE  Rest'
    <3>1. w \in Requests /\ InQueue(w)
        BY DEF Queued, InQueue
    <3>2. Going(t, "removed")
        BY <2>2, Went
    <3> QED
        BY <2>1, <2>2, <3>1, <3>2, TakenFromQueue
  <2>3. ASSUME Goto(t, "refused"), UNCHANGED <<queue, work>>
        PROVE  Rest'
    <3>1. Going(t, "refused")
        BY <2>3, Went
    <3> QED
        BY <2>1, <2>3, <3>1, Still, TinierAssumption DEF Going
  <2> QED
      BY <1>13, <2>2, <2>3 DEF StopQueued
<1>14. ASSUME NEW t \in Stops, StopFinish(t)
       PROVE  Rest'
  <2>1. /\ pc[t] = "removed" /\ Finish(work[t], "cancelled") /\ Going(t, "finished")
        /\ UNCHANGED <<queue, job, rank, clock, work, runner>>
      BY <1>14, Went DEF StopFinish
  <2>2. /\ work[t] \in Requests /\ ~InQueue(work[t])
        /\ \A q \in Requests : pc[q] \in {"idle", "finding"} => q # work[t]
      BY <2>1 DEF Rest, TakenOut, Unborn
  <2>3. (\A q \in Requests : pc'[q] = pc[q])
        /\ \A u \in Stops : pc'[u] = "removed" => pc[u] = "removed"
      BY <2>1, TinierAssumption DEF Going
  <2> QED
      BY <2>1, <2>2, <2>3, Answering
<1>15. ASSUME NEW t \in Stops, StopTask(t)
       PROVE  Rest'
  <2>1. Going(t, "stopped")
      BY <1>15, Went DEF StopTask
  <2> QED
      BY <1>15, <2>1, Still, TinierAssumption DEF StopTask, Going
<1> QED
    BY <1>1, <1>2, <1>3, <1>4, <1>5, <1>6, <1>7, <1>8, <1>9, <1>10, <1>11, <1>12, <1>13, <1>14, <1>15
       DEF Next, Prepare, Runner, Stop

LEMMA Initially ==
    ASSUME Init
    PROVE  Inv
<1>1. queue = <<>> /\ DOMAIN queue = {} /\ queue \in Seq(Requests)
    BY EmptySeq DEF Init
<1>2. TypeOK
    BY <1>1 DEF Init, TypeOK
<1>3. Ordered /\ Unanswered /\ ~ \E w : InQueue(w)
    BY <1>1 DEF Ordered, Unanswered, InQueue
<1>4. Unborn /\ TakenOut /\ JobKnown /\ Ranked
    BY <1>3, TinierAssumption DEF Init, Unborn, TakenOut, JobKnown, Ranked
<1> QED
    BY <1>2, <1>3, <1>4 DEF Inv

LEMMA Inductive == Spec => []Inv
<1>1. Inv /\ [Next]_vars => Inv'
    BY TypesKept, RestKept DEF Inv, Rest
<1> QED
    BY <1>1, Initially, PTL DEF Spec

-----------------------------------------------------------------------------
(* Theorems *)

(* Every value has its type, whatever the requests, the stops and the      *)
(* videos are.                                                             *)
THEOREM TypeCorrect == Spec => []TypeOK
<1>1. Inv => TypeOK
    BY DEF Inv
<1> QED
    BY <1>1, Inductive, PTL

(* The queue holds the works of replacing requests, the newest first, and  *)
(* then the others, no work twice, and none that has been answered, is     *)
(* being converted or has been stopped (find_or_queue, pop_task, stop).    *)
THEOREM QueueKeepsOrder == Spec => []QueueOrder
<1>1. Inv => QueueOrder
    BY DEF Inv, Ordered, Unanswered, QueueOrder
<1> QED
    BY <1>1, Inductive, PTL
================================================================================
