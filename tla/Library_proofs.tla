----------------------------- MODULE Library_proofs -----------------------------
(***************************************************************************)
(* Proofs about the library's watcher, polling and scanners: its types,    *)
(* that no change is forgotten, and what the watch status may say, for any *)
(* roots, paths, scanners, requests and scenarios.                         *)
(***************************************************************************)
EXTENDS Library, FiniteSetTheorems, TLAPS

\* No time that a file had, a row was made from or a sweep has seen comes again.
TimesPassed ==
    /\ \A p \in Paths : /\ files[p] < NextTime /\ rows[p] < NextTime
                        /\ poll.base[p] < NextTime /\ poll.sweep[p] < NextTime
    /\ \A s \in Scanners : \A p \in Paths : scans[s].seen[p] < NextTime
Elsewhere ==
    \A p \in Paths \ left.paths :
        files[p] = 0 /\ rows[p] = 0 /\ \A s \in Scanners : scans[s].seen[p] = 0

\* Every root is watched or polled, or the status says that some are not.
InSession ==
    /\ (outer.pc = "install") <=> (watch.pc = "off")
    /\ outer.pc = "install" => poll.pc = "off"
    /\ poll.pc = "off" => poll.roots = {} /\ poll.spare = {}
    /\ jobs["main"].step # "off" => watch.pc = "flush"
    /\ poll.pc = "swept" => /\ \A p \in poll.changed \cup poll.removed : RootOf[p] \in poll.touched
                            /\ poll.initial => poll.touched # {}
    /\ outer.pc # "install" => \/ Roots \subseteq watch.native \cup poll.spare \cup poll.roots
                               \/ status.mode = "unavailable" /\ poll.pc = "off"

-----------------------------------------------------------------------------
(* The status and its requests *)

Says(st) == /\ st.mode = "native" => st.recovering = {}
            /\ st.mode = "unavailable" => /\ st.polling = {} /\ st.recovering = {}
                                          /\ \A i \in Ids : st.pend[i] = {}
StatusSays == /\ Says(status)
              /\ outer.pc # "install" => status.polling = poll.roots
              /\ \A r \in status.recovering : \E i \in Ids : r \in status.pend[i]
Requested ==
    /\ \A c \in Callers : jobs[c].step = "off" \/ c # "poll" => jobs[c].id = None
    /\ \A s \in Scanners : scans[s].step = "off" => scans[s].id = None
    /\ \A i \in Ids : status.pend[i] # {} => Alive(i)

\* A root that was handed over waits for a request whose scan, if it still runs,
\* began after the watch was there, whatever else the root waits for.
Covers(scan, r) == scan.full /\ (scan.step = "new" \/ r \in scan.covers)
HandsOver(i, r) ==
    /\ r \in status.pend[i] /\ \A c \in Callers : jobs[c].id # i
    /\ \A s \in Scanners : scans[s].id = i => Covers(scans[s], r)
Owes == \A r \in ghost.owed : r \in status.recovering /\ \E i \in Ids : HandsOver(i, r)

-----------------------------------------------------------------------------
(* The scanners *)

Hold(scan) == scan.todo \cup scan.decoded \cup scan.gone
Shaped(scan) ==
    /\ scan.step # "work" => scan.todo = {} /\ scan.decoded = {}
    /\ scan.step # "delete" => scan.gone = {}
    /\ scan.step = "delete" => scan.full
    /\ scan.todo \cap scan.decoded = {}
    /\ scan.full \/ scan.todo \cup scan.decoded \subseteq scan.paths
Scanning == \A s \in Scanners : Shaped(scans[s])

\* A scanner that holds a file nobody else has dealt with found a row that differs.
OldView == \A s \in Scanners : \A p \in Hold(scans[s]) \ scans[s].touched :
               files[p] # 0 => rows[p] # files[p]

\* What is not lost, or about to be found again.
Tracked(p) == p \notin ghost.lost \/ \E s \in Scanners : p \in scans[s].repairs
\* Nothing is to be done for a path, and nobody is about to write an older view of it.
Quiet(p) ==
    /\ rows[p] = files[p]
    /\ \A s \in Scanners : p \in (scans[s].todo \cup scans[s].decoded) \ scans[s].touched
                           => scans[s].seen[p] = files[p]
Looked == \A p \in Paths : Tracked(p) => Quiet(p) \/ Awaited(p)

Inv == /\ TypeOK /\ TimesPassed /\ Elsewhere /\ InSession
       /\ StatusSays /\ Requested /\ Owes
       /\ Scanning /\ OldView /\ Looked

-----------------------------------------------------------------------------
(* What the operators on the scanners return *)

\* The same scan, but for who has touched its files and what it repairs.
SameScan(a, b) ==
    /\ a.step = b.step /\ a.full = b.full /\ a.paths = b.paths /\ a.seen = b.seen
    /\ a.todo = b.todo /\ a.decoded = b.decoded /\ a.gone = b.gone
    /\ a.covers = b.covers /\ a.id = b.id

\* The scan b, some of whose files T are touched, and which does not repair L.
Seen(a, b, T, L) == /\ SameScan(a, b) /\ a.touched = b.touched \cup (T \cap Hold(b))
                    /\ a.repairs = b.repairs \ L

LEMMA SeenTwice ==
    ASSUME NEW a, NEW b, NEW c, NEW T, NEW L, Seen(b, c, T, {}), Seen(a, b, {}, L)
    PROVE  Seen(a, c, T, L)
<1>1. SameScan(a, c)
    BY DEF Seen, SameScan
<1>2. a.touched = c.touched \cup (T \cap Hold(c)) /\ a.repairs = c.repairs \ L
    BY DEF Seen
<1> QED
    BY <1>1, <1>2 DEF Seen

LEMMA Forgetting ==
    ASSUME NEW sc \in [Scanners -> Scannings], NEW S
    PROVE  /\ Forgets(sc, S) \in [Scanners -> Scannings]
           /\ \A s \in Scanners : Seen(Forgets(sc, S)[s], sc[s], {}, S)
<1>1. ASSUME NEW s \in Scanners
      PROVE  Forgets(sc, S)[s] \in Scannings /\ Seen(Forgets(sc, S)[s], sc[s], {}, S)
  <2> DEFINE new == [sc[s] EXCEPT !.repairs = @ \ S]
  <2>1. Forgets(sc, S)[s] = new
      BY <1>1 DEF Forgets
  <2>2. sc[s] \in Scannings
      BY <1>1
  <2>3. new \in Scannings /\ SameScan(new, sc[s]) /\ new.touched = sc[s].touched
        /\ new.repairs = sc[s].repairs \ S
      BY <2>2 DEF Scannings, SameScan
  <2> HIDE DEF new
  <2> QED
      BY <2>1, <2>3 DEF Seen
<1>2. Forgets(sc, S) = [s \in Scanners |-> Forgets(sc, S)[s]]
    BY DEF Forgets
<1> QED
    BY <1>1, <1>2

LEMMA Touching ==
    ASSUME NEW sc \in [Scanners -> Scannings], NEW S, NEW others
    PROVE  /\ Touches(sc, S, others) \in [Scanners -> Scannings]
           /\ \A s \in Scanners : IF s \in others THEN Seen(Touches(sc, S, others)[s], sc[s], S, {})
                                 ELSE Touches(sc, S, others)[s] = sc[s]
<1>1. ASSUME NEW s \in Scanners
      PROVE  /\ Touches(sc, S, others)[s] \in Scannings
             /\ IF s \in others THEN Seen(Touches(sc, S, others)[s], sc[s], S, {})
                ELSE Touches(sc, S, others)[s] = sc[s]
  <2> DEFINE new == [sc[s] EXCEPT !.touched = @ \cup (S \cap Hold(sc[s]))]
  <2>1. Touches(sc, S, others)[s] = IF s \in others THEN new ELSE sc[s]
      BY <1>1 DEF Touches, Hold
  <2>2. sc[s] \in Scannings
      BY <1>1
  <2>3. new \in Scannings /\ SameScan(new, sc[s]) /\ new.repairs = sc[s].repairs
        /\ new.touched = sc[s].touched \cup (S \cap Hold(sc[s]))
      BY <2>2 DEF Scannings, SameScan, Hold
  <2> HIDE DEF new
  <2> QED
      BY <2>1, <2>2, <2>3 DEF Seen
<1>2. Touches(sc, S, others) = [s \in Scanners |-> Touches(sc, S, others)[s]]
    BY DEF Touches
<1> QED
    BY <1>1, <1>2

-----------------------------------------------------------------------------
(* What each action does to the scanners *)

\* Of all scanners but some, the files T are touched and L is not repaired.
OthersSee(some, T, L) == \A x \in Scanners \ some : Seen(scans'[x], scans[x], T, L)
Fresh1(scan) == /\ scan.todo = {} /\ scan.decoded = {} /\ scan.gone = {} /\ scan.touched = {}
                /\ scan.repairs = {} /\ scan.covers = {} /\ scan.seen = [p \in Paths |-> 0]

LEMMA NoScanFits == NoScan \in Scannings /\ Fresh1(NoScan) /\ NoScan.step = "off"
                    /\ NoScan.id = None /\ ~NoScan.full /\ NoScan.paths = {}
<1>1. [p \in Paths |-> 0] \in [Paths -> Times]
    BY TimesSuffice DEF Times
<1> QED
    BY <1>1 DEF NoScan, Scannings, MaybeId, Fresh1

LEMMA OneScan ==
    ASSUME scans \in [Scanners -> Scannings], NEW s \in Scanners, NEW new \in Scannings,
           scans' = [scans EXCEPT ![s] = new]
    PROVE  scans' \in [Scanners -> Scannings] /\ OthersSee({s}, {}, {}) /\ scans'[s] = new
<1>1. scans' \in [Scanners -> Scannings] /\ scans'[s] = new
    OBVIOUS
<1>2. ASSUME NEW x \in Scanners \ {s}
      PROVE  Seen(scans'[x], scans[x], {}, {})
  <2>1. scans'[x] = scans[x]
      BY <1>2
  <2> QED
      BY <2>1 DEF Seen, SameScan
<1> QED
    BY <1>1, <1>2 DEF OthersSee

\* A scanner that starts with these paths, or with everything.
Starts(full, paths, id) ==
    \E s \in Scanners :
        /\ scans[s].step = "off" /\ OthersSee({s}, {}, {})
        /\ scans'[s].step = "new" /\ scans'[s].full = full /\ scans'[s].paths = paths
        /\ scans'[s].id = id /\ Fresh1(scans'[s])

LEMMA Spawning ==
    ASSUME scans \in [Scanners -> Scannings], NEW full \in BOOLEAN, NEW paths \in SUBSET Paths,
           NEW id \in MaybeId, Spawn(full, paths, id)
    PROVE  scans' \in [Scanners -> Scannings] /\ Starts(full, paths, id)
<1> DEFINE new == NewScan(full, paths, id)
<1>1. /\ new \in Scannings /\ new.step = "new" /\ new.full = full /\ new.paths = paths
      /\ new.id = id /\ Fresh1(new)
    BY NoScanFits DEF NewScan, Scannings, Fresh1
<1>2. PICK s \in Scanners : scans[s].step = "off" /\ scans' = [scans EXCEPT ![s] = new]
    BY DEF Spawn
<1> HIDE DEF new
<1>3. scans' \in [Scanners -> Scannings] /\ OthersSee({s}, {}, {}) /\ scans'[s] = new
    BY <1>1, <1>2, OneScan
<1> QED
    BY <1>1, <1>2, <1>3 DEF Starts

LEMMA Walking ==
    ASSUME TypeOK, NEW s \in Scanners, Walk(s)
    PROVE  /\ scans' \in [Scanners -> Scannings] /\ OthersSee({s}, {}, {})
           /\ scans[s].step = "new" /\ scans'[s].step = "work"
           /\ \A p \in Paths :
                /\ p \in scans'[s].todo <=>
                      /\ IF scans[s].full THEN files[p] # 0 ELSE p \in scans[s].paths
                      /\ rows[p] # files[p]
                /\ scans'[s].seen[p] = IF p \in scans'[s].todo THEN files[p] ELSE 0
           /\ scans'[s].full = scans[s].full /\ scans'[s].paths = scans[s].paths
           /\ scans'[s].decoded = scans[s].decoded /\ scans'[s].gone = scans[s].gone
           /\ scans'[s].touched = scans[s].touched /\ scans'[s].id = scans[s].id
           /\ scans'[s].repairs = IF scans[s].full THEN ghost.lost ELSE {}
           /\ scans'[s].covers = IF scans[s].full THEN ghost.owed ELSE {}
<1> DEFINE look == IF scans[s].full THEN {p \in Paths : files[p] # 0} ELSE scans[s].paths
           todo == {p \in look : rows[p] # files[p]}
           seen == [p \in Paths |-> IF p \in todo THEN files[p] ELSE 0]
           repairs == IF scans[s].full THEN ghost.lost ELSE {}
           covers == IF scans[s].full THEN ghost.owed ELSE {}
           new == [scans[s] EXCEPT !.step = "work", !.todo = todo, !.seen = seen,
                                   !.repairs = repairs, !.covers = covers]
<1>1. scans[s] \in Scannings
    BY DEF TypeOK
<1>2. todo \in SUBSET Paths
    BY <1>1 DEF Scannings
<1>3. seen \in [Paths -> Times]
    BY TimesSuffice DEF TypeOK, Times
<1>4. repairs \in SUBSET Paths /\ covers \in SUBSET Roots
    BY DEF TypeOK
<1>5. scans' = [scans EXCEPT ![s] = new] /\ scans[s].step = "new"
    BY <1>1 DEF Walk, TypeOK
<1>6. \A p \in Paths : /\ p \in todo <=> /\ IF scans[s].full THEN files[p] # 0 ELSE p \in scans[s].paths
                                         /\ rows[p] # files[p]
                       /\ seen[p] = IF p \in todo THEN files[p] ELSE 0
    OBVIOUS
<1> HIDE DEF todo, seen, repairs, covers
<1>7. /\ new \in Scannings /\ new.step = "work" /\ new.todo = todo /\ new.seen = seen
      /\ new.repairs = repairs /\ new.covers = covers /\ new.full = scans[s].full
      /\ new.paths = scans[s].paths /\ new.decoded = scans[s].decoded
      /\ new.gone = scans[s].gone /\ new.touched = scans[s].touched /\ new.id = scans[s].id
    BY <1>1, <1>2, <1>3, <1>4 DEF Scannings
<1> HIDE DEF new
<1>8. scans' \in [Scanners -> Scannings] /\ OthersSee({s}, {}, {}) /\ scans'[s] = new
    BY <1>5, <1>7, OneScan DEF TypeOK
<1> QED
    BY <1>5, <1>6, <1>7, <1>8 DEF repairs, covers

\* Nobody in particular: some files are touched, some are given up.
LEMMA AllSee ==
    ASSUME scans \in [Scanners -> Scannings], NEW L, scans' = Forgets(scans, L)
    PROVE  scans' \in [Scanners -> Scannings] /\ OthersSee({}, {}, L)
BY Forgetting DEF OthersSee

LEMMA AllTouched ==
    ASSUME scans \in [Scanners -> Scannings], NEW T, NEW L,
           scans' = Forgets(Touches(scans, T, Scanners), L)
    PROVE  scans' \in [Scanners -> Scannings] /\ OthersSee({}, T, L)
<1> DEFINE mid == Touches(scans, T, Scanners)
<1>1. mid \in [Scanners -> Scannings] /\ \A s \in Scanners : Seen(mid[s], scans[s], T, {})
    BY Touching
<1>2. scans' = Forgets(mid, L)
    OBVIOUS
<1> HIDE DEF mid
<1>3. scans' \in [Scanners -> Scannings] /\ \A s \in Scanners : Seen(scans'[s], mid[s], {}, L)
    BY <1>1, <1>2, Forgetting
<1> QED
    BY <1>1, <1>3, SeenTwice DEF OthersSee

\* One scanner goes on, L is given up.
LEMMA OneGivesUp ==
    ASSUME scans \in [Scanners -> Scannings], NEW s \in Scanners, NEW new \in Scannings, NEW L,
           scans' = Forgets([scans EXCEPT ![s] = new], L)
    PROVE  /\ scans' \in [Scanners -> Scannings] /\ OthersSee({s}, {}, L)
           /\ Seen(scans'[s], new, {}, L)
<1> DEFINE mid == [scans EXCEPT ![s] = new]
<1>1. mid \in [Scanners -> Scannings] /\ mid[s] = new
      /\ \A x \in Scanners \ {s} : mid[x] = scans[x]
    OBVIOUS
<1>2. scans' = Forgets(mid, L)
    OBVIOUS
<1> HIDE DEF mid
<1>3. scans' \in [Scanners -> Scannings] /\ \A x \in Scanners : Seen(scans'[x], mid[x], {}, L)
    BY <1>1, <1>2, Forgetting
<1> QED
    BY <1>1, <1>3 DEF OthersSee

\* One scanner goes on and touches T, which the others hold.
LEMMA OneTouches ==
    ASSUME scans \in [Scanners -> Scannings], NEW s \in Scanners, NEW new \in Scannings, NEW T,
           scans' = Touches([scans EXCEPT ![s] = new], T, Scanners \ {s})
    PROVE  scans' \in [Scanners -> Scannings] /\ OthersSee({s}, T, {}) /\ scans'[s] = new
<1> DEFINE mid == [scans EXCEPT ![s] = new]
<1>1. mid \in [Scanners -> Scannings] /\ mid[s] = new
      /\ \A x \in Scanners \ {s} : mid[x] = scans[x]
    OBVIOUS
<1> DEFINE others == Scanners \ {s}
           went == Touches(mid, T, others)
<1>2. scans' = went
    OBVIOUS
<1>4. \A x \in Scanners : x \in others <=> x # s
    OBVIOUS
<1> HIDE DEF mid, others
<1>3. /\ went \in [Scanners -> Scannings]
      /\ \A x \in Scanners : IF x \in others THEN Seen(went[x], mid[x], T, {})
                            ELSE went[x] = mid[x]
    BY <1>1, Touching
<1> HIDE DEF went
<1> QED
    BY <1>1, <1>2, <1>3, <1>4 DEF OthersSee

LEMMA OneWrites ==
    ASSUME scans \in [Scanners -> Scannings], NEW s \in Scanners, NEW new \in Scannings,
           NEW T, NEW L,
           scans' = Forgets(Touches([scans EXCEPT ![s] = new], T, Scanners \ {s}), L)
    PROVE  /\ scans' \in [Scanners -> Scannings] /\ OthersSee({s}, T, L)
           /\ Seen(scans'[s], new, {}, L)
<1> DEFINE one == [scans EXCEPT ![s] = new]
           mid == Touches(one, T, Scanners \ {s})
<1>1. one \in [Scanners -> Scannings] /\ one[s] = new
      /\ \A x \in Scanners \ {s} : one[x] = scans[x]
    OBVIOUS
<1>2. scans' = Forgets(mid, L)
    OBVIOUS
<1> HIDE DEF one
<1>3. /\ mid \in [Scanners -> Scannings]
      /\ \A x \in Scanners : IF x \in Scanners \ {s} THEN Seen(mid[x], one[x], T, {})
                            ELSE mid[x] = one[x]
    BY <1>1, Touching
<1> HIDE DEF mid
<1>4. scans' \in [Scanners -> Scannings] /\ \A x \in Scanners : Seen(scans'[x], mid[x], {}, L)
    BY <1>2, <1>3, Forgetting
<1>5. ASSUME NEW x \in Scanners \ {s}
      PROVE  Seen(scans'[x], scans[x], T, L)
    BY <1>1, <1>3, <1>4, SeenTwice
<1> QED
    BY <1>1, <1>3, <1>4, <1>5 DEF OthersSee

LEMMA Decoding ==
    ASSUME TypeOK, NEW s \in Scanners, NEW p \in Paths, Decode(s, p)
    PROVE  /\ scans' \in [Scanners -> Scannings] /\ OthersSee({s}, {}, {})
           /\ scans[s].step = "work" /\ p \in scans[s].todo
           /\ scans'[s].todo = scans[s].todo \ {p}
           /\ scans'[s].decoded = IF files[p] # 0 THEN scans[s].decoded \cup {p}
                                  ELSE scans[s].decoded
           /\ scans'[s].step = "work" /\ scans'[s].full = scans[s].full
           /\ scans'[s].paths = scans[s].paths /\ scans'[s].seen = scans[s].seen
           /\ scans'[s].gone = scans[s].gone /\ scans'[s].touched = scans[s].touched
           /\ scans'[s].repairs = scans[s].repairs /\ scans'[s].covers = scans[s].covers
           /\ scans'[s].id = scans[s].id
<1> DEFINE new == [scans[s] EXCEPT !.todo = @ \ {p},
                                   !.decoded = IF files[p] # 0 THEN @ \cup {p} ELSE @]
<1>1. scans[s] \in Scannings
    BY DEF TypeOK
<1>2. scans' = [scans EXCEPT ![s] = new] /\ scans[s].step = "work" /\ p \in scans[s].todo
    BY DEF Decode
<1>3. /\ new \in Scannings /\ new.todo = scans[s].todo \ {p}
      /\ new.decoded = (IF files[p] # 0 THEN scans[s].decoded \cup {p} ELSE scans[s].decoded)
      /\ new.step = scans[s].step /\ new.full = scans[s].full /\ new.paths = scans[s].paths
      /\ new.seen = scans[s].seen /\ new.gone = scans[s].gone /\ new.touched = scans[s].touched
      /\ new.repairs = scans[s].repairs /\ new.covers = scans[s].covers /\ new.id = scans[s].id
    BY <1>1 DEF Scannings
<1> HIDE DEF new
<1>4. scans' \in [Scanners -> Scannings] /\ OthersSee({s}, {}, {}) /\ scans'[s] = new
    BY <1>2, <1>3, OneScan DEF TypeOK
<1> QED
    BY <1>2, <1>3, <1>4

\* What an upsert does, and whether the path is lost.
Stores(s, p, ok, lost) ==
    /\ scans' \in [Scanners -> Scannings] /\ OthersSee({s}, IF ok THEN {p} ELSE {}, lost)
    /\ p \in lost <=> ~ok \/ (p \in scans[s].touched /\ scans[s].seen[p] # files[p])
    /\ ghost' = [ghost EXCEPT !.lost = @ \cup lost]
    /\ scans[s].step = "work" /\ p \in scans[s].decoded
    /\ scans'[s].decoded = scans[s].decoded \ {p}
    /\ scans'[s].seen = [scans[s].seen EXCEPT ![p] = 0]
    /\ scans'[s].touched = scans[s].touched \ {p}
    /\ scans'[s].repairs = scans[s].repairs \ lost
    /\ scans'[s].step = "work" /\ scans'[s].full = scans[s].full
    /\ scans'[s].paths = scans[s].paths /\ scans'[s].todo = scans[s].todo
    /\ scans'[s].gone = scans[s].gone /\ scans'[s].covers = scans[s].covers
    /\ scans'[s].id = scans[s].id
    /\ rows' = IF ok THEN [rows EXCEPT ![p] = scans[s].seen[p]] ELSE rows

LEMMA Upserting ==
    ASSUME TypeOK, NEW s \in Scanners, NEW p \in Paths, NEW ok \in BOOLEAN, Upsert(s, p, ok)
    PROVE  \E lost \in SUBSET {p} : Stores(s, p, ok, lost)
<1> DEFINE lost == {q \in {p} : ~ok \/ (p \in scans[s].touched /\ scans[s].seen[p] # files[p])}
           seen == [scans[s].seen EXCEPT ![p] = 0]
           new == [scans[s] EXCEPT !.decoded = @ \ {p}, !.seen = seen, !.touched = @ \ {p}]
           after == [scans EXCEPT ![s] = new]
<1>1. scans[s] \in Scannings
    BY DEF TypeOK
<1>2. seen \in [Paths -> Times]
    BY <1>1, TimesSuffice DEF Scannings, Times
<1>3. /\ scans' = Forgets(IF ok THEN Touches(after, {p}, Scanners \ {s}) ELSE after, lost)
      /\ scans[s].step = "work" /\ p \in scans[s].decoded
      /\ ghost' = [ghost EXCEPT !.lost = @ \cup lost]
      /\ rows' = IF ok THEN [rows EXCEPT ![p] = scans[s].seen[p]] ELSE rows
    BY DEF Upsert
<1>4. lost \in SUBSET {p}
      /\ (p \in lost <=> ~ok \/ (p \in scans[s].touched /\ scans[s].seen[p] # files[p]))
    OBVIOUS
<1> HIDE DEF lost, seen
<1>5. /\ new \in Scannings /\ new.decoded = scans[s].decoded \ {p} /\ new.seen = seen
      /\ new.touched = scans[s].touched \ {p} /\ new.repairs = scans[s].repairs
      /\ new.step = scans[s].step /\ new.full = scans[s].full /\ new.paths = scans[s].paths
      /\ new.todo = scans[s].todo /\ new.gone = scans[s].gone /\ new.covers = scans[s].covers
      /\ new.id = scans[s].id
    BY <1>1, <1>2 DEF Scannings
<1> HIDE DEF new
<1>6. /\ scans' \in [Scanners -> Scannings] /\ OthersSee({s}, IF ok THEN {p} ELSE {}, lost)
      /\ Seen(scans'[s], new, {}, lost)
  <2>1. CASE ok
      BY <2>1, <1>3, <1>5, OneWrites DEF TypeOK
  <2>2. CASE ~ok
      BY <2>2, <1>3, <1>5, OneGivesUp DEF TypeOK
  <2> QED
      BY <2>1, <2>2
<1> QED
    BY <1>3, <1>4, <1>5, <1>6 DEF Seen, SameScan, seen, Stores

\* What prune finds without a file, and what of it has a row.
AbsentTo(s) == {p \in Paths : scans[s].full /\ files[p] = 0}
GoneTo(s) == {p \in AbsentTo(s) : rows[p] # 0}

LEMMA PruneLooking ==
    ASSUME TypeOK, NEW s \in Scanners, PruneLook(s)
    PROVE  /\ scans' \in [Scanners -> Scannings] /\ OthersSee({s}, AbsentTo(s) \ GoneTo(s), {})
           /\ Worked(scans[s])
           /\ scans'[s].step = (IF GoneTo(s) # {} THEN "delete" ELSE "report")
           /\ scans'[s].gone = GoneTo(s) /\ scans'[s].touched = {}
           /\ scans'[s].full = scans[s].full /\ scans'[s].seen = scans[s].seen
           /\ scans'[s].todo = scans[s].todo /\ scans'[s].decoded = scans[s].decoded
           /\ scans'[s].repairs = scans[s].repairs /\ scans'[s].covers = scans[s].covers
           /\ scans'[s].id = scans[s].id
<1> DEFINE absent == AbsentTo(s)
           gone == GoneTo(s)
           step == IF gone # {} THEN "delete" ELSE "report"
           new == [scans[s] EXCEPT !.step = step, !.gone = gone, !.paths = {}, !.touched = {}]
<1>1. scans[s] \in Scannings
    BY DEF TypeOK
<1>2. scans' = Touches([scans EXCEPT ![s] = new], absent \ gone, Scanners \ {s})
      /\ Worked(scans[s])
    BY DEF PruneLook, AbsentTo, GoneTo
<1>3. absent \in SUBSET Paths /\ gone \in SUBSET Paths /\ step \in {"delete", "report"}
    BY DEF AbsentTo, GoneTo
<1>4. step = IF gone # {} THEN "delete" ELSE "report"
    OBVIOUS
<1> HIDE DEF absent, gone, step
<1>5. /\ new \in Scannings /\ new.step = step /\ new.gone = gone /\ new.touched = {}
      /\ new.full = scans[s].full /\ new.seen = scans[s].seen
      /\ new.todo = scans[s].todo /\ new.decoded = scans[s].decoded
      /\ new.repairs = scans[s].repairs /\ new.covers = scans[s].covers /\ new.id = scans[s].id
    BY <1>1, <1>3 DEF Scannings
<1> HIDE DEF new
<1>6. scans' \in [Scanners -> Scannings] /\ OthersSee({s}, absent \ gone, {}) /\ scans'[s] = new
    BY <1>2, <1>5, OneTouches DEF TypeOK
<1> QED
    BY <1>2, <1>4, <1>5, <1>6 DEF absent, gone

\* What the deletion of rows does, and which paths are lost.
Deletes(s, ok, lost) ==
    /\ scans' \in [Scanners -> Scannings]
    /\ OthersSee({s}, IF ok THEN scans[s].gone ELSE {}, lost)
    /\ \A p \in Paths : p \in lost <=> /\ p \in scans[s].gone
                                       /\ ~ok \/ (p \in scans[s].touched /\ files[p] # 0)
    /\ ghost' = [ghost EXCEPT !.lost = @ \cup lost]
    /\ scans[s].step = "delete" /\ scans'[s].step = "report"
    /\ scans'[s].gone = {} /\ scans'[s].touched = {}
    /\ scans'[s].full = scans[s].full /\ scans'[s].paths = scans[s].paths
    /\ scans'[s].seen = scans[s].seen
    /\ scans'[s].todo = scans[s].todo /\ scans'[s].decoded = scans[s].decoded
    /\ scans'[s].repairs = scans[s].repairs \ lost /\ scans'[s].covers = scans[s].covers
    /\ scans'[s].id = scans[s].id
    /\ rows' = IF ok THEN [p \in Paths |-> IF p \in scans[s].gone THEN 0 ELSE rows[p]] ELSE rows

LEMMA PruneDeleting ==
    ASSUME TypeOK, NEW s \in Scanners, NEW ok \in BOOLEAN, PruneDelete(s, ok)
    PROVE  \E lost \in SUBSET Paths : Deletes(s, ok, lost)
<1> DEFINE lost == {p \in scans[s].gone : ~ok \/ (p \in scans[s].touched /\ files[p] # 0)}
           new == [scans[s] EXCEPT !.step = "report", !.gone = {}, !.touched = {}]
           after == [scans EXCEPT ![s] = new]
<1>1. scans[s] \in Scannings
    BY DEF TypeOK
<1>2. /\ scans' = Forgets(IF ok THEN Touches(after, scans[s].gone, Scanners \ {s}) ELSE after, lost)
      /\ scans[s].step = "delete" /\ ghost' = [ghost EXCEPT !.lost = @ \cup lost]
      /\ rows' = IF ok THEN [p \in Paths |-> IF p \in scans[s].gone THEN 0 ELSE rows[p]] ELSE rows
    BY DEF PruneDelete
<1>3. /\ lost \in SUBSET Paths
      /\ \A p \in Paths : p \in lost <=> /\ p \in scans[s].gone
                                         /\ ~ok \/ (p \in scans[s].touched /\ files[p] # 0)
    BY <1>1 DEF Scannings
<1> HIDE DEF lost
<1>4. /\ new \in Scannings /\ new.step = "report" /\ new.gone = {} /\ new.touched = {}
      /\ new.full = scans[s].full /\ new.seen = scans[s].seen /\ new.paths = scans[s].paths
      /\ new.todo = scans[s].todo /\ new.decoded = scans[s].decoded
      /\ new.repairs = scans[s].repairs /\ new.covers = scans[s].covers /\ new.id = scans[s].id
    BY <1>1 DEF Scannings
<1> HIDE DEF new
<1>5. /\ scans' \in [Scanners -> Scannings]
      /\ OthersSee({s}, IF ok THEN scans[s].gone ELSE {}, lost) /\ Seen(scans'[s], new, {}, lost)
  <2>1. CASE ok
      BY <2>1, <1>2, <1>4, OneWrites DEF TypeOK
  <2>2. CASE ~ok
      BY <2>2, <1>2, <1>4, OneGivesUp DEF TypeOK
  <2> QED
      BY <2>1, <2>2
<1> USE <1>3
<1> WITNESS lost \in SUBSET Paths
<1> QED
    BY <1>2, <1>4, <1>5 DEF Seen, SameScan, Deletes

LEMMA Reporting ==
    ASSUME TypeOK, NEW s \in Scanners, ScanDone(s)
    PROVE  scans' \in [Scanners -> Scannings] /\ OthersSee({s}, {}, {}) /\ scans'[s] = NoScan
BY OneScan, NoScanFits DEF ScanDone, TypeOK

\* What is given up when a scanner dies.
DiesWith(s) == IF scans[s].step = "report" THEN {}
               ELSE IF scans[s].full THEN Paths ELSE scans[s].paths

LEMMA Dying ==
    ASSUME TypeOK, NEW s \in Scanners, Die(s)
    PROVE  /\ scans' \in [Scanners -> Scannings] /\ OthersSee({s}, {}, DiesWith(s))
           /\ DiesWith(s) \in SUBSET Paths
           /\ SameScan(scans'[s], NoScan) /\ scans'[s].touched = {} /\ scans'[s].repairs = {}
           /\ scans[s].step # "off"
<1> DEFINE lost == CASE scans[s].step = "report" -> {}
                     [] scans[s].step # "report" /\ scans[s].full -> Paths
                     [] OTHER -> scans[s].paths
<1>1. scans[s] \in Scannings
    BY DEF TypeOK
<1>2. lost \in SUBSET Paths
      /\ lost = DiesWith(s)
  <2>1. scans[s].paths \in SUBSET Paths /\ scans[s].full \in BOOLEAN
      BY <1>1 DEF Scannings
  <2> QED
      BY <2>1 DEF DiesWith
<1>3. /\ scans' = Forgets([scans EXCEPT ![s] = NoScan], lost)
      /\ scans[s].step # "off"
    BY DEF Die
<1> HIDE DEF lost
<1>4. scans' \in [Scanners -> Scannings] /\ OthersSee({s}, {}, lost) /\ Seen(scans'[s], NoScan, {}, lost)
    BY <1>3, NoScanFits, OneGivesUp DEF TypeOK
<1> QED
    BY <1>2, <1>3, <1>4, NoScanFits DEF Seen, Fresh1

\* What the removal of a row does to the scanners, and whether the path is lost.
Removes(p, ok, lost) ==
    /\ scans' \in [Scanners -> Scannings] /\ OthersSee({}, IF ok THEN {p} ELSE {}, lost)
    /\ p \in lost <=> ok /\ files[p] # 0 /\ rows[p] = files[p]
    /\ ghost' = [ghost EXCEPT !.lost = @ \cup lost]

LEMMA Removing ==
    ASSUME TypeOK, NEW c \in Callers, NEW p \in Paths, NEW ok \in BOOLEAN, HandleRemove(c, p, ok)
    PROVE  \E lost \in SUBSET {p} : Removes(p, ok, lost)
<1> DEFINE lost == {q \in {p} : ok /\ files[p] # 0 /\ rows[p] = files[p]}
<1>1. scans' = (IF ok THEN Forgets(Touches(scans, {p}, Scanners), lost) ELSE scans)
      /\ ghost' = [ghost EXCEPT !.lost = @ \cup lost]
    BY DEF HandleRemove
<1>2. lost \in SUBSET {p} /\ (p \in lost <=> ok /\ files[p] # 0 /\ rows[p] = files[p])
    OBVIOUS
<1>3. ok \/ lost = {}
    OBVIOUS
<1> HIDE DEF lost
<1>4. scans' \in [Scanners -> Scannings] /\ OthersSee({}, IF ok THEN {p} ELSE {}, lost)
  <2>1. CASE ok
      BY <2>1, <1>1, AllTouched DEF TypeOK
  <2>2. CASE ~ok
    <3>1. scans' = scans /\ lost = {}
        BY <2>2, <1>1, <1>3
    <3> QED
        BY <3>1, <2>2 DEF TypeOK, OthersSee, Seen, SameScan
  <2> QED
      BY <2>1, <2>2
<1> QED
    BY <1>1, <1>2, <1>4 DEF Removes

-----------------------------------------------------------------------------
(* Limits, batches and flushes *)

LEMMA UseAct ==
    ASSUME left \in Limits, Use("acts")
    PROVE  /\ left' \in Limits /\ left'.cap = left.cap /\ left'.paths = left.paths
           /\ left'.acts = left.acts - 1 /\ left.acts > 0
<1>1. left.acts > 0 /\ left' = [left EXCEPT !.acts = left.acts - 1]
    BY DEF Use, Limits
<1>2. left \in [acts : Nat, outages : Nat, troubles : Nat, cap : Nat, paths : SUBSET Paths]
      /\ left.acts + 2 <= LastTime
    BY DEF Limits
<1>3. left.acts - 1 \in Nat /\ (left.acts - 1) + 2 <= LastTime
    BY <1>1, <1>2, TimesSuffice
<1>4. /\ left' \in [acts : Nat, outages : Nat, troubles : Nat, cap : Nat, paths : SUBSET Paths]
      /\ left'.cap = left.cap /\ left'.paths = left.paths /\ left'.acts = left.acts - 1
    BY <1>1, <1>2, <1>3
<1> QED
    BY <1>1, <1>3, <1>4 DEF Limits
LEMMA UseTrouble ==
    ASSUME left \in Limits, Use("troubles")
    PROVE  /\ left' \in Limits /\ left'.cap = left.cap /\ left'.paths = left.paths
           /\ left'.acts = left.acts
<1>1. left.troubles > 0 /\ left' = [left EXCEPT !.troubles = left.troubles - 1]
    BY DEF Use, Limits
<1>2. left \in [acts : Nat, outages : Nat, troubles : Nat, cap : Nat, paths : SUBSET Paths]
      /\ left.acts + 2 <= LastTime
    BY DEF Limits
<1>3. left.troubles - 1 \in Nat
    BY <1>1, <1>2
<1>4. left' \in [acts : Nat, outages : Nat, troubles : Nat, cap : Nat, paths : SUBSET Paths]
    BY <1>1, <1>2, <1>3
<1> QED
    BY <1>1, <1>2, <1>4 DEF Limits
LEMMA OutcomeTyped ==
    ASSUME left \in Limits, NEW ok \in BOOLEAN, Outcome(ok)
    PROVE  /\ left' \in Limits /\ left'.cap = left.cap /\ left'.paths = left.paths
           /\ left'.acts = left.acts
BY UseTrouble DEF Outcome

LEMMA Pushing ==
    ASSUME left \in Limits, NEW batch \in SUBSET Paths, Cardinality(batch) <= left.cap, NEW p \in Paths
    PROVE  /\ Push(batch, p) \in SUBSET Paths /\ Cardinality(Push(batch, p)) <= left.cap
           /\ batch \subseteq Push(batch, p) /\ (p \in Push(batch, p) \/ Dropped(batch, p))
<1>1. IsFiniteSet(batch)
    BY Places, FS_Subset
<1>2. Cardinality(batch) \in Nat /\ left.cap \in Nat
    BY <1>1, FS_CardinalityType DEF Limits
<1>3. p \notin batch => Cardinality(batch \cup {p}) = Cardinality(batch) + 1
    BY <1>1, FS_AddElement
<1> QED
    BY <1>2, <1>3 DEF Push, Dropped

LEMMA EventKinds ==
    ASSUME NEW e \in Events
    PROVE  \/ e = <<"config">> /\ e[1] = "config"
           \/ e[1] \in {"changed", "removed"} /\ e[2] \in Paths /\ e = <<e[1], e[2]>>
BY DEF Events

LEMMA Absorbing ==
    ASSUME TypeOK, NEW e \in watch.events
    PROVE  /\ Absorb(watch, e) \in Watches
           /\ Absorb(watch, e).pc = watch.pc /\ Absorb(watch, e).native = watch.native
           /\ Absorb(watch, e).events = watch.events \ {e}
           /\ watch.pending \subseteq Absorb(watch, e).pending
           /\ watch.removed \subseteq Absorb(watch, e).removed
           /\ Cardinality(Absorb(watch, e).pending) <= left.cap
           /\ Cardinality(Absorb(watch, e).removed) <= left.cap
           /\ DroppedBy(watch, e) \in SUBSET Paths
           /\ \A p \in Paths : /\ e = <<"changed", p>> =>
                                     p \in Absorb(watch, e).pending \cup DroppedBy(watch, e)
                               /\ e = <<"removed", p>> =>
                                     p \in Absorb(watch, e).removed \cup DroppedBy(watch, e)
<1> DEFINE w == Absorb(watch, e)
           rest == [watch EXCEPT !.events = @ \ {e}]
<1>1. /\ watch \in Watches /\ left \in Limits /\ Cardinality(watch.pending) <= left.cap
      /\ Cardinality(watch.removed) <= left.cap
    BY DEF TypeOK
<1>2. /\ rest \in Watches /\ rest.pc = watch.pc /\ rest.native = watch.native
      /\ rest.events = watch.events \ {e} /\ rest.pending = watch.pending
      /\ rest.removed = watch.removed
    BY <1>1 DEF Watches
<1>3. e \in Events /\ watch.pending \in SUBSET Paths /\ watch.removed \in SUBSET Paths
    BY <1>1 DEF Watches
<1>4. CASE e[1] = "changed"
  <2>1. e[2] \in Paths /\ e = <<"changed", e[2]>>
      BY <1>3, <1>4, EventKinds
  <2> DEFINE batch == Push(watch.pending, e[2])
  <2>2. /\ batch \in SUBSET Paths /\ Cardinality(batch) <= left.cap /\ watch.pending \subseteq batch
        /\ (e[2] \in batch \/ Dropped(watch.pending, e[2]))
      BY <1>1, <1>3, <2>1, Pushing
  <2>3. w = [rest EXCEPT !.pending = batch]
      BY <1>2, <1>4 DEF Absorb
  <2>4. DroppedBy(watch, e) = {p \in {e[2]} : Dropped(watch.pending, p)}
      BY <1>4 DEF DroppedBy
  <2>5. \A p \in Paths : (e = <<"changed", p>> => p = e[2]) /\ e # <<"removed", p>>
      BY <2>1
  <2> HIDE DEF w, rest, batch
  <2>6. /\ w \in Watches /\ w.pc = rest.pc /\ w.native = rest.native /\ w.events = rest.events
        /\ w.pending = batch /\ w.removed = rest.removed
      BY <1>2, <2>2, <2>3 DEF Watches
  <2>7. DroppedBy(watch, e) \in SUBSET Paths
        /\ (e[2] \in batch \/ e[2] \in DroppedBy(watch, e))
      BY <2>1, <2>2, <2>4
  <2>8. \A p \in Paths : /\ e = <<"changed", p>> => p \in w.pending \cup DroppedBy(watch, e)
                         /\ e = <<"removed", p>> => p \in w.removed \cup DroppedBy(watch, e)
      BY <2>5, <2>6, <2>7
  <2> QED
      BY <1>1, <1>2, <2>2, <2>6, <2>7, <2>8 DEF w
<1>5. CASE e[1] = "removed"
  <2>1. e[2] \in Paths /\ e = <<"removed", e[2]>>
      BY <1>3, <1>5, EventKinds
  <2> DEFINE batch == Push(watch.removed, e[2])
  <2>2. /\ batch \in SUBSET Paths /\ Cardinality(batch) <= left.cap /\ watch.removed \subseteq batch
        /\ (e[2] \in batch \/ Dropped(watch.removed, e[2]))
      BY <1>1, <1>3, <2>1, Pushing
  <2>3. w = [rest EXCEPT !.removed = batch]
      BY <1>2, <1>5 DEF Absorb
  <2>4. DroppedBy(watch, e) = {p \in {e[2]} : Dropped(watch.removed, p)}
      BY <1>5 DEF DroppedBy
  <2>5. \A p \in Paths : (e = <<"removed", p>> => p = e[2]) /\ e # <<"changed", p>>
      BY <2>1
  <2> HIDE DEF w, rest, batch
  <2>6. /\ w \in Watches /\ w.pc = rest.pc /\ w.native = rest.native /\ w.events = rest.events
        /\ w.removed = batch /\ w.pending = rest.pending
      BY <1>2, <2>2, <2>3 DEF Watches
  <2>7. DroppedBy(watch, e) \in SUBSET Paths
        /\ (e[2] \in batch \/ e[2] \in DroppedBy(watch, e))
      BY <2>1, <2>2, <2>4
  <2>8. \A p \in Paths : /\ e = <<"changed", p>> => p \in w.pending \cup DroppedBy(watch, e)
                         /\ e = <<"removed", p>> => p \in w.removed \cup DroppedBy(watch, e)
      BY <2>5, <2>6, <2>7
  <2> QED
      BY <1>1, <1>2, <2>2, <2>6, <2>7, <2>8 DEF w
<1>6. CASE e = <<"config">>
  <2>1. w = rest /\ DroppedBy(watch, e) = {}
      BY <1>6 DEF Absorb, DroppedBy
  <2>2. \A p \in Paths : e # <<"changed", p>> /\ e # <<"removed", p>>
      BY <1>6
  <2> HIDE DEF w, rest
  <2> QED
      BY <1>1, <1>2, <2>1, <2>2 DEF w
<1> QED
    BY <1>3, <1>4, <1>5, <1>6, EventKinds

LEMMA Flushed ==
    ASSUME jobs \in [Callers -> Flushes], NEW c \in Callers, NEW job \in Flushes,
           jobs' = [jobs EXCEPT ![c] = job]
    PROVE  /\ jobs' \in [Callers -> Flushes] /\ jobs'[c] = job
           /\ \A d \in Callers \ {c} : jobs'[d] = jobs[d]
OBVIOUS

LEMMA NoJobFits == NoJob \in Flushes /\ NoJob.step = "off" /\ NoJob.id = None
                   /\ NoJob.changed = {} /\ NoJob.gone = {}
BY DEF NoJob, Flushes, MaybeId

\* What a batch that is through, or not, does with the watch, the rows and the flushes.
LEMMA Aftermath ==
    ASSUME TypeOK, NEW w \in Watches, NEW flush \in BOOLEAN, w.pc = "loop", After(w, flush),
           Cardinality(w.pending) <= left.cap, Cardinality(w.removed) <= left.cap
    PROVE  /\ watch' \in Watches /\ jobs' \in [Callers -> Flushes]
           /\ rows' \in [Paths -> Times \cup {Invalid}]
           /\ watch'.native = w.native /\ watch'.events = w.events
           /\ Cardinality(watch'.pending) <= left.cap /\ Cardinality(watch'.removed) <= left.cap
           /\ \A d \in Callers \ {"main"} : jobs'[d] = jobs[d]
           /\ \/ /\ watch'.pc = "done" /\ jobs' = jobs
                 /\ rows' = rows \/ \A p \in Paths : rows'[p] = IF rows[p] = 0 THEN 0 ELSE Invalid
              \/ /\ watch'.pc = "flush" /\ rows' = rows
                 /\ jobs'["main"].step = "plan" /\ jobs'["main"].changed = w.pending
                 /\ jobs'["main"].gone = w.removed /\ jobs'["main"].id = None
              \/ watch' = w /\ rows' = rows /\ jobs' = jobs
<1>1. CASE Return(w)
  <2>1. watch' = [w EXCEPT !.pc = "done"] /\ jobs' = jobs
      BY <1>1 DEF Return
  <2>2. /\ watch' \in Watches /\ watch'.native = w.native /\ watch'.events = w.events
        /\ watch'.pending = w.pending /\ watch'.removed = w.removed /\ watch'.pc = "done"
      BY <2>1 DEF Watches
  <2>3. /\ rows' \in [Paths -> Times \cup {Invalid}]
        /\ rows' = rows \/ \A p \in Paths : rows'[p] = IF rows[p] = 0 THEN 0 ELSE Invalid
    <3>1. rows \in [Paths -> Times \cup {Invalid}] /\ 0 \in Times
        BY TimesSuffice DEF TypeOK, Times
    <3> QED
        BY <1>1, <3>1 DEF Return
  <2> QED
      BY <2>1, <2>2, <2>3 DEF TypeOK
<1>2. CASE Flush(w)
  <2> DEFINE job == [NoJob EXCEPT !.step = "plan", !.changed = w.pending, !.gone = w.removed]
  <2>1. /\ watch' = [w EXCEPT !.pc = "flush", !.pending = {}, !.removed = {}]
        /\ jobs' = [jobs EXCEPT !["main"] = job] /\ rows' = rows
      BY <1>2 DEF Flush
  <2>2. /\ watch' \in Watches /\ watch'.native = w.native /\ watch'.events = w.events
        /\ watch'.pending = {} /\ watch'.removed = {} /\ watch'.pc = "flush"
      BY <2>1 DEF Watches
  <2>3. /\ job \in Flushes /\ job.step = "plan" /\ job.changed = w.pending
        /\ job.gone = w.removed /\ job.id = None
      BY NoJobFits DEF Flushes, Watches
  <2>4. Cardinality({}) = 0 /\ left.cap \in Nat
      BY FS_EmptySet DEF TypeOK, Limits
  <2> HIDE DEF job
  <2>5. jobs' \in [Callers -> Flushes] /\ jobs'["main"] = job
        /\ \A d \in Callers \ {"main"} : jobs'[d] = jobs[d]
      BY <2>1, <2>3, Flushed DEF TypeOK, Callers
  <2>6. Cardinality(watch'.pending) <= left.cap /\ Cardinality(watch'.removed) <= left.cap
      BY <2>2, <2>4
  <2> QED
      BY <2>1, <2>2, <2>3, <2>5, <2>6 DEF TypeOK
<1>3. CASE watch' = w /\ UNCHANGED <<rows, jobs>>
    BY <1>3 DEF TypeOK
<1> QED
    BY <1>1, <1>2, <1>3 DEF After

-----------------------------------------------------------------------------
(* The operations of the status *)

LEMMA Refreshing ==
    ASSUME NEW st \in Statuses
    PROVE  /\ Refresh(st) \in Statuses /\ Refresh(st).polling = st.polling
           /\ Refresh(st).recovering = st.recovering /\ Refresh(st).pend = st.pend
           /\ Says(Refresh(st))
<1> DEFINE mode == CASE st.polling # {} -> "polling"
                     [] st.polling = {} /\ (st.recovering # {} \/ \E i \in Ids : st.pend[i] # {})
                          -> "recovering"
                     [] OTHER -> IF st.mode = "unavailable" THEN st.mode ELSE "native"
<1>1. Refresh(st) = [st EXCEPT !.mode = mode]
    BY DEF Refresh
<1>2. /\ mode \in {"native", "polling", "recovering", "unavailable"}
      /\ mode = "native" => st.recovering = {}
      /\ mode = "unavailable" => /\ st.polling = {} /\ st.recovering = {}
                                 /\ \A i \in Ids : st.pend[i] = {}
    OBVIOUS
<1> HIDE DEF mode
<1>3. /\ Refresh(st) \in Statuses /\ Refresh(st).polling = st.polling
      /\ Refresh(st).recovering = st.recovering /\ Refresh(st).pend = st.pend
      /\ Refresh(st).mode = mode
    BY <1>1, <1>2 DEF Statuses
<1> QED
    BY <1>2, <1>3 DEF Says

LEMMA PollingSays ==
    ASSUME NEW st \in Statuses, NEW roots \in SUBSET Roots
    PROVE  /\ Polling(st, roots) \in Statuses /\ Polling(st, roots).polling = roots
           /\ Polling(st, roots).recovering = st.recovering /\ Polling(st, roots).pend = st.pend
           /\ Says(Polling(st, roots))
<1> DEFINE mode == IF roots = {} THEN "recovering" ELSE "polling"
           new == [st EXCEPT !.polling = roots, !.mode = mode]
<1>1. mode \in {"recovering", "polling"}
    OBVIOUS
<1>2. Polling(st, roots) = Refresh(new)
    BY DEF Polling
<1> HIDE DEF mode
<1>3. new \in Statuses /\ new.polling = roots /\ new.recovering = st.recovering
      /\ new.pend = st.pend
    BY <1>1 DEF Statuses
<1> HIDE DEF new
<1> QED
    BY <1>2, <1>3, Refreshing

\* A request that is registered, for some roots.
Registered(new, st, id, roots, recovering) ==
    /\ new \in Statuses /\ new.polling = st.polling
    /\ new.recovering = st.recovering \cup recovering
    /\ \A i \in Ids : new.pend[i] = IF i = id THEN roots ELSE st.pend[i]
    /\ Says(new)

LEMMA Registering ==
    ASSUME NEW st \in Statuses, NEW id \in Ids, NEW roots \in SUBSET Roots,
           NEW recovering \in SUBSET Roots
    PROVE  Registered(RegisterScan(st, id, roots, recovering), st, id, roots, recovering)
<1> DEFINE pend == [st.pend EXCEPT ![id] = roots]
           more == st.recovering \cup recovering
           new == [st EXCEPT !.recovering = more, !.pend = pend]
<1>1. RegisterScan(st, id, roots, recovering) = Refresh(new)
    BY DEF RegisterScan
<1>2. pend \in [Ids -> SUBSET Roots] /\ more \in SUBSET Roots
    BY DEF Statuses
<1>5. \A i \in Ids : pend[i] = IF i = id THEN roots ELSE st.pend[i]
    BY DEF Statuses
<1> HIDE DEF pend, more
<1>3. new \in Statuses /\ new.polling = st.polling /\ new.recovering = more /\ new.pend = pend
    BY <1>2 DEF Statuses
<1> HIDE DEF new
<1>4. /\ Refresh(new) \in Statuses /\ Refresh(new).polling = new.polling
      /\ Refresh(new).recovering = new.recovering /\ Refresh(new).pend = new.pend
      /\ Says(Refresh(new))
    BY <1>3, Refreshing
<1> QED
    BY <1>1, <1>3, <1>4, <1>5 DEF more, Registered

LEMMA Completing ==
    ASSUME NEW st \in Statuses, NEW id \in MaybeId
    PROVE  /\ CompleteScan(st, id) \in Statuses /\ CompleteScan(st, id).polling = st.polling
           /\ Says(st) => Says(CompleteScan(st, id))
           /\ \A i \in Ids : CompleteScan(st, id).pend[i] = IF i = id THEN {} ELSE st.pend[i]
           /\ CompleteScan(st, id).recovering \subseteq st.recovering
           /\ \A r \in st.recovering :
                \/ r \in CompleteScan(st, id).recovering
                \/ id \in Ids /\ r \in st.pend[id] /\ \A i \in Ids \ {id} : r \notin st.pend[i]
           /\ \A r \in CompleteScan(st, id).recovering :
                (\E i \in Ids : r \in st.pend[i]) => \E i \in Ids : r \in CompleteScan(st, id).pend[i]
<1>1. CASE id = None \/ st.pend[id] = {}
  <2>1. CompleteScan(st, id) = st
      BY <1>1 DEF CompleteScan
  <2> QED
      BY <2>1, <1>1, Places
<1>2. CASE id # None /\ st.pend[id] # {}
  <2> DEFINE pend == [st.pend EXCEPT ![id] = {}]
             rest == st.recovering \ (st.pend[id] \ StillPending(st, id))
             new == [st EXCEPT !.pend = pend, !.recovering = rest]
  <2>1. CompleteScan(st, id) = Refresh(new)
      BY <1>2 DEF CompleteScan
  <2>2. id \in Ids
      BY <1>2 DEF MaybeId
  <2>3. pend \in [Ids -> SUBSET Roots] /\ rest \in SUBSET Roots
      BY <2>2 DEF Statuses
  <2>4. \A i \in Ids : pend[i] = IF i = id THEN {} ELSE st.pend[i]
      BY <2>2 DEF Statuses
  <2>8. \A r \in rest : (\E i \in Ids : r \in st.pend[i]) => \E i \in Ids : r \in pend[i]
    <3> SUFFICES ASSUME NEW r \in rest, NEW i \in Ids, r \in st.pend[i]
                 PROVE  \E j \in Ids : r \in pend[j]
        OBVIOUS
    <3>1. \E j \in Ids \ {id} : r \in st.pend[j]
        BY DEF StillPending
    <3> QED
        BY <3>1, <2>4
  <2>5. rest \subseteq st.recovering
        /\ \A r \in st.recovering : r \in rest
              \/ (r \in st.pend[id] /\ \A i \in Ids \ {id} : r \notin st.pend[i])
      BY DEF StillPending
  <2> HIDE DEF pend, rest
  <2>6. new \in Statuses /\ new.polling = st.polling /\ new.pend = pend /\ new.recovering = rest
      BY <2>3 DEF Statuses
  <2> HIDE DEF new
  <2>7. /\ Refresh(new) \in Statuses /\ Refresh(new).polling = new.polling
        /\ Refresh(new).recovering = new.recovering /\ Refresh(new).pend = new.pend
        /\ Says(Refresh(new))
      BY <2>6, Refreshing
  <2> QED
      BY <2>1, <2>2, <2>4, <2>5, <2>6, <2>7, <2>8
<1> QED
    BY <1>1, <1>2

LEMMA NoStatusFits ==
    ASSUME NEW mode \in {"native", "unavailable"}
    PROVE  /\ Reset(mode) \in Statuses /\ Reset(mode).mode = mode /\ Reset(mode).polling = {}
           /\ Reset(mode).recovering = {} /\ \A i \in Ids : Reset(mode).pend[i] = {}
           /\ Says(Reset(mode))
<1>1. NoStatus \in Statuses /\ NoStatus.polling = {} /\ NoStatus.recovering = {}
      /\ NoStatus.pend = [i \in Ids |-> {}]
    BY DEF NoStatus, Statuses
<1>2. /\ Reset(mode) \in Statuses /\ Reset(mode).mode = mode
      /\ Reset(mode).polling = {} /\ Reset(mode).recovering = {}
      /\ Reset(mode).pend = [i \in Ids |-> {}]
    BY <1>1 DEF Reset, Statuses
<1> QED
    BY <1>2 DEF Says

\* A polling that has read nothing.
Blank(polling) == \A p \in Paths : polling.base[p] = 0 /\ polling.sweep[p] = Unread

\* A session with roots that are polled, and one without.
Continues(poller, fresh, st, failed) ==
    /\ poller.roots = failed /\ poller.pc = "sleep"
    /\ fresh.pend = st.pend /\ fresh.recovering = st.recovering
StartsOver(poller, fresh, failed) ==
    /\ poller.roots = {} /\ poller.pc = "off"
    /\ \A i \in Ids : fresh.pend[i] = {}
    /\ fresh.recovering = {}
    /\ failed # {} => fresh.mode = "unavailable"

LEMMA Beginning ==
    ASSUME NEW st \in Statuses, NEW failed \in SUBSET Roots, NEW setting
    PROVE  /\ Session(failed) \in Watches /\ Session(failed).pc = "loop"
           /\ Session(failed).native = Roots \ failed /\ Session(failed).events = {}
           /\ Session(failed).pending = {} /\ Session(failed).removed = {}
           /\ Poller(failed, setting) \in Pollings
           /\ Poller(failed, setting).pc \in {"off", "sleep"}
           /\ Poller(failed, setting).spare = {}
           /\ Blank(Poller(failed, setting))
           /\ Fresh(st, failed, setting) \in Statuses /\ Says(Fresh(st, failed, setting))
           /\ Fresh(st, failed, setting).polling = Poller(failed, setting).roots
           /\ IF Polls(failed, setting)
              THEN Continues(Poller(failed, setting), Fresh(st, failed, setting), st, failed)
              ELSE StartsOver(Poller(failed, setting), Fresh(st, failed, setting), failed)
<1>1. /\ Session(failed) \in Watches /\ Session(failed).pc = "loop"
      /\ Session(failed).native = Roots \ failed /\ Session(failed).events = {}
      /\ Session(failed).pending = {} /\ Session(failed).removed = {}
    BY DEF Session, Asleep, Watches
<1>2. [p \in Paths |-> 0] \in [Paths -> Times] /\ [p \in Paths |-> Unread] \in [Paths -> Times \cup {Unread}]
    BY TimesSuffice DEF Times
<1>3. /\ NoPoll \in Pollings /\ NoPoll.pc = "off" /\ NoPoll.roots = {} /\ NoPoll.spare = {}
      /\ NoPoll.base = [p \in Paths |-> 0] /\ NoPoll.sweep = [p \in Paths |-> Unread]
    BY <1>2 DEF NoPoll, Pollings, MaybeId
<1>4. CASE Polls(failed, setting)
  <2> DEFINE new == [NoPoll EXCEPT !.pc = "sleep", !.roots = failed]
  <2>1. Poller(failed, setting) = new /\ Fresh(st, failed, setting) = Polling(st, failed)
      BY <1>4 DEF Poller, Fresh
  <2>2. /\ new \in Pollings /\ new.pc = "sleep" /\ new.roots = failed /\ new.spare = {}
        /\ new.base = [p \in Paths |-> 0] /\ new.sweep = [p \in Paths |-> Unread]
      BY <1>3 DEF Pollings
  <2> HIDE DEF new
  <2>3. /\ Polling(st, failed) \in Statuses /\ Polling(st, failed).polling = failed
        /\ Polling(st, failed).recovering = st.recovering /\ Polling(st, failed).pend = st.pend
        /\ Says(Polling(st, failed))
      BY PollingSays
  <2>4. Blank(new)
      BY <2>2 DEF Blank
  <2> QED
      BY <1>1, <1>4, <2>1, <2>2, <2>3, <2>4 DEF Continues
<1>5. CASE ~Polls(failed, setting)
  <2> DEFINE mode == IF failed = {} THEN "native" ELSE "unavailable"
  <2>1. Poller(failed, setting) = NoPoll /\ Fresh(st, failed, setting) = Reset(mode)
      BY <1>5 DEF Poller, Fresh
  <2>2. mode \in {"native", "unavailable"} /\ (failed # {} => mode = "unavailable")
      OBVIOUS
  <2> HIDE DEF mode
  <2>3. /\ Reset(mode) \in Statuses /\ Reset(mode).mode = mode /\ Reset(mode).polling = {}
        /\ Reset(mode).recovering = {} /\ \A i \in Ids : Reset(mode).pend[i] = {}
        /\ Says(Reset(mode))
      BY <2>2, NoStatusFits
  <2>4. Blank(NoPoll)
      BY <1>3 DEF Blank
  <2> QED
      BY <1>1, <1>3, <1>5, <2>1, <2>2, <2>3, <2>4 DEF StartsOver
<1> QED
    BY <1>4, <1>5

-----------------------------------------------------------------------------
(* The polling *)

LEMMA DoneWith ==
    ASSUME poll \in Pollings, NEW pc \in {"sleep", "flush", "hold"}
    PROVE  /\ Done(pc) \in Pollings /\ Done(pc).pc = pc /\ Done(pc).roots = poll.roots
           /\ Done(pc).known = poll.known /\ Done(pc).base = poll.base
           /\ Done(pc).sweep = poll.sweep /\ Done(pc).spare = poll.spare /\ Done(pc).id = poll.id
<1> DEFINE new == [poll EXCEPT !.pc = pc, !.changed = {}, !.removed = {}, !.touched = {},
                               !.initial = FALSE]
<1>1. Done(pc) = new
    BY DEF Done
<1>2. /\ new \in Pollings /\ new.pc = pc /\ new.roots = poll.roots
      /\ new.known = poll.known /\ new.base = poll.base
      /\ new.sweep = poll.sweep /\ new.spare = poll.spare /\ new.id = poll.id
    BY DEF Pollings
<1> QED
    BY <1>1, <1>2

LEMMA DoneForId ==
    ASSUME poll \in Pollings, NEW id \in Ids
    PROVE  /\ [Done("flush") EXCEPT !.id = id] \in Pollings
           /\ [Done("flush") EXCEPT !.id = id].pc = "flush"
           /\ [Done("flush") EXCEPT !.id = id].roots = poll.roots
           /\ [Done("flush") EXCEPT !.id = id].known = poll.known
           /\ [Done("flush") EXCEPT !.id = id].base = poll.base
           /\ [Done("flush") EXCEPT !.id = id].sweep = poll.sweep
           /\ [Done("flush") EXCEPT !.id = id].spare = poll.spare
<1> DEFINE old == Done("flush")
<1>1. /\ old \in Pollings /\ old.pc = "flush" /\ old.roots = poll.roots
      /\ old.known = poll.known /\ old.base = poll.base
      /\ old.sweep = poll.sweep /\ old.spare = poll.spare
    BY DoneWith
<1> HIDE DEF old
<1>2. LET new == [old EXCEPT !.id = id]
      IN /\ new \in Pollings /\ new.pc = old.pc /\ new.roots = old.roots
         /\ new.known = old.known /\ new.base = old.base
         /\ new.sweep = old.sweep /\ new.spare = old.spare
    BY <1>1 DEF Pollings, MaybeId
<1> QED
    BY <1>1, <1>2 DEF old

\* What a sweep knows after its next entries, the roots it is through with, and what
\* only a sweep that failed had noticed.
Now(batch) == [p \in Paths |-> IF p \in batch THEN files[p] ELSE poll.sweep[p]]
Complete(batch, failed) ==
    {r \in poll.roots \ failed : \A p \in PathsOf(r) : Now(batch)[p] # Unread}
Missed(failed) == {p \in Paths : /\ RootOf[p] \in failed \cap poll.known
                                 /\ Noticed(p) /\ poll.base[p] = files[p]}
LEMMA Sweeping ==
    ASSUME TypeOK, NEW batch \in SUBSET Paths, NEW failed \in SUBSET Roots, Advance(batch, failed)
    PROVE  /\ poll' \in Pollings /\ poll.pc = "sleep" /\ poll'.pc = "swept"
           /\ poll'.roots = poll.roots /\ poll'.spare = poll.spare /\ poll'.id = poll.id
           /\ Complete(batch, failed) \subseteq poll.roots
           /\ poll'.known = poll.known \cup Complete(batch, failed)
           /\ \A p \in Paths :
                /\ poll'.base[p] = IF p \in left.paths /\ RootOf[p] \in Complete(batch, failed)
                                   THEN Now(batch)[p] ELSE poll.base[p]
                /\ poll'.sweep[p] = IF RootOf[p] \in Complete(batch, failed) \cup failed
                                    THEN Unread ELSE Now(batch)[p]
                /\ p \in poll'.changed <=>
                     /\ p \in left.paths /\ RootOf[p] \in Complete(batch, failed)
                     /\ Differs(poll.base, Now(batch), p)
                /\ p \in poll'.removed <=>
                     /\ p \in left.paths /\ RootOf[p] \in Complete(batch, failed)
                     /\ Vanished(poll.base, Now(batch), p)
           /\ poll'.initial <=> Complete(batch, failed) \ poll.known # {}
           /\ poll'.touched = {r \in Complete(batch, failed) :
                 r \notin poll.known \/ PathsOf(r) \cap (poll'.changed \cup poll'.removed) # {}}
           /\ scans' \in [Scanners -> Scannings] /\ OthersSee({}, {}, Missed(failed))
           /\ ghost' = [ghost EXCEPT !.lost = @ \cup Missed(failed)]
           /\ Outcome(failed = {})
           /\ UNCHANGED <<files, rows, chosen, outer, watch, jobs, status>>
<1> DEFINE now == Now(batch)
           complete == Complete(batch, failed)
           swept == {p \in left.paths : RootOf[p] \in complete}
           changed == {p \in swept : Differs(poll.base, now, p)}
           removed == {p \in swept : Vanished(poll.base, now, p)}
           base == [p \in Paths |-> IF p \in swept THEN now[p] ELSE poll.base[p]]
           sweep == [p \in Paths |-> IF RootOf[p] \in complete \cup failed THEN Unread ELSE now[p]]
           initial == complete \ poll.known # {}
           touched == {r \in complete : r \notin poll.known
                                        \/ PathsOf(r) \cap (changed \cup removed) # {}}
           known == poll.known \cup complete
           new == [poll EXCEPT !.pc = "swept", !.known = known, !.base = base, !.sweep = sweep,
                     !.changed = changed, !.removed = removed, !.initial = initial,
                     !.touched = touched]
<1>1. poll \in Pollings /\ files \in [Paths -> Times] /\ left.paths \in SUBSET Paths
    BY DEF TypeOK, Limits
<1>2. /\ poll' = new /\ poll.pc = "sleep" /\ scans' = Forgets(scans, Missed(failed))
      /\ ghost' = [ghost EXCEPT !.lost = @ \cup Missed(failed)]
      /\ Outcome(failed = {}) /\ UNCHANGED <<files, rows, chosen, outer, watch, jobs, status>>
    BY DEF Advance, Now, Complete, Missed
<1>3. complete \in SUBSET Roots /\ complete \subseteq poll.roots
    BY <1>1 DEF Complete, Pollings
<1>4. \A p \in Paths : now[p] = IF p \in batch THEN files[p] ELSE poll.sweep[p]
    BY DEF Now
<1>5. now \in [Paths -> Times \cup {Unread}]
    BY <1>1, <1>4 DEF Pollings, Now
<1>6. \A p \in swept : now[p] # Unread
    BY <1>1 DEF Complete, PathsOf
<1>7. base \in [Paths -> Times] /\ sweep \in [Paths -> Times \cup {Unread}]
  <2>1. ASSUME NEW p \in Paths
        PROVE  base[p] \in Times /\ sweep[p] \in Times \cup {Unread}
    <3>1. now[p] \in Times \cup {Unread} /\ poll.base[p] \in Times
        BY <1>1, <1>5 DEF Pollings
    <3>2. p \in swept => now[p] # Unread
        BY <1>6
    <3> HIDE DEF now, swept, complete
    <3> QED
        BY <3>1, <3>2
  <2> HIDE DEF now, swept, complete
  <2> QED
      BY <2>1
<1>8. changed \in SUBSET Paths /\ removed \in SUBSET Paths /\ initial \in BOOLEAN
      /\ touched \in SUBSET Roots /\ known \in SUBSET Roots
    BY <1>1, <1>3 DEF Pollings
<1>9. \A p \in Paths :
        /\ base[p] = IF p \in left.paths /\ RootOf[p] \in complete THEN now[p] ELSE poll.base[p]
        /\ sweep[p] = IF RootOf[p] \in complete \cup failed THEN Unread ELSE now[p]
        /\ p \in changed <=> /\ p \in left.paths /\ RootOf[p] \in complete
                             /\ Differs(poll.base, now, p)
        /\ p \in removed <=> /\ p \in left.paths /\ RootOf[p] \in complete
                             /\ Vanished(poll.base, now, p)
    OBVIOUS
<1>10. touched = {r \in complete : r \notin poll.known
                                   \/ PathsOf(r) \cap (changed \cup removed) # {}}
       /\ (initial <=> complete \ poll.known # {}) /\ known = poll.known \cup complete
    OBVIOUS
<1> HIDE DEF base, sweep, changed, removed, initial, touched, known
<1>11. /\ new \in Pollings /\ new.pc = "swept" /\ new.roots = poll.roots
       /\ new.spare = poll.spare /\ new.id = poll.id /\ new.known = known /\ new.base = base
       /\ new.sweep = sweep /\ new.changed = changed /\ new.removed = removed
       /\ new.initial = initial /\ new.touched = touched
    BY <1>1, <1>7, <1>8 DEF Pollings
<1>12. scans' \in [Scanners -> Scannings] /\ OthersSee({}, {}, Missed(failed))
    BY <1>2, AllSee DEF TypeOK
<1> HIDE DEF new, now, complete
<1> QED
    BY <1>2, <1>3, <1>9, <1>10, <1>11, <1>12 DEF now, complete

-----------------------------------------------------------------------------
(* What each action does *)

LEMMA Losing ==
    ASSUME TypeOK, NEW lost \in SUBSET Paths, ghost' = [ghost EXCEPT !.lost = @ \cup lost]
    PROVE  /\ ghost' \in [lost : SUBSET Paths, owed : SUBSET Roots, orphans : SUBSET Ids]
           /\ ghost'.lost = ghost.lost \cup lost /\ ghost'.owed = ghost.owed
           /\ ghost'.orphans = ghost.orphans
<1> DEFINE more == ghost.lost \cup lost
<1>1. ghost' = [ghost EXCEPT !.lost = more]
    BY DEF TypeOK
<1>2. more \in SUBSET Paths /\ more = ghost.lost \cup lost
    BY DEF TypeOK
<1> HIDE DEF more
<1> QED
    BY <1>1, <1>2 DEF TypeOK

LEMMA Changing ==
    ASSUME TypeOK, NEW p \in Paths, NEW time \in Times, Change(p, time)
    PROVE  \E lost \in SUBSET {p} :
           /\ p \in left.paths /\ (time = 0 \/ time = NextTime) /\ files[p] # time
           /\ left' \in Limits /\ left'.cap = left.cap /\ left'.paths = left.paths
           /\ left'.acts = left.acts - 1 /\ left.acts \in Nat
           /\ files' \in [Paths -> Times]
           /\ \A q \in Paths : files'[q] = IF q = p THEN time ELSE files[q]
           /\ watch' \in Watches /\ watch'.pc = watch.pc /\ watch'.native = watch.native
           /\ watch'.pending = watch.pending /\ watch'.removed = watch.removed
           /\ watch.events \subseteq watch'.events
           /\ Watched(RootOf[p]) /\ time # 0 => <<"changed", p>> \in watch'.events
           /\ Watched(RootOf[p]) /\ time = 0 => <<"removed", p>> \in watch'.events
           /\ p \in lost <=> \/ time = 0 /\ BetweenSweeps(p)
                             \/ status.mode = "unavailable" /\ ~Watched(RootOf[p])
           /\ scans' \in [Scanners -> Scannings] /\ OthersSee({}, {}, lost)
           /\ ghost' = [ghost EXCEPT !.lost = @ \cup lost]
           /\ UNCHANGED <<rows, chosen, outer, poll, jobs, status>>
<1> DEFINE lost == {q \in {p} : \/ (time = 0 /\ BetweenSweeps(p))
                                \/ (status.mode = "unavailable" /\ ~Watched(RootOf[p]))}
           event == <<IF time = 0 THEN "removed" ELSE "changed", p>>
<1>1. /\ p \in left.paths /\ (time = 0 \/ time = NextTime) /\ files[p] # time /\ Use("acts")
      /\ files' = [files EXCEPT ![p] = time]
      /\ watch' = IF Watched(RootOf[p]) THEN [watch EXCEPT !.events = @ \cup {event}] ELSE watch
      /\ ghost' = [ghost EXCEPT !.lost = @ \cup lost] /\ scans' = Forgets(scans, lost)
      /\ UNCHANGED <<rows, chosen, outer, poll, jobs, status>>
    BY DEF Change
<1>2. /\ left' \in Limits /\ left'.cap = left.cap /\ left'.paths = left.paths
      /\ left'.acts = left.acts - 1 /\ left.acts \in Nat
    BY <1>1, UseAct DEF TypeOK, Limits
<1>3. /\ files' \in [Paths -> Times]
      /\ \A q \in Paths : files'[q] = IF q = p THEN time ELSE files[q]
    BY <1>1 DEF TypeOK
<1>4. event \in Events /\ event = (IF time = 0 THEN <<"removed", p>> ELSE <<"changed", p>>)
    BY DEF Events
<1>5. lost \in SUBSET {p} /\ (p \in lost <=> \/ (time = 0 /\ BetweenSweeps(p))
                                            \/ (status.mode = "unavailable" /\ ~Watched(RootOf[p])))
    OBVIOUS
<1> HIDE DEF event, lost
<1>6. /\ watch' \in Watches /\ watch'.pc = watch.pc /\ watch'.native = watch.native
      /\ watch'.pending = watch.pending /\ watch'.removed = watch.removed
      /\ watch.events \subseteq watch'.events
      /\ Watched(RootOf[p]) => event \in watch'.events
  <2>1. CASE Watched(RootOf[p])
    <3> DEFINE more == watch.events \cup {event}
    <3>1. more \in SUBSET Events /\ watch.events \subseteq more /\ event \in more
        BY <1>4 DEF TypeOK, Watches
    <3>2. watch' = [watch EXCEPT !.events = more]
        BY <2>1, <1>1
    <3> HIDE DEF more
    <3> QED
        BY <3>1, <3>2 DEF TypeOK, Watches
  <2>2. CASE ~Watched(RootOf[p])
      BY <2>2, <1>1 DEF TypeOK
  <2> QED
      BY <2>1, <2>2
<1>7. scans' \in [Scanners -> Scannings] /\ OthersSee({}, {}, lost)
    BY <1>1, AllSee DEF TypeOK
<1> USE <1>5
<1> WITNESS lost \in SUBSET {p}
<1> QED
    BY <1>1, <1>2, <1>3, <1>4, <1>6, <1>7

LEMMA Choosing ==
    ASSUME TypeOK, NEW setting \in Settings, Choose(setting)
    PROVE  /\ left' \in Limits /\ left'.cap = left.cap /\ left'.paths = left.paths
           /\ left'.acts = left.acts - 1 /\ left.acts \in Nat
           /\ chosen' \in Settings
           /\ watch' \in Watches /\ watch'.pc = watch.pc /\ watch'.native = watch.native
           /\ watch'.pending = watch.pending /\ watch'.removed = watch.removed
           /\ watch.events \subseteq watch'.events
           /\ UNCHANGED <<files, rows, outer, poll, jobs, scans, status, ghost>>
<1>1. /\ Use("acts") /\ chosen' = setting
      /\ watch' = (IF watch.pc \in {"loop", "flush"}
                   THEN [watch EXCEPT !.events = @ \cup {<<"config">>}] ELSE watch)
      /\ UNCHANGED <<files, rows, outer, poll, jobs, scans, status, ghost>>
    BY DEF Choose
<1>2. /\ left' \in Limits /\ left'.cap = left.cap /\ left'.paths = left.paths
      /\ left'.acts = left.acts - 1 /\ left.acts \in Nat
    BY <1>1, UseAct DEF TypeOK, Limits
<1>3. /\ watch' \in Watches /\ watch'.pc = watch.pc /\ watch'.native = watch.native
      /\ watch'.pending = watch.pending /\ watch'.removed = watch.removed
      /\ watch.events \subseteq watch'.events
  <2> DEFINE more == watch.events \cup {<<"config">>}
  <2>1. more \in SUBSET Events /\ watch.events \subseteq more
      BY DEF TypeOK, Watches, Events
  <2>2. watch' = [watch EXCEPT !.events = more] \/ watch' = watch
      BY <1>1
  <2> HIDE DEF more
  <2> QED
      BY <2>1, <2>2 DEF TypeOK, Watches
<1> QED
    BY <1>1, <1>2, <1>3

LEMMA Installing ==
    ASSUME TypeOK, NEW failed \in SUBSET Roots, Install(failed)
    PROVE  /\ outer.pc = "install" /\ outer'.pc = "rescan"
           /\ outer' \in [pc : {"install", "rescan", "await"}, setting : Settings]
           /\ left' \in Limits /\ left'.cap = left.cap /\ left'.paths = left.paths
           /\ left'.acts = left.acts
           /\ watch' \in Watches /\ watch'.pc = "loop" /\ watch'.native = Roots \ failed
           /\ watch'.pending = {} /\ watch'.removed = {}
           /\ poll' = Poller(failed, chosen) /\ status' = Fresh(status, failed, chosen)
           /\ ghost' \in [lost : SUBSET Paths, owed : SUBSET Roots, orphans : SUBSET Ids]
           /\ ghost'.lost = ghost.lost /\ ghost'.owed = {}
           /\ Polls(failed, chosen) => ghost'.orphans = ghost.orphans
           /\ UNCHANGED <<files, rows, chosen, jobs, scans>>
<1>1. /\ outer.pc = "install" /\ Cardinality(failed) <= left.outages
      /\ left' = [left EXCEPT !.outages = left.outages - Cardinality(failed)]
      /\ outer' = [pc |-> "rescan", setting |-> chosen]
      /\ watch' = [Session(failed) EXCEPT !.events = {<<"config">>}]
      /\ poll' = Poller(failed, chosen) /\ status' = Fresh(status, failed, chosen)
      /\ UNCHANGED <<files, rows, chosen, jobs, scans>>
    BY DEF Install, TypeOK, Limits
<1>2. left' \in Limits /\ left'.cap = left.cap /\ left'.paths = left.paths /\ left'.acts = left.acts
  <2>1. Cardinality(failed) \in Nat
      BY Places, FS_Subset, FS_CardinalityType
  <2>2. left \in [acts : Nat, outages : Nat, troubles : Nat, cap : Nat, paths : SUBSET Paths]
        /\ left.acts + 2 <= LastTime
      BY DEF TypeOK, Limits
  <2>3. left.outages - Cardinality(failed) \in Nat
      BY <1>1, <2>1, <2>2
  <2>4. /\ left' \in [acts : Nat, outages : Nat, troubles : Nat, cap : Nat, paths : SUBSET Paths]
        /\ left'.cap = left.cap /\ left'.paths = left.paths /\ left'.acts = left.acts
      BY <1>1, <2>2, <2>3
  <2> QED
      BY <2>2, <2>4 DEF Limits
<1>3. /\ watch' \in Watches /\ watch'.pc = "loop" /\ watch'.native = Roots \ failed
      /\ watch'.pending = {} /\ watch'.removed = {}
  <2> DEFINE new == Session(failed)
  <2>1. /\ new \in Watches /\ new.pc = "loop" /\ new.native = Roots \ failed
        /\ new.pending = {} /\ new.removed = {}
      BY Beginning DEF TypeOK
  <2>2. watch' = [new EXCEPT !.events = {<<"config">>}]
      BY <1>1
  <2>3. {<<"config">>} \in SUBSET Events
      BY DEF Events
  <2> HIDE DEF new
  <2> QED
      BY <2>1, <2>2, <2>3 DEF Watches
<1>4. /\ ghost' \in [lost : SUBSET Paths, owed : SUBSET Roots, orphans : SUBSET Ids]
      /\ ghost'.lost = ghost.lost /\ ghost'.owed = {}
      /\ Polls(failed, chosen) => ghost'.orphans = ghost.orphans
  <2> DEFINE rest == IF Polls(failed, chosen) THEN ghost.orphans ELSE {}
  <2>1. ghost' = [ghost EXCEPT !.owed = {}, !.orphans = rest]
      BY DEF Install, TypeOK
  <2>2. rest \in SUBSET Ids /\ (Polls(failed, chosen) => rest = ghost.orphans)
      BY DEF TypeOK
  <2> HIDE DEF rest
  <2> QED
      BY <2>1, <2>2 DEF TypeOK
<1>5. outer' \in [pc : {"install", "rescan", "await"}, setting : Settings] /\ outer'.pc = "rescan"
    BY <1>1 DEF TypeOK
<1> QED
    BY <1>1, <1>2, <1>3, <1>4, <1>5

LEMMA Rescanning ==
    ASSUME TypeOK, Rescan
    PROVE  /\ outer.pc = "rescan" /\ outer'.pc = "await"
           /\ outer' \in [pc : {"install", "rescan", "await"}, setting : Settings]
           /\ jobs["rescan"].step = "off"
           /\ jobs' \in [Callers -> Flushes] /\ \A d \in Callers \ {"rescan"} : jobs'[d] = jobs[d]
           /\ jobs'["rescan"].step = "plan" /\ jobs'["rescan"].full /\ jobs'["rescan"].id = None
           /\ UNCHANGED <<files, rows, chosen, watch, poll, scans, status, left, ghost>>
<1> DEFINE job == [NoJob EXCEPT !.step = "plan", !.full = TRUE]
<1>1. /\ outer.pc = "rescan" /\ jobs["rescan"].step = "off"
      /\ jobs' = [jobs EXCEPT !["rescan"] = job] /\ outer' = [outer EXCEPT !.pc = "await"]
      /\ UNCHANGED <<files, rows, chosen, watch, poll, scans, status, left, ghost>>
    BY DEF Rescan
<1>2. job \in Flushes /\ job.step = "plan" /\ job.full /\ job.id = None
    BY NoJobFits DEF Flushes
<1> HIDE DEF job
<1>3. /\ jobs' \in [Callers -> Flushes] /\ jobs'["rescan"] = job
      /\ \A d \in Callers \ {"rescan"} : jobs'[d] = jobs[d]
    BY <1>1, <1>2, Flushed DEF TypeOK, Callers
<1>4. outer' \in [pc : {"install", "rescan", "await"}, setting : Settings] /\ outer'.pc = "await"
    BY <1>1 DEF TypeOK
<1> QED
    BY <1>1, <1>2, <1>3, <1>4

LEMMA Replacing ==
    ASSUME TypeOK, Replace
    PROVE  /\ outer.pc = "await" /\ watch.pc = "done" /\ outer'.pc = "install"
           /\ outer' \in [pc : {"install", "rescan", "await"}, setting : Settings]
           /\ poll' \in Pollings /\ poll'.pc = "off" /\ poll'.roots = {} /\ poll'.spare = {}
           /\ \A p \in Paths : poll'.base[p] = 0 /\ poll'.sweep[p] = Unread
           /\ watch' \in Watches /\ watch'.pc = "off" /\ watch'.pending = {} /\ watch'.removed = {}
           /\ UNCHANGED <<files, rows, chosen, jobs, scans, status, left, ghost>>
<1>1. /\ outer.pc = "await" /\ watch.pc = "done" /\ outer' = [outer EXCEPT !.pc = "install"]
      /\ poll' = NoPoll /\ watch' = Asleep
      /\ UNCHANGED <<files, rows, chosen, jobs, scans, status, left, ghost>>
    BY DEF Replace
<1>2. [p \in Paths |-> 0] \in [Paths -> Times] /\ [p \in Paths |-> Unread] \in [Paths -> Times \cup {Unread}]
    BY TimesSuffice DEF Times
<1>3. /\ NoPoll \in Pollings /\ NoPoll.pc = "off" /\ NoPoll.roots = {} /\ NoPoll.spare = {}
      /\ NoPoll.base = [p \in Paths |-> 0] /\ NoPoll.sweep = [p \in Paths |-> Unread]
    BY <1>2 DEF NoPoll, Pollings, MaybeId
<1>4. Asleep \in Watches /\ Asleep.pc = "off" /\ Asleep.pending = {} /\ Asleep.removed = {}
    BY DEF Asleep, Watches
<1>5. outer' \in [pc : {"install", "rescan", "await"}, setting : Settings] /\ outer'.pc = "install"
    BY <1>1 DEF TypeOK
<1>6. \A p \in Paths : poll'.base[p] = 0 /\ poll'.sweep[p] = Unread
    BY <1>1, <1>3
<1> QED
    BY <1>1, <1>3, <1>4, <1>5, <1>6

LEMMA Hearing ==
    ASSUME TypeOK, NEW e \in watch.events, NEW held \in BOOLEAN, Event(e, held)
    PROVE  \E w \in Watches :
           /\ w = Absorb(watch, e) /\ watch.pc = "loop" /\ w.pc = "loop" /\ After(w, held)
           /\ w.native = watch.native /\ w.events = watch.events \ {e}
           /\ watch.pending \subseteq w.pending /\ watch.removed \subseteq w.removed
           /\ Cardinality(w.pending) <= left.cap /\ Cardinality(w.removed) <= left.cap
           /\ \A p \in Paths : /\ e = <<"changed", p>> => p \in w.pending \cup DroppedBy(watch, e)
                               /\ e = <<"removed", p>> => p \in w.removed \cup DroppedBy(watch, e)
           /\ DroppedBy(watch, e) \in SUBSET Paths
           /\ ghost' = [ghost EXCEPT !.lost = @ \cup DroppedBy(watch, e)]
           /\ scans' \in [Scanners -> Scannings] /\ OthersSee({}, {}, DroppedBy(watch, e))
           /\ UNCHANGED <<files, chosen, outer, poll, status, left>>
<1> DEFINE w == Absorb(watch, e)
<1>1. /\ watch.pc = "loop" /\ After(w, held) /\ ghost' = [ghost EXCEPT !.lost = @ \cup DroppedBy(watch, e)]
      /\ scans' = Forgets(scans, DroppedBy(watch, e))
      /\ UNCHANGED <<files, chosen, outer, poll, status, left>>
    BY DEF Event
<1>2. scans' \in [Scanners -> Scannings] /\ OthersSee({}, {}, DroppedBy(watch, e))
    BY <1>1, AllSee DEF TypeOK
<1>3. /\ w \in Watches /\ w.pc = watch.pc /\ w.native = watch.native
      /\ w.events = watch.events \ {e}
      /\ watch.pending \subseteq w.pending /\ watch.removed \subseteq w.removed
      /\ Cardinality(w.pending) <= left.cap /\ Cardinality(w.removed) <= left.cap
      /\ DroppedBy(watch, e) \in SUBSET Paths
      /\ \A p \in Paths : /\ e = <<"changed", p>> => p \in w.pending \cup DroppedBy(watch, e)
                          /\ e = <<"removed", p>> => p \in w.removed \cup DroppedBy(watch, e)
    BY Absorbing
<1>4. w = Absorb(watch, e)
    OBVIOUS
<1> HIDE DEF w
<1> USE <1>3
<1> WITNESS w \in Watches
<1> QED
    BY <1>1, <1>2, <1>3, <1>4

LEMMA Settling ==
    ASSUME TypeOK, Settled
    PROVE  /\ watch.pc = "loop" /\ After(watch, TRUE) /\ watch \in Watches
           /\ Cardinality(watch.pending) <= left.cap /\ Cardinality(watch.removed) <= left.cap
           /\ UNCHANGED <<files, chosen, outer, poll, scans, status, left, ghost>>
BY DEF Settled, TypeOK

LEMMA Planning ==
    ASSUME TypeOK, NEW c \in Callers, Plan(c)
    PROVE  /\ jobs[c].step = "plan" /\ jobs' \in [Callers -> Flushes]
           /\ \A d \in Callers \ {c} : jobs'[d] = jobs[d]
           /\ jobs'[c].step = "remove" /\ jobs'[c].full = jobs[c].full
           /\ jobs'[c].ok = jobs[c].ok /\ jobs'[c].id = jobs[c].id
           /\ \A p \in Paths :
                /\ p \in jobs'[c].changed <=> p \in jobs[c].changed /\ files[p] # 0
                /\ p \in jobs'[c].gone <=> p \in jobs[c].changed \cup jobs[c].gone /\ files[p] = 0
           /\ UNCHANGED <<files, rows, chosen, outer, watch, poll, scans, status, left, ghost>>
<1> DEFINE changed == {p \in jobs[c].changed : files[p] # 0}
           gone == {p \in jobs[c].changed \cup jobs[c].gone : files[p] = 0}
           job == [jobs[c] EXCEPT !.step = "remove", !.changed = changed, !.gone = gone]
<1>1. /\ jobs[c].step = "plan" /\ jobs' = [jobs EXCEPT ![c] = job]
      /\ UNCHANGED <<files, rows, chosen, outer, watch, poll, scans, status, left, ghost>>
    BY DEF Plan
<1>2. jobs[c] \in Flushes
    BY DEF TypeOK
<1>3. changed \in SUBSET Paths /\ gone \in SUBSET Paths
    BY <1>2 DEF Flushes
<1>4. \A p \in Paths :
        /\ p \in changed <=> p \in jobs[c].changed /\ files[p] # 0
        /\ p \in gone <=> p \in jobs[c].changed \cup jobs[c].gone /\ files[p] = 0
    OBVIOUS
<1> HIDE DEF changed, gone
<1>5. /\ job \in Flushes /\ job.step = "remove" /\ job.full = jobs[c].full
      /\ job.ok = jobs[c].ok /\ job.id = jobs[c].id /\ job.changed = changed /\ job.gone = gone
    BY <1>2, <1>3 DEF Flushes
<1> HIDE DEF job
<1>6. jobs' \in [Callers -> Flushes] /\ jobs'[c] = job /\ \A d \in Callers \ {c} : jobs'[d] = jobs[d]
    BY <1>1, <1>5, Flushed DEF TypeOK
<1> QED
    BY <1>1, <1>4, <1>5, <1>6

LEMMA Launching ==
    ASSUME TypeOK, NEW c \in Callers, Launch(c)
    PROVE  /\ jobs[c].step = "remove" /\ jobs[c].gone = {}
           /\ jobs' \in [Callers -> Flushes] /\ jobs'[c] = NoJob
           /\ \A d \in Callers \ {c} : jobs'[d] = jobs[d]
           /\ watch' \in Watches /\ watch'.native = watch.native /\ watch'.events = watch.events
           /\ watch'.pending = watch.pending /\ watch'.removed = watch.removed
           /\ watch'.pc = IF c = "main" THEN "loop" ELSE watch.pc
           /\ poll' \in Pollings
           /\ \/ poll' = poll
              \/ /\ poll.pc = "flush" /\ poll'.pc = "sleep" /\ poll'.roots = poll.roots
                 /\ poll'.known = poll.known /\ poll'.base = poll.base
                 /\ poll'.sweep = poll.sweep /\ poll'.spare = poll.spare
           /\ scans' \in [Scanners -> Scannings]
           /\ IF Launches(jobs[c])
              THEN /\ Starts(Everything(jobs[c]), IF Everything(jobs[c]) THEN {} ELSE jobs[c].changed,
                             jobs[c].id)
                   /\ UNCHANGED <<status, ghost>>
              ELSE /\ scans' = scans
                   /\ \/ status' = CompleteScan(status, jobs[c].id) /\ ghost' = ghost
                      \/ /\ status' = status
                         /\ ghost' = [ghost EXCEPT !.orphans = @ \cup Pending(jobs[c].id)]
           /\ UNCHANGED <<files, rows, chosen, outer, left>>
<1> DEFINE job == jobs[c]
           answered == c = "poll" /\ poll.pc = "flush" /\ poll.id = job.id
           full == Everything(job)
           paths == IF full THEN {} ELSE job.changed
<1>1. /\ job.step = "remove" /\ job.gone = {} /\ jobs' = [jobs EXCEPT ![c] = NoJob]
      /\ IF Launches(job) THEN Spawn(full, paths, job.id) ELSE scans' = scans
      /\ watch' = (IF c = "main" THEN [watch EXCEPT !.pc = "loop"] ELSE watch)
      /\ poll' = (IF answered THEN [poll EXCEPT !.pc = "sleep", !.id = None] ELSE poll)
      /\ status' = (IF ~Launches(job) /\ answered THEN CompleteScan(status, job.id) ELSE status)
      /\ ghost' = (IF ~Launches(job) /\ ~answered
                   THEN [ghost EXCEPT !.orphans = @ \cup Pending(job.id)] ELSE ghost)
      /\ UNCHANGED <<files, rows, chosen, outer, left>>
    BY DEF Launch, Completes
<1>2. job \in Flushes
    BY DEF TypeOK
<1>3. jobs' \in [Callers -> Flushes] /\ jobs'[c] = NoJob /\ \A d \in Callers \ {c} : jobs'[d] = jobs[d]
    BY <1>1, NoJobFits, Flushed DEF TypeOK
<1>4. /\ watch' \in Watches /\ watch'.native = watch.native /\ watch'.events = watch.events
      /\ watch'.pending = watch.pending /\ watch'.removed = watch.removed
      /\ watch'.pc = IF c = "main" THEN "loop" ELSE watch.pc
    BY <1>1 DEF TypeOK, Watches
<1>5. full \in BOOLEAN /\ paths \in SUBSET Paths /\ job.id \in MaybeId
    BY <1>2 DEF Flushes, Everything
<1>6. answered \in BOOLEAN /\ (answered => poll.pc = "flush")
    OBVIOUS
<1> HIDE DEF answered
<1>7. /\ poll' \in Pollings
      /\ \/ poll' = poll
         \/ /\ poll.pc = "flush" /\ poll'.pc = "sleep" /\ poll'.roots = poll.roots
            /\ poll'.known = poll.known /\ poll'.base = poll.base
            /\ poll'.sweep = poll.sweep /\ poll'.spare = poll.spare
  <2>1. CASE answered
    <3>1. poll' = [poll EXCEPT !.pc = "sleep", !.id = None] /\ poll.pc = "flush"
        BY <2>1, <1>1, <1>6
    <3> QED
        BY <3>1 DEF TypeOK, Pollings, MaybeId
  <2>2. CASE ~answered
      BY <2>2, <1>1 DEF TypeOK
  <2> QED
      BY <2>1, <2>2
<1> HIDE DEF job, full, paths
<1>8. CASE Launches(job)
  <2>1. Spawn(full, paths, job.id) /\ UNCHANGED <<status, ghost>>
      BY <1>8, <1>1
  <2>2. scans' \in [Scanners -> Scannings] /\ Starts(full, paths, job.id)
    <3>1. scans \in [Scanners -> Scannings]
        BY DEF TypeOK
    <3> QED
        BY <3>1, <2>1, <1>5, Spawning
  <2> QED
      BY <1>8, <1>1, <1>3, <1>4, <1>7, <2>1, <2>2 DEF job, full, paths
<1>9. CASE ~Launches(job)
  <2>1. /\ scans' = scans
        /\ \/ status' = CompleteScan(status, job.id) /\ ghost' = ghost
           \/ status' = status /\ ghost' = [ghost EXCEPT !.orphans = @ \cup Pending(job.id)]
      BY <1>9, <1>1
  <2>2. scans' \in [Scanners -> Scannings]
      BY <2>1 DEF TypeOK
  <2> QED
      BY <1>9, <1>1, <1>3, <1>4, <1>7, <2>1, <2>2 DEF job
<1> QED
    BY <1>8, <1>9

\* Requests whose end can no longer be reported.
LEMMA Orphaning ==
    ASSUME TypeOK, NEW id \in MaybeId, ghost' = [ghost EXCEPT !.orphans = @ \cup Pending(id)]
    PROVE  /\ ghost' \in [lost : SUBSET Paths, owed : SUBSET Roots, orphans : SUBSET Ids]
           /\ ghost'.lost = ghost.lost /\ ghost'.owed = ghost.owed
           /\ ghost.orphans \subseteq ghost'.orphans
           /\ id \in Ids /\ status.pend[id] # {} => id \in ghost'.orphans
<1> DEFINE more == ghost.orphans \cup Pending(id)
<1>1. ghost' = [ghost EXCEPT !.orphans = more]
    BY DEF TypeOK
<1>2. more \in SUBSET Ids /\ ghost.orphans \subseteq more
      /\ (id \in Ids /\ status.pend[id] # {} => id \in more)
    BY Places DEF TypeOK, Pending, MaybeId
<1> HIDE DEF more
<1> QED
    BY <1>1, <1>2 DEF TypeOK

LEMMA RemovingRow ==
    ASSUME TypeOK, NEW c \in Callers, NEW p \in Paths, NEW ok \in BOOLEAN, HandleRemove(c, p, ok)
    PROVE  /\ jobs[c].step = "remove" /\ p \in jobs[c].gone /\ Outcome(ok)
           /\ jobs' \in [Callers -> Flushes] /\ \A d \in Callers \ {c} : jobs'[d] = jobs[d]
           /\ jobs'[c].step = "remove" /\ jobs'[c].changed = jobs[c].changed
           /\ jobs'[c].gone = jobs[c].gone \ {p} /\ jobs'[c].ok = (jobs[c].ok /\ ok)
           /\ jobs'[c].full = jobs[c].full /\ jobs'[c].id = jobs[c].id
           /\ rows' \in [Paths -> Times \cup {Invalid}]
           /\ \A q \in Paths : rows'[q] = IF q = p /\ ok THEN 0 ELSE rows[q]
           /\ UNCHANGED <<files, chosen, outer, watch, poll, status>>
<1> DEFINE flag == jobs[c].ok /\ ok
           rest == jobs[c].gone \ {p}
           job == [jobs[c] EXCEPT !.gone = rest, !.ok = flag]
<1>1. jobs[c] \in Flushes
    BY DEF TypeOK
<1>2. /\ jobs[c].step = "remove" /\ p \in jobs[c].gone /\ Outcome(ok)
      /\ jobs' = [jobs EXCEPT ![c] = job] /\ rows' = (IF ok THEN [rows EXCEPT ![p] = 0] ELSE rows)
      /\ UNCHANGED <<files, chosen, outer, watch, poll, status>>
    BY DEF HandleRemove
<1>3. flag \in BOOLEAN /\ rest \in SUBSET Paths /\ flag = (jobs[c].ok /\ ok)
      /\ rest = jobs[c].gone \ {p}
    BY <1>1 DEF Flushes
<1> HIDE DEF flag, rest
<1>4. /\ job \in Flushes /\ job.step = jobs[c].step /\ job.changed = jobs[c].changed
      /\ job.gone = rest /\ job.ok = flag /\ job.full = jobs[c].full /\ job.id = jobs[c].id
    BY <1>1, <1>3 DEF Flushes
<1> HIDE DEF job
<1>5. jobs' \in [Callers -> Flushes] /\ jobs'[c] = job /\ \A d \in Callers \ {c} : jobs'[d] = jobs[d]
    BY <1>2, <1>4, Flushed DEF TypeOK
<1>6. /\ rows' \in [Paths -> Times \cup {Invalid}]
      /\ \A q \in Paths : rows'[q] = IF q = p /\ ok THEN 0 ELSE rows[q]
    BY <1>2, TimesSuffice DEF TypeOK, Times
<1> QED
    BY <1>2, <1>3, <1>4, <1>5, <1>6

LEMMA Idling ==
    ASSUME TypeOK, Idle
    PROVE  /\ poll.pc = "swept" /\ poll.touched = {}
           /\ poll' \in Pollings /\ poll'.pc = "sleep" /\ poll'.roots = poll.roots
           /\ poll'.known = poll.known /\ poll'.base = poll.base
           /\ poll'.sweep = poll.sweep /\ poll'.spare = poll.spare
           /\ status' = Polling(status, poll.roots) /\ poll.roots \in SUBSET Roots
           /\ UNCHANGED <<files, rows, chosen, outer, watch, jobs, scans, left, ghost>>
<1>1. /\ poll.pc = "swept" /\ poll.touched = {} /\ poll' = Done("sleep")
      /\ status' = Polling(status, poll.roots)
      /\ UNCHANGED <<files, rows, chosen, outer, watch, jobs, scans, left, ghost>>
    BY DEF Idle
<1>2. poll \in Pollings
    BY DEF TypeOK
<1>3. poll.roots \in SUBSET Roots
    BY <1>2 DEF Pollings
<1> QED
    BY <1>1, <1>2, <1>3, DoneWith

LEMMA ReportingSweep ==
    ASSUME TypeOK, NEW id \in Ids, Report(id)
    PROVE  /\ poll.pc = "swept" /\ poll.touched \in SUBSET Roots /\ id \in FreeIds
           /\ jobs["poll"].step = "off" /\ jobs' \in [Callers -> Flushes]
           /\ \A d \in Callers \ {"poll"} : jobs'[d] = jobs[d]
           /\ jobs'["poll"].step = "plan" /\ jobs'["poll"].changed = poll.changed
           /\ jobs'["poll"].gone = poll.removed /\ jobs'["poll"].full = poll.initial
           /\ jobs'["poll"].id = id
           /\ poll' \in Pollings /\ poll'.pc = "flush" /\ poll'.roots = poll.roots
           /\ poll'.known = poll.known /\ poll'.base = poll.base
           /\ poll'.sweep = poll.sweep /\ poll'.spare = poll.spare
           /\ status' \in Statuses /\ Says(status') /\ status'.polling = poll.roots
           /\ status'.recovering = status.recovering
           /\ \A i \in Ids : status'.pend[i] = IF i = id THEN poll.touched ELSE status.pend[i]
           /\ UNCHANGED <<files, rows, chosen, outer, watch, scans, left, ghost>>
<1> DEFINE mid == Polling(status, poll.roots)
           job == [NoJob EXCEPT !.step = "plan", !.changed = poll.changed, !.gone = poll.removed,
                                !.full = poll.initial, !.id = id]
<1>1. /\ poll.pc = "swept" /\ id \in FreeIds /\ jobs["poll"].step = "off"
      /\ status' = RegisterScan(mid, id, poll.touched, {})
      /\ jobs' = [jobs EXCEPT !["poll"] = job] /\ poll' = [Done("flush") EXCEPT !.id = id]
      /\ UNCHANGED <<files, rows, chosen, outer, watch, scans, left, ghost>>
    BY DEF Report
<1>2. /\ poll \in Pollings /\ poll.roots \in SUBSET Roots /\ poll.touched \in SUBSET Roots
      /\ poll.changed \in SUBSET Paths /\ poll.removed \in SUBSET Paths /\ poll.initial \in BOOLEAN
    BY DEF TypeOK, Pollings
<1>3. /\ job \in Flushes /\ job.step = "plan" /\ job.changed = poll.changed
      /\ job.gone = poll.removed /\ job.full = poll.initial /\ job.id = id
    BY <1>2, NoJobFits DEF Flushes, MaybeId
<1> HIDE DEF job
<1>4. /\ jobs' \in [Callers -> Flushes] /\ jobs'["poll"] = job
      /\ \A d \in Callers \ {"poll"} : jobs'[d] = jobs[d]
    BY <1>1, <1>3, Flushed DEF TypeOK, Callers
<1>5. /\ mid \in Statuses /\ mid.polling = poll.roots /\ mid.recovering = status.recovering
      /\ mid.pend = status.pend
    BY <1>2, PollingSays DEF TypeOK
<1> HIDE DEF mid
<1>6. /\ status' \in Statuses /\ Says(status') /\ status'.polling = poll.roots
      /\ status'.recovering = status.recovering
      /\ \A i \in Ids : status'.pend[i] = IF i = id THEN poll.touched ELSE status.pend[i]
  <2> DEFINE new == RegisterScan(mid, id, poll.touched, {})
  <2>1. {} \in SUBSET Roots
      OBVIOUS
  <2>2. Registered(new, mid, id, poll.touched, {})
      BY <2>1, <1>2, <1>5, Registering
  <2>3. status' = new
      BY <1>1
  <2> HIDE DEF new
  <2> QED
      BY <2>2, <2>3, <1>5 DEF Registered
<1>7. /\ poll' \in Pollings /\ poll'.pc = "flush" /\ poll'.roots = poll.roots
      /\ poll'.known = poll.known /\ poll'.base = poll.base
      /\ poll'.sweep = poll.sweep /\ poll'.spare = poll.spare
    BY <1>1, <1>2, DoneForId
<1> QED
    BY <1>1, <1>2, <1>3, <1>4, <1>6, <1>7

LEMMA HandingOff ==
    ASSUME TypeOK, NEW recovered \in SUBSET Roots, NEW id \in Ids, HandOff(recovered, id)
    PROVE  /\ poll.pc = "swept" /\ recovered \subseteq poll.roots /\ id \in FreeIds
           /\ scans' \in [Scanners -> Scannings] /\ Starts(TRUE, {}, id)
           /\ poll' \in Pollings /\ poll'.pc \in {"sleep", "hold"}
           /\ poll'.roots = poll.roots \ recovered /\ poll'.spare = poll.spare \cup recovered
           /\ poll'.known = poll.known /\ poll'.base = poll.base /\ poll'.sweep = poll.sweep
           /\ status' \in Statuses /\ Says(status') /\ status'.polling = poll.roots \ recovered
           /\ status'.recovering = status.recovering \cup recovered
           /\ \A i \in Ids : status'.pend[i] = IF i = id THEN poll.roots ELSE status.pend[i]
           /\ ghost' \in [lost : SUBSET Paths, owed : SUBSET Roots, orphans : SUBSET Ids]
           /\ ghost'.lost = ghost.lost /\ ghost'.owed = ghost.owed \cup recovered
           /\ ghost'.orphans = ghost.orphans
           /\ UNCHANGED <<files, rows, chosen, outer, watch, jobs, left>>
<1> DEFINE rest == poll.roots \ recovered
           pc == IF rest = {} THEN "hold" ELSE "sleep"
           mid == Polling(status, rest)
           owed == ghost.owed \cup recovered
<1>1. /\ poll.pc = "swept" /\ recovered \subseteq poll.roots /\ id \in FreeIds
      /\ Spawn(TRUE, {}, id) /\ status' = RegisterScan(mid, id, poll.roots, recovered)
      /\ poll' = [Done(pc) EXCEPT !.roots = rest, !.spare = @ \cup recovered]
      /\ UNCHANGED <<files, rows, chosen, outer, watch, jobs, left>>
    BY DEF HandOff
<1>2. ghost' = [ghost EXCEPT !.owed = owed] /\ owed \in SUBSET Roots
    BY DEF HandOff, TypeOK
<1>3. poll \in Pollings /\ poll.roots \in SUBSET Roots
    BY DEF TypeOK, Pollings
<1>4. rest \in SUBSET Roots /\ pc \in {"sleep", "hold"}
    BY <1>3
<1>5. id \in MaybeId /\ {} \in SUBSET Paths /\ TRUE \in BOOLEAN
    BY DEF MaybeId
<1>6. scans' \in [Scanners -> Scannings] /\ Starts(TRUE, {}, id)
  <2>1. scans \in [Scanners -> Scannings]
      BY DEF TypeOK
  <2> QED
      BY <2>1, <1>1, <1>5, Spawning
<1>7. owed = ghost.owed \cup recovered /\ rest = poll.roots \ recovered
    OBVIOUS
<1> HIDE DEF rest, pc, owed
<1>8. mid \in Statuses /\ mid.polling = rest /\ mid.recovering = status.recovering
      /\ mid.pend = status.pend
    BY <1>4, PollingSays DEF TypeOK
<1> HIDE DEF mid
<1>9. /\ status' \in Statuses /\ Says(status') /\ status'.polling = rest
      /\ status'.recovering = status.recovering \cup recovered
      /\ \A i \in Ids : status'.pend[i] = IF i = id THEN poll.roots ELSE status.pend[i]
  <2> DEFINE new == RegisterScan(mid, id, poll.roots, recovered)
  <2>1. Registered(new, mid, id, poll.roots, recovered)
      BY <1>3, <1>8, Registering
  <2>2. status' = new
      BY <1>1
  <2> HIDE DEF new
  <2> QED
      BY <2>1, <2>2, <1>8 DEF Registered
<1>10. /\ poll' \in Pollings /\ poll'.pc = pc /\ poll'.roots = rest
       /\ poll'.spare = poll.spare \cup recovered
       /\ poll'.known = poll.known /\ poll'.base = poll.base /\ poll'.sweep = poll.sweep
  <2> DEFINE old == Done(pc)
             spare == poll.spare \cup recovered
  <2>1. /\ old \in Pollings /\ old.pc = pc /\ old.known = poll.known /\ old.base = poll.base
        /\ old.sweep = poll.sweep /\ old.spare = poll.spare
      BY <1>3, <1>4, DoneWith
  <2>2. poll' = [old EXCEPT !.roots = rest, !.spare = spare]
      BY <1>1, <2>1
  <2>3. spare \in SUBSET Roots /\ spare = poll.spare \cup recovered
      BY <1>3 DEF Pollings
  <2> HIDE DEF old, spare
  <2> QED
      BY <1>4, <2>1, <2>2, <2>3 DEF Pollings
<1>11. /\ ghost' \in [lost : SUBSET Paths, owed : SUBSET Roots, orphans : SUBSET Ids]
       /\ ghost'.lost = ghost.lost /\ ghost'.owed = owed /\ ghost'.orphans = ghost.orphans
    BY <1>2 DEF TypeOK
<1> QED
    BY <1>1, <1>4, <1>6, <1>7, <1>9, <1>10, <1>11

LEMMA Repairing ==
    ASSUME TypeOK, NEW s \in Scanners, ScanDone(s)
    PROVE  /\ ghost' \in [lost : SUBSET Paths, owed : SUBSET Roots, orphans : SUBSET Ids]
           /\ ghost'.lost = ghost.lost \ scans[s].repairs
           /\ ghost'.owed = ghost.owed \ scans[s].covers /\ ghost'.orphans = ghost.orphans
           /\ status' = CompleteScan(status, scans[s].id) /\ scans[s].id \in MaybeId
           /\ scans[s].step = "report"
           /\ UNCHANGED <<files, rows, chosen, outer, watch, poll, jobs, left>>
<1> DEFINE lost == ghost.lost \ scans[s].repairs
           owed == ghost.owed \ scans[s].covers
<1>1. /\ ghost' = [ghost EXCEPT !.lost = lost, !.owed = owed]
      /\ status' = CompleteScan(status, scans[s].id) /\ scans[s].step = "report"
      /\ UNCHANGED <<files, rows, chosen, outer, watch, poll, jobs, left>>
    BY DEF ScanDone, TypeOK
<1>2. /\ lost \in SUBSET Paths /\ owed \in SUBSET Roots
      /\ lost = ghost.lost \ scans[s].repairs /\ owed = ghost.owed \ scans[s].covers
    BY DEF TypeOK
<1>3. scans[s].id \in MaybeId
    BY DEF TypeOK, Scannings
<1> HIDE DEF lost, owed
<1> QED
    BY <1>1, <1>2, <1>3 DEF TypeOK

LEMMA Abandoning ==
    ASSUME TypeOK, NEW s \in Scanners, Die(s)
    PROVE  /\ ghost' \in [lost : SUBSET Paths, owed : SUBSET Roots, orphans : SUBSET Ids]
           /\ ghost'.lost = ghost.lost \cup DiesWith(s) /\ ghost'.owed = ghost.owed
           /\ ghost.orphans \subseteq ghost'.orphans
           /\ scans[s].id \in Ids /\ status.pend[scans[s].id] # {} => scans[s].id \in ghost'.orphans
           /\ left' \in Limits /\ left'.cap = left.cap /\ left'.paths = left.paths
           /\ left'.acts = left.acts
           /\ UNCHANGED <<files, rows, chosen, outer, watch, poll, jobs, status>>
<1> DEFINE lost == ghost.lost \cup DiesWith(s)
           orphans == ghost.orphans \cup Pending(scans[s].id)
<1>1. scans[s].id \in MaybeId
    BY DEF TypeOK, Scannings
<1>2. ghost' = [ghost EXCEPT !.lost = lost, !.orphans = orphans] /\ DiesWith(s) \in SUBSET Paths
  <2>1. DiesWith(s) = CASE scans[s].step = "report" -> {}
                        [] scans[s].step # "report" /\ scans[s].full -> Paths
                        [] OTHER -> scans[s].paths
      BY DEF DiesWith, TypeOK, Scannings
  <2>2. ghost' = [ghost EXCEPT !.lost = ghost.lost \cup DiesWith(s),
                               !.orphans = ghost.orphans \cup Pending(scans[s].id)]
      BY <2>1 DEF Die, TypeOK
  <2> QED
      BY <2>2, Dying
<1>3. /\ lost \in SUBSET Paths /\ lost = ghost.lost \cup DiesWith(s)
      /\ orphans \in SUBSET Ids /\ ghost.orphans \subseteq orphans
      /\ scans[s].id \in Ids /\ status.pend[scans[s].id] # {} => scans[s].id \in orphans
    BY <1>1, <1>2, Places DEF TypeOK, Pending, MaybeId
<1>4. Use("troubles") /\ UNCHANGED <<files, rows, chosen, outer, watch, poll, jobs, status>>
    BY DEF Die
<1>5. left' \in Limits /\ left'.cap = left.cap /\ left'.paths = left.paths /\ left'.acts = left.acts
    BY <1>4, UseTrouble DEF TypeOK
<1> HIDE DEF lost, orphans
<1>6. /\ ghost' \in [lost : SUBSET Paths, owed : SUBSET Roots, orphans : SUBSET Ids]
      /\ ghost'.lost = lost /\ ghost'.owed = ghost.owed /\ ghost'.orphans = orphans
    BY <1>2, <1>3 DEF TypeOK
<1> QED
    BY <1>3, <1>4, <1>5, <1>6

-----------------------------------------------------------------------------
(* The types are kept *)

\* What the writers of rows and the removals do to the rows and the limits.
LEMMA Storing ==
    ASSUME TypeOK, NEW s \in Scanners, NEW p \in Paths, NEW ok \in BOOLEAN, Upsert(s, p, ok)
    PROVE  /\ rows' \in [Paths -> Times \cup {Invalid}]
           /\ \A q \in Paths : rows'[q] = IF q = p /\ ok THEN scans[s].seen[p] ELSE rows[q]
           /\ left' \in Limits /\ left'.cap = left.cap /\ left'.paths = left.paths
           /\ left'.acts = left.acts
           /\ UNCHANGED <<files, chosen, outer, watch, poll, jobs, status>>
<1>1. scans[s].seen[p] \in Times /\ rows \in [Paths -> Times \cup {Invalid}]
    BY DEF TypeOK, Scannings
<1>2. /\ rows' = (IF ok THEN [rows EXCEPT ![p] = scans[s].seen[p]] ELSE rows) /\ Outcome(ok)
      /\ UNCHANGED <<files, chosen, outer, watch, poll, jobs, status>>
    BY DEF Upsert
<1>3. left' \in Limits /\ left'.cap = left.cap /\ left'.paths = left.paths /\ left'.acts = left.acts
    BY <1>2, OutcomeTyped DEF TypeOK
<1> QED
    BY <1>1, <1>2, <1>3

LEMMA Deleting ==
    ASSUME TypeOK, NEW s \in Scanners, NEW ok \in BOOLEAN, PruneDelete(s, ok)
    PROVE  /\ rows' \in [Paths -> Times \cup {Invalid}]
           /\ \A q \in Paths : rows'[q] = IF q \in scans[s].gone /\ ok THEN 0 ELSE rows[q]
           /\ left' \in Limits /\ left'.cap = left.cap /\ left'.paths = left.paths
           /\ left'.acts = left.acts
           /\ UNCHANGED <<files, chosen, outer, watch, poll, jobs, status>>
<1>1. 0 \in Times /\ rows \in [Paths -> Times \cup {Invalid}]
    BY TimesSuffice DEF TypeOK, Times
<1>2. /\ rows' = (IF ok THEN [p \in Paths |-> IF p \in scans[s].gone THEN 0 ELSE rows[p]] ELSE rows)
      /\ Outcome(ok) /\ UNCHANGED <<files, chosen, outer, watch, poll, jobs, status>>
    BY DEF PruneDelete
<1>3. left' \in Limits /\ left'.cap = left.cap /\ left'.paths = left.paths /\ left'.acts = left.acts
    BY <1>2, OutcomeTyped DEF TypeOK
<1> QED
    BY <1>1, <1>2, <1>3

LEMMA TypesKept ==
    ASSUME TypeOK, [Next]_vars
    PROVE  TypeOK'
<1>1. ASSUME NEW p \in Paths, NEW time \in Times, Change(p, time)
      PROVE  TypeOK'
  <2>1. PICK lost \in SUBSET {p} :
            /\ left' \in Limits /\ left'.cap = left.cap /\ files' \in [Paths -> Times]
            /\ watch' \in Watches /\ watch'.pending = watch.pending /\ watch'.removed = watch.removed
            /\ scans' \in [Scanners -> Scannings] /\ ghost' = [ghost EXCEPT !.lost = @ \cup lost]
            /\ UNCHANGED <<rows, chosen, outer, poll, jobs, status>>
      BY <1>1, Changing
  <2>2. ghost' \in [lost : SUBSET Paths, owed : SUBSET Roots, orphans : SUBSET Ids]
      BY <2>1, Losing
  <2> QED
      BY <2>1, <2>2 DEF TypeOK
<1>2. ASSUME NEW x \in Settings, Choose(x)
      PROVE  TypeOK'
    BY <1>2, Choosing DEF TypeOK
<1>3. ASSUME NEW failed \in SUBSET Roots, Install(failed)
      PROVE  TypeOK'
  <2>1. /\ outer' \in [pc : {"install", "rescan", "await"}, setting : Settings]
        /\ left' \in Limits /\ left'.cap = left.cap
        /\ watch' \in Watches /\ watch'.pending = {} /\ watch'.removed = {}
        /\ poll' = Poller(failed, chosen) /\ status' = Fresh(status, failed, chosen)
        /\ ghost' \in [lost : SUBSET Paths, owed : SUBSET Roots, orphans : SUBSET Ids]
        /\ UNCHANGED <<files, rows, chosen, jobs, scans>>
      BY <1>3, Installing
  <2>2. poll' \in Pollings /\ status' \in Statuses
      BY <2>1, Beginning DEF TypeOK
  <2>3. Cardinality({}) = 0 /\ left.cap \in Nat
      BY FS_EmptySet DEF TypeOK, Limits
  <2> QED
      BY <2>1, <2>2, <2>3 DEF TypeOK
<1>4. ASSUME Rescan PROVE TypeOK'
    BY <1>4, Rescanning DEF TypeOK
<1>5. ASSUME Replace PROVE TypeOK'
  <2>1. Cardinality({}) = 0 /\ left.cap \in Nat
      BY FS_EmptySet DEF TypeOK, Limits
  <2> QED
    <3>1. /\ outer' \in [pc : {"install", "rescan", "await"}, setting : Settings]
          /\ poll' \in Pollings /\ watch' \in Watches /\ watch'.pending = {} /\ watch'.removed = {}
          /\ UNCHANGED <<files, rows, chosen, jobs, scans, status, left, ghost>>
        BY <1>5, Replacing
    <3> QED
        BY <2>1, <3>1 DEF TypeOK
<1>6. ASSUME Settled PROVE TypeOK'
  <2>1. /\ watch.pc = "loop" /\ After(watch, TRUE) /\ watch \in Watches
        /\ Cardinality(watch.pending) <= left.cap /\ Cardinality(watch.removed) <= left.cap
        /\ UNCHANGED <<files, chosen, outer, poll, scans, status, left, ghost>>
      BY <1>6, Settling
  <2>2. /\ watch' \in Watches /\ jobs' \in [Callers -> Flushes]
        /\ rows' \in [Paths -> Times \cup {Invalid}]
        /\ Cardinality(watch'.pending) <= left.cap /\ Cardinality(watch'.removed) <= left.cap
      BY <2>1, Aftermath
  <2> QED
      BY <2>1, <2>2 DEF TypeOK
<1>7. ASSUME NEW e \in watch.events, NEW held \in BOOLEAN, Event(e, held)
      PROVE  TypeOK'
  <2>1. PICK w \in Watches :
            /\ w.pc = "loop" /\ After(w, held) /\ DroppedBy(watch, e) \in SUBSET Paths
            /\ Cardinality(w.pending) <= left.cap /\ Cardinality(w.removed) <= left.cap
            /\ ghost' = [ghost EXCEPT !.lost = @ \cup DroppedBy(watch, e)]
            /\ scans' \in [Scanners -> Scannings]
            /\ UNCHANGED <<files, chosen, outer, poll, status, left>>
      BY <1>7, Hearing
  <2>2. /\ watch' \in Watches /\ jobs' \in [Callers -> Flushes]
        /\ rows' \in [Paths -> Times \cup {Invalid}]
        /\ Cardinality(watch'.pending) <= left.cap /\ Cardinality(watch'.removed) <= left.cap
      BY <2>1, Aftermath
  <2>3. ghost' \in [lost : SUBSET Paths, owed : SUBSET Roots, orphans : SUBSET Ids]
      BY <2>1, Losing
  <2> QED
      BY <2>1, <2>2, <2>3 DEF TypeOK
<1>8. ASSUME NEW c \in Callers, Plan(c)
      PROVE  TypeOK'
    BY <1>8, Planning DEF TypeOK
<1>9. ASSUME NEW c \in Callers, Launch(c)
      PROVE  TypeOK'
  <2>1. /\ jobs' \in [Callers -> Flushes] /\ watch' \in Watches /\ watch'.pending = watch.pending
        /\ watch'.removed = watch.removed /\ poll' \in Pollings /\ scans' \in [Scanners -> Scannings]
        /\ UNCHANGED <<files, rows, chosen, outer, left>>
      BY <1>9, Launching
  <2>2. jobs[c].id \in MaybeId
      BY DEF TypeOK, Flushes
  <2>3. status' \in Statuses
        /\ ghost' \in [lost : SUBSET Paths, owed : SUBSET Roots, orphans : SUBSET Ids]
    <3>1. \/ UNCHANGED <<status, ghost>>
          \/ status' = CompleteScan(status, jobs[c].id) /\ ghost' = ghost
          \/ status' = status /\ ghost' = [ghost EXCEPT !.orphans = @ \cup Pending(jobs[c].id)]
        BY <1>9, Launching
    <3>2. CompleteScan(status, jobs[c].id) \in Statuses
        BY <2>2, Completing DEF TypeOK
    <3> QED
        BY <3>1, <3>2, <2>2, Orphaning DEF TypeOK
  <2> QED
      BY <2>1, <2>3 DEF TypeOK
<1>10. ASSUME NEW c \in Callers, NEW p \in Paths, NEW ok \in BOOLEAN, HandleRemove(c, p, ok)
       PROVE  TypeOK'
  <2>1. /\ jobs' \in [Callers -> Flushes] /\ rows' \in [Paths -> Times \cup {Invalid}] /\ Outcome(ok)
        /\ UNCHANGED <<files, chosen, outer, watch, poll, status>>
      BY <1>10, RemovingRow
  <2> PICK lost \in SUBSET {p} : Removes(p, ok, lost)
      BY <1>10, Removing
  <2>2. scans' \in [Scanners -> Scannings] /\ ghost' = [ghost EXCEPT !.lost = @ \cup lost]
      BY DEF Removes
  <2>3. left' \in Limits /\ left'.cap = left.cap
      BY <2>1, OutcomeTyped DEF TypeOK
  <2>4. ghost' \in [lost : SUBSET Paths, owed : SUBSET Roots, orphans : SUBSET Ids]
      BY <2>2, Losing
  <2> QED
      BY <2>1, <2>2, <2>3, <2>4 DEF TypeOK
<1>11. ASSUME Idle PROVE TypeOK'
  <2>1. /\ poll' \in Pollings /\ status' = Polling(status, poll.roots) /\ poll.roots \in SUBSET Roots
        /\ UNCHANGED <<files, rows, chosen, outer, watch, jobs, scans, left, ghost>>
      BY <1>11, Idling
  <2>2. status' \in Statuses
      BY <2>1, PollingSays DEF TypeOK
  <2> QED
      BY <2>1, <2>2 DEF TypeOK
<1>12. ASSUME NEW id \in Ids, Report(id)
       PROVE  TypeOK'
    BY <1>12, ReportingSweep DEF TypeOK
<1>13. ASSUME NEW id \in Ids, NEW recovered \in SUBSET Roots, HandOff(recovered, id)
       PROVE  TypeOK'
    BY <1>13, HandingOff DEF TypeOK
<1>14. ASSUME NEW batch \in SUBSET Paths, NEW failed \in SUBSET Roots, Advance(batch, failed)
       PROVE  TypeOK'
  <2>1. /\ poll' \in Pollings /\ scans' \in [Scanners -> Scannings] /\ Outcome(failed = {})
        /\ ghost' = [ghost EXCEPT !.lost = @ \cup Missed(failed)]
        /\ UNCHANGED <<files, rows, chosen, outer, watch, jobs, status>>
      BY <1>14, Sweeping
  <2>2. left' \in Limits /\ left'.cap = left.cap
      BY <2>1, OutcomeTyped DEF TypeOK
  <2>3. ghost' \in [lost : SUBSET Paths, owed : SUBSET Roots, orphans : SUBSET Ids]
    <3>1. Missed(failed) \in SUBSET Paths
        BY DEF Missed
    <3> QED
        BY <2>1, <3>1, Losing
  <2> QED
      BY <2>1, <2>2, <2>3 DEF TypeOK
<1>15. ASSUME NEW s \in Scanners, Walk(s)
       PROVE  TypeOK'
  <2>1. scans' \in [Scanners -> Scannings]
      BY <1>15, Walking
  <2>2. UNCHANGED <<files, rows, chosen, outer, watch, poll, jobs, status, left, ghost>>
      BY <1>15 DEF Walk
  <2> QED
      BY <2>1, <2>2 DEF TypeOK
<1>16. ASSUME NEW s \in Scanners, PruneLook(s)
       PROVE  TypeOK'
  <2>1. UNCHANGED <<files, rows, chosen, outer, watch, poll, jobs, status, left, ghost>>
      BY <1>16 DEF PruneLook
  <2> QED
      BY <2>1, <1>16, PruneLooking DEF TypeOK
<1>17. ASSUME NEW s \in Scanners, ScanDone(s)
       PROVE  TypeOK'
  <2>1. scans' \in [Scanners -> Scannings]
      BY <1>17, Reporting
  <2>2. /\ ghost' \in [lost : SUBSET Paths, owed : SUBSET Roots, orphans : SUBSET Ids]
        /\ status' = CompleteScan(status, scans[s].id) /\ scans[s].id \in MaybeId
        /\ UNCHANGED <<files, rows, chosen, outer, watch, poll, jobs, left>>
      BY <1>17, Repairing
  <2>3. status' \in Statuses
      BY <2>2, Completing DEF TypeOK
  <2> QED
      BY <2>1, <2>2, <2>3 DEF TypeOK
<1>18. ASSUME NEW s \in Scanners, NEW p \in Paths, Decode(s, p)
       PROVE  TypeOK'
  <2>1. scans' \in [Scanners -> Scannings]
      BY <1>18, Decoding
  <2>2. UNCHANGED <<files, rows, chosen, outer, watch, poll, jobs, status, left, ghost>>
      BY <1>18 DEF Decode
  <2> QED
      BY <2>1, <2>2 DEF TypeOK
<1>19. ASSUME NEW s \in Scanners, NEW p \in Paths, NEW ok \in BOOLEAN, Upsert(s, p, ok)
       PROVE  TypeOK'
  <2> PICK lost \in SUBSET {p} : Stores(s, p, ok, lost)
      BY <1>19, Upserting
  <2>1. scans' \in [Scanners -> Scannings] /\ ghost' = [ghost EXCEPT !.lost = @ \cup lost]
      BY DEF Stores
  <2>2. ghost' \in [lost : SUBSET Paths, owed : SUBSET Roots, orphans : SUBSET Ids]
      BY <2>1, Losing
  <2> QED
      BY <2>1, <2>2, <1>19, Storing DEF TypeOK
<1>20. ASSUME NEW s \in Scanners, NEW ok \in BOOLEAN, PruneDelete(s, ok)
       PROVE  TypeOK'
  <2> PICK lost \in SUBSET Paths : Deletes(s, ok, lost)
      BY <1>20, PruneDeleting
  <2>1. scans' \in [Scanners -> Scannings] /\ ghost' = [ghost EXCEPT !.lost = @ \cup lost]
      BY DEF Deletes
  <2>2. ghost' \in [lost : SUBSET Paths, owed : SUBSET Roots, orphans : SUBSET Ids]
      BY <2>1, Losing
  <2> QED
      BY <2>1, <2>2, <1>20, Deleting DEF TypeOK
<1>21. ASSUME NEW s \in Scanners, Die(s)
       PROVE  TypeOK'
  <2>1. scans' \in [Scanners -> Scannings]
      BY <1>21, Dying
  <2> QED
      BY <2>1, <1>21, Abandoning DEF TypeOK
<1>22. CASE UNCHANGED vars
    BY <1>22 DEF vars, TypeOK
<1> QED
    BY <1>1, <1>2, <1>3, <1>4, <1>5, <1>6, <1>7, <1>8, <1>9, <1>10, <1>11, <1>12, <1>13, <1>14,
       <1>15, <1>16, <1>17, <1>18, <1>19, <1>20, <1>21, <1>22
       DEF Next, Environment, Outer, Main, Job, Poll, Scan

-----------------------------------------------------------------------------
(* Times pass, and nothing happens to the other paths *)

\* What was walked is what is there.
SeenKept == \A s \in Scanners : \A p \in Paths :
                scans'[s].seen[p] \in {scans[s].seen[p], 0, files[p]}

LEMMA NoneWalks ==
    ASSUME NEW T, NEW L, OthersSee({}, T, L)
    PROVE  SeenKept
BY DEF OthersSee, Seen, SameScan, SeenKept

LEMMA OneWalks ==
    ASSUME NEW s \in Scanners, NEW T, NEW L, OthersSee({s}, T, L),
           \A p \in Paths : scans'[s].seen[p] \in {scans[s].seen[p], 0, files[p]}
    PROVE  SeenKept
<1>1. ASSUME NEW x \in Scanners, NEW p \in Paths
      PROVE  scans'[x].seen[p] \in {scans[x].seen[p], 0, files[p]}
  <2>1. CASE x = s
      BY <2>1
  <2>2. CASE x # s
      BY <2>2 DEF OthersSee, Seen, SameScan
  <2> QED
      BY <2>1, <2>2
<1> QED
    BY <1>1 DEF SeenKept

LEMMA StartsWalk ==
    ASSUME NEW full, NEW paths, NEW id, Starts(full, paths, id)
    PROVE  SeenKept
<1>1. PICK s \in Scanners : OthersSee({s}, {}, {}) /\ scans'[s].seen = [p \in Paths |-> 0]
    BY DEF Starts, Fresh1
<1> QED
    BY <1>1, OneWalks

RowsKept == \A p \in Paths : \/ rows'[p] \in {rows[p], 0}
                             \/ rows'[p] = Invalid /\ rows[p] # 0
                             \/ \E s \in Scanners : rows'[p] = scans[s].seen[p]
SweepsKept == \A p \in Paths : /\ poll'.base[p] \in {poll.base[p], 0, files[p], poll.sweep[p]}
                               /\ poll'.sweep[p] \in {poll.sweep[p], Unread, files[p]}

LEMMA TimesStay ==
    ASSUME TypeOK, TypeOK', TimesPassed, Elsewhere,
           left'.paths = left.paths, left'.acts <= left.acts,
           \A p \in Paths : \/ files'[p] = files[p]
                            \/ p \in left.paths /\ files'[p] < NextTime',
           RowsKept, SweepsKept, SeenKept
    PROVE  TimesPassed' /\ Elsewhere'
<1>1. /\ NextTime \in Int /\ NextTime' \in Int /\ 1 < NextTime /\ NextTime <= NextTime'
  <2>1. left.acts \in Nat /\ left'.acts \in Nat /\ LastTime \in Nat /\ left.acts + 2 <= LastTime
      BY TimesSuffice DEF TypeOK, Limits
  <2>2. NextTime = LastTime - left.acts /\ NextTime' = LastTime - left'.acts
      BY DEF NextTime
  <2> HIDE DEF NextTime
  <2> QED
      BY <2>1, <2>2
<1> HIDE DEF NextTime
<1>2. ASSUME NEW p \in Paths
      PROVE  /\ files'[p] < NextTime' /\ rows'[p] < NextTime'
             /\ poll'.base[p] < NextTime' /\ poll'.sweep[p] < NextTime'
             /\ p \notin left.paths => files'[p] = 0 /\ rows'[p] = 0
  <2>1. /\ files[p] \in Int /\ rows[p] \in Int /\ poll.base[p] \in Int /\ poll.sweep[p] \in Int
        /\ \A s \in Scanners : scans[s].seen[p] \in Int
      BY TimesSuffice DEF TypeOK, Pollings, Scannings, Times, Invalid, Unread
  <2>2. /\ files[p] < NextTime /\ rows[p] < NextTime /\ poll.base[p] < NextTime
        /\ poll.sweep[p] < NextTime /\ \A s \in Scanners : scans[s].seen[p] < NextTime
      BY DEF TimesPassed
  <2>3. p \notin left.paths => /\ files[p] = 0 /\ rows[p] = 0
                               /\ \A s \in Scanners : scans[s].seen[p] = 0
      BY DEF Elsewhere
  <2>4. files'[p] < NextTime' /\ (p \notin left.paths => files'[p] = 0)
      BY <1>1, <2>1, <2>2, <2>3
  <2>5. rows'[p] < NextTime' /\ (p \notin left.paths => rows'[p] = 0)
      BY <1>1, <2>1, <2>2, <2>3 DEF RowsKept, Invalid
  <2>6. poll'.base[p] < NextTime' /\ poll'.sweep[p] < NextTime'
      BY <1>1, <2>1, <2>2 DEF SweepsKept, Unread
  <2> QED
      BY <2>4, <2>5, <2>6
<1>3. ASSUME NEW s \in Scanners, NEW p \in Paths
      PROVE  scans'[s].seen[p] < NextTime' /\ (p \notin left.paths => scans'[s].seen[p] = 0)
  <2>1. files[p] \in Int /\ scans[s].seen[p] \in Int
      BY TimesSuffice DEF TypeOK, Scannings, Times
  <2>2. files[p] < NextTime /\ scans[s].seen[p] < NextTime
        /\ (p \notin left.paths => files[p] = 0 /\ scans[s].seen[p] = 0)
      BY DEF TimesPassed, Elsewhere
  <2>3. scans'[s].seen[p] \in {scans[s].seen[p], 0, files[p]}
      BY DEF SeenKept
  <2> QED
      BY <1>1, <2>1, <2>2, <2>3
<1>4. TimesPassed'
    BY <1>2, <1>3 DEF TimesPassed
<1>5. Elsewhere'
    BY <1>2, <1>3 DEF Elsewhere
<1> QED
    BY <1>4, <1>5

LEMMA TimesKept ==
    ASSUME TypeOK, TypeOK', TimesPassed, Elsewhere, [Next]_vars
    PROVE  TimesPassed' /\ Elsewhere'
<1> DEFINE FilesStay == \A p \in Paths : \/ files'[p] = files[p]
                                         \/ p \in left.paths /\ files'[p] < NextTime'
           LeftStays == left'.paths = left.paths /\ left'.acts <= left.acts
           Goal == FilesStay /\ LeftStays /\ RowsKept /\ SweepsKept /\ SeenKept
<1>a. files' = files => FilesStay
    OBVIOUS
<1>b. \A acts : acts = left.acts => acts <= left.acts
    BY DEF TypeOK, Limits
<1>c. left' = left => LeftStays
    BY <1>b
<1>g. left'.paths = left.paths /\ left'.acts = left.acts => LeftStays
    BY <1>b
<1>d. rows' = rows => RowsKept
    BY DEF RowsKept
<1>e. poll' = poll => SweepsKept
    BY DEF SweepsKept
<1>f. scans' = scans => SeenKept
    BY DEF SeenKept
<1> HIDE DEF FilesStay, LeftStays
<1>1. ASSUME NEW p \in Paths, NEW time \in Times, Change(p, time)
      PROVE  Goal
  <2>1. PICK lost \in SUBSET {p} :
            /\ p \in left.paths /\ (time = 0 \/ time = NextTime)
            /\ left' \in Limits /\ left'.paths = left.paths
            /\ left'.acts = left.acts - 1 /\ left.acts \in Nat
            /\ \A q \in Paths : files'[q] = IF q = p THEN time ELSE files[q]
            /\ OthersSee({}, {}, lost) /\ UNCHANGED <<rows, poll>>
      BY <1>1, Changing
  <2>2. time < NextTime' /\ LeftStays
    <3>1. NextTime = LastTime - left.acts /\ NextTime' = LastTime - left'.acts
        BY DEF NextTime
    <3>2. left.acts + 2 <= LastTime /\ LastTime \in Nat
        BY TimesSuffice DEF TypeOK, Limits
    <3> HIDE DEF NextTime
    <3> QED
        BY <2>1, <3>1, <3>2 DEF LeftStays
  <2>3. FilesStay
      BY <2>1, <2>2 DEF FilesStay
  <2> QED
      BY <2>1, <2>2, <2>3, <1>d, <1>e, NoneWalks
<1>2. ASSUME NEW x \in Settings, Choose(x)
      PROVE  Goal
  <2>1. /\ left'.paths = left.paths /\ left'.acts = left.acts - 1 /\ left.acts \in Nat
        /\ UNCHANGED <<files, rows, poll, scans>>
      BY <1>2, Choosing
  <2>2. LeftStays
      BY <2>1 DEF LeftStays
  <2> QED
      BY <2>1, <2>2, <1>a, <1>d, <1>e, <1>f
<1>3. ASSUME NEW failed \in SUBSET Roots, Install(failed)
      PROVE  Goal
  <2>1. /\ left'.paths = left.paths /\ left'.acts = left.acts
        /\ poll' = Poller(failed, chosen) /\ UNCHANGED <<files, rows, scans>>
      BY <1>3, Installing
  <2>2. \A p \in Paths : poll'.base[p] = 0 /\ poll'.sweep[p] = Unread
    <3>1. status \in Statuses
        BY DEF TypeOK
    <3>2. Blank(Poller(failed, chosen))
        BY <3>1, Beginning
    <3> QED
        BY <2>1, <3>2 DEF Blank
  <2>3. SweepsKept
      BY <2>2 DEF SweepsKept
  <2> QED
      BY <2>1, <2>3, <1>a, <1>g, <1>d, <1>f
<1>4. ASSUME Rescan PROVE Goal
    BY <1>4, <1>a, <1>c, <1>d, <1>e, <1>f DEF Rescan
<1>5. ASSUME Replace PROVE Goal
  <2>1. \A p \in Paths : poll'.base[p] = 0 /\ poll'.sweep[p] = Unread
      BY <1>5, Replacing
  <2>2. UNCHANGED <<files, rows, scans, left>>
      BY <1>5 DEF Replace
  <2>3. SweepsKept
      BY <2>1 DEF SweepsKept
  <2> QED
      BY <2>2, <2>3, <1>a, <1>c, <1>d, <1>f
<1>6. ASSUME Settled PROVE Goal
  <2>1. /\ After(watch, TRUE) /\ watch \in Watches /\ watch.pc = "loop"
        /\ Cardinality(watch.pending) <= left.cap /\ Cardinality(watch.removed) <= left.cap
        /\ UNCHANGED <<files, poll, scans, left>>
      BY <1>6, Settling
  <2>2. rows' = rows \/ \A p \in Paths : rows'[p] = IF rows[p] = 0 THEN 0 ELSE Invalid
      BY <2>1, Aftermath
  <2>3. RowsKept
      BY <2>2 DEF RowsKept
  <2> QED
      BY <2>1, <2>3, <1>a, <1>c, <1>e, <1>f
<1>7. ASSUME NEW e \in watch.events, NEW held \in BOOLEAN, Event(e, held)
      PROVE  Goal
  <2>1. PICK w \in Watches :
            /\ w.pc = "loop" /\ After(w, held)
            /\ Cardinality(w.pending) <= left.cap /\ Cardinality(w.removed) <= left.cap
            /\ OthersSee({}, {}, DroppedBy(watch, e)) /\ UNCHANGED <<files, poll, left>>
      BY <1>7, Hearing
  <2>2. rows' = rows \/ \A p \in Paths : rows'[p] = IF rows[p] = 0 THEN 0 ELSE Invalid
      BY <2>1, Aftermath
  <2>3. RowsKept
      BY <2>2 DEF RowsKept
  <2>4. SeenKept
      BY <2>1, NoneWalks
  <2> QED
      BY <2>1, <2>3, <2>4, <1>a, <1>c, <1>e
<1>8. ASSUME NEW c \in Callers, Plan(c)
      PROVE  Goal
    BY <1>8, <1>a, <1>c, <1>d, <1>e, <1>f DEF Plan
<1>9. ASSUME NEW c \in Callers, Launch(c)
      PROVE  Goal
  <2>1. /\ UNCHANGED <<files, rows, left>>
        /\ poll'.base = poll.base /\ poll'.sweep = poll.sweep
      BY <1>9, Launching
  <2>2. SweepsKept
      BY <2>1 DEF SweepsKept
  <2>3. SeenKept
    <3>1. CASE Launches(jobs[c])
      <4>1. Starts(Everything(jobs[c]), IF Everything(jobs[c]) THEN {} ELSE jobs[c].changed, jobs[c].id)
          BY <3>1, <1>9, Launching
      <4> QED
          BY <4>1, StartsWalk
    <3>2. CASE ~Launches(jobs[c])
        BY <3>2, <1>9, <1>f, Launching
    <3> QED
        BY <3>1, <3>2
  <2> QED
      BY <2>1, <2>2, <2>3, <1>a, <1>c, <1>d
<1>10. ASSUME NEW c \in Callers, NEW p \in Paths, NEW ok \in BOOLEAN, HandleRemove(c, p, ok)
       PROVE  Goal
  <2>1. /\ Outcome(ok) /\ UNCHANGED <<files, poll>>
        /\ \A q \in Paths : rows'[q] = IF q = p /\ ok THEN 0 ELSE rows[q]
      BY <1>10, RemovingRow
  <2>2. left'.paths = left.paths /\ left'.acts = left.acts
      BY <2>1, OutcomeTyped DEF TypeOK
  <2>3. RowsKept
      BY <2>1 DEF RowsKept
  <2> PICK lost \in SUBSET {p} : Removes(p, ok, lost)
      BY <1>10, Removing
  <2>4. SeenKept
    <3>1. OthersSee({}, IF ok THEN {p} ELSE {}, lost)
        BY DEF Removes
    <3> QED
        BY <3>1, NoneWalks
  <2> QED
      BY <2>1, <2>2, <2>3, <2>4, <1>a, <1>g, <1>e
<1>11. ASSUME Idle PROVE Goal
  <2>1. UNCHANGED <<files, rows, scans, left>> /\ poll'.base = poll.base /\ poll'.sweep = poll.sweep
      BY <1>11, Idling
  <2>2. SweepsKept
      BY <2>1 DEF SweepsKept
  <2> QED
      BY <2>1, <2>2, <1>a, <1>c, <1>d, <1>f
<1>12. ASSUME NEW id \in Ids, Report(id)
       PROVE  Goal
  <2>1. UNCHANGED <<files, rows, scans, left>> /\ poll'.base = poll.base /\ poll'.sweep = poll.sweep
      BY <1>12, ReportingSweep
  <2>2. SweepsKept
      BY <2>1 DEF SweepsKept
  <2> QED
      BY <2>1, <2>2, <1>a, <1>c, <1>d, <1>f
<1>13. ASSUME NEW id \in Ids, NEW recovered \in SUBSET Roots, HandOff(recovered, id)
       PROVE  Goal
  <2>1. /\ UNCHANGED <<files, rows, left>> /\ poll'.base = poll.base /\ poll'.sweep = poll.sweep
        /\ Starts(TRUE, {}, id)
      BY <1>13, HandingOff
  <2>2. SweepsKept
      BY <2>1 DEF SweepsKept
  <2>3. SeenKept
      BY <2>1, StartsWalk
  <2> QED
      BY <2>1, <2>2, <2>3, <1>a, <1>c, <1>d
<1>14. ASSUME NEW batch \in SUBSET Paths, NEW failed \in SUBSET Roots, Advance(batch, failed)
       PROVE  Goal
  <2>1. /\ OthersSee({}, {}, Missed(failed)) /\ Outcome(failed = {})
        /\ UNCHANGED <<files, rows>>
        /\ \A p \in Paths :
             /\ poll'.base[p] = IF p \in left.paths /\ RootOf[p] \in Complete(batch, failed)
                                THEN Now(batch)[p] ELSE poll.base[p]
             /\ poll'.sweep[p] = IF RootOf[p] \in Complete(batch, failed) \cup failed
                                 THEN Unread ELSE Now(batch)[p]
      BY <1>14, Sweeping
  <2>2. left'.paths = left.paths /\ left'.acts = left.acts
      BY <2>1, OutcomeTyped DEF TypeOK
  <2>3. \A p \in Paths : Now(batch)[p] = IF p \in batch THEN files[p] ELSE poll.sweep[p]
      BY DEF Now
  <2>4. SweepsKept
    <3>1. ASSUME NEW p \in Paths
          PROVE  /\ poll'.base[p] \in {poll.base[p], 0, files[p], poll.sweep[p]}
                 /\ poll'.sweep[p] \in {poll.sweep[p], Unread, files[p]}
        BY <2>1, <2>3
    <3> QED
        BY <3>1 DEF SweepsKept
  <2> QED
      BY <2>1, <2>2, <2>4, <1>a, <1>g, <1>d, NoneWalks
<1>15. ASSUME NEW s \in Scanners, Walk(s)
       PROVE  Goal
  <2>1. OthersSee({s}, {}, {}) /\ \A p \in Paths : scans'[s].seen[p] \in {0, files[p]}
      BY <1>15, Walking
  <2>2. UNCHANGED <<files, rows, poll, left>>
      BY <1>15 DEF Walk
  <2>3. SeenKept
      BY <2>1, OneWalks
  <2> QED
      BY <2>2, <2>3, <1>a, <1>c, <1>d, <1>e
<1>16. ASSUME NEW s \in Scanners, PruneLook(s)
       PROVE  Goal
  <2>1. OthersSee({s}, AbsentTo(s) \ GoneTo(s), {}) /\ scans'[s].seen = scans[s].seen
      BY <1>16, PruneLooking
  <2>2. UNCHANGED <<files, rows, poll, left>>
      BY <1>16 DEF PruneLook
  <2>3. SeenKept
      BY <2>1, OneWalks
  <2> QED
      BY <2>2, <2>3, <1>a, <1>c, <1>d, <1>e
<1>17. ASSUME NEW s \in Scanners, ScanDone(s)
       PROVE  Goal
  <2>1. OthersSee({s}, {}, {}) /\ scans'[s] = NoScan
      BY <1>17, Reporting
  <2>2. UNCHANGED <<files, rows, poll, left>>
      BY <1>17 DEF ScanDone
  <2>3. \A p \in Paths : NoScan.seen[p] = 0
      BY NoScanFits DEF Fresh1
  <2>4. SeenKept
      BY <2>1, <2>3, OneWalks
  <2> QED
      BY <2>2, <2>4, <1>a, <1>c, <1>d, <1>e
<1>18. ASSUME NEW s \in Scanners, NEW p \in Paths, Decode(s, p)
       PROVE  Goal
  <2>1. OthersSee({s}, {}, {}) /\ scans'[s].seen = scans[s].seen
      BY <1>18, Decoding
  <2>2. UNCHANGED <<files, rows, poll, left>>
      BY <1>18 DEF Decode
  <2>3. SeenKept
      BY <2>1, OneWalks
  <2> QED
      BY <2>2, <2>3, <1>a, <1>c, <1>d, <1>e
<1>19. ASSUME NEW s \in Scanners, NEW p \in Paths, NEW ok \in BOOLEAN, Upsert(s, p, ok)
       PROVE  Goal
  <2>1. /\ \A q \in Paths : rows'[q] = IF q = p /\ ok THEN scans[s].seen[p] ELSE rows[q]
        /\ left'.paths = left.paths /\ left'.acts = left.acts /\ UNCHANGED <<files, poll>>
      BY <1>19, Storing
  <2> PICK lost \in SUBSET {p} : Stores(s, p, ok, lost)
      BY <1>19, Upserting
  <2>2. /\ OthersSee({s}, IF ok THEN {p} ELSE {}, lost)
        /\ scans'[s].seen = [scans[s].seen EXCEPT ![p] = 0]
      BY DEF Stores
  <2>3. \A q \in Paths : scans'[s].seen[q] = IF q = p THEN 0 ELSE scans[s].seen[q]
      BY <2>2 DEF TypeOK, Scannings
  <2>4. SeenKept
      BY <2>2, <2>3, OneWalks
  <2>5. RowsKept
      BY <2>1 DEF RowsKept
  <2> QED
      BY <2>1, <2>4, <2>5, <1>a, <1>g, <1>e
<1>20. ASSUME NEW s \in Scanners, NEW ok \in BOOLEAN, PruneDelete(s, ok)
       PROVE  Goal
  <2>1. /\ \A q \in Paths : rows'[q] = IF q \in scans[s].gone /\ ok THEN 0 ELSE rows[q]
        /\ left'.paths = left.paths /\ left'.acts = left.acts /\ UNCHANGED <<files, poll>>
      BY <1>20, Deleting
  <2> PICK lost \in SUBSET Paths : Deletes(s, ok, lost)
      BY <1>20, PruneDeleting
  <2>2. OthersSee({s}, IF ok THEN scans[s].gone ELSE {}, lost) /\ scans'[s].seen = scans[s].seen
      BY DEF Deletes
  <2>3. SeenKept
      BY <2>2, OneWalks
  <2>4. RowsKept
      BY <2>1 DEF RowsKept
  <2> QED
      BY <2>1, <2>3, <2>4, <1>a, <1>g, <1>e
<1>21. ASSUME NEW s \in Scanners, Die(s)
       PROVE  Goal
  <2>1. OthersSee({s}, {}, DiesWith(s)) /\ SameScan(scans'[s], NoScan)
      BY <1>21, Dying
  <2>2. /\ left'.paths = left.paths /\ left'.acts = left.acts /\ UNCHANGED <<files, rows, poll>>
      BY <1>21, Abandoning
  <2>3. \A p \in Paths : scans'[s].seen[p] = 0
      BY <2>1, NoScanFits DEF Fresh1, SameScan
  <2>4. SeenKept
      BY <2>1, <2>3, OneWalks
  <2> QED
      BY <2>2, <2>4, <1>a, <1>g, <1>d, <1>e
<1>22. ASSUME UNCHANGED vars PROVE Goal
    BY <1>22, <1>a, <1>c, <1>d, <1>e, <1>f DEF vars
<1> HIDE DEF Goal
<1>23. Goal
    BY <1>1, <1>2, <1>3, <1>4, <1>5, <1>6, <1>7, <1>8, <1>9, <1>10, <1>11, <1>12, <1>13, <1>14,
       <1>15, <1>16, <1>17, <1>18, <1>19, <1>20, <1>21, <1>22
       DEF Next, Environment, Outer, Main, Job, Poll, Scan
<1> QED
    BY <1>23, TimesStay DEF Goal, FilesStay, LeftStays

-----------------------------------------------------------------------------
(* The scanners are as they should be *)

\* A row that is older than its file stays so, unless the file is one of these.
StaysOld(T) == \A p \in Paths \ T :
    files'[p] # 0 /\ (files[p] # 0 => rows[p] # files[p]) => rows'[p] # files'[p]
\* A scanner that holds what differs, or what was touched.
Views(scan) == \A p \in Hold(scan) \ scan.touched : files'[p] # 0 => rows'[p] # files'[p]
NothingHeld(scan) == scan.step # "delete" /\ scan.todo = {} /\ scan.decoded = {} /\ scan.gone = {}

LEMMA NothingToShow ==
    ASSUME NEW scan, NothingHeld(scan)
    PROVE  Shaped(scan) /\ Views(scan)
<1>1. scan.todo \cup scan.decoded \subseteq scan.paths /\ scan.todo \cap scan.decoded = {}
    BY DEF NothingHeld
<1>2. Shaped(scan)
    BY <1>1 DEF NothingHeld, Shaped
<1> QED
    BY <1>2 DEF NothingHeld, Views, Hold

LEMMA OthersAreFine ==
    ASSUME TypeOK, Scanning, OldView, NEW some, NEW T, NEW L, OthersSee(some, T, L), StaysOld(T)
    PROVE  \A x \in Scanners \ some : Shaped(scans'[x]) /\ Views(scans'[x])
<1> SUFFICES ASSUME NEW x \in Scanners \ some
             PROVE  Shaped(scans'[x]) /\ Views(scans'[x])
    OBVIOUS
<1>1. /\ SameScan(scans'[x], scans[x])
      /\ scans'[x].touched = scans[x].touched \cup (T \cap Hold(scans[x]))
    BY DEF OthersSee, Seen
<1>2. Shaped(scans'[x])
    BY <1>1 DEF Scanning, Shaped, SameScan
<1>3. Hold(scans'[x]) = Hold(scans[x]) /\ Hold(scans[x]) \subseteq Paths
    BY <1>1 DEF Hold, SameScan, TypeOK, Scannings
<1>4. ASSUME NEW p \in Hold(scans'[x]) \ scans'[x].touched, files'[p] # 0
      PROVE  rows'[p] # files'[p]
  <2>1. p \in Paths \ T /\ p \in Hold(scans[x]) \ scans[x].touched
      BY <1>1, <1>3
  <2>2. files[p] # 0 => rows[p] # files[p]
      BY <2>1 DEF OldView
  <2> QED
      BY <2>1, <2>2, <1>4 DEF StaysOld
<1> QED
    BY <1>2, <1>4 DEF Views

LEMMA AllFine ==
    ASSUME TypeOK, Scanning, OldView, NEW T, NEW L, OthersSee({}, T, L), StaysOld(T)
    PROVE  Scanning' /\ OldView'
<1>1. \A x \in Scanners : Shaped(scans'[x]) /\ Views(scans'[x])
    BY OthersAreFine
<1> QED
    BY <1>1 DEF Scanning, OldView, Shaped, Views, Hold

LEMMA OneFine ==
    ASSUME TypeOK, Scanning, OldView, NEW s \in Scanners, NEW T, NEW L, OthersSee({s}, T, L),
           StaysOld(T), Shaped(scans'[s]), Views(scans'[s])
    PROVE  Scanning' /\ OldView'
<1>1. \A x \in Scanners \ {s} : Shaped(scans'[x]) /\ Views(scans'[x])
    BY OthersAreFine
<1>2. \A x \in Scanners : Shaped(scans'[x]) /\ Views(scans'[x])
    BY <1>1
<1> QED
    BY <1>2 DEF Scanning, OldView, Shaped, Views, Hold

LEMMA StartsFine ==
    ASSUME TypeOK, Scanning, OldView, NEW full, NEW paths, NEW id, Starts(full, paths, id),
           StaysOld({})
    PROVE  Scanning' /\ OldView'
<1>1. PICK s \in Scanners : OthersSee({s}, {}, {}) /\ NothingHeld(scans'[s])
    BY DEF Starts, Fresh1, NothingHeld
<1> QED
    BY <1>1, NothingToShow, OneFine

LEMMA ScansKept ==
    ASSUME TypeOK, TimesPassed, Scanning, OldView, [Next]_vars
    PROVE  Scanning' /\ OldView'
<1> DEFINE Goal == Scanning' /\ OldView'
<1>a. files' = files /\ rows' = rows => StaysOld({})
    BY DEF StaysOld
<1>b. files' = files /\ rows' = rows /\ scans' = scans => Goal
    BY DEF Scanning, OldView
<1>1. ASSUME NEW p \in Paths, NEW time \in Times, Change(p, time)
      PROVE  Goal
  <2>1. PICK lost \in SUBSET {p} :
            /\ time = 0 \/ time = NextTime
            /\ \A q \in Paths : files'[q] = IF q = p THEN time ELSE files[q]
            /\ OthersSee({}, {}, lost) /\ UNCHANGED rows
      BY <1>1, Changing
  <2>2. StaysOld({})
    <3>1. rows[p] < NextTime /\ rows[p] \in Int /\ NextTime \in Int
      <4>1. rows[p] \in Int
          BY TimesSuffice DEF TypeOK, Times, Invalid
      <4>2. NextTime \in Int
          BY TimesSuffice DEF NextTime, TypeOK, Limits
      <4> QED
          BY <4>1, <4>2 DEF TimesPassed
    <3>2. rows[p] # NextTime
        BY <3>1
    <3> QED
        BY <2>1, <3>2 DEF StaysOld
  <2> QED
      BY <2>1, <2>2, AllFine
<1>2. ASSUME NEW x \in Settings, Choose(x)
      PROVE  Goal
    BY <1>2, <1>b DEF Choose
<1>3. ASSUME NEW failed \in SUBSET Roots, Install(failed)
      PROVE  Goal
    BY <1>3, <1>b DEF Install
<1>4. ASSUME Rescan PROVE Goal
    BY <1>4, <1>b DEF Rescan
<1>5. ASSUME Replace PROVE Goal
    BY <1>5, <1>b DEF Replace
<1>c. ASSUME rows' = rows \/ \A p \in Paths : rows'[p] = IF rows[p] = 0 THEN 0 ELSE Invalid,
             files' = files
      PROVE  StaysOld({})
  <2>1. \A p \in Paths : files[p] # Invalid
      BY TimesSuffice DEF TypeOK, Times, Invalid
  <2> QED
      BY <1>c, <2>1 DEF StaysOld
<1>6. ASSUME Settled PROVE Goal
  <2>1. /\ After(watch, TRUE) /\ watch \in Watches /\ watch.pc = "loop"
        /\ Cardinality(watch.pending) <= left.cap /\ Cardinality(watch.removed) <= left.cap
        /\ UNCHANGED <<files, scans>>
      BY <1>6, Settling
  <2>2. rows' = rows \/ \A p \in Paths : rows'[p] = IF rows[p] = 0 THEN 0 ELSE Invalid
      BY <2>1, Aftermath
  <2>3. OthersSee({}, {}, {})
      BY <2>1 DEF OthersSee, Seen, SameScan
  <2> QED
      BY <2>1, <2>2, <2>3, <1>c, AllFine
<1>7. ASSUME NEW e \in watch.events, NEW held \in BOOLEAN, Event(e, held)
      PROVE  Goal
  <2>1. PICK w \in Watches :
            /\ w.pc = "loop" /\ After(w, held)
            /\ Cardinality(w.pending) <= left.cap /\ Cardinality(w.removed) <= left.cap
            /\ OthersSee({}, {}, DroppedBy(watch, e)) /\ UNCHANGED files
      BY <1>7, Hearing
  <2>2. rows' = rows \/ \A p \in Paths : rows'[p] = IF rows[p] = 0 THEN 0 ELSE Invalid
      BY <2>1, Aftermath
  <2> QED
      BY <2>1, <2>2, <1>c, AllFine
<1>8. ASSUME NEW c \in Callers, Plan(c)
      PROVE  Goal
    BY <1>8, <1>b DEF Plan
<1>9. ASSUME NEW c \in Callers, Launch(c)
      PROVE  Goal
  <2>1. UNCHANGED <<files, rows>>
      BY <1>9 DEF Launch
  <2>2. CASE Launches(jobs[c])
    <3>1. Starts(Everything(jobs[c]), IF Everything(jobs[c]) THEN {} ELSE jobs[c].changed, jobs[c].id)
        BY <2>2, <1>9, Launching
    <3> QED
        BY <2>1, <3>1, <1>a, StartsFine
  <2>3. CASE ~Launches(jobs[c])
      BY <2>1, <2>3, <1>9, <1>b, Launching
  <2> QED
      BY <2>2, <2>3
<1>10. ASSUME NEW c \in Callers, NEW p \in Paths, NEW ok \in BOOLEAN, HandleRemove(c, p, ok)
       PROVE  Goal
  <2>1. /\ UNCHANGED files /\ \A q \in Paths : rows'[q] = IF q = p /\ ok THEN 0 ELSE rows[q]
      BY <1>10, RemovingRow
  <2> PICK lost \in SUBSET {p} : Removes(p, ok, lost)
      BY <1>10, Removing
  <2> DEFINE T == IF ok THEN {p} ELSE {}
  <2>2. OthersSee({}, T, lost)
      BY DEF Removes
  <2>3. StaysOld(T)
      BY <2>1 DEF StaysOld
  <2> QED
      BY <2>2, <2>3, AllFine
<1>11. ASSUME Idle PROVE Goal
    BY <1>11, <1>b DEF Idle
<1>12. ASSUME NEW id \in Ids, Report(id)
       PROVE  Goal
    BY <1>12, <1>b DEF Report
<1>13. ASSUME NEW id \in Ids, NEW recovered \in SUBSET Roots, HandOff(recovered, id)
       PROVE  Goal
  <2>1. UNCHANGED <<files, rows>> /\ Starts(TRUE, {}, id)
      BY <1>13, HandingOff
  <2> QED
      BY <2>1, <1>a, StartsFine
<1>14. ASSUME NEW batch \in SUBSET Paths, NEW failed \in SUBSET Roots, Advance(batch, failed)
       PROVE  Goal
  <2>1. OthersSee({}, {}, Missed(failed)) /\ UNCHANGED <<files, rows>>
      BY <1>14, Sweeping
  <2> QED
      BY <2>1, <1>a, AllFine
<1>15. ASSUME NEW s \in Scanners, Walk(s)
       PROVE  Goal
  <2>1. /\ OthersSee({s}, {}, {}) /\ scans[s].step = "new" /\ scans'[s].step = "work"
        /\ \A p \in Paths : p \in scans'[s].todo <=>
                      /\ IF scans[s].full THEN files[p] # 0 ELSE p \in scans[s].paths
                      /\ rows[p] # files[p]
        /\ scans'[s].full = scans[s].full /\ scans'[s].paths = scans[s].paths
        /\ scans'[s].decoded = scans[s].decoded /\ scans'[s].gone = scans[s].gone
        /\ scans' \in [Scanners -> Scannings]
      BY <1>15, Walking
  <2>2. UNCHANGED <<files, rows>>
      BY <1>15 DEF Walk
  <2>3. scans'[s].decoded = {} /\ scans'[s].gone = {} /\ scans'[s].todo \subseteq Paths
      BY <2>1 DEF Scanning, Shaped, Scannings
  <2>4. scans'[s].full \/ scans'[s].todo \subseteq scans'[s].paths
      BY <2>1, <2>3
  <2>5. Shaped(scans'[s])
      BY <2>1, <2>3, <2>4 DEF Shaped
  <2>6. Views(scans'[s])
      BY <2>1, <2>2, <2>3 DEF Views, Hold
  <2> QED
      BY <2>1, <2>2, <2>5, <2>6, <1>a, OneFine
<1>16. ASSUME NEW s \in Scanners, PruneLook(s)
       PROVE  Goal
  <2>1. /\ OthersSee({s}, AbsentTo(s) \ GoneTo(s), {}) /\ Worked(scans[s])
        /\ scans'[s].step = (IF GoneTo(s) # {} THEN "delete" ELSE "report")
        /\ scans'[s].gone = GoneTo(s) /\ scans'[s].full = scans[s].full
        /\ scans'[s].todo = scans[s].todo /\ scans'[s].decoded = scans[s].decoded
      BY <1>16, PruneLooking
  <2>2. UNCHANGED <<files, rows>>
      BY <1>16 DEF PruneLook
  <2>3. scans'[s].todo = {} /\ scans'[s].decoded = {}
      BY <2>1 DEF Worked
  <2>4. \A p \in GoneTo(s) : files[p] = 0 /\ scans[s].full
      BY DEF GoneTo, AbsentTo
  <2>5. Views(scans'[s])
      BY <2>1, <2>2, <2>3, <2>4 DEF Views, Hold
  <2>6. Shaped(scans'[s])
    <3>1. GoneTo(s) # {} => scans'[s].full
        BY <2>1, <2>4
    <3>2. scans'[s].step = "delete" <=> GoneTo(s) # {}
        BY <2>1
    <3>3. scans'[s].todo \cup scans'[s].decoded \subseteq scans'[s].paths
        BY <2>3
    <3> QED
        BY <2>1, <2>3, <3>1, <3>2, <3>3 DEF Shaped
  <2>7. StaysOld(AbsentTo(s) \ GoneTo(s))
      BY <2>2 DEF StaysOld
  <2> QED
      BY <2>1, <2>5, <2>6, <2>7, OneFine
<1>17. ASSUME NEW s \in Scanners, ScanDone(s)
       PROVE  Goal
  <2>1. OthersSee({s}, {}, {}) /\ NothingHeld(scans'[s])
      BY <1>17, Reporting, NoScanFits DEF NothingHeld, Fresh1
  <2>2. UNCHANGED <<files, rows>>
      BY <1>17 DEF ScanDone
  <2> QED
      BY <2>1, <2>2, <1>a, NothingToShow, OneFine
<1>18. ASSUME NEW s \in Scanners, NEW p \in Paths, Decode(s, p)
       PROVE  Goal
  <2>1. /\ OthersSee({s}, {}, {}) /\ scans[s].step = "work" /\ p \in scans[s].todo
        /\ scans'[s].todo = scans[s].todo \ {p}
        /\ scans'[s].decoded = (IF files[p] # 0 THEN scans[s].decoded \cup {p} ELSE scans[s].decoded)
        /\ scans'[s].step = "work" /\ scans'[s].full = scans[s].full
        /\ scans'[s].paths = scans[s].paths
        /\ scans'[s].gone = scans[s].gone /\ scans'[s].touched = scans[s].touched
      BY <1>18, Decoding
  <2>2. UNCHANGED <<files, rows>>
      BY <1>18 DEF Decode
  <2>3. Shaped(scans[s])
      BY DEF Scanning
  <2>4. Shaped(scans'[s])
      BY <2>1, <2>3 DEF Shaped
  <2>5. Hold(scans'[s]) \subseteq Hold(scans[s])
      BY <2>1 DEF Hold
  <2>6. Views(scans'[s])
      BY <2>1, <2>2, <2>5 DEF Views, OldView
  <2> QED
      BY <2>1, <2>2, <2>4, <2>6, <1>a, OneFine
<1>19. ASSUME NEW s \in Scanners, NEW p \in Paths, NEW ok \in BOOLEAN, Upsert(s, p, ok)
       PROVE  Goal
  <2>1. /\ \A q \in Paths : rows'[q] = IF q = p /\ ok THEN scans[s].seen[p] ELSE rows[q]
        /\ UNCHANGED files
      BY <1>19, Storing
  <2> PICK lost \in SUBSET {p} : Stores(s, p, ok, lost)
      BY <1>19, Upserting
  <2> DEFINE T == IF ok THEN {p} ELSE {}
  <2>2. /\ OthersSee({s}, T, lost) /\ scans[s].step = "work" /\ p \in scans[s].decoded
        /\ scans'[s].decoded = scans[s].decoded \ {p} /\ scans'[s].todo = scans[s].todo
        /\ scans'[s].touched = scans[s].touched \ {p} /\ scans'[s].gone = scans[s].gone
        /\ scans'[s].step = "work" /\ scans'[s].full = scans[s].full
        /\ scans'[s].paths = scans[s].paths
      BY DEF Stores
  <2>3. StaysOld(T)
      BY <2>1 DEF StaysOld
  <2>4. Shaped(scans[s])
      BY DEF Scanning
  <2>5. Shaped(scans'[s])
      BY <2>2, <2>4 DEF Shaped
  <2>6. Hold(scans'[s]) \subseteq Hold(scans[s]) \ {p} /\ Hold(scans[s]) \subseteq Paths
      BY <2>2, <2>4 DEF Hold, Shaped, TypeOK, Scannings
  <2>7. Views(scans'[s])
    <3> SUFFICES ASSUME NEW q \in Hold(scans'[s]) \ scans'[s].touched, files'[q] # 0
                 PROVE  rows'[q] # files'[q]
        BY DEF Views
    <3>1. q \in Hold(scans[s]) \ scans[s].touched /\ q # p /\ q \in Paths
        BY <2>2, <2>6
    <3> QED
        BY <2>1, <3>1 DEF OldView
  <2> HIDE DEF T
  <2> QED
      BY <2>2, <2>3, <2>5, <2>7, OneFine
<1>20. ASSUME NEW s \in Scanners, NEW ok \in BOOLEAN, PruneDelete(s, ok)
       PROVE  Goal
  <2>1. /\ \A q \in Paths : rows'[q] = IF q \in scans[s].gone /\ ok THEN 0 ELSE rows[q]
        /\ UNCHANGED files
      BY <1>20, Deleting
  <2> DEFINE T == IF ok THEN scans[s].gone ELSE {}
  <2> PICK lost \in SUBSET Paths : Deletes(s, ok, lost)
      BY <1>20, PruneDeleting
  <2>2. /\ OthersSee({s}, T, lost) /\ scans[s].step = "delete" /\ scans'[s].gone = {}
        /\ scans'[s].step = "report"
        /\ scans'[s].todo = scans[s].todo /\ scans'[s].decoded = scans[s].decoded
      BY DEF Deletes
  <2>3. NothingHeld(scans'[s])
      BY <2>2 DEF NothingHeld, Scanning, Shaped
  <2>4. StaysOld(T)
      BY <2>1 DEF StaysOld
  <2> HIDE DEF T
  <2> QED
      BY <2>2, <2>3, <2>4, NothingToShow, OneFine
<1>21. ASSUME NEW s \in Scanners, Die(s)
       PROVE  Goal
  <2>1. OthersSee({s}, {}, DiesWith(s)) /\ SameScan(scans'[s], NoScan)
      BY <1>21, Dying
  <2>2. UNCHANGED <<files, rows>>
      BY <1>21, Abandoning
  <2>3. NothingHeld(scans'[s])
      BY <2>1, NoScanFits DEF NothingHeld, SameScan, Fresh1
  <2> QED
      BY <2>1, <2>2, <2>3, <1>a, NothingToShow, OneFine
<1>22. ASSUME UNCHANGED vars PROVE Goal
    BY <1>22, <1>b DEF vars
<1> HIDE DEF Goal
<1>23. Goal
    BY <1>1, <1>2, <1>3, <1>4, <1>5, <1>6, <1>7, <1>8, <1>9, <1>10, <1>11, <1>12, <1>13, <1>14,
       <1>15, <1>16, <1>17, <1>18, <1>19, <1>20, <1>21, <1>22
       DEF Next, Environment, Outer, Main, Job, Poll, Scan
<1> QED
    BY <1>23 DEF Goal

-----------------------------------------------------------------------------
(* The session *)

LEMMA NothingToComplete ==
    ASSUME NEW st, NEW id \in MaybeId, Says(st), st.mode = "unavailable"
    PROVE  CompleteScan(st, id) = st
BY DEF Says, CompleteScan, MaybeId

LEMMA SessionKept ==
    ASSUME TypeOK, InSession, StatusSays, [Next]_vars
    PROVE  InSession'
<1>a. ASSUME watch'.pc = watch.pc, watch'.native = watch.native,
             UNCHANGED <<outer, poll, status>>,
             jobs'["main"].step # "off" => jobs["main"].step # "off"
      PROVE  InSession'
    BY <1>a DEF InSession
<1>b. "main" \in Callers /\ "rescan" \in Callers /\ "poll" \in Callers
    BY DEF Callers
<1>1. ASSUME NEW p \in Paths, NEW time \in Times, Change(p, time)
      PROVE  InSession'
  <2>1. /\ watch'.pc = watch.pc /\ watch'.native = watch.native
        /\ UNCHANGED <<outer, poll, jobs, status>>
    <3>1. PICK lost \in SUBSET {p} : /\ watch'.pc = watch.pc /\ watch'.native = watch.native
                                     /\ UNCHANGED <<outer, poll, jobs, status>>
        BY <1>1, Changing
    <3> QED
        BY <3>1
  <2> QED
      BY <2>1, <1>a
<1>2. ASSUME NEW x \in Settings, Choose(x)
      PROVE  InSession'
    BY <1>2, <1>a, Choosing
<1>3. ASSUME NEW failed \in SUBSET Roots, Install(failed)
      PROVE  InSession'
  <2> DEFINE poller == Poller(failed, chosen)
             fresh == Fresh(status, failed, chosen)
  <2>1. /\ outer.pc = "install" /\ outer'.pc = "rescan" /\ watch'.pc = "loop"
        /\ watch'.native = Roots \ failed /\ poll' = poller /\ status' = fresh
        /\ UNCHANGED jobs
      BY <1>3, Installing
  <2>2. /\ poller.pc \in {"off", "sleep"} /\ poller.spare = {}
        /\ IF Polls(failed, chosen) THEN poller.roots = failed /\ poller.pc = "sleep"
           ELSE /\ poller.roots = {} /\ poller.pc = "off"
                /\ failed # {} => fresh.mode = "unavailable"
    <3>1. status \in Statuses
        BY DEF TypeOK
    <3>2. /\ poller.pc \in {"off", "sleep"} /\ poller.spare = {}
          /\ IF Polls(failed, chosen) THEN Continues(poller, fresh, status, failed)
             ELSE StartsOver(poller, fresh, failed)
        BY <3>1, Beginning
    <3> QED
        BY <3>2 DEF Continues, StartsOver
  <2>3. jobs["main"].step = "off"
      BY <2>1 DEF InSession
  <2> HIDE DEF poller, fresh
  <2>4. \/ Roots \subseteq watch'.native \cup poll'.spare \cup poll'.roots
        \/ status'.mode = "unavailable" /\ poll'.pc = "off"
      BY <2>1, <2>2
  <2>5. poll'.pc = "off" => poll'.roots = {} /\ poll'.spare = {}
      BY <2>1, <2>2
  <2> QED
      BY <2>1, <2>2, <2>3, <2>4, <2>5 DEF InSession
<1>4. ASSUME Rescan PROVE InSession'
  <2>1. /\ outer.pc = "rescan" /\ outer'.pc = "await" /\ jobs'["main"] = jobs["main"]
        /\ UNCHANGED <<watch, poll, status>>
      BY <1>4, <1>b, Rescanning
  <2> QED
      BY <2>1 DEF InSession
<1>5. ASSUME Replace PROVE InSession'
  <2>1. /\ outer.pc = "await" /\ watch.pc = "done" /\ outer'.pc = "install" /\ poll'.pc = "off"
        /\ poll'.roots = {} /\ poll'.spare = {} /\ watch'.pc = "off" /\ UNCHANGED jobs
      BY <1>5, Replacing
  <2> QED
      BY <2>1 DEF InSession
<1>c. ASSUME NEW w \in Watches, NEW held \in BOOLEAN, w.pc = "loop", After(w, held),
             w.native = watch.native, watch.pc = "loop",
             Cardinality(w.pending) <= left.cap, Cardinality(w.removed) <= left.cap,
             UNCHANGED <<outer, poll, status>>
      PROVE  InSession'
  <2>1. /\ watch'.native = w.native
        /\ \/ watch'.pc = "done" /\ jobs' = jobs
           \/ watch'.pc = "flush"
           \/ watch' = w /\ jobs' = jobs
      BY <1>c, Aftermath
  <2>2. jobs["main"].step = "off" /\ outer.pc # "install"
      BY <1>c DEF InSession
  <2> QED
      BY <1>c, <2>1, <2>2 DEF InSession
<1>6. ASSUME Settled PROVE InSession'
    BY <1>6, <1>c, Settling
<1>7. ASSUME NEW e \in watch.events, NEW held \in BOOLEAN, Event(e, held)
      PROVE  InSession'
  <2>1. PICK w \in Watches :
            /\ w.pc = "loop" /\ watch.pc = "loop" /\ After(w, held) /\ w.native = watch.native
            /\ Cardinality(w.pending) <= left.cap /\ Cardinality(w.removed) <= left.cap
            /\ UNCHANGED <<outer, poll, status>>
      BY <1>7, Hearing
  <2> QED
      BY <2>1, <1>c
<1>8. ASSUME NEW c \in Callers, Plan(c)
      PROVE  InSession'
  <2>1. /\ jobs[c].step = "plan" /\ \A d \in Callers \ {c} : jobs'[d] = jobs[d]
        /\ UNCHANGED <<outer, watch, poll, status>>
      BY <1>8, Planning
  <2>2. jobs'["main"].step # "off" => jobs["main"].step # "off"
      BY <2>1, <1>b
  <2> QED
      BY <2>1, <2>2, <1>a
<1>9. ASSUME NEW c \in Callers, Launch(c)
      PROVE  InSession'
  <2>1. /\ jobs[c].step = "remove" /\ jobs'[c] = NoJob /\ \A d \in Callers \ {c} : jobs'[d] = jobs[d]
        /\ watch'.native = watch.native
        /\ watch'.pc = (IF c = "main" THEN "loop" ELSE watch.pc)
        /\ \/ poll' = poll
           \/ /\ poll.pc = "flush" /\ poll'.pc = "sleep" /\ poll'.roots = poll.roots
              /\ poll'.spare = poll.spare
        /\ UNCHANGED outer
      BY <1>9, Launching
  <2>2. jobs[c].id \in MaybeId
      BY DEF TypeOK, Flushes
  <2>3. status' = status \/ status' = CompleteScan(status, jobs[c].id)
      BY <1>9, Launching
  <2>4. status.mode = "unavailable" => status'.mode = "unavailable"
      BY <2>2, <2>3, NothingToComplete DEF StatusSays
  <2>5. c = "main" => watch.pc = "flush"
      BY <2>1 DEF InSession
  <2>6. jobs'["main"].step # "off" => c # "main" /\ jobs["main"].step # "off"
      BY <2>1, <1>b, NoJobFits
  <2>7. (outer'.pc = "install") <=> (watch'.pc = "off")
      BY <2>1, <2>5 DEF InSession
  <2>8. jobs'["main"].step # "off" => watch'.pc = "flush"
      BY <2>1, <2>6 DEF InSession
  <2> QED
      BY <2>1, <2>4, <2>7, <2>8 DEF InSession
<1>10. ASSUME NEW c \in Callers, NEW p \in Paths, NEW ok \in BOOLEAN, HandleRemove(c, p, ok)
       PROVE  InSession'
  <2>1. /\ jobs[c].step = "remove" /\ \A d \in Callers \ {c} : jobs'[d] = jobs[d]
        /\ UNCHANGED <<outer, watch, poll, status>>
      BY <1>10, RemovingRow
  <2>2. jobs'["main"].step # "off" => jobs["main"].step # "off"
      BY <2>1, <1>b
  <2> QED
      BY <2>1, <2>2, <1>a
<1>d. ASSUME poll.pc = "swept", poll'.pc # "swept", poll'.pc # "off",
             poll.roots \cup poll.spare \subseteq poll'.roots \cup poll'.spare,
             UNCHANGED <<outer, watch>>,
             jobs'["main"] = jobs["main"]
      PROVE  InSession'
    BY <1>d DEF InSession
<1>11. ASSUME Idle PROVE InSession'
  <2>1. /\ poll.pc = "swept" /\ poll'.pc = "sleep" /\ poll'.roots = poll.roots
        /\ poll'.spare = poll.spare /\ UNCHANGED <<outer, watch, jobs>>
      BY <1>11, Idling
  <2> QED
      BY <2>1, <1>d
<1>12. ASSUME NEW id \in Ids, Report(id)
       PROVE  InSession'
  <2>1. /\ poll.pc = "swept" /\ poll'.pc = "flush" /\ poll'.roots = poll.roots
        /\ poll'.spare = poll.spare /\ UNCHANGED <<outer, watch>>
        /\ \A d \in Callers \ {"poll"} : jobs'[d] = jobs[d]
      BY <1>12, ReportingSweep
  <2>2. jobs'["main"] = jobs["main"]
      BY <2>1, <1>b
  <2> QED
      BY <2>1, <2>2, <1>d
<1>13. ASSUME NEW id \in Ids, NEW recovered \in SUBSET Roots, HandOff(recovered, id)
       PROVE  InSession'
  <2>1. /\ poll.pc = "swept" /\ poll'.pc \in {"sleep", "hold"}
        /\ poll'.roots = poll.roots \ recovered /\ poll'.spare = poll.spare \cup recovered
        /\ UNCHANGED <<outer, watch, jobs>>
      BY <1>13, HandingOff
  <2> QED
      BY <2>1, <1>d
<1>14. ASSUME NEW batch \in SUBSET Paths, NEW failed \in SUBSET Roots, Advance(batch, failed)
       PROVE  InSession'
  <2> DEFINE complete == Complete(batch, failed)
  <2>1. /\ poll.pc = "sleep" /\ poll'.pc = "swept"
        /\ poll'.roots = poll.roots /\ poll'.spare = poll.spare
        /\ \A p \in Paths :
             /\ p \in poll'.changed => p \in left.paths /\ RootOf[p] \in complete
             /\ p \in poll'.removed => p \in left.paths /\ RootOf[p] \in complete
        /\ poll'.initial <=> complete \ poll.known # {}
        /\ poll'.touched = {r \in complete :
              r \notin poll.known \/ PathsOf(r) \cap (poll'.changed \cup poll'.removed) # {}}
        /\ UNCHANGED <<outer, watch, jobs, status>> /\ poll' \in Pollings
      BY <1>14, Sweeping
  <2> HIDE DEF complete
  <2>2. \A p \in poll'.changed \cup poll'.removed : RootOf[p] \in poll'.touched
    <3> SUFFICES ASSUME NEW p \in poll'.changed \cup poll'.removed
                 PROVE  RootOf[p] \in poll'.touched
        OBVIOUS
    <3>1. p \in Paths
        BY <2>1 DEF Pollings
    <3>2. p \in PathsOf(RootOf[p])
        BY <2>1, <3>1 DEF PathsOf
    <3> QED
        BY <2>1, <3>1, <3>2
  <2>3. poll'.initial => poll'.touched # {}
      BY <2>1
  <2> QED
      BY <2>1, <2>2, <2>3 DEF InSession
<1>15. ASSUME NEW s \in Scanners, Walk(s)
       PROVE  InSession'
    BY <1>15, <1>a DEF Walk
<1>16. ASSUME NEW s \in Scanners, PruneLook(s)
       PROVE  InSession'
    BY <1>16, <1>a DEF PruneLook
<1>17. ASSUME NEW s \in Scanners, ScanDone(s)
       PROVE  InSession'
  <2>1. /\ status' = CompleteScan(status, scans[s].id) /\ scans[s].id \in MaybeId
        /\ UNCHANGED <<outer, watch, poll, jobs>>
      BY <1>17, Repairing
  <2>2. status.mode = "unavailable" => status'.mode = "unavailable"
      BY <2>1, NothingToComplete DEF StatusSays
  <2> QED
      BY <2>1, <2>2 DEF InSession
<1>18. ASSUME NEW s \in Scanners, NEW p \in Paths, Decode(s, p)
       PROVE  InSession'
    BY <1>18, <1>a DEF Decode
<1>19. ASSUME NEW s \in Scanners, NEW p \in Paths, NEW ok \in BOOLEAN, Upsert(s, p, ok)
       PROVE  InSession'
    BY <1>19, <1>a, Storing
<1>20. ASSUME NEW s \in Scanners, NEW ok \in BOOLEAN, PruneDelete(s, ok)
       PROVE  InSession'
    BY <1>20, <1>a, Deleting
<1>21. ASSUME NEW s \in Scanners, Die(s)
       PROVE  InSession'
    BY <1>21, <1>a, Abandoning
<1>22. ASSUME UNCHANGED vars PROVE InSession'
    BY <1>22, <1>a DEF vars
<1> QED
    BY <1>1, <1>2, <1>3, <1>4, <1>5, <1>6, <1>7, <1>8, <1>9, <1>10, <1>11, <1>12, <1>13, <1>14,
       <1>15, <1>16, <1>17, <1>18, <1>19, <1>20, <1>21, <1>22
       DEF Next, Environment, Outer, Main, Job, Poll, Scan

-----------------------------------------------------------------------------
(* The requests *)

\* The scanner still serves its request.
Serves(s) == /\ scans'[s].id = scans[s].id /\ (scans'[s].step = "off" => scans[s].step = "off")
             /\ \A r \in ghost.owed : Covers(scans[s], r) => Covers(scans'[s], r)
\* So does the flush.
Flushing(c) == /\ jobs'[c].id = jobs[c].id
               /\ c = "poll" /\ jobs'[c].step = "off" => jobs[c].step = "off"

Booked == StatusSays /\ Requested /\ Owes

LEMMA OthersServe ==
    ASSUME NEW some, NEW T, NEW L, OthersSee(some, T, L)
    PROVE  \A s \in Scanners \ some : Serves(s)
BY DEF OthersSee, Seen, SameScan, Serves, Covers

LEMMA StaysBooked ==
    ASSUME Booked, \A s \in Scanners : Serves(s), \A c \in Callers : Flushing(c),
           status' = status, ghost'.owed = ghost.owed, ghost.orphans \subseteq ghost'.orphans,
           outer'.pc # "install" => outer.pc # "install" /\ poll'.roots = poll.roots
    PROVE  Booked'
<1>1. StatusSays'
    BY DEF Booked, StatusSays, Says
<1>2. \A i \in Ids : Alive(i) => Alive(i)'
    BY DEF Alive, Serves, Flushing
<1>3. Requested'
  <2>1. \A c \in Callers : jobs'[c].step = "off" \/ c # "poll" => jobs'[c].id = None
      BY DEF Booked, Requested, Flushing
  <2>2. \A s \in Scanners : scans'[s].step = "off" => scans'[s].id = None
      BY DEF Booked, Requested, Serves
  <2>3. \A i \in Ids : status'.pend[i] # {} => Alive(i)'
      BY <1>2 DEF Booked, Requested
  <2> QED
      BY <2>1, <2>2, <2>3 DEF Requested
<1>4. Owes'
  <2> SUFFICES ASSUME NEW r \in ghost.owed
               PROVE  r \in status.recovering /\ \E i \in Ids : HandsOver(i, r)'
      BY DEF Owes
  <2>1. PICK i \in Ids : r \in status.recovering /\ HandsOver(i, r)
      BY DEF Booked, Owes
  <2>2. HandsOver(i, r)'
      BY <2>1 DEF HandsOver, Serves, Flushing
  <2> QED
      BY <2>1, <2>2
<1> QED
    BY <1>1, <1>3, <1>4 DEF Booked

\* A root still waits for a request that hands it over, or would.
StillHands(i, r) == /\ \A c \in Callers : jobs'[c].id # i
                    /\ \A s \in Scanners : scans'[s].id = i => Covers(scans'[s], r)

\* The flushes and scanners that are through serve no request.
OffServesNone ==
    /\ \A c \in Callers : jobs'[c].step = "off" \/ c # "poll" => jobs'[c].id = None
    /\ \A s \in Scanners : scans'[s].step = "off" => scans'[s].id = None

\* One request is completed, and no flush or scanner has it any longer.
LEMMA OneCompleted ==
    ASSUME Booked, status \in Statuses, NEW id \in MaybeId, status' = CompleteScan(status, id),
           \A i \in Ids \ {id} : Alive(i) => Alive(i)',
           \A r \in ghost'.owed : /\ r \in ghost.owed
                                  /\ \A i \in Ids : HandsOver(i, r) => i # id /\ StillHands(i, r),
           OffServesNone, outer' = outer, poll'.roots = poll.roots
    PROVE  Booked'
<1> DEFINE new == CompleteScan(status, id)
<1>1. /\ new.polling = status.polling /\ (Says(status) => Says(new))
      /\ \A i \in Ids : new.pend[i] = IF i = id THEN {} ELSE status.pend[i]
      /\ new.recovering \subseteq status.recovering
      /\ \A r \in status.recovering :
            \/ r \in new.recovering
            \/ id \in Ids /\ r \in status.pend[id] /\ \A i \in Ids \ {id} : r \notin status.pend[i]
      /\ \A r \in new.recovering : (\E i \in Ids : r \in status.pend[i])
                                   => \E i \in Ids : r \in new.pend[i]
    BY Completing
<1>2. status' = new
    OBVIOUS
<1> HIDE DEF new
<1>3. StatusSays'
    BY <1>1, <1>2 DEF Booked, StatusSays
<1>4. Requested'
  <2>1. \A i \in Ids : status'.pend[i] # {} => Alive(i)'
      BY <1>1, <1>2 DEF Booked, Requested
  <2> QED
      BY <2>1 DEF Requested, OffServesNone
<1>5. Owes'
  <2> SUFFICES ASSUME NEW r \in ghost'.owed
               PROVE  r \in status'.recovering /\ \E i \in Ids : HandsOver(i, r)'
      BY DEF Owes
  <2>1. PICK i \in Ids : r \in status.recovering /\ HandsOver(i, r)
      BY DEF Booked, Owes
  <2>2. i # id /\ StillHands(i, r)
      BY <2>1
  <2>3. r \in status.pend[i]
      BY <2>1 DEF HandsOver
  <2>4. r \in status'.recovering
      BY <1>1, <1>2, <2>1, <2>2, <2>3
  <2>5. HandsOver(i, r)'
      BY <1>1, <1>2, <2>2, <2>3 DEF HandsOver, StillHands
  <2> QED
      BY <2>4, <2>5
<1> QED
    BY <1>3, <1>4, <1>5 DEF Booked

\* A request is registered for a flush or a scanner, under an id that was free.
LEMMA OneRegistered ==
    ASSUME Booked, NEW id \in Ids, id \in FreeIds, Says(status'),
           outer'.pc # "install" => status'.polling = poll'.roots,
           \A i \in Ids \ {id} : status'.pend[i] = status.pend[i],
           \A r \in status'.recovering \ status.recovering : r \in status'.pend[id],
           status.recovering \subseteq status'.recovering,
           \A i \in Ids \ {id} : Alive(i) => Alive(i)',
           Alive(id)', OffServesNone,
           \A r \in ghost'.owed : \/ r \in status'.recovering /\ HandsOver(id, r)'
                                  \/ r \in ghost.owed /\ \A i \in Ids : HandsOver(i, r) => StillHands(i, r)
    PROVE  Booked'
<1>1. status.pend[id] = {}
    BY DEF FreeIds
<1>2. StatusSays'
    BY <1>1 DEF Booked, StatusSays
<1>3. Requested'
  <2>1. \A i \in Ids : status'.pend[i] # {} => Alive(i)'
      BY DEF Booked, Requested
  <2> QED
      BY <2>1 DEF Requested, OffServesNone
<1>4. Owes'
  <2> SUFFICES ASSUME NEW r \in ghost'.owed
               PROVE  r \in status'.recovering /\ \E i \in Ids : HandsOver(i, r)'
      BY DEF Owes
  <2>1. CASE r \in status'.recovering /\ HandsOver(id, r)'
      BY <2>1
  <2>2. ASSUME r \in ghost.owed, \A i \in Ids : HandsOver(i, r) => StillHands(i, r)
        PROVE  r \in status'.recovering /\ \E i \in Ids : HandsOver(i, r)'
    <3>1. PICK i \in Ids : r \in status.recovering /\ HandsOver(i, r)
        BY <2>2 DEF Booked, Owes
    <3>2. r \in status.pend[i] /\ i # id /\ StillHands(i, r)
        BY <1>1, <2>2, <3>1 DEF HandsOver
    <3>3. HandsOver(i, r)'
        BY <3>2 DEF HandsOver, StillHands
    <3> QED
        BY <3>1, <3>3
  <2> QED
      BY <2>1, <2>2
<1> QED
    BY <1>2, <1>3, <1>4 DEF Booked

LEMMA RequestsKept ==
    ASSUME TypeOK, Booked, Scanning, [Next]_vars
    PROVE  Booked'
<1>a. scans' = scans => \A s \in Scanners : Serves(s)
    BY DEF Serves, Covers
<1>b. jobs' = jobs => \A c \in Callers : Flushing(c)
    BY DEF Flushing
<1>c. "main" \in Callers /\ "rescan" \in Callers /\ "poll" \in Callers
    BY DEF Callers
<1>1. ASSUME NEW p \in Paths, NEW time \in Times, Change(p, time)
      PROVE  Booked'
  <2>1. PICK lost \in SUBSET {p} : /\ OthersSee({}, {}, lost) /\ ghost' = [ghost EXCEPT !.lost = @ \cup lost]
                                   /\ UNCHANGED <<outer, poll, jobs, status>>
      BY <1>1, Changing
  <2>2. ghost'.owed = ghost.owed /\ ghost'.orphans = ghost.orphans
      BY <2>1, Losing
  <2>3. \A s \in Scanners : Serves(s)
      BY <2>1, OthersServe
  <2> QED
      BY <2>1, <2>2, <2>3, <1>b, StaysBooked
<1>2. ASSUME NEW x \in Settings, Choose(x)
      PROVE  Booked'
    BY <1>2, <1>a, <1>b, StaysBooked, Choosing
<1>3. ASSUME NEW failed \in SUBSET Roots, Install(failed)
      PROVE  Booked'
  <2> DEFINE poller == Poller(failed, chosen)
             fresh == Fresh(status, failed, chosen)
  <2>1. /\ outer'.pc = "rescan" /\ poll' = poller /\ status' = fresh
        /\ ghost'.owed = {} /\ (Polls(failed, chosen) => ghost'.orphans = ghost.orphans)
        /\ UNCHANGED <<jobs, scans>>
      BY <1>3, Installing
  <2>2. /\ Says(fresh) /\ fresh.polling = poller.roots
        /\ IF Polls(failed, chosen) THEN Continues(poller, fresh, status, failed)
           ELSE StartsOver(poller, fresh, failed)
    <3>1. status \in Statuses
        BY DEF TypeOK
    <3> QED
        BY <3>1, Beginning
  <2> HIDE DEF poller, fresh
  <2>3. CASE Polls(failed, chosen)
    <3>1. fresh.pend = status.pend /\ fresh.recovering = status.recovering
          /\ ghost'.orphans = ghost.orphans
        BY <2>1, <2>2, <2>3 DEF Continues
    <3>2. StatusSays' /\ Owes'
        BY <2>1, <2>2, <3>1 DEF Booked, StatusSays, Owes
    <3>3. Requested'
        BY <2>1, <3>1 DEF Booked, Requested, Alive
    <3> QED
        BY <3>2, <3>3 DEF Booked
  <2>4. CASE ~Polls(failed, chosen)
    <3>1. fresh.recovering = {} /\ \A i \in Ids : fresh.pend[i] = {}
        BY <2>2, <2>4 DEF StartsOver
    <3>2. StatusSays' /\ Owes'
        BY <2>1, <2>2, <3>1 DEF StatusSays, Owes
    <3>3. Requested'
        BY <2>1, <3>1 DEF Booked, Requested
    <3> QED
        BY <3>2, <3>3 DEF Booked
  <2> QED
      BY <2>3, <2>4
<1>4. ASSUME Rescan PROVE Booked'
  <2>1. /\ outer.pc = "rescan" /\ \A d \in Callers \ {"rescan"} : jobs'[d] = jobs[d]
        /\ jobs'["rescan"].id = None /\ UNCHANGED <<poll, scans, status, ghost>>
      BY <1>4, Rescanning
  <2>2. jobs["rescan"].id = None
      BY <1>c DEF Booked, Requested
  <2>3. \A c \in Callers : Flushing(c)
      BY <2>1, <2>2 DEF Flushing
  <2> QED
      BY <2>1, <2>3, <1>a, StaysBooked
<1>5. ASSUME Replace PROVE Booked'
  <2>1. outer'.pc = "install" /\ UNCHANGED <<jobs, scans, status, ghost>>
      BY <1>5, Replacing
  <2> QED
      BY <2>1, <1>a, <1>b, StaysBooked
<1>d. ASSUME NEW w \in Watches, NEW held \in BOOLEAN, w.pc = "loop", After(w, held),
             Cardinality(w.pending) <= left.cap, Cardinality(w.removed) <= left.cap
      PROVE  \A c \in Callers : Flushing(c)
  <2>1. /\ \A d \in Callers \ {"main"} : jobs'[d] = jobs[d]
        /\ jobs' = jobs \/ jobs'["main"].id = None
      BY <1>d, Aftermath
  <2>2. jobs["main"].id = None
      BY <1>c DEF Booked, Requested
  <2> QED
      BY <2>1, <2>2 DEF Flushing
<1>6. ASSUME Settled PROVE Booked'
  <2>1. /\ After(watch, TRUE) /\ watch \in Watches /\ watch.pc = "loop"
        /\ Cardinality(watch.pending) <= left.cap /\ Cardinality(watch.removed) <= left.cap
        /\ UNCHANGED <<outer, poll, scans, status, ghost>>
      BY <1>6, Settling
  <2> QED
      BY <2>1, <1>a, <1>d, StaysBooked
<1>7. ASSUME NEW e \in watch.events, NEW held \in BOOLEAN, Event(e, held)
      PROVE  Booked'
  <2>1. PICK w \in Watches :
            /\ w.pc = "loop" /\ After(w, held)
            /\ Cardinality(w.pending) <= left.cap /\ Cardinality(w.removed) <= left.cap
            /\ OthersSee({}, {}, DroppedBy(watch, e)) /\ DroppedBy(watch, e) \in SUBSET Paths
            /\ ghost' = [ghost EXCEPT !.lost = @ \cup DroppedBy(watch, e)]
            /\ UNCHANGED <<outer, poll, status>>
      BY <1>7, Hearing
  <2>2. ghost'.owed = ghost.owed /\ ghost'.orphans = ghost.orphans
      BY <2>1, Losing
  <2>3. \A s \in Scanners : Serves(s)
      BY <2>1, OthersServe
  <2> QED
      BY <2>1, <2>2, <2>3, <1>d, StaysBooked
<1>e. ASSUME NEW c \in Callers, \A d \in Callers \ {c} : jobs'[d] = jobs[d],
             jobs'[c].id = jobs[c].id, jobs'[c].step # "off"
      PROVE  \A d \in Callers : Flushing(d)
    BY <1>e DEF Flushing
<1>8. ASSUME NEW c \in Callers, Plan(c)
      PROVE  Booked'
  <2>1. /\ \A d \in Callers \ {c} : jobs'[d] = jobs[d]
        /\ jobs'[c].id = jobs[c].id /\ jobs'[c].step = "remove"
        /\ UNCHANGED <<outer, poll, scans, status, ghost>>
      BY <1>8, Planning
  <2> QED
      BY <2>1, <1>a, <1>e, StaysBooked
<1>9. ASSUME NEW c \in Callers, Launch(c)
      PROVE  Booked'
  <2>1. /\ jobs[c].step = "remove" /\ jobs'[c] = NoJob /\ \A d \in Callers \ {c} : jobs'[d] = jobs[d]
        /\ poll'.roots = poll.roots /\ UNCHANGED outer
      BY <1>9, Launching
  <2>2. jobs[c].id \in MaybeId /\ (c # "poll" => jobs[c].id = None) /\ status \in Statuses
      BY DEF TypeOK, Flushes, Booked, Requested
  <2>3. \A d \in Callers : jobs'[d].step = "off" \/ d # "poll" => jobs'[d].id = None
      BY <2>1, NoJobFits DEF Booked, Requested
  <2>4. CASE Launches(jobs[c])
    <3>1. Starts(Everything(jobs[c]), IF Everything(jobs[c]) THEN {} ELSE jobs[c].changed, jobs[c].id)
          /\ UNCHANGED <<status, ghost>>
        BY <2>4, <1>9, Launching
    <3>2. PICK s \in Scanners : /\ scans[s].step = "off" /\ OthersSee({s}, {}, {})
                                /\ scans'[s].step = "new" /\ scans'[s].id = jobs[c].id
        BY <3>1 DEF Starts
    <3>3. scans[s].id = None /\ \A x \in Scanners \ {s} : Serves(x)
        BY <3>2, OthersServe DEF Booked, Requested
    <3>4. StatusSays'
        BY <2>1, <3>1 DEF Booked, StatusSays, Says
    <3>5. Requested'
      <4>1. \A i \in Ids : Alive(i) => Alive(i)'
          BY <2>1, <3>1, <3>2, <3>3, Places DEF Alive, Serves
      <4>2. \A x \in Scanners : scans'[x].step = "off" => scans'[x].id = None
          BY <3>2, <3>3 DEF Booked, Requested, Serves
      <4> QED
          BY <2>3, <3>1, <4>1, <4>2 DEF Booked, Requested
    <3>6. Owes'
      <4> SUFFICES ASSUME NEW r \in ghost.owed
                   PROVE  r \in status.recovering /\ \E i \in Ids : HandsOver(i, r)'
          BY <3>1 DEF Owes
      <4>1. PICK i \in Ids : r \in status.recovering /\ HandsOver(i, r)
          BY DEF Booked, Owes
      <4>2. i # jobs[c].id /\ i # None
          BY <4>1, Places DEF HandsOver
      <4>3. \A d \in Callers : jobs'[d].id # i
          BY <2>1, <4>1, <4>2, NoJobFits DEF HandsOver
      <4>4. \A x \in Scanners : scans'[x].id = i => Covers(scans'[x], r)
          BY <3>2, <3>3, <4>1, <4>2 DEF HandsOver, Serves
      <4>5. HandsOver(i, r)'
          BY <3>1, <4>1, <4>3, <4>4 DEF HandsOver
      <4> QED
          BY <4>1, <4>5
    <3> QED
        BY <3>4, <3>5, <3>6 DEF Booked
  <2>5. CASE ~Launches(jobs[c])
    <3>1. scans' = scans
        BY <2>5, <1>9, Launching
    <3>2. \A x \in Scanners : scans'[x].step = "off" => scans'[x].id = None
        BY <3>1 DEF Booked, Requested
    <3>3. ASSUME NEW i \in Ids, NEW r, HandsOver(i, r)
          PROVE  i # jobs[c].id /\ StillHands(i, r)
      <4>1. i # jobs[c].id /\ \A d \in Callers : jobs'[d].id # i
          BY <2>1, <3>3, NoJobFits, Places DEF HandsOver
      <4>2. \A x \in Scanners : scans'[x].id = i => Covers(scans'[x], r)
          BY <3>1, <3>3 DEF HandsOver
      <4> QED
          BY <4>1, <4>2 DEF StillHands
    <3>4. \A i \in Ids \ {jobs[c].id} : Alive(i) /\ i \notin ghost.orphans \ ghost'.orphans => Alive(i)'
        BY <2>1, <3>1 DEF Alive
    <3>5. CASE status' = CompleteScan(status, jobs[c].id) /\ ghost' = ghost
      <4>1. \A i \in Ids \ {jobs[c].id} : Alive(i) => Alive(i)'
          BY <3>4, <3>5
      <4>2. OffServesNone
          BY <2>3, <3>2 DEF OffServesNone
      <4>3. \A r \in ghost'.owed : /\ r \in ghost.owed
                                   /\ \A i \in Ids : HandsOver(i, r) => i # jobs[c].id /\ StillHands(i, r)
          BY <3>3, <3>5
      <4> QED
          BY <2>1, <2>2, <3>5, <4>1, <4>2, <4>3, OneCompleted
    <3>6. CASE status' = status /\ ghost' = [ghost EXCEPT !.orphans = @ \cup Pending(jobs[c].id)]
      <4>1. /\ ghost'.owed = ghost.owed /\ ghost.orphans \subseteq ghost'.orphans
            /\ (jobs[c].id \in Ids /\ status.pend[jobs[c].id] # {} => jobs[c].id \in ghost'.orphans)
          BY <2>2, <3>6, Orphaning
      <4>2. StatusSays'
          BY <2>1, <3>6 DEF Booked, StatusSays, Says
      <4>3. Requested'
        <5>1. \A i \in Ids : status.pend[i] # {} => Alive(i)'
            BY <3>4, <4>1 DEF Booked, Requested, Alive
        <5> QED
            BY <2>3, <3>2, <3>6, <5>1 DEF Requested
      <4>4. Owes'
        <5> SUFFICES ASSUME NEW r \in ghost.owed
                     PROVE  r \in status.recovering /\ \E i \in Ids : HandsOver(i, r)'
            BY <3>6, <4>1 DEF Owes
        <5>1. PICK i \in Ids : r \in status.recovering /\ HandsOver(i, r)
            BY DEF Booked, Owes
        <5>2. HandsOver(i, r)'
            BY <3>3, <3>6, <5>1 DEF HandsOver, StillHands
        <5> QED
            BY <5>1, <5>2
      <4> QED
          BY <4>2, <4>3, <4>4 DEF Booked
    <3>7. \/ status' = CompleteScan(status, jobs[c].id) /\ ghost' = ghost
          \/ status' = status /\ ghost' = [ghost EXCEPT !.orphans = @ \cup Pending(jobs[c].id)]
        BY <2>5, <1>9, Launching
    <3> QED
        BY <3>5, <3>6, <3>7
  <2> QED
      BY <2>4, <2>5
<1>10. ASSUME NEW c \in Callers, NEW p \in Paths, NEW ok \in BOOLEAN, HandleRemove(c, p, ok)
       PROVE  Booked'
  <2>1. /\ \A d \in Callers \ {c} : jobs'[d] = jobs[d]
        /\ jobs'[c].step = "remove" /\ jobs'[c].id = jobs[c].id
        /\ UNCHANGED <<outer, poll, status>>
      BY <1>10, RemovingRow
  <2> PICK lost \in SUBSET {p} : Removes(p, ok, lost)
      BY <1>10, Removing
  <2>2. OthersSee({}, IF ok THEN {p} ELSE {}, lost) /\ ghost' = [ghost EXCEPT !.lost = @ \cup lost]
      BY DEF Removes
  <2>3. ghost'.owed = ghost.owed /\ ghost'.orphans = ghost.orphans
      BY <2>2, Losing
  <2>4. \A s \in Scanners : Serves(s)
      BY <2>2, OthersServe
  <2> QED
      BY <2>1, <2>3, <2>4, <1>e, StaysBooked
<1>11. ASSUME Idle PROVE Booked'
  <2>1. /\ status' = Polling(status, poll.roots) /\ poll.roots \in SUBSET Roots
        /\ poll'.roots = poll.roots /\ UNCHANGED <<outer, jobs, scans, ghost>>
      BY <1>11, Idling
  <2> DEFINE new == Polling(status, poll.roots)
  <2>2. new.polling = poll.roots /\ new.recovering = status.recovering
        /\ new.pend = status.pend /\ Says(new)
      BY <2>1, PollingSays DEF TypeOK
  <2>3. status' = new
      BY <2>1
  <2> HIDE DEF new
  <2> QED
      BY <2>1, <2>2, <2>3 DEF Booked, StatusSays, Requested, Alive, Owes, HandsOver
<1>12. ASSUME NEW id \in Ids, Report(id)
       PROVE  Booked'
  <2>1. /\ id \in FreeIds /\ jobs["poll"].step = "off"
        /\ \A d \in Callers \ {"poll"} : jobs'[d] = jobs[d]
        /\ jobs'["poll"].step = "plan" /\ jobs'["poll"].id = id
        /\ poll'.roots = poll.roots
        /\ Says(status') /\ status'.polling = poll.roots
        /\ status'.recovering = status.recovering
        /\ \A i \in Ids : status'.pend[i] = IF i = id THEN poll.touched ELSE status.pend[i]
        /\ UNCHANGED <<outer, scans, ghost>>
      BY <1>12, ReportingSweep
  <2>2. jobs["poll"].id = None /\ None # id
      BY <2>1, <1>c, Places DEF Booked, Requested
  <2>3. \A i \in Ids : Alive(i) => Alive(i)'
      BY <2>1, <2>2, <1>c, Places DEF Alive
  <2>4. Alive(id)'
      BY <2>1, <1>c DEF Alive
  <2>5. OffServesNone
      BY <2>1 DEF Booked, Requested, OffServesNone
  <2>6. ASSUME NEW r \in ghost.owed, NEW i \in Ids, HandsOver(i, r)
        PROVE  StillHands(i, r)
    <3>1. status.pend[i] # {} /\ status.pend[id] = {}
        BY <2>1, <2>6 DEF HandsOver, FreeIds
    <3>2. \A d \in Callers : jobs'[d].id # i
        BY <2>1, <2>6, <3>1 DEF HandsOver
    <3>3. \A s \in Scanners : scans'[s].id = i => Covers(scans'[s], r)
        BY <2>1, <2>6 DEF HandsOver
    <3> QED
        BY <3>2, <3>3 DEF StillHands
  <2>7. \A r \in ghost'.owed : r \in ghost.owed /\ \A i \in Ids : HandsOver(i, r) => StillHands(i, r)
      BY <2>1, <2>6
  <2> QED
      BY <2>1, <2>3, <2>4, <2>5, <2>7, OneRegistered
<1>13. ASSUME NEW id \in Ids, NEW recovered \in SUBSET Roots, HandOff(recovered, id)
       PROVE  Booked'
  <2>1. /\ recovered \subseteq poll.roots /\ id \in FreeIds /\ Starts(TRUE, {}, id)
        /\ poll'.roots = poll.roots \ recovered
        /\ Says(status') /\ status'.polling = poll.roots \ recovered
        /\ status'.recovering = status.recovering \cup recovered
        /\ \A i \in Ids : status'.pend[i] = IF i = id THEN poll.roots ELSE status.pend[i]
        /\ ghost'.owed = ghost.owed \cup recovered /\ ghost'.orphans = ghost.orphans
        /\ UNCHANGED <<outer, jobs>>
      BY <1>13, HandingOff
  <2>2. PICK s \in Scanners : /\ scans[s].step = "off" /\ OthersSee({s}, {}, {})
                              /\ scans'[s].step = "new" /\ scans'[s].full /\ scans'[s].id = id
      BY <2>1 DEF Starts
  <2>3. scans[s].id = None /\ \A x \in Scanners \ {s} : Serves(x)
      BY <2>2, OthersServe DEF Booked, Requested
  <2>4. \A i \in Ids : Alive(i) => Alive(i)'
      BY <2>1, <2>2, <2>3, Places DEF Alive, Serves
  <2>5. Alive(id)'
      BY <2>2 DEF Alive
  <2>6. OffServesNone
    <3>1. \A x \in Scanners : scans'[x].step = "off" => scans'[x].id = None
        BY <2>2, <2>3 DEF Booked, Requested, Serves
    <3> QED
        BY <2>1, <3>1 DEF Booked, Requested, OffServesNone
  <2>7. ASSUME NEW r \in ghost.owed, NEW i \in Ids, HandsOver(i, r)
        PROVE  StillHands(i, r)
    <3>1. status.pend[i] # {} /\ status.pend[id] = {}
        BY <2>1, <2>7 DEF HandsOver, FreeIds
    <3>2. \A x \in Scanners : scans'[x].id = i => Covers(scans'[x], r)
        BY <2>2, <2>3, <2>7, <3>1 DEF HandsOver, Serves
    <3> QED
        BY <2>1, <2>7, <3>2 DEF StillHands, HandsOver
  <2>8. ASSUME NEW r \in recovered
        PROVE  r \in status'.recovering /\ HandsOver(id, r)'
    <3>1. \A c \in Callers : jobs[c].id # id
        BY <2>1 DEF FreeIds
    <3>2. \A x \in Scanners \ {s} : scans'[x].id # id
        BY <2>1, <2>3 DEF FreeIds, Serves
    <3>3. Covers(scans'[s], r)
        BY <2>2 DEF Covers
    <3> QED
        BY <2>1, <3>1, <3>2, <3>3 DEF HandsOver
  <2>9. \A r \in ghost'.owed : \/ r \in status'.recovering /\ HandsOver(id, r)'
                               \/ r \in ghost.owed /\ \A i \in Ids : HandsOver(i, r) => StillHands(i, r)
      BY <2>1, <2>7, <2>8
  <2>10. \A r \in status'.recovering \ status.recovering : r \in status'.pend[id]
      BY <2>1
  <2>11. \A i \in Ids \ {id} : status'.pend[i] = status.pend[i]
      BY <2>1
  <2> QED
      BY <2>1, <2>4, <2>5, <2>6, <2>9, <2>10, <2>11, OneRegistered
<1>14. ASSUME NEW batch \in SUBSET Paths, NEW failed \in SUBSET Roots, Advance(batch, failed)
       PROVE  Booked'
  <2>1. /\ poll'.roots = poll.roots /\ OthersSee({}, {}, Missed(failed))
        /\ ghost' = [ghost EXCEPT !.lost = @ \cup Missed(failed)]
        /\ UNCHANGED <<outer, jobs, status>>
      BY <1>14, Sweeping
  <2>2. ghost'.owed = ghost.owed /\ ghost'.orphans = ghost.orphans
    <3>1. Missed(failed) \in SUBSET Paths
        BY DEF Missed
    <3> QED
        BY <2>1, <3>1, Losing
  <2>3. \A s \in Scanners : Serves(s)
      BY <2>1, OthersServe
  <2> QED
      BY <2>1, <2>2, <2>3, <1>b, StaysBooked
<1>f. ASSUME NEW s \in Scanners, NEW T, NEW L, OthersSee({s}, T, L), Serves(s)
      PROVE  \A x \in Scanners : Serves(x)
    BY <1>f, OthersServe
<1>15. ASSUME NEW s \in Scanners, Walk(s)
       PROVE  Booked'
  <2>1. /\ OthersSee({s}, {}, {}) /\ scans[s].step = "new" /\ scans'[s].step = "work"
        /\ scans'[s].full = scans[s].full /\ scans'[s].id = scans[s].id
        /\ scans'[s].covers = IF scans[s].full THEN ghost.owed ELSE {}
      BY <1>15, Walking
  <2>2. UNCHANGED <<outer, poll, jobs, status, ghost>>
      BY <1>15 DEF Walk
  <2>3. Serves(s)
      BY <2>1 DEF Serves, Covers
  <2> QED
      BY <2>1, <2>2, <2>3, <1>b, <1>f, StaysBooked
<1>16. ASSUME NEW s \in Scanners, PruneLook(s)
       PROVE  Booked'
  <2>1. /\ OthersSee({s}, AbsentTo(s) \ GoneTo(s), {}) /\ Worked(scans[s])
        /\ scans'[s].step = (IF GoneTo(s) # {} THEN "delete" ELSE "report")
        /\ scans'[s].full = scans[s].full /\ scans'[s].id = scans[s].id
        /\ scans'[s].covers = scans[s].covers
      BY <1>16, PruneLooking
  <2>2. UNCHANGED <<outer, poll, jobs, status, ghost>>
      BY <1>16 DEF PruneLook
  <2>3. Serves(s)
      BY <2>1 DEF Serves, Covers, Worked
  <2> QED
      BY <2>1, <2>2, <2>3, <1>b, <1>f, StaysBooked
<1>17. ASSUME NEW s \in Scanners, ScanDone(s)
       PROVE  Booked'
  <2>1. OthersSee({s}, {}, {}) /\ scans'[s].step = "off" /\ scans'[s].id = None
      BY <1>17, Reporting, NoScanFits
  <2>2. /\ ghost'.owed = ghost.owed \ scans[s].covers /\ ghost'.orphans = ghost.orphans
        /\ status' = CompleteScan(status, scans[s].id) /\ scans[s].id \in MaybeId
        /\ scans[s].step = "report" /\ UNCHANGED <<outer, poll, jobs>>
      BY <1>17, Repairing
  <2>3. \A x \in Scanners \ {s} : Serves(x)
      BY <2>1, OthersServe
  <2>4. \A i \in Ids \ {scans[s].id} : Alive(i) => Alive(i)'
      BY <2>1, <2>2, <2>3 DEF Alive, Serves
  <2>5. OffServesNone
    <3>1. \A x \in Scanners : scans'[x].step = "off" => scans'[x].id = None
        BY <2>1, <2>3 DEF Booked, Requested, Serves
    <3> QED
        BY <2>2, <3>1 DEF Booked, Requested, OffServesNone
  <2>6. ASSUME NEW r \in ghost'.owed, NEW i \in Ids, HandsOver(i, r)
        PROVE  i # scans[s].id /\ StillHands(i, r)
    <3>1. ~Covers(scans[s], r) /\ r \in ghost.owed
        BY <2>2 DEF Covers
    <3>2. i # scans[s].id
        BY <2>6, <3>1 DEF HandsOver
    <3>3. \A x \in Scanners : scans'[x].id = i => Covers(scans'[x], r)
        BY <2>1, <2>3, <2>6, <3>1, Places DEF HandsOver, Serves
    <3> QED
        BY <2>2, <2>6, <3>2, <3>3 DEF HandsOver, StillHands
  <2>7. \A r \in ghost'.owed : /\ r \in ghost.owed
                               /\ \A i \in Ids : HandsOver(i, r) => i # scans[s].id /\ StillHands(i, r)
      BY <2>2, <2>6
  <2>8. status \in Statuses
      BY DEF TypeOK
  <2> QED
      BY <2>2, <2>4, <2>5, <2>7, <2>8, OneCompleted
<1>18. ASSUME NEW s \in Scanners, NEW p \in Paths, Decode(s, p)
       PROVE  Booked'
  <2>1. /\ OthersSee({s}, {}, {}) /\ scans[s].step = "work" /\ scans'[s].step = "work"
        /\ scans'[s].full = scans[s].full /\ scans'[s].id = scans[s].id
        /\ scans'[s].covers = scans[s].covers
      BY <1>18, Decoding
  <2>2. UNCHANGED <<outer, poll, jobs, status, ghost>>
      BY <1>18 DEF Decode
  <2>3. Serves(s)
      BY <2>1 DEF Serves, Covers
  <2> QED
      BY <2>1, <2>2, <2>3, <1>b, <1>f, StaysBooked
<1>19. ASSUME NEW s \in Scanners, NEW p \in Paths, NEW ok \in BOOLEAN, Upsert(s, p, ok)
       PROVE  Booked'
  <2>1. UNCHANGED <<outer, poll, jobs, status>>
      BY <1>19, Storing
  <2> PICK lost \in SUBSET {p} : Stores(s, p, ok, lost)
      BY <1>19, Upserting
  <2>2. /\ OthersSee({s}, IF ok THEN {p} ELSE {}, lost) /\ ghost' = [ghost EXCEPT !.lost = @ \cup lost]
        /\ scans[s].step = "work" /\ scans'[s].step = "work" /\ scans'[s].full = scans[s].full
        /\ scans'[s].id = scans[s].id /\ scans'[s].covers = scans[s].covers
      BY DEF Stores
  <2>3. ghost'.owed = ghost.owed /\ ghost'.orphans = ghost.orphans
      BY <2>2, Losing
  <2>4. Serves(s)
      BY <2>2 DEF Serves, Covers
  <2>5. \A x \in Scanners : Serves(x)
      BY <2>2, <2>4, <1>f
  <2> QED
      BY <2>1, <2>3, <2>5, <1>b, StaysBooked
<1>20. ASSUME NEW s \in Scanners, NEW ok \in BOOLEAN, PruneDelete(s, ok)
       PROVE  Booked'
  <2>1. UNCHANGED <<outer, poll, jobs, status>>
      BY <1>20, Deleting
  <2> PICK lost \in SUBSET Paths : Deletes(s, ok, lost)
      BY <1>20, PruneDeleting
  <2>2. /\ OthersSee({s}, IF ok THEN scans[s].gone ELSE {}, lost)
        /\ ghost' = [ghost EXCEPT !.lost = @ \cup lost]
        /\ scans[s].step = "delete" /\ scans'[s].step = "report" /\ scans'[s].full = scans[s].full
        /\ scans'[s].id = scans[s].id /\ scans'[s].covers = scans[s].covers
      BY DEF Deletes
  <2>3. ghost'.owed = ghost.owed /\ ghost'.orphans = ghost.orphans
      BY <2>2, Losing
  <2>4. Serves(s)
      BY <2>2 DEF Serves, Covers
  <2>5. \A x \in Scanners : Serves(x)
      BY <2>2, <2>4, <1>f
  <2> QED
      BY <2>1, <2>3, <2>5, <1>b, StaysBooked
<1>21. ASSUME NEW s \in Scanners, Die(s)
       PROVE  Booked'
  <2>1. /\ OthersSee({s}, {}, DiesWith(s)) /\ scans'[s].step = "off" /\ scans'[s].id = None
      BY <1>21, Dying, NoScanFits DEF SameScan
  <2>2. /\ ghost'.owed = ghost.owed /\ ghost.orphans \subseteq ghost'.orphans
        /\ (scans[s].id \in Ids /\ status.pend[scans[s].id] # {} => scans[s].id \in ghost'.orphans)
        /\ UNCHANGED <<outer, poll, jobs, status>>
      BY <1>21, Abandoning
  <2>3. \A x \in Scanners \ {s} : Serves(x)
      BY <2>1, OthersServe
  <2>4. StatusSays'
      BY <2>2 DEF Booked, StatusSays, Says
  <2>5. Requested'
    <3>1. \A i \in Ids : status.pend[i] # {} => Alive(i)'
        BY <2>2, <2>3 DEF Booked, Requested, Alive, Serves
    <3>2. \A x \in Scanners : scans'[x].step = "off" => scans'[x].id = None
        BY <2>1, <2>3 DEF Booked, Requested, Serves
    <3> QED
        BY <2>2, <3>1, <3>2 DEF Booked, Requested
  <2>6. Owes'
    <3> SUFFICES ASSUME NEW r \in ghost.owed
                 PROVE  r \in status.recovering /\ \E i \in Ids : HandsOver(i, r)'
        BY <2>2 DEF Owes
    <3>1. PICK i \in Ids : r \in status.recovering /\ HandsOver(i, r)
        BY DEF Booked, Owes
    <3>2. \A x \in Scanners : scans'[x].id = i => Covers(scans'[x], r)
        BY <2>1, <2>3, <3>1, Places DEF HandsOver, Serves
    <3>3. HandsOver(i, r)'
        BY <2>2, <3>1, <3>2 DEF HandsOver
    <3> QED
        BY <3>1, <3>3
  <2> QED
      BY <2>4, <2>5, <2>6 DEF Booked
<1>22. ASSUME UNCHANGED vars PROVE Booked'
    BY <1>22, <1>a, <1>b, StaysBooked DEF vars
<1> QED
    BY <1>1, <1>2, <1>3, <1>4, <1>5, <1>6, <1>7, <1>8, <1>9, <1>10, <1>11, <1>12, <1>13, <1>14,
       <1>15, <1>16, <1>17, <1>18, <1>19, <1>20, <1>21, <1>22
       DEF Next, Environment, Outer, Main, Job, Poll, Scan

-----------------------------------------------------------------------------
(* No change is forgotten *)

Fine(p) == Quiet(p) \/ Awaited(p)

\* A scanner that does not hold a path, or holds it as it is.
Harmless(scan, p) == p \in (scan.todo \cup scan.decoded) \ scan.touched => scan.seen[p] = files[p]

LEMMA StillQuiet ==
    ASSUME NEW p \in Paths, Quiet(p), files'[p] = files[p], rows'[p] = rows[p],
           NEW some, NEW T, NEW L, OthersSee(some, T, L),
           \A s \in Scanners : s \in some => Harmless(scans[s], p)'
    PROVE  Quiet(p)'
<1>1. ASSUME NEW s \in Scanners \ some,
             p \in (scans'[s].todo \cup scans'[s].decoded) \ scans'[s].touched
      PROVE  scans'[s].seen[p] = files'[p]
    BY <1>1 DEF OthersSee, Seen, SameScan, Quiet
<1> QED
    BY <1>1 DEF Quiet, Harmless

\* The row is as its file, and whoever else held the path knows.
LEMMA TouchedQuiet ==
    ASSUME NEW p \in Paths, rows'[p] = files'[p],
           NEW some, NEW T, NEW L, OthersSee(some, T, L), p \in T,
           \A s \in Scanners : s \in some => Harmless(scans[s], p)'
    PROVE  Quiet(p)'
<1>1. ASSUME NEW s \in Scanners \ some
      PROVE  p \notin (scans'[s].todo \cup scans'[s].decoded) \ scans'[s].touched
    BY <1>1 DEF OthersSee, Seen, SameScan, Hold
<1> QED
    BY <1>1 DEF Quiet, Harmless

LEMMA StillTracked ==
    ASSUME NEW p \in Paths, Tracked(p)',
           NEW some, NEW T, NEW L, OthersSee(some, T, L), ghost'.lost = ghost.lost \cup L,
           \A s \in Scanners : s \in some => scans'[s].repairs \subseteq scans[s].repairs \ L
    PROVE  Tracked(p) /\ p \notin L
<1>1. \A s \in Scanners : scans'[s].repairs \subseteq scans[s].repairs \ L
    BY DEF OthersSee, Seen
<1> QED
    BY <1>1 DEF Tracked

LEMMA StillInScan ==
    ASSUME NEW p \in Paths, files'[p] = files[p],
           NEW some, NEW T, NEW L, OthersSee(some, T, L),
           NEW s \in Scanners \ some, InScan(s, p)
    PROVE  InScan(s, p)'
<1>1. SameScan(scans'[s], scans[s])
    BY DEF OthersSee, Seen
<1> QED
    BY <1>1 DEF InScan, SameScan

\* A path stays awaited when each one who awaited it does, or hands it on.
LEMMA StillFine ==
    ASSUME NEW p \in Paths, Awaited(p), files'[p] = files[p],
           NEW some, NEW T, NEW L, OthersSee(some, T, L),
           InBatch(p) => Fine(p)', InPoll(p) => Fine(p)', Restarting => Fine(p)',
           \A c \in Callers : InJob(c, p) => Fine(p)',
           \A s \in Scanners : s \in some /\ InScan(s, p) => Fine(p)'
    PROVE  Fine(p)'
<1>1. ASSUME NEW s \in Scanners \ some, InScan(s, p)
      PROVE  Fine(p)'
    BY <1>1, StillInScan DEF Fine, Awaited
<1> QED
    BY <1>1 DEF Awaited

\* What nobody changes still awaits the path.
LEMMA Unchanged ==
    ASSUME NEW p \in Paths, files'[p] = files[p]
    PROVE  /\ /\ watch.events \subseteq watch'.events /\ watch.pending \subseteq watch'.pending
              /\ watch.removed \subseteq watch'.removed
              /\ InBatch(p)
              => Fine(p)'
           /\ poll' = poll /\ InPoll(p) => Fine(p)'
           /\ outer' = outer /\ watch'.pc = watch.pc /\ Restarting => Fine(p)'
           /\ \A c \in Callers : jobs'[c] = jobs[c] /\ InJob(c, p) => Fine(p)'
<1>1. ASSUME watch.events \subseteq watch'.events, watch.pending \subseteq watch'.pending,
             watch.removed \subseteq watch'.removed, InBatch(p)
      PROVE  Fine(p)'
    BY <1>1 DEF Fine, Awaited, InBatch
<1>2. ASSUME poll' = poll, InPoll(p)
      PROVE  Fine(p)'
    BY <1>2 DEF Fine, Awaited, InPoll, Noticed
<1>3. ASSUME outer' = outer, watch'.pc = watch.pc, Restarting
      PROVE  Fine(p)'
    BY <1>3 DEF Fine, Awaited, Restarting
<1>4. ASSUME NEW c \in Callers, jobs'[c] = jobs[c], InJob(c, p)
      PROVE  Fine(p)'
    BY <1>4 DEF Fine, Awaited, InJob
<1> QED
    BY <1>1, <1>2, <1>3, <1>4

LEMMA ChangeLooked ==
    ASSUME Inv, NEW q \in Paths, NEW time \in Times, Change(q, time)
    PROVE  Looked'
<1>1. PICK lost \in SUBSET {q} :
        /\ q \in left.paths /\ (time = 0 \/ time = NextTime)
        /\ \A p \in Paths : files'[p] = IF p = q THEN time ELSE files[p]
        /\ watch'.pc = watch.pc /\ watch'.native = watch.native
        /\ watch'.pending = watch.pending /\ watch'.removed = watch.removed
        /\ watch.events \subseteq watch'.events
        /\ Watched(RootOf[q]) /\ time # 0 => <<"changed", q>> \in watch'.events
        /\ Watched(RootOf[q]) /\ time = 0 => <<"removed", q>> \in watch'.events
        /\ q \in lost <=> \/ time = 0 /\ BetweenSweeps(q)
                          \/ status.mode = "unavailable" /\ ~Watched(RootOf[q])
        /\ OthersSee({}, {}, lost)
        /\ ghost' = [ghost EXCEPT !.lost = @ \cup lost]
        /\ UNCHANGED <<rows, outer, poll, jobs, status>>
    BY Changing DEF Inv
<1>2. ghost'.lost = ghost.lost \cup lost
    BY <1>1, Losing DEF Inv
<1> SUFFICES ASSUME NEW p \in Paths, Tracked(p)'
             PROVE  Fine(p)'
    BY DEF Looked, Fine
<1>3. Tracked(p) /\ p \notin lost
    BY <1>1, <1>2, StillTracked
<1>4. CASE p # q
  <2>1. files'[p] = files[p] /\ rows'[p] = rows[p]
      BY <1>1, <1>4
  <2>2. Quiet(p) => Quiet(p)'
      BY <2>1, <1>1, StillQuiet
  <2>3. Awaited(p) => Fine(p)'
      BY <2>1, <1>1, Unchanged, StillFine
  <2> QED
      BY <2>2, <2>3, <1>3 DEF Inv, Looked, Fine
<1>5. CASE p = q
  <2>1. files'[p] = time
      BY <1>1, <1>5
  <2>2. CASE Watched(RootOf[p])
      BY <2>1, <2>2, <1>1, <1>5 DEF Fine, Awaited, InBatch
  <2>3. CASE ~Watched(RootOf[p])
    <3>1. RootOf[p] \in Roots
        BY Places
    <3>2. CASE Restarting
        BY <3>2, <1>1 DEF Restarting, Fine, Awaited
    <3>3. CASE ~Restarting
      <4>1. watch.pc \in {"loop", "flush"} /\ outer.pc # "install"
          BY <3>3 DEF Restarting, Inv, InSession, TypeOK, Watches
      <4>2. status.mode # "unavailable"
          BY <1>1, <1>3, <1>5, <2>3
      <4>3. RootOf[p] \in poll.roots
          BY <2>3, <3>1, <4>1, <4>2 DEF Watched, Inv, InSession
      <4>4. time = 0 => ~BetweenSweeps(p)
          BY <1>1, <1>3, <1>5
      <4>5. time # 0 => poll.base[p] # time
        <5>1. poll.base[p] \in Int /\ NextTime \in Int /\ poll.base[p] < NextTime
            BY TimesSuffice DEF Inv, TypeOK, Pollings, Times, TimesPassed, NextTime, Limits
        <5> QED
            BY <5>1, <1>1
      <4>6. RootOf[p] \notin poll.known \/ poll.base[p] # time \/ Noticed(p)
          BY <4>3, <4>4, <4>5 DEF BetweenSweeps
      <4> QED
          BY <2>1, <4>3, <4>6, <1>1 DEF InPoll, Noticed, Fine, Awaited
    <3> QED
        BY <3>2, <3>3
  <2> QED
      BY <2>2, <2>3
<1> QED
    BY <1>4, <1>5

\* When the loop has taken in an event, or none, what its batch holds goes to the
\* flush, or to the next session.
LEMMA AfterLooked ==
    ASSUME Inv, NEW w \in Watches, NEW flush \in BOOLEAN, After(w, flush),
           watch.pc = "loop", w.pc = "loop",
           Cardinality(w.pending) <= left.cap, Cardinality(w.removed) <= left.cap,
           NEW L, OthersSee({}, {}, L), ghost'.lost = ghost.lost \cup L,
           UNCHANGED <<files, outer, poll>>,
           \A p \in Paths \ L : InBatch(p) =>
               \/ <<"changed", p>> \in w.events \/ p \in w.pending
               \/ files[p] = 0 /\ (<<"removed", p>> \in w.events \/ p \in w.removed)
    PROVE  Looked'
<1>1. /\ watch'.events = w.events
      /\ \A d \in Callers \ {"main"} : jobs'[d] = jobs[d]
      /\ \/ watch'.pc = "done"
         \/ /\ watch'.pc = "flush" /\ rows' = rows
            /\ jobs'["main"].step = "plan" /\ jobs'["main"].changed = w.pending
            /\ jobs'["main"].gone = w.removed
         \/ watch' = w /\ rows' = rows /\ jobs' = jobs
    BY Aftermath DEF Inv
<1>2. /\ outer.pc \in {"rescan", "await"} /\ jobs["main"].step = "off" /\ "main" \in Callers
    BY DEF Inv, InSession, TypeOK, Callers
<1> SUFFICES ASSUME NEW p \in Paths, Tracked(p)'
             PROVE  Fine(p)'
    BY DEF Looked, Fine
<1>3. Tracked(p) /\ p \notin L
    BY StillTracked
<1>4. CASE watch'.pc = "done"
    BY <1>2, <1>4 DEF Fine, Awaited, Restarting
<1>5. CASE watch'.pc # "done"
  <2>1. rows' = rows
      BY <1>1, <1>5
  <2>2. Quiet(p) => Quiet(p)'
      BY <2>1, StillQuiet
  <2>3. ASSUME InBatch(p) PROVE Fine(p)'
    <3>1. \/ <<"changed", p>> \in w.events \/ p \in w.pending
          \/ files[p] = 0 /\ (<<"removed", p>> \in w.events \/ p \in w.removed)
        BY <2>3, <1>3
    <3>2. CASE watch' = w
        BY <3>1, <3>2 DEF InBatch, Fine, Awaited
    <3>3. CASE /\ jobs'["main"].step = "plan" /\ jobs'["main"].changed = w.pending
               /\ jobs'["main"].gone = w.removed
      <4>1. InBatch(p)' \/ InJob("main", p)'
          BY <1>1, <3>1, <3>3 DEF InBatch, InJob
      <4> QED
          BY <4>1, <1>2 DEF Fine, Awaited
    <3> QED
        BY <1>1, <1>5, <3>2, <3>3
  <2>4. Restarting => Fine(p)'
      BY DEF Restarting, Fine, Awaited
  <2>5. \A c \in Callers : InJob(c, p) => Fine(p)'
    <3>1. ~InJob("main", p)
        BY <1>2 DEF InJob
    <3> QED
        BY <3>1, <1>1, Unchanged
  <2>6. Awaited(p) => Fine(p)'
      BY <2>3, <2>4, <2>5, Unchanged, StillFine
  <2> QED
      BY <2>2, <2>6, <1>3 DEF Inv, Looked, Fine
<1> QED
    BY <1>4, <1>5

LEMMA HeardLooked ==
    ASSUME Inv, NEW e \in watch.events, NEW held \in BOOLEAN, Event(e, held)
    PROVE  Looked'
<1>1. PICK w \in Watches :
        /\ watch.pc = "loop" /\ w.pc = "loop" /\ After(w, held)
        /\ w.events = watch.events \ {e}
        /\ watch.pending \subseteq w.pending /\ watch.removed \subseteq w.removed
        /\ Cardinality(w.pending) <= left.cap /\ Cardinality(w.removed) <= left.cap
        /\ \A p \in Paths : /\ e = <<"changed", p>> => p \in w.pending \cup DroppedBy(watch, e)
                            /\ e = <<"removed", p>> => p \in w.removed \cup DroppedBy(watch, e)
        /\ DroppedBy(watch, e) \in SUBSET Paths
        /\ ghost' = [ghost EXCEPT !.lost = @ \cup DroppedBy(watch, e)]
        /\ OthersSee({}, {}, DroppedBy(watch, e))
        /\ UNCHANGED <<files, outer, poll>>
    BY Hearing DEF Inv
<1>2. ghost'.lost = ghost.lost \cup DroppedBy(watch, e)
    BY <1>1, Losing DEF Inv
<1>3. \A p \in Paths \ DroppedBy(watch, e) : InBatch(p) =>
         \/ <<"changed", p>> \in w.events \/ p \in w.pending
         \/ files[p] = 0 /\ (<<"removed", p>> \in w.events \/ p \in w.removed)
    BY <1>1 DEF InBatch
<1> QED
    BY <1>1, <1>2, <1>3, AfterLooked

LEMMA SettledLooked ==
    ASSUME Inv, Settled
    PROVE  Looked'
<1>1. /\ watch.pc = "loop" /\ After(watch, TRUE) /\ watch \in Watches
      /\ Cardinality(watch.pending) <= left.cap /\ Cardinality(watch.removed) <= left.cap
      /\ UNCHANGED <<files, outer, poll, scans, ghost>>
    BY Settling DEF Inv
<1>2. OthersSee({}, {}, {})
    BY <1>1 DEF OthersSee, Seen, SameScan
<1>3. \A p \in Paths : InBatch(p) =>
         \/ <<"changed", p>> \in watch.events \/ p \in watch.pending
         \/ files[p] = 0 /\ (<<"removed", p>> \in watch.events \/ p \in watch.removed)
    BY DEF InBatch
<1> QED
    BY <1>1, <1>2, <1>3, AfterLooked

LEMMA PlanLooked ==
    ASSUME Inv, NEW c \in Callers, Plan(c)
    PROVE  Looked'
<1>1. /\ jobs[c].step = "plan" /\ \A d \in Callers \ {c} : jobs'[d] = jobs[d]
      /\ jobs'[c].step = "remove" /\ jobs'[c].full = jobs[c].full /\ jobs'[c].ok = jobs[c].ok
      /\ \A p \in Paths :
           /\ p \in jobs'[c].changed <=> p \in jobs[c].changed /\ files[p] # 0
           /\ p \in jobs'[c].gone <=> p \in jobs[c].changed \cup jobs[c].gone /\ files[p] = 0
      /\ UNCHANGED <<files, rows, outer, watch, poll, scans, ghost>>
    BY Planning DEF Inv
<1>2. OthersSee({}, {}, {})
    BY <1>1 DEF OthersSee, Seen, SameScan
<1> SUFFICES ASSUME NEW p \in Paths, Tracked(p)'
             PROVE  Fine(p)'
    BY DEF Looked, Fine
<1>3. Tracked(p)
    BY <1>1 DEF Tracked
<1>4. Quiet(p) => Quiet(p)'
    BY <1>1 DEF Quiet
<1>5. InJob(c, p) => Fine(p)'
    BY <1>1 DEF InJob, Fine, Awaited
<1>6. \A d \in Callers : InJob(d, p) => Fine(p)'
    BY <1>1, <1>5, Unchanged
<1>7. Awaited(p) => Fine(p)'
    BY <1>1, <1>2, <1>6, Unchanged, StillFine
<1> QED
    BY <1>3, <1>4, <1>7 DEF Inv, Looked, Fine

LEMMA RemovalLooked ==
    ASSUME Inv, NEW c \in Callers, NEW q \in Paths, NEW ok \in BOOLEAN, HandleRemove(c, q, ok)
    PROVE  Looked'
<1> DEFINE T == IF ok THEN {q} ELSE {}
<1>1. /\ jobs[c].step = "remove" /\ \A d \in Callers \ {c} : jobs'[d] = jobs[d]
      /\ jobs'[c].step = "remove" /\ jobs'[c].changed = jobs[c].changed
      /\ jobs'[c].gone = jobs[c].gone \ {q} /\ jobs'[c].ok = (jobs[c].ok /\ ok)
      /\ jobs'[c].full = jobs[c].full
      /\ \A p \in Paths : rows'[p] = IF p = q /\ ok THEN 0 ELSE rows[p]
      /\ UNCHANGED <<files, outer, watch, poll>>
    BY RemovingRow DEF Inv
<1>2. PICK lost \in SUBSET {q} : Removes(q, ok, lost)
    BY Removing DEF Inv
<1>3. /\ OthersSee({}, T, lost)
      /\ q \in lost <=> ok /\ files[q] # 0 /\ rows[q] = files[q]
      /\ ghost' = [ghost EXCEPT !.lost = @ \cup lost]
    BY <1>2 DEF Removes
<1>4. ghost'.lost = ghost.lost \cup lost
    BY <1>3, Losing DEF Inv
<1> SUFFICES ASSUME NEW p \in Paths, Tracked(p)'
             PROVE  Fine(p)'
    BY DEF Looked, Fine
<1>5. Tracked(p) /\ p \notin lost
    BY <1>3, <1>4, StillTracked
<1>6. ~ok => Fine(p)'
    BY <1>1 DEF InJob, Fine, Awaited
<1>7. ok /\ p = q /\ files[p] = 0 => Fine(p)'
  <2> SUFFICES ASSUME ok, p = q, files[p] = 0
               PROVE  Quiet(p)'
      BY DEF Fine
  <2>1. rows'[p] = files'[p] /\ p \in T
      BY <1>1
  <2> HIDE DEF T
  <2> QED
      BY <2>1, <1>3, TouchedQuiet
<1>8. ok /\ (p = q => files[p] # 0) => (Quiet(p) => Quiet(p)')
  <2> SUFFICES ASSUME ok, p = q => files[p] # 0, Quiet(p)
               PROVE  Quiet(p)'
      OBVIOUS
  <2>1. p # q
      BY <1>3, <1>5 DEF Quiet
  <2>2. files'[p] = files[p] /\ rows'[p] = rows[p]
      BY <2>1, <1>1
  <2> HIDE DEF T
  <2> QED
      BY <2>2, <1>3, StillQuiet
<1>9. ok /\ (p = q => files[p] # 0) => (Awaited(p) => Fine(p)')
  <2> SUFFICES ASSUME ok, p = q => files[p] # 0, Awaited(p)
               PROVE  Fine(p)'
      OBVIOUS
  <2>1. InJob(c, p) => Fine(p)'
      BY <1>1 DEF InJob, Fine, Awaited
  <2>2. \A d \in Callers : InJob(d, p) => Fine(p)'
      BY <1>1, <2>1, Unchanged
  <2> HIDE DEF T
  <2> QED
      BY <1>1, <1>3, <2>2, Unchanged, StillFine
<1> QED
    BY <1>5, <1>6, <1>7, <1>8, <1>9 DEF Inv, Looked, Fine

\* A scanner that starts disturbs nobody.
LEMMA StartsLooked ==
    ASSUME NEW p \in Paths, NEW full, NEW paths, NEW id, Starts(full, paths, id),
           files'[p] = files[p], rows'[p] = rows[p], ghost'.lost = ghost.lost
    PROVE  /\ Tracked(p)' => Tracked(p)
           /\ Quiet(p) => Quiet(p)'
           /\ full \/ (p \in paths /\ files[p] # 0) => Fine(p)'
           /\ \A s \in Scanners : InScan(s, p) => Fine(p)'
<1>1. PICK s \in Scanners :
        /\ scans[s].step = "off" /\ OthersSee({s}, {}, {})
        /\ scans'[s].step = "new" /\ scans'[s].full = full /\ scans'[s].paths = paths
        /\ Fresh1(scans'[s])
    BY DEF Starts
<1>2. Tracked(p)' => Tracked(p)
  <2>1. \A x \in Scanners : x \in {s} => scans'[x].repairs \subseteq scans[x].repairs \ {}
      BY <1>1 DEF Fresh1
  <2>2. ghost'.lost = ghost.lost \cup {}
      OBVIOUS
  <2> QED
      BY <1>1, <2>1, <2>2, StillTracked
<1>3. Quiet(p) => Quiet(p)'
  <2>1. \A x \in Scanners : x \in {s} => Harmless(scans[x], p)'
      BY <1>1 DEF Fresh1, Harmless
  <2> QED
      BY <1>1, <2>1, StillQuiet
<1>4. full \/ (p \in paths /\ files[p] # 0) => Fine(p)'
    BY <1>1 DEF InScan, Fine, Awaited
<1>5. ASSUME NEW x \in Scanners, InScan(x, p)
      PROVE  Fine(p)'
  <2>1. x # s
      BY <1>1, <1>5 DEF InScan
  <2>2. InScan(x, p)'
      BY <1>1, <1>5, <2>1, StillInScan
  <2> QED
      BY <2>2 DEF Fine, Awaited
<1> QED
    BY <1>2, <1>3, <1>4, <1>5

LEMMA LaunchLooked ==
    ASSUME Inv, NEW c \in Callers, Launch(c)
    PROVE  Looked'
<1>1. /\ jobs[c].step = "remove" /\ jobs[c].gone = {}
      /\ \A d \in Callers \ {c} : jobs'[d] = jobs[d]
      /\ watch'.events = watch.events /\ watch'.pending = watch.pending
      /\ watch'.removed = watch.removed
      /\ watch'.pc = (IF c = "main" THEN "loop" ELSE watch.pc)
      /\ \/ poll' = poll
         \/ /\ poll.pc = "flush" /\ poll'.pc = "sleep" /\ poll'.roots = poll.roots
            /\ poll'.known = poll.known /\ poll'.base = poll.base /\ poll'.sweep = poll.sweep
      /\ UNCHANGED <<files, rows, outer>>
    BY Launching DEF Inv
<1>2. jobs[c].id \in MaybeId /\ jobs[c].full \in BOOLEAN /\ jobs[c].ok \in BOOLEAN
    BY DEF Inv, TypeOK, Flushes
<1> SUFFICES ASSUME NEW p \in Paths, Tracked(p)'
             PROVE  Fine(p)'
    BY DEF Looked, Fine
<1>3. InBatch(p) => Fine(p)'
    BY <1>1, Unchanged
<1>4. InPoll(p) => Fine(p)'
    BY <1>1 DEF InPoll, Noticed, Fine, Awaited
<1>5. Restarting => Fine(p)'
  <2>1. c = "main" => watch.pc = "flush"
      BY <1>1 DEF Inv, InSession
  <2> QED
      BY <1>1, <2>1 DEF Restarting, Fine, Awaited
<1>6. \A d \in Callers \ {c} : InJob(d, p) => Fine(p)'
    BY <1>1, Unchanged
<1>7. CASE Launches(jobs[c])
  <2> DEFINE full == Everything(jobs[c])
             paths == IF full THEN {} ELSE jobs[c].changed
  <2>1. Starts(full, paths, jobs[c].id) /\ UNCHANGED ghost
      BY <1>7, Launching DEF Inv
  <2>2. InJob(c, p) => full \/ (p \in paths /\ files[p] # 0)
      BY <1>1 DEF InJob, Everything
  <2> HIDE DEF full, paths
  <2>3. /\ Tracked(p) /\ (Quiet(p) => Quiet(p)') /\ (InJob(c, p) => Fine(p)')
        /\ \A s \in Scanners : InScan(s, p) => Fine(p)'
      BY <1>1, <2>1, <2>2, StartsLooked
  <2>4. Awaited(p) => Fine(p)'
      BY <1>3, <1>4, <1>5, <1>6, <2>3 DEF Awaited
  <2> QED
      BY <2>3, <2>4 DEF Inv, Looked, Fine
<1>8. CASE ~Launches(jobs[c])
  <2>1. scans' = scans
      BY <1>8, Launching DEF Inv
  <2>2. \/ ghost' = ghost
        \/ ghost' = [ghost EXCEPT !.orphans = @ \cup Pending(jobs[c].id)]
      BY <1>8, Launching DEF Inv
  <2>3. ghost'.lost = ghost.lost
      BY <1>2, <2>2, Orphaning DEF Inv
  <2>4. Tracked(p) /\ (Quiet(p) => Quiet(p)')
      BY <1>1, <2>1, <2>3 DEF Tracked, Quiet
  <2>5. ~InJob(c, p)
      BY <1>1, <1>2, <1>8 DEF InJob, Launches
  <2>6. \A s \in Scanners : InScan(s, p) => Fine(p)'
      BY <1>1, <2>1 DEF InScan, Fine, Awaited
  <2>7. Awaited(p) => Fine(p)'
      BY <1>3, <1>4, <1>5, <1>6, <2>5, <2>6 DEF Awaited
  <2> QED
      BY <2>4, <2>7 DEF Inv, Looked, Fine
<1> QED
    BY <1>7, <1>8

\* A cycle of the polling that goes on with what its sweeps found.
LEMMA CycleLooked ==
    ASSUME Inv, UNCHANGED <<files, rows, outer, watch, scans, ghost>>,
           poll'.roots = poll.roots, poll'.known = poll.known, poll'.base = poll.base,
           poll'.sweep = poll.sweep,
           \A c \in Callers : jobs[c].step # "off" => jobs'[c] = jobs[c],
           poll.pc = "swept" => \A p \in Paths :
               poll.initial \/ p \in poll.changed \/ (p \in poll.removed /\ files[p] = 0)
               => Awaited(p)'
    PROVE  Looked'
<1> SUFFICES ASSUME NEW p \in Paths, Tracked(p)'
             PROVE  Fine(p)'
    BY DEF Looked, Fine
<1>1. Tracked(p) /\ (Quiet(p) => Quiet(p)')
    BY DEF Tracked, Quiet
<1>2. OthersSee({}, {}, {})
    BY DEF OthersSee, Seen, SameScan
<1>3. InPoll(p) => Fine(p)'
    BY DEF InPoll, Noticed, Fine, Awaited
<1>4. ASSUME NEW c \in Callers, InJob(c, p)
      PROVE  Fine(p)'
  <2>1. jobs[c].step # "off"
      BY <1>4 DEF InJob
  <2> QED
      BY <1>4, <2>1, Unchanged
<1>5. Awaited(p) => Fine(p)'
    BY <1>2, <1>3, <1>4, Unchanged, StillFine
<1> QED
    BY <1>1, <1>5 DEF Inv, Looked, Fine

LEMMA IdleLooked ==
    ASSUME Inv, Idle
    PROVE  Looked'
<1>1. /\ poll.pc = "swept" /\ poll.touched = {} /\ poll'.roots = poll.roots
      /\ poll'.known = poll.known /\ poll'.base = poll.base /\ poll'.sweep = poll.sweep
      /\ UNCHANGED <<files, rows, outer, watch, jobs, scans, ghost>>
    BY Idling DEF Inv
<1>2. ~poll.initial /\ poll.changed \cup poll.removed = {}
    BY <1>1 DEF Inv, InSession
<1> QED
    BY <1>1, <1>2, CycleLooked

LEMMA ReportLooked ==
    ASSUME Inv, NEW id \in Ids, Report(id)
    PROVE  Looked'
<1>1. /\ poll.pc = "swept" /\ jobs["poll"].step = "off"
      /\ \A d \in Callers \ {"poll"} : jobs'[d] = jobs[d]
      /\ jobs'["poll"].step = "plan" /\ jobs'["poll"].changed = poll.changed
      /\ jobs'["poll"].gone = poll.removed /\ jobs'["poll"].full = poll.initial
      /\ poll'.roots = poll.roots
      /\ poll'.known = poll.known /\ poll'.base = poll.base /\ poll'.sweep = poll.sweep
      /\ UNCHANGED <<files, rows, outer, watch, scans, ghost>>
    BY ReportingSweep DEF Inv
<1>2. \A p \in Paths :
        poll.initial \/ p \in poll.changed \/ (p \in poll.removed /\ files[p] = 0)
        => InJob("poll", p)'
    BY <1>1 DEF InJob
<1>3. "poll" \in Callers
    BY DEF Callers
<1>4. \A c \in Callers : jobs[c].step # "off" => jobs'[c] = jobs[c]
    BY <1>1
<1>5. \A p \in Paths : InJob("poll", p)' => Awaited(p)'
    BY <1>3 DEF Awaited
<1> QED
    BY <1>1, <1>2, <1>4, <1>5, CycleLooked

LEMMA HandOffLooked ==
    ASSUME Inv, NEW recovered \in SUBSET Roots, NEW id \in Ids, HandOff(recovered, id)
    PROVE  Looked'
<1>1. Starts(TRUE, {}, id) /\ ghost'.lost = ghost.lost /\ UNCHANGED <<files, rows>>
    BY HandingOff DEF Inv
<1> SUFFICES ASSUME NEW p \in Paths
             PROVE  Fine(p)'
    BY DEF Looked, Fine
<1> QED
    BY <1>1, StartsLooked

LEMMA AdvanceLooked ==
    ASSUME Inv, NEW batch \in SUBSET Paths, NEW failed \in SUBSET Roots, Advance(batch, failed),
           Elsewhere'
    PROVE  Looked'
<1> DEFINE now == Now(batch)
           complete == Complete(batch, failed)
<1>1. /\ poll.pc = "sleep" /\ poll'.pc = "swept" /\ poll'.roots = poll.roots
      /\ poll'.known = poll.known \cup complete
      /\ \A p \in Paths :
           /\ poll'.base[p] = IF p \in left.paths /\ RootOf[p] \in complete THEN now[p]
                              ELSE poll.base[p]
           /\ poll'.sweep[p] = IF RootOf[p] \in complete \cup failed THEN Unread ELSE now[p]
           /\ p \in poll'.changed <=> /\ p \in left.paths /\ RootOf[p] \in complete
                                      /\ Differs(poll.base, now, p)
           /\ p \in poll'.removed <=> /\ p \in left.paths /\ RootOf[p] \in complete
                                      /\ Vanished(poll.base, now, p)
      /\ poll'.initial <=> complete \ poll.known # {}
      /\ OthersSee({}, {}, Missed(failed))
      /\ ghost' = [ghost EXCEPT !.lost = @ \cup Missed(failed)]
      /\ Outcome(failed = {})
      /\ UNCHANGED <<files, rows, outer, watch, jobs>>
    BY Sweeping DEF Inv
<1>2. ghost'.lost = ghost.lost \cup Missed(failed)
  <2>1. Missed(failed) \in SUBSET Paths
      BY DEF Missed
  <2> QED
      BY <1>1, <2>1, Losing DEF Inv
<1>3. left'.paths = left.paths
    BY <1>1, OutcomeTyped DEF Inv, TypeOK
<1>4. \A p \in batch : poll.sweep[p] = Unread
    BY DEF Advance
<1>5. \A p \in Paths : now[p] = IF p \in batch THEN files[p] ELSE poll.sweep[p]
    BY DEF Now
<1>6. complete \cap failed = {} /\ complete \subseteq poll.roots
    BY DEF Complete
<1> HIDE DEF now, complete
<1> SUFFICES ASSUME NEW p \in Paths, Tracked(p)'
             PROVE  Fine(p)'
    BY DEF Looked, Fine
<1>7. Tracked(p) /\ p \notin Missed(failed)
    BY <1>1, <1>2, StillTracked
<1>8. CASE p \notin left.paths
  <2>1. files'[p] = 0 /\ rows'[p] = 0 /\ \A s \in Scanners : scans'[s].seen[p] = 0
      BY <1>3, <1>8 DEF Elsewhere
  <2> QED
      BY <2>1 DEF Fine, Quiet
<1>9. CASE p \in left.paths
  <2>1. Quiet(p) => Quiet(p)'
      BY <1>1, StillQuiet
  <2>2. ASSUME InPoll(p) PROVE InPoll(p)'
    <3>1. /\ RootOf[p] \in poll.roots
          /\ RootOf[p] \notin poll.known \/ poll.base[p] # files[p] \/ Noticed(p)
        BY <2>2, <1>1 DEF InPoll
    <3>2. Noticed(p) => now[p] = poll.sweep[p]
        BY <1>4, <1>5 DEF Noticed
    <3>3. CASE RootOf[p] \in complete
      <4>1. poll'.base[p] = now[p]
          BY <1>1, <1>9, <3>3
      <4>2. CASE RootOf[p] \notin poll.known
          BY <4>2, <1>1, <3>3 DEF InPoll
      <4>3. CASE Differs(poll.base, now, p)
          BY <4>3, <1>1, <1>9, <3>3 DEF InPoll
      <4>4. CASE Vanished(poll.base, now, p)
        <5>1. p \in poll'.removed /\ now[p] = 0
            BY <4>4, <1>1, <1>9, <3>3 DEF Vanished
        <5>2. files'[p] = 0 \/ poll'.base[p] # files'[p]
            BY <4>1, <5>1
        <5> QED
            BY <1>1, <3>1, <5>1, <5>2 DEF InPoll
      <4>5. CASE RootOf[p] \in poll.known /\ now[p] = poll.base[p]
        <5>1. ~Noticed(p)
            BY <3>2, <4>5 DEF Noticed
        <5>2. poll'.base[p] # files'[p]
            BY <1>1, <3>1, <4>1, <4>5, <5>1
        <5> QED
            BY <1>1, <3>1, <5>2 DEF InPoll
      <4> QED
          BY <4>2, <4>3, <4>4, <4>5 DEF Differs, Vanished
    <3>4. CASE RootOf[p] \notin complete
      <4>1. /\ poll'.base[p] = poll.base[p]
            /\ RootOf[p] \in poll'.known <=> RootOf[p] \in poll.known
          BY <1>1, <3>4
      <4>2. CASE RootOf[p] \notin poll.known \/ poll.base[p] # files[p]
          BY <4>1, <4>2, <1>1, <3>1 DEF InPoll
      <4>3. CASE RootOf[p] \in poll.known /\ poll.base[p] = files[p]
        <5>1. Noticed(p) /\ RootOf[p] \notin failed
            BY <1>7, <3>1, <4>3 DEF Missed
        <5>2. poll'.sweep[p] = poll.sweep[p]
            BY <1>1, <3>2, <3>4, <5>1
        <5>3. Noticed(p)'
            BY <4>1, <5>1, <5>2 DEF Noticed
        <5> QED
            BY <1>1, <3>1, <5>3 DEF InPoll
      <4> QED
          BY <4>2, <4>3
    <3> QED
        BY <3>3, <3>4
  <2>3. Awaited(p) => Fine(p)'
    <3>1. InPoll(p) => Fine(p)'
        BY <2>2 DEF Fine, Awaited
    <3> QED
        BY <1>1, <3>1, Unchanged, StillFine
  <2> QED
      BY <1>7, <2>1, <2>3 DEF Inv, Looked, Fine
<1> QED
    BY <1>8, <1>9

\* What a step of one scanner leaves to be shown.
LEMMA OneStepFine ==
    ASSUME NEW p \in Paths, NEW s \in Scanners, NEW T, NEW L, OthersSee({s}, T, L),
           UNCHANGED <<files, outer, watch, poll, jobs>>, InScan(s, p) => Fine(p)'
    PROVE  /\ Awaited(p) => Fine(p)'
           /\ rows'[p] = rows[p] /\ (Quiet(p) => Harmless(scans[s], p)') => (Fine(p) => Fine(p)')
<1>1. Awaited(p) => Fine(p)'
    BY Unchanged, StillFine
<1>2. ASSUME rows'[p] = rows[p], Quiet(p) => Harmless(scans[s], p)', Quiet(p)
      PROVE  Fine(p)'
    BY <1>2, StillQuiet DEF Fine
<1> QED
    BY <1>1, <1>2 DEF Fine

LEMMA OneStepTracked ==
    ASSUME NEW p \in Paths, NEW s \in Scanners, NEW T, NEW L, OthersSee({s}, T, L),
           ghost'.lost = ghost.lost \cup L, scans'[s].repairs \subseteq scans[s].repairs \ L,
           Tracked(p)'
    PROVE  Tracked(p) /\ p \notin L
BY StillTracked

LEMMA WalkLooked ==
    ASSUME Inv, NEW s \in Scanners, Walk(s)
    PROVE  Looked'
<1>1. /\ OthersSee({s}, {}, {}) /\ scans[s].step = "new" /\ scans'[s].step = "work"
      /\ \A p \in Paths :
           /\ p \in scans'[s].todo <=> /\ IF scans[s].full THEN files[p] # 0 ELSE p \in scans[s].paths
                                       /\ rows[p] # files[p]
           /\ scans'[s].seen[p] = IF p \in scans'[s].todo THEN files[p] ELSE 0
      /\ scans'[s].full = scans[s].full /\ scans'[s].decoded = scans[s].decoded
      /\ scans'[s].repairs = IF scans[s].full THEN ghost.lost ELSE {}
    BY Walking DEF Inv
<1>2. UNCHANGED <<files, rows, outer, watch, poll, jobs, ghost>>
    BY DEF Walk
<1>3. scans'[s].decoded = {}
    BY <1>1 DEF Inv, Scanning, Shaped
<1> SUFFICES ASSUME NEW p \in Paths, Tracked(p)'
             PROVE  Fine(p)'
    BY DEF Looked, Fine
<1>4. Harmless(scans[s], p)'
    BY <1>1, <1>2, <1>3 DEF Harmless
<1>5. CASE scans[s].full \/ (p \in scans[s].paths /\ files[p] # 0)
  <2>1. CASE files[p] = 0
      BY <1>1, <1>2, <1>5, <2>1 DEF InScan, Fine, Awaited
  <2>2. CASE files[p] # 0 /\ rows[p] # files[p]
      BY <1>1, <1>2, <1>5, <2>2 DEF InScan, Fine, Awaited
  <2>3. CASE files[p] # 0 /\ rows[p] = files[p]
    <3>1. \A x \in Scanners : p \notin Hold(scans[x]) \ scans[x].touched
        BY <2>3 DEF Inv, OldView
    <3>2. Quiet(p)
        BY <2>3, <3>1 DEF Quiet, Hold
    <3>3. Quiet(p)'
        BY <1>1, <1>2, <1>4, <3>2, StillQuiet
    <3> QED
        BY <3>3 DEF Fine
  <2> QED
      BY <2>1, <2>2, <2>3
<1>6. CASE ~(scans[s].full \/ (p \in scans[s].paths /\ files[p] # 0))
  <2>1. ~InScan(s, p)
      BY <1>1, <1>6 DEF InScan
  <2>2. Tracked(p)
    <3>1. /\ ghost'.lost = ghost.lost \cup {}
          /\ scans'[s].repairs \subseteq scans[s].repairs \ {}
        BY <1>1, <1>2, <1>6
    <3> QED
        BY <1>1, <3>1, OneStepTracked
  <2> QED
      BY <1>1, <1>2, <1>4, <2>1, <2>2, OneStepFine DEF Inv, Looked, Fine
<1> QED
    BY <1>5, <1>6

LEMMA DecodeLooked ==
    ASSUME Inv, NEW s \in Scanners, NEW q \in Paths, Decode(s, q)
    PROVE  Looked'
<1>1. /\ OthersSee({s}, {}, {}) /\ scans[s].step = "work" /\ q \in scans[s].todo
      /\ scans'[s].todo = scans[s].todo \ {q}
      /\ scans'[s].decoded = IF files[q] # 0 THEN scans[s].decoded \cup {q} ELSE scans[s].decoded
      /\ scans'[s].step = "work" /\ scans'[s].full = scans[s].full
      /\ scans'[s].seen = scans[s].seen /\ scans'[s].touched = scans[s].touched
      /\ scans'[s].repairs = scans[s].repairs
    BY Decoding DEF Inv
<1>2. UNCHANGED <<files, rows, outer, watch, poll, jobs, ghost>>
    BY DEF Decode
<1>3. /\ scans'[s].todo \cup scans'[s].decoded \subseteq scans[s].todo \cup scans[s].decoded
      /\ \A p \in Paths : files[p] # 0 /\ p \in scans[s].todo \cup scans[s].decoded
                          => p \in scans'[s].todo \cup scans'[s].decoded
    BY <1>1
<1> SUFFICES ASSUME NEW p \in Paths, Tracked(p)'
             PROVE  Fine(p)'
    BY DEF Looked, Fine
<1>4. Tracked(p)
  <2>1. ghost'.lost = ghost.lost \cup {} /\ scans'[s].repairs \subseteq scans[s].repairs \ {}
      BY <1>1, <1>2
  <2> QED
      BY <1>1, <2>1, OneStepTracked
<1>5. InScan(s, p) => Fine(p)'
    BY <1>1, <1>2, <1>3 DEF InScan, Fine, Awaited
<1>6. Quiet(p) => Harmless(scans[s], p)'
    BY <1>1, <1>2, <1>3 DEF Quiet, Harmless
<1> QED
    BY <1>1, <1>2, <1>4, <1>5, <1>6, OneStepFine DEF Inv, Looked, Fine

LEMMA UpsertLooked ==
    ASSUME Inv, NEW s \in Scanners, NEW q \in Paths, NEW ok \in BOOLEAN, Upsert(s, q, ok)
    PROVE  Looked'
<1> DEFINE T == IF ok THEN {q} ELSE {}
<1>1. /\ \A p \in Paths : rows'[p] = IF p = q /\ ok THEN scans[s].seen[q] ELSE rows[p]
      /\ UNCHANGED <<files, outer, watch, poll, jobs>>
    BY Storing DEF Inv
<1>2. PICK lost \in SUBSET {q} : Stores(s, q, ok, lost)
    BY Upserting DEF Inv
<1>3. /\ OthersSee({s}, T, lost)
      /\ q \in lost <=> ~ok \/ (q \in scans[s].touched /\ scans[s].seen[q] # files[q])
      /\ ghost' = [ghost EXCEPT !.lost = @ \cup lost]
      /\ scans[s].step = "work" /\ q \in scans[s].decoded
      /\ scans'[s].decoded = scans[s].decoded \ {q} /\ scans'[s].todo = scans[s].todo
      /\ scans'[s].seen = [scans[s].seen EXCEPT ![q] = 0]
      /\ scans'[s].touched = scans[s].touched \ {q}
      /\ scans'[s].repairs = scans[s].repairs \ lost
      /\ scans'[s].step = "work" /\ scans'[s].full = scans[s].full
    BY <1>2 DEF Stores
<1>4. ghost'.lost = ghost.lost \cup lost
    BY <1>3, Losing DEF Inv
<1>5. scans[s].seen \in [Paths -> Times] /\ q \notin scans[s].todo
    BY <1>3 DEF Inv, TypeOK, Scannings, Scanning, Shaped
<1>6. \A p \in Paths \ {q} : scans'[s].seen[p] = scans[s].seen[p]
    BY <1>3, <1>5
<1> HIDE DEF T
<1> SUFFICES ASSUME NEW p \in Paths, Tracked(p)'
             PROVE  Fine(p)'
    BY DEF Looked, Fine
<1>7. Tracked(p) /\ p \notin lost
    BY <1>3, <1>4, OneStepTracked
<1>8. CASE p # q
  <2>1. Quiet(p) => Harmless(scans[s], p)'
      BY <1>1, <1>3, <1>6, <1>8 DEF Quiet, Harmless
  <2>2. InScan(s, p) => Fine(p)'
      BY <1>1, <1>3, <1>6, <1>8 DEF InScan, Fine, Awaited
  <2>3. rows'[p] = rows[p]
      BY <1>1, <1>8
  <2> QED
      BY <1>1, <1>3, <1>7, <2>1, <2>2, <2>3, OneStepFine DEF Inv, Looked, Fine
<1>9. CASE p = q
  <2>1. ok /\ (p \in scans[s].touched => scans[s].seen[p] = files[p])
      BY <1>3, <1>7, <1>9
  <2>2. CASE scans[s].seen[p] = files[p]
    <3>1. rows'[p] = files'[p] /\ p \in T
        BY <1>1, <1>9, <2>1, <2>2 DEF T
    <3>2. Harmless(scans[s], p)'
        BY <1>3, <1>5, <1>9 DEF Harmless
    <3> QED
        BY <1>3, <3>1, <3>2, TouchedQuiet DEF Fine
  <2>3. CASE scans[s].seen[p] # files[p]
    <3>1. ~Quiet(p)
        BY <1>3, <1>9, <2>1, <2>3 DEF Quiet
    <3>2. Awaited(p)
        BY <1>7, <3>1 DEF Inv, Looked
    <3>3. InScan(s, p) => Fine(p)'
        BY <1>1, <1>3, <2>3 DEF InScan, Fine, Awaited
    <3> QED
        BY <1>1, <1>3, <3>2, <3>3, OneStepFine
  <2> QED
      BY <2>2, <2>3
<1> QED
    BY <1>8, <1>9

LEMMA PruneLooked ==
    ASSUME Inv, NEW s \in Scanners, PruneLook(s)
    PROVE  Looked'
<1>1. /\ OthersSee({s}, AbsentTo(s) \ GoneTo(s), {}) /\ Worked(scans[s])
      /\ scans'[s].step = (IF GoneTo(s) # {} THEN "delete" ELSE "report")
      /\ scans'[s].gone = GoneTo(s)
      /\ scans'[s].todo = scans[s].todo /\ scans'[s].decoded = scans[s].decoded
      /\ scans'[s].repairs = scans[s].repairs
    BY PruneLooking DEF Inv
<1>2. UNCHANGED <<files, rows, outer, watch, poll, jobs, ghost>>
    BY DEF PruneLook
<1> SUFFICES ASSUME NEW p \in Paths, Tracked(p)'
             PROVE  Fine(p)'
    BY DEF Looked, Fine
<1>3. Tracked(p)
  <2>1. ghost'.lost = ghost.lost \cup {} /\ scans'[s].repairs \subseteq scans[s].repairs \ {}
      BY <1>1, <1>2
  <2> QED
      BY <1>1, <2>1, OneStepTracked
<1>4. Harmless(scans[s], p)'
    BY <1>1 DEF Harmless, Worked
<1>5. InScan(s, p) => Fine(p)'
  <2> SUFFICES ASSUME InScan(s, p) PROVE Fine(p)'
      OBVIOUS
  <2>1. files[p] = 0 /\ p \in AbsentTo(s)
      BY <1>1 DEF InScan, Worked, AbsentTo
  <2>2. CASE p \in GoneTo(s)
      BY <1>1, <1>2, <2>1, <2>2 DEF InScan, Fine, Awaited
  <2>3. CASE p \notin GoneTo(s)
    <3>1. rows'[p] = files'[p] /\ p \in AbsentTo(s) \ GoneTo(s)
        BY <1>2, <2>1, <2>3 DEF GoneTo
    <3> QED
        BY <1>1, <1>4, <3>1, TouchedQuiet DEF Fine
  <2> QED
      BY <2>2, <2>3
<1> QED
    BY <1>1, <1>2, <1>3, <1>4, <1>5, OneStepFine DEF Inv, Looked, Fine

LEMMA DeleteLooked ==
    ASSUME Inv, NEW s \in Scanners, NEW ok \in BOOLEAN, PruneDelete(s, ok)
    PROVE  Looked'
<1> DEFINE T == IF ok THEN scans[s].gone ELSE {}
<1>1. /\ \A p \in Paths : rows'[p] = IF p \in scans[s].gone /\ ok THEN 0 ELSE rows[p]
      /\ UNCHANGED <<files, outer, watch, poll, jobs>>
    BY Deleting DEF Inv
<1>2. PICK lost \in SUBSET Paths : Deletes(s, ok, lost)
    BY PruneDeleting DEF Inv
<1>3. /\ OthersSee({s}, T, lost)
      /\ \A p \in Paths : p \in lost <=> /\ p \in scans[s].gone
                                         /\ ~ok \/ (p \in scans[s].touched /\ files[p] # 0)
      /\ ghost' = [ghost EXCEPT !.lost = @ \cup lost]
      /\ scans[s].step = "delete" /\ scans'[s].step = "report"
      /\ scans'[s].todo = scans[s].todo /\ scans'[s].decoded = scans[s].decoded
      /\ scans'[s].repairs = scans[s].repairs \ lost
    BY <1>2 DEF Deletes
<1>4. ghost'.lost = ghost.lost \cup lost
    BY <1>3, Losing DEF Inv
<1> HIDE DEF T
<1> SUFFICES ASSUME NEW p \in Paths, Tracked(p)'
             PROVE  Fine(p)'
    BY DEF Looked, Fine
<1>5. Tracked(p) /\ p \notin lost
    BY <1>3, <1>4, OneStepTracked
<1>6. Harmless(scans[s], p)'
    BY <1>3 DEF Inv, Scanning, Shaped, Harmless
<1>7. CASE p \notin scans[s].gone
  <2>1. ~InScan(s, p) /\ rows'[p] = rows[p]
      BY <1>1, <1>3, <1>7 DEF InScan
  <2> QED
      BY <1>1, <1>3, <1>5, <1>6, <2>1, OneStepFine DEF Inv, Looked, Fine
<1>8. CASE p \in scans[s].gone /\ files[p] = 0
  <2>1. ok
      BY <1>3, <1>5, <1>8
  <2>2. rows'[p] = files'[p] /\ p \in T
      BY <1>1, <1>8, <2>1 DEF T
  <2> QED
      BY <1>3, <1>6, <2>2, TouchedQuiet DEF Fine
<1>9. CASE p \in scans[s].gone /\ files[p] # 0
  <2>1. p \in Hold(scans[s]) \ scans[s].touched
      BY <1>3, <1>5, <1>9 DEF Hold
  <2>2. ~Quiet(p)
      BY <1>9, <2>1 DEF Inv, OldView, Quiet
  <2>3. Awaited(p) /\ ~InScan(s, p)
      BY <1>3, <1>5, <1>9, <2>2 DEF Inv, Looked, InScan
  <2> QED
      BY <1>1, <1>3, <2>3, OneStepFine
<1> QED
    BY <1>7, <1>8, <1>9

LEMMA DoneLooked ==
    ASSUME Inv, NEW s \in Scanners, ScanDone(s)
    PROVE  Looked'
<1>1. /\ OthersSee({s}, {}, {}) /\ scans'[s] = NoScan /\ scans[s].step = "report"
      /\ ghost'.lost = ghost.lost \ scans[s].repairs
      /\ UNCHANGED <<files, rows, outer, watch, poll, jobs>>
    BY Reporting, Repairing DEF Inv
<1> SUFFICES ASSUME NEW p \in Paths, Tracked(p)'
             PROVE  Fine(p)'
    BY DEF Looked, Fine
<1>2. Tracked(p)
  <2>1. \A x \in Scanners \ {s} : scans'[x].repairs = scans[x].repairs
      BY <1>1 DEF OthersSee, Seen
  <2>2. scans'[s].repairs = {}
      BY <1>1, NoScanFits DEF Fresh1
  <2> QED
      BY <1>1, <2>1, <2>2 DEF Tracked
<1>3. Harmless(scans[s], p)' /\ ~InScan(s, p)
    BY <1>1, NoScanFits DEF Harmless, Fresh1, InScan
<1> QED
    BY <1>1, <1>2, <1>3, OneStepFine DEF Inv, Looked, Fine

LEMMA DeathLooked ==
    ASSUME Inv, NEW s \in Scanners, Die(s)
    PROVE  Looked'
<1>1. /\ OthersSee({s}, {}, DiesWith(s)) /\ SameScan(scans'[s], NoScan)
      /\ scans'[s].repairs = {}
    BY Dying DEF Inv
<1>2. /\ ghost'.lost = ghost.lost \cup DiesWith(s)
      /\ UNCHANGED <<files, rows, outer, watch, poll, jobs>>
    BY Abandoning DEF Inv
<1> SUFFICES ASSUME NEW p \in Paths, Tracked(p)'
             PROVE  Fine(p)'
    BY DEF Looked, Fine
<1>3. Tracked(p) /\ p \notin DiesWith(s)
  <2>1. scans'[s].repairs \subseteq scans[s].repairs \ DiesWith(s)
      BY <1>1
  <2> QED
      BY <1>1, <1>2, <2>1, OneStepTracked
<1>4. Harmless(scans[s], p)'
    BY <1>1, NoScanFits DEF SameScan, Fresh1, Harmless
<1>5. ~InScan(s, p)
  <2>1. Shaped(scans[s])
      BY DEF Inv, Scanning
  <2> QED
      BY <1>3, <2>1 DEF DiesWith, InScan, Shaped
<1> QED
    BY <1>1, <1>2, <1>3, <1>4, <1>5, OneStepFine DEF Inv, Looked, Fine

LEMMA LookedKept ==
    ASSUME Inv, Elsewhere', [Next]_vars
    PROVE  Looked'
<1>a. ASSUME Restarting' PROVE Looked'
    BY <1>a DEF Looked, Awaited
<1>1. ASSUME NEW p \in Paths, NEW time \in Times, Change(p, time)
      PROVE  Looked'
    BY <1>1, ChangeLooked
<1>2. ASSUME NEW x \in Settings, Choose(x)
      PROVE  Looked'
  <2>1. /\ watch'.pc = watch.pc /\ watch'.pending = watch.pending
        /\ watch'.removed = watch.removed /\ watch.events \subseteq watch'.events
        /\ UNCHANGED <<files, rows, outer, poll, jobs, scans, ghost>>
      BY <1>2, Choosing DEF Inv
  <2>2. OthersSee({}, {}, {})
      BY <2>1 DEF OthersSee, Seen, SameScan
  <2>3. ASSUME NEW p \in Paths, Tracked(p)'
        PROVE  Fine(p)'
    <3>1. Tracked(p) /\ (Quiet(p) => Quiet(p)')
        BY <2>1, <2>3 DEF Tracked, Quiet
    <3>2. Awaited(p) => Fine(p)'
        BY <2>1, <2>2, Unchanged, StillFine
    <3> QED
        BY <3>1, <3>2 DEF Inv, Looked, Fine
  <2> QED
      BY <2>3 DEF Looked, Fine
<1>3. ASSUME NEW failed \in SUBSET Roots, Install(failed)
      PROVE  Looked'
  <2>1. Restarting'
      BY <1>3, Installing DEF Inv, Restarting
  <2> QED
      BY <2>1, <1>a
<1>4. ASSUME Rescan PROVE Looked'
  <2>1. jobs'["rescan"].step = "plan" /\ jobs'["rescan"].full
      BY <1>4, Rescanning DEF Inv
  <2>2. "rescan" \in Callers
      BY DEF Callers
  <2> QED
      BY <2>1, <2>2 DEF Looked, Awaited, InJob
<1>5. ASSUME Replace PROVE Looked'
  <2>1. Restarting'
      BY <1>5, Replacing DEF Inv, Restarting
  <2> QED
      BY <2>1, <1>a
<1>6. ASSUME Settled PROVE Looked'
    BY <1>6, SettledLooked
<1>7. ASSUME NEW e \in watch.events, NEW held \in BOOLEAN, Event(e, held)
      PROVE  Looked'
    BY <1>7, HeardLooked
<1>8. ASSUME NEW c \in Callers, Plan(c)
      PROVE  Looked'
    BY <1>8, PlanLooked
<1>9. ASSUME NEW c \in Callers, Launch(c)
      PROVE  Looked'
    BY <1>9, LaunchLooked
<1>10. ASSUME NEW c \in Callers, NEW p \in Paths, NEW ok \in BOOLEAN, HandleRemove(c, p, ok)
       PROVE  Looked'
    BY <1>10, RemovalLooked
<1>11. ASSUME Idle PROVE Looked'
    BY <1>11, IdleLooked
<1>12. ASSUME NEW id \in Ids, Report(id)
       PROVE  Looked'
    BY <1>12, ReportLooked
<1>13. ASSUME NEW id \in Ids, NEW recovered \in SUBSET Roots, HandOff(recovered, id)
       PROVE  Looked'
    BY <1>13, HandOffLooked
<1>14. ASSUME NEW batch \in SUBSET Paths, NEW failed \in SUBSET Roots, Advance(batch, failed)
       PROVE  Looked'
    BY <1>14, AdvanceLooked
<1>15. ASSUME NEW s \in Scanners, Walk(s)
       PROVE  Looked'
    BY <1>15, WalkLooked
<1>16. ASSUME NEW s \in Scanners, PruneLook(s)
       PROVE  Looked'
    BY <1>16, PruneLooked
<1>17. ASSUME NEW s \in Scanners, ScanDone(s)
       PROVE  Looked'
    BY <1>17, DoneLooked
<1>18. ASSUME NEW s \in Scanners, NEW p \in Paths, Decode(s, p)
       PROVE  Looked'
    BY <1>18, DecodeLooked
<1>19. ASSUME NEW s \in Scanners, NEW p \in Paths, NEW ok \in BOOLEAN, Upsert(s, p, ok)
       PROVE  Looked'
    BY <1>19, UpsertLooked
<1>20. ASSUME NEW s \in Scanners, NEW ok \in BOOLEAN, PruneDelete(s, ok)
       PROVE  Looked'
    BY <1>20, DeleteLooked
<1>21. ASSUME NEW s \in Scanners, Die(s)
       PROVE  Looked'
    BY <1>21, DeathLooked
<1>22. ASSUME UNCHANGED vars PROVE Looked'
  <2>1. UNCHANGED <<files, rows, outer, watch, poll, jobs, scans, ghost>>
      BY <1>22 DEF vars
  <2>2. ASSUME NEW p \in Paths, Tracked(p)'
        PROVE  Fine(p)'
    <3>1. Tracked(p) /\ (Quiet(p) => Quiet(p)')
        BY <2>1, <2>2 DEF Tracked, Quiet
    <3>2. OthersSee({}, {}, {})
        BY <2>1 DEF OthersSee, Seen, SameScan
    <3>3. Awaited(p) => Fine(p)'
        BY <2>1, <3>2, Unchanged, StillFine
    <3> QED
        BY <3>1, <3>3 DEF Inv, Looked, Fine
  <2> QED
      BY <2>2 DEF Looked, Fine
<1> QED
    BY <1>1, <1>2, <1>3, <1>4, <1>5, <1>6, <1>7, <1>8, <1>9, <1>10, <1>11, <1>12, <1>13, <1>14,
       <1>15, <1>16, <1>17, <1>18, <1>19, <1>20, <1>21, <1>22
       DEF Next, Environment, Outer, Main, Job, Poll, Scan

-----------------------------------------------------------------------------
(* The invariant *)

\* The first session, part by part.
Begun(failed, limit) ==
    /\ chosen \in Settings /\ limit \in Scenarios /\ Cardinality(failed) <= limit.outages
    /\ left = [limit EXCEPT !.outages = @ - Cardinality(failed)]
    /\ files = [p \in Paths |-> IF p \in limit.paths THEN 1 ELSE 0] /\ rows = files
    /\ watch = Session(failed) /\ poll = Poller(failed, chosen)
    /\ status = Fresh(NoStatus, failed, chosen)
    /\ outer = [pc |-> "await", setting |-> chosen]
    /\ jobs = [c \in Callers |-> NoJob] /\ scans = [s \in Scanners |-> NoScan]
    /\ ghost = [lost |-> {}, owed |-> {}, orphans |-> {}]

LEMMA Initially == Init => Inv
<1> SUFFICES ASSUME Init PROVE Inv
    OBVIOUS
<1>1. PICK failed \in SUBSET Roots, limit \in Scenarios : Begun(failed, limit)
    BY DEF Init, Begun
<1> DEFINE poller == Poller(failed, chosen)
           fresh == Fresh(NoStatus, failed, chosen)
           first == Session(failed)
<1>2. /\ limit \in [acts : Nat, outages : Nat, troubles : Nat, cap : Nat, paths : SUBSET Paths]
      /\ limit.acts + 2 <= LastTime /\ LastTime \in Nat
    BY TimesSuffice
<1>3. left \in Limits /\ left.paths = limit.paths
  <2>1. Cardinality(failed) \in Nat
      BY Places, FS_Subset, FS_CardinalityType
  <2>2. limit.outages - Cardinality(failed) \in Nat /\ left =
        [limit EXCEPT !.outages = limit.outages - Cardinality(failed)]
      BY <1>1, <1>2, <2>1 DEF Begun
  <2>3. /\ left \in [acts : Nat, outages : Nat, troubles : Nat, cap : Nat, paths : SUBSET Paths]
        /\ left.acts = limit.acts /\ left.paths = limit.paths
      BY <1>2, <2>2
  <2> QED
      BY <1>2, <2>3 DEF Limits
<1>4. NextTime \in Nat /\ NextTime >= 2
    BY <1>2, <1>3 DEF Limits, NextTime
<1>5. /\ files \in [Paths -> {0, 1}] /\ rows = files
      /\ \A p \in Paths \ left.paths : files[p] = 0
    BY <1>1, <1>3 DEF Begun
<1>6. \A s \in Scanners : scans[s] = NoScan
    BY <1>1 DEF Begun
<1>7. \A c \in Callers : jobs[c] = NoJob
    BY <1>1 DEF Begun
<1>8. /\ NoStatus \in Statuses /\ NoStatus.recovering = {}
      /\ \A i \in Ids : NoStatus.pend[i] = {}
    BY DEF NoStatus, Statuses
<1>9. /\ first \in Watches /\ first.pc = "loop" /\ first.native = Roots \ failed
      /\ first.pending = {} /\ first.removed = {}
      /\ poller \in Pollings /\ poller.pc \in {"off", "sleep"} /\ poller.spare = {}
      /\ Blank(poller)
      /\ fresh \in Statuses /\ Says(fresh) /\ fresh.polling = poller.roots
      /\ IF Polls(failed, chosen) THEN Continues(poller, fresh, NoStatus, failed)
         ELSE StartsOver(poller, fresh, failed)
    BY <1>8, Beginning
<1>10. /\ watch = first /\ poll = poller /\ status = fresh /\ outer.pc = "await"
       /\ ghost = [lost |-> {}, owed |-> {}, orphans |-> {}]
    BY <1>1 DEF Begun
<1> HIDE DEF first, poller, fresh
<1>11. fresh.recovering = {} /\ \A i \in Ids : fresh.pend[i] = {}
    BY <1>8, <1>9 DEF Continues, StartsOver
<1>12. TypeOK
  <2>1. files \in [Paths -> Times] /\ rows \in [Paths -> Times \cup {Invalid}]
      BY <1>2, <1>5 DEF Times
  <2>2. outer \in [pc : {"install", "rescan", "await"}, setting : Settings] /\ chosen \in Settings
      BY <1>1 DEF Begun
  <2>3. jobs \in [Callers -> Flushes] /\ scans \in [Scanners -> Scannings]
      BY <1>1, NoJobFits, NoScanFits DEF Begun
  <2>4. Cardinality({}) = 0 /\ left.cap \in Nat
      BY <1>3, FS_EmptySet DEF Limits
  <2>5. Cardinality(watch.pending) <= left.cap /\ Cardinality(watch.removed) <= left.cap
      BY <1>9, <1>10, <2>4
  <2> QED
      BY <1>3, <1>9, <1>10, <2>1, <2>2, <2>3, <2>5 DEF TypeOK
<1>13. TimesPassed
  <2>1. ASSUME NEW p \in Paths
        PROVE  /\ files[p] < NextTime /\ rows[p] < NextTime
               /\ poll.base[p] < NextTime /\ poll.sweep[p] < NextTime
    <3>1. files[p] \in {0, 1} /\ rows[p] = files[p]
        BY <1>5
    <3>2. poll.base[p] = 0 /\ poll.sweep[p] = -2
        BY <1>9, <1>10 DEF Blank, Unread
    <3> QED
        BY <1>4, <3>1, <3>2
  <2>2. \A s \in Scanners : \A p \in Paths : scans[s].seen[p] < NextTime
      BY <1>4, <1>6, NoScanFits DEF Fresh1
  <2> QED
      BY <2>1, <2>2 DEF TimesPassed
<1>14. Elsewhere
    BY <1>5, <1>6, NoScanFits DEF Elsewhere, Fresh1
<1>15. InSession
  <2>1. jobs["main"].step = "off"
      BY <1>7, NoJobFits DEF Callers
  <2>2. poll.pc = "off" => poll.roots = {} /\ poll.spare = {}
      BY <1>9, <1>10 DEF Continues, StartsOver
  <2>3. \/ Roots \subseteq watch.native \cup poll.spare \cup poll.roots
        \/ status.mode = "unavailable" /\ poll.pc = "off"
      BY <1>9, <1>10 DEF Continues, StartsOver
  <2> QED
      BY <1>9, <1>10, <2>1, <2>2, <2>3 DEF InSession
<1>16. StatusSays /\ Requested /\ Owes
    BY <1>6, <1>7, <1>9, <1>10, <1>11, NoJobFits, NoScanFits DEF StatusSays, Requested, Owes
<1>17. Scanning /\ OldView /\ Looked
    BY <1>5, <1>6, NoScanFits DEF Scanning, Shaped, OldView, Hold, Looked, Quiet, Fresh1
<1> QED
    BY <1>12, <1>13, <1>14, <1>15, <1>16, <1>17 DEF Inv

LEMMA Preserved == Inv /\ [Next]_vars => Inv'
<1> SUFFICES ASSUME Inv, [Next]_vars PROVE Inv'
    OBVIOUS
<1>1. TypeOK'
    BY TypesKept DEF Inv
<1>2. TimesPassed' /\ Elsewhere'
    BY <1>1, TimesKept DEF Inv
<1>3. Scanning' /\ OldView'
    BY ScansKept DEF Inv
<1>4. InSession'
    BY SessionKept DEF Inv
<1>5. StatusSays' /\ Requested' /\ Owes'
    BY RequestsKept DEF Inv, Booked
<1>6. Looked'
    BY <1>2, LookedKept
<1> QED
    BY <1>1, <1>2, <1>3, <1>4, <1>5, <1>6 DEF Inv

LEMMA Inductive == Spec => []Inv
<1> QED
    BY Initially, Preserved, PTL DEF Spec

\* The variables keep their types, and no batch of the watcher grows beyond its
\* bound (push_capped).
THEOREM TypeCorrect == Spec => []TypeOK
<1>1. Inv => TypeOK
    BY DEF Inv
<1> QED
    BY <1>1, Inductive, PTL

\* While a row differs from its file, somebody will deal with the file as it is now,
\* unless the path is one of the lost, whatever the watches, the polling, the flushes
\* and the scanners do to each other (watch_loop, poll_failed_roots, flush_watch_batch,
\* scan and prune).
THEOREM NothingForgotten == Spec => []Covered
<1>1. Inv => Covered
    BY DEF Inv, Looked, Tracked, Quiet, Covered
<1> QED
    BY <1>1, Inductive, PTL

\* No client is told that every root is watched natively before a scan of everything
\* that began after the hand-over has been reported (RuntimeStatus::complete_scan).
THEOREM NativeEarned == Spec => []NativeIsEarned
<1>1. Inv => NativeIsEarned
    BY DEF Inv, Owes, StatusSays, Says, NativeIsEarned
<1> QED
    BY <1>1, Inductive, PTL

\* In a running session the status names the roots that are really polled, and every
\* request that it waits for is in somebody's hands, or can no longer be reported
\* (RuntimeStatus).
THEOREM StatusReasoned == Spec => []StatusHasReason
<1>1. Inv => StatusHasReason
    BY DEF Inv, StatusSays, Requested, StatusHasReason
<1> QED
    BY <1>1, Inductive, PTL
================================================================================
