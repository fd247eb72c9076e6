------------------------- MODULE ImageOptimizer_proofs -------------------------
(***************************************************************************)
(* Proofs about the image optimizer: its types, that marks and outputs.json *)
(* follow a picture through every failed step, and that originals are kept. *)
(***************************************************************************)
EXTENDS ImageOptimizer, TLAPS

Request == [full : BOOLEAN, force : BOOLEAN, clean : BOOLEAN, paths : SUBSET Sources,
            by : SUBSET Kicks]

-----------------------------------------------------------------------------
(* The parts of the inductive invariant *)

KicksTyped ==
    /\ kick \in [Kicks -> {"idle", "pushed", "done"}] /\ served \subseteq Kicks
    /\ pending \in Request

TaskTyped ==
    /\ task \in [pc : {"off", "take", "taken", "batch", "ended"}, request : Request]
    /\ running = (task.pc # "off")
    /\ gate \in {"free", "images", "videos"}
    /\ (work.pc # "off") = (task.pc = "batch") /\ (gate = "images") = (task.pc = "batch")

WorkTyped ==
    work \in [pc : {"off", "pick", "encode", "installed", "stored", "undo", "uninstall",
                    "moved", "dated", "read"},
              todo : SUBSET Sources, source : Paths, was : Contents \cup {0},
              slot : Slots \cup {0}, saw : Paths]

FilesTyped ==
    /\ disk \in [Paths -> Contents \cup {0, Encoded}]
    /\ \A s \in Sources : disk[s] # Encoded
    /\ trash \in [Slots -> [what : Contents \cup {0}, old : BOOLEAN, due : BOOLEAN]]

RowsTyped ==
    /\ rows \subseteq Paths /\ marked \subseteq rows
    /\ records \in [Sources -> Contents \cup {0}]
    /\ out \in Paths /\ scan \in [op : {"off", "add", "drop"}, path : Paths]

Troubles == {"removed", "dropped", "undone", "died", "unwritten"}

\* Enough content is left for the acts that are left.
LeftTyped ==
    /\ left \in [acts : Nat, troubles : Nat] /\ left["acts"] + 1 <= LastContent
    /\ ghost \in [row : SUBSET Troubles, out : SUBSET Troubles, undated : SUBSET (Contents \cup {0})]

\* An image in the making has a source, and from the installation on a free trash name,
\* until the original is moved there.
WorkKnown ==
    /\ work.pc \notin {"off", "pick"} => work.source \in Sources
    /\ work.pc \in {"installed", "stored"} => work.slot \in Slots /\ trash[work.slot].what = 0
    /\ work.pc = "moved" => work.slot \in Slots

\* The one mark is on a row whose file is there and whose removal no scanner has decided.
OneMark == \A p, q \in marked : p = q
MarkShown ==
    ghost.row = {} => \E p \in marked : disk[p] # 0 /\ ~(scan.op = "drop" /\ scan.path = p)
\* It is not on the destination while that may still be taken away; once the row has
\* been renamed it can go back to a source that is there.
MarkSafe ==
    /\ work.pc \in {"stored", "undo"} => work.source \notin marked
    /\ ghost.row = {} =>
          /\ work.pc \in {"encode", "installed", "uninstall"} => Destination \notin marked
          /\ work.pc = "installed" => disk[Destination] # 0
          /\ work.pc \in {"stored", "undo"} /\ Destination \in marked =>
                disk[work.source] # 0 /\ ~(scan.op = "drop" /\ scan.path = work.source)

\* Until the original is moved outputs.json names a file that is there; from then on it
\* names one or the source, and the destination it is to name is there.
OutShown ==
    ghost.out = {} =>
      /\ disk[out] # 0 \/ (work.pc \in {"moved", "dated", "read"} /\ out = work.source)
      /\ work.pc \in {"installed", "stored", "moved", "dated", "read"} => disk[Destination] # 0
      /\ work.pc = "read" => work.saw = work.source \/ disk[out] # 0

\* What is old in the trash has been there for its retention, or was never dated.
Dated ==
    \A i \in Slots :
        trash[i].what # 0 /\ trash[i].old /\ ~trash[i].due =>
            trash[i].what \in ghost.undated \/ (work.pc = "moved" /\ work.slot = i)

Typed == KicksTyped /\ TaskTyped /\ WorkTyped /\ FilesTyped /\ RowsTyped /\ LeftTyped
Inv == /\ Typed /\ WorkKnown
       /\ OneMark /\ MarkShown /\ MarkSafe
       /\ OutShown /\ Dated

-----------------------------------------------------------------------------
(* What a step leaves alone *)

LEMMA LeavesRequests == ASSUME Image \/ Others PROVE UNCHANGED <<requests, gate>>
<1>1. ASSUME NEW s \in Sources, Skip(s) \/ Encode(s) PROVE UNCHANGED <<requests, gate>>
    BY <1>1 DEF Skip, Encode, Batch
<1>2. CASE NotWorth \/ Install \/ MoveFails \/ Uninstall \/ ReadOutputs \/ WriteOutputs
        \/ UninstallFails \/ WriteFails
    BY <1>2 DEF NotWorth, Install, MoveFails, Uninstall, ReadOutputs, WriteOutputs,
       UninstallFails, WriteFails, Batch
<1>3. ASSUME NEW ok \in BOOLEAN, Store(ok) \/ Undo(ok) \/ Touch(ok) \/ Move(ok)
      PROVE  UNCHANGED <<requests, gate>>
    BY <1>3 DEF Store, Undo, Touch, Move, Batch
<1>4. ASSUME NEW p \in Paths, Change(p, 0) \/ Change(p, NextContent) \/ Apply(p) \/ Look(p)
      PROVE  UNCHANGED <<requests, gate>>
    BY <1>4 DEF Change, Apply, Look
<1>5. ASSUME NEW i \in Slots, Age(i) PROVE UNCHANGED <<requests, gate>>
    BY <1>5 DEF Age
<1>6. CASE WriteRow
    BY <1>6 DEF WriteRow
<1> QED
    BY <1>1, <1>2, <1>3, <1>4, <1>5, <1>6 DEF Image, Others

LEMMA LeavesWork == ASSUME Others PROVE UNCHANGED work
<1>1. ASSUME NEW p \in Paths, Change(p, 0) \/ Change(p, NextContent) \/ Apply(p) \/ Look(p)
      PROVE  UNCHANGED work
    BY <1>1 DEF Change, Apply, Look
<1>2. ASSUME NEW i \in Slots, Age(i) PROVE UNCHANGED work
    BY <1>2 DEF Age
<1>3. CASE WriteRow
    BY <1>3 DEF WriteRow
<1> QED
    BY <1>1, <1>2, <1>3 DEF Others

\* The requests, their task and the gate have no part in the files, rows and outputs.
Management == \/ \E k \in Kicks : Push(k) \/ Start(k)
              \/ Take \/ Stop \/ VideoStarts \/ VideoEnds

LEMMA LeavesLibrary ==
    ASSUME Management
    PROVE  UNCHANGED <<work, files, database, out, scan, left, ghost>>
BY DEF Management, Push, Start, Take, Stop, VideoStarts, VideoEnds

LEMMA Steps ==
    ASSUME Next PROVE Management \/ StartBatch \/ Exit \/ Die \/ Image \/ Others
BY DEF Next, Management

-----------------------------------------------------------------------------
(* Types *)

LEMMA Merging ==
    ASSUME NEW p \in Request, NEW k \in Kicks
    PROVE  Merge(p, Wish[k], k) \in Request
BY Wishes DEF Request, Merge

LEMMA NothingTyped == Nothing \in Request
BY DEF Nothing, Request

LEMMA KicksTypedKept == ASSUME Typed, Next PROVE KicksTyped'
<1>1. ASSUME NEW k \in Kicks, Push(k) PROVE KicksTyped'
    BY <1>1, Merging DEF Push, Typed, KicksTyped
<1>2. ASSUME NEW k \in Kicks, Start(k) PROVE KicksTyped'
    BY <1>2 DEF Start, Typed, KicksTyped
<1>3. ASSUME Take PROVE KicksTyped'
    BY <1>3, NothingTyped DEF Take, Typed, KicksTyped
<1>4. ASSUME EndBatch PROVE KicksTyped'
  <2>1. task.request.by \subseteq Kicks
    BY DEF Typed, TaskTyped, Request
  <2> QED
    BY <1>4, <2>1 DEF EndBatch, Typed, KicksTyped
<1>5. ASSUME UNCHANGED <<kick, served, pending>> PROVE KicksTyped'
    BY <1>5 DEF Typed, KicksTyped
<1>6. CASE Stop \/ StartBatch
    BY <1>5, <1>6 DEF Stop, StartBatch
<1>7. CASE Image \/ Others
    BY <1>5, <1>7, LeavesRequests DEF requests
<1>8. CASE VideoStarts \/ VideoEnds
    BY <1>5, <1>8 DEF VideoStarts, VideoEnds, requests
<1> QED
    BY <1>1, <1>2, <1>3, <1>4, <1>6, <1>7, <1>8 DEF Next, Exit, Die

\* The worker neither starts nor ends with an image.
LEMMA WorkStays ==
    ASSUME Typed, Image \/ Others PROVE (work.pc # "off" <=> work'.pc # "off")
<1>1. work.pc \in {"pick", "encode", "installed", "stored", "undo", "uninstall", "moved",
                   "dated", "read"} <=> work.pc # "off"
    BY DEF Typed, WorkTyped
<1>2. ASSUME NEW s \in Sources, Skip(s) \/ Encode(s) PROVE work.pc # "off" <=> work'.pc # "off"
    BY <1>1, <1>2 DEF Skip, Encode, NextImage, NoWork, Typed, WorkTyped
<1>3. CASE NotWorth \/ Install \/ MoveFails \/ Uninstall \/ ReadOutputs \/ WriteOutputs
        \/ UninstallFails \/ WriteFails
    BY <1>1, <1>3 DEF NotWorth, Install, MoveFails, Uninstall, ReadOutputs, WriteOutputs,
       UninstallFails, WriteFails,
       NextImage, NoWork, Goto, Typed, WorkTyped
<1>4. ASSUME NEW ok \in BOOLEAN, Store(ok) \/ Undo(ok) \/ Touch(ok) \/ Move(ok)
      PROVE  work.pc # "off" <=> work'.pc # "off"
    BY <1>1, <1>4 DEF Store, Undo, Touch, Move, NextImage, NoWork, Goto, Typed, WorkTyped
<1>5. CASE Others
  <2>1. work' = work
    BY <1>5, LeavesWork
  <2> QED
    BY <2>1
<1> QED
    BY <1>2, <1>3, <1>4, <1>5 DEF Image

LEMMA TaskTypedKept == ASSUME Typed, Next PROVE TaskTyped'
<1> USE DEF Typed, TaskTyped
<1>1. ASSUME NEW k \in Kicks, Push(k) \/ Start(k) PROVE TaskTyped'
    BY <1>1, NothingTyped DEF Push, Start, NoTask
<1>2. ASSUME Take PROVE TaskTyped'
    BY <1>2, NothingTyped DEF Take, KicksTyped
<1>3. ASSUME Stop PROVE TaskTyped'
  <2>1. CASE HasWork(pending)
    BY <1>3, <2>1, NothingTyped DEF Stop, NoTask
  <2>2. CASE ~HasWork(pending)
    <3>1. HasWork(pending) = FALSE
      BY <2>2 DEF HasWork
    <3> QED
      BY <1>3, <3>1, NothingTyped DEF Stop, NoTask
  <2> QED
    BY <2>1, <2>2
<1>4. ASSUME VideoStarts \/ VideoEnds PROVE TaskTyped'
    BY <1>4 DEF VideoStarts, VideoEnds, requests
<1>5. ASSUME StartBatch PROVE TaskTyped'
    BY <1>5 DEF StartBatch, NoWork
<1>6. ASSUME EndBatch, work.pc # "off" PROVE TaskTyped'
    BY <1>6, NothingTyped DEF EndBatch, NoTask, NoWork
<1>7. ASSUME Image \/ Others PROVE TaskTyped'
    BY <1>7, WorkStays, LeavesRequests DEF requests
<1> QED
    BY <1>1, <1>2, <1>3, <1>4, <1>5, <1>6, <1>7 DEF Next, Exit, Die

LEMMA WorkTypedKept == ASSUME Typed, WorkKnown, Next PROVE WorkTyped'
<1> USE DEF Typed, WorkTyped, WorkKnown
<1>1. NoWork \in [pc : {"off"}, todo : SUBSET Sources, source : Paths, was : Contents \cup {0},
                  slot : Slots \cup {0}, saw : Paths]
    BY DEF NoWork, Paths
<1>2. CASE Management \/ Others
    BY <1>2, LeavesLibrary, LeavesWork
<1>3. CASE StartBatch
  <2> DEFINE todo == IF task.request.full THEN {s \in Sources : disk[s] # 0} ELSE task.request.paths
  <2>1. todo \subseteq Sources
    BY DEF TaskTyped, Request
  <2>2. work' = [NoWork EXCEPT !.pc = "pick", !.todo = todo]
    BY <1>3 DEF StartBatch
  <2> HIDE DEF todo
  <2> QED
    BY <1>1, <2>1, <2>2
<1>4. CASE Exit \/ Die
    BY <1>1, <1>4 DEF Exit, Die, EndBatch
<1>5. ASSUME NEW s \in Sources, Skip(s) \/ Encode(s) PROVE WorkTyped'
    BY <1>1, <1>5 DEF Skip, Encode, NextImage, NoWork, Paths
<1>6. CASE NotWorth \/ Uninstall \/ WriteOutputs \/ UninstallFails \/ WriteFails
    BY <1>1, <1>6 DEF NotWorth, Uninstall, WriteOutputs, UninstallFails, WriteFails, NextImage, NoWork
<1>7. CASE Install
  <2>1. TrashPath \in Slots
    BY <1>7 DEF Install, TrashPath, FreeSlots
  <2>2. disk[work.source] \in Contents \cup {0}
    BY <1>7 DEF Install, FilesTyped, Paths
  <2> QED
    BY <1>7, <2>1, <2>2 DEF Install
<1>8. CASE MoveFails \/ ReadOutputs
    BY <1>8 DEF MoveFails, ReadOutputs, Goto, RowsTyped
<1>9. ASSUME NEW ok \in BOOLEAN, Store(ok) \/ Undo(ok) \/ Touch(ok) \/ Move(ok) PROVE WorkTyped'
  <2>1. CASE Store(ok)
    BY <2>1 DEF Store, Goto
  <2>2. CASE Undo(ok)
    <3>1. Goto("uninstall") \/ work' = NextImage(work.source)
      BY <2>2 DEF Undo
    <3> QED
      BY <1>1, <3>1 DEF Goto, NextImage, NoWork
  <2>3. CASE Touch(ok) \/ Move(ok)
    BY <2>3 DEF Touch, Move, Goto
  <2> QED
    BY <1>9, <2>1, <2>2, <2>3
<1> QED
    BY <1>2, <1>3, <1>4, <1>5, <1>6, <1>7, <1>8, <1>9, Steps DEF Image

\* What the user writes next is a content that none has had.
LEMMA ContentLeft ==
    ASSUME LeftTyped, left["acts"] > 0
    PROVE  NextContent \in Contents /\ NextContent # 0
BY ContentsSuffice DEF LeftTyped, NextContent, Contents

LEMMA FilesTypedKept == ASSUME Typed, WorkKnown, Next PROVE FilesTyped'
<1> USE DEF Typed, WorkTyped, FilesTyped
<1>1. Destination \in Paths /\ Destination \notin Sources /\ Sources \subseteq Paths
      /\ 0 # Encoded /\ Encoded \notin Contents
    BY Files, ContentsSuffice DEF Paths, Encoded, Contents
<1>2. ASSUME UNCHANGED files PROVE FilesTyped'
    BY <1>2 DEF files
<1>3. CASE Management \/ Exit \/ Die
    BY <1>2, <1>3, LeavesLibrary DEF Exit, Die, EndBatch
<1>4. CASE StartBatch
    BY <1>4 DEF StartBatch, Cleaned, Empty
<1>5. ASSUME NEW s \in Sources, Skip(s) \/ Encode(s) PROVE FilesTyped'
    BY <1>2, <1>5 DEF Skip, Encode
<1>6. CASE NotWorth \/ MoveFails \/ ReadOutputs \/ WriteOutputs \/ UninstallFails \/ WriteFails
    BY <1>2, <1>6 DEF NotWorth, MoveFails, ReadOutputs, WriteOutputs,
       UninstallFails, WriteFails
<1>7. CASE Install \/ Uninstall
    BY <1>1, <1>7 DEF Install, Uninstall
<1>8. ASSUME NEW ok \in BOOLEAN, Store(ok) \/ Undo(ok) PROVE FilesTyped'
    BY <1>2, <1>8 DEF Store, Undo
<1>9. ASSUME NEW ok \in BOOLEAN, Touch(ok) PROVE FilesTyped'
    BY <1>9 DEF Touch, WorkKnown
<1>10. ASSUME NEW ok \in BOOLEAN, Move(ok) PROVE FilesTyped'
    BY <1>1, <1>10 DEF Move, WorkKnown
<1>11. ASSUME NEW p \in Paths, NEW c \in {0, NextContent}, Change(p, c) PROVE FilesTyped'
  <2>1. c \in Contents \cup {0}
    BY <1>11, ContentLeft DEF Change, Use
  <2> QED
    BY <1>1, <1>11, <2>1 DEF Change
<1>12. ASSUME NEW p \in Paths, Apply(p) \/ Look(p) PROVE FilesTyped'
    BY <1>2, <1>12 DEF Apply, Look
<1>13. ASSUME NEW i \in Slots, Age(i) PROVE FilesTyped'
    BY <1>13 DEF Age
<1>14. CASE WriteRow
    BY <1>2, <1>14 DEF WriteRow
<1> QED
    BY <1>3, <1>4, <1>5, <1>6, <1>7, <1>8, <1>9, <1>10, <1>11, <1>12, <1>13, <1>14, Steps
    DEF Image, Others

\* A renamed row keeps its mark, and a row that loses its key loses no other mark.
LEMMA Renaming ==
    ASSUME NEW old, NEW new, marked \subseteq rows, ~Clash(old, new), RenameRow(old, new)
    PROVE  /\ marked' \subseteq rows' /\ rows' \subseteq rows \cup {new}
           /\ marked' \subseteq marked \cup {new}
           /\ old # new => old \notin marked'
           /\ old \in marked => new \in marked'
           /\ old \notin marked => marked' = marked
BY DEF Clash, RenameRow, Moved

LEMMA RowsTypedKept == ASSUME Typed, WorkKnown, Next PROVE RowsTyped'
<1> USE DEF Typed, WorkTyped, RowsTyped
<1>1. Destination \in Paths /\ Sources \subseteq Paths
    BY DEF Paths
<1>2. ASSUME UNCHANGED <<database, out, scan>> PROVE RowsTyped'
    BY <1>2 DEF database
<1>3. CASE Management \/ Exit \/ Die \/ StartBatch
    BY <1>2, <1>3, LeavesLibrary DEF Exit, Die, EndBatch, StartBatch
<1>4. ASSUME NEW s \in Sources, Remember(s) PROVE records' \in [Sources -> Contents \cup {0}]
    BY <1>1, <1>4 DEF Remember, FilesTyped
<1>5. ASSUME NEW s \in Sources, Skip(s) PROVE RowsTyped'
    BY <1>4, <1>5 DEF Skip
<1>6. ASSUME NEW s \in Sources, Encode(s) PROVE RowsTyped'
    BY <1>2, <1>6 DEF Encode
<1>7. CASE NotWorth
    BY <1>4, <1>7 DEF NotWorth, WorkKnown
<1>8. CASE Install \/ MoveFails \/ Uninstall \/ ReadOutputs \/ UninstallFails \/ WriteFails
    BY <1>2, <1>8 DEF Install, MoveFails, Uninstall, ReadOutputs, UninstallFails, WriteFails
<1>9. CASE WriteOutputs
    BY <1>1, <1>9 DEF WriteOutputs, database
<1>10. ASSUME NEW ok \in BOOLEAN, Store(ok) \/ Undo(ok) PROVE RowsTyped'
  <2>1. CASE ok /\ Store(ok)
    <3>1. work.source \in Sources /\ ~Clash(work.source, Destination)
          /\ RenameRow(work.source, Destination)
      BY <2>1 DEF Store, WorkKnown
    <3> QED
      BY <1>1, <2>1, <3>1, Renaming DEF Store
  <2>2. CASE ok /\ Undo(ok)
    <3>1. work.source \in Sources /\ ~Clash(Destination, work.source)
          /\ RenameRow(Destination, work.source)
      BY <2>2 DEF Undo, WorkKnown
    <3> QED
      BY <1>1, <2>2, <3>1, Renaming DEF Undo
  <2>3. CASE ~ok
    BY <1>2, <1>10, <2>3 DEF Store, Undo
  <2> QED
    BY <1>10, <2>1, <2>2, <2>3
<1>11. ASSUME NEW ok \in BOOLEAN, Touch(ok) \/ Move(ok) PROVE RowsTyped'
    BY <1>2, <1>11 DEF Touch, Move
<1>12. ASSUME NEW p \in Paths, Change(p, 0) \/ Change(p, NextContent) PROVE RowsTyped'
    BY <1>2, <1>12 DEF Change
<1>13. ASSUME NEW p \in Paths, Apply(p) \/ Look(p) PROVE RowsTyped'
    BY <1>13 DEF Apply, Look, database
<1>14. ASSUME NEW i \in Slots, Age(i) PROVE RowsTyped'
    BY <1>2, <1>14 DEF Age
<1>15. CASE WriteRow
    BY <1>1, <1>15 DEF WriteRow, NoScan
<1> QED
    BY <1>3, <1>5, <1>6, <1>7, <1>8, <1>9, <1>10, <1>11, <1>12, <1>13, <1>14, <1>15, Steps
    DEF Image, Others

\* What an act or a trouble takes from what is left.
LEMMA Using ==
    ASSUME LeftTyped
    PROVE  /\ Use("acts") \/ Use("troubles") \/ UNCHANGED left =>
                /\ left' \in [acts : Nat, troubles : Nat] /\ left'["acts"] + 1 <= LastContent
           /\ \A ok \in BOOLEAN : Outcome(ok) => Use("troubles") \/ UNCHANGED left
<1>1. CASE Use("acts")
    BY <1>1, ContentsSuffice DEF LeftTyped, Use, Outcome
<1>2. CASE Use("troubles")
    BY <1>2, ContentsSuffice DEF LeftTyped, Use, Outcome
<1>3. CASE UNCHANGED left
    BY <1>3 DEF LeftTyped, Use, Outcome
<1>4. \A ok \in BOOLEAN : Outcome(ok) => Use("troubles") \/ UNCHANGED left
    BY DEF Outcome
<1> QED
    BY <1>1, <1>2, <1>3, <1>4

LEMMA LeftTypedKept == ASSUME Typed, WorkKnown, Next PROVE LeftTyped'
<1> USE DEF Typed, LeftTyped
<1> DEFINE Left == left' \in [acts : Nat, troubles : Nat] /\ left'["acts"] + 1 <= LastContent
<1> DEFINE Ghost == ghost' \in [row : SUBSET Troubles, out : SUBSET Troubles, undated : SUBSET (Contents \cup {0})]
<1>1. (Use("acts") \/ Use("troubles") \/ UNCHANGED left => Left) /\ (UNCHANGED ghost => Ghost)
    BY Using
<1>2. \A ok \in BOOLEAN : Outcome(ok) => Left
    BY Using
<1>3. \A i \in Slots : trash[i].what \in Contents \cup {0}
    BY DEF FilesTyped
<1> HIDE DEF Left, Ghost
<1>4. CASE Management \/ StartBatch \/ Exit
    BY <1>1, <1>4, LeavesLibrary DEF StartBatch, Exit, Left, Ghost
<1>5. CASE Die
  <2>1. work.pc = "moved" => trash[work.slot].what \in Contents \cup {0}
    BY <1>3 DEF WorkKnown
  <2>2. Ghost
    BY <1>5, <2>1 DEF Die, Ghost, Troubles
  <2> QED
    BY <1>1, <1>5, <2>2 DEF Die, Left, Ghost
<1>6. ASSUME NEW s \in Sources, Skip(s) \/ Encode(s) PROVE Left /\ Ghost
    BY <1>1, <1>6 DEF Skip, Encode
<1>7. CASE NotWorth \/ Install \/ ReadOutputs \/ WriteOutputs
    BY <1>1, <1>7 DEF NotWorth, Install, ReadOutputs, WriteOutputs, Left, Ghost
<1>8. CASE MoveFails
    BY <1>1, <1>2, <1>8 DEF MoveFails, Left, Ghost
<1>9. CASE Uninstall \/ UninstallFails \/ WriteFails
  <2>1. Ghost
    BY <1>9 DEF Uninstall, UninstallFails, WriteFails, Ghost, Troubles
  <2> QED
    BY <1>1, <1>9, <2>1 DEF Uninstall, UninstallFails, WriteFails, Left, Ghost
<1>10. ASSUME NEW ok \in BOOLEAN, Store(ok) \/ Undo(ok) \/ Touch(ok) \/ Move(ok) PROVE Left /\ Ghost
  <2>1. CASE Store(ok)
    <3>1. (ok \/ Clash(work.source, Destination)) \in BOOLEAN
      OBVIOUS
    <3>2. Left
      BY <1>2, <2>1, <3>1 DEF Store
    <3>3. Ghost
      BY <2>1 DEF Store, Ghost, Troubles
    <3> QED
      BY <3>2, <3>3
  <2>2. CASE Undo(ok)
    <3>1. (ok \/ Clash(Destination, work.source)) \in BOOLEAN
      OBVIOUS
    <3> QED
      BY <1>1, <1>2, <2>2, <3>1 DEF Undo
  <2>3. CASE Touch(ok)
    <3>1. trash[work.slot].what \in Contents \cup {0}
      BY <1>3, <2>3 DEF Touch, WorkKnown
    <3>2. Ghost
      BY <2>3, <3>1 DEF Touch, Ghost
    <3> QED
      BY <1>2, <2>3, <3>2 DEF Touch
  <2>4. CASE Move(ok)
    BY <1>1, <2>4 DEF Move
  <2> QED
    BY <1>10, <2>1, <2>2, <2>3, <2>4
<1>11. ASSUME NEW p \in Paths, NEW c, Change(p, c) PROVE Left /\ Ghost
  <2>1. Ghost
    BY <1>11 DEF Change, Ghost, AtWork, Troubles
  <2> QED
    BY <1>1, <1>11, <2>1 DEF Change
<1>12. ASSUME NEW p \in Paths, Apply(p) PROVE Left /\ Ghost
  <2>1. Ghost
    BY <1>12 DEF Apply, Ghost
  <2> QED
    BY <1>1, <1>12, <2>1 DEF Apply
<1>13. ASSUME NEW p \in Paths, Look(p) PROVE Left /\ Ghost
    BY <1>1, <1>13 DEF Look
<1>14. ASSUME NEW i \in Slots, Age(i) PROVE Left /\ Ghost
    BY <1>1, <1>14 DEF Age
<1>15. CASE WriteRow
    BY <1>1, <1>15 DEF WriteRow, Left, Ghost
<1>16. Left /\ Ghost
    BY <1>4, <1>5, <1>6, <1>7, <1>8, <1>9, <1>10, <1>11, <1>12, <1>13, <1>14, <1>15, Steps
    DEF Image, Others, Left, Ghost
<1> QED
    BY <1>16 DEF Left, Ghost

\* Between two images, and before and after a batch, the worker has no image.
LEMMA NoImage ==
    ASSUME Typed
    PROVE  /\ Exit \/ Die => work'.pc = "off"
           /\ StartBatch => work'.pc = "pick" /\ work.pc = "off"
           /\ \A s : work' = NextImage(s) => work'.pc = "pick"
<1>1. EndBatch => work'.pc = "off"
    BY DEF EndBatch, NoWork
<1>2. ASSUME NEW s, work' = NextImage(s) PROVE work'.pc = "pick"
    BY <1>2 DEF NextImage, NoWork
<1>3. ASSUME StartBatch PROVE work'.pc = "pick" /\ work.pc = "off"
  <2>1. \A todo : [NoWork EXCEPT !.pc = "pick", !.todo = todo].pc = "pick"
    BY DEF NoWork
  <2> QED
    BY <1>3, <2>1 DEF StartBatch, Typed, TaskTyped
<1> QED
    BY <1>1, <1>2, <1>3 DEF Exit, Die

LEMMA WorkKnownKept == ASSUME Typed, WorkKnown, Next PROVE WorkKnown'
<1> USE DEF Typed, WorkTyped, WorkKnown
<1>1. CASE Management
    BY <1>1, LeavesLibrary DEF files
<1>2. CASE StartBatch \/ Exit \/ Die
    BY <1>2, NoImage
<1>3. ASSUME NEW s \in Sources, Skip(s) \/ Encode(s) PROVE WorkKnown'
    BY <1>3 DEF Skip, Encode, NextImage, NoWork
<1>4. CASE NotWorth \/ Uninstall \/ WriteOutputs \/ UninstallFails \/ WriteFails
    BY <1>4 DEF NotWorth, Uninstall, WriteOutputs, UninstallFails, WriteFails, NextImage, NoWork
<1>5. CASE Install
  <2>1. TrashPath \in Slots /\ trash[TrashPath].what = 0
    BY <1>5 DEF Install, TrashPath, FreeSlots
  <2> QED
    BY <1>5, <2>1 DEF Install
<1>6. CASE MoveFails \/ ReadOutputs
    BY <1>6 DEF MoveFails, ReadOutputs, Goto, files
<1>7. ASSUME NEW ok \in BOOLEAN, Store(ok) PROVE WorkKnown'
    BY <1>7 DEF Store, Goto, files
<1>8. ASSUME NEW ok \in BOOLEAN, Undo(ok) PROVE WorkKnown'
  <2>1. Goto("uninstall") \/ work' = NextImage(work.source)
    BY <1>8 DEF Undo
  <2> QED
    BY <1>8, <2>1 DEF Undo, Goto, NextImage, NoWork
<1>9. ASSUME NEW ok \in BOOLEAN, Touch(ok) \/ Move(ok) PROVE WorkKnown'
    BY <1>9 DEF Touch, Move, Goto, FilesTyped
<1>10. CASE Others
  <2>1. ASSUME NEW p \in Paths, Change(p, 0) \/ Change(p, NextContent) \/ Apply(p) \/ Look(p)
        PROVE  UNCHANGED trash
    BY <2>1 DEF Change, Apply, Look, files
  <2>2. ASSUME NEW i \in Slots, Age(i)
        PROVE  \A j \in Slots : trash'[j].what = trash[j].what
    BY <2>2 DEF Age, FilesTyped
  <2>3. CASE WriteRow
    BY <2>3 DEF WriteRow, files
  <2>4. \A j \in Slots : trash'[j].what = trash[j].what
    BY <1>10, <2>1, <2>2, <2>3 DEF Others, WriteRow, files
  <2> QED
    BY <1>10, <2>4, LeavesWork
<1> QED
    BY <1>1, <1>2, <1>3, <1>4, <1>5, <1>6, <1>7, <1>8, <1>9, <1>10, Steps DEF Image

\* Every step keeps the types and what is known of the image in the making.
LEMMA TypedKept == ASSUME Typed, WorkKnown, Next PROVE (Typed /\ WorkKnown)'
<1>1. /\ KicksTyped' /\ TaskTyped' /\ WorkTyped'
      /\ FilesTyped' /\ RowsTyped' /\ LeftTyped' /\ WorkKnown'
    BY KicksTypedKept, TaskTypedKept, WorkTypedKept, FilesTypedKept, RowsTypedKept, LeftTypedKept,
       WorkKnownKept
<1> QED
    BY <1>1 DEF Typed

-----------------------------------------------------------------------------
(* The mark *)

LEMMA OneMarkKept == ASSUME Typed, WorkKnown, OneMark, Next PROVE OneMark'
<1> USE DEF OneMark
<1>1. ASSUME marked' \subseteq marked PROVE OneMark'
    BY <1>1
<1>2. CASE Management \/ StartBatch \/ Exit \/ Die
    BY <1>1, <1>2, LeavesLibrary DEF StartBatch, Exit, Die, EndBatch, database
<1>3. ASSUME NEW s \in Sources, Skip(s) \/ Encode(s) PROVE OneMark'
    BY <1>1, <1>3 DEF Skip, Encode, database
<1>4. CASE NotWorth \/ Install \/ MoveFails \/ Uninstall \/ ReadOutputs \/ WriteOutputs
        \/ UninstallFails \/ WriteFails
    BY <1>1, <1>4 DEF NotWorth, Install, MoveFails, Uninstall, ReadOutputs, WriteOutputs,
       UninstallFails, WriteFails, database
<1>5. ASSUME NEW ok \in BOOLEAN, Store(ok) \/ Undo(ok) PROVE OneMark'
    BY <1>1, <1>5 DEF Store, Undo, database, RenameRow, Moved
<1>6. ASSUME NEW ok \in BOOLEAN, Touch(ok) \/ Move(ok) PROVE OneMark'
    BY <1>1, <1>6 DEF Touch, Move, database
<1>7. ASSUME NEW p \in Paths, Change(p, 0) \/ Change(p, NextContent) \/ Apply(p) \/ Look(p)
      PROVE  OneMark'
    BY <1>1, <1>7 DEF Change, Apply, Look, database
<1>8. ASSUME NEW i \in Slots, Age(i) PROVE OneMark'
    BY <1>1, <1>8 DEF Age, database
<1>9. CASE WriteRow
    BY <1>1, <1>9 DEF WriteRow
<1> QED
    BY <1>2, <1>3, <1>4, <1>5, <1>6, <1>7, <1>8, <1>9, Steps DEF Image, Others

\* A step that neither touches the mark nor takes its file away, nor ends in a stage
\* that puts it at risk, keeps it.
LEMMA MarkUntouched ==
    ASSUME Typed, WorkKnown, MarkShown, MarkSafe, marked' = marked, scan' = scan,
           ghost'.row = ghost.row,
           \A p \in marked : disk[p] # 0 => disk'[p] # 0,
           \/ work'.pc \notin {"encode", "installed", "stored", "undo", "uninstall"}
           \/ work' = work /\ disk' = disk
    PROVE  MarkShown' /\ MarkSafe'
<1>1. MarkShown'
    BY DEF MarkShown
<1>2. MarkSafe'
    BY DEF MarkSafe
<1> QED
    BY <1>1, <1>2

LEMMA MarkKept ==
    ASSUME Typed, WorkKnown, OneMark, MarkShown, MarkSafe, Next
    PROVE  MarkShown' /\ MarkSafe'
<1> USE DEF Typed, WorkTyped
<1>1. Destination \notin Sources
    BY Files
<1>2. CASE Management
    BY <1>2, LeavesLibrary, MarkUntouched DEF files, database
<1>3. CASE StartBatch \/ Exit \/ Die
  <2>1. work'.pc \in {"off", "pick"}
    BY <1>3, NoImage
  <2>2. ghost'.row = ghost.row
    BY <1>3 DEF StartBatch, Exit, Die, LeftTyped
  <2>3. marked' = marked /\ scan' = scan /\ disk' = disk
    BY <1>3 DEF StartBatch, Exit, Die, EndBatch, database, files
  <2> QED
    BY <2>1, <2>2, <2>3, MarkUntouched
<1>4. ASSUME NEW s \in Sources, Skip(s) PROVE MarkShown' /\ MarkSafe'
    BY <1>4, NoImage, MarkUntouched DEF Skip, files
<1>5. ASSUME NEW s \in Sources, Encode(s) PROVE MarkShown' /\ MarkSafe'
    BY <1>5 DEF Encode, files, database, MarkShown, MarkSafe, OneMark
<1>6. CASE NotWorth \/ WriteOutputs \/ UninstallFails \/ WriteFails
    BY <1>6, NoImage, MarkUntouched DEF NotWorth, WriteOutputs, UninstallFails, WriteFails,
       files, database, LeftTyped
<1>7. CASE Install
    BY <1>1, <1>7 DEF Install, database, MarkShown, MarkSafe, FilesTyped, Encoded, RowsTyped, Paths
<1>8. CASE MoveFails
    BY <1>8 DEF MoveFails, Goto, files, database, MarkShown, MarkSafe
<1>9. CASE Uninstall
  <2>1. work'.pc = "pick" /\ ghost'.row = ghost.row
    BY <1>9, NoImage DEF Uninstall, LeftTyped
  <2>2. \A p \in Paths \ {Destination} : disk'[p] = disk[p]
    BY <1>9 DEF Uninstall, FilesTyped
  <2>3. ghost.row = {} => Destination \notin marked
    BY <1>9 DEF Uninstall, MarkSafe
  <2> QED
    BY <1>9, <2>1, <2>2, <2>3 DEF Uninstall, database, MarkShown, MarkSafe, RowsTyped
<1>10. CASE ReadOutputs
    BY <1>10, MarkUntouched DEF ReadOutputs, files, database
<1>11. ASSUME NEW ok \in BOOLEAN, Touch(ok) PROVE MarkShown' /\ MarkSafe'
  <2>1. work'.pc = "dated" /\ ghost'.row = ghost.row
    BY <1>11 DEF Touch, Goto, LeftTyped
  <2> QED
    BY <1>11, <2>1, MarkUntouched DEF Touch, database
<1>12. ASSUME NEW ok \in BOOLEAN, Move(ok) PROVE MarkShown' /\ MarkSafe'
  <2>1. work'.pc = "moved" /\ work.source \notin marked
    BY <1>12 DEF Move, Goto, MarkSafe
  <2>2. \A p \in marked : disk'[p] = disk[p]
    BY <1>12, <2>1 DEF Move, FilesTyped, RowsTyped
  <2> QED
    BY <1>12, <2>1, <2>2, MarkUntouched DEF Move, database
<1>13. ASSUME NEW ok \in BOOLEAN, Store(ok) PROVE MarkShown' /\ MarkSafe'
  <2>1. work.pc = "installed" /\ work.source \in Sources /\ disk' = disk /\ scan' = scan
    BY <1>13 DEF Store, files, WorkKnown
  <2>2. CASE ok
    <3>1. /\ ~Clash(work.source, Destination) /\ RenameRow(work.source, Destination)
          /\ work' = [work EXCEPT !.pc = "stored"]
          /\ ghost'.row = IF work.source \in marked /\ DropsDestination
                          THEN ghost.row \cup {"dropped"} ELSE ghost.row
      BY <1>13, <2>2 DEF Store, Goto, LeftTyped
    <3>2. /\ marked' \subseteq marked \cup {Destination} /\ work.source \notin marked'
          /\ work.source \in marked => Destination \in marked'
          /\ work.source \notin marked => marked' = marked
      BY <1>1, <2>1, <3>1, Renaming DEF RowsTyped
    <3>3. ASSUME ghost'.row = {} PROVE Destination \notin marked /\ disk[Destination] # 0
      BY <2>1, <3>1, <3>3 DEF MarkSafe, LeftTyped
    <3>a. ghost'.row = {} => ghost.row = {} /\ ~(work.source \in marked /\ DropsDestination)
      BY <3>1
    <3>4. MarkShown'
      BY <2>1, <3>1, <3>2, <3>3, <3>a DEF MarkShown, DropsDestination, OneMark, RowsTyped
    <3>5. MarkSafe'
      BY <2>1, <3>1, <3>2, <3>3 DEF MarkSafe, MarkShown, OneMark, LeftTyped
    <3> QED
      BY <3>4, <3>5
  <2>3. CASE ~ok
    <3>1. /\ marked' = marked /\ work' = [work EXCEPT !.pc = "uninstall"]
          /\ ghost'.row = ghost.row
      BY <1>13, <2>3 DEF Store, Goto, database, LeftTyped
    <3> QED
      BY <2>1, <3>1 DEF MarkShown, MarkSafe
  <2> QED
    BY <2>2, <2>3
<1>14. ASSUME NEW ok \in BOOLEAN, Undo(ok) PROVE MarkShown' /\ MarkSafe'
  <2>1. work.pc = "undo" /\ work.source \in Sources /\ disk' = disk /\ scan' = scan /\ ghost' = ghost
    BY <1>14 DEF Undo, files, WorkKnown
  <2>2. CASE ok
    <3>1. /\ ~Clash(Destination, work.source) /\ RenameRow(Destination, work.source)
          /\ work' = [work EXCEPT !.pc = "uninstall"]
      BY <1>14, <2>2 DEF Undo, Goto
    <3>2. /\ marked' \subseteq marked \cup {work.source} /\ Destination \notin marked'
          /\ Destination \in marked => work.source \in marked'
          /\ Destination \notin marked => marked' = marked
      BY <1>1, <2>1, <3>1, Renaming DEF RowsTyped
    <3>3. MarkShown'
      BY <2>1, <3>1, <3>2 DEF MarkShown, MarkSafe, OneMark
    <3>4. MarkSafe'
      BY <2>1, <3>1, <3>2 DEF MarkSafe
    <3> QED
      BY <3>3, <3>4
  <2>3. CASE ~ok
    BY <1>14, <2>1, <2>3, NoImage, MarkUntouched DEF Undo, database
  <2> QED
    BY <2>2, <2>3
<1>15. ASSUME NEW p \in Paths, NEW c \in {0, NextContent}, Change(p, c) PROVE MarkShown' /\ MarkSafe'
  <2>1. /\ marked' = marked /\ scan' = scan /\ work' = work /\ disk' = [disk EXCEPT ![p] = c]
        /\ NextContent # 0
    BY <1>15, ContentLeft DEF Change, database, Use
  <2>2. \A q \in Paths : q # p => disk'[q] = disk[q]
    BY <2>1 DEF FilesTyped
  <2>3. disk'[p] = c
    BY <2>1 DEF FilesTyped
  <2>4. ghost'.row = {} => ghost.row = {} /\ (c = 0 => p \notin marked /\ ~AtWork(p))
    BY <1>15 DEF Change, LeftTyped
  <2>5. MarkShown'
    BY <2>1, <2>2, <2>3, <2>4 DEF MarkShown, RowsTyped
  <2>6. Destination \in Paths /\ work.source \in Paths /\ (c # 0 => c = NextContent)
    BY DEF Paths
  <2>7. MarkSafe'
    BY <2>1, <2>2, <2>3, <2>4, <2>6 DEF MarkSafe, AtWork
  <2> QED
    BY <2>5, <2>7
<1>16. ASSUME NEW p \in Paths, Apply(p) PROVE MarkShown' /\ MarkSafe'
  <2>1. ghost'.row = ghost.row
    BY <1>16 DEF Apply, LeftTyped
  <2> QED
    BY <1>16, <2>1, MarkUntouched DEF Apply, files, database
<1>17. ASSUME NEW p \in Paths, Look(p) PROVE MarkShown' /\ MarkSafe'
  <2>1. /\ marked' = marked /\ work' = work /\ disk' = disk /\ ghost' = ghost
        /\ scan' = [op |-> IF p \in rows THEN "drop" ELSE "add", path |-> p]
        /\ (p \in rows) # (disk[p] # 0)
    BY <1>17 DEF Look, files, database
  <2> QED
    BY <2>1 DEF MarkShown, MarkSafe
<1>18. ASSUME NEW i \in Slots, Age(i) PROVE MarkShown' /\ MarkSafe'
    BY <1>18, MarkUntouched DEF Age, database
<1>19. CASE WriteRow
  <2>1. /\ work' = work /\ disk' = disk /\ ghost' = ghost /\ scan' = NoScan
        /\ marked' = IF scan.op = "drop" THEN marked \ {scan.path} ELSE marked
    BY <1>19 DEF WriteRow, files, RowsTyped
  <2> QED
    BY <2>1 DEF MarkShown, MarkSafe, NoScan
<1> QED
    BY <1>2, <1>3, <1>4, <1>5, <1>6, <1>7, <1>8, <1>9, <1>10, <1>11, <1>12, <1>13, <1>14, <1>15,
       <1>16, <1>17, <1>18, <1>19, Steps DEF Image, Others

-----------------------------------------------------------------------------
(* outputs.json *)

\* A step that takes away no file and ends in no stage that asks for more keeps it.
LEMMA OutUntouched ==
    ASSUME Typed, OutShown, out' = out, ghost'.out = {} => ghost.out = {},
           \A p \in Paths : disk[p] # 0 => disk'[p] # 0,
           work'.source = work.source /\ work'.saw = work.saw,
           \/ work'.pc = work.pc
           \/ /\ work.pc \notin {"moved", "dated", "read"}
              /\ work'.pc \notin {"installed", "stored", "moved", "dated", "read"}
           \/ /\ work.pc \in {"installed", "stored", "moved", "dated"}
              /\ work'.pc \in {"stored", "moved", "dated"}
              /\ work.pc # "installed" => work'.pc # "stored"
              /\ work.pc \in {"moved", "dated"} => work'.pc # "stored"
    PROVE  OutShown'
<1>1. Destination \in Paths /\ out \in Paths
    BY DEF Paths, Typed, RowsTyped
<1> QED
    BY <1>1 DEF OutShown

\* Neither does a step after which the worker has no image, unless it still had to repoint.
LEMMA OutRests ==
    ASSUME Typed, OutShown, out' = out, disk' = disk,
           ghost'.out = {} => ghost.out = {},
           Repoints /\ ghost'.out = {} => disk[out] # 0,
           work'.pc \in {"off", "pick"}
    PROVE  OutShown'
BY DEF OutShown, Repoints

LEMMA OutKept == ASSUME Typed, WorkKnown, OutShown, Next PROVE OutShown'
<1> USE DEF Typed, WorkTyped
<1>1. Destination \notin Sources /\ Destination \in Paths /\ Sources \subseteq Paths
      /\ out \in Paths
    BY Files DEF Paths, RowsTyped
<1>2. CASE Management
    BY <1>2, LeavesLibrary, OutUntouched DEF files, database
<1>3. CASE StartBatch \/ Exit
  <2>1. work'.pc \in {"off", "pick"} /\ work.pc \in {"off", "pick"}
    BY <1>3, NoImage DEF Exit
  <2> QED
    BY <1>3, <2>1, OutRests DEF StartBatch, Exit, EndBatch, files, Repoints
<1>4. CASE Die
  <2>1. work'.pc = "off"
    BY <1>4, NoImage
  <2>2. ghost'.out = IF Repoints /\ disk[out] = 0 THEN ghost.out \cup {"died"} ELSE ghost.out
    BY <1>4 DEF Die, LeftTyped
  <2> QED
    BY <1>4, <2>1, <2>2, OutRests DEF Die, EndBatch, files, LeftTyped
<1>5. ASSUME NEW s \in Sources, Skip(s) PROVE OutShown'
    BY <1>5, NoImage, OutRests DEF Skip, files, Repoints
<1>6. ASSUME NEW s \in Sources, Encode(s) PROVE OutShown'
    BY <1>6 DEF Encode, files, OutShown
<1>7. CASE NotWorth
    BY <1>7, NoImage, OutRests DEF NotWorth, files, Repoints
<1>8. CASE Install
  <2>1. /\ work.pc = "encode" /\ work'.pc = "installed" /\ out' = out /\ ghost' = ghost
        /\ disk' = [disk EXCEPT ![Destination] = Encoded]
    BY <1>8 DEF Install
  <2>2. disk'[Destination] # 0 /\ \A p \in Paths \ {Destination} : disk'[p] = disk[p]
    BY <1>1, <2>1 DEF FilesTyped, Encoded
  <2> QED
    BY <1>1, <2>1, <2>2 DEF OutShown
<1>9. CASE MoveFails
    BY <1>9 DEF MoveFails, Goto, files, OutShown
<1>10. CASE Uninstall
  <2>1. /\ work.pc = "uninstall" /\ work'.pc = "pick" /\ out' = out
        /\ ghost'.out = IF out = Destination THEN ghost.out \cup {"undone"} ELSE ghost.out
    BY <1>10, NoImage DEF Uninstall, LeftTyped
  <2>2. \A p \in Paths \ {Destination} : disk'[p] = disk[p]
    BY <1>10 DEF Uninstall, FilesTyped
  <2> QED
    BY <1>1, <2>1, <2>2 DEF OutShown
<1>11. CASE ReadOutputs
    BY <1>11 DEF ReadOutputs, files, OutShown
<1>12. CASE WriteOutputs \/ UninstallFails \/ WriteFails
  <2>1. CASE WriteOutputs
    BY <2>1, NoImage DEF WriteOutputs, files, OutShown
  <2>2. CASE UninstallFails
    BY <2>2, NoImage, OutRests DEF UninstallFails, files, Repoints
  <2>3. CASE WriteFails
    <3>1. ghost'.out = IF disk[out] = 0 THEN ghost.out \cup {"unwritten"} ELSE ghost.out
      BY <2>3 DEF WriteFails, LeftTyped
    <3> QED
      BY <2>3, <3>1, NoImage, OutRests DEF WriteFails, files, LeftTyped
  <2> QED
    BY <1>12, <2>1, <2>2, <2>3
<1>13. ASSUME NEW ok \in BOOLEAN, Store(ok) \/ Undo(ok) PROVE OutShown'
  <2>1. out' = out /\ disk' = disk /\ ghost'.out = ghost.out
    BY <1>13 DEF Store, Undo, files, LeftTyped
  <2>2. \/ work.pc = "installed" /\ (Goto("stored") \/ Goto("uninstall"))
        \/ work.pc = "undo" /\ (Goto("uninstall") \/ work'.pc = "pick")
    BY <1>13, NoImage DEF Store, Undo
  <2> QED
    BY <2>1, <2>2 DEF OutShown, Goto
<1>14. ASSUME NEW ok \in BOOLEAN, Touch(ok) PROVE OutShown'
    BY <1>14 DEF Touch, Goto, OutShown, LeftTyped
<1>15. ASSUME NEW ok \in BOOLEAN, Move(ok) PROVE OutShown'
  <2>1. /\ work.pc = "stored" /\ work'.pc = "moved" /\ work'.source = work.source
        /\ out' = out /\ ghost' = ghost /\ work.source \in Sources
    BY <1>15 DEF Move, Goto, WorkKnown
  <2>2. \A p \in Paths \ {work.source} : disk'[p] = disk[p]
    BY <1>15 DEF Move, FilesTyped
  <2> QED
    BY <1>1, <2>1, <2>2 DEF OutShown
<1>16. ASSUME NEW p \in Paths, NEW c \in {0, NextContent}, Change(p, c) PROVE OutShown'
  <2>1. out' = out /\ work' = work /\ disk' = [disk EXCEPT ![p] = c] /\ NextContent # 0
    BY <1>16, ContentLeft DEF Change, Use
  <2>2. disk'[p] = c /\ \A q \in Paths : q # p => disk'[q] = disk[q]
    BY <2>1 DEF FilesTyped
  <2>3. ghost'.out = {} => /\ ghost.out = {}
                           /\ c = 0 => p # out /\ ~(p = Destination /\ AtWork(p))
    BY <1>16 DEF Change, LeftTyped
  <2> QED
    BY <1>1, <2>1, <2>2, <2>3 DEF OutShown, AtWork
<1>17. ASSUME NEW p \in Paths, Apply(p) PROVE OutShown'
  <2>1. /\ out' = p /\ work' = work /\ disk' = disk /\ disk[p] # 0
        /\ ghost'.out = {} => ghost.out = {} \/ work.pc \in {"off", "pick"}
    BY <1>17 DEF Apply, files, LeftTyped
  <2> QED
    BY <2>1 DEF OutShown
<1>18. ASSUME NEW p \in Paths, Look(p) PROVE OutShown'
    BY <1>18, OutUntouched DEF Look, files
<1>19. ASSUME NEW i \in Slots, Age(i) PROVE OutShown'
    BY <1>19, OutUntouched DEF Age
<1>20. CASE WriteRow
    BY <1>20, OutUntouched DEF WriteRow, files
<1> QED
    BY <1>2, <1>3, <1>4, <1>5, <1>6, <1>7, <1>8, <1>9, <1>10, <1>11, <1>12, <1>13, <1>14, <1>15,
       <1>16, <1>17, <1>18, <1>19, <1>20, Steps DEF Image, Others

-----------------------------------------------------------------------------
(* The trash *)

LEMMA DatedUntouched ==
    ASSUME Typed, Dated, trash' = trash, work.pc # "moved",
           ghost'.undated = ghost.undated
    PROVE  Dated'
BY DEF Dated

LEMMA DatedKept == ASSUME Typed, WorkKnown, Dated, Next PROVE Dated'
<1> USE DEF Typed, WorkTyped
<1>1. CASE Management
    BY <1>1, LeavesLibrary DEF files, Dated
<1>2. CASE StartBatch
  <2>1. /\ work.pc # "moved" /\ ghost' = ghost
        /\ \A i \in Slots : trash'[i] = trash[i] \/ trash'[i] = Empty
    BY <1>2, NoImage DEF StartBatch, Cleaned
  <2> QED
    BY <2>1 DEF Dated, Empty
<1>3. CASE Exit
    BY <1>3, DatedUntouched DEF Exit, EndBatch, files
<1>4. CASE Die
  <2>1. ghost'.undated = IF work.pc = "moved" THEN ghost.undated \cup {trash[work.slot].what}
                                             ELSE ghost.undated
    BY <1>4 DEF Die, LeftTyped
  <2> QED
    BY <1>4, <2>1 DEF Die, EndBatch, files, Dated
<1>5. ASSUME NEW s \in Sources, Skip(s) \/ Encode(s) PROVE Dated'
    BY <1>5, DatedUntouched DEF Skip, Encode, files
<1>6. CASE NotWorth \/ Install \/ MoveFails \/ ReadOutputs \/ WriteOutputs \/ UninstallFails
    BY <1>6, DatedUntouched DEF NotWorth, Install, MoveFails, ReadOutputs, WriteOutputs,
       UninstallFails, files
<1>7. CASE Uninstall \/ WriteFails
    BY <1>7, DatedUntouched DEF Uninstall, WriteFails, files, LeftTyped
<1>8. ASSUME NEW ok \in BOOLEAN, Store(ok) \/ Undo(ok) PROVE Dated'
    BY <1>8, DatedUntouched DEF Store, Undo, files, LeftTyped
<1>9. ASSUME NEW ok \in BOOLEAN, Touch(ok) PROVE Dated'
  <2>1. work.slot \in Slots /\ work.pc = "moved"
    BY <1>9 DEF Touch, WorkKnown
  <2>2. CASE ok
    BY <1>9, <2>1, <2>2 DEF Touch, Dated, FilesTyped
  <2>3. CASE ~ok
    BY <1>9, <2>1, <2>3 DEF Touch, Dated, LeftTyped
  <2> QED
    BY <2>2, <2>3
<1>10. ASSUME NEW ok \in BOOLEAN, Move(ok) PROVE Dated'
  <2>1. work.pc = "stored" /\ work'.pc = "moved" /\ work'.slot = work.slot /\ ghost' = ghost
    BY <1>10 DEF Move, Goto
  <2>2. \A i \in Slots : i # work.slot => trash'[i] = trash[i]
    BY <1>10 DEF Move, FilesTyped
  <2> QED
    BY <2>1, <2>2 DEF Dated
<1>11. ASSUME NEW p \in Paths, NEW c, Change(p, c) PROVE Dated'
  <2>1. ghost'.undated = ghost.undated
    BY <1>11 DEF Change, LeftTyped
  <2> QED
    BY <1>11, <2>1 DEF Change, Dated
<1>12. ASSUME NEW p \in Paths, Apply(p) PROVE Dated'
  <2>1. ghost'.undated = ghost.undated
    BY <1>12 DEF Apply, LeftTyped
  <2> QED
    BY <1>12, <2>1 DEF Apply, files, Dated
<1>13. ASSUME NEW p \in Paths, Look(p) PROVE Dated'
    BY <1>13 DEF Look, files, Dated
<1>14. ASSUME NEW i \in Slots, Age(i) PROVE Dated'
    BY <1>14 DEF Age, FilesTyped, Dated
<1>15. CASE WriteRow
    BY <1>15 DEF WriteRow, files, Dated
<1> QED
    BY <1>1, <1>2, <1>3, <1>4, <1>5, <1>6, <1>7, <1>8, <1>9, <1>10, <1>11, <1>12, <1>13, <1>14,
       <1>15, Steps DEF Image, Others

-----------------------------------------------------------------------------
(* The invariant *)

LEMMA Initially == Init => Inv
<1> SUFFICES ASSUME Init PROVE Inv
    OBVIOUS
<1>1. 1 \in Contents /\ Encoded # 0 /\ Encoded # 1 /\ First \in Sources /\ Sources \subseteq Paths
      /\ Destination \in Paths /\ Destination # First
    BY Files, ContentsSuffice DEF Init, Contents, Encoded, Paths
<1>2. KicksTyped /\ TaskTyped
    BY NothingTyped DEF Init, KicksTyped, TaskTyped, NoTask, NoWork
<1>3. WorkTyped /\ WorkKnown /\ work.pc = "off"
    BY <1>1 DEF Init, NoWork, WorkTyped, WorkKnown
<1>4. FilesTyped
    BY <1>1 DEF Init, FilesTyped, Empty
<1>5. RowsTyped /\ scan.op = "off"
    BY <1>1 DEF Init, RowsTyped, NoScan
<1>6. LeftTyped
    BY ContentsSuffice DEF Init, LeftTyped
<1>7. disk[First] # 0 /\ marked = {First} /\ out = First
    BY <1>1 DEF Init
<1>8. OneMark /\ MarkShown /\ MarkSafe /\ OutShown
    BY <1>3, <1>5, <1>7 DEF OneMark, MarkShown, MarkSafe, OutShown
<1>9. Dated
    BY DEF Init, Dated, Empty
<1> QED
    BY <1>2, <1>3, <1>4, <1>5, <1>6, <1>8, <1>9 DEF Inv, Typed

LEMMA Preserved == Inv /\ [Next]_vars => Inv'
<1>1. ASSUME Inv, Next PROVE Inv'
    BY <1>1, TypedKept, OneMarkKept, MarkKept, OutKept, DatedKept DEF Inv
<1>2. ASSUME Inv, UNCHANGED vars PROVE Inv'
  <2>1. Typed'
    BY <1>2 DEF Inv, Typed, KicksTyped, TaskTyped, WorkTyped, FilesTyped, RowsTyped, LeftTyped,
       vars, requests, files, database
  <2>2. (WorkKnown /\ OneMark /\ MarkShown /\ MarkSafe /\ OutShown /\ Dated)'
    BY <1>2 DEF Inv, WorkKnown, OneMark, MarkShown, MarkSafe, OutShown, Dated,
       vars, requests, files, database, DropsDestination
  <2> QED
    BY <2>1, <2>2 DEF Inv
<1> QED
    BY <1>1, <1>2

LEMMA Inductive == Spec => []Inv
BY Initially, Preserved, PTL DEF Spec

(* Every variable keeps to its type, the flag says whether a task runs     *)
(* batches, and a worker lives exactly while its batch holds the gate.     *)
THEOREM TypeCorrect == Spec => []TypeOK
<1>1. Inv => TypeOK
    BY DEF Inv, TypeOK, Typed, KicksTyped, TaskTyped, WorkTyped, FilesTyped, RowsTyped, Request
<1> QED
    BY <1>1, Inductive, PTL

(* A favourite stays on a row whose file is there, and between the move of *)
(* an original and its repointing only outputs.json may name a file that is *)
(* not, unless one of the troubles named with ReferencesFollow broke it:   *)
(* a file the user removed, a stale removal of the destination's row, a    *)
(* rollback that removed an applied destination, or a death of the worker  *)
(* before the repointing, or a repointing that could not be written.       *)
(* Every other failed step and rollback keeps both, for any number of      *)
(* pictures of one stem, kicks, acts and troubles.                         *)
THEOREM ReferencesSafe == Spec => []ReferencesFollow
<1>1. Inv => ReferencesFollow
    BY DEF Inv, ReferencesFollow, MarkShown, OutShown, Repoints
<1> QED
    BY <1>1, Inductive, PTL

\* What the user wrote stays where it is in the trash.
LEMMA StaysInTrash ==
    ASSUME Typed, NEW c \in Contents,
           \A i \in Slots : trash[i].what # 0 => trash'[i].what = trash[i].what,
           InTrash(c)
    PROVE  InTrash(c)'
<1>1. 0 \notin Contents
    BY DEF Contents
<1> QED
    BY <1>1 DEF InTrash

\* Only a cleaning takes an entry out of the trash, and nobody overwrites one.
LEMMA TrashKept ==
    ASSUME Typed, WorkKnown, Next, ~StartBatch
    PROVE  \A i \in Slots : trash[i].what # 0 => trash'[i].what = trash[i].what
<1> USE DEF Typed, FilesTyped
<1> DEFINE Kept == \A i \in Slots : trash[i].what # 0 => trash'[i].what = trash[i].what
<1> SUFFICES Kept
    OBVIOUS
<1>1. ASSUME trash' = trash PROVE Kept
    BY <1>1
<1> HIDE DEF Kept
<1>2. CASE Management \/ Exit \/ Die
    BY <1>1, <1>2, LeavesLibrary DEF Exit, Die, EndBatch, files
<1>3. ASSUME NEW s \in Sources, Skip(s) \/ Encode(s) PROVE Kept
    BY <1>1, <1>3 DEF Skip, Encode, files
<1>4. CASE NotWorth \/ Install \/ MoveFails \/ Uninstall \/ ReadOutputs \/ WriteOutputs \/ WriteRow
        \/ UninstallFails \/ WriteFails
    BY <1>1, <1>4 DEF NotWorth, Install, MoveFails, Uninstall, ReadOutputs, WriteOutputs,
       UninstallFails, WriteFails, WriteRow,
       files
<1>5. ASSUME NEW ok \in BOOLEAN, Store(ok) \/ Undo(ok) PROVE Kept
    BY <1>1, <1>5 DEF Store, Undo, files
<1>6. ASSUME NEW ok \in BOOLEAN, Touch(ok) \/ Move(ok) PROVE Kept
    BY <1>6 DEF Touch, Move, WorkKnown, Kept
<1>7. ASSUME NEW p \in Paths, Change(p, 0) \/ Change(p, NextContent) \/ Apply(p) \/ Look(p) PROVE Kept
    BY <1>1, <1>7 DEF Change, Apply, Look, files
<1>8. ASSUME NEW i \in Slots, Age(i) PROVE Kept
    BY <1>8 DEF Age, Kept
<1> QED
    BY <1>2, <1>3, <1>4, <1>5, <1>6, <1>7, <1>8, Steps DEF Image, Others

\* Only its user takes a picture out of the library, unless it moves to the trash.
LEMMA LibraryKept ==
    ASSUME Typed, WorkKnown, Next, NEW c \in Contents, OnDisk(c), left'["acts"] = left["acts"]
    PROVE  OnDisk(c)' \/ InTrash(c)'
<1> USE DEF Typed, FilesTyped
<1>1. Destination \notin Sources /\ Sources \subseteq Paths
    BY Files DEF Paths
<1>2. ASSUME \A s \in Sources : disk'[s] = disk[s] PROVE OnDisk(c)'
    BY <1>2 DEF OnDisk
<1>3. CASE Management \/ Exit \/ Die \/ StartBatch
    BY <1>2, <1>3, LeavesLibrary DEF Exit, Die, EndBatch, StartBatch, files
<1>4. ASSUME NEW s \in Sources, Skip(s) \/ Encode(s) PROVE OnDisk(c)'
    BY <1>2, <1>4 DEF Skip, Encode, files
<1>5. CASE NotWorth \/ MoveFails \/ ReadOutputs \/ WriteOutputs \/ UninstallFails \/ WriteFails \/ WriteRow
    BY <1>2, <1>5 DEF NotWorth, MoveFails, ReadOutputs, WriteOutputs,
       UninstallFails, WriteFails, WriteRow, files
<1>6. CASE Install \/ Uninstall
    BY <1>1, <1>2, <1>6 DEF Install, Uninstall
<1>7. ASSUME NEW ok \in BOOLEAN, Store(ok) \/ Undo(ok) \/ Touch(ok) PROVE OnDisk(c)'
    BY <1>2, <1>7 DEF Store, Undo, Touch, files
<1>8. ASSUME NEW ok \in BOOLEAN, Move(ok) PROVE OnDisk(c)' \/ InTrash(c)'
  <2>1. work.slot \in Slots /\ trash'[work.slot].what = disk[work.source]
    BY <1>8 DEF Move, WorkKnown
  <2>2. \A s \in Sources : s # work.source => disk'[s] = disk[s]
    BY <1>1, <1>8 DEF Move
  <2> QED
    BY <2>1, <2>2 DEF OnDisk, InTrash
<1>9. ASSUME NEW p \in Paths, Change(p, 0) \/ Change(p, NextContent) \/ Apply(p) PROVE FALSE
    BY <1>9 DEF Change, Apply, Use, LeftTyped
<1>10. ASSUME NEW p \in Paths, Look(p) PROVE OnDisk(c)'
    BY <1>2, <1>10 DEF Look, files
<1>11. ASSUME NEW i \in Slots, Age(i) PROVE OnDisk(c)'
    BY <1>2, <1>11 DEF Age
<1> QED
    BY <1>3, <1>4, <1>5, <1>6, <1>7, <1>8, <1>9, <1>10, <1>11, Steps DEF Image, Others

(* Originals are never lost: what the user wrote to a source is there or   *)
(* in the trash until the user removes it or its retention has passed,     *)
(* through every step, failure and death of the worker.                    *)
THEOREM OriginalsSafe == Spec => OriginalsKept
<1> DEFINE Excused(c) == \/ left'["acts"] # left["acts"]
                         \/ c \in ghost.undated
                         \/ \E i \in Slots : trash[i].what = c /\ trash[i].due
<1> DEFINE Kept == \A c \in Contents :
                       /\ OnDisk(c) \/ InTrash(c)
                       /\ ~(OnDisk(c) \/ InTrash(c))'
                       => Excused(c)
<1>1. ASSUME Inv, Next, NEW c \in Contents, OnDisk(c), ~(OnDisk(c) \/ InTrash(c))' PROVE Excused(c)
    BY <1>1, LibraryKept DEF Inv
<1>2. ASSUME Inv, Next, NEW c \in Contents, InTrash(c), ~(OnDisk(c) \/ InTrash(c))' PROVE Excused(c)
  <2>1. StartBatch
    BY <1>2, TrashKept, StaysInTrash DEF Inv
  <2>2. PICK i \in Slots : trash[i].what = c
    BY <1>2 DEF InTrash
  <2>3. trash'[i] # trash[i]
    BY <1>2, <2>2 DEF InTrash
  <2>4. trash[i].old /\ work.pc = "off"
    BY <1>2, <2>1, <2>3, NoImage DEF StartBatch, Cleaned, Inv
  <2>5. c # 0
    BY DEF Contents
  <2> QED
    BY <1>2, <2>2, <2>4, <2>5 DEF Inv, Dated, Typed, FilesTyped
<1>3. ASSUME UNCHANGED vars PROVE Kept
    BY <1>3 DEF OnDisk, InTrash, vars, files
<1>4. Inv /\ [Next]_vars => [Kept]_vars
    BY <1>1, <1>2, <1>3
<1> QED
    BY <1>4, Inductive, PTL DEF Spec, OriginalsKept
=============================================================================
