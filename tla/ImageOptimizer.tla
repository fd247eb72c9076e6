---------------------------- MODULE ImageOptimizer ----------------------------
(***************************************************************************)
(* The image optimizer replaces a picture by a smaller one beside it and   *)
(* keeps the original in a trash: kicks that merge into one request, the   *)
(* task that runs batches under the gate it shares with the videos, and    *)
(* the worker process that installs, records, moves and repoints, or dies  *)
(* between any two of these, while the user, an apply and a scanner work   *)
(* on the same files, rows and outputs.json.                               *)
(*                                                                         *)
(* The sources share their stem, so they share the one Destination.  A     *)
(* file is its content, 0 when it is absent: every content the user writes *)
(* has a number, and what the worker writes is Encoded.                    *)
(***************************************************************************)
EXTENDS Integers, FiniteSets

CONSTANTS Sources, Destination,
          First,         \* the source that is there, marked and shown at first
          Kicks, Wish,   \* the kicks, and what each asks for
          LastContent,   \* the last content the user writes
          Slots,         \* room in the trash
          Scenarios      \* what may happen how often: acts of the user, and troubles

VARIABLES kick,     \* where each kick is
          served,   \* the kicks whose wish a batch has carried out, or failed at
          pending,  \* the request the next batch takes
          running,  \* the flag that says a task runs batches
          task,     \* that task, and the request it took
          gate,     \* work_gate
          work,     \* the worker process
          disk,     \* the files of the library
          trash,    \* trash/images
          rows,     \* the paths that have a row
          marked,   \* the rows that are favourites or in playlists
          records,  \* image_optimize: the content each source had when it was looked at
          out,      \* the wallpaper outputs.json names
          scan,     \* what a scanner has seen and not yet written
          left,     \* what may still happen
          ghost     \* what has been given up or lost (see the properties)

requests == <<kick, served, pending, running, task>>
files == <<disk, trash>>
database == <<rows, marked, records>>
vars == <<requests, gate, work, files, database, out, scan, left, ghost>>

Paths == Sources \cup {Destination}
Encoded == -1
Contents == 1..LastContent

ASSUME Files == First \in Sources /\ Destination \notin Sources /\ 0 \notin Slots
ASSUME ContentsSuffice ==
    /\ LastContent \in Nat /\ Scenarios \subseteq [acts : Nat, troubles : Nat]
    /\ \A x \in Scenarios : x.acts + 1 <= LastContent
ASSUME Wishes ==
    Wish \in [Kicks -> [full : BOOLEAN, force : BOOLEAN, clean : BOOLEAN, paths : SUBSET Sources]]

\* `by` holds the kicks that a request is made of.
Nothing == [full |-> FALSE, force |-> FALSE, clean |-> FALSE, paths |-> {}, by |-> {}]
HasWork(r) == r.full \/ r.clean \/ r.paths # {}
NoTask == [pc |-> "off", request |-> Nothing]
NoWork == [pc |-> "off", todo |-> {}, source |-> Destination, was |-> 0, slot |-> 0, saw |-> Destination]
NoScan == [op |-> "off", path |-> Destination]
Empty == [what |-> 0, old |-> FALSE, due |-> FALSE]

\* A row of the destination may be left from a file that is gone.
Init ==
    /\ kick = [k \in Kicks |-> "idle"] /\ served = {}
    /\ pending = Nothing /\ running = FALSE /\ task = NoTask
    /\ gate = "free" /\ work = NoWork
    /\ trash = [i \in Slots |-> Empty]
    /\ disk = [p \in Paths |-> IF p = First THEN 1 ELSE 0]
    /\ rows \in {{First}, {First, Destination}} /\ marked = {First} /\ out = First
    /\ records = [s \in Sources |-> 0]
    /\ scan = NoScan
    /\ left \in Scenarios
    /\ ghost = [row |-> {}, out |-> {}, undated |-> {}]

\* A task runs batches exactly while the flag says so, and a worker lives in a batch.
TypeOK ==
    LET Request == [full : BOOLEAN, force : BOOLEAN, clean : BOOLEAN, paths : SUBSET Sources,
                by : SUBSET Kicks]
    IN /\ kick \in [Kicks -> {"idle", "pushed", "done"}] /\ served \subseteq Kicks
       /\ pending \in Request
       /\ task \in [pc : {"off", "take", "taken", "batch", "ended"}, request : Request]
       /\ running = (task.pc # "off")
       /\ gate \in {"free", "images", "videos"}
       /\ work \in [pc : {"off", "pick", "encode", "installed", "stored", "undo", "uninstall",
                          "moved", "dated", "read"},
                    todo : SUBSET Sources, source : Paths, was : Contents \cup {0},
                    slot : Slots \cup {0}, saw : Paths]
       /\ (work.pc # "off") = (task.pc = "batch") /\ (gate = "images") = (task.pc = "batch")
       /\ disk \in [Paths -> Contents \cup {0, Encoded}]
       /\ trash \in [Slots -> [what : Contents \cup {0}, old : BOOLEAN, due : BOOLEAN]]
       /\ rows \subseteq Paths /\ marked \subseteq rows
       /\ records \in [Sources -> Contents \cup {0}]
       /\ out \in Paths /\ scan \in [op : {"off", "add", "drop"}, path : Paths]

-----------------------------------------------------------------------------
Use(k) == left[k] > 0 /\ left' = [left EXCEPT ![k] = @ - 1]
Outcome(ok) == IF ok THEN UNCHANGED left ELSE Use("troubles")

NextContent == LastContent + 1 - left["acts"]

\* A full scan absorbs the paths, and force and clean_trash stay asked for.
Merge(p, w, k) ==
    LET full == p.full \/ w.full
    IN [full |-> full, force |-> p.force \/ w.force, clean |-> p.clean \/ w.clean,
        paths |-> IF full THEN {} ELSE p.paths \cup w.paths, by |-> p.by \cup {k}]

Includes(r, w) ==
    /\ w.full => r.full
    /\ w.force => r.force
    /\ w.clean => r.clean
    /\ w.paths \subseteq r.paths \/ r.full

-----------------------------------------------------------------------------
(* kick, and the task it starts *)

Push(k) ==
    /\ kick[k] = "idle"
    /\ pending' = Merge(pending, Wish[k], k)
    /\ kick' = [kick EXCEPT ![k] = "pushed"]
    /\ UNCHANGED <<served, running, task, gate, work, files, database, out, scan, left, ghost>>

\* Whoever finds no task running starts one.
Start(k) ==
    /\ kick[k] = "pushed"
    /\ kick' = [kick EXCEPT ![k] = "done"]
    /\ running' = TRUE
    /\ task' = IF running THEN task ELSE [NoTask EXCEPT !.pc = "take"]
    /\ UNCHANGED <<served, pending, gate, work, files, database, out, scan, left, ghost>>

Take ==
    /\ task.pc = "take"
    /\ task' = [pc |-> IF HasWork(pending) THEN "taken" ELSE "ended", request |-> pending]
    /\ pending' = Nothing
    /\ UNCHANGED <<kick, served, running, gate, work, files, database, out, scan, left, ghost>>

\* Bugs: the flag stays, and the task stops without another look at what is pending.
MutStaysRunning ==
    /\ task.pc = "ended"
    /\ task' = IF HasWork(pending) THEN [NoTask EXCEPT !.pc = "take"] ELSE NoTask
    /\ UNCHANGED <<kick, served, pending, running, gate, work, files, database, out, scan, left, ghost>>
MutStops ==
    /\ task.pc = "ended"
    /\ task' = NoTask /\ running' = FALSE
    /\ UNCHANGED <<kick, served, pending, gate, work, files, database, out, scan, left, ghost>>
\* Under the mutex of the pending request the task goes on or clears the flag.
Stop ==
    /\ task.pc = "ended"
    /\ task' = IF HasWork(pending) THEN [NoTask EXCEPT !.pc = "take"] ELSE NoTask
    /\ running' = HasWork(pending)
    /\ UNCHANGED <<kick, served, pending, gate, work, files, database, out, scan, left, ghost>>

\* The video optimizer holds the gate for a conversion.
VideoStarts ==
    /\ gate = "free" /\ gate' = "videos"
    /\ UNCHANGED <<requests, work, files, database, out, scan, left, ghost>>
VideoEnds ==
    /\ gate = "videos" /\ gate' = "free"
    /\ UNCHANGED <<requests, work, files, database, out, scan, left, ghost>>

\* clean_trash: what has not been modified since the retention began.
Cleaned(request) ==
    [i \in Slots |-> IF request.clean /\ trash[i].old THEN Empty ELSE trash[i]]

\* run_batch under the gate: the worker starts, cleans and lists its sources.
StartBatch ==
    LET request == task.request
    IN /\ task.pc = "taken" /\ gate = "free"
       /\ gate' = "images" /\ task' = [task EXCEPT !.pc = "batch"]
       /\ trash' = Cleaned(request)
       /\ work' = [NoWork EXCEPT !.pc = "pick",
                     !.todo = IF request.full THEN {s \in Sources : disk[s] # 0}
                              ELSE request.paths]
       /\ UNCHANGED <<kick, served, pending, running, disk, database, out, scan, left, ghost>>

\* The worker exits or dies: what the batch was to include is over either way.
EndBatch ==
    /\ gate' = "free" /\ task' = [NoTask EXCEPT !.pc = "ended"] /\ work' = NoWork
    /\ served' = served \cup {k \in task.request.by : Includes(task.request, Wish[k])}
    /\ UNCHANGED <<kick, pending, running, files, database, out, scan>>

Exit ==
    /\ work.pc = "pick" /\ work.todo = {}
    /\ EndBatch /\ UNCHANGED <<left, ghost>>

\* The original is in the trash, and outputs.json may still name it.
Repoints == work.pc \in {"moved", "dated", "read"}

\* Between the move and the end of the image, the trash entry may not be dated yet
\* and outputs.json not repointed.
Die ==
    /\ work.pc # "off" /\ Use("troubles") /\ EndBatch
    /\ ghost' = [ghost EXCEPT
         !.undated = IF work.pc = "moved" THEN @ \cup {trash[work.slot].what} ELSE @,
         !.out = IF Repoints /\ disk[out] = 0 THEN @ \cup {"died"} ELSE @]

-----------------------------------------------------------------------------
(* optimize_library and optimize_one, image by image *)

Batch == <<requests, gate>>
NextImage(s) == [NoWork EXCEPT !.pc = "pick", !.todo = work.todo \ {s}]
Goto(pc) == work' = [work EXCEPT !.pc = pc]

\* The decision is remembered with the size the source has by now.
Remember(s) == records' = [records EXCEPT ![s] = disk[s]]

Known(s) == ~task.request.force /\ disk[s] # 0 /\ records[s] = disk[s]

\* The source is as it was, the destination is taken, or there is nothing to encode.
Skip(s) ==
    /\ work.pc = "pick" /\ s \in work.todo
    /\ Known(s) \/ disk[Destination] # 0 \/ disk[s] = 0
    /\ IF Known(s) THEN UNCHANGED records ELSE Remember(s)
    /\ work' = NextImage(s)
    /\ UNCHANGED <<Batch, files, rows, marked, out, scan, left, ghost>>

Encode(s) ==
    /\ work.pc = "pick" /\ s \in work.todo
    /\ ~Known(s) /\ disk[Destination] = 0 /\ disk[s] # 0
    /\ work' = [work EXCEPT !.pc = "encode", !.source = s]
    /\ UNCHANGED <<Batch, files, database, out, scan, left, ghost>>

\* It could not be encoded, or is not worth it, or the source is gone by now.
NotWorth ==
    /\ work.pc = "encode"
    /\ Remember(work.source) /\ work' = NextImage(work.source)
    /\ UNCHANGED <<Batch, files, rows, marked, out, scan, left, ghost>>

FreeSlots == {i \in Slots : trash[i].what = 0}
\* A bug: the name in the trash is that of the source.
MutTrashPath == 1
\* unique_trash_path: a name that no entry has.
TrashPath == CHOOSE i \in FreeSlots : TRUE

\* The temporary file is renamed over whatever is at the destination by now.
Install ==
    /\ work.pc = "encode" /\ disk[work.source] # 0 /\ FreeSlots # {}
    /\ disk' = [disk EXCEPT ![Destination] = Encoded]
    /\ work' = [work EXCEPT !.pc = "installed", !.was = disk[work.source], !.slot = TrashPath]
    /\ UNCHANGED <<Batch, trash, database, out, scan, left, ghost>>

\* The key of a row is unique: a row at the new key fails the transaction.
Clash(old, new) == old \in rows /\ new \in rows
Moved(S, old, new) == IF old \in S THEN (S \ {old}) \cup {new} ELSE S
RenameRow(old, new) ==
    /\ rows' = Moved(rows, old, new) /\ marked' = Moved(marked, old, new)

\* A scanner has seen the row of a destination that was not there, and will remove the
\* row that has its key by then.
DropsDestination == scan = [op |-> "drop", path |-> Destination]

\* record_image_optimization_and_rename
Store(ok) ==
    LET s == work.source
    IN /\ work.pc = "installed" /\ (ok => ~Clash(s, Destination))
       /\ Outcome(ok \/ Clash(s, Destination))
       /\ IF ok
          THEN /\ records' = [records EXCEPT ![s] = work.was]
               /\ RenameRow(s, Destination) /\ Goto("stored")
          ELSE UNCHANGED database /\ Goto("uninstall")
       /\ ghost' = [ghost EXCEPT !.row = IF ok /\ s \in marked /\ DropsDestination
                                       THEN @ \cup {"dropped"} ELSE @]
       /\ UNCHANGED <<Batch, files, out, scan>>

\* move_file; the entry keeps the date of the source.
Move(old) ==
    LET s == work.source
    IN /\ work.pc = "stored" /\ disk[s] # 0
       /\ disk' = [disk EXCEPT ![s] = 0]
       /\ trash' = [trash EXCEPT ![work.slot] = [what |-> disk[s], old |-> old, due |-> FALSE]]
       /\ Goto("moved")
       /\ UNCHANGED <<Batch, database, out, scan, left, ghost>>

MoveFails ==
    /\ work.pc = "stored" /\ Outcome(disk[work.source] = 0) /\ Goto("undo")
    /\ UNCHANGED <<Batch, files, database, out, scan, ghost>>

\* A bug: the installed file goes whatever became of the row.
MutUndo(ok) ==
    LET s == work.source
    IN /\ work.pc = "undo" /\ (ok => ~Clash(Destination, s))
       /\ Outcome(ok \/ Clash(Destination, s))
       /\ IF ok
          THEN records' = [records EXCEPT ![s] = 0] /\ RenameRow(Destination, s)
          ELSE UNCHANGED database
       /\ Goto("uninstall")
       /\ UNCHANGED <<Batch, files, out, scan, ghost>>
\* rollback_image_optimization_and_rename; when it fails both files are kept.
Undo(ok) ==
    LET s == work.source
    IN /\ work.pc = "undo" /\ (ok => ~Clash(Destination, s))
       /\ Outcome(ok \/ Clash(Destination, s))
       /\ IF ok
          THEN /\ records' = [records EXCEPT ![s] = 0]
               /\ RenameRow(Destination, s) /\ Goto("uninstall")
          ELSE UNCHANGED database /\ work' = NextImage(s)
       /\ UNCHANGED <<Batch, files, out, scan, ghost>>

\* rollback_install
Uninstall ==
    /\ work.pc = "uninstall"
    /\ disk' = [disk EXCEPT ![Destination] = 0] /\ work' = NextImage(work.source)
    /\ ghost' = [ghost EXCEPT !.out = IF out = Destination THEN @ \cup {"undone"} ELSE @]
    /\ UNCHANGED <<Batch, trash, database, out, scan, left>>

\* It could not be removed, and stays without a row.
UninstallFails ==
    /\ work.pc = "uninstall" /\ Use("troubles") /\ work' = NextImage(work.source)
    /\ UNCHANGED <<Batch, files, database, out, scan, ghost>>

\* touch_modified_now: the retention begins, unless the file cannot be opened.
Touch(ok) ==
    /\ work.pc = "moved" /\ Outcome(ok) /\ Goto("dated")
    /\ trash' = IF ok THEN [trash EXCEPT ![work.slot].old = FALSE] ELSE trash
    /\ ghost' = IF ok THEN ghost
                ELSE [ghost EXCEPT !.undated = @ \cup {trash[work.slot].what}]
    /\ UNCHANGED <<Batch, disk, database, out, scan>>

\* repoint_optimized_image reads outputs.json, and writes it whole when it names the source.
ReadOutputs ==
    /\ work.pc = "dated" /\ work' = [work EXCEPT !.pc = "read", !.saw = out]
    /\ UNCHANGED <<Batch, files, database, out, scan, left, ghost>>
WriteOutputs ==
    /\ work.pc = "read"
    /\ out' = IF work.saw = work.source THEN Destination ELSE out
    /\ work' = NextImage(work.source)
    /\ UNCHANGED <<Batch, files, database, scan, left, ghost>>

\* write_state reports no error: outputs.json is as it was.
WriteFails ==
    /\ work.pc = "read" /\ work.saw = work.source /\ Use("troubles")
    /\ work' = NextImage(work.source)
    /\ ghost' = [ghost EXCEPT !.out = IF disk[out] = 0 THEN @ \cup {"unwritten"} ELSE @]
    /\ UNCHANGED <<Batch, files, database, out, scan>>

-----------------------------------------------------------------------------
(* The others *)

\* The user who removes a file of a picture that is being replaced gives it up.
AtWork(p) == work.pc \notin {"off", "pick"} /\ p \in {work.source, Destination}

\* A file is written or removed by its user.
Change(p, content) ==
    /\ Use("acts") /\ content \in {0, NextContent} /\ disk[p] # content
    /\ disk' = [disk EXCEPT ![p] = content]
    /\ ghost' = IF content # 0 THEN ghost
                ELSE [ghost EXCEPT
                        !.row = IF p \in marked \/ AtWork(p) THEN @ \cup {"removed"} ELSE @,
                        !.out = IF p = out \/ (p = Destination /\ AtWork(p))
                                THEN @ \cup {"removed"} ELSE @]
    /\ UNCHANGED <<requests, gate, work, trash, database, out, scan>>

\* An apply writes outputs.json; one between the worker's read and its write is lost.
Apply(p) ==
    /\ Use("acts") /\ p \in rows /\ disk[p] # 0 /\ p # out
    /\ out' = p
    /\ ghost' = [ghost EXCEPT !.out = IF work.pc \in {"off", "pick"} THEN {} ELSE @]
    /\ UNCHANGED <<requests, gate, work, files, database, scan>>

\* The retention of an entry passes.
Age(i) ==
    /\ trash[i].what # 0 /\ ~trash[i].due
    /\ trash' = [trash EXCEPT ![i].old = TRUE, ![i].due = TRUE]
    /\ UNCHANGED <<requests, gate, work, disk, database, out, scan, left, ghost>>

\* A scanner decodes a file without a row, or finds the file of a row gone.
Look(p) ==
    /\ scan.op = "off" /\ (p \in rows) # (disk[p] # 0)
    /\ scan' = [op |-> IF p \in rows THEN "drop" ELSE "add", path |-> p]
    /\ UNCHANGED <<requests, gate, work, files, database, out, left, ghost>>

WriteRow ==
    /\ scan.op # "off" /\ scan' = NoScan
    /\ IF scan.op = "add" THEN rows' = rows \cup {scan.path} /\ UNCHANGED marked
       ELSE rows' = rows \ {scan.path} /\ marked' = marked \ {scan.path}
    /\ UNCHANGED <<requests, gate, work, files, records, out, left, ghost>>

-----------------------------------------------------------------------------
Image ==
    \/ \E s \in Sources : Skip(s) \/ Encode(s)
    \/ NotWorth \/ Install \/ MoveFails \/ Uninstall \/ UninstallFails
    \/ ReadOutputs \/ WriteOutputs \/ WriteFails
    \/ \E ok \in BOOLEAN : Store(ok) \/ Undo(ok) \/ Touch(ok) \/ Move(ok)

Others ==
    \/ \E p \in Paths : Change(p, 0) \/ Change(p, NextContent) \/ Apply(p) \/ Look(p)
    \/ \E i \in Slots : Age(i)
    \/ WriteRow

Next ==
    \/ \E k \in Kicks : Push(k) \/ Start(k)
    \/ Take \/ Stop \/ VideoStarts \/ VideoEnds \/ StartBatch \/ Exit \/ Die
    \/ Image \/ Others

\* Threads are scheduled, the worker gets on, and a conversion ends; the gate is a
\* mutex that nobody is starved of for ever.
Spec ==
    /\ Init /\ [][Next]_vars
    /\ \A k \in Kicks : WF_vars(Start(k))
    /\ WF_vars(Take) /\ WF_vars(Stop) /\ SF_vars(StartBatch)
    /\ WF_vars(Image \/ Exit) /\ WF_vars(VideoEnds)

-----------------------------------------------------------------------------
OnDisk(c) == \E s \in Sources : disk[s] = c
InTrash(c) == \E i \in Slots : trash[i].what = c

(* What the user wrote to a source is there or in the trash until the user *)
(* removes it or its retention has passed, whatever fails and whoever dies *)
(* on the way; only an entry that could not be dated may go earlier        *)
(* (optimize_library, unique_trash_path, clean_trash).                     *)
OriginalsKept ==
    [][\A c \in Contents :
          /\ OnDisk(c) \/ InTrash(c)
          /\ ~(OnDisk(c) \/ InTrash(c))'
          => \/ left'["acts"] # left["acts"]
             \/ c \in ghost.undated
             \/ \E i \in Slots : trash[i].what = c /\ trash[i].due]_vars

(* A favourite follows its picture: through every install, rename, failed  *)
(* step and rollback it stays on a row whose file is there.  And whenever  *)
(* the worker is not between the move of an original and the repointing    *)
(* (optimize_one, rollback_install, repoint_optimized_image), outputs.json *)
(* names a file that is there, also when an apply comes between the        *)
(* worker's read and its write.  ghost.row and ghost.out name what breaks  *)
(* this, the latter until an apply between two images mends it:            *)
(*   - "removed": the user removed the file of the favourite, the one      *)
(*     outputs.json names, or a file of a picture at work;                 *)
(*   - "dropped": the row was renamed to the destination while a scanner   *)
(*     was about to remove the destination's former row;                   *)
(*   - "undone": the destination was applied before the install was rolled *)
(*     back, which removed it;                                             *)
(*   - "died": the worker died after the move with outputs.json naming the *)
(*     original, which the next batch does not repair;                     *)
(*   - "unwritten": outputs.json could not be repointed, which write_state *)
(*     keeps to itself.                                                    *)
ReferencesFollow ==
    /\ ghost.row = {} => \E p \in marked : disk[p] # 0
    /\ ghost.out = {} /\ ~Repoints => disk[out] # 0

(* Every kick is served by a batch that includes what it asked for: none   *)
(* is lost between the push, the flag and the task that stops, whatever    *)
(* the kicks before it asked for (kick, run_batch).                        *)
EveryKickServed == \A k \in Kicks : kick[k] = "pushed" ~> k \in served
=============================================================================
