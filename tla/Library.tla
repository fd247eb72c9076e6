-------------------------------- MODULE Library --------------------------------
(***************************************************************************)
(* How the library database follows the files of the user: a native watch  *)
(* per root, polling of the roots that cannot be watched until they can,   *)
(* batches of events that become removals and scans, scanner processes     *)
(* that run side by side, and the watch status the clients see.            *)
(*                                                                         *)
(* A file is its modification time, 0 when it is absent; a row is the time *)
(* it was made from, and a time never comes back.  A scanner walks the     *)
(* library in one step and then decodes, stores and prunes step by step.   *)
(* Request ids are reused once nobody holds them.                          *)
(***************************************************************************)
EXTENDS Integers, FiniteSets

CONSTANTS Roots, Paths, RootOf,
          Settings,  \* the watch settings the user chooses from
          Fallback,  \* those of them with the polling fallback
          Scanners,  \* room for the scanner processes that run at a time
          Ids, None,
          LastTime,  \* no file is ever written later
          Scenarios  \* what may happen, and how often: how many acts of the user on
                     \* which paths, failed watches and other troubles, and `cap`,
                     \* the value of WATCH_BATCH_CAP

VARIABLES files,   \* the modification time of each file
          rows,    \* the modification time of each row of the database
          chosen,  \* the watch settings of the configuration
          outer,   \* start_watcher: where it is, and the settings it installed
          watch,   \* watch_loop: its watches, its channel and its batch
          poll,    \* poll_failed_roots
          jobs,    \* flush_watch_batch on a blocking thread, by caller
          scans,   \* the scanner processes
          status,  \* RuntimeStatus
          left,    \* what may still happen
          ghost    \* what is owed to the library, and what was lost

vars == <<files, rows, chosen, outer, watch, poll, jobs, scans, status, left, ghost>>

Callers == {"main", "rescan", "poll"}
Invalid == -1
Unread == -2
Times == 0..LastTime

ASSUME Places == /\ RootOf \in [Paths -> Roots] /\ IsFiniteSet(Roots) /\ IsFiniteSet(Paths)
                 /\ Fallback \subseteq Settings /\ None \notin Ids
\* Every change has a time of its own after the first.
ASSUME TimesSuffice ==
    /\ LastTime \in Nat
    /\ Scenarios \subseteq [acts : Nat, outages : Nat, troubles : Nat, cap : Nat,
                           paths : SUBSET Paths]
    /\ \A x \in Scenarios : x.acts + 2 <= LastTime
PathsOf(r) == {p \in left.paths : RootOf[p] = r}

Asleep == [pc |-> "off", native |-> {}, events |-> {}, pending |-> {}, removed |-> {}]
NoPoll == [pc |-> "off", roots |-> {}, known |-> {},
           base |-> [p \in Paths |-> 0], sweep |-> [p \in Paths |-> Unread],
           changed |-> {}, removed |-> {}, touched |-> {}, initial |-> FALSE,
           spare |-> {}, id |-> None]
NoJob == [step |-> "off", changed |-> {}, gone |-> {}, ok |-> TRUE, full |-> FALSE, id |-> None]
NoScan == [step |-> "off", full |-> FALSE, paths |-> {}, seen |-> [p \in Paths |-> 0],
           todo |-> {}, decoded |-> {}, gone |-> {}, touched |-> {},
           repairs |-> {}, covers |-> {}, id |-> None]
NewScan(full, paths, id) ==
    [NoScan EXCEPT !.step = "new", !.full = full, !.paths = paths, !.id = id]
NoStatus == [mode |-> "native", polling |-> {}, recovering |-> {}, pend |-> [i \in Ids |-> {}]]

--------------------------------------------------------------------------------
(* The status, under its mutex *)

\* RuntimeStatus::refresh
Refresh(st) ==
    [st EXCEPT !.mode =
        CASE st.polling # {} -> "polling"
          [] st.polling = {} /\ (st.recovering # {} \/ \E i \in Ids : st.pend[i] # {})
               -> "recovering"
          [] OTHER -> IF st.mode = "unavailable" THEN st.mode ELSE "native"]

\* polling: what was pending or recovering stays so.
Polling(st, roots) ==
    Refresh([st EXCEPT !.polling = roots,
                       !.mode = IF roots = {} THEN "recovering" ELSE "polling"])

RegisterScan(st, id, roots, recovering) ==
    Refresh([st EXCEPT !.recovering = @ \cup recovering, !.pend[id] = roots])

StillPending(st, id) == UNION {st.pend[i] : i \in Ids \ {id}}
\* A bug: requests are told apart by their roots only.
CompleteRoots(st, id) ==
    IF id = None THEN st
    ELSE Refresh([st EXCEPT !.pend = [i \in Ids |-> st.pend[i] \ st.pend[id]],
                            !.recovering = @ \ st.pend[id]])
\* complete_scan: a root is done with when it waits for no other scan.
CompleteScan(st, id) ==
    IF id = None \/ st.pend[id] = {} THEN st
    ELSE Refresh([st EXCEPT !.pend[id] = {},
                            !.recovering = @ \ (st.pend[id] \ StillPending(st, id))])

\* native and unavailable forget what was pending.
Reset(mode) == [NoStatus EXCEPT !.mode = mode]

--------------------------------------------------------------------------------
(* What install makes, when the watches of the failed roots could not be had *)

Session(failed) == [Asleep EXCEPT !.pc = "loop", !.native = Roots \ failed]
Polls(failed, setting) == failed # {} /\ setting \in Fallback
Poller(failed, setting) == IF Polls(failed, setting)
                           THEN [NoPoll EXCEPT !.pc = "sleep", !.roots = failed] ELSE NoPoll
\* The status of a session with polling roots keeps what the former one left.
Fresh(st, failed, setting) ==
    IF Polls(failed, setting) THEN Polling(st, failed)
    ELSE Reset(IF failed = {} THEN "native" ELSE "unavailable")

\* The first session, after its watches were installed and the first scan was over.
Init == /\ chosen \in Settings
        /\ \E failed \in SUBSET Roots, limit \in Scenarios :
             /\ Cardinality(failed) <= limit.outages
             /\ left = [limit EXCEPT !.outages = @ - Cardinality(failed)]
             /\ files = [p \in Paths |-> IF p \in limit.paths THEN 1 ELSE 0] /\ rows = files
             /\ watch = Session(failed)
             /\ poll = Poller(failed, chosen)
             /\ status = Fresh(NoStatus, failed, chosen)
        /\ outer = [pc |-> "await", setting |-> chosen]
        /\ jobs = [c \in Callers |-> NoJob] /\ scans = [s \in Scanners |-> NoScan]
        /\ ghost = [lost |-> {}, owed |-> {}, orphans |-> {}]

MaybeId == Ids \cup {None}
Events == ({"changed", "removed"} \X Paths) \cup {<<"config">>}
Limits == {l \in [acts : Nat, outages : Nat, troubles : Nat, cap : Nat, paths : SUBSET Paths] :
              l.acts + 2 <= LastTime}
Watches == [pc : {"off", "loop", "flush", "done"}, native : SUBSET Roots,
            events : SUBSET Events, pending : SUBSET Paths, removed : SUBSET Paths]
Pollings == [pc : {"off", "sleep", "swept", "flush", "hold"}, roots : SUBSET Roots,
             known : SUBSET Roots, base : [Paths -> Times],
             sweep : [Paths -> Times \cup {Unread}],
             changed : SUBSET Paths, removed : SUBSET Paths, touched : SUBSET Roots,
             initial : BOOLEAN, spare : SUBSET Roots, id : MaybeId]
Flushes == [step : {"off", "plan", "remove"}, changed : SUBSET Paths, gone : SUBSET Paths,
            ok : BOOLEAN, full : BOOLEAN, id : MaybeId]
Scannings == [step : {"off", "new", "work", "delete", "report"}, full : BOOLEAN,
              paths : SUBSET Paths, seen : [Paths -> Times], todo : SUBSET Paths,
              decoded : SUBSET Paths, gone : SUBSET Paths, touched : SUBSET Paths,
              repairs : SUBSET Paths, covers : SUBSET Roots, id : MaybeId]
Statuses == [mode : {"native", "polling", "recovering", "unavailable"}, polling : SUBSET Roots,
             recovering : SUBSET Roots, pend : [Ids -> SUBSET Roots]]

TypeOK ==
    /\ files \in [Paths -> Times] /\ rows \in [Paths -> Times \cup {Invalid}]
    /\ chosen \in Settings
    /\ outer \in [pc : {"install", "rescan", "await"}, setting : Settings]
    /\ watch \in Watches /\ poll \in Pollings
    /\ jobs \in [Callers -> Flushes] /\ scans \in [Scanners -> Scannings]
    /\ status \in Statuses /\ left \in Limits
    /\ ghost \in [lost : SUBSET Paths, owed : SUBSET Roots, orphans : SUBSET Ids]
    /\ Cardinality(watch.pending) <= left.cap /\ Cardinality(watch.removed) <= left.cap

--------------------------------------------------------------------------------
Use(k) == left[k] > 0 /\ left' = [left EXCEPT ![k] = @ - 1]
Outcome(ok) == IF ok THEN UNCHANGED left ELSE Use("troubles")

FreeIds == {i \in Ids : /\ status.pend[i] = {}
                        /\ \A c \in Callers : jobs[c].id # i
                        /\ \A s \in Scanners : scans[s].id # i}
Pending(id) == {i \in {id} \ {None} : status.pend[i] # {}}

Watched(r) == watch.pc \in {"loop", "flush"} /\ r \in watch.native \cup poll.spare

\* A scan of a path that lost a change does not repair what it lost meanwhile.
Forgets(sc, S) == [s \in Scanners |-> [sc[s] EXCEPT !.repairs = @ \ S]]
\* These rows are written or looked at for good: of the others, whoever looked
\* at one of the files before has an older view.
Touches(sc, S, others) ==
    [s \in Scanners |-> IF s \notin others THEN sc[s]
                        ELSE [sc[s] EXCEPT !.touched =
                                @ \cup (S \cap (sc[s].todo \cup sc[s].decoded \cup sc[s].gone))]]

Spawn(full, paths, id) ==
    \E s \in Scanners : /\ scans[s].step = "off"
                        /\ scans' = [scans EXCEPT ![s] = NewScan(full, paths, id)]

--------------------------------------------------------------------------------
(* The user *)

NextTime == LastTime - left["acts"]

\* The sweep in progress has seen what the one before has not.
Noticed(p) == poll.sweep[p] \notin {Unread, poll.base[p]}
\* A file came and went between two sweeps: the polling does not notice, although
\* a scan may have found the file.
BetweenSweeps(p) ==
    RootOf[p] \in poll.roots \cap poll.known /\ poll.base[p] = 0 /\ ~Noticed(p)

\* A file is written or removed.  Nobody looks while the watch is unavailable.
Change(p, time) ==
    /\ Use("acts") /\ p \in left.paths /\ time \in {0, NextTime} /\ files[p] # time
    /\ files' = [files EXCEPT ![p] = time]
    /\ watch' = IF Watched(RootOf[p])
                THEN [watch EXCEPT !.events = @ \cup {<<IF time = 0 THEN "removed"
                                                        ELSE "changed", p>>}]
                ELSE watch
    /\ LET lost == {q \in {p} : \/ (time = 0 /\ BetweenSweeps(p))
                                \/ (status.mode = "unavailable" /\ ~Watched(RootOf[p]))}
       IN /\ ghost' = [ghost EXCEPT !.lost = @ \cup lost]
          /\ scans' = Forgets(scans, lost)
    /\ UNCHANGED <<rows, chosen, outer, poll, jobs, status>>

Choose(setting) ==
    /\ Use("acts") /\ setting # chosen /\ chosen' = setting
    /\ watch' = IF watch.pc \in {"loop", "flush"}
                THEN [watch EXCEPT !.events = @ \cup {<<"config">>}] ELSE watch
    /\ UNCHANGED <<files, rows, outer, poll, jobs, scans, status, ghost>>

--------------------------------------------------------------------------------
(* start_watcher and install *)

\* Watches are installed before anything is scanned; the path of the configuration
\* is the first event.
Install(failed) ==
    /\ outer.pc = "install" /\ Cardinality(failed) <= left.outages
    /\ left' = [left EXCEPT !.outages = @ - Cardinality(failed)]
    /\ outer' = [pc |-> "rescan", setting |-> chosen]
    /\ watch' = [Session(failed) EXCEPT !.events = {<<"config">>}]
    /\ poll' = Poller(failed, chosen)
    /\ status' = Fresh(status, failed, chosen)
    /\ ghost' = [ghost EXCEPT !.owed = {},
                              !.orphans = IF Polls(failed, chosen) THEN @ ELSE {}]
    /\ UNCHANGED <<files, rows, chosen, jobs, scans>>

\* A new session scans everything, while its loop is already running.
Rescan ==
    /\ outer.pc = "rescan" /\ jobs["rescan"].step = "off"
    /\ jobs' = [jobs EXCEPT !["rescan"] = [NoJob EXCEPT !.step = "plan", !.full = TRUE]]
    /\ outer' = [outer EXCEPT !.pc = "await"]
    /\ UNCHANGED <<files, rows, chosen, watch, poll, scans, status, left, ghost>>

\* The loop has returned: the session is dropped, which aborts the polling.
Replace ==
    /\ outer.pc = "await" /\ jobs["rescan"].step = "off" /\ watch.pc = "done"
    /\ outer' = [outer EXCEPT !.pc = "install"]
    /\ poll' = NoPoll /\ watch' = Asleep
    /\ UNCHANGED <<files, rows, chosen, jobs, scans, status, left, ghost>>

--------------------------------------------------------------------------------
(* watch_loop *)

Dropped(batch, p) == p \notin batch /\ Cardinality(batch) >= left.cap
\* A bug: the bound is forgotten.
PushAlways(batch, p) == batch \cup {p}
\* push_capped: a full batch drops the path.
Push(batch, p) == IF Dropped(batch, p) THEN batch ELSE batch \cup {p}

\* absorb_watch_event
Absorb(w, e) ==
    LET rest == [w EXCEPT !.events = @ \ {e}]
    IN CASE e[1] = "changed" -> [rest EXCEPT !.pending = Push(@, e[2])]
         [] e[1] = "removed" -> [rest EXCEPT !.removed = Push(@, e[2])]
         [] e[1] = "config" -> rest
DroppedBy(w, e) ==
    CASE e[1] = "changed" -> {p \in {e[2]} : Dropped(w.pending, p)}
      [] e[1] = "removed" -> {p \in {e[2]} : Dropped(w.removed, p)}
      [] e[1] = "config" -> {}

\* The settings have changed: rows are marked as outdated when the folders have
\* moved, unless the database fails, and the loop returns.
Return(w) ==
    /\ watch' = [w EXCEPT !.pc = "done"]
    /\ \/ UNCHANGED rows
       \/ rows' = [p \in Paths |-> IF rows[p] = 0 THEN 0 ELSE Invalid]
    /\ UNCHANGED jobs

Flush(w) ==
    /\ watch' = [w EXCEPT !.pc = "flush", !.pending = {}, !.removed = {}]
    /\ jobs' = [jobs EXCEPT !["main"] = [NoJob EXCEPT !.step = "plan", !.changed = w.pending,
                                                      !.gone = w.removed]]
    /\ UNCHANGED rows

After(w, flush) ==
    CASE outer.setting # chosen -> Return(w)
      [] outer.setting = chosen /\ flush -> Flush(w)
      [] OTHER -> watch' = w /\ UNCHANGED <<rows, jobs>>

\* An event arrives; held is whether the batch has been held for too long.
Event(e, held) ==
    LET w == Absorb(watch, e)
        lost == DroppedBy(watch, e)
    IN /\ watch.pc = "loop" /\ e \in watch.events
       /\ held => w.pending \cup w.removed # {}
       /\ After(w, held)
       /\ ghost' = [ghost EXCEPT !.lost = @ \cup lost]
       /\ scans' = Forgets(scans, lost)
       /\ UNCHANGED <<files, chosen, outer, poll, status, left>>

\* No event for WATCH_DEBOUNCE.
Settled ==
    /\ watch.pc = "loop" /\ watch.events = {} /\ watch.pending \cup watch.removed # {}
    /\ After(watch, TRUE)
    /\ UNCHANGED <<files, chosen, outer, poll, scans, status, left, ghost>>

--------------------------------------------------------------------------------
(* flush_watch_batch *)

\* plan_watch_flush: what exists is scanned, what does not is removed.
Plan(c) ==
    LET all == jobs[c].changed \cup jobs[c].gone
    IN /\ jobs[c].step = "plan"
       /\ jobs' = [jobs EXCEPT ![c] = [jobs[c] EXCEPT !.step = "remove",
                                                !.changed = {p \in @ : files[p] # 0},
                                                !.gone = {p \in all : files[p] = 0}]]
       /\ UNCHANGED <<files, rows, chosen, outer, watch, poll, scans, status, left, ghost>>

\* handle_remove.  The row of a file that came back and was scanned meanwhile is
\* removed, and nobody notices.
HandleRemove(c, p, ok) ==
    LET lost == {q \in {p} : ok /\ files[p] # 0 /\ rows[p] = files[p]}
    IN /\ jobs[c].step = "remove" /\ p \in jobs[c].gone /\ Outcome(ok)
       /\ jobs' = [jobs EXCEPT ![c] = [jobs[c] EXCEPT !.gone = @ \ {p}, !.ok = @ /\ ok]]
       /\ rows' = IF ok THEN [rows EXCEPT ![p] = 0] ELSE rows
       /\ scans' = IF ok THEN Forgets(Touches(scans, {p}, Scanners), lost) ELSE scans
       /\ ghost' = [ghost EXCEPT !.lost = @ \cup lost]
       /\ UNCHANGED <<files, chosen, outer, watch, poll, status>>

\* A bug: a removal that failed is not tried again.
LaunchesForChanges(job) == job.changed # {} \/ job.full
Launches(job) == job.changed # {} \/ job.full \/ ~job.ok
Everything(job) == job.full \/ ~job.ok \/ Cardinality(job.changed) >= left.cap

\* A bug: a request that launched nothing is never completed.
NeverCompletes(job) == FALSE
Completes(job) == ~Launches(job)

\* The flush ends and its caller goes on; a polling task that was aborted
\* meanwhile does not complete the request of a flush that launched nothing.
Launch(c) ==
    LET job == jobs[c]
        answered == c = "poll" /\ poll.pc = "flush" /\ poll.id = job.id
    IN /\ job.step = "remove" /\ job.gone = {}
       /\ IF ~Launches(job) THEN UNCHANGED scans
          ELSE Spawn(Everything(job), IF Everything(job) THEN {} ELSE job.changed, job.id)
       /\ jobs' = [jobs EXCEPT ![c] = NoJob]
       /\ watch' = IF c = "main" THEN [watch EXCEPT !.pc = "loop"] ELSE watch
       /\ poll' = IF answered THEN [poll EXCEPT !.pc = "sleep", !.id = None] ELSE poll
       /\ status' = IF Completes(job) /\ answered THEN CompleteScan(status, job.id) ELSE status
       /\ ghost' = IF ~Launches(job) /\ ~answered
                   THEN [ghost EXCEPT !.orphans = @ \cup Pending(job.id)] ELSE ghost
       /\ UNCHANGED <<files, rows, chosen, outer, left>>

--------------------------------------------------------------------------------
(* poll_failed_roots *)

Differs(before, now, p) == now[p] # 0 /\ before[p] # now[p]
Vanished(before, now, p) == now[p] = 0 /\ before[p] # 0

\* PollingRoot::advance, root by root, after the interval: each sweep reads some
\* more entries; one that has read them all is compared with the sweep before
\* and takes its place, and one that meets an error starts over, with what only
\* it has noticed lost.
Advance(batch, failed) ==
    LET now == [p \in Paths |-> IF p \in batch THEN files[p] ELSE poll.sweep[p]]
        complete == {r \in poll.roots \ failed : \A p \in PathsOf(r) : now[p] # Unread}
        swept == {p \in left.paths : RootOf[p] \in complete}
        changed == {p \in swept : Differs(poll.base, now, p)}
        removed == {p \in swept : Vanished(poll.base, now, p)}
        lost == {p \in Paths : /\ RootOf[p] \in failed \cap poll.known
                               /\ Noticed(p) /\ poll.base[p] = files[p]}
    IN /\ poll.pc = "sleep" /\ failed \subseteq poll.roots
       /\ Outcome(failed = {}) /\ Cardinality(failed) <= 1
       /\ batch \subseteq {p \in left.paths : /\ RootOf[p] \in poll.roots \ failed
                                             /\ poll.sweep[p] = Unread}
       /\ poll' = [poll EXCEPT
            !.pc = "swept", !.known = @ \cup complete,
            !.base = [p \in Paths |-> IF p \in swept THEN now[p] ELSE @[p]],
            !.sweep = [p \in Paths |-> IF RootOf[p] \in complete \cup failed THEN Unread
                                       ELSE now[p]],
            !.changed = changed, !.removed = removed,
            !.initial = complete \ poll.known # {},
            !.touched = {r \in complete : r \notin poll.known
                                          \/ PathsOf(r) \cap (changed \cup removed) # {}}]
       /\ ghost' = [ghost EXCEPT !.lost = @ \cup lost]
       /\ scans' = Forgets(scans, lost)
       /\ UNCHANGED <<files, rows, chosen, outer, watch, jobs, status>>

\* The cycle is over and what it found is used up.
Done(pc) == [poll EXCEPT !.pc = pc, !.changed = {}, !.removed = {}, !.touched = {},
                         !.initial = FALSE]

\* No root can be watched yet, and the sweeps found nothing.
Idle ==
    /\ poll.pc = "swept" /\ poll.touched = {}
    /\ poll' = Done("sleep") /\ status' = Polling(status, poll.roots)
    /\ UNCHANGED <<files, rows, chosen, outer, watch, jobs, scans, left, ghost>>

\* What the sweeps found is flushed under a request of its own.
Report(id) ==
    /\ poll.pc = "swept" /\ poll.touched # {}
    /\ id \in FreeIds /\ jobs["poll"].step = "off"
    /\ status' = RegisterScan(Polling(status, poll.roots), id, poll.touched, {})
    /\ jobs' = [jobs EXCEPT !["poll"] = [NoJob EXCEPT
                  !.step = "plan", !.changed = poll.changed, !.gone = poll.removed,
                  !.full = poll.initial, !.id = id]]
    /\ poll' = [Done("flush") EXCEPT !.id = id]
    /\ UNCHANGED <<files, rows, chosen, outer, watch, scans, left, ghost>>

\* recover_roots: some of the roots can be watched by now.  Everything is scanned,
\* whatever the sweeps found, and the roots are handed over when that scan has
\* been reported.
HandOff(recovered, id) ==
    LET rest == poll.roots \ recovered
    IN /\ poll.pc = "swept" /\ recovered # {} /\ recovered \subseteq poll.roots
       /\ id \in FreeIds /\ Spawn(TRUE, {}, id)
       /\ status' = RegisterScan(Polling(status, rest), id, poll.roots, recovered)
       /\ poll' = [Done(IF rest = {} THEN "hold" ELSE "sleep") EXCEPT
                     !.roots = rest, !.spare = @ \cup recovered]
       /\ ghost' = [ghost EXCEPT !.owed = @ \cup recovered]
       /\ UNCHANGED <<files, rows, chosen, outer, watch, jobs, left>>

--------------------------------------------------------------------------------
(* A scanner process *)

\* The rows and the files are listed.
Walk(s) ==
    LET look == IF scans[s].full THEN {p \in Paths : files[p] # 0} ELSE scans[s].paths
        todo == {p \in look : rows[p] # files[p]}
    IN /\ scans[s].step = "new"
       /\ scans' = [scans EXCEPT ![s] = [scans[s] EXCEPT
                      !.step = "work", !.todo = todo,
                      !.seen = [p \in Paths |-> IF p \in todo THEN files[p] ELSE 0],
                      !.repairs = IF scans[s].full THEN ghost.lost ELSE {},
                      !.covers = IF scans[s].full THEN ghost.owed ELSE {}]]
       /\ UNCHANGED <<files, rows, chosen, outer, watch, poll, jobs, status, left, ghost>>

\* A file that has gone by now cannot be decoded and is left out.
Decode(s, p) ==
    /\ scans[s].step = "work" /\ p \in scans[s].todo
    /\ scans' = [scans EXCEPT ![s] = [scans[s] EXCEPT
                   !.todo = @ \ {p}, !.decoded = IF files[p] # 0 THEN @ \cup {p} ELSE @]]
    /\ UNCHANGED <<files, rows, chosen, outer, watch, poll, jobs, status, left, ghost>>

\* The row gets the time of the walk.  Over what another process has written
\* since, it may be too old for good.
Upsert(s, p, ok) ==
    LET scan == scans[s]
        lost == {q \in {p} : ~ok \/ (p \in scan.touched /\ scan.seen[p] # files[p])}
        after == [scans EXCEPT ![s] = [scans[s] EXCEPT !.decoded = @ \ {p}, !.seen[p] = 0,
                                                !.touched = @ \ {p}]]
    IN /\ scan.step = "work" /\ p \in scan.decoded /\ Outcome(ok)
       /\ rows' = IF ok THEN [rows EXCEPT ![p] = scan.seen[p]] ELSE rows
       /\ scans' = Forgets(IF ok THEN Touches(after, {p}, Scanners \ {s}) ELSE after, lost)
       /\ ghost' = [ghost EXCEPT !.lost = @ \cup lost]
       /\ UNCHANGED <<files, chosen, outer, watch, poll, jobs, status>>

Worked(scan) == scan.step = "work" /\ scan.todo = {} /\ scan.decoded = {}

\* prune looks which rows have no file, and a delta scan does not prune.  A row
\* that another process writes for a file that has gone stays.
PruneLook(s) ==
    LET absent == {p \in Paths : scans[s].full /\ files[p] = 0}
        gone == {p \in absent : rows[p] # 0}
        after == [scans EXCEPT ![s] = [scans[s] EXCEPT
                    !.step = IF gone # {} THEN "delete" ELSE "report",
                    !.gone = gone, !.paths = {}, !.touched = {}]]
    IN /\ Worked(scans[s])
       /\ scans' = Touches(after, absent \ gone, Scanners \ {s})
       /\ UNCHANGED <<files, rows, chosen, outer, watch, poll, jobs, status, left, ghost>>

\* ... and deletes them later, at once, whatever became of them.
PruneDelete(s, ok) ==
    LET scan == scans[s]
        lost == {p \in scan.gone : ~ok \/ (p \in scan.touched /\ files[p] # 0)}
        after == [scans EXCEPT ![s] = [scans[s] EXCEPT !.step = "report", !.gone = {},
                                                !.touched = {}]]
    IN /\ scan.step = "delete" /\ Outcome(ok)
       /\ rows' = IF ok THEN [p \in Paths |-> IF p \in scan.gone THEN 0 ELSE rows[p]] ELSE rows
       /\ scans' = Forgets(IF ok THEN Touches(after, scan.gone, Scanners \ {s}) ELSE after, lost)
       /\ ghost' = [ghost EXCEPT !.lost = @ \cup lost]
       /\ UNCHANGED <<files, chosen, outer, watch, poll, jobs, status>>

\* SCAN_DONE
ScanDone(s) ==
    LET scan == scans[s]
    IN /\ scan.step = "report"
       /\ scans' = [scans EXCEPT ![s] = NoScan]
       /\ status' = CompleteScan(status, scan.id)
       /\ ghost' = [ghost EXCEPT !.lost = @ \ scan.repairs, !.owed = @ \ scan.covers]
       /\ UNCHANGED <<files, rows, chosen, outer, watch, poll, jobs, left>>

\* The scanner is not started, crashes, is killed when its time is up, or cannot
\* report: nobody starts it again and its request is never completed.
Die(s) ==
    LET scan == scans[s]
        lost == CASE scan.step = "report" -> {}
                  [] scan.step # "report" /\ scan.full -> Paths
                  [] OTHER -> scan.paths
    IN /\ scan.step # "off" /\ Use("troubles")
       /\ scans' = Forgets([scans EXCEPT ![s] = NoScan], lost)
       /\ ghost' = [ghost EXCEPT !.lost = @ \cup lost, !.orphans = @ \cup Pending(scan.id)]
       /\ UNCHANGED <<files, rows, chosen, outer, watch, poll, jobs, status>>

--------------------------------------------------------------------------------
Environment == \/ \E p \in Paths, time \in Times : Change(p, time)
               \/ \E x \in Settings : Choose(x)
Outer == (\E failed \in SUBSET Roots : Install(failed)) \/ Rescan \/ Replace
Main == Settled \/ \E e \in watch.events, held \in BOOLEAN : Event(e, held)
Job(c) == Plan(c) \/ Launch(c) \/ \E p \in Paths, ok \in BOOLEAN : HandleRemove(c, p, ok)
Poll == \/ Idle
        \/ \E id \in Ids : Report(id) \/ \E roots \in SUBSET Roots : HandOff(roots, id)
        \/ \E batch \in SUBSET Paths, failed \in SUBSET Roots : Advance(batch, failed)
Scan(s) == \/ Walk(s) \/ PruneLook(s) \/ ScanDone(s)
           \/ \E p \in Paths : Decode(s, p)
           \/ \E p \in Paths, ok \in BOOLEAN : Upsert(s, p, ok)
           \/ \E ok \in BOOLEAN : PruneDelete(s, ok)
Next == \/ Environment \/ Outer \/ Main \/ Poll
        \/ \E c \in Callers : Job(c)
        \/ \E s \in Scanners : Scan(s) \/ Die(s)

Spec == Init /\ [][Next]_vars

--------------------------------------------------------------------------------
(* Who will still look at a path, and find it as it is *)

InBatch(p) == \/ <<"changed", p>> \in watch.events \/ p \in watch.pending
              \/ files[p] = 0 /\ (<<"removed", p>> \in watch.events \/ p \in watch.removed)
InJob(c, p) ==
    \/ jobs[c].step = "plan" /\ (p \in jobs[c].changed \/ (p \in jobs[c].gone /\ files[p] = 0))
    \/ jobs[c].step = "remove" /\ p \in (IF files[p] # 0 THEN jobs[c].changed ELSE jobs[c].gone)
    \/ jobs[c].step # "off" /\ (jobs[c].full \/ ~jobs[c].ok)
InScan(s, p) ==
    \/ scans[s].step = "new" /\ (scans[s].full \/ (p \in scans[s].paths /\ files[p] # 0))
    \/ /\ scans[s].step = "work" /\ files[p] # 0
       /\ p \in scans[s].todo \cup scans[s].decoded /\ scans[s].seen[p] = files[p]
    \/ scans[s].step = "work" /\ files[p] = 0 /\ scans[s].full
    \/ scans[s].step = "delete" /\ files[p] = 0 /\ p \in scans[s].gone
InPoll(p) ==
    \/ /\ RootOf[p] \in poll.roots
       /\ RootOf[p] \notin poll.known \/ poll.base[p] # files[p] \/ Noticed(p)
    \/ /\ poll.pc = "swept"
       /\ poll.initial \/ p \in poll.changed \/ (p \in poll.removed /\ files[p] = 0)
Restarting == outer.pc \in {"install", "rescan"} \/ (outer.pc = "await" /\ watch.pc = "done")

Awaited(p) == \/ InBatch(p) \/ InPoll(p) \/ Restarting
              \/ \E c \in Callers : InJob(c, p)
              \/ \E s \in Scanners : InScan(s, p)

\* No change of the library is forgotten: while a row differs from its file, an
\* event, a batch, a flush, a scan, a sweep or the rescan of a new session will
\* deal with the file as it is now, unless the path is one of the lost: changed while
\* nobody watched, noticed by a sweep that failed only, dropped from a full batch,
\* overwritten by a process with an older view, or in the hands of a scanner that
\* died, and not scanned since.
Covered == \A p \in Paths \ ghost.lost : rows[p] = files[p] \/ Awaited(p)

\* complete_scan: the status says that every root is watched natively only when
\* a scan of everything, begun after the watches of the recovered roots were
\* there, has been reported.
NativeIsEarned == status.mode = "native" => ghost.owed = {}

\* A status that says less than native has a reason: polling roots have a polling
\* task, and a request that is pending is in the hands of a flush or a scanner,
\* unless its end can no longer be reported.
Alive(i) == \/ \E c \in Callers : jobs[c].id = i
            \/ \E s \in Scanners : scans[s].id = i
            \/ i \in ghost.orphans
StatusHasReason ==
    outer.pc = "await" /\ watch.pc # "done" =>
        /\ status.polling = poll.roots
        /\ \A r \in status.recovering : \E i \in Ids : r \in status.pend[i]
        /\ \A i \in Ids : status.pend[i] # {} => Alive(i)
================================================================================
