---------------------------- MODULE Outdoors_proofs ----------------------------
(***************************************************************************)
(* Proofs about following the weather: its types, that the playlists of    *)
(* the user are kept, that session, configuration and memory agree at rest, *)
(* and that leaving yields to the user.                                    *)
(***************************************************************************)
EXTENDS Outdoors, TLAPS

FollowPcs == {"config", "commit", "finish", "withdraw", "inactive"}
LeavePcs == {"settings", "assign", "close"}

\* A session that is followed knows the wallpaper of every output.
Sound == {s \in Sessions : s.active => \A o \in Outputs : s.wallpapers[o] \in Keys}
Running == {r \in Runtimes : r.session \in Sound /\ ~r.session.starting}
Restoring == {c \in [pc : {"restore"}, session : Sessions, todo : SUBSET Outputs] :
                 \A o \in Outputs : c.session.wallpapers[o] \in Keys}
By == {"user", "weather", "list"}
Tearings == {"memory", "config", "unsaved", "restore"}
Disks == [session : Sound, config : Configs, db : [Outputs -> Maybe(Playlists)]]

-----------------------------------------------------------------------------
(* Types *)

StateTyped ==
    /\ disk \in Disks
    /\ runtime \in Running /\ screen \in [Outputs -> Keys]

ControlTyped ==
    \/ control \in [pc : {"idle", "cancel"}]
    \/ control \in [pc : FollowPcs \cup LeavePcs \cup {"source"}, session : Sound]
    \/ control \in Restoring
    \/ /\ control \in [pc : {"restoring"}, next : Restoring, output : Outputs, before : Keys]
       /\ control.output \notin control.next.todo

\* A choice made while the weather was followed has put the former runtime aside.
Rendered == [pc : {"render"}, output : Outputs, before : Keys, by : By, prior : Running \cup {None}]
ChoiceTyped ==
    \/ choice \in [pc : {"idle", "undo"}]
    \/ choice \in [pc : {"stop", "disable"}, output : Outputs]
    \/ choice \in Rendered
    \/ choice \in [pc : {"rollback", "enable"}, prior : Running]

RunnerTyped ==
    /\ \/ runner \in [pc : {"idle"}]
       \/ runner \in [pc : {"queued"}, output : Outputs, key : Contexts]
       \/ runner \in [pc : {"applying"}, output : Outputs, key : Contexts, before : Keys, by : By]
       \/ runner \in [pc : {"retry"}, output : Outputs, key : Contexts, before : Keys]
    /\ refresh \in [pc : {"idle", "fetch"}] \cup [pc : {"search"}, context : Contexts]

FreshTyped ==
    /\ fresh \subseteq {"control", "runner", "refresh"} /\ fired \subseteq Outputs

GhostTyped ==
    /\ left \in [{"acts", "troubles"} -> Nat]
    /\ ghost \in [given : [Outputs -> Maybe(Playlists)], lost : SUBSET Outputs,
                  torn : SUBSET Tearings, chose : BOOLEAN, by : [Outputs -> By]]

\* At most one thread holds the apply lock, and no old forecast is reconciled while the
\* session is being written.
OneHolder ==
    /\ control.pc \in FollowPcs \cup LeavePcs \cup {"source", "restoring"} =>
          choice.pc = "idle" /\ runner.pc # "applying"
    /\ choice.pc # "idle" => runner.pc # "applying"
    /\ control.pc \in FollowPcs \cup LeavePcs \cup {"source"} => "refresh" \notin fresh

Typed == /\ StateTyped /\ ControlTyped /\ ChoiceTyped /\ RunnerTyped /\ FreshTyped /\ GhostTyped
         /\ OneHolder

-----------------------------------------------------------------------------
(* Sessions *)

\* A choice that has switched the following off and may have to switch it on again.
Pending == choice.pc \in {"rollback", "enable"} \/ (choice.pc = "render" /\ choice.prior # None)

\* Which of the sessions in memory, on disk and in the threads are the same, and which
\* are followed.
SessionsKnown ==
    /\ disk.session.starting => disk.session.active
    /\ control.pc \in FollowPcs =>
          /\ disk.session = control.session
          /\ control.session.active /\ control.session.starting
          /\ control.session.owned = Nothing(Outputs)
    /\ control.pc \in LeavePcs => control.session = runtime.session /\ control.session.active
    /\ control.pc = "source" => control.session = runtime.session /\ ~control.session.active
    /\ control.pc \in {"restore", "restoring"} =>
          /\ ~runtime.session.active /\ ~disk.session.active
          /\ Pending => ~choice.prior.session.active
    /\ choice.pc = "disable" => disk.session = Stopped(runtime.session)
    /\ choice.pc = "enable" => disk.session = choice.prior.session

\* A session gives the playlist of the output back.
Holds(s, o) == s.active /\ s.assignments[o] = ghost.given[o]
Assigned(o) == disk.db[o] = ghost.given[o]
Owed(o) ==
    /\ disk.db[o] \in {ghost.given[o], None}
    /\ Assigned(o) \/ Holds(disk.session, o) \/ HasEnded
    /\ Assigned(o) \/ Holds(runtime.session, o) \/ Pending \/ control.pc \in FollowPcs
    /\ Pending => Assigned(o) \/ Holds(choice.prior.session, o)
    /\ control.pc \in FollowPcs \cup {"close"} => control.pc = "finish" \/ Assigned(o)
    /\ control.pc \in FollowPcs => control.session.assignments[o] = ghost.given[o]
    /\ control.pc \in {"commit", "finish"} => Active(disk.config)
    /\ disk.session.starting => control.pc \in FollowPcs \/ Assigned(o)
OwedKept == \A o \in Outputs : ghost.given[o] # None /\ o \notin ghost.lost => Owed(o)

\* In these steps of a choice the session on disk is not the one in memory.
Switching == choice.pc \in {"disable", "undo", "enable"}

\* The two sessions are both followed or both not, and those followed are the same.
MemoryKept ==
    "memory" \notin ghost.torn /\ control.pc \notin FollowPcs /\ ~Switching =>
        /\ runtime.session.active = disk.session.active
        /\ "unsaved" \notin ghost.torn /\ disk.session.active => runtime.session = disk.session

\* The configuration follows the weather when the session does, or will again when the
\* steps under way have failed.
ConfigKept ==
    "memory" \notin ghost.torn /\ "config" \notin ghost.torn =>
        /\ control.pc \notin FollowPcs \cup {"assign", "close"} /\ ~Switching =>
              disk.session.active = Active(disk.config)
        /\ control.pc \in FollowPcs => ~Active(control.session.settings)
        /\ control.pc = "inactive" => ~Active(disk.config)
        /\ choice.pc \in {"stop", "disable"} => Active(disk.config) /\ runtime.session.active
        /\ choice.pc = "undo" => runtime.session.active = Active(disk.config)
        /\ Pending => disk.config = "disabled" /\ choice.prior.session.active
        /\ choice.pc = "enable" => ~runtime.session.active

\* A restore is announced only while a leave gives the wallpapers back.
RestoreKept ==
    "restore" \notin ghost.torn /\ control.pc \notin {"cancel", "restore", "restoring"} =>
        runtime.restore = None /\ (Pending => choice.prior.restore = None)

AgreeKept == MemoryKept /\ ConfigKept /\ RestoreKept

-----------------------------------------------------------------------------
(* Wallpapers *)

\* The session may still give the output its former wallpaper back.
Live(s, o) == \/ s.active
              \/ control.pc = "restore" /\ o \in control.todo
              \/ control.pc = "restoring" /\ o \in control.next.todo

\* The session believes that the weather has put the key there.
Owns(s, o, key) == s.owned[o] # None /\ s.owned[o] = key
Right(s) ==
    \A o \in Outputs : Live(s, o) =>
        /\ Owns(s, o, screen[o]) => ghost.by[o] = "weather"
        /\ choice.pc = "render" /\ choice.output = o /\ Owns(s, o, choice.before) =>
              choice.by = "weather"
        /\ runner.pc = "applying" /\ runner.output = o /\ Owns(s, o, runner.before) =>
              runner.by = "weather"

OwnedRight ==
    /\ Right(runtime.session) /\ Right(disk.session)
    /\ Pending => Right(choice.prior.session)
    /\ runner.pc = "applying" => ghost.by[runner.output] = "weather"
    /\ choice.pc = "render" => screen[choice.output] = "chosen"

ChoiceSeen ==
    control.pc \in {"restore", "restoring"} /\ ghost.chose =>
        "control" \notin fresh \/ runtime.restore = None

Inv == Typed /\ SessionsKnown /\ OwedKept /\ AgreeKept /\ OwnedRight /\ ChoiceSeen

-----------------------------------------------------------------------------
(* Lemmas about sessions, the disk and the runtime *)

LEMMA NothingTyped ==
    /\ \A S : Nothing(Outputs) \in [Outputs -> Maybe(S)]
    /\ \A o \in Outputs : Nothing(Outputs)[o] = None
    /\ NoSession \in Sound /\ ~NoSession.active /\ ~NoSession.starting
    /\ NoSession.owned = Nothing(Outputs)
BY DEF Nothing, Maybe, NoSession, Sound, Sessions, Configs

\* What load makes of a session.
LEMMA Loading ==
    ASSUME NEW s \in Sound, ~s.starting, NEW c \in Configs
    PROVE  /\ Loaded(s, c) \in Running /\ Loaded(s, c).session = s
           /\ Loaded(s, c).config = c /\ Loaded(s, c).restore = None
           /\ \A r \in Maybe(Configs) : /\ [Loaded(s, c) EXCEPT !.restore = r] \in Running
                                       /\ [Loaded(s, c) EXCEPT !.restore = r].session = s
                                       /\ [Loaded(s, c) EXCEPT !.restore = r].restore = r
                                       /\ [Loaded(s, c) EXCEPT !.restore = r].config = c
<1> DEFINE known == {s.contexts[o] : o \in Outputs} \ {None}
<1> DEFINE context == IF known = {} THEN None ELSE CHOOSE x \in known : TRUE
<1>1. context \in Maybe(Contexts)
    BY DEF Sound, Sessions, Maybe
<1>2. Loaded(s, c) = [session |-> s, config |-> c, context |-> context, restore |-> None,
                      plans |-> Nothing(Outputs), due |-> {}]
    BY DEF Loaded
<1> HIDE DEF context
<1>3. Loaded(s, c) \in Running
    BY <1>1, <1>2, NothingTyped DEF Running, Runtimes, Sound, Maybe
<1> QED
    BY <1>2, <1>3 DEF Running, Runtimes

\* What a recovery makes of an interrupted follow.
LEMMA Recovering ==
    ASSUME NEW d \in Disks
    PROVE  /\ Recovered(d) \in Disks /\ ~Recovered(d).session.starting
           /\ Recovered(d).config = d.config /\ Recovered(d).session.owned = d.session.owned
           /\ Recovered(d).session.assignments = d.session.assignments
           /\ ~d.session.starting => Recovered(d) = d
           /\ d.session.starting /\ Active(d.config) =>
                 /\ Recovered(d).session.active = d.session.active
                 /\ \A o \in Outputs : Recovered(d).db[o] =
                        IF d.db[o] = d.session.assignments[o] THEN None ELSE d.db[o]
           /\ d.session.starting /\ ~Active(d.config) =>
                 ~Recovered(d).session.active /\ Recovered(d).db = d.db
<1>1. CASE ~d.session.starting
    BY <1>1 DEF Recovered, Disks, Sound, Sessions
<1>2. CASE d.session.starting /\ Active(d.config)
  <2> DEFINE s == [d.session EXCEPT !.starting = FALSE]
  <2> DEFINE db == [o \in Outputs |-> IF d.db[o] = d.session.assignments[o] THEN None ELSE d.db[o]]
  <2>1. Recovered(d) = [d EXCEPT !.session.starting = FALSE, !.db = db]
    <3>1. DOMAIN d.db = Outputs
      BY DEF Disks
    <3> QED
      BY <1>2, <3>1 DEF Recovered
  <2>2. Recovered(d) = [session |-> s, config |-> d.config, db |-> db]
    BY <2>1 DEF Disks
  <2>3. s \in Sound /\ db \in [Outputs -> Maybe(Playlists)]
    BY DEF Disks, Sound, Sessions, Maybe
  <2>4. /\ ~s.starting /\ s.owned = d.session.owned /\ s.assignments = d.session.assignments
        /\ s.active = d.session.active
    BY DEF Disks, Sound, Sessions
  <2>5. \A o \in Outputs : db[o] = IF d.db[o] = d.session.assignments[o] THEN None ELSE d.db[o]
    OBVIOUS
  <2>6. d.config \in Configs
    BY DEF Disks
  <2> HIDE DEF s, db
  <2>7. Recovered(d) \in Disks
    BY <2>2, <2>3, <2>6 DEF Disks
  <2> QED
    BY <1>2, <2>2, <2>4, <2>5, <2>7
<1>3. CASE d.session.starting /\ ~Active(d.config)
  <2> DEFINE s == [d.session EXCEPT !.starting = FALSE, !.active = FALSE]
  <2>1. Recovered(d) = [session |-> s, config |-> d.config, db |-> d.db]
    BY <1>3 DEF Recovered, Disks
  <2>2. s \in Sound /\ ~s.starting /\ ~s.active
    BY DEF Disks, Sound, Sessions
  <2>3. s.owned = d.session.owned /\ s.assignments = d.session.assignments
    BY DEF Disks, Sound, Sessions
  <2>4. d.config \in Configs /\ d.db \in [Outputs -> Maybe(Playlists)]
    BY DEF Disks
  <2> HIDE DEF s
  <2>5. Recovered(d) \in Disks
    BY <2>1, <2>2, <2>4 DEF Disks
  <2> QED
    BY <1>3, <2>1, <2>2, <2>3, <2>5
<1> QED
    BY <1>1, <1>2, <1>3

\* A session that ends stays sound.
LEMMA Ending ==
    ASSUME NEW s \in Sound
    PROVE  /\ [s EXCEPT !.active = FALSE] \in Sound /\ ~[s EXCEPT !.active = FALSE].active
           /\ [s EXCEPT !.active = FALSE].owned = s.owned
           /\ [s EXCEPT !.active = FALSE].starting = s.starting
           /\ [s EXCEPT !.active = FALSE].wallpapers = s.wallpapers
           /\ [s EXCEPT !.starting = FALSE] \in Sound /\ ~[s EXCEPT !.starting = FALSE].starting
           /\ [s EXCEPT !.starting = FALSE].owned = s.owned
           /\ [s EXCEPT !.starting = FALSE].active = s.active
           /\ [s EXCEPT !.starting = FALSE].assignments = s.assignments
<1>1. [s EXCEPT !.active = FALSE] \in Sound /\ [s EXCEPT !.starting = FALSE] \in Sound
    BY DEF Sound, Sessions
<1> QED
    BY <1>1 DEF Sound, Sessions

LEMMA Stopping ==
    ASSUME NEW s \in Sound
    PROVE  /\ Stopped(s) \in Sound /\ ~Stopped(s).active /\ ~Stopped(s).starting
           /\ Stopped(s).owned = s.owned
<1>1. Stopped(s) \in Sound
    BY DEF Sound, Sessions, Stopped
<1> QED
    BY <1>1 DEF Sound, Sessions, Stopped

\* The runtime gets a session that has not begun to follow.
LEMMA Replacing ==
    ASSUME NEW r \in Running, NEW s \in Sound, ~s.starting
    PROVE  [r EXCEPT !.session = s] \in Running /\ [r EXCEPT !.session = s].session = s
           /\ [r EXCEPT !.session = s].restore = r.restore
<1>1. s \in Sessions
    BY DEF Sound
<1> QED
    BY <1>1 DEF Running, Runtimes

LEMMA Idling ==
    ASSUME runtime \in Running
    PROVE  Idled \in Running /\ Idled.session = runtime.session /\ Idled.restore = runtime.restore
<1>1. Idled \in Runtimes
  <2>1. Nothing(Outputs) \in [Outputs -> Maybe(Contexts)]
    BY NothingTyped
  <2> QED
    BY <2>1 DEF Running, Runtimes, Idled
<1> QED
    BY <1>1 DEF Running, Runtimes, Idled

-----------------------------------------------------------------------------
(* The types of the state *)

\* The session of the runtime is saved, or the write fails.
LEMMA Saving ==
    ASSUME StateTyped, GhostTyped, runtime' \in Running, NEW ok \in BOOLEAN, SaveSession(ok)
    PROVE  /\ disk' \in Disks /\ disk'.config = disk.config /\ disk'.db = disk.db
           /\ disk'.session = runtime'.session \/ (disk' = disk /\ ~ok)
<1>1. runtime'.session \in Sound
    BY DEF Running
<1>2. disk' = IF ok THEN [disk EXCEPT !.session = runtime'.session] ELSE disk
    BY DEF SaveSession, Saves
<1> QED
    BY <1>1, <1>2 DEF StateTyped, Disks

LEMMA StateTypedKept == ASSUME Typed, SessionsKnown, Next PROVE StateTyped'
<1> USE DEF Typed, StateTyped
<1> DEFINE OK == disk' \in Disks /\ runtime' \in Running /\ screen' \in [Outputs -> Keys]
<1>1. ASSUME NEW ok \in BOOLEAN, Follow(ok) PROVE OK
  <2>1. Captured \in Sound
    <3>1. runtime.session.excluded \subseteq Contexts /\ disk.config \in Configs
          /\ disk.db \in [Outputs -> Maybe(Playlists)]
      BY DEF Running, Sound, Sessions, Disks
    <3>2. screen \in [Outputs -> Maybe(Keys)]
      BY DEF Maybe
    <3> QED
      BY <3>1, <3>2, NothingTyped DEF Captured, NoSession, Sound, Sessions
  <2> QED
    BY <1>1, <2>1, Idling DEF Follow, Disks
<1>2. ASSUME NEW ok \in BOOLEAN, FollowConfig(ok) \/ FollowCommit(ok) PROVE OK
  <2>1. /\ [disk EXCEPT !.config = "on"] \in Disks
        /\ [disk EXCEPT !.db = Nothing(Outputs)] \in Disks
    BY NothingTyped DEF Disks, Configs
  <2> QED
    BY <1>2, <2>1 DEF FollowConfig, FollowCommit
<1>a. ASSUME NEW ok \in BOOLEAN, Withdraw(ok) \/ WithdrawEnds(ok) PROVE OK
  <2>1. control.session \in Sound
    BY <1>a DEF Withdraw, WithdrawEnds, ControlTyped, Restoring
  <2>2. Stopped(control.session) \in Sound /\ control.session.settings \in Configs
    BY <2>1, Stopping DEF Sound, Sessions
  <2>3. /\ [disk EXCEPT !.config = control.session.settings] \in Disks
        /\ [disk EXCEPT !.session = Stopped(control.session)] \in Disks
    BY <2>2 DEF Disks
  <2> QED
    BY <1>a, <2>3 DEF Withdraw, WithdrawEnds
<1>3. ASSUME NEW d \in Disks, NEW s \in Sound, ~s.starting, Install(d, s)
      PROVE  disk' \in Disks /\ runtime' \in Running
  <2>1. d.config \in Configs /\ runtime.restore \in Maybe(Configs)
    BY DEF Disks, Running, Runtimes
  <2> QED
    BY <1>3, <2>1, Loading, Recovering DEF Install
<1>4. ASSUME NEW ok \in BOOLEAN, FollowFinish(ok) PROVE OK
  <2> DEFINE started == [control.session EXCEPT !.starting = FALSE]
  <2>1. control.session \in Sound
    BY <1>4 DEF FollowFinish, ControlTyped, Restoring
  <2>2. started \in Sound /\ ~started.starting
    BY <2>1, Ending
  <2>3. [disk EXCEPT !.session = started] \in Disks
    BY <2>2 DEF Disks
  <2> QED
    BY <1>3, <1>4, <2>2, <2>3 DEF FollowFinish
<1>5. ASSUME Leave PROVE OK
    BY <1>5, Idling DEF Leave
<1>6. ASSUME NEW ok \in BOOLEAN, LeaveSettings(ok) PROVE OK
  <2>1. control.session.settings \in Configs
    BY <1>6 DEF LeaveSettings, ControlTyped, Restoring, Sound, Sessions
  <2> QED
    BY <1>6, <2>1 DEF LeaveSettings, Disks
<1>7. ASSUME NEW ok \in BOOLEAN, LeaveAssign(ok) PROVE OK
  <2>1. control.session \in Sound
    BY <1>7 DEF LeaveAssign, ControlTyped, Restoring
  <2>2. Reassigned(control.session) \in [Outputs -> Maybe(Playlists)]
    BY <2>1 DEF Reassigned, Disks, Sound, Sessions
  <2> QED
    BY <1>7, <2>2 DEF LeaveAssign, Disks
<1>8. ASSUME NEW ok \in BOOLEAN, LeaveClose(ok) PROVE OK
  <2> DEFINE ended == [control.session EXCEPT !.active = FALSE]
  <2>1. control.session \in Sound /\ disk.config \in Maybe(Configs) /\ disk.config \in Configs
    BY <1>8 DEF LeaveClose, ControlTyped, Restoring, Maybe, Disks
  <2>2. CASE ok
    <3>1. ended \in Sound /\ ended.starting = control.session.starting
      BY <2>1, Ending
    <3>2. ~control.session.starting
      BY <1>8 DEF LeaveClose, SessionsKnown, LeavePcs, Running
    <3>3. [disk EXCEPT !.session = ended] \in Disks
      BY <3>1 DEF Disks
    <3>4. disk' \in Disks
      BY <1>8, <2>2, <3>3, Recovering DEF LeaveClose
    <3>5. runtime' = [Loaded(ended, disk.config) EXCEPT !.restore = disk.config]
      BY <1>8, <2>2 DEF LeaveClose
    <3> HIDE DEF ended
    <3>6. runtime' \in Running
      BY <2>1, <3>1, <3>2, <3>5, Loading
    <3> QED
      BY <1>8, <3>4, <3>6 DEF LeaveClose
  <2>3. CASE ~ok
    BY <1>8, <2>1, <2>3 DEF LeaveClose, Running, Runtimes
  <2> QED
    BY <2>2, <2>3
<1>9. ASSUME NEW ok \in BOOLEAN, LeaveSource(ok) PROVE OK
  <2>1. control.session \in Sound /\ ~control.session.starting
    BY <1>9 DEF LeaveSource, SessionsKnown, Running
  <2>2. [disk EXCEPT !.config = "off"] \in Disks
    BY DEF Disks, Configs
  <2> QED
    BY <1>3, <1>9, <2>1, <2>2 DEF LeaveSource
<1>10. ASSUME NEW o \in Outputs, Restore(o) PROVE OK
  <2>1. control.session.wallpapers[o] \in Keys
    BY <1>10 DEF Restore, ControlTyped, Restoring, FollowPcs, LeavePcs
  <2> QED
    BY <1>10, <2>1 DEF Restore
<1>11. ASSUME NEW ok \in BOOLEAN, RestoreEnds(ok) PROVE OK
  <2>1. control.before \in Keys
    BY <1>11 DEF RestoreEnds, ControlTyped, Restoring, FollowPcs, LeavePcs
  <2> QED
    BY <1>11, <2>1 DEF RestoreEnds
<1>12. ASSUME CancelRestore PROVE runtime' \in Running /\ runtime'.session = runtime.session
    BY <1>12 DEF CancelRestore, Running, Runtimes, Maybe
<1>13. ASSUME FollowReturns \/ ChoiceCommits PROVE OK
    BY <1>12, <1>13 DEF FollowReturns, ChoiceCommits
<1>14. ASSUME NEW s \in Sound, ~s.starting, runtime' = [runtime EXCEPT !.session = s]
       PROVE  runtime' \in Running
    BY <1>14, Replacing
<1>15. ASSUME NEW ok \in BOOLEAN, Feedback(ok) PROVE OK
  <2>1. runtime' \in Running
    <3>1. ASSUME NEW o \in Outputs, runtime' = Pinned(o) PROVE runtime' \in Running
      <4>1. [runtime.session EXCEPT !.held = @ \cup {o}] \in Sound
        BY DEF Running, Sound, Sessions
      <4> QED
        BY <3>1, <4>1, <1>14 DEF Pinned, Running, Sound, Sessions
    <3>2. ASSUME NEW o \in Outputs, runtime' = Resumed(o) PROVE runtime' \in Running
      <4> DEFINE s == [runtime.session EXCEPT !.held = @ \ {o}, !.contexts[o] = None]
      <4>1. s \in Sound /\ ~s.starting
        BY DEF Running, Sound, Sessions, Maybe
      <4>2. runtime' = [runtime EXCEPT !.session = s]
        BY <3>2 DEF Resumed, Running, Runtimes, Sound, Sessions
      <4> QED
        BY <4>1, <4>2, <1>14
    <3>3. ASSUME NEW c \in Contexts, runtime' = Excluded(c) PROVE runtime' \in Running
      <4> DEFINE contexts == [o \in Outputs |-> IF screen[o] = c THEN None
                                                ELSE runtime.session.contexts[o]]
      <4> DEFINE plans == [o \in Outputs |-> IF runtime.plans[o] = c THEN None ELSE runtime.plans[o]]
      <4> DEFINE s == [runtime.session EXCEPT !.excluded = @ \cup {c}, !.contexts = contexts]
      <4>1. contexts \in [Outputs -> Maybe(Contexts)] /\ plans \in [Outputs -> Maybe(Contexts)]
        BY DEF Running, Runtimes, Sound, Sessions, Maybe
      <4>2. runtime' = [runtime EXCEPT !.session = s, !.plans = plans]
        BY <3>3 DEF Excluded, Running, Runtimes
      <4> HIDE DEF contexts, plans
      <4>3. s \in Sound /\ ~s.starting
        BY <4>1 DEF Running, Sound, Sessions
      <4> HIDE DEF s
      <4>4. s \in Sessions
        BY <4>3 DEF Sound
      <4> QED
        BY <4>1, <4>2, <4>3, <4>4 DEF Running, Runtimes
    <3> QED
      BY <1>15, <3>1, <3>2, <3>3 DEF Feedback
  <2>2. runtime'.session \in Sound
    BY <2>1 DEF Running
  <2> QED
    BY <1>15, <2>1, <2>2 DEF Feedback, Saves, Disks
<1>16. ASSUME NEW o \in Outputs, Choose(o) PROVE OK
    BY <1>16 DEF Choose, Stage, Keys
<1>17. ASSUME NEW ok \in BOOLEAN, ChoiceStop(ok) PROVE OK
  <2>1. Stopped(runtime.session) \in Sound
    BY Stopping DEF Running
  <2> QED
    BY <1>17, <2>1 DEF ChoiceStop, Disks
<1>18. ASSUME NEW d \in Disks PROVE Load(d) \in Running
  <2>1. Recovered(d).session \in Sound /\ ~Recovered(d).session.starting /\ d.config \in Configs
    BY Recovering DEF Disks
  <2> QED
    BY <2>1, Loading DEF Load, Recovering
<1>19. ASSUME NEW ok \in BOOLEAN, ChoiceDisable(ok) PROVE OK
  <2> DEFINE d == [disk EXCEPT !.config = IF Active(@) THEN "disabled" ELSE @]
  <2>1. d \in Disks /\ runtime.session \in Sound
    BY DEF Disks, Configs, Running
  <2>2. "chosen" \in Keys
    BY DEF Keys
  <2>3. Load(d) \in Running
    BY <1>18, <2>1
  <2>4. CASE ok
    BY <1>19, <2>1, <2>2, <2>3, <2>4 DEF ChoiceDisable, Stage
  <2>5. CASE ~ok
    BY <1>19, <2>5 DEF ChoiceDisable
  <2> QED
    BY <2>4, <2>5
<1>b. ASSUME NEW ok \in BOOLEAN, ChoiceUndoes(ok) PROVE OK
  <2>1. [disk EXCEPT !.session = runtime.session] \in Disks
    BY DEF Running, Disks
  <2> QED
    BY <1>b, <2>1 DEF ChoiceUndoes
<1>20. ASSUME ChoiceFails PROVE OK
    BY <1>20 DEF ChoiceFails, ChoiceTyped, Rendered
<1>21. ASSUME NEW ok \in BOOLEAN, ChoiceRollsBack(ok) \/ ChoiceEnables(ok) PROVE OK
  <2>1. choice.prior \in Running /\ choice.prior.session \in Sound
    BY <1>21 DEF ChoiceRollsBack, ChoiceEnables, ChoiceTyped, Rendered, Running
  <2>2. /\ [disk EXCEPT !.session = choice.prior.session] \in Disks
        /\ [disk EXCEPT !.config = IF @ = "disabled" THEN "on" ELSE @] \in Disks
    BY <2>1 DEF Disks, Configs
  <2> QED
    BY <1>21, <2>1, <2>2 DEF ChoiceRollsBack, ChoiceEnables
<1>22. ASSUME Deactivate PROVE OK
    BY <1>22, Idling DEF Deactivate, Running, Runtimes, Disks
<1>23. ASSUME Fetch \/ Ignore \/ Outdated \/ Retry PROVE OK
    BY <1>23 DEF Fetch, Ignore, Outdated, Retry
<1>24. ASSUME NEW c \in Contexts, Accept(c) PROVE OK
    BY <1>24 DEF Accept, Running, Runtimes, Maybe, Configs
<1>25. ASSUME WeatherApply \/ WeatherFails PROVE OK
    BY <1>25 DEF WeatherApply, WeatherFails, RunnerTyped, Stage, Keys
<1>26. ASSUME NEW ok \in BOOLEAN, Reconcile(ok) PROVE OK
  <2> DEFINE contexts == [o \in Outputs |-> IF Shows(o) THEN refresh.context
                                            ELSE runtime.session.contexts[o]]
  <2> DEFINE plans == [o \in Outputs |-> Planned(o)]
  <2> DEFINE due == {o \in Outputs : Due(o)}
  <2> DEFINE s == [runtime.session EXCEPT !.contexts = contexts]
  <2>1. refresh.context \in Contexts
    BY <1>26 DEF Reconcile, RunnerTyped
  <2>2. contexts \in [Outputs -> Maybe(Contexts)] /\ plans \in [Outputs -> Maybe(Contexts)]
    BY <2>1 DEF Running, Sound, Sessions, Maybe, Planned
  <2>3. runtime' = [runtime EXCEPT !.plans = plans, !.due = due, !.session = s]
    BY <1>26 DEF Reconcile, Running, Runtimes
  <2>4. due \subseteq Outputs
    OBVIOUS
  <2> HIDE DEF contexts, plans, due
  <2>5. s \in Sound /\ ~s.starting
    BY <2>2 DEF Running, Sound, Sessions
  <2> HIDE DEF s
  <2>6. s \in Sessions
    BY <2>5 DEF Sound
  <2>7. runtime' \in Running
    BY <2>2, <2>3, <2>4, <2>5, <2>6 DEF Running, Runtimes
  <2>8. SaveSession(ok) \/ disk' = disk
    BY <1>26 DEF Reconcile
  <2> QED
    BY <1>26, <2>7, <2>8, Saving DEF Reconcile
<1>27. ASSUME NEW ok \in BOOLEAN, WeatherCommits(ok) PROVE OK
  <2> DEFINE o == runner.output
  <2> DEFINE context == IF runtime.context = None THEN runtime.session.contexts[o] ELSE runtime.context
  <2> DEFINE s == [runtime.session EXCEPT !.owned[o] = runner.key, !.contexts[o] = context]
  <2>1. o \in Outputs /\ runner.key \in Contexts
    BY <1>27 DEF WeatherCommits, RunnerTyped
  <2>2. context \in Maybe(Contexts)
    BY <2>1 DEF Running, Runtimes, Sound, Sessions
  <2>3. Active(disk.config) => runtime' = [runtime EXCEPT !.session = s, !.due = @ \ {o}]
    BY <1>27 DEF WeatherCommits
  <2> HIDE DEF context
  <2>4. s \in Sound /\ ~s.starting
    BY <2>1, <2>2 DEF Running, Sound, Sessions, Maybe
  <2> HIDE DEF s
  <2>5. s \in Sessions
    BY <2>4 DEF Sound
  <2>6. runtime' \in Running
    <3>1. CASE Active(disk.config)
      BY <2>3, <2>4, <2>5, <3>1 DEF Running, Runtimes
    <3>2. CASE ~Active(disk.config)
      BY <1>27, <3>2 DEF WeatherCommits
    <3> QED
      BY <3>1, <3>2
  <2>7. SaveSession(ok) \/ disk' = disk
    BY <1>27 DEF WeatherCommits
  <2> QED
    BY <1>27, <2>6, <2>7, Saving DEF WeatherCommits
<1>28. ASSUME Crash PROVE OK
    BY <1>18, <1>28, Recovering DEF Crash
<1>29. ASSUME NEW c \in Configs, Edit(c) PROVE OK
    BY <1>29 DEF Edit, Disks
<1>30. ASSUME NEW o \in Outputs, Tick(o) PROVE OK
    BY <1>30 DEF Tick
<1>31. ASSUME NEW o \in Outputs, NEW ok \in BOOLEAN, PlaylistApply(o, ok) PROVE OK
  <2>1. runtime' \in Running /\ runtime'.session \in Sound
    <3>1. [runtime.session EXCEPT !.held = @ \cup {o}] \in Sound
          /\ ~[runtime.session EXCEPT !.held = @ \cup {o}].starting
      BY DEF Running, Sound, Sessions
    <3>2. runtime' = runtime \/
          runtime' = [runtime EXCEPT !.session = [runtime.session EXCEPT !.held = @ \cup {o}]]
      BY <1>31 DEF PlaylistApply
    <3>3. runtime' \in Running
      BY <3>1, <3>2, <1>14
    <3> QED
      BY <3>3 DEF Running
  <2>2. screen' \in [Outputs -> Keys]
    BY <1>31 DEF PlaylistApply, Stage, Keys
  <2>3. disk' = disk \/ disk' = [disk EXCEPT !.session = runtime'.session]
    BY <1>31 DEF PlaylistApply
  <2> QED
    BY <2>1, <2>2, <2>3 DEF Disks
<1>32. ASSUME NEW o \in Outputs, NEW p \in Playlists \cup {None}, Assign(o, p) PROVE OK
    BY <1>32 DEF Assign, Disks, Maybe
<1> HIDE DEF OK
<1>33. OK
    BY <1>1, <1>2, <1>a, <1>b, <1>4, <1>5, <1>6, <1>7, <1>8, <1>9, <1>10, <1>11, <1>13, <1>15, <1>16, <1>17,
       <1>19, <1>20, <1>21, <1>22, <1>23, <1>24, <1>25, <1>26, <1>27, <1>28, <1>29, <1>30, <1>31,
       <1>32 DEF Next, FollowSteps, ChoiceSteps, WeatherSteps
<1> QED
    BY <1>33 DEF OK

-----------------------------------------------------------------------------
(* The types of the threads *)

\* The steps of the thread in follow, of the choice and of the two other threads.
FollowMoves ==
    \/ \E ok \in BOOLEAN : \/ Follow(ok) \/ FollowConfig(ok) \/ FollowCommit(ok) \/ FollowFinish(ok)
                          \/ Withdraw(ok) \/ WithdrawEnds(ok) \/ LeaveSettings(ok) \/ LeaveAssign(ok) \/ LeaveClose(ok)
                          \/ LeaveSource(ok) \/ RestoreEnds(ok)
    \/ Leave \/ FollowReturns \/ \E o \in Outputs : Restore(o)
ChoiceMoves == ChoiceSteps \/ ChoiceCommits \/ ChoiceFails \/ \E o \in Outputs : Choose(o)
WeatherMoves == WeatherSteps \/ \E o \in Outputs : Tick(o)
OtherMoves == \/ \E ok \in BOOLEAN : Feedback(ok)
              \/ \E o \in Outputs, ok \in BOOLEAN : PlaylistApply(o, ok)
              \/ \E c \in Configs : Edit(c)
              \/ \E o \in Outputs, p \in Playlists \cup {None} : Assign(o, p)

LEMMA Moves ==
    ASSUME Next PROVE FollowMoves \/ ChoiceMoves \/ WeatherMoves \/ OtherMoves \/ Crash
<1>1. CASE FollowSteps
    BY <1>1 DEF FollowSteps, FollowMoves, OtherMoves
<1>2. ASSUME NEW o \in Outputs, Restore(o) \/ Choose(o) \/ Tick(o)
      PROVE  FollowMoves \/ ChoiceMoves \/ WeatherMoves
    BY <1>2 DEF FollowMoves, ChoiceMoves, WeatherMoves
<1>3. ASSUME NEW o \in Outputs, \/ \E ok \in BOOLEAN : PlaylistApply(o, ok)
                               \/ \E p \in Playlists \cup {None} : Assign(o, p)
      PROVE  OtherMoves
    BY <1>3 DEF OtherMoves
<1>4. ASSUME NEW c \in Configs, Edit(c) PROVE OtherMoves
    BY <1>4 DEF OtherMoves
<1>5. CASE Leave \/ FollowReturns \/ ChoiceSteps \/ ChoiceCommits \/ ChoiceFails \/ WeatherSteps
    BY <1>5 DEF FollowMoves, ChoiceMoves, WeatherMoves
<1> QED
    BY <1>1, <1>2, <1>3, <1>4, <1>5 DEF Next

\* A thread moves by its own steps alone.
LEMMA FollowLeaves == ASSUME FollowMoves PROVE UNCHANGED <<choice, runner, refresh>>
<1>1. ASSUME NEW ok \in BOOLEAN,
             \/ Follow(ok) \/ FollowConfig(ok) \/ FollowCommit(ok) \/ FollowFinish(ok)
             \/ Withdraw(ok) \/ WithdrawEnds(ok)
             \/ LeaveSettings(ok) \/ LeaveAssign(ok) \/ LeaveClose(ok) \/ LeaveSource(ok)
             \/ RestoreEnds(ok)
      PROVE  UNCHANGED <<choice, runner, refresh>>
    BY <1>1 DEF Follow, FollowConfig, FollowCommit, FollowFinish, Withdraw, WithdrawEnds, LeaveSettings, LeaveAssign,
       LeaveClose, LeaveSource, RestoreEnds
<1>2. ASSUME NEW o \in Outputs, Restore(o) PROVE UNCHANGED <<choice, runner, refresh>>
    BY <1>2 DEF Restore
<1>3. CASE Leave \/ FollowReturns
    BY <1>3 DEF Leave, FollowReturns
<1> QED
    BY <1>1, <1>2, <1>3 DEF FollowMoves

LEMMA ChoiceLeaves == ASSUME ChoiceMoves PROVE UNCHANGED <<control, runner, refresh>>
<1>1. ASSUME NEW ok \in BOOLEAN,
             \/ ChoiceStop(ok) \/ ChoiceDisable(ok) \/ ChoiceUndoes(ok)
             \/ ChoiceRollsBack(ok) \/ ChoiceEnables(ok)
      PROVE  UNCHANGED <<control, runner, refresh>>
    BY <1>1 DEF ChoiceStop, ChoiceDisable, ChoiceUndoes, ChoiceRollsBack, ChoiceEnables
<1>2. ASSUME NEW o \in Outputs, Choose(o) PROVE UNCHANGED <<control, runner, refresh>>
    BY <1>2 DEF Choose
<1>3. CASE ChoiceCommits \/ ChoiceFails
    BY <1>3 DEF ChoiceCommits, ChoiceFails
<1> QED
    BY <1>1, <1>2, <1>3 DEF ChoiceMoves, ChoiceSteps

LEMMA WeatherLeaves == ASSUME WeatherMoves PROVE UNCHANGED <<control, choice>>
<1>1. ASSUME NEW ok \in BOOLEAN, Reconcile(ok) \/ WeatherCommits(ok)
      PROVE  UNCHANGED <<control, choice>>
    BY <1>1 DEF Reconcile, WeatherCommits
<1>2. ASSUME NEW c \in Contexts, Accept(c) PROVE UNCHANGED <<control, choice>>
    BY <1>2 DEF Accept
<1>3. ASSUME NEW o \in Outputs, Tick(o) PROVE UNCHANGED <<control, choice>>
    BY <1>3 DEF Tick
<1>4. CASE Fetch \/ Ignore \/ Deactivate \/ Outdated \/ WeatherApply \/ WeatherFails \/ Retry
    BY <1>4 DEF Fetch, Ignore, Deactivate, Outdated, WeatherApply, WeatherFails, Retry, threads
<1> QED
    BY <1>1, <1>2, <1>3, <1>4 DEF WeatherMoves, WeatherSteps

LEMMA OthersLeave == ASSUME OtherMoves PROVE UNCHANGED threads
<1>1. ASSUME NEW ok \in BOOLEAN, Feedback(ok) PROVE UNCHANGED threads
    BY <1>1 DEF Feedback, threads
<1>2. ASSUME NEW o \in Outputs, NEW ok \in BOOLEAN, PlaylistApply(o, ok) PROVE UNCHANGED threads
    BY <1>2 DEF PlaylistApply
<1>3. ASSUME NEW c \in Configs, Edit(c) PROVE UNCHANGED threads
    BY <1>3 DEF Edit
<1>4. ASSUME NEW o \in Outputs, NEW p \in Playlists \cup {None}, Assign(o, p)
      PROVE  UNCHANGED threads
    BY <1>4 DEF Assign
<1> QED
    BY <1>1, <1>2, <1>3, <1>4 DEF OtherMoves

LEMMA ControlTypedKept == ASSUME Typed, SessionsKnown, Next PROVE ControlTyped'
<1> USE DEF Typed, FollowPcs, LeavePcs
<1>1. ASSUME UNCHANGED control PROVE ControlTyped'
    BY <1>1 DEF ControlTyped
<1>2. ASSUME control' = Quiet PROVE ControlTyped'
    BY <1>2 DEF ControlTyped, Quiet
<1>3. ASSUME NEW s \in Sound, NEW pc \in FollowPcs \cup LeavePcs \cup {"source"},
             control' = [pc |-> pc, session |-> s]
      PROVE  ControlTyped'
    BY <1>3 DEF ControlTyped
<1>4. control.pc \in FollowPcs \cup LeavePcs \cup {"source"} =>
         control \in [pc : FollowPcs \cup LeavePcs \cup {"source"}, session : Sound]
    BY DEF ControlTyped, Restoring
<1>5. control.pc = "restore" => control \in Restoring
    BY DEF ControlTyped, Restoring
<1>6. ASSUME NEW ok \in BOOLEAN, Follow(ok) PROVE ControlTyped'
  <2>1. CASE ok
    <3>1. disk' \in Disks /\ disk'.session = Captured
      <4>1. Next
        BY <1>6 DEF Next, FollowSteps
      <4>2. disk' = [disk EXCEPT !.session = Captured]
        BY <1>6, <2>1 DEF Follow
      <4> QED
        BY <4>1, <4>2, StateTypedKept DEF StateTyped, Disks
    <3>2. Captured \in Sound
      BY <3>1 DEF Disks
    <3> QED
      BY <1>3, <1>6, <2>1, <3>2 DEF Follow
  <2>2. CASE ~ok
    BY <1>1, <1>6, <2>2 DEF Follow
  <2> QED
    BY <2>1, <2>2
<1>7. ASSUME NEW ok \in BOOLEAN, \/ FollowConfig(ok) \/ FollowCommit(ok) \/ Withdraw(ok) \/ WithdrawEnds(ok)
                                \/ LeaveSettings(ok) \/ LeaveAssign(ok)
      PROVE  ControlTyped'
  <2>1. control' = Quiet \/ \E pc \in FollowPcs \cup LeavePcs : control' = [control EXCEPT !.pc = pc]
    BY <1>7 DEF FollowConfig, FollowCommit, Withdraw, WithdrawEnds, LeaveSettings, LeaveAssign
  <2>2. control.pc \in FollowPcs \cup LeavePcs
    BY <1>7 DEF FollowConfig, FollowCommit, Withdraw, WithdrawEnds, LeaveSettings, LeaveAssign
  <2> QED
    BY <1>2, <1>3, <1>4, <2>1, <2>2
<1>8. ASSUME control' = [pc |-> "cancel"] PROVE ControlTyped'
    BY <1>8 DEF ControlTyped
<1>9. ASSUME NEW ok \in BOOLEAN, FollowFinish(ok) \/ LeaveSource(ok) PROVE ControlTyped'
    BY <1>2, <1>8, <1>9 DEF FollowFinish, LeaveSource
<1>10. CASE Leave
  <2>1. control' = [pc |-> IF runtime.session.active THEN "settings" ELSE "source",
                    session |-> runtime.session]
    BY <1>10 DEF Leave
  <2>2. runtime.session \in Sound
    BY DEF StateTyped, Running
  <2> QED
    BY <1>3, <2>1, <2>2
<1>11. ASSUME NEW ok \in BOOLEAN, LeaveClose(ok) PROVE ControlTyped'
  <2> DEFINE ended == [control.session EXCEPT !.active = FALSE]
  <2>1. control.session \in Sound /\ control.session.active
    BY <1>4, <1>11 DEF LeaveClose, SessionsKnown
  <2>2. ended \in Sessions /\ \A o \in Outputs : ended.wallpapers[o] \in Keys
    BY <2>1, Ending DEF Sound
  <2>3. control' = Quiet \/ control' = [pc |-> "restore", session |-> ended, todo |-> Outputs]
    BY <1>11 DEF LeaveClose
  <2> HIDE DEF ended
  <2> QED
    BY <1>2, <2>2, <2>3 DEF ControlTyped, Restoring
<1>12. ASSUME NEW o \in Outputs, Restore(o) PROVE ControlTyped'
  <2> DEFINE rest == [pc |-> "restore", session |-> control.session, todo |-> control.todo \ {o}]
  <2>1. control \in Restoring
    BY <1>5, <1>12 DEF Restore
  <2>2. rest \in Restoring /\ o \notin rest.todo
    BY <2>1 DEF Restoring
  <2>3. screen[o] \in Keys
    BY DEF StateTyped
  <2>4. \/ control' = rest
        \/ control' = [pc |-> "restoring", next |-> rest, output |-> o, before |-> screen[o]]
    BY <1>12 DEF Restore
  <2> HIDE DEF rest
  <2> QED
    BY <2>2, <2>3, <2>4 DEF ControlTyped
<1>13. ASSUME NEW ok \in BOOLEAN, RestoreEnds(ok) PROVE ControlTyped'
    BY <1>13 DEF RestoreEnds, ControlTyped, Restoring
<1>14. CASE FollowReturns \/ Crash
    BY <1>2, <1>14 DEF FollowReturns, Crash
<1>15. CASE ChoiceMoves \/ WeatherMoves \/ OtherMoves
    BY <1>1, <1>15, ChoiceLeaves, WeatherLeaves, OthersLeave DEF threads
<1> QED
    BY <1>6, <1>7, <1>9, <1>10, <1>11, <1>12, <1>13, <1>14, <1>15, Moves DEF FollowMoves

LEMMA ChoiceTypedKept == ASSUME Typed, Next PROVE ChoiceTyped'
<1> USE DEF Typed
<1>1. ASSUME UNCHANGED choice PROVE ChoiceTyped'
    BY <1>1 DEF ChoiceTyped
<1>2. ASSUME choice' = Quiet PROVE ChoiceTyped'
    BY <1>2 DEF ChoiceTyped, Quiet
<1>3. ASSUME NEW o \in Outputs, NEW prior \in Running \cup {None}, choice' = Chosen(o, prior)
      PROVE  ChoiceTyped'
    BY <1>3 DEF ChoiceTyped, Chosen, Rendered, StateTyped, GhostTyped
<1>4. ASSUME NEW o \in Outputs, Choose(o) PROVE ChoiceTyped'
    BY <1>3, <1>4 DEF Choose, ChoiceTyped
<1>5. ASSUME NEW ok \in BOOLEAN, ChoiceStop(ok) \/ ChoiceRollsBack(ok) PROVE ChoiceTyped'
    BY <1>2, <1>5 DEF ChoiceStop, ChoiceRollsBack, ChoiceTyped, Rendered
<1>a. ASSUME choice' = [pc |-> "undo"] PROVE ChoiceTyped'
    BY <1>a DEF ChoiceTyped
<1>6. ASSUME NEW ok \in BOOLEAN, ChoiceDisable(ok) PROVE ChoiceTyped'
  <2>1. choice.output \in Outputs /\ runtime \in Running
    BY <1>6 DEF ChoiceDisable, ChoiceTyped, Rendered, StateTyped
  <2> QED
    BY <1>3, <1>6, <1>a, <2>1 DEF ChoiceDisable
<1>7. ASSUME NEW ok \in BOOLEAN, ChoiceEnables(ok) \/ ChoiceUndoes(ok) PROVE ChoiceTyped'
    BY <1>2, <1>7, <1>a DEF ChoiceEnables, ChoiceUndoes
<1>8. CASE ChoiceFails
    BY <1>2, <1>8 DEF ChoiceFails, ChoiceTyped, Rendered
<1>9. CASE ChoiceCommits \/ Crash
    BY <1>2, <1>9 DEF ChoiceCommits, Crash
<1>10. CASE FollowMoves \/ WeatherMoves \/ OtherMoves
    BY <1>1, <1>10, FollowLeaves, WeatherLeaves, OthersLeave DEF threads
<1> QED
    BY <1>4, <1>5, <1>6, <1>7, <1>8, <1>9, <1>10, Moves DEF ChoiceMoves, ChoiceSteps

LEMMA RunnerTypedKept == ASSUME Typed, Next PROVE RunnerTyped'
<1> USE DEF Typed, RunnerTyped
<1>1. CASE FollowMoves \/ ChoiceMoves \/ OtherMoves
    BY <1>1, FollowLeaves, ChoiceLeaves, OthersLeave DEF threads
<1>2. CASE Crash
    BY <1>2 DEF Crash, Quiet
<1>3. ASSUME NEW ok \in BOOLEAN, Reconcile(ok) \/ WeatherCommits(ok) PROVE RunnerTyped'
    BY <1>3 DEF Reconcile, WeatherCommits, Quiet
<1>4. ASSUME NEW c \in Contexts, Accept(c) PROVE RunnerTyped'
    BY <1>4 DEF Accept
<1>5. ASSUME NEW o \in Outputs, Tick(o) PROVE RunnerTyped'
  <2>1. runtime.plans[o] \in Contexts
    BY <1>5 DEF Tick, Fires, StateTyped, Running, Runtimes, Maybe
  <2> QED
    BY <1>5, <2>1 DEF Tick
<1>6. CASE Fetch \/ Ignore \/ Deactivate \/ Outdated \/ Retry
    BY <1>6 DEF Fetch, Ignore, Deactivate, Outdated, Retry, Quiet, threads
<1>7. CASE WeatherApply
  <2>1. screen[runner.output] \in Keys /\ ghost.by[runner.output] \in By
    BY <1>7 DEF WeatherApply, StateTyped, GhostTyped
  <2> QED
    BY <1>7, <2>1 DEF WeatherApply
<1>8. CASE WeatherFails
    BY <1>8 DEF WeatherFails
<1> QED
    BY <1>1, <1>2, <1>3, <1>4, <1>5, <1>6, <1>7, <1>8, Moves DEF WeatherMoves, WeatherSteps

LEMMA FreshTypedKept == ASSUME Typed, Next PROVE FreshTyped'
<1> USE DEF Typed, FreshTyped, Bump, SameGeneration, Reads
<1>1. ASSUME NEW ok \in BOOLEAN,
             \/ Follow(ok) \/ FollowConfig(ok) \/ FollowCommit(ok) \/ FollowFinish(ok)
             \/ Withdraw(ok) \/ WithdrawEnds(ok)
             \/ LeaveSettings(ok) \/ LeaveAssign(ok) \/ LeaveClose(ok) \/ LeaveSource(ok)
             \/ RestoreEnds(ok)
      PROVE  FreshTyped'
    BY <1>1 DEF Follow, FollowConfig, FollowCommit, FollowFinish, Withdraw, WithdrawEnds, LeaveSettings, LeaveAssign,
       LeaveClose, LeaveSource, RestoreEnds, Install
<1>2. ASSUME NEW o \in Outputs, Restore(o) \/ Choose(o) \/ Tick(o) PROVE FreshTyped'
    BY <1>2 DEF Restore, Choose, Tick
<1>3. ASSUME NEW ok \in BOOLEAN,
             \/ ChoiceStop(ok) \/ ChoiceDisable(ok) \/ ChoiceUndoes(ok) \/ ChoiceRollsBack(ok) \/ ChoiceEnables(ok)
             \/ Reconcile(ok) \/ WeatherCommits(ok) \/ Feedback(ok)
      PROVE  FreshTyped'
    BY <1>3 DEF ChoiceStop, ChoiceDisable, ChoiceUndoes, ChoiceRollsBack, ChoiceEnables, Reconcile,
       WeatherCommits, Feedback
<1>4. CASE Leave \/ FollowReturns \/ ChoiceCommits \/ ChoiceFails \/ Crash
    BY <1>4 DEF Leave, FollowReturns, ChoiceCommits, ChoiceFails, Crash, CancelRestore
<1>5. ASSUME NEW c \in Contexts, Accept(c) PROVE FreshTyped'
    BY <1>5 DEF Accept
<1>6. CASE Fetch \/ Ignore \/ Deactivate \/ Outdated \/ WeatherApply \/ WeatherFails \/ Retry
    BY <1>6 DEF Fetch, Ignore, Deactivate, Outdated, WeatherApply, WeatherFails, Retry
<1>7. ASSUME NEW o \in Outputs, NEW ok \in BOOLEAN, PlaylistApply(o, ok) PROVE FreshTyped'
    BY <1>7 DEF PlaylistApply
<1>8. ASSUME NEW c \in Configs, Edit(c) PROVE FreshTyped'
    BY <1>8 DEF Edit
<1>9. ASSUME NEW o \in Outputs, NEW p \in Playlists \cup {None}, Assign(o, p) PROVE FreshTyped'
    BY <1>9 DEF Assign
<1> QED
    BY <1>1, <1>2, <1>3, <1>4, <1>5, <1>6, <1>7, <1>8, <1>9, Moves
    DEF FollowMoves, ChoiceMoves, ChoiceSteps, WeatherMoves, WeatherSteps, OtherMoves

LEMMA OneHolderKept == ASSUME Typed, Next PROVE OneHolder'
<1> USE DEF Typed, OneHolder, FollowPcs, LeavePcs
<1>1. ASSUME control' = Quiet, choice' = choice, runner' = runner PROVE OneHolder'
    BY <1>1 DEF Quiet
<1>2. ASSUME control'.pc \in {"idle", "cancel", "restore"}, choice' = choice, runner' = runner
      PROVE  OneHolder'
    BY <1>2
<1>3. ASSUME control' = control, choice'.pc \in {choice.pc, "idle"}, runner' = runner,
             "refresh" \in fresh' => "refresh" \in fresh
      PROVE  OneHolder'
    BY <1>3
<1>4. ASSUME NEW ok \in BOOLEAN, Follow(ok) PROVE OneHolder'
    BY <1>4 DEF Follow, Locked, Bump
<1>5. ASSUME Leave PROVE OneHolder'
    BY <1>5 DEF Leave, Locked, Bump
<1>6. ASSUME NEW ok \in BOOLEAN,
             \/ FollowConfig(ok) \/ FollowCommit(ok) \/ Withdraw(ok) \/ WithdrawEnds(ok)
             \/ LeaveSettings(ok) \/ LeaveAssign(ok)
      PROVE  OneHolder'
  <2>1. /\ control.pc \in FollowPcs \cup LeavePcs /\ choice' = choice /\ runner' = runner
        /\ fresh' = fresh
    BY <1>6 DEF FollowConfig, FollowCommit, Withdraw, WithdrawEnds, LeaveSettings, LeaveAssign, SameGeneration
  <2> QED
    BY <2>1
<1>7. ASSUME NEW ok \in BOOLEAN, FollowFinish(ok) \/ LeaveClose(ok) \/ LeaveSource(ok) PROVE OneHolder'
    BY <1>2, <1>7 DEF FollowFinish, LeaveClose, LeaveSource, Quiet
<1>8. ASSUME NEW o \in Outputs, Restore(o) PROVE OneHolder'
    BY <1>8 DEF Restore, Locked
<1>9. ASSUME NEW ok \in BOOLEAN, RestoreEnds(ok) PROVE OneHolder'
    BY <1>2, <1>9 DEF RestoreEnds, ControlTyped, Restoring
<1>10. CASE FollowReturns
    BY <1>1, <1>10 DEF FollowReturns
<1>11. ASSUME NEW o \in Outputs, Choose(o) PROVE OneHolder'
    BY <1>11 DEF Choose, Locked
<1>12. ASSUME choice.pc # "idle", ChoiceMoves PROVE OneHolder'
  <2>1. control.pc \notin FollowPcs \cup LeavePcs \cup {"source", "restoring"} /\ runner.pc # "applying"
    BY <1>12
  <2> QED
    BY <1>12, <2>1, ChoiceLeaves
<1>13. CASE ChoiceMoves
  <2>1. choice.pc # "idle" \/ \E o \in Outputs : Choose(o)
    BY <1>13 DEF ChoiceMoves, ChoiceSteps, ChoiceStop, ChoiceDisable, ChoiceUndoes, ChoiceRollsBack,
       ChoiceEnables, ChoiceCommits, ChoiceFails
  <2> QED
    BY <1>11, <1>12, <1>13, <2>1
<1>14. ASSUME NEW c \in Contexts, Accept(c) PROVE OneHolder'
    BY <1>14 DEF Accept, Locked
<1>15. CASE WeatherApply
    BY <1>15 DEF WeatherApply, Locked, SameGeneration
<1>16. ASSUME UNCHANGED <<control, choice>>, runner'.pc # "applying",
              "refresh" \in fresh' => "refresh" \in fresh
       PROVE  OneHolder'
    BY <1>16
<1>17. CASE WeatherFails \/ Retry
    BY <1>16, <1>17 DEF WeatherFails, Retry, SameGeneration, Quiet
<1>18. ASSUME NEW ok \in BOOLEAN, WeatherCommits(ok) PROVE OneHolder'
    BY <1>16, <1>18 DEF WeatherCommits, Quiet
<1>19. ASSUME NEW ok \in BOOLEAN, Reconcile(ok) PROVE OneHolder'
    BY <1>3, <1>19 DEF Reconcile, Bump
<1>20. ASSUME NEW o \in Outputs, Tick(o) PROVE OneHolder'
    BY <1>16, <1>20 DEF Tick, Reads
<1>21. CASE Fetch \/ Ignore \/ Deactivate \/ Outdated
    BY <1>3, <1>21 DEF Fetch, Ignore, Deactivate, Outdated, Bump, SameGeneration, threads
<1>22. ASSUME UNCHANGED threads, fresh' \in {{}, fresh} PROVE OneHolder'
    BY <1>22 DEF threads
<1>23. ASSUME NEW ok \in BOOLEAN, Feedback(ok) PROVE OneHolder'
    BY <1>22, <1>23 DEF Feedback, Bump, threads
<1>24. ASSUME NEW o \in Outputs, NEW ok \in BOOLEAN, PlaylistApply(o, ok) PROVE OneHolder'
    BY <1>22, <1>24 DEF PlaylistApply, Bump, SameGeneration
<1>25. ASSUME NEW c \in Configs, Edit(c) PROVE OneHolder'
    BY <1>22, <1>25 DEF Edit, SameGeneration
<1>26. ASSUME NEW o \in Outputs, NEW p \in Playlists \cup {None}, Assign(o, p) PROVE OneHolder'
    BY <1>22, <1>26 DEF Assign, SameGeneration
<1>27. CASE Crash
    BY <1>27 DEF Crash, Quiet
<1> QED
    BY <1>4, <1>5, <1>6, <1>7, <1>8, <1>9, <1>10, <1>13, <1>14, <1>15, <1>17, <1>18, <1>19, <1>20,
       <1>21, <1>23, <1>24, <1>25, <1>26, <1>27, Moves
    DEF FollowMoves, WeatherMoves, WeatherSteps, OtherMoves

\* What is left, and what the user is owed.
LEMMA GhostTypedKept == ASSUME Typed, Next PROVE GhostTyped'
<1> USE DEF Typed
<1> DEFINE Left == left' \in [{"acts", "troubles"} -> Nat]
<1> DEFINE G == [given : [Outputs -> Maybe(Playlists)], lost : SUBSET Outputs,
                 torn : SUBSET Tearings, chose : BOOLEAN, by : [Outputs -> By]]
<1>1. ghost \in G /\ Nothing(Outputs) \in [Outputs -> Maybe(Playlists)]
    BY NothingTyped DEF GhostTyped
<1>2. UNCHANGED left => Left
    BY DEF GhostTyped
<1>3. ASSUME NEW k \in {"acts", "troubles"}, Use(k) PROVE Left
    BY <1>3 DEF GhostTyped, Use
<1>4. ASSUME NEW ok \in BOOLEAN, Write(ok) PROVE Left
    BY <1>2, <1>3, <1>4 DEF Write
<1>5. ASSUME NEW O PROVE Forgets(O) \in G
  <2>1. [o \in Outputs |-> IF o \in O THEN None ELSE ghost.given[o]] \in [Outputs -> Maybe(Playlists)]
    BY <1>1 DEF Maybe
  <2> QED
    BY <1>1, <2>1 DEF Forgets
<1>6. Loses(Outputs) \in G
    BY <1>1 DEF Loses
<1>g. ASSUME NEW what \in SUBSET Tearings
      PROVE  Tears(what) \in G /\ [Tears(what) EXCEPT !.lost = Outputs] \in G
  <2>1. ghost.torn \cup what \in SUBSET Tearings
    BY <1>1 DEF Tearings
  <2>2. Tears(what) \in G
    BY <1>1, <2>1 DEF Tears
  <2> QED
    BY <2>2
<1>7. ASSUME NEW torn \in SUBSET Tearings, ghost' = [ghost EXCEPT !.torn = torn] PROVE ghost' \in G
    BY <1>1, <1>7
<1>8. ASSUME NEW o, NEW by \in By, ghost' = [ghost EXCEPT !.by[o] = by] PROVE ghost' \in G
    BY <1>1, <1>8
<1>9. /\ disk.db \in [Outputs -> Maybe(Playlists)]
      /\ {"memory"} \in SUBSET Tearings /\ {"config"} \in SUBSET Tearings
      /\ {"config", "restore"} \in SUBSET Tearings /\ {} \in SUBSET Tearings
    BY DEF StateTyped, Disks, Tearings
<1>10. "user" \in By /\ "weather" \in By /\ "list" \in By
    BY DEF By
<1>a. ghost.torn \in SUBSET Tearings /\ ghost.torn \ {"restore"} \in SUBSET Tearings
      /\ ghost.torn \ {"unsaved"} \in SUBSET Tearings /\ ghost.torn \cup {"unsaved"} \in SUBSET Tearings
    BY <1>1 DEF Tearings
<1>b. Mends \in G
    BY <1>1, <1>9 DEF Mends
<1>c. ASSUME NEW ok \in BOOLEAN, Saves(ok) PROVE ghost' \in G
  <2>1. \E torn \in SUBSET Tearings : ghost' = [ghost EXCEPT !.torn = torn]
    BY <1>c, <1>a DEF Saves
  <2> QED
    BY <1>7, <2>1
<1> HIDE DEF Left, G
<1>11. ASSUME NEW ok \in BOOLEAN, Follow(ok) PROVE Left /\ ghost' \in G
  <2> DEFINE given == [o \in Outputs |-> IF disk.db[o] # None THEN disk.db[o] ELSE ghost.given[o]]
  <2> DEFINE lost == {o \in Outputs : disk.db[o] = None /\ ghost.given[o] # None}
  <2>1. Left
    BY <1>3, <1>4, <1>11 DEF Follow
  <2>2. given \in [Outputs -> Maybe(Playlists)] /\ lost \in SUBSET Outputs
    BY <1>1, <1>9 DEF G
  <2>3. ghost' = [ghost EXCEPT !.given = given, !.lost = lost] \/ UNCHANGED ghost
    BY <1>11 DEF Follow
  <2> HIDE DEF given, lost
  <2>4. [ghost EXCEPT !.given = given, !.lost = lost] \in G
    BY <1>1, <2>2 DEF G
  <2> QED
    BY <1>1, <2>1, <2>3, <2>4
<1>12. ASSUME NEW ok \in BOOLEAN, FollowConfig(ok) \/ FollowCommit(ok) \/ LeaveSettings(ok)
       PROVE  Left /\ ghost' \in G
    BY <1>1, <1>4, <1>12 DEF FollowConfig, FollowCommit, LeaveSettings
<1>d. ASSUME NEW ok \in BOOLEAN, Withdraw(ok) \/ WithdrawEnds(ok) PROVE Left /\ ghost' \in G
    BY <1>1, <1>4, <1>g, <1>9, <1>d DEF Withdraw, WithdrawEnds
<1>e. ASSUME NEW ok \in BOOLEAN, FollowFinish(ok) PROVE Left /\ ghost' \in G
    BY <1>4, <1>g, <1>9, <1>b, <1>e DEF FollowFinish
<1>13. ASSUME NEW ok \in BOOLEAN, LeaveAssign(ok) PROVE Left /\ ghost' \in G
    BY <1>4, <1>5, <1>g, <1>9, <1>13 DEF LeaveAssign
<1>14. ASSUME NEW ok \in BOOLEAN, LeaveClose(ok) PROVE Left /\ ghost' \in G
  <2> DEFINE torn == IF Active(disk.config) THEN {"config"} ELSE {}
  <2>1. Left
    BY <1>4, <1>14 DEF LeaveClose
  <2>2. torn \in SUBSET Tearings
    BY <1>9
  <2>3. ghost' = Tears({"config", "restore"}) \/ ghost' = [ghost EXCEPT !.chose = FALSE, !.torn = torn]
    BY <1>14 DEF LeaveClose
  <2> HIDE DEF torn
  <2>4. [ghost EXCEPT !.chose = FALSE, !.torn = torn] \in G
    BY <1>1, <2>2 DEF G
  <2>5. Tears({"config", "restore"}) \in G
    BY <1>g, <1>9
  <2> QED
    BY <2>1, <2>3, <2>4, <2>5
<1>h. ASSUME NEW ok \in BOOLEAN, LeaveSource(ok) PROVE Left /\ ghost' \in G
  <2> DEFINE torn == IF "memory" \in ghost.torn THEN ghost.torn ELSE {}
  <2>1. Left
    BY <1>4, <1>h DEF LeaveSource
  <2>2. torn \in SUBSET Tearings
    BY <1>9, <1>a
  <2>3. UNCHANGED ghost \/ ghost' = [ghost EXCEPT !.torn = torn]
    BY <1>h DEF LeaveSource
  <2> HIDE DEF torn
  <2> QED
    BY <1>1, <1>7, <2>1, <2>2, <2>3
<1>15. ASSUME NEW ok \in BOOLEAN, RestoreEnds(ok) PROVE Left /\ ghost' \in G
  <2>1. \/ UNCHANGED ghost \/ ghost' = [ghost EXCEPT !.by[control.output] = "user"]
    BY <1>15 DEF RestoreEnds
  <2> QED
    BY <1>1, <1>2, <1>8, <1>10, <1>15, <2>1 DEF RestoreEnds
<1>16. ASSUME Leave PROVE Left /\ ghost' \in G
    BY <1>1, <1>3, <1>16 DEF Leave
<1>17. ASSUME NEW o \in Outputs, Restore(o) \/ Tick(o) PROVE Left /\ ghost' \in G
    BY <1>1, <1>2, <1>17 DEF Restore, Tick
<1>18. ASSUME Fetch \/ Ignore \/ Deactivate \/ Outdated \/ Retry PROVE Left /\ ghost' \in G
    BY <1>1, <1>2, <1>18 DEF Fetch, Ignore, Deactivate, Outdated, Retry
<1>f. ASSUME FollowReturns PROVE Left /\ ghost' \in G
    BY <1>2, <1>7, <1>a, <1>f DEF FollowReturns
<1>19. ASSUME NEW ok \in BOOLEAN, Feedback(ok) PROVE Left /\ ghost' \in G
  <2>1. Left
    <3>1. ASSUME NEW t \in Nat,
                 left["acts"] > 0, left' = [left EXCEPT !["acts"] = @ - 1, !["troubles"] = t]
          PROVE  Left
      BY <3>1 DEF GhostTyped, Left
    <3>2. left["troubles"] \in Nat
      BY DEF GhostTyped
    <3>3. CASE ok
      <4>1. left' = [left EXCEPT !["acts"] = @ - 1, !["troubles"] = left["troubles"]]
        BY <1>19, <3>3 DEF Feedback
      <4>2. left["acts"] > 0
        BY <1>19 DEF Feedback
      <4> QED
        BY <3>1, <3>2, <4>1, <4>2
    <3>4. CASE ~ok
      <4>1. left' = [left EXCEPT !["acts"] = @ - 1, !["troubles"] = left["troubles"] - 1]
        BY <1>19, <3>4 DEF Feedback
      <4>2. left["acts"] > 0 /\ left["troubles"] > 0
        BY <1>19, <3>4 DEF Feedback
      <4>3. left["troubles"] - 1 \in Nat
        BY <3>2, <4>2
      <4> QED
        BY <3>1, <4>1, <4>2, <4>3
    <3> QED
      BY <3>3, <3>4
  <2> QED
    BY <1>c, <1>19, <2>1 DEF Feedback
<1>20. ASSUME NEW o \in Outputs, Choose(o) PROVE Left /\ ghost' \in G
    BY <1>1, <1>3, <1>8, <1>10, <1>20 DEF Choose
<1>21. ASSUME NEW ok \in BOOLEAN, ChoiceStop(ok) \/ ChoiceDisable(ok) PROVE Left /\ ghost' \in G
    BY <1>1, <1>4, <1>8, <1>10, <1>21 DEF ChoiceStop, ChoiceDisable
<1>22. ASSUME NEW ok \in BOOLEAN, ChoiceUndoes(ok) \/ ChoiceRollsBack(ok) \/ ChoiceEnables(ok)
       PROVE  Left /\ ghost' \in G
    BY <1>1, <1>4, <1>6, <1>g, <1>9, <1>22 DEF ChoiceUndoes, ChoiceRollsBack, ChoiceEnables
<1>23. ASSUME ChoiceCommits PROVE Left /\ ghost' \in G
  <2> DEFINE given == IF choice.prior = None THEN ghost.given ELSE Nothing(Outputs)
  <2> DEFINE torn == ghost.torn \ {"restore"}
  <2>1. given \in [Outputs -> Maybe(Playlists)] /\ torn \in SUBSET Tearings
    BY <1>1, <1>a DEF G
  <2>2. ghost' = [ghost EXCEPT !.chose = TRUE, !.torn = torn, !.given = given]
    BY <1>23 DEF ChoiceCommits
  <2> HIDE DEF given, torn
  <2>3. ghost' \in G
    BY <1>1, <2>1, <2>2 DEF G
  <2> QED
    BY <1>2, <1>23, <2>3 DEF ChoiceCommits
<1>24. ASSUME ChoiceFails PROVE Left /\ ghost' \in G
  <2>1. choice.by \in By
    BY <1>24 DEF ChoiceFails, ChoiceTyped, Rendered
  <2> QED
    BY <1>2, <1>8, <1>24, <2>1 DEF ChoiceFails
<1>25. ASSUME NEW c \in Contexts, Accept(c) PROVE Left /\ ghost' \in G
    BY <1>1, <1>2, <1>25 DEF Accept
<1>26. ASSUME WeatherApply \/ WeatherFails PROVE Left /\ ghost' \in G
  <2>1. runner.pc = "applying" => runner.by \in By
    BY DEF RunnerTyped
  <2> QED
    BY <1>1, <1>2, <1>8, <1>10, <1>26, <2>1 DEF WeatherApply, WeatherFails
<1>27. ASSUME NEW ok \in BOOLEAN, Reconcile(ok) \/ WeatherCommits(ok) PROVE Left /\ ghost' \in G
  <2>1. UNCHANGED <<left, ghost>> \/ SaveSession(ok)
    BY <1>27 DEF Reconcile, WeatherCommits
  <2> QED
    BY <1>1, <1>2, <1>4, <1>c, <2>1 DEF SaveSession
<1>28. ASSUME Crash PROVE Left /\ ghost' \in G
  <2>1. Left
    BY <1>3, <1>28 DEF Crash
  <2> DEFINE d == Recovered(disk)
  <2> DEFINE lost == {o \in IF HasEnded THEN Outputs ELSE ghost.lost :
                         ghost.given[o] # None /\ ~Safe(d, o)}
  <2> DEFINE torn == IF (Halfway \/ ghost.torn \cap {"memory", "config"} # {})
                        /\ d.session.active # Active(d.config) THEN {"config"} ELSE {}
  <2>2. lost \in SUBSET Outputs
    BY <1>1 DEF G
  <2>3. torn \in SUBSET Tearings
    BY <1>9
  <2>4. ghost' = [ghost EXCEPT !.lost = lost, !.torn = torn]
    BY <1>28 DEF Crash
  <2> HIDE DEF lost, torn
  <2>5. ghost' \in G
    BY <1>1, <2>2, <2>3, <2>4 DEF G
  <2> QED
    BY <2>1, <2>5
<1>29. ASSUME NEW c \in Configs, Edit(c) PROVE Left /\ ghost' \in G
  <2> DEFINE given == IF disk.session.starting THEN Nothing(Outputs) ELSE ghost.given
  <2>1. given \in [Outputs -> Maybe(Playlists)]
    BY <1>1 DEF G
  <2>2. Tears({"config"}) \in G /\ Tears({"config"}).given = ghost.given
    <3>1. Tears({"config"}) = [ghost EXCEPT !.torn = ghost.torn \cup {"config"}]
      BY DEF Tears
    <3>2. Tears({"config"}) \in G
      BY <1>g, <1>9
    <3> QED
      BY <1>1, <3>1, <3>2 DEF G
  <2>3. ghost' = [Tears({"config"}) EXCEPT !.given = given]
    BY <1>29, <2>2 DEF Edit
  <2> HIDE DEF given
  <2>4. ghost' \in G
    BY <2>1, <2>2, <2>3 DEF G
  <2> QED
    BY <1>3, <1>29, <2>4 DEF Edit
<1>30. ASSUME NEW o \in Outputs, NEW ok \in BOOLEAN, PlaylistApply(o, ok) PROVE Left /\ ghost' \in G
  <2>1. Left
    BY <1>2, <1>4, <1>30 DEF PlaylistApply
  <2>2. CASE ghost' = [ghost EXCEPT !.by[o] = "list"]
    BY <1>8, <1>10, <2>1, <2>2
  <2> DEFINE torn == IF ok THEN ghost.torn \ {"unsaved"} ELSE ghost.torn \cup {"unsaved"}
  <2>3. torn \in SUBSET Tearings
    BY <1>a
  <2>4. \/ ghost' = [ghost EXCEPT !.by[o] = "list"]
        \/ ghost' = [ghost EXCEPT !.by[o] = "list", !.torn = torn]
    BY <1>30 DEF PlaylistApply
  <2> HIDE DEF torn
  <2>5. ASSUME ghost' = [ghost EXCEPT !.by[o] = "list", !.torn = torn] PROVE ghost' \in G
    <3> DEFINE by == [ghost.by EXCEPT ![o] = "list"]
    <3>1. by \in [Outputs -> By]
      BY <1>1, <1>10 DEF G
    <3>2. ghost' = [ghost EXCEPT !.by = by, !.torn = torn]
      BY <1>1, <2>5 DEF G
    <3> HIDE DEF by
    <3> QED
      BY <1>1, <2>3, <3>1, <3>2 DEF G
  <2> QED
    BY <2>1, <2>2, <2>4, <2>5
<1>31. ASSUME NEW o \in Outputs, NEW p \in Playlists \cup {None}, Assign(o, p) PROVE Left /\ ghost' \in G
    BY <1>3, <1>5, <1>31 DEF Assign
<1>32. Left /\ ghost' \in G
    BY <1>11, <1>12, <1>13, <1>14, <1>15, <1>16, <1>17, <1>18, <1>19, <1>20, <1>21, <1>22, <1>23, <1>24,
       <1>25, <1>26, <1>27, <1>28, <1>29, <1>30, <1>31, <1>d, <1>e, <1>f, <1>h, Moves
    DEF FollowMoves, ChoiceMoves, ChoiceSteps, WeatherMoves, WeatherSteps, OtherMoves
<1> QED
    BY <1>32 DEF GhostTyped, Left, G

LEMMA TypedKept == ASSUME Typed, SessionsKnown, Next PROVE Typed'
BY StateTypedKept, ControlTypedKept, ChoiceTypedKept, RunnerTypedKept, FreshTypedKept,
   GhostTypedKept, OneHolderKept DEF Typed

-----------------------------------------------------------------------------
(* Which sessions are the same, and which are followed *)

\* The steps of the weather and the playlist thread that keep the session as it is.
Passive == \/ Fetch \/ Ignore \/ Deactivate \/ Outdated \/ WeatherApply \/ WeatherFails \/ Retry
           \/ \E c \in Contexts : Accept(c)
           \/ \E o \in Outputs : Tick(o)

\* The steps that write into the session that is followed.
Tending == \/ \E ok \in BOOLEAN : Feedback(ok) \/ Reconcile(ok) \/ WeatherCommits(ok)
           \/ \E o \in Outputs, ok \in BOOLEAN : PlaylistApply(o, ok)

LEMMA PassiveLeaves ==
    ASSUME Typed, Passive
    PROVE  /\ UNCHANGED <<disk, control, choice, left>>
           /\ runtime'.session = runtime.session /\ runtime'.restore = runtime.restore
           /\ ghost'.given = ghost.given /\ ghost'.lost = ghost.lost
           /\ ghost'.torn = ghost.torn /\ ghost'.chose = ghost.chose
<1> USE DEF Typed
<1>1. runtime \in Runtimes
    BY DEF StateTyped, Running
<1>2. CASE Fetch \/ Ignore \/ Outdated \/ Retry
    BY <1>2 DEF Fetch, Ignore, Outdated, Retry
<1>3. CASE Deactivate
    BY <1>1, <1>3 DEF Deactivate, Idled, Runtimes, threads
<1>4. CASE WeatherApply
    BY <1>4 DEF WeatherApply, GhostTyped
<1>5. CASE WeatherFails
    BY <1>5 DEF WeatherFails, GhostTyped
<1>6. ASSUME NEW c \in Contexts, Accept(c)
      PROVE  /\ UNCHANGED <<disk, control, choice, left, ghost>>
             /\ runtime'.session = runtime.session /\ runtime'.restore = runtime.restore
    BY <1>1, <1>6 DEF Accept, Runtimes
<1>7. ASSUME NEW o \in Outputs, Tick(o)
      PROVE  UNCHANGED <<disk, control, choice, runtime, left, ghost>>
    BY <1>7 DEF Tick
<1> QED
    BY <1>2, <1>3, <1>4, <1>5, <1>6, <1>7 DEF Passive

\* The session was saved, or it is in memory only, or nothing was to be saved.
Kept ==
    /\ disk'.config = disk.config /\ disk'.db = disk.db
    /\ \/ disk'.session = runtime'.session
       \/ disk' = disk /\ "unsaved" \in ghost'.torn
       \/ disk' = disk /\ runtime'.session = runtime.session /\ ghost'.torn = ghost.torn
    /\ ghost'.given = ghost.given /\ ghost'.lost = ghost.lost /\ ghost'.chose = ghost.chose
    /\ \A k \in {"memory", "config", "restore"} : k \in ghost'.torn <=> k \in ghost.torn

\* Such a step writes while no follow begins or ends and no choice has stopped it.
LEMMA TendingKeeps ==
    ASSUME Typed, SessionsKnown, Tending
    PROVE  /\ UNCHANGED <<control, choice>>
           /\ control.pc \notin FollowPcs \cup LeavePcs \cup {"source"}
           /\ choice.pc \in {"idle", "render"}
           /\ runtime'.session.active = runtime.session.active
           /\ runtime'.session.assignments = runtime.session.assignments
           /\ runtime'.session.wallpapers = runtime.session.wallpapers
           /\ runtime'.restore = runtime.restore
           /\ \/ runtime'.session.owned = runtime.session.owned
              \/ \E ok \in BOOLEAN : WeatherCommits(ok)
           /\ Kept
<1> USE DEF Typed
<1>1. runtime \in Runtimes /\ runtime.session \in Sessions
    BY DEF StateTyped, Running, Sound
<1> DEFINE Same(s) == /\ s.active = runtime.session.active
                      /\ s.assignments = runtime.session.assignments
                      /\ s.wallpapers = runtime.session.wallpapers
<1> DEFINE Owning(s) == s.owned = runtime.session.owned
<1>2. ASSUME NEW ok \in BOOLEAN, Saves(ok) PROVE Kept
    BY <1>2 DEF Saves, Kept, StateTyped, Disks, GhostTyped
<1>3. ASSUME UNCHANGED <<disk, ghost>>, runtime'.session = runtime.session PROVE Kept
    BY <1>3 DEF Kept
<1>4. ASSUME NEW ok \in BOOLEAN, Feedback(ok)
      PROVE  /\ UNCHANGED <<control, choice>> /\ Kept /\ Same(runtime'.session) /\ Owning(runtime'.session)
             /\ control.pc = "idle" /\ choice.pc = "idle" /\ runtime'.restore = runtime.restore
  <2>1. ASSUME NEW o \in Outputs, runtime' \in {Pinned(o), Resumed(o)}
        PROVE  Same(runtime'.session) /\ Owning(runtime'.session) /\ runtime'.restore = runtime.restore
    <3>1. CASE runtime' = Pinned(o)
      BY <1>1, <3>1 DEF Pinned, Runtimes, Sessions
    <3>2. CASE runtime' = Resumed(o)
      <4> DEFINE t == [runtime.session EXCEPT !.held = @ \ {o}, !.contexts[o] = None]
      <4>1. runtime' = [runtime EXCEPT !.session = t]
        BY <1>1, <3>2 DEF Resumed, Runtimes, Sessions
      <4>2. Same(t) /\ Owning(t)
        BY <1>1 DEF Sessions
      <4> HIDE DEF t
      <4> QED
        BY <1>1, <4>1, <4>2 DEF Runtimes
    <3> QED
      BY <2>1, <3>1, <3>2
  <2>2. ASSUME NEW c \in Contexts, runtime' = Excluded(c)
        PROVE  Same(runtime'.session) /\ Owning(runtime'.session) /\ runtime'.restore = runtime.restore
    <3> DEFINE contexts == [o \in Outputs |-> IF screen[o] = c THEN None
                                              ELSE runtime.session.contexts[o]]
    <3> DEFINE plans == [o \in Outputs |-> IF runtime.plans[o] = c THEN None ELSE runtime.plans[o]]
    <3> DEFINE s == [runtime.session EXCEPT !.excluded = @ \cup {c}, !.contexts = contexts]
    <3>1. runtime' = [runtime EXCEPT !.session = s, !.plans = plans]
      BY <1>1, <2>2 DEF Excluded, Runtimes, Sessions
    <3> HIDE DEF contexts, plans
    <3>2. Same(s) /\ Owning(s)
      BY <1>1 DEF Sessions
    <3> HIDE DEF s
    <3> QED
      BY <1>1, <3>1, <3>2 DEF Runtimes
  <2>3. Kept
    BY <1>2, <1>4 DEF Feedback
  <2> QED
    BY <1>4, <2>1, <2>2, <2>3 DEF Feedback, Locked
<1>5. ASSUME NEW ok \in BOOLEAN, Reconcile(ok)
      PROVE  /\ UNCHANGED <<control, choice>> /\ Kept /\ Same(runtime'.session) /\ Owning(runtime'.session)
             /\ control.pc \notin FollowPcs \cup LeavePcs \cup {"source"}
             /\ choice.pc \in {"idle", "render"} /\ runtime'.restore = runtime.restore
  <2> DEFINE contexts == [o \in Outputs |-> IF Shows(o) THEN refresh.context
                                            ELSE runtime.session.contexts[o]]
  <2> DEFINE plans == [o \in Outputs |-> Planned(o)]
  <2> DEFINE due == {o \in Outputs : Due(o)}
  <2> DEFINE s == [runtime.session EXCEPT !.contexts = contexts]
  <2>1. runtime' = [runtime EXCEPT !.plans = plans, !.due = due, !.session = s]
    BY <1>1, <1>5 DEF Reconcile, Runtimes
  <2>2. contexts # runtime.session.contexts \/ s = runtime.session
    BY <1>1 DEF Sessions
  <2>3. IF contexts # runtime.session.contexts THEN SaveSession(ok) ELSE UNCHANGED <<disk, ghost>>
    BY <1>5 DEF Reconcile
  <2>4. choice.pc \in {"idle", "render"}
    BY <1>5 DEF Reconcile, Held, ChoiceTyped, Rendered
  <2> HIDE DEF contexts, plans, due
  <2>5. Same(s) /\ Owning(s)
    BY <1>1 DEF Sessions
  <2> HIDE DEF s
  <2>6. runtime'.session = s /\ runtime'.restore = runtime.restore
    BY <1>1, <2>1 DEF Runtimes
  <2>7. Kept
    BY <1>2, <1>3, <2>2, <2>3, <2>6 DEF SaveSession
  <2> QED
    BY <1>5, <2>4, <2>5, <2>6, <2>7 DEF Reconcile, OneHolder
<1>6. ASSUME NEW ok \in BOOLEAN, WeatherCommits(ok)
      PROVE  /\ UNCHANGED <<control, choice>> /\ Kept /\ Same(runtime'.session)
             /\ control.pc \notin FollowPcs \cup LeavePcs \cup {"source"}
             /\ choice.pc = "idle" /\ runtime'.restore = runtime.restore
  <2> DEFINE o == runner.output
  <2> DEFINE context == IF runtime.context = None THEN runtime.session.contexts[o] ELSE runtime.context
  <2> DEFINE s == [runtime.session EXCEPT !.owned[o] = runner.key, !.contexts[o] = context]
  <2>1. \/ runtime' = [runtime EXCEPT !.session = s, !.due = @ \ {o}] /\ SaveSession(ok)
        \/ UNCHANGED <<runtime, disk, ghost>>
    BY <1>6 DEF WeatherCommits
  <2> HIDE DEF context
  <2>2. Same(s)
    BY <1>1 DEF Sessions
  <2> HIDE DEF s
  <2>3. CASE runtime' = [runtime EXCEPT !.session = s, !.due = @ \ {o}] /\ SaveSession(ok)
    <3>1. runtime'.session = s /\ runtime'.restore = runtime.restore
      BY <1>1, <2>3 DEF Runtimes
    <3> QED
      BY <1>2, <1>6, <2>2, <2>3, <3>1 DEF WeatherCommits, OneHolder, SaveSession
  <2>4. CASE UNCHANGED <<runtime, disk, ghost>>
    BY <1>3, <1>6, <2>4 DEF WeatherCommits, OneHolder
  <2> QED
    BY <2>1, <2>3, <2>4
<1>7. ASSUME NEW o \in Outputs, NEW ok \in BOOLEAN, PlaylistApply(o, ok)
      PROVE  /\ UNCHANGED <<control, choice>> /\ Same(runtime'.session) /\ Owning(runtime'.session)
             /\ control.pc \notin FollowPcs \cup LeavePcs \cup {"source"} /\ choice.pc = "idle"
             /\ runtime'.restore = runtime.restore /\ Kept
  <2>1. runtime' = runtime \/ runtime' = [runtime EXCEPT !.session.held = @ \cup {o}]
    BY <1>7 DEF PlaylistApply
  <2>2. Same(runtime'.session) /\ Owning(runtime'.session) /\ runtime'.restore = runtime.restore
    BY <1>1, <2>1 DEF Runtimes, Sessions
  <2> DEFINE torn == IF ok THEN ghost.torn \ {"unsaved"} ELSE ghost.torn \cup {"unsaved"}
  <2>3. \/ /\ disk' = IF ok THEN [disk EXCEPT !.session = runtime'.session] ELSE disk
           /\ ghost' = [ghost EXCEPT !.by[o] = "list", !.torn = torn]
        \/ disk' = disk /\ ghost' = [ghost EXCEPT !.by[o] = "list"] /\ runtime' = runtime
    BY <1>7 DEF PlaylistApply
  <2>4. /\ "unsaved" \in torn \/ ok
        /\ \A k \in {"memory", "config", "restore"} : k \in torn <=> k \in ghost.torn
    OBVIOUS
  <2> HIDE DEF torn
  <2>5. ghost' = [ghost EXCEPT !.by[o] = "list"] \/ ghost' = [ghost EXCEPT !.by[o] = "list", !.torn = torn]
    BY <2>3
  <2>a. /\ ghost'.given = ghost.given /\ ghost'.lost = ghost.lost /\ ghost'.chose = ghost.chose
        /\ ghost' = [ghost EXCEPT !.by[o] = "list"] => ghost'.torn = ghost.torn
        /\ ghost' = [ghost EXCEPT !.by[o] = "list", !.torn = torn] => ghost'.torn = torn
    BY <2>5 DEF GhostTyped
  <2>b. /\ disk'.config = disk.config /\ disk'.db = disk.db
        /\ disk'.session = runtime'.session \/ disk' = disk
        /\ disk' = [disk EXCEPT !.session = runtime'.session] => disk'.session = runtime'.session
    BY <2>3 DEF StateTyped, Disks
  <2>6. Kept
    BY <2>3, <2>4, <2>a, <2>b DEF Kept
  <2> QED
    BY <1>7, <2>2, <2>6 DEF PlaylistApply, Locked, threads, FollowPcs, LeavePcs
<1> QED
    BY <1>4, <1>5, <1>6, <1>7 DEF Tending, FollowPcs, LeavePcs

\* What the weather and the others do, in these classes.
LEMMA Classes ==
    ASSUME WeatherMoves \/ OtherMoves
    PROVE  \/ Passive \/ Tending \/ \E c \in Configs : Edit(c)
           \/ \E o \in Outputs, p \in Playlists \cup {None} : Assign(o, p)
<1>1. CASE WeatherMoves
    BY <1>1 DEF WeatherMoves, WeatherSteps, Passive, Tending
<1>2. CASE OtherMoves
    BY <1>2 DEF OtherMoves, Tending
<1> QED
    BY <1>1, <1>2

LEMMA SessionsKnownKept == ASSUME Typed, SessionsKnown, Next PROVE SessionsKnown'
<1> USE DEF Typed, FollowPcs, LeavePcs
<1>1. runtime \in Runtimes /\ runtime.session \in Sound /\ ~runtime.session.starting
    BY DEF StateTyped, Running
<1>2. disk \in Disks /\ disk.session \in Sound
    BY DEF StateTyped, Disks
\* Neither session changes, and no thread either.
<1>3. ASSUME UNCHANGED <<control, choice>>, disk'.session = disk.session,
             runtime'.session = runtime.session
      PROVE  SessionsKnown'
    BY <1>3 DEF SessionsKnown, Pending
\* The thread in follow ends while no choice is under way.
<1>4. ASSUME control'.pc \in {"idle", "cancel"}, choice'.pc = "idle",
             disk'.session.starting => disk'.session.active
      PROVE  SessionsKnown'
    BY <1>4 DEF SessionsKnown, Pending
<1>5. control.pc \in FollowPcs \cup LeavePcs \cup {"source"} => choice.pc = "idle"
    BY DEF OneHolder
<1>6. ASSUME NEW ok \in BOOLEAN, Follow(ok) PROVE SessionsKnown'
  <2>1. runtime'.session = runtime.session /\ choice' = choice
    BY <1>6, Idling DEF Follow, StateTyped
  <2>2. CASE ok
    <3>1. /\ disk'.session = Captured /\ control' = [pc |-> "config", session |-> Captured]
          /\ choice'.pc = "idle"
      BY <1>2, <1>6, <2>2 DEF Follow, Locked, Disks
    <3>2. Captured.active /\ Captured.starting /\ Captured.owned = Nothing(Outputs)
      BY DEF Captured, NoSession
    <3> HIDE DEF Captured
    <3> QED
      BY <3>1, <3>2 DEF SessionsKnown, Pending
  <2>3. CASE ~ok
    BY <1>3, <1>6, <2>1, <2>3 DEF Follow
  <2> QED
    BY <2>2, <2>3
<1>7. ASSUME NEW ok \in BOOLEAN, FollowConfig(ok) \/ FollowCommit(ok) \/ Withdraw(ok) \/ WithdrawEnds(ok)
      PROVE  SessionsKnown'
  <2>1. runtime' = runtime /\ choice' = choice /\ choice.pc = "idle" /\ control.pc \in FollowPcs
    BY <1>5, <1>7 DEF FollowConfig, FollowCommit, Withdraw, WithdrawEnds
  <2>2. control.session \in Sound /\ control \in [pc : FollowPcs \cup LeavePcs \cup {"source"}, session : Sound]
    BY <2>1 DEF ControlTyped, Restoring
  <2>3. ASSUME disk'.session = disk.session, control'.pc \in FollowPcs, control'.session = control.session
        PROVE  SessionsKnown'
    BY <2>1, <2>3 DEF SessionsKnown, Pending
  <2>4. ASSUME disk'.session \in {disk.session, Stopped(control.session)}, control' = Quiet
        PROVE  SessionsKnown'
    <3>1. disk'.session.starting => disk'.session.active
      BY <2>2, <2>4, Stopping DEF SessionsKnown
    <3> QED
      BY <1>4, <2>1, <2>4, <3>1 DEF Quiet
  <2>5. CASE FollowConfig(ok) \/ FollowCommit(ok)
    BY <1>2, <2>2, <2>3, <2>5 DEF FollowConfig, FollowCommit, Disks
  <2>6. CASE Withdraw(ok)
    BY <1>2, <2>2, <2>3, <2>4, <2>6 DEF Withdraw, Disks
  <2>7. CASE WithdrawEnds(ok)
    BY <1>2, <2>2, <2>4, <2>7 DEF WithdrawEnds, Disks
  <2> QED
    BY <1>7, <2>5, <2>6, <2>7
<1>8. ASSUME NEW d \in Disks, NEW s \in Sound, ~s.starting, Install(d, s)
      PROVE  disk'.session = Recovered(d).session /\ runtime'.session = s
  <2>1. d.config \in Configs /\ runtime.restore \in Maybe(Configs)
    BY <1>1 DEF Disks, Runtimes
  <2> QED
    BY <1>8, <2>1, Loading DEF Install
<1>9. ASSUME NEW ok \in BOOLEAN, FollowFinish(ok) PROVE SessionsKnown'
  <2> DEFINE started == [control.session EXCEPT !.starting = FALSE]
  <2> DEFINE d == [disk EXCEPT !.session = started]
  <2>1. choice' = choice /\ choice.pc = "idle"
    BY <1>5, <1>9 DEF FollowFinish
  <2>2. started \in Sound /\ ~started.starting
    BY <1>9, Ending DEF FollowFinish, ControlTyped, Restoring
  <2>3. d \in Disks /\ d.session = started
    BY <1>2, <2>2 DEF Disks
  <2>4. CASE ok
    <3>1. control' = [pc |-> "cancel"] /\ Install(d, started)
      BY <1>9, <2>4 DEF FollowFinish
    <3> HIDE DEF d, started
    <3>2. Recovered(d) = d
      BY <2>2, <2>3, Recovering
    <3>3. disk'.session = started /\ runtime'.session = started
      BY <1>8, <2>2, <2>3, <3>1, <3>2
    <3> QED
      BY <1>4, <2>1, <2>2, <3>1, <3>3
  <2>5. CASE ~ok
    <3>1. control' = Quiet /\ UNCHANGED <<disk, runtime>>
      BY <1>9, <2>5 DEF FollowFinish
    <3> QED
      BY <1>4, <2>1, <3>1 DEF Quiet, SessionsKnown
  <2> QED
    BY <2>4, <2>5
<1>10. ASSUME Leave PROVE SessionsKnown'
  <2>1. /\ runtime'.session = runtime.session /\ disk' = disk /\ choice' = choice
        /\ choice.pc = "idle" /\ control'.session = runtime.session
        /\ control'.pc = IF runtime.session.active THEN "settings" ELSE "source"
    BY <1>10, Idling DEF Leave, StateTyped, Locked
  <2> QED
    BY <2>1 DEF SessionsKnown, Pending
<1>11. ASSUME NEW ok \in BOOLEAN, LeaveSettings(ok) \/ LeaveAssign(ok) PROVE SessionsKnown'
  <2>1. /\ runtime' = runtime /\ choice' = choice /\ control.pc \in LeavePcs
        /\ disk'.session = disk.session
    BY <1>2, <1>11 DEF LeaveSettings, LeaveAssign, Disks
  <2>2. choice.pc = "idle" /\ control \in [pc : FollowPcs \cup LeavePcs \cup {"source"}, session : Sound]
    BY <1>5, <2>1 DEF ControlTyped, Restoring
  <2>3. \/ control' = Quiet
        \/ control'.pc \in LeavePcs /\ control'.session = control.session
    BY <1>11, <2>2 DEF LeaveSettings, LeaveAssign
  <2> QED
    BY <2>1, <2>2, <2>3 DEF SessionsKnown, Pending, Quiet
<1>12. ASSUME NEW ok \in BOOLEAN, LeaveClose(ok) PROVE SessionsKnown'
  <2> DEFINE ended == [control.session EXCEPT !.active = FALSE]
  <2> DEFINE d == [disk EXCEPT !.session = ended]
  <2>1. choice' = choice /\ choice.pc = "idle" /\ control.session = runtime.session
    BY <1>5, <1>12 DEF LeaveClose, SessionsKnown
  <2>2. ended \in Sound /\ ~ended.starting /\ ~ended.active
    BY <1>1, <2>1, Ending
  <2>3. d \in Disks /\ d.session = ended /\ disk.config \in Configs /\ disk.config \in Maybe(Configs)
    BY <1>2, <2>2 DEF Disks, Maybe
  <2>4. CASE ok
    <3>1. /\ disk' = Recovered(d) /\ control' = [pc |-> "restore", session |-> ended, todo |-> Outputs]
          /\ runtime' = [Loaded(ended, disk.config) EXCEPT !.restore = disk.config]
      BY <1>12, <2>4 DEF LeaveClose
    <3> HIDE DEF d, ended
    <3>2. Recovered(d) = d
      BY <2>2, <2>3, Recovering
    <3>3. disk'.session = ended /\ runtime'.session = ended
      BY <2>2, <2>3, <3>1, <3>2, Loading
    <3> QED
      BY <2>1, <2>2, <3>1, <3>3 DEF SessionsKnown, Pending
  <2>5. CASE ~ok
    <3>1. /\ control' = Quiet /\ UNCHANGED disk
          /\ runtime' = [runtime EXCEPT !.restore = disk.config]
      BY <1>12, <2>5 DEF LeaveClose
    <3>2. runtime'.session = runtime.session
      BY <1>1, <3>1 DEF Runtimes
    <3> QED
      BY <1>4, <2>1, <3>1, <3>2 DEF Quiet, SessionsKnown
  <2> QED
    BY <2>4, <2>5
<1>13. ASSUME NEW ok \in BOOLEAN, LeaveSource(ok) PROVE SessionsKnown'
  <2> DEFINE d == [disk EXCEPT !.config = "off"]
  <2>1. /\ choice' = choice /\ choice.pc = "idle" /\ control.session = runtime.session
        /\ ~runtime.session.active
    BY <1>5, <1>13 DEF LeaveSource, SessionsKnown
  <2>2. d \in Disks /\ d.session = disk.session /\ ~Active(d.config)
    BY <1>2 DEF Disks, Configs, Active
  <2>3. CASE ok
    <3>1. control' = [pc |-> "cancel"] /\ Install(d, runtime.session)
      BY <1>13, <2>1, <2>3 DEF LeaveSource
    <3> HIDE DEF d
    <3>2. ~Recovered(d).session.starting
      BY <2>2, Recovering
    <3>3. disk'.session = Recovered(d).session /\ runtime'.session = runtime.session
      BY <1>1, <1>8, <2>2, <3>1
    <3> QED
      BY <1>4, <2>1, <3>1, <3>2, <3>3
  <2>4. CASE ~ok
    <3>1. control' = Quiet /\ UNCHANGED <<disk, runtime>>
      BY <1>13, <2>4 DEF LeaveSource
    <3> QED
      BY <1>4, <2>1, <3>1 DEF Quiet, SessionsKnown
  <2> QED
    BY <2>3, <2>4
<1>14. ASSUME UNCHANGED choice, disk'.session = disk.session, runtime'.session = runtime.session,
              control.pc \in {"restore", "restoring"}, control'.pc \in {"restore", "restoring"}
       PROVE  SessionsKnown'
    BY <1>14 DEF SessionsKnown, Pending
<1>15. ASSUME NEW o \in Outputs, Restore(o) PROVE SessionsKnown'
    BY <1>14, <1>15 DEF Restore
<1>16. ASSUME NEW ok \in BOOLEAN, RestoreEnds(ok) PROVE SessionsKnown'
  <2>1. control'.pc = "restore"
    BY <1>16 DEF RestoreEnds, ControlTyped, Restoring
  <2> QED
    BY <1>14, <1>16, <2>1 DEF RestoreEnds
<1>17. ASSUME CancelRestore PROVE runtime'.session = runtime.session
    BY <1>1, <1>17 DEF CancelRestore, Runtimes
<1>18. CASE FollowReturns
    BY <1>17, <1>18 DEF FollowReturns, SessionsKnown, Pending, Quiet
<1>19. choice.pc # "idle" => control.pc \notin FollowPcs \cup LeavePcs \cup {"source"}
    BY <1>5
<1>20. ASSUME NEW o \in Outputs, Choose(o) PROVE SessionsKnown'
  <2>1. /\ UNCHANGED <<disk, runtime, control>> /\ choice.pc = "idle"
        /\ choice'.pc = "stop" \/ (choice'.pc = "render" /\ choice'.prior = None)
    BY <1>20 DEF Choose, Chosen
  <2> QED
    BY <2>1 DEF SessionsKnown, Pending
<1>21. ASSUME NEW ok \in BOOLEAN, ChoiceStop(ok) PROVE SessionsKnown'
  <2>1. /\ UNCHANGED <<runtime, control>> /\ choice.pc = "stop"
        /\ \/ choice'.pc = "disable" /\ disk'.session = Stopped(runtime.session)
           \/ choice' = Quiet /\ disk' = disk
    BY <1>2, <1>21, ChoiceLeaves DEF ChoiceStop, ChoiceTyped, Rendered, Disks
  <2>2. ~Stopped(runtime.session).active /\ ~Stopped(runtime.session).starting
    BY <1>1, Stopping
  <2> QED
    BY <1>19, <2>1, <2>2 DEF SessionsKnown, Pending, Quiet
<1>22. ASSUME NEW ok \in BOOLEAN, ChoiceDisable(ok) PROVE SessionsKnown'
  <2> DEFINE d == [disk EXCEPT !.config = IF Active(@) THEN "disabled" ELSE @]
  <2>1. UNCHANGED control /\ choice.pc = "disable" /\ disk.session = Stopped(runtime.session)
    BY <1>22 DEF ChoiceDisable, SessionsKnown
  <2>2. ~disk.session.active /\ ~disk.session.starting
    BY <1>1, <2>1, Stopping
  <2>3. d \in Disks /\ d.session = disk.session /\ d.config \in Configs
    BY <1>2 DEF Disks, Configs
  <2>4. CASE ok
    <3>1. disk' = d /\ runtime' = Load(d) /\ choice'.pc = "render" /\ choice'.prior = runtime
      BY <1>22, <2>4 DEF ChoiceDisable, Chosen
    <3> HIDE DEF d
    <3>2. Recovered(d) = d
      BY <2>2, <2>3, Recovering
    <3>3. runtime'.session = disk.session
      BY <1>2, <2>2, <2>3, <3>1, <3>2, Loading DEF Load
    <3> QED
      BY <1>19, <2>1, <2>2, <2>3, <3>1, <3>3 DEF SessionsKnown, Pending
  <2>5. CASE ~ok
    <3>1. UNCHANGED <<disk, runtime>> /\ choice'.pc = "undo"
      BY <1>22, <2>5 DEF ChoiceDisable
    <3> QED
      BY <1>19, <2>1, <3>1 DEF SessionsKnown, Pending
  <2> QED
    BY <2>4, <2>5
<1>23. CASE ChoiceCommits
  <2>1. /\ UNCHANGED <<control, disk>> /\ choice.pc = "render" /\ choice' = Quiet
        /\ runtime'.session = runtime.session
    BY <1>17, <1>23 DEF ChoiceCommits
  <2> QED
    BY <1>19, <2>1 DEF SessionsKnown, Pending, Quiet
<1>24. CASE ChoiceFails
  <2>1. /\ UNCHANGED <<control, disk, runtime>> /\ choice.pc = "render"
        /\ choice' = IF choice.prior = None THEN Quiet ELSE [pc |-> "rollback", prior |-> choice.prior]
    BY <1>24 DEF ChoiceFails
  <2> QED
    BY <1>19, <2>1 DEF SessionsKnown, Pending, Quiet
<1>25. ASSUME NEW ok \in BOOLEAN, ChoiceRollsBack(ok) PROVE SessionsKnown'
  <2>1. /\ UNCHANGED <<control, runtime>> /\ choice.pc = "rollback"
        /\ choice \in [pc : {"rollback", "enable"}, prior : Running]
    BY <1>25 DEF ChoiceRollsBack, ChoiceTyped, Rendered
  <2>2. \/ disk'.session = choice.prior.session /\ choice'.pc = "enable" /\ choice'.prior = choice.prior
        \/ disk' = disk /\ choice' = Quiet
    BY <1>2, <1>25, <2>1 DEF ChoiceRollsBack, Disks
  <2>3. ~choice.prior.session.starting
    BY <2>1 DEF Running
  <2> QED
    BY <1>19, <2>1, <2>2, <2>3 DEF SessionsKnown, Pending, Quiet
<1>26. ASSUME NEW ok \in BOOLEAN, ChoiceEnables(ok) PROVE SessionsKnown'
  <2>1. UNCHANGED control /\ choice.pc = "enable" /\ choice'.pc \in {"idle", "undo"}
    BY <1>26 DEF ChoiceEnables, Quiet
  <2>2. disk'.session = disk.session /\ runtime' \in {runtime, choice.prior}
    BY <1>2, <1>26 DEF ChoiceEnables, Disks
  <2>3. runtime' = choice.prior => disk'.session = runtime'.session
    BY <2>1, <2>2 DEF SessionsKnown
  <2>4. Pending
    BY <2>1 DEF Pending
  <2> QED
    BY <1>1, <1>19, <2>1, <2>2, <2>3, <2>4 DEF SessionsKnown, Pending
<1>a. ASSUME NEW ok \in BOOLEAN, ChoiceUndoes(ok) PROVE SessionsKnown'
  <2>1. UNCHANGED <<control, runtime>> /\ choice.pc = "undo" /\ choice' = Quiet
    BY <1>a DEF ChoiceUndoes
  <2>2. disk'.session \in {disk.session, runtime.session}
    BY <1>2, <1>a DEF ChoiceUndoes, Disks
  <2> QED
    BY <1>1, <1>19, <2>1, <2>2 DEF SessionsKnown, Pending, Quiet
<1>27. CASE Passive
    BY <1>3, <1>27, PassiveLeaves
<1>28. CASE Tending
  <2>1. runtime'.session \in Sessions /\ ~runtime'.session.starting
    BY StateTypedKept DEF StateTyped, Running, Sound
  <2>2. /\ UNCHANGED <<control, choice>>
        /\ control.pc \notin FollowPcs \cup LeavePcs \cup {"source"}
        /\ choice.pc \in {"idle", "render"}
        /\ runtime'.session.active = runtime.session.active
        /\ disk'.session = runtime'.session \/ disk' = disk
    BY <1>28, TendingKeeps DEF Kept
  <2> QED
    BY <2>1, <2>2 DEF SessionsKnown, Pending
<1>29. CASE Crash
  <2>1. Recovered(disk).session \in Sound /\ ~Recovered(disk).session.starting
    BY <1>2, Recovering DEF Disks
  <2>2. disk.config \in Configs
    BY <1>2 DEF Disks
  <2>3. Loaded(Recovered(disk).session, disk.config).session = Recovered(disk).session
    BY <2>1, <2>2, Loading
  <2>4. disk'.session = Recovered(disk).session /\ runtime'.session = Recovered(disk).session
    BY <1>29, <2>3 DEF Crash, Load
  <2> QED
    BY <1>4, <1>29, <2>1, <2>4 DEF Crash, Quiet
<1>30. ASSUME NEW c \in Configs, Edit(c) PROVE SessionsKnown'
    BY <1>2, <1>3, <1>30 DEF Edit, threads, Disks
<1>31. ASSUME NEW o \in Outputs, NEW p \in Playlists \cup {None}, Assign(o, p) PROVE SessionsKnown'
    BY <1>2, <1>3, <1>31 DEF Assign, threads, Disks
<1> QED
    BY <1>6, <1>7, <1>9, <1>10, <1>11, <1>12, <1>13, <1>15, <1>16, <1>18, <1>20, <1>21, <1>22, <1>23,
       <1>24, <1>25, <1>26, <1>27, <1>28, <1>29, <1>30, <1>31, <1>a, Moves, Classes
    DEF FollowMoves, ChoiceMoves, ChoiceSteps

-----------------------------------------------------------------------------
(* The playlists of the user *)

LEMMA OwedKeptKept == ASSUME Typed, SessionsKnown, OwedKept, Next PROVE OwedKept'
<1> SUFFICES ASSUME NEW o \in Outputs, ghost'.given[o] # None, o \notin ghost'.lost PROVE Owed(o)'
    BY DEF OwedKept
<1> USE DEF Typed, FollowPcs, LeavePcs
<1> DEFINE Held0 == ghost'.given[o] = ghost.given[o] /\ o \notin ghost.lost
<1>1. runtime \in Runtimes /\ runtime.session \in Sound /\ ~runtime.session.starting
    BY DEF StateTyped, Running
<1>2. disk \in Disks /\ disk.session \in Sound
    BY DEF StateTyped, Disks
<1>3. Held0 => Owed(o)
    BY DEF OwedKept
<1>4. Nothing(Outputs)[o] = None
    BY NothingTyped
<1>5. ASSUME NEW what PROVE Tears(what).given = ghost.given /\ Tears(what).lost = ghost.lost
    BY DEF Tears, GhostTyped
<1>6. ASSUME NEW O
      PROVE  /\ Forgets(O).lost = ghost.lost
             /\ Forgets(O).given[o] = IF o \in O THEN None ELSE ghost.given[o]
    BY DEF Forgets, GhostTyped
<1>7. ghost' # Loses(Outputs) /\ ghost' # [Tears({"memory"}) EXCEPT !.lost = Outputs]
    BY <1>5 DEF Loses, Tears, GhostTyped
<1>8. control.pc \in FollowPcs \cup LeavePcs \cup {"source"} =>
         /\ choice.pc = "idle"
         /\ control \in [pc : FollowPcs \cup LeavePcs \cup {"source"}, session : Sound]
    BY DEF OneHolder, ControlTyped, Restoring
<1>9. ASSUME NEW ok \in BOOLEAN, Follow(ok) PROVE Owed(o)'
  <2>1. runtime'.session = runtime.session /\ choice' = choice /\ choice.pc = "idle"
    BY <1>9, Idling DEF Follow, StateTyped, Locked
  <2>2. CASE ok
    <3>1. disk'.session = Captured /\ disk'.db = disk.db
      BY <1>2, <1>9, <2>2 DEF Follow, Disks
    <3>2. control' = [pc |-> "config", session |-> Captured]
      BY <1>9, <2>2 DEF Follow
    <3>3. Captured.assignments = disk.db
      BY DEF Captured, NoSession
    <3>4. ghost'.given[o] = disk.db[o]
      <4> DEFINE given == [x \in Outputs |-> IF disk.db[x] # None THEN disk.db[x] ELSE ghost.given[x]]
      <4> DEFINE lost == {x \in Outputs : disk.db[x] = None /\ ghost.given[x] # None}
      <4>1. ghost' = [ghost EXCEPT !.given = given, !.lost = lost]
        BY <1>9, <2>2 DEF Follow
      <4> HIDE DEF given, lost
      <4>2. ghost'.given = given /\ ghost'.lost = lost
        BY <4>1 DEF GhostTyped
      <4> QED
        BY <4>2 DEF given, lost
    <3> HIDE DEF Captured
    <3> QED
      BY <2>1, <3>1, <3>2, <3>3, <3>4 DEF Owed, Assigned, Pending, HasEnded
  <2>3. CASE ~ok
    <3>1. UNCHANGED <<control, disk, ghost>>
      BY <1>9, <2>3 DEF Follow
    <3> QED
      BY <1>3, <2>1, <3>1 DEF Owed, Assigned, Pending, HasEnded, Holds
  <2> QED
    BY <2>2, <2>3
<1>10. ASSUME NEW ok \in BOOLEAN, FollowConfig(ok) \/ FollowCommit(ok) PROVE Owed(o)'
  <2>1. /\ runtime' = runtime /\ choice' = choice /\ choice.pc = "idle" /\ ghost' = ghost
        /\ control.pc \in {"config", "commit"}
    BY <1>8, <1>10 DEF FollowConfig, FollowCommit
  <2>2. /\ disk.session = control.session /\ control.session.active
        /\ control \in [pc : FollowPcs \cup LeavePcs \cup {"source"}, session : Sound]
    BY <1>8, <2>1 DEF SessionsKnown
  <2>3. Owed(o)
    BY <1>3, <2>1
  <2>4. CASE ok /\ FollowConfig(ok)
    <3>1. /\ disk'.db = disk.db /\ disk'.session = disk.session /\ disk'.config = "on"
          /\ control'.pc = "commit" /\ control'.session = control.session
      BY <1>2, <2>2, <2>4 DEF FollowConfig, Disks
    <3> QED
      BY <2>1, <2>3, <3>1 DEF Owed, Assigned, Pending, HasEnded, Holds, Active
  <2>5. CASE ok /\ FollowCommit(ok)
    <3>1. /\ disk'.db[o] = None /\ disk'.session = disk.session /\ disk'.config = disk.config
          /\ control'.pc = "finish" /\ control'.session = control.session /\ control.pc = "commit"
      BY <1>2, <1>4, <2>2, <2>5 DEF FollowCommit, Disks
    <3> QED
      BY <2>1, <2>2, <2>3, <3>1 DEF Owed, Assigned, Pending, HasEnded, Holds
  <2>6. CASE ~ok
    <3>1. UNCHANGED disk /\ control'.pc = "withdraw" /\ control'.session = control.session
      BY <1>10, <2>2, <2>6 DEF FollowConfig, FollowCommit
    <3> QED
      BY <2>1, <2>3, <3>1 DEF Owed, Assigned, Pending, HasEnded
  <2> QED
    BY <1>10, <2>4, <2>5, <2>6
\* The rows are still there when a follow is withdrawn.
<1>a. ASSUME NEW ok \in BOOLEAN, Withdraw(ok) \/ WithdrawEnds(ok) PROVE Owed(o)'
  <2>1. /\ choice' = choice /\ choice.pc = "idle" /\ disk'.db = disk.db
        /\ control.pc \in {"withdraw", "inactive"}
        /\ control \in [pc : FollowPcs \cup LeavePcs \cup {"source"}, session : Sound]
    BY <1>2, <1>8, <1>a DEF Withdraw, WithdrawEnds, Disks
  <2>2. \/ control'.pc = "idle"
        \/ control'.pc = "inactive" /\ control'.session = control.session
    BY <1>a, <2>1 DEF Withdraw, WithdrawEnds, Quiet
  <2>3. Held0
    BY <1>5, <1>a DEF Withdraw, WithdrawEnds
  <2>4. Owed(o)
    BY <1>3, <2>3
  <2> QED
    BY <2>1, <2>2, <2>3, <2>4 DEF Owed, Assigned, Pending, HasEnded
<1>11. ASSUME NEW d \in Disks, NEW s \in Sound, ~s.starting, Install(d, s)
       PROVE  disk' = Recovered(d) /\ runtime'.session = s
  <2>1. d.config \in Configs /\ runtime.restore \in Maybe(Configs)
    BY <1>1 DEF Disks, Runtimes
  <2> QED
    BY <1>11, <2>1, Loading DEF Install
<1>12. ASSUME NEW ok \in BOOLEAN, FollowFinish(ok) PROVE Owed(o)'
  <2> DEFINE started == [control.session EXCEPT !.starting = FALSE]
  <2> DEFINE d == [disk EXCEPT !.session = started]
  <2>1. /\ choice' = choice /\ choice.pc = "idle" /\ control.pc = "finish"
        /\ control.session \in Sound /\ control.session.active
    BY <1>8, <1>12 DEF FollowFinish, SessionsKnown
  <2>2. /\ started \in Sound /\ ~started.starting /\ started.active
        /\ started.assignments = control.session.assignments
    BY <2>1, Ending
  <2>3. d \in Disks /\ d.session = started /\ d.db = disk.db
    BY <1>2, <2>2 DEF Disks
  <2>4. CASE ok
    <3>1. control' = [pc |-> "cancel"] /\ Install(d, started) /\ Held0
      BY <1>12, <2>4 DEF FollowFinish, Mends, GhostTyped
    <3> HIDE DEF d, started
    <3>2. Recovered(d) = d
      BY <2>2, <2>3, Recovering
    <3>3. disk' = d /\ runtime'.session = started
      BY <1>11, <2>2, <2>3, <3>1, <3>2
    <3>4. Owed(o)
      BY <1>3, <3>1
    <3> QED
      BY <2>1, <2>2, <2>3, <3>1, <3>3, <3>4 DEF Owed, Assigned, Pending, HasEnded, Holds
  <2>5. CASE ~ok
    BY <1>7, <1>12, <2>5 DEF FollowFinish
  <2> QED
    BY <2>4, <2>5
<1>13. CASE Leave
  <2>1. /\ runtime'.session = runtime.session /\ UNCHANGED <<disk, choice, ghost>>
        /\ choice.pc = "idle" /\ control.pc = "idle" /\ control'.pc \in {"settings", "source"}
    BY <1>13, Idling DEF Leave, StateTyped, Locked
  <2>2. Owed(o)
    BY <1>3, <2>1
  <2> QED
    BY <2>1, <2>2 DEF Owed, Assigned, Pending, HasEnded, Holds
<1>14. ASSUME NEW ok \in BOOLEAN, LeaveSettings(ok) PROVE Owed(o)'
  <2>1. /\ UNCHANGED <<runtime, choice>> /\ choice.pc = "idle" /\ control.pc = "settings"
        /\ disk'.db = disk.db /\ disk'.session = disk.session /\ UNCHANGED ghost
    BY <1>2, <1>8, <1>14 DEF LeaveSettings, Disks
  <2>2. control'.pc \in {"idle", "assign"}
    BY <1>8, <1>14 DEF LeaveSettings, Quiet
  <2>3. Owed(o)
    BY <1>3, <2>1
  <2> QED
    BY <2>1, <2>2, <2>3 DEF Owed, Assigned, Pending, HasEnded, Holds
<1>15. ASSUME NEW ok \in BOOLEAN, LeaveAssign(ok) PROVE Owed(o)'
  <2>1. /\ UNCHANGED <<runtime, choice>> /\ choice.pc = "idle" /\ control.pc = "assign"
        /\ control.session = runtime.session
    BY <1>8, <1>15 DEF LeaveAssign, SessionsKnown
  <2>2. CASE ok
    <3>3. o \notin control.session.held /\ Held0
      BY <1>6, <1>15, <2>2 DEF LeaveAssign
    <3>4. /\ disk'.session = disk.session /\ control'.pc = "close"
          /\ disk'.db[o] = IF disk.db[o] # None THEN disk.db[o] ELSE control.session.assignments[o]
      BY <1>2, <1>8, <1>15, <2>1, <2>2, <3>3 DEF LeaveAssign, Disks, Reassigned
    <3>5. Owed(o)
      BY <1>3, <3>3
    <3>6. disk'.db[o] = ghost.given[o]
      BY <2>1, <3>3, <3>4, <3>5 DEF Owed, Assigned, Pending, HasEnded, Holds
    <3> QED
      BY <2>1, <3>3, <3>4, <3>5, <3>6 DEF Owed, Assigned, Pending, HasEnded
  <2>3. CASE ~ok
    <3>1. UNCHANGED disk /\ control'.pc = "idle" /\ Held0
      BY <1>5, <1>15, <2>3 DEF LeaveAssign, Quiet
    <3>2. Owed(o)
      BY <1>3, <3>1
    <3> QED
      BY <2>1, <3>1, <3>2 DEF Owed, Assigned, Pending, HasEnded, Holds
  <2> QED
    BY <2>2, <2>3
<1>16. ASSUME NEW ok \in BOOLEAN, LeaveClose(ok) PROVE Owed(o)'
  <2> DEFINE ended == [control.session EXCEPT !.active = FALSE]
  <2> DEFINE d == [disk EXCEPT !.session = ended]
  <2>1. /\ choice' = choice /\ choice.pc = "idle" /\ control.pc = "close"
        /\ control.session = runtime.session
    BY <1>8, <1>16 DEF LeaveClose, SessionsKnown
  <2>2. ended \in Sound /\ ~ended.starting
    BY <1>1, <2>1, Ending
  <2>3. d \in Disks /\ d.session = ended /\ d.db = disk.db
    BY <1>2, <2>2 DEF Disks
  <2>4. Held0
    <3> DEFINE torn == IF Active(disk.config) THEN {"config"} ELSE {}
    <3>1. ghost' = Tears({"config", "restore"}) \/ ghost' = [ghost EXCEPT !.chose = FALSE, !.torn = torn]
      BY <1>16 DEF LeaveClose
    <3> QED
      BY <1>5, <3>1 DEF GhostTyped
  <2>5. Owed(o)
    BY <1>3, <2>4
  <2>6. CASE ok
    <3>1. disk' = Recovered(d) /\ control'.pc = "restore"
      BY <1>16, <2>6 DEF LeaveClose
    <3> HIDE DEF d, ended
    <3>2. Recovered(d) = d
      BY <2>2, <2>3, Recovering
    <3> QED
      BY <2>1, <2>2, <2>3, <2>4, <2>5, <3>1, <3>2 DEF Owed, Assigned, Pending, HasEnded
  <2>7. CASE ~ok
    <3>1. /\ control'.pc = "idle" /\ UNCHANGED disk
          /\ runtime' = [runtime EXCEPT !.restore = disk.config]
      BY <1>16, <2>7 DEF LeaveClose, Quiet
    <3> QED
      BY <2>1, <2>4, <2>5, <3>1 DEF Owed, Assigned, Pending, HasEnded
  <2> QED
    BY <2>6, <2>7
<1>17. ASSUME NEW ok \in BOOLEAN, LeaveSource(ok) PROVE Owed(o)'
  <2> DEFINE d == [disk EXCEPT !.config = "off"]
  <2>1. /\ choice' = choice /\ choice.pc = "idle" /\ control.pc = "source"
        /\ control.session = runtime.session
    BY <1>8, <1>17 DEF LeaveSource, SessionsKnown
  <2>2. d \in Disks /\ d.session = disk.session /\ d.db = disk.db
    BY <1>2 DEF Disks, Configs
  <2>3. Held0
    BY <1>17 DEF LeaveSource, GhostTyped
  <2>4. Owed(o)
    BY <1>3, <2>3
  <2>5. CASE ok
    <3>1. control' = [pc |-> "cancel"] /\ Install(d, runtime.session)
      BY <1>17, <2>1, <2>5 DEF LeaveSource
    <3>2. ~Active(d.config)
      BY <1>2 DEF Disks, Active
    <3> HIDE DEF d
    <3>3. disk' = Recovered(d) /\ runtime'.session = runtime.session
      BY <1>1, <1>11, <2>2, <3>1
    <3>4. disk'.db = disk.db /\ ~disk'.session.starting
      BY <2>2, <3>2, <3>3, Recovering
    <3>5. disk.session.starting \/ disk'.session = disk.session
      BY <2>2, <3>3, Recovering
    <3> QED
      BY <2>1, <2>3, <2>4, <3>1, <3>3, <3>4, <3>5 DEF Owed, Assigned, Pending, HasEnded, Holds
  <2>6. CASE ~ok
    <3>1. control'.pc = "idle" /\ UNCHANGED <<disk, runtime>>
      BY <1>17, <2>6 DEF LeaveSource, Quiet
    <3> QED
      BY <2>1, <2>3, <2>4, <3>1 DEF Owed, Assigned, Pending, HasEnded, Holds
  <2> QED
    BY <2>5, <2>6
\* The thread only restores, or ends.
<1>18. ASSUME UNCHANGED <<disk, choice>>, runtime'.session = runtime.session, Held0,
              control.pc \in {"restore", "restoring", "cancel"},
              control'.pc \in {"restore", "restoring", "idle"}
       PROVE  Owed(o)'
  <2>1. Owed(o)
    BY <1>3, <1>18
  <2> QED
    BY <1>18, <2>1 DEF Owed, Assigned, Pending, HasEnded, Holds
<1>19. ASSUME NEW x \in Outputs, Restore(x) PROVE Owed(o)'
    BY <1>18, <1>19 DEF Restore
<1>20. ASSUME NEW ok \in BOOLEAN, RestoreEnds(ok) PROVE Owed(o)'
  <2>1. control'.pc = "restore"
    BY <1>20 DEF RestoreEnds, ControlTyped, Restoring
  <2>2. Held0
    BY <1>20 DEF RestoreEnds, GhostTyped
  <2> QED
    BY <1>18, <1>20, <2>1, <2>2 DEF RestoreEnds
<1>21. ASSUME CancelRestore PROVE runtime'.session = runtime.session
    BY <1>1, <1>21 DEF CancelRestore, Runtimes
<1>22. CASE FollowReturns
    BY <1>18, <1>21, <1>22 DEF FollowReturns, Quiet, GhostTyped
<1>23. choice.pc # "idle" => control.pc \notin FollowPcs \cup LeavePcs \cup {"source"}
    BY <1>8
<1>24. ASSUME NEW x \in Outputs, Choose(x) PROVE Owed(o)'
  <2>1. /\ UNCHANGED <<disk, runtime, control>> /\ choice.pc = "idle"
        /\ choice'.pc = "stop" \/ (choice'.pc = "render" /\ choice'.prior = None)
    BY <1>24 DEF Choose, Chosen
  <2>2. Held0
    BY <1>24 DEF Choose, GhostTyped
  <2>3. Owed(o)
    BY <1>3, <2>2
  <2> QED
    BY <2>1, <2>2, <2>3 DEF Owed, Assigned, Pending, HasEnded, Holds
<1>25. ASSUME NEW ok \in BOOLEAN, ChoiceStop(ok) PROVE Owed(o)'
  <2>1. /\ UNCHANGED <<runtime, control, ghost>> /\ choice.pc = "stop" /\ disk'.db = disk.db
        /\ \/ choice'.pc = "disable" /\ disk'.session = Stopped(runtime.session)
           \/ choice' = Quiet /\ disk' = disk
    BY <1>2, <1>25, ChoiceLeaves DEF ChoiceStop, ChoiceTyped, Rendered, Disks
  <2>2. ~Stopped(runtime.session).starting
    BY <1>1, Stopping
  <2>3. Owed(o)
    BY <1>3, <2>1
  <2> QED
    BY <1>23, <2>1, <2>2, <2>3 DEF Owed, Assigned, Pending, HasEnded, Holds, Quiet
<1>26. ASSUME NEW ok \in BOOLEAN, ChoiceDisable(ok) PROVE Owed(o)'
  <2> DEFINE d == [disk EXCEPT !.config = IF Active(@) THEN "disabled" ELSE @]
  <2>1. UNCHANGED control /\ choice.pc = "disable" /\ disk.session = Stopped(runtime.session)
    BY <1>26 DEF ChoiceDisable, SessionsKnown
  <2>2. ~disk.session.starting
    BY <1>1, <2>1, Stopping
  <2>3. d.session = disk.session /\ d.db = disk.db
    BY <1>2 DEF Disks
  <2>4. Held0
    BY <1>26 DEF ChoiceDisable, GhostTyped
  <2>5. Owed(o)
    BY <1>3, <2>4
  <2>6. CASE ok
    <3>1. disk' = d /\ choice'.pc = "render" /\ choice'.prior = runtime
      BY <1>26, <2>6 DEF ChoiceDisable, Chosen
    <3>2. runtime # None
      BY <1>1, Distinct
    <3> HIDE DEF d
    <3> QED
      BY <1>23, <2>1, <2>2, <2>3, <2>4, <2>5, <3>1, <3>2 DEF Owed, Assigned, Pending, HasEnded, Holds
  <2>7. CASE ~ok
    <3>1. UNCHANGED <<disk, runtime>> /\ choice'.pc = "undo"
      BY <1>26, <2>7 DEF ChoiceDisable
    <3> QED
      BY <1>23, <2>1, <2>4, <2>5, <3>1 DEF Owed, Assigned, Pending, HasEnded, Holds
  <2> QED
    BY <2>6, <2>7
<1>27. CASE ChoiceCommits
  <2>1. /\ UNCHANGED <<control, disk>> /\ choice.pc = "render" /\ choice' = Quiet
        /\ runtime'.session = runtime.session
    BY <1>21, <1>27 DEF ChoiceCommits
  <2>2. choice.prior = None /\ Held0
    BY <1>4, <1>27 DEF ChoiceCommits, GhostTyped
  <2>3. Owed(o)
    BY <1>3, <2>2
  <2> QED
    BY <1>23, <2>1, <2>2, <2>3 DEF Owed, Assigned, Pending, HasEnded, Holds, Quiet
<1>28. CASE ChoiceFails
  <2>1. /\ UNCHANGED <<control, disk, runtime>> /\ choice.pc = "render"
        /\ choice' = IF choice.prior = None THEN Quiet ELSE [pc |-> "rollback", prior |-> choice.prior]
    BY <1>28 DEF ChoiceFails
  <2>2. Held0
    BY <1>28 DEF ChoiceFails, GhostTyped
  <2>3. Owed(o)
    BY <1>3, <2>2
  <2> QED
    BY <1>23, <2>1, <2>2, <2>3 DEF Owed, Assigned, Pending, HasEnded, Holds, Quiet
<1>29. ASSUME NEW ok \in BOOLEAN, ChoiceRollsBack(ok) PROVE Owed(o)'
  <2>1. /\ UNCHANGED <<control, runtime>> /\ choice.pc = "rollback"
        /\ choice \in [pc : {"rollback", "enable"}, prior : Running]
    BY <1>29 DEF ChoiceRollsBack, ChoiceTyped, Rendered
  <2>2. /\ disk'.session = choice.prior.session /\ disk'.db = disk.db /\ Held0
        /\ choice'.pc = "enable" /\ choice'.prior = choice.prior
    BY <1>2, <1>7, <1>29, <2>1 DEF ChoiceRollsBack, Disks
  <2>3. ~choice.prior.session.starting
    BY <2>1 DEF Running
  <2>4. Owed(o)
    BY <1>3, <2>2
  <2> QED
    BY <1>23, <2>1, <2>2, <2>3, <2>4 DEF Owed, Assigned, Pending, HasEnded, Holds
<1>30. ASSUME NEW ok \in BOOLEAN, ChoiceEnables(ok) PROVE Owed(o)'
  <2>1. UNCHANGED <<control, ghost>> /\ choice.pc = "enable" /\ choice' = Quiet
    BY <1>7, <1>30 DEF ChoiceEnables
  <2>2. disk'.session = disk.session /\ disk'.db = disk.db /\ runtime' = choice.prior
    BY <1>2, <1>7, <1>30 DEF ChoiceEnables, Disks
  <2>3. Owed(o)
    BY <1>3, <2>1
  <2> QED
    BY <1>1, <1>23, <2>1, <2>2, <2>3 DEF Owed, Assigned, Pending, HasEnded, Holds, Quiet
<1>b. ASSUME NEW ok \in BOOLEAN, ChoiceUndoes(ok) PROVE Owed(o)'
  <2>1. UNCHANGED <<control, runtime, ghost>> /\ choice.pc = "undo" /\ choice' = Quiet
    BY <1>7, <1>b DEF ChoiceUndoes
  <2>2. disk'.session = runtime.session /\ disk'.db = disk.db
    BY <1>2, <1>7, <1>b DEF ChoiceUndoes, Disks
  <2>3. Owed(o)
    BY <1>3, <2>1
  <2> QED
    BY <1>1, <1>23, <2>1, <2>2, <2>3 DEF Owed, Assigned, Pending, HasEnded, Holds, Quiet
<1>31. CASE Passive
  <2>1. UNCHANGED <<disk, control, choice>> /\ runtime'.session = runtime.session /\ Held0
    BY <1>31, PassiveLeaves
  <2>2. Owed(o)
    BY <1>3, <2>1
  <2> QED
    BY <2>1, <2>2 DEF Owed, Assigned, Pending, HasEnded, Holds
<1>32. CASE Tending
  <2>1. ~runtime'.session.starting
    BY StateTypedKept DEF StateTyped, Running
  <2>2. /\ UNCHANGED <<control, choice>> /\ Held0
        /\ control.pc \notin FollowPcs \cup LeavePcs \cup {"source"}
        /\ choice.pc \in {"idle", "render"} /\ disk'.db = disk.db /\ disk'.config = disk.config
        /\ runtime'.session.active = runtime.session.active
        /\ runtime'.session.assignments = runtime.session.assignments
        /\ disk'.session = runtime'.session \/ disk' = disk
    BY <1>32, TendingKeeps DEF Kept
  <2>3. Owed(o)
    BY <1>3, <2>2
  <2> QED
    BY <2>1, <2>2, <2>3 DEF Owed, Assigned, Pending, HasEnded, Holds
<1>33. CASE Crash
  <2> DEFINE d == Recovered(disk)
  <2>1. ghost'.given = ghost.given /\ (Safe(d, o) \/ (o \notin ghost.lost /\ ~HasEnded))
    <3> DEFINE lost == {x \in IF HasEnded THEN Outputs ELSE ghost.lost :
                           ghost.given[x] # None /\ ~Safe(d, x)}
    <3> DEFINE torn == IF (Halfway \/ ghost.torn \cap {"memory", "config"} # {})
                          /\ d.session.active # Active(d.config) THEN {"config"} ELSE {}
    <3>1. ghost' = [ghost EXCEPT !.lost = lost, !.torn = torn]
      BY <1>33 DEF Crash
    <3> HIDE DEF lost, torn, d
    <3>2. ghost'.given = ghost.given /\ ghost'.lost = lost
      BY <3>1 DEF GhostTyped
    <3> QED
      BY <3>2 DEF lost
  <2>3. d.session \in Sound /\ disk.config \in Configs /\ ~d.session.starting
    BY <1>2, Recovering DEF Disks
  <2>4. Loaded(d.session, disk.config).session = d.session
    BY <2>3, Loading
  <2>5. disk' = d /\ runtime'.session = d.session /\ choice' = Quiet /\ control' = Quiet
    BY <1>33, <2>4 DEF Crash, Load
  <2>6. CASE Safe(d, o)
    <3> HIDE DEF d
    <3> QED
      BY <2>1, <2>3, <2>5, <2>6 DEF Owed, Assigned, Pending, HasEnded, Holds, Safe, Quiet
  <2> SUFFICES ASSUME o \notin ghost.lost, ~HasEnded PROVE Owed(o)'
    BY <2>1, <2>6
  <2>2. Owed(o)
    BY <1>3, <2>1
  <2>7. CASE ~disk.session.starting
    <3>1. d = disk
      BY <1>2, <2>7, Recovering
    <3> QED
      BY <2>1, <2>2, <2>5, <2>7, <3>1 DEF Owed, Assigned, Pending, HasEnded, Holds, Quiet
  <2>8. CASE disk.session.starting /\ Active(disk.config)
    <3>1. /\ d.session.active = disk.session.active
          /\ d.session.assignments = disk.session.assignments
          /\ d.db[o] = IF disk.db[o] = disk.session.assignments[o] THEN None ELSE disk.db[o]
      BY <1>2, <2>8, Recovering
    <3>2. /\ disk.session.active
          /\ Assigned(o) \/ disk.session.assignments[o] = ghost.given[o]
      BY <2>2, <2>8 DEF Owed, SessionsKnown
    <3> HIDE DEF d
    <3> QED
      BY <2>1, <2>2, <2>3, <2>5, <3>1, <3>2 DEF Owed, Assigned, Pending, HasEnded, Holds, Quiet
  <2>9. CASE disk.session.starting /\ ~Active(disk.config)
    <3>1. d.db = disk.db
      BY <1>2, <2>9, Recovering
    <3> HIDE DEF d
    <3> QED
      BY <2>1, <2>2, <2>3, <2>5, <2>9, <3>1 DEF Owed, Assigned, Pending, HasEnded, Quiet
  <2> QED
    BY <2>7, <2>8, <2>9
<1>34. ASSUME NEW c \in Configs, Edit(c) PROVE Owed(o)'
  <2>1. /\ UNCHANGED <<control, choice, runtime>> /\ disk'.session = disk.session
        /\ disk'.db = disk.db
    BY <1>2, <1>34 DEF Edit, threads, Disks
  <2>2. ~disk.session.starting /\ Held0
    <3> DEFINE given == IF disk.session.starting THEN Nothing(Outputs) ELSE ghost.given
    <3>1. ghost' = [Tears({"config"}) EXCEPT !.given = given]
      BY <1>5, <1>34 DEF Edit
    <3> HIDE DEF given
    <3>2. ghost'.given = given /\ ghost'.lost = ghost.lost
      BY <3>1 DEF Tears, GhostTyped
    <3> QED
      BY <1>4, <3>2 DEF given
  <2>3. Owed(o)
    BY <1>3, <2>2
  <2>4. control.pc \notin FollowPcs
    BY <2>2 DEF SessionsKnown
  <2> QED
    BY <2>1, <2>2, <2>3, <2>4 DEF Owed, Assigned, Pending, HasEnded, Holds
<1>35. ASSUME NEW x \in Outputs, NEW p \in Playlists \cup {None}, Assign(x, p) PROVE Owed(o)'
  <2>1. UNCHANGED <<control, choice, runtime>> /\ disk'.session = disk.session /\ disk'.config = disk.config
    BY <1>2, <1>35 DEF Assign, threads, Disks
  <2>2. x # o /\ Held0
    BY <1>6, <1>35 DEF Assign
  <2>3. disk'.db[o] = disk.db[o]
    BY <1>2, <1>35, <2>2 DEF Assign, Disks
  <2>4. Owed(o)
    BY <1>3, <2>2
  <2> QED
    BY <2>1, <2>2, <2>3, <2>4 DEF Owed, Assigned, Pending, HasEnded, Holds
<1> QED
    BY <1>9, <1>10, <1>12, <1>13, <1>14, <1>15, <1>16, <1>17, <1>19, <1>20, <1>22, <1>24, <1>25, <1>26,
       <1>27, <1>28, <1>29, <1>30, <1>31, <1>32, <1>33, <1>34, <1>35, <1>a, <1>b, Moves, Classes
    DEF FollowMoves, ChoiceMoves, ChoiceSteps

-----------------------------------------------------------------------------
(* Sessions, configuration and memory agree at rest *)

LEMMA AgreeKeptKept == ASSUME Typed, SessionsKnown, AgreeKept, Next PROVE AgreeKept'
<1> USE DEF Typed, FollowPcs, LeavePcs
<1>1. runtime \in Runtimes /\ runtime.session \in Sound /\ ~runtime.session.starting
    BY DEF StateTyped, Running
<1>2. disk \in Disks /\ disk.session \in Sound /\ disk.config \in Configs
    BY DEF StateTyped, Disks
<1>3. control.pc \in {"idle", "cancel", "restore", "restoring", "source"} \cup FollowPcs \cup LeavePcs
    BY DEF ControlTyped, Restoring
<1>4. /\ control.pc \in FollowPcs \cup LeavePcs \cup {"source"} =>
         control \in [pc : FollowPcs \cup LeavePcs \cup {"source"}, session : Sound]
      /\ control.pc \in FollowPcs \cup LeavePcs \cup {"source", "restoring"} => choice.pc = "idle"
    BY DEF OneHolder, ControlTyped, Restoring
<1>5. ASSUME NEW what PROVE Tears(what).torn = ghost.torn \cup what
    BY DEF Tears, GhostTyped
<1>6. Loses(Outputs).torn = ghost.torn
    BY DEF Loses, GhostTyped
<1>c. [Tears({"memory"}) EXCEPT !.lost = Outputs].torn = ghost.torn \cup {"memory"}
    BY <1>5 DEF Tears, GhostTyped
<1>7. Active("on") /\ ~Active("off") /\ ~Active("disabled")
    BY DEF Active
\* Between a follow or a leaving and the next one.
<1>8. choice.pc # "idle" \/ control.pc \in {"idle", "cancel", "restore"} =>
         control.pc \in {"idle", "cancel", "restore", "restoring", "settings", "source"}
    BY <1>3, <1>4
<1>a. /\ disk'.session.active \in BOOLEAN /\ runtime'.session.active \in BOOLEAN
       /\ disk.session.active \in BOOLEAN /\ runtime.session.active \in BOOLEAN
  <2>1. \A s \in Sound : s.active \in BOOLEAN
    BY DEF Sound, Sessions
  <2>2. disk'.session \in Sound /\ runtime'.session \in Sound
    BY StateTypedKept DEF StateTyped, Disks, Running
  <2> QED
    BY <1>1, <1>2, <2>1, <2>2
<1>9. ASSUME control'.pc \in {"idle", "cancel", "restore", "restoring"}, choice'.pc = "idle",
             "memory" \notin ghost'.torn =>
                /\ runtime'.session.active <=> disk'.session.active
                /\ "unsaved" \notin ghost'.torn /\ disk'.session.active => runtime'.session = disk'.session
                /\ "config" \notin ghost'.torn => (disk'.session.active <=> Active(disk'.config)),
             "restore" \notin ghost'.torn /\ control'.pc = "idle" => runtime'.restore = None
      PROVE  AgreeKept'
    BY <1>9, <1>a DEF AgreeKept, MemoryKept, ConfigKept, RestoreKept, Switching, Pending, Active
\* Nothing that these properties are about changes but the steps of the threads.
<1>d. ASSUME UNCHANGED <<disk, choice>>, runtime'.session = runtime.session,
             runtime'.restore = runtime.restore, ghost'.torn = ghost.torn,
             control' = control
      PROVE  AgreeKept'
    BY <1>d DEF AgreeKept, MemoryKept, ConfigKept, RestoreKept, Switching, Pending
<1>10. ASSUME NEW ok \in BOOLEAN, Follow(ok) PROVE AgreeKept'
  <2>1. /\ runtime'.session = runtime.session /\ runtime'.restore = runtime.restore
        /\ choice' = choice /\ choice.pc = "idle" /\ control.pc = "idle" /\ ~Following
    BY <1>10, Idling DEF Follow, StateTyped, Locked
  <2>2. CASE ok
    <3>1. /\ control' = [pc |-> "config", session |-> Captured] /\ disk'.config = disk.config
          /\ ghost'.torn = ghost.torn
      BY <1>2, <1>10, <2>2 DEF Follow, Disks, GhostTyped
    <3>2. Captured.settings = disk.config
      BY DEF Captured, NoSession
    <3>3. "memory" \notin ghost.torn /\ "config" \notin ghost.torn => ~Active(disk.config)
      BY <2>1 DEF AgreeKept, MemoryKept, ConfigKept, Switching, Following
    <3> HIDE DEF Captured
    <3> QED
      BY <2>1, <3>1, <3>2, <3>3 DEF AgreeKept, MemoryKept, ConfigKept, RestoreKept, Switching, Pending
  <2>3. CASE ~ok
    <3>1. UNCHANGED <<control, disk, ghost>>
      BY <1>10, <2>3 DEF Follow
    <3> QED
      BY <2>1, <3>1 DEF AgreeKept, MemoryKept, ConfigKept, RestoreKept, Switching, Pending
  <2> QED
    BY <2>2, <2>3
<1>11. ASSUME NEW ok \in BOOLEAN, FollowConfig(ok) \/ FollowCommit(ok) PROVE AgreeKept'
  <2>1. /\ runtime' = runtime /\ choice' = choice /\ choice.pc = "idle" /\ ghost' = ghost
        /\ control.pc \in {"config", "commit"}
        /\ control \in [pc : FollowPcs \cup LeavePcs \cup {"source"}, session : Sound]
    BY <1>4, <1>11 DEF FollowConfig, FollowCommit
  <2>2. control'.pc \in {"commit", "finish", "withdraw"} /\ control'.session = control.session
    BY <1>11, <2>1 DEF FollowConfig, FollowCommit
  <2> QED
    BY <2>1, <2>2 DEF AgreeKept, MemoryKept, ConfigKept, RestoreKept, Switching, Pending
<1>e. ASSUME NEW ok \in BOOLEAN, Withdraw(ok) PROVE AgreeKept'
  <2>1. /\ runtime' = runtime /\ choice' = choice /\ choice.pc = "idle" /\ control.pc = "withdraw"
        /\ control \in [pc : FollowPcs \cup LeavePcs \cup {"source"}, session : Sound]
    BY <1>4, <1>e DEF Withdraw
  <2>2. CASE ok
    <3>1. /\ control'.pc = "inactive" /\ control'.session = control.session /\ UNCHANGED ghost
          /\ disk'.config = control.session.settings
      BY <1>2, <1>e, <2>1, <2>2 DEF Withdraw, Disks
    <3> QED
      BY <2>1, <3>1 DEF AgreeKept, MemoryKept, ConfigKept, RestoreKept, Switching, Pending
  <2>3. CASE ~ok
    <3>1. control' = Quiet /\ UNCHANGED disk /\ ghost'.torn = ghost.torn \cup {"memory"}
      BY <1>5, <1>e, <2>3 DEF Withdraw
    <3>2. "restore" \notin ghost'.torn => runtime'.restore = None
      BY <2>1, <3>1 DEF AgreeKept, RestoreKept
    <3> QED
      BY <1>9, <2>1, <3>1, <3>2 DEF Quiet
  <2> QED
    BY <2>2, <2>3
<1>f. ASSUME NEW ok \in BOOLEAN, WithdrawEnds(ok) PROVE AgreeKept'
  <2>1. /\ runtime' = runtime /\ choice' = choice /\ choice.pc = "idle" /\ control.pc = "inactive"
        /\ control \in [pc : FollowPcs \cup LeavePcs \cup {"source"}, session : Sound]
        /\ control' = Quiet
    BY <1>4, <1>f DEF WithdrawEnds
  <2>2. CASE ok /\ ~runtime.session.active
    <3>1. /\ UNCHANGED ghost /\ disk'.config = disk.config
          /\ disk'.session = Stopped(control.session)
      BY <1>2, <1>f, <2>2 DEF WithdrawEnds, Disks
    <3>2. ~disk'.session.active
      BY <2>1, <3>1, Stopping
    <3>3. /\ "memory" \notin ghost.torn /\ "config" \notin ghost.torn => ~Active(disk.config)
          /\ "restore" \notin ghost.torn => runtime.restore = None
      BY <2>1 DEF AgreeKept, ConfigKept, RestoreKept
    <3> QED
      BY <1>9, <2>1, <2>2, <3>1, <3>2, <3>3 DEF Quiet
  <2>3. CASE ~(ok /\ ~runtime.session.active)
    <3>1. ghost'.torn = ghost.torn \cup {"memory"}
      BY <1>5, <1>f, <2>3 DEF WithdrawEnds
    <3>2. "restore" \notin ghost.torn => runtime.restore = None
      BY <2>1 DEF AgreeKept, RestoreKept
    <3> QED
      BY <1>9, <2>1, <3>1, <3>2 DEF Quiet
  <2> QED
    BY <2>2, <2>3
<1>12. ASSUME NEW d \in Disks, NEW s \in Sound, ~s.starting, Install(d, s)
       PROVE  disk' = Recovered(d) /\ runtime'.session = s
  <2>1. d.config \in Configs /\ runtime.restore \in Maybe(Configs)
    BY <1>1 DEF Disks, Runtimes
  <2> QED
    BY <1>12, <2>1, Loading DEF Install
<1>13. ASSUME NEW ok \in BOOLEAN, FollowFinish(ok) PROVE AgreeKept'
  <2> DEFINE started == [control.session EXCEPT !.starting = FALSE]
  <2> DEFINE d == [disk EXCEPT !.session = started]
  <2>1. /\ choice' = choice /\ choice.pc = "idle" /\ control.pc = "finish"
        /\ control.session \in Sound /\ control.session.active
    BY <1>4, <1>13 DEF FollowFinish, SessionsKnown
  <2>2. started \in Sound /\ ~started.starting /\ started.active
    BY <2>1, Ending
  <2>3. d \in Disks /\ d.session = started /\ d.config = disk.config
    BY <1>2, <2>2 DEF Disks
  <2>4. CASE ok
    <3>1. /\ control' = [pc |-> "cancel"] /\ Install(d, started)
          /\ "config" \notin ghost'.torn => Active(disk.config)
      BY <1>13, <2>4 DEF FollowFinish, Mends, GhostTyped
    <3> HIDE DEF d, started
    <3>2. Recovered(d) = d
      BY <2>2, <2>3, Recovering
    <3>3. disk' = d /\ runtime'.session = started
      BY <1>12, <2>2, <2>3, <3>1, <3>2
    <3> QED
      BY <1>9, <2>1, <2>2, <2>3, <3>1, <3>3
  <2>5. CASE ~ok
    <3>1. /\ control' = Quiet /\ UNCHANGED <<disk, runtime>>
          /\ ghost'.torn = ghost.torn \cup {"memory"}
      BY <1>c, <1>13, <2>5 DEF FollowFinish
    <3>2. "restore" \notin ghost.torn => runtime.restore = None
      BY <2>1 DEF AgreeKept, RestoreKept
    <3> QED
      BY <1>9, <2>1, <3>1, <3>2 DEF Quiet
  <2> QED
    BY <2>4, <2>5
<1>14. CASE Leave
  <2>1. /\ runtime'.session = runtime.session /\ UNCHANGED <<disk, choice, ghost>>
        /\ choice.pc = "idle" /\ control.pc = "idle" /\ control'.pc \in {"settings", "source"}
        /\ runtime'.restore = runtime.restore
    BY <1>14, Idling DEF Leave, StateTyped, Locked
  <2> QED
    BY <2>1 DEF AgreeKept, MemoryKept, ConfigKept, RestoreKept, Switching, Pending
<1>15. ASSUME NEW ok \in BOOLEAN, LeaveSettings(ok) PROVE AgreeKept'
  <2>1. /\ UNCHANGED <<runtime, choice, ghost>> /\ choice.pc = "idle" /\ control.pc = "settings"
        /\ disk'.session = disk.session
        /\ control'.pc = "assign" \/ (control'.pc = "idle" /\ UNCHANGED disk)
    BY <1>2, <1>4, <1>15 DEF LeaveSettings, Disks, Quiet
  <2> QED
    BY <2>1 DEF AgreeKept, MemoryKept, ConfigKept, RestoreKept, Switching, Pending
<1>g. ASSUME NEW ok \in BOOLEAN, LeaveAssign(ok) PROVE AgreeKept'
  <2>1. /\ UNCHANGED <<runtime, choice>> /\ choice.pc = "idle" /\ control.pc = "assign"
        /\ disk'.session = disk.session
    BY <1>2, <1>4, <1>g DEF LeaveAssign, Disks
  <2>2. \/ control'.pc = "close" /\ ghost'.torn = ghost.torn
        \/ control'.pc = "idle" /\ ghost'.torn = ghost.torn \cup {"config"}
    BY <1>4, <1>5, <1>g DEF LeaveAssign, Quiet, Forgets, GhostTyped
  <2> QED
    BY <2>1, <2>2 DEF AgreeKept, MemoryKept, ConfigKept, RestoreKept, Switching, Pending
<1>16. ASSUME NEW ok \in BOOLEAN, LeaveClose(ok) PROVE AgreeKept'
  <2> DEFINE ended == [control.session EXCEPT !.active = FALSE]
  <2> DEFINE d == [disk EXCEPT !.session = ended]
  <2>1. /\ choice' = choice /\ choice.pc = "idle" /\ control.session = runtime.session
        /\ control.pc = "close"
    BY <1>4, <1>16 DEF LeaveClose, SessionsKnown
  <2>2. ended \in Sound /\ ~ended.starting /\ ~ended.active
    BY <1>1, <2>1, Ending
  <2>3. d \in Disks /\ d.session = ended /\ d.config = disk.config /\ disk.config \in Maybe(Configs)
    BY <1>2, <2>2 DEF Disks, Maybe
  <2>4. CASE ok
    <3>1. /\ disk' = Recovered(d) /\ control' = [pc |-> "restore", session |-> ended, todo |-> Outputs]
          /\ runtime' = [Loaded(ended, disk.config) EXCEPT !.restore = disk.config]
      BY <1>16, <2>4, Zenon DEF LeaveClose
    <3>2. "config" \notin ghost'.torn => ~Active(disk.config)
      <4> DEFINE torn == IF Active(disk.config) THEN {"config"} ELSE {}
      <4>1. ghost' = [ghost EXCEPT !.chose = FALSE, !.torn = torn]
        BY <1>16, <2>4 DEF LeaveClose
      <4> HIDE DEF torn
      <4>2. ghost'.torn = torn
        BY <4>1 DEF GhostTyped
      <4> QED
        BY <4>2 DEF torn
    <3> HIDE DEF d, ended
    <3>3. Recovered(d) = d
      BY <2>2, <2>3, Recovering
    <3>4. runtime'.session = ended
      BY <1>2, <2>2, <2>3, <3>1, Loading
    <3>5. control'.pc = "restore"
      BY <3>1
    <3> QED
      BY <1>9, <2>1, <2>2, <2>3, <3>1, <3>2, <3>3, <3>4, <3>5
  <2>5. CASE ~ok
    <3>1. /\ control' = Quiet /\ UNCHANGED disk
          /\ runtime' = [runtime EXCEPT !.restore = disk.config]
          /\ ghost'.torn = ghost.torn \cup {"config", "restore"}
      BY <1>5, <1>16, <2>5 DEF LeaveClose
    <3>2. runtime'.session = runtime.session
      BY <1>1, <3>1 DEF Runtimes
    <3>3. MemoryKept
      BY DEF AgreeKept
    <3> QED
      BY <1>9, <2>1, <3>1, <3>2, <3>3 DEF Quiet, MemoryKept, Switching
  <2> QED
    BY <2>4, <2>5
<1>17. ASSUME NEW ok \in BOOLEAN, LeaveSource(ok) PROVE AgreeKept'
  <2> DEFINE d == [disk EXCEPT !.config = "off"]
  <2>1. /\ choice' = choice /\ choice.pc = "idle" /\ control.session = runtime.session
        /\ ~runtime.session.active /\ control.pc = "source"
    BY <1>4, <1>17 DEF LeaveSource, SessionsKnown
  <2>2. d \in Disks /\ d.session = disk.session /\ d.config = "off"
    BY <1>2 DEF Disks, Configs
  <2>3. "memory" \notin ghost.torn => ~disk.session.active
    BY <2>1 DEF AgreeKept, MemoryKept, Switching
  <2>4. CASE ok
    <3>1. /\ control' = [pc |-> "cancel"] /\ Install(d, runtime.session)
          /\ "memory" \in ghost.torn => ghost'.torn = ghost.torn
      BY <1>17, <2>1, <2>4 DEF LeaveSource, GhostTyped
    <3> HIDE DEF d
    <3>2. disk' = Recovered(d) /\ runtime'.session = runtime.session
      BY <1>1, <1>12, <2>2, <3>1
    <3>3. "memory" \notin ghost.torn => ~Recovered(d).session.active /\ Recovered(d).config = "off"
      BY <1>7, <2>2, <2>3, Recovering DEF SessionsKnown
    <3> QED
      BY <1>7, <1>9, <2>1, <3>1, <3>2, <3>3
  <2>5. CASE ~ok
    <3>1. control' = Quiet /\ UNCHANGED <<disk, runtime, ghost>>
      BY <1>17, <2>5 DEF LeaveSource
    <3> QED
      BY <2>1, <3>1 DEF AgreeKept, MemoryKept, ConfigKept, RestoreKept, Switching, Pending, Quiet
  <2> QED
    BY <2>4, <2>5
\* The thread only restores, or ends.
<1>18. ASSUME UNCHANGED <<disk, choice, runtime>>, ghost'.torn = ghost.torn,
              control.pc \in {"restore", "restoring"}, control'.pc \in {"restore", "restoring"}
       PROVE  AgreeKept'
    BY <1>18 DEF AgreeKept, MemoryKept, ConfigKept, RestoreKept, Switching, Pending
<1>19. ASSUME NEW x \in Outputs, Restore(x) PROVE AgreeKept'
    BY <1>18, <1>19 DEF Restore
<1>20. ASSUME NEW ok \in BOOLEAN, RestoreEnds(ok) PROVE AgreeKept'
  <2>1. control'.pc = "restore"
    BY <1>20 DEF RestoreEnds, ControlTyped, Restoring
  <2>2. ghost'.torn = ghost.torn
    BY <1>20 DEF RestoreEnds, GhostTyped
  <2> QED
    BY <1>18, <1>20, <2>1, <2>2 DEF RestoreEnds
<1>21. ASSUME CancelRestore PROVE runtime'.session = runtime.session /\ runtime'.restore = None
    BY <1>1, <1>21 DEF CancelRestore, Runtimes
<1>22. CASE FollowReturns
  <2>1. /\ UNCHANGED <<disk, choice>> /\ choice.pc = "idle" /\ control' = Quiet
        /\ control.pc \in {"cancel", "restore"}
        /\ runtime'.session = runtime.session /\ runtime'.restore = None
    BY <1>21, <1>22 DEF FollowReturns, Locked
  <2>2. ghost'.torn = ghost.torn \ {"restore"}
    BY <1>22 DEF FollowReturns, GhostTyped
  <2> QED
    BY <2>1, <2>2 DEF AgreeKept, MemoryKept, ConfigKept, RestoreKept, Switching, Pending, Quiet
<1>23. ASSUME NEW x \in Outputs, Choose(x) PROVE AgreeKept'
  <2>1. /\ UNCHANGED <<disk, runtime, control>> /\ choice.pc = "idle"
        /\ control.pc \in {"idle", "cancel", "restore"}
        /\ \/ choice'.pc = "stop" /\ Active(disk.config)
           \/ choice'.pc = "render" /\ choice'.prior = None
    BY <1>3, <1>23 DEF Choose, Chosen, Locked
  <2>2. ghost'.torn = ghost.torn
    BY <1>23 DEF Choose, GhostTyped
  <2> QED
    BY <2>1, <2>2 DEF AgreeKept, MemoryKept, ConfigKept, RestoreKept, Switching, Pending
<1>24. ASSUME NEW ok \in BOOLEAN, ChoiceStop(ok) PROVE AgreeKept'
  <2>1. /\ UNCHANGED <<runtime, control, ghost>> /\ choice.pc = "stop" /\ disk'.config = disk.config
        /\ \/ choice'.pc = "disable"
           \/ choice' = Quiet /\ disk' = disk
    BY <1>2, <1>24, ChoiceLeaves DEF ChoiceStop, ChoiceTyped, Rendered, Disks
  <2> QED
    BY <1>4, <2>1 DEF AgreeKept, MemoryKept, ConfigKept, RestoreKept, Switching, Pending, Quiet
<1>25. ASSUME NEW ok \in BOOLEAN, ChoiceDisable(ok) PROVE AgreeKept'
  <2> DEFINE d == [disk EXCEPT !.config = IF Active(@) THEN "disabled" ELSE @]
  <2>1. UNCHANGED control /\ choice.pc = "disable" /\ disk.session = Stopped(runtime.session)
    BY <1>25 DEF ChoiceDisable, SessionsKnown
  <2>2. ~disk.session.starting /\ ~disk.session.active
    BY <1>1, <2>1, Stopping
  <2>3. ghost'.torn = ghost.torn
    BY <1>25 DEF ChoiceDisable, GhostTyped
  <2>4. "memory" \notin ghost.torn /\ "config" \notin ghost.torn =>
           Active(disk.config) /\ runtime.session.active
    BY <2>1 DEF AgreeKept, ConfigKept
  <2>5. d \in Disks /\ d.session = disk.session /\ (Active(disk.config) => d.config = "disabled")
    BY <1>2 DEF Disks, Configs
  <2>6. control.pc \notin FollowPcs \cup LeavePcs \cup {"source", "restoring"}
    BY <1>4, <2>1
  <2>7. CASE ok
    <3>1. disk' = d /\ runtime' = Load(d) /\ choice'.pc = "render" /\ choice'.prior = runtime
      BY <1>25, <2>7 DEF ChoiceDisable, Chosen
    <3> HIDE DEF d
    <3>2. Recovered(d) = d /\ d.config \in Configs
      BY <2>2, <2>5, Recovering DEF Disks
    <3>3. runtime'.session = disk.session /\ runtime'.restore = None
      BY <1>2, <2>2, <2>5, <3>1, <3>2, Loading DEF Load
    <3>4. "restore" \notin ghost.torn /\ control.pc \notin {"cancel", "restore", "restoring"} =>
             runtime.restore = None
      BY DEF AgreeKept, RestoreKept
    <3>5. /\ MemoryKept' /\ RestoreKept'
      BY <2>1, <2>2, <2>3, <2>5, <3>1, <3>3, <3>4 DEF MemoryKept, RestoreKept
    <3>6. ConfigKept'
      <4>1. runtime'.session.active = FALSE /\ disk'.session.active = FALSE
        BY <1>a, <2>2, <2>5, <3>1, <3>2, <3>3
      <4>2. "memory" \notin ghost.torn /\ "config" \notin ghost.torn =>
               disk'.config = "disabled" /\ choice'.prior.session.active
        BY <2>4, <2>5, <3>1, <3>2
      <4> QED
        BY <2>1, <2>3, <2>6, <3>1, <4>1, <4>2 DEF ConfigKept, Switching, Pending, Active
    <3> QED
      BY <3>5, <3>6 DEF AgreeKept
  <2>8. CASE ~ok
    <3>1. UNCHANGED <<disk, runtime>> /\ choice' = [pc |-> "undo"]
      BY <1>25, <2>8 DEF ChoiceDisable
    <3> QED
      BY <2>1, <2>3, <2>4, <2>6, <3>1 DEF AgreeKept, MemoryKept, ConfigKept, RestoreKept, Switching, Pending
  <2> QED
    BY <2>7, <2>8
<1>26. CASE ChoiceCommits
  <2>1. /\ UNCHANGED <<control, disk>> /\ choice.pc = "render" /\ choice' = Quiet
        /\ runtime'.session = runtime.session /\ runtime'.restore = None
    BY <1>21, <1>26 DEF ChoiceCommits
  <2>2. ghost'.torn = ghost.torn \ {"restore"}
    BY <1>26 DEF ChoiceCommits, GhostTyped
  <2> QED
    BY <1>4, <2>1, <2>2 DEF AgreeKept, MemoryKept, ConfigKept, RestoreKept, Switching, Pending, Quiet
<1>27. CASE ChoiceFails
  <2>1. /\ UNCHANGED <<control, disk, runtime>> /\ choice.pc = "render"
        /\ choice' = IF choice.prior = None THEN Quiet ELSE [pc |-> "rollback", prior |-> choice.prior]
    BY <1>27 DEF ChoiceFails
  <2>2. ghost'.torn = ghost.torn
    BY <1>27 DEF ChoiceFails, GhostTyped
  <2> QED
    BY <1>4, <2>1, <2>2 DEF AgreeKept, MemoryKept, ConfigKept, RestoreKept, Switching, Pending, Quiet
<1>28. ASSUME NEW ok \in BOOLEAN, ChoiceRollsBack(ok) PROVE AgreeKept'
  <2>1. /\ UNCHANGED <<control, runtime>> /\ choice.pc = "rollback" /\ disk'.config = disk.config
        /\ choice \in [pc : {"rollback", "enable"}, prior : Running] /\ ghost'.torn = ghost.torn
    BY <1>2, <1>6, <1>28 DEF ChoiceRollsBack, ChoiceTyped, Rendered, Disks
  <2>2. \/ choice'.pc = "enable" /\ choice'.prior = choice.prior
        \/ disk' = disk /\ choice' = Quiet
    BY <1>28, <2>1 DEF ChoiceRollsBack
  <2>3. control.pc \notin FollowPcs \cup LeavePcs \cup {"source", "restoring"}
    BY <1>4, <2>1
  <2>4. "memory" \notin ghost.torn /\ "config" \notin ghost.torn =>
           disk.config = "disabled" /\ ~runtime.session.active
    BY <1>7, <2>1, <2>3 DEF AgreeKept, MemoryKept, ConfigKept, Switching, Pending
  <2> QED
    BY <1>7, <2>1, <2>2, <2>3, <2>4 DEF AgreeKept, MemoryKept, ConfigKept, RestoreKept, Switching, Pending, Quiet
<1>29. ASSUME NEW ok \in BOOLEAN, ChoiceEnables(ok) PROVE AgreeKept'
  <2>1. UNCHANGED control /\ choice.pc = "enable" /\ ghost'.torn = ghost.torn
    BY <1>6, <1>29 DEF ChoiceEnables
  <2>2. disk.session = choice.prior.session
    BY <2>1 DEF SessionsKnown
  <2>3. "memory" \notin ghost.torn /\ "config" \notin ghost.torn =>
           disk.config = "disabled" /\ choice.prior.session.active /\ ~runtime.session.active
    BY <2>1 DEF AgreeKept, ConfigKept, Pending
  <2>4. "restore" \notin ghost.torn /\ control.pc \notin {"cancel", "restore", "restoring"} =>
           runtime.restore = None /\ choice.prior.restore = None
    BY <2>1 DEF AgreeKept, RestoreKept, Pending
  <2>5. control.pc \notin FollowPcs \cup LeavePcs \cup {"source", "restoring"}
    BY <1>4, <2>1
  <2>6. CASE ok
    <3>1. /\ disk'.session = disk.session /\ (disk.config = "disabled" => disk'.config = "on")
          /\ runtime' = choice.prior /\ choice' = Quiet
      BY <1>2, <1>29, <2>6 DEF ChoiceEnables, Disks
    <3>2. runtime'.session = disk'.session /\ choice'.pc = "idle"
      BY <2>2, <3>1 DEF Quiet
    <3>3. MemoryKept' /\ RestoreKept'
      BY <2>1, <2>4, <3>1, <3>2 DEF MemoryKept, RestoreKept, Pending
    <3>4. ConfigKept'
      <4>1. "memory" \notin ghost.torn /\ "config" \notin ghost.torn =>
               disk'.config = "on" /\ disk'.session.active = TRUE
        BY <1>a, <2>2, <2>3, <3>1
      <4> QED
        BY <2>1, <2>5, <3>2, <4>1 DEF ConfigKept, Switching, Pending, Active
    <3> QED
      BY <3>3, <3>4 DEF AgreeKept
  <2>7. CASE ~ok
    <3>1. UNCHANGED <<disk, runtime>> /\ choice' = [pc |-> "undo"]
      BY <1>29, <2>7 DEF ChoiceEnables
    <3>2. MemoryKept' /\ RestoreKept'
      BY <2>1, <2>4, <3>1 DEF MemoryKept, RestoreKept, Switching, Pending
    <3>3. ConfigKept'
      <4>1. "memory" \notin ghost.torn /\ "config" \notin ghost.torn =>
               disk.config = "disabled" /\ runtime.session.active = FALSE
        BY <1>a, <2>3
      <4> QED
        BY <2>1, <2>5, <3>1, <4>1 DEF ConfigKept, Switching, Pending, Active
    <3> QED
      BY <3>2, <3>3 DEF AgreeKept
  <2> QED
    BY <2>6, <2>7
<1>h. ASSUME NEW ok \in BOOLEAN, ChoiceUndoes(ok) PROVE AgreeKept'
  <2>1. UNCHANGED <<control, runtime>> /\ choice.pc = "undo" /\ choice' = Quiet
    BY <1>h DEF ChoiceUndoes
  <2>2. /\ "memory" \notin ghost.torn /\ "config" \notin ghost.torn =>
              runtime.session.active = Active(disk.config)
        /\ "restore" \notin ghost.torn /\ control.pc \notin {"cancel", "restore", "restoring"} =>
              runtime.restore = None
    BY <2>1 DEF AgreeKept, ConfigKept, RestoreKept
  <2>3. control.pc \notin FollowPcs \cup LeavePcs \cup {"source", "restoring"}
    BY <1>4, <2>1
  <2>4. CASE ok
    <3>1. disk'.session = runtime.session /\ disk'.config = disk.config /\ UNCHANGED ghost
      BY <1>2, <1>h, <2>4 DEF ChoiceUndoes, Disks
    <3> QED
      BY <2>1, <2>2, <2>3, <3>1 DEF AgreeKept, MemoryKept, ConfigKept, RestoreKept, Switching, Pending, Quiet
  <2>5. CASE ~ok
    <3>1. UNCHANGED disk /\ ghost'.torn = ghost.torn \cup {"memory"}
      BY <1>c, <1>h, <2>5 DEF ChoiceUndoes
    <3> QED
      BY <2>1, <2>2, <2>3, <3>1 DEF AgreeKept, MemoryKept, ConfigKept, RestoreKept, Switching, Pending, Quiet
  <2> QED
    BY <2>4, <2>5
<1>30. CASE Passive
    BY <1>d, <1>30, PassiveLeaves
<1>31. CASE Tending
  <2>1. /\ UNCHANGED <<control, choice>> /\ Kept
        /\ control.pc \notin FollowPcs \cup LeavePcs \cup {"source"}
        /\ choice.pc \in {"idle", "render"}
        /\ runtime'.session.active = runtime.session.active
        /\ runtime'.restore = runtime.restore
    BY <1>31, TendingKeeps
  <2>2. MemoryKept'
    BY <2>1 DEF AgreeKept, MemoryKept, Switching, Kept
  <2>3. ConfigKept'
    <3>1. "memory" \notin ghost.torn => disk'.session.active = disk.session.active
      BY <2>1 DEF AgreeKept, MemoryKept, Switching, Kept
    <3> QED
      BY <2>1, <3>1 DEF AgreeKept, ConfigKept, Switching, Pending, Kept
  <2>4. RestoreKept'
    BY <2>1 DEF AgreeKept, RestoreKept, Pending, Kept
  <2> QED
    BY <2>2, <2>3, <2>4 DEF AgreeKept
<1>32. CASE Crash
  <2> DEFINE d == Recovered(disk)
  <2>1. \/ "config" \in ghost'.torn \/ (d.session.active <=> Active(d.config))
        \/ ~Halfway /\ "memory" \notin ghost.torn /\ "config" \notin ghost.torn
    <3> DEFINE lost == {o \in IF HasEnded THEN Outputs ELSE ghost.lost :
                           ghost.given[o] # None /\ ~Safe(d, o)}
    <3> DEFINE torn == IF (Halfway \/ ghost.torn \cap {"memory", "config"} # {})
                          /\ d.session.active # Active(d.config) THEN {"config"} ELSE {}
    <3>1. ghost' = [ghost EXCEPT !.lost = lost, !.torn = torn]
      BY <1>32 DEF Crash
    <3>2. d.session.active \in BOOLEAN /\ Active(d.config) \in BOOLEAN
      BY <1>2, Recovering DEF Disks, Sound, Sessions, Active
    <3> HIDE DEF lost, torn, d
    <3>3. ghost'.torn = torn
      BY <3>1 DEF GhostTyped
    <3> QED
      BY <3>2, <3>3 DEF torn
  <2>2. d.session \in Sound /\ ~d.session.starting
    BY <1>2, Recovering DEF Disks
  <2>3. Loaded(d.session, disk.config).session = d.session /\ Loaded(d.session, disk.config).restore = None
    BY <1>2, <2>2, Loading
  <2>4. /\ disk' = d /\ runtime'.session = d.session /\ runtime'.restore = None
        /\ choice' = Quiet /\ control' = Quiet /\ d.config = disk.config
    BY <1>2, <1>32, <2>3, Recovering DEF Crash, Load
  <2>5. CASE ~Halfway /\ "memory" \notin ghost.torn /\ "config" \notin ghost.torn
    <3>1. CASE ~disk.session.starting
      <4>1. control.pc \notin FollowPcs
        BY <3>1 DEF SessionsKnown
      <4>2. disk.session.active <=> Active(disk.config)
        BY <2>5, <4>1 DEF AgreeKept, ConfigKept, Switching, Halfway
      <4>3. d = disk
        BY <1>2, <3>1, Recovering
      <4> QED
        BY <1>9, <2>4, <4>2, <4>3 DEF Quiet
    <3>2. CASE disk.session.starting
      <4>1. disk.session.active
        BY <3>2 DEF SessionsKnown
      <4>2. d.session.active <=> Active(disk.config)
        BY <1>2, <3>2, <4>1, Recovering
      <4> HIDE DEF d
      <4> QED
        BY <1>9, <2>4, <4>2 DEF Quiet
    <3> QED
      BY <3>1, <3>2
  <2> HIDE DEF d
  <2> QED
    BY <1>9, <2>1, <2>4, <2>5 DEF Quiet
<1>33. ASSUME NEW c \in Configs, Edit(c) PROVE AgreeKept'
  <2>1. /\ UNCHANGED <<control, choice, runtime>> /\ disk'.session = disk.session
    BY <1>2, <1>33 DEF Edit, threads, Disks
  <2>2. ghost'.torn = ghost.torn \cup {"config"}
    BY <1>5, <1>33 DEF Edit, Tears, GhostTyped
  <2> QED
    BY <2>1, <2>2 DEF AgreeKept, MemoryKept, ConfigKept, RestoreKept, Switching, Pending
<1>34. ASSUME NEW x \in Outputs, NEW p \in Playlists \cup {None}, Assign(x, p) PROVE AgreeKept'
  <2>1. UNCHANGED <<control, choice, runtime>> /\ disk'.session = disk.session /\ disk'.config = disk.config
    BY <1>2, <1>34 DEF Assign, threads, Disks
  <2>2. ghost'.torn = ghost.torn
    BY <1>34 DEF Assign, Forgets, GhostTyped
  <2> QED
    BY <2>1, <2>2 DEF AgreeKept, MemoryKept, ConfigKept, RestoreKept, Switching, Pending
<1> QED
    BY <1>10, <1>11, <1>13, <1>14, <1>15, <1>16, <1>17, <1>19, <1>20, <1>22, <1>23, <1>24, <1>25, <1>26,
       <1>27, <1>28, <1>29, <1>30, <1>31, <1>32, <1>33, <1>34, <1>e, <1>f, <1>g, <1>h, Moves, Classes
    DEF FollowMoves, ChoiceMoves, ChoiceSteps

-----------------------------------------------------------------------------
(* Wallpapers *)

LEMMA OwnedRightKept == ASSUME Typed, SessionsKnown, OwnedRight, Next PROVE OwnedRight'
<1> USE DEF Typed, FollowPcs, LeavePcs
<1> DEFINE LiveAfter(s, o) == \/ s.active
                              \/ control'.pc = "restore" /\ o \in control'.todo
                              \/ control'.pc = "restoring" /\ o \in control'.next.todo
<1> DEFINE RightAt(s, o) ==
        /\ Owns(s, o, screen[o]) => ghost.by[o] = "weather"
        /\ choice.pc = "render" /\ choice.output = o /\ Owns(s, o, choice.before) =>
              choice.by = "weather"
        /\ runner.pc = "applying" /\ runner.output = o /\ Owns(s, o, runner.before) =>
              runner.by = "weather"
<1> DEFINE RightAfter(s, o) ==
        /\ Owns(s, o, screen'[o]) => ghost'.by[o] = "weather"
        /\ choice'.pc = "render" /\ choice'.output = o /\ Owns(s, o, choice'.before) =>
              choice'.by = "weather"
        /\ runner'.pc = "applying" /\ runner'.output = o /\ Owns(s, o, runner'.before) =>
              runner'.by = "weather"
<1> DEFINE Before(s) == \A o \in Outputs : Live(s, o) => RightAt(s, o)
<1> DEFINE After(s) == \A o \in Outputs : LiveAfter(s, o) => RightAfter(s, o)
<1> DEFINE Sessions2 == /\ After(runtime'.session) /\ After(disk'.session)
                        /\ Pending' => After(choice'.prior.session)
<1> DEFINE Painted == /\ runner'.pc = "applying" => ghost'.by[runner'.output] = "weather"
                      /\ choice'.pc = "render" => screen'[choice'.output] = "chosen"
<1>1. /\ Before(runtime.session) /\ Before(disk.session)
      /\ Pending => Before(choice.prior.session)
    BY DEF OwnedRight, Right
<1>2. Sessions2 /\ Painted => OwnedRight'
    BY DEF OwnedRight, Right, Live
<1>3. /\ runner.pc = "applying" => ghost.by[runner.output] = "weather"
      /\ choice.pc = "render" => screen[choice.output] = "chosen"
    BY DEF OwnedRight
<1>4. runtime \in Runtimes /\ runtime.session \in Sound /\ ~runtime.session.starting
    BY DEF StateTyped, Running
<1>5. disk \in Disks /\ disk.session \in Sound /\ disk.config \in Configs
    BY DEF StateTyped, Disks
<1>6. ghost.by \in [Outputs -> By] /\ screen \in [Outputs -> Keys]
    BY DEF GhostTyped, StateTyped
<1>7. ASSUME NEW what PROVE Forgets(what).by = ghost.by /\ Loses(what).by = ghost.by
    BY DEF Forgets, Loses, GhostTyped
<1>8. /\ \A what : Tears(what).by = ghost.by
      /\ [Tears({"memory"}) EXCEPT !.lost = Outputs].by = ghost.by /\ Mends.by = ghost.by
    BY DEF Tears, Mends, GhostTyped
\* Nothing is painted, and the session is one that was right.
<1> DEFINE Unpainted == /\ screen' = screen /\ ghost'.by = ghost.by
                        /\ choice'.pc = "render" => choice' = choice
                        /\ runner'.pc = "applying" => runner' = runner
<1>9. Unpainted => Painted
    BY <1>3
<1>10. ASSUME Unpainted, NEW s, NEW t, Before(s), t.owned = s.owned,
              \A o \in Outputs : LiveAfter(t, o) => Live(s, o)
       PROVE  After(t)
    BY <1>10 DEF Owns
\* No session is right that owns nothing, or that is over.
<1>11. ASSUME NEW t, t.owned = Nothing(Outputs) PROVE After(t)
    BY <1>11, NothingTyped DEF Owns
<1>12. ASSUME NEW t, ~t.active, control'.pc \notin {"restore", "restoring"} PROVE After(t)
    BY <1>12
<1>13. ASSUME NEW s, NEW t, t.active => s.active,
              \/ control' = control \/ control'.pc \notin {"restore", "restoring"}
       PROVE  \A o \in Outputs : LiveAfter(t, o) => Live(s, o)
    BY <1>13 DEF Live
\* The wallpapers of the user and of the playlists are owned by no session.
<1>14. ASSUME NEW s \in Sound, NEW o \in Outputs, NEW key \in {"chosen", "list"} PROVE ~Owns(s, o, key)
  <2>1. s.owned[o] \in Maybe(Contexts)
    BY DEF Sound, Sessions
  <2> QED
    BY <2>1, Distinct DEF Owns, Maybe
<1> HIDE DEF Before, After, Sessions2, Painted, Unpainted, LiveAfter
<1>15. Unpainted /\ Sessions2 => OwnedRight'
    BY <1>2, <1>9
<1>16. ASSUME Unpainted, NEW s, Before(s), control' = control \/ control'.pc \notin {"restore", "restoring"}
       PROVE  \A t : t.owned = s.owned /\ (t.active => s.active) => After(t)
    BY <1>10, <1>13, <1>16
<1>17. ASSUME Unpainted, control' = control \/ control'.pc \notin {"restore", "restoring"},
              disk'.session \in {disk.session, runtime.session}, runtime'.session = runtime.session,
              Pending' => Pending /\ choice'.prior = choice.prior
       PROVE  OwnedRight'
  <2>1. After(runtime'.session) /\ After(disk'.session)
    BY <1>1, <1>16, <1>17
  <2>2. Pending' => After(choice'.prior.session)
    BY <1>1, <1>16, <1>17
  <2> QED
    BY <1>15, <1>17, <2>1, <2>2 DEF Sessions2
<1>18. control.pc \in FollowPcs \cup LeavePcs \cup {"source"} =>
         /\ choice.pc = "idle"
         /\ control \in [pc : FollowPcs \cup LeavePcs \cup {"source"}, session : Sound]
    BY DEF OneHolder, ControlTyped, Restoring
<1>19. ASSUME UNCHANGED <<screen, choice, runner>>, ghost'.by = ghost.by PROVE Unpainted
    BY <1>19 DEF Unpainted
<1>20. UNCHANGED choice => (Pending' => Pending /\ choice'.prior = choice.prior)
    BY DEF Pending
<1>21. UNCHANGED choice /\ choice.pc = "idle" => ~Pending'
    BY DEF Pending
<1>22. ASSUME NEW ok \in BOOLEAN, Follow(ok) PROVE OwnedRight'
  <2>1. /\ runtime'.session = runtime.session /\ UNCHANGED <<screen, choice, runner>>
        /\ choice.pc = "idle" /\ control.pc = "idle"
    BY <1>22, Idling DEF Follow, StateTyped, Locked
  <2>2. CASE ok
    <3> DEFINE given == [o \in Outputs |-> IF disk.db[o] # None THEN disk.db[o] ELSE ghost.given[o]]
    <3> DEFINE lost == {o \in Outputs : disk.db[o] = None /\ ghost.given[o] # None}
    <3>a. ghost' = [ghost EXCEPT !.given = given, !.lost = lost]
      BY <1>22, <2>2 DEF Follow, GhostTyped
    <3>b. control' = [pc |-> "config", session |-> Captured] /\ disk' = [disk EXCEPT !.session = Captured]
      BY <1>22, <2>2 DEF Follow
    <3> HIDE DEF given, lost, Captured
    <3>1. disk'.session = Captured /\ control'.pc = "config" /\ ghost'.by = ghost.by
      BY <1>5, <3>a, <3>b DEF Disks, GhostTyped
    <3>2. Captured.owned = Nothing(Outputs)
      BY DEF Captured, NoSession
    <3>3. Unpainted
      BY <1>19, <2>1, <3>1
    <3>4. After(runtime'.session)
      BY <1>1, <1>16, <2>1, <3>1, <3>3
    <3>5. After(disk'.session)
      BY <1>11, <3>1, <3>2
    <3> QED
      BY <1>15, <1>21, <2>1, <3>3, <3>4, <3>5 DEF Sessions2
  <2>3. CASE ~ok
    <3>1. UNCHANGED <<control, disk, ghost>>
      BY <1>22, <2>3 DEF Follow
    <3> QED
      BY <1>17, <1>19, <1>20, <2>1, <3>1
  <2> QED
    BY <2>2, <2>3
<1>23. ASSUME NEW ok \in BOOLEAN, FollowConfig(ok) \/ FollowCommit(ok) \/ Withdraw(ok) PROVE OwnedRight'
  <2>1. /\ UNCHANGED <<runtime, screen, choice, runner>> /\ choice.pc = "idle"
        /\ control \in [pc : FollowPcs \cup LeavePcs \cup {"source"}, session : Sound]
    BY <1>18, <1>23 DEF FollowConfig, FollowCommit, Withdraw
  <2>2. ghost'.by = ghost.by
    BY <1>8, <1>23 DEF FollowConfig, FollowCommit, Withdraw
  <2>3. disk'.session = disk.session /\ control'.pc \in FollowPcs \cup {"idle"}
    BY <1>5, <1>23, <2>1 DEF FollowConfig, FollowCommit, Withdraw, Disks, Quiet
  <2> QED
    BY <1>17, <1>19, <1>20, <2>1, <2>2, <2>3
<1>a. ASSUME NEW ok \in BOOLEAN, WithdrawEnds(ok) PROVE OwnedRight'
  <2>1. /\ UNCHANGED <<runtime, screen, choice, runner>> /\ choice.pc = "idle" /\ control'.pc = "idle"
        /\ control.session \in Sound /\ disk'.session \in {disk.session, Stopped(control.session)}
    BY <1>5, <1>18, <1>a DEF WithdrawEnds, Disks, Quiet
  <2>2. ghost'.by = ghost.by
    BY <1>8, <1>a DEF WithdrawEnds
  <2>3. Unpainted
    BY <1>19, <2>1, <2>2
  <2>4. After(runtime'.session) /\ After(disk.session)
    BY <1>1, <1>16, <2>1, <2>3
  <2>5. After(Stopped(control.session))
    BY <1>12, <2>1, Stopping
  <2> QED
    BY <1>15, <1>21, <2>1, <2>3, <2>4, <2>5 DEF Sessions2
<1>24. ASSUME NEW d \in Disks, NEW s \in Sound, ~s.starting, Install(d, s)
       PROVE  disk' = Recovered(d) /\ runtime'.session = s
  <2>1. d.config \in Configs /\ runtime.restore \in Maybe(Configs)
    BY <1>4 DEF Disks, Runtimes
  <2> QED
    BY <1>24, <2>1, Loading DEF Install
<1>25. ASSUME NEW ok \in BOOLEAN, FollowFinish(ok) PROVE OwnedRight'
  <2> DEFINE started == [control.session EXCEPT !.starting = FALSE]
  <2> DEFINE d == [disk EXCEPT !.session = started]
  <2>1. /\ UNCHANGED <<screen, choice, runner>> /\ choice.pc = "idle"
        /\ control.session \in Sound /\ control.session.owned = Nothing(Outputs)
    BY <1>18, <1>25 DEF FollowFinish, SessionsKnown
  <2>2. ghost'.by = ghost.by
    BY <1>8, <1>25 DEF FollowFinish, GhostTyped
  <2>3. started \in Sound /\ ~started.starting /\ started.owned = Nothing(Outputs)
    BY <2>1, Ending
  <2>4. d \in Disks /\ d.session = started
    BY <1>5, <2>3 DEF Disks
  <2>5. CASE ok
    <3>1. Install(d, started)
      BY <1>25, <2>5 DEF FollowFinish
    <3> HIDE DEF d, started
    <3>2. Recovered(d) = d
      BY <2>3, <2>4, Recovering
    <3>3. disk' = d /\ runtime'.session = started
      BY <1>24, <2>3, <2>4, <3>1, <3>2
    <3>4. After(runtime'.session) /\ After(disk'.session)
      BY <1>11, <2>3, <2>4, <3>3
    <3> QED
      BY <1>15, <1>19, <1>21, <2>1, <2>2, <3>4 DEF Sessions2
  <2>6. CASE ~ok
    <3>1. UNCHANGED <<disk, runtime>> /\ control'.pc = "idle"
      BY <1>25, <2>6 DEF FollowFinish, Quiet
    <3> QED
      BY <1>17, <1>19, <1>20, <2>1, <2>2, <3>1
  <2> QED
    BY <2>5, <2>6
<1>26. CASE Leave
  <2>1. /\ runtime'.session = runtime.session /\ UNCHANGED <<disk, screen, choice, runner, ghost>>
        /\ control'.pc \in {"settings", "source"}
    BY <1>26, Idling DEF Leave, StateTyped
  <2> QED
    BY <1>17, <1>19, <1>20, <2>1
<1>27. ASSUME NEW ok \in BOOLEAN, LeaveSettings(ok) \/ LeaveAssign(ok) PROVE OwnedRight'
  <2>1. /\ UNCHANGED <<runtime, screen, choice, runner>> /\ disk'.session = disk.session
        /\ ghost'.by = ghost.by
    BY <1>5, <1>7, <1>8, <1>27 DEF LeaveSettings, LeaveAssign, Disks
  <2>2. control'.pc \in {"idle", "assign", "close"}
    BY <1>18, <1>27 DEF LeaveSettings, LeaveAssign, Quiet
  <2> QED
    BY <1>17, <1>19, <1>20, <2>1, <2>2
<1>28. ASSUME NEW ok \in BOOLEAN, LeaveClose(ok) PROVE OwnedRight'
  <2> DEFINE ended == [control.session EXCEPT !.active = FALSE]
  <2> DEFINE d == [disk EXCEPT !.session = ended]
  <2>1. /\ UNCHANGED <<screen, choice, runner>> /\ choice.pc = "idle"
        /\ control.session = runtime.session /\ runtime.session.active
    BY <1>18, <1>28 DEF LeaveClose, SessionsKnown
  <2>2. ghost'.by = ghost.by
    <3> DEFINE torn == IF Active(disk.config) THEN {"config"} ELSE {}
    <3>1. ghost' = [ghost EXCEPT !.chose = FALSE, !.torn = torn] \/ ghost' = Tears({"config", "restore"})
      BY <1>28 DEF LeaveClose
    <3> HIDE DEF torn
    <3> QED
      BY <1>8, <3>1 DEF GhostTyped
  <2>3. ended \in Sound /\ ~ended.starting /\ ended.owned = runtime.session.owned
    <3>1. control.session \in Sound /\ ~control.session.starting
      BY <1>4, <2>1
    <3>2. /\ ended \in Sound /\ ended.starting = control.session.starting
          /\ ended.owned = control.session.owned
      BY <3>1, Ending
    <3> QED
      BY <2>1, <3>1, <3>2
  <2>4. d \in Disks /\ d.session = ended /\ disk.config \in Maybe(Configs)
    BY <1>5, <2>3 DEF Disks, Maybe
  <2>5. CASE ok
    <3>1. /\ disk' = Recovered(d) /\ runtime' = [Loaded(ended, disk.config) EXCEPT !.restore = disk.config]
      BY <1>28, <2>5 DEF LeaveClose
    <3> HIDE DEF d, ended
    <3>2. Recovered(d) = d
      BY <2>3, <2>4, Recovering
    <3>3. disk'.session = ended /\ runtime'.session = ended
      BY <1>5, <2>3, <2>4, <3>1, <3>2, Loading
    <3>4. \A o \in Outputs : LiveAfter(ended, o) => Live(runtime.session, o)
      BY <2>1 DEF Live
    <3>5. Unpainted
      BY <1>19, <2>1, <2>2
    <3>6. After(ended)
      BY <1>1, <1>10, <2>3, <3>4, <3>5
    <3> QED
      BY <1>15, <1>21, <2>1, <3>3, <3>5, <3>6 DEF Sessions2
  <2>6. CASE ~ok
    <3>1. /\ control'.pc = "idle" /\ UNCHANGED disk
          /\ runtime' = [runtime EXCEPT !.restore = disk.config]
      BY <1>28, <2>6 DEF LeaveClose, Quiet
    <3>2. runtime'.session = runtime.session
      BY <1>4, <3>1 DEF Runtimes
    <3> QED
      BY <1>17, <1>19, <1>20, <2>1, <2>2, <3>1, <3>2
  <2> QED
    BY <2>5, <2>6
<1>29. ASSUME NEW ok \in BOOLEAN, LeaveSource(ok) PROVE OwnedRight'
  <2> DEFINE d == [disk EXCEPT !.config = "off"]
  <2>1. /\ UNCHANGED <<screen, choice, runner>> /\ choice.pc = "idle"
        /\ control.session = runtime.session /\ ~runtime.session.active
    BY <1>18, <1>29 DEF LeaveSource, SessionsKnown
  <2>2. ghost'.by = ghost.by
    BY <1>29 DEF LeaveSource, GhostTyped
  <2>3. d \in Disks /\ d.session = disk.session
    BY <1>5 DEF Disks, Configs
  <2>4. CASE ok
    <3>1. control' = [pc |-> "cancel"] /\ Install(d, runtime.session)
      BY <1>29, <2>1, <2>4 DEF LeaveSource
    <3> HIDE DEF d
    <3>2. /\ Recovered(d).session.owned = disk.session.owned
          /\ Recovered(d).session.active => disk.session.active
      BY <2>3, Recovering DEF SessionsKnown
    <3>3. disk'.session = Recovered(d).session /\ runtime'.session = runtime.session
      BY <1>4, <1>24, <2>3, <3>1
    <3>4. After(runtime'.session) /\ After(disk'.session)
      BY <1>1, <1>16, <1>19, <2>1, <2>2, <3>1, <3>2, <3>3
    <3> QED
      BY <1>15, <1>19, <1>21, <2>1, <2>2, <3>4 DEF Sessions2
  <2>5. CASE ~ok
    <3>1. UNCHANGED <<disk, runtime>> /\ control'.pc = "idle"
      BY <1>29, <2>5 DEF LeaveSource, Quiet
    <3> QED
      BY <1>17, <1>19, <1>20, <2>1, <2>2, <3>1
  <2> QED
    BY <2>4, <2>5
\* While the thread restores, no session is followed: the outputs it has yet to restore
\* are all that counts, and the one it paints is not among them.
<1>30. ASSUME NEW x, UNCHANGED <<disk, runtime>>, choice' = choice, choice.pc = "idle",
              runner' = runner, runner.pc # "applying", control.pc \in {"restore", "restoring"},
              \A o \in Outputs : o # x => screen'[o] = screen[o] /\ ghost'.by[o] = ghost.by[o],
              control'.pc = "restore" => control'.todo \subseteq
                  (IF control.pc = "restore" THEN control.todo ELSE control.next.todo) \ {x},
              control'.pc = "restoring" => control'.next.todo \subseteq
                  (IF control.pc = "restore" THEN control.todo ELSE control.next.todo) \ {x},
              control'.pc \in {"restore", "restoring"}
       PROVE  OwnedRight'
  <2>1. ~runtime.session.active /\ ~disk.session.active
    BY <1>30 DEF SessionsKnown
  <2>2. ASSUME NEW s, ~s.active, NEW o \in Outputs, LiveAfter(s, o) PROVE Live(s, o) /\ o # x
    BY <1>30, <2>2 DEF Live, LiveAfter
  <2>3. ASSUME NEW s, ~s.active, Before(s) PROVE After(s)
    BY <1>30, <2>2, <2>3 DEF Before, After
  <2>4. After(runtime'.session) /\ After(disk'.session)
    BY <1>1, <1>30, <2>1, <2>3
  <2> QED
    BY <1>2, <1>30, <2>4 DEF Sessions2, Painted, Pending
<1>31. ASSUME NEW x \in Outputs, Restore(x) PROVE OwnedRight'
  <2> DEFINE rest == [pc |-> "restore", session |-> control.session, todo |-> control.todo \ {x}]
  <2>1. /\ UNCHANGED <<disk, runtime, choice, runner, ghost>> /\ choice.pc = "idle"
        /\ runner.pc # "applying" /\ control.pc = "restore"
        /\ \/ control' = rest
           \/ control' = [pc |-> "restoring", next |-> rest, output |-> x, before |-> screen[x]]
    BY <1>31 DEF Restore, Locked
  <2>2. \A o \in Outputs : o # x => screen'[o] = screen[o]
    BY <1>6, <1>31 DEF Restore
  <2>3. rest.todo = control.todo \ {x}
    OBVIOUS
  <2> HIDE DEF rest
  <2>4. \/ control' = rest
        \/ control'.pc = "restoring" /\ control'.next = rest
    BY <2>1
  <2>5. rest.pc = "restore"
    BY DEF rest
  <2> QED
    BY <1>30, <2>1, <2>2, <2>3, <2>4, <2>5
<1>32. ASSUME NEW ok \in BOOLEAN, RestoreEnds(ok) PROVE OwnedRight'
  <2>1. /\ UNCHANGED <<disk, runtime, choice, runner>> /\ control.pc = "restoring"
        /\ choice.pc = "idle" /\ runner.pc # "applying" /\ control' = control.next
    BY <1>32 DEF RestoreEnds, OneHolder
  <2>2. control.output \notin control.next.todo /\ control.next.pc = "restore"
    BY <2>1 DEF ControlTyped, Restoring
  <2>3. \A o \in Outputs : o # control.output => screen'[o] = screen[o] /\ ghost'.by[o] = ghost.by[o]
    BY <1>6, <1>32 DEF RestoreEnds, GhostTyped
  <2> QED
    BY <1>30, <2>1, <2>2, <2>3
<1>33. ASSUME CancelRestore PROVE runtime'.session = runtime.session
    BY <1>4, <1>33 DEF CancelRestore, Runtimes
<1>34. CASE FollowReturns
  <2>1. ghost'.by = ghost.by
    BY <1>34 DEF FollowReturns, GhostTyped
  <2> QED
    BY <1>17, <1>19, <1>20, <1>33, <1>34, <2>1 DEF FollowReturns, Quiet
\* A choice paints the output; what it has covered is remembered with it.
<1>35. ASSUME NEW x \in Outputs, Stage(x, "chosen"), ghost' = [ghost EXCEPT !.by[x] = "user"],
              UNCHANGED <<control, runner>>, runner.pc # "applying", choice.pc \in {"idle", "disable"},
              NEW prior, choice' = Chosen(x, prior)
       PROVE  /\ Painted
              /\ \A s \in Sound : \A t \in Sound :
                    Before(s) /\ t.owned = s.owned /\ (t.active => s.active) => After(t)
  <2>1. /\ choice'.pc = "render" /\ choice'.output = x /\ choice'.before = screen[x]
        /\ choice'.by = ghost.by[x] /\ choice'.prior = prior
    BY <1>35 DEF Chosen
  <2>2. /\ screen'[x] = "chosen" /\ \A o \in Outputs : o # x => screen'[o] = screen[o]
        /\ \A o \in Outputs : o # x => ghost'.by[o] = ghost.by[o]
    BY <1>6, <1>35 DEF Stage, GhostTyped
  <2>3. ASSUME NEW s \in Sound, NEW t \in Sound, Before(s), t.owned = s.owned, t.active => s.active,
               NEW o \in Outputs, LiveAfter(t, o)
        PROVE  RightAfter(t, o)
    <3>1. Live(s, o)
      BY <1>13, <1>35, <2>3
    <3>2. RightAt(s, o)
      BY <2>3, <3>1 DEF Before
    <3>3. CASE o = x
      <4>1. ~Owns(t, o, screen'[o])
        BY <1>14, <2>2, <3>3
      <4>2. Owns(t, o, screen[o]) => ghost.by[o] = "weather"
        BY <2>3, <3>2 DEF Owns
      <4> QED
        BY <1>35, <2>1, <3>3, <4>1, <4>2
    <3>4. CASE o # x
      BY <1>35, <2>1, <2>2, <2>3, <3>2, <3>4 DEF Owns
    <3> QED
      BY <3>3, <3>4
  <2>4. Painted
    BY <1>35, <2>1, <2>2 DEF Painted
  <2> QED
    BY <2>3, <2>4 DEF After
<1>36. ASSUME NEW x \in Outputs, Choose(x) PROVE OwnedRight'
  <2>1. UNCHANGED <<disk, runtime, control, runner>> /\ choice.pc = "idle" /\ runner.pc # "applying"
    BY <1>36 DEF Choose, Locked
  <2>2. CASE Active(disk.config)
    <3>1. choice'.pc = "stop" /\ UNCHANGED <<screen, ghost>>
      BY <1>36, <2>2 DEF Choose
    <3>2. Unpainted
      BY <2>1, <3>1 DEF Unpainted
    <3> QED
      BY <1>17, <2>1, <3>1, <3>2 DEF Pending
  <2>3. CASE ~Active(disk.config)
    <3>1. /\ choice' = Chosen(x, None) /\ Stage(x, "chosen")
          /\ ghost' = [ghost EXCEPT !.by[x] = "user"]
      BY <1>36, <2>3 DEF Choose
    <3>2. Painted /\ After(runtime'.session) /\ After(disk'.session)
      BY <1>1, <1>4, <1>5, <1>35, <2>1, <3>1
    <3>3. ~Pending'
      BY <3>1 DEF Pending, Chosen
    <3> QED
      BY <1>2, <3>2, <3>3 DEF Sessions2
  <2> QED
    BY <2>2, <2>3
<1>37. ASSUME NEW ok \in BOOLEAN, ChoiceStop(ok) PROVE OwnedRight'
  <2>1. /\ UNCHANGED <<runtime, screen, control, runner, ghost>>
        /\ \/ choice'.pc = "disable" /\ disk'.session = Stopped(runtime.session)
           \/ choice' = Quiet /\ disk' = disk
    BY <1>5, <1>37 DEF ChoiceStop, ChoiceTyped, Rendered, Disks
  <2>2. Unpainted /\ ~Pending'
    BY <2>1 DEF Unpainted, Quiet, Pending
  <2>3. After(Stopped(runtime.session))
    BY <1>1, <1>4, <1>16, <2>1, <2>2, Stopping
  <2>4. After(runtime'.session) /\ After(disk.session)
    BY <1>1, <1>16, <2>1, <2>2
  <2> QED
    BY <1>15, <2>1, <2>2, <2>3, <2>4 DEF Sessions2
<1>38. ASSUME NEW ok \in BOOLEAN, ChoiceDisable(ok) PROVE OwnedRight'
  <2> DEFINE d == [disk EXCEPT !.config = IF Active(@) THEN "disabled" ELSE @]
  <2>1. /\ UNCHANGED <<control, runner>> /\ choice.pc = "disable"
        /\ disk.session = Stopped(runtime.session) /\ runner.pc # "applying"
    BY <1>38 DEF ChoiceDisable, SessionsKnown, OneHolder
  <2>2. ~disk.session.starting
    BY <1>4, <2>1, Stopping
  <2>3. d \in Disks /\ d.session = disk.session /\ d.config \in Configs
    BY <1>5 DEF Disks, Configs
  <2>4. CASE ok
    <3>1. /\ disk' = d /\ runtime' = Load(d) /\ choice' = Chosen(choice.output, runtime)
          /\ Stage(choice.output, "chosen") /\ choice.output \in Outputs
          /\ ghost' = [ghost EXCEPT !.by[choice.output] = "user"]
      BY <1>38, <2>1, <2>4 DEF ChoiceDisable, ChoiceTyped, Rendered
    <3> HIDE DEF d
    <3>2. Recovered(d) = d
      BY <2>2, <2>3, Recovering
    <3>3. runtime'.session = disk.session
      BY <1>5, <2>2, <2>3, <3>1, <3>2, Loading DEF Load
    <3>4. choice'.prior = runtime
      BY <3>1 DEF Chosen
    <3>5. Painted /\ After(disk.session) /\ After(runtime.session)
      BY <1>1, <1>4, <1>5, <1>35, <2>1, <3>1
    <3> QED
      BY <1>2, <2>3, <3>1, <3>3, <3>4, <3>5 DEF Sessions2
  <2>5. CASE ~ok
    <3>1. UNCHANGED <<disk, runtime, screen, ghost>> /\ choice' = [pc |-> "undo"]
      BY <1>38, <2>5 DEF ChoiceDisable
    <3>2. Unpainted /\ ~Pending'
      BY <2>1, <3>1 DEF Unpainted, Pending
    <3> QED
      BY <1>17, <2>1, <3>1, <3>2
  <2> QED
    BY <2>4, <2>5
<1>39. CASE ChoiceCommits
  <2>1. /\ UNCHANGED <<disk, screen, control, runner>> /\ choice' = Quiet
        /\ runtime'.session = runtime.session
    BY <1>33, <1>39 DEF ChoiceCommits
  <2>2. ghost'.by = ghost.by
    BY <1>39 DEF ChoiceCommits, GhostTyped
  <2>3. Unpainted /\ ~Pending'
    BY <2>1, <2>2 DEF Unpainted, Quiet, Pending
  <2> QED
    BY <1>17, <2>1, <2>3
<1>40. CASE ChoiceFails
  <2> DEFINE x == choice.output
  <2>1. /\ UNCHANGED <<disk, runtime, control, runner>> /\ choice.pc = "render"
        /\ choice' = IF choice.prior = None THEN Quiet ELSE [pc |-> "rollback", prior |-> choice.prior]
        /\ runner.pc # "applying"
    BY <1>40 DEF ChoiceFails, OneHolder
  <2>2. choice.output \in Outputs
    BY <2>1 DEF ChoiceTyped, Rendered
  <2>3. /\ screen'[x] = choice.before /\ \A o \in Outputs : o # x => screen'[o] = screen[o]
        /\ ghost'.by[x] = choice.by /\ \A o \in Outputs : o # x => ghost'.by[o] = ghost.by[o]
    BY <1>6, <1>40, <2>2 DEF ChoiceFails, GhostTyped
  <2>4. choice'.pc \in {"idle", "rollback"} /\ (Pending' => Pending /\ choice'.prior = choice.prior)
    BY <2>1 DEF Quiet, Pending
  <2>5. ASSUME NEW s, Before(s) PROVE After(s)
    <3>1. ASSUME NEW o \in Outputs, LiveAfter(s, o) PROVE RightAfter(s, o)
      <4>1. RightAt(s, o)
        BY <1>13, <2>1, <2>5, <3>1 DEF Before
      <4> QED
        BY <2>1, <2>3, <2>4, <4>1
    <3> QED
      BY <3>1 DEF After
  <2>6. Painted
    BY <2>1, <2>4 DEF Painted
  <2> QED
    BY <1>1, <1>2, <2>1, <2>4, <2>5, <2>6 DEF Sessions2
<1>41. ASSUME NEW ok \in BOOLEAN, ChoiceRollsBack(ok) PROVE OwnedRight'
  <2>1. /\ UNCHANGED <<runtime, screen, control, runner>> /\ choice.pc = "rollback"
        /\ choice \in [pc : {"rollback", "enable"}, prior : Running] /\ ghost'.by = ghost.by
    BY <1>7, <1>41 DEF ChoiceRollsBack, ChoiceTyped, Rendered
  <2>2. \/ disk'.session = choice.prior.session /\ choice'.pc = "enable" /\ choice'.prior = choice.prior
        \/ disk' = disk /\ choice' = Quiet
    BY <1>5, <1>41, <2>1 DEF ChoiceRollsBack, Disks
  <2>3. Unpainted /\ (Pending' => choice'.prior = choice.prior) /\ Pending
    BY <2>1, <2>2 DEF Unpainted, Quiet, Pending
  <2>4. After(runtime'.session) /\ After(disk.session) /\ After(choice.prior.session)
    BY <1>1, <1>16, <2>1, <2>3
  <2> QED
    BY <1>15, <2>2, <2>3, <2>4 DEF Sessions2
<1>42. ASSUME NEW ok \in BOOLEAN, ChoiceEnables(ok) PROVE OwnedRight'
  <2>1. /\ UNCHANGED <<screen, control, runner>> /\ choice.pc = "enable"
        /\ choice' \in {Quiet, [pc |-> "undo"]} /\ ghost'.by = ghost.by
    BY <1>7, <1>42 DEF ChoiceEnables
  <2>2. disk'.session = disk.session /\ runtime' \in {choice.prior, runtime}
    BY <1>5, <1>42 DEF ChoiceEnables, Disks
  <2>3. Unpainted /\ ~Pending' /\ Pending
    BY <2>1 DEF Unpainted, Quiet, Pending
  <2>4. After(runtime.session) /\ After(disk.session) /\ After(choice.prior.session)
    BY <1>1, <1>16, <2>1, <2>3
  <2> QED
    BY <1>15, <2>2, <2>3, <2>4 DEF Sessions2
<1>b. ASSUME NEW ok \in BOOLEAN, ChoiceUndoes(ok) PROVE OwnedRight'
  <2>1. UNCHANGED <<runtime, screen, control, runner>> /\ choice' = Quiet
    BY <1>b DEF ChoiceUndoes
  <2>2. disk'.session \in {disk.session, runtime.session} /\ ghost'.by = ghost.by
    BY <1>5, <1>8, <1>b DEF ChoiceUndoes, Disks
  <2>3. Unpainted /\ ~Pending'
    BY <2>1, <2>2 DEF Unpainted, Quiet, Pending
  <2> QED
    BY <1>17, <2>1, <2>2, <2>3
<1>43. ASSUME Passive, UNCHANGED <<screen, ghost>>, runner'.pc = "applying" => runner' = runner
       PROVE  OwnedRight'
  <2>1. UNCHANGED <<disk, control, choice>> /\ runtime'.session = runtime.session
    BY <1>43, PassiveLeaves
  <2>2. Unpainted
    BY <1>43, <2>1 DEF Unpainted
  <2> QED
    BY <1>17, <1>20, <2>1, <2>2
<1>44. CASE WeatherApply
  <2> DEFINE x == runner.output
  <2>1. /\ UNCHANGED <<disk, runtime, control, choice>> /\ choice.pc = "idle" /\ x \in Outputs
    BY <1>44 DEF WeatherApply, Locked, RunnerTyped
  <2>2. CASE Allows(x, runner.key)
    <3>1. /\ runner'.pc = "applying" /\ runner'.output = x /\ runner'.before = screen[x]
          /\ runner'.by = ghost.by[x]
      BY <1>44, <2>2 DEF WeatherApply
    <3>2. /\ \A o \in Outputs : o # x => screen'[o] = screen[o] /\ ghost'.by[o] = ghost.by[o]
          /\ ghost'.by[x] = "weather"
      BY <1>6, <1>44, <2>1, <2>2 DEF WeatherApply, Stage, GhostTyped
    <3>3. ASSUME NEW s, Before(s) PROVE After(s)
      <4>1. ASSUME NEW o \in Outputs, LiveAfter(s, o) PROVE RightAfter(s, o)
        <5>1. RightAt(s, o)
          BY <1>13, <2>1, <3>3, <4>1 DEF Before
        <5> QED
          BY <2>1, <3>1, <3>2, <5>1
      <4> QED
        BY <4>1 DEF After
    <3>4. Painted /\ ~Pending'
      BY <2>1, <3>1, <3>2 DEF Painted, Pending
    <3> QED
      BY <1>1, <1>2, <2>1, <3>3, <3>4 DEF Sessions2
  <2>3. CASE ~Allows(x, runner.key)
    <3>1. runner'.pc = "retry" /\ UNCHANGED <<screen, ghost>>
      BY <1>44, <2>3 DEF WeatherApply
    <3> QED
      BY <1>43, <1>44, <3>1 DEF Passive
  <2> QED
    BY <2>2, <2>3
<1>45. CASE WeatherFails
  <2> DEFINE x == runner.output
  <2>1. /\ UNCHANGED <<disk, runtime, control, choice>> /\ choice.pc = "idle" /\ x \in Outputs
        /\ runner.pc = "applying" /\ runner'.pc = "retry"
    BY <1>45 DEF WeatherFails, OneHolder, RunnerTyped
  <2>2. /\ screen'[x] = runner.before /\ \A o \in Outputs : o # x => screen'[o] = screen[o]
        /\ ghost'.by[x] = runner.by /\ \A o \in Outputs : o # x => ghost'.by[o] = ghost.by[o]
    BY <1>6, <1>45, <2>1 DEF WeatherFails, GhostTyped
  <2>3. ASSUME NEW s, Before(s) PROVE After(s)
    <3>1. ASSUME NEW o \in Outputs, LiveAfter(s, o) PROVE RightAfter(s, o)
      <4>1. RightAt(s, o)
        BY <1>13, <2>1, <2>3, <3>1 DEF Before
      <4> QED
        BY <2>1, <2>2, <4>1
    <3> QED
      BY <3>1 DEF After
  <2>4. Painted /\ ~Pending'
    BY <2>1 DEF Painted, Pending
  <2> QED
    BY <1>1, <1>2, <2>1, <2>3, <2>4 DEF Sessions2
<1>46. CASE Passive
  <2>1. CASE Fetch \/ Ignore \/ Deactivate \/ Outdated \/ Retry
    BY <1>43, <1>46, <2>1 DEF Fetch, Ignore, Deactivate, Outdated, Retry, Quiet, threads
  <2>2. ASSUME NEW c \in Contexts, Accept(c) PROVE OwnedRight'
    BY <1>43, <1>46, <2>2 DEF Accept
  <2>3. ASSUME NEW o \in Outputs, Tick(o) PROVE OwnedRight'
    BY <1>43, <1>46, <2>3 DEF Tick
  <2> QED
    BY <1>44, <1>45, <1>46, <2>1, <2>2, <2>3 DEF Passive
\* The weather owns what it has put there, which nobody has painted since.
<1>47. ASSUME NEW ok \in BOOLEAN, WeatherCommits(ok) PROVE OwnedRight'
  <2> DEFINE x == runner.output
  <2>1. /\ UNCHANGED <<screen, control, choice>> /\ runner' = Quiet /\ runner.pc = "applying"
        /\ choice.pc = "idle" /\ x \in Outputs /\ ghost.by[x] = "weather"
    BY <1>3, <1>47 DEF WeatherCommits, OneHolder, RunnerTyped
  <2>2. ghost'.by = ghost.by
    BY <1>47 DEF WeatherCommits, SaveSession, Saves, GhostTyped
  <2>3. Unpainted /\ ~Pending'
    BY <2>1, <2>2 DEF Unpainted, Quiet, Pending
  <2>4. Tending
    BY <1>47 DEF Tending
  <2>5. runtime'.session.active = runtime.session.active /\ (disk'.session = runtime'.session \/ disk' = disk)
    BY <2>4, TendingKeeps DEF Kept
  <2>6. \A o \in Outputs : o # x => runtime'.session.owned[o] = runtime.session.owned[o]
    <3>1. CASE Active(disk.config)
      <4> DEFINE context == IF runtime.context = None THEN runtime.session.contexts[x] ELSE runtime.context
      <4> DEFINE s == [runtime.session EXCEPT !.owned[x] = runner.key, !.contexts[x] = context]
      <4>1. runtime' = [runtime EXCEPT !.session = s, !.due = @ \ {x}]
        BY <1>47, <3>1 DEF WeatherCommits
      <4> HIDE DEF context
      <4>2. \A o \in Outputs : o # x => s.owned[o] = runtime.session.owned[o]
        BY <1>4 DEF Sound, Sessions
      <4> HIDE DEF s
      <4> QED
        BY <1>4, <4>1, <4>2 DEF Runtimes
    <3>2. CASE ~Active(disk.config)
      BY <1>47, <3>2 DEF WeatherCommits
    <3> QED
      BY <3>1, <3>2
  <2>7. After(runtime'.session)
    <3>1. ASSUME NEW o \in Outputs, LiveAfter(runtime'.session, o) PROVE RightAfter(runtime'.session, o)
      <4>1. Live(runtime.session, o)
        BY <2>1, <2>5, <3>1 DEF Live, LiveAfter
      <4>2. RightAt(runtime.session, o)
        BY <1>1, <4>1 DEF Before
      <4>3. CASE o = x
        BY <2>1, <2>2, <4>3 DEF Quiet
      <4>4. CASE o # x
        BY <2>1, <2>2, <2>6, <4>2, <4>4 DEF Owns, Quiet
      <4> QED
        BY <4>3, <4>4
    <3> QED
      BY <3>1 DEF After
  <2>8. After(disk.session)
    BY <1>1, <1>16, <2>1, <2>3
  <2> QED
    BY <1>15, <2>3, <2>5, <2>7, <2>8 DEF Sessions2
<1>48. ASSUME NEW ok \in BOOLEAN, Feedback(ok) \/ Reconcile(ok) PROVE OwnedRight'
  <2>1. UNCHANGED <<screen, control, choice, runner>>
    BY <1>48 DEF Feedback, Reconcile
  <2>2. ghost'.by = ghost.by
    BY <1>48 DEF Feedback, Reconcile, SaveSession, Saves, GhostTyped
  <2>3. Unpainted
    BY <1>19, <2>1, <2>2
  <2>4. Tending /\ ~ \E b \in BOOLEAN : WeatherCommits(b)
    <3>1. ASSUME NEW b \in BOOLEAN, WeatherCommits(b) PROVE FALSE
      BY <2>1, <3>1 DEF WeatherCommits, Quiet
    <3> QED
      BY <1>48, <3>1 DEF Tending
  <2>5. /\ runtime'.session.active = runtime.session.active
        /\ runtime'.session.owned = runtime.session.owned
        /\ disk'.session = runtime'.session \/ disk' = disk
    BY <2>4, TendingKeeps DEF Kept
  <2>6. After(runtime'.session) /\ After(disk.session)
    BY <1>1, <1>16, <2>1, <2>3, <2>5
  <2>7. Pending' => After(choice'.prior.session)
    BY <1>1, <1>16, <1>20, <2>1, <2>3
  <2> QED
    BY <1>15, <2>3, <2>5, <2>6, <2>7 DEF Sessions2
<1>49. ASSUME NEW x \in Outputs, NEW ok \in BOOLEAN, PlaylistApply(x, ok) PROVE OwnedRight'
  <2>1. UNCHANGED <<control, choice, runner>> /\ choice.pc = "idle" /\ runner.pc # "applying"
    BY <1>49 DEF PlaylistApply, Locked, threads
  <2>2. /\ screen'[x] = "list" /\ \A o \in Outputs : o # x => screen'[o] = screen[o]
    BY <1>6, <1>49 DEF PlaylistApply, Stage
  <2>3. \A o \in Outputs : o # x => ghost'.by[o] = ghost.by[o]
    <3> DEFINE torn == IF ok THEN ghost.torn \ {"unsaved"} ELSE ghost.torn \cup {"unsaved"}
    <3>1. \/ ghost' = [ghost EXCEPT !.by[x] = "list"]
          \/ ghost' = [ghost EXCEPT !.by[x] = "list", !.torn = torn]
      BY <1>49 DEF PlaylistApply
    <3> HIDE DEF torn
    <3> QED
      BY <1>6, <3>1 DEF GhostTyped
  <2>4. Tending /\ ~ \E b \in BOOLEAN : WeatherCommits(b)
    <3>1. ASSUME NEW b \in BOOLEAN, WeatherCommits(b) PROVE FALSE
      BY <2>1, <3>1 DEF WeatherCommits
    <3> QED
      BY <1>49, <3>1 DEF Tending
  <2>5. /\ runtime'.session.active = runtime.session.active
        /\ runtime'.session.owned = runtime.session.owned
        /\ disk'.session = runtime'.session \/ disk' = disk
    BY <2>4, TendingKeeps DEF Kept
  <2>6. ASSUME NEW s \in Sound, NEW t \in Sound, Before(s), t.owned = s.owned, t.active => s.active
        PROVE  After(t)
    <3>1. ASSUME NEW o \in Outputs, LiveAfter(t, o) PROVE RightAfter(t, o)
      <4>1. RightAt(s, o)
        BY <1>13, <2>1, <2>6, <3>1 DEF Before
      <4>2. CASE o = x
        BY <1>14, <2>1, <2>2, <4>2
      <4>3. CASE o # x
        BY <2>1, <2>2, <2>3, <2>6, <4>1, <4>3 DEF Owns
      <4> QED
        BY <4>2, <4>3
    <3> QED
      BY <3>1 DEF After
  <2>7. runtime'.session \in Sound
    BY StateTypedKept DEF StateTyped, Running
  <2>8. After(runtime'.session) /\ After(disk.session)
    BY <1>1, <1>4, <1>5, <2>5, <2>6, <2>7
  <2> QED
    BY <1>2, <2>1, <2>5, <2>8 DEF Sessions2, Painted, Pending
<1>50. CASE Tending
    BY <1>47, <1>48, <1>49, <1>50 DEF Tending
<1>51. CASE Crash
  <2>1. /\ UNCHANGED screen /\ choice' = Quiet /\ runner' = Quiet /\ control' = Quiet
        /\ disk' = Recovered(disk) /\ runtime' = Load(disk)
    BY <1>51 DEF Crash
  <2>2. ghost'.by = ghost.by
    <3> DEFINE d == Recovered(disk)
    <3> DEFINE lost == {o \in IF HasEnded THEN Outputs ELSE ghost.lost :
                           ghost.given[o] # None /\ ~Safe(d, o)}
    <3> DEFINE torn == IF (Halfway \/ ghost.torn \cap {"memory", "config"} # {})
                          /\ d.session.active # Active(d.config) THEN {"config"} ELSE {}
    <3>1. ghost' = [ghost EXCEPT !.lost = lost, !.torn = torn]
      BY <1>51 DEF Crash
    <3> HIDE DEF lost, torn, d
    <3> QED
      BY <3>1 DEF GhostTyped
  <2>3. Unpainted /\ ~Pending' /\ control'.pc = "idle"
    BY <2>1, <2>2 DEF Unpainted, Quiet, Pending
  <2>4. /\ Recovered(disk).session \in Sound /\ ~Recovered(disk).session.starting
        /\ Recovered(disk).session.owned = disk.session.owned
    BY <1>5, Recovering DEF Disks
  <2>5. Recovered(disk).session.active => disk.session.active
    BY <1>5, Recovering DEF SessionsKnown
  <2>6. runtime'.session = Recovered(disk).session
    BY <1>5, <2>1, <2>4, Loading DEF Load
  <2>7. After(Recovered(disk).session)
    BY <1>1, <1>16, <2>3, <2>4, <2>5
  <2> QED
    BY <1>15, <2>1, <2>3, <2>6, <2>7 DEF Sessions2
<1>52. ASSUME NEW c \in Configs, Edit(c) PROVE OwnedRight'
  <2>1. UNCHANGED <<runtime, screen, control, choice, runner>> /\ disk'.session = disk.session
    BY <1>5, <1>52 DEF Edit, threads, Disks
  <2>2. ghost'.by = ghost.by
    BY <1>52 DEF Edit, Tears, GhostTyped
  <2> QED
    BY <1>17, <1>19, <1>20, <2>1, <2>2
<1>53. ASSUME NEW x \in Outputs, NEW p \in Playlists \cup {None}, Assign(x, p) PROVE OwnedRight'
  <2>1. UNCHANGED <<runtime, screen, control, choice, runner>> /\ disk'.session = disk.session
    BY <1>5, <1>53 DEF Assign, threads, Disks
  <2>2. ghost'.by = ghost.by
    BY <1>7, <1>53 DEF Assign
  <2> QED
    BY <1>17, <1>19, <1>20, <2>1, <2>2
<1> QED
    BY <1>22, <1>23, <1>25, <1>26, <1>27, <1>28, <1>29, <1>31, <1>32, <1>34, <1>36, <1>37, <1>38, <1>39,
       <1>40, <1>41, <1>42, <1>46, <1>50, <1>51, <1>52, <1>53, <1>a, <1>b, Moves, Classes
    DEF FollowMoves, ChoiceMoves, ChoiceSteps

LEMMA ChoiceSeenKept == ASSUME Typed, SessionsKnown, ChoiceSeen, Next PROVE ChoiceSeen'
<1> USE DEF Typed, FollowPcs, LeavePcs
<1>1. runtime \in Runtimes
    BY DEF StateTyped, Running
<1>2. ASSUME control'.pc \notin {"restore", "restoring"} \/ "control" \notin fresh' \/ ~ghost'.chose
      PROVE  ChoiceSeen'
    BY <1>2 DEF ChoiceSeen
\* No restore begins, no choice is made, and the one under way is cancelled or the same.
<1>3. ASSUME control' = control \/ control.pc \in {"restore", "restoring"}, ghost'.chose = ghost.chose,
             "control" \in fresh' => "control" \in fresh, runtime'.restore \in {runtime.restore, None}
      PROVE  ChoiceSeen'
    BY <1>3 DEF ChoiceSeen
<1>4. ASSUME NEW ok \in BOOLEAN, \/ Follow(ok) \/ FollowConfig(ok) \/ FollowCommit(ok) \/ FollowFinish(ok)
                                 \/ Withdraw(ok) \/ WithdrawEnds(ok)
                                 \/ LeaveSettings(ok) \/ LeaveAssign(ok) \/ LeaveSource(ok)
      PROVE  ChoiceSeen'
  <2>1. control'.pc \notin {"restore", "restoring"}
    <3>1. CASE control' \in {Quiet, control, [pc |-> "cancel"]} /\ control.pc \notin {"restore", "restoring"}
      BY <3>1 DEF Quiet
    <3>2. CASE Follow(ok)
      <4>1. control' = [pc |-> "config", session |-> Captured] \/ (control' = control /\ control.pc = "idle")
        BY <3>2 DEF Follow
      <4> HIDE DEF Captured
      <4> QED
        BY <4>1
    <3>3. CASE \/ FollowConfig(ok) \/ FollowCommit(ok) \/ Withdraw(ok)
               \/ LeaveSettings(ok) \/ LeaveAssign(ok)
      <4>1. control.pc \in FollowPcs \cup LeavePcs
        BY <3>3 DEF FollowConfig, FollowCommit, Withdraw, LeaveSettings, LeaveAssign
      <4>2. control \in [pc : FollowPcs \cup LeavePcs \cup {"source"}, session : Sound]
        BY <4>1 DEF ControlTyped, Restoring
      <4> QED
        BY <3>3, <4>2 DEF FollowConfig, FollowCommit, Withdraw, LeaveSettings, LeaveAssign, Quiet
    <3>4. CASE FollowFinish(ok) \/ WithdrawEnds(ok) \/ LeaveSource(ok)
      BY <3>4 DEF FollowFinish, WithdrawEnds, LeaveSource, Quiet
    <3> QED
      BY <1>4, <3>2, <3>3, <3>4
  <2> QED
    BY <1>2, <2>1
<1>5. CASE Leave
    BY <1>2, <1>5 DEF Leave
<1>6. ASSUME NEW ok \in BOOLEAN, LeaveClose(ok) PROVE ChoiceSeen'
  <2> DEFINE torn == IF Active(disk.config) THEN {"config"} ELSE {}
  <2>1. ghost' = [ghost EXCEPT !.chose = FALSE, !.torn = torn] \/ control' = Quiet
    BY <1>6 DEF LeaveClose
  <2> HIDE DEF torn
  <2>2. CASE ghost' = [ghost EXCEPT !.chose = FALSE, !.torn = torn]
    <3>1. ghost'.chose = FALSE
      BY <2>2 DEF GhostTyped
    <3> QED
      BY <1>2, <3>1
  <2>3. CASE control' = Quiet
    BY <1>2, <2>3 DEF Quiet
  <2> QED
    BY <2>1, <2>2, <2>3
<1>7. ASSUME NEW o \in Outputs, Restore(o) PROVE ChoiceSeen'
    BY <1>3, <1>7 DEF Restore, SameGeneration
<1>8. ASSUME NEW ok \in BOOLEAN, RestoreEnds(ok) PROVE ChoiceSeen'
  <2>1. ghost'.chose = ghost.chose
    BY <1>8 DEF RestoreEnds, GhostTyped
  <2> QED
    BY <1>3, <1>8, <2>1 DEF RestoreEnds, SameGeneration
<1>9. CASE FollowReturns \/ Crash
    BY <1>2, <1>9 DEF FollowReturns, Crash, Quiet
<1>10. ASSUME NEW o \in Outputs, Choose(o) PROVE ChoiceSeen'
  <2>1. ghost'.chose = ghost.chose
    BY <1>10 DEF Choose, GhostTyped
  <2> QED
    BY <1>3, <1>10, <2>1 DEF Choose, SameGeneration
<1>11. ASSUME NEW ok \in BOOLEAN, ChoiceStop(ok) \/ ChoiceRollsBack(ok) \/ ChoiceUndoes(ok)
       PROVE  ChoiceSeen'
  <2>1. ghost'.chose = ghost.chose
    BY <1>11 DEF ChoiceStop, ChoiceRollsBack, ChoiceUndoes, Loses, Tears, GhostTyped
  <2> QED
    BY <1>3, <1>11, <2>1 DEF ChoiceStop, ChoiceRollsBack, ChoiceUndoes, SameGeneration
<1>12. ASSUME NEW ok \in BOOLEAN, ChoiceDisable(ok) \/ ChoiceEnables(ok) PROVE ChoiceSeen'
  <2>1. \/ "control" \notin fresh'
        \/ runtime' = runtime /\ fresh' = fresh
    BY <1>12 DEF ChoiceDisable, ChoiceEnables, Bump, SameGeneration
  <2>2. ghost'.chose = ghost.chose /\ control' = control
    BY <1>12 DEF ChoiceDisable, ChoiceEnables, Loses, GhostTyped
  <2> QED
    BY <1>2, <1>3, <2>1, <2>2
\* The choice cancels what is left to restore.
<1>13. CASE ChoiceCommits
  <2>1. "control" \notin fresh' \/ runtime'.restore = None
    BY <1>13 DEF ChoiceCommits, CancelRestore, Bump
  <2> QED
    BY <2>1 DEF ChoiceSeen
<1>14. CASE ChoiceFails
  <2>1. ghost'.chose = ghost.chose
    BY <1>14 DEF ChoiceFails, GhostTyped
  <2> QED
    BY <1>3, <1>14, <2>1 DEF ChoiceFails, SameGeneration
<1>15. CASE Passive
  <2>1. control' = control /\ runtime'.restore = runtime.restore /\ ghost'.chose = ghost.chose
    BY <1>15, PassiveLeaves
  <2>2. "control" \in fresh' => "control" \in fresh
    <3>1. ASSUME NEW c \in Contexts, Accept(c) PROVE "control" \in fresh' => "control" \in fresh
      BY <3>1 DEF Accept, Reads
    <3>2. ASSUME NEW o \in Outputs, Tick(o) PROVE "control" \in fresh' => "control" \in fresh
      BY <3>2 DEF Tick, Reads
    <3> QED
      BY <1>15, <3>1, <3>2 DEF Passive, Fetch, Ignore, Deactivate, Outdated, WeatherApply, WeatherFails,
         Retry, Bump, SameGeneration
  <2> QED
    BY <1>3, <2>1, <2>2
<1>16. CASE Tending
  <2>1. control' = control /\ runtime'.restore = runtime.restore /\ ghost'.chose = ghost.chose
    BY <1>16, TendingKeeps DEF Kept
  <2>2. "control" \in fresh' => "control" \in fresh
    <3>1. ASSUME NEW ok \in BOOLEAN, Feedback(ok) \/ Reconcile(ok) \/ WeatherCommits(ok)
          PROVE  "control" \in fresh' => "control" \in fresh
      BY <3>1 DEF Feedback, Reconcile, WeatherCommits, Bump
    <3>2. ASSUME NEW o \in Outputs, NEW ok \in BOOLEAN, PlaylistApply(o, ok)
          PROVE  "control" \in fresh' => "control" \in fresh
      BY <3>2 DEF PlaylistApply, Bump, SameGeneration
    <3> QED
      BY <1>16, <3>1, <3>2 DEF Tending
  <2> QED
    BY <1>3, <2>1, <2>2
<1>17. ASSUME NEW c \in Configs, Edit(c) PROVE ChoiceSeen'
  <2>1. ghost'.chose = ghost.chose
    BY <1>17 DEF Edit, Tears, GhostTyped
  <2> QED
    BY <1>3, <1>17, <2>1 DEF Edit, SameGeneration, threads
<1>18. ASSUME NEW o \in Outputs, NEW p \in Playlists \cup {None}, Assign(o, p) PROVE ChoiceSeen'
  <2>1. ghost'.chose = ghost.chose
    BY <1>18 DEF Assign, Forgets, GhostTyped
  <2> QED
    BY <1>3, <1>18, <2>1 DEF Assign, SameGeneration, threads
<1> QED
    BY <1>4, <1>5, <1>6, <1>7, <1>8, <1>9, <1>10, <1>11, <1>12, <1>13, <1>14, <1>15, <1>16, <1>17, <1>18,
       Moves, Classes
    DEF FollowMoves, ChoiceMoves, ChoiceSteps

-----------------------------------------------------------------------------
(* The theorems *)

LEMMA Initially == ASSUME Init PROVE Inv
<1>1. PICK db \in [Outputs -> Playlists \cup {None}] :
         disk = [session |-> NoSession, config |-> "off", db |-> db]
    BY DEF Init
<1>2. Loaded(NoSession, "off") \in Running /\ Loaded(NoSession, "off").session = NoSession
      /\ Loaded(NoSession, "off").restore = None
    BY NothingTyped, Loading DEF Configs
<1>3. StateTyped
    BY <1>1, <1>2, NothingTyped DEF Init, StateTyped, Disks, Configs, Keys, Maybe
<1>4. ControlTyped /\ ChoiceTyped /\ RunnerTyped /\ FreshTyped /\ OneHolder
    BY DEF Init, Quiet, ControlTyped, ChoiceTyped, RunnerTyped, FreshTyped, OneHolder, FollowPcs, LeavePcs
<1>5. GhostTyped
    BY NothingTyped, Bounded DEF Init, GhostTyped, By, Tearings
<1>6. disk.session = NoSession /\ runtime.session = NoSession /\ runtime.restore = None
      /\ disk.config = "off"
    BY <1>1, <1>2 DEF Init
<1>7. SessionsKnown
    BY <1>6, NothingTyped DEF Init, Quiet, SessionsKnown, FollowPcs, LeavePcs
<1>8. OwedKept
    BY NothingTyped DEF Init, OwedKept
<1>9. AgreeKept
  <2>1. NoSession.active = FALSE
    BY DEF NoSession
  <2> HIDE DEF NoSession
  <2> QED
    BY <1>6, <2>1 DEF Init, Quiet, AgreeKept, MemoryKept, ConfigKept, RestoreKept, Switching, Pending,
       Active, FollowPcs, LeavePcs
<1>10. OwnedRight
  <2>1. ASSUME NEW o \in Outputs PROVE ~Owns(NoSession, o, screen[o])
    BY NothingTyped DEF Owns
  <2> QED
    BY <1>6, <2>1 DEF Init, Quiet, OwnedRight, Right, Pending
<1>11. ChoiceSeen
    BY DEF Init, Quiet, ChoiceSeen
<1> QED
    BY <1>3, <1>4, <1>5, <1>7, <1>8, <1>9, <1>10, <1>11 DEF Inv, Typed

LEMMA Preserved == ASSUME Inv, [Next]_vars PROVE Inv'
<1>1. CASE Next
    BY <1>1, TypedKept, SessionsKnownKept, OwedKeptKept, AgreeKeptKept, OwnedRightKept, ChoiceSeenKept
    DEF Inv
<1>2. CASE UNCHANGED vars
    BY <1>2 DEF vars, Inv, Typed, StateTyped, ControlTyped, ChoiceTyped, RunnerTyped, FreshTyped, GhostTyped,
       OneHolder, SessionsKnown, OwedKept, Owed, Assigned, Holds, HasEnded, Pending, Switching, AgreeKept,
       MemoryKept, ConfigKept, RestoreKept, OwnedRight, Right, Live, ChoiceSeen
<1> QED
    BY <1>1, <1>2

\* The invariant of following the weather.
LEMMA Inductive == Spec => []Inv
<1>1. Init => Inv
    BY Initially
<1>2. Inv /\ [Next]_vars => Inv'
    BY Preserved
<1> QED
    BY <1>1, <1>2, PTL DEF Spec

\* What is on disk, in memory and on the screens has its type.
THEOREM TypeCorrect == Spec => []TypeOK
<1>1. Inv => TypeOK
  <2> SUFFICES ASSUME Inv PROVE TypeOK
    OBVIOUS
  <2> USE DEF Inv, Typed
  <2>1. disk \in [session : Sessions, config : Configs, db : [Outputs -> Maybe(Playlists)]]
    BY DEF StateTyped, Disks, Sound
  <2>2. runtime \in Runtimes /\ screen \in [Outputs -> Keys]
    BY DEF StateTyped, Running
  <2>3. left \in [{"acts", "troubles"} -> Nat]
    BY DEF GhostTyped
  <2> QED
    BY <2>1, <2>2, <2>3 DEF FreshTyped, TypeOK
<1> QED
    BY <1>1, Inductive, PTL

\* The playlists a follow has captured are assigned, or in the saved session of a follow
\* that is still active, until the user gives them up or one of the five failures named
\* with PlaylistsKept loses them; while a choice that has ended the session may still
\* put it back, nothing is said of them.
THEOREM PlaylistsSafe == Spec => []PlaylistsKept
<1>1. Inv => PlaylistsKept
    BY DEF Inv, OwedKept, Owed, Assigned, Holds, HasEnded, Safe, PlaylistsKept
<1> QED
    BY <1>1, Inductive, PTL

\* At rest the session in memory, the one on disk and the configuration agree, but for
\* what a failure named with Coherent has left apart; each failure excuses only its part.
THEOREM AtRest == Spec => []Coherent
<1>1. Inv => Coherent
    BY DEF Inv, AgreeKept, MemoryKept, ConfigKept, RestoreKept, Switching, Pending, Coherent,
       FollowPcs, LeavePcs
<1> QED
    BY <1>1, Inductive, PTL

\* Leaving restores a wallpaper only over one of the weather, and none after a choice.
THEOREM RestoreCareful == Spec => RestoreYields
<1> DEFINE Yields == control.pc = "restore" /\ control'.pc = "restoring" =>
                        ghost.by[control'.output] = "weather" /\ ~ghost.chose
<1>1. ASSUME Inv, [Next]_vars PROVE [Yields]_vars
  <2> SUFFICES ASSUME control.pc = "restore", control'.pc = "restoring"
               PROVE  ghost.by[control'.output] = "weather" /\ ~ghost.chose
    OBVIOUS
  <2> USE DEF Inv
  <2>1. control' # control
    OBVIOUS
  <2>2. PICK o \in Outputs : Restore(o)
    <3>1. FollowMoves
      <4>1. CASE ChoiceMoves \/ WeatherMoves \/ OtherMoves
        BY <2>1, <4>1, ChoiceLeaves, WeatherLeaves, OthersLeave DEF threads
      <4>2. CASE Crash
        BY <4>2 DEF Crash, Quiet
      <4>3. Next
        BY <1>1, <2>1 DEF vars
      <4> QED
        BY <4>1, <4>2, <4>3, Moves
    <3>2. ASSUME NEW ok \in BOOLEAN,
                 \/ Follow(ok) \/ FollowConfig(ok) \/ FollowCommit(ok) \/ FollowFinish(ok)
                 \/ Withdraw(ok) \/ WithdrawEnds(ok)
                 \/ LeaveSettings(ok) \/ LeaveAssign(ok) \/ LeaveClose(ok) \/ LeaveSource(ok)
                 \/ RestoreEnds(ok)
          PROVE  FALSE
      BY <3>2 DEF Follow, FollowConfig, FollowCommit, FollowFinish, Withdraw, WithdrawEnds, LeaveSettings, LeaveAssign,
         LeaveClose, LeaveSource, RestoreEnds
    <3>3. ~Leave /\ ~FollowReturns
      BY DEF Leave, FollowReturns, Quiet
    <3> QED
      BY <3>1, <3>2, <3>3 DEF FollowMoves
  <2>3. RestoreAllows(o) /\ control'.output = o /\ o \in control.todo
    BY <2>2 DEF Restore
  <2>4. disk.config # None
    BY <1>1, Distinct DEF Typed, StateTyped, Disks
  <2>5. ~ghost.chose
    BY <1>1, <2>3, <2>4 DEF RestoreAllows, ChoiceSeen
  <2>6. Live(runtime.session, o) /\ Owns(runtime.session, o, screen[o])
    BY <2>3 DEF RestoreAllows, Live, Owns
  <2> QED
    BY <1>1, <2>3, <2>5, <2>6 DEF OwnedRight, Right
<1>2. Inv /\ [Next]_vars => [Yields]_vars
    BY <1>1
<1> QED
    BY <1>2, Inductive, PTL DEF Spec, RestoreYields
=============================================================================
