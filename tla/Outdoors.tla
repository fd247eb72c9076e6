------------------------------- MODULE Outdoors -------------------------------
(***************************************************************************)
(* Following the weather ("follow outdoors").  Following captures the      *)
(* playlist assignments, the settings and the wallpapers of the user in a  *)
(* session file, clears the assignments and switches the configuration;    *)
(* leaving puts them back; a manual choice ends the session.  The session  *)
(* file, the configuration and the database are written one after the     *)
(* other, and each write may fail or be the last one before a crash.       *)
(*                                                                         *)
(* The generation of the runtime is only ever compared for equality and    *)
(* every new one differs from all before, so it is the set `fresh` of the  *)
(* threads whose revision is the current one.  The weather is a context,   *)
(* and the wallpaper that fits a context is the context itself.            *)
(***************************************************************************)
EXTENDS Naturals, FiniteSets

CONSTANTS Outputs, Contexts, Playlists,
          None,    \* no assignment, wallpaper, context or runtime
          Limits   \* the pairs of bounds on the acts of the user and on the troubles

VARIABLES disk,    \* the session file, the configuration and the assignments
          runtime, \* RUNTIME
          screen,  \* outputs.json, staged entries included
          control, \* the thread in follow or feedback, which holds CONTROL
          choice,  \* the thread that applies a choice of the user
          runner,  \* the playlist thread, which applies what the weather asks for
          refresh, \* the weather thread
          fresh,   \* the threads whose revision is the current generation
          fired,   \* outputs the runner has fired in this generation
          left,    \* what may still happen
          ghost    \* what the user is owed, and what has been left apart

vars == <<disk, runtime, screen, control, choice, runner, refresh, fresh, fired, left, ghost>>
threads == <<control, choice, runner, refresh>>

Configs == {"off", "on", "disabled"}
Active(config) == config = "on"
Keys == {"mine", "chosen", "list"} \cup Contexts

Maybe(S) == S \cup {None}
Sessions == [active : BOOLEAN, starting : BOOLEAN, settings : Configs,
             assignments : [Outputs -> Maybe(Playlists)],
             wallpapers : [Outputs -> Maybe(Keys)],
             owned : [Outputs -> Maybe(Contexts)], contexts : [Outputs -> Maybe(Contexts)],
             held : SUBSET Outputs, excluded : SUBSET Contexts]
Runtimes == [session : Sessions, config : Configs, context : Maybe(Contexts),
             restore : Maybe(Configs), plans : [Outputs -> Maybe(Contexts)],
             due : SUBSET Outputs]

ASSUME Bounded == Limits \subseteq [{"acts", "troubles"} -> Nat]
ASSUME Distinct == /\ None \notin Contexts \cup Playlists \cup Configs /\ None \notin Runtimes
                   /\ Contexts \cap {"mine", "chosen", "list"} = {}

Nothing(S) == [o \in S |-> None]
NoSession == [active |-> FALSE, starting |-> FALSE, settings |-> "off",
              assignments |-> Nothing(Outputs), wallpapers |-> Nothing(Outputs),
              owned |-> Nothing(Outputs), contexts |-> Nothing(Outputs),
              held |-> {}, excluded |-> {}]
Quiet == [pc |-> "idle"]

\* A runtime as load makes it from a session.
Loaded(session, config) ==
    [session |-> session, config |-> config,
     context |-> LET known == {session.contexts[o] : o \in Outputs} \ {None}
                 IN IF known = {} THEN None ELSE CHOOSE c \in known : TRUE,
     restore |-> None, plans |-> Nothing(Outputs), due |-> {}]

\* A recovery that gives up a follow although the configuration was switched.
GivenUp(d) == IF ~d.session.starting THEN d
              ELSE [d EXCEPT !.session.starting = FALSE, !.session.active = FALSE]

\* Session::recover: a follow that was interrupted is completed or given up.
Recovered(d) ==
    IF ~d.session.starting THEN d
    ELSE IF Active(d.config)
    THEN [d EXCEPT !.session.starting = FALSE,
                   !.db = [o \in Outputs |-> IF @[o] = d.session.assignments[o]
                                             THEN None ELSE @[o]]]
    ELSE [d EXCEPT !.session.starting = FALSE, !.session.active = FALSE]

Load(d) == Loaded(Recovered(d).session, d.config)

Init == /\ \E db \in [Outputs -> Playlists \cup {None}] :
             disk = [session |-> NoSession, config |-> "off", db |-> db]
        /\ runtime = Loaded(NoSession, "off") /\ screen = [o \in Outputs |-> "mine"]
        /\ control = Quiet /\ choice = Quiet /\ runner = Quiet /\ refresh = Quiet
        /\ fresh = {} /\ fired = {} /\ left \in Limits
        /\ ghost = [given |-> Nothing(Outputs), lost |-> {}, torn |-> {}, chose |-> FALSE,
                    by |-> [o \in Outputs |-> "user"]]

TypeOK ==
    /\ disk \in [session : Sessions, config : Configs, db : [Outputs -> Maybe(Playlists)]]
    /\ runtime \in Runtimes
    /\ screen \in [Outputs -> Keys] /\ fired \subseteq Outputs
    /\ fresh \subseteq {"control", "runner", "refresh"}
    /\ left \in [{"acts", "troubles"} -> Nat]

--------------------------------------------------------------------------------
\* generation(): every revision read before is outdated, and a due output that
\* was fired is armed again.
Bump == fresh' = {} /\ fired' = {}
Reads(t) == fresh' = fresh \cup {t}
SameGeneration == UNCHANGED <<fresh, fired>>

Use(k) == left[k] > 0 /\ left' = [left EXCEPT ![k] = @ - 1]
\* A write succeeds, or fails while failures are left.
Write(ok) == IF ok THEN UNCHANGED left ELSE Use("troubles")

\* The apply lock is taken by whoever is in one of these steps.
Locked == \/ control.pc \in {"config", "commit", "finish", "withdraw", "inactive",
                             "settings", "assign", "close", "source", "restoring"}
          \/ choice.pc # "idle" \/ runner.pc = "applying"
\* The mutex of RUNTIME, which ManualChoice holds from one write to the next.
Held == choice.pc \in {"stop", "disable", "undo", "rollback", "enable"}

\* ghost.given is what a follow has captured and only the user gives up, ghost.lost
\* the outputs whose playlist a named failure has lost, and ghost.torn says what a
\* named failure has left apart (see PlaylistsKept and Coherent).
Forgets(O) == [ghost EXCEPT !.given = [o \in Outputs |-> IF o \in O THEN None ELSE @[o]]]
Loses(O) == [ghost EXCEPT !.lost = O]
Tears(what) == [ghost EXCEPT !.torn = @ \cup what]
Mends == [ghost EXCEPT !.torn = IF Active(disk.config) THEN {} ELSE {"config"}]

--------------------------------------------------------------------------------
(* follow(true) *)

\* Session::capture
Captured == [NoSession EXCEPT !.active = TRUE, !.starting = TRUE, !.settings = disk.config,
                              !.assignments = disk.db, !.wallpapers = screen,
                              !.excluded = runtime.session.excluded]
Following == runtime.session.active /\ Active(disk.config)
Idled == [runtime EXCEPT !.plans = Nothing(Outputs), !.due = {}]

Follow(ok) ==
    /\ control.pc = "idle" /\ ~Locked /\ ~Following
    /\ IF ok THEN Use("acts") ELSE left.acts > 0 /\ Write(ok)
    /\ Bump /\ runtime' = Idled
    /\ IF ok THEN /\ control' = [pc |-> "config", session |-> Captured]
                  /\ disk' = [disk EXCEPT !.session = Captured]
                  /\ ghost' = [ghost EXCEPT
                       !.given = [o \in Outputs |-> IF disk.db[o] # None THEN disk.db[o]
                                                    ELSE @[o]],
                       \* the session this one overwrites still owed them
                       !.lost = {o \in Outputs : disk.db[o] = None /\ ghost.given[o] # None}]
       ELSE UNCHANGED <<control, disk, ghost>>
    /\ UNCHANGED <<screen, choice, runner, refresh>>

FollowConfig(ok) ==
    /\ control.pc = "config" /\ Write(ok)
    /\ IF ok THEN /\ disk' = [disk EXCEPT !.config = "on"]
                  /\ control' = [control EXCEPT !.pc = "commit"]
       ELSE control' = [control EXCEPT !.pc = "withdraw"] /\ UNCHANGED disk
    /\ SameGeneration /\ UNCHANGED <<runtime, screen, choice, runner, refresh, ghost>>

FollowCommit(ok) ==
    /\ control.pc = "commit" /\ Write(ok)
    /\ IF ok THEN /\ disk' = [disk EXCEPT !.db = Nothing(Outputs)]
                  /\ control' = [control EXCEPT !.pc = "finish"]
       ELSE control' = [control EXCEPT !.pc = "withdraw"] /\ UNCHANGED disk
    /\ SameGeneration /\ UNCHANGED <<runtime, screen, choice, runner, refresh, ghost>>

Stopped(session) == [session EXCEPT !.active = FALSE, !.starting = FALSE]

\* A withdrawal that forgets the settings.
SettingsStay(ok) ==
    /\ control.pc = "withdraw" /\ Write(ok)
    /\ control' = IF ok THEN [control EXCEPT !.pc = "inactive"] ELSE Quiet
    /\ SameGeneration /\ UNCHANGED <<disk, runtime, screen, choice, runner, refresh, ghost>>

\* The follow failed: the settings go back, and the session is saved as inactive.
\* The runtime keeps its former session in every case.
Withdraw(ok) ==
    /\ control.pc = "withdraw" /\ Write(ok)
    /\ IF ok THEN /\ disk' = [disk EXCEPT !.config = control.session.settings]
                  /\ control' = [control EXCEPT !.pc = "inactive"] /\ UNCHANGED ghost
       ELSE control' = Quiet /\ ghost' = Tears({"memory"}) /\ UNCHANGED disk
    /\ SameGeneration /\ UNCHANGED <<runtime, screen, choice, runner, refresh>>

WithdrawEnds(ok) ==
    /\ control.pc = "inactive" /\ Write(ok) /\ control' = Quiet
    /\ disk' = IF ok THEN [disk EXCEPT !.session = Stopped(control.session)] ELSE disk
    /\ ghost' = IF ok /\ ~runtime.session.active THEN ghost ELSE Tears({"memory"})
    /\ SameGeneration /\ UNCHANGED <<runtime, screen, choice, runner, refresh>>

\* The new runtime is loaded from what is on disk and gets the session of the thread.
Install(d, session) ==
    /\ disk' = Recovered(d) /\ Bump
    /\ runtime' = [Loaded(session, d.config) EXCEPT !.restore = runtime.restore]

FollowFinish(ok) ==
    LET started == [control.session EXCEPT !.starting = FALSE]
    IN /\ control.pc = "finish" /\ Write(ok)
       /\ IF ok THEN /\ Install([disk EXCEPT !.session = started], started)
                     /\ control' = [pc |-> "cancel"]
                     \* unless the user edited the settings meanwhile
                     /\ ghost' = Mends
          \* the error is reported; the runtime keeps its former session
          ELSE /\ control' = Quiet
               /\ ghost' = [Tears({"memory"}) EXCEPT !.lost = Outputs]
               /\ SameGeneration /\ UNCHANGED <<disk, runtime>>
       /\ UNCHANGED <<screen, choice, runner, refresh>>

--------------------------------------------------------------------------------
(* follow(false) *)

Leave ==
    /\ control.pc = "idle" /\ ~Locked /\ Use("acts") /\ Bump /\ runtime' = Idled
    /\ control' = [session |-> runtime.session,
                   pc |-> IF runtime.session.active THEN "settings" ELSE "source"]
    /\ UNCHANGED <<disk, screen, choice, runner, refresh, ghost>>

\* restore_settings: what the user changed since is left alone.
LeaveSettings(ok) ==
    /\ control.pc = "settings" /\ Write(ok)
    /\ IF ok THEN /\ disk' = [disk EXCEPT !.config = IF Active(@) THEN control.session.settings
                                                     ELSE @]
                  /\ control' = [control EXCEPT !.pc = "assign"] /\ UNCHANGED ghost
       ELSE control' = Quiet /\ UNCHANGED <<disk, ghost>>
    /\ SameGeneration /\ UNCHANGED <<runtime, screen, choice, runner, refresh>>

\* restore_assignments: not to a held output, and not over a newer assignment.
Reassigned(s) == [o \in Outputs |-> IF o \in s.held \/ disk.db[o] # None THEN disk.db[o]
                                    ELSE s.assignments[o]]
LeaveAssign(ok) ==
    /\ control.pc = "assign" /\ Write(ok)
    /\ IF ok THEN /\ disk' = [disk EXCEPT !.db = Reassigned(control.session)]
                  /\ control' = [control EXCEPT !.pc = "close"]
                  /\ ghost' = Forgets(control.session.held)
       ELSE control' = Quiet /\ ghost' = Tears({"config"}) /\ UNCHANGED disk
    /\ SameGeneration /\ UNCHANGED <<runtime, screen, choice, runner, refresh>>

LeaveClose(ok) ==
    LET ended == [control.session EXCEPT !.active = FALSE]
    IN /\ control.pc = "close" /\ Write(ok)
       /\ IF ok THEN /\ disk' = Recovered([disk EXCEPT !.session = ended])
                     /\ runtime' = [Loaded(ended, disk.config) EXCEPT !.restore = disk.config]
                     /\ fresh' = {"control"} /\ fired' = {}
                     /\ control' = [pc |-> "restore", session |-> ended, todo |-> Outputs]
                     \* the user may have switched it on before following
                     /\ ghost' = [ghost EXCEPT !.chose = FALSE,
                          !.torn = IF Active(disk.config) THEN {"config"} ELSE {}]
          ELSE /\ runtime' = [runtime EXCEPT !.restore = disk.config] /\ control' = Quiet
               /\ ghost' = Tears({"config", "restore"}) /\ SameGeneration /\ UNCHANGED disk
       /\ UNCHANGED <<screen, choice, runner, refresh>>

\* There is no session: only the configuration is switched off.
LeaveSource(ok) ==
    /\ control.pc = "source" /\ Write(ok)
    /\ IF ok THEN /\ Install([disk EXCEPT !.config = "off"], control.session)
                  /\ control' = [pc |-> "cancel"]
                  /\ ghost' = [ghost EXCEPT !.torn = IF "memory" \in @ THEN @ ELSE {}]
       ELSE /\ disk.config # "off"  \* or there is nothing to write
            /\ control' = Quiet /\ SameGeneration /\ UNCHANGED <<disk, runtime, ghost>>
    /\ UNCHANGED <<screen, choice, runner, refresh>>

\* restore_allows
RestoreAllows(o) ==
    LET s == runtime.session
    IN /\ "control" \in fresh /\ runtime.restore = disk.config /\ o \notin s.held
       /\ s.wallpapers[o] = control.session.wallpapers[o] /\ s.owned[o] # None
       /\ s.owned[o] = screen[o]

\* One output after the other, each in an apply of its own.
Restore(o) ==
    LET rest == [pc |-> "restore", session |-> control.session, todo |-> control.todo \ {o}]
    IN /\ control.pc = "restore" /\ o \in control.todo /\ ~Locked
       /\ IF RestoreAllows(o)
          THEN /\ control' = [pc |-> "restoring", next |-> rest, output |-> o,
                              before |-> screen[o]]
               /\ screen' = [screen EXCEPT ![o] = control.session.wallpapers[o]]
          ELSE control' = rest /\ UNCHANGED screen
       /\ SameGeneration /\ UNCHANGED <<disk, runtime, choice, runner, refresh, left, ghost>>

RestoreEnds(rendered) ==
    LET o == control.output
    IN /\ control.pc = "restoring" /\ control' = control.next
       /\ IF rendered THEN ghost' = [ghost EXCEPT !.by[o] = "user"] /\ UNCHANGED screen
          ELSE screen' = [screen EXCEPT ![o] = control.before] /\ UNCHANGED ghost
       /\ SameGeneration /\ UNCHANGED <<disk, runtime, choice, runner, refresh, left>>

\* A choice that leaves the restore under way alone.
NoCancel == SameGeneration /\ UNCHANGED runtime

\* cancel_restore
CancelRestore == IF runtime.restore = None THEN SameGeneration /\ UNCHANGED runtime
                 ELSE Bump /\ runtime' = [runtime EXCEPT !.restore = None]

FollowReturns ==
    /\ control.pc = "cancel" \/ (control.pc = "restore" /\ control.todo = {})
    /\ ~Locked /\ control' = Quiet /\ CancelRestore
    /\ ghost' = [ghost EXCEPT !.torn = @ \ {"restore"}]
    /\ UNCHANGED <<disk, screen, choice, runner, refresh, left>>

--------------------------------------------------------------------------------
(* feedback *)

Pinned(o) == [runtime EXCEPT !.session.held = @ \cup {o}]
Resumed(o) == [runtime EXCEPT !.session.held = @ \ {o}, !.session.contexts[o] = None]
Excluded(c) == [runtime EXCEPT
                  !.session.excluded = @ \cup {c},
                  !.session.contexts = [o \in Outputs |-> IF screen[o] = c THEN None ELSE @[o]],
                  !.plans = [o \in Outputs |-> IF @[o] = c THEN None ELSE @[o]]]

\* A session that could not be saved stays in memory; nothing is undone.
Saves(ok) ==
    /\ disk' = IF ok THEN [disk EXCEPT !.session = runtime'.session] ELSE disk
    /\ ghost' = [ghost EXCEPT !.torn = IF ok THEN @ \ {"unsaved"} ELSE @ \cup {"unsaved"}]
SaveSession(ok) == Write(ok) /\ Saves(ok)

Feedback(ok) ==
    /\ control.pc = "idle" /\ ~Locked /\ Active(disk.config) /\ left.acts > 0
    /\ \/ \E o \in Outputs : runtime' \in {Pinned(o), Resumed(o)}
       \/ \E c \in Contexts : runtime' = Excluded(c)
    /\ Bump
    /\ ok \/ left.troubles > 0
    /\ left' = [left EXCEPT !.acts = @ - 1, !.troubles = IF ok THEN @ ELSE @ - 1]
    /\ Saves(ok)
    /\ UNCHANGED <<screen, control, choice, runner, refresh>>

--------------------------------------------------------------------------------
(* A choice of the user, with ManualChoice around the render. *)

Chosen(o, prior) == [pc |-> "render", output |-> o, before |-> screen[o],
                     by |-> ghost.by[o], prior |-> prior]
Stage(o, key) == screen' = [screen EXCEPT ![o] = key]

Choose(o) ==
    /\ choice.pc = "idle" /\ ~Locked /\ Use("acts")
    /\ IF Active(disk.config)
       THEN choice' = [pc |-> "stop", output |-> o] /\ UNCHANGED <<screen, ghost>>
       ELSE /\ choice' = Chosen(o, None) /\ Stage(o, "chosen")
            /\ ghost' = [ghost EXCEPT !.by[o] = "user"]
    /\ SameGeneration /\ UNCHANGED <<disk, runtime, control, runner, refresh>>

ChoiceStop(ok) ==
    /\ choice.pc = "stop" /\ Write(ok)
    /\ IF ok THEN /\ disk' = [disk EXCEPT !.session = Stopped(runtime.session)]
                  /\ choice' = [choice EXCEPT !.pc = "disable"]
       ELSE choice' = Quiet /\ UNCHANGED disk
    /\ SameGeneration /\ UNCHANGED <<runtime, screen, control, runner, refresh, ghost>>

ChoiceDisable(ok) ==
    LET o == choice.output
        d == [disk EXCEPT !.config = IF Active(@) THEN "disabled" ELSE @]
    IN /\ choice.pc = "disable" /\ Write(ok)
       /\ IF ok THEN /\ disk' = d /\ runtime' = Load(d) /\ Bump
                     /\ choice' = Chosen(o, runtime) /\ Stage(o, "chosen")
                     /\ ghost' = [ghost EXCEPT !.by[o] = "user"]
          ELSE /\ choice' = [pc |-> "undo"]
               /\ SameGeneration /\ UNCHANGED <<disk, runtime, screen, ghost>>
       /\ UNCHANGED <<control, runner, refresh>>

\* The configuration could not be written: the session of the runtime is saved again.
ChoiceUndoes(ok) ==
    /\ choice.pc = "undo" /\ Write(ok) /\ choice' = Quiet
    /\ IF ok THEN disk' = [disk EXCEPT !.session = runtime.session] /\ UNCHANGED ghost
       ELSE ghost' = [Tears({"memory"}) EXCEPT !.lost = Outputs] /\ UNCHANGED disk
    /\ SameGeneration /\ UNCHANGED <<runtime, screen, control, runner, refresh>>

\* ManualChoice::commit, and note_apply
ChoiceCommits ==
    /\ choice.pc = "render" /\ choice' = Quiet /\ CancelRestore
    /\ ghost' = [ghost EXCEPT !.chose = TRUE, !.torn = @ \ {"restore"},
                              !.given = IF choice.prior = None THEN @ ELSE Nothing(Outputs)]
    /\ UNCHANGED <<disk, screen, control, runner, refresh, left>>

ChoiceFails ==
    LET o == choice.output
    IN /\ choice.pc = "render" /\ screen' = [screen EXCEPT ![o] = choice.before]
       /\ choice' = IF choice.prior = None THEN Quiet
                    ELSE [pc |-> "rollback", prior |-> choice.prior]
       /\ ghost' = [ghost EXCEPT !.by[o] = choice.by]
       /\ SameGeneration /\ UNCHANGED <<disk, runtime, control, runner, refresh, left>>

\* ManualChoice::drop
ChoiceRollsBack(ok) ==
    /\ choice.pc = "rollback" /\ Write(ok)
    /\ IF ok THEN /\ disk' = [disk EXCEPT !.session = choice.prior.session]
                  /\ choice' = [choice EXCEPT !.pc = "enable"] /\ UNCHANGED ghost
       ELSE choice' = Quiet /\ ghost' = Loses(Outputs) /\ UNCHANGED disk
    /\ SameGeneration /\ UNCHANGED <<runtime, screen, control, runner, refresh>>

ChoiceEnables(ok) ==
    /\ choice.pc = "enable" /\ Write(ok)
    /\ IF ok THEN /\ disk' = [disk EXCEPT !.config = IF @ = "disabled" THEN "on" ELSE @]
                  /\ runtime' = choice.prior /\ Bump /\ choice' = Quiet /\ UNCHANGED ghost
       ELSE /\ choice' = [pc |-> "undo"] /\ ghost' = Loses(Outputs)
            /\ SameGeneration /\ UNCHANGED <<disk, runtime>>
    /\ UNCHANGED <<screen, control, runner, refresh>>

--------------------------------------------------------------------------------
(* The weather thread: refresh *)

Deactivate ==
    /\ ~Held /\ ~Active(disk.config) /\ runtime.restore = None
    /\ runtime' = [Idled EXCEPT !.config = disk.config] /\ runtime' # runtime /\ Bump
    /\ UNCHANGED <<disk, screen, threads, left, ghost>>

\* The configuration is read before the forecast is fetched, and not again when the
\* apply lock is taken.
Fetch == /\ refresh.pc = "idle" /\ Active(disk.config) /\ refresh' = [pc |-> "fetch"]
         /\ UNCHANGED <<disk, runtime, screen, control, choice, runner, fresh, fired, left, ghost>>

\* accept_forecast: a new context that has been stable for long enough.
Accept(c) ==
    LET accepted == [runtime EXCEPT !.context = c, !.config = "on"]
    IN /\ refresh.pc = "fetch" /\ ~Locked /\ runtime.restore = None
       /\ runtime' = accepted
       /\ refresh' = [pc |-> "search", context |-> c]
       /\ IF accepted = runtime THEN Reads("refresh") /\ UNCHANGED fired
          ELSE fresh' = {"refresh"} /\ fired' = {}
       /\ UNCHANGED <<disk, screen, control, choice, runner, left, ghost>>

\* A restore is under way: the forecast is dropped.
Ignore == /\ refresh.pc = "fetch" /\ ~Locked /\ runtime.restore # None /\ refresh' = Quiet
          /\ SameGeneration
          /\ UNCHANGED <<disk, runtime, screen, control, choice, runner, left, ghost>>

\* A plan that keeps what is on the screen whether it fits or not.
KeepsCurrent(o) == IF o \in runtime.session.held THEN None ELSE screen[o]

\* What reconcile makes of an output for which the candidates are known.
Planned(o) == IF o \in runtime.session.held \/ refresh.context \in runtime.session.excluded
              THEN None ELSE refresh.context
Shows(o) == Planned(o) # None /\ screen[o] = refresh.context
Due(o) == /\ Planned(o) # None /\ screen[o] # refresh.context
          /\ runtime.session.contexts[o] # refresh.context

\* reconcile: it holds RUNTIME but not the apply lock.
Reconcile(ok) ==
    LET contexts == [o \in Outputs |-> IF Shows(o) THEN refresh.context
                                       ELSE runtime.session.contexts[o]]
        planned == [runtime EXCEPT !.plans = [o \in Outputs |-> Planned(o)],
                                   !.due = {o \in Outputs : Due(o)}]
    IN /\ ~Held /\ refresh.pc = "search" /\ "refresh" \in fresh /\ disk.config = "on"
       /\ runtime' = [planned EXCEPT !.session.contexts = contexts]
       /\ IF planned = runtime THEN fresh' = fresh \ {"refresh"} /\ UNCHANGED fired ELSE Bump
       /\ IF contexts # runtime.session.contexts THEN SaveSession(ok)
          ELSE ok /\ UNCHANGED <<disk, left, ghost>>
       /\ refresh' = Quiet /\ UNCHANGED <<screen, control, choice, runner>>

Outdated == /\ refresh.pc = "search"
            /\ "refresh" \notin fresh \/ disk.config # "on"
            /\ refresh' = Quiet /\ fresh' = fresh \ {"refresh"}
            /\ UNCHANGED <<disk, runtime, screen, control, choice, runner, fired, left, ghost>>

--------------------------------------------------------------------------------
(* The playlist thread *)

\* assignment, and the arming of an output
Fires(o) == /\ disk.db[o] = None /\ Active(disk.config) /\ Active(runtime.config)
            /\ runtime.plans[o] # None /\ o \notin runtime.session.held
            /\ o \in runtime.due \ fired

Tick(o) ==
    /\ runner.pc = "idle" /\ ~Held /\ Fires(o)
    /\ runner' = [pc |-> "queued", output |-> o, key |-> runtime.plans[o]]
    /\ Reads("runner") /\ fired' = fired \cup {o}
    /\ UNCHANGED <<disk, runtime, screen, control, choice, refresh, left, ghost>>

\* allows
Allows(o, key) == /\ disk.db[o] = None /\ Active(disk.config) /\ runtime.config = disk.config
                  /\ "runner" \in fresh /\ o \notin runtime.session.held
                  /\ key \notin runtime.session.excluded /\ runtime.plans[o] = key

WeatherApply ==
    LET o == runner.output
    IN /\ runner.pc = "queued" /\ ~Locked
       /\ IF Allows(o, runner.key)
          THEN /\ runner' = [pc |-> "applying", output |-> o, key |-> runner.key,
                             before |-> screen[o], by |-> ghost.by[o]]
               /\ Stage(o, runner.key) /\ ghost' = [ghost EXCEPT !.by[o] = "weather"]
          ELSE /\ runner' = [pc |-> "retry", output |-> o, key |-> runner.key,
                             before |-> screen[o]]
               /\ UNCHANGED <<screen, ghost>>
       /\ SameGeneration /\ UNCHANGED <<disk, runtime, control, choice, refresh, left>>

\* note_apply
WeatherCommits(ok) ==
    LET o == runner.output
        s == [runtime.session EXCEPT !.owned[o] = runner.key,
                !.contexts[o] = IF runtime.context = None THEN @ ELSE runtime.context]
    IN /\ runner.pc = "applying" /\ runner' = Quiet
       /\ IF Active(disk.config)
          THEN runtime' = [runtime EXCEPT !.session = s, !.due = @ \ {o}] /\ SaveSession(ok)
          ELSE ok /\ UNCHANGED <<runtime, disk, left, ghost>>
       /\ fresh' = fresh \ {"runner"}
       /\ UNCHANGED <<screen, control, choice, refresh, fired>>

WeatherFails ==
    LET o == runner.output
    IN /\ runner.pc = "applying" /\ screen' = [screen EXCEPT ![o] = runner.before]
       /\ runner' = [pc |-> "retry", output |-> o, key |-> runner.key, before |-> runner.before]
       /\ ghost' = [ghost EXCEPT !.by[o] = runner.by]
       /\ SameGeneration /\ UNCHANGED <<disk, runtime, control, choice, refresh, left>>

\* retry_weather
Retry == /\ runner.pc = "retry" /\ runner' = Quiet
         /\ fired' = IF "runner" \in fresh /\ runner.output \in runtime.due
                     THEN fired \ {runner.output} ELSE fired
         /\ fresh' = fresh \ {"runner"}
         /\ UNCHANGED <<disk, runtime, screen, control, choice, refresh, left, ghost>>

\* A playlist assigned to an output is applied; while the weather is followed it
\* takes the output over.
PlaylistApply(o, ok) ==
    /\ disk.db[o] # None /\ runner.pc = "idle" /\ ~Locked /\ screen[o] # "list"
    /\ Stage(o, "list")
    /\ IF Active(disk.config)
       THEN /\ runtime' = [runtime EXCEPT !.session.held = @ \cup {o}] /\ Bump
            /\ Write(ok) /\ disk' = IF ok THEN [disk EXCEPT !.session = runtime'.session] ELSE disk
            /\ ghost' = [ghost EXCEPT !.by[o] = "list",
                           !.torn = IF ok THEN @ \ {"unsaved"} ELSE @ \cup {"unsaved"}]
       ELSE /\ ok /\ ghost' = [ghost EXCEPT !.by[o] = "list"] /\ SameGeneration
            /\ UNCHANGED <<disk, runtime, left>>
    /\ UNCHANGED threads

--------------------------------------------------------------------------------
(* The environment *)

\* playlist.assign
Assign(o, p) == /\ disk.db[o] # p /\ Use("acts")
                /\ disk' = [disk EXCEPT !.db[o] = p] /\ ghost' = Forgets({o})
                /\ SameGeneration /\ UNCHANGED <<runtime, screen, threads>>

\* The user edits the settings; to do so while a follow is being started gives up what
\* it captured.
Edit(c) == /\ disk.config # c /\ Use("acts")
           /\ disk' = [disk EXCEPT !.config = c]
           /\ ghost' = [Tears({"config"}) EXCEPT
                          !.given = IF disk.session.starting THEN Nothing(Outputs) ELSE @]
           /\ SameGeneration /\ UNCHANGED <<runtime, screen, threads>>

\* In these steps the session and the configuration are apart.
Halfway == control.pc \in {"assign", "close"} \/ choice.pc \in {"disable", "undo", "enable"}
\* A choice that has ended the session and may still fail.
HasEnded == choice.pc \in {"disable", "undo", "rollback"}
          \/ (choice.pc = "render" /\ choice.prior # None)

\* The playlist of the output is assigned, or its session will assign it.
Safe(d, o) == \/ d.db[o] = ghost.given[o]
              \/ /\ d.db[o] = None /\ d.session.active
                 /\ d.session.assignments[o] = ghost.given[o]

Crash ==
    LET d == Recovered(disk)
    IN /\ Use("troubles") /\ disk' = d /\ runtime' = Load(disk)
       /\ control' = Quiet /\ choice' = Quiet /\ runner' = Quiet /\ refresh' = Quiet
       /\ Bump /\ UNCHANGED screen
       \* what the recovery finds on disk is owed again
       /\ ghost' = [ghost EXCEPT
            !.lost = {o \in IF HasEnded THEN Outputs ELSE @ : ghost.given[o] # None /\ ~Safe(d, o)},
            !.torn = IF (Halfway \/ @ \cap {"memory", "config"} # {})
                        /\ d.session.active # Active(d.config) THEN {"config"} ELSE {}]

FollowSteps == \E ok \in BOOLEAN :
    \/ Follow(ok) \/ FollowConfig(ok) \/ FollowCommit(ok) \/ FollowFinish(ok)
    \/ Withdraw(ok) \/ WithdrawEnds(ok)
    \/ LeaveSettings(ok) \/ LeaveAssign(ok) \/ LeaveClose(ok) \/ LeaveSource(ok)
    \/ RestoreEnds(ok) \/ Feedback(ok)
ChoiceSteps == \E ok \in BOOLEAN :
    \/ ChoiceStop(ok) \/ ChoiceDisable(ok) \/ ChoiceUndoes(ok)
    \/ ChoiceRollsBack(ok) \/ ChoiceEnables(ok)
WeatherSteps == \/ \E c \in Contexts : Accept(c)
                \/ Fetch \/ Ignore \/ Deactivate \/ Outdated \/ WeatherApply \/ WeatherFails \/ Retry
                \/ \E ok \in BOOLEAN : Reconcile(ok) \/ WeatherCommits(ok)

Next == \/ FollowSteps \/ Leave \/ FollowReturns \/ ChoiceSteps \/ ChoiceCommits \/ ChoiceFails
        \/ WeatherSteps \/ Crash \/ \E c \in Configs : Edit(c)
        \/ \E o \in Outputs : \/ Restore(o) \/ Choose(o) \/ Tick(o)
                              \/ \E ok \in BOOLEAN : PlaylistApply(o, ok)
                              \/ \E p \in Playlists \cup {None} : Assign(o, p)

Spec == Init /\ [][Next]_vars

--------------------------------------------------------------------------------
\* The playlists a follow captured are assigned, or wait in the saved session of a
\* follow that is still active, through crashes, failing writes and leaving.  The user
\* gives an output up by assigning it, by pinning it or letting a playlist take it
\* over until the follow is left, by a choice that ends the session, and by editing
\* the settings while a follow starts; while such a choice is rendered or rolled back,
\* nothing is said, and if it fails they are owed as before.  ghost.lost names the outputs for which the
\* code does not keep the promise, as one of five failures hit them:
\*   - the last write of a follow failed, and the runtime went on with the former
\*     session and will save it over the captured one;
\*   - a follow captured anew over a session that was neither running nor left, as
\*     after an interrupted leave;
\*   - the rollback of a failed choice failed: its session or its configuration
\*     could not be written;
\*   - a choice that could not switch the configuration could not save the session
\*     again either;
\*   - a crash hit a choice that had ended the session and was not committed.
\* A restart that finds them on disk owes them again.
PlaylistsKept ==
    \A o \in Outputs :
        ghost.given[o] # None /\ o \notin ghost.lost /\ ~HasEnded => Safe(disk, o)

\* Whenever no follow and no choice is under way, the session in memory, the one
\* on disk and the configuration agree on whether the weather is followed, the
\* two sessions are the same, and no restore is pending, whatever failed, but:
\*   - "memory": the last write of a follow, the withdrawal of a failed one or the
\*     undoing of a choice failed, or a withdrawn follow had replaced an active session;
\*     from there to the next follow, leave or restart the runtime is on its own;
\*   - "config": the user switched the settings by hand, which a leave also puts back,
\*     or a leave failed or a crash hit a leave or a choice between the settings and
\*     the session;
\*   - "unsaved": the last save of a changed session failed: it is in memory only;
\*   - "restore": the last write of a leave failed, after its restore was announced.
\* Each excuses only the agreement it is about; a failure of any other write leaves
\* all four in place.
Coherent ==
    control.pc = "idle" /\ choice.pc = "idle" =>
        /\ "memory" \notin ghost.torn =>
              /\ runtime.session.active = disk.session.active
              /\ "config" \notin ghost.torn => disk.session.active = Active(disk.config)
              /\ "unsaved" \notin ghost.torn /\ disk.session.active =>
                    runtime.session = disk.session
        /\ "restore" \notin ghost.torn => runtime.restore = None

\* Leaving puts the former wallpaper back only where the weather had put the
\* present one, and on no output after the user has made a choice.
RestoreYields ==
    [][control.pc = "restore" /\ control'.pc = "restoring" =>
         ghost.by[control'.output] = "weather" /\ ~ghost.chose]_vars

\* A wallpaper for the weather that failed is tried again later
\* (runtime/playlist/tests.rs:606): for as long as the plan asks for it, the output is due.
FailedIsDue ==
    runner.pc = "retry" /\ screen[runner.output] = runner.before
        /\ runtime.plans[runner.output] = runner.key
        => runner.output \in runtime.due
=============================================================================
