# A TLA+ model of skwd-deck

skwd-deck is a wallpaper daemon for Linux desktops. `skwd-walld` answers RPC
requests on a socket, applies wallpapers to outputs through renderer processes
of its own, follows a rotation, a schedule or the weather, prepares videos,
downloads wallpapers, and restores what was shown when the session starts.
`skwd-wall-core` holds the renderers' life cycle, the stores and the database.
This directory models the parts whose behaviour depends on the order of things:
threads, locks, channels, timeouts, failures half way.

Paths below are relative to the repository; `walld` is
`src/crates/skwd-walld/src` and `core` is `src/crates/skwd-wall-core/src`.

Run a check with `tlc -workers 2 -config Apply.cfg MCApply`, a proof with
`tlapm Apply_proofs.tla`. `PROJECT.json` lists the components, the runs, the
mutants that show each property can fail, the source lines behind each
definition, the hazards and the theorems.

## Contents

1. [The system](#1-the-system)
2. [Modules](#2-modules)
3. [Runs](#3-runs)
4. [Proofs](#4-proofs)
5. [What is not modelled](#5-what-is-not-modelled)
6. [Plan](#6-plan)

## 1. The system

### Inventory

| Component | State it keeps | Operations | Hard because | Correct when |
|---|---|---|---|---|
| Apply pipeline (`walld/composition/apply.rs`, `apply/phases.rs`, `core/backend/wallpaper/runtime.rs`, `walld/infrastructure/rpc/wallpaper.rs`) | the apply lock, the generation, the intents of an activity, the cancelled restores; outputs.json; the wallpaper remembered for each monitor | `wall_apply`, `apply_core`, `apply_locked_fanout`, `claim_generation`, `commit`, `publish`, roll back | a request may wait minutes for a video and then meet newer ones; locks are read before the lock is taken; a failure must undo two stores and the screen | the newest request wins, one apply renders at a time, locked outputs stay, the stores agree |
| Startup restore and hotplug (`walld/infrastructure/hotplug.rs`, `restore_policy.rs`, `core/domain/wallpaper/restore.rs`) | the retries left, the groups left | `restore_last`, `restore_pass`, `restore_group`, `retry_restore` | a pass is one long hold of the lock with several claims, and is repeated after delays | it gives way to whoever was accepted, and ends |
| Apply queue (`walld/infrastructure/rpc/apply_queue.rs`) | a deque, `running` | `submit`, `accepts`, `push`, `next`, `run` | the runner may stop while a request is pushed; a full queue still takes a superseding request | one reply per request, one runner, the latest request of a key runs |
| Download gates (`walld/infrastructure/dlqueue.rs`, `rpc/source*.rs`) | an atomic count, a ticket line under a mutex, a condvar; the keys in flight | `try_reserve`, `acquire_reserved`, drops of reservation, slot and guard | three locks taken one after the other, and drops on every error path | counts exact, first come first served, one fetch per key |
| Video optimizer (`walld/infrastructure/processes/video_optimizer.rs`) | a deque, `running`, the current work, a gate shared with images, flags of a work | `prepare`, `stop`, `pop_task`, `run_task` | five locks or atomics, none of them held together | everyone who asked is answered; a stop stops |
| Renderer handoff (`core/infrastructure/wallpaper/apply/`, `core/infrastructure/renderers/`) | candidate and displaced renderers, assignments, readiness gates | prepare, wait, finalise or roll back a batch | pids are reused, readiness races the timeout, batches are all or nothing | an output always has its old or its new renderer, never two or none |
| Renderer supervisor (`core/infrastructure/renderers/supervisor.rs`, `commands.rs`, `lifecycle.rs`) | a dozen mutexes around the renderers and the pause state | swap, pause, duck, freeze, reap, retire | called from request handlers, timers and the playback monitor; some methods hold several mutexes | the mutexes are taken in one order |
| Outdoors session (`walld/composition/runtime/outdoors*.rs`) | the session file, playlist assignments, configuration | follow, leave, recover, manual choice | three stores changed one after the other, and a crash between them | the settings from before come back |
| Weather, playlists, schedule, rotation (`walld/composition/runtime/`) | revisions, due times, retries | ticks that call `apply_core` | decisions taken before the lock | a stale decision is not applied |
| Connections, router, event hub (`walld/infrastructure/rpc/`, `events/hub.rs`) | subscribers, list generations, worker permits | subscribe, publish, list, dispatch | bounded channels, deadlines, cancellation | a slow subscriber hurts only itself; the newest list call answers |
| Library scan, watcher, removal (`walld/infrastructure/watcher*`, `processes/scanner.rs`, `removal.rs`) | watches, pending events, sweeps, scan requests, watch status, rows | batch, poll, hand over, scan, remove, restart | lost or merged events, scanner processes side by side with older views, settings that change half way | a changed file is scanned after its last change; the status is earned |
| Image optimizer and thumbnails (`walld/infrastructure/image_optimization.rs`, `processes/thumbnails.rs`) | the pending request, `running`, the gate; files, trash, rows, outputs.json; a thumbnail batch and its stop flag | kick, run a batch in a worker process, replace an image, clean the trash | four stores changed one after the other by a process that may die, beside the user, a scanner and the daemon | originals survive their retention; favourites and outputs follow the picture; every kick is served |
| Theme worker (`walld/infrastructure/theme_worker.rs`) | the latest job | submit, run | a job outdated while it waits for a lock | the last theme is the one on the desktop |
| Workspaces, history, lock screen, overview, HTTP and Steam, configuration, semantic index, rules, palette, effects, command line, database | see `PROJECT.json` | | mostly formats, files and pure functions | |

### How they meet

```
 clients ── connection ── ApplyQueue ── wall_apply ──┬── apply_core ── renderers
                │                          │ prepare │      ▲
                │ stop                     ▼         │      │ apply_core
                └──────────────── VideoOptimizer ────┘      │
                                       │ gate         rotation, schedule, weather,
                                  image batches       workspaces; restore, hotplug
```

A `wall.apply` request is queued and run by one blocking thread. If its video
has to be prepared, that thread takes a generation (or an intent, for a request
that names an activity), asks the video optimizer, and leaves the rest to a
thread that waits for the answer. All other sources of a wallpaper call
`apply_core` from threads of their own. They meet at `ApplyRuntime::lock`.

## 2. Modules

| Module | Models | Used by |
|---|---|---|
| `Apply` | the apply pipeline, the restore, the hotplug pass | `MCApply`, `Apply_proofs` |
| `ApplyQueue` | the queue before it | `MCApplyQueue`, `ApplyQueue_proofs` |
| `ApplyMailbox` | what that queue promises | `ApplyQueue`, as an abstract specification |
| `DownloadQueue` | the download gates and the keys in flight | `MCDownloadQueue`, `DownloadQueue_proofs` |
| `DownloadLine` | what a gate promises | `DownloadQueue`, as an abstract specification |
| `TinierOptimizer` | the video optimizer | `MCTinierOptimizer`, `TinierOptimizer_proofs` |
| `RendererHandoff` | how a request replaces renderer processes | `MCRendererHandoff`, `RendererHandoff_proofs` |
| `RendererBoundary` | what such a request promises | `RendererHandoff`, as an abstract specification |
| `RendererInvariant` | the inductive invariant of the handoff | `RendererHandoff_proofs` |
| `SupervisorLocks` | the mutexes of the renderer supervisor | itself |
| `Outdoors` | following the weather: session, configuration, assignments, crashes | `MCOutdoors`, `Outdoors_proofs` |
| `Library` | watches, batches, polling, scanners and the watch status | `MCLibrary`, `Library_proofs` |
| `ImageOptimizer` | kicks, batches and the worker that replaces images | `MCImageOptimizer`, `ImageOptimizer_proofs` |

Definitions whose names begin with `Mut` are not part of a specification: each
is a plausible bug, put in place of a definition to see that a property notices.

### Apply

An *attempt* is one call of the pipeline with its caller, and the wallpaper it
applies is named after it. `Mode` says who calls:

| Mode | Caller | What it expects to find |
|---|---|---|
| `user`, `override` | an accepted `wall.apply`; an override ignores locks | nothing |
| `deferred` | a `wall.apply` whose video is prepared first | the generation it took when it asked |
| `intent` | a `wall.apply` for an activity, prepared or not | its intent |
| `rotation` | rotation, schedule, weather, workspaces | nothing, but may be refused under the lock |
| `restore`, `hotplug` | `restore_last` | the restore: not to have been cancelled |

`pc` follows an attempt through `wall_apply`, `apply_core` and
`apply_core_locked`; `lock`, `generation`, `intents` and `restoreCancelled` are
the fields of `ApplyRuntime`; `desired` is outputs.json, `remembered` the
record of each monitor written by a commit, `shown` what the renderers show.
`clock`, `stamp` and `top` are history: the order in which requests were made,
and for each output the latest one committed.

Decisions a reader should know:

- Applying to some outputs (`Show`) records them in outputs.json and then
  reconciles *every* output with it, all or nothing. That is what
  `reconcile_outputs` promises and `RendererHandoff` shows (`AllOrNothing`). A
  prepared video for every output is the exception: `video_render` loops over
  the outputs, and an error leaves the ones before it changed
  (`TinierFailsHalfway`, and the second alternative of `GroupFails`). Such an
  attempt ends in `halfway`, a state of the model only; the code calls it a
  failure.
- `Casts` lists which attempts may meet in one behaviour. The others are
  `absent` and never start. The theorems hold for any casts.
- The set of outputs is fixed. An output that goes away and comes back is one
  whose renderer was reaped, `Blank`, when a hotplug pass starts. `Blank` is
  also what every output shows at startup, and every output has a remembered
  wallpaper, `Old`. Which wallpaper a monitor that was never seen gets is
  policy of its own (`targets`, `resolve`, `seed_new_outputs`) and not in this
  module.
- A group of a restore is every output if all of them are pending for one
  wallpaper with one audio setting, and one output otherwise, as
  `expand_group_target` makes it; the audio setting is a free choice.
  `SkipGone` may skip what is left of a group, where the code looks at the
  file once for each group.
- The user edits the locks at any time, without the apply lock, as the
  configuration is reloaded in the code.
- There is one Plasma activity, the current one. Saving for another activity,
  the no-op early return, remembered offline monitors and pick-only mode are
  left out.
- `Refused` and `Fails` let a rotation lose its permission under the lock
  (`ManualChoice::begin`, the weather's and the schedule's checks).

### ApplyQueue and ApplyMailbox

`submit` is one action: it holds the queue's mutex from `accepts` to `push`. A
request may be asked again once it was answered. The runner is three sets
(`starting`, `executing`, `looking`) rather than one variable, so that having
exactly one runner is something to check.

`ApplyMailbox` has one box for each key, a waiting request replaced by the next
one of its key, and one request at work. It says nothing about which box is
emptied first.

### DownloadQueue and DownloadLine

One instance is one gate. Each request looks in the library, takes its key,
reads the count, tries the compare-exchange, spawns a thread (which may fail),
takes a ticket, waits, works, and gives back the slot, the unit and the key, in
the order of the drops. The condvar is a set of sleeping threads, emptied by
`notify_all`, from which a thread may also wake for no reason.

`DownloadLine` is a sequence of waiting requests and a set of running ones.
The refinement reads the sequence off the tickets.

### TinierOptimizer

A work is named after the request that created it. `prepare` is called by the
one thread that runs the apply queue, so one call at a time is in progress;
`stop` comes from any connection and is split where the code releases a lock:
look at the current work, take a work off the queue, answer its subscribers,
finish the task. `store(interactive)` and the registration of the subscriber
are one step. Which engine is selected is a free choice when the runner takes
the gate. An image batch is a holder of the gate that comes and goes.

### RendererHandoff and RendererBoundary

A request is a *program*: spawn candidates, wait for them, reveal, prepare, and
from the first `commit` on nothing can fail. It is a set of instructions, each
with a stage and a launch; a stage is done launch by launch in the order of the
outputs (`Before`), and `todo` is what is left of it. Each kind of request
(`reconcile`, one video, one scene, static images with or without a fade) has
the program its function in `launch.rs`, `reconcile.rs`, `static_media.rs`
builds. A `slot` is a place of a `RendererTarget`: the base still, the paper of
a fade, an entry of `output_stills` or `video_papers`, or a transaction's own
hold on a detached candidate. `open` holds the `RendererTransaction`s that are
neither committed nor dropped, each with what it displaced. `gate` is what the
readiness registry has latched for a process.

- A process is a number that is used again once it has been collected and the
  registry has forgotten its answer. The registry knows a process by its pid
  only and remembers an answer for a minute (`GATE_TTL`); that no pid comes
  round again within that time is assumed (`Fresh`), not checked. Pids are
  handed out in turn, so that all of them would have to be used meanwhile.
- Renderers answer, answer with an error or exit whenever they like, `MaxExits`
  times by themselves. A wait that times out is the same step as an error.
- Requests do not overlap: they run under the apply lock, which is what
  `AuthorityIsExclusive` of `Apply` says. Reaping and retiring do run beside
  them. Outputs come and go between requests.
- `RendererBoundary` is the view from outside: a request replaces renderers,
  scene marks and assignments in one step, or changes nothing. The mapping
  reads the world through the open transactions (`Undone`, `Final`).

### SupervisorLocks

For each method of the supervisor, the paths through its mutexes: the sets of
mutexes held one after the other, one path for every early return and condition
that decides about a mutex. Two threads call any methods. What the methods do
is left out, apart from whether the paper process is there, which decides the
path of `reap_exited_paper`.

### Outdoors

`disk` is what survives a crash: the session file, the configuration, the
playlist assignments in the database. `runtime` is `RUNTIME`, `control`,
`choice`, `runner` and `refresh` are the threads that follow and leave, make a
manual choice, apply what is due, and look at the weather. Each write is a step
that may fail, and `Crash` loads what is on the disk, through
`Session::recover`.

- The generation is only compared for equality, and every new one is new, so it
  is the set `fresh` of the threads whose revision is current.
- `RUNTIME`'s mutex is held by a manual choice from one of its writes to the
  next (`Held`); the apply lock by whoever is `Locked`.
- A follow that fails is withdrawn in two writes, settings and session
  (`Withdraw`, `WithdrawEnds`); a choice that cannot switch the configuration
  saves the session of the runtime again (`ChoiceUndoes`). Each of these may
  fail, too.
- `state.config()` is what the configuration file says.
- `Session::recover` is one step of `Crash`: a second crash within it is left
  out. It changes the database before the session, so that it would only be
  repeated. What it or `load` cannot write is left out as well.

Following is not proof against every failure, and the model says where it is not.
`PlaylistsKept` holds but for five *losses*, which are recorded in `ghost.lost`
at the step that causes them:

| Loss | Source (`runtime/outdoors.rs`) |
|---|---|
| the last save of a follow fails after the assignments are cleared; the runtime goes on with its former session, and its next save overwrites the captured one | 893 |
| a follow captures anew over a session that is neither running nor left, as after a leave that failed at the assignments | 860 |
| the rollback of a failed choice cannot write the session or the configuration | 754, 758 |
| a choice can neither switch the configuration nor save the session again | 728 |
| a crash hits a choice that has ended the session and has not committed | 725 to 735 |

While a choice that has ended the session is rendered or rolled back
(`HasEnded`), nothing is said; if it fails, the playlists are owed as before. The
user gives them up by assigning the output, by pinning it or letting a playlist
take it over until the follow is left, by a choice that is committed, and by
editing the settings while a follow starts.

`Coherent` excuses four kinds of *disagreement* (`ghost.torn`), each only from the
part of the property it is about, and each until the next follow, leave or
restart that puts it right:

| Name | What has failed | What may differ |
|---|---|---|
| `memory` | the last save of a follow, the withdrawal of a failed follow, the undoing of a choice; or a withdrawn follow had replaced a session that was active | the session in memory |
| `config` | a leave at its assignments or its last save, a crash in a leave or a choice between the two stores; or the user edited the settings by hand | the configuration |
| `unsaved` | the last save of a changed session (`feedback`, `note_apply`, `reconcile`) | what is in the sessions, but not whether they are active |
| `restore` | the last save of a leave, after its restore was announced | a restore stays pending |

A failure of any other write, and a crash anywhere else, leaves all of it in place.

### Library

A file is its modification time and a row the time it was made from, and a time
never comes back. `outer` is `start_watcher`, `watch` its session and loop,
`poll` the task that sweeps the roots without a watch, `jobs` the flushes on
blocking threads, `scans` the scanner processes, `status` what clients see.

- A scanner lists rows and files in one step, and then decodes, stores and
  prunes step by step, with its older view.
- The ids of scan requests are used again once nobody holds them.
- `ghost` is history: `lost` are the paths that the code itself gives up
  (changed while nobody watched, noticed only by a sweep that then failed, beyond
  the bound of a batch, overwritten from an older view, in the hands of a
  scanner that died) until they are scanned again; `owed` the roots whose hand-over scan is not over; `orphans` the
  requests whose end nobody can report any more.

### ImageOptimizer

`pending`, `running` and `task` are the fields of `ImageOptimizer` and the task
`kick` starts; `by`, in a request, is history: the kicks it was made of. `work`
is the worker process, at one image: decide, encode, install beside the source,
record and rename the row, move the source to the trash, date it there, repoint
outputs.json. A step that fails rolls back as the code does, and `Die` may
strike between any two.

- Sources that differ in their extension only share their destination; those of
  different stems do not meet, so one stem is enough.
- A content has a number. `source_unchanged` compares size and time, the model
  the content: a different picture with an old date and the same size is left
  out. The records a batch reads at its start are those the worker itself
  changes, each once, so they are read where they are used.
- An apply writes outputs.json in one step. The worker reads it and writes it
  whole, so an apply between the two is lost: the code does not order the two
  processes. `ReferencesFollow` demands that what is written then is there all
  the same; that the apply was lost it does not hold against the code.
- A scanner that has seen the row of a destination without a file removes, when
  it gets there, the row that has the key by then. With a favourite that has
  moved to that key meanwhile, the favourite is lost (`DropsDestination`). One
  scanner is modelled.
- `ReferencesFollow` holds but for five *troubles*, recorded in `ghost.row` and
  `ghost.out`. Two are about the favourite: `removed` (the user removed its file,
  or a file of the picture at work) and `dropped` (the scanner just named). Four
  are about outputs.json: `removed`; `undone` (the new picture was applied before
  its install was rolled back: `rollback_install`, `image_optimization.rs:687`,
  removes the file without a look at outputs.json); `died` (the worker died after
  the move and before outputs.json was repointed, which the next batch does not
  repair); `unwritten` (`write_state` could not write it, and says nothing). An
  apply while no image is at work mends what is wrong with outputs.json.
- Which free name a trash entry gets does not matter: `TrashPath` is any of them,
  the same whenever it is asked for.
- A trash entry that was moved and not dated (the worker died, or the file
  cannot be opened for writing) keeps the date of the picture and may be
  deleted by the next cleaning (`undated`).

## 3. Runs

| Run | Configuration | Checks | States |
|---|---|---|---|
| `download_gate` | 4 requests, 1 slot, 2 may wait, two of the requests may want one key | `TypeOK`, `Accounting`, `OneOwnerPerKey`, `TicketsMatch`, `PositionNeverGrows`, `ServesInOrder` | about 310 000 |
| `apply_queue` | 5 requests of 3 keys and 2 activities, 2 may wait | `TypeOK`, `RunnerCoversQueue`, `AnsweredOnce`, `CancelsRestoreIffAccepted`, `EveryRequestAnswered`, `LatestOfEachKey` | 253 |
| `apply` | 2 outputs, one lockable; three casts of a deferred request, an intent for one output, one for all, and a rotation; one cast of the restore with 2 tries, a hotplug, an override for one output and a deferred request for all | `TypeOK`, `AuthorityIsExclusive`, `StoresAgree`, `NewestWins`, `LockedOutputsKept`, `RestoreYields`, `EveryAttemptEnds` | about 445 000 |
| `tinier_optimizer` | 3 requests for 2 videos, one without replace, one stop, image batches | `QueueOrder`, `EveryPreparationAnswered`, `StopTakes` | about 300 000 |
| `tinier_stop` | the same | `RunningTasksStop`, which is violated | 215 until then |
| `renderer_handoff` | 2 outputs, 5 process numbers, 2 requests of nine kinds, one renderer exits by itself | `TypeOK`, `Owned`, `OneRenderer`, `AllOrNothing`, `CommitCovers`, `Settles` | about 343 000 |
| `departed_group` | 3 outputs, a static wallpaper on two, a video on the third | `SurvivesConnected`, which is violated | 1 061 until then |
| `supervisor_locks` | 2 threads, every method | `GlobalOrder`, which is violated | about 70 000 until then |
| `outdoors` | 2 outputs, one kind of weather, one playlist; 3 acts of the user and one failing write or crash, or 2 and 2 | `TypeOK`, `PlaylistsKept`, `Coherent`, `RestoreYields` | 3 394 337 |
| `outdoors_retry` | the same | `FailedIsDue`, which is violated | about 186 000 until then |
| `library` | 2 roots, one of which may fail; 2 scanners; four scenarios: a watch that fails with a trouble, two roots polled and handed over, two files with a batch for one, three acts and a trouble | `TypeOK`, `Covered`, `NativeIsEarned`, `StatusHasReason` | 1 372 757 |
| `image_optimizer` | 2 sources of one stem, 2 kicks, 2 places in the trash; two acts of the user, or an act and a trouble, or two troubles | `TypeOK`, `ReferencesFollow`, `OriginalsKept`, `EveryKickServed` | 764 482 |

### What the properties say

- **Accounting, TicketsMatch, OneOwnerPerKey, PositionNeverGrows.** The two
  counters of a gate count exactly the threads that hold them, on every path
  through refusal, failed spawn and drop; the tickets not yet admitted are
  those of the waiting threads; a key has one owner; the position a client is
  told only falls.
- **ServesInOrder.** The gate implements `DownloadLine`: first come, first
  served, and a free slot is handed on (liveness: no wake-up is lost).
- **AnsweredOnce, RunnerCoversQueue, EveryRequestAnswered.** Every submission
  has no reply while it is owned and one afterwards; there is one runner
  exactly while `running` is set.
- **CancelsRestoreIffAccepted.** What `accepts` predicts is what `push` does.
- **LatestOfEachKey.** The deque implements `ApplyMailbox`.
- **AuthorityIsExclusive.** From its claim to its end an attempt holds the lock
  and the current generation. It follows that `authorize_commit` never refuses
  a commit. The comment at `apply/phases.rs:61` explains the check by a
  deferred apply superseded while its renderer becomes ready; under the lock
  that cannot happen, and the check is a second line of defence.
- **NewestWins.** The latest request committed on an output never gets older.
- **RestoreYields.** Once a request was accepted or another source committed,
  the startup restore claims no further group.
- **StoresAgree.** When nobody holds the lock, the screen shows what
  outputs.json says (or nothing), outputs.json is what the monitors remember,
  and only committed wallpapers are in either, apart from a video that stopped
  half way.
- **LockedOutputsKept.** An output a fan-out saw locked does not change while
  that fan-out holds the lock, whether it succeeds, fails or rolls back.
- **EveryAttemptEnds.** Whoever has begun ends: the lock is not waited for for
  ever, the preparation is, and the retries run out.
- **EveryPreparationAnswered.** No deferred apply waits for an answer that
  never comes, in any interleaving of sharing, stopping, replacing and the
  runner going away.
- **StopTakes.** A work stopped or replaced while ffmpeg runs is not reported
  as prepared.
- **QueueOrder.** Replacing requests come first, the newest of them at the
  head; nothing is queued twice, nor queued when it has been answered.
- **AllOrNothing.** `RendererHandoff` implements `RendererBoundary`: whatever
  fails on the way, a request ends with every renderer, mark and assignment
  replaced, or with all of them as they were.
- **Owned.** Every process has exactly one holder that will kill or collect it.
- **OneRenderer.** Between requests no output is drawn by two renderers, and the
  scene marks name the native scenes.
- **CommitCovers.** A request passes the point of no return only when each of
  its outputs has a renderer of the right kind that has answered its last
  command, or one that was kept.
- **Settles.** A renderer taken out of its place is put back or stopped in the
  end.
- **PlaylistsKept.** The playlists a follow captured are assigned or in the
  session of a follow that is still active, through crashes, failing writes,
  leaving and failed choices, but for the five losses listed with `Outdoors`.
- **Coherent.** When nobody is at work, the session in memory, the one on disk
  and the configuration agree on whether the weather is followed, the two
  sessions are the same and no restore is pending, but for the disagreements
  listed with `Outdoors`, each of which excuses only its own part.
- **RestoreYields** (of `Outdoors`). Leaving gives an output its former
  wallpaper back only where the weather had put the present one.
- **Covered.** While a row differs from its file, somebody will look at that
  file again and find it as it is now: an event, a batch, a flush, a scan, a
  sweep, or the rescan of a new session. What the code itself gives up is named in the property.
- **NativeIsEarned.** The status is native only when a scan of everything, begun
  after the recovered watches were there, has been reported.
- **StatusHasReason.** A pending request is in somebody's hands, and polling
  roots have their polling task.
- **OriginalsKept.** What the user wrote to a source is there or in the trash,
  in a place of its own, until the user removes it or its retention has passed.
- **ReferencesFollow.** Through every install, failed step and rollback, a
  favourite is on a row whose file is there; and but between the move of an
  original and the repointing, outputs.json names a file that is there. The five
  troubles listed with `ImageOptimizer` are excepted.
- **EveryKickServed.** A kick is served by a batch that includes what it asked
  for, however it falls between the push, the flag and the task that stops.

### Findings

`tinier_stop`: the task registry shows a task as running, with the capability
to stop, from the moment it is queued, and
`walld/infrastructure/processes/video_optimizer/tests.rs:37` asserts that it
has it. Between `pop_task` and the moment the runner has the gate and sets
`current_tinier`, the work is neither queued nor current, and `stop` returns
false. As long as an image batch holds the gate, that is a long time.

`departed_group`: when an output is unplugged, `kill_departed_outputs` takes
the key of each renderer for the name of an output. A renderer shared by two
outputs has a joint key, which is no output's name, so it is killed although
both stay connected (`core/infrastructure/renderers/lifecycle.rs:313`).

`supervisor_locks`: the comment at `renderers/commands.rs:249` asks for one
global order of the mutexes. A pause change and a retirement take `paper_stdin`
and then `paper_child`; the reaping of an exited paper takes them the other way
round, and the two threads wait for each other.

`outdoors_retry`: `refresh` reads outputs.json without the apply lock and may
see a wallpaper that is staged and then fails. It marks the weather as applied,
and the output is not due any more, so nothing tries again, contrary to
`runtime/playlist/tests.rs:606`.

Each run shows the shortest such behaviour.

### Bounds

Two outputs are the least for which a fan-out, a mixed restore and a halfway
failure differ. Each run has the attempts that can disturb one another in the
way its properties are about: a deferred request and intents that overlap and
are superseded in both orders, and a rotation that claims between; a restore,
what cancels it, and a hotplug which is not cancelled. `MaxTries` is 2 (5 in
the code), enough for a retry to meet a cancellation before, in and after the
delay. A gate with one slot and two places has somebody running, two in line
so that order matters, and a fourth who is refused or shares a key. Two pending
applies (32 in the code) fill the queue with different keys and leave a fifth
request to supersede or be refused. The theorems of section 4 hold for all
values.

Two requests of the renderer handoff are one that leaves renderers behind and
one that displaces them; five numbers let both have their candidates and one be
used again. In `Outdoors`, three acts allow to follow, to choose or leave, and
to change something meanwhile, with one write failing or one crash anywhere
among them; two acts with two troubles allow a rollback, a withdrawal or the
undoing of a choice to fail after the write that made it necessary. `Library` and `ImageOptimizer` have *scenarios*, the combinations
of acts and troubles that are let loose together: with each property's hazard
in at least one of them (a root that recovers while another scan is pending; a
removal that fails in a full batch; a source restored after it was replaced, so
that the trash has its name already; a move that fails after the scanner has
added the old row again).

### Fairness

- `Apply`: `WF_vars(Step(a))` for each attempt: the threads are scheduled,
  renderers become ready or time out (`readiness.rs`), the preparation answers
  (this is what `TinierOptimizer` checks), and delays pass. Nothing is assumed
  of the user, neither that requests come nor that locks are edited. Attempts
  are finitely many, so a mutex need not be fair.
- `ApplyQueue`: `WF_vars(Run)`: the blocking thread runs and an apply ends.
- `DownloadQueue`: weak fairness for every step of a thread, and strong
  fairness for the success of `compare_exchange_weak`, which may fail without
  reason but not for ever. None for spurious wake-ups and failing spawns.
- `TinierOptimizer`: weak fairness for the runner, ffmpeg's end and the end of
  an image batch; strong fairness for taking the gate, since batches come again
  and again and `std::sync::Mutex` only promises not to favour one for ever.

- `RendererHandoff`: the request runs on, since its waits have timeouts, and the
  threads that retire a renderer sleep for a bounded time. Nothing makes a
  renderer answer or exit.
- `ImageOptimizer`: weak fairness for the kicks under way, the task, the worker
  and the end of a conversion; strong fairness for taking the gate, as above.
- `Outdoors` and `Library` have safety properties only.

Deadlock is checked except where a cfg says `CHECK_DEADLOCK FALSE`: the
renderers, outdoors and the library come to rest when the acts and troubles of
the instance are used up. `DownloadQueue` says when it may stop
(`Terminated`), so there it means something; in the other modules a step of the
environment is always possible (an edit of the locks, a request, an image
batch, a conversion), and it is the liveness properties that show that nothing hangs.

## 4. Proofs

The modules `*_proofs` prove the following for every value of the constants:
any number of requests, keys, slots, attempts, outputs, sources, paths, roots
and scanners, any contexts and playlists, any scenario of acts and troubles, any
renderer processes and any requests for them.

| Theorem | What it states |
|---|---|
| `DownloadQueue_proofs!TypeCorrect` | `TypeOK` |
| `DownloadQueue_proofs!CountersExact` | `Accounting` |
| `DownloadQueue_proofs!KeysExclusive` | `OneOwnerPerKey` |
| `DownloadQueue_proofs!NobodyLost` | `TicketsMatch` |
| `DownloadQueue_proofs!PositionsFall` | `PositionNeverGrows` |
| `DownloadQueue_proofs!FirstComeFirstServed` | `ServesInOrder` without its fairness: each step maps to a step of `DownloadLine` or a stutter |
| `Apply_proofs!TypeCorrect` | `TypeOK` |
| `Apply_proofs!CommitIsAuthorized` | `AuthorityIsExclusive` |
| `Apply_proofs!RestoreGivesWay` | `RestoreYields` |
| `Apply_proofs!LaterRequestWins` | `NewestWins` |
| `Apply_proofs!LocksAreKept` | `LockedOutputsKept` |
| `Apply_proofs!StoresConverge` | `StoresAgree` |
| `ApplyQueue_proofs!TypeCorrect` | `TypeOK` |
| `ApplyQueue_proofs!RunnerComes` | `RunnerCoversQueue` |
| `ApplyQueue_proofs!RepliesExact` | `AnsweredOnce` |
| `ApplyQueue_proofs!RestoreCancelled` | `CancelsRestoreIffAccepted` |
| `ApplyQueue_proofs!ImplementsMailboxes` | `LatestOfEachKey` without its fairness: each step maps to a step of `ApplyMailbox` or a stutter |
| `TinierOptimizer_proofs!TypeCorrect` | `TypeOK` |
| `TinierOptimizer_proofs!QueueKeepsOrder` | `QueueOrder` |
| `RendererHandoff_proofs!TypeCorrect` | `TypeOK` |
| `RendererHandoff_proofs!EveryProcessOwned` | `Owned` |
| `RendererHandoff_proofs!NothingLeftOpen` | between requests no transaction is open, nothing is left to do, and the assignments saved for an error are the present ones |
| `RendererHandoff_proofs!OutputsCovered` | `CommitCovers` |
| `RendererHandoff_proofs!DrawnOnce` | `OneRenderer` |
| `RendererHandoff_proofs!ImplementsBoundary` | `AllOrNothing`: the handoff implements `RendererBoundary` |
| `RendererHandoff_proofs!NobodyStarting` | between requests no renderer is starting, hidden or known to have failed |
| `Outdoors_proofs!TypeCorrect` | `TypeOK` |
| `Outdoors_proofs!PlaylistsSafe` | `PlaylistsKept`, with its five named losses |
| `Outdoors_proofs!AtRest` | `Coherent`, each named disagreement excusing its own part |
| `Outdoors_proofs!RestoreCareful` | `RestoreYields` |
| `Library_proofs!TypeCorrect` | `TypeOK` |
| `Library_proofs!NothingForgotten` | `Covered` |
| `Library_proofs!NativeEarned` | `NativeIsEarned` |
| `Library_proofs!StatusReasoned` | `StatusHasReason` |
| `ImageOptimizer_proofs!TypeCorrect` | `TypeOK` |
| `ImageOptimizer_proofs!ReferencesSafe` | `ReferencesFollow`, with its five named troubles |
| `ImageOptimizer_proofs!OriginalsSafe` | `OriginalsKept` |

### What is assumed

Only what each module says of its constants, which TLC evaluates in every run.
Most of it says what kind of value a constant is (`GateAssumption`,
`DownloadsAssumption`, `KeysAssumption`, `AttemptsAssumption`,
`QueueAssumption`, `TinierAssumption`, `Bounded`, `Files`, `Wishes`) or that
names of different things differ (`Distinct`: a context is not the name of a
kind of wallpaper, and no value is `None`; so `Outdoors` leaves out that the user
picks the very wallpaper that the weather has chosen). `HandoffAssumption` says of
the renderers that there is an output, that `OutputOrder` names every output and
nothing else, that `Nobody`, `Blank` and `Multi` are no process, wallpaper or
output, that `Blank` is not what is recorded for a shared renderer either, and
that a wallpaper is a still, a video or a scene; of the requests, that only
`reconcile` mixes scenes with the others: `apply_we` is given scenes only, and
the other commands none. `Places` says that roots and paths are finitely many. Two assumptions come from the models rather than the code:
`ContentsSuffice` and `TimesSuffice` say that there is a fresh content, or a
later time, for every act of a scenario, so that the numbers never run out. In
`RendererHandoff`, the pid of a new process is neither in use nor one for which
the registry remembers an answer (`Fresh`). In
`ImageOptimizer`, an image is installed only while the trash has a free name
(`FreeSlots # {}`): the code invents names without end.

### The argument for the gate

`Inv == TypeOK /\ Accounting /\ Tickets /\ Told /\ KeysHeld`. `Accounting` is
inductive with the types alone: an action moves one thread between the sets
that hold a unit, and the lemma `Move` says what that does to a cardinality.
`TicketsMatch` is not: that the *number* of waiting threads is
`issued - admitted` follows only if the tickets are a bijection, so `Tickets`
says that they lie between the two, differ, and leave no gap. `Told` ties the
position last reported to the ticket. `KeysHeld` says that the keys in flight
are exactly those of the owners, which is what makes a fresh key a free one.
`Line`, the refinement's sequence of waiting threads, has each of them at the
place of its ticket (`LineKnown`, `Placed`); a thread joins it at its end and
leaves it at its head (`Joins`, `Serves`).

### The argument for the pipeline

`Inv == TypeOK /\ TriesLeft /\ Authority /\ Cancels /\ Order /\ Kept /\ Stores`.

- `Authority`: whoever is inside holds the lock, and a claim is current, since
  nothing raises the generation while the lock is held.
- `Cancels`: what the restore must not overrule has set `restoreCancelled`.
- `Order`, for `NewestWins`: nobody who may still commit has been passed by. An
  intent stays registered only while no later overlapping one and no claim of
  everything has dropped it; a deferred request is current only while nobody
  has claimed since, so that it is later than every commit, and earlier than
  every intent registered since.
- `Kept`: while a fan-out is in progress, what it does not change is as it was
  when it began, so that putting outputs.json back does not touch it.
- `Stores`: the same as `StoresAgree`, said of what outputs.json was before the
  fan-out in progress staged its outputs (`Was`).

Each part has a lemma which says that every action preserves it (`TypePreserved`,
`ControlPreserved`, `OrderPreserved`, `KeptPreserved`, `StoresPreserved`); `Kinds`
groups the actions by what they leave alone.

### The argument for the apply queue

`Inv == TypeOK /\ OneRunner /\ JobsApart /\ AnsweredOnce /\ Len(pending) <= MaxPending`.
`OneRunner` says where the runner is: nowhere, with one job, or between two. A
runner that stops leaves an empty deque behind, because it looks and clears
`running` under one lock. `JobsApart` says that a job at work is not waiting as
well, without which an answer would go to a request that waits. That the
boxes of `ApplyMailbox` follow is a matter of what taking a request out of
the deque, and putting one at its end, does to the latest of each key
(`Retaining`, `BoxChanges`).

### The argument for the video optimizer

`Inv == TypeOK /\ Ordered /\ Unanswered /\ Unborn /\ TakenOut /\ JobKnown /\ Ranked`.
`Ordered` and `Unanswered` are `QueueOrder`. They are not inductive: a work may
be answered while it is queued unless a stop owns what it took out
(`TakenOut`) and the runner what it popped (`JobKnown`), a work may be queued
that has been answered unless a work does not exist before its request looks
at the queue (`Unborn`), and a replacing request is the newest only if no rank
is ahead of the clock (`Ranked`).

### The argument for the renderers

The inductive invariant is in `RendererInvariant`. Its first part is
`IInv == TypeOK /\ Resting /\ Running /\ Transactions /\ Once /\ Accounted`.

- `Once` and `Accounted` are `Owned`, said of slots, transactions and threads one
  by one: no process is held twice, and exactly the processes that run are held.
- `Transactions`: an open transaction has its candidate in its slot until
  somebody collects it, what it displaced came from slots that it alone may
  touch, and those are empty now. That is why putting its incumbents back
  overwrites nobody.
- `Running`: why it alone may touch them. The open transactions belong to
  launches of the request's program, each launch is opened once, and what is
  left of the program commits all of them before its last instruction. Two
  launches of one program have no slot in common (`ApartReach`), which is where
  the five programs come in: `Complete` is what each must be to its launches,
  and `ProgramComplete` shows it from how the groups of outputs are made
  (`SharedIs`, `HandoffSlots`, `SceneSlots`).
- A shared renderer that fails gives its outputs back to the rest of the
  request, whose program is made again. `OthersRemain` says that the launches of
  the others, some of which are open, are launches of the new program too.
- `Resting`: between requests nothing is open.

`CommitCovers` needs more than who holds a process: it needs to know that
somebody hears of it. `CInv == Gates /\ Whole /\ Alone /\ Revealed /\
\A p \in Pids : Attended(p)` is inductive together with `IInv`.

- `Attended`: a process that is starting, hidden or broken is the candidate of
  an open transaction, and the program has still the instruction that will hear
  of it (`Awaits`: a wait, a reveal or an answer). So once only commits remain
  (`AllSettled`), or nothing is open, every process has settled.
- `Gates`: a latched gate has its process's answer, so a wait that finds `ok`
  does not pass over a process that answers later.
- `Whole`, `Alone`, `Revealed`: why the instruction is still there when a shared
  renderer is given up and the program is laid out anew. A launch that has not
  begun has all of its instructions, nothing of a shared renderer comes between
  a start and its wait, and nothing is started once a candidate is revealed.
  They rest on the order of the five programs (`ProgramOrder`, `TurnIs`).
- `Covered`: until only commits remain, each launch of the program is still to
  begin, under way or kept. `Suited`: the request keeps what it was made for.
  `LaunchesCover` shows of the five programs that their launches serve every
  output of the request with a renderer of its kind.

`OneRenderer` speaks of the slots between requests, but what is in them then may
have been displaced and put back meanwhile. So the invariant `DInv` speaks of
`Undone`, what dropping the open transactions would leave, until the request
is `Committing`, that is until only its commits and its end remain.

- `UndoneShrinks`: until then a step leaves `Undone` as it is, or takes a
  renderer out of it that exited or whose output went. `OldApart`, that no two
  renderers of `Undone` serve one output, therefore only has to be shown anew at
  the end of a request (`TidyApart`).
- There, what stays is in the slots the request keeps. `Roles` says that a
  renderer in a slot that is named for outputs serves exactly those, and
  `KeepsApart` that the slots kept by each of the five requests are apart.
- The shared renderer's slot is not named for outputs. `MultiNew` says that
  whoever is in it at the end serves the outputs of this request, because it
  was started for it, or kept: it is kept only if the recorded group is the
  requested one, and `MultiOld` says that the record names the outputs the
  renderer serves and what each was assigned.
- `MultiOld` is about the saved assignments, which become the present ones when
  a request fails. `Handed` and `Sames` say that these agree then: what a
  reconciliation assigns before it can still fail was assigned already.
- `Marked`: the marks name the scenes, and a transaction remembers those it takes.

`AllOrNothing` is a refinement: `World`, `Scened`, `Recorded`, `Dead` and `Told`
are what the handoff shows of the variables of `RendererBoundary`.

- `Proceeds`: as long as a request can still fail, its steps leave `Undone`,
  the marks that go with it and the saved assignments as they are, so that the
  boundary sees a stutter; its last such step is the boundary's `Replace`. For
  the marks this needs `Occupied`: only a place where a renderer is has a mark,
  so that what a spawn takes away is exactly what its transaction remembers.
- `NotYet`: a program that was just laid out, at the start or after a shared
  renderer was given up, prepares something before it commits. So the step that
  kills a candidate is never the one that passes the point of no return.
- From there on the boundary already sees the end (`Final`, `Settled`): a
  commit changes nothing of it (`CommitSettles`), and at the end it has come true
  (`TidySeen`). A renderer that exits, is collected or retired on the way
  does so for the boundary, too (`Leaves`).
- An error returns the saved assignments. For the requests that do not put them
  back, `Handed` says that they are still the present ones.

### The argument for following the weather

`Inv == Typed /\ SessionsKnown /\ OwedKept /\ AgreeKept /\ OwnedRight /\ ChoiceSeen`.

- `SessionsKnown`: which of the sessions in memory, on the disk and in the
  threads are the same one between two writes, and which are followed.
- `OwedKept`, for `PlaylistsKept`: a playlist is assigned, or in the session on
  the disk, or a choice that has its session rolls back, unless the output is
  among the lost; for each thread, what it must have if it crashes, fails or
  goes on now.
- `AgreeKept`, for `Coherent`: where the three stores agree, and how they differ
  at each step between two writes.
- `OwnedRight`, for `RestoreYields`: in every session that may still give a
  wallpaper back, what it believes to be the weather's was put there by the
  weather. `ChoiceSeen` says that a leave that a manual choice overtook has lost
  its revision or its restore.

### The argument for the library

`Inv == TypeOK /\ TimesPassed /\ Elsewhere /\ InSession /\ StatusSays /\ Requested /\ Owes
/\ Scanning /\ OldView /\ Looked`.

- `Looked`, for `Covered`: each path has its row and nobody is about to write an
  older view of it (`Quiet`), or somebody is to look at it again (`Awaited`).
  This is said of the lost paths, too, that a scanner in progress repairs.
- `OldView`: a scanner that still holds a file nobody has dealt with since found
  a row that differed, so that what it stores is not older than the row.
- `Owes`, for `NativeIsEarned`: a root handed over to a watch waits for a request
  whose scan, if it has begun, began after the watch was there.
- `Requested`, for `StatusHasReason`: a pending request is in somebody's hands.
- `TimesPassed`: no time comes again; `Elsewhere` and `InSession` say where a
  scenario and a session have nothing.

The first attempt at this proof did not go through, and TLC then found the
behaviours: a sweep that notices a change and fails afterwards does not notice
it again, and a full scan that looks for rows to prune before an older scanner
adds one does not see it. The code gives both up, so both are named in `lost`.

### The argument for the image optimizer

`Inv == Typed /\ WorkKnown /\ OneMark /\ MarkShown /\ MarkSafe /\ OutShown /\ Dated`.
`MarkShown` and `MarkSafe` say where the favourite is between two steps of the
worker, and that it is not on a destination that may still be taken back;
`OutShown` says the same of outputs.json; `Dated` says that what is old in the
trash and not due was never dated. `OriginalsKept` is an action property that
follows from them.

### Only model-checked

Liveness under fairness (`EveryAttemptEnds`, `EveryRequestAnswered`,
`EveryPreparationAnswered`, `StopTakes`, `Settles`, `EveryKickServed`, the
fairness of `LatestOfEachKey` and of `ServesInOrder`) is out of the prover's
reach; every other property of the passing runs is proved. The four runs that
expect a violation show a behaviour and need no proof.

## 5. What is not modelled

- Panics and poisoned locks: the release profile aborts (`src/Cargo.toml`), so
  no other thread sees one.
- Restarts of the daemon within `Apply`: the restore starts from stores that
  agree. A crash between outputs.json and the record of the monitors restores
  one or the other; nothing in the code compares the two at startup.
- The Plasma backend, and the commands that change a running renderer.
- In `Outdoors`: a stale forecast and a change of location, several candidates
  for a context, the wildcard output, legacy sessions, the stability timer, and
  failures and crashes within the recovery of a session.
- In `Library`: the gap between the first scan and the watches at startup, the
  exclusion policy, Workshop items, theme events, thumbnails, removals and scans
  that clients ask for.
- In `ImageOptimizer`: the encoder and its quality gates, profiles, a move
  across filesystems, the legacy trash, the events after a batch,
  last-wallpaper.json (it goes the way of outputs.json), and the thumbnail batch.
  A file that the user puts at the destination while the source is encoded is
  overwritten, in the code as in the model, and no property speaks of it.
- What the renderers draw, how videos are encoded, what the network answers,
  what files and databases contain: only whether the step succeeds.
- The components marked `not_modelled` in `PROJECT.json`, each with the reason.

## 6. Plan

What is left, the most important behaviour first:

1. **Automation**: weather, playlists, schedule and rotation as revisions and
   due times, with the decisions that go stale before the lock. `Apply` and
   `Outdoors` have their effects, not their clocks.
2. **Connections**: the event hub, list calls cancelled by newer ones, worker
   permits and deadlines.
3. **RestorePlan**, **History** and the rules, as pure operators checked against
   a reference definition over bounded inputs; the theme worker.

The runs are one for each question a module asks; the instances of a module
share a run where they can, as the casts of `Apply` and the scenarios of
`Library` do.
