--------------------------- MODULE SupervisorLocks ---------------------------
(***************************************************************************)
(* The mutexes of the renderer supervisor.  Request handlers, the playback *)
(* monitor, the apply thread and the timers call its methods at the same   *)
(* time; each method takes some of the mutexes, and some of them while it  *)
(* holds others.                                                           *)
(***************************************************************************)
EXTENDS Naturals, Sequences, FiniteSets

CONSTANTS Threads, \* the threads that call the supervisor
          Idle     \* what a thread does between two calls

VARIABLES call,    \* the method each thread is in
          path,    \* the sets of mutexes it holds one after the other
          pc,      \* how far it is
          paper    \* the process in paper_child: "none", "up" or "exited"

vars == <<call, path, pc, paper>>

\* One mutex, taken and released, and one taken for as long as others are.
Alone(m) == <<{m}, {}>>
Under(m, inner) == <<{m}>> \o [i \in DOMAIN inner |-> inner[i] \cup {m}]

--------------------------------------------------------------------------------
(* The paths through each method: a path is the sequence of the sets of mutexes *)
(* that are held, and ends with none.  A method has one for each early return   *)
(* and each condition that decides about a mutex.                               *)

PaperPair == <<{"paper_stdin"}, {"paper_stdin", "paper_child"}, {}>>
\* broadcast_pause_change
Broadcast == LET most == Alone("pause") \o PaperPair \o Alone("video_papers")
             IN {most, most \o Alone("fleet")}
\* signal_pause_pid
SignalPid == {PaperPair, PaperPair \o Alone("video_papers"),
              PaperPair \o Alone("video_papers") \o Alone("fleet")}

\* set_automatic_paused, set_paused, set_output_paused, set_session_paused,
\* begin_apply, end_apply
PauseChange == {Alone("pause")} \cup {Alone("pause") \o b : b \in Broadcast}
\* allow_session_rendering_for: the call, and its thread after the duration
SessionRendering == {Alone("pause")} \cup {Alone("pause") \o s : s \in SignalPid}
\* independent_playback, paused_for, manual_paused_for, paused
PauseQuery == {Alone("pause")}

\* set_audio_ducked
Duck == {Alone("audio_ducked"),
         Under("audio_ducked", Alone("video_papers") \o Alone("paper_stdin")) \o <<{}>>}
\* send_audio
SendAudio == {Alone("video_papers") \o Alone("paper_stdin")}
\* video_swap, scene_swap, capture_scene, scene_freeze_alive, send_shared_video_audio
VideoCommand == {Alone("video_papers")}
\* freeze_scene and finish_scene_freeze
Freeze == {Alone("scene_papers"), Alone("scene_papers") \o Alone("video_papers")}
FinishFreeze == {Under("pause", Alone("video_papers")) \o <<{}>>}
\* paper_swap, take_paper_stdin
PaperCommand == {Alone("paper_stdin")}
\* still_swap, output_still_send
StillCommand == {Alone("still_stdin"), Alone("output_stills")}

\* restore_paper, with duck_installed
Ducked == {<<>>, Alone("audio_ducked")}
RestorePaper ==
    {Under("pause", d \o Alone("paper_stdin") \o Alone("paper_child")) \o <<{}>> : d \in Ducked}
\* swap_paper and set_paper_stdin
SwapPaper == {Under("pause", q \o Alone("paper_child")) \o <<{}>> :
                q \in {<<>>, Alone("paper_stdin")}}
SetPaperStdin == {Under("pause", q \o Alone("paper_stdin")) \o <<{}>> :
                    q \in {<<>>, Alone("paper_child")}}
\* take_paper, kill_paper
TakePaper == {Alone("paper_stdin") \o Alone("paper_child")}
\* the thread of retire_paper_after
RetirePaper == {PaperPair}
\* paper_pid, paper_alive
PaperQuery == {Alone("paper_child")}

\* reap_exited_paper: when the process has exited, stdin is emptied under child
ReapPaper == {Alone("paper_child")}
ReapExited == Under("paper_child", Alone("paper_stdin")) \o <<{}>>
\* reap_exited
ReapAll == LET most == Alone("fleet") \o Alone("paper_child") \o Alone("still_child")
                       \o Alone("output_stills") \o Alone("video_papers")
           IN {most, most \o Alone("scene_papers")}

\* restore_video_paper_state, restore_video_paper_entries, set_video_paper
RestoreVideo ==
    {Under("pause", d \o Alone("video_papers")) \o <<{}>> \o Alone("scene_papers") : d \in Ducked}
RestoreVideos ==
    {Under("pause", d \o Alone("video_papers") \o Alone("scene_papers")) \o <<{}>> : d \in Ducked}
SetVideo == {Under("pause", Alone("video_papers")) \o <<{}>>}
\* take_video_paper_entries
TakeVideos == {Alone("scene_papers") \o Alone("video_papers") \o Alone("scene_papers")}
\* take_video_papers_except
TakeVideosExcept == {Under("video_papers", Alone("scene_papers")) \o <<{}>>}
\* kill_video_papers, kill_video_paper, retain_video_papers, take_all_video_papers
DropVideos == {Alone("video_papers") \o Alone("scene_papers")}
\* retain_scene_papers, has_scene_papers
RetainScenes == {Alone("scene_papers") \o Alone("video_papers")}

\* set_base_still, take_base_still, kill_base_still, defer_kill_stills, and the
\* methods on output_stills
Stills == {Alone("still_child") \o Alone("still_stdin") \o Alone("still_child"),
           Alone("still_stdin") \o Alone("still_child"),
           Alone("still_child") \o Alone("still_stdin") \o Alone("output_stills"),
           Alone("output_stills")}
\* replace_holders, kill_holders, track
Holders == {Under("pause", Alone("fleet")) \o <<{}>>,
            Under("pause", Alone("fleet")) \o <<{}>> \o Alone("we_render")}
\* kill_departed_outputs, and renderer_alive with the other queries of liveness
Departed == {Alone("video_papers") \o Alone("output_stills") \o Alone("video_papers")
             \o Alone("scene_papers") \o Alone("output_stills")}
Queries == {Alone("paper_child") \o Alone("video_papers"),
            Alone("still_child") \o Alone("output_stills"),
            Alone("fleet") \o Alone("scene_papers") \o Alone("video_papers")}

Methods ==
    [pause |-> PauseChange, session_rendering |-> SessionRendering, pause_query |-> PauseQuery,
     duck |-> Duck, audio |-> SendAudio, video_command |-> VideoCommand, freeze |-> Freeze,
     finish_freeze |-> FinishFreeze, paper_command |-> PaperCommand,
     still_command |-> StillCommand, restore_paper |-> RestorePaper, swap_paper |-> SwapPaper,
     set_paper_stdin |-> SetPaperStdin, take_paper |-> TakePaper, retire_paper |-> RetirePaper,
     paper_query |-> PaperQuery, reap_exited_paper |-> ReapPaper, reap_exited |-> ReapAll,
     restore_video |-> RestoreVideo, restore_videos |-> RestoreVideos, set_video |-> SetVideo,
     take_videos |-> TakeVideos, take_videos_except |-> TakeVideosExcept,
     drop_videos |-> DropVideos, retain_scenes |-> RetainScenes, stills |-> Stills,
     holders |-> Holders, departed |-> Departed, queries |-> Queries]

--------------------------------------------------------------------------------
Init == /\ call = [t \in Threads |-> Idle] /\ pc = [t \in Threads |-> 0]
        /\ path = [t \in Threads |-> <<>>] /\ paper = "none"

Holds(t) == IF pc[t] = 0 THEN {} ELSE path[t][pc[t]]
Wants(t) == IF call[t] = Idle THEN {} ELSE path[t][pc[t] + 1] \ Holds(t)
Free(m) == \A t \in Threads : m \notin Holds(t)

Call(t) == /\ call[t] = Idle
           /\ \E m \in DOMAIN Methods : \E p \in Methods[m] :
                /\ call' = [call EXCEPT ![t] = m] /\ path' = [path EXCEPT ![t] = p]
           /\ pc' = [pc EXCEPT ![t] = 0] /\ UNCHANGED paper

\* Methods after which paper_child holds a new process, or none.
Installs == {"restore_paper", "swap_paper"}
Takes == {"take_paper"}
Reaps == {"reap_exited_paper", "reap_exited"}

Return(t) == /\ call' = [call EXCEPT ![t] = Idle] /\ path' = [path EXCEPT ![t] = <<>>]
             /\ pc' = [pc EXCEPT ![t] = 0]

\* A thread takes the next mutex, or releases some, and returns after the last.
Advance(t) ==
    /\ call[t] # Idle /\ \A m \in Wants(t) : Free(m)
    /\ IF pc[t] + 1 = Len(path[t]) THEN Return(t)
       ELSE /\ pc' = [pc EXCEPT ![t] = @ + 1] /\ UNCHANGED call
            /\ path' = IF call[t] = "reap_exited_paper" /\ paper = "exited"
                        THEN [path EXCEPT ![t] = ReapExited] ELSE path
    /\ LET after == IF "paper_child" \notin Wants(t) THEN {paper}
                    ELSE IF call[t] \in Installs THEN {"up"}
                    ELSE IF call[t] \in Takes \/ (call[t] \in Reaps /\ paper = "exited")
                    THEN {"none"}
                    \* the process the timer was started for, or another
                    ELSE IF call[t] = "retire_paper" THEN {paper, "none"} ELSE {paper}
       IN paper' \in after

\* The process in paper_child exits.
Exit == paper = "up" /\ paper' = "exited" /\ UNCHANGED <<call, path, pc>>

Next == (\E t \in Threads : Call(t) \/ Advance(t)) \/ Exit
Spec == Init /\ [][Next]_vars

--------------------------------------------------------------------------------
\* The methods take the mutexes in one global order: "Keep the same global
\* order" (renderers/commands.rs:249-250).  So no threads wait for one another
\* in a circle.
GlobalOrder ==
    \A S \in (SUBSET Threads) \ {{}} :
        \E t \in S : \A m \in Wants(t), u \in S : m \notin Holds(u)
=============================================================================
