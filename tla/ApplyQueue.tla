----------------------------- MODULE ApplyQueue -----------------------------
(***************************************************************************)
(* The queue of wall.apply requests of skwd-walld (rpc/apply_queue.rs):    *)
(* connections submit, one blocking thread runs the requests one after     *)
(* the other, and a waiting request is superseded by a later one about     *)
(* the same activity, output, override_locks and source.                   *)
(***************************************************************************)
EXTENDS Naturals, Sequences, FiniteSets, SequencesExt

CONSTANTS Requests,     \* what clients ask; a client may ask again once answered
          KeyOf,        \* <<activity, output, override_locks, source>> of a request
          ActivityOf,   \* the desktop activity of a request, or none
          MaxPending,   \* MAX_PENDING_APPLIES
          None          \* no request

ASSUME QueueAssumption == MaxPending \in Nat /\ None \notin Requests

VARIABLES running,      \* QueueState::running
          pending,      \* QueueState::pending
          starting,     \* the jobs handed to spawn_blocking
          executing,    \* the jobs a runner dispatches
          looking,      \* the runners between a reply and the next job
          answers,      \* how many replies the last submission of a request got
          restoreCancelled   \* the activities whose restore cancel_restore has stopped

queue == <<running, pending>>
runners == <<starting, executing, looking>>
vars == <<running, pending, starting, executing, looking, answers, restoreCancelled>>

TypeOK ==
    /\ running \in BOOLEAN
    /\ pending \in Seq(Requests)
    /\ starting \subseteq Requests /\ executing \subseteq Requests
    /\ looking \in Nat
    /\ answers \in [Requests -> 0 .. 1]
    /\ restoreCancelled \subseteq {ActivityOf[r] : r \in Requests}

Init ==
    /\ running = FALSE /\ pending = <<>>
    /\ starting = {} /\ executing = {} /\ looking = 0
    /\ answers = [r \in Requests |-> 1]
    /\ restoreCancelled = {}

Pending == ToSet(pending)
Owned == Pending \cup starting \cup executing

\* replied from push and again from run
MutAnswersTwice(rs, from) == [r \in Requests |-> IF r \in rs THEN from[r] + 2 ELSE from[r]]

\* QueuedApply::reply for each request of a set
Answer(rs, from) == [r \in Requests |-> IF r \in rs THEN from[r] + 1 ELSE from[r]]

\* a request supersedes whatever waits
MutSupersedesAll(r, earlier) == earlier \in Requests
supersedes(r, earlier) == KeyOf[r] = KeyOf[earlier]

Superseded(r) == {e \in Pending : supersedes(r, e)}

\* every request cancels the restore, the refused one too
MutAcceptsAll(r) == r \in Requests
accepts(r) ==
    \/ ~running
    \/ Len(pending) < MaxPending
    \/ Superseded(r) # {}

\* the client is not told that its request was superseded
MutSilent(r, rest) ==
    answers' = [answers EXCEPT ![r] = IF Len(rest) = MaxPending THEN 1 ELSE 0]

ReplyFromPush(r, rest) ==
    answers' = Answer(Superseded(r) \cup (IF Len(rest) = MaxPending THEN {r} ELSE {}),
                      [answers EXCEPT ![r] = 0])

Enqueue(r, rest) == pending' = IF Len(rest) = MaxPending THEN rest ELSE Append(rest, r)

\* push when nothing runs: the caller becomes the one that starts the runner
PushFirst(r) ==
    /\ ~running
    /\ running' = TRUE
    /\ starting' = starting \cup {r}
    /\ answers' = [answers EXCEPT ![r] = 0]
    /\ UNCHANGED pending

\* retain: no two waiting requests are about the same (see AnsweredOnce), so it
\* removes at most one.
Retained(r) ==
    IF Superseded(r) = {} THEN pending
    ELSE RemoveAt(pending, CHOOSE i \in DOMAIN pending : supersedes(r, pending[i]))

PushBehind(r) ==
    /\ running
    /\ Enqueue(r, Retained(r)) /\ ReplyFromPush(r, Retained(r))
    /\ UNCHANGED <<running, starting>>

CanAsk(r) == answers[r] = 1 /\ r \notin executing

\* validate_apply_request refuses before the queue is looked at.
Reject(r) ==
    /\ CanAsk(r)
    /\ answers' = [answers EXCEPT ![r] = 1]
    /\ UNCHANGED <<queue, runners, restoreCancelled>>

\* submit holds the queue's mutex from accepts to push.
submit(r) ==
    /\ CanAsk(r)
    /\ restoreCancelled' = IF accepts(r) THEN restoreCancelled \cup {ActivityOf[r]}
                                         ELSE restoreCancelled
    /\ PushFirst(r) \/ PushBehind(r)
    /\ UNCHANGED <<executing, looking>>

\* run on the blocking thread: dispatch ...
Dispatch(r) ==
    /\ r \in starting
    /\ starting' = starting \ {r}
    /\ executing' = executing \cup {r}
    /\ UNCHANGED <<queue, looking, answers, restoreCancelled>>

\* ... reply ...
Reply(r) ==
    /\ r \in executing
    /\ executing' = executing \ {r}
    /\ looking' = looking + 1
    /\ answers' = Answer({r}, answers)
    /\ UNCHANGED <<queue, starting, restoreCancelled>>

\* the runner stops without saying so
MutStopsSilently ==
    /\ looking > 0
    /\ looking' = looking - 1
    /\ IF pending = <<>>
       THEN UNCHANGED <<queue, executing>>
       ELSE executing' = executing \cup {Head(pending)} /\ pending' = Tail(pending)
            /\ UNCHANGED running
    /\ UNCHANGED <<starting, answers, restoreCancelled>>

\* ... and the next job, under the queue's mutex; without one the runner stops.
next ==
    /\ looking > 0
    /\ looking' = looking - 1
    /\ IF pending = <<>>
       THEN running' = FALSE /\ UNCHANGED <<pending, executing>>
       ELSE executing' = executing \cup {Head(pending)} /\ pending' = Tail(pending)
            /\ UNCHANGED running
    /\ UNCHANGED <<starting, answers, restoreCancelled>>

Run == next \/ \E r \in Requests : Dispatch(r) \/ Reply(r)

Next == Run \/ \E r \in Requests : Reject(r) \/ submit(r)

\* The blocking thread is scheduled and an apply ends (renderers and helpers have
\* timeouts); nothing makes a client ask.
Spec == Init /\ [][Next]_vars /\ WF_vars(Run)

-----------------------------------------------------------------------------
(* There is exactly one runner while `running` is set and none otherwise,  *)
(* and a request never waits without a runner that will come for it        *)
(* (QueueState::push, next and run's loop).                                *)
RunnerCoversQueue ==
    /\ Cardinality(starting) + Cardinality(executing) + looking = IF running THEN 1 ELSE 0
    /\ pending # <<>> => running

(* Every submission gets exactly one reply: it has none while the queue or *)
(* a runner owns the request, and one ever after, whether it was rejected, *)
(* superseded, turned away or applied; and of the requests about the same  *)
(* only one ever waits (QueuedApply::reply, push).                         *)
AnsweredOnce ==
    /\ \A r \in Requests : answers[r] = IF r \in Owned THEN 0 ELSE 1
    /\ \A i, j \in DOMAIN pending : supersedes(pending[i], pending[j]) => i = j

(* A request that is turned away leaves the pending restore of its         *)
(* activity alone, and one that is taken has cancelled it before it runs   *)
(* (submit's accepts agrees with what push does).                          *)
CancelsRestoreIffAccepted ==
    [][LET taken == {ActivityOf[r] : r \in Owned' \ Owned}
       IN  taken \subseteq restoreCancelled'
           /\ restoreCancelled' \ restoreCancelled \subseteq taken]_vars

(* Whoever asks is answered: no request is starved by later ones.          *)
EveryRequestAnswered == \A r \in Requests : answers[r] = 0 ~> answers[r] # 0

Box == [k \in {KeyOf[r] : r \in Requests} |->
            IF \E r \in Pending : KeyOf[r] = k
            THEN CHOOSE r \in Pending : KeyOf[r] = k ELSE None]
Busy == IF starting \cup executing = {} THEN None
        ELSE CHOOSE r \in starting \cup executing : TRUE

Mailbox == INSTANCE ApplyMailbox WITH box <- Box, busy <- Busy

(* The deque is one mailbox per key: the latest request of a key is the    *)
(* one applied, requests of other keys are never replaced, one apply runs  *)
(* at a time and at most MaxPending wait.                                  *)
LatestOfEachKey == Mailbox!Spec
=============================================================================
