---------------------------- MODULE DownloadQueue ----------------------------
(***************************************************************************)
(* The remote previews and downloads of skwd-walld: one RPC request per    *)
(* download, the set of keys in flight (rpc/source.rs) and the gate that   *)
(* bounds how many are outstanding and how many run                        *)
(* (infrastructure/dlqueue.rs).  One instance models one gate: PREVIEWS,   *)
(* IMAGES or VIDEOS.                                                       *)
(***************************************************************************)
EXTENDS Naturals, FiniteSets

CONSTANTS Downloads,   \* the requests, each one RPC call and then one thread
          Keys,        \* the in-flight keys: a destination path or source:id
          Wanted,      \* the keys each request may ask for
          NoKey,       \* the key of a request that has not asked yet
          Cap,         \* Gate::cap
          MaxQueued    \* Gate::with_queue's second parameter

ASSUME GateAssumption == Cap \in Nat \ {0} /\ MaxQueued \in Nat
ASSUME DownloadsAssumption == IsFiniteSet(Downloads)
ASSUME KeysAssumption == NoKey \notin Keys /\ Wanted \in [Downloads -> SUBSET Keys]

MaxOutstanding == Cap + MaxQueued

VARIABLES pc,           \* where each request is
          key,          \* its in-flight key, once it has asked
          observed,     \* the outstanding count its try_reserve last read
          ticket,       \* its place in the line, once it has taken one
          told,         \* the queue position last reported to the client; the locals
                        \* observed, ticket and told are reset once out of scope
          asleep,       \* the threads blocked in the condvar
          inflight,     \* DL_INFLIGHT
          outstanding,  \* Gate::outstanding
          issued,       \* Line::issued
          admitted,     \* Line::admitted
          active,       \* Line::active
          library       \* the keys whose file is in the library

line == <<issued, admitted, active>>
local == <<key, observed, ticket, told>>
vars == <<pc, key, observed, ticket, told, asleep, inflight, outstanding,
          issued, admitted, active, library>>

Unset == Cardinality(Downloads) + 1   \* told == u64::MAX: no position reported yet

Refusals == {"exists", "in_progress", "queue_full", "spawn_failed"}
Ended == Refusals \cup {"finished"}
Running == {"admitted", "working"}
\* A thread keeps its unit of `outstanding` from the reservation until after
\* the slot's `active` has been given back.
Holding == {"reserved", "unreserving", "waiting", "released"} \cup Running
Owning == Holding \cup {"begun", "loaded", "decremented", "converting"}

At(states) == {d \in Downloads : pc[d] \in states}

TypeOK ==
    /\ pc \in [Downloads -> Ended \cup Owning \cup {"idle", "checked"}]
    /\ key \in [Downloads -> Keys \cup {NoKey}]
    /\ observed \in [Downloads -> Nat]
    /\ ticket \in [Downloads -> Nat]
    /\ told \in [Downloads -> Nat]
    /\ asleep \subseteq Downloads
    /\ inflight \subseteq Keys
    /\ outstanding \in Nat /\ issued \in Nat /\ admitted \in Nat /\ active \in Nat
    /\ library \subseteq Keys

Init ==
    /\ pc = [d \in Downloads |-> "idle"]
    /\ key = [d \in Downloads |-> NoKey]
    /\ observed = [d \in Downloads |-> 0]
    /\ ticket = [d \in Downloads |-> 0]
    /\ told = [d \in Downloads |-> Unset]
    /\ asleep = {} /\ inflight = {} /\ library = {}
    /\ outstanding = 0 /\ issued = 0 /\ admitted = 0 /\ active = 0

Goto(d, to) == pc' = [pc EXCEPT ![d] = to]

-----------------------------------------------------------------------------
(* The RPC handler: generic_source_download and spawn_download.            *)

\* The library is looked up before the key is put in flight, so the answer
\* may be stale by then.
CheckLibrary(d) ==
    /\ pc[d] = "idle"
    /\ \E k \in Wanted[d] :
        /\ key' = [key EXCEPT ![d] = k]
        /\ Goto(d, IF k \in library THEN "exists" ELSE "checked")
    /\ UNCHANGED <<observed, ticket, told, asleep, inflight, outstanding, line, library>>

\* the set's insert result ignored
MutKeyIgnored(d) == key[d] \in Keys
IsFree(d) == key[d] \notin inflight

dl_inflight_begin(d) ==
    /\ pc[d] = "checked"
    /\ IF IsFree(d)
       THEN inflight' = inflight \cup {key[d]} /\ Goto(d, "begun")
       ELSE Goto(d, "in_progress") /\ UNCHANGED inflight
    /\ UNCHANGED <<local, asleep, outstanding, line, library>>

LoadOutstanding(d) ==
    /\ pc[d] = "begun"
    /\ observed' = [observed EXCEPT ![d] = outstanding]
    /\ Goto(d, "loaded")
    /\ UNCHANGED <<key, ticket, told, asleep, inflight, outstanding, line, library>>

\* The full queue: the guard is dropped and the request refused.
RefuseFull(d) ==
    /\ pc[d] = "loaded" /\ observed[d] >= MaxOutstanding
    /\ inflight' = inflight \ {key[d]}
    /\ observed' = [observed EXCEPT ![d] = 0]
    /\ Goto(d, "queue_full")
    /\ UNCHANGED <<key, ticket, told, asleep, outstanding, line, library>>

\* try_reserve with a load and a blind add in place of the compare-exchange
MutBlindAdd(d) ==
    /\ pc[d] = "loaded" /\ observed[d] < MaxOutstanding
    /\ outstanding' = outstanding + 1
    /\ observed' = [observed EXCEPT ![d] = 0]
    /\ Goto(d, "reserved")
    /\ UNCHANGED <<key, ticket, told, asleep, inflight, line, library>>

\* compare_exchange_weak: it may fail although the count is the one observed.
CompareExchange(d) ==
    /\ pc[d] = "loaded" /\ observed[d] < MaxOutstanding
    /\ \/ /\ observed[d] = outstanding
          /\ outstanding' = outstanding + 1
          /\ Goto(d, "reserved")
          /\ observed' = [observed EXCEPT ![d] = 0]
       \/ /\ observed' = [observed EXCEPT ![d] = outstanding]
          /\ UNCHANGED <<pc, outstanding>>
    /\ UNCHANGED <<key, ticket, told, asleep, inflight, line, library>>

\* thread::Builder::spawn fails: the closure is dropped, its guard first and
\* then its reservation.
SpawnFails(d) ==
    /\ pc[d] = "reserved"
    /\ inflight' = inflight \ {key[d]}
    /\ Goto(d, "unreserving")
    /\ UNCHANGED <<local, asleep, outstanding, line, library>>

DropReservation(d) ==
    /\ pc[d] = "unreserving"
    /\ outstanding' = outstanding - 1
    /\ asleep' = {}
    /\ Goto(d, "spawn_failed")
    /\ UNCHANGED <<local, inflight, line, library>>

-----------------------------------------------------------------------------
(* The download thread: acquire_reserved, the work, and the drops.         *)

\* the turn, or the capacity, tested wrongly
MutAnyTicket(my) == active < Cap
MayEnter(my) == my = admitted /\ active < Cap

MutBehind(my) == issued - my
Ahead(my) == my - admitted

\* One pass of acquire_reserved's loop under the line's mutex: enter, or report
\* the position if it changed and go to sleep.
TryEnter(d, my) ==
    IF MayEnter(my)
    THEN /\ admitted' = admitted + 1
         /\ active' = active + 1
         /\ ticket' = [ticket EXCEPT ![d] = 0]
         /\ told' = [told EXCEPT ![d] = Unset]
         /\ Goto(d, "admitted")
         /\ UNCHANGED asleep
    ELSE /\ ticket' = [ticket EXCEPT ![d] = my]
         /\ told' = [told EXCEPT ![d] = Ahead(my)]
         /\ asleep' = asleep \cup {d}
         /\ Goto(d, "waiting")
         /\ UNCHANGED <<admitted, active>>

acquire_reserved(d) ==
    /\ pc[d] = "reserved"
    /\ issued' = issued + 1
    /\ TryEnter(d, issued)
    /\ UNCHANGED <<key, observed, inflight, outstanding, library>>

\* A thread that was notified looks again.
Recheck(d) ==
    /\ pc[d] = "waiting" /\ d \notin asleep
    /\ TryEnter(d, ticket[d])
    /\ UNCHANGED <<key, observed, inflight, outstanding, issued, library>>

SpuriousWake(d) ==
    /\ d \in asleep
    /\ asleep' = asleep \ {d}
    /\ UNCHANGED <<pc, local, inflight, outstanding, line, library>>

\* Reservation::acquire without `held = false`: the reservation's drop gives back
\* what the slot will give back again
MutStillHeld(d) ==
    /\ pc[d] = "admitted"
    /\ outstanding' = outstanding - 1
    /\ asleep' = {}
    /\ Goto(d, "working")
    /\ UNCHANGED <<local, inflight, line, library>>

\* notify_all after the mutex is released: the next in line may enter too.
NotifyAdmission(d) ==
    /\ pc[d] = "admitted"
    /\ asleep' = {}
    /\ Goto(d, "working")
    /\ UNCHANGED <<local, inflight, outstanding, line, library>>

\* The transfer ends, well or badly, and the slot is dropped: `active` first.
Slot_drop(d) ==
    /\ pc[d] = "working"
    /\ library' \in {library, library \cup {key[d]}}
    /\ active' = active - 1
    /\ Goto(d, "released")
    /\ UNCHANGED <<local, asleep, inflight, outstanding, issued, admitted>>

\* Slot::drop's second half, outside the mutex.
GiveBackOutstanding(d) ==
    /\ pc[d] = "released"
    /\ outstanding' = outstanding - 1
    /\ Goto(d, "decremented")
    /\ UNCHANGED <<local, asleep, inflight, line, library>>

\* Slot::drop without its notify_all
MutNoWakeOnDrop(d) ==
    /\ pc[d] = "decremented"
    /\ Goto(d, "converting")
    /\ UNCHANGED <<local, asleep, inflight, outstanding, line, library>>

NotifyRelease(d) ==
    /\ pc[d] = "decremented"
    /\ asleep' = {}
    /\ Goto(d, "converting")
    /\ UNCHANGED <<local, inflight, outstanding, line, library>>

\* The scan and the conversion happen without a slot; the key is freed last.
InflightGuard_drop(d) ==
    /\ pc[d] = "converting"
    /\ inflight' = inflight \ {key[d]}
    /\ Goto(d, "finished")
    /\ UNCHANGED <<local, asleep, outstanding, line, library>>

Step(d) ==
    \/ dl_inflight_begin(d) \/ LoadOutstanding(d) \/ RefuseFull(d) \/ CompareExchange(d)
    \/ DropReservation(d) \/ acquire_reserved(d) \/ Recheck(d) \/ NotifyAdmission(d)
    \/ Slot_drop(d) \/ GiveBackOutstanding(d) \/ NotifyRelease(d) \/ InflightGuard_drop(d)

Terminated == At(Ended) = Downloads /\ UNCHANGED vars

Next ==
    \/ \E d \in Downloads : CheckLibrary(d) \/ SpawnFails(d) \/ SpuriousWake(d) \/ Step(d)
    \/ Terminated

(***************************************************************************)
(* The scheduler runs every thread that can run, a transfer ends (each     *)
(* provider has a timeout), and compare_exchange_weak does not fail for    *)
(* ever.  Nothing makes a client ask, a spawn fail, or a thread wake       *)
(* without a notification.                                                 *)
(***************************************************************************)
Fairness == \A d \in Downloads :
    /\ WF_vars(Step(d))
    /\ SF_vars(CompareExchange(d) /\ pc'[d] = "reserved")

Init_Next == Init /\ [][Next]_vars
Spec == Init_Next /\ Fairness

-----------------------------------------------------------------------------
(* Every unit of the two counters is held by exactly one thread, so the    *)
(* bound tested by try_reserve really bounds the threads, none is leaked   *)
(* by a refused, failed or finished request, and saturating_sub never      *)
(* saturates (dlqueue.rs try_reserve, Reservation::drop, Slot::drop).      *)
Accounting ==
    /\ outstanding = Cardinality(At(Holding))
    /\ active = Cardinality(At(Running))
    /\ outstanding <= MaxOutstanding
    /\ active <= Cap

(* Two requests for the same key never fetch it at the same time: from the *)
(* moment a request put its key in flight until it dropped the guard, no   *)
(* other request owns it, whatever refusals and failed spawns intervene    *)
(* (source.rs dl_inflight_begin, InflightGuard).                           *)
OneOwnerPerKey ==
    \A d, e \in At(Owning \ {"unreserving"}) : key[d] = key[e] => d = e

(* A waiting thread's ticket has not been passed over, so `my - admitted`  *)
(* never underflows; the waiting tickets are exactly the ones issued and   *)
(* not yet admitted, so nobody is served twice or forgotten.               *)
TicketsMatch ==
    /\ admitted <= issued
    /\ \A t \in admitted .. (issued - 1) :
          \E d \in At({"waiting"}) : ticket[d] = t
    /\ Cardinality(At({"waiting"})) = issued - admitted

(* The queue position a client is shown only ever gets smaller             *)
(* (acquire_reserved's on_wait).                                           *)
PositionNeverGrows == [][\A d \in Downloads : pc'[d] = "waiting" => told'[d] <= told[d]]_vars

\* The waiting threads in the order of their tickets.
Line == [i \in 1 .. (issued - admitted) |->
            CHOOSE d \in Downloads : pc[d] = "waiting" /\ ticket[d] = admitted + i - 1]

Served == Running \cup {"released", "decremented", "converting", "finished"}

Abstract == INSTANCE DownloadLine WITH
    line <- Line, running <- At(Running), served <- At(Served)

(* The gate serves first come, first served, at most Cap at a time, and    *)
(* hands every free slot to the head of the line.                          *)
ServesInOrder == Abstract!Spec
=============================================================================
