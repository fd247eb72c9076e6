---------------------------- MODULE ApplyMailbox ----------------------------
(***************************************************************************)
(* What the queue of wall.apply requests promises: one mailbox for each    *)
(* kind of request that supersedes another, in which the latest request    *)
(* replaces the one that waits, and one apply at a time.  ApplyQueue       *)
(* implements it with a deque.                                             *)
(***************************************************************************)
EXTENDS Naturals, FiniteSets

CONSTANTS Requests,     \* the requests
          KeyOf,        \* what a request is about: equal keys supersede
          MaxPending,   \* how many requests may wait
          None          \* no request

VARIABLES box,          \* the request that waits for each key
          busy          \* the request being applied

mailVars == <<box, busy>>

Keys == {KeyOf[r] : r \in Requests}
Waiting == {k \in Keys : box[k] # None}

Init == box = [k \in Keys |-> None] /\ busy = None

\* A request that finds nobody at work is applied at once.
Begin(r) ==
    /\ busy = None /\ Waiting = {}
    /\ busy' = r
    /\ UNCHANGED box

\* It takes the box of its key, over the one that is there if there is one.
Post(r) ==
    /\ r # busy /\ r \notin {box[k] : k \in Keys}
    /\ KeyOf[r] \in Waiting \/ Cardinality(Waiting) < MaxPending
    /\ box' = [box EXCEPT ![KeyOf[r]] = r]
    /\ UNCHANGED busy

Take(k) ==
    /\ busy = None /\ k \in Waiting
    /\ busy' = box[k]
    /\ box' = [box EXCEPT ![k] = None]

Finish ==
    /\ busy # None
    /\ busy' = None
    /\ UNCHANGED box

Next ==
    \/ Finish
    \/ \E k \in Keys : Take(k)
    \/ \E r \in Requests : Begin(r) \/ Post(r)

\* Work goes on while there is any; which box comes first is not promised.
Spec == Init /\ [][Next]_mailVars /\ WF_mailVars(Finish \/ \E k \in Keys : Take(k))
=============================================================================
