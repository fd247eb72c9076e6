--------------------------- MODULE RendererInvariant ---------------------------
(***************************************************************************)
(* The inductive invariant of the renderer handoff, in four parts: who     *)
(* holds each process and each transaction (IInv), which instruction every *)
(* candidate is waiting for (CInv), what the launches of a request cover   *)
(* (Covered, Suited), and what is drawn where (DInv).                      *)
(***************************************************************************)
EXTENDS RendererHandoff

--------------------------------------------------------------------------------
(* Processes and transactions *)

\* The launches of a request, and the slots that one launch may change: nobody
\* else touches them until its transaction is committed or dropped.
Launched(r) == {i.launch : i \in {j \in Program(r) : j.do = "spawn"}}
Reach(l) == Taken(l) \cup {l.slot}

\* What remains to be done is a part of the program of the request: each open
\* transaction will be committed by it, and nothing is launched twice.
OnPlan(i) == i \in Program(plan) \/ (i.do = "answer" /\ [i EXCEPT !.do = "reveal"] \in Program(plan))
Ends(l) == \E i \in todo : i.do = "commit" /\ i.launch = l
Resting == Idle => open = {} /\ todo = {} /\ prior = assigned
Running == ~Idle =>
    /\ plan \in Plans
    /\ \A i \in todo : OnPlan(i)
    /\ \A t \in open : t.launch \in Launched(plan)
    /\ todo # {} => \A t \in open : Ends(t.launch)
    /\ \A i \in todo : i.do = "spawn" => Of(i.launch) = {} /\ Ends(i.launch)

\* A transaction has its candidate in its slot until somebody collects it, and
\* the slots it emptied stay empty.
Transactions ==
    /\ \A t, u \in open : t.launch = u.launch => t = u
    /\ \A t \in open :
          /\ slot[t.launch.slot] \in {t.pid, Nobody}
          /\ t.launch.slot \notin Installed => slot[t.launch.slot] = t.pid
          /\ DOMAIN t.from \subseteq Taken(t.launch)
          /\ \A s \in DOMAIN t.from : s # t.launch.slot => slot[s] = Nobody
    /\ \A s \in Slots \ Installed : slot[s] # Nobody => \E t \in open : t.launch.slot = s

\* The holders of a process, and that it has only one.
InSlot(p) == \E s \in Slots : slot[s] = p
Displaced(p) == \E t \in open : \E s \in DOMAIN t.from : t.from[s] = p
Once ==
    /\ \A s, x \in Slots : slot[s] = slot[x] /\ slot[s] # Nobody => s = x
    /\ \A t, u \in open : \A s \in DOMAIN t.from, x \in DOMAIN u.from :
          t.from[s] = u.from[x] => t = u /\ s = x
    /\ \A p \in Pids :
          /\ ~(InSlot(p) /\ Displaced(p))
          /\ p \in deferred \cup linger => ~InSlot(p) /\ ~Displaced(p)
    /\ deferred \cap linger = {}
Accounted == \A p \in Pids :
    phase[p] # "free" <=> InSlot(p) \/ Displaced(p) \/ p \in deferred \cup linger

IInv == TypeOK /\ Resting /\ Running /\ Transactions /\ Once /\ Accounted

--------------------------------------------------------------------------------
(* The candidates *)

\* A process that has not settled is the candidate of an open transaction, and
\* what remains of the program will wait for its answer.
Unsettled == Answering \cup {"hidden", "broken"}
Pending(do, l) == \E j \in todo : j.do = do /\ j.launch = l
Awaits(l, p) ==
    /\ phase[p] = "loading" => Pending("wait", l)
    /\ phase[p] = "preloading" => Pending("wait", l) /\ Pending("reveal", l) /\ l.hidden
    /\ phase[p] = "hidden" => Pending("reveal", l) /\ l.hidden
    /\ phase[p] = "revealing" => Pending("answer", l)
    /\ phase[p] = "broken" => gate[p] = "err" /\ (Pending("wait", l) \/ Pending("answer", l))
Attended(p) == phase[p] \in Unsettled =>
    \E t \in open : t.pid = p /\ slot[t.launch.slot] = p /\ (todo # {} => Awaits(t.launch, p))

\* A gate is latched by the answer of its process.
Gates == \A p \in Pids : /\ gate[p] # "none" => phase[p] \notin Answering
                         /\ gate[p] = "ok" => phase[p] # "broken"

\* A launch that has not begun has all its instructions left.  Nothing that
\* concerns a shared renderer comes between a start and its wait, and nothing is
\* started any more once a candidate is revealed: so a program that is laid out
\* anew, without the shared renderer it gave up, forgets no wait.
Whole == \A i \in todo : i.do = "spawn" => \A k \in Program(plan) : k.launch = i.launch => k \in todo
Alone == \A t \in open : \A j \in todo : j.do = "wait" /\ j.launch = t.launch =>
    \A k \in todo : k.do \in {"spawn", "wait"} /\ k.launch.shared /\ k.launch # t.launch => ~Before(k, j)
Revealed == \A j \in todo : j.do = "answer" => \A k \in todo : k.do \notin {"spawn", "wait"}

CInv == Gates /\ Whole /\ Alone /\ Revealed /\ \A p \in Pids : Attended(p)

--------------------------------------------------------------------------------
(* What a request covers *)

\* Every launch of the request is still to begin, under way or not needed.
Held(l) == Pending("spawn", l) \/ Of(l) # {} \/ l \in plan.kept
Late == \A i \in todo : i.do \in {"commit", "tail"}
Covered == ~Late => \A l \in Launched(plan) : Held(l)

\* Only a reconciliation mixes scenes with other wallpapers.
Suits(r) == r.op # "reconcile" => \A o \in DOMAIN r.want : Kind[r.want[o]] = "we" <=> r.op = "we"
Suited == ~Idle => Suits(plan)

--------------------------------------------------------------------------------
(* What is drawn where *)

\* The end of a program is its last instruction to go.
Tailed == todo # {} => Ending \subseteq todo

\* A renderer in a place that is named for outputs serves those, an overlay and
\* the paper transition serve none, and only video places hold scenes.
Formed(l) ==
    /\ l.slot \in Installed /\ l.slot[2] # {} => l.serves = l.slot[2]
    /\ l.slot \notin Installed \/ l.slot = Paper => l.serves = {}
    /\ l.scene => l.slot \in Videos \ {Shared, Multi}

\* A process keeps the launch it was started for, and never changes places.
Roles ==
    /\ \A s \in Slots : slot[s] # Nobody => role[slot[s]].slot = s /\ Formed(role[slot[s]])
    /\ \A t \in open :
          /\ slot[t.launch.slot] # Nobody => role[t.pid] = t.launch
          /\ \A s \in DOMAIN t.from : role[t.from[s]].slot = s /\ Formed(role[t.from[s]])

\* The marks name the scenes, and a transaction remembers the marks it takes.
Marked ==
    /\ \A s \in Videos : slot[s] # Nobody => (s \in marks <=> role[slot[s]].scene)
    /\ \A t \in open : \A s \in DOMAIN t.from :
          /\ s \in t.marks <=> role[t.from[s]].scene
          /\ s \in marks => s = t.launch.slot

\* No two renderers that would be put back draw on the same output.
OldApart == ~Committing => \A s \in Installed, x \in Installed :
    s # x /\ Undone[s] # Nobody /\ Undone[x] # Nobody =>
        role[Undone[s]].serves \cap role[Undone[x]].serves = {}

\* Groups of pairs of an output and what it shows.
Group(f, S) == {<<o, f[o]>> : o \in S}

\* The shared video renderer that would be put back draws what was assigned.
Draws(f, S) == f[Multi] = Group(f, S) /\ \A o \in S : f[o] \in DOMAIN Kind
MultiOld == ~Committing /\ Undone[Multi] # Nobody => Draws(prior, role[Undone[Multi]].serves)

\* A request that can still fail has only assigned what was assigned before,
\* but for the one that records its assignments first and puts the old ones back.
Handed == ~Idle /\ ~Committing /\ plan.op \notin {"static", "video"} =>
    \A k \in Outputs \cup {Multi} : assigned[k] = prior[k]

\* The outputs that a request finds unchanged.
Sames == ~Idle => \A o \in plan.same : o \in DOMAIN plan.want => prior[o] = plan.want[o]

\* The launch of the shared renderer is still to come or under way; or what is
\* recorded for it, and who is in its slot, are those of its request.
Shown(l) == /\ assigned[Multi] = Group(plan.want, l.serves)
            /\ slot[Multi] # Nobody => role[slot[Multi]].serves = l.serves
MultiNew == todo # {} => \A l \in Launched(plan) : l.slot = Multi =>
    Pending("spawn", l) \/ Of(l) # {} \/ Shown(l)

\* The inductive invariant of what is drawn, by whom, and what is recorded of it.
DInv == Tailed /\ Roles /\ Marked /\ OldApart /\ MultiOld /\ Handed /\ Sames /\ MultiNew
================================================================================
