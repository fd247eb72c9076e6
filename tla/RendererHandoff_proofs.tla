------------------------ MODULE RendererHandoff_proofs ------------------------
(***************************************************************************)
(* Proofs about the renderer handoff, for any outputs, wallpapers,         *)
(* requests and processes: its types, that every renderer process has      *)
(* exactly one holder, that every candidate is waited for, that a request  *)
(* which passes the point of no return covers its outputs, that between    *)
(* requests no output is drawn by two renderers, and that a request is all *)
(* or nothing.                                                             *)
(***************************************************************************)
EXTENDS RendererInvariant, WellFoundedInduction, FiniteSetTheorems, TLAPS

--------------------------------------------------------------------------------
(* Launches and programs *)

\* The slots are told apart by their kinds.
LEMMA SlotKinds ==
    /\ Base \in Installed /\ Paper \in Installed /\ Shared \in Videos /\ Multi \in Videos
    /\ Base # Paper /\ Base # Shared /\ Base # Multi /\ Paper # Shared /\ Paper # Multi /\ Shared # Multi
    /\ Stills \subseteq Installed /\ Videos \subseteq Installed /\ Installed \subseteq Slots
    /\ \A G \in Groups : /\ <<"still", G>> \in Stills /\ <<"video", G>> \in Videos
                         /\ <<"overlay", G>> \in Slots /\ <<"overlay", G>> \notin Installed
                         /\ <<"video", G>> # Shared /\ <<"video", G>> # Multi
    /\ \A G, H \in SUBSET Outputs : /\ <<"still", G>> # <<"video", H>>
                                    /\ <<"overlay", G>> # <<"still", H>>
                                    /\ <<"overlay", G>> # <<"video", H>>
                                    /\ <<"still", G>> \notin {Base, Paper, Shared, Multi}
                                    /\ <<"overlay", G>> \notin {Base, Paper, Shared, Multi}
    /\ \A x, G, H : <<x, G>> = <<x, H>> => G = H
  <1>1. /\ Base \in Installed /\ Paper \in Installed /\ Shared \in Videos /\ Multi \in Videos
        /\ Base # Paper /\ Base # Shared /\ Base # Multi /\ Paper # Shared /\ Paper # Multi
        /\ Shared # Multi
    BY DEF Base, Paper, Shared, Multi, Videos, Installed
  <1>2. Stills \subseteq Installed /\ Videos \subseteq Installed /\ Installed \subseteq Slots
    BY DEF Installed, Slots
  <1>3. ASSUME NEW G \in Groups
        PROVE  /\ <<"still", G>> \in Stills /\ <<"video", G>> \in Videos
               /\ <<"overlay", G>> \in Slots
    BY <1>3 DEF Stills, Videos, Slots
  <1>4. ASSUME NEW G \in Groups
        PROVE  <<"overlay", G>> \notin Installed
    BY <1>4 DEF Installed, Stills, Videos, Base, Paper, Shared, Multi
  <1>5. ASSUME NEW G \in Groups
        PROVE  <<"video", G>> # Shared /\ <<"video", G>> # Multi
    BY <1>5 DEF Shared, Multi, Groups
  <1>6. ASSUME NEW G, NEW H
        PROVE  /\ <<"still", G>> # <<"video", H>> /\ <<"overlay", G>> # <<"still", H>>
               /\ <<"overlay", G>> # <<"video", H>>
    OBVIOUS
  <1>7. ASSUME NEW G
        PROVE  /\ <<"still", G>> \notin {Base, Paper, Shared, Multi}
               /\ <<"overlay", G>> \notin {Base, Paper, Shared, Multi}
    BY DEF Base, Paper, Shared, Multi
  <1>8. ASSUME NEW x, NEW G, NEW H, <<x, G>> = <<x, H>> PROVE G = H
    BY <1>8
  <1> QED
    BY <1>1, <1>2, <1>3, <1>4, <1>5, <1>6, <1>7, <1>8

\* What a launch is made of.
LEMMA LaunchIs ==
    ASSUME NEW s \in Slots, NEW S \in SUBSET Outputs
    PROVE  /\ Launch(s, S) \in Launches /\ Launch(s, S).slot = s /\ Launch(s, S).serves = S
           /\ Launch(s, S).shared = FALSE /\ Launch(s, S).scene = FALSE
  BY SlotKinds DEF Launch, NoLaunch, Launches

LEMMA WithHidden ==
    ASSUME NEW l \in Launches, NEW h \in BOOLEAN
    PROVE  LET m == [l EXCEPT !.hidden = h] IN
           m \in Launches /\ m.slot = l.slot /\ m.serves = l.serves /\ m.scene = l.scene /\ m.shared = l.shared
  BY DEF Launches

LEMMA WithKeep ==
    ASSUME NEW l \in Launches, NEW K \in SUBSET Slots
    PROVE  LET m == [l EXCEPT !.keep = K] IN
           m \in Launches /\ m.slot = l.slot /\ m.serves = l.serves /\ m.scene = l.scene /\ m.shared = l.shared
  BY DEF Launches

\* The parts of a program.
LEMMA PartIs ==
    ASSUME NEW n \in Nat, NEW h \in {1, 2}, NEW S \in SUBSET Launches,
           NEW do \in {"spawn", "wait", "reveal", "answer", "prepare", "start", "commit", "tail"}
    PROVE  /\ Part(n, h, do, S) \subseteq Instructions
           /\ \A i \in Instructions : i \in Part(n, h, do, S) <=>
                 i.stage = n /\ i.half = h /\ i.do = do /\ i.launch \in S
           /\ \A l \in S : [stage |-> n, half |-> h, do |-> do, launch |-> l] \in Part(n, h, do, S)
  BY DEF Part, Instructions

LEMMA SameInstruction ==
    ASSUME NEW i \in Instructions, NEW j \in Instructions, i.stage = j.stage, i.half = j.half,
           i.do = j.do, i.launch = j.launch
    PROVE  i = j
  BY DEF Instructions

\* A request that has been made.
LEMMA PlanIs ==
    ASSUME NEW r \in Plans
    PROVE  /\ r.op \in Ops /\ DOMAIN r.want \in Groups
           /\ \A o \in DOMAIN r.want : r.want[o] \in DOMAIN Kind /\ o \in Outputs
           /\ r.fill \in [Outputs -> Nat] /\ r.fade \in BOOLEAN
           /\ r.single \subseteq Outputs /\ r.fades \subseteq Outputs /\ r.same \subseteq Outputs
           /\ \A k : Wanting(r, k) \subseteq DOMAIN r.want
           /\ \A o \in DOMAIN r.want : Alike(r, o) \subseteq DOMAIN r.want /\ o \in Alike(r, o)
  <1>1. r.want \in Wishes
    BY DEF Plans
  <1>2. PICK G \in Groups : r.want \in [G -> DOMAIN Kind]
    BY <1>1 DEF Wishes
  <1> QED
    BY <1>2 DEF Plans, Groups, Wanting, Alike

\* The launches of a reconciliation, and what each kind of them looks like.
LEMMA StillIs ==
    ASSUME NEW r \in Plans, NEW G \in Groups
    PROVE  /\ Still(r, G) \in Launches /\ Still(r, G).slot = <<"still", G>>
           /\ Still(r, G).serves = G /\ Still(r, G).scene = FALSE
           /\ Still(r, G).shared = (Cardinality(G) > 1)
  <1> DEFINE l == Launch(<<"still", G>>, G)
             K == IF Warm(r) THEN {<<"still", G>>} ELSE {}
             h == r.fades # {}
             d == Cardinality(G) > 1
  <1>1. <<"still", G>> \in Slots
    BY SlotKinds
  <1>2. G \in SUBSET Outputs
    BY DEF Groups
  <1>3. /\ l \in Launches /\ l.slot = <<"still", G>> /\ l.serves = G /\ l.scene = FALSE
    BY <1>1, <1>2, LaunchIs
  <1>4. d \in BOOLEAN /\ h \in BOOLEAN
    OBVIOUS
  <1>5. K \in SUBSET Slots
    BY <1>1
  <1>6. Still(r, G) = [l EXCEPT !.hidden = h, !.shared = d, !.keep = K]
    BY DEF Still
  <1> HIDE DEF l, K, h, d
  <1>7. /\ Still(r, G) \in Launches /\ Still(r, G).slot = <<"still", G>>
        /\ Still(r, G).serves = G /\ Still(r, G).scene = FALSE /\ Still(r, G).shared = d
    <2> DEFINE m == [l EXCEPT !.hidden = h, !.shared = d, !.keep = K]
    <2>1. m \in Launches /\ m.slot = l.slot /\ m.serves = l.serves /\ m.scene = l.scene /\ m.shared = d
      BY <1>3, <1>4, <1>5 DEF Launches
    <2>2. Still(r, G) = m
      BY <1>6
    <2> HIDE DEF m
    <2> QED
      BY <1>3, <2>1, <2>2, Zenon
  <1> QED
    BY <1>7, Zenon DEF d

LEMMA VideoIs ==
    ASSUME NEW r \in Plans, NEW o \in Outputs
    PROVE  /\ Video(r, o) \in Launches /\ Video(r, o).slot = <<"video", {o}>>
           /\ Video(r, o).serves = {o} /\ Video(r, o).scene = FALSE /\ Video(r, o).shared = FALSE
  <1> DEFINE l == Launch(<<"video", {o}>>, {o})
             K == IF o \in r.same \/ Warm(r) THEN {<<"video", {o}>>} ELSE {}
  <1>1. <<"video", {o}>> \in Slots
    <2>1. {o} \in Groups
      BY DEF Groups
    <2> QED
      BY <2>1, SlotKinds
  <1>3. /\ l \in Launches /\ l.slot = <<"video", {o}>> /\ l.serves = {o} /\ l.scene = FALSE
        /\ l.shared = FALSE
    <2>1. {o} \in SUBSET Outputs
      OBVIOUS
    <2> QED
      BY <1>1, <2>1, LaunchIs
  <1>5. K \in SUBSET Slots
    BY <1>1
  <1>6. Video(r, o) = [l EXCEPT !.keep = K]
    BY DEF Video
  <1> HIDE DEF l, K
  <1> QED
    BY <1>3, <1>5, <1>6, WithKeep

LEMMA MultiIs ==
    ASSUME NEW r \in Plans, NEW V \in SUBSET Outputs
    PROVE  /\ MultiVideo(r, V) \in Launches /\ MultiVideo(r, V).slot = Multi
           /\ MultiVideo(r, V).serves = V /\ MultiVideo(r, V).scene = FALSE
           /\ MultiVideo(r, V).shared = TRUE
  <1> DEFINE l == Launch(Multi, V)
             K == IF prior[Multi] = {<<o, r.want[o]>> : o \in V} THEN {Multi} ELSE {}
             d == TRUE
  <1>1. Multi \in Slots
    BY SlotKinds
  <1>3. l \in Launches /\ l.slot = Multi /\ l.serves = V /\ l.scene = FALSE
    BY <1>1, LaunchIs
  <1>5. K \in SUBSET Slots
    BY <1>1
  <1>6. MultiVideo(r, V) = [l EXCEPT !.shared = d, !.keep = K]
    BY DEF MultiVideo
  <1>7. d \in BOOLEAN
    OBVIOUS
  <1> HIDE DEF l, K, d
  <1>8. /\ MultiVideo(r, V) \in Launches /\ MultiVideo(r, V).slot = Multi
        /\ MultiVideo(r, V).serves = V /\ MultiVideo(r, V).scene = FALSE
        /\ MultiVideo(r, V).shared = d
    <2> DEFINE m == [l EXCEPT !.shared = d, !.keep = K]
    <2>1. m \in Launches /\ m.slot = l.slot /\ m.serves = l.serves /\ m.scene = l.scene /\ m.shared = d
      BY <1>3, <1>5, <1>7 DEF Launches
    <2>2. MultiVideo(r, V) = m
      BY <1>6
    <2> HIDE DEF m
    <2> QED
      BY <1>3, <2>1, <2>2, Zenon
  <1> QED
    BY <1>8, Zenon DEF d

\* The groups that share a renderer.
LEMMA SharedIs ==
    ASSUME NEW r \in Plans
    PROVE  /\ \A o \in DOMAIN r.want : Alike(r, o) \in Groups
           /\ SharedStills(r) \subseteq Groups
           /\ \A G \in SharedStills(r) : G \subseteq Wanting(r, "static")
           /\ SceneGroups(r) \subseteq Groups
           /\ \A G \in SceneGroups(r) : G \subseteq Wanting(r, "we")
           /\ SharedVideo(r) \in {Wanting(r, "video"), {}}
           /\ FadeGroups(r) \subseteq Groups
  <1>1. /\ \A o \in DOMAIN r.want : Alike(r, o) \subseteq DOMAIN r.want /\ o \in Alike(r, o)
        /\ DOMAIN r.want \subseteq Outputs /\ \A k : Wanting(r, k) \subseteq DOMAIN r.want
    BY PlanIs DEF Groups
  <1>2. \A o \in DOMAIN r.want : Alike(r, o) \in Groups
    BY <1>1 DEF Groups
  <1>3. \A k : \A o \in Wanting(r, k) : Alike(r, o) \subseteq Wanting(r, k)
    BY DEF Alike, Wanting
  <1>4. SharedStills(r) \subseteq Groups /\ \A G \in SharedStills(r) : G \subseteq Wanting(r, "static")
    BY <1>1, <1>2, <1>3 DEF SharedStills
  <1>5. SceneGroups(r) \subseteq Groups /\ \A G \in SceneGroups(r) : G \subseteq Wanting(r, "we")
    BY <1>1, <1>2, <1>3 DEF SceneGroups
  <1>6. SharedVideo(r) \in {Wanting(r, "video"), {}}
    BY DEF SharedVideo
  <1>7. FadeGroups(r) \subseteq Groups
    BY <1>2 DEF FadeGroups
  <1> QED
    BY <1>2, <1>4, <1>5, <1>6, <1>7

LEMMA HandoffIs ==
    ASSUME NEW r \in Plans, NEW h \in Handoffs(r)
    PROVE  \/ \E G \in Groups : h = Still(r, G) /\ G \subseteq Wanting(r, "static")
           \/ h = MultiVideo(r, SharedVideo(r)) /\ SharedVideo(r) \in SUBSET Outputs
           \/ \E o \in Wanting(r, "video") : h = Video(r, o) /\ o \in Outputs
  <1>1. DOMAIN r.want \subseteq Outputs /\ \A k : Wanting(r, k) \subseteq DOMAIN r.want
    BY PlanIs DEF Groups
  <1>2. \A o \in Outputs : {o} \in Groups
    BY DEF Groups
  <1>3. CASE \E G \in SharedStills(r) : h = Still(r, G)
    BY <1>3, SharedIs
  <1>4. CASE \E o \in Wanting(r, "static") \ UNION SharedStills(r) : h = Still(r, {o})
    <2>1. PICK o \in Wanting(r, "static") : h = Still(r, {o})
      BY <1>4
    <2>2. {o} \in Groups /\ {o} \subseteq Wanting(r, "static")
      BY <1>1, <1>2
    <2> QED
      BY <2>1, <2>2
  <1>5. CASE \E V \in {SharedVideo(r)} \ {{}} : h = MultiVideo(r, V)
    BY <1>5, <1>1, SharedIs
  <1>6. CASE \E o \in Wanting(r, "video") \ SharedVideo(r) : h = Video(r, o)
    BY <1>6, <1>1
  <1> QED
    BY <1>3, <1>4, <1>5, <1>6 DEF Handoffs

\* No two handoffs have the same slot, and none has the slot of a scene, of an
\* overlay or of the video of all outputs.
LEMMA HandoffSlots ==
    ASSUME NEW r \in Plans
    PROVE  /\ Handoffs(r) \subseteq Launches
           /\ \A h \in Handoffs(r) : \/ \E G \in Groups : h.slot = <<"still", G>>
                                     \/ h.slot = Multi
                                     \/ \E o \in Wanting(r, "video") : h.slot = <<"video", {o}>>
           /\ \A h, g \in Handoffs(r) : h.slot = g.slot => h = g
  <1>1. ASSUME NEW h \in Handoffs(r)
        PROVE  /\ h \in Launches
               /\ \/ \E G \in Groups : h.slot = <<"still", G>> /\ h = Still(r, G)
                  \/ h.slot = Multi /\ h = MultiVideo(r, SharedVideo(r))
                  \/ \E o \in Wanting(r, "video") : h.slot = <<"video", {o}>> /\ h = Video(r, o)
    <2>1. \A G \in Groups : Still(r, G) \in Launches /\ Still(r, G).slot = <<"still", G>>
      BY StillIs, Zenon
    <2>2. \A V \in SUBSET Outputs : MultiVideo(r, V) \in Launches /\ MultiVideo(r, V).slot = Multi
      BY MultiIs, Zenon
    <2>3. \A o \in Outputs : Video(r, o) \in Launches /\ Video(r, o).slot = <<"video", {o}>>
      BY VideoIs, Zenon
    <2> QED
      BY <2>1, <2>2, <2>3, HandoffIs, Zenon
  <1>2. ASSUME NEW h \in Handoffs(r), NEW g \in Handoffs(r), h.slot = g.slot
        PROVE  h = g
    <2>0. \A k : Wanting(r, k) \subseteq Outputs
      BY PlanIs DEF Groups
    <2>1. CASE \E G \in Groups : h.slot = <<"still", G>> /\ h = Still(r, G)
      <3>1. PICK G \in Groups : h.slot = <<"still", G>> /\ h = Still(r, G)
        BY <2>1
      <3>2. g.slot # Multi /\ \A H \in Groups : g.slot # <<"video", H>>
        BY <3>1, <1>2, SlotKinds DEF Groups
      <3>3. \A o \in Outputs : {o} \in Groups
        BY DEF Groups
      <3>4. PICK H \in Groups : g.slot = <<"still", H>> /\ g = Still(r, H)
        BY <1>1, <3>2, <3>3, <2>0
      <3>5. G = H
        BY <3>1, <3>4, <1>2
      <3> QED
        BY <3>1, <3>4, <3>5
    <2>2. CASE h.slot = Multi /\ h = MultiVideo(r, SharedVideo(r))
      <3>1. \A G \in Groups : g.slot # <<"still", G>> /\ g.slot # <<"video", G>>
        BY <2>2, <1>2, SlotKinds DEF Groups
      <3>2. \A o \in Wanting(r, "video") : {o} \in Groups
        BY <2>0 DEF Groups
      <3> QED
        BY <1>1, <2>2, <3>1, <3>2
    <2>3. CASE \E o \in Wanting(r, "video") : h.slot = <<"video", {o}>> /\ h = Video(r, o)
      <3>1. PICK o \in Wanting(r, "video") : h.slot = <<"video", {o}>> /\ h = Video(r, o)
        BY <2>3
      <3>0. {o} \in Groups
        BY <2>0 DEF Groups
      <3>2. g.slot # Multi /\ \A H \in Groups : g.slot # <<"still", H>>
        BY <3>0, <3>1, <1>2, SlotKinds DEF Groups
      <3>4. PICK q \in Wanting(r, "video") : g.slot = <<"video", {q}>> /\ g = Video(r, q)
        BY <1>1, <3>2
      <3>5. {o} = {q}
        BY <3>1, <3>4, <1>2
      <3>6. o = q
        BY <3>5
      <3> QED
        BY <3>1, <3>4, <3>6
    <2> QED
      BY <1>1, <2>1, <2>2, <2>3
  <1> QED
    BY <1>1, <1>2

LEMMA SceneSlots ==
    ASSUME NEW r \in Plans
    PROVE  /\ Scenes(r) \subseteq Launches
           /\ \A h \in Scenes(r) : /\ \E G \in Groups : h.slot = <<"video", G>> /\ G \subseteq Wanting(r, "we")
                                   /\ h.shared = FALSE
           /\ \A h, g \in Scenes(r) : h.slot = g.slot => h = g
  <1> DEFINE slots == {<<"video", G>> : G \in SceneGroups(r)}
             K(G) == IF r.op = "we" THEN {<<"video", G>>}
                     ELSE IF weRender = WeGroups(r) THEN slots ELSE {}
             l(G) == Launch(<<"video", G>>, G)
             scene(G) == [l(G) EXCEPT !.scene = TRUE, !.keep = K(G)]
             yes == TRUE
  <1>1. \A G \in SceneGroups(r) : /\ <<"video", G>> \in Slots /\ G \in SUBSET Outputs
                                  /\ G \in Groups /\ G \subseteq Wanting(r, "we")
    <2>1. SceneGroups(r) \subseteq Groups /\ \A G \in SceneGroups(r) : G \subseteq Wanting(r, "we")
      BY SharedIs
    <2>2. ASSUME NEW G \in SceneGroups(r)
          PROVE  /\ <<"video", G>> \in Slots /\ G \in SUBSET Outputs
                 /\ G \in Groups /\ G \subseteq Wanting(r, "we")
      <3>1. G \in Groups /\ G \subseteq Wanting(r, "we") /\ G \in SUBSET Outputs
        BY <2>1 DEF Groups
      <3>2. <<"video", G>> \in Slots
        BY <3>1, SlotKinds
      <3> QED
        BY <3>1, <3>2
    <2> QED
      BY <2>2, Zenon
  <1>2. Scenes(r) = {scene(G) : G \in SceneGroups(r)}
    BY DEF Scenes
  <1>3. ASSUME NEW G \in SceneGroups(r)
        PROVE  scene(G) \in Launches /\ scene(G).slot = <<"video", G>> /\ scene(G).shared = FALSE
    <2>1. l(G) \in Launches /\ l(G).slot = <<"video", G>> /\ l(G).shared = FALSE
      BY <1>1, LaunchIs
    <2>2. slots \in SUBSET Slots /\ {<<"video", G>>} \in SUBSET Slots
      BY <1>1
    <2>3. K(G) \in SUBSET Slots
      BY <2>2
    <2>4. yes \in BOOLEAN /\ scene(G) = [l(G) EXCEPT !.scene = yes, !.keep = K(G)]
      OBVIOUS
    <2> HIDE DEF l, K, scene, yes
    <2> QED
      BY <2>1, <2>3, <2>4 DEF Launches
  <1> HIDE DEF scene
  <1>4. ASSUME NEW h \in Scenes(r)
        PROVE  \E G \in SceneGroups(r) : h = scene(G)
    BY <1>2
  <1>5. ASSUME NEW h \in Scenes(r), NEW g \in Scenes(r), h.slot = g.slot
        PROVE  h = g
    <2>1. PICK G \in SceneGroups(r) : h = scene(G)
      BY <1>4
    <2>2. PICK H \in SceneGroups(r) : g = scene(H)
      BY <1>4
    <2>3. <<"video", G>> = <<"video", H>>
      BY <2>1, <2>2, <1>3, <1>5
    <2> QED
      BY <2>1, <2>2, <2>3
  <1> QED
    BY <1>1, <1>3, <1>4, <1>5

LEMMA OverlaySlots ==
    ASSUME NEW sets \in SUBSET Groups
    PROVE  /\ Overlays(sets) \subseteq Launches
           /\ \A h \in Overlays(sets) : /\ \E G \in Groups : h.slot = <<"overlay", G>>
                                        /\ h.shared = FALSE
           /\ \A h, g \in Overlays(sets) : h.slot = g.slot => h = g
  <1>1. \A G \in sets : <<"overlay", G>> \in Slots /\ G \in Groups
    <2>1. ASSUME NEW G \in sets
          PROVE  <<"overlay", G>> \in Slots /\ G \in Groups
      <3>1. G \in Groups
        OBVIOUS
      <3> QED
        BY <3>1, SlotKinds
    <2> QED
      BY <2>1, Zenon
  <1>2. ASSUME NEW G \in sets
        PROVE  /\ Launch(<<"overlay", G>>, {}) \in Launches
               /\ Launch(<<"overlay", G>>, {}).slot = <<"overlay", G>>
               /\ Launch(<<"overlay", G>>, {}).shared = FALSE
    BY <1>1, LaunchIs
  <1>3. ASSUME NEW h \in Overlays(sets)
        PROVE  \E G \in sets : h = Launch(<<"overlay", G>>, {})
    BY DEF Overlays
  <1>4. ASSUME NEW h \in Overlays(sets), NEW g \in Overlays(sets), h.slot = g.slot
        PROVE  h = g
    <2>1. PICK G \in sets : h = Launch(<<"overlay", G>>, {})
      BY <1>3
    <2>2. PICK H \in sets : g = Launch(<<"overlay", H>>, {})
      BY <1>3
    <2>3. <<"overlay", G>> = <<"overlay", H>>
      BY <2>1, <2>2, <1>2, <1>4
    <2> QED
      BY <2>1, <2>2, <2>3
  <1> QED
    BY <1>1, <1>2, <1>3, <1>4

\* What the program of a request is to its launches: each is started once, and
\* committed; the last instruction comes when nothing else is left.  The video
\* of all outputs, which empties the slots of the others, is launched alone.
Complete(P, L) ==
    /\ P \subseteq Instructions /\ L \subseteq Launches
    /\ \A i \in P : IF i.do = "tail" THEN i.stage = LastStage
                    ELSE i.stage < LastStage /\ i.launch \in L /\ i.do # "answer"
    /\ \A l \in L : /\ \E i \in P : i.do = "spawn" /\ i.launch = l
                    /\ \E i \in P : i.do = "commit" /\ i.launch = l
    /\ \A i, j \in P : i.do = "spawn" /\ j.do = "spawn" /\ i.launch = j.launch => i = j
    /\ \A l, m \in L : l.slot = m.slot \/ l.slot = Shared => l = m

Overlaid(r) == Overlays({{o} : o \in r.fades})
Reconciled(r) == Handoffs(r) \cup Scenes(r) \cup Overlaid(r)

LEMMA ReconciledSlots ==
    ASSUME NEW r \in Plans
    PROVE  /\ Reconciled(r) \subseteq Launches
           /\ \A l, m \in Reconciled(r) : l.slot = m.slot => l = m
           /\ \A l \in Reconciled(r) : l.slot # Shared
           /\ Overlaid(r) \subseteq Launches
           /\ \A l \in Overlaid(r) \cup Scenes(r) : l.shared = FALSE
           /\ Handoffs(r) \cap Scenes(r) = {} /\ Handoffs(r) \cap Overlaid(r) = {}
           /\ Scenes(r) \cap Overlaid(r) = {}
  <1>1. r.fades \subseteq Outputs /\ {{o} : o \in r.fades} \in SUBSET Groups
    <2>1. r.fades \subseteq Outputs
      BY PlanIs
    <2> QED
      BY <2>1 DEF Groups
  <1>2. \A k : Wanting(r, k) \subseteq Outputs
    BY PlanIs DEF Groups
  <1> DEFINE H(l) == \/ \E G \in Groups : l.slot = <<"still", G>>
                     \/ l.slot = Multi
                     \/ \E o \in Wanting(r, "video") : l.slot = <<"video", {o}>>
             S(l) == \E G \in Groups : l.slot = <<"video", G>> /\ G \subseteq Wanting(r, "we")
             O(l) == \E G \in Groups : l.slot = <<"overlay", G>>
  <1>3. /\ Handoffs(r) \subseteq Launches /\ \A l \in Handoffs(r) : H(l)
        /\ \A h, g \in Handoffs(r) : h.slot = g.slot => h = g
    BY HandoffSlots
  <1>4. /\ Scenes(r) \subseteq Launches /\ \A l \in Scenes(r) : S(l) /\ l.shared = FALSE
        /\ \A h, g \in Scenes(r) : h.slot = g.slot => h = g
    BY SceneSlots
  <1>5. /\ Overlaid(r) \subseteq Launches /\ \A l \in Overlaid(r) : O(l) /\ l.shared = FALSE
        /\ \A h, g \in Overlaid(r) : h.slot = g.slot => h = g
    BY <1>1, OverlaySlots DEF Overlaid
  <1>6. \A l, m : H(l) /\ S(m) => l.slot # m.slot
    <2> SUFFICES ASSUME NEW l, NEW m, H(l), S(m), l.slot = m.slot PROVE FALSE
      OBVIOUS
    <2>1. PICK G \in Groups : m.slot = <<"video", G>> /\ G \subseteq Wanting(r, "we")
      OBVIOUS
    <2>2. l.slot # Multi /\ \A F \in Groups : l.slot # <<"still", F>>
      BY <2>1, SlotKinds DEF Groups
    <2>3. PICK o \in Wanting(r, "video") : <<"video", {o}>> = <<"video", G>>
      BY <2>1, <2>2
    <2>4. G = {o}
      BY <2>3
    <2> QED
      BY <2>1, <2>4 DEF Wanting
  <1>7. \A l, m : H(l) /\ O(m) => l.slot # m.slot
    <2>1. \A o \in Outputs : {o} \in Groups
      BY DEF Groups
    <2> QED
      BY <2>1, <1>2, SlotKinds DEF Groups
  <1>8. \A l, m : S(l) /\ O(m) => l.slot # m.slot
    BY SlotKinds DEF Groups
  <1>9. \A l : H(l) \/ S(l) \/ O(l) => l.slot # Shared
    <2>1. \A o \in Outputs : {o} \in Groups
      BY DEF Groups
    <2> QED
      BY <2>1, <1>2, SlotKinds DEF Groups
  <1> HIDE DEF H, S, O
  <1> QED
    BY <1>3, <1>4, <1>5, <1>6, <1>7, <1>8, <1>9, Zenon DEF Reconciled

\* The four programs whose launches are one set, or two, after each other.
LEMMA PartIn ==
    \A n, h, do, S : \A i \in Part(n, h, do, S) :
        i.stage = n /\ i.half = h /\ i.do = do /\ i.launch \in S
  BY DEF Part

LEMMA EndingIs ==
    /\ Ending \subseteq Instructions /\ \A i \in Ending : i.do = "tail" /\ i.stage = LastStage
  <1>1. NoLaunch \in Launches
    BY SlotKinds DEF NoLaunch, Launches
  <1> QED
    BY <1>1 DEF Ending, Each, Part, Instructions, LastStage

\* Two programs that are complete for different launches make a complete one.
LEMMA CompleteUnion ==
    ASSUME NEW P, NEW Q, NEW L, NEW M, Complete(P, L), Complete(Q, M), L \cap M = {},
           \A l, m \in L \cup M : l.slot = m.slot \/ l.slot = Shared => l = m
    PROVE  Complete(P \cup Q, L \cup M)
  <1>1. P \cup Q \subseteq Instructions /\ L \cup M \subseteq Launches
    BY DEF Complete
  <1>2. \A i \in P \cup Q : IF i.do = "tail" THEN i.stage = LastStage
                            ELSE i.stage < LastStage /\ i.launch \in L \cup M /\ i.do # "answer"
    BY DEF Complete
  <1>3. \A l \in L \cup M : /\ \E i \in P \cup Q : i.do = "spawn" /\ i.launch = l
                            /\ \E i \in P \cup Q : i.do = "commit" /\ i.launch = l
    BY DEF Complete
  <1>4. \A i, j \in P \cup Q : i.do = "spawn" /\ j.do = "spawn" /\ i.launch = j.launch => i = j
    <2>1. \A i \in P : i.do = "spawn" => i.launch \in L
      BY DEF Complete
    <2>2. \A i \in Q : i.do = "spawn" => i.launch \in M
      BY DEF Complete
    <2> QED
      BY <2>1, <2>2 DEF Complete
  <1> QED
    BY <1>1, <1>2, <1>3, <1>4 DEF Complete

\* More steps for a program's launches leave it complete.
LEMMA CompleteMore ==
    ASSUME NEW P, NEW Q, NEW L, Complete(P, L), Q \subseteq Instructions,
           \A i \in Q : IF i.do = "tail" THEN i.stage = LastStage
                        ELSE /\ i.stage < LastStage /\ i.launch \in L
                             /\ i.do \notin {"spawn", "answer"}
    PROVE  Complete(P \cup Q, L)
  <1>1. P \cup Q \subseteq Instructions /\ L \subseteq Launches
    BY DEF Complete
  <1>2. \A i \in P \cup Q : IF i.do = "tail" THEN i.stage = LastStage
                            ELSE i.stage < LastStage /\ i.launch \in L /\ i.do # "answer"
    BY DEF Complete
  <1>3. \A l \in L : /\ \E i \in P \cup Q : i.do = "spawn" /\ i.launch = l
                     /\ \E i \in P \cup Q : i.do = "commit" /\ i.launch = l
    BY DEF Complete
  <1>4. \A i, j \in P \cup Q : i.do = "spawn" /\ j.do = "spawn" /\ i.launch = j.launch => i = j
    BY DEF Complete
  <1>5. \A l, m \in L : l.slot = m.slot \/ l.slot = Shared => l = m
    BY DEF Complete
  <1> QED
    BY <1>1, <1>2, <1>3, <1>4, <1>5 DEF Complete

\* The smallest program: start the launches and commit them.
LEMMA CompleteCore ==
    ASSUME NEW S \in SUBSET Launches, NEW n \in Nat, NEW m \in Nat, n < LastStage, m < LastStage,
           \A l, k \in S : l.slot = k.slot \/ l.slot = Shared => l = k
    PROVE  Complete(Part(n, 1, "spawn", S) \cup Part(m, 1, "commit", S), S)
  <1>1. /\ Part(n, 1, "spawn", S) \subseteq Instructions
        /\ \A l \in S : [stage |-> n, half |-> 1, do |-> "spawn", launch |-> l] \in Part(n, 1, "spawn", S)
    BY PartIs
  <1>2. /\ Part(m, 1, "commit", S) \subseteq Instructions
        /\ \A l \in S : [stage |-> m, half |-> 1, do |-> "commit", launch |-> l] \in Part(m, 1, "commit", S)
    BY PartIs
  <1>3. \A i \in Part(n, 1, "spawn", S) : i.stage = n /\ i.half = 1 /\ i.do = "spawn" /\ i.launch \in S
    BY PartIn
  <1>4. \A i \in Part(m, 1, "commit", S) : i.stage = m /\ i.do = "commit" /\ i.launch \in S
    BY PartIn
  <1>5. \A l \in S : /\ \E i \in Part(n, 1, "spawn", S) : i.do = "spawn" /\ i.launch = l
                     /\ \E i \in Part(m, 1, "commit", S) : i.do = "commit" /\ i.launch = l
    BY <1>1, <1>2
  <1>6. \A i, j \in Part(n, 1, "spawn", S) \cup Part(m, 1, "commit", S) :
            i.do = "spawn" /\ j.do = "spawn" /\ i.launch = j.launch => i = j
    BY <1>1, <1>3, <1>4, SameInstruction
  <1> QED
    BY <1>1, <1>2, <1>3, <1>4, <1>5, <1>6 DEF Complete

LEMMA CompleteReconcile ==
    ASSUME NEW r \in Plans
    PROVE  Complete(ReconcileProgram(r), Reconciled(r))
  <1> DEFINE H == Handoffs(r)
             S == Scenes(r)
             O == Overlaid(r)
             cores == (Part(1, 1, "spawn", H) \cup Part(10, 1, "commit", H))
                      \cup ((Part(2, 1, "spawn", S) \cup Part(11, 1, "commit", S))
                            \cup (Part(3, 1, "spawn", O) \cup Part(9, 1, "commit", O)))
             more == Part(1, 2, "wait", H) \cup Part(2, 2, "wait", S) \cup Part(4, 1, "wait", O)
                     \cup Part(5, 1, "reveal", H) \cup Part(5, 2, "prepare", H)
                     \cup Part(6, 1, "prepare", S) \cup Part(7, 1, "prepare", O)
                     \cup Part(8, 1, "start", O) \cup Ending
  <1>1. ReconcileProgram(r) = cores \cup more
    <2>1. Overlays({{o} : o \in r.fades}) = O
      BY DEF Overlaid
    <2>2. 3 + 1 = 4
      OBVIOUS
    <2> QED
      BY <2>1, <2>2, Zenon DEF ReconcileProgram, Started, StartedTogether, Pairs, Each
  <1>2. /\ H \in SUBSET Launches /\ S \in SUBSET Launches /\ O \in SUBSET Launches
        /\ \A l, m \in H \cup (S \cup O) : l.slot = m.slot \/ l.slot = Shared => l = m
        /\ H \cap (S \cup O) = {} /\ S \cap O = {}
    BY ReconciledSlots, Zenon DEF Reconciled
  <1> HIDE DEF H, S, O
  <1>3. Complete(Part(1, 1, "spawn", H) \cup Part(10, 1, "commit", H), H)
    BY <1>2, CompleteCore DEF LastStage
  <1>4. Complete(Part(2, 1, "spawn", S) \cup Part(11, 1, "commit", S), S)
    BY <1>2, CompleteCore DEF LastStage
  <1>5. Complete(Part(3, 1, "spawn", O) \cup Part(9, 1, "commit", O), O)
    BY <1>2, CompleteCore DEF LastStage
  <1>6. Complete((Part(2, 1, "spawn", S) \cup Part(11, 1, "commit", S))
                 \cup (Part(3, 1, "spawn", O) \cup Part(9, 1, "commit", O)), S \cup O)
    <2>1. \A l, m \in S \cup O : l.slot = m.slot \/ l.slot = Shared => l = m
      BY <1>2
    <2> QED
      BY <1>2, <1>4, <1>5, <2>1, CompleteUnion
  <1>7. Complete(cores, H \cup (S \cup O))
    BY <1>2, <1>3, <1>6, CompleteUnion
  <1>8. more \subseteq Instructions /\ \A i \in more :
            IF i.do = "tail" THEN i.stage = LastStage
            ELSE i.stage < LastStage /\ i.launch \in H \cup (S \cup O) /\ i.do \notin {"spawn", "answer"}
    <2> DEFINE Good(Q) == Q \subseteq Instructions /\ \A i \in Q :
            IF i.do = "tail" THEN i.stage = LastStage
            ELSE i.stage < LastStage /\ i.launch \in H \cup (S \cup O) /\ i.do \notin {"spawn", "answer"}
    <2>0. LastStage = 12
      BY DEF LastStage
    <2>1. Good(Part(1, 2, "wait", H))
      BY <1>2, <2>0 DEF Part, Instructions
    <2>2. Good(Part(5, 1, "reveal", H))
      BY <1>2, <2>0 DEF Part, Instructions
    <2>3. Good(Part(5, 2, "prepare", H))
      BY <1>2, <2>0 DEF Part, Instructions
    <2>4. Good(Part(2, 2, "wait", S))
      BY <1>2, <2>0 DEF Part, Instructions
    <2>5. Good(Part(6, 1, "prepare", S))
      BY <1>2, <2>0 DEF Part, Instructions
    <2>6. Good(Part(4, 1, "wait", O))
      BY <1>2, <2>0 DEF Part, Instructions
    <2>7. Good(Part(7, 1, "prepare", O))
      BY <1>2, <2>0 DEF Part, Instructions
    <2>8. Good(Part(8, 1, "start", O))
      BY <1>2, <2>0 DEF Part, Instructions
    <2>9. Good(Ending)
      BY EndingIs
    <2> QED
      BY <2>1, <2>2, <2>3, <2>4, <2>5, <2>6, <2>7, <2>8, <2>9
  <1> HIDE DEF cores, more
  <1>9. Complete(cores \cup more, H \cup (S \cup O))
    BY <1>7, <1>8, CompleteMore
  <1> QED
    BY <1>1, <1>9 DEF Reconciled, H, S, O

\* The launches of the other requests.
Everywhere(r) == [Launch(Shared, DOMAIN r.want) EXCEPT !.keep = {Shared}]
Apart(r) ==
    LET each == {<<"still", {o}>> : o \in DOMAIN r.want}
    IN IF Uniform(r) THEN {[Launch(Base, DOMAIN r.want) EXCEPT !.keep = {Base}]}
       ELSE {[Launch(<<"still", {o}>>, {o}) EXCEPT !.keep = each] : o \in DOMAIN r.want}
Appearing(r) ==
    IF Uniform(r) THEN {[Launch(Base, DOMAIN r.want) EXCEPT !.hidden = TRUE]}
    ELSE {[Launch(<<"still", G>>, G) EXCEPT !.hidden = TRUE] : G \in FadeGroups(r)}
Fading(r) == IF Managed(r) THEN {Launch(Paper, {})}
             ELSE Overlays(IF r.fade THEN {First(DOMAIN r.want)} ELSE FadeGroups(r))

LEMMA EverywhereIs ==
    ASSUME NEW r \in Plans
    PROVE  Everywhere(r) \in Launches /\ Everywhere(r).slot = Shared /\ Everywhere(r).shared = FALSE
  <1>1. Shared \in Slots /\ {Shared} \in SUBSET Slots /\ DOMAIN r.want \in SUBSET Outputs
    BY SlotKinds, PlanIs DEF Groups
  <1>2. /\ Launch(Shared, DOMAIN r.want) \in Launches /\ Launch(Shared, DOMAIN r.want).slot = Shared
        /\ Launch(Shared, DOMAIN r.want).shared = FALSE
    BY <1>1, LaunchIs
  <1> QED
    BY <1>1, <1>2, WithKeep DEF Everywhere

LEMMA CompleteVideo ==
    ASSUME NEW r \in Plans
    PROVE  Complete(VideoProgram(r), {Everywhere(r)})
  <1> DEFINE S == {Everywhere(r)}
             core == Part(1, 1, "spawn", S) \cup Part(3, 1, "commit", S)
             more == Part(1, 2, "wait", S) \cup Part(2, 1, "prepare", S) \cup Ending
  <1>1. VideoProgram(r) = core \cup more
    BY Zenon DEF VideoProgram, Everywhere, Started, Pairs, Each
  <1>2. S \in SUBSET Launches /\ \A l, m \in S : l = m
    BY EverywhereIs
  <1> HIDE DEF S
  <1>3. Complete(core, S)
    BY <1>2, CompleteCore DEF LastStage
  <1>4. more \subseteq Instructions /\ \A i \in more :
            IF i.do = "tail" THEN i.stage = LastStage
            ELSE i.stage < LastStage /\ i.launch \in S /\ i.do \notin {"spawn", "answer"}
    <2>0. LastStage = 12
      BY DEF LastStage
    <2>1. /\ Part(1, 2, "wait", S) \subseteq Instructions
          /\ \A i \in Part(1, 2, "wait", S) :
                i.do # "tail" /\ i.stage < LastStage /\ i.launch \in S /\ i.do \notin {"spawn", "answer"}
      BY <1>2, <2>0 DEF Part, Instructions
    <2>2. /\ Part(2, 1, "prepare", S) \subseteq Instructions
          /\ \A i \in Part(2, 1, "prepare", S) :
                i.do # "tail" /\ i.stage < LastStage /\ i.launch \in S /\ i.do \notin {"spawn", "answer"}
      BY <1>2, <2>0 DEF Part, Instructions
    <2> QED
      BY <2>1, <2>2, EndingIs
  <1> HIDE DEF core, more
  <1>5. Complete(core \cup more, S)
    BY <1>3, <1>4, CompleteMore
  <1> QED
    BY <1>1, <1>5 DEF S

LEMMA CompleteWe ==
    ASSUME NEW r \in Plans
    PROVE  Complete(WeProgram(r), Scenes(r))
  <1> DEFINE S == Scenes(r)
             core == Part(1, 1, "spawn", S) \cup Part(3, 1, "commit", S)
             more == Part(1, 2, "wait", S) \cup Part(2, 1, "prepare", S) \cup Ending
  <1>1. WeProgram(r) = core \cup more
    BY Zenon DEF WeProgram, Started, Pairs, Each
  <1>2. S \in SUBSET Launches /\ \A l, m \in S : l.slot = m.slot \/ l.slot = Shared => l = m
    BY ReconciledSlots DEF Reconciled
  <1> HIDE DEF S
  <1>3. Complete(core, S)
    BY <1>2, CompleteCore DEF LastStage
  <1>4. more \subseteq Instructions /\ \A i \in more :
            IF i.do = "tail" THEN i.stage = LastStage
            ELSE i.stage < LastStage /\ i.launch \in S /\ i.do \notin {"spawn", "answer"}
    <2>0. LastStage = 12
      BY DEF LastStage
    <2>1. /\ Part(1, 2, "wait", S) \subseteq Instructions
          /\ \A i \in Part(1, 2, "wait", S) :
                i.do # "tail" /\ i.stage < LastStage /\ i.launch \in S /\ i.do \notin {"spawn", "answer"}
      BY <1>2, <2>0 DEF Part, Instructions
    <2>2. /\ Part(2, 1, "prepare", S) \subseteq Instructions
          /\ \A i \in Part(2, 1, "prepare", S) :
                i.do # "tail" /\ i.stage < LastStage /\ i.launch \in S /\ i.do \notin {"spawn", "answer"}
      BY <1>2, <2>0 DEF Part, Instructions
    <2> QED
      BY <2>1, <2>2, EndingIs
  <1> HIDE DEF core, more
  <1>5. Complete(core \cup more, S)
    BY <1>3, <1>4, CompleteMore
  <1> QED
    BY <1>1, <1>5 DEF S

\* Every output has its place in the order of names(), and places have a least.
LEMMA PlaceIs ==
    ASSUME NEW o \in Outputs
    PROVE  Place(o) \in Nat
  <1>1. OutputOrder \in Seq(Outputs) /\ Range(OutputOrder) = Outputs
    BY HandoffAssumption
  <1>2. DOMAIN OutputOrder \subseteq Nat
    BY <1>1
  <1>3. \E n \in DOMAIN OutputOrder : OutputOrder[n] = o
    BY <1>1 DEF Range
  <1>4. Place(o) \in DOMAIN OutputOrder
    BY <1>3 DEF Place
  <1> QED
    BY <1>2, <1>4

LEMMA LeastIs ==
    ASSUME NEW S \in SUBSET Nat, S # {}
    PROVE  Min(S) \in S /\ \A m \in S : Min(S) <= m
  <1> DEFINE R == OpToRel(<, Nat)
  <1>1. IsWellFoundedOn(R, Nat)
    BY NatLessThanWellFounded, Zenon
  <1>2. \A n, m \in Nat : n < m => <<n, m>> \in R
    BY DEF OpToRel
  <1> HIDE DEF R
  <1>3. \E n \in S : \A m \in S : ~(<<m, n>> \in R)
    BY <1>1, WFMin
  <1>4. PICK n \in S : \A m \in S : ~(<<m, n>> \in R)
    BY <1>3
  <1>5. \A m \in S : m \in Nat /\ n \in Nat /\ ~(m < n)
    BY <1>2, <1>4
  <1>6. \A m \in S : n <= m
    BY <1>5
  <1> QED
    BY <1>6 DEF Min

\* A set of outputs that is not empty has a first one.
LEMMA FirstIs ==
    ASSUME NEW S \in Groups
    PROVE  First(S) \in Groups
  <1> DEFINE places == {Place(o) : o \in S}
  <1>1. places \in SUBSET Nat /\ places # {}
    BY PlaceIs DEF Groups
  <1> HIDE DEF places
  <1>2. Min(places) \in places /\ \A m \in places : Min(places) <= m
    BY <1>1, LeastIs
  <1>3. PICK o \in S : Place(o) = Min(places)
    BY <1>2 DEF places
  <1>4. \A q \in S : Place(q) \in places
    BY DEF places
  <1>5. o \in First(S)
    BY <1>2, <1>3, <1>4 DEF First
  <1> QED
    BY <1>5 DEF First, Groups

LEMMA ApartIs ==
    ASSUME NEW r \in Plans
    PROVE  /\ Apart(r) \subseteq Launches
           /\ \A l, m \in Apart(r) : l.slot = m.slot \/ l.slot = Shared => l = m
           /\ \A l \in Apart(r) : l.shared = FALSE
  <1> DEFINE W == DOMAIN r.want
             each == {<<"still", {o}>> : o \in W}
             one == [Launch(Base, W) EXCEPT !.keep = {Base}]
             still(o) == [Launch(<<"still", {o}>>, {o}) EXCEPT !.keep = each]
  <1>1. Base \in Slots /\ W \in SUBSET Outputs /\ Base # Shared
    BY SlotKinds, PlanIs DEF Groups
  <1>2. CASE Uniform(r)
    <2>1. one \in Launches /\ one.slot = Base /\ one.shared = FALSE
      <3>1. /\ Launch(Base, W) \in Launches /\ Launch(Base, W).slot = Base
            /\ Launch(Base, W).shared = FALSE
        BY <1>1, LaunchIs
      <3>2. {Base} \in SUBSET Slots
        BY <1>1
      <3> QED
        BY <3>1, <3>2, WithKeep
    <2>2. Apart(r) = {one}
      BY <1>2 DEF Apart
    <2> HIDE DEF one
    <2> QED
      BY <2>1, <2>2, <1>1
  <1>3. CASE ~Uniform(r)
    <2>1. ASSUME NEW o \in W
          PROVE  <<"still", {o}>> \in Slots /\ <<"still", {o}>> # Shared
      <3>1. {o} \in Groups
        BY <1>1 DEF Groups
      <3> QED
        BY <3>1, SlotKinds DEF Groups
    <2>2. each \in SUBSET Slots
      BY <2>1, Zenon
    <2> HIDE DEF each
    <2>3. ASSUME NEW o \in W
          PROVE  still(o) \in Launches /\ still(o).slot = <<"still", {o}>> /\ still(o).shared = FALSE
      <3>1. {o} \in SUBSET Outputs
        BY <1>1
      <3>2. /\ Launch(<<"still", {o}>>, {o}) \in Launches
            /\ Launch(<<"still", {o}>>, {o}).slot = <<"still", {o}>>
            /\ Launch(<<"still", {o}>>, {o}).shared = FALSE
        BY <2>1, <3>1, LaunchIs
      <3> QED
        BY <3>2, <2>2, WithKeep
    <2>4. Apart(r) = {still(o) : o \in W}
      BY <1>3 DEF Apart, each
    <2> HIDE DEF still
    <2>5. ASSUME NEW l \in Apart(r)
          PROVE  \E o \in W : l = still(o)
      BY <2>4
    <2>6. ASSUME NEW l \in Apart(r), NEW m \in Apart(r), l.slot = m.slot
          PROVE  l = m
      <3>1. PICK o \in W : l = still(o)
        BY <2>5
      <3>2. PICK q \in W : m = still(q)
        BY <2>5
      <3>3. <<"still", {o}>> = <<"still", {q}>>
        BY <3>1, <3>2, <2>3, <2>6
      <3>4. {o} = {q}
        BY <3>3
      <3>5. o = q
        BY <3>4
      <3> QED
        BY <3>1, <3>2, <3>5
    <2>7. ASSUME NEW l \in Apart(r)
          PROVE  l \in Launches /\ l.slot # Shared /\ l.shared = FALSE
      BY <2>5, <2>3, <2>1
    <2> QED
      BY <2>6, <2>7
  <1> QED
    BY <1>2, <1>3

LEMMA AppearingIs ==
    ASSUME NEW r \in Plans
    PROVE  /\ Appearing(r) \subseteq Launches
           /\ \A l \in Appearing(r) : l.slot \in Stills \cup {Base} /\ l.shared = FALSE
           /\ \A l, m \in Appearing(r) : l.slot = m.slot => l = m
  <1> DEFINE W == DOMAIN r.want
             yes == TRUE
             one == [Launch(Base, W) EXCEPT !.hidden = yes]
             still(G) == [Launch(<<"still", G>>, G) EXCEPT !.hidden = yes]
  <1>1. Base \in Slots /\ W \in SUBSET Outputs /\ yes \in BOOLEAN
    BY SlotKinds, PlanIs DEF Groups
  <1>2. CASE Uniform(r)
    <2>1. one \in Launches /\ one.slot = Base /\ one.shared = FALSE
      <3>1. /\ Launch(Base, W) \in Launches /\ Launch(Base, W).slot = Base
            /\ Launch(Base, W).shared = FALSE
        BY <1>1, LaunchIs
      <3> QED
        BY <3>1, WithHidden
    <2>2. Appearing(r) = {one}
      BY <1>2 DEF Appearing
    <2> HIDE DEF one
    <2> QED
      BY <2>1, <2>2, <1>1
  <1>3. CASE ~Uniform(r)
    <2>1. FadeGroups(r) \subseteq Groups
      BY SharedIs
    <2>3. ASSUME NEW G \in Groups
          PROVE  /\ still(G) \in Launches /\ still(G).slot = <<"still", G>> /\ still(G).shared = FALSE
                 /\ <<"still", G>> \in Stills
      <3>1. <<"still", G>> \in Slots /\ <<"still", G>> \in Stills
        BY SlotKinds
      <3>2. G \in SUBSET Outputs
        BY DEF Groups
      <3>3. /\ Launch(<<"still", G>>, G) \in Launches
            /\ Launch(<<"still", G>>, G).slot = <<"still", G>>
            /\ Launch(<<"still", G>>, G).shared = FALSE
        BY <3>1, <3>2, LaunchIs
      <3> QED
        BY <3>1, <3>3, WithHidden
    <2>4. Appearing(r) = {still(G) : G \in FadeGroups(r)}
      BY <1>3 DEF Appearing
    <2> HIDE DEF still
    <2>5. ASSUME NEW l \in Appearing(r)
          PROVE  \E G \in Groups : l = still(G)
      BY <2>4, <2>1
    <2>6. ASSUME NEW l \in Appearing(r), NEW m \in Appearing(r), l.slot = m.slot
          PROVE  l = m
      <3>1. PICK G \in Groups : l = still(G)
        BY <2>5
      <3>2. PICK H \in Groups : m = still(H)
        BY <2>5
      <3>3. <<"still", G>> = <<"still", H>>
        BY <3>1, <3>2, <2>3, <2>6
      <3>4. G = H
        BY <3>3
      <3> QED
        BY <3>1, <3>2, <3>4
    <2>7. ASSUME NEW l \in Appearing(r)
          PROVE  l \in Launches /\ l.slot \in Stills /\ l.shared = FALSE
      BY <2>5, <2>3
    <2> QED
      BY <2>6, <2>7
  <1> QED
    BY <1>2, <1>3

LEMMA FadingIs ==
    ASSUME NEW r \in Plans
    PROVE  /\ Fading(r) \subseteq Launches
           /\ \A l \in Fading(r) : /\ l.slot = Paper \/ \E G \in Groups : l.slot = <<"overlay", G>>
                                   /\ l.shared = FALSE
           /\ \A l, m \in Fading(r) : l.slot = m.slot => l = m
  <1>1. CASE Managed(r)
    <2>1. Paper \in Slots /\ {} \in SUBSET Outputs
      BY SlotKinds
    <2>2. /\ Launch(Paper, {}) \in Launches /\ Launch(Paper, {}).slot = Paper
          /\ Launch(Paper, {}).shared = FALSE
      BY <2>1, LaunchIs
    <2>3. Fading(r) = {Launch(Paper, {})}
      BY <1>1 DEF Fading
    <2> QED
      BY <2>2, <2>3
  <1>2. CASE ~Managed(r)
    <2> DEFINE sets == IF r.fade THEN {First(DOMAIN r.want)} ELSE FadeGroups(r)
    <2>1. sets \in SUBSET Groups
      BY FirstIs, PlanIs, SharedIs
    <2>2. Fading(r) = Overlays(sets)
      BY <1>2 DEF Fading
    <2> HIDE DEF sets
    <2> QED
      BY <2>1, <2>2, OverlaySlots, Zenon
  <1> QED
    BY <1>1, <1>2

LEMMA CompleteStatic ==
    ASSUME NEW r \in Plans
    PROVE  Complete(StaticProgram(r), Apart(r))
  <1> DEFINE S == Apart(r)
             core == Part(1, 1, "spawn", S) \cup Part(4, 1, "commit", S)
             more == Part(2, 1, "wait", S) \cup Part(3, 1, "prepare", S) \cup Ending
  <1>1. StaticProgram(r) = core \cup more
    <2>1. 1 + 1 = 2
      OBVIOUS
    <2> QED
      BY <2>1, Zenon DEF StaticProgram, Apart, StartedTogether, Each
  <1>2. S \in SUBSET Launches /\ \A l, m \in S : l.slot = m.slot \/ l.slot = Shared => l = m
    BY ApartIs
  <1> HIDE DEF S
  <1>3. Complete(core, S)
    BY <1>2, CompleteCore DEF LastStage
  <1>4. more \subseteq Instructions /\ \A i \in more :
            IF i.do = "tail" THEN i.stage = LastStage
            ELSE i.stage < LastStage /\ i.launch \in S /\ i.do \notin {"spawn", "answer"}
    <2>0. LastStage = 12
      BY DEF LastStage
    <2>1. /\ Part(2, 1, "wait", S) \subseteq Instructions
          /\ \A i \in Part(2, 1, "wait", S) :
                i.do # "tail" /\ i.stage < LastStage /\ i.launch \in S /\ i.do \notin {"spawn", "answer"}
      BY <1>2, <2>0 DEF Part, Instructions
    <2>2. /\ Part(3, 1, "prepare", S) \subseteq Instructions
          /\ \A i \in Part(3, 1, "prepare", S) :
                i.do # "tail" /\ i.stage < LastStage /\ i.launch \in S /\ i.do \notin {"spawn", "answer"}
      BY <1>2, <2>0 DEF Part, Instructions
    <2> QED
      BY <2>1, <2>2, EndingIs
  <1> HIDE DEF core, more
  <1>5. Complete(core \cup more, S)
    BY <1>3, <1>4, CompleteMore
  <1> QED
    BY <1>1, <1>5 DEF S

LEMMA CompleteFade ==
    ASSUME NEW r \in Plans
    PROVE  Complete(FadeProgram(r), Appearing(r) \cup Fading(r))
  <1> DEFINE S == Appearing(r)
             O == Fading(r)
             n == IF Managed(r) THEN 6 ELSE 7
             m == IF Managed(r) THEN 7 ELSE 6
             cores == (Part(1, 1, "spawn", S) \cup Part(m, 1, "commit", S))
                      \cup (Part(2, 1, "spawn", O) \cup Part(n, 1, "commit", O))
             more == Part(1, 2, "wait", S) \cup Part(2, 2, "wait", O) \cup Part(3, 1, "reveal", S)
                     \cup Part(3, 2, "prepare", S) \cup Part(4, 1, "prepare", O)
                     \cup Part(5, 1, "start", O) \cup Ending
  <1>1. FadeProgram(r) = cores \cup more
    BY Zenon DEF FadeProgram, Appearing, Fading, Started, Pairs, Each
  <1>2. /\ S \in SUBSET Launches /\ O \in SUBSET Launches /\ S \cap O = {}
        /\ \A l, k \in S \cup O : l.slot = k.slot \/ l.slot = Shared => l = k
    <2>1. \A l \in S, k \in O : l.slot # k.slot
      <3>1. ASSUME NEW l \in S, NEW k \in O, l.slot = k.slot PROVE FALSE
        <4>1. l.slot \in Stills \cup {Base}
          BY AppearingIs
        <4>2. k.slot = Paper \/ \E G \in Groups : k.slot = <<"overlay", G>>
          BY FadingIs
        <4>3. l.slot \in Installed /\ l.slot # Paper
          <5>1. \A G \in Groups : <<"still", G>> # Paper
            BY SlotKinds, Zenon DEF Groups
          <5> QED
            BY <4>1, <5>1, SlotKinds DEF Stills
        <4> QED
          BY <3>1, <4>2, <4>3, SlotKinds, Zenon
      <3> QED
        BY <3>1
    <2>2. \A l \in S : l.slot # Shared
      <3>1. \A G \in Groups : <<"still", G>> # Shared
        BY SlotKinds, Zenon DEF Groups
      <3>2. \A s \in Stills \cup {Base} : s # Shared
        <4>1. Base # Shared
          BY SlotKinds
        <4> QED
          BY <3>1, <4>1, Zenon DEF Stills
      <3>3. \A l \in Appearing(r) : l.slot \in Stills \cup {Base}
        BY AppearingIs
      <3> QED
        BY <3>2, <3>3
    <2>3. \A l \in O : l.slot # Shared
      <3>1. \A G \in Groups : <<"overlay", G>> # Shared
        BY SlotKinds, Zenon DEF Groups
      <3>2. Paper # Shared
        BY SlotKinds
      <3> QED
        BY <3>1, <3>2, FadingIs, Zenon
    <2>4. /\ S \subseteq Launches /\ O \subseteq Launches
          /\ \A l, k \in S : l.slot = k.slot => l = k
          /\ \A l, k \in O : l.slot = k.slot => l = k
      BY AppearingIs, FadingIs
    <2> HIDE DEF S, O
    <2> QED
      BY <2>1, <2>2, <2>3, <2>4
  <1>3. n \in Nat /\ m \in Nat /\ n < LastStage /\ m < LastStage
    BY DEF LastStage
  <1> HIDE DEF S, O, n, m
  <1>4. Complete(Part(1, 1, "spawn", S) \cup Part(m, 1, "commit", S), S)
    BY <1>2, <1>3, CompleteCore DEF LastStage
  <1>5. Complete(Part(2, 1, "spawn", O) \cup Part(n, 1, "commit", O), O)
    BY <1>2, <1>3, CompleteCore DEF LastStage
  <1>6. Complete(cores, S \cup O)
    BY <1>2, <1>4, <1>5, CompleteUnion
  <1>7. more \subseteq Instructions /\ \A i \in more :
            IF i.do = "tail" THEN i.stage = LastStage
            ELSE i.stage < LastStage /\ i.launch \in S \cup O /\ i.do \notin {"spawn", "answer"}
    <2> DEFINE Good(Q) == Q \subseteq Instructions /\ \A i \in Q :
            IF i.do = "tail" THEN i.stage = LastStage
            ELSE i.stage < LastStage /\ i.launch \in S \cup O /\ i.do \notin {"spawn", "answer"}
    <2>0. LastStage = 12
      BY DEF LastStage
    <2>1. Good(Part(1, 2, "wait", S))
      BY <1>2, <2>0 DEF Part, Instructions
    <2>2. Good(Part(2, 2, "wait", O))
      BY <1>2, <2>0 DEF Part, Instructions
    <2>3. Good(Part(3, 1, "reveal", S))
      BY <1>2, <2>0 DEF Part, Instructions
    <2>4. Good(Part(3, 2, "prepare", S))
      BY <1>2, <2>0 DEF Part, Instructions
    <2>5. Good(Part(4, 1, "prepare", O))
      BY <1>2, <2>0 DEF Part, Instructions
    <2>6. Good(Part(5, 1, "start", O))
      BY <1>2, <2>0 DEF Part, Instructions
    <2>7. Good(Ending)
      BY EndingIs
    <2> QED
      BY <2>1, <2>2, <2>3, <2>4, <2>5, <2>6, <2>7
  <1> HIDE DEF cores, more
  <1>8. Complete(cores \cup more, S \cup O)
    BY <1>6, <1>7, CompleteMore
  <1> QED
    BY <1>1, <1>8 DEF S, O

\* The launches of a request, by what it is.
All(r) == CASE r.op = "reconcile" -> Reconciled(r)
            [] r.op = "video" -> {Everywhere(r)}
            [] r.op = "we" -> Scenes(r)
            [] r.op = "static" -> Apart(r)
            [] r.op = "fade" -> Appearing(r) \cup Fading(r)

LEMMA ProgramComplete ==
    ASSUME NEW r \in Plans
    PROVE  Complete(Program(r), All(r))
  <1>1. r.op \in Ops
    BY PlanIs
  <1>2. CASE r.op = "reconcile"
    BY <1>2, CompleteReconcile, Zenon DEF Program, All
  <1>3. CASE r.op = "video"
    BY <1>3, CompleteVideo, Zenon DEF Program, All
  <1>4. CASE r.op = "we"
    BY <1>4, CompleteWe, Zenon DEF Program, All
  <1>5. CASE r.op = "static"
    BY <1>5, CompleteStatic, Zenon DEF Program, All
  <1>6. CASE r.op = "fade"
    BY <1>6, CompleteFade, Zenon DEF Program, All
  <1> QED
    BY <1>1, <1>2, <1>3, <1>4, <1>5, <1>6 DEF Ops

LEMMA LaunchedIs ==
    ASSUME NEW r \in Plans
    PROVE  Launched(r) = All(r)
  BY ProgramComplete DEF Launched, Complete

\* A program as the steps need it, in one place.
LEMMA ProgramIs ==
    ASSUME NEW r \in Plans
    PROVE  /\ Program(r) \subseteq Instructions /\ Launched(r) \subseteq Launches
           /\ \A i \in Program(r) : IF i.do = "tail" THEN i.stage = LastStage
                  ELSE i.stage < LastStage /\ i.launch \in Launched(r) /\ i.do # "answer"
           /\ \A l \in Launched(r) : \E i \in Program(r) : i.do = "commit" /\ i.launch = l
           /\ \A i, j \in Program(r) : i.do = "spawn" /\ j.do = "spawn" /\ i.launch = j.launch => i = j
           /\ \A l, m \in Launched(r) : l.slot = m.slot \/ l.slot = Shared => l = m
  BY ProgramComplete, LaunchedIs DEF Complete

\* Two launches of a request have nothing in common.
LEMMA ApartReach ==
    ASSUME NEW r \in Plans, NEW l \in Launched(r), NEW m \in Launched(r), l # m
    PROVE  Reach(l) \cap Reach(m) = {}
  <1>1. l.slot # m.slot /\ l.slot # Shared /\ m.slot # Shared
    BY ProgramIs
  <1>2. Taken(l) \subseteq {l.slot} /\ Taken(m) \subseteq {m.slot}
    BY <1>1 DEF Taken
  <1> QED
    BY <1>1, <1>2 DEF Reach

\* The program depends on the request, on the assignments saved at its start
\* and on the scenes that are drawn; those do not change before its end.
LEMMA SameProgram ==
    ASSUME NEW r, NEW s, s.op = r.op, s.want = r.want, s.fill = r.fill, s.fade = r.fade,
           s.single = r.single, s.fades = r.fades, s.same = r.same
    PROVE  Program(s) = Program(r)
  <1>1. \A k : Wanting(s, k) = Wanting(r, k)
    BY DEF Wanting
  <1>2. \A o : Alike(s, o) = Alike(r, o)
    BY DEF Alike
  <1>3. Uniform(s) = Uniform(r) /\ Warm(s) = Warm(r)
    BY DEF Uniform, Warm
  <1>4. /\ SharedStills(s) = SharedStills(r) /\ SharedVideo(s) = SharedVideo(r)
        /\ SceneGroups(s) = SceneGroups(r) /\ WeGroups(s) = WeGroups(r)
    <2>1. \A G : G \in SharedStills(s) <=> G \in SharedStills(r)
      BY <1>1, <1>2 DEF SharedStills
    <2>2. SharedVideo(s) = SharedVideo(r)
      BY <1>1 DEF SharedVideo
    <2>3. \A G : G \in SceneGroups(s) <=> G \in SceneGroups(r)
      BY <1>1, <1>2 DEF SceneGroups
    <2>4. \A g : g \in WeGroups(s) <=> g \in WeGroups(r)
      BY <1>1, Zenon DEF WeGroups
    <2> QED
      BY <2>1, <2>2, <2>3, <2>4
  <1>5. /\ \A G : Still(s, G) = Still(r, G)
        /\ \A o : Video(s, o) = Video(r, o)
        /\ \A V : MultiVideo(s, V) = MultiVideo(r, V)
    BY <1>3, Zenon DEF Still, Video, MultiVideo
  <1>6. Handoffs(s) = Handoffs(r)
    <2>1. \A h : h \in Handoffs(s) <=> h \in Handoffs(r)
      BY <1>1, <1>4, <1>5, Zenon DEF Handoffs
    <2> QED
      BY <2>1
  <1>7. Scenes(s) = Scenes(r)
    BY <1>4, Zenon DEF Scenes
  <1>8. FadeGroups(s) = FadeGroups(r) /\ Managed(s) = Managed(r)
    BY <1>2, <1>3, Zenon DEF FadeGroups, Managed
  <1>9. ReconcileProgram(s) = ReconcileProgram(r)
    BY <1>6, <1>7, Zenon DEF ReconcileProgram
  <1>10. VideoProgram(s) = VideoProgram(r)
    BY Zenon DEF VideoProgram
  <1>11. WeProgram(s) = WeProgram(r)
    BY <1>7, Zenon DEF WeProgram
  <1>12. StaticProgram(s) = StaticProgram(r)
    BY <1>3, Zenon DEF StaticProgram
  <1>13. FadeProgram(s) = FadeProgram(r)
    BY <1>3, <1>8, Zenon DEF FadeProgram
  <1> QED
    BY <1>9, <1>10, <1>11, <1>12, <1>13, Zenon DEF Program

LEMMA ProgramStays ==
    ASSUME NEW r, plan' = r, prior' = prior, weRender' = weRender
    PROVE  Program(plan)' = Program(r)
  <1>1. Handoffs(plan)' = Handoffs(r)
    BY DEF Handoffs, Still, Video, MultiVideo, Wanting, SharedStills, SharedVideo, Alike, Warm
  <1>2. Scenes(plan)' = Scenes(r)
    BY DEF Scenes, SceneGroups, WeGroups, Alike, Wanting
  <1> QED
    BY <1>1, <1>2 DEF Program, ReconcileProgram, VideoProgram, WeProgram, StaticProgram,
       FadeProgram, Managed, Uniform, FadeGroups, Alike

\* A shared renderer is given up: the other launches of the request stay as they are.
LEMMA SharedOnly ==
    ASSUME NEW r \in Plans, NEW l \in Launched(r), l.shared
    PROVE  r.op = "reconcile" /\ l \in Handoffs(r)
  <1>0. r.op \in Ops /\ l \in All(r)
    BY PlanIs, LaunchedIs
  <1>1. CASE r.op = "reconcile"
    BY <1>0, <1>1, ReconciledSlots DEF All, Reconciled
  <1>2. CASE r.op = "video"
    BY <1>0, <1>2, EverywhereIs DEF All
  <1>3. CASE r.op = "we"
    BY <1>0, <1>3, SceneSlots DEF All
  <1>4. CASE r.op = "static"
    BY <1>0, <1>4, ApartIs DEF All
  <1>5. CASE r.op = "fade"
    BY <1>0, <1>5, AppearingIs, FadingIs DEF All
  <1> QED
    BY <1>0, <1>1, <1>2, <1>3, <1>4, <1>5 DEF Ops

\* The classes of outputs that show the same in the same way.
LEMMA Classes ==
    ASSUME NEW r, NEW o \in DOMAIN r.want, NEW q \in DOMAIN r.want,
           Alike(r, o) \cap Alike(r, q) # {}
    PROVE  Alike(r, o) = Alike(r, q)
  BY DEF Alike

LEMMA HandoffsRemain ==
    ASSUME NEW r \in Plans, NEW l \in Handoffs(r), l.shared,
           NEW s, s.want = r.want, s.fill = r.fill, s.fades = r.fades, s.same = r.same,
           s.single = r.single \cup l.serves
    PROVE  Handoffs(r) \ {l} \subseteq Handoffs(s)
  <1>1. \A k : Wanting(s, k) = Wanting(r, k)
    BY DEF Wanting
  <1>2. \A o : Alike(s, o) = Alike(r, o)
    BY DEF Alike
  <1>3. Warm(s) = Warm(r)
    BY DEF Warm
  <1>4. /\ \A G : Still(s, G) = Still(r, G)
        /\ \A o : Video(s, o) = Video(r, o)
        /\ \A V : MultiVideo(s, V) = MultiVideo(r, V)
    BY <1>3, Zenon DEF Still, Video, MultiVideo
  <1>5. SharedStills(s) \subseteq SharedStills(r)
    BY <1>1, <1>2 DEF SharedStills
  <1>6. SharedVideo(s) \in {SharedVideo(r), {}}
    BY <1>1 DEF SharedVideo
  <1>7. SharedVideo(r) = {} => SharedVideo(s) = {}
    BY <1>6
  <1>8. CASE \E G \in Groups : l = Still(r, G) /\ G \subseteq Wanting(r, "static")
    <2>1. PICK G \in Groups : l = Still(r, G) /\ G \subseteq Wanting(r, "static")
      BY <1>8
    <2>2. l.serves = G
      BY <2>1, StillIs
    <2>3. SharedVideo(s) = SharedVideo(r)
      <3>1. Wanting(r, "video") \cap G = {}
        BY <2>1 DEF Wanting
      <3>2. \A o \in Wanting(r, "video") : o \in s.single <=> o \in r.single
        BY <2>2, <3>1
      <3>3. Wanting(r, "video") \cap s.single = {} <=> Wanting(r, "video") \cap r.single = {}
        BY <3>2
      <3> QED
        BY <1>1, <3>3 DEF SharedVideo
    <2>4. \A F \in SharedStills(r) : F # G => F \in SharedStills(s)
      <3>1. SUFFICES ASSUME NEW F \in SharedStills(r), F # G PROVE F \in SharedStills(s)
        OBVIOUS
      <3>2. PICK o \in Wanting(r, "static") \ r.single : F = Alike(r, o)
        BY DEF SharedStills
      <3>3. Cardinality(F) > 1 /\ F \cap r.single = {}
        BY DEF SharedStills
      <3>4. o \in DOMAIN r.want
        BY <3>2 DEF Wanting
      <3>5. o \in F
        BY <3>2, <3>4, PlanIs
      <3>6. F \cap G = {}
        <4>1. G \in SharedStills(r)
          <5>1. Cardinality(G) > 1
            BY <2>1, StillIs
          <5>2. CASE \E H \in SharedStills(r) : l = Still(r, H)
            <6>1. PICK H \in SharedStills(r) : l = Still(r, H)
              BY <5>2
            <6>2. H \in Groups
              BY SharedIs
            <6>3. l.serves = H
              BY <6>1, <6>2, StillIs
            <6> QED
              BY <2>2, <6>1, <6>3
          <5>3. CASE \E q \in Wanting(r, "static") \ UNION SharedStills(r) : l = Still(r, {q})
            <6>1. PICK q \in Wanting(r, "static") : l = Still(r, {q})
              BY <5>3
            <6>2. {q} \in Groups
              BY <6>1, PlanIs DEF Groups
            <6>3. l.serves = {q}
              BY <6>1, <6>2, StillIs
            <6>4. Cardinality({q}) = 1
              BY FS_Singleton
            <6> QED
              BY <2>2, <5>1, <6>3, <6>4
          <5>4. l.slot = <<"still", G>>
            BY <2>1, StillIs
          <5>5. l # MultiVideo(r, SharedVideo(r)) /\ \A q \in Wanting(r, "video") : l # Video(r, q)
            <6>1. /\ <<"still", G>> # Multi
                  /\ \A q : <<"still", G>> # <<"video", {q}>>
              BY SlotKinds, Zenon DEF Groups
            <6>2. MultiVideo(r, SharedVideo(r)).slot = Multi
              <7>1. SharedVideo(r) \in SUBSET Outputs
                BY SharedIs, PlanIs DEF Groups
              <7> QED
                BY <7>1, MultiIs
            <6>3. \A q \in Wanting(r, "video") : q \in Outputs
              BY PlanIs DEF Groups
            <6>4. \A q \in Wanting(r, "video") : Video(r, q).slot = <<"video", {q}>>
              BY <6>3, VideoIs, Zenon
            <6> QED
              BY <5>4, <6>1, <6>2, <6>4, Zenon
          <5> QED
            BY <5>2, <5>3, <5>5 DEF Handoffs
        <4>2. PICK q \in Wanting(r, "static") : G = Alike(r, q)
          BY <4>1 DEF SharedStills
        <4>3. q \in DOMAIN r.want
          BY <4>2 DEF Wanting
        <4> QED
          BY <3>1, <3>2, <3>4, <4>2, <4>3, Classes
      <3>7. o \notin s.single /\ F \cap s.single = {}
        BY <2>2, <3>2, <3>3, <3>5, <3>6
      <3> QED
        BY <1>1, <1>2, <3>2, <3>3, <3>7 DEF SharedStills
    <2>5. ASSUME NEW h \in Handoffs(r), h # l
          PROVE  h \in Handoffs(s)
      <3>1. CASE \E F \in SharedStills(r) : h = Still(r, F)
        BY <3>1, <2>5, <2>1, <2>4, <1>4 DEF Handoffs
      <3>2. CASE \E o \in Wanting(r, "static") \ UNION SharedStills(r) : h = Still(r, {o})
        <4>1. PICK o \in Wanting(r, "static") \ UNION SharedStills(r) : h = Still(r, {o})
          BY <3>2
        <4>2. o \in Wanting(s, "static") \ UNION SharedStills(s)
          BY <4>1, <1>1, <1>5
        <4> QED
          BY <4>1, <4>2, <1>4 DEF Handoffs
      <3>3. CASE \E V \in {SharedVideo(r)} \ {{}} : h = MultiVideo(r, V)
        BY <3>3, <2>3, <1>4 DEF Handoffs
      <3>4. CASE \E o \in Wanting(r, "video") \ SharedVideo(r) : h = Video(r, o)
        BY <3>4, <2>3, <1>1, <1>4 DEF Handoffs
      <3> QED
        BY <3>1, <3>2, <3>3, <3>4 DEF Handoffs
    <2> QED
      BY <2>5
  <1>9. CASE l = MultiVideo(r, SharedVideo(r))
    <2>1. l.serves = SharedVideo(r) /\ SharedVideo(r) \subseteq Wanting(r, "video")
      <3>1. SharedVideo(r) \in SUBSET Outputs
        BY SharedIs, PlanIs DEF Groups
      <3> QED
        BY <1>9, <3>1, MultiIs, SharedIs
    <2>2. Wanting(r, "static") \cap l.serves = {}
      BY <2>1 DEF Wanting
    <2>3. SharedStills(r) \subseteq SharedStills(s)
      <3>1. \A o \in Wanting(r, "static") : o \in s.single <=> o \in r.single
        BY <2>2
      <3>2. \A G \in SharedStills(r) : G \subseteq Wanting(r, "static")
        BY SharedIs
      <3> QED
        BY <1>1, <1>2, <3>1, <3>2 DEF SharedStills
    <2>4. ASSUME NEW h \in Handoffs(r), h # l
          PROVE  h \in Handoffs(s)
      <3>1. CASE \E F \in SharedStills(r) : h = Still(r, F)
        BY <3>1, <2>3, <1>4 DEF Handoffs
      <3>2. CASE \E o \in Wanting(r, "static") \ UNION SharedStills(r) : h = Still(r, {o})
        <4>1. PICK o \in Wanting(r, "static") \ UNION SharedStills(r) : h = Still(r, {o})
          BY <3>2
        <4>2. o \in Wanting(s, "static") \ UNION SharedStills(s)
          BY <4>1, <1>1, <1>5
        <4> QED
          BY <4>1, <4>2, <1>4 DEF Handoffs
      <3>3. CASE \E V \in {SharedVideo(r)} \ {{}} : h = MultiVideo(r, V)
        BY <3>3, <2>4, <1>9
      <3>4. CASE \E o \in Wanting(r, "video") \ SharedVideo(r) : h = Video(r, o)
        BY <3>4, <1>6, <1>1, <1>4 DEF Handoffs
      <3> QED
        BY <3>1, <3>2, <3>3, <3>4 DEF Handoffs
    <2> QED
      BY <2>4
  <1>10. CASE \E o \in Wanting(r, "video") : l = Video(r, o) /\ o \in Outputs
    <2>1. l.shared = FALSE
      BY <1>10, VideoIs
    <2> QED
      BY <2>1
  <1> QED
    BY <1>8, <1>9, <1>10, HandoffIs

LEMMA OthersRemain ==
    ASSUME NEW r \in Plans, NEW l \in Launched(r), l.shared,
           NEW s, s = [r EXCEPT !.single = @ \cup l.serves]
    PROVE  s \in Plans /\ Launched(r) \ {l} \subseteq Launched(s)
  <1>1. r.op = "reconcile" /\ l \in Handoffs(r) /\ l.serves \subseteq Outputs
    <2>1. l \in Launches
      BY ProgramIs
    <2> QED
      BY <2>1, SharedOnly DEF Launches
  <1>2. /\ s \in Plans /\ s.op = r.op /\ s.want = r.want /\ s.fill = r.fill /\ s.fades = r.fades
        /\ s.same = r.same /\ s.single = r.single \cup l.serves
    BY <1>1 DEF Plans
  <1>3. Handoffs(r) \ {l} \subseteq Handoffs(s)
    <2>1. ASSUME NEW u, u.want = r.want, u.fill = r.fill, u.fades = r.fades, u.same = r.same,
                 u.single = r.single \cup l.serves
          PROVE  Handoffs(r) \ {l} \subseteq Handoffs(u)
      BY <1>1, <2>1, HandoffsRemain
    <2> QED
      BY <1>2, <2>1
  <1>4. Scenes(s) = Scenes(r)
    <2>1. \A k : Wanting(s, k) = Wanting(r, k)
      BY <1>2 DEF Wanting
    <2>2. \A o : Alike(s, o) = Alike(r, o)
      BY <1>2 DEF Alike
    <2>3. \A G : G \in SceneGroups(s) <=> G \in SceneGroups(r)
      BY <2>1, <2>2 DEF SceneGroups
    <2>4. \A g : g \in WeGroups(s) <=> g \in WeGroups(r)
      BY <1>2, <2>1, Zenon DEF WeGroups
    <2>5. SceneGroups(s) = SceneGroups(r) /\ WeGroups(s) = WeGroups(r)
      BY <2>3, <2>4
    <2> QED
      BY <1>2, <2>5, Zenon DEF Scenes
  <1>5. Overlaid(s) = Overlaid(r)
    BY <1>2, Zenon DEF Overlaid
  <1>6. Launched(r) = Reconciled(r) /\ Launched(s) = Reconciled(s)
    BY <1>1, <1>2, LaunchedIs DEF All
  <1> QED
    BY <1>2, <1>3, <1>4, <1>5, <1>6 DEF Reconciled

--------------------------------------------------------------------------------
(* The holders of the processes *)

LEMMA NobodyIs == Nobody \notin Pids
  BY HandoffAssumption

\* Two open transactions have no slot in common.
LEMMA OpenApart ==
    ASSUME IInv, NEW t \in open, NEW u \in open, t # u
    PROVE  Reach(t.launch) \cap Reach(u.launch) = {}
  <1>1. ~Idle
    BY DEF IInv, Resting
  <1>2. plan \in Plans /\ t.launch \in Launched(plan) /\ u.launch \in Launched(plan)
    BY <1>1 DEF IInv, Running
  <1>3. t.launch # u.launch
    BY DEF IInv, Transactions
  <1> QED
    BY <1>2, <1>3, ApartReach

\* Nothing changes hands.
LEMMA KeepHolders ==
    ASSUME IInv, slot' = slot, open' = open, deferred' = deferred, linger' = linger,
           \A p \in Pids : phase'[p] = "free" <=> phase[p] = "free"
    PROVE  Transactions' /\ Once' /\ Accounted'
  <1>1. Transactions'
    BY DEF IInv, Transactions
  <1>2. Once'
    BY DEF IInv, Once, InSlot, Displaced
  <1>3. Accounted'
    BY DEF IInv, Accounted, InSlot, Displaced
  <1> QED
    BY <1>1, <1>2, <1>3

\* Slots are emptied: some of their processes are killed, the others are left to
\* the threads that kill them later.
LEMMA EmptyHolders ==
    ASSUME IInv, NEW S \in SUBSET Installed, NEW later \in SUBSET S,
           slot' = Without(S), Kill(In(S \ later)), deferred' = deferred \cup In(later),
           open' = open, linger' = linger
    PROVE  Transactions' /\ Once' /\ Accounted'
  <1>1. S \subseteq Slots /\ slot \in [Slots -> Pids \cup {Nobody}] /\ phase \in [Pids -> Phases]
    BY SlotKinds DEF IInv, TypeOK
  <1>2. \A s \in Slots : slot'[s] = IF s \in S THEN Nobody ELSE slot[s]
    BY DEF Without
  <1>3. \A s, x \in Slots : slot[s] = slot[x] /\ slot[s] # Nobody => s = x
    BY DEF IInv, Once
  <1>4. \A p \in Pids : phase'[p] = IF p \in In(S \ later) THEN "free" ELSE phase[p]
    BY DEF Kill
  <1>5. Transactions'
    <2>1. \A t \in open : t.launch.slot \in Slots /\ DOMAIN t.from \subseteq Slots
      BY SlotKinds DEF IInv, TypeOK, Launches
    <2>2. ASSUME NEW t \in open
          PROVE  /\ slot'[t.launch.slot] \in {t.pid, Nobody}
                 /\ t.launch.slot \notin Installed => slot'[t.launch.slot] = t.pid
                 /\ DOMAIN t.from \subseteq Taken(t.launch)
                 /\ \A s \in DOMAIN t.from : s # t.launch.slot => slot'[s] = Nobody
      <3>1. /\ slot[t.launch.slot] \in {t.pid, Nobody}
            /\ t.launch.slot \notin Installed => slot[t.launch.slot] = t.pid
            /\ DOMAIN t.from \subseteq Taken(t.launch)
            /\ \A s \in DOMAIN t.from : s # t.launch.slot => slot[s] = Nobody
        BY DEF IInv, Transactions
      <3> QED
        BY <1>2, <2>1, <3>1
    <2>3. \A s \in Slots \ Installed : slot'[s] # Nobody => \E t \in open : t.launch.slot = s
      BY <1>2 DEF IInv, Transactions
    <2>4. \A t, u \in open : t.launch = u.launch => t = u
      BY DEF IInv, Transactions
    <2> QED
      BY <2>2, <2>3, <2>4 DEF Transactions
  <1>6. \A p \in Pids : InSlot(p)' <=> InSlot(p) /\ p \notin In(S)
    <2>1. \A p \in Pids : p # Nobody
      BY NobodyIs
    <2> QED
      BY <1>1, <1>2, <1>3, <2>1 DEF InSlot, In
  <1>7. \A p \in Pids : Displaced(p)' <=> Displaced(p)
    BY DEF Displaced
  <1>8. \A p \in Pids : p \in In(S) => InSlot(p)
    BY <1>1 DEF InSlot, In
  <1>9. In(later) \subseteq In(S) /\ In(S \ later) \cap In(later) = {}
        /\ In(S) = In(later) \cup In(S \ later)
    BY <1>1, <1>3 DEF In
  <1>10. Once'
    <2>1. \A s, x \in Slots : slot'[s] = slot'[x] /\ slot'[s] # Nobody => s = x
      BY <1>2, <1>3
    <2>2. \A t, u \in open' : \A s \in DOMAIN t.from, x \in DOMAIN u.from :
              t.from[s] = u.from[x] => t = u /\ s = x
      BY DEF IInv, Once
    <2>3. \A p \in Pids : /\ ~(InSlot(p)' /\ Displaced(p)')
                          /\ p \in (deferred \cup linger)' => ~InSlot(p)' /\ ~Displaced(p)'
      BY <1>6, <1>7, <1>8, <1>9 DEF IInv, Once
    <2>4. (deferred \cap linger)' = {}
      <3>1. linger \subseteq Pids
        BY DEF IInv, TypeOK
      <3> QED
        BY <3>1, <1>8, <1>9 DEF IInv, Once
    <2> QED
      BY <2>1, <2>2, <2>3, <2>4 DEF Once
  <1>11. Accounted'
    <2>1. SUFFICES ASSUME NEW p \in Pids
                   PROVE  phase'[p] # "free" <=> InSlot(p)' \/ Displaced(p)' \/ p \in (deferred \cup linger)'
      BY DEF Accounted
    <2>2. /\ phase[p] # "free" <=> InSlot(p) \/ Displaced(p) \/ p \in deferred \cup linger
          /\ ~(InSlot(p) /\ Displaced(p))
          /\ p \in deferred \cup linger => ~InSlot(p) /\ ~Displaced(p)
      BY DEF IInv, Accounted, Once
    <2>3. CASE p \in In(S \ later)
      BY <2>2, <2>3, <1>4, <1>6, <1>7, <1>8, <1>9
    <2>4. CASE p \in In(later)
      BY <2>2, <2>4, <1>4, <1>6, <1>7, <1>8, <1>9
    <2>5. CASE p \notin In(S)
      BY <2>2, <2>5, <1>4, <1>6, <1>7, <1>8, <1>9
    <2> QED
      BY <2>3, <2>4, <2>5, <1>9
  <1> QED
    BY <1>5, <1>10, <1>11

\* A transaction is dropped: its candidate is killed and its incumbents return.
LEMMA UndoHolders ==
    ASSUME IInv, NEW t \in open, Undo(t), deferred' = deferred, linger' = linger
    PROVE  Transactions' /\ Once' /\ Accounted'
  <1>1. /\ slot \in [Slots -> Pids \cup {Nobody}] /\ phase \in [Pids -> Phases]
        /\ \A u \in open : /\ u.launch.slot \in Slots /\ u.pid \in Pids
                           /\ DOMAIN u.from \subseteq Installed
                           /\ \A s \in DOMAIN u.from : u.from[s] \in Pids /\ s \in Slots
    BY SlotKinds DEF IInv, TypeOK, Launches
  <1>2. \A s \in Slots : slot'[s] = IF s \in DOMAIN t.from THEN t.from[s]
                                    ELSE IF s = t.launch.slot /\ slot[s] = t.pid THEN Nobody
                                    ELSE slot[s]
    BY DEF Undo
  <1>3. \A p \in Pids : phase'[p] = IF p \in {slot[t.launch.slot]} \cap {t.pid} THEN "free" ELSE phase[p]
    BY DEF Undo, Kill
  <1>4. open' = open \ {t}
    BY DEF Undo
  <1>5. /\ slot[t.launch.slot] \in {t.pid, Nobody}
        /\ DOMAIN t.from \subseteq Taken(t.launch)
        /\ \A s \in DOMAIN t.from : s # t.launch.slot => slot[s] = Nobody
    BY DEF IInv, Transactions
  <1>6. \A s, x \in Slots : slot[s] = slot[x] /\ slot[s] # Nobody => s = x
    BY DEF IInv, Once
  <1>7. Nobody \notin Pids
    BY NobodyIs
  \* what a slot holds afterwards
  <1>8. \A s \in Slots : slot'[s] # Nobody =>
            \/ s \in DOMAIN t.from /\ slot'[s] = t.from[s]
            \/ s \notin DOMAIN t.from /\ s # t.launch.slot /\ slot'[s] = slot[s]
    BY <1>2, <1>5
  <1>9. \A s \in Slots : slot[s] # Nobody /\ s # t.launch.slot =>
            s \notin DOMAIN t.from /\ slot'[s] = slot[s]
    BY <1>2, <1>5
  <1>10. \A u \in open' : /\ u \in open /\ u # t
                          /\ u.launch.slot # t.launch.slot /\ u.launch.slot \notin DOMAIN t.from
                          /\ \A s \in DOMAIN u.from : s # t.launch.slot /\ s \notin DOMAIN t.from
    <2>1. SUFFICES ASSUME NEW u \in open, u # t
                   PROVE  /\ u.launch.slot # t.launch.slot /\ u.launch.slot \notin DOMAIN t.from
                          /\ \A s \in DOMAIN u.from : s # t.launch.slot /\ s \notin DOMAIN t.from
      BY <1>4
    <2>2. Reach(t.launch) \cap Reach(u.launch) = {}
      BY <2>1, OpenApart
    <2>3. DOMAIN u.from \subseteq Taken(u.launch)
      BY DEF IInv, Transactions
    <2> QED
      BY <1>5, <2>2, <2>3 DEF Reach
  <1>11. Transactions'
    <2>1. \A u, v \in open' : u.launch = v.launch => u = v
      BY <1>10 DEF IInv, Transactions
    <2>2. ASSUME NEW u \in open'
          PROVE  /\ slot'[u.launch.slot] \in {u.pid, Nobody}
                 /\ u.launch.slot \notin Installed => slot'[u.launch.slot] = u.pid
                 /\ DOMAIN u.from \subseteq Taken(u.launch)
                 /\ \A s \in DOMAIN u.from : s # u.launch.slot => slot'[s] = Nobody
      <3>1. u \in open /\ u.launch.slot \in Slots /\ DOMAIN u.from \subseteq Slots
        BY <1>1, <1>10
      <3>2. slot'[u.launch.slot] = slot[u.launch.slot]
        BY <1>2, <1>10, <3>1
      <3>3. \A s \in DOMAIN u.from : slot'[s] = slot[s]
        BY <1>2, <1>10, <3>1
      <3> QED
        BY <3>1, <3>2, <3>3 DEF IInv, Transactions
    <2>3. ASSUME NEW s \in Slots \ Installed, slot'[s] # Nobody
          PROVE  \E u \in open' : u.launch.slot = s
      <3>1. s # t.launch.slot /\ slot[s] # Nobody
        BY <1>1, <1>8, <2>3
      <3>2. PICK u \in open : u.launch.slot = s
        BY <3>1 DEF IInv, Transactions
      <3> QED
        BY <1>4, <3>1, <3>2
    <2> QED
      BY <2>1, <2>2, <2>3 DEF Transactions
  \* who holds a process afterwards
  <1>12. \A p \in Pids : InSlot(p)' =>
            \/ \E s \in DOMAIN t.from : t.from[s] = p
            \/ InSlot(p) /\ ~(slot[t.launch.slot] = p)
    BY <1>1, <1>6, <1>7, <1>8 DEF InSlot
  <1>13. \A p \in Pids : Displaced(p)' =>
            Displaced(p) /\ ~\E s \in DOMAIN t.from : t.from[s] = p
    BY <1>10 DEF Displaced, IInv, Once
  <1>14. Once'
    <2>1. ASSUME NEW s \in Slots, NEW x \in Slots, slot'[s] = slot'[x], slot'[s] # Nobody
          PROVE  s = x
      <3>1. CASE s \in DOMAIN t.from /\ x \in DOMAIN t.from
        BY <1>2, <2>1, <3>1 DEF IInv, Once
      <3>2. CASE s \notin DOMAIN t.from /\ x \notin DOMAIN t.from
        BY <1>6, <1>8, <2>1, <3>2
      <3>3. CASE s \in DOMAIN t.from /\ x \notin DOMAIN t.from
        BY <1>1, <1>8, <2>1, <3>3 DEF IInv, Once, InSlot, Displaced
      <3>4. CASE s \notin DOMAIN t.from /\ x \in DOMAIN t.from
        BY <1>1, <1>8, <2>1, <3>4 DEF IInv, Once, InSlot, Displaced
      <3> QED
        BY <3>1, <3>2, <3>3, <3>4
    <2>2. \A u, v \in open' : \A s \in DOMAIN u.from, x \in DOMAIN v.from :
              u.from[s] = v.from[x] => u = v /\ s = x
      BY <1>10 DEF IInv, Once
    <2>3. \A p \in Pids : /\ ~(InSlot(p)' /\ Displaced(p)')
                          /\ p \in (deferred \cup linger)' => ~InSlot(p)' /\ ~Displaced(p)'
      BY <1>12, <1>13 DEF IInv, Once, Displaced
    <2>4. (deferred \cap linger)' = {}
      BY DEF IInv, Once
    <2> QED
      BY <2>1, <2>2, <2>3, <2>4 DEF Once
  <1>15. Accounted'
    <2>1. SUFFICES ASSUME NEW p \in Pids
                   PROVE  phase'[p] # "free" <=> InSlot(p)' \/ Displaced(p)' \/ p \in (deferred \cup linger)'
      BY DEF Accounted
    <2>2. /\ phase[p] # "free" <=> InSlot(p) \/ Displaced(p) \/ p \in deferred \cup linger
          /\ ~(InSlot(p) /\ Displaced(p))
          /\ p \in deferred \cup linger => ~InSlot(p) /\ ~Displaced(p)
      BY DEF IInv, Accounted, Once
    <2>3. CASE p = slot[t.launch.slot]
      <3>1. InSlot(p) /\ phase'[p] = "free"
        BY <1>1, <1>3, <1>5, <1>7, <2>3 DEF InSlot
      <3>2. ~\E s \in DOMAIN t.from : t.from[s] = p
        BY <2>2, <3>1 DEF Displaced
      <3> QED
        BY <1>12, <1>13, <2>2, <2>3, <3>1, <3>2
    <2>4. CASE p # slot[t.launch.slot]
      <3>1. phase'[p] = phase[p]
        BY <1>3, <2>4
      <3>2. InSlot(p) => InSlot(p)'
        BY <1>7, <1>9, <2>4 DEF InSlot
      <3>3. Displaced(p) => InSlot(p)' \/ Displaced(p)'
        <4>1. SUFFICES ASSUME NEW u \in open, NEW s \in DOMAIN u.from, u.from[s] = p
                       PROVE  InSlot(p)' \/ Displaced(p)'
          BY DEF Displaced
        <4>2. CASE u = t
          BY <1>1, <1>2, <4>1, <4>2 DEF InSlot
        <4>3. CASE u # t
          BY <1>4, <4>1, <4>3 DEF Displaced
        <4> QED
          BY <4>2, <4>3
      <3>4. InSlot(p)' => InSlot(p) \/ Displaced(p)
        BY <1>12 DEF Displaced
      <3>5. Displaced(p)' => Displaced(p)
        BY <1>13
      <3> QED
        BY <2>2, <3>1, <3>2, <3>3, <3>4, <3>5
    <2> QED
      BY <2>3, <2>4
  <1> QED
    BY <1>11, <1>14, <1>15

\* A candidate is spawned into its slot, and displaces what was there.
LEMMA SpawnHolders ==
    ASSUME IInv, ~Idle, NEW l \in Launched(plan), Of(l) = {},
           NEW p \in Pids, phase[p] = "free", NEW m, NEW t,
           NEW taken, taken = {s \in Taken(l) : slot[s] # Nobody},
           t = [launch |-> l, pid |-> p, from |-> Only(slot, taken), marks |-> m],
           slot' = [Without(taken) EXCEPT ![l.slot] = p], open' = open \cup {t},
           phase'[p] # "free", \A q \in Pids : q # p => phase'[q] = phase[q],
           deferred' = deferred, linger' = linger
    PROVE  Transactions' /\ Once' /\ Accounted'
  <1>0. plan \in Plans /\ l \in Launches /\ l.slot \in Slots
    <2>1. plan \in Plans
      BY DEF IInv, Running
    <2>2. l \in Launches
      BY <2>1, ProgramIs
    <2> QED
      BY <2>1, <2>2 DEF Launches
  <1>1. /\ slot \in [Slots -> Pids \cup {Nobody}] /\ Nobody \notin Pids
        /\ \A u \in open : /\ u.launch.slot \in Slots /\ u.pid \in Pids
                           /\ DOMAIN u.from \subseteq Slots
    BY SlotKinds, NobodyIs DEF IInv, TypeOK, Launches
  <1>2. Taken(l) \subseteq Installed /\ (l.slot \in Installed => l.slot \in Taken(l))
    BY SlotKinds DEF Taken, Installed
  <1>3. taken \subseteq Slots /\ taken \subseteq Taken(l)
    BY <1>2, SlotKinds
  <1>4. \A s \in Slots : slot'[s] = IF s = l.slot THEN p ELSE IF s \in taken THEN Nobody ELSE slot[s]
    BY <1>0 DEF Without
  <1>5. /\ t.launch = l /\ t.pid = p /\ DOMAIN t.from = taken
        /\ \A s \in taken : t.from[s] = slot[s]
    BY DEF Only
  <1>6. \A u \in open : u.launch # l /\ Reach(l) \cap Reach(u.launch) = {}
    <2>1. SUFFICES ASSUME NEW u \in open PROVE u.launch # l /\ Reach(l) \cap Reach(u.launch) = {}
      OBVIOUS
    <2>2. u.launch # l
      BY DEF Of
    <2>3. u.launch \in Launched(plan)
      BY DEF IInv, Running
    <2> QED
      BY <1>0, <2>2, <2>3, ApartReach
  <1>7. slot[l.slot] # Nobody => l.slot \in taken
    <2>1. CASE l.slot \in Installed
      BY <1>2, <2>1
    <2>2. CASE l.slot \notin Installed
      <3>1. slot[l.slot] # Nobody => \E u \in open : u.launch.slot = l.slot
        BY <1>0, <2>2 DEF IInv, Transactions
      <3> QED
        BY <1>6, <3>1 DEF Reach
    <2> QED
      BY <2>1, <2>2
  <1>8. \A u \in open : /\ u.launch.slot # l.slot /\ u.launch.slot \notin taken
                        /\ \A s \in DOMAIN u.from : s # l.slot /\ s \notin taken
    <2>1. \A u \in open : DOMAIN u.from \subseteq Taken(u.launch)
      BY DEF IInv, Transactions
    <2> QED
      BY <1>3, <1>6, <2>1 DEF Reach
  <1>9. ~InSlot(p) /\ ~Displaced(p) /\ p \notin deferred \cup linger
    BY DEF IInv, Accounted
  <1>10. \A s, x \in Slots : slot[s] = slot[x] /\ slot[s] # Nobody => s = x
    BY DEF IInv, Once
  <1>11. Transactions'
    <2>1. \A u, v \in open' : u.launch = v.launch => u = v
      BY <1>5, <1>6 DEF IInv, Transactions
    <2>2. ASSUME NEW u \in open'
          PROVE  /\ slot'[u.launch.slot] \in {u.pid, Nobody}
                 /\ u.launch.slot \notin Installed => slot'[u.launch.slot] = u.pid
                 /\ DOMAIN u.from \subseteq Taken(u.launch)
                 /\ \A s \in DOMAIN u.from : s # u.launch.slot => slot'[s] = Nobody
      <3>1. CASE u \in open
        <4>1. slot'[u.launch.slot] = slot[u.launch.slot]
          BY <1>1, <1>4, <1>8, <3>1
        <4>2. \A s \in DOMAIN u.from : slot'[s] = slot[s]
          BY <1>1, <1>4, <1>8, <3>1
        <4> QED
          BY <3>1, <4>1, <4>2 DEF IInv, Transactions
      <3>2. CASE u = t
        BY <1>0, <1>3, <1>4, <1>5, <3>2
      <3> QED
        BY <3>1, <3>2
    <2>3. ASSUME NEW s \in Slots \ Installed, slot'[s] # Nobody
          PROVE  \E u \in open' : u.launch.slot = s
      <3>1. CASE s = l.slot
        BY <1>5, <3>1
      <3>2. CASE s # l.slot
        BY <1>4, <2>3, <3>2 DEF IInv, Transactions
      <3> QED
        BY <3>1, <3>2
    <2> QED
      BY <2>1, <2>2, <2>3 DEF Transactions
  <1>12. \A q \in Pids : InSlot(q)' <=> q = p \/ (InSlot(q) /\ ~\E s \in taken : slot[s] = q)
    <2>1. SUFFICES ASSUME NEW q \in Pids
                   PROVE  InSlot(q)' <=> q = p \/ (InSlot(q) /\ ~\E s \in taken : slot[s] = q)
      OBVIOUS
    <2>2. InSlot(p)'
      BY <1>0, <1>4 DEF InSlot
    <2>3. ASSUME InSlot(q), ~\E s \in taken : slot[s] = q PROVE InSlot(q)'
      <3>1. PICK s \in Slots : slot[s] = q
        BY <2>3 DEF InSlot
      <3>2. s \notin taken /\ s # l.slot
        BY <1>1, <1>7, <2>3, <3>1
      <3> QED
        BY <1>4, <3>1, <3>2 DEF InSlot
    <2>4. ASSUME InSlot(q)', q # p PROVE InSlot(q) /\ ~\E s \in taken : slot[s] = q
      <3>1. PICK s \in Slots : slot'[s] = q
        BY <2>4 DEF InSlot
      <3>2. s # l.slot /\ s \notin taken /\ slot[s] = q
        BY <1>1, <1>4, <2>4, <3>1
      <3>3. \A x \in taken : slot[x] # q
        BY <1>1, <1>3, <1>10, <3>2
      <3> QED
        BY <3>2, <3>3 DEF InSlot
    <2> QED
      BY <2>2, <2>3, <2>4
  <1>13. \A q \in Pids : Displaced(q)' <=> Displaced(q) \/ \E s \in taken : slot[s] = q
    BY <1>5 DEF Displaced
  <1>14. \A q \in Pids : (\E s \in taken : slot[s] = q) => InSlot(q)
    BY <1>3 DEF InSlot
  <1>15. Once'
    <2>1. \A s, x \in Slots : slot'[s] = slot'[x] /\ slot'[s] # Nobody => s = x
      BY <1>4, <1>9, <1>10 DEF InSlot
    <2>2. ASSUME NEW u \in open', NEW v \in open', NEW s \in DOMAIN u.from, NEW x \in DOMAIN v.from,
                 u.from[s] = v.from[x]
          PROVE  u = v /\ s = x
      <3>0. \A w \in open, y \in taken : y \in Slots /\ \A z \in DOMAIN w.from : w.from[z] # slot[y]
        <4>1. \A y \in taken : y \in Slots /\ slot[y] \in Pids
          BY <1>1, <1>3
        <4>2. \A y \in taken : ~Displaced(slot[y])
          BY <4>1, <1>14 DEF IInv, Once
        <4> QED
          BY <4>1, <4>2 DEF Displaced
      <3>1. CASE u \in open /\ v \in open
        BY <2>2, <3>1 DEF IInv, Once
      <3>2. CASE u = t /\ v = t
        BY <1>3, <1>5, <1>10, <2>2, <3>2
      <3>3. CASE u \in open /\ v = t
        BY <1>5, <2>2, <3>0, <3>3
      <3>4. CASE u = t /\ v \in open
        BY <1>5, <2>2, <3>0, <3>4
      <3> QED
        BY <3>1, <3>2, <3>3, <3>4
    <2>3. \A q \in Pids : /\ ~(InSlot(q)' /\ Displaced(q)')
                          /\ q \in (deferred \cup linger)' => ~InSlot(q)' /\ ~Displaced(q)'
      BY <1>9, <1>12, <1>13, <1>14 DEF IInv, Once
    <2>4. (deferred \cap linger)' = {}
      BY DEF IInv, Once
    <2> QED
      BY <2>1, <2>2, <2>3, <2>4 DEF Once
  <1>16. Accounted'
    <2>1. SUFFICES ASSUME NEW q \in Pids
                   PROVE  phase'[q] # "free" <=> InSlot(q)' \/ Displaced(q)' \/ q \in (deferred \cup linger)'
      BY DEF Accounted
    <2>2. CASE q = p
      BY <1>12, <2>2
    <2>3. CASE q # p
      <3>1. phase[q] # "free" <=> InSlot(q) \/ Displaced(q) \/ q \in deferred \cup linger
        BY DEF IInv, Accounted
      <3> QED
        BY <1>12, <1>13, <1>14, <2>3, <3>1
    <2> QED
      BY <2>2, <2>3
  <1> QED
    BY <1>11, <1>15, <1>16

\* A transaction is committed: its incumbents are killed, and an overlay is left
\* to the thread that waits for it.
LEMMA CommitHolders ==
    ASSUME IInv, NEW t \in open, open' = open \ {t}, Kill(Range(t.from)), deferred' = deferred,
           IF t.launch.slot \in Installed THEN slot' = slot /\ linger' = linger
           ELSE slot' = Without({t.launch.slot}) /\ linger' = linger \cup {t.pid}
    PROVE  Transactions' /\ Once' /\ Accounted'
  <1>1. /\ slot \in [Slots -> Pids \cup {Nobody}] /\ Nobody \notin Pids
        /\ \A u \in open : /\ u.launch.slot \in Slots /\ u.pid \in Pids
                           /\ DOMAIN u.from \subseteq Slots
    BY SlotKinds, NobodyIs DEF IInv, TypeOK, Launches
  <1> DEFINE away(q) == t.launch.slot \notin Installed /\ q = t.pid
             held(q) == \E s \in DOMAIN t.from : t.from[s] = q
  <1>2. \A s \in Slots : slot'[s] = IF t.launch.slot \notin Installed /\ s = t.launch.slot THEN Nobody
                                    ELSE slot[s]
    BY DEF Without
  <1>3. \A q : q \in linger' <=> q \in linger \/ away(q)
    OBVIOUS
  <1>4. \A q \in Pids : phase'[q] = IF held(q) THEN "free" ELSE phase[q]
    BY DEF Kill, Range
  <1>5. t.launch.slot \notin Installed => slot[t.launch.slot] = t.pid
    BY DEF IInv, Transactions
  <1>6. \A u \in open' : /\ u \in open /\ u # t /\ u.launch.slot # t.launch.slot
                         /\ \A s \in DOMAIN u.from : s # t.launch.slot
    <2>1. \A u \in open : DOMAIN u.from \subseteq Taken(u.launch)
      BY DEF IInv, Transactions
    <2> QED
      BY <2>1, OpenApart DEF Reach
  <1>7. Transactions'
    <2>1. \A u, v \in open' : u.launch = v.launch => u = v
      BY <1>6 DEF IInv, Transactions
    <2>2. ASSUME NEW u \in open'
          PROVE  /\ slot'[u.launch.slot] \in {u.pid, Nobody}
                 /\ u.launch.slot \notin Installed => slot'[u.launch.slot] = u.pid
                 /\ DOMAIN u.from \subseteq Taken(u.launch)
                 /\ \A s \in DOMAIN u.from : s # u.launch.slot => slot'[s] = Nobody
      <3>1. u \in open /\ slot'[u.launch.slot] = slot[u.launch.slot]
        BY <1>1, <1>2, <1>6
      <3>2. \A s \in DOMAIN u.from : slot'[s] = slot[s]
        BY <1>1, <1>2, <1>6
      <3> QED
        BY <3>1, <3>2 DEF IInv, Transactions
    <2>3. ASSUME NEW s \in Slots \ Installed, slot'[s] # Nobody
          PROVE  \E u \in open' : u.launch.slot = s
      <3>1. s # t.launch.slot /\ slot[s] # Nobody
        BY <1>2, <2>3
      <3>2. PICK u \in open : u.launch.slot = s
        BY <3>1 DEF IInv, Transactions
      <3> QED
        BY <3>1, <3>2
    <2> QED
      BY <2>1, <2>2, <2>3 DEF Transactions
  <1>8. \A q \in Pids : InSlot(q)' <=> InSlot(q) /\ ~away(q)
    <2>1. \A s, x \in Slots : slot[s] = slot[x] /\ slot[s] # Nobody => s = x
      BY DEF IInv, Once
    <2> QED
      BY <1>1, <1>2, <1>5, <2>1 DEF InSlot
  <1>9. \A q \in Pids : Displaced(q)' <=> Displaced(q) /\ ~held(q)
    <2>1. \A q \in Pids : Displaced(q)' => Displaced(q) /\ ~held(q)
      BY <1>6 DEF Displaced, IInv, Once
    <2>2. \A q \in Pids : Displaced(q) /\ ~held(q) => Displaced(q)'
      BY DEF Displaced
    <2> QED
      BY <2>1, <2>2
  <1>10. \A q \in Pids : /\ away(q) => InSlot(q)
                         /\ held(q) => Displaced(q)
    BY <1>1, <1>5 DEF InSlot, Displaced
  <1> HIDE DEF away, held
  <1>11. Once'
    <2>1. \A s, x \in Slots : slot'[s] = slot'[x] /\ slot'[s] # Nobody => s = x
      BY <1>2 DEF IInv, Once
    <2>2. \A u, v \in open' : \A s \in DOMAIN u.from, x \in DOMAIN v.from :
              u.from[s] = v.from[x] => u = v /\ s = x
      BY <1>6 DEF IInv, Once
    <2>3. \A q \in Pids : /\ ~(InSlot(q)' /\ Displaced(q)')
                          /\ q \in (deferred \cup linger)' => ~InSlot(q)' /\ ~Displaced(q)'
      BY <1>3, <1>8, <1>9, <1>10 DEF IInv, Once
    <2>4. (deferred \cap linger)' = {}
      <3>1. deferred \subseteq Pids
        BY DEF IInv, TypeOK
      <3> QED
        BY <1>3, <1>10, <3>1 DEF IInv, Once
    <2> QED
      BY <2>1, <2>2, <2>3, <2>4 DEF Once
  <1>12. Accounted'
    <2>1. SUFFICES ASSUME NEW q \in Pids
                   PROVE  phase'[q] # "free" <=> InSlot(q)' \/ Displaced(q)' \/ q \in (deferred \cup linger)'
      BY DEF Accounted
    <2>2. /\ phase[q] # "free" <=> InSlot(q) \/ Displaced(q) \/ q \in deferred \cup linger
          /\ ~(InSlot(q) /\ Displaced(q))
          /\ q \in deferred \cup linger => ~InSlot(q) /\ ~Displaced(q)
      BY DEF IInv, Accounted, Once
    <2> QED
      BY <1>3, <1>4, <1>8, <1>9, <1>10, <2>2
  <1> QED
    BY <1>7, <1>11, <1>12

\* A thread kills the process it holds.
LEMMA ReleaseHolders ==
    ASSUME IInv, NEW p \in deferred \cup linger, ReleaseDeferred(p)
    PROVE  Transactions' /\ Once' /\ Accounted'
  <1>1. slot' = slot /\ open' = open
    BY DEF ReleaseDeferred, program
  <1>2. /\ p \in Pids /\ ~InSlot(p) /\ ~Displaced(p)
        /\ (deferred \cup linger)' = (deferred \cup linger) \ {p} /\ (deferred \cap linger)' = {}
    BY DEF IInv, TypeOK, Once, ReleaseDeferred
  <1>3. \A q \in Pids : phase'[q] = IF q = p THEN "free" ELSE phase[q]
    BY DEF ReleaseDeferred, Kill
  <1>4. Transactions'
    BY <1>1 DEF IInv, Transactions
  <1>5. \A q \in Pids : (InSlot(q)' <=> InSlot(q)) /\ (Displaced(q)' <=> Displaced(q))
    BY <1>1 DEF InSlot, Displaced
  <1>6. Once'
    BY <1>1, <1>2, <1>5 DEF IInv, Once
  <1>7. Accounted'
    BY <1>2, <1>3, <1>5 DEF IInv, Accounted
  <1> QED
    BY <1>4, <1>6, <1>7

--------------------------------------------------------------------------------
(* What remains of the program *)

\* The program and its launches are the same in the next state.
LEMMA PlanStays ==
    ASSUME NEW r, plan' = r, prior' = prior, weRender' = weRender
    PROVE  Program(plan)' = Program(r) /\ Launched(plan)' = Launched(r)
  <1>1. Program(plan)' = Program(r)
    BY ProgramStays
  <1> QED
    BY <1>1, Zenon DEF Launched

\* What has to be shown of a step of a request, given its program.
LEMMA RunsOn ==
    ASSUME NEW r \in Plans, plan' = r, prior' = prior, weRender' = weRender,
           \A i \in todo' : \/ i \in Program(r)
                            \/ i.do = "answer" /\ [i EXCEPT !.do = "reveal"] \in Program(r),
           \A t \in open' : t.launch \in Launched(r),
           todo' # {} => \A t \in open' : \E i \in todo' : i.do = "commit" /\ i.launch = t.launch,
           \A i \in todo' : i.do = "spawn" =>
               /\ \A t \in open' : t.launch # i.launch
               /\ \E j \in todo' : j.do = "commit" /\ j.launch = i.launch
    PROVE  Running'
  <1>1. Program(plan)' = Program(r) /\ Launched(plan)' = Launched(r)
    BY PlanStays
  <1>2. \A i \in todo' : OnPlan(i)'
    BY <1>1, Zenon DEF OnPlan
  <1>3. \A t \in open' : t.launch \in Launched(plan)'
    BY <1>1
  <1>4. todo' # {} => \A t \in open' : Ends(t.launch)'
    BY DEF Ends
  <1>5. \A i \in todo' : i.do = "spawn" => Of(i.launch)' = {} /\ Ends(i.launch)'
    BY DEF Ends, Of
  <1> QED
    BY <1>2, <1>3, <1>4, <1>5 DEF Running

\* Instructions are taken from what remains, transactions are closed; a commit is
\* taken only when its transaction is closed and nothing will open it again.
LEMMA Goes ==
    ASSUME IInv, ~Idle, plan' \in Plans, Program(plan') = Program(plan),
           prior' = prior, weRender' = weRender,
           todo' \subseteq todo, open' \subseteq open,
           \A j \in todo : /\ j.do = "commit"
                           /\ \/ \E t \in open' : t.launch = j.launch
                              \/ \E k \in todo' : k.do = "spawn" /\ k.launch = j.launch
                           => todo' = {} \/ j \in todo'
    PROVE  Running'
  <1> DEFINE r == plan'
  <1>0. /\ \A i \in todo : OnPlan(i)
        /\ \A t \in open : t.launch \in Launched(plan)
        /\ todo # {} => \A t \in open : Ends(t.launch)
        /\ \A i \in todo : i.do = "spawn" => Of(i.launch) = {} /\ Ends(i.launch)
    BY DEF IInv, Running
  <1>1. \A i \in todo' : \/ i \in Program(r)
                         \/ i.do = "answer" /\ [i EXCEPT !.do = "reveal"] \in Program(r)
    <2>1. Program(r) = Program(plan) /\ todo' \subseteq todo
      OBVIOUS
    <2> HIDE DEF r
    <2> QED
      BY <1>0, <2>1, Zenon DEF OnPlan
  <1>2. \A t \in open' : t.launch \in Launched(r)
    BY <1>0 DEF Launched
  <1>3. todo' # {} => \A t \in open' : \E i \in todo' : i.do = "commit" /\ i.launch = t.launch
    BY <1>0 DEF Ends
  <1>4. \A i \in todo' : i.do = "spawn" =>
            /\ \A t \in open' : t.launch # i.launch
            /\ \E j \in todo' : j.do = "commit" /\ j.launch = i.launch
    BY <1>0 DEF Ends, Of
  <1>5. r \in Plans /\ plan' = r
    OBVIOUS
  <1> HIDE DEF r
  <1> QED
    BY <1>1, <1>2, <1>3, <1>4, <1>5, RunsOn

\* A shared renderer is given up, or the request is.
LEMMA GivesUp ==
    ASSUME IInv, ~Idle, NEW l \in Launched(plan), GiveUp(l), open' \subseteq open,
           \A t \in open' : t.launch # l,
           prior' = prior, weRender' = weRender
    PROVE  Running'
  <1>0. plan \in Plans /\ \A t \in open : t.launch \in Launched(plan)
    BY DEF IInv, Running
  <1>1. CASE ~l.shared
    <2>1. plan' = plan /\ todo' = {}
      BY <1>1 DEF GiveUp
    <2> QED
      BY <1>0, <2>1, Goes
  <1>2. CASE l.shared
    <2> DEFINE s == [plan EXCEPT !.single = @ \cup l.serves]
    <2>1. plan' = s /\ todo' = Rest(plan')
      BY <1>2 DEF GiveUp
    <2>2. s \in Plans /\ Launched(plan) \ {l} \subseteq Launched(s)
      BY <1>0, <1>2, OthersRemain
    <2> HIDE DEF s
    <2>3. \A k \in Launched(s) : \E i \in Program(s) : i.do = "commit" /\ i.launch = k
      BY <2>2, ProgramIs
    <2>4. todo' = {i \in Program(s) : i.do \in {"spawn", "wait"} => Of(i.launch) = {}}
      BY <2>1 DEF Rest
    <2>5. \A t \in open' : t.launch \in Launched(s)
      BY <1>0, <2>2
    <2>6. \A k \in Launched(s) : \E i \in todo' : i.do = "commit" /\ i.launch = k
      BY <2>3, <2>4
    <2>7. \A i \in todo' : i.do = "spawn" =>
              (\A t \in open' : t.launch # i.launch) /\ i.launch \in Launched(s)
      BY <2>4 DEF Of, Launched
    <2> QED
      BY <2>1, <2>2, <2>4, <2>5, <2>6, <2>7, RunsOn
  <1> QED
    BY <1>1, <1>2

\* The next instruction is one of those that remain, and a step takes it away.
LEMMA Takes ==
    ASSUME IInv, NEW do, NEW i \in Reached(do)
    PROVE  /\ i \in todo /\ i.do = do /\ ~Idle /\ plan \in Plans
           /\ do # "answer" => i \in Program(plan)
           /\ do = "spawn" => i.launch \in Launched(plan) /\ Of(i.launch) = {} /\ Ends(i.launch)
  <1>1. i \in todo /\ i.do = do
    BY DEF Reached
  <1>2. ~Idle
    BY <1>1 DEF IInv, Resting
  <1>3. plan \in Plans /\ OnPlan(i) /\ (i.do = "spawn" => Of(i.launch) = {} /\ Ends(i.launch))
    BY <1>1, <1>2 DEF IInv, Running
  <1>4. do # "answer" => i \in Program(plan)
    BY <1>1, <1>3 DEF OnPlan
  <1> QED
    BY <1>1, <1>2, <1>3, <1>4 DEF Launched

--------------------------------------------------------------------------------
(* The actions preserve the invariant *)

\* Processes that are killed, and slots that are emptied.
LEMMA KillTypes ==
    ASSUME TypeOK, NEW ps, Kill(ps)
    PROVE  phase' \in [Pids -> Phases] /\ role' \in [Pids -> Launches]
  <1>1. NoLaunch \in Launches /\ "free" \in Phases
    BY SlotKinds DEF NoLaunch, Launches, Phases
  <1> QED
    BY <1>1 DEF Kill, TypeOK

LEMMA EmptyTypes ==
    ASSUME TypeOK, NEW S
    PROVE  Without(S) \in [Slots -> Pids \cup {Nobody}]
  BY DEF Without, TypeOK

\* Dropping a transaction puts back what it displaced.
LEMMA UndoTypes ==
    ASSUME TypeOK, NEW t \in open, Undo(t)
    PROVE  slot' \in [Slots -> Pids \cup {Nobody}] /\ marks' \subseteq Videos
  <1>1. /\ DOMAIN t.from \subseteq Installed /\ t.from \in [DOMAIN t.from -> Pids]
        /\ t.marks \subseteq Videos
    BY DEF TypeOK
  <1> QED
    BY <1>1 DEF Undo, TypeOK

\* The assignments that a step makes.
Assignments(f) == DOMAIN f = Outputs \cup {Multi} /\ \A o \in Outputs : f[o] \in DOMAIN Kind \cup {Blank}

\* A launch serves outputs that the request was made for.
LEMMA Serves ==
    ASSUME NEW r \in Plans, r.op = "reconcile", NEW l \in Launched(r)
    PROVE  l.serves \subseteq DOMAIN r.want
  <1>1. l \in Handoffs(r) \cup Scenes(r) \cup Overlaid(r)
    BY LaunchedIs DEF All, Reconciled
  <1>2. \A k : Wanting(r, k) \subseteq DOMAIN r.want
    BY PlanIs
  <1>3. CASE l \in Handoffs(r)
    <2>1. CASE \E G \in Groups : l = Still(r, G) /\ G \subseteq Wanting(r, "static")
      BY <2>1, <1>2, StillIs
    <2>2. CASE l = MultiVideo(r, SharedVideo(r)) /\ SharedVideo(r) \in SUBSET Outputs
      <3>1. l.serves = SharedVideo(r)
        BY <2>2, MultiIs
      <3>2. SharedVideo(r) \in {Wanting(r, "video"), {}}
        BY SharedIs
      <3> QED
        BY <1>2, <3>1, <3>2
    <2>3. CASE \E o \in Wanting(r, "video") : l = Video(r, o) /\ o \in Outputs
      <3>1. PICK o \in Wanting(r, "video") : l = Video(r, o) /\ o \in Outputs
        BY <2>3
      <3>2. l.serves = {o}
        BY <3>1, VideoIs
      <3> QED
        BY <1>2, <3>1, <3>2
    <2> QED
      BY <1>3, <2>1, <2>2, <2>3, HandoffIs
  <1>4. CASE l \in Scenes(r)
    <2> DEFINE slots == {<<"video", G>> : G \in SceneGroups(r)}
               keep(G) == IF r.op = "we" THEN {<<"video", G>>}
                          ELSE IF weRender = WeGroups(r) THEN slots ELSE {}
    <2>1. PICK G \in SceneGroups(r) : l = [Launch(<<"video", G>>, G) EXCEPT !.scene = TRUE, !.keep = keep(G)]
      BY <1>4, Zenon DEF Scenes
    <2> HIDE DEF keep
    <2>2. l.serves = G
      BY <2>1 DEF Launch, NoLaunch
    <2> QED
      BY <1>2, <2>2, SharedIs
  <1>5. CASE l \in Overlaid(r)
    <2>1. PICK G : l = Launch(<<"overlay", G>>, {})
      BY <1>5, Zenon DEF Overlaid, Overlays
    <2>2. l.serves = {}
      BY <2>1 DEF Launch, NoLaunch
    <2> QED
      BY <2>2
  <1> QED
    BY <1>1, <1>3, <1>4, <1>5

LEMMA HandedOverTypes ==
    ASSUME TypeOK, NEW r \in Plans, r.op = "reconcile", NEW l \in Launched(r)
    PROVE  Assignments(HandedOver(r, l))
  <1>1. l.serves \subseteq DOMAIN r.want /\ \A o \in DOMAIN r.want : r.want[o] \in DOMAIN Kind
    BY Serves, PlanIs
  <1>2. \A o \in Outputs : o # Multi /\ o \in DOMAIN assigned /\ assigned[o] \in DOMAIN Kind \cup {Blank}
    BY HandoffAssumption DEF TypeOK
  <1>3. DOMAIN HandedOver(r, l) = Outputs \cup {Multi}
    BY DEF HandedOver, TypeOK
  <1>4. ASSUME NEW o \in Outputs
        PROVE  HandedOver(r, l)[o] \in DOMAIN Kind \cup {Blank}
    BY <1>1, <1>2 DEF HandedOver
  <1> QED
    BY <1>3, <1>4 DEF Assignments

LEMMA SettledTypes ==
    ASSUME TypeOK, plan \in Plans
    PROVE  Assignments(Settled) /\ Assignments(AllAssigned(plan))
  <1>1. \A o \in DOMAIN plan.want : plan.want[o] \in DOMAIN Kind
    BY PlanIs
  <1>2. \A o \in Outputs : o # Multi /\ o \in DOMAIN assigned /\ assigned[o] \in DOMAIN Kind \cup {Blank}
    BY HandoffAssumption DEF TypeOK
  <1>3. Assignments(AllAssigned(plan))
    BY <1>1, <1>2 DEF Assignments, AllAssigned, TypeOK
  <1>4. DOMAIN assigned = Outputs \cup {Multi}
    BY DEF TypeOK
  <1>5. CASE plan.op = "reconcile"
    <2>1. DOMAIN Settled = Outputs \cup {Multi}
      BY <1>4, <1>5 DEF Settled
    <2>2. ASSUME NEW o \in Outputs
          PROVE  Settled[o] \in DOMAIN Kind \cup {Blank}
      <3>1. Settled[o] = IF o \in DOMAIN plan.want THEN plan.want[o] ELSE assigned[o]
        BY <1>2, <1>5 DEF Settled
      <3> QED
        BY <1>1, <1>2, <3>1
    <2> QED
      BY <2>1, <2>2, <1>3 DEF Assignments
  <1>6. CASE plan.op = "we"
    BY <1>1, <1>2, <1>3, <1>4, <1>6 DEF Assignments, Settled
  <1>7. CASE plan.op \notin {"reconcile", "we"}
    BY <1>3, <1>7 DEF Settled
  <1> QED
    BY <1>5, <1>6, <1>7

LEMMA StartStep ==
    ASSUME IInv, NEW q \in Requests, Start(q)
    PROVE  IInv'
  <1> DEFINE want == Only(q.want, live)
             r == [op |-> q.op, want |-> want, fill |-> q.fill, fade |-> q.fade, single |-> {}, kept |-> {},
                   fades |-> {o \in live : q.op = "reconcile" /\ q.fade /\
                                Kind[want[o]] = "static" /\ assigned[o] \notin {Blank, want[o]}},
                   same |-> {o \in live : assigned[o] = want[o]}]
  <1>1. /\ outcome # "running" /\ plan' = r /\ todo' = Program(r) /\ prior' = assigned /\ outcome' = "running"
        /\ assigned' = IF q.op \in {"static", "video"} THEN AllAssigned(r) ELSE assigned
        /\ used.requests < MaxRequests /\ used' = [used EXCEPT !.requests = @ + 1]
        /\ slot' = slot /\ marks' = marks /\ phase' = phase /\ role' = role /\ gate' = gate /\ open' = open
        /\ weRender' = weRender /\ timers' = timers /\ deferred' = deferred /\ linger' = linger
        /\ live' = live
    BY Zenon DEF Start, Idle
  <1>2. r \in Plans
    <2>1. /\ q.op \in Ops /\ q.want \in [Outputs -> DOMAIN Kind] /\ q.fill \in [Outputs -> Nat]
          /\ q.fade \in BOOLEAN
      BY HandoffAssumption
    <2>2. live \in Groups /\ live \subseteq Outputs
      BY DEF IInv, TypeOK, Groups
    <2>3. want \in [live -> DOMAIN Kind]
      BY <2>1, <2>2 DEF Only
    <2>4. want \in Wishes
      BY <2>2, <2>3 DEF Wishes
    <2> HIDE DEF want
    <2> QED
      BY <2>1, <2>2, <2>4 DEF Plans
  <1>3. r.want = want /\ r.op = q.op
    OBVIOUS
  <1> HIDE DEF r, want
  <1>4. prior = assigned /\ open = {} /\ TypeOK
    BY <1>1 DEF IInv, Resting, Idle
  <1>5. Program(r) \subseteq Instructions
    BY <1>2, ProgramIs
  <1>6. Assignments(assigned')
    <2>1. Assignments(assigned)
      BY <1>4 DEF TypeOK, Assignments
    <2>2. \A o \in DOMAIN r.want : r.want[o] \in DOMAIN Kind
      BY <1>2, PlanIs
    <2>3. \A o \in Outputs : o # Multi
      BY HandoffAssumption
    <2>4. Assignments(AllAssigned(r))
      BY <2>1, <2>2 DEF Assignments, AllAssigned
    <2> QED
      BY <1>1, <2>1, <2>4
  <1>7. TypeOK'
    <2>1. used' \in [requests : 0..MaxRequests, exits : 0..MaxExits]
      <3>1. used \in [requests : 0..MaxRequests, exits : 0..MaxExits] /\ MaxRequests \in Nat
        BY <1>4, HandoffAssumption DEF TypeOK
      <3> QED
        BY <1>1, <3>1
    <2> QED
      BY <1>1, <1>2, <1>4, <1>5, <1>6, <2>1 DEF TypeOK, Assignments
  <1>8. Resting'
    BY <1>1 DEF Resting, Idle
  <1>9. Running'
    <2>1. /\ \A i \in todo' : i \in Program(r)
          /\ open' = {} /\ prior' = prior
      BY <1>1, <1>4
    <2>2. \A i \in todo' : i.do = "spawn" => \E j \in todo' : j.do = "commit" /\ j.launch = i.launch
      BY <1>1, <1>2, ProgramIs DEF Launched
    <2> QED
      BY <1>1, <1>2, <2>1, <2>2, RunsOn
  <1>10. Transactions' /\ Once' /\ Accounted'
    BY <1>1, KeepHolders
  <1> QED
    BY <1>7, <1>8, <1>9, <1>10 DEF IInv

LEMMA SpawnStep ==
    ASSUME IInv, Spawn
    PROVE  IInv'
  <1>1. PICK i \in Reached("spawn") :
          LET l == i.launch
              taken == {s \in Taken(l) : slot[s] # Nobody}
          IN \/ \E p \in Fresh :
                  /\ \A q \in Fresh : p <= q
                  /\ slot' = [Without(taken) EXCEPT ![l.slot] = p]
                  /\ marks' = IF l.slot \in Videos
                              THEN (marks \ (Taken(l) \cup {l.slot})) \cup
                                   (IF l.scene THEN {l.slot} ELSE {})
                              ELSE marks
                  /\ open' = open \cup {[launch |-> l, pid |-> p, from |-> Only(slot, taken),
                                         marks |-> marks \cap taken]}
                  /\ phase' = [phase EXCEPT ![p] = IF l.hidden THEN "preloading" ELSE "loading"]
                  /\ role' = [role EXCEPT ![p] = l]
                  /\ Step(i)
             \/ GiveUp(l) /\ UNCHANGED <<slot, marks, open, phase, role>>
    BY Zenon DEF Spawn
  <1>2. /\ gate' = gate /\ assigned' = assigned /\ prior' = prior /\ outcome' = outcome
        /\ weRender' = weRender /\ timers' = timers /\ deferred' = deferred /\ linger' = linger
        /\ live' = live /\ used' = used
    BY DEF Spawn, quiet
  <1> DEFINE l == i.launch
             taken == {s \in Taken(l) : slot[s] # Nobody}
  <1>3. /\ i \in todo /\ i.do = "spawn" /\ ~Idle /\ plan \in Plans /\ i \in Program(plan)
        /\ l \in Launched(plan) /\ Of(l) = {} /\ Ends(l)
    BY Takes
  <1>4. l \in Launches /\ l.slot \in Slots /\ l.serves \subseteq Outputs
    <2>1. l \in Launches
      BY <1>3, ProgramIs
    <2> QED
      BY <2>1 DEF Launches
  <1>5. Taken(l) \subseteq Installed /\ (l.slot \in Videos /\ l.slot \in Slots => Taken(l) \subseteq Videos \cup {Paper})
    BY SlotKinds DEF Taken, Installed
  <1>6. TypeOK
    BY DEF IInv
  <1>7. Resting'
    BY <1>2, <1>3 DEF Resting, Idle
  <1>8. CASE GiveUp(l) /\ UNCHANGED <<slot, marks, open, phase, role>>
    <2>1. Running'
      BY <1>2, <1>3, <1>8, GivesUp DEF Of
    <2>2. plan' \in Plans /\ todo' \subseteq Instructions
      <3>1. CASE l.shared
        <4>1. plan' = [plan EXCEPT !.single = @ \cup l.serves] /\ todo' = Rest(plan')
          BY <1>8, <3>1 DEF GiveUp
        <4>2. plan' \in Plans
          BY <1>3, <1>4, <4>1 DEF Plans
        <4> QED
          BY <4>1, <4>2, ProgramIs DEF Rest
      <3>2. CASE ~l.shared
        BY <1>3, <1>8, <3>2 DEF GiveUp
      <3> QED
        BY <3>1, <3>2
    <2>3. TypeOK'
      BY <1>2, <1>6, <1>8, <2>2 DEF TypeOK
    <2>4. Transactions' /\ Once' /\ Accounted'
      BY <1>2, <1>8, KeepHolders
    <2> QED
      BY <1>7, <2>1, <2>3, <2>4 DEF IInv
  <1>9. CASE \E p \in Fresh :
                  /\ slot' = [Without(taken) EXCEPT ![l.slot] = p]
                  /\ marks' = IF l.slot \in Videos
                              THEN (marks \ (Taken(l) \cup {l.slot})) \cup
                                   (IF l.scene THEN {l.slot} ELSE {})
                              ELSE marks
                  /\ open' = open \cup {[launch |-> l, pid |-> p, from |-> Only(slot, taken),
                                         marks |-> marks \cap taken]}
                  /\ phase' = [phase EXCEPT ![p] = IF l.hidden THEN "preloading" ELSE "loading"]
                  /\ role' = [role EXCEPT ![p] = l]
                  /\ Step(i)
    <2>1. PICK p \in Fresh :
                  /\ slot' = [Without(taken) EXCEPT ![l.slot] = p]
                  /\ marks' = IF l.slot \in Videos
                              THEN (marks \ (Taken(l) \cup {l.slot})) \cup
                                   (IF l.scene THEN {l.slot} ELSE {})
                              ELSE marks
                  /\ open' = open \cup {[launch |-> l, pid |-> p, from |-> Only(slot, taken),
                                         marks |-> marks \cap taken]}
                  /\ phase' = [phase EXCEPT ![p] = IF l.hidden THEN "preloading" ELSE "loading"]
                  /\ role' = [role EXCEPT ![p] = l]
                  /\ todo' = todo \ {i} /\ plan' = plan
      BY <1>9, Zenon DEF Step
    <2> DEFINE t == [launch |-> l, pid |-> p, from |-> Only(slot, taken), marks |-> marks \cap taken]
    <2>2. p \in Pids /\ phase[p] = "free"
      BY DEF Fresh
    <2>3. t.launch = l /\ open' = open \cup {t}
      BY <2>1
    <2>4. phase' \in [Pids -> Phases] /\ phase'[p] # "free" /\ \A q \in Pids : q # p => phase'[q] = phase[q]
      BY <1>6, <2>1, <2>2 DEF TypeOK, Phases, Answering
    <2>5. Transactions' /\ Once' /\ Accounted'
      <3>1. \E u, m : /\ u = [launch |-> l, pid |-> p, from |-> Only(slot, taken), marks |-> m]
                      /\ open' = open \cup {u}
        BY <2>3
      <3>2. PICK u, m : /\ u = [launch |-> l, pid |-> p, from |-> Only(slot, taken), marks |-> m]
                        /\ open' = open \cup {u}
        BY <3>1
      <3>3. taken = {s \in Taken(l) : slot[s] # Nobody}
        OBVIOUS
      <3> HIDE DEF l, taken
      <3> QED
        BY <1>2, <1>3, <2>1, <2>2, <2>4, <3>2, <3>3, SpawnHolders
    <2>6. /\ slot' \in [Slots -> Pids \cup {Nobody}] /\ role' \in [Pids -> Launches] /\ marks' \subseteq Videos
      <3>1. Without(taken) \in [Slots -> Pids \cup {Nobody}]
        BY <1>6, EmptyTypes
      <3> QED
        BY <1>4, <1>6, <2>1, <2>2, <3>1 DEF TypeOK
    <2>7. /\ t.pid \in Pids /\ t.launch \in Launches /\ DOMAIN t.from \subseteq Installed
          /\ t.from \in [DOMAIN t.from -> Pids] /\ t.marks \subseteq Videos \cap DOMAIN t.from
      <3>1. t.from = [s \in taken |-> slot[s]] /\ t.marks = marks \cap taken /\ t.pid = p
        BY DEF Only
      <3>2. \A s \in taken : s \in Installed /\ slot[s] \in Pids
        BY <1>5, <1>6, SlotKinds DEF TypeOK
      <3> QED
        BY <1>4, <1>6, <2>2, <2>3, <3>1, <3>2 DEF TypeOK
    <2> HIDE DEF t, taken
    <2>8. TypeOK'
      <3>1. todo' \subseteq Instructions /\ plan' \in Plans
        BY <1>3, <1>6, <2>1 DEF TypeOK
      <3> QED
        BY <1>2, <1>6, <2>3, <2>4, <2>6, <2>7, <3>1 DEF TypeOK
    <2>9. Running'
      <3>0. /\ \A j \in todo : OnPlan(j)
            /\ \A u \in open : u.launch \in Launched(plan) /\ u.launch # l
            /\ \A u \in open : Ends(u.launch)
            /\ \A j \in todo : j.do = "spawn" => Of(j.launch) = {} /\ Ends(j.launch)
        BY <1>3 DEF IInv, Running, Of
      <3>1. \A j \in todo' : \/ j \in Program(plan)
                             \/ j.do = "answer" /\ [j EXCEPT !.do = "reveal"] \in Program(plan)
        BY <2>1, <3>0, Zenon DEF OnPlan
      <3>2. \A u \in open' : u.launch \in Launched(plan)
        BY <1>3, <2>3, <3>0
      <3>3. \A u \in open' : \E j \in todo' : j.do = "commit" /\ j.launch = u.launch
        <4>1. \A u \in open' : Ends(u.launch)
          BY <1>3, <2>3, <3>0
        <4> QED
          BY <1>3, <2>1, <4>1 DEF Ends
      <3>4. \A j \in todo' : j.do = "spawn" =>
                /\ \A u \in open' : u.launch # j.launch
                /\ \E k \in todo' : k.do = "commit" /\ k.launch = j.launch
        <4>1. SUFFICES ASSUME NEW j \in todo', j.do = "spawn"
                       PROVE  /\ \A u \in open' : u.launch # j.launch
                              /\ \E k \in todo' : k.do = "commit" /\ k.launch = j.launch
          OBVIOUS
        <4>2. j \in Program(plan) /\ j # i
          BY <2>1, <3>1, <4>1
        <4>3. j.launch # l
          BY <1>3, <4>1, <4>2, ProgramIs
        <4>4. Of(j.launch) = {} /\ Ends(j.launch)
          BY <2>1, <3>0, <4>1
        <4> QED
          BY <1>3, <2>1, <2>3, <4>3, <4>4 DEF Of, Ends
      <3> QED
        BY <1>2, <1>3, <2>1, <3>1, <3>2, <3>3, <3>4, RunsOn
    <2> QED
      BY <1>7, <2>5, <2>8, <2>9 DEF IInv
  <1> QED
    BY <1>1, <1>8, <1>9, Zenon

LEMMA ReuseStep ==
    ASSUME IInv, Reuse
    PROVE  IInv'
  <1>1. PICK i \in Reached("spawn") :
          LET l == i.launch
              together == {j.launch : j \in {k \in todo : k.launch.keep = l.keep}}
          IN /\ l.keep # {} /\ \A s \in l.keep : Alive(s) /\ (s \in marks <=> l.scene)
             /\ \A t \in open : t.launch.keep # l.keep
             /\ \/ /\ todo' = {j \in todo : j.launch \notin together}
                   /\ plan' = [plan EXCEPT !.kept = @ \cup together]
                   /\ assigned' = IF plan.op = "reconcile" THEN HandedOver(plan, l) ELSE assigned
                \/ plan.op \in {"video", "we"} /\ GiveUp(l) /\ UNCHANGED assigned
    BY Zenon DEF Reuse
  <1>2. /\ slot' = slot /\ marks' = marks /\ phase' = phase /\ role' = role /\ gate' = gate
        /\ open' = open /\ prior' = prior /\ outcome' = outcome
        /\ weRender' = weRender /\ timers' = timers /\ deferred' = deferred /\ linger' = linger
        /\ live' = live /\ used' = used
    BY Zenon DEF Reuse, quiet
  <1> DEFINE l == i.launch
             together == {j.launch : j \in {k \in todo : k.launch.keep = l.keep}}
  <1>3. /\ i \in todo /\ ~Idle /\ plan \in Plans /\ l \in Launched(plan) /\ Of(l) = {}
    BY Takes
  <1>4. TypeOK
    BY DEF IInv
  <1>5. Resting'
    BY <1>2, <1>3 DEF Resting, Idle
  <1>6. Transactions' /\ Once' /\ Accounted'
    BY <1>2, KeepHolders
  <1>7. CASE /\ todo' = {j \in todo : j.launch \notin together}
             /\ plan' = [plan EXCEPT !.kept = @ \cup together]
             /\ assigned' = IF plan.op = "reconcile" THEN HandedOver(plan, l) ELSE assigned
    <2>1. together \subseteq Launches
      BY <1>4 DEF TypeOK, Instructions
    <2>2. \A j \in todo : j.launch \in together <=> j.launch.keep = l.keep
      OBVIOUS
    <2> HIDE DEF together
    <2>3. /\ plan' \in Plans
          /\ plan'.op = plan.op /\ plan'.want = plan.want /\ plan'.fill = plan.fill
          /\ plan'.fade = plan.fade /\ plan'.single = plan.single /\ plan'.fades = plan.fades
          /\ plan'.same = plan.same
      BY <1>3, <1>7, <2>1 DEF Plans
    <2>4. Program(plan') = Program(plan)
      <3>1. ASSUME NEW s, s.op = plan.op, s.want = plan.want, s.fill = plan.fill,
                   s.fade = plan.fade, s.single = plan.single, s.fades = plan.fades,
                   s.same = plan.same
            PROVE  Program(s) = Program(plan)
        BY <3>1, SameProgram
      <3> QED
        BY <2>3, <3>1
    <2>5. Assignments(assigned')
      <3>1. Assignments(assigned)
        BY <1>4 DEF TypeOK, Assignments
      <3> QED
        BY <1>3, <1>4, <1>7, <3>1, HandedOverTypes
    <2>6. todo' \subseteq todo
      BY <1>7
    <2>7. TypeOK'
      BY <1>2, <1>4, <2>3, <2>5, <2>6 DEF TypeOK, Assignments
    <2>8. Running'
      <3>1. \A t \in open : t.launch.keep # l.keep
        BY <1>1
      <3>2. ASSUME NEW j \in todo, \/ \E t \in open' : t.launch = j.launch
                                   \/ \E k \in todo' : k.launch = j.launch
            PROVE  j \in todo'
        BY <1>2, <1>7, <2>2, <3>1, <3>2
      <3> QED
        BY <1>2, <1>3, <2>3, <2>4, <2>6, <3>2, Goes
    <2> QED
      BY <1>5, <1>6, <2>7, <2>8 DEF IInv
  <1>8. CASE plan.op \in {"video", "we"} /\ GiveUp(l) /\ UNCHANGED assigned
    <2>1. Running'
      BY <1>2, <1>3, <1>8, GivesUp DEF Of
    <2>2. plan' = plan /\ todo' = {}
      <3>1. plan.op # "reconcile"
        BY <1>8
      <3>2. ~l.shared
        BY <1>3, <3>1, SharedOnly
      <3> QED
        BY <1>8, <3>2 DEF GiveUp
    <2>3. TypeOK'
      BY <1>2, <1>4, <1>8, <2>2 DEF TypeOK
    <2> QED
      BY <1>5, <1>6, <2>1, <2>3 DEF IInv
  <1> QED
    BY <1>1, <1>7, <1>8, Zenon

LEMMA WaitStep ==
    ASSUME IInv, Wait
    PROVE  IInv'
  <1>1. PICK i \in Reached("wait") \cup Reached("answer") : \E t \in Of(i.launch) :
          \/ /\ gate[t.pid] = "ok" /\ CandidateAlive(t) /\ Step(i)
             /\ gate' = [gate EXCEPT ![t.pid] = "none"] /\ UNCHANGED <<slot, marks, phase, role, open>>
          \/ /\ Unready(t.pid) \/ CandidateGone(t)
             /\ IF i.do = "wait" /\ t.launch.shared THEN GiveUp(t.launch) /\ Undo(t)
                ELSE /\ todo' = {} /\ gate' = [gate EXCEPT ![t.pid] = "none"]
                     /\ UNCHANGED <<plan, slot, marks, phase, role, open>>
    BY Zenon DEF Wait
  <1>2. PICK t \in Of(i.launch) :
          \/ /\ gate[t.pid] = "ok" /\ CandidateAlive(t) /\ Step(i)
             /\ gate' = [gate EXCEPT ![t.pid] = "none"] /\ UNCHANGED <<slot, marks, phase, role, open>>
          \/ /\ Unready(t.pid) \/ CandidateGone(t)
             /\ IF i.do = "wait" /\ t.launch.shared THEN GiveUp(t.launch) /\ Undo(t)
                ELSE /\ todo' = {} /\ gate' = [gate EXCEPT ![t.pid] = "none"]
                     /\ UNCHANGED <<plan, slot, marks, phase, role, open>>
    BY <1>1, Zenon
  <1>3. /\ assigned' = assigned /\ prior' = prior /\ outcome' = outcome
        /\ weRender' = weRender /\ timers' = timers /\ deferred' = deferred /\ linger' = linger
        /\ live' = live /\ used' = used
    BY Zenon DEF Wait, quiet
  <1>4. /\ i \in todo /\ i.do \in {"wait", "answer"} /\ ~Idle /\ plan \in Plans
        /\ t \in open /\ t.launch = i.launch /\ t.launch \in Launched(plan) /\ TypeOK
    <2>1. /\ i \in todo /\ i.do \in {"wait", "answer"} /\ ~Idle /\ plan \in Plans
      BY Takes
    <2> QED
      BY <2>1 DEF Of, IInv, Running
  <1>5. Resting'
    BY <1>3, <1>4 DEF Resting, Idle
  <1>6. CASE /\ todo' \in {todo \ {i}, {}} /\ plan' = plan /\ gate' = [gate EXCEPT ![t.pid] = "none"]
             /\ slot' = slot /\ marks' = marks /\ phase' = phase /\ role' = role /\ open' = open
    <2>1. TypeOK'
      BY <1>3, <1>4, <1>6 DEF TypeOK
    <2>2. Running'
      BY <1>3, <1>4, <1>6, Goes
    <2>3. Transactions' /\ Once' /\ Accounted'
      BY <1>3, <1>6, KeepHolders
    <2> QED
      BY <1>5, <2>1, <2>2, <2>3 DEF IInv
  <1>7. CASE t.launch.shared /\ GiveUp(t.launch) /\ Undo(t)
    <2>1. Transactions' /\ Once' /\ Accounted'
      BY <1>3, <1>4, <1>7, UndoHolders
    <2>2. open' = open \ {t}
      BY <1>7 DEF Undo
    <2>3. \A u \in open' : u.launch # t.launch
      BY <1>4, <2>2 DEF IInv, Transactions
    <2>4. Running'
      BY <1>3, <1>4, <1>7, <2>2, <2>3, GivesUp
    <2>5. plan' \in Plans /\ todo' \subseteq Instructions
      <3>1. plan' = [plan EXCEPT !.single = @ \cup t.launch.serves] /\ todo' = Rest(plan')
        BY <1>7 DEF GiveUp
      <3>2. t.launch.serves \subseteq Outputs
        BY <1>4 DEF TypeOK, Launches
      <3>3. plan' \in Plans
        BY <1>4, <3>1, <3>2 DEF Plans
      <3> QED
        BY <3>1, <3>3, ProgramIs DEF Rest
    <2>6. TypeOK'
      <3>1. phase' \in [Pids -> Phases] /\ role' \in [Pids -> Launches]
        BY <1>4, <1>7, KillTypes DEF Undo
      <3>2. slot' \in [Slots -> Pids \cup {Nobody}] /\ marks' \subseteq Videos
        BY <1>4, <1>7, UndoTypes
      <3>3. gate' \in [Pids -> {"none", "ok", "err"}]
        BY <1>4, <1>7 DEF Undo, TypeOK
      <3> QED
        BY <1>3, <1>4, <2>2, <2>5, <3>1, <3>2, <3>3 DEF TypeOK
    <2> QED
      BY <1>5, <2>1, <2>4, <2>6 DEF IInv
  <1> QED
    BY <1>2, <1>6, <1>7 DEF Step

LEMMA RevealStep ==
    ASSUME IInv, Reveal
    PROVE  IInv'
  <1>1. PICK i \in Reached("reveal") : \E t \in Of(i.launch) :
          \/ ~t.launch.hidden /\ Step(i) /\ UNCHANGED <<gate, phase>>
          \/ /\ t.launch.hidden /\ gate' = [gate EXCEPT ![t.pid] = "none"]
             /\ \/ /\ slot[t.launch.slot] = t.pid
                   /\ phase' = [phase EXCEPT ![t.pid] = IF @ = "hidden" THEN "revealing" ELSE @]
                   /\ todo' = (todo \ {i}) \cup {[i EXCEPT !.do = "answer"]} /\ UNCHANGED plan
                \/ todo' = {} /\ UNCHANGED <<plan, phase>>
    BY Zenon DEF Reveal
  <1>2. PICK t \in Of(i.launch) :
          \/ ~t.launch.hidden /\ Step(i) /\ UNCHANGED <<gate, phase>>
          \/ /\ t.launch.hidden /\ gate' = [gate EXCEPT ![t.pid] = "none"]
             /\ \/ /\ slot[t.launch.slot] = t.pid
                   /\ phase' = [phase EXCEPT ![t.pid] = IF @ = "hidden" THEN "revealing" ELSE @]
                   /\ todo' = (todo \ {i}) \cup {[i EXCEPT !.do = "answer"]} /\ UNCHANGED plan
                \/ todo' = {} /\ UNCHANGED <<plan, phase>>
    BY <1>1, Zenon
  <1>3. /\ slot' = slot /\ marks' = marks /\ role' = role /\ open' = open
        /\ assigned' = assigned /\ prior' = prior /\ outcome' = outcome
        /\ weRender' = weRender /\ timers' = timers /\ deferred' = deferred /\ linger' = linger
        /\ live' = live /\ used' = used
    BY Zenon DEF Reveal, quiet
  <1>4. /\ i \in todo /\ i.do = "reveal" /\ ~Idle /\ plan \in Plans /\ i \in Program(plan) /\ TypeOK
        /\ i \in Instructions
    BY Takes DEF IInv, TypeOK
  <1>5. Resting'
    BY <1>3, <1>4 DEF Resting, Idle
  <1>6. /\ gate' \in [Pids -> {"none", "ok", "err"}] /\ phase' \in [Pids -> Phases]
        /\ \A p \in Pids : phase'[p] = "free" <=> phase[p] = "free"
    BY <1>2, <1>4 DEF TypeOK, Phases, Answering
  <1>7. Transactions' /\ Once' /\ Accounted'
    BY <1>3, <1>6, KeepHolders
  <1>8. CASE todo' \in {todo \ {i}, {}} /\ plan' = plan
    <2>1. TypeOK'
      BY <1>3, <1>4, <1>6, <1>8 DEF TypeOK
    <2>2. Running'
      BY <1>3, <1>4, <1>8, Goes
    <2> QED
      BY <1>5, <1>7, <2>1, <2>2 DEF IInv
  <1>9. CASE todo' = (todo \ {i}) \cup {[i EXCEPT !.do = "answer"]} /\ plan' = plan
    <2> DEFINE a == [i EXCEPT !.do = "answer"]
    <2>1. a \in Instructions /\ a.do = "answer" /\ a.launch = i.launch /\ [a EXCEPT !.do = "reveal"] = i
      BY <1>4 DEF Instructions
    <2>2. todo' = (todo \ {i}) \cup {a}
      BY <1>9
    <2> HIDE DEF a
    <2>3. TypeOK'
      BY <1>3, <1>4, <1>6, <1>9, <2>1, <2>2 DEF TypeOK
    <2>4. Running'
      <3>0. /\ \A j \in todo : OnPlan(j)
            /\ \A u \in open : u.launch \in Launched(plan)
            /\ \A u \in open : Ends(u.launch)
            /\ \A j \in todo : j.do = "spawn" => Of(j.launch) = {} /\ Ends(j.launch)
        BY <1>4 DEF IInv, Running
      <3>1. \A j \in todo' : \/ j \in Program(plan)
                             \/ j.do = "answer" /\ [j EXCEPT !.do = "reveal"] \in Program(plan)
        BY <1>4, <2>1, <2>2, <3>0, Zenon DEF OnPlan
      <3>2. \A l : Ends(l) => \E j \in todo' : j.do = "commit" /\ j.launch = l
        BY <1>4, <2>2 DEF Ends
      <3>3. \A j \in todo' : j.do = "spawn" => j \in todo
        BY <2>1, <2>2
      <3> QED
        BY <1>3, <1>4, <1>9, <3>0, <3>1, <3>2, <3>3, RunsOn DEF Of
    <2> QED
      BY <1>5, <1>7, <2>3, <2>4 DEF IInv
  <1> QED
    BY <1>2, <1>8, <1>9 DEF Step

LEMMA PrepareStep ==
    ASSUME IInv, Prepare
    PROVE  IInv'
  <1>1. PICK i \in Reached("prepare") \cup Reached("start") : \E t \in Of(i.launch) :
          \/ CandidateAlive(t) /\ Step(i)
          \/ /\ CandidateGone(t) \/ i.do = "start"
             /\ todo' = {} /\ UNCHANGED plan
    BY Zenon DEF Prepare
  <1>2. todo' \in {todo \ {i}, {}} /\ plan' = plan
    BY <1>1 DEF Step
  <1>3. /\ slot' = slot /\ marks' = marks /\ phase' = phase /\ role' = role /\ gate' = gate
        /\ open' = open /\ assigned' = assigned /\ prior' = prior /\ outcome' = outcome
        /\ weRender' = weRender /\ timers' = timers /\ deferred' = deferred /\ linger' = linger
        /\ live' = live /\ used' = used
    BY Zenon DEF Prepare, quiet
  <1>4. i \in todo /\ i.do \in {"prepare", "start"} /\ ~Idle /\ plan \in Plans /\ TypeOK
    BY Takes DEF IInv
  <1>5. Resting'
    BY <1>3, <1>4 DEF Resting, Idle
  <1>6. TypeOK'
    BY <1>2, <1>3, <1>4 DEF TypeOK
  <1>7. Running'
    BY <1>2, <1>3, <1>4, Goes
  <1>8. Transactions' /\ Once' /\ Accounted'
    BY <1>3, KeepHolders
  <1> QED
    BY <1>5, <1>6, <1>7, <1>8 DEF IInv

LEMMA CommitStep ==
    ASSUME IInv, Commit
    PROVE  IInv'
  <1>0. PICK i \in Reached("commit") : \E t \in Of(i.launch) :
          /\ open' = open \ {t}
          /\ Kill(Range(t.from))
          /\ IF t.launch.slot \in Installed THEN UNCHANGED <<slot, linger>>
             ELSE slot' = Without({t.launch.slot}) /\ linger' = linger \cup {t.pid}
          /\ assigned' = IF plan.op = "reconcile" THEN HandedOver(plan, t.launch) ELSE assigned
          /\ Step(i)
    BY Zenon DEF Commit
  <1>1. PICK t \in Of(i.launch) :
          /\ open' = open \ {t}
          /\ Kill(Range(t.from))
          /\ IF t.launch.slot \in Installed THEN UNCHANGED <<slot, linger>>
             ELSE slot' = Without({t.launch.slot}) /\ linger' = linger \cup {t.pid}
          /\ assigned' = IF plan.op = "reconcile" THEN HandedOver(plan, t.launch) ELSE assigned
          /\ Step(i)
    BY <1>0, Zenon
  <1>2. /\ marks' = marks /\ gate' = gate /\ prior' = prior /\ outcome' = outcome
        /\ weRender' = weRender /\ timers' = timers /\ deferred' = deferred
        /\ live' = live /\ used' = used
    BY Zenon DEF Commit
  <1>3. /\ i \in todo /\ i.do = "commit" /\ ~Idle /\ plan \in Plans
        /\ t \in open /\ t.launch = i.launch /\ t.launch \in Launched(plan) /\ TypeOK
    <2>1. i \in todo /\ i.do = "commit" /\ ~Idle /\ plan \in Plans
      BY Takes
    <2> QED
      BY <2>1 DEF Of, IInv, Running
  <1>4. Resting'
    BY <1>2, <1>3 DEF Resting, Idle
  <1>5. todo' = todo \ {i} /\ plan' = plan
    BY <1>1 DEF Step
  <1>6. TypeOK'
    <2>1. phase' \in [Pids -> Phases] /\ role' \in [Pids -> Launches]
      BY <1>1, <1>3, KillTypes
    <2>2. slot' \in [Slots -> Pids \cup {Nobody}] /\ linger' \subseteq Pids
      BY <1>1, <1>3, EmptyTypes DEF TypeOK
    <2>3. Assignments(assigned')
      <3>1. Assignments(assigned)
        BY <1>3 DEF TypeOK, Assignments
      <3> QED
        BY <1>1, <1>3, <3>1, HandedOverTypes
    <2> QED
      BY <1>1, <1>2, <1>3, <1>5, <2>1, <2>2, <2>3 DEF TypeOK, Assignments
  <1>7. Running'
    <2>1. ASSUME NEW j \in todo, \/ \E u \in open' : u.launch = j.launch
                                 \/ \E k \in todo' : k.do = "spawn" /\ k.launch = j.launch
          PROVE  j \in todo'
      <3>1. j # i
        <4>1. \A u \in open' : u.launch # i.launch
          BY <1>1, <1>3 DEF IInv, Transactions
        <4>2. \A k \in todo' : k.do = "spawn" => k.launch # i.launch
          BY <1>3, <1>5 DEF IInv, Running, Of
        <4> QED
          BY <2>1, <4>1, <4>2
      <3> QED
        BY <1>5, <3>1
    <2> QED
      BY <1>1, <1>2, <1>3, <1>5, <2>1, Goes
  <1>8. Transactions' /\ Once' /\ Accounted'
    BY <1>1, <1>2, <1>3, CommitHolders
  <1> QED
    BY <1>4, <1>6, <1>7, <1>8 DEF IInv

LEMMA DropStep ==
    ASSUME IInv, Drop
    PROVE  IInv'
  <1>1. PICK t \in open : Undo(t)
    BY Zenon DEF Drop
  <1>2. /\ outcome = "running" /\ todo = {} /\ assigned' = assigned /\ plan' = plan /\ todo' = todo
        /\ prior' = prior /\ outcome' = outcome /\ weRender' = weRender /\ timers' = timers
        /\ deferred' = deferred /\ linger' = linger /\ live' = live /\ used' = used
    BY Zenon DEF Drop, quiet
  <1>3. ~Idle /\ plan \in Plans /\ TypeOK /\ open' \subseteq open
    BY <1>1, <1>2 DEF Idle, IInv, Running, Undo
  <1>4. Resting'
    BY <1>2 DEF Resting, Idle
  <1>5. TypeOK'
    <2>1. phase' \in [Pids -> Phases] /\ role' \in [Pids -> Launches]
      BY <1>1, <1>3, KillTypes DEF Undo
    <2>2. slot' \in [Slots -> Pids \cup {Nobody}] /\ marks' \subseteq Videos
      BY <1>1, <1>3, UndoTypes
    <2>3. gate' \in [Pids -> {"none", "ok", "err"}]
      BY <1>1, <1>3 DEF Undo, TypeOK
    <2> QED
      BY <1>2, <1>3, <2>1, <2>2, <2>3 DEF TypeOK
  <1>6. Running'
    BY <1>2, <1>3, Goes
  <1>7. Transactions' /\ Once' /\ Accounted'
    BY <1>1, <1>2, UndoHolders
  <1> QED
    BY <1>4, <1>5, <1>6, <1>7 DEF IInv

LEMMA FailStep ==
    ASSUME IInv, Fail
    PROVE  IInv'
  <1>1. /\ outcome = "running" /\ todo = {} /\ open = {} /\ outcome' = "error" /\ plan' = NoPlan
        /\ assigned' = (IF plan.op \in {"static", "video"} THEN prior ELSE assigned)
        /\ prior' = assigned'
        /\ slot' = slot /\ marks' = marks /\ phase' = phase /\ role' = role /\ gate' = gate
        /\ open' = open /\ todo' = todo
        /\ weRender' = weRender /\ timers' = timers /\ deferred' = deferred /\ linger' = linger
        /\ live' = live /\ used' = used
    BY Zenon DEF Fail, quiet
  <1>2. TypeOK
    BY DEF IInv
  <1>3. Assignments(assigned')
    BY <1>1, <1>2 DEF TypeOK, Assignments
  <1>4. TypeOK'
    BY <1>1, <1>2, <1>3 DEF TypeOK, Assignments
  <1>5. Resting' /\ Running'
    BY <1>1 DEF Resting, Running, Idle
  <1>6. Transactions' /\ Once' /\ Accounted'
    BY <1>1, KeepHolders
  <1> QED
    BY <1>4, <1>5, <1>6 DEF IInv

\* The end of a program comes when every transaction is committed.
LEMMA TailIsLast ==
    ASSUME IInv, Reached("tail") # {}
    PROVE  open = {} /\ outcome = "running" /\ plan \in Plans
  <1>1. PICK i \in Reached("tail") : TRUE
    OBVIOUS
  <1>2. i \in todo /\ i.do = "tail" /\ ~Idle /\ plan \in Plans /\ i \in Program(plan)
    BY Takes
  <1>3. i.stage = LastStage /\ \A j \in Program(plan) : j.do = "commit" => j.stage < LastStage
    BY <1>2, ProgramIs
  <1>4. \A j \in todo : j.do = "commit" => FALSE
    <2>1. SUFFICES ASSUME NEW j \in todo, j.do = "commit" PROVE FALSE
      OBVIOUS
    <2>2. j \in Program(plan)
      BY <1>2, <2>1 DEF IInv, Running, OnPlan
    <2>3. j.stage \in Nat /\ j.stage < LastStage
      BY <1>3, <2>1, <2>2 DEF IInv, TypeOK, Instructions
    <2>4. Before(i, j)
      BY <1>1, <1>2, <2>1 DEF Reached
    <2>5. i.stage <= j.stage
      BY <1>3, <2>3, <2>4 DEF Before, LastStage
    <2> QED
      BY <1>3, <2>3, <2>5 DEF LastStage
  <1> QED
    BY <1>2, <1>4 DEF IInv, Running, Ends, Idle

LEMMA TidyStep ==
    ASSUME IInv, Tidy
    PROVE  IInv'
  <1>1. open = {} /\ outcome = "running" /\ plan \in Plans /\ TypeOK
    BY TailIsLast DEF Tidy, IInv
  <1>2. /\ slot' = Without(Emptied(plan)) /\ marks' = marks \ Emptied(plan)
        /\ Kill(In(Emptied(plan) \ Deferred(plan)))
        /\ deferred' = deferred \cup In(Deferred(plan))
        /\ timers' = timers \cup In({Paper} \cap Keeps(plan))
        /\ weRender' = (IF plan.op \in {"reconcile", "we"} THEN WeGroups(plan) ELSE {})
        /\ assigned' = Settled
        /\ outcome' = "ok" /\ todo' = {} /\ plan' = NoPlan /\ prior' = assigned'
        /\ gate' = gate /\ open' = open /\ linger' = linger /\ live' = live /\ used' = used
    BY Zenon DEF Tidy
  <1>3. Emptied(plan) \subseteq Installed /\ Deferred(plan) \subseteq Emptied(plan)
    <2>1. Emptied(plan) \subseteq Installed
      BY DEF Emptied
    <2>2. Deferred(plan) \in {Emptied(plan), Emptied(plan) \cap (Stills \cup {Base}), {}}
      BY DEF Deferred
    <2> QED
      BY <2>1, <2>2
  <1>4. Transactions' /\ Once' /\ Accounted'
    BY <1>2, <1>3, EmptyHolders
  <1>5. TypeOK'
    <2>1. \A S \in SUBSET Slots : In(S) \subseteq Pids
      BY <1>1 DEF In, TypeOK
    <2>2. In(Deferred(plan)) \subseteq Pids /\ In({Paper} \cap Keeps(plan)) \subseteq Pids
      BY <1>3, <2>1, SlotKinds
    <2>3. WeGroups(plan) \subseteq Outputs \X DOMAIN Kind
      <3>1. /\ \A o \in Wanting(plan, "we") : o \in DOMAIN plan.want
            /\ \A o \in DOMAIN plan.want : plan.want[o] \in DOMAIN Kind /\ o \in Outputs
        BY <1>1, PlanIs
      <3> QED
        BY <3>1 DEF WeGroups
    <2>4. phase' \in [Pids -> Phases] /\ role' \in [Pids -> Launches]
      BY <1>1, <1>2, KillTypes
    <2>5. slot' \in [Slots -> Pids \cup {Nobody}]
      BY <1>1, <1>2, EmptyTypes
    <2>6. Assignments(assigned')
      BY <1>1, <1>2, SettledTypes
    <2>7. weRender' \subseteq Outputs \X DOMAIN Kind
      BY <1>2, <2>3
    <2> HIDE DEF Assignments
    <2>8. /\ DOMAIN assigned' = Outputs \cup {Multi} /\ DOMAIN prior' = DOMAIN assigned'
          /\ \A o \in Outputs : {assigned'[o], prior'[o]} \subseteq DOMAIN Kind \cup {Blank}
      BY <1>2, <2>6 DEF Assignments
    <2> QED
      BY <1>1, <1>2, <2>2, <2>4, <2>5, <2>7, <2>8 DEF TypeOK
  <1>6. Resting' /\ Running'
    BY <1>1, <1>2 DEF Resting, Running, Idle
  <1> QED
    BY <1>4, <1>5, <1>6 DEF IInv

\* Nothing happens to the request.
LEMMA Unmoved ==
    ASSUME IInv, assigned' = assigned, open' = open, plan' = plan, todo' = todo, prior' = prior,
           outcome' = outcome, weRender' = weRender
    PROVE  Resting' /\ Running'
  <1>1. Resting'
    BY DEF IInv, Resting, Idle
  <1>2. CASE Idle
    <2>1. Idle'
      BY <1>2 DEF Idle
    <2> QED
      BY <1>1, <2>1, Zenon DEF Running
  <1>3. CASE ~Idle
    <2>1. plan' \in Plans /\ Program(plan') = Program(plan) /\ todo' \subseteq todo /\ open' \subseteq open
      BY <1>3 DEF IInv, Running
    <2>2. \A j \in todo : j \in todo'
      OBVIOUS
    <2> QED
      BY <1>1, <1>3, <2>1, <2>2, Goes
  <1> QED
    BY <1>2, <1>3

LEMMA SignalStep ==
    ASSUME IInv, NEW p \in Pids, NEW result \in {"ok", "err"}, Signal(p, result)
    PROVE  IInv'
  <1>1. /\ phase[p] \in Answering
        /\ gate' = [gate EXCEPT ![p] = IF @ = "none" THEN result ELSE @]
        /\ phase' = [phase EXCEPT ![p] = IF result = "err" THEN "broken"
                                         ELSE IF @ = "preloading" THEN "hidden" ELSE "up"]
        /\ slot' = slot /\ marks' = marks /\ assigned' = assigned /\ open' = open /\ plan' = plan
        /\ todo' = todo /\ prior' = prior /\ outcome' = outcome /\ role' = role
        /\ weRender' = weRender /\ timers' = timers /\ deferred' = deferred /\ linger' = linger
        /\ live' = live /\ used' = used
    BY Zenon DEF Signal, program, quiet
  <1>2. /\ gate' \in [Pids -> {"none", "ok", "err"}] /\ phase' \in [Pids -> Phases]
        /\ \A q \in Pids : phase'[q] = "free" <=> phase[q] = "free"
    BY <1>1 DEF IInv, TypeOK, Phases, Answering
  <1>3. TypeOK'
    BY <1>1, <1>2 DEF IInv, TypeOK
  <1>4. Resting' /\ Running'
    BY <1>1, Unmoved
  <1>5. Transactions' /\ Once' /\ Accounted'
    BY <1>1, <1>2, KeepHolders
  <1> QED
    BY <1>3, <1>4, <1>5 DEF IInv

LEMMA ExitStep ==
    ASSUME IInv, NEW p \in Pids, Exit(p)
    PROVE  IInv'
  <1>1. /\ phase[p] \notin {"free", "dead"} /\ used.exits < MaxExits
        /\ used' = [used EXCEPT !.exits = @ + 1] /\ phase' = [phase EXCEPT ![p] = "dead"]
        /\ slot' = slot /\ marks' = marks /\ assigned' = assigned /\ open' = open /\ plan' = plan
        /\ todo' = todo /\ prior' = prior /\ outcome' = outcome /\ role' = role /\ gate' = gate
        /\ weRender' = weRender /\ timers' = timers /\ deferred' = deferred /\ linger' = linger
        /\ live' = live
    BY Zenon DEF Exit, program
  <1>2. /\ phase' \in [Pids -> Phases]
        /\ \A q \in Pids : phase'[q] = "free" <=> phase[q] = "free"
    BY <1>1 DEF IInv, TypeOK, Phases, Answering
  <1>3. used' \in [requests : 0..MaxRequests, exits : 0..MaxExits]
    <2>1. used \in [requests : 0..MaxRequests, exits : 0..MaxExits] /\ MaxExits \in Nat
      BY HandoffAssumption DEF IInv, TypeOK
    <2> QED
      BY <1>1, <2>1
  <1>4. TypeOK'
    BY <1>1, <1>2, <1>3 DEF IInv, TypeOK
  <1>5. Resting' /\ Running'
    BY <1>1, Unmoved
  <1>6. Transactions' /\ Once' /\ Accounted'
    BY <1>1, <1>2, KeepHolders
  <1> QED
    BY <1>4, <1>5, <1>6 DEF IInv

\* Slots are emptied and their processes killed at once, and nothing else happens.
LEMMA Collected ==
    ASSUME IInv, NEW S \in SUBSET Installed, slot' = Without(S), Kill(In(S)),
           marks' \subseteq marks, timers' \subseteq timers, assigned' = assigned, gate' = gate,
           open' = open, plan' = plan, todo' = todo, prior' = prior, outcome' = outcome,
           weRender' = weRender, deferred' = deferred, linger' = linger, live' = live, used' = used
    PROVE  IInv'
  <1>1. TypeOK
    BY DEF IInv
  <1>2. phase' \in [Pids -> Phases] /\ role' \in [Pids -> Launches]
    BY <1>1, KillTypes
  <1>3. slot' \in [Slots -> Pids \cup {Nobody}]
    BY <1>1, EmptyTypes
  <1>4. TypeOK'
    BY <1>1, <1>2, <1>3 DEF TypeOK
  <1>5. Resting' /\ Running'
    BY Unmoved
  <1>6. Transactions' /\ Once' /\ Accounted'
    <2>1. {} \in SUBSET S /\ S \ {} = S
      OBVIOUS
    <2>2. Kill(In(S \ {}))
      BY <2>1
    <2>3. deferred' = deferred \cup In({})
      BY DEF In
    <2> QED
      BY <2>1, <2>2, <2>3, EmptyHolders
  <1> QED
    BY <1>4, <1>5, <1>6 DEF IInv

LEMMA ReapStep ==
    ASSUME IInv, Reap
    PROVE  IInv'
  <1>1. PICK S \in {{Paper}, Installed} :
          LET exited == {s \in S : slot[s] # Nobody /\ ~Alive(s)} IN
          slot' = Without(exited) /\ marks' = marks \ exited /\ Kill(In(exited))
    BY Zenon DEF Reap
  <1> DEFINE exited == {s \in S : slot[s] # Nobody /\ ~Alive(s)}
  <1>2. /\ slot' = Without(exited) /\ marks' = marks \ exited /\ Kill(In(exited))
        /\ exited \in SUBSET Installed
    BY <1>1, SlotKinds
  <1>3. /\ assigned' = assigned /\ gate' = gate /\ open' = open /\ plan' = plan /\ todo' = todo
        /\ prior' = prior /\ outcome' = outcome /\ weRender' = weRender /\ timers' = timers
        /\ deferred' = deferred /\ linger' = linger /\ live' = live /\ used' = used
    BY Zenon DEF Reap, quiet
  <1> HIDE DEF exited
  <1> QED
    BY <1>2, <1>3, Collected

LEMMA RetirePaperStep ==
    ASSUME IInv, NEW p \in Pids, RetirePaper(p)
    PROVE  IInv'
  <1>1. /\ timers' = timers \ {p}
        /\ IF slot[Paper] = p THEN slot' = Without({Paper}) /\ Kill({p})
           ELSE slot' = slot /\ phase' = phase /\ role' = role
        /\ marks' = marks /\ assigned' = assigned /\ gate' = gate /\ open' = open /\ plan' = plan
        /\ todo' = todo /\ prior' = prior /\ outcome' = outcome /\ weRender' = weRender
        /\ deferred' = deferred /\ linger' = linger /\ live' = live /\ used' = used
    BY Zenon DEF RetirePaper
  <1>2. CASE slot[Paper] = p
    <2>1. In({Paper}) = {p} /\ {Paper} \in SUBSET Installed
      BY <1>2, NobodyIs, SlotKinds DEF In
    <2> QED
      BY <1>1, <1>2, <2>1, Collected
  <1>3. CASE slot[Paper] # p
    <2>1. TypeOK'
      BY <1>1, <1>3 DEF IInv, TypeOK
    <2>2. Resting' /\ Running'
      BY <1>1, Unmoved
    <2>3. Transactions' /\ Once' /\ Accounted'
      BY <1>1, <1>3, KeepHolders
    <2> QED
      BY <2>1, <2>2, <2>3 DEF IInv
  <1> QED
    BY <1>2, <1>3

LEMMA ReleaseStep ==
    ASSUME IInv, NEW p \in Pids, ReleaseDeferred(p)
    PROVE  IInv'
  <1>1. /\ p \in deferred \cup linger /\ deferred' \subseteq deferred /\ linger' \subseteq linger
        /\ Kill({p})
        /\ slot' = slot /\ marks' = marks /\ assigned' = assigned /\ open' = open /\ plan' = plan
        /\ todo' = todo /\ prior' = prior /\ outcome' = outcome /\ gate' = gate
        /\ weRender' = weRender /\ timers' = timers /\ live' = live /\ used' = used
    BY DEF ReleaseDeferred, program
  <1>2. TypeOK'
    <2>1. TypeOK
      BY DEF IInv
    <2>2. phase' \in [Pids -> Phases] /\ role' \in [Pids -> Launches]
      BY <1>1, <2>1, KillTypes
    <2> QED
      BY <1>1, <2>1, <2>2 DEF TypeOK
  <1>3. Resting' /\ Running'
    BY <1>1, Unmoved
  <1>4. Transactions' /\ Once' /\ Accounted'
    BY <1>1, ReleaseHolders
  <1> QED
    BY <1>2, <1>3, <1>4 DEF IInv

LEMMA HotplugStep ==
    ASSUME IInv, Hotplug
    PROVE  IInv'
  <1>1. PICK now \in Groups :
        LET lost == assigned[Multi] # Blank /\ \E e \in assigned[Multi] : e[1] \notin now
            kept(k) == IF k = Multi THEN ~lost
                       ELSE k \in now /\ ~(lost /\ \E e \in assigned[Multi] : e[1] = k)
            unassigned == \E o \in now : assigned[o] = Blank \/ ~kept(o)
            gone == DepartedSlots(now) \cup (IF lost THEN {Multi} ELSE {})
                    \cup (IF unassigned /\ Alive(Shared) THEN {Shared} ELSE {})
        IN /\ live' = now
           /\ assigned' = [k \in DOMAIN assigned |-> IF kept(k) THEN assigned[k] ELSE Blank]
           /\ slot' = Without(gone) /\ marks' = marks \ gone /\ Kill(In(gone))
    BY Zenon DEF Hotplug
  <1>2. /\ Idle /\ prior' = assigned' /\ gate' = gate /\ open' = open /\ plan' = plan /\ todo' = todo
        /\ outcome' = outcome /\ weRender' = weRender /\ timers' = timers
        /\ deferred' = deferred /\ linger' = linger /\ used' = used
    BY Zenon DEF Hotplug
  <1> DEFINE lost == assigned[Multi] # Blank /\ \E e \in assigned[Multi] : e[1] \notin now
             kept(k) == IF k = Multi THEN ~lost
                        ELSE k \in now /\ ~(lost /\ \E e \in assigned[Multi] : e[1] = k)
             unassigned == \E o \in now : assigned[o] = Blank \/ ~kept(o)
             gone == DepartedSlots(now) \cup (IF lost THEN {Multi} ELSE {})
                     \cup (IF unassigned /\ Alive(Shared) THEN {Shared} ELSE {})
  <1>3. /\ live' = now
        /\ assigned' = [k \in DOMAIN assigned |-> IF kept(k) THEN assigned[k] ELSE Blank]
        /\ slot' = Without(gone) /\ marks' = marks \ gone /\ Kill(In(gone))
    BY <1>1, Zenon
  <1>4. gone \in SUBSET Installed
    BY SlotKinds DEF DepartedSlots
  <1> HIDE DEF gone, kept
  <1>5. TypeOK
    BY DEF IInv
  <1>6. Transactions' /\ Once' /\ Accounted'
    <2>1. {} \in SUBSET gone /\ gone \ {} = gone
      OBVIOUS
    <2>2. Kill(In(gone \ {}))
      BY <1>3, <2>1
    <2>3. deferred' = deferred \cup In({})
      BY <1>2 DEF In
    <2> QED
      BY <1>2, <1>3, <1>4, <2>1, <2>2, <2>3, EmptyHolders
  <1>7. TypeOK'
    <2>1. phase' \in [Pids -> Phases] /\ role' \in [Pids -> Launches]
      BY <1>3, <1>5, KillTypes
    <2>2. slot' \in [Slots -> Pids \cup {Nobody}]
      BY <1>3, <1>5, EmptyTypes
    <2>3. Assignments(assigned')
      BY <1>3, <1>5 DEF TypeOK, Assignments
    <2>4. /\ DOMAIN assigned' = Outputs \cup {Multi} /\ DOMAIN prior' = DOMAIN assigned'
          /\ \A o \in Outputs : {assigned'[o], prior'[o]} \subseteq DOMAIN Kind \cup {Blank}
      BY <1>2, <2>3 DEF Assignments
    <2>5. live' \in Groups /\ marks' \subseteq marks
      BY <1>3
    <2> QED
      BY <1>2, <1>5, <2>1, <2>2, <2>4, <2>5 DEF TypeOK
  <1>8. Resting' /\ Running'
    BY <1>2 DEF IInv, Resting, Running, Idle
  <1> QED
    BY <1>6, <1>7, <1>8 DEF IInv

--------------------------------------------------------------------------------
(* Types and holders *)

LEMMA Initially == Init => IInv
  <1> SUFFICES ASSUME Init PROVE IInv
    OBVIOUS
  <1>1. /\ \A s \in Slots : slot[s] = Nobody
        /\ marks = {} /\ weRender = {} /\ prior = assigned
        /\ phase = [p \in Pids |-> "free"]
        /\ open = {} /\ plan = NoPlan /\ todo = {} /\ outcome = "none"
        /\ timers = {} /\ deferred = {} /\ linger = {} /\ live = Outputs
    BY DEF Init
  <1>2. TypeOK
    <2>1. NoLaunch \in Launches
      BY SlotKinds DEF NoLaunch, Launches
    <2>2. Outputs \in Groups
      <3>1. Outputs # {}
        BY HandoffAssumption
      <3> QED
        BY <3>1 DEF Groups
    <2>3. used \in [requests : 0..MaxRequests, exits : 0..MaxExits]
      <3>1. MaxRequests \in Nat /\ MaxExits \in Nat
        BY HandoffAssumption
      <3> QED
        BY <3>1 DEF Init
    <2> QED
      BY <2>1, <2>2, <2>3 DEF Init, TypeOK, Phases, Answering
  <1>3. Resting /\ Running
    BY <1>1 DEF Resting, Running, Idle
  <1>4. Transactions
    BY <1>1, SlotKinds DEF Transactions
  <1>5. \A p \in Pids : ~InSlot(p) /\ ~Displaced(p)
    BY <1>1, NobodyIs DEF InSlot, Displaced
  <1>6. Once
    BY <1>1, <1>5 DEF Once
  <1>7. Accounted
    BY <1>1, <1>5 DEF Accounted
  <1> QED
    BY <1>2, <1>3, <1>4, <1>6, <1>7 DEF IInv

LEMMA Preserved == IInv /\ [Next]_vars => IInv'
  <1> SUFFICES ASSUME IInv, [Next]_vars PROVE IInv'
    OBVIOUS
  <1>1. CASE \E q \in Requests : Start(q)
    BY <1>1, StartStep
  <1>2. CASE Spawn
    BY <1>2, SpawnStep
  <1>3. CASE Reuse
    BY <1>3, ReuseStep
  <1>4. CASE Wait
    BY <1>4, WaitStep
  <1>5. CASE Reveal
    BY <1>5, RevealStep
  <1>6. CASE Prepare
    BY <1>6, PrepareStep
  <1>7. CASE Commit
    BY <1>7, CommitStep
  <1>8. CASE Tidy
    BY <1>8, TidyStep
  <1>9. CASE Drop
    BY <1>9, DropStep
  <1>10. CASE Fail
    BY <1>10, FailStep
  <1>11. CASE \E p \in Pids : \E result \in {"ok", "err"} : Signal(p, result)
    BY <1>11, SignalStep
  <1>12. CASE \E p \in Pids : Exit(p)
    BY <1>12, ExitStep
  <1>13. CASE \E p \in Pids : RetirePaper(p)
    BY <1>13, RetirePaperStep
  <1>14. CASE \E p \in Pids : ReleaseDeferred(p)
    BY <1>14, ReleaseStep
  <1>15. CASE Reap
    BY <1>15, ReapStep
  <1>16. CASE Hotplug
    BY <1>16, HotplugStep
  <1>17. CASE UNCHANGED vars
    <2>1. /\ slot' = slot /\ marks' = marks /\ assigned' = assigned /\ weRender' = weRender
          /\ phase' = phase /\ role' = role /\ gate' = gate /\ open' = open /\ plan' = plan
          /\ todo' = todo /\ prior' = prior /\ outcome' = outcome /\ timers' = timers
          /\ deferred' = deferred /\ linger' = linger /\ live' = live /\ used' = used
      BY <1>17, Zenon DEF vars
    <2>2. TypeOK'
      BY <2>1 DEF IInv, TypeOK
    <2>3. Resting' /\ Running'
      BY <2>1, Unmoved
    <2>4. Transactions' /\ Once' /\ Accounted'
      BY <2>1, KeepHolders
    <2> QED
      BY <2>2, <2>3, <2>4 DEF IInv
  <1> QED
    BY <1>1, <1>2, <1>3, <1>4, <1>5, <1>6, <1>7, <1>8, <1>9, <1>10, <1>11, <1>12, <1>13,
       <1>14, <1>15, <1>16, <1>17, Zenon DEF Next, Run

\* The invariant gives each process no holder or one.
LEMMA OneHolder == IInv => Owned
  <1> SUFFICES ASSUME IInv, NEW p \in Pids
               PROVE  Cardinality(Holders(p)) = IF phase[p] = "free" THEN 0 ELSE 1
    BY DEF Owned
  <1> DEFINE slots == {<<"slot", s>> : s \in {x \in Slots : slot[x] = p}}
             displaced == {<<"displaced", t.launch.slot>> : t \in {x \in open : p \in Range(x.from)}}
             later == {<<"thread", "deferred">> : q \in {p} \cap deferred}
             waited == {<<"thread", "linger">> : q \in {p} \cap linger}
  <1>0. Holders(p) = slots \cup displaced \cup later \cup waited
    BY DEF Holders
  <1>1. slots = {} \/ \E h : slots = {h}
    <2>1. \A s, x \in Slots : slot[s] = p /\ slot[x] = p => s = x
      BY NobodyIs DEF IInv, Once
    <2> QED
      BY <2>1
  <1>2. displaced = {} \/ \E h : displaced = {h}
    <2>1. \A t, u \in open : p \in Range(t.from) /\ p \in Range(u.from) => t = u
      BY DEF IInv, Once, Range
    <2> QED
      BY <2>1
  <1>3. later \in {{}, {<<"thread", "deferred">>}} /\ waited \in {{}, {<<"thread", "linger">>}}
    OBVIOUS
  <1>4. slots # {} <=> InSlot(p)
    BY DEF InSlot
  <1>5. displaced # {} <=> Displaced(p)
    BY DEF Displaced, Range
  <1>6. (later # {} <=> p \in deferred) /\ (waited # {} <=> p \in linger)
    OBVIOUS
  <1>7. /\ phase[p] # "free" <=> InSlot(p) \/ Displaced(p) \/ p \in deferred \cup linger
        /\ ~(InSlot(p) /\ Displaced(p))
        /\ p \in deferred \cup linger => ~InSlot(p) /\ ~Displaced(p)
        /\ deferred \cap linger = {}
    BY DEF IInv, Accounted, Once
  <1> HIDE DEF slots, displaced, later, waited
  <1>8. CASE phase[p] = "free"
    <2>1. Holders(p) = {}
      BY <1>0, <1>4, <1>5, <1>6, <1>7, <1>8
    <2> QED
      BY <1>8, <2>1, FS_EmptySet
  <1>9. CASE phase[p] # "free"
    <2>1. \E h : Holders(p) = {h}
      <3>1. CASE InSlot(p)
        <4>1. displaced = {} /\ later = {} /\ waited = {} /\ slots # {}
          BY <1>4, <1>5, <1>6, <1>7, <3>1
        <4> QED
          BY <1>0, <1>1, <4>1
      <3>2. CASE Displaced(p)
        <4>1. slots = {} /\ later = {} /\ waited = {} /\ displaced # {}
          BY <1>4, <1>5, <1>6, <1>7, <3>2
        <4> QED
          BY <1>0, <1>2, <4>1
      <3>3. CASE p \in deferred
        <4>1. slots = {} /\ displaced = {} /\ waited = {} /\ later # {}
          BY <1>4, <1>5, <1>6, <1>7, <3>3
        <4> QED
          BY <1>0, <1>3, <4>1
      <3>4. CASE p \in linger
        <4>1. slots = {} /\ displaced = {} /\ later = {} /\ waited # {}
          BY <1>4, <1>5, <1>6, <1>7, <3>4
        <4> QED
          BY <1>0, <1>3, <4>1
      <3> QED
        BY <1>7, <1>9, <3>1, <3>2, <3>3, <3>4
    <2>2. PICK h : Holders(p) = {h}
      BY <2>1
    <2> QED
      BY <1>9, <2>2, FS_Singleton
  <1> QED
    BY <1>8, <1>9

\* The slots, the open transactions, the plan and the assignments keep their
\* types whatever the requests, the renderers and the threads do.
THEOREM TypeCorrect == Spec => []TypeOK
  <1>1. IInv => TypeOK
    BY DEF IInv
  <1> QED
    BY <1>1, Initially, Preserved, PTL DEF Spec

\* Every renderer process that runs has exactly one holder which will stop or
\* collect it: a slot of the target, a transaction that took it out of one, or a
\* thread that sleeps before it kills it.  A process that does not run has none.
THEOREM EveryProcessOwned == Spec => []Owned
  BY Initially, Preserved, OneHolder, PTL DEF Spec

\* Between two requests no transaction is open and nothing of a program is left,
\* and the assignments saved for an error are the assignments themselves.
THEOREM NothingLeftOpen == Spec => [](outcome # "running" => open = {} /\ todo = {} /\ prior = assigned)
  <1>1. IInv => (outcome # "running" => open = {} /\ todo = {} /\ prior = assigned)
    BY DEF IInv, Resting, Idle
  <1> QED
    BY <1>1, Initially, Preserved, PTL DEF Spec

--------------------------------------------------------------------------------
(* The order of a program *)

\* In which order a program does things: it starts its launches, asks for answers
\* from the first of the stages that follow, and commits from a later one.
FirstAnswer(r) == IF r.op = "reconcile" THEN 5 ELSE IF r.op \in {"static", "fade"} THEN 3 ELSE 2
FirstCommit(r) == CASE r.op = "reconcile" -> 9 [] r.op = "fade" -> 6 [] r.op = "static" -> 4 [] OTHER -> 3

LEMMA PartHas ==
    ASSUME NEW n, NEW h, NEW do, NEW S, NEW l \in S
    PROVE  \E i \in Part(n, h, do, S) : i.do = do /\ i.launch = l
  <1> DEFINE i == [stage |-> n, half |-> h, do |-> do, launch |-> l]
  <1>1. i \in Part(n, h, do, S) /\ i.do = do /\ i.launch = l
    BY DEF Part
  <1> QED
    BY <1>1

LEMMA ReconcileOrder ==
    ASSUME NEW r, NEW i \in ReconcileProgram(r)
    PROVE  \/ i.stage = 1 /\ i.do \in {"spawn", "wait"} /\ i.launch \in Handoffs(r)
           \/ i.stage \in 2..4 /\ i.do \in {"spawn", "wait"} /\ i.launch \in Scenes(r) \cup Overlaid(r)
           \/ i.stage = 5 /\ i.half = 1 /\ i.do = "reveal"
           \/ i.stage \in 5..8 /\ i.do \in {"prepare", "start"}
           \/ i.stage \in 9..LastStage /\ i.do \in {"commit", "tail"}
  BY PartIn, EndingIs DEF ReconcileProgram, Started, StartedTogether, Pairs, Each, Overlaid, LastStage

LEMMA OthersOrder ==
    ASSUME NEW r, NEW i, NEW a, NEW c,
           \/ i \in VideoProgram(r) /\ a = 2 /\ c = 3
           \/ i \in WeProgram(r) /\ a = 2 /\ c = 3
           \/ i \in StaticProgram(r) /\ a = 3 /\ c = 4
           \/ i \in FadeProgram(r) /\ a = 3 /\ c = 6
    PROVE  \/ i.stage \in 1..(a - 1) /\ i.do \in {"spawn", "wait"}
           \/ i.stage = a /\ i.half = 1 /\ i.do = "reveal"
           \/ i.stage \in a..(c - 1) /\ i.do \in {"prepare", "start"}
           \/ i.stage \in c..LastStage /\ i.do \in {"commit", "tail"}
  <1>1. CASE i \in VideoProgram(r) /\ a = 2 /\ c = 3
    BY <1>1, PartIn, EndingIs DEF VideoProgram, Started, Pairs, Each, LastStage
  <1>2. CASE i \in WeProgram(r) /\ a = 2 /\ c = 3
    BY <1>2, PartIn, EndingIs DEF WeProgram, Started, Pairs, Each, LastStage
  <1>3. CASE i \in StaticProgram(r) /\ a = 3 /\ c = 4
    BY <1>3, PartIn, EndingIs DEF StaticProgram, StartedTogether, Each, LastStage
  <1>4. CASE i \in FadeProgram(r) /\ a = 3 /\ c = 6
    BY <1>4, PartIn, EndingIs DEF FadeProgram, Started, Pairs, Each, LastStage
  <1> QED
    BY <1>1, <1>2, <1>3, <1>4

LEMMA ProgramOrder ==
    ASSUME NEW r \in Plans, NEW i \in Program(r)
    PROVE  /\ i.stage \in Nat /\ i.stage > 0
           /\ i.do \in {"spawn", "wait"} <=> i.stage < FirstAnswer(r)
           /\ i.do \in {"commit", "tail"} <=> i.stage >= FirstCommit(r)
           /\ FirstAnswer(r) \in Nat /\ FirstCommit(r) \in Nat /\ FirstAnswer(r) < FirstCommit(r)
           /\ i.do = "reveal" => i.stage = FirstAnswer(r) /\ i.half = 1
  <1>1. r.op \in Ops
    BY PlanIs
  <1>2. CASE r.op = "reconcile"
    <2>1. i \in ReconcileProgram(r)
      BY <1>2 DEF Program
    <2>2. FirstAnswer(r) = 5 /\ FirstCommit(r) = 9
      BY <1>2 DEF FirstAnswer, FirstCommit
    <2> QED
      BY <2>1, <2>2, ReconcileOrder DEF LastStage
  <1>3. CASE r.op # "reconcile"
    <2> DEFINE a == FirstAnswer(r)
               c == FirstCommit(r)
    <2>1. \/ i \in VideoProgram(r) /\ a = 2 /\ c = 3
          \/ i \in WeProgram(r) /\ a = 2 /\ c = 3
          \/ i \in StaticProgram(r) /\ a = 3 /\ c = 4
          \/ i \in FadeProgram(r) /\ a = 3 /\ c = 6
      BY <1>1, <1>3 DEF Program, Ops, FirstAnswer, FirstCommit
    <2> HIDE DEF a, c
    <2>2. \/ i.stage \in 1..(a - 1) /\ i.do \in {"spawn", "wait"}
          \/ i.stage = a /\ i.half = 1 /\ i.do = "reveal"
          \/ i.stage \in a..(c - 1) /\ i.do \in {"prepare", "start"}
          \/ i.stage \in c..LastStage /\ i.do \in {"commit", "tail"}
      BY <2>1, OthersOrder
    <2>3. a \in Nat /\ c \in Nat /\ a < c
      BY <2>1
    <2>4. /\ i.stage \in Nat /\ i.stage > 0
          /\ i.do \in {"spawn", "wait"} <=> i.stage < a
          /\ i.do \in {"commit", "tail"} <=> i.stage >= c
          /\ i.do = "reveal" => i.stage = a /\ i.half = 1
      BY <2>1, <2>2 DEF LastStage
    <2> QED
      BY <2>3, <2>4 DEF a, c
  <1> QED
    BY <1>2, <1>3

\* Only handoffs of a reconciliation, and the stills that a picture fades into,
\* start hidden, and all of those are revealed.
LEMMA HiddenIs ==
    ASSUME NEW r \in Plans, NEW l \in Launched(r), l.hidden
    PROVE  \/ r.op = "reconcile" /\ l \in Handoffs(r)
           \/ r.op = "fade" /\ l \in Appearing(r)
  <1>0. r.op \in Ops /\ l \in All(r)
    BY PlanIs, LaunchedIs
  <1>1. \A s, S, K : Launch(s, S).hidden = FALSE /\ [Launch(s, S) EXCEPT !.keep = K].hidden = FALSE
    BY DEF Launch, NoLaunch
  <1>2. \A sets : \A k \in Overlays(sets) : k.hidden = FALSE
    BY <1>1 DEF Overlays
  <1>3. \A k \in Scenes(r) : k.hidden = FALSE
    <2> DEFINE keep(G) == IF r.op = "we" THEN {<<"video", G>>}
                          ELSE IF weRender = WeGroups(r) THEN {<<"video", H>> : H \in SceneGroups(r)}
                          ELSE {}
               scene(G) == [Launch(<<"video", G>>, G) EXCEPT !.scene = TRUE, !.keep = keep(G)]
    <2>1. Scenes(r) = {scene(G) : G \in SceneGroups(r)}
      BY Zenon DEF Scenes
    <2>2. \A s, S, K : [Launch(s, S) EXCEPT !.scene = TRUE, !.keep = K].hidden = FALSE
      BY DEF Launch, NoLaunch
    <2> HIDE DEF keep
    <2>3. \A G : scene(G).hidden = FALSE
      BY <2>2
    <2> HIDE DEF scene
    <2> QED
      BY <2>1, <2>3
  <1>4. CASE r.op = "reconcile"
    BY <1>0, <1>2, <1>3, <1>4 DEF All, Reconciled, Overlaid
  <1>5. CASE r.op = "video"
    BY <1>0, <1>1, <1>5 DEF All, Everywhere
  <1>6. CASE r.op = "we"
    BY <1>0, <1>3, <1>6 DEF All
  <1>7. CASE r.op = "static"
    BY <1>0, <1>1, <1>7 DEF All, Apart
  <1>8. CASE r.op = "fade"
    <2>1. l \in Appearing(r) \/ l \in Fading(r)
      BY <1>0, <1>8 DEF All
    <2>2. l \notin Fading(r)
      BY <1>1, <1>2 DEF Fading
    <2> QED
      BY <1>8, <2>1, <2>2
  <1> QED
    BY <1>0, <1>4, <1>5, <1>6, <1>7, <1>8 DEF Ops

\* Every launch is waited for, and revealed when it starts hidden.
LEMMA LaunchSteps ==
    ASSUME NEW r \in Plans, NEW l \in Launched(r)
    PROVE  /\ \E i \in Program(r) : i.do = "wait" /\ i.launch = l
           /\ l.hidden => \E i \in Program(r) : i.do = "reveal" /\ i.launch = l
  <1>0. r.op \in Ops /\ l \in All(r)
    BY PlanIs, LaunchedIs
  <1>1. CASE r.op = "reconcile"
    <2>1. /\ Part(1, 2, "wait", Handoffs(r)) \subseteq ReconcileProgram(r)
          /\ Part(2, 2, "wait", Scenes(r)) \subseteq ReconcileProgram(r)
          /\ Part(3 + 1, 1, "wait", Overlaid(r)) \subseteq ReconcileProgram(r)
          /\ Part(5, 1, "reveal", Handoffs(r)) \subseteq ReconcileProgram(r)
      BY Zenon DEF ReconcileProgram, Started, StartedTogether, Pairs, Each, Overlaid
    <2>2. Program(r) = ReconcileProgram(r)
      BY <1>1 DEF Program
    <2>3. l \in Handoffs(r) \/ l \in Scenes(r) \/ l \in Overlaid(r)
      BY <1>0, <1>1 DEF All, Reconciled
    <2>4. \E i \in Program(r) : i.do = "wait" /\ i.launch = l
      BY <2>1, <2>2, <2>3, PartHas
    <2>5. l.hidden => l \in Handoffs(r)
      BY <1>1, HiddenIs
    <2> QED
      BY <2>1, <2>2, <2>4, <2>5, PartHas
  <1>2. CASE r.op = "video"
    <2>1. Part(1, 2, "wait", {Everywhere(r)}) \subseteq Program(r)
      BY <1>2, Zenon DEF Program, VideoProgram, Started, Pairs, Everywhere
    <2>2. l \in {Everywhere(r)}
      BY <1>0, <1>2 DEF All
    <2> QED
      BY <1>2, <2>1, <2>2, PartHas, HiddenIs
  <1>3. CASE r.op = "we"
    <2>1. Part(1, 2, "wait", Scenes(r)) \subseteq Program(r)
      BY <1>3, Zenon DEF Program, WeProgram, Started, Pairs
    <2>2. l \in Scenes(r)
      BY <1>0, <1>3 DEF All
    <2> QED
      BY <1>3, <2>1, <2>2, PartHas, HiddenIs
  <1>4. CASE r.op = "static"
    <2>1. Part(1 + 1, 1, "wait", Apart(r)) \subseteq Program(r)
      BY <1>4, Zenon DEF Program, StaticProgram, StartedTogether, Each, Apart
    <2>2. l \in Apart(r)
      BY <1>0, <1>4 DEF All
    <2> QED
      BY <1>4, <2>1, <2>2, PartHas, HiddenIs
  <1>5. CASE r.op = "fade"
    <2>1. /\ Part(1, 2, "wait", Appearing(r)) \subseteq Program(r)
          /\ Part(2, 2, "wait", Fading(r)) \subseteq Program(r)
          /\ Part(3, 1, "reveal", Appearing(r)) \subseteq Program(r)
      BY <1>5, Zenon DEF Program, FadeProgram, Started, Pairs, Appearing, Fading
    <2>2. l \in Appearing(r) \/ l \in Fading(r)
      BY <1>0, <1>5 DEF All
    <2>3. \E i \in Program(r) : i.do = "wait" /\ i.launch = l
      BY <2>1, <2>2, PartHas
    <2> QED
      BY <1>5, <2>1, <2>3, PartHas, HiddenIs
  <1> QED
    BY <1>0, <1>1, <1>2, <1>3, <1>4, <1>5 DEF Ops

\* The handoffs of a reconciliation have turns; a shared one that has been given
\* up is not among them again.
LEMMA HandoffServes ==
    ASSUME NEW r \in Plans, NEW h \in Handoffs(r)
    PROVE  /\ h.slot[2] \cup h.serves \in Groups
           /\ h.shared => h.serves # {} /\ h.serves \cap r.single = {}
  <1>1. /\ DOMAIN r.want \subseteq Outputs /\ \A k : Wanting(r, k) \subseteq DOMAIN r.want
        /\ SharedStills(r) \subseteq Groups
    BY PlanIs, SharedIs DEF Groups
  <1>2. CASE \E G \in SharedStills(r) : h = Still(r, G)
    <2>1. PICK G \in SharedStills(r) : h = Still(r, G)
      BY <1>2
    <2>2. G \in Groups /\ G \cap r.single = {}
      BY <1>1 DEF SharedStills
    <2>3. h.slot = <<"still", G>> /\ h.serves = G
      BY <2>1, <2>2, StillIs
    <2> QED
      BY <2>2, <2>3 DEF Groups
  <1>3. CASE \E o \in Wanting(r, "static") \ UNION SharedStills(r) : h = Still(r, {o})
    <2>1. PICK o \in Wanting(r, "static") : h = Still(r, {o})
      BY <1>3
    <2>2. {o} \in Groups
      BY <1>1 DEF Groups
    <2>4. Cardinality({o}) = 1
      BY FS_Singleton
    <2>3. h.slot = <<"still", {o}>> /\ h.serves = {o} /\ h.shared = (Cardinality({o}) > 1)
      BY <2>1, <2>2, StillIs
    <2>5. h.slot[2] = {o} /\ h.serves = {o}
      BY <2>3
    <2>6. h.shared = FALSE
      <3>1. (1 > 1) = FALSE
        OBVIOUS
      <3>2. (Cardinality({o}) > 1) = FALSE
        BY <2>4, <3>1, Zenon
      <3> QED
        BY <2>3, <3>2, Zenon
    <2> QED
      BY <2>2, <2>5, <2>6
  <1>4. CASE \E V \in {SharedVideo(r)} \ {{}} : h = MultiVideo(r, V)
    <2>1. h = MultiVideo(r, SharedVideo(r)) /\ SharedVideo(r) # {}
      BY <1>4
    <2>2. SharedVideo(r) \in SUBSET Outputs /\ SharedVideo(r) \cap r.single = {}
      BY <1>1, <2>1 DEF SharedVideo
    <2>3. h.slot = Multi /\ h.serves = SharedVideo(r)
      BY <2>1, <2>2, MultiIs
    <2>4. h.slot[2] = {}
      BY <2>3 DEF Multi
    <2> QED
      BY <2>1, <2>2, <2>3, <2>4 DEF Groups
  <1>5. CASE \E o \in Wanting(r, "video") \ SharedVideo(r) : h = Video(r, o)
    <2>1. PICK o \in Wanting(r, "video") : h = Video(r, o)
      BY <1>5
    <2>2. {o} \in Groups /\ o \in Outputs
      BY <1>1 DEF Groups
    <2>3. h.slot = <<"video", {o}>> /\ h.serves = {o} /\ h.shared = FALSE
      BY <2>1, <2>2, VideoIs
    <2> QED
      BY <2>2, <2>3
  <1> QED
    BY <1>2, <1>3, <1>4, <1>5 DEF Handoffs

LEMMA TurnIs ==
    ASSUME NEW r \in Plans, NEW h \in Handoffs(r)
    PROVE  Turn(h) \in Nat
  <1> DEFINE S == h.slot[2] \cup h.serves
             places == {Place(o) : o \in S}
             n == IF ~h.shared THEN 2 ELSE IF h.slot = Multi THEN 1 ELSE 0
  <1>1. S \in Groups
    BY HandoffServes
  <1>2. Turn(h) = Min(places) + Len(OutputOrder) * n
    BY DEF Turn
  <1> HIDE DEF S
  <1>3. places \in SUBSET Nat /\ places # {}
    BY <1>1, PlaceIs DEF Groups
  <1> HIDE DEF places
  <1>4. Min(places) \in Nat
    BY <1>3, LeastIs
  <1>5. Len(OutputOrder) \in Nat
    BY HandoffAssumption
  <1>6. n \in 0..2
    OBVIOUS
  <1> HIDE DEF n
  <1>7. Len(OutputOrder) * n \in Nat
    <2>1. \A x \in Nat : x * 0 \in Nat /\ x * 1 \in Nat /\ x * 2 \in Nat
      OBVIOUS
    <2>2. n = 0 \/ n = 1 \/ n = 2
      BY <1>6
    <2> QED
      BY <1>5, <2>1, <2>2
  <1> QED
    BY <1>2, <1>4, <1>7

\* The launch of a shared renderer that has been given up is not repeated.
LEMMA GivenUp ==
    ASSUME NEW r \in Plans, NEW l \in Launched(r), l.shared,
           NEW s, s = [r EXCEPT !.single = @ \cup l.serves]
    PROVE  l \notin Launched(s)
  <1>1. SUFFICES ASSUME l \in Launched(s) PROVE FALSE
    OBVIOUS
  <1>2. s \in Plans
    BY OthersRemain
  <1>3. l \in Handoffs(s)
    BY <1>1, <1>2, SharedOnly
  <1>4. l.serves # {} /\ l.serves \cap s.single = {}
    BY <1>2, <1>3, HandoffServes
  <1>5. s.single = r.single \cup l.serves
    BY DEF Plans
  <1> QED
    BY <1>4, <1>5

--------------------------------------------------------------------------------
(* The candidates *)

\* What remains is in the order of the program.
LEMMA TodoOrder ==
    ASSUME IInv, NEW j \in todo
    PROVE  /\ plan \in Plans /\ ~Idle /\ j.stage \in Nat /\ j.stage > 0
           /\ j.do \in {"spawn", "wait"} <=> j.stage < FirstAnswer(plan)
           /\ j.do \in {"commit", "tail"} <=> j.stage >= FirstCommit(plan)
           /\ FirstAnswer(plan) \in Nat /\ FirstCommit(plan) \in Nat /\ FirstAnswer(plan) < FirstCommit(plan)
           /\ j.do \in {"reveal", "answer"} => j.stage = FirstAnswer(plan) /\ j.half = 1
  <1>1. ~Idle
    BY DEF IInv, Resting
  <1>2. plan \in Plans /\ OnPlan(j) /\ j \in Instructions
    BY <1>1 DEF IInv, Running, TypeOK
  <1>3. CASE j \in Program(plan)
    <2>1. j.do # "answer"
      BY <1>2, <1>3, ProgramIs
    <2> QED
      BY <1>1, <1>2, <1>3, <2>1, ProgramOrder
  <1>4. CASE j.do = "answer" /\ [j EXCEPT !.do = "reveal"] \in Program(plan)
    <2> DEFINE i == [j EXCEPT !.do = "reveal"]
    <2>1. i \in Program(plan) /\ i.do = "reveal" /\ i.stage = j.stage /\ i.half = j.half
      BY <1>2, <1>4 DEF Instructions
    <2> HIDE DEF i
    <2>2. /\ i.stage \in Nat /\ i.stage > 0
          /\ i.do \in {"spawn", "wait"} <=> i.stage < FirstAnswer(plan)
          /\ i.do \in {"commit", "tail"} <=> i.stage >= FirstCommit(plan)
          /\ FirstAnswer(plan) \in Nat /\ FirstCommit(plan) \in Nat
          /\ FirstAnswer(plan) < FirstCommit(plan)
          /\ i.do = "reveal" => i.stage = FirstAnswer(plan) /\ i.half = 1
      BY <1>2, <2>1, ProgramOrder
    <2> QED
      BY <1>1, <1>2, <1>4, <2>1, <2>2
  <1> QED
    BY <1>2, <1>3, <1>4 DEF OnPlan

LEMMA ReachedFirst ==
    ASSUME IInv, NEW do, NEW i \in Reached(do), NEW j \in todo
    PROVE  i \in todo /\ i.do = do /\ i.stage <= j.stage /\ (i # j => Before(i, j))
  <1>1. i \in todo /\ i.do = do /\ (i # j => Before(i, j))
    BY DEF Reached
  <1>2. i.stage \in Nat /\ j.stage \in Nat
    BY <1>1, TodoOrder
  <1>3. i # j => i.stage < j.stage \/ i.stage = j.stage
    BY <1>1 DEF Before
  <1> QED
    BY <1>1, <1>2, <1>3

\* Once a commit or the end is next, nothing else remains.
LEMMA CommitsLast ==
    ASSUME IInv, NEW i, i \in Reached("commit") \/ i \in Reached("tail")
    PROVE  Committing
  <1>1. i \in todo /\ i.do \in {"commit", "tail"}
    BY DEF Reached
  <1>2. ASSUME NEW j \in todo PROVE j.do \in {"commit", "tail"}
    <2>1. i.stage <= j.stage
      BY ReachedFirst
    <2>2. i.stage \in Nat /\ j.stage \in Nat /\ FirstCommit(plan) \in Nat /\ i.stage >= FirstCommit(plan)
      BY <1>1, TodoOrder
    <2>3. j.stage >= FirstCommit(plan)
      BY <2>1, <2>2
    <2> QED
      BY <2>3, TodoOrder
  <1> QED
    BY <1>1, <1>2 DEF Committing

\* Then nothing is waited for, and every process has settled.
LEMMA AllSettled ==
    ASSUME IInv, CInv, Committing
    PROVE  \A p \in Pids : phase[p] \notin Unsettled
  <1>1. ASSUME NEW p \in Pids, phase[p] \in Unsettled PROVE FALSE
    <2>1. Attended(p)
      BY DEF CInv
    <2>2. PICK t \in open : Awaits(t.launch, p)
      BY <1>1, <2>1 DEF Attended, Committing
    <2>3. /\ ~Pending("wait", t.launch) /\ ~Pending("reveal", t.launch) /\ ~Pending("answer", t.launch)
      BY DEF Pending, Committing
    <2> QED
      BY <1>1, <2>2, <2>3 DEF Awaits, Unsettled, Answering
  <1> QED
    BY <1>1

\* A process stays as it was, and so does what waits for it.
LEMMA StillAwaits ==
    ASSUME NEW l, NEW p, Awaits(l, p), phase'[p] = phase[p], phase[p] = "broken" => gate'[p] = gate[p],
           \A j \in todo : j.launch = l /\ j.do \in {"wait", "reveal", "answer"} => j \in todo'
    PROVE  Awaits(l, p)'
  BY DEF Awaits, Pending

LEMMA StillAttended ==
    ASSUME NEW p, Attended(p), todo = {} => todo' = {},
           phase'[p] \in Unsettled => phase'[p] = phase[p] /\ \A t \in open :
               t.pid = p /\ slot[t.launch.slot] = p =>
                  /\ t \in open' /\ slot'[t.launch.slot] = p
                  /\ \/ todo' = {}
                     \/ /\ phase[p] = "broken" => gate'[p] = gate[p]
                        /\ \A j \in todo : j.launch = t.launch /\ j.do \in {"wait", "reveal", "answer"} => j \in todo'
    PROVE  Attended(p)'
  <1> SUFFICES ASSUME phase'[p] \in Unsettled
               PROVE  \E t \in open' : t.pid = p /\ slot'[t.launch.slot] = p /\ (todo' # {} => Awaits(t.launch, p)')
    BY DEF Attended, Unsettled, Answering
  <1>1. PICK t \in open : t.pid = p /\ slot[t.launch.slot] = p /\ (todo # {} => Awaits(t.launch, p))
    BY DEF Attended
  <1>2. t \in open' /\ slot'[t.launch.slot] = p
    BY <1>1
  <1>3. ASSUME todo' # {} PROVE Awaits(t.launch, p)'
    <2>1. Awaits(t.launch, p) /\ phase'[p] = phase[p] /\ (phase[p] = "broken" => gate'[p] = gate[p])
      BY <1>1, <1>3
    <2>2. \A j \in todo : j.launch = t.launch /\ j.do \in {"wait", "reveal", "answer"} => j \in todo'
      BY <1>1, <1>3
    <2> DEFINE l == t.launch
    <2>3. Awaits(l, p)
      BY <2>1
    <2>4. \A j \in todo : j.launch = l /\ j.do \in {"wait", "reveal", "answer"} => j \in todo'
      BY <2>2
    <2> HIDE DEF l
    <2>5. Awaits(l, p)'
      BY <2>1, <2>3, <2>4, StillAwaits
    <2> QED
      BY <2>5 DEF l
  <1> QED
    BY <1>1, <1>2, <1>3

\* Processes only end, and gates are only reset.
LEMMA GatesKept ==
    ASSUME Gates, \A p \in Pids : phase'[p] \in {phase[p], "free", "dead"} /\ gate'[p] \in {gate[p], "none"}
    PROVE  Gates'
  BY DEF Gates, Answering

LEMMA KillPhases ==
    ASSUME NEW ps, Kill(ps), NEW p \in Pids
    PROVE  phase'[p] = IF p \in ps THEN "free" ELSE phase[p]
  BY DEF Kill

\* Nothing of the program changes, or nothing remains of it.
LEMMA NothingDone ==
    ASSUME CInv, todo' = todo, open' = open, plan' = plan, prior' = prior, weRender' = weRender
    PROVE  Whole' /\ Alone' /\ Revealed'
  <1>1. Program(plan)' = Program(plan)
    BY ProgramStays
  <1>2. Whole'
    BY <1>1 DEF CInv, Whole
  <1> QED
    BY <1>2 DEF CInv, Alone, Revealed

LEMMA NothingRemains ==
    ASSUME todo' = {}
    PROVE  Whole' /\ Alone' /\ Revealed'
  BY DEF Whole, Alone, Revealed

\* Instructions are taken from what remains, but not from a launch that will begin.
LEMMA SomeDone ==
    ASSUME CInv, prior' = prior, weRender' = weRender, Program(plan') = Program(plan),
           todo' \subseteq todo, open' \subseteq open,
           \A i \in todo' : i.do = "spawn" => \A k \in todo : k.launch = i.launch => k \in todo'
    PROVE  Whole' /\ Alone' /\ Revealed'
  <1> DEFINE s == plan'
  <1>0. plan' = s
    OBVIOUS
  <1> HIDE DEF s
  <1>1. Program(plan)' = Program(s)
    BY <1>0, ProgramStays
  <1>2. Program(s) = Program(plan)
    BY <1>0
  <1>3. Whole'
    BY <1>1, <1>2 DEF CInv, Whole
  <1> QED
    BY <1>3 DEF CInv, Alone, Revealed

\* A shared renderer is given up: no other candidate was waited for.
LEMMA GivenUpProgram ==
    ASSUME IInv, CInv, NEW i \in Reached("spawn") \cup Reached("wait"), i.launch.shared,
           GiveUp(i.launch), open' \subseteq open, prior' = prior, weRender' = weRender
    PROVE  Whole' /\ Alone' /\ Revealed'
  <1> DEFINE l == i.launch
             s == [plan EXCEPT !.single = @ \cup l.serves]
  <1>1. i \in todo /\ i.do \in {"spawn", "wait"} /\ plan \in Plans /\ l \in Launched(plan)
    <2>1. i \in todo /\ i.do \in {"spawn", "wait"} /\ plan \in Plans /\ i \in Program(plan)
      BY Takes
    <2> QED
      BY <2>1, ProgramIs
  <1>2. plan' = s /\ todo' = Rest(plan')
    BY DEF GiveUp
  <1>3. s \in Plans
    BY <1>1, OthersRemain
  <1> HIDE DEF s
  <1>4. Program(plan)' = Program(s)
    BY <1>2, ProgramStays
  <1>5. todo' = {k \in Program(s) : k.do \in {"spawn", "wait"} => Of(k.launch) = {}}
    BY <1>2 DEF Rest
  <1>6. Whole'
    BY <1>4, <1>5 DEF Whole
  <1>7. Alone'
    BY <1>5 DEF Alone, Of
  <1>8. Revealed'
    BY <1>3, <1>5, ProgramIs DEF Revealed
  <1> QED
    BY <1>6, <1>7, <1>8

LEMMA GivenUpAwaits ==
    ASSUME IInv, CInv, NEW i \in Reached("spawn") \cup Reached("wait"), i.launch.shared,
           GiveUp(i.launch), NEW t \in open, t.launch # i.launch,
           NEW p, phase[p] \in Unsettled, phase'[p] = phase[p], Awaits(t.launch, p)
    PROVE  Awaits(t.launch, p)'
  <1> DEFINE l == i.launch
             s == [plan EXCEPT !.single = @ \cup l.serves]
  <1>1. /\ i \in todo /\ i.do \in {"spawn", "wait"} /\ ~Idle /\ plan \in Plans /\ l \in Launched(plan)
        /\ \A j \in todo : i # j => Before(i, j)
    <2>1. i \in todo /\ i.do \in {"spawn", "wait"} /\ ~Idle /\ plan \in Plans /\ i \in Program(plan)
      BY Takes
    <2>2. \A j \in todo : i # j => Before(i, j)
      BY ReachedFirst
    <2> QED
      BY <2>1, <2>2, ProgramIs
  <1>2. plan' = s /\ todo' = Rest(plan')
    BY DEF GiveUp
  <1>3. s \in Plans /\ Launched(plan) \ {l} \subseteq Launched(s)
    BY <1>1, OthersRemain
  <1> HIDE DEF s
  <1>4. todo' = {k \in Program(s) : k.do \in {"spawn", "wait"} => Of(k.launch) = {}}
    BY <1>2 DEF Rest
  <1>5. ~Pending("wait", t.launch)
    <2>1. SUFFICES ASSUME NEW j \in todo, j.do = "wait", j.launch = t.launch PROVE FALSE
      BY DEF Pending
    <2>2. ~Before(i, j)
      BY <1>1, <2>1 DEF CInv, Alone
    <2> QED
      BY <1>1, <2>1, <2>2
  <1>6. ~Pending("answer", t.launch)
    BY <1>1 DEF CInv, Revealed, Pending
  <1>7. phase[p] = "hidden" /\ t.launch.hidden
    BY <1>5, <1>6 DEF Awaits, Unsettled, Answering
  <1>8. t.launch \in Launched(s)
    BY <1>1, <1>3 DEF IInv, Running
  <1>9. \E k \in Program(s) : k.do = "reveal" /\ k.launch = t.launch
    BY <1>3, <1>7, <1>8, LaunchSteps
  <1>10. Pending("reveal", t.launch)'
    BY <1>4, <1>9 DEF Pending
  <1> QED
    BY <1>7, <1>10 DEF Awaits

\* A candidate that is spawned comes before all that concerns shared renderers.
LEMMA SpawnedAlone ==
    ASSUME IInv, CInv, NEW i \in Reached("spawn"), NEW j \in todo, j.do = "wait", j.launch = i.launch,
           NEW k \in todo, k.do \in {"spawn", "wait"}, k.launch.shared, k.launch # i.launch
    PROVE  ~Before(k, j)
  <1>1. plan \in Plans /\ i \in Program(plan) /\ i.do = "spawn" /\ ~Idle
    BY Takes
  <1>2. j \in Program(plan) /\ k \in Program(plan)
    BY <1>1 DEF IInv, Running, OnPlan
  <1>3. k.launch \in Launched(plan)
    BY <1>1, <1>2, ProgramIs
  <1>4. plan.op = "reconcile" /\ k.launch \in Handoffs(plan)
    BY <1>1, <1>3, SharedOnly
  <1>5. i \in ReconcileProgram(plan) /\ j \in ReconcileProgram(plan) /\ k \in ReconcileProgram(plan)
    BY <1>1, <1>2, <1>4 DEF Program
  <1>6. Handoffs(plan) \cap Scenes(plan) = {} /\ Handoffs(plan) \cap Overlaid(plan) = {}
    BY <1>1, ReconciledSlots
  <1>7. k.stage = 1
    BY <1>4, <1>5, <1>6, ReconcileOrder
  <1>8. Before(i, k)
    <2>1. i # k
      OBVIOUS
    <2> QED
      BY <2>1, ReachedFirst
  <1>9. i.stage = 1 /\ i.launch \in Handoffs(plan)
    <2>1. i.stage <= k.stage
      BY ReachedFirst
    <2> QED
      BY <1>1, <1>5, <1>7, <2>1, ReconcileOrder
  <1>10. j.stage = 1
    BY <1>5, <1>6, <1>9, ReconcileOrder
  <1>11. Turn(i.launch) < Turn(k.launch)
    BY <1>7, <1>8, <1>9 DEF Before
  <1>12. Turn(i.launch) \in Nat /\ Turn(k.launch) \in Nat
    BY <1>1, <1>4, <1>9, TurnIs
  <1>13. ~(Turn(k.launch) < Turn(i.launch))
    BY <1>11, <1>12
  <1> QED
    BY <1>7, <1>10, <1>13 DEF Before

LEMMA StartAttends ==
    ASSUME IInv, CInv, NEW q \in Requests, Start(q), IInv'
    PROVE  CInv'
  <1>1. /\ outcome # "running" /\ plan' \in Plans /\ todo' = Program(plan') /\ prior' = assigned
        /\ slot' = slot /\ phase' = phase /\ gate' = gate /\ open' = open /\ weRender' = weRender
        /\ outcome' = "running"
    BY DEF Start, Idle, IInv, Running
  <1>2. open = {} /\ todo = {} /\ prior' = prior
    BY <1>1 DEF IInv, Resting, Idle
  <1> DEFINE s == plan'
  <1>3. plan' = s /\ s \in Plans /\ todo' = Program(s)
    BY <1>1
  <1> HIDE DEF s
  <1>4. Program(plan)' = Program(s)
    BY <1>1, <1>2, <1>3, ProgramStays
  <1>5. Whole' /\ Alone'
    BY <1>1, <1>2, <1>3, <1>4 DEF Whole, Alone
  <1>6. Revealed'
    BY <1>3, ProgramIs DEF Revealed
  <1>7. \A p \in Pids : Attended(p)'
    BY <1>1, <1>2 DEF CInv, Attended, Unsettled, Answering
  <1>8. Gates'
    BY <1>1 DEF CInv, Gates, Answering
  <1> QED
    BY <1>5, <1>6, <1>7, <1>8 DEF CInv

LEMMA SpawnAttends ==
    ASSUME IInv, CInv, Spawn
    PROVE  CInv'
  <1>1. PICK i \in Reached("spawn") :
          LET l == i.launch
              taken == {s \in Taken(l) : slot[s] # Nobody}
          IN \/ \E p \in Fresh :
                  /\ \A q \in Fresh : p <= q
                  /\ slot' = [Without(taken) EXCEPT ![l.slot] = p]
                  /\ marks' = IF l.slot \in Videos
                              THEN (marks \ (Taken(l) \cup {l.slot})) \cup
                                   (IF l.scene THEN {l.slot} ELSE {})
                              ELSE marks
                  /\ open' = open \cup {[launch |-> l, pid |-> p, from |-> Only(slot, taken),
                                         marks |-> marks \cap taken]}
                  /\ phase' = [phase EXCEPT ![p] = IF l.hidden THEN "preloading" ELSE "loading"]
                  /\ role' = [role EXCEPT ![p] = l]
                  /\ Step(i)
             \/ GiveUp(l) /\ UNCHANGED <<slot, marks, open, phase, role>>
    BY Zenon DEF Spawn
  <1>2. gate' = gate /\ prior' = prior /\ weRender' = weRender
    BY DEF Spawn, quiet
  <1> DEFINE l == i.launch
             taken == {s \in Taken(l) : slot[s] # Nobody}
  <1>3. /\ i \in todo /\ i.do = "spawn" /\ ~Idle /\ plan \in Plans /\ i \in Program(plan)
        /\ l \in Launched(plan) /\ Of(l) = {}
    BY Takes
  <1>4. \A u \in open : u.launch \in Launched(plan) /\ u.launch # l
    BY <1>3 DEF IInv, Running, Of
  <1>5. CASE GiveUp(l) /\ UNCHANGED <<slot, marks, open, phase, role>>
    <2>1. Gates'
      BY <1>2, <1>5 DEF CInv, Gates, Answering
    <2>2. CASE ~l.shared
      <3>1. todo' = {}
        BY <1>5, <2>2 DEF GiveUp
      <3>2. \A p \in Pids : Attended(p)'
        BY <1>5, <3>1 DEF CInv, Attended, Unsettled, Answering
      <3> QED
        BY <2>1, <3>1, <3>2, NothingRemains DEF CInv
    <2>3. CASE l.shared
      <3>1. Whole' /\ Alone' /\ Revealed'
        BY <1>2, <1>5, <2>3, GivenUpProgram
      <3>2. ASSUME NEW p \in Pids, phase'[p] \in Unsettled
            PROVE  \E t \in open' : t.pid = p /\ slot'[t.launch.slot] = p /\ Awaits(t.launch, p)'
        <4>1. Attended(p) /\ phase[p] \in Unsettled /\ phase'[p] = phase[p]
          BY <1>5, <3>2 DEF CInv
        <4>2. PICK t \in open : t.pid = p /\ slot[t.launch.slot] = p /\ Awaits(t.launch, p)
          BY <1>3, <4>1 DEF Attended
        <4>3. Awaits(t.launch, p)'
          BY <1>4, <1>5, <2>3, <4>1, <4>2, GivenUpAwaits
        <4> QED
          BY <1>5, <4>2, <4>3
      <3>3. \A p \in Pids : Attended(p)'
        BY <3>2 DEF Attended, Unsettled, Answering
      <3> QED
        BY <2>1, <3>1, <3>3 DEF CInv
    <2> QED
      BY <2>2, <2>3
  <1>6. CASE \E p \in Fresh :
                  /\ slot' = [Without(taken) EXCEPT ![l.slot] = p]
                  /\ open' = open \cup {[launch |-> l, pid |-> p, from |-> Only(slot, taken),
                                         marks |-> marks \cap taken]}
                  /\ phase' = [phase EXCEPT ![p] = IF l.hidden THEN "preloading" ELSE "loading"]
                  /\ Step(i)
    <2>1. PICK p \in Fresh :
                  /\ slot' = [Without(taken) EXCEPT ![l.slot] = p]
                  /\ open' = open \cup {[launch |-> l, pid |-> p, from |-> Only(slot, taken),
                                         marks |-> marks \cap taken]}
                  /\ phase' = [phase EXCEPT ![p] = IF l.hidden THEN "preloading" ELSE "loading"]
                  /\ todo' = todo \ {i} /\ plan' = plan
      BY <1>6, Zenon DEF Step
    <2>0. \E t : t.launch = l /\ t.pid = p /\ open' = open \cup {t}
      <3> DEFINE t == [launch |-> l, pid |-> p, from |-> Only(slot, taken), marks |-> marks \cap taken]
      <3>1. t.launch = l /\ t.pid = p /\ open' = open \cup {t}
        BY <2>1
      <3> QED
        BY <3>1
    <2>2. PICK t : t.launch = l /\ t.pid = p /\ open' = open \cup {t}
      BY <2>0
    <2>3. p \in Pids /\ gate[p] = "none"
      BY DEF Fresh
    <2>4. l.slot \in Slots /\ phase \in [Pids -> Phases]
      <3>1. l \in Launches
        BY <1>3, ProgramIs
      <3> QED
        BY <3>1 DEF Launches, IInv, TypeOK
    <2>5. /\ phase'[p] = IF l.hidden THEN "preloading" ELSE "loading"
          /\ \A q \in Pids : q # p => phase'[q] = phase[q]
      BY <2>1, <2>3, <2>4
    <2>6. /\ slot'[l.slot] = p
          /\ \A s \in Slots : s \notin Reach(l) => slot'[s] = slot[s]
      <3>1. taken \subseteq Reach(l) /\ l.slot \in Reach(l)
        BY DEF Reach
      <3> HIDE DEF taken
      <3> QED
        BY <2>1, <2>4, <3>1 DEF Without
    <2>7. Gates'
      <3>1. ASSUME NEW q \in Pids
            PROVE  /\ gate'[q] # "none" => phase'[q] \notin Answering
                   /\ gate'[q] = "ok" => phase'[q] # "broken"
        <4>1. CASE q = p
          BY <1>2, <2>3, <4>1
        <4>2. CASE q # p
          BY <1>2, <2>5, <4>2 DEF CInv, Gates
        <4> QED
          BY <4>1, <4>2
      <3> QED
        BY <3>1 DEF Gates, Answering
    <2>8. Whole' /\ Revealed'
      <3>1. Program(plan)' = Program(plan)
        BY <1>2, <2>1, ProgramStays
      <3>2. \A j \in todo' : j.do = "spawn" => j.launch # l
        BY <1>3, <2>1, ProgramIs DEF IInv, Running, OnPlan
      <3>3. Whole'
        BY <2>1, <3>1, <3>2 DEF CInv, Whole
      <3>4. Revealed'
        BY <2>1 DEF CInv, Revealed
      <3> QED
        BY <3>3, <3>4
    <2>9. Alone'
      <3>1. ASSUME NEW u \in open', NEW j \in todo', j.do = "wait", j.launch = u.launch,
                   NEW k \in todo', k.do \in {"spawn", "wait"}, k.launch.shared, k.launch # u.launch
            PROVE  ~Before(k, j)
        <4>1. j \in todo /\ k \in todo
          BY <2>1
        <4>2. CASE u \in open
          BY <3>1, <4>1, <4>2 DEF CInv, Alone
        <4>3. CASE u = t
          BY <2>2, <3>1, <4>1, <4>3, SpawnedAlone
        <4> QED
          BY <2>2, <4>2, <4>3
      <3> QED
        BY <3>1 DEF Alone
    <2>10. ASSUME NEW q \in Pids PROVE Attended(q)'
      <3>1. CASE q # p
        <4>1. Attended(q) /\ phase'[q] = phase[q] /\ gate'[q] = gate[q] /\ todo # {}
          BY <1>2, <1>3, <2>5, <3>1 DEF CInv
        <4>2. ASSUME NEW u \in open
              PROVE  /\ u \in open' /\ slot'[u.launch.slot] = slot[u.launch.slot]
                     /\ \A j \in todo : j.launch = u.launch => j \in todo'
          <5>1. u.launch \in Launched(plan) /\ u.launch # l
            BY <1>4
          <5>2. u.launch.slot \in Slots /\ u.launch.slot \in Reach(u.launch)
            <6>1. u.launch \in Launches
              BY <1>3, <5>1, ProgramIs
            <6> QED
              BY <6>1 DEF Launches, Reach
          <5>3. u.launch.slot \notin Reach(l)
            BY <1>3, <5>1, <5>2, ApartReach
          <5> QED
            BY <2>1, <2>2, <2>6, <5>1, <5>2, <5>3
        <4> QED
          BY <4>1, <4>2, StillAttended
      <3>2. CASE q = p
        <4>1. PICK k \in Program(plan) : k.do = "wait" /\ k.launch = l
          BY <1>3, LaunchSteps
        <4>2. k \in todo' /\ k.launch = t.launch
          BY <1>3, <2>1, <2>2, <4>1 DEF CInv, Whole
        <4>3. Pending("wait", t.launch)'
          BY <4>1, <4>2 DEF Pending
        <4>4. ASSUME t.launch.hidden PROVE Pending("reveal", t.launch)'
          <5>1. PICK m \in Program(plan) : m.do = "reveal" /\ m.launch = l
            BY <1>3, <2>2, <4>4, LaunchSteps
          <5>2. m \in todo' /\ m.launch = t.launch
            BY <1>3, <2>1, <2>2, <5>1 DEF CInv, Whole
          <5> QED
            BY <5>1, <5>2 DEF Pending
        <4>5. phase'[p] = IF t.launch.hidden THEN "preloading" ELSE "loading"
          BY <2>2, <2>5
        <4>6. Awaits(t.launch, p)'
          BY <4>3, <4>4, <4>5 DEF Awaits
        <4>7. t \in open' /\ t.pid = p /\ slot'[t.launch.slot] = p
          BY <2>2, <2>6
        <4>8. Attended(p)'
          BY <4>6, <4>7, Zenon DEF Attended
        <4> QED
          BY <3>2, <4>8
      <3> QED
        BY <3>1, <3>2
    <2> QED
      BY <2>7, <2>8, <2>9, <2>10 DEF CInv
  <1> QED
    BY <1>1, <1>5, <1>6, Zenon

LEMMA ReuseAttends ==
    ASSUME IInv, CInv, Reuse, IInv'
    PROVE  CInv'
  <1>1. PICK i \in Reached("spawn") :
          LET l == i.launch
              together == {j.launch : j \in {k \in todo : k.launch.keep = l.keep}}
          IN /\ l.keep # {} /\ \A s \in l.keep : Alive(s) /\ (s \in marks <=> l.scene)
             /\ \A t \in open : t.launch.keep # l.keep
             /\ \/ /\ todo' = {j \in todo : j.launch \notin together}
                   /\ plan' = [plan EXCEPT !.kept = @ \cup together]
                   /\ assigned' = IF plan.op = "reconcile" THEN HandedOver(plan, l) ELSE assigned
                \/ plan.op \in {"video", "we"} /\ GiveUp(l) /\ UNCHANGED assigned
    BY Zenon DEF Reuse
  <1>2. /\ slot' = slot /\ phase' = phase /\ gate' = gate /\ open' = open
        /\ prior' = prior /\ weRender' = weRender
    BY Zenon DEF Reuse, quiet
  <1> DEFINE l == i.launch
             together == {j.launch : j \in {k \in todo : k.launch.keep = l.keep}}
  <1>3. i \in todo /\ ~Idle /\ plan \in Plans /\ l \in Launched(plan)
    BY Takes
  <1>4. Gates'
    BY <1>2 DEF CInv, Gates, Answering
  <1>5. CASE /\ todo' = {j \in todo : j.launch \notin together}
             /\ plan' = [plan EXCEPT !.kept = @ \cup together]
    <2>1. \A j \in todo : j.launch \in together <=> j.launch.keep = l.keep
      OBVIOUS
    <2> HIDE DEF together
    <2>2. \A j \in todo : j \in todo' <=> j.launch.keep # l.keep
      BY <1>5, <2>1
    <2>3. Whole' /\ Alone' /\ Revealed'
      <3>1. Program(plan') = Program(plan)
        <4>1. /\ plan'.op = plan.op /\ plan'.want = plan.want /\ plan'.fill = plan.fill
              /\ plan'.fade = plan.fade /\ plan'.single = plan.single /\ plan'.fades = plan.fades
              /\ plan'.same = plan.same
          BY <1>3, <1>5 DEF Plans
        <4>2. ASSUME NEW s, s.op = plan.op, s.want = plan.want, s.fill = plan.fill,
                     s.fade = plan.fade, s.single = plan.single, s.fades = plan.fades,
                     s.same = plan.same
              PROVE  Program(s) = Program(plan)
          BY <4>2, SameProgram
        <4> QED
          BY <4>1, <4>2
      <3>2. todo' \subseteq todo
        BY <1>5
      <3> QED
        BY <1>2, <2>2, <3>1, <3>2, SomeDone
    <2>4. ASSUME NEW p \in Pids PROVE Attended(p)'
      <3>1. Attended(p) /\ todo # {}
        BY <1>3 DEF CInv
      <3>2. \A t \in open : \A j \in todo : j.launch = t.launch => j \in todo'
        BY <1>1, <2>2
      <3> QED
        BY <1>2, <3>1, <3>2, StillAttended
    <2> QED
      BY <1>4, <2>3, <2>4 DEF CInv
  <1>6. CASE plan.op \in {"video", "we"} /\ GiveUp(l)
    <2>1. ~l.shared
      BY <1>3, <1>6, SharedOnly
    <2>2. todo' = {}
      BY <1>6, <2>1 DEF GiveUp
    <2>3. \A p \in Pids : Attended(p)'
      BY <1>2, <2>2 DEF CInv, Attended, Unsettled, Answering
    <2> QED
      BY <1>4, <2>2, <2>3, NothingRemains DEF CInv
  <1> QED
    BY <1>1, <1>5, <1>6, Zenon

\* A transaction is dropped: the other candidates stay where they are.
LEMMA UndoneApart ==
    ASSUME IInv, NEW t \in open, Undo(t), NEW u \in open, NEW p \in Pids,
           u.pid = p, slot[u.launch.slot] = p, phase'[p] \in Unsettled
    PROVE  u # t /\ u \in open' /\ slot'[u.launch.slot] = p /\ phase'[p] = phase[p]
  <1>1. /\ open' = open \ {t} /\ Kill({slot[t.launch.slot]} \cap {t.pid})
        /\ slot' = [s \in Slots |-> IF s \in DOMAIN t.from THEN t.from[s]
                                    ELSE IF s = t.launch.slot /\ slot[s] = t.pid THEN Nobody
                                    ELSE slot[s]]
    BY DEF Undo
  <1>2. phase'[p] = phase[p] /\ p \notin {slot[t.launch.slot]} \cap {t.pid}
    BY <1>1, KillPhases DEF Unsettled, Answering
  <1>3. u # t
    BY <1>2
  <1>4. u.launch.slot \in Slots /\ DOMAIN t.from \subseteq Taken(t.launch)
    BY DEF IInv, TypeOK, Transactions, Launches
  <1>5. u.launch.slot \notin Reach(t.launch)
    BY <1>3, OpenApart DEF Reach
  <1>6. slot'[u.launch.slot] = slot[u.launch.slot]
    BY <1>1, <1>4, <1>5 DEF Reach
  <1> QED
    BY <1>1, <1>2, <1>3, <1>6

LEMMA WaitAttends ==
    ASSUME IInv, CInv, Wait
    PROVE  CInv'
  <1>1. PICK i \in Reached("wait") \cup Reached("answer") : \E t \in Of(i.launch) :
          \/ /\ gate[t.pid] = "ok" /\ CandidateAlive(t) /\ Step(i)
             /\ gate' = [gate EXCEPT ![t.pid] = "none"] /\ UNCHANGED <<slot, marks, phase, role, open>>
          \/ /\ Unready(t.pid) \/ CandidateGone(t)
             /\ IF i.do = "wait" /\ t.launch.shared THEN GiveUp(t.launch) /\ Undo(t)
                ELSE /\ todo' = {} /\ gate' = [gate EXCEPT ![t.pid] = "none"]
                     /\ UNCHANGED <<plan, slot, marks, phase, role, open>>
    BY Zenon DEF Wait
  <1>2. PICK t \in Of(i.launch) :
          \/ /\ gate[t.pid] = "ok" /\ CandidateAlive(t) /\ Step(i)
             /\ gate' = [gate EXCEPT ![t.pid] = "none"] /\ UNCHANGED <<slot, marks, phase, role, open>>
          \/ /\ Unready(t.pid) \/ CandidateGone(t)
             /\ IF i.do = "wait" /\ t.launch.shared THEN GiveUp(t.launch) /\ Undo(t)
                ELSE /\ todo' = {} /\ gate' = [gate EXCEPT ![t.pid] = "none"]
                     /\ UNCHANGED <<plan, slot, marks, phase, role, open>>
    BY <1>1, Zenon
  <1>3. prior' = prior /\ weRender' = weRender
    BY Zenon DEF Wait, quiet
  <1>4. /\ i \in todo /\ i.do \in {"wait", "answer"} /\ ~Idle /\ plan \in Plans
        /\ t \in open /\ t.launch = i.launch /\ TypeOK
    <2>1. /\ i \in todo /\ i.do \in {"wait", "answer"} /\ ~Idle /\ plan \in Plans
      BY Takes
    <2> QED
      BY <2>1 DEF Of, IInv
  <1>5. CASE gate' = [gate EXCEPT ![t.pid] = "none"] /\ phase' = phase /\ open' = open /\ slot' = slot
             /\ \/ todo' = {}
                \/ gate[t.pid] = "ok" /\ slot[t.launch.slot] = t.pid /\ todo' = todo \ {i} /\ plan' = plan
    <2>1. Gates'
      <3>1. \A p \in Pids : gate'[p] \in {gate[p], "none"} /\ phase'[p] = phase[p]
        BY <1>4, <1>5 DEF TypeOK
      <3> QED
        BY <3>1, GatesKept DEF CInv
    <2>2. CASE todo' = {}
      <3>1. \A p \in Pids : Attended(p)'
        BY <1>5, <2>2 DEF CInv, Attended, Unsettled, Answering
      <3> QED
        BY <2>1, <2>2, <3>1, NothingRemains DEF CInv
    <2>3. CASE gate[t.pid] = "ok" /\ slot[t.launch.slot] = t.pid /\ todo' = todo \ {i} /\ plan' = plan
      <3>1. Whole' /\ Alone' /\ Revealed'
        <4>1. \A k \in todo : k.do = "spawn" => k.launch # i.launch
          BY <1>4 DEF IInv, Running, Of
        <4> QED
          BY <1>3, <1>5, <2>3, <4>1, SomeDone
      <3>2. ASSUME NEW p \in Pids PROVE Attended(p)'
        <4>0. Attended(p) /\ todo # {} /\ phase'[p] = phase[p]
          BY <1>4, <1>5 DEF CInv
        <4>1. CASE p = t.pid /\ phase[p] \in Unsettled
          <5>1. phase[p] = "hidden"
            BY <2>3, <4>1 DEF CInv, Gates, Unsettled
          <5>2. PICK u \in open : u.pid = p /\ slot[u.launch.slot] = p /\ Awaits(u.launch, p)
            BY <4>0, <4>1 DEF Attended
          <5>3. PICK j \in todo : j.do = "reveal" /\ j.launch = u.launch
            BY <5>1, <5>2 DEF Awaits, Pending
          <5>4. j \in todo' /\ u.launch.hidden
            BY <1>4, <2>3, <5>1, <5>2, <5>3 DEF Awaits
          <5>5. Awaits(u.launch, p)'
            BY <4>0, <5>1, <5>3, <5>4 DEF Awaits, Pending
          <5> QED
            BY <1>5, <5>2, <5>5, Zenon DEF Attended
        <4>2. CASE phase[p] \notin Unsettled
          BY <4>0, <4>2 DEF Attended, Unsettled, Answering
        <4>3. CASE p # t.pid
          <5>1. gate'[p] = gate[p]
            BY <1>4, <1>5, <4>3 DEF TypeOK
          <5>2. \A u \in open : u.pid = p => u.launch # i.launch
            BY <1>4, <4>3 DEF IInv, Transactions
          <5> QED
            BY <1>5, <2>3, <4>0, <5>1, <5>2, StillAttended
        <4> QED
          BY <4>1, <4>2, <4>3
      <3> QED
        BY <2>1, <3>1, <3>2 DEF CInv
    <2> QED
      BY <1>5, <2>2, <2>3
  <1>6. CASE i.do = "wait" /\ t.launch.shared /\ GiveUp(t.launch) /\ Undo(t)
    <2>0. i \in Reached("spawn") \cup Reached("wait") /\ i.launch.shared /\ GiveUp(i.launch)
      BY <1>4, <1>6 DEF Reached
    <2>1. Whole' /\ Alone' /\ Revealed'
      BY <1>3, <1>6, <2>0, GivenUpProgram DEF Undo
    <2>2. Gates'
      <3>1. \A p \in Pids : gate'[p] \in {gate[p], "none"}
        BY <1>4, <1>6 DEF TypeOK, Undo
      <3>2. \A p \in Pids : phase'[p] \in {phase[p], "free"}
        BY <1>6, KillPhases DEF Undo
      <3> QED
        BY <3>1, <3>2, GatesKept DEF CInv
    <2>3. ASSUME NEW p \in Pids, phase'[p] \in Unsettled
          PROVE  \E u \in open' : u.pid = p /\ slot'[u.launch.slot] = p /\ Awaits(u.launch, p)'
      <3>1. phase'[p] = phase[p]
        BY <1>6, <2>3, KillPhases DEF Undo, Unsettled, Answering
      <3>2. PICK u \in open : u.pid = p /\ slot[u.launch.slot] = p /\ Awaits(u.launch, p)
        BY <1>4, <2>3, <3>1 DEF CInv, Attended
      <3>3. u # t /\ u \in open' /\ slot'[u.launch.slot] = p
        BY <1>4, <1>6, <2>3, <3>2, UndoneApart
      <3>4. u.launch # i.launch
        BY <1>4, <3>3 DEF IInv, Transactions
      <3>5. Awaits(u.launch, p)'
        BY <2>0, <2>3, <3>1, <3>2, <3>4, GivenUpAwaits
      <3> QED
        BY <3>2, <3>3, <3>5
    <2>4. \A p \in Pids : Attended(p)'
      BY <2>3 DEF Attended, Unsettled, Answering
    <2> QED
      BY <2>1, <2>2, <2>4 DEF CInv
  <1> QED
    BY <1>2, <1>5, <1>6 DEF Step, CandidateAlive

LEMMA RevealAttends ==
    ASSUME IInv, CInv, Reveal
    PROVE  CInv'
  <1>1. PICK i \in Reached("reveal") : \E t \in Of(i.launch) :
          \/ ~t.launch.hidden /\ Step(i) /\ UNCHANGED <<gate, phase>>
          \/ /\ t.launch.hidden /\ gate' = [gate EXCEPT ![t.pid] = "none"]
             /\ \/ /\ slot[t.launch.slot] = t.pid
                   /\ phase' = [phase EXCEPT ![t.pid] = IF @ = "hidden" THEN "revealing" ELSE @]
                   /\ todo' = (todo \ {i}) \cup {[i EXCEPT !.do = "answer"]} /\ UNCHANGED plan
                \/ todo' = {} /\ UNCHANGED <<plan, phase>>
    BY Zenon DEF Reveal
  <1>2. PICK t \in Of(i.launch) :
          \/ ~t.launch.hidden /\ Step(i) /\ UNCHANGED <<gate, phase>>
          \/ /\ t.launch.hidden /\ gate' = [gate EXCEPT ![t.pid] = "none"]
             /\ \/ /\ slot[t.launch.slot] = t.pid
                   /\ phase' = [phase EXCEPT ![t.pid] = IF @ = "hidden" THEN "revealing" ELSE @]
                   /\ todo' = (todo \ {i}) \cup {[i EXCEPT !.do = "answer"]} /\ UNCHANGED plan
                \/ todo' = {} /\ UNCHANGED <<plan, phase>>
    BY <1>1, Zenon
  <1>3. slot' = slot /\ open' = open /\ prior' = prior /\ weRender' = weRender
    BY Zenon DEF Reveal, quiet
  <1>4. /\ i \in todo /\ i.do = "reveal" /\ ~Idle /\ plan \in Plans /\ TypeOK
        /\ i \in Instructions /\ t \in open /\ t.launch = i.launch
    BY Takes DEF IInv, TypeOK, Of
  <1>5. \A k \in todo : k.do = "spawn" => k.launch # i.launch
    BY <1>4 DEF IInv, Running, Of
  <1>6. \A j \in todo : j.do \notin {"spawn", "wait"}
    <2>1. SUFFICES ASSUME NEW j \in todo PROVE j.do \notin {"spawn", "wait"}
      OBVIOUS
    <2>2. i.stage <= j.stage
      BY ReachedFirst
    <2>3. i.stage = FirstAnswer(plan) /\ FirstAnswer(plan) \in Nat /\ j.stage \in Nat
      BY <1>4, TodoOrder
    <2>4. ~(j.stage < FirstAnswer(plan))
      BY <2>2, <2>3
    <2> QED
      BY <2>4, TodoOrder
  <1>7. \A j \in todo : j.do = "answer" => j.launch # i.launch
    <2>1. SUFFICES ASSUME NEW j \in todo, j.do = "answer", j.launch = i.launch PROVE FALSE
      OBVIOUS
    <2>2. j.stage = i.stage /\ j.half = i.half /\ i.stage \in Nat /\ i.half = 1
      BY <1>4, <2>1, TodoOrder
    <2>3. Before(i, j)
      BY <1>4, <2>1, ReachedFirst
    <2> QED
      BY <2>1, <2>2, <2>3 DEF Before
  <1>8. CASE todo' = {} /\ phase' = phase
    <2>1. \A p \in Pids : gate'[p] \in {gate[p], "none"}
      BY <1>2, <1>4 DEF TypeOK
    <2>2. Gates'
      BY <1>8, <2>1, GatesKept DEF CInv
    <2>3. \A p \in Pids : Attended(p)'
      BY <1>3, <1>8 DEF CInv, Attended, Unsettled, Answering
    <2> QED
      BY <1>8, <2>2, <2>3, NothingRemains DEF CInv
  <1>9. CASE ~t.launch.hidden /\ todo' = todo \ {i} /\ plan' = plan /\ gate' = gate /\ phase' = phase
    <2>1. Gates'
      BY <1>9, GatesKept DEF CInv
    <2>2. Whole' /\ Alone' /\ Revealed'
      BY <1>3, <1>5, <1>9, SomeDone
    <2>3. ASSUME NEW p \in Pids, phase'[p] \in Unsettled
          PROVE  \E u \in open' : u.pid = p /\ slot'[u.launch.slot] = p /\ Awaits(u.launch, p)'
      <3>1. PICK u \in open : u.pid = p /\ slot[u.launch.slot] = p /\ Awaits(u.launch, p)
        BY <1>4, <1>9, <2>3 DEF CInv, Attended
      <3>2. phase[p] \in {"preloading", "hidden"} => u.launch # i.launch
        BY <1>4, <1>9, <3>1 DEF Awaits
      <3>3. Awaits(u.launch, p)'
        BY <1>4, <1>9, <3>1, <3>2 DEF Awaits, Pending
      <3> QED
        BY <1>3, <3>1, <3>3
    <2>4. \A p \in Pids : Attended(p)'
      BY <2>3 DEF Attended, Unsettled, Answering
    <2> QED
      BY <2>1, <2>2, <2>4 DEF CInv
  <1>10. CASE /\ t.launch.hidden /\ gate' = [gate EXCEPT ![t.pid] = "none"]
              /\ slot[t.launch.slot] = t.pid
              /\ phase' = [phase EXCEPT ![t.pid] = IF @ = "hidden" THEN "revealing" ELSE @]
              /\ todo' = (todo \ {i}) \cup {[i EXCEPT !.do = "answer"]} /\ plan' = plan
    <2>0. PICK a : a.do = "answer" /\ a.launch = i.launch /\ todo' = (todo \ {i}) \cup {a}
      <3> DEFINE b == [i EXCEPT !.do = "answer"]
      <3>1. b.do = "answer" /\ b.launch = i.launch /\ todo' = (todo \ {i}) \cup {b}
        BY <1>4, <1>10 DEF Instructions
      <3> QED
        BY <3>1
    <2>1. t.pid \in Pids /\ gate \in [Pids -> {"none", "ok", "err"}] /\ phase \in [Pids -> Phases]
      BY <1>4 DEF TypeOK
    <2>2. /\ gate'[t.pid] = "none" /\ \A p \in Pids : p # t.pid => gate'[p] = gate[p] /\ phase'[p] = phase[p]
          /\ phase'[t.pid] = IF phase[t.pid] = "hidden" THEN "revealing" ELSE phase[t.pid]
      BY <1>10, <2>1
    <2>3. Gates'
      BY <2>2 DEF CInv, Gates, Answering
    <2>4. Whole' /\ Alone' /\ Revealed'
      <3>1. \A j \in todo' : j.do \notin {"spawn", "wait"}
        BY <1>6, <2>0
      <3> QED
        BY <3>1 DEF Whole, Alone, Revealed
    <2>5. ASSUME NEW p \in Pids, phase'[p] \in Unsettled
          PROVE  \E u \in open' : u.pid = p /\ slot'[u.launch.slot] = p /\ Awaits(u.launch, p)'
      <3>1. phase[p] \in Unsettled
        BY <2>2, <2>5 DEF Unsettled
      <3>2. PICK u \in open : u.pid = p /\ slot[u.launch.slot] = p /\ Awaits(u.launch, p)
        BY <1>4, <3>1 DEF CInv, Attended
      <3>3. ~Pending("wait", u.launch)
        BY <1>6 DEF Pending
      <3>4. CASE u = t
        <4>1. ~Pending("answer", u.launch)
          BY <1>4, <1>7, <3>4 DEF Pending
        <4>2. phase[p] = "hidden"
          BY <3>1, <3>2, <3>3, <4>1 DEF Awaits, Unsettled, Answering
        <4>3. phase'[p] = "revealing" /\ p = t.pid
          BY <2>2, <3>2, <3>4, <4>2
        <4>4. Pending("answer", u.launch)'
          BY <1>4, <2>0, <3>4 DEF Pending
        <4>5. Awaits(u.launch, p)'
          BY <4>3, <4>4 DEF Awaits
        <4> QED
          BY <1>3, <3>2, <4>5
      <3>5. CASE u # t
        <4>1. u.launch # i.launch
          BY <1>4, <3>5 DEF IInv, Transactions
        <4>2. p # t.pid
          <5>1. u.launch.slot # t.launch.slot
            BY <1>4, <3>5, OpenApart DEF Reach
          <5>2. u.launch.slot \in Slots /\ t.launch.slot \in Slots
            BY <1>4 DEF TypeOK, Launches
          <5> QED
            BY <1>10, <3>2, <5>1, <5>2, NobodyIs DEF IInv, Once
        <4>3. \A j \in todo : j.launch = u.launch => j \in todo'
          BY <2>0, <4>1
        <4>4. Awaits(u.launch, p)'
          BY <2>2, <3>2, <4>2, <4>3 DEF Awaits, Pending
        <4> QED
          BY <1>3, <3>2, <4>4
      <3> QED
        BY <3>4, <3>5
    <2>6. \A p \in Pids : Attended(p)'
      BY <2>5 DEF Attended, Unsettled, Answering
    <2> QED
      BY <2>3, <2>4, <2>6 DEF CInv
  <1> QED
    BY <1>2, <1>8, <1>9, <1>10 DEF Step

\* Slots are emptied, processes end and gates are reset: what a candidate in its
\* slot waits for remains.
LEMMA EndsAttend ==
    ASSUME CInv, todo' = todo \/ todo' = {}, gate' = gate,
           \A p \in Pids : phase'[p] \in Unsettled => phase'[p] = phase[p] /\ \A t \in open :
               t.pid = p /\ slot[t.launch.slot] = p => t \in open' /\ slot'[t.launch.slot] = p
    PROVE  \A p \in Pids : Attended(p)'
  <1> SUFFICES ASSUME NEW p \in Pids PROVE Attended(p)'
    OBVIOUS
  <1>1. Attended(p) /\ (todo = {} => todo' = {})
    BY DEF CInv
  <1> QED
    BY <1>1, StillAttended

LEMMA PrepareAttends ==
    ASSUME IInv, CInv, Prepare
    PROVE  CInv'
  <1>1. PICK i \in Reached("prepare") \cup Reached("start") : \E t \in Of(i.launch) :
          \/ CandidateAlive(t) /\ Step(i)
          \/ /\ CandidateGone(t) \/ i.do = "start"
             /\ todo' = {} /\ UNCHANGED plan
    BY Zenon DEF Prepare
  <1>2. todo' \in {todo \ {i}, {}} /\ plan' = plan
    BY <1>1 DEF Step
  <1>3. slot' = slot /\ phase' = phase /\ gate' = gate /\ open' = open /\ prior' = prior /\ weRender' = weRender
    BY Zenon DEF Prepare, quiet
  <1>4. i \in todo /\ i.do \in {"prepare", "start"} /\ ~Idle
    BY Takes
  <1>5. Gates'
    BY <1>3 DEF CInv, Gates, Answering
  <1>6. Whole' /\ Alone' /\ Revealed'
    <2>1. \A k \in todo : k.do = "spawn" => k.launch # i.launch
      BY <1>1, <1>4 DEF IInv, Running, Of
    <2> QED
      BY <1>2, <1>3, <2>1, SomeDone
  <1>7. ASSUME NEW p \in Pids PROVE Attended(p)'
    <2>1. Attended(p) /\ todo # {}
      BY <1>4 DEF CInv
    <2>2. todo' = {} \/ \A j \in todo : j.do \in {"wait", "reveal", "answer"} => j \in todo'
      BY <1>2, <1>4
    <2> QED
      BY <1>3, <2>1, <2>2, StillAttended
  <1> QED
    BY <1>5, <1>6, <1>7 DEF CInv

LEMMA CommitAttends ==
    ASSUME IInv, CInv, Commit
    PROVE  CInv'
  <1>0. PICK i \in Reached("commit") : \E t \in Of(i.launch) :
          /\ open' = open \ {t} /\ Kill(Range(t.from)) /\ Step(i)
    BY Zenon DEF Commit
  <1>1. PICK t \in Of(i.launch) : open' = open \ {t} /\ Kill(Range(t.from)) /\ Step(i)
    BY <1>0, Zenon
  <1>2. gate' = gate /\ prior' = prior /\ weRender' = weRender /\ todo' = todo \ {i} /\ plan' = plan
    BY <1>1 DEF Commit, Step
  <1>7. Committing
    BY CommitsLast
  <1>3. /\ \A j \in todo : j.do \in {"commit", "tail"}
        /\ \A p \in Pids : phase[p] \notin Unsettled
    BY <1>7, AllSettled DEF Committing
  <1>4. \A p \in Pids : phase'[p] \in {phase[p], "free"}
    BY <1>1, KillPhases
  <1>5. Gates'
    BY <1>2, <1>4, GatesKept DEF CInv
  <1>6. Whole' /\ Alone' /\ Revealed'
    BY <1>1, <1>2, <1>3, SomeDone
  <1>8. \A p \in Pids : Attended(p)'
    BY <1>3, <1>4 DEF Attended, Unsettled, Answering
  <1> QED
    BY <1>5, <1>6, <1>8 DEF CInv

LEMMA TidyAttends ==
    ASSUME IInv, CInv, Tidy
    PROVE  CInv'
  <1>1. todo' = {} /\ gate' = gate /\ Reached("tail") # {} /\ Kill(In(Emptied(plan) \ Deferred(plan)))
    BY Zenon DEF Tidy
  <1>2. \A p \in Pids : phase[p] \notin Unsettled
    BY <1>1, CommitsLast, AllSettled
  <1>3. \A p \in Pids : phase'[p] \in {phase[p], "free"}
    BY <1>1, KillPhases
  <1>4. Gates'
    BY <1>1, <1>3, GatesKept DEF CInv
  <1>5. \A p \in Pids : Attended(p)'
    BY <1>2, <1>3 DEF Attended, Unsettled, Answering
  <1> QED
    BY <1>1, <1>4, <1>5, NothingRemains DEF CInv

LEMMA DropAttends ==
    ASSUME IInv, CInv, Drop
    PROVE  CInv'
  <1>1. PICK t \in open : Undo(t)
    BY DEF Drop
  <1>2. todo = {} /\ todo' = {}
    BY DEF Drop
  <1>3. Gates'
    <2>1. \A p \in Pids : gate'[p] \in {gate[p], "none"}
      BY <1>1 DEF Undo, IInv, TypeOK
    <2>2. \A p \in Pids : phase'[p] \in {phase[p], "free"}
      BY <1>1, KillPhases DEF Undo
    <2> QED
      BY <2>1, <2>2, GatesKept DEF CInv
  <1>4. ASSUME NEW p \in Pids PROVE Attended(p)'
    <2>1. ASSUME phase'[p] \in Unsettled, NEW u \in open, u.pid = p, slot[u.launch.slot] = p
          PROVE  u \in open' /\ slot'[u.launch.slot] = p
      BY <1>1, <2>1, UndoneApart
    <2>2. phase'[p] \in Unsettled => phase'[p] = phase[p]
      BY <1>1, KillPhases DEF Undo, Unsettled, Answering
    <2>3. Attended(p)
      BY DEF CInv
    <2> QED
      BY <1>2, <2>1, <2>2, <2>3, StillAttended
  <1> QED
    BY <1>2, <1>3, <1>4, NothingRemains DEF CInv

LEMMA FailAttends ==
    ASSUME IInv, CInv, Fail
    PROVE  CInv'
  <1>1. /\ todo = {} /\ todo' = {} /\ slot' = slot /\ phase' = phase /\ gate' = gate /\ open' = open
    BY Zenon DEF Fail, quiet
  <1>2. Gates'
    BY <1>1, GatesKept DEF CInv
  <1>3. \A p \in Pids : Attended(p)'
    BY <1>1, EndsAttend
  <1> QED
    BY <1>1, <1>2, <1>3, NothingRemains DEF CInv

LEMMA SignalAttends ==
    ASSUME IInv, CInv, NEW p \in Pids, NEW result \in {"ok", "err"}, Signal(p, result)
    PROVE  CInv'
  <1>1. /\ phase[p] \in Answering
        /\ gate' = [gate EXCEPT ![p] = IF @ = "none" THEN result ELSE @]
        /\ phase' = [phase EXCEPT ![p] = IF result = "err" THEN "broken"
                                         ELSE IF @ = "preloading" THEN "hidden" ELSE "up"]
        /\ slot' = slot /\ open' = open /\ plan' = plan /\ todo' = todo /\ prior' = prior
        /\ weRender' = weRender
    BY Zenon DEF Signal, program, quiet
  <1>2. gate[p] = "none" /\ phase \in [Pids -> Phases] /\ gate \in [Pids -> {"none", "ok", "err"}]
    BY <1>1 DEF CInv, Gates, IInv, TypeOK
  <1>3. /\ gate'[p] = result
        /\ phase'[p] = IF result = "err" THEN "broken" ELSE IF phase[p] = "preloading" THEN "hidden" ELSE "up"
        /\ \A q \in Pids : q # p => gate'[q] = gate[q] /\ phase'[q] = phase[q]
    BY <1>1, <1>2
  <1>4. Gates'
    <2>1. ASSUME NEW q \in Pids
          PROVE  /\ gate'[q] # "none" => phase'[q] \notin Answering
                 /\ gate'[q] = "ok" => phase'[q] # "broken"
      <3>1. CASE q = p
        BY <1>3, <3>1 DEF Answering
      <3>2. CASE q # p
        BY <1>3, <3>2 DEF CInv, Gates
      <3> QED
        BY <3>1, <3>2
    <2> QED
      BY <2>1 DEF Gates, Answering
  <1>5. Whole' /\ Alone' /\ Revealed'
    BY <1>1, NothingDone
  <1>6. ASSUME NEW q \in Pids PROVE Attended(q)'
    <2>1. Attended(q)
      BY DEF CInv
    <2>2. CASE q # p
      BY <1>1, <1>3, <2>1, <2>2, StillAttended
    <2>3. CASE q = p
      <3>1. PICK t \in open : t.pid = p /\ slot[t.launch.slot] = p /\ (todo # {} => Awaits(t.launch, p))
        BY <1>1, <2>1, <2>3 DEF Attended, Unsettled
      <3>2. ASSUME todo # {} PROVE Awaits(t.launch, p)'
        <4>1. Awaits(t.launch, p)
          BY <3>1, <3>2
        <4>2. CASE phase[p] = "loading"
          BY <1>1, <1>3, <4>1, <4>2 DEF Awaits, Pending
        <4>3. CASE phase[p] = "preloading"
          BY <1>1, <1>3, <4>1, <4>3 DEF Awaits, Pending
        <4>4. CASE phase[p] = "revealing"
          BY <1>1, <1>3, <4>1, <4>4 DEF Awaits, Pending
        <4> QED
          BY <1>1, <4>2, <4>3, <4>4 DEF Answering
      <3>3. Attended(p)'
        BY <1>1, <3>1, <3>2, Zenon DEF Attended
      <3> QED
        BY <2>3, <3>3
    <2> QED
      BY <2>2, <2>3
  <1> QED
    BY <1>4, <1>5, <1>6 DEF CInv

LEMMA ExitAttends ==
    ASSUME IInv, CInv, NEW p \in Pids, Exit(p)
    PROVE  CInv'
  <1>1. /\ phase' = [phase EXCEPT ![p] = "dead"]
        /\ slot' = slot /\ open' = open /\ plan' = plan /\ todo' = todo /\ prior' = prior
        /\ weRender' = weRender /\ gate' = gate
    BY Zenon DEF Exit, program
  <1>2. \A q \in Pids : phase'[q] = IF q = p THEN "dead" ELSE phase[q]
    BY <1>1 DEF IInv, TypeOK
  <1>3. Gates'
    BY <1>1, <1>2, GatesKept DEF CInv
  <1>4. Whole' /\ Alone' /\ Revealed'
    BY <1>1, NothingDone
  <1>5. \A q \in Pids : Attended(q)'
    BY <1>1, <1>2, EndsAttend DEF Unsettled, Answering
  <1> QED
    BY <1>3, <1>4, <1>5 DEF CInv

\* Slots are emptied and their processes killed, or processes killed that have none.
LEMMA CollectedAttend ==
    ASSUME IInv, CInv, NEW S, NEW ps, Kill(ps), slot' = Without(S) \/ slot' = slot, In(S) \subseteq ps,
           gate' = gate, open' = open, plan' = plan, todo' = todo, weRender' = weRender,
           prior' = prior \/ todo = {}
    PROVE  CInv'
  <1>1. \A p \in Pids : phase'[p] = IF p \in ps THEN "free" ELSE phase[p]
    BY KillPhases
  <1>2. Gates'
    BY <1>1, GatesKept DEF CInv
  <1>3. Whole' /\ Alone' /\ Revealed'
    BY NothingDone, NothingRemains
  <1>4. ASSUME NEW p \in Pids, phase'[p] \in Unsettled
        PROVE  /\ phase'[p] = phase[p]
               /\ \A t \in open : t.pid = p /\ slot[t.launch.slot] = p => slot'[t.launch.slot] = p
    <2>1. p \notin ps /\ phase'[p] = phase[p]
      BY <1>1, <1>4 DEF Unsettled, Answering
    <2>2. ASSUME NEW t \in open, slot[t.launch.slot] = p PROVE slot'[t.launch.slot] = p
      <3>1. t.launch.slot \in Slots
        BY DEF IInv, TypeOK, Launches
      <3>2. t.launch.slot \notin S
        BY <2>1, <2>2, NobodyIs DEF In
      <3> QED
        BY <2>2, <3>1, <3>2 DEF Without
    <2> QED
      BY <2>1, <2>2
  <1>5. \A p \in Pids : Attended(p)'
    BY <1>4, EndsAttend
  <1> QED
    BY <1>2, <1>3, <1>5 DEF CInv

LEMMA CollectorsAttend ==
    ASSUME IInv, CInv, Reap \/ Hotplug \/ (\E p \in Pids : RetirePaper(p) \/ ReleaseDeferred(p))
    PROVE  CInv'
  <1>1. CASE Reap
    <2>1. PICK S \in {{Paper}, Installed} :
            LET exited == {s \in S : slot[s] # Nobody /\ ~Alive(s)} IN
            slot' = Without(exited) /\ Kill(In(exited))
      BY <1>1, Zenon DEF Reap
    <2>2. gate' = gate /\ open' = open /\ plan' = plan /\ todo' = todo /\ prior' = prior /\ weRender' = weRender
      BY <1>1, Zenon DEF Reap, quiet
    <2> QED
      BY <2>1, <2>2, CollectedAttend
  <1>2. CASE Hotplug
    <2>1. /\ gate' = gate /\ open' = open /\ plan' = plan /\ todo' = todo /\ weRender' = weRender
          /\ Idle /\ todo = {}
      BY <1>2, Zenon DEF Hotplug
    <2>2. \E S : slot' = Without(S) /\ Kill(In(S))
      BY <1>2, Zenon DEF Hotplug
    <2> QED
      BY <2>1, <2>2, CollectedAttend
  <1>3. CASE \E p \in Pids : RetirePaper(p)
    <2>1. PICK p \in Pids : RetirePaper(p)
      BY <1>3
    <2>2. gate' = gate /\ open' = open /\ plan' = plan /\ todo' = todo /\ prior' = prior /\ weRender' = weRender
      BY <2>1, Zenon DEF RetirePaper
    <2>3. \/ slot[Paper] = p /\ slot' = Without({Paper}) /\ Kill({p})
          \/ slot' = slot /\ phase' = phase /\ role' = role
      BY <2>1 DEF RetirePaper
    <2>4. CASE slot[Paper] = p /\ slot' = Without({Paper}) /\ Kill({p})
      <3>1. In({Paper}) \subseteq {p}
        BY <2>4 DEF In
      <3> QED
        BY <2>2, <2>4, <3>1, CollectedAttend
    <2>5. CASE slot' = slot /\ phase' = phase /\ role' = role
      <3>1. Gates'
        BY <2>2, <2>5, GatesKept DEF CInv
      <3>2. Whole' /\ Alone' /\ Revealed'
        BY <2>2, NothingDone
      <3>3. \A q \in Pids : Attended(q)'
        BY <2>2, <2>5, EndsAttend
      <3> QED
        BY <3>1, <3>2, <3>3 DEF CInv
    <2> QED
      BY <2>3, <2>4, <2>5
  <1>4. CASE \E p \in Pids : ReleaseDeferred(p)
    <2>1. PICK p \in Pids : ReleaseDeferred(p)
      BY <1>4
    <2>2. /\ gate' = gate /\ open' = open /\ plan' = plan /\ todo' = todo /\ prior' = prior
          /\ weRender' = weRender /\ slot' = slot /\ Kill({p})
      BY <2>1, Zenon DEF ReleaseDeferred, program
    <2>3. In({}) \subseteq {p}
      BY DEF In
    <2> QED
      BY <2>2, <2>3, CollectedAttend
  <1> QED
    BY <1>1, <1>2, <1>3, <1>4

LEMMA CandidatesInitially == Init => CInv
  BY DEF Init, CInv, Gates, Whole, Alone, Revealed, Attended, Unsettled, Answering

LEMMA CandidatesPreserved == IInv /\ CInv /\ [Next]_vars => CInv'
  <1> SUFFICES ASSUME IInv, CInv, [Next]_vars PROVE CInv'
    OBVIOUS
  <1>0. IInv'
    BY Preserved
  <1>1. CASE \E q \in Requests : Start(q)
    BY <1>0, <1>1, StartAttends
  <1>2. CASE Spawn
    BY <1>2, SpawnAttends
  <1>3. CASE Reuse
    BY <1>0, <1>3, ReuseAttends
  <1>4. CASE Wait
    BY <1>4, WaitAttends
  <1>5. CASE Reveal
    BY <1>5, RevealAttends
  <1>6. CASE Prepare
    BY <1>6, PrepareAttends
  <1>7. CASE Commit
    BY <1>7, CommitAttends
  <1>8. CASE Tidy
    BY <1>8, TidyAttends
  <1>9. CASE Drop
    BY <1>9, DropAttends
  <1>10. CASE Fail
    BY <1>10, FailAttends
  <1>11. CASE \E p \in Pids : \E result \in {"ok", "err"} : Signal(p, result)
    BY <1>11, SignalAttends
  <1>12. CASE \E p \in Pids : Exit(p)
    BY <1>12, ExitAttends
  <1>13. CASE \E p \in Pids : RetirePaper(p) \/ ReleaseDeferred(p)
    BY <1>13, CollectorsAttend
  <1>14. CASE Reap \/ Hotplug
    BY <1>14, CollectorsAttend
  <1>15. CASE UNCHANGED vars
    <2>1. /\ slot' = slot /\ phase' = phase /\ gate' = gate /\ open' = open /\ plan' = plan
          /\ todo' = todo /\ prior' = prior /\ weRender' = weRender
      BY <1>15, Zenon DEF vars
    <2>2. Gates'
      BY <2>1, GatesKept DEF CInv
    <2>3. Whole' /\ Alone' /\ Revealed'
      BY <2>1, NothingDone
    <2>4. \A q \in Pids : Attended(q)'
      BY <2>1, EndsAttend
    <2> QED
      BY <2>2, <2>3, <2>4 DEF CInv
  <1> QED
    BY <1>1, <1>2, <1>3, <1>4, <1>5, <1>6, <1>7, <1>8, <1>9, <1>10, <1>11, <1>12, <1>13,
       <1>14, <1>15, Zenon DEF Next, Run

--------------------------------------------------------------------------------
(* What a request covers *)

\* Each output that a request is made for is served by a launch of its kind.
Fits(l, r, o) == o \in l.serves /\ (l.scene <=> Kind[r.want[o]] = "we")

LEMMA SceneServes ==
    ASSUME NEW r \in Plans, NEW o \in DOMAIN r.want, Kind[r.want[o]] = "we"
    PROVE  \E l \in Scenes(r) : o \in l.serves /\ l.scene
  <1> DEFINE G == Alike(r, o)
             K == IF r.op = "we" THEN {<<"video", G>>}
                  ELSE IF weRender = WeGroups(r) THEN {<<"video", H>> : H \in SceneGroups(r)}
                  ELSE {}
             l == [Launch(<<"video", G>>, G) EXCEPT !.scene = TRUE, !.keep = K]
  <1>1. G \in SceneGroups(r)
    BY DEF SceneGroups, Wanting
  <1>2. l \in Scenes(r)
    BY <1>1, Zenon DEF Scenes
  <1>3. o \in G
    BY PlanIs
  <1> HIDE DEF K, G
  <1>4. l.serves = G /\ l.scene
    BY DEF Launch, NoLaunch
  <1> QED
    BY <1>2, <1>3, <1>4

LEMMA HandoffCovers ==
    ASSUME NEW r \in Plans, NEW o \in DOMAIN r.want, Kind[r.want[o]] \in {"static", "video"}
    PROVE  \E l \in Handoffs(r) : o \in l.serves /\ ~l.scene
  <1>1. /\ DOMAIN r.want \subseteq Outputs /\ \A k : Wanting(r, k) \subseteq DOMAIN r.want
        /\ SharedStills(r) \subseteq Groups /\ {o} \in Groups /\ o \in Outputs
    BY PlanIs, SharedIs DEF Groups
  <1>2. CASE Kind[r.want[o]] = "static" /\ o \in UNION SharedStills(r)
    <2>1. PICK G \in SharedStills(r) : o \in G
      BY <1>2
    <2>2. Still(r, G) \in Handoffs(r)
      BY <2>1 DEF Handoffs
    <2>3. Still(r, G).serves = G /\ Still(r, G).scene = FALSE
      BY <1>1, <2>1, StillIs
    <2> QED
      BY <2>1, <2>2, <2>3
  <1>3. CASE Kind[r.want[o]] = "static" /\ o \notin UNION SharedStills(r)
    <2>1. Still(r, {o}) \in Handoffs(r)
      BY <1>3 DEF Handoffs, Wanting
    <2>2. Still(r, {o}).serves = {o} /\ Still(r, {o}).scene = FALSE
      BY <1>1, StillIs
    <2> QED
      BY <2>1, <2>2
  <1>4. CASE Kind[r.want[o]] = "video" /\ o \in SharedVideo(r)
    <2> DEFINE V == SharedVideo(r)
    <2>1. MultiVideo(r, V) \in Handoffs(r)
      BY <1>4 DEF Handoffs
    <2>2. V \in SUBSET Outputs
      BY <1>1, SharedIs
    <2>3. MultiVideo(r, V).serves = V /\ MultiVideo(r, V).scene = FALSE
      BY <2>2, MultiIs
    <2> QED
      BY <1>4, <2>1, <2>3
  <1>5. CASE Kind[r.want[o]] = "video" /\ o \notin SharedVideo(r)
    <2>1. Video(r, o) \in Handoffs(r)
      BY <1>5 DEF Handoffs, Wanting
    <2>2. Video(r, o).serves = {o} /\ Video(r, o).scene = FALSE
      BY <1>1, VideoIs
    <2> QED
      BY <2>1, <2>2
  <1> QED
    BY <1>2, <1>3, <1>4, <1>5

LEMMA LaunchesCover ==
    ASSUME NEW r \in Plans, Suits(r), NEW o \in DOMAIN r.want
    PROVE  \E l \in Launched(r) : Fits(l, r, o)
  <1>0. r.op \in Ops /\ Launched(r) = All(r) /\ Kind[r.want[o]] \in {"static", "video", "we"}
    BY PlanIs, LaunchedIs, HandoffAssumption
  <1>1. \A s, S, K : /\ [Launch(s, S) EXCEPT !.keep = K].serves = S
                     /\ ~[Launch(s, S) EXCEPT !.keep = K].scene
                     /\ [Launch(s, S) EXCEPT !.hidden = K].serves = S
                     /\ ~[Launch(s, S) EXCEPT !.hidden = K].scene
    BY DEF Launch, NoLaunch
  <1>2. CASE r.op = "reconcile"
    <2>1. Scenes(r) \subseteq Launched(r) /\ Handoffs(r) \subseteq Launched(r)
      BY <1>0, <1>2 DEF All, Reconciled
    <2> QED
      BY <1>0, <2>1, SceneServes, HandoffCovers DEF Fits
  <1>3. CASE r.op = "we"
    <2>1. Scenes(r) = Launched(r)
      BY <1>0, <1>3 DEF All
    <2>2. Kind[r.want[o]] = "we"
      BY <1>3 DEF Suits
    <2> QED
      BY <2>1, <2>2, SceneServes DEF Fits
  <1>4. CASE r.op \in {"video", "static", "fade"}
    <2>1. Kind[r.want[o]] # "we"
      BY <1>4 DEF Suits
    <2>2. \E l \in Launched(r) : o \in l.serves /\ ~l.scene
      <3>1. CASE r.op = "video"
        <4>1. Everywhere(r) \in Launched(r)
          BY <1>0, <3>1 DEF All
        <4>2. Everywhere(r).serves = DOMAIN r.want /\ ~Everywhere(r).scene
          BY <1>1 DEF Everywhere
        <4> QED
          BY <4>1, <4>2
      <3>2. CASE r.op = "static"
        <4>1. Launched(r) = Apart(r)
          BY <1>0, <3>2 DEF All
        <4>2. CASE Uniform(r)
          <5> DEFINE l == [Launch(Base, DOMAIN r.want) EXCEPT !.keep = {Base}]
          <5>1. l \in Launched(r)
            BY <4>1, <4>2, Zenon DEF Apart
          <5>2. l.serves = DOMAIN r.want /\ ~l.scene
            BY <1>1
          <5> QED
            BY <5>1, <5>2
        <4>3. CASE ~Uniform(r)
          <5> DEFINE K == {<<"still", {q}>> : q \in DOMAIN r.want}
                     l == [Launch(<<"still", {o}>>, {o}) EXCEPT !.keep = K]
          <5>1. l \in Launched(r)
            BY <4>1, <4>3, Zenon DEF Apart
          <5>2. l.serves = {o} /\ ~l.scene
            BY <1>1
          <5> QED
            BY <5>1, <5>2
        <4> QED
          BY <4>2, <4>3
      <3>3. CASE r.op = "fade"
        <4>1. Appearing(r) \subseteq Launched(r)
          BY <1>0, <3>3 DEF All
        <4>2. CASE Uniform(r)
          <5> DEFINE l == [Launch(Base, DOMAIN r.want) EXCEPT !.hidden = TRUE]
          <5>1. l \in Launched(r)
            BY <4>1, <4>2, Zenon DEF Appearing
          <5>2. l.serves = DOMAIN r.want /\ ~l.scene
            BY <1>1
          <5> QED
            BY <5>1, <5>2
        <4>3. CASE ~Uniform(r)
          <5> DEFINE G == Alike(r, o)
                     l == [Launch(<<"still", G>>, G) EXCEPT !.hidden = TRUE]
          <5>1. G \in FadeGroups(r) /\ o \in G
            BY PlanIs DEF FadeGroups
          <5>2. l \in Launched(r)
            BY <4>1, <4>3, <5>1, Zenon DEF Appearing
          <5>3. l.serves = G /\ ~l.scene
            BY <1>1
          <5> QED
            BY <5>1, <5>2, <5>3
        <4> QED
          BY <4>2, <4>3
      <3> QED
        BY <1>4, <3>1, <3>2, <3>3
    <2> QED
      BY <2>1, <2>2 DEF Fits
  <1> QED
    BY <1>0, <1>2, <1>3, <1>4 DEF Ops

\* A step of the program leaves every launch covered, except the commits; they
\* come when nothing else remains.
LEMMA HeldStays ==
    ASSUME NEW s, plan' = s, prior' = prior, weRender' = weRender,
           Launched(s) = Launched(plan), ~Late, Covered, plan.kept \subseteq s.kept,
           \A l \in Launched(plan) : /\ Pending("spawn", l) => Held(l)'
                                     /\ Of(l) # {} => Of(l)' # {}
    PROVE  \A l \in Launched(plan)' : Held(l)'
  <1>1. Launched(plan)' = Launched(s)
    BY PlanStays
  <1>2. ASSUME NEW l \in Launched(plan) PROVE Held(l)'
    <2>1. Held(l)
      BY DEF Covered
    <2>2. l \in plan.kept => l \in plan'.kept
      OBVIOUS
    <2> QED
      BY <2>1, <2>2 DEF Held
  <1> QED
    BY <1>1, <1>2

LEMMA StartHolds ==
    ASSUME IInv, NEW q \in Requests, Start(q), IInv'
    PROVE  \A l \in Launched(plan)' : Held(l)'
  <1>1. todo' = Program(plan') /\ prior' = assigned /\ weRender' = weRender /\ outcome # "running"
    BY DEF Start, Idle
  <1>2. prior' = prior
    BY <1>1 DEF IInv, Resting, Idle
  <1> DEFINE s == plan'
  <1>3. plan' = s /\ todo' = Program(s)
    BY <1>1
  <1> HIDE DEF s
  <1>4. Launched(plan)' = Launched(s)
    BY <1>1, <1>2, <1>3, PlanStays
  <1>5. \A l \in Launched(s) : Pending("spawn", l)'
    BY <1>3 DEF Launched, Pending
  <1> QED
    BY <1>4, <1>5 DEF Held

LEMMA GivenUpHolds ==
    ASSUME IInv, NEW i \in Reached("spawn") \cup Reached("wait"), i.launch.shared,
           GiveUp(i.launch), prior' = prior, weRender' = weRender,
           \A u \in open : u.launch # i.launch => u \in open'
    PROVE  \A l \in Launched(plan)' : Pending("spawn", l)' \/ Of(l)' # {}
  <1> DEFINE s == [plan EXCEPT !.single = @ \cup i.launch.serves]
  <1>1. plan \in Plans /\ i.launch \in Launched(plan)
    <2>1. plan \in Plans /\ i \in Program(plan) /\ i.do \in {"spawn", "wait"}
      BY Takes
    <2> QED
      BY <2>1, ProgramIs
  <1>2. plan' = s /\ todo' = Rest(plan')
    BY DEF GiveUp
  <1>3. i.launch \notin Launched(s)
    BY <1>1, GivenUp
  <1> HIDE DEF s
  <1>4. Launched(plan)' = Launched(s)
    BY <1>2, PlanStays
  <1>5. todo' = {k \in Program(s) : k.do \in {"spawn", "wait"} => Of(k.launch) = {}}
    BY <1>2 DEF Rest
  <1>6. ASSUME NEW l \in Launched(s) PROVE Pending("spawn", l)' \/ Of(l)' # {}
    <2>1. PICK k \in Program(s) : k.do = "spawn" /\ k.launch = l
      BY DEF Launched
    <2>2. CASE Of(l) = {}
      <3>1. k \in todo'
        BY <1>5, <2>1, <2>2
      <3>2. Pending("spawn", l)'
        BY <2>1, <3>1 DEF Pending
      <3> QED
        BY <3>2
    <2>3. CASE Of(l) # {}
      <3>1. PICK u \in open : u.launch = l
        BY <2>3 DEF Of
      <3>2. u \in open'
        BY <1>3, <3>1
      <3>3. Of(l)' # {}
        BY <3>1, <3>2 DEF Of
      <3> QED
        BY <3>3
    <2> QED
      BY <2>2, <2>3
  <1> QED
    BY <1>4, <1>6

LEMMA SpawnHolds ==
    ASSUME IInv, Covered, Spawn, todo' # {}
    PROVE  \A l \in Launched(plan)' : Held(l)'
  <1>1. PICK i \in Reached("spawn") :
          LET l == i.launch IN
          \/ (\E t : t.launch = l /\ open' = open \cup {t}) /\ Step(i)
          \/ GiveUp(l) /\ open' = open
    <2>1. PICK i \in Reached("spawn") :
            LET l == i.launch
                taken == {s \in Taken(l) : slot[s] # Nobody}
            IN \/ /\ \E p \in Fresh :
                       open' = open \cup {[launch |-> l, pid |-> p, from |-> Only(slot, taken),
                                           marks |-> marks \cap taken]}
                  /\ Step(i)
               \/ GiveUp(l) /\ open' = open
      BY Zenon DEF Spawn
    <2> DEFINE taken == {s \in Taken(i.launch) : slot[s] # Nobody}
               new(p) == [launch |-> i.launch, pid |-> p, from |-> Only(slot, taken),
                          marks |-> marks \cap taken]
    <2>2. \A p : new(p).launch = i.launch
      OBVIOUS
    <2>3. \/ (\E p \in Fresh : open' = open \cup {new(p)}) /\ Step(i)
          \/ GiveUp(i.launch) /\ open' = open
      BY <2>1, Zenon
    <2> HIDE DEF new
    <2> QED
      BY <2>2, <2>3, Zenon
  <1>2. prior' = prior /\ weRender' = weRender
    BY DEF Spawn, quiet
  <1>3. i \in todo /\ i.do = "spawn" /\ ~Late
    BY Takes DEF Late
  <1>4. CASE GiveUp(i.launch) /\ open' = open
    <2>1. i.launch.shared
      BY <1>4 DEF GiveUp
    <2> QED
      BY <1>2, <1>4, <2>1, GivenUpHolds DEF Held
  <1>5. CASE (\E t : t.launch = i.launch /\ open' = open \cup {t}) /\ Step(i)
    <2>1. todo' = todo \ {i} /\ plan' = plan
      BY <1>5 DEF Step
    <2>2. PICK t : t.launch = i.launch /\ open' = open \cup {t}
      BY <1>5
    <2>3. ASSUME NEW l, Pending("spawn", l) PROVE Held(l)'
      <3>1. CASE l = i.launch
        BY <2>2, <3>1 DEF Held, Of
      <3>2. CASE l # i.launch
        BY <2>1, <2>3, <3>2 DEF Held, Pending
      <3> QED
        BY <3>1, <3>2
    <2>4. \A l : Of(l) # {} => Of(l)' # {}
      BY <2>2 DEF Of
    <2> QED
      BY <1>2, <1>3, <2>1, <2>3, <2>4, HeldStays
  <1> QED
    BY <1>1, <1>4, <1>5, Zenon

LEMMA ReuseHolds ==
    ASSUME IInv, Covered, Reuse, todo' # {}
    PROVE  \A l \in Launched(plan)' : Held(l)'
  <1>1. PICK i \in Reached("spawn") :
          LET l == i.launch
              together == {j.launch : j \in {k \in todo : k.launch.keep = l.keep}}
          IN \/ /\ todo' = {j \in todo : j.launch \notin together}
                /\ plan' = [plan EXCEPT !.kept = @ \cup together]
             \/ plan.op \in {"video", "we"} /\ GiveUp(l)
    BY Zenon DEF Reuse
  <1>2. open' = open /\ prior' = prior /\ weRender' = weRender
    BY Zenon DEF Reuse, quiet
  <1>3. i \in todo /\ plan \in Plans /\ ~Late
    BY Takes DEF Late
  <1> DEFINE together == {j.launch : j \in {k \in todo : k.launch.keep = i.launch.keep}}
  <1>4. CASE /\ todo' = {j \in todo : j.launch \notin together}
             /\ plan' = [plan EXCEPT !.kept = @ \cup together]
    <2> DEFINE s == [plan EXCEPT !.kept = @ \cup together]
    <2>1. plan' = s
      BY <1>4
    <2>2. /\ s.kept = plan.kept \cup together /\ s.op = plan.op /\ s.want = plan.want
          /\ s.fill = plan.fill /\ s.fade = plan.fade /\ s.single = plan.single
          /\ s.fades = plan.fades /\ s.same = plan.same
      BY <1>3 DEF Plans
    <2> HIDE DEF s
    <2>3. Launched(s) = Launched(plan)
      <3>1. Program(s) = Program(plan)
        BY <2>2, SameProgram
      <3> QED
        BY <3>1, Zenon DEF Launched
    <2>4. ASSUME NEW l, Pending("spawn", l) PROVE Held(l)'
      <3>1. CASE l \in together
        BY <2>1, <2>2, <3>1 DEF Held
      <3>2. CASE l \notin together
        BY <1>4, <2>4, <3>2 DEF Held, Pending
      <3> QED
        BY <3>1, <3>2
    <2>5. \A l : Of(l) # {} => Of(l)' # {}
      BY <1>2 DEF Of
    <2> HIDE DEF together
    <2> QED
      BY <1>2, <1>3, <2>1, <2>2, <2>3, <2>4, <2>5, HeldStays
  <1>5. CASE plan.op \in {"video", "we"} /\ GiveUp(i.launch)
    <2>1. i.launch.shared
      BY <1>5 DEF GiveUp
    <2> QED
      BY <1>2, <1>5, <2>1, GivenUpHolds DEF Held
  <1> QED
    BY <1>1, <1>4, <1>5, Zenon

\* The steps that neither begin nor give up a launch.
LEMMA OthersHold ==
    ASSUME Covered, ~Late, plan' = plan, prior' = prior, weRender' = weRender, open' = open,
           \A j \in todo : j.do = "spawn" => j \in todo'
    PROVE  \A l \in Launched(plan)' : Held(l)'
  <1>1. \A l : Pending("spawn", l) => Pending("spawn", l)'
    BY DEF Pending
  <1>2. \A l : Of(l) # {} => Of(l)' # {}
    BY DEF Of
  <1> QED
    BY <1>1, <1>2, HeldStays DEF Held

LEMMA WaitHolds ==
    ASSUME IInv, Covered, Wait, todo' # {}
    PROVE  \A l \in Launched(plan)' : Held(l)'
  <1>1. PICK i \in Reached("wait") \cup Reached("answer") : \E t \in Of(i.launch) :
          \/ Step(i) /\ open' = open
          \/ i.do = "wait" /\ t.launch.shared /\ GiveUp(t.launch) /\ Undo(t)
          \/ todo' = {}
    BY Zenon DEF Wait
  <1>2. PICK t \in Of(i.launch) :
          \/ Step(i) /\ open' = open
          \/ i.do = "wait" /\ t.launch.shared /\ GiveUp(t.launch) /\ Undo(t)
    BY <1>1
  <1>3. prior' = prior /\ weRender' = weRender
    BY Zenon DEF Wait, quiet
  <1>4. i \in todo /\ i.do \in {"wait", "answer"} /\ ~Late
    BY Takes DEF Late
  <1>5. CASE Step(i) /\ open' = open
    BY <1>3, <1>4, <1>5, OthersHold DEF Step
  <1>6. CASE i.do = "wait" /\ t.launch.shared /\ GiveUp(t.launch) /\ Undo(t)
    <2>1. t.launch = i.launch /\ open' = open \ {t}
      BY <1>6 DEF Of, Undo
    <2>2. i \in Reached("wait")
      BY <1>4, <1>6 DEF Reached
    <2> QED
      BY <1>3, <1>6, <2>1, <2>2, GivenUpHolds DEF Held
  <1> QED
    BY <1>2, <1>5, <1>6

LEMMA AnswersHold ==
    ASSUME IInv, Covered, Reveal \/ Prepare, todo' # {}
    PROVE  \A l \in Launched(plan)' : Held(l)'
  <1>1. PICK i \in Reached("reveal") \cup Reached("prepare") \cup Reached("start") :
          \/ Step(i)
          \/ todo' = (todo \ {i}) \cup {[i EXCEPT !.do = "answer"]} /\ plan' = plan
    BY DEF Reveal, Prepare
  <1>2. open' = open /\ prior' = prior /\ weRender' = weRender
    BY DEF Reveal, Prepare, quiet
  <1>3. i \in todo /\ i.do \in {"reveal", "prepare", "start"} /\ ~Late
    BY Takes DEF Late
  <1> QED
    BY <1>1, <1>2, <1>3, OthersHold DEF Step

\* A step after which something remains to be done leaves every launch covered,
\* unless only commits remained before it.
LEMMA StepHolds ==
    ASSUME IInv, CInv, Covered, [Next]_vars, IInv', todo' # {}
    PROVE  /\ prior' = prior /\ weRender' = weRender
           /\ \/ Late /\ Late' /\ (Committing \/ todo' = todo)
              \/ \A l \in Launched(plan)' : Held(l)'
  <1>1. CASE \E q \in Requests : Start(q)
    <2>1. PICK q \in Requests : Start(q)
      BY <1>1
    <2>2. prior' = assigned /\ weRender' = weRender /\ Idle
      BY <2>1, Zenon DEF Start
    <2>3. prior' = prior
      BY <2>2 DEF IInv, Resting
    <2> QED
      BY <2>1, <2>2, <2>3, StartHolds
  <1>2. CASE Spawn
    <2>1. prior' = prior /\ weRender' = weRender
      BY <1>2, Zenon DEF Spawn, quiet
    <2> QED
      BY <1>2, <2>1, SpawnHolds
  <1>3. CASE Reuse
    <2>1. prior' = prior /\ weRender' = weRender
      BY <1>3, Zenon DEF Reuse, quiet
    <2> QED
      BY <1>3, <2>1, ReuseHolds
  <1>4. CASE Wait
    <2>1. prior' = prior /\ weRender' = weRender
      BY <1>4, Zenon DEF Wait, quiet
    <2> QED
      BY <1>4, <2>1, WaitHolds
  <1>5. CASE Reveal \/ Prepare
    <2>1. prior' = prior /\ weRender' = weRender
      BY <1>5, Zenon DEF Reveal, Prepare, quiet
    <2> QED
      BY <1>5, <2>1, AnswersHold
  <1>6. CASE Commit
    <2>1. PICK i \in Reached("commit") : \E t \in Of(i.launch) : Step(i)
      BY <1>6, Zenon DEF Commit
    <2>2. prior' = prior /\ weRender' = weRender /\ todo' = todo \ {i}
      BY <1>6, <2>1, Zenon DEF Commit, Step
    <2>3. Committing
      BY <2>1, CommitsLast
    <2>4. Late
      BY <2>3 DEF Committing, Late
    <2>5. Late'
      BY <2>2, <2>4 DEF Late
    <2> QED
      BY <2>2, <2>3, <2>4, <2>5
  <1>7. CASE Tidy
    BY <1>7, Zenon DEF Tidy
  <1>8. CASE Drop
    BY <1>8, Zenon DEF Drop
  <1>9. CASE Fail
    BY <1>9, Zenon DEF Fail
  <1>10. CASE Hotplug
    BY <1>10, Zenon DEF Hotplug
  <1>11. CASE /\ todo' = todo /\ open' = open /\ plan' = plan /\ prior' = prior /\ weRender' = weRender
    <2>1. CASE Late
      <3>1. Late'
        BY <1>11, <2>1 DEF Late
      <3> QED
        BY <1>11, <2>1, <3>1
    <2>2. CASE ~Late
      BY <1>11, <2>2, OthersHold
    <2> QED
      BY <2>1, <2>2
  <1>12. CASE \E p \in Pids : \E result \in {"ok", "err"} : Signal(p, result)
    BY <1>11, <1>12, Zenon DEF Signal, program, quiet
  <1>13. CASE \E p \in Pids : Exit(p)
    BY <1>11, <1>13, Zenon DEF Exit, program
  <1>14. CASE \E p \in Pids : RetirePaper(p)
    BY <1>11, <1>14, Zenon DEF RetirePaper
  <1>15. CASE \E p \in Pids : ReleaseDeferred(p)
    BY <1>11, <1>15, Zenon DEF ReleaseDeferred, program
  <1>16. CASE Reap
    BY <1>11, <1>16, Zenon DEF Reap, quiet
  <1>17. CASE UNCHANGED vars
    BY <1>11, <1>17, Zenon DEF vars
  <1> QED
    BY <1>1, <1>2, <1>3, <1>4, <1>5, <1>6, <1>7, <1>8, <1>9, <1>10, <1>12, <1>13, <1>14,
       <1>15, <1>16, <1>17, Zenon DEF Next, Run

\* A request keeps what it was made for until it returns.
LEMMA SuitedInitially == Init => Covered /\ Suited
  BY DEF Init, Covered, Late, Suited, Idle

LEMMA SuitedStays ==
    ASSUME IInv, Suited, [Next]_vars
    PROVE  Suited'
  <1>1. CASE \E q \in Requests : Start(q)
    <2>1. PICK q \in Requests : Start(q)
      BY <1>1
    <2>2. plan'.op = q.op /\ plan'.want = Only(q.want, live)
      BY <2>1 DEF Start
    <2>3. live \subseteq Outputs
      BY DEF IInv, TypeOK, Groups
    <2>4. DOMAIN plan'.want \subseteq Outputs /\ \A o \in DOMAIN plan'.want : plan'.want[o] = q.want[o]
      BY <2>2, <2>3 DEF Only
    <2> QED
      BY <2>2, <2>4, HandoffAssumption DEF Suited, Suits
  <1>2. CASE /\ outcome' = outcome
             /\ \/ plan' = plan
                \/ ~Idle /\ plan'.op = plan.op /\ plan'.want = plan.want
    BY <1>2 DEF Suited, Suits, Idle
  <1>3. ASSUME NEW i \in todo, GiveUp(i.launch)
        PROVE  \/ plan' = plan
               \/ ~Idle /\ plan'.op = plan.op /\ plan'.want = plan.want
    <2>1. ~Idle
      BY DEF IInv, Resting
    <2>2. plan \in Plans
      BY <2>1 DEF IInv, Running
    <2> QED
      BY <1>3, <2>1, <2>2 DEF GiveUp, Plans
  <1>4. CASE Spawn
    <2>1. PICK i \in Reached("spawn") : Step(i) \/ GiveUp(i.launch)
      BY <1>4, Zenon DEF Spawn
    <2>2. i \in todo /\ outcome' = outcome
      BY <1>4, Zenon DEF Reached, Spawn
    <2> QED
      BY <1>2, <1>3, <2>1, <2>2 DEF Step
  <1>5. CASE Reuse
    <2>1. PICK i \in Reached("spawn") : \/ \E K : plan' = [plan EXCEPT !.kept = @ \cup K]
                                        \/ GiveUp(i.launch)
      BY <1>5, Zenon DEF Reuse
    <2>2. i \in todo /\ outcome' = outcome
      BY <1>5, Zenon DEF Reached, Reuse
    <2>3. ~Idle /\ plan \in Plans
      BY <2>2 DEF IInv, Resting, Running
    <2>4. CASE \E K : plan' = [plan EXCEPT !.kept = @ \cup K]
      BY <1>2, <2>2, <2>3, <2>4 DEF Plans
    <2> QED
      BY <1>2, <1>3, <2>1, <2>2, <2>4
  <1>6. CASE Wait
    <2>1. PICK i \in Reached("wait") \cup Reached("answer") : \E t \in Of(i.launch) :
            plan' = plan \/ GiveUp(t.launch)
      BY <1>6, Zenon DEF Wait, Step
    <2>2. i \in todo /\ outcome' = outcome
      BY <1>6, <2>1, Zenon DEF Reached, Wait
    <2>3. plan' = plan \/ GiveUp(i.launch)
      BY <2>1 DEF Of
    <2> QED
      BY <1>2, <1>3, <2>2, <2>3
  <1>7. CASE Reveal \/ Prepare \/ Commit \/ Drop
    BY <1>2, <1>7 DEF Reveal, Prepare, Commit, Drop, Step, quiet
  <1>8. CASE Tidy \/ Fail
    BY <1>8 DEF Tidy, Fail, Suited, Idle
  <1>9. CASE \E p \in Pids : \E result \in {"ok", "err"} : Signal(p, result)
    BY <1>2, <1>9, Zenon DEF Signal, program
  <1>10. CASE \E p \in Pids : Exit(p)
    BY <1>2, <1>10, Zenon DEF Exit, program
  <1>11. CASE \E p \in Pids : RetirePaper(p)
    BY <1>2, <1>11, Zenon DEF RetirePaper
  <1>12. CASE \E p \in Pids : ReleaseDeferred(p)
    BY <1>2, <1>12, Zenon DEF ReleaseDeferred, program
  <1>13. CASE Reap \/ Hotplug
    BY <1>2, <1>13, Zenon DEF Reap, Hotplug
  <1>14. CASE UNCHANGED vars
    BY <1>2, <1>14, Zenon DEF vars
  <1> QED
    BY <1>1, <1>4, <1>5, <1>6, <1>7, <1>8, <1>9, <1>10, <1>11, <1>12, <1>13, <1>14, Zenon
       DEF Next, Run

LEMMA CoveredStays ==
    ASSUME IInv, CInv, Covered, Suited, [Next]_vars
    PROVE  Covered' /\ Suited'
  <1>1. IInv'
    BY Preserved
  <1>2. CASE todo' = {}
    BY <1>2, SuitedStays DEF Covered, Late
  <1>3. CASE todo' # {}
    <2>1. Late' \/ \A l \in Launched(plan)' : Held(l)'
      BY <1>1, <1>3, StepHolds
    <2> QED
      BY <2>1, SuitedStays DEF Covered
  <1> QED
    BY <1>2, <1>3

\* A request that passes the point of no return has a settled candidate, or a
\* renderer that was kept, for each launch of its program.
SettledNow == Committing => Late /\ \A p \in Pids : phase[p] \notin Unsettled

LEMMA CommitsSettled == IInv /\ CInv => SettledNow
  BY AllSettled DEF SettledNow, Committing, Late

LEMMA CommitsCover ==
    ASSUME IInv, CInv, Covered, Suited, [Next]_vars, IInv', Suited', SettledNow',
           ~Committing, Committing', NEW o \in DOMAIN plan'.want
    PROVE  \/ \E l \in plan'.kept : Fits(l, plan', o)
           \/ \E t \in open' : Fits(t.launch, plan', o) /\ phase'[t.pid] \notin Unsettled
  <1>1. todo' # {}
    BY DEF Committing
  <1>2. Late' /\ \A p \in Pids : phase'[p] \notin Unsettled
    BY DEF SettledNow
  <1>3. prior' = prior /\ weRender' = weRender
    BY <1>1, StepHolds
  <1>4. \A l \in Launched(plan)' : Held(l)'
    <2>1. CASE todo' = todo
      <3>1. Committing' <=> Committing
        BY <2>1 DEF Committing
      <3> QED
        BY <3>1
    <2> QED
      BY <1>1, <2>1, StepHolds
  <1>5. ~Idle' /\ plan' \in Plans /\ TypeOK'
    BY <1>1 DEF IInv, Resting, Running
  <1>6. PICK r : r = plan'
    OBVIOUS
  <1>7. r \in Plans /\ Suits(r) /\ o \in DOMAIN r.want
    BY <1>5, <1>6 DEF Suited, Suits
  <1>8. Launched(plan)' = Launched(r)
    BY <1>3, <1>6, PlanStays
  <1>9. PICK l \in Launched(r) : Fits(l, r, o)
    BY <1>7, LaunchesCover
  <1>10. Held(l)'
    BY <1>4, <1>8, <1>9
  <1>11. ~Pending("spawn", l)'
    BY <1>2 DEF Late, Pending
  <1>12. CASE l \in plan'.kept
    BY <1>6, <1>9, <1>12
  <1>13. CASE Of(l)' # {}
    <2>1. PICK t \in open' : t.launch = l
      BY <1>13 DEF Of
    <2>2. t.pid \in Pids
      BY <1>5 DEF TypeOK
    <2> QED
      BY <1>2, <1>6, <1>9, <2>1, <2>2
  <1> QED
    BY <1>10, <1>11, <1>12, <1>13 DEF Held

\* When a request passes the point of no return, each output it was made for has
\* a candidate of the right kind that answered its last command, or a renderer
\* that was kept: an output is never left to a candidate that failed or was not
\* heard of.
THEOREM OutputsCovered == Spec => CommitCovers
  <1>1. IInv /\ CInv /\ Covered /\ Suited /\ [Next]_vars /\ IInv' /\ Suited' /\ SettledNow' =>
          [~Committing /\ Committing' =>
             \A o \in DOMAIN plan'.want :
               \/ \E l \in plan'.kept : Fits(l, plan', o)
               \/ \E t \in open' : Fits(t.launch, plan', o) /\ phase'[t.pid] \notin Unsettled]_vars
    BY CommitsCover
  <1>2. IInv /\ CInv /\ Covered /\ Suited /\ [Next]_vars => Covered' /\ Suited'
    BY CoveredStays
  <1>3. IInv /\ CInv /\ Covered /\ Suited /\ [Next]_vars /\ IInv' /\ Suited' /\ SettledNow' =>
          [~Committing /\ Committing' =>
            \A o \in DOMAIN plan'.want :
              LET fits(l) == o \in l.serves /\ (l.scene <=> Kind[plan'.want[o]] = "we") IN
              \/ \E l \in plan'.kept : fits(l)
              \/ \E t \in open' : fits(t.launch) /\
                      phase'[t.pid] \notin Answering \cup {"hidden", "broken"}]_vars
    BY <1>1 DEF Fits, Unsettled
  <1> QED
    BY <1>2, <1>3, Initially, Preserved, CandidatesInitially, CandidatesPreserved,
       SuitedInitially, CommitsSettled, PTL DEF Spec, CommitCovers

\* Between two requests no renderer is still starting, waiting to be revealed or
\* known to have failed.
THEOREM NobodyStarting ==
    Spec => [](outcome # "running" =>
                 \A p \in Pids : phase[p] \notin Answering \cup {"hidden", "broken"})
  <1>1. IInv /\ CInv => (outcome # "running" =>
                           \A p \in Pids : phase[p] \notin Answering \cup {"hidden", "broken"})
    BY DEF IInv, Resting, Idle, CInv, Attended, Unsettled
  <1> QED
    BY <1>1, Initially, Preserved, CandidatesInitially, CandidatesPreserved, PTL DEF Spec
--------------------------------------------------------------------------------
(* What dropping the open transactions would leave *)

\* Undone is put together from the transactions and the slots, and nobody else
\* holds a process that it names.
UndoneParts == \A s \in Installed :
    /\ \A t \in open : s \in DOMAIN t.from => Undone[s] = t.from[s]
    /\ \A t \in open : s = t.launch.slot /\ s \notin DOMAIN t.from => Undone[s] = Nobody
    /\ (\A t \in open : s # t.launch.slot /\ s \notin DOMAIN t.from) => Undone[s] = slot[s]
UndoneHeld == \A s \in Installed :
    /\ Undone[s] \in Pids \cup {Nobody}
    /\ Undone[s] # Nobody => phase[Undone[s]] # "free"

LEMMA UndoneIs == IInv => UndoneParts
  <1> SUFFICES ASSUME IInv, NEW s \in Installed
               PROVE  /\ \A t \in open : s \in DOMAIN t.from => Undone[s] = t.from[s]
                      /\ \A t \in open : s = t.launch.slot /\ s \notin DOMAIN t.from => Undone[s] = Nobody
                      /\ (\A t \in open : s # t.launch.slot /\ s \notin DOMAIN t.from) => Undone[s] = slot[s]
    BY DEF UndoneParts
  <1>1. Undone[s] = IF \E t \in open : s \in DOMAIN t.from
                    THEN (CHOOSE t \in open : s \in DOMAIN t.from).from[s]
                    ELSE IF \E t \in open : s = t.launch.slot /\ slot[s] = t.pid THEN Nobody ELSE slot[s]
    BY DEF Undone
  <1>2. ASSUME NEW t \in open, s \in DOMAIN t.from \/ s = t.launch.slot
        PROVE  \A u \in open : s \in DOMAIN u.from \/ s = u.launch.slot => u = t
    <2>1. \A u \in open : DOMAIN u.from \subseteq Taken(u.launch)
      BY DEF IInv, Transactions
    <2>2. \A u \in open : s \in DOMAIN u.from \/ s = u.launch.slot => s \in Reach(u.launch)
      BY <2>1 DEF Reach
    <2> QED
      BY <1>2, <2>2, OpenApart
  <1>3. ASSUME NEW t \in open, s \in DOMAIN t.from PROVE Undone[s] = t.from[s]
    <2>1. (CHOOSE u \in open : s \in DOMAIN u.from) = t
      BY <1>2, <1>3
    <2> QED
      BY <1>1, <1>3, <2>1
  <1>4. ASSUME NEW t \in open, s = t.launch.slot, s \notin DOMAIN t.from PROVE Undone[s] = Nobody
    <2>1. ~\E u \in open : s \in DOMAIN u.from
      BY <1>2, <1>4
    <2>2. slot[s] \in {t.pid, Nobody}
      BY <1>4 DEF IInv, Transactions
    <2> QED
      BY <1>1, <1>4, <2>1, <2>2
  <1>5. ASSUME \A t \in open : s # t.launch.slot /\ s \notin DOMAIN t.from PROVE Undone[s] = slot[s]
    BY <1>1, <1>5
  <1> QED
    BY <1>3, <1>4, <1>5

LEMMA UndoneParted == IInv' => UndoneParts'
  BY UndoneIs, PTL

LEMMA UndoneIsHeld == IInv => UndoneHeld
  <1> SUFFICES ASSUME IInv, NEW s \in Installed
               PROVE  /\ Undone[s] \in Pids \cup {Nobody}
                      /\ Undone[s] # Nobody => phase[Undone[s]] # "free"
    BY DEF UndoneHeld
  <1>1. UndoneParts /\ s \in Slots
    BY UndoneIs, SlotKinds
  <1>2. CASE \E t \in open : s \in DOMAIN t.from
    <2>1. PICK t \in open : s \in DOMAIN t.from
      BY <1>2
    <2>2. Undone[s] = t.from[s] /\ t.from[s] \in Pids
      BY <1>1, <2>1 DEF UndoneParts, IInv, TypeOK
    <2>3. Displaced(t.from[s])
      BY <2>1 DEF Displaced
    <2> QED
      BY <2>2, <2>3 DEF IInv, Accounted
  <1>3. CASE Undone[s] = Nobody
    BY <1>3
  <1>4. CASE Undone[s] = slot[s] /\ slot[s] # Nobody
    <2>1. slot[s] \in Pids /\ InSlot(slot[s])
      BY <1>1, <1>4 DEF IInv, TypeOK, InSlot
    <2> QED
      BY <1>4, <2>1 DEF IInv, Accounted
  <1> QED
    BY <1>1, <1>2, <1>3, <1>4 DEF UndoneParts

LEMMA UndoneStaysHeld == IInv' => UndoneHeld'
  BY UndoneIsHeld, PTL

\* As long as the slots and the open transactions stay, so does what they undo to.
LEMMA SameUndone ==
    ASSUME slot' = slot, open' = open
    PROVE  \A s \in Installed : Undone'[s] = Undone[s]
  BY DEF Undone

\* Renderers that are taken out of their slots are gone for good.
LEMMA EmptyUndone ==
    ASSUME IInv, IInv', NEW S \in SUBSET Slots, slot' = Without(S), open' = open
    PROVE  \A s \in Installed : Undone'[s] = IF s \in S /\ Undone[s] = slot[s] THEN Nobody ELSE Undone[s]
  <1> SUFFICES ASSUME NEW s \in Installed
               PROVE  Undone'[s] = IF s \in S /\ Undone[s] = slot[s] THEN Nobody ELSE Undone[s]
    OBVIOUS
  <1>1. UndoneParts /\ UndoneParts' /\ s \in Slots
    BY UndoneIs, UndoneParted, SlotKinds
  <1>2. CASE \E t \in open : s \in DOMAIN t.from
    <2>1. PICK t \in open : s \in DOMAIN t.from
      BY <1>2
    <2>2. Undone[s] = t.from[s] /\ Undone'[s] = t.from[s]
      BY <1>1, <2>1 DEF UndoneParts
    <2>3. t.from[s] # slot[s]
      <3>1. t.from[s] \in Pids
        BY <2>1 DEF IInv, TypeOK
      <3>2. Displaced(t.from[s]) /\ ~(InSlot(t.from[s]) /\ Displaced(t.from[s]))
        BY <2>1, <3>1 DEF Displaced, IInv, Once
      <3> QED
        BY <1>1, <3>2 DEF InSlot
    <2> QED
      BY <2>2, <2>3
  <1>3. CASE /\ \A t \in open : s \notin DOMAIN t.from
             /\ \E t \in open : s = t.launch.slot
    <2>1. Undone[s] = Nobody /\ Undone'[s] = Nobody
      BY <1>1, <1>3 DEF UndoneParts
    <2> QED
      BY <2>1
  <1>4. CASE \A t \in open : s # t.launch.slot /\ s \notin DOMAIN t.from
    <2>1. Undone[s] = slot[s] /\ Undone'[s] = slot'[s]
      BY <1>1, <1>4 DEF UndoneParts
    <2>2. slot'[s] = IF s \in S THEN Nobody ELSE slot[s]
      BY <1>1 DEF Without
    <2> QED
      BY <2>1, <2>2
  <1> QED
    BY <1>2, <1>3, <1>4

\* A transaction that begins undoes to what was there.
LEMMA SpawnUndone ==
    ASSUME IInv, IInv', NEW t, open' = open \cup {t}, t.launch \in Launches,
           NEW taken \in SUBSET Slots, taken \subseteq Taken(t.launch),
           \A s \in Taken(t.launch) : slot[s] # Nobody => s \in taken,
           \A s \in Slots : s \notin taken /\ s # t.launch.slot => slot'[s] = slot[s],
           t.from = Only(slot, taken), \A u \in open : u.launch # t.launch,
           t.launch \in Launched(plan), ~Idle
    PROVE  \A s \in Installed : Undone'[s] = Undone[s]
  <1> SUFFICES ASSUME NEW s \in Installed PROVE Undone'[s] = Undone[s]
    OBVIOUS
  <1>1. UndoneParts /\ UndoneParts' /\ s \in Slots
    BY UndoneIs, UndoneParted, SlotKinds
  <1>2. t \in open' /\ open \subseteq open' /\ DOMAIN t.from = taken
    BY DEF Only
  <1>3. \A u \in open : Reach(u.launch) \cap Reach(t.launch) = {} /\ DOMAIN u.from \subseteq Reach(u.launch)
    <2>1. plan \in Plans /\ \A u \in open : u.launch \in Launched(plan)
      BY DEF IInv, Running
    <2>2. \A u \in open : DOMAIN u.from \subseteq Taken(u.launch)
      BY DEF IInv, Transactions
    <2> QED
      BY <2>1, <2>2, ApartReach DEF Reach
  <1>4. CASE s \in Reach(t.launch)
    <2>1. Undone[s] = slot[s]
      BY <1>1, <1>3, <1>4 DEF UndoneParts, Reach
    <2>2. CASE s \in taken
      <3>1. t.from[s] = slot[s]
        BY <2>2 DEF Only
      <3> QED
        BY <1>1, <1>2, <2>1, <2>2, <3>1 DEF UndoneParts
    <2>3. CASE s \notin taken /\ s = t.launch.slot
      <3>1. Undone'[s] = Nobody
        BY <1>1, <1>2, <2>3 DEF UndoneParts
      <3>2. s \in Taken(t.launch)
        BY <2>3, SlotKinds DEF Taken, Installed
      <3>3. slot[s] = Nobody
        BY <2>3, <3>2
      <3> QED
        BY <2>1, <3>1, <3>3
    <2>4. CASE s \notin taken /\ s # t.launch.slot
      <3>1. \A u \in open' : s # u.launch.slot /\ s \notin DOMAIN u.from
        BY <1>2, <1>3, <1>4, <2>4 DEF Reach
      <3> QED
        BY <1>1, <2>1, <2>4, <3>1 DEF UndoneParts
    <2> QED
      BY <2>2, <2>3, <2>4
  <1>5. CASE s \notin Reach(t.launch)
    <2>1. s \notin DOMAIN t.from /\ s # t.launch.slot /\ slot'[s] = slot[s]
      BY <1>1, <1>2, <1>5 DEF Reach
    <2>2. CASE \E u \in open : s \in DOMAIN u.from
      <3>1. PICK u \in open : s \in DOMAIN u.from
        BY <2>2
      <3> QED
        BY <1>1, <1>2, <3>1 DEF UndoneParts
    <2>3. CASE (\A u \in open : s \notin DOMAIN u.from) /\ \E u \in open : s = u.launch.slot
      BY <1>1, <1>2, <2>3 DEF UndoneParts
    <2>4. CASE \A u \in open : s \notin DOMAIN u.from /\ s # u.launch.slot
      BY <1>1, <2>1, <2>4 DEF UndoneParts
    <2> QED
      BY <2>2, <2>3, <2>4
  <1> QED
    BY <1>4, <1>5

\* A transaction that is dropped puts back what it undoes to.
LEMMA UndoUndone ==
    ASSUME IInv, IInv', NEW t \in open, Undo(t)
    PROVE  \A s \in Installed : Undone'[s] = Undone[s]
  <1> SUFFICES ASSUME NEW s \in Installed PROVE Undone'[s] = Undone[s]
    OBVIOUS
  <1>1. UndoneParts /\ UndoneParts' /\ s \in Slots
    BY UndoneIs, UndoneParted, SlotKinds
  <1>2. open' = open \ {t} /\ slot'[s] = IF s \in DOMAIN t.from THEN t.from[s]
                                         ELSE IF s = t.launch.slot /\ slot[s] = t.pid THEN Nobody
                                         ELSE slot[s]
    BY <1>1 DEF Undo
  <1>3. /\ \A u \in open : DOMAIN u.from \subseteq Reach(u.launch) /\ u.launch.slot \in Reach(u.launch)
        /\ \A u \in open' : Reach(u.launch) \cap Reach(t.launch) = {}
    <2>1. \A u \in open : DOMAIN u.from \subseteq Taken(u.launch)
      BY DEF IInv, Transactions
    <2> QED
      BY <1>2, <2>1, OpenApart DEF Reach
  <1>4. CASE s \in DOMAIN t.from \/ s = t.launch.slot
    <2>1. \A u \in open' : s # u.launch.slot /\ s \notin DOMAIN u.from
      BY <1>2, <1>3, <1>4
    <2>2. Undone'[s] = slot'[s]
      BY <1>1, <2>1 DEF UndoneParts
    <2>3. s \notin DOMAIN t.from => slot[s] \in {t.pid, Nobody}
      BY <1>4 DEF IInv, Transactions
    <2> QED
      BY <1>1, <1>2, <1>4, <2>2, <2>3 DEF UndoneParts
  <1>5. CASE s \notin DOMAIN t.from /\ s # t.launch.slot
    <2>1. slot'[s] = slot[s]
      BY <1>2, <1>5
    <2>2. CASE \E u \in open' : s \in DOMAIN u.from
      <3>1. PICK u \in open' : s \in DOMAIN u.from
        BY <2>2
      <3> QED
        BY <1>1, <1>2, <3>1 DEF UndoneParts
    <2>3. CASE (\A u \in open' : s \notin DOMAIN u.from) /\ \E u \in open' : s = u.launch.slot
      BY <1>1, <1>2, <2>3 DEF UndoneParts
    <2>4. CASE \A u \in open' : s \notin DOMAIN u.from /\ s # u.launch.slot
      BY <1>1, <1>2, <1>5, <2>1, <2>4 DEF UndoneParts
    <2> QED
      BY <2>2, <2>3, <2>4
  <1> QED
    BY <1>4, <1>5

--------------------------------------------------------------------------------
(* What is drawn where *)

LEMMA EndsLast ==
    ASSUME NEW r \in Plans
    PROVE  Ending \subseteq Program(r)
  <1>1. r.op \in Ops
    BY PlanIs
  <1> QED
    BY <1>1 DEF Program, Ops, ReconcileProgram, VideoProgram, WeProgram, StaticProgram, FadeProgram

LEMMA TheEnd == \A i \in Ending : i.do = "tail" /\ i.launch.keep = {}
  BY DEF Ending, Each, Part, NoLaunch

LEMMA LaunchForms ==
    ASSUME NEW r \in Plans, NEW l \in Launched(r)
    PROVE  Formed(l) /\ l \in Launches
  <1>1. r.op \in Ops /\ Launched(r) = All(r) /\ l \in Launches /\ DOMAIN r.want \in Groups
    BY PlanIs, LaunchedIs, ProgramIs
  <1> SUFFICES Formed(l)
    BY <1>1
  <1>2. /\ Paper \in Installed /\ \A G : <<"still", G>>[2] = G /\ <<"video", G>>[2] = G
        /\ Base[2] = {} /\ Paper[2] = {} /\ Shared[2] = {} /\ Multi[2] = {}
    BY SlotKinds DEF Base, Paper, Shared, Multi
  <1>3. ASSUME NEW G \in Groups
        PROVE  /\ <<"still", G>> # Paper /\ <<"video", G>> # Paper
               /\ <<"still", G>> \in Installed /\ <<"video", G>> \in Installed
               /\ <<"video", G>> \in Videos \ {Shared, Multi}
               /\ <<"overlay", G>> \notin Installed
    <2>1. <<"still", G>> # Paper /\ <<"video", G>> # Paper
      BY DEF Paper
    <2> QED
      BY <2>1, SlotKinds
  <1>4. /\ \A m : ~m.scene /\ m.slot \in {Base, Shared, Multi} => Formed(m)
        /\ \A m : ~m.scene /\ m.serves = {} /\ (m.slot \notin Installed \/ m.slot = Paper) => Formed(m)
        /\ \A m : \A G \in Groups :
              ~m.scene /\ m.serves = G /\ m.slot \in {<<"still", G>>, <<"video", G>>} => Formed(m)
    <2>1. /\ Base \in Installed /\ Shared \in Installed /\ Multi \in Installed /\ Base # Paper
          /\ Shared # Paper /\ Multi # Paper
      BY SlotKinds
    <2>2. ASSUME NEW m, ~m.scene, m.slot \in {Base, Shared, Multi} PROVE Formed(m)
      BY <1>2, <2>1, <2>2 DEF Formed
    <2>3. ASSUME NEW m, ~m.scene, m.serves = {}, m.slot \notin Installed \/ m.slot = Paper
          PROVE Formed(m)
      BY <1>2, <2>3 DEF Formed
    <2>4. ASSUME NEW m, NEW G \in Groups, ~m.scene, m.serves = G,
                 m.slot \in {<<"still", G>>, <<"video", G>>}
          PROVE Formed(m)
      BY <1>2, <1>3, <2>4 DEF Formed
    <2> QED
      BY <2>2, <2>3, <2>4
  <1>5. \A s, S, K : /\ [Launch(s, S) EXCEPT !.keep = K].serves = S
                     /\ [Launch(s, S) EXCEPT !.keep = K].slot = s
                     /\ ~[Launch(s, S) EXCEPT !.keep = K].scene
                     /\ [Launch(s, S) EXCEPT !.hidden = K].serves = S
                     /\ [Launch(s, S) EXCEPT !.hidden = K].slot = s
                     /\ ~[Launch(s, S) EXCEPT !.hidden = K].scene
                     /\ Launch(s, S).slot = s /\ Launch(s, S).serves = S /\ ~Launch(s, S).scene
    BY DEF Launch, NoLaunch
  <1>6. ASSUME NEW sets \in SUBSET Groups, NEW m \in Overlays(sets) PROVE Formed(m)
    <2>1. PICK G \in sets : m = Launch(<<"overlay", G>>, {})
      BY <1>6 DEF Overlays
    <2>2. m.slot = <<"overlay", G>> /\ m.serves = {} /\ ~m.scene
      BY <1>5, <2>1
    <2>3. m.slot \notin Installed
      BY <1>3, <2>2
    <2> QED
      BY <1>4, <2>2, <2>3
  <1>7. CASE l \in Handoffs(r)
    <2>1. CASE \E G \in Groups : l = Still(r, G)
      <3>1. PICK G \in Groups : l = Still(r, G)
        BY <2>1
      <3>2. l.slot = <<"still", G>> /\ l.serves = G /\ ~l.scene
        BY <3>1, StillIs
      <3> QED
        BY <1>4, <3>2
    <2>2. CASE \E o \in Outputs : l = Video(r, o)
      <3>1. PICK o \in Outputs : l = Video(r, o)
        BY <2>2
      <3>2. l.slot = <<"video", {o}>> /\ l.serves = {o} /\ ~l.scene
        BY <3>1, VideoIs
      <3>3. {o} \in Groups
        BY DEF Groups
      <3> QED
        BY <1>4, <3>2, <3>3
    <2>3. CASE l = MultiVideo(r, SharedVideo(r)) /\ SharedVideo(r) \in SUBSET Outputs
      <3>1. l.slot = Multi /\ ~l.scene
        BY <2>3, MultiIs
      <3> QED
        BY <1>4, <3>1
    <2> QED
      BY <1>7, <2>1, <2>2, <2>3, HandoffIs
  <1>8. CASE l \in Scenes(r)
    <2> DEFINE slots == {<<"video", H>> : H \in SceneGroups(r)}
               K(G) == IF r.op = "we" THEN {<<"video", G>>}
                       ELSE IF weRender = WeGroups(r) THEN slots ELSE {}
               scene(G) == [Launch(<<"video", G>>, G) EXCEPT !.scene = TRUE, !.keep = K(G)]
    <2>1. PICK G \in SceneGroups(r) : l = scene(G)
      BY <1>8, Zenon DEF Scenes
    <2>2. scene(G).slot = <<"video", G>> /\ scene(G).serves = G
      BY DEF Launch, NoLaunch
    <2>3. G \in Groups
      BY SharedIs
    <2> HIDE DEF scene
    <2>4. l.slot = <<"video", G>> /\ l.serves = G
      BY <2>1, <2>2
    <2> QED
      BY <1>2, <1>3, <2>3, <2>4 DEF Formed
  <1>9. CASE r.op = "reconcile"
    <2>1. {{o} : o \in r.fades} \in SUBSET Groups
      BY PlanIs DEF Groups
    <2> QED
      BY <1>1, <1>6, <1>7, <1>8, <1>9, <2>1 DEF All, Reconciled, Overlaid
  <1>10. CASE r.op = "video"
    <2>1. l = [Launch(Shared, DOMAIN r.want) EXCEPT !.keep = {Shared}]
      BY <1>1, <1>10 DEF All, Everywhere
    <2>2. l.slot = Shared /\ ~l.scene
      BY <1>5, <2>1
    <2> QED
      BY <1>4, <2>2
  <1>11. CASE r.op = "we"
    BY <1>1, <1>8, <1>11 DEF All
  <1>12. CASE r.op = "static"
    <2>1. l \in Apart(r)
      BY <1>1, <1>12 DEF All
    <2>2. CASE Uniform(r)
      <3>1. l = [Launch(Base, DOMAIN r.want) EXCEPT !.keep = {Base}]
        BY <2>1, <2>2 DEF Apart
      <3>2. l.slot = Base /\ ~l.scene
        BY <1>5, <3>1
      <3> QED
        BY <1>4, <3>2
    <2>3. CASE ~Uniform(r)
      <3> DEFINE each == {<<"still", {o}>> : o \in DOMAIN r.want}
      <3>1. PICK o \in DOMAIN r.want : l = [Launch(<<"still", {o}>>, {o}) EXCEPT !.keep = each]
        BY <2>1, <2>3, Zenon DEF Apart
      <3> HIDE DEF each
      <3>2. {o} \in Groups
        BY PlanIs DEF Groups
      <3>3. l.slot = <<"still", {o}>> /\ l.serves = {o} /\ ~l.scene
        BY <1>5, <3>1
      <3> QED
        BY <1>4, <3>2, <3>3
    <2> QED
      BY <2>2, <2>3
  <1>13. CASE r.op = "fade" /\ l \in Appearing(r)
    <2>1. CASE Uniform(r)
      <3>1. l = [Launch(Base, DOMAIN r.want) EXCEPT !.hidden = TRUE]
        BY <1>13, <2>1 DEF Appearing
      <3>2. l.slot = Base /\ ~l.scene
        BY <1>5, <3>1
      <3> QED
        BY <1>4, <3>2
    <2>2. CASE ~Uniform(r)
      <3>1. PICK G \in FadeGroups(r) : l = [Launch(<<"still", G>>, G) EXCEPT !.hidden = TRUE]
        BY <1>13, <2>2, Zenon DEF Appearing
      <3>2. G \in Groups
        BY SharedIs
      <3>3. l.slot = <<"still", G>> /\ l.serves = G /\ ~l.scene
        BY <1>5, <3>1
      <3> QED
        BY <1>4, <3>2, <3>3
    <2> QED
      BY <2>1, <2>2
  <1>14. CASE r.op = "fade" /\ l \in Fading(r)
    <2>1. CASE Managed(r)
      <3>1. l = Launch(Paper, {})
        BY <1>14, <2>1 DEF Fading
      <3>2. l.slot = Paper /\ l.serves = {} /\ ~l.scene
        BY <1>5, <3>1
      <3> QED
        BY <1>4, <3>2
    <2>2. CASE ~Managed(r)
      <3>1. First(DOMAIN r.want) \in Groups /\ FadeGroups(r) \subseteq Groups
        BY <1>1, FirstIs, SharedIs
      <3>2. l \in Overlays(IF r.fade THEN {First(DOMAIN r.want)} ELSE FadeGroups(r))
        BY <1>14, <2>2 DEF Fading
      <3>3. CASE r.fade
        <4>1. {First(DOMAIN r.want)} \in SUBSET Groups
          BY <3>1
        <4> QED
          BY <1>6, <3>2, <3>3, <4>1
      <3>4. CASE ~r.fade
        BY <1>6, <3>1, <3>2, <3>4
      <3> QED
        BY <3>3, <3>4
    <2> QED
      BY <2>1, <2>2
  <1> QED
    BY <1>1, <1>9, <1>10, <1>11, <1>12, <1>13, <1>14 DEF All, Ops

LEMMA TailedStays ==
    ASSUME IInv, Tailed, [Next]_vars
    PROVE  Tailed'
  <1>1. ASSUME NEW i \in todo, i.do # "tail", todo' = todo \ {i} PROVE Tailed'
    BY <1>1, TheEnd DEF Tailed
  <1>2. ASSUME NEW l, GiveUp(l), plan \in Plans, NEW m \in Launched(plan), l = m PROVE Tailed'
    <2>1. CASE l.shared
      <3> DEFINE s == [plan EXCEPT !.single = @ \cup l.serves]
      <3>1. plan' = s /\ todo' = Rest(plan')
        BY <1>2, <2>1 DEF GiveUp
      <3>2. s \in Plans
        BY <1>2, <2>1, OthersRemain
      <3> HIDE DEF s
      <3>3. Ending \subseteq Program(s)
        BY <3>2, EndsLast
      <3>4. todo' = {k \in Program(s) : k.do \in {"spawn", "wait"} => Of(k.launch) = {}}
        BY <3>1 DEF Rest
      <3> QED
        BY <3>3, <3>4, TheEnd DEF Tailed
    <2>2. CASE ~l.shared
      BY <1>2, <2>2 DEF GiveUp, Tailed
    <2> QED
      BY <2>1, <2>2
  <1>3. CASE todo' = {} \/ todo' = todo
    BY <1>3 DEF Tailed
  <1>4. CASE \E q \in Requests : Start(q)
    <2>1. PICK q \in Requests : Start(q)
      BY <1>4
    <2>2. IInv' /\ todo' = Program(plan') /\ prior' = assigned /\ weRender' = weRender /\ Idle /\ ~Idle'
      BY <2>1, StartStep, Zenon DEF Start, Idle
    <2>3. prior' = prior
      BY <2>2 DEF IInv, Resting
    <2>4. plan' \in Plans
      BY <2>2 DEF IInv, Running
    <2>5. PICK r : r = plan'
      OBVIOUS
    <2> QED
      BY <2>2, <2>4, <2>5, EndsLast DEF Tailed
  <1>5. CASE Spawn
    <2>1. PICK i \in Reached("spawn") : Step(i) \/ GiveUp(i.launch)
      BY <1>5, Zenon DEF Spawn
    <2>2. i \in todo /\ i.do = "spawn" /\ plan \in Plans /\ i.launch \in Launched(plan)
      BY Takes
    <2> QED
      BY <1>1, <1>2, <2>1, <2>2 DEF Step
  <1>6. CASE Reuse
    <2>1. PICK i \in Reached("spawn") :
            /\ i.launch.keep # {}
            /\ \/ todo' = {j \in todo : j.launch \notin {k.launch : k \in {x \in todo : x.launch.keep = i.launch.keep}}}
               \/ GiveUp(i.launch)
      BY <1>6, Zenon DEF Reuse
    <2>2. i \in todo /\ plan \in Plans /\ i.launch \in Launched(plan)
      BY Takes
    <2>3. CASE GiveUp(i.launch)
      BY <1>2, <2>2, <2>3
    <2>4. CASE todo' = {j \in todo : j.launch \notin {k.launch : k \in {x \in todo : x.launch.keep = i.launch.keep}}}
      <3>1. \A j \in todo : j.launch.keep = {} => j \in todo'
        BY <2>1, <2>4
      <3>2. todo' # {} => todo # {}
        BY <2>4
      <3> QED
        BY <3>1, <3>2, TheEnd DEF Tailed
    <2> QED
      BY <2>1, <2>3, <2>4
  <1>7. CASE Wait
    <2>1. PICK i \in Reached("wait") \cup Reached("answer") : \E t \in Of(i.launch) :
            Step(i) \/ GiveUp(t.launch) \/ todo' = {}
      BY <1>7, Zenon DEF Wait
    <2>2. PICK t \in Of(i.launch) : Step(i) \/ GiveUp(t.launch) \/ todo' = {}
      BY <2>1
    <2>3. i \in todo /\ i.do # "tail" /\ plan \in Plans /\ ~Idle
      BY Takes
    <2>4. t.launch \in Launched(plan)
      BY <2>3 DEF IInv, Running, Of
    <2> QED
      BY <1>1, <1>2, <1>3, <2>2, <2>3, <2>4 DEF Step
  <1>8. CASE Reveal \/ Prepare \/ Commit
    <2>1. PICK i \in Reached("reveal") \cup Reached("prepare") \cup Reached("start") \cup Reached("commit") :
            \/ Step(i)
            \/ todo' = (todo \ {i}) \cup {[i EXCEPT !.do = "answer"]}
            \/ todo' = {}
      BY <1>8, Zenon DEF Reveal, Prepare, Commit
    <2>2. i \in todo /\ i.do # "tail"
      BY Takes
    <2>3. CASE todo' = (todo \ {i}) \cup {[i EXCEPT !.do = "answer"]}
      BY <2>2, <2>3, TheEnd DEF Tailed
    <2> QED
      BY <1>1, <1>3, <2>1, <2>2, <2>3 DEF Step
  <1>9. CASE Tidy \/ Drop \/ Fail
    BY <1>3, <1>9, Zenon DEF Tidy, Drop, Fail
  <1>10. CASE Reap \/ Hotplug
    BY <1>3, <1>10, Zenon DEF Reap, Hotplug
  <1>11. CASE \E p \in Pids : \E result \in {"ok", "err"} : Signal(p, result)
    BY <1>3, <1>11, Zenon DEF Signal, program
  <1>12. CASE \E p \in Pids : Exit(p) \/ RetirePaper(p) \/ ReleaseDeferred(p)
    BY <1>3, <1>12, Zenon DEF Exit, RetirePaper, ReleaseDeferred, program
  <1>13. CASE UNCHANGED vars
    BY <1>3, <1>13, Zenon DEF vars
  <1> QED
    BY <1>4, <1>5, <1>6, <1>7, <1>8, <1>9, <1>10, <1>11, <1>12, <1>13, Zenon DEF Next, Run

\* Who is held keeps the role it was started for.
LEMMA RoleKept ==
    ASSUME IInv, IInv', NEW ps, Kill(ps), NEW q \in Pids, phase'[q] # "free"
    PROVE  role'[q] = role[q]
  BY DEF Kill, IInv, TypeOK

LEMMA HeldRuns ==
    ASSUME IInv'
    PROVE  /\ \A s \in Slots : slot'[s] # Nobody => slot'[s] \in Pids /\ phase'[slot'[s]] # "free"
           /\ \A t \in open' : \A s \in DOMAIN t.from : t.from[s] \in Pids /\ phase'[t.from[s]] # "free"
           /\ \A t \in open' : t.pid \in Pids /\ t.launch.slot \in Slots /\ slot'[t.launch.slot] \in {t.pid, Nobody}
  <1>1. ASSUME NEW s \in Slots, slot'[s] # Nobody
        PROVE  slot'[s] \in Pids /\ phase'[slot'[s]] # "free"
    <2>1. PICK p \in Pids : p = slot'[s]
      BY <1>1 DEF IInv, TypeOK
    <2>2. InSlot(p)'
      BY <2>1 DEF InSlot
    <2> QED
      BY <2>1, <2>2 DEF IInv, Accounted
  <1>2. ASSUME NEW t \in open', NEW s \in DOMAIN t.from
        PROVE  t.from[s] \in Pids /\ phase'[t.from[s]] # "free"
    <2>1. t.from[s] \in Pids
      BY DEF IInv, TypeOK
    <2>2. Displaced(t.from[s])'
      BY DEF Displaced
    <2> QED
      BY <2>1, <2>2 DEF IInv, Accounted
  <1>3. ASSUME NEW t \in open'
        PROVE  t.pid \in Pids /\ t.launch.slot \in Slots /\ slot'[t.launch.slot] \in {t.pid, Nobody}
    BY DEF IInv, TypeOK, Launches, Transactions
  <1> QED
    BY <1>1, <1>2, <1>3

\* Renderers stay where they are, are put back, or go.
LEMMA DrawnStays ==
    ASSUME IInv, IInv', Roles, Marked, open' \subseteq open,
           \A q \in Pids : phase'[q] # "free" => role'[q] = role[q],
           \A s \in Slots : slot'[s] # Nobody =>
               \/ slot'[s] = slot[s] /\ (s \in Videos => (s \in marks' <=> s \in marks))
               \/ \E t \in open : s \in DOMAIN t.from /\ slot'[s] = t.from[s] /\
                                  (s \in Videos => (s \in marks' <=> s \in t.marks)),
           \A t \in open' : slot'[t.launch.slot] # Nobody => slot[t.launch.slot] # Nobody,
           \A t \in open' : \A s \in DOMAIN t.from : s \in marks' => s \in marks
    PROVE  Roles' /\ Marked'
  <1>1. ASSUME NEW s \in Slots, slot'[s] # Nobody
        PROVE  /\ role'[slot'[s]].slot = s /\ Formed(role'[slot'[s]])
               /\ s \in Videos => (s \in marks' <=> role'[slot'[s]].scene)
    <2>1. role'[slot'[s]] = role[slot'[s]]
      BY <1>1, HeldRuns
    <2>2. CASE slot'[s] = slot[s] /\ (s \in Videos => (s \in marks' <=> s \in marks))
      BY <1>1, <2>1, <2>2 DEF Roles, Marked
    <2>3. CASE \E t \in open : s \in DOMAIN t.from /\ slot'[s] = t.from[s] /\
                               (s \in Videos => (s \in marks' <=> s \in t.marks))
      BY <1>1, <2>1, <2>3 DEF Roles, Marked
    <2> QED
      BY <1>1, <2>2, <2>3
  <1>2. ASSUME NEW t \in open'
        PROVE  /\ slot'[t.launch.slot] # Nobody => role'[t.pid] = t.launch
               /\ \A s \in DOMAIN t.from : /\ role'[t.from[s]].slot = s /\ Formed(role'[t.from[s]])
                                           /\ s \in t.marks <=> role'[t.from[s]].scene
                                           /\ s \in marks' => s = t.launch.slot
    <2>1. ASSUME slot'[t.launch.slot] # Nobody PROVE role'[t.pid] = t.launch
      BY <2>1, HeldRuns DEF Roles
    <2>2. ASSUME NEW s \in DOMAIN t.from
          PROVE  /\ role'[t.from[s]].slot = s /\ Formed(role'[t.from[s]])
                 /\ s \in t.marks <=> role'[t.from[s]].scene
                 /\ s \in marks' => s = t.launch.slot
      <3>1. role'[t.from[s]] = role[t.from[s]]
        BY HeldRuns
      <3> QED
        BY <3>1 DEF Roles, Marked
    <2> QED
      BY <2>1, <2>2
  <1>3. Videos \subseteq Slots
    BY SlotKinds
  <1>4. \A l : Formed(l)' <=> Formed(l)
    BY DEF Formed
  <1> QED
    BY <1>1, <1>2, <1>3, <1>4 DEF Roles, Marked

LEMMA SameDrawn ==
    ASSUME IInv, IInv', Roles, Marked, slot' = slot, open' = open, marks' = marks,
           \A q \in Pids : phase'[q] # "free" => role'[q] = role[q]
    PROVE  Roles' /\ Marked'
  BY DrawnStays

LEMMA EmptyDrawn ==
    ASSUME IInv, IInv', Roles, Marked, NEW S, slot' = Without(S), open' \subseteq open,
           marks' \in {marks, marks \ S}, NEW ps, Kill(ps)
    PROVE  Roles' /\ Marked'
  <1>1. \A q \in Pids : phase'[q] # "free" => role'[q] = role[q]
    BY RoleKept
  <1>2. \A s \in Slots : slot'[s] # Nobody => s \notin S /\ slot'[s] = slot[s]
    BY DEF Without
  <1>3. \A t \in open' : t.launch.slot \in Slots
    BY HeldRuns
  <1> QED
    BY <1>1, <1>2, <1>3, DrawnStays

LEMMA UndoDrawn ==
    ASSUME IInv, IInv', Roles, Marked, NEW t \in open, Undo(t)
    PROVE  Roles' /\ Marked'
  <1>1. \A q \in Pids : phase'[q] # "free" => role'[q] = role[q]
    BY RoleKept DEF Undo
  <1>2. /\ open' = open \ {t} /\ marks' = (marks \ {t.launch.slot}) \cup t.marks
        /\ \A s \in Slots : slot'[s] = IF s \in DOMAIN t.from THEN t.from[s]
                                       ELSE IF s = t.launch.slot /\ slot[s] = t.pid THEN Nobody
                                       ELSE slot[s]
    BY DEF Undo
  <1>3. t.marks \subseteq DOMAIN t.from
    BY DEF IInv, TypeOK
  <1>4. slot[t.launch.slot] \in {t.pid, Nobody}
    BY DEF IInv, Transactions
  <1>5. ASSUME NEW s \in Slots, slot'[s] # Nobody
        PROVE  \/ slot'[s] = slot[s] /\ (s \in Videos => (s \in marks' <=> s \in marks))
               \/ \E u \in open : s \in DOMAIN u.from /\ slot'[s] = u.from[s] /\
                                  (s \in Videos => (s \in marks' <=> s \in u.marks))
    <2>1. CASE s \in DOMAIN t.from
      <3>1. s \in marks => s = t.launch.slot
        BY <2>1 DEF Marked
      <3> QED
        BY <1>2, <2>1, <3>1
    <2>2. CASE s \notin DOMAIN t.from
      <3>1. s # t.launch.slot
        BY <1>2, <1>4, <1>5, <2>2
      <3> QED
        BY <1>2, <1>3, <2>2, <3>1
    <2> QED
      BY <2>1, <2>2
  <1>6. /\ \A u \in open : DOMAIN u.from \subseteq Reach(u.launch) /\ u.launch.slot \in Reach(u.launch)
        /\ \A u \in open' : Reach(u.launch) \cap Reach(t.launch) = {}
    <2>1. \A u \in open : DOMAIN u.from \subseteq Taken(u.launch)
      BY DEF IInv, Transactions
    <2> QED
      BY <1>2, <2>1, OpenApart DEF Reach
  <1>7. ASSUME NEW u \in open' PROVE slot'[u.launch.slot] = slot[u.launch.slot]
    <2>1. u.launch.slot \notin DOMAIN t.from /\ u.launch.slot # t.launch.slot
      BY <1>2, <1>6
    <2> QED
      BY <1>2, <2>1, HeldRuns
  <1>8. ASSUME NEW u \in open', NEW s \in DOMAIN u.from, s \in marks' PROVE s \in marks
    <2>1. s \notin DOMAIN t.from
      BY <1>2, <1>6
    <2> QED
      BY <1>2, <1>3, <1>8, <2>1
  <1> QED
    BY <1>1, <1>2, <1>5, <1>7, <1>8, DrawnStays

LEMMA SpawnDrawn ==
    ASSUME IInv, IInv', Roles, Marked, NEW l \in Launched(plan), ~Idle, Of(l) = {},
           NEW p \in Pids, phase[p] = "free", NEW t,
           NEW taken, taken = {s \in Taken(l) : slot[s] # Nobody},
           t.launch = l, t.pid = p, t.from = Only(slot, taken), t.marks = marks \cap taken,
           slot' = [Without(taken) EXCEPT ![l.slot] = p], open' = open \cup {t},
           marks' = IF l.slot \in Videos
                    THEN (marks \ (Taken(l) \cup {l.slot})) \cup (IF l.scene THEN {l.slot} ELSE {})
                    ELSE marks,
           role' = [role EXCEPT ![p] = l]
    PROVE  Roles' /\ Marked'
  <1>1. plan \in Plans /\ Formed(l) /\ l \in Launches /\ l.slot \in Slots
    <2>1. plan \in Plans
      BY DEF IInv, Running
    <2> QED
      BY <2>1, LaunchForms DEF Launches
  <1>2. Taken(l) \subseteq Installed /\ (l.slot \in Installed => l.slot \in Taken(l))
        /\ (l.slot \notin Videos => Taken(l) \subseteq {l.slot}) /\ Taken(l) \subseteq Slots
    <2>1. CASE l.slot = Shared
      BY <2>1, SlotKinds DEF Taken, Installed
    <2>2. CASE l.slot # Shared
      BY <2>2, SlotKinds DEF Taken, Installed
    <2> QED
      BY <2>1, <2>2
  <1>3. /\ role \in [Pids -> Launches] /\ slot \in [Slots -> Pids \cup {Nobody}] /\ marks \subseteq Videos
        /\ \A s \in Slots : slot[s] # p
        /\ \A u \in open : \A s \in DOMAIN u.from : u.from[s] \in Pids /\ u.from[s] # p /\ s \in Slots
    <2>1. ~InSlot(p) /\ ~Displaced(p)
      BY DEF IInv, Accounted
    <2> QED
      BY <2>1, SlotKinds DEF IInv, TypeOK, InSlot, Displaced
  <1>4. role'[p] = l /\ \A q \in Pids : q # p => role'[q] = role[q]
    BY <1>3
  <1>5. \A s \in Slots : slot'[s] = IF s = l.slot THEN p ELSE IF s \in taken THEN Nobody ELSE slot[s]
    BY <1>1 DEF Without
  <1>6. \A u \in open : u.launch # l /\ Reach(u.launch) \cap Reach(l) = {} /\ DOMAIN u.from \subseteq Reach(u.launch)
                        /\ u.launch.slot \in Reach(u.launch) /\ u.launch.slot \in Slots
    <2>1. \A u \in open : u.launch \in Launched(plan) /\ u.launch # l /\ u.launch.slot \in Slots
      BY DEF IInv, Running, Of, TypeOK, Launches
    <2>2. \A u \in open : DOMAIN u.from \subseteq Taken(u.launch)
      BY DEF IInv, Transactions
    <2> QED
      BY <1>1, <2>1, <2>2, ApartReach DEF Reach
  <1>7. DOMAIN t.from = taken /\ \A s \in taken : t.from[s] = slot[s] /\ slot[s] \in Pids /\ s \in Slots
    BY <1>2, <1>3 DEF Only
  <1>8. ASSUME NEW s \in Slots, slot'[s] # Nobody
        PROVE  /\ role'[slot'[s]].slot = s /\ Formed(role'[slot'[s]])
               /\ s \in Videos => (s \in marks' <=> role'[slot'[s]].scene)
    <2>1. CASE s = l.slot
      <3>1. slot'[s] = p /\ role'[p] = l
        BY <1>4, <1>5, <2>1
      <3>2. s \in Videos => (s \in marks' <=> l.scene)
        BY <2>1
      <3> QED
        BY <1>1, <2>1, <3>1, <3>2
    <2>2. CASE s # l.slot
      <3>1. slot'[s] = slot[s] /\ slot[s] \in Pids /\ s \notin taken /\ role'[slot[s]] = role[slot[s]]
        BY <1>3, <1>4, <1>5, <1>8, <2>2
      <3>2. s \notin Taken(l)
        BY <1>8, <3>1
      <3>3. s \in marks' <=> s \in marks
        BY <2>2, <3>2
      <3> QED
        BY <1>8, <3>1, <3>3 DEF Roles, Marked
    <2> QED
      BY <2>1, <2>2
  <1>9. ASSUME NEW u \in open'
        PROVE  /\ slot'[u.launch.slot] # Nobody => role'[u.pid] = u.launch
               /\ \A s \in DOMAIN u.from : /\ role'[u.from[s]].slot = s /\ Formed(role'[u.from[s]])
                                           /\ s \in u.marks <=> role'[u.from[s]].scene
                                           /\ s \in marks' => s = u.launch.slot
    <2>1. CASE u = t
      <3>1. role'[u.pid] = u.launch
        BY <1>4, <2>1
      <3>2. ASSUME NEW s \in taken
            PROVE  /\ role'[slot[s]].slot = s /\ Formed(role'[slot[s]])
                   /\ s \in marks <=> role'[slot[s]].scene
                   /\ s \in marks' => s = l.slot
        <4>1. slot[s] # Nobody /\ s \in Taken(l) /\ role'[slot[s]] = role[slot[s]] /\ s \in Slots
          BY <1>3, <1>4, <1>7
        <4>2. role[slot[s]].slot = s /\ Formed(role[slot[s]])
          BY <4>1 DEF Roles
        <4>3. s \in marks <=> role[slot[s]].scene
          <5>1. CASE s \in Videos
            BY <4>1, <5>1 DEF Marked
          <5>2. CASE s \notin Videos
            <6>1. ~role[slot[s]].scene
              BY <4>2, <5>2 DEF Formed
            <6> QED
              BY <1>3, <5>2, <6>1
          <5> QED
            BY <5>1, <5>2
        <4>4. s \in marks' => s = l.slot
          BY <1>2, <4>1
        <4> QED
          BY <4>1, <4>2, <4>3, <4>4
      <3> QED
        BY <1>7, <2>1, <3>1, <3>2
    <2>2. CASE u \in open
      <3>1. ASSUME slot'[u.launch.slot] # Nobody PROVE role'[u.pid] = u.launch
        <4>1. u.launch.slot # l.slot
          BY <1>6, <2>2 DEF Reach
        <4>2. slot[u.launch.slot] # Nobody /\ slot[u.launch.slot] \in {u.pid, Nobody} /\ u.launch.slot \in Slots
          BY <1>5, <1>6, <2>2, <3>1, <4>1 DEF IInv, Transactions
        <4>3. u.pid # p /\ u.pid \in Pids
          BY <1>3, <4>2
        <4> QED
          BY <1>4, <2>2, <4>2, <4>3 DEF Roles
      <3>2. ASSUME NEW s \in DOMAIN u.from
            PROVE  /\ role'[u.from[s]].slot = s /\ Formed(role'[u.from[s]])
                   /\ s \in u.marks <=> role'[u.from[s]].scene
                   /\ s \in marks' => s = u.launch.slot
        <4>1. role'[u.from[s]] = role[u.from[s]]
          BY <1>3, <1>4, <2>2
        <4>2. s # l.slot
          BY <1>6, <2>2 DEF Reach
        <4>3. s \in marks' => s \in marks
          BY <4>2
        <4> QED
          BY <2>2, <4>1, <4>3 DEF Roles, Marked
      <3> QED
        BY <3>1, <3>2
    <2> QED
      BY <2>1, <2>2
  <1>10. Videos \subseteq Slots
    BY SlotKinds
  <1>11. /\ \A s \in Slots : slot'[s] # Nobody => role'[slot'[s]].slot = s /\ Formed(role'[slot'[s]])
         /\ \A s \in Videos : slot'[s] # Nobody => (s \in marks' <=> role'[slot'[s]].scene)
    BY <1>8, <1>10
  <1>12. Roles'
    BY <1>9, <1>11 DEF Roles
  <1>13. Marked'
    BY <1>9, <1>11 DEF Marked
  <1> QED
    BY <1>12, <1>13

\* Spawn, Wait and Drop in terms of the transaction that begins or is dropped.
Begins(l, p, t, taken) ==
    /\ taken = {s \in Taken(l) : slot[s] # Nobody}
    /\ t.launch = l /\ t.pid = p /\ t.from = Only(slot, taken) /\ t.marks = marks \cap taken
    /\ slot' = [Without(taken) EXCEPT ![l.slot] = p] /\ open' = open \cup {t}
    /\ marks' = IF l.slot \in Videos
                THEN (marks \ (Taken(l) \cup {l.slot})) \cup (IF l.scene THEN {l.slot} ELSE {})
                ELSE marks
    /\ phase' = [phase EXCEPT ![p] = IF l.hidden THEN "preloading" ELSE "loading"]
    /\ role' = [role EXCEPT ![p] = l]

LEMMA SpawnBegins ==
    ASSUME IInv, Spawn
    PROVE  /\ gate' = gate /\ assigned' = assigned /\ prior' = prior /\ outcome' = outcome
           /\ weRender' = weRender /\ timers' = timers /\ deferred' = deferred /\ linger' = linger
           /\ live' = live /\ used' = used
           /\ \E i \in Reached("spawn") :
                \/ \E p \in Fresh : \E t, taken : Begins(i.launch, p, t, taken) /\ Step(i)
                \/ GiveUp(i.launch) /\ UNCHANGED <<slot, marks, open, phase, role>>
  <1>1. /\ gate' = gate /\ assigned' = assigned /\ prior' = prior /\ outcome' = outcome
        /\ weRender' = weRender /\ timers' = timers /\ deferred' = deferred /\ linger' = linger
        /\ live' = live /\ used' = used
    BY DEF Spawn, quiet
  <1>2. PICK i \in Reached("spawn") :
          LET l == i.launch
              taken == {s \in Taken(l) : slot[s] # Nobody}
          IN \/ \E p \in Fresh :
                  /\ \A q \in Fresh : p <= q
                  /\ slot' = [Without(taken) EXCEPT ![l.slot] = p]
                  /\ marks' = IF l.slot \in Videos
                              THEN (marks \ (Taken(l) \cup {l.slot})) \cup
                                   (IF l.scene THEN {l.slot} ELSE {})
                              ELSE marks
                  /\ open' = open \cup {[launch |-> l, pid |-> p, from |-> Only(slot, taken),
                                         marks |-> marks \cap taken]}
                  /\ phase' = [phase EXCEPT ![p] = IF l.hidden THEN "preloading" ELSE "loading"]
                  /\ role' = [role EXCEPT ![p] = l]
                  /\ Step(i)
             \/ GiveUp(l) /\ UNCHANGED <<slot, marks, open, phase, role>>
    BY Zenon DEF Spawn
  <1> DEFINE l == i.launch
             taken == {s \in Taken(l) : slot[s] # Nobody}
             new(p) == [launch |-> l, pid |-> p, from |-> Only(slot, taken), marks |-> marks \cap taken]
  <1>3. ASSUME NEW p \in Fresh,
               slot' = [Without(taken) EXCEPT ![l.slot] = p],
               marks' = IF l.slot \in Videos
                        THEN (marks \ (Taken(l) \cup {l.slot})) \cup (IF l.scene THEN {l.slot} ELSE {})
                        ELSE marks,
               open' = open \cup {new(p)},
               phase' = [phase EXCEPT ![p] = IF l.hidden THEN "preloading" ELSE "loading"],
               role' = [role EXCEPT ![p] = l], Step(i)
        PROVE  \E q \in Fresh : \E t, T : Begins(l, q, t, T) /\ Step(i)
    <2>1. new(p).launch = l /\ new(p).pid = p /\ new(p).from = Only(slot, taken) /\ new(p).marks = marks \cap taken
      OBVIOUS
    <2>2. taken = {s \in Taken(l) : slot[s] # Nobody}
      OBVIOUS
    <2> HIDE DEF new, taken, l
    <2>3. Begins(l, p, new(p), taken)
      BY <1>3, <2>1, <2>2, Zenon DEF Begins
    <2> QED
      BY <1>3, <2>3
  <1>4. \/ \E p \in Fresh :
                  /\ slot' = [Without(taken) EXCEPT ![l.slot] = p]
                  /\ marks' = IF l.slot \in Videos
                              THEN (marks \ (Taken(l) \cup {l.slot})) \cup
                                   (IF l.scene THEN {l.slot} ELSE {})
                              ELSE marks
                  /\ open' = open \cup {new(p)}
                  /\ phase' = [phase EXCEPT ![p] = IF l.hidden THEN "preloading" ELSE "loading"]
                  /\ role' = [role EXCEPT ![p] = l]
                  /\ Step(i)
        \/ GiveUp(l) /\ UNCHANGED <<slot, marks, open, phase, role>>
    BY <1>2, Zenon
  <1> HIDE DEF new, taken
  <1>5. \/ \E q \in Fresh : \E t, T : Begins(l, q, t, T) /\ Step(i)
        \/ GiveUp(l) /\ UNCHANGED <<slot, marks, open, phase, role>>
    BY <1>3, <1>4, Zenon
  <1> QED
    BY <1>1, <1>5, Zenon

\* The kinds of steps, as far as slots, marks, transactions and roles go.
Keeps3 == /\ slot' = slot /\ marks' = marks /\ open' = open
          /\ \A q \in Pids : phase'[q] # "free" => role'[q] = role[q]
Empties == \E S \in SUBSET Slots : /\ slot' = Without(S) /\ open' \subseteq open
                                   /\ open' # open => Committing
                                   /\ marks' = marks \ S /\ \E ps : Kill(ps)
Drops == \E t \in open : Undo(t)
Opens == \E i \in Reached("spawn") : \E p \in Fresh : \E t, taken : Begins(i.launch, p, t, taken)

LEMMA StepKinds ==
    ASSUME IInv, IInv', [Next]_vars
    PROVE  Keeps3 \/ Empties \/ Drops \/ Opens
  <1>0. slot = [s \in Slots |-> slot[s]] /\ Without({}) = slot
    BY DEF IInv, TypeOK, Without
  <1>1. CASE slot' = slot /\ marks' = marks /\ open' = open /\ role' = role
    BY <1>1 DEF Keeps3
  <1>2. CASE Spawn
    BY <1>1, <1>2, SpawnBegins DEF Opens
  <1>3. CASE Reuse \/ Reveal \/ Prepare \/ Fail \/ \E q \in Requests : Start(q)
    BY <1>1, <1>3, Zenon DEF Reuse, Reveal, Prepare, Fail, Start
  <1>4. CASE Wait
    <2>1. PICK i \in Reached("wait") \cup Reached("answer") : \E t \in Of(i.launch) :
             Undo(t) \/ UNCHANGED <<slot, marks, phase, role, open>>
      BY <1>4, Zenon DEF Wait
    <2>2. \A t \in Of(i.launch) : t \in open
      BY DEF Of
    <2> QED
      BY <1>1, <2>1, <2>2 DEF Drops
  <1>5. CASE Commit
    <2>1. PICK i \in Reached("commit") : \E t \in Of(i.launch) :
            /\ open' = open \ {t} /\ Kill(Range(t.from))
            /\ IF t.launch.slot \in Installed THEN slot' = slot ELSE slot' = Without({t.launch.slot})
      BY <1>5, Zenon DEF Commit
    <2>2. PICK t \in Of(i.launch) :
            /\ open' = open \ {t} /\ Kill(Range(t.from))
            /\ IF t.launch.slot \in Installed THEN slot' = slot ELSE slot' = Without({t.launch.slot})
      BY <2>1
    <2>3. marks' = marks /\ t.launch.slot \in Slots /\ marks \subseteq Videos
      BY <1>5, Zenon DEF Commit, Of, IInv, TypeOK, Launches
    <2>6. Committing
      BY CommitsLast
    <2>4. CASE t.launch.slot \in Installed
      <3>1. slot' = Without({}) /\ marks' = marks \ {}
        BY <1>0, <2>2, <2>3, <2>4
      <3> QED
        BY <2>2, <2>3, <2>6, <3>1 DEF Empties
    <2>5. CASE t.launch.slot \notin Installed
      <3>1. slot' = Without({t.launch.slot}) /\ {t.launch.slot} \in SUBSET Slots
        BY <2>2, <2>3, <2>5
      <3>2. marks' = marks \ {t.launch.slot}
        BY <2>3, <2>5 DEF Installed
      <3> QED
        BY <2>2, <2>6, <3>1, <3>2 DEF Empties
    <2> QED
      BY <2>4, <2>5
  <1>6. CASE Tidy
    <2>1. Emptied(plan) \in SUBSET Slots
      BY SlotKinds DEF Emptied
    <2>2. slot' = Without(Emptied(plan)) /\ marks' = marks \ Emptied(plan) /\ open' = open
          /\ \E ps : Kill(ps)
      BY <1>6, Zenon DEF Tidy
    <2> QED
      BY <2>1, <2>2 DEF Empties
  <1>7. CASE Drop
    BY <1>7 DEF Drop, Drops
  <1>8. CASE \E p \in Pids : \E result \in {"ok", "err"} : Signal(p, result)
    BY <1>1, <1>8, Zenon DEF Signal, program
  <1>9. CASE \E p \in Pids : Exit(p)
    BY <1>1, <1>9, Zenon DEF Exit, program
  <1>10. CASE \E p \in Pids : RetirePaper(p)
    <2>1. PICK p \in Pids : RetirePaper(p)
      BY <1>10
    <2>2. CASE slot[Paper] = p
      <3>1. slot' = Without({Paper}) /\ Kill({p}) /\ marks' = marks /\ open' = open
        BY <2>1, <2>2 DEF RetirePaper
      <3>2. {Paper} \in SUBSET Slots /\ Paper \notin Videos
        BY SlotKinds DEF Videos, Paper, Shared, Multi
      <3>3. marks' = marks \ {Paper}
        BY <3>1, <3>2 DEF IInv, TypeOK
      <3> QED
        BY <3>1, <3>2, <3>3 DEF Empties
    <2>3. CASE slot[Paper] # p
      BY <1>1, <2>1, <2>3 DEF RetirePaper
    <2> QED
      BY <2>2, <2>3
  <1>11. CASE \E p \in Pids : ReleaseDeferred(p)
    <2>1. PICK p \in Pids : ReleaseDeferred(p)
      BY <1>11
    <2>2. slot' = slot /\ marks' = marks /\ open' = open /\ Kill({p})
      BY <2>1, Zenon DEF ReleaseDeferred, program
    <2> QED
      BY <2>2, RoleKept DEF Keeps3
  <1>12. CASE Reap
    <2>1. PICK S \in {{Paper}, Installed} :
            LET exited == {s \in S : slot[s] # Nobody /\ ~Alive(s)} IN
            slot' = Without(exited) /\ marks' = marks \ exited /\ Kill(In(exited))
      BY <1>12, Zenon DEF Reap
    <2>2. open' = open
      BY <1>12, Zenon DEF Reap
    <2> DEFINE exited == {s \in S : slot[s] # Nobody /\ ~Alive(s)}
    <2>3. exited \in SUBSET Slots
      BY SlotKinds
    <2>4. slot' = Without(exited) /\ marks' = marks \ exited /\ Kill(In(exited))
      BY <2>1
    <2> HIDE DEF exited
    <2> QED
      BY <2>2, <2>3, <2>4 DEF Empties
  <1>13. CASE Hotplug
    <2>1. \E gone : slot' = Without(gone) /\ marks' = marks \ gone /\ Kill(In(gone))
                    /\ gone \subseteq Slots
      <3>1. PICK now \in Groups : \E lost, un \in BOOLEAN :
              LET gone == DepartedSlots(now) \cup (IF lost THEN {Multi} ELSE {})
                          \cup (IF un /\ Alive(Shared) THEN {Shared} ELSE {})
              IN slot' = Without(gone) /\ marks' = marks \ gone /\ Kill(In(gone))
        BY <1>13, Zenon DEF Hotplug
      <3>2. PICK lost, un \in BOOLEAN :
              LET gone == DepartedSlots(now) \cup (IF lost THEN {Multi} ELSE {})
                          \cup (IF un /\ Alive(Shared) THEN {Shared} ELSE {})
              IN slot' = Without(gone) /\ marks' = marks \ gone /\ Kill(In(gone))
        BY <3>1
      <3> DEFINE gone == DepartedSlots(now) \cup (IF lost THEN {Multi} ELSE {})
                         \cup (IF un /\ Alive(Shared) THEN {Shared} ELSE {})
      <3>3. gone \subseteq Slots
        BY SlotKinds DEF DepartedSlots
      <3>4. slot' = Without(gone) /\ marks' = marks \ gone /\ Kill(In(gone))
        BY <3>2
      <3> HIDE DEF gone
      <3> QED
        BY <3>3, <3>4
    <2>2. open' = open
      BY <1>13, Zenon DEF Hotplug
    <2> QED
      BY <2>1, <2>2 DEF Empties
  <1>14. CASE UNCHANGED vars
    BY <1>1, <1>14, Zenon DEF vars
  <1> QED
    BY <1>2, <1>3, <1>4, <1>5, <1>6, <1>7, <1>8, <1>9, <1>10, <1>11, <1>12, <1>13, <1>14, Zenon
       DEF Next, Run

LEMMA DrawnKept ==
    ASSUME IInv, IInv', Roles, Marked, [Next]_vars
    PROVE  Roles' /\ Marked'
  <1>1. CASE Keeps3
    BY <1>1, SameDrawn DEF Keeps3
  <1>2. CASE Empties
    <2>1. PICK S \in SUBSET Slots : /\ slot' = Without(S) /\ open' \subseteq open
                                    /\ marks' \in {marks, marks \ S} /\ \E ps : Kill(ps)
      BY <1>2 DEF Empties
    <2> QED
      BY <2>1, EmptyDrawn
  <1>3. CASE Drops
    BY <1>3, UndoDrawn DEF Drops
  <1>4. CASE Opens
    <2>1. PICK i \in Reached("spawn") : \E p \in Fresh : \E t, taken : Begins(i.launch, p, t, taken)
      BY <1>4 DEF Opens
    <2>2. PICK p \in Fresh : \E t, taken : Begins(i.launch, p, t, taken)
      BY <2>1
    <2>3. i.launch \in Launched(plan) /\ ~Idle /\ Of(i.launch) = {} /\ p \in Pids /\ phase[p] = "free"
      BY Takes DEF Fresh
    <2>4. PICK t, taken : Begins(i.launch, p, t, taken)
      BY <2>2
    <2> QED
      BY <2>3, <2>4, SpawnDrawn DEF Begins
  <1> QED
    BY <1>1, <1>2, <1>3, <1>4, StepKinds

\* Once only commits and the end remain, that stays so until the end.
LEMMA ClosingStays ==
    ASSUME IInv, Tailed, Committing, [Next]_vars
    PROVE  Committing' \/ Tidy
  <1>1. todo # {} /\ Ending \subseteq todo /\ \A i \in todo : i.do \in {"commit", "tail"}
    BY DEF Committing, Late, Tailed
  <1>2. CASE todo' = todo
    BY <1>2 DEF Committing, Late
  <1>3. CASE Spawn \/ Reuse \/ Wait \/ Reveal \/ Prepare
    <2>1. \E do \in {"spawn", "wait", "answer", "reveal", "prepare", "start"} : Reached(do) # {}
      BY <1>3, Zenon DEF Spawn, Reuse, Wait, Reveal, Prepare
    <2> QED
      BY <1>1, <2>1 DEF Reached
  <1>4. CASE Commit
    <2>1. PICK i \in Reached("commit") : todo' = todo \ {i}
      BY <1>4, Zenon DEF Commit, Step
    <2>2. i.do = "commit"
      BY DEF Reached
    <2>3. PICK j \in Ending : j.do = "tail"
      <3>1. [stage |-> LastStage, half |-> 1, do |-> "tail", launch |-> NoLaunch] \in Ending
        BY Zenon DEF Ending, Each, Part
      <3> QED
        BY <3>1, TheEnd
    <2>4. j \in todo'
      BY <1>1, <2>1, <2>2, <2>3
    <2> QED
      BY <1>1, <2>1, <2>4 DEF Committing, Late
  <1>5. CASE Drop \/ Fail \/ Hotplug \/ \E q \in Requests : Start(q)
    <2>1. todo = {}
      BY <1>5, Zenon DEF Drop, Fail, Hotplug, Start
    <2> QED
      BY <1>1, <2>1
  <1>6. CASE \E p \in Pids : \/ \E result \in {"ok", "err"} : Signal(p, result)
                             \/ Exit(p) \/ RetirePaper(p) \/ ReleaseDeferred(p)
    <2>1. todo' = todo
      BY <1>6, Zenon DEF Signal, Exit, RetirePaper, ReleaseDeferred, program
    <2> QED
      BY <1>2, <2>1
  <1>7. CASE Reap \/ UNCHANGED vars
    <2>1. todo' = todo
      BY <1>7, Zenon DEF Reap, vars
    <2> QED
      BY <1>2, <2>1
  <1> QED
    BY <1>3, <1>4, <1>5, <1>6, <1>7, Zenon DEF Next, Run

LEMMA NotClosing ==
    ASSUME IInv, ~Committing
    PROVE  ~Commit /\ ~Tidy
  <1>1. Commit \/ Tidy => Reached("commit") \cup Reached("tail") # {}
    BY DEF Commit, Tidy
  <1> QED
    BY <1>1, CommitsLast

\* What is launched undoes to what was there.
LEMMA BeginsUndone ==
    ASSUME IInv, IInv', NEW i \in Reached("spawn"), NEW p \in Fresh, NEW t, NEW taken,
           Begins(i.launch, p, t, taken)
    PROVE  \A s \in Installed : Undone'[s] = Undone[s]
  <1>1. i.launch \in Launched(plan) /\ ~Idle /\ Of(i.launch) = {} /\ p \in Pids /\ phase[p] = "free"
    BY Takes DEF Fresh
  <1>2. i.launch \in Launches /\ Taken(i.launch) \subseteq Slots /\ i.launch.slot \in Slots
    <2>1. i.launch \in Launches
      BY <1>1, ProgramIs DEF IInv, Running
    <2> QED
      BY <2>1, SlotKinds DEF Taken, Launches
  <1>3. /\ \A s \in Taken(i.launch) : slot[s] # Nobody => s \in taken
        /\ taken \in SUBSET Slots /\ taken \subseteq Taken(i.launch)
        /\ \A s \in Slots : s \notin taken /\ s # i.launch.slot => slot'[s] = slot[s]
    BY <1>2 DEF Begins, Without
  <1>4. \A u \in open : u.launch # i.launch
    BY <1>1 DEF Of
  <1>5. t.launch = i.launch /\ t.from = Only(slot, taken) /\ open' = open \cup {t}
    BY DEF Begins
  <1> QED
    BY <1>1, <1>2, <1>3, <1>4, <1>5, SpawnUndone

\* Until then, renderers that would be put back are at most lost.
LEMMA UndoneShrinks ==
    ASSUME IInv, IInv', CInv, ~Committing, [Next]_vars
    PROVE  \A s \in Installed : Undone'[s] # Nobody =>
              Undone'[s] = Undone[s] /\ role'[Undone'[s]] = role[Undone[s]]
  <1>0. \A s \in Installed : /\ Undone'[s] \in Pids \cup {Nobody} /\ Undone[s] \in Pids \cup {Nobody}
                             /\ Undone'[s] # Nobody => phase'[Undone'[s]] # "free"
                             /\ Undone[s] # Nobody => phase[Undone[s]] # "free"
    BY UndoneIsHeld, UndoneStaysHeld DEF UndoneHeld
  <1>1. ASSUME NEW ps, Kill(ps), \A s \in Installed : Undone'[s] \in {Undone[s], Nobody}
        PROVE  \A s \in Installed : Undone'[s] # Nobody =>
                  Undone'[s] = Undone[s] /\ role'[Undone'[s]] = role[Undone[s]]
    <2> SUFFICES ASSUME NEW s \in Installed, Undone'[s] # Nobody
                 PROVE  Undone'[s] = Undone[s] /\ role'[Undone'[s]] = role[Undone[s]]
      OBVIOUS
    <2>1. Undone'[s] = Undone[s] /\ Undone[s] \in Pids /\ phase'[Undone[s]] # "free"
      BY <1>0, <1>1
    <2> QED
      BY <1>1, <2>1, RoleKept
  <1>2. CASE Keeps3
    <2>1. \A s \in Installed : Undone'[s] = Undone[s]
      BY <1>2, SameUndone DEF Keeps3
    <2> QED
      BY <1>0, <1>2, <2>1 DEF Keeps3
  <1>3. CASE Empties
    <2>1. PICK S \in SUBSET Slots : /\ slot' = Without(S) /\ (open' # open => Committing)
                                    /\ \E ps : Kill(ps)
      BY <1>3 DEF Empties
    <2>2. open' = open
      BY <2>1, NotClosing
    <2>3. \A s \in Installed : Undone'[s] \in {Undone[s], Nobody}
      BY <2>1, <2>2, EmptyUndone
    <2> QED
      BY <1>1, <2>1, <2>3
  <1>4. CASE Drops
    <2>1. PICK t \in open : Undo(t)
      BY <1>4 DEF Drops
    <2>2. \A s \in Installed : Undone'[s] = Undone[s]
      BY <2>1, UndoUndone
    <2>3. \E ps : Kill(ps)
      BY <2>1 DEF Undo
    <2> QED
      BY <1>1, <2>2, <2>3
  <1>5. CASE Opens
    <2>1. PICK i \in Reached("spawn") : \E p \in Fresh : \E t, taken : Begins(i.launch, p, t, taken)
      BY <1>5 DEF Opens
    <2>2. PICK p \in Fresh : \E t, taken : Begins(i.launch, p, t, taken)
      BY <2>1
    <2>3. i.launch \in Launched(plan) /\ ~Idle /\ Of(i.launch) = {} /\ p \in Pids /\ phase[p] = "free"
      BY Takes DEF Fresh
    <2>4. PICK t, taken : Begins(i.launch, p, t, taken)
      BY <2>2
    <2>8. role' = [role EXCEPT ![p] = i.launch]
      BY <2>4 DEF Begins
    <2>9. \A s \in Installed : Undone'[s] = Undone[s]
      BY <2>4, BeginsUndone
    <2>10. role \in [Pids -> Launches]
      BY DEF IInv, TypeOK
    <2>11. \A q \in Pids : phase[q] # "free" => role'[q] = role[q]
      BY <2>3, <2>8, <2>10
    <2> QED
      BY <1>0, <2>9, <2>11
  <1> QED
    BY <1>2, <1>3, <1>4, <1>5, StepKinds

LEMMA ApartKept ==
    ASSUME IInv, IInv', CInv, OldApart, ~Committing, [Next]_vars
    PROVE  OldApart'
  <1>1. \A s \in Installed : Undone'[s] # Nobody =>
              Undone'[s] = Undone[s] /\ role'[Undone'[s]] = role[Undone[s]]
    BY UndoneShrinks
  <1> SUFFICES ASSUME NEW s \in Installed, NEW x \in Installed,
                      s # x, Undone'[s] # Nobody, Undone'[x] # Nobody
               PROVE  role'[Undone'[s]].serves \cap role'[Undone'[x]].serves = {}
    BY DEF OldApart
  <1>2. Undone[s] # Nobody /\ Undone[x] # Nobody
    BY <1>1
  <1>3. role[Undone[s]].serves \cap role[Undone[x]].serves = {}
    BY <1>2 DEF OldApart
  <1> QED
    BY <1>1, <1>3

\* Outputs that are shown alike are a class, and no two launches of a
\* reconciliation serve the same output.
LEMMA AlikeApart ==
    ASSUME NEW r, NEW o \in DOMAIN r.want, NEW q \in DOMAIN r.want, Alike(r, o) # Alike(r, q)
    PROVE  Alike(r, o) \cap Alike(r, q) = {}
  BY DEF Alike

LEMMA HandoffsApart ==
    ASSUME NEW r \in Plans, NEW h \in Handoffs(r), NEW g \in Handoffs(r), h # g
    PROVE  h.serves \cap g.serves = {}
  <1> DEFINE W == Wanting(r, "static")
             V == Wanting(r, "video")
             SS == SharedStills(r)
             SV == SharedVideo(r)
  <1>1. W \cap V = {} /\ W \subseteq DOMAIN r.want /\ DOMAIN r.want \subseteq Outputs /\ W \subseteq Outputs
    BY PlanIs DEF Wanting
  <1>2. \A G, H \in SS : G # H => G \cap H = {}
    <2>1. \A G \in SS : \E o \in W : G = Alike(r, o)
      BY DEF SharedStills
    <2> QED
      BY <1>1, <2>1, AlikeApart
  <1>3. SV \in SUBSET V /\ SS \subseteq Groups /\ \A G \in SS : G \subseteq W
    BY SharedIs
  <1>4. ASSUME NEW k \in Handoffs(r)
        PROVE  \/ \E G \in SS : k = Still(r, G) /\ k.serves = G
               \/ \E o \in W \ UNION SS : k = Still(r, {o}) /\ k.serves = {o}
               \/ k = MultiVideo(r, SV) /\ k.serves = SV
               \/ \E o \in V \ SV : k = Video(r, o) /\ k.serves = {o}
    <2>1. CASE k \in {Still(r, G) : G \in SS}
      <3>1. PICK G \in SS : k = Still(r, G)
        BY <2>1
      <3>2. k.serves = G
        BY <1>3, <3>1, StillIs
      <3> QED
        BY <3>1, <3>2
    <2>2. CASE k \in {Still(r, {o}) : o \in W \ UNION SS}
      <3>1. PICK o \in W \ UNION SS : k = Still(r, {o})
        BY <2>2
      <3>2. {o} \in Groups
        BY <1>1 DEF Groups
      <3>3. k.serves = {o}
        BY <3>1, <3>2, StillIs
      <3> QED
        BY <3>1, <3>3
    <2>3. CASE k \in {MultiVideo(r, X) : X \in {SV} \ {{}}}
      <3>1. k = MultiVideo(r, SV)
        BY <2>3
      <3>2. SV \in SUBSET Outputs
        BY <1>3, PlanIs
      <3> QED
        BY <3>1, <3>2, MultiIs
    <2>4. CASE k \in {Video(r, o) : o \in V \ SV}
      <3>1. PICK o \in V \ SV : k = Video(r, o)
        BY <2>4
      <3>2. o \in Outputs
        BY <1>1, PlanIs
      <3>3. k.serves = {o}
        BY <3>1, <3>2, VideoIs
      <3> QED
        BY <3>1, <3>3
    <2> QED
      BY <2>1, <2>2, <2>3, <2>4, Zenon DEF Handoffs
  <1> HIDE DEF SS, SV, W, V
  <1>5. ASSUME NEW k \in Handoffs(r), NEW l \in Handoffs(r), k # l, NEW G \in SS, k = Still(r, G), k.serves = G
        PROVE  k.serves \cap l.serves = {}
    <2>1. CASE \E H \in SS : l = Still(r, H) /\ l.serves = H
      <3>1. PICK H \in SS : l = Still(r, H) /\ l.serves = H
        BY <2>1
      <3>2. G # H
        BY <1>5, <3>1
      <3> QED
        BY <1>2, <1>5, <3>1, <3>2
    <2>2. CASE \E o \in W \ UNION SS : l.serves = {o}
      BY <1>5, <2>2
    <2>3. CASE l.serves \subseteq V
      BY <1>1, <1>3, <1>5, <2>3
    <2> QED
      BY <1>3, <1>4, <2>1, <2>2, <2>3
  <1>6. ASSUME NEW k \in Handoffs(r), NEW l \in Handoffs(r), k # l,
               NEW o \in W \ UNION SS, k = Still(r, {o}), k.serves = {o}
        PROVE  k.serves \cap l.serves = {}
    <2>1. CASE \E H \in SS : l = Still(r, H) /\ l.serves = H
      BY <1>6, <2>1
    <2>2. CASE \E q \in W \ UNION SS : l = Still(r, {q}) /\ l.serves = {q}
      <3>1. PICK q \in W \ UNION SS : l = Still(r, {q}) /\ l.serves = {q}
        BY <2>2
      <3>2. q # o
        BY <1>6, <3>1
      <3> QED
        BY <1>6, <3>1, <3>2
    <2>3. CASE l.serves \subseteq V
      BY <1>1, <1>6, <2>3
    <2> QED
      BY <1>3, <1>4, <2>1, <2>2, <2>3
  <1>7. ASSUME NEW k \in Handoffs(r), NEW l \in Handoffs(r), k # l, NEW o \in V \ SV, k = Video(r, o), k.serves = {o}
        PROVE  k.serves \cap l.serves = {}
    <2>1. CASE \E H \in SS : l.serves = H
      BY <1>1, <1>3, <1>7, <2>1
    <2>2. CASE \E q \in W \ UNION SS : l.serves = {q}
      BY <1>1, <1>7, <2>2
    <2>3. CASE l.serves = SV
      BY <1>7, <2>3
    <2>4. CASE \E q \in V \ SV : l = Video(r, q) /\ l.serves = {q}
      <3>1. PICK q \in V \ SV : l = Video(r, q) /\ l.serves = {q}
        BY <2>4
      <3>2. q # o
        BY <1>7, <3>1
      <3> QED
        BY <1>7, <3>1, <3>2
    <2> QED
      BY <1>4, <2>1, <2>2, <2>3, <2>4
  <1>8. CASE h = MultiVideo(r, SV) /\ g = MultiVideo(r, SV)
    BY <1>8
  <1>9. \A A, B : A \cap B = B \cap A
    OBVIOUS
  <1>10. CASE ~(h = MultiVideo(r, SV))
    BY <1>4, <1>5, <1>6, <1>7, <1>10
  <1>11. CASE ~(g = MultiVideo(r, SV))
    <2>1. g.serves \cap h.serves = {}
      BY <1>4, <1>5, <1>6, <1>7, <1>11
    <2> QED
      BY <1>9, <2>1
  <1> QED
    BY <1>8, <1>10, <1>11

LEMMA ScenesApart ==
    ASSUME NEW r \in Plans, NEW G \in SceneGroups(r), NEW H \in SceneGroups(r), G # H
    PROVE  G \cap H = {}
  <1>1. \A K \in SceneGroups(r) : \E o \in Wanting(r, "we") : K = Alike(r, o)
    BY DEF SceneGroups
  <1> QED
    BY <1>1, AlikeApart, PlanIs

LEMMA HandoffWants ==
    ASSUME NEW r \in Plans, NEW h \in Handoffs(r)
    PROVE  h.serves \subseteq Wanting(r, "static") \cup Wanting(r, "video")
  <1>1. CASE \E G \in Groups : h = Still(r, G) /\ G \subseteq Wanting(r, "static")
    BY <1>1, StillIs
  <1>2. CASE h = MultiVideo(r, SharedVideo(r)) /\ SharedVideo(r) \in SUBSET Outputs
    <2>1. h.serves = SharedVideo(r)
      BY <1>2, MultiIs
    <2> QED
      BY <2>1, SharedIs
  <1>3. CASE \E o \in Wanting(r, "video") : h = Video(r, o) /\ o \in Outputs
    <2>1. PICK o \in Wanting(r, "video") : h = Video(r, o) /\ o \in Outputs
      BY <1>3
    <2>2. h.serves = {o}
      BY <2>1, VideoIs
    <2> QED
      BY <2>2
  <1> QED
    BY <1>1, <1>2, <1>3, HandoffIs

LEMMA SceneIs ==
    ASSUME NEW r \in Plans, NEW h \in Scenes(r)
    PROVE  \E G \in SceneGroups(r) : h.slot = <<"video", G>> /\ h.serves = G
  <1>1. PICK G \in SceneGroups(r) : \E K : h = [Launch(<<"video", G>>, G) EXCEPT !.scene = TRUE, !.keep = K]
    BY Zenon DEF Scenes
  <1>2. G \in Groups
    BY SharedIs
  <1>3. \A s, S, K : /\ [Launch(s, S) EXCEPT !.scene = TRUE, !.keep = K].slot = s
                     /\ [Launch(s, S) EXCEPT !.scene = TRUE, !.keep = K].serves = S
    BY DEF Launch, NoLaunch
  <1> QED
    BY <1>1, <1>3

\* The slots that a request keeps are not drawn on by two renderers.
LEMMA KeepsApart ==
    ASSUME NEW r \in Plans, NEW s \in Keeps(r), NEW x \in Keeps(r), s # x, NEW S, NEW X,
           s = Paper => S = {}, x = Paper => X = {},
           s[2] # {} => S = s[2], x[2] # {} => X = x[2],
           s = Multi => S = SharedVideo(r), x = Multi => X = SharedVideo(r)
    PROVE  S \cap X = {}
  <1>0. r.op \in Ops
    BY PlanIs
  <1>1. CASE r.op = "reconcile"
    <2>1. PICK h \in Handoffs(r) \cup Scenes(r), g \in Handoffs(r) \cup Scenes(r) : s = h.slot /\ x = g.slot
      BY <1>1 DEF Keeps
    <2>2. ASSUME NEW k \in Handoffs(r) \cup Scenes(r), NEW K,
                 k.slot[2] # {} => K = k.slot[2], k.slot = Multi => K = SharedVideo(r)
          PROVE  k.serves = K
      <3>1. CASE k \in Scenes(r)
        <4>1. PICK G \in SceneGroups(r) : k.slot = <<"video", G>> /\ k.serves = G
          BY <3>1, SceneIs
        <4>2. G # {}
          BY SharedIs DEF Groups
        <4> QED
          BY <2>2, <4>1, <4>2
      <3>2. CASE \E G \in Groups : k = Still(r, G)
        <4>1. PICK G \in Groups : k = Still(r, G)
          BY <3>2
        <4>2. k.slot = <<"still", G>> /\ k.serves = G /\ G # {}
          BY <4>1, StillIs DEF Groups
        <4> QED
          BY <2>2, <4>2
      <3>3. CASE k = MultiVideo(r, SharedVideo(r)) /\ SharedVideo(r) \in SUBSET Outputs
        BY <2>2, <3>3, MultiIs
      <3>4. CASE \E o \in Outputs : k = Video(r, o)
        <4>1. PICK o \in Outputs : k = Video(r, o)
          BY <3>4
        <4>2. k.slot = <<"video", {o}>> /\ k.serves = {o}
          BY <4>1, VideoIs
        <4> QED
          BY <2>2, <4>2
      <3> QED
        BY <3>1, <3>2, <3>3, <3>4, HandoffIs
    <2>3. h.serves = S /\ g.serves = X /\ h # g
      BY <2>1, <2>2
    <2>4. CASE h \in Handoffs(r) /\ g \in Handoffs(r)
      BY <2>3, <2>4, HandoffsApart
    <2>5. CASE h \in Scenes(r) /\ g \in Scenes(r)
      <3>1. PICK G \in SceneGroups(r) : h.slot = <<"video", G>> /\ h.serves = G
        BY <2>5, SceneIs
      <3>2. PICK H \in SceneGroups(r) : g.slot = <<"video", H>> /\ g.serves = H
        BY <2>5, SceneIs
      <3>3. G # H
        BY <2>1, <3>1, <3>2
      <3> QED
        BY <2>3, <3>1, <3>2, <3>3, ScenesApart
    <2>6. ASSUME NEW k \in Handoffs(r), NEW l \in Scenes(r) PROVE k.serves \cap l.serves = {}
      <3>1. l.serves \subseteq Wanting(r, "we")
        BY SceneIs, SharedIs
      <3>2. k.serves \subseteq Wanting(r, "static") \cup Wanting(r, "video")
        BY HandoffWants
      <3> QED
        BY <3>1, <3>2 DEF Wanting
    <2> QED
      BY <2>3, <2>4, <2>5, <2>6
  <1>2. CASE r.op = "video"
    BY <1>2 DEF Keeps
  <1>3. CASE r.op = "we"
    <2>1. PICK h \in Scenes(r), g \in Scenes(r) : s = h.slot /\ x = g.slot
      BY <1>3 DEF Keeps
    <2>2. PICK G \in SceneGroups(r) : h.slot = <<"video", G>> /\ h.serves = G
      BY SceneIs
    <2>3. PICK H \in SceneGroups(r) : g.slot = <<"video", H>> /\ g.serves = H
      BY SceneIs
    <2>4. G # H /\ G # {} /\ H # {} /\ s[2] = G /\ x[2] = H
      BY <2>1, <2>2, <2>3, SharedIs DEF Groups
    <2>5. G \cap H = {}
      BY <2>4, ScenesApart
    <2> QED
      BY <2>4, <2>5
  <1>4. CASE r.op = "static"
    <2>1. ~Uniform(r) /\ s \in {<<"still", {o}>> : o \in DOMAIN r.want}
                      /\ x \in {<<"still", {o}>> : o \in DOMAIN r.want}
      BY <1>4, Zenon DEF Keeps
    <2>2. PICK o \in DOMAIN r.want : s = <<"still", {o}>>
      BY <2>1
    <2>3. PICK q \in DOMAIN r.want : x = <<"still", {q}>>
      BY <2>1
    <2>4. o # q /\ S = {o} /\ X = {q}
      BY <2>2, <2>3
    <2> QED
      BY <2>4
  <1>5. CASE r.op = "fade"
    <2>1. CASE Managed(r)
      <3>1. s = Paper \/ x = Paper
        BY <1>5, <2>1 DEF Keeps
      <3> QED
        BY <3>1
    <2>2. CASE ~Managed(r) /\ Uniform(r)
      <3>1. s = Base /\ x = Base
        BY <1>5, <2>2 DEF Keeps
      <3> QED
        BY <3>1
    <2>3. CASE ~Managed(r) /\ ~Uniform(r)
      <3>1. s \in {<<"still", G>> : G \in FadeGroups(r)} /\ x \in {<<"still", G>> : G \in FadeGroups(r)}
        BY <1>5, <2>3, Zenon DEF Keeps
      <3>2. PICK G \in FadeGroups(r) : s = <<"still", G>>
        BY <3>1
      <3>3. PICK H \in FadeGroups(r) : x = <<"still", H>>
        BY <3>1
      <3>4. G # H /\ G # {} /\ H # {}
        BY <3>2, <3>3, SharedIs DEF Groups
      <3>5. S = G /\ X = H
        BY <3>2, <3>3, <3>4
      <3>6. G \cap H = {}
        <4>1. \E o \in DOMAIN r.want : G = Alike(r, o)
          BY DEF FadeGroups
        <4>2. \E o \in DOMAIN r.want : H = Alike(r, o)
          BY DEF FadeGroups
        <4> QED
          BY <3>4, <4>1, <4>2, AlikeApart
      <3> QED
        BY <3>5, <3>6
    <2> QED
      BY <2>1, <2>2, <2>3
  <1> QED
    BY <1>0, <1>1, <1>2, <1>3, <1>4, <1>5, Zenon DEF Ops

--------------------------------------------------------------------------------
(* The shared video renderer, and renderers that are kept *)

LEMMA KeepsAre ==
    /\ \A r, G : Still(r, G).keep = IF Warm(r) THEN {<<"still", G>>} ELSE {}
    /\ \A r, o : Video(r, o).keep = IF o \in r.same \/ Warm(r) THEN {<<"video", {o}>>} ELSE {}
    /\ \A r, V : MultiVideo(r, V).keep =
                     IF prior[Multi] = {<<o, r.want[o]>> : o \in V} THEN {Multi} ELSE {}
  <1>1. ASSUME NEW r, NEW G PROVE Still(r, G).keep = IF Warm(r) THEN {<<"still", G>>} ELSE {}
    <2>1. \A s, S, H, B, K : [Launch(s, S) EXCEPT !.hidden = H, !.shared = B, !.keep = K].keep = K
      BY DEF Launch, NoLaunch
    <2> QED
      BY <2>1 DEF Still
  <1>2. ASSUME NEW r, NEW o
        PROVE Video(r, o).keep = IF o \in r.same \/ Warm(r) THEN {<<"video", {o}>>} ELSE {}
    <2>1. \A s, S, K : [Launch(s, S) EXCEPT !.keep = K].keep = K
      BY DEF Launch, NoLaunch
    <2> QED
      BY <2>1 DEF Video
  <1>3. ASSUME NEW r, NEW V
        PROVE MultiVideo(r, V).keep = IF prior[Multi] = {<<o, r.want[o]>> : o \in V} THEN {Multi} ELSE {}
    <2> DEFINE K == IF prior[Multi] = {<<o, r.want[o]>> : o \in V} THEN {Multi} ELSE {}
               yes == TRUE
    <2>1. [Launch(Multi, V) EXCEPT !.shared = yes, !.keep = K].keep = K
      BY DEF Launch, NoLaunch
    <2>2. MultiVideo(r, V) = [Launch(Multi, V) EXCEPT !.shared = yes, !.keep = K]
      BY Zenon DEF MultiVideo
    <2> HIDE DEF K, yes
    <2>3. MultiVideo(r, V).keep = K
      BY <2>1, <2>2
    <2> QED
      BY <2>3 DEF K
  <1> QED
    BY <1>1, <1>2, <1>3

\* What a scene, or a launch of another request than a reconciliation, keeps.
LEMMA SceneKeeps ==
    ASSUME NEW r \in Plans, NEW l \in Scenes(r)
    PROVE  Multi \notin l.keep /\ l.slot # Multi
  <1> DEFINE slots == {<<"video", G>> : G \in SceneGroups(r)}
             K(G) == IF r.op = "we" THEN {<<"video", G>>}
                     ELSE IF weRender = WeGroups(r) THEN slots ELSE {}
             scene(G) == [Launch(<<"video", G>>, G) EXCEPT !.scene = TRUE, !.keep = K(G)]
  <1>1. PICK G \in SceneGroups(r) : l = scene(G)
    BY Zenon DEF Scenes
  <1>2. scene(G).slot = <<"video", G>> /\ scene(G).keep = K(G)
    BY DEF Launch, NoLaunch
  <1>3. SceneGroups(r) \subseteq Groups
    BY SharedIs
  <1>4. \A H \in Groups : <<"video", H>> # Multi
    BY SlotKinds
  <1>5. K(G) \subseteq slots
    OBVIOUS
  <1>6. Multi \notin slots
    BY <1>3, <1>4
  <1> HIDE DEF scene, slots, K
  <1> QED
    BY <1>1, <1>2, <1>3, <1>4, <1>5, <1>6

LEMMA MultiLaunch ==
    ASSUME NEW r \in Plans, NEW l \in Launched(r), l.slot = Multi \/ Multi \in l.keep
    PROVE  /\ r.op = "reconcile" /\ l \in Handoffs(r) /\ l.slot = Multi /\ l.scene = FALSE
           /\ l = MultiVideo(r, SharedVideo(r)) /\ l.serves = SharedVideo(r) /\ l.serves \subseteq Outputs
           /\ l.keep = IF prior[Multi] = {<<o, r.want[o]>> : o \in SharedVideo(r)} THEN {Multi} ELSE {}
  <1>0. r.op \in Ops /\ Launched(r) = All(r) /\ DOMAIN r.want \in Groups
    BY PlanIs, LaunchedIs
  <1>1. /\ \A G \in Groups : <<"still", G>> # Multi /\ <<"video", G>> # Multi /\ <<"overlay", G>> # Multi
        /\ Multi # Shared /\ Multi # Base /\ Multi # Paper
    BY SlotKinds DEF Groups
  <1>2. \A s, S, K : /\ [Launch(s, S) EXCEPT !.keep = K].slot = s
                     /\ [Launch(s, S) EXCEPT !.keep = K].keep = K
                     /\ [Launch(s, S) EXCEPT !.hidden = K].slot = s
                     /\ [Launch(s, S) EXCEPT !.hidden = K].keep = {}
                     /\ Launch(s, S).slot = s /\ Launch(s, S).keep = {}
    BY DEF Launch, NoLaunch
  <1>3. l \notin Scenes(r)
    BY SceneKeeps
  <1>4. ASSUME NEW sets \in SUBSET Groups PROVE l \notin Overlays(sets)
    <2> SUFFICES ASSUME NEW G \in sets, l = Launch(<<"overlay", G>>, {}) PROVE FALSE
      BY DEF Overlays
    <2> QED
      BY <1>1, <1>2
  <1>5. ASSUME l \in Handoffs(r), r.op = "reconcile" PROVE l = MultiVideo(r, SharedVideo(r)) /\ SharedVideo(r) \in SUBSET Outputs
    <2>1. CASE \E G \in Groups : l = Still(r, G)
      <3>1. PICK G \in Groups : l = Still(r, G)
        BY <2>1
      <3>2. l.slot = <<"still", G>>
        BY <3>1, StillIs
      <3>3. l.keep \subseteq {<<"still", G>>}
        BY <3>1, KeepsAre
      <3> QED
        BY <1>1, <3>2, <3>3
    <2>2. CASE \E o \in Outputs : l = Video(r, o)
      <3>1. PICK o \in Outputs : l = Video(r, o)
        BY <2>2
      <3>2. l.slot = <<"video", {o}>> /\ {o} \in Groups
        BY <3>1, VideoIs DEF Groups
      <3>3. l.keep \subseteq {<<"video", {o}>>}
        BY <3>1, KeepsAre
      <3> QED
        BY <1>1, <3>2, <3>3
    <2> QED
      BY <1>5, <2>1, <2>2, HandoffIs
  <1>6. CASE r.op = "reconcile"
    <2>1. {{o} : o \in r.fades} \in SUBSET Groups
      <3>1. r.fades \subseteq Outputs
        BY PlanIs
      <3>2. \A o \in Outputs : {o} \in Groups
        BY DEF Groups
      <3> QED
        BY <3>1, <3>2
    <2>2. l \in Handoffs(r)
      BY <1>0, <1>3, <1>4, <1>6, <2>1 DEF All, Reconciled, Overlaid
    <2>3. l = MultiVideo(r, SharedVideo(r)) /\ SharedVideo(r) \in SUBSET Outputs
      BY <1>5, <1>6, <2>2
    <2>4. l.serves = SharedVideo(r) /\ l.slot = Multi /\ l.scene = FALSE
      BY <2>3, MultiIs
    <2>5. l.keep = IF prior[Multi] = {<<o, r.want[o]>> : o \in SharedVideo(r)} THEN {Multi} ELSE {}
      BY <2>3, KeepsAre
    <2> QED
      BY <1>6, <2>2, <2>3, <2>4, <2>5
  <1>7. CASE r.op = "video"
    <2>1. l = [Launch(Shared, DOMAIN r.want) EXCEPT !.keep = {Shared}]
      BY <1>0, <1>7 DEF All, Everywhere
    <2>2. l.slot = Shared /\ l.keep = {Shared}
      BY <1>2, <2>1
    <2> QED
      BY <1>1, <2>2
  <1>8. CASE r.op = "we"
    BY <1>0, <1>3, <1>8 DEF All
  <1>9. CASE r.op = "static"
    <2>1. l \in Apart(r)
      BY <1>0, <1>9 DEF All
    <2>2. CASE Uniform(r)
      <3>1. l = [Launch(Base, DOMAIN r.want) EXCEPT !.keep = {Base}]
        BY <2>1, <2>2 DEF Apart
      <3>2. l.slot = Base /\ l.keep = {Base}
        BY <1>2, <3>1
      <3> QED
        BY <1>1, <3>2
    <2>3. CASE ~Uniform(r)
      <3> DEFINE each == {<<"still", {o}>> : o \in DOMAIN r.want}
      <3>1. PICK o \in DOMAIN r.want : l = [Launch(<<"still", {o}>>, {o}) EXCEPT !.keep = each]
        BY <2>1, <2>3 DEF Apart
      <3>2. \A q \in DOMAIN r.want : {q} \in Groups
        BY <1>0 DEF Groups
      <3>3. Multi \notin each /\ <<"still", {o}>> # Multi
        BY <1>1, <3>2
      <3> HIDE DEF each
      <3>4. l.slot = <<"still", {o}>> /\ l.keep = each
        BY <1>2, <3>1
      <3> QED
        BY <3>3, <3>4
    <2> QED
      BY <2>2, <2>3
  <1>10. CASE r.op = "fade"
    <2>1. l \in Appearing(r) \cup Fading(r)
      BY <1>0, <1>10 DEF All
    <2>2. l \notin Appearing(r)
      <3>1. CASE Uniform(r)
        <4>1. l \in Appearing(r) => l = [Launch(Base, DOMAIN r.want) EXCEPT !.hidden = TRUE]
          BY <3>1 DEF Appearing
        <4> SUFFICES ASSUME l = [Launch(Base, DOMAIN r.want) EXCEPT !.hidden = TRUE] PROVE FALSE
          BY <4>1
        <4>2. l.slot = Base /\ l.keep = {}
          BY <1>2
        <4> QED
          BY <1>1, <4>2
      <3>2. CASE ~Uniform(r)
        <4>1. l \in Appearing(r) => \E G \in FadeGroups(r) : l = [Launch(<<"still", G>>, G) EXCEPT !.hidden = TRUE]
          BY <3>2 DEF Appearing
        <4>2. FadeGroups(r) \subseteq Groups
          BY SharedIs
        <4> SUFFICES ASSUME NEW G \in FadeGroups(r), l = [Launch(<<"still", G>>, G) EXCEPT !.hidden = TRUE]
                     PROVE  FALSE
          BY <4>1
        <4>3. l.slot = <<"still", G>> /\ l.keep = {}
          BY <1>2
        <4> QED
          BY <1>1, <4>2, <4>3
      <3> QED
        BY <3>1, <3>2
    <2>3. l # Launch(Paper, {})
      BY <1>1, <1>2
    <2>4. (IF r.fade THEN {First(DOMAIN r.want)} ELSE FadeGroups(r)) \in SUBSET Groups
      <3>1. First(DOMAIN r.want) \in Groups
        BY <1>0, FirstIs
      <3> QED
        BY <3>1, SharedIs
    <2> QED
      BY <1>4, <2>1, <2>2, <2>3, <2>4 DEF Fading
  <1> QED
    BY <1>0, <1>6, <1>7, <1>8, <1>9, <1>10, Zenon DEF Ops

LEMMA SameGroup ==
    ASSUME NEW f, NEW g, NEW S, NEW T, Group(f, S) = Group(g, T)
    PROVE  S = T /\ \A o \in S : f[o] = g[o]
  <1>1. ASSUME NEW a, NEW b, NEW A, NEW B, Group(a, A) = Group(b, B), NEW o \in A
        PROVE  o \in B /\ a[o] = b[o]
    <2>1. <<o, a[o]>> \in Group(b, B)
      BY <1>1 DEF Group
    <2>2. PICK q \in B : <<o, a[o]>> = <<q, b[q]>>
      BY <2>1 DEF Group
    <2> QED
      BY <2>2
  <1>2. S \subseteq T /\ \A o \in S : f[o] = g[o]
    BY <1>1
  <1>3. T \subseteq S
    BY <1>1
  <1> QED
    BY <1>2, <1>3

LEMMA GroupSame ==
    ASSUME NEW f, NEW g, NEW S, \A o \in S : f[o] = g[o]
    PROVE  Group(f, S) = Group(g, S)
  BY DEF Group

LEMMA FewOutputs == IsFiniteSet(Outputs)
  <1>1. OutputOrder \in [1..Len(OutputOrder) -> Outputs] /\ Len(OutputOrder) \in Nat
        /\ DOMAIN OutputOrder = 1..Len(OutputOrder)
    BY HandoffAssumption
  <1>2. Outputs = {OutputOrder[n] : n \in 1..Len(OutputOrder)}
    BY <1>1, HandoffAssumption DEF Range
  <1>3. IsFiniteSet(1..Len(OutputOrder))
    BY <1>1, FS_Interval
  <1>4. IsFiniteSet({OutputOrder[n] : n \in 1..Len(OutputOrder)})
    <2> DEFINE n == Len(OutputOrder)
    <2>1. OutputOrder \in Surjection(1..n, Outputs)
      BY <1>1, <1>2 DEF Surjection
    <2> QED
      BY <1>2, <1>3, <2>1, FS_Surjection
  <1> QED
    BY <1>2, <1>4

LEMMA OneOutput ==
    ASSUME NEW S \in SUBSET Outputs, Cardinality(S) <= 1, NEW o \in S, NEW q \in S
    PROVE  o = q
  <1>1. IsFiniteSet(S)
    BY FewOutputs, FS_Subset
  <1>2. Cardinality(S) \in Nat /\ IsFiniteSet(S \ {o}) /\ Cardinality(S \ {o}) = Cardinality(S) - 1
        /\ Cardinality(S \ {o}) \in Nat
    BY <1>1, FS_CardinalityType, FS_RemoveElement
  <1>3. Cardinality(S \ {o}) = 0
    BY <1>2
  <1> QED
    BY <1>2, <1>3, FS_EmptySet

--------------------------------------------------------------------------------
(* What a request assigns *)

\* As far as assignments go, a step begins or ends a request, follows the
\* outputs, or goes on with a request.
Continues ==
    /\ outcome' = outcome /\ prior' = prior
    /\ \/ plan' = plan
       \/ ~Idle /\ plan'.op = plan.op /\ plan'.want = plan.want /\ plan'.same = plan.same

LEMMA RequestSteps ==
    ASSUME IInv, [Next]_vars
    PROVE  \/ \E q \in Requests : Start(q)
           \/ Continues /\ (assigned' = assigned \/ Reuse \/ Commit)
           \/ Tidy \/ Fail \/ Hotplug
  <1>1. CASE outcome' = outcome /\ prior' = prior /\ plan' = plan /\ assigned' = assigned
    BY <1>1 DEF Continues
  <1>2. ASSUME NEW i \in todo, GiveUp(i.launch), outcome' = outcome, prior' = prior
        PROVE  Continues
    <2>1. ~Idle
      BY DEF IInv, Resting
    <2>2. plan \in Plans
      BY <2>1 DEF IInv, Running
    <2> QED
      BY <1>2, <2>1, <2>2 DEF GiveUp, Plans, Continues
  <1>4. CASE Spawn
    <2>1. PICK i \in Reached("spawn") : Step(i) \/ GiveUp(i.launch)
      BY <1>4, Zenon DEF Spawn
    <2>2. i \in todo /\ outcome' = outcome /\ prior' = prior /\ assigned' = assigned
      BY <1>4, Zenon DEF Reached, Spawn
    <2> QED
      BY <1>1, <1>2, <2>1, <2>2 DEF Step
  <1>5. CASE Reuse
    <2>1. PICK i \in Reached("spawn") : \/ \E K : plan' = [plan EXCEPT !.kept = @ \cup K]
                                        \/ GiveUp(i.launch)
      BY <1>5, Zenon DEF Reuse
    <2>2. i \in todo /\ outcome' = outcome /\ prior' = prior
      BY <1>5, Zenon DEF Reached, Reuse
    <2>3. ~Idle /\ plan \in Plans
      BY <2>2 DEF IInv, Resting, Running
    <2>4. CASE \E K : plan' = [plan EXCEPT !.kept = @ \cup K]
      BY <1>5, <2>2, <2>3, <2>4 DEF Plans, Continues
    <2> QED
      BY <1>2, <1>5, <2>1, <2>2, <2>4
  <1>6. CASE Wait
    <2>1. PICK i \in Reached("wait") \cup Reached("answer") : \E t \in Of(i.launch) :
            plan' = plan \/ GiveUp(t.launch)
      BY <1>6, Zenon DEF Wait, Step
    <2>2. i \in todo /\ outcome' = outcome /\ prior' = prior /\ assigned' = assigned
      BY <1>6, <2>1, Zenon DEF Reached, Wait
    <2>3. plan' = plan \/ GiveUp(i.launch)
      BY <2>1 DEF Of
    <2> QED
      BY <1>1, <1>2, <2>2, <2>3
  <1>7. CASE Reveal \/ Prepare \/ Drop
    BY <1>1, <1>7 DEF Reveal, Prepare, Drop, Step
  <1>8. CASE Commit
    <2>1. plan' = plan /\ outcome' = outcome /\ prior' = prior
      BY <1>8 DEF Commit, Step
    <2> QED
      BY <1>8, <2>1 DEF Continues
  <1>9. CASE \E p \in Pids : \E result \in {"ok", "err"} : Signal(p, result)
    BY <1>1, <1>9, Zenon DEF Signal, program
  <1>10. CASE \E p \in Pids : Exit(p)
    BY <1>1, <1>10, Zenon DEF Exit, program
  <1>11. CASE \E p \in Pids : RetirePaper(p)
    BY <1>1, <1>11, Zenon DEF RetirePaper
  <1>12. CASE \E p \in Pids : ReleaseDeferred(p)
    BY <1>1, <1>12, Zenon DEF ReleaseDeferred, program
  <1>13. CASE Reap
    BY <1>1, <1>13, Zenon DEF Reap
  <1>14. CASE UNCHANGED vars
    BY <1>1, <1>14, Zenon DEF vars
  <1> QED
    BY <1>4, <1>5, <1>6, <1>7, <1>8, <1>9, <1>10, <1>11, <1>12, <1>13, <1>14, Zenon
       DEF Next, Run

LEMMA SamesStay ==
    ASSUME IInv, Sames, [Next]_vars
    PROVE  Sames'
  <1>1. CASE \E q \in Requests : Start(q)
    <2>1. PICK q \in Requests : Start(q)
      BY <1>1
    <2> DEFINE want == Only(q.want, live)
    <2>2. plan'.want = want /\ plan'.same = {o \in live : assigned[o] = want[o]} /\ prior' = assigned
      BY <2>1 DEF Start
    <2> HIDE DEF want
    <2> QED
      BY <2>2 DEF Sames
  <1>2. CASE Continues
    BY <1>2 DEF Sames, Continues, Idle
  <1>3. CASE Tidy \/ Fail
    BY <1>3 DEF Tidy, Fail, Sames, Idle
  <1>4. CASE Hotplug
    BY <1>4 DEF Hotplug, Sames, Idle
  <1> QED
    BY <1>1, <1>2, <1>3, <1>4, RequestSteps

\* Who is in the slot of the shared renderer when its launch is considered.
LEMMA MultiThere ==
    ASSUME IInv, NEW i \in Reached("spawn"), Multi \in i.launch.keep
    PROVE  Undone[Multi] = slot[Multi]
  <1>1. i.launch \in Launched(plan) /\ plan \in Plans /\ Of(i.launch) = {} /\ ~Idle
    BY Takes
  <1>2. i.launch.slot = Multi
    BY <1>1, MultiLaunch
  <1>3. ASSUME NEW t \in open PROVE Multi # t.launch.slot /\ Multi \notin DOMAIN t.from
    <2>1. t.launch \in Launched(plan) /\ t.launch # i.launch /\ DOMAIN t.from \subseteq Taken(t.launch)
      BY <1>1 DEF Of, IInv, Running, Transactions
    <2>2. Reach(t.launch) \cap Reach(i.launch) = {}
      BY <1>1, <2>1, ApartReach
    <2> QED
      BY <1>2, <2>1, <2>2 DEF Reach
  <1>4. UndoneParts /\ Multi \in Installed
    BY UndoneIs, SlotKinds
  <1> QED
    BY <1>3, <1>4 DEF UndoneParts

\* A reconciliation of one output without a fade has one launch, whose reuse
\* leaves nothing to do.
LEMMA WarmAlone ==
    ASSUME NEW r \in Plans, r.op = "reconcile", Warm(r), NEW l \in Handoffs(r), NEW m \in Launched(r)
    PROVE  m = l
  <1>1. DOMAIN r.want \in Groups /\ Cardinality(DOMAIN r.want) <= 1 /\ r.fades = {}
    BY PlanIs DEF Warm
  <1>2. \A o, q \in DOMAIN r.want : o = q
    <2>1. DOMAIN r.want \in SUBSET Outputs
      BY <1>1 DEF Groups
    <2> QED
      BY <1>1, <2>1, OneOutput
  <1>3. ASSUME NEW h \in Handoffs(r) \cup Scenes(r), h.slot # Multi
        PROVE  h.serves # {} /\ h.serves \subseteq DOMAIN r.want
    <2>1. CASE h \in Handoffs(r)
      <3>1. CASE \E G \in Groups : h = Still(r, G) /\ G \subseteq Wanting(r, "static")
        <4>1. PICK G \in Groups : h = Still(r, G) /\ G \subseteq Wanting(r, "static")
          BY <3>1
        <4>2. h.serves = G /\ G # {}
          BY <4>1, StillIs DEF Groups
        <4> QED
          BY <4>1, <4>2, PlanIs
      <3>2. CASE \E o \in Wanting(r, "video") : h = Video(r, o) /\ o \in Outputs
        <4>1. PICK o \in Wanting(r, "video") : h = Video(r, o) /\ o \in Outputs
          BY <3>2
        <4>2. h.serves = {o}
          BY <4>1, VideoIs
        <4> QED
          BY <4>1, <4>2, PlanIs
      <3>3. CASE h = MultiVideo(r, SharedVideo(r)) /\ SharedVideo(r) \in SUBSET Outputs
        BY <1>3, <3>3, MultiIs
      <3> QED
        BY <2>1, <3>1, <3>2, <3>3, HandoffIs
    <2>2. CASE h \in Scenes(r)
      <3>1. PICK G \in SceneGroups(r) : h.serves = G
        BY <2>2, SceneIs
      <3>2. G \in Groups /\ G \subseteq Wanting(r, "we")
        BY SharedIs
      <3> QED
        BY <3>1, <3>2, PlanIs DEF Groups
    <2> QED
      BY <2>1, <2>2
  <1>4. m \in Handoffs(r) \cup Scenes(r)
    <2>1. m \in Reconciled(r) /\ Overlaid(r) = {}
      <3>1. m \in All(r)
        BY LaunchedIs
      <3> QED
        BY <1>1, <3>1 DEF All, Overlaid, Overlays
    <2> QED
      BY <2>1 DEF Reconciled
  <1>5. ASSUME NEW h \in Handoffs(r) PROVE h.slot # Multi
    <2> SUFFICES ASSUME h.slot = Multi PROVE FALSE
      OBVIOUS
    <2>1. h.shared /\ h.serves \subseteq Wanting(r, "video") /\ h.serves = SharedVideo(r)
      <3>1. h \in Launched(r)
        BY LaunchedIs DEF All, Reconciled
      <3>2. h = MultiVideo(r, SharedVideo(r)) /\ h.serves = SharedVideo(r) /\ h.serves \subseteq Outputs
        BY <3>1, MultiLaunch
      <3> QED
        BY <3>2, MultiIs, SharedIs
    <2>2. h.serves # {}
      BY <2>1, HandoffServes
    <2>3. Cardinality(Wanting(r, "video")) > 1
      BY <2>1, <2>2 DEF SharedVideo
    <2>4. Wanting(r, "video") \subseteq DOMAIN r.want
      BY PlanIs
    <2>5. IsFiniteSet(DOMAIN r.want) /\ Cardinality(Wanting(r, "video")) <= Cardinality(DOMAIN r.want)
      <3>1. IsFiniteSet(DOMAIN r.want)
        BY <1>1, FewOutputs, FS_Subset DEF Groups
      <3> QED
        BY <2>4, <3>1, FS_Subset
    <2>6. Cardinality(Wanting(r, "video")) \in Nat /\ Cardinality(DOMAIN r.want) \in Nat
      BY <2>4, <2>5, FS_Subset, FS_CardinalityType
    <2> QED
      BY <1>1, <2>3, <2>5, <2>6
  <1>6. \A h \in Scenes(r) : h.slot # Multi
    BY SceneKeeps
  <1>7. l.serves \cap m.serves # {}
    BY <1>2, <1>3, <1>4, <1>5, <1>6
  <1>8. m \notin Scenes(r)
    <2> SUFFICES ASSUME m \in Scenes(r) PROVE FALSE
      OBVIOUS
    <2>1. m.serves \subseteq Wanting(r, "we")
      BY SceneIs, SharedIs
    <2>2. l.serves \subseteq Wanting(r, "static") \cup Wanting(r, "video")
      BY HandoffWants
    <2> QED
      BY <1>7, <2>1, <2>2 DEF Wanting
  <1> QED
    BY <1>4, <1>7, <1>8, HandoffsApart

\* A renderer that a reconciliation keeps shows what was assigned already.
LEMMA ReuseHands ==
    ASSUME IInv, Tailed, MultiOld, Handed, Sames, NEW i \in Reached("spawn"), plan.op = "reconcile",
           i.launch.keep # {}, \A s \in i.launch.keep : Alive(s),
           todo' = {j \in todo : j.launch \notin {j2.launch : j2 \in {k \in todo : k.launch.keep = i.launch.keep}}},
           ~Committing', NEW k \in Outputs \cup {Multi}
    PROVE  HandedOver(plan, i.launch)[k] = assigned[k]
  <1> DEFINE l == i.launch
  <1> SUFFICES HandedOver(plan, l)[k] = assigned[k]
    OBVIOUS
  <1>1. /\ i \in todo /\ i.do = "spawn" /\ plan \in Plans /\ ~Idle /\ l \in Launched(plan)
    BY Takes
  <1>2. ~Committing
    BY <1>1 DEF Committing, Late
  <1>3. DOMAIN assigned = Outputs \cup {Multi} /\ Multi \notin Outputs
    BY HandoffAssumption DEF IInv, TypeOK
  <1>4. HandedOver(plan, l)[k] = IF k \in l.serves /\ Kind[plan.want[k]] # "we" THEN plan.want[k]
                                 ELSE IF k = Multi /\ l.slot = Multi THEN Group(plan.want, l.serves)
                                 ELSE assigned[k]
    BY <1>3, Zenon DEF HandedOver, Group
  <1>5. \A x \in Outputs \cup {Multi} : assigned[x] = prior[x]
    BY <1>1, <1>2 DEF Handed
  <1>6. l \in Handoffs(plan) \cup Scenes(plan) \cup Overlaid(plan)
    <2>1. Launched(plan) = Reconciled(plan)
      BY <1>1, LaunchedIs DEF All
    <2> QED
      BY <1>1, <2>1 DEF Reconciled
  <1>7. l \notin Overlaid(plan)
    <2>1. \A s, S : Launch(s, S).keep = {}
      BY DEF Launch, NoLaunch
    <2> QED
      BY <2>1 DEF Overlaid, Overlays
  <1>8. CASE l \in Scenes(plan)
    <2>1. l.slot # Multi /\ l.serves \subseteq Wanting(plan, "we")
      BY <1>1, <1>8, SceneKeeps, SceneIs, SharedIs
    <2>2. \A o \in l.serves : Kind[plan.want[o]] = "we"
      BY <2>1 DEF Wanting
    <2> HIDE DEF l
    <2> QED
      BY <1>4, <2>1, <2>2
  <1>9. CASE l \in Handoffs(plan) /\ Warm(plan)
    <2>1. \A m \in Launched(plan) : m = l
      BY <1>1, <1>9, WarmAlone
    <2>2. ASSUME NEW j \in todo, j.launch # l PROVE j.do = "tail"
      <3>1. OnPlan(j)
        BY <1>1 DEF IInv, Running
      <3>2. CASE j \in Program(plan)
        BY <1>1, <2>1, <2>2, <3>2, ProgramIs
      <3>3. CASE [j EXCEPT !.do = "reveal"] \in Program(plan)
        <4>1. j \in Instructions
          BY DEF IInv, TypeOK
        <4>2. [j EXCEPT !.do = "reveal"].launch = j.launch /\ [j EXCEPT !.do = "reveal"].do = "reveal"
          BY <4>1 DEF Instructions
        <4> QED
          BY <1>1, <2>1, <2>2, <3>3, <4>2, ProgramIs
      <3> QED
        BY <3>1, <3>2, <3>3 DEF OnPlan
    <2>3. \A j \in todo' : j.do = "tail"
      BY <1>1, <2>2
    <2>4. todo' # {}
      <3>1. PICK j : j \in Ending
        <4>1. [stage |-> LastStage, half |-> 1, do |-> "tail", launch |-> NoLaunch] \in Ending
          BY Zenon DEF Ending, Each, Part
        <4> QED
          BY <4>1
      <3>2. j \in todo /\ j.launch.keep = {}
        BY <1>1, <3>1, TheEnd DEF Tailed
      <3> QED
        BY <3>2
    <2> QED
      BY <2>3, <2>4 DEF Committing, Late
  <1>10. CASE l \in Handoffs(plan) /\ ~Warm(plan)
    <2>1. CASE \E G \in Groups : l = Still(plan, G)
      BY <1>10, <2>1, KeepsAre
    <2>2. CASE \E o \in Wanting(plan, "video") : l = Video(plan, o) /\ o \in Outputs
      <3>1. PICK o \in Wanting(plan, "video") : l = Video(plan, o) /\ o \in Outputs
        BY <2>2
      <3>2. o \in plan.same /\ o \in DOMAIN plan.want
        BY <1>1, <1>10, <3>1, KeepsAre, PlanIs
      <3>3. prior[o] = plan.want[o]
        BY <1>1, <3>2 DEF Sames
      <3>4. l.serves = {o} /\ l.slot = <<"video", {o}>> /\ {o} \in Groups
        BY <1>1, <3>1, VideoIs DEF Groups
      <3>5. l.slot # Multi
        BY <3>4, SlotKinds
      <3> HIDE DEF l
      <3> QED
        BY <1>4, <1>5, <3>1, <3>3, <3>4, <3>5
    <2>3. CASE l = MultiVideo(plan, SharedVideo(plan)) /\ SharedVideo(plan) \in SUBSET Outputs
      <3>0. l.slot = Multi
        <4>1. \A V \in SUBSET Outputs : MultiVideo(plan, V).slot = Multi
          BY <1>1, MultiIs
        <4> HIDE DEF l
        <4> QED
          BY <2>3, <4>1
      <3>1. /\ l.serves = SharedVideo(plan) /\ l.serves \subseteq Outputs
            /\ l.keep = IF prior[Multi] = {<<o, plan.want[o]>> : o \in SharedVideo(plan)} THEN {Multi} ELSE {}
        BY <1>1, <3>0, MultiLaunch
      <3>2. prior[Multi] = Group(plan.want, l.serves) /\ Multi \in l.keep
        BY <3>1 DEF Group
      <3>3. Undone[Multi] = slot[Multi] /\ slot[Multi] # Nobody
        BY <3>2, MultiThere DEF Alive
      <3>4. prior[Multi] = Group(prior, role[slot[Multi]].serves)
        BY <1>2, <3>3 DEF MultiOld, Draws
      <3>5. \A o \in l.serves : plan.want[o] = prior[o]
        <4>1. Group(plan.want, l.serves) = Group(prior, role[slot[Multi]].serves)
          BY <3>2, <3>4
        <4>2. ASSUME NEW f, NEW g, NEW A, NEW B, Group(f, A) = Group(g, B)
              PROVE  \A o \in A : f[o] = g[o]
          BY <4>2, SameGroup
        <4>3. PICK f, g, A, B : f = plan.want /\ g = prior /\ A = l.serves /\ B = role[slot[Multi]].serves
          OBVIOUS
        <4>4. Group(f, A) = Group(g, B)
          BY <4>1, <4>3
        <4>5. \A o \in A : f[o] = g[o]
          BY <4>2, <4>4
        <4> QED
          BY <4>3, <4>5
      <3>8. Multi \notin l.serves
        BY <1>3, <3>1
      <3> HIDE DEF l
      <3> QED
        BY <1>4, <1>5, <3>2, <3>5, <3>8
    <2> QED
      BY <1>1, <1>10, <2>1, <2>2, <2>3, HandoffIs
  <1> QED
    BY <1>6, <1>7, <1>8, <1>9, <1>10

LEMMA HandedStays ==
    ASSUME IInv, CInv, Tailed, MultiOld, Handed, Sames, [Next]_vars
    PROVE  Handed'
  <1> SUFFICES ASSUME ~Idle', ~Committing', plan'.op \notin {"static", "video"},
                      NEW k \in Outputs \cup {Multi}
               PROVE  assigned'[k] = prior'[k]
    BY DEF Handed
  <1>0. ~Tidy /\ ~Fail /\ ~Hotplug
    BY DEF Tidy, Fail, Hotplug, Idle
  <1>1. ~Committing
    BY <1>0, ClosingStays
  <1>2. CASE \E q \in Requests : Start(q)
    <2>1. PICK q \in Requests : Start(q)
      BY <1>2
    <2>2. plan'.op = q.op /\ prior' = assigned
          /\ assigned' = IF q.op \in {"static", "video"} THEN assigned' ELSE assigned
      BY <2>1 DEF Start
    <2> QED
      BY <2>2
  <1>3. CASE Continues /\ assigned' = assigned
    <2>1. plan'.op = plan.op /\ ~Idle /\ prior' = prior
      BY <1>3 DEF Continues, Idle
    <2> QED
      BY <1>1, <1>3, <2>1 DEF Handed
  <1>4. CASE Reuse /\ Continues
    <2>1. PICK i \in Reached("spawn") :
            /\ i.launch.keep # {} /\ \A s \in i.launch.keep : Alive(s)
            /\ \/ /\ todo' = {j \in todo : j.launch \notin {j2.launch : j2 \in {k2 \in todo : k2.launch.keep = i.launch.keep}}}
                  /\ assigned' = IF plan.op = "reconcile" THEN HandedOver(plan, i.launch) ELSE assigned
               \/ assigned' = assigned
      BY <1>4, Zenon DEF Reuse
    <2>2. plan'.op = plan.op /\ ~Idle /\ prior' = prior
      BY <1>4 DEF Continues, Idle
    <2>3. assigned[k] = prior[k]
      BY <1>1, <2>2 DEF Handed
    <2>4. CASE assigned' = assigned
      BY <2>2, <2>3, <2>4
    <2>5. CASE plan.op = "reconcile" /\ assigned' = HandedOver(plan, i.launch) /\
               todo' = {j \in todo : j.launch \notin {j2.launch : j2 \in {k2 \in todo : k2.launch.keep = i.launch.keep}}}
      <3>1. HandedOver(plan, i.launch)[k] = assigned[k]
        BY <2>1, <2>5, ReuseHands
      <3> QED
        BY <2>2, <2>3, <2>5, <3>1
    <2> QED
      BY <2>1, <2>4, <2>5
  <1> QED
    BY <1>0, <1>1, <1>2, <1>3, <1>4, NotClosing, RequestSteps

\* The saved assignments of the outputs that the shared renderer draws on, and
\* its own, only change together.
LEMMA MultiKept ==
    ASSUME IInv, IInv', CInv, MultiOld, Handed, ~Committing, [Next]_vars
    PROVE  MultiOld'
  <1>0. Multi \in Installed /\ ~Tidy /\ ~Commit
    BY NotClosing, SlotKinds
  <1> SUFFICES ASSUME Undone'[Multi] # Nobody
               PROVE  Draws(prior', role'[Undone'[Multi]].serves)
    BY DEF MultiOld
  <1>1. Undone[Multi] # Nobody /\ Undone'[Multi] = Undone[Multi]
        /\ role'[Undone'[Multi]] = role[Undone[Multi]]
    BY <1>0, UndoneShrinks
  <1> DEFINE S == role[Undone[Multi]].serves
  <1>2. prior[Multi] = Group(prior, S) /\ \A o \in S : prior[o] \in DOMAIN Kind
    BY <1>1 DEF MultiOld, Draws
  <1>3. S \subseteq Outputs
    <2>1. Undone[Multi] \in Pids
      BY <1>0, <1>1, UndoneIsHeld DEF UndoneHeld
    <2>2. role[Undone[Multi]] \in Launches
      BY <2>1 DEF IInv, TypeOK
    <2> QED
      BY <2>2 DEF Launches
  <1> HIDE DEF S
  <1>4. ASSUME \A k \in S \cup {Multi} : prior'[k] = prior[k]
        PROVE  Draws(prior', S)
    <2>1. Group(prior', S) = Group(prior, S)
      BY <1>3, <1>4, GroupSame
    <2> QED
      BY <1>2, <1>3, <1>4, <2>1 DEF Draws
  <1>5. Draws(prior', S) => Draws(prior', role'[Undone'[Multi]].serves)
    BY <1>1 DEF S
  <1>6. CASE \E q \in Requests : Start(q)
    <2>1. prior' = assigned /\ Idle
      BY <1>6, Zenon DEF Start
    <2>2. prior' = prior
      BY <2>1 DEF IInv, Resting
    <2> QED
      BY <1>4, <1>5, <2>2
  <1>7. CASE Continues
    BY <1>4, <1>5, <1>7 DEF Continues
  <1>8. CASE Fail
    <2>1. prior' = (IF plan.op \in {"static", "video"} THEN prior ELSE assigned) /\ ~Idle
      BY <1>8 DEF Fail, Idle
    <2>2. \A k \in S \cup {Multi} : prior'[k] = prior[k]
      BY <1>3, <2>1 DEF Handed
    <2> QED
      BY <1>4, <1>5, <2>2
  <1>9. CASE Hotplug
    <2>1. PICK now \in Groups :
          LET lost == assigned[Multi] # Blank /\ \E e \in assigned[Multi] : e[1] \notin now
              kept(k) == IF k = Multi THEN ~lost
                         ELSE k \in now /\ ~(lost /\ \E e \in assigned[Multi] : e[1] = k)
              unassigned == \E o \in now : assigned[o] = Blank \/ ~kept(o)
              gone == DepartedSlots(now) \cup (IF lost THEN {Multi} ELSE {})
                      \cup (IF unassigned /\ Alive(Shared) THEN {Shared} ELSE {})
          IN /\ assigned' = [k \in DOMAIN assigned |-> IF kept(k) THEN assigned[k] ELSE Blank]
             /\ slot' = Without(gone)
      BY <1>9, Zenon DEF Hotplug
    <2> DEFINE lost == assigned[Multi] # Blank /\ \E e \in assigned[Multi] : e[1] \notin now
               kept(k) == IF k = Multi THEN ~lost
                          ELSE k \in now /\ ~(lost /\ \E e \in assigned[Multi] : e[1] = k)
               unassigned == \E o \in now : assigned[o] = Blank \/ ~kept(o)
               gone == DepartedSlots(now) \cup (IF lost THEN {Multi} ELSE {})
                       \cup (IF unassigned /\ Alive(Shared) THEN {Shared} ELSE {})
    <2>2. /\ assigned' = [k \in DOMAIN assigned |-> IF kept(k) THEN assigned[k] ELSE Blank]
          /\ slot' = Without(gone)
      BY <2>1, Zenon
    <2>3. lost => Multi \in gone
      OBVIOUS
    <2>4. prior' = assigned' /\ Idle /\ open = {} /\ open' = open /\ prior = assigned
      BY <1>9, Zenon DEF Hotplug, IInv, Resting
    <2>5. slot'[Multi] = Undone'[Multi]
      BY <1>0, <2>4, UndoneParted DEF UndoneParts
    <2>6. ~lost
      <3> HIDE DEF gone
      <3> SUFFICES ASSUME lost PROVE FALSE
        OBVIOUS
      <3>1. slot'[Multi] = Nobody
        BY <1>0, <2>2, <2>3, SlotKinds DEF Without
      <3> QED
        BY <2>5, <3>1
    <2>7. \A o \in S : o \in now
      <3>1. Group(prior, S) \in SUBSET (Outputs \X DOMAIN Kind)
        BY <1>2, <1>3 DEF Group
      <3>2. assigned[Multi] # Blank
        BY <1>2, <2>4, <3>1, HandoffAssumption
      <3>3. ASSUME NEW o \in S PROVE <<o, prior[o]>> \in assigned[Multi] /\ <<o, prior[o]>>[1] = o
        BY <1>2, <2>4 DEF Group
      <3> QED
        BY <2>6, <3>2, <3>3
    <2>8. \A k \in S \cup {Multi} : kept(k)
      BY <2>6, <2>7
    <2>9. DOMAIN assigned = Outputs \cup {Multi}
      BY DEF IInv, TypeOK
    <2> HIDE DEF kept, gone
    <2>10. \A k \in S \cup {Multi} : prior'[k] = prior[k]
      BY <1>3, <2>2, <2>4, <2>8, <2>9
    <2> QED
      BY <1>4, <1>5, <2>10
  <1> QED
    BY <1>0, <1>6, <1>7, <1>8, <1>9, RequestSteps

\* Steps that leave the shared renderer and what is recorded for it alone.
LEMMA ShownStays ==
    ASSUME IInv, NEW l, Shown(l), plan'.want = plan.want, assigned'[Multi] = assigned[Multi],
           slot'[Multi] \in {slot[Multi], Nobody},
           \A q \in Pids : phase'[q] # "free" /\ phase[q] # "free" => role'[q] = role[q], IInv'
    PROVE  Shown(l)'
  <1>1. assigned'[Multi] = Group(plan'.want, l.serves)
    BY DEF Shown
  <1>2. ASSUME slot'[Multi] # Nobody PROVE role'[slot'[Multi]].serves = l.serves
    <2>1. Multi \in Slots /\ slot'[Multi] = slot[Multi]
      BY <1>2, SlotKinds
    <2>2. slot[Multi] \in Pids /\ phase'[slot[Multi]] # "free"
      BY <1>2, <2>1, HeldRuns
    <2>3. phase[slot[Multi]] # "free"
      BY <2>1, <2>2 DEF IInv, Accounted, InSlot
    <2> QED
      BY <1>2, <2>1, <2>2, <2>3 DEF Shown
  <1> QED
    BY <1>1, <1>2 DEF Shown

LEMMA MultiGoes ==
    ASSUME IInv, IInv', MultiNew, todo # {}, prior' = prior, weRender' = weRender,
           Launched(plan') = Launched(plan), plan'.want = plan.want,
           \A q \in Pids : phase'[q] # "free" /\ phase[q] # "free" => role'[q] = role[q],
           \A l \in Launched(plan) : l.slot = Multi =>
              \/ Pending("spawn", l)' \/ Of(l)' # {} \/ Shown(l)'
              \/ /\ Pending("spawn", l) => Pending("spawn", l)'
                 /\ Of(l) # {} => Of(l)' # {}
                 /\ assigned'[Multi] = assigned[Multi]
                 /\ slot'[Multi] \in {slot[Multi], Nobody}
    PROVE  MultiNew'
  <1>1. Launched(plan)' = Launched(plan)
    <2>1. PICK s : s = plan'
      OBVIOUS
    <2> QED
      BY <2>1, PlanStays
  <1> SUFFICES ASSUME NEW l \in Launched(plan), l.slot = Multi
               PROVE  Pending("spawn", l)' \/ Of(l)' # {} \/ Shown(l)'
    BY <1>1 DEF MultiNew
  <1>2. Pending("spawn", l) \/ Of(l) # {} \/ Shown(l)
    BY DEF MultiNew
  <1>3. Shown(l) /\ assigned'[Multi] = assigned[Multi] /\ slot'[Multi] \in {slot[Multi], Nobody} => Shown(l)'
    BY ShownStays
  <1> QED
    BY <1>2, <1>3

\* A shared renderer that is given up leaves every other launch to come or under way.
LEMMA MultiGivenUp ==
    ASSUME IInv, NEW i \in Reached("spawn") \cup Reached("wait"), GiveUp(i.launch),
           prior' = prior, weRender' = weRender,
           \A u \in open : u.launch # i.launch => u \in open'
    PROVE  MultiNew'
  <1>1. CASE i.launch.shared
    <2>1. \A l \in Launched(plan)' : Pending("spawn", l)' \/ Of(l)' # {}
      BY <1>1, GivenUpHolds
    <2> QED
      BY <2>1 DEF MultiNew
  <1>2. CASE ~i.launch.shared
    BY <1>2 DEF GiveUp, MultiNew
  <1> QED
    BY <1>1, <1>2

LEMMA SpawnMulti ==
    ASSUME IInv, IInv', MultiNew, Spawn
    PROVE  MultiNew'
  <1>1. PICK i \in Reached("spawn") :
           \/ \E p \in Fresh : \E t, taken : Begins(i.launch, p, t, taken) /\ Step(i)
           \/ GiveUp(i.launch) /\ UNCHANGED <<slot, marks, open, phase, role>>
    BY SpawnBegins
  <1>2. assigned' = assigned /\ prior' = prior /\ weRender' = weRender
    BY SpawnBegins
  <1>3. /\ i \in todo /\ i.do = "spawn" /\ plan \in Plans /\ i.launch \in Launched(plan)
    BY Takes
  <1>4. CASE GiveUp(i.launch) /\ UNCHANGED <<slot, marks, open, phase, role>>
    BY <1>2, <1>4, MultiGivenUp
  <1>5. CASE \E p \in Fresh : \E t, taken : Begins(i.launch, p, t, taken) /\ Step(i)
    <2>1. PICK p \in Fresh : \E t, taken : Begins(i.launch, p, t, taken) /\ Step(i)
      BY <1>5
    <2>2. PICK t, taken : Begins(i.launch, p, t, taken) /\ Step(i)
      BY <2>1
    <2>3. plan' = plan /\ todo' = todo \ {i} /\ open' = open \cup {t} /\ t.launch = i.launch
          /\ slot' = [Without(taken) EXCEPT ![i.launch.slot] = p]
          /\ role' = [role EXCEPT ![p] = i.launch]
      BY <2>2 DEF Begins, Step
    <2>4. phase[p] = "free" /\ p \in Pids /\ role \in [Pids -> Launches]
      BY DEF Fresh, IInv, TypeOK
    <2>5. \A q \in Pids : phase'[q] # "free" /\ phase[q] # "free" => role'[q] = role[q]
      BY <2>3, <2>4
    <2>6. ASSUME NEW l \in Launched(plan), l.slot = Multi
          PROVE  \/ Of(l)' # {}
                 \/ /\ Pending("spawn", l) => Pending("spawn", l)'
                    /\ Of(l) # {} => Of(l)' # {}
                    /\ assigned'[Multi] = assigned[Multi]
                    /\ slot'[Multi] \in {slot[Multi], Nobody}
      <3>1. CASE l = i.launch
        BY <2>3, <3>1 DEF Of
      <3>2. CASE l # i.launch
        <4>1. i.launch.slot # Multi
          BY <1>3, <2>6, <3>2, ProgramIs
        <4>2. Multi \in Slots
          BY SlotKinds
        <4>3. slot'[Multi] \in {slot[Multi], Nobody}
          BY <2>3, <4>1, <4>2 DEF Without
        <4>4. Pending("spawn", l) => Pending("spawn", l)'
          BY <2>3, <3>2 DEF Pending
        <4>5. Of(l) # {} => Of(l)' # {}
          BY <2>3 DEF Of
        <4> QED
          BY <1>2, <4>3, <4>4, <4>5
      <3> QED
        BY <3>1, <3>2
    <2> QED
      BY <1>2, <1>3, <2>3, <2>5, <2>6, MultiGoes
  <1> QED
    BY <1>1, <1>4, <1>5

LEMMA ReuseMulti ==
    ASSUME IInv, IInv', MultiNew, MultiOld, Reuse
    PROVE  MultiNew'
  <1>1. PICK i \in Reached("spawn") :
          LET l == i.launch
              together == {j.launch : j \in {k \in todo : k.launch.keep = l.keep}}
          IN /\ l.keep # {} /\ \A s \in l.keep : Alive(s)
             /\ \/ /\ todo' = {j \in todo : j.launch \notin together}
                   /\ plan' = [plan EXCEPT !.kept = @ \cup together]
                   /\ assigned' = IF plan.op = "reconcile" THEN HandedOver(plan, l) ELSE assigned
                \/ GiveUp(l)
    BY Zenon DEF Reuse
  <1>2. open' = open /\ prior' = prior /\ weRender' = weRender /\ slot' = slot /\ role' = role
    BY Zenon DEF Reuse, quiet
  <1>3. i \in todo /\ i.do = "spawn" /\ plan \in Plans /\ i.launch \in Launched(plan) /\ ~Idle
    BY Takes
  <1> DEFINE m == i.launch
             together == {j.launch : j \in {k \in todo : k.launch.keep = i.launch.keep}}
  <1>4. CASE GiveUp(m)
    BY <1>2, <1>4, MultiGivenUp
  <1>5. CASE /\ todo' = {j \in todo : j.launch \notin together}
             /\ plan' = [plan EXCEPT !.kept = @ \cup together]
             /\ assigned' = IF plan.op = "reconcile" THEN HandedOver(plan, m) ELSE assigned
    <2>1. /\ plan'.op = plan.op /\ plan'.want = plan.want
          /\ plan'.fill = plan.fill /\ plan'.fade = plan.fade /\ plan'.single = plan.single
          /\ plan'.fades = plan.fades /\ plan'.same = plan.same
      BY <1>3, <1>5 DEF Plans
    <2>2. Launched(plan') = Launched(plan)
      <3>1. ASSUME NEW s, s.op = plan.op, s.want = plan.want, s.fill = plan.fill,
                   s.fade = plan.fade, s.single = plan.single, s.fades = plan.fades,
                   s.same = plan.same
            PROVE  Program(s) = Program(plan)
        BY <3>1, SameProgram
      <3>2. Program(plan') = Program(plan)
        BY <2>1, <3>1
      <3> QED
        BY <3>2, Zenon DEF Launched
    <2>3. DOMAIN assigned = Outputs \cup {Multi} /\ Multi \notin Outputs
      BY HandoffAssumption DEF IInv, TypeOK
    <2>4. m \in Launches /\ m.serves \subseteq Outputs
      <3>1. m \in Launches
        BY <1>3, ProgramIs
      <3> QED
        BY <3>1 DEF Launches
    <2>5. HandedOver(plan, m)[Multi] = IF m.slot = Multi THEN Group(plan.want, m.serves) ELSE assigned[Multi]
      BY <2>3, <2>4, Zenon DEF HandedOver, Group
    <2>6. ASSUME NEW l \in Launched(plan), l.slot = Multi
          PROVE  \/ Shown(l)'
                 \/ /\ Pending("spawn", l) => Pending("spawn", l)'
                    /\ Of(l) # {} => Of(l)' # {}
                    /\ assigned'[Multi] = assigned[Multi]
                    /\ slot'[Multi] \in {slot[Multi], Nobody}
      <3>1. CASE l = m
        <4>1. /\ plan.op = "reconcile" /\ l.serves = SharedVideo(plan)
              /\ l.keep = IF prior[Multi] = {<<o, plan.want[o]>> : o \in SharedVideo(plan)} THEN {Multi} ELSE {}
          BY <1>3, <2>6, MultiLaunch
        <4>2. prior[Multi] = Group(plan.want, l.serves) /\ Multi \in l.keep /\ l.keep # {}
          BY <1>1, <3>1, <4>1 DEF Group
        <4>3. Undone[Multi] = slot[Multi] /\ slot[Multi] # Nobody
          BY <1>1, <3>1, <4>2, MultiThere DEF Alive
        <4>4. ~Committing
          BY <1>3 DEF Committing, Late
        <4>5. prior[Multi] = Group(prior, role[slot[Multi]].serves)
          BY <4>3, <4>4 DEF MultiOld, Draws
        <4>6. role[slot[Multi]].serves = l.serves
          <5>1. Group(plan.want, l.serves) = Group(prior, role[slot[Multi]].serves)
            BY <4>2, <4>5
          <5>2. ASSUME NEW f, NEW g, NEW A, NEW B, Group(f, A) = Group(g, B) PROVE A = B
            BY <5>2, SameGroup
          <5> QED
            BY <5>1, <5>2
        <4>7. assigned'[Multi] = Group(plan'.want, l.serves)
          BY <1>5, <2>1, <2>5, <2>6, <3>1, <4>1
        <4> QED
          BY <1>2, <4>6, <4>7 DEF Shown
      <3>2. CASE l # m
        <4>1. m.slot # Multi /\ Multi \notin m.keep
          <5>1. i.launch.slot # Multi
            BY <1>3, <2>6, <3>2, ProgramIs
          <5>2. Multi \in i.launch.keep => i.launch.slot = Multi
            BY <1>3, MultiLaunch
          <5> QED
            BY <5>1, <5>2
        <4>2. l \notin together
          <5> SUFFICES ASSUME l.keep = m.keep PROVE FALSE
            OBVIOUS
          <5>1. l.keep \subseteq {Multi}
            BY <1>3, <2>6, MultiLaunch
          <5> QED
            BY <1>1, <4>1, <5>1
        <4>3. Pending("spawn", l) => Pending("spawn", l)'
          BY <1>5, <4>2 DEF Pending
        <4>4. assigned'[Multi] = assigned[Multi]
          BY <1>5, <2>5, <4>1
        <4> QED
          BY <1>2, <4>3, <4>4 DEF Of
      <3> QED
        BY <3>1, <3>2
    <2> HIDE DEF together, m
    <2> QED
      BY <1>2, <1>3, <2>1, <2>2, <2>6, MultiGoes
  <1> QED
    BY <1>1, <1>4, <1>5, Zenon

LEMMA CommitMulti ==
    ASSUME IInv, IInv', MultiNew, Roles, Commit
    PROVE  MultiNew'
  <1>1. PICK i \in Reached("commit") : \E t \in Of(i.launch) :
          /\ open' = open \ {t}
          /\ Kill(Range(t.from))
          /\ IF t.launch.slot \in Installed THEN slot' = slot
             ELSE slot' = Without({t.launch.slot})
          /\ assigned' = IF plan.op = "reconcile" THEN HandedOver(plan, t.launch) ELSE assigned
          /\ todo' = todo \ {i} /\ plan' = plan
    BY Zenon DEF Commit, Step
  <1>2. PICK t \in Of(i.launch) :
          /\ open' = open \ {t}
          /\ Kill(Range(t.from))
          /\ IF t.launch.slot \in Installed THEN slot' = slot
             ELSE slot' = Without({t.launch.slot})
          /\ assigned' = IF plan.op = "reconcile" THEN HandedOver(plan, t.launch) ELSE assigned
          /\ todo' = todo \ {i} /\ plan' = plan
    BY <1>1
  <1>3. i \in todo /\ i.do = "commit" /\ plan \in Plans /\ ~Idle /\ t \in open /\ t.launch = i.launch
    BY Takes DEF Of
  <1>4. prior' = prior /\ weRender' = weRender
    BY Zenon DEF Commit
  <1>5. \A q \in Pids : phase'[q] # "free" /\ phase[q] # "free" => role'[q] = role[q]
    BY <1>2, RoleKept
  <1>6. t.launch \in Launched(plan) /\ t.launch.serves \subseteq Outputs /\ t.pid \in Pids
    <2>1. t.launch \in Launched(plan) /\ t.launch \in Launches /\ t.pid \in Pids
      BY <1>3 DEF IInv, Running, TypeOK
    <2> QED
      BY <2>1 DEF Launches
  <1>7. DOMAIN assigned = Outputs \cup {Multi} /\ Multi \notin Outputs
    BY HandoffAssumption DEF IInv, TypeOK
  <1>8. HandedOver(plan, t.launch)[Multi] =
            IF t.launch.slot = Multi THEN Group(plan.want, t.launch.serves) ELSE assigned[Multi]
    BY <1>6, <1>7, Zenon DEF HandedOver, Group
  <1>9. Multi \in Slots /\ Multi \in Installed
    BY SlotKinds
  <1>10. slot'[Multi] = slot[Multi]
    BY <1>2, <1>9 DEF Without
  <1>11. ASSUME NEW l \in Launched(plan), l.slot = Multi
         PROVE  \/ Shown(l)'
                \/ /\ Pending("spawn", l) => Pending("spawn", l)'
                   /\ Of(l) # {} => Of(l)' # {}
                   /\ assigned'[Multi] = assigned[Multi]
                   /\ slot'[Multi] \in {slot[Multi], Nobody}
    <2>1. CASE l = t.launch
      <3>1. plan.op = "reconcile"
        BY <1>3, <1>11, MultiLaunch
      <3>2. assigned'[Multi] = Group(plan'.want, l.serves)
        BY <1>2, <1>8, <1>11, <2>1, <3>1
      <3>3. ASSUME slot'[Multi] # Nobody PROVE role'[slot'[Multi]].serves = l.serves
        <4>1. slot[Multi] = t.pid /\ role[t.pid] = l
          BY <1>3, <1>10, <1>11, <2>1, <3>3 DEF IInv, Transactions, Roles
        <4>2. phase'[t.pid] # "free"
          BY <1>9, <1>10, <3>3, <4>1, HeldRuns
        <4>3. role'[t.pid] = role[t.pid]
          BY <1>2, <1>6, <4>2, RoleKept
        <4> QED
          BY <1>10, <4>1, <4>3
      <3> QED
        BY <3>2, <3>3 DEF Shown
    <2>2. CASE l # t.launch
      <3>1. t.launch.slot # Multi
        BY <1>3, <1>6, <1>11, <2>2, ProgramIs
      <3>2. assigned'[Multi] = assigned[Multi]
        BY <1>2, <1>8, <3>1
      <3>3. Pending("spawn", l) => Pending("spawn", l)'
        BY <1>2, <1>3 DEF Pending
      <3>4. Of(l) # {} => Of(l)' # {}
        BY <1>2, <1>3, <2>2 DEF Of
      <3> QED
        BY <1>10, <3>2, <3>3, <3>4
    <2> QED
      BY <2>1, <2>2
  <1> QED
    BY <1>2, <1>3, <1>4, <1>5, <1>11, MultiGoes

LEMMA MultiStays ==
    ASSUME IInv, IInv', MultiNew, MultiOld, Roles, [Next]_vars
    PROVE  MultiNew'
  <1>1. CASE todo' = {}
    BY <1>1 DEF MultiNew
  <1>2. CASE \E q \in Requests : Start(q)
    <2>1. PICK q \in Requests : Start(q)
      BY <1>2
    <2>2. todo' = Program(plan') /\ prior' = assigned /\ weRender' = weRender /\ Idle
      BY <2>1, Zenon DEF Start
    <2>3. prior' = prior
      BY <2>2 DEF IInv, Resting
    <2>4. PICK s : s = plan'
      OBVIOUS
    <2>5. Launched(plan)' = Launched(s)
      BY <2>2, <2>3, <2>4, PlanStays
    <2>6. \A l \in Launched(s) : Pending("spawn", l)'
      BY <2>2, <2>4 DEF Launched, Pending
    <2> QED
      BY <2>5, <2>6 DEF MultiNew
  <1>3. ASSUME plan' = plan, prior' = prior, weRender' = weRender, open' = open, assigned' = assigned,
               \A j \in todo : j.do = "spawn" => j \in todo', todo # {},
               slot'[Multi] \in {slot[Multi], Nobody},
               \A q \in Pids : phase'[q] # "free" => role'[q] = role[q]
        PROVE  MultiNew'
    <2>1. ASSUME NEW l PROVE (Pending("spawn", l) => Pending("spawn", l)') /\ (Of(l) # {} => Of(l)' # {})
      BY <1>3 DEF Pending, Of
    <2> QED
      BY <1>3, <2>1, MultiGoes
  <1>4. CASE Wait
    <2>1. PICK i \in Reached("wait") \cup Reached("answer") : \E t \in Of(i.launch) :
            \/ Step(i) /\ open' = open /\ slot' = slot /\ role' = role
            \/ i.do = "wait" /\ GiveUp(t.launch) /\ open' = open \ {t}
            \/ todo' = {}
      BY <1>4, Zenon DEF Wait, Undo
    <2>2. prior' = prior /\ weRender' = weRender /\ assigned' = assigned
      BY <1>4, Zenon DEF Wait, quiet
    <2>3. i \in todo /\ i.do \in {"wait", "answer"}
      BY Takes
    <2>4. CASE Step(i) /\ open' = open /\ slot' = slot /\ role' = role
      <3>1. todo' = todo \ {i} /\ plan' = plan
        BY <2>4 DEF Step
      <3> QED
        BY <1>3, <2>2, <2>3, <2>4, <3>1
    <2>5. ASSUME NEW t \in Of(i.launch), i.do = "wait", GiveUp(t.launch), open' = open \ {t}
          PROVE  MultiNew'
      <3>1. t.launch = i.launch /\ i \in Reached("wait")
        BY <2>3, <2>5 DEF Of, Reached
      <3> QED
        BY <2>2, <2>5, <3>1, MultiGivenUp
    <2> QED
      BY <1>1, <2>1, <2>4, <2>5
  <1>5. CASE Reveal
    <2>1. PICK i \in Reached("reveal") :
            \/ todo' = todo \ {i} /\ plan' = plan
            \/ todo' = (todo \ {i}) \cup {[i EXCEPT !.do = "answer"]} /\ plan' = plan
            \/ todo' = {}
      BY <1>5, Zenon DEF Reveal, Step
    <2>2. prior' = prior /\ weRender' = weRender /\ assigned' = assigned /\ open' = open
          /\ slot' = slot /\ role' = role
      BY <1>5, Zenon DEF Reveal, quiet
    <2>3. i \in todo /\ i.do = "reveal"
      BY Takes
    <2> QED
      BY <1>1, <1>3, <2>1, <2>2, <2>3
  <1>6. CASE Prepare
    <2>1. PICK i \in Reached("prepare") \cup Reached("start") :
            \/ todo' = todo \ {i} /\ plan' = plan
            \/ todo' = {}
      BY <1>6, Zenon DEF Prepare, Step
    <2>2. prior' = prior /\ weRender' = weRender /\ assigned' = assigned /\ open' = open
          /\ slot' = slot /\ role' = role
      BY <1>6, Zenon DEF Prepare, quiet
    <2>3. i \in todo /\ i.do \in {"prepare", "start"}
      BY Takes
    <2> QED
      BY <1>1, <1>3, <2>1, <2>2, <2>3
  <1>7. CASE Tidy \/ Drop \/ Fail \/ Hotplug
    <2>1. todo' = {}
      BY <1>7, Zenon DEF Tidy, Drop, Fail, Hotplug
    <2> QED
      BY <1>1, <2>1
  <1>8. ASSUME plan' = plan, todo' = todo, prior' = prior, weRender' = weRender, open' = open,
               assigned' = assigned, slot'[Multi] \in {slot[Multi], Nobody},
               \A q \in Pids : phase'[q] # "free" => role'[q] = role[q]
        PROVE  MultiNew'
    BY <1>1, <1>3, <1>8
  <1>9. CASE \E p \in Pids : (\E result \in {"ok", "err"} : Signal(p, result)) \/ Exit(p)
    <2>1. UNCHANGED <<plan, todo, prior, weRender, open, assigned, slot, role>>
      BY <1>9, Zenon DEF Signal, Exit, program, quiet
    <2> QED
      BY <1>8, <2>1
  <1>10. CASE \E p \in Pids : RetirePaper(p) \/ ReleaseDeferred(p)
    <2>1. PICK p \in Pids : RetirePaper(p) \/ ReleaseDeferred(p)
      BY <1>10
    <2>2. UNCHANGED <<plan, todo, prior, weRender, open, assigned>>
          /\ (slot' = slot \/ slot' = Without({Paper}))
          /\ (Kill({p}) \/ role' = role)
      BY <2>1, Zenon DEF RetirePaper, ReleaseDeferred, program, quiet
    <2>3. slot'[Multi] \in {slot[Multi], Nobody}
      BY <2>2, SlotKinds DEF Without
    <2>4. \A q \in Pids : phase'[q] # "free" => role'[q] = role[q]
      BY <2>2, RoleKept
    <2> QED
      BY <1>8, <2>2, <2>3, <2>4
  <1>11. CASE Reap
    <2>1. UNCHANGED <<plan, todo, prior, weRender, open, assigned>>
          /\ \E S, ps : slot' = Without(S) /\ Kill(ps)
      BY <1>11, Zenon DEF Reap, quiet
    <2>2. slot'[Multi] \in {slot[Multi], Nobody}
      BY <2>1, SlotKinds DEF Without
    <2>3. \A q \in Pids : phase'[q] # "free" => role'[q] = role[q]
      BY <2>1, RoleKept
    <2> QED
      BY <1>8, <2>1, <2>2, <2>3
  <1>12. CASE UNCHANGED vars
    <2>1. UNCHANGED <<plan, todo, prior, weRender, open, assigned, slot, role>>
      BY <1>12, Zenon DEF vars
    <2> QED
      BY <1>8, <2>1
  <1> QED
    BY <1>2, <1>4, <1>5, <1>6, <1>7, <1>9, <1>10, <1>11, <1>12, SpawnMulti, ReuseMulti, CommitMulti, Zenon
       DEF Next, Run

\* The shared renderer stays at the end of a reconciliation that launched it.
LEMMA MultiKeeps ==
    ASSUME NEW r \in Plans, Multi \in Keeps(r)
    PROVE  \E h \in Launched(r) : h.slot = Multi /\ h.serves = SharedVideo(r) /\ h.serves \subseteq DOMAIN r.want
  <1>0. r.op \in Ops /\ DOMAIN r.want \in Groups
    BY PlanIs
  <1>1. /\ Multi # Shared /\ Multi # Base /\ Multi # Paper
        /\ \A G \in Groups : <<"still", G>> # Multi
    BY SlotKinds DEF Groups
  <1>2. \A h \in Scenes(r) : h.slot # Multi
    BY SceneKeeps
  <1>3. CASE r.op = "reconcile"
    <2>1. PICK h \in Handoffs(r) \cup Scenes(r) : h.slot = Multi
      BY <1>3 DEF Keeps
    <2>2. h \in Launched(r)
      BY <1>3, LaunchedIs DEF All, Reconciled
    <2>3. h.serves = SharedVideo(r)
      BY <2>1, <2>2, MultiLaunch
    <2>4. SharedVideo(r) \subseteq DOMAIN r.want
      BY SharedIs, PlanIs
    <2> QED
      BY <2>1, <2>2, <2>3, <2>4
  <1>4. CASE r.op = "video"
    BY <1>1, <1>4 DEF Keeps
  <1>5. CASE r.op = "we"
    BY <1>2, <1>5 DEF Keeps
  <1>6. CASE r.op = "static"
    <2>1. \A o \in DOMAIN r.want : {o} \in Groups
      BY <1>0 DEF Groups
    <2>2. Multi \in {Base} \cup {<<"still", {o}>> : o \in DOMAIN r.want}
      BY <1>6 DEF Keeps
    <2> QED
      BY <1>1, <2>1, <2>2
  <1>7. CASE r.op = "fade"
    <2>1. Multi \in {Base, Paper} \cup {<<"still", G>> : G \in FadeGroups(r)}
      BY <1>7 DEF Keeps
    <2>2. FadeGroups(r) \subseteq Groups
      BY SharedIs
    <2> QED
      BY <1>1, <2>1, <2>2
  <1> QED
    BY <1>0, <1>3, <1>4, <1>5, <1>6, <1>7, Zenon DEF Ops

\* What is left in its place at the end of a request draws apart from the rest.
LEMMA TidyApart ==
    ASSUME IInv, IInv', CInv, Roles, MultiNew, Tidy
    PROVE  OldApart' /\ MultiOld'
  <1>1. /\ Reached("tail") # {} /\ slot' = Without(Emptied(plan)) /\ open' = open
        /\ Kill(In(Emptied(plan) \ Deferred(plan)))
        /\ assigned' = Settled /\ todo' = {} /\ prior' = assigned'
    BY Zenon DEF Tidy
  <1>2. open = {} /\ plan \in Plans /\ ~Idle
    BY <1>1, TailIsLast DEF Idle
  <1>3. todo # {} /\ Late
    BY <1>1, CommitsLast DEF Committing, Late
  <1>4. \A s \in Installed : Undone'[s] = slot'[s] /\ s \in Slots
    BY <1>1, <1>2, UndoneParted, SlotKinds DEF UndoneParts
  <1>5. ASSUME NEW l \in Launched(plan), l.slot = Multi PROVE Shown(l)
    <2>1. ~Pending("spawn", l) /\ Of(l) = {}
      BY <1>2, <1>3 DEF Late, Pending, Of
    <2> QED
      BY <1>3, <1>5, <2>1 DEF MultiNew
  <1>6. ASSUME NEW s \in Installed, slot'[s] # Nobody
        PROVE  /\ s \in Keeps(plan) /\ slot'[s] = slot[s] /\ role'[slot'[s]] = role[slot[s]]
               /\ s = Paper => role[slot[s]].serves = {}
               /\ s[2] # {} => role[slot[s]].serves = s[2]
               /\ s = Multi => role[slot[s]].serves = SharedVideo(plan)
    <2>1. s \in Slots /\ s \in Keeps(plan) /\ slot'[s] = slot[s]
      BY <1>1, <1>4, <1>6 DEF Without, Emptied
    <2>2. slot'[s] \in Pids /\ phase'[slot'[s]] # "free"
      BY <1>6, <2>1, HeldRuns
    <2>3. role'[slot'[s]] = role[slot'[s]]
      BY <1>1, <2>2, RoleKept
    <2>4. role[slot[s]].slot = s /\ Formed(role[slot[s]])
      BY <1>6, <2>1 DEF Roles
    <2>5. s = Multi => role[slot[s]].serves = SharedVideo(plan)
      <3> SUFFICES ASSUME s = Multi PROVE role[slot[s]].serves = SharedVideo(plan)
        OBVIOUS
      <3>1. PICK h \in Launched(plan) : h.slot = Multi /\ h.serves = SharedVideo(plan)
        BY <1>2, <2>1, MultiKeeps
      <3> QED
        BY <1>5, <1>6, <2>1, <3>1 DEF Shown
    <2> QED
      BY <2>1, <2>3, <2>4, <2>5 DEF Formed
  <1>7. OldApart'
    <2> SUFFICES ASSUME NEW s \in Installed, NEW x \in Installed,
                        s # x, Undone'[s] # Nobody, Undone'[x] # Nobody
                 PROVE  role'[Undone'[s]].serves \cap role'[Undone'[x]].serves = {}
      BY DEF OldApart
    <2>1. slot'[s] # Nobody /\ slot'[x] # Nobody
      BY <1>4
    <2>2. role[slot[s]].serves \cap role[slot[x]].serves = {}
      BY <1>2, <1>6, <2>1, KeepsApart
    <2> QED
      BY <1>4, <1>6, <2>1, <2>2
  <1>8. MultiOld'
    <2> SUFFICES ASSUME Undone'[Multi] # Nobody
                 PROVE  Draws(prior', role'[Undone'[Multi]].serves)
      BY DEF MultiOld
    <2>1. Multi \in Installed /\ slot'[Multi] # Nobody /\ Undone'[Multi] = slot'[Multi]
      BY <1>4, SlotKinds
    <2>2. Multi \in Keeps(plan) /\ role'[slot'[Multi]].serves = SharedVideo(plan)
      BY <1>6, <2>1
    <2>3. PICK h \in Launched(plan) : /\ h.slot = Multi /\ h.serves = SharedVideo(plan)
                                      /\ h.serves \subseteq DOMAIN plan.want
      BY <1>2, <2>2, MultiKeeps
    <2>4. assigned[Multi] = Group(plan.want, h.serves) /\ plan.op = "reconcile"
      BY <1>2, <1>5, <2>3, MultiLaunch DEF Shown
    <2>5. DOMAIN assigned = Outputs \cup {Multi} /\ Multi \notin Outputs
      BY HandoffAssumption DEF IInv, TypeOK
    <2>6. Multi \notin DOMAIN plan.want /\ DOMAIN plan.want \subseteq Outputs
          /\ \A o \in DOMAIN plan.want : plan.want[o] \in DOMAIN Kind
      BY <1>2, <2>5, PlanIs DEF Groups
    <2>7. prior' = [k \in DOMAIN assigned |-> IF k \in DOMAIN plan.want THEN plan.want[k] ELSE assigned[k]]
      <3>1. {t \in open : t.launch.slot = Multi} = {}
        BY <1>2
      <3>2. Settled = [k \in DOMAIN assigned |->
                          IF k = Multi /\ {t \in open : t.launch.slot = Multi} # {}
                          THEN HandedOver(plan, (CHOOSE t \in {t \in open : t.launch.slot = Multi} : TRUE).launch)[Multi]
                          ELSE IF k \in DOMAIN plan.want THEN plan.want[k] ELSE assigned[k]]
        BY <2>4, Zenon DEF Settled
      <3> QED
        BY <1>1, <3>1, <3>2
    <2>8. prior'[Multi] = assigned[Multi] /\ \A o \in h.serves : prior'[o] = plan.want[o]
      BY <2>3, <2>5, <2>6, <2>7
    <2>9. Group(prior', h.serves) = Group(plan.want, h.serves)
      BY <2>8, GroupSame
    <2>10. Draws(prior', h.serves)
      BY <2>3, <2>4, <2>6, <2>8, <2>9 DEF Draws
    <2> QED
      BY <2>1, <2>2, <2>3, <2>10
  <1> QED
    BY <1>7, <1>8

LEMMA DrawnInitially == Init => DInv
  <1> SUFFICES ASSUME Init PROVE DInv
    OBVIOUS
  <1>1. /\ slot = [s \in Slots |-> Nobody] /\ marks = {} /\ open = {} /\ todo = {} /\ outcome = "none"
    BY DEF Init
  <1>2. \A s \in Slots : slot[s] = Nobody
    BY <1>1
  <1>3. \A s \in Installed : Undone[s] = Nobody /\ s \in Slots
    <2>1. IInv
      BY Initially
    <2> QED
      BY <1>1, <1>2, <2>1, UndoneIs, SlotKinds DEF UndoneParts
  <1>4. Tailed /\ Handed /\ Sames /\ MultiNew
    BY <1>1 DEF Tailed, Handed, Sames, MultiNew, Idle
  <1>5. Roles /\ Marked
    BY <1>1, <1>2, SlotKinds DEF Roles, Marked
  <1>6. OldApart /\ MultiOld
    BY <1>3, SlotKinds DEF OldApart, MultiOld
  <1> QED
    BY <1>4, <1>5, <1>6 DEF DInv

LEMMA DrawnPreserved ==
    ASSUME IInv, CInv, DInv, [Next]_vars
    PROVE  DInv'
  <1>1. IInv' /\ Tailed /\ Roles /\ Marked /\ OldApart /\ MultiOld /\ Handed /\ Sames /\ MultiNew
    BY Preserved DEF DInv
  <1>2. Tailed' /\ Roles' /\ Marked' /\ Handed' /\ Sames' /\ MultiNew'
    BY <1>1, TailedStays, DrawnKept, HandedStays, SamesStay, MultiStays
  <1>3. CASE ~Committing
    BY <1>1, <1>2, <1>3, ApartKept, MultiKept DEF DInv
  <1>4. CASE Tidy
    BY <1>1, <1>2, <1>4, TidyApart DEF DInv
  <1>5. CASE Committing /\ ~Tidy
    <2>1. Committing'
      BY <1>1, <1>5, ClosingStays
    <2> QED
      BY <1>2, <2>1 DEF DInv, OldApart, MultiOld
  <1> QED
    BY <1>3, <1>4, <1>5

\* Between two requests no output is drawn by two renderers, whatever was
\* replaced, kept, put back or lost before; the scene marks name the scenes; and
\* no renderer is still starting or waiting to be revealed.
THEOREM DrawnOnce == Spec => []OneRenderer
  <1>1. ASSUME IInv, CInv, DInv PROVE OneRenderer
    <2> SUFFICES ASSUME Idle
                 PROVE  /\ \A s \in Installed, x \in Installed :
                              s # x /\ slot[s] # Nobody /\ slot[x] # Nobody =>
                                 role[slot[s]].serves \cap role[slot[x]].serves = {}
                        /\ \A s \in Videos : slot[s] # Nobody => (s \in marks <=> role[slot[s]].scene)
                        /\ \A s \in Installed : slot[s] # Nobody => phase[slot[s]] \notin Answering \cup {"hidden"}
      BY DEF OneRenderer
    <2>1. open = {} /\ todo = {}
      BY <1>1 DEF IInv, Resting
    <2>2. \A s \in Installed : Undone[s] = slot[s]
      BY <1>1, <2>1, UndoneIs DEF UndoneParts
    <2>3. ~Committing
      BY <2>1 DEF Committing
    <2>4. ASSUME NEW s \in Installed, NEW x \in Installed, s # x, slot[s] # Nobody, slot[x] # Nobody
          PROVE  role[slot[s]].serves \cap role[slot[x]].serves = {}
      BY <1>1, <2>2, <2>3, <2>4 DEF DInv, OldApart
    <2>5. \A s \in Videos : slot[s] # Nobody => (s \in marks <=> role[slot[s]].scene)
      BY <1>1 DEF DInv, Marked
    <2>6. ASSUME NEW s \in Installed, slot[s] # Nobody
          PROVE  phase[slot[s]] \notin Answering \cup {"hidden"}
      <3>1. slot[s] \in Pids
        BY <1>1, <2>6, SlotKinds DEF IInv, TypeOK
      <3> QED
        BY <1>1, <2>1, <3>1 DEF CInv, Attended, Unsettled
    <2> QED
      BY <2>4, <2>5, <2>6
  <1>2. IInv /\ CInv /\ DInv /\ [Next]_vars => DInv'
    BY DrawnPreserved
  <1>3. IInv /\ CInv /\ DInv => OneRenderer
    BY <1>1
  <1> QED
    BY <1>2, <1>3, Initially, Preserved, CandidatesInitially, CandidatesPreserved, DrawnInitially, PTL DEF Spec

--------------------------------------------------------------------------------
(* What a request looks like from outside *)

\* The variables of RendererBoundary, as the handoff shows them.
World == IF Committing THEN Final ELSE Undone
Scened == IF Committing THEN marks \ Emptied(plan) ELSE UndoneMarks
Recorded == IF Committing THEN Settled ELSE IF Idle THEN assigned ELSE prior
Dead == {p \in Pids : phase[p] = "dead"}
Told == IF Committing THEN "ok" ELSE outcome

BoundaryStep == [Boundary!Next]_(Boundary!vars)

\* What each step of RendererBoundary asks: that nothing shown changes, but for the
\* renderers that exited;
LEMMA Stands ==
    ASSUME World' = World, Scened' = Scened, Recorded' = Recorded, Told' = Told
    PROVE  BoundaryStep
  <1>1. CASE Dead' # Dead
    BY <1>1 DEF BoundaryStep, Boundary!Next, Boundary!Exit, Boundary!screen, World, Scened, Recorded, Told, Dead
  <1>2. CASE Dead' = Dead
    BY <1>2 DEF BoundaryStep, Boundary!vars, World, Scened, Recorded, Told, Dead
  <1> QED
    BY <1>1, <1>2

\* that a request begins and changes nothing;
LEMMA Begun ==
    ASSUME Told # "running", Told' = "running", World' = World, Scened' = Scened,
           Recorded' = Recorded, Dead' = Dead
    PROVE  BoundaryStep
  BY DEF BoundaryStep, Boundary!Next, Boundary!Begin, Boundary!screen, World, Scened, Recorded, Told, Dead

\* that a request succeeds;
LEMMA Replaced ==
    ASSUME Told = "running", Told' = "ok", DOMAIN World' = DOMAIN World, Scened' \subseteq DOMAIN World,
           Dead' = Dead
    PROVE  BoundaryStep
  BY DEF BoundaryStep, Boundary!Next, Boundary!Replace, World, Scened, Told, Dead

\* that a request fails and changes nothing;
LEMMA Refused ==
    ASSUME Told = "running", Told' = "error", World' = World, Scened' = Scened,
           Recorded' = Recorded, Dead' = Dead
    PROVE  BoundaryStep
  BY DEF BoundaryStep, Boundary!Next, Boundary!Refuse, Boundary!screen, World, Scened, Recorded, Told, Dead

\* that renderers which exited are collected, with their marks or without;
LEMMA Gathered ==
    ASSUME NEW gone \in SUBSET {s \in Installed : World[s] \in Dead}, gone # {},
           World' = [s \in DOMAIN World |-> IF s \in gone THEN Nobody ELSE World[s]],
           Scened' \in {Scened, Scened \ gone}, Dead' \subseteq Dead,
           Recorded' = Recorded, Told' = Told
    PROVE  BoundaryStep
  <1>1. Boundary!Collect
    BY DEF Boundary!Collect, World, Scened, Recorded, Told, Dead
  <1> QED
    BY <1>1 DEF BoundaryStep, Boundary!Next

\* that the overlay of a transition goes;
LEMMA Retired ==
    ASSUME World[Paper] # Nobody, World' = [World EXCEPT ![Paper] = Nobody],
           Dead' = Dead \ {World[Paper]}, Scened' = Scened, Recorded' = Recorded, Told' = Told
    PROVE  BoundaryStep
  <1>1. Boundary!Retire
    BY DEF Boundary!Retire, World, Scened, Recorded, Told, Dead
  <1> QED
    BY <1>1 DEF BoundaryStep, Boundary!Next

\* that outputs come or go between two requests.
LEMMA Followed ==
    ASSUME Told # "running", Told' = Told,
           \A s \in DOMAIN World : World'[s] \in {World[s], Nobody},
           \A s \in DOMAIN World : World'[s] = Nobody => s \notin Scened' \/ World[s] = Nobody,
           Scened' \subseteq Scened, Dead' \subseteq Dead, DOMAIN Recorded' = DOMAIN Recorded
    PROVE  BoundaryStep
  <1>1. Boundary!Hotplug
    BY DEF Boundary!Hotplug, World, Scened, Recorded, Told, Dead
  <1> QED
    BY <1>1 DEF BoundaryStep, Boundary!Next

\* Assignments are recorded for the outputs and for the shared renderer, and only
\* a place where a renderer is has a mark.
Mapped == /\ assigned = [k \in DOMAIN assigned |-> assigned[k]]
          /\ prior = [k \in DOMAIN prior |-> prior[k]]
Occupied == \A s \in marks : slot[s] # Nobody

\* The steps that assign build the assignments anew, on the same outputs.
LEMMA MappedStays ==
    ASSUME IInv, Mapped, [Next]_vars
    PROVE  Mapped'
  <1> DEFINE Fun(f) == f = [k \in DOMAIN f |-> f[k]]
  <1>0. Fun(assigned) /\ Fun(prior)
    BY DEF Mapped
  <1>1. SUFFICES Fun(assigned') /\ Fun(prior')
    BY DEF Mapped
  <1>2. /\ \A r : Fun(AllAssigned(r))
        /\ \A r, l : Fun(HandedOver(r, l))
    BY DEF AllAssigned, HandedOver
  <1>3. Fun(Settled)
    <2>1. CASE plan.op = "reconcile"
      BY <2>1 DEF Settled
    <2>2. CASE plan.op = "we"
      BY <2>2 DEF Settled
    <2>3. CASE plan.op \notin {"reconcile", "we"}
      BY <1>2, <2>3 DEF Settled
    <2> QED
      BY <2>1, <2>2, <2>3
  <1> HIDE DEF Fun
  <1>4. CASE \E q \in Requests : Start(q)
    <2>1. PICK r : prior' = assigned /\ assigned' \in {AllAssigned(r), assigned}
      BY <1>4 DEF Start
    <2> QED
      BY <1>0, <1>2, <2>1
  <1>5. CASE Continues /\ assigned' = assigned
    BY <1>0, <1>5 DEF Continues
  <1>6. CASE Continues /\ (Reuse \/ Commit)
    <2>1. \E l : assigned' \in {HandedOver(plan, l), assigned}
      <3>1. CASE Reuse
        <4>1. PICK i \in Reached("spawn") :
                \/ assigned' = IF plan.op = "reconcile" THEN HandedOver(plan, i.launch) ELSE assigned
                \/ assigned' = assigned
          BY <3>1, Zenon DEF Reuse
        <4> QED
          BY <4>1
      <3>2. CASE Commit
        <4>1. PICK i \in Reached("commit") : \E t \in Of(i.launch) :
                assigned' = IF plan.op = "reconcile" THEN HandedOver(plan, t.launch) ELSE assigned
          BY <3>2, Zenon DEF Commit
        <4> QED
          BY <4>1
      <3> QED
        BY <1>6, <3>1, <3>2
    <2> QED
      BY <1>0, <1>2, <1>6, <2>1 DEF Continues
  <1>7. CASE Tidy
    <2>1. assigned' = Settled /\ prior' = assigned'
      BY <1>7, Zenon DEF Tidy
    <2> QED
      BY <1>3, <2>1
  <1>8. CASE Fail
    <2>1. assigned' \in {prior, assigned} /\ prior' = assigned'
      BY <1>8 DEF Fail
    <2> QED
      BY <1>0, <2>1
  <1>9. CASE Hotplug
    <2>1. prior' = assigned' /\ \E f : assigned' = [k \in DOMAIN assigned |-> IF f[k] THEN assigned[k] ELSE Blank]
      <3>1. PICK now \in Groups :
          LET lost == assigned[Multi] # Blank /\ \E e \in assigned[Multi] : e[1] \notin now
              kept(k) == IF k = Multi THEN ~lost
                         ELSE k \in now /\ ~(lost /\ \E e \in assigned[Multi] : e[1] = k)
          IN assigned' = [k \in DOMAIN assigned |-> IF kept(k) THEN assigned[k] ELSE Blank]
        BY <1>9, Zenon DEF Hotplug
      <3> DEFINE lost == assigned[Multi] # Blank /\ \E e \in assigned[Multi] : e[1] \notin now
                 kept(k) == IF k = Multi THEN ~lost
                            ELSE k \in now /\ ~(lost /\ \E e \in assigned[Multi] : e[1] = k)
      <3>2. assigned' = [k \in DOMAIN assigned |-> IF kept(k) THEN assigned[k] ELSE Blank]
        BY <3>1
      <3> HIDE DEF kept, lost
      <3>3. assigned' = [k \in DOMAIN assigned |-> IF [x \in DOMAIN assigned |-> kept(x)][k] THEN assigned[k] ELSE Blank]
        BY <3>2
      <3> QED
        BY <1>9, <3>3, Zenon DEF Hotplug
    <2> QED
      BY <2>1 DEF Fun
  <1> QED
    BY <1>4, <1>5, <1>6, <1>7, <1>8, <1>9, RequestSteps

\* A renderer takes the mark of its place with it, and brings it back.
LEMMA OccupiedStays ==
    ASSUME IInv, IInv', Occupied, [Next]_vars
    PROVE  Occupied'
  <1>0. marks \subseteq Videos /\ Videos \subseteq Slots
    BY SlotKinds DEF IInv, TypeOK, Installed, Slots
  <1>1. CASE Keeps3
    BY <1>1 DEF Keeps3, Occupied
  <1>2. CASE Empties
    <2>1. PICK S \in SUBSET Slots : slot' = Without(S) /\ marks' = marks \ S
      BY <1>2 DEF Empties
    <2> QED
      BY <1>0, <2>1 DEF Without, Occupied
  <1>3. CASE Drops
    <2>1. PICK t \in open : Undo(t)
      BY <1>3 DEF Drops
    <2>2. /\ marks' = (marks \ {t.launch.slot}) \cup t.marks
          /\ \A s \in Slots : slot'[s] = IF s \in DOMAIN t.from THEN t.from[s]
                                         ELSE IF s = t.launch.slot /\ slot[s] = t.pid THEN Nobody
                                         ELSE slot[s]
      BY <2>1 DEF Undo
    <2>3. t.marks \subseteq Videos \cap DOMAIN t.from /\ \A s \in DOMAIN t.from : t.from[s] \in Pids
      BY DEF IInv, TypeOK
    <2> QED
      BY <1>0, <2>2, <2>3, NobodyIs DEF Occupied
  <1>4. CASE Opens
    <2>1. PICK i \in Reached("spawn") : \E p \in Fresh : \E t, taken : Begins(i.launch, p, t, taken)
      BY <1>4 DEF Opens
    <2>2. PICK p \in Fresh : \E t, taken : Begins(i.launch, p, t, taken)
      BY <2>1
    <2>3. PICK t, taken : Begins(i.launch, p, t, taken)
      BY <2>2
    <2>4. p \in Pids /\ i.launch.slot \in Slots
      <3>1. plan \in Plans /\ i.launch \in Launched(plan)
        BY Takes
      <3>2. i.launch \in Launches
        BY <3>1, ProgramIs
      <3> QED
        BY <3>2 DEF Fresh, Launches
    <2>5. /\ taken \subseteq Taken(i.launch)
          /\ marks' = IF i.launch.slot \in Videos
                      THEN (marks \ (Taken(i.launch) \cup {i.launch.slot})) \cup
                           (IF i.launch.scene THEN {i.launch.slot} ELSE {})
                      ELSE marks
          /\ \A s \in Slots : slot'[s] = IF s = i.launch.slot THEN p ELSE IF s \in taken THEN Nobody ELSE slot[s]
      BY <2>3, <2>4 DEF Begins, Without
    <2>6. i.launch.slot \notin Videos => Taken(i.launch) \subseteq {i.launch.slot}
      BY SlotKinds DEF Taken
    <2> QED
      BY <1>0, <2>4, <2>5, <2>6, NobodyIs DEF Occupied
  <1> QED
    BY <1>1, <1>2, <1>3, <1>4, StepKinds

\* The marks that dropping the open transactions would leave.
LEMMA SameUndoneMarks ==
    ASSUME marks' = marks, open' = open
    PROVE  UndoneMarks' = UndoneMarks
  BY DEF UndoneMarks

\* Which slots the transactions have marks of.
LEMMA MarksOf ==
    ASSUME IInv, NEW t \in open
    PROVE  /\ t.marks \subseteq Videos \cap Reach(t.launch) /\ t.marks \subseteq DOMAIN t.from
           /\ t.launch.slot \in Reach(t.launch) /\ DOMAIN t.from \subseteq Reach(t.launch)
           /\ \A u \in open : u # t => t.marks \cap Reach(u.launch) = {}
  <1>1. t.marks \subseteq Videos \cap DOMAIN t.from /\ DOMAIN t.from \subseteq Taken(t.launch)
    BY DEF IInv, TypeOK, Transactions
  <1>2. \A u \in open : u # t => Reach(t.launch) \cap Reach(u.launch) = {}
    BY OpenApart
  <1> QED
    BY <1>1, <1>2 DEF Reach

\* A transaction that is dropped puts back the marks it took,
LEMMA UndoUndoneMarks ==
    ASSUME IInv, NEW t \in open, Undo(t)
    PROVE  UndoneMarks' = UndoneMarks
  <1>1. open' = open \ {t} /\ marks' = (marks \ {t.launch.slot}) \cup t.marks
    BY DEF Undo
  <1>2. \A u \in open : u # t => t.marks \cap Reach(u.launch) = {} /\ u.launch.slot \in Reach(u.launch)
    BY MarksOf
  <1>3. \A s : s \in UndoneMarks <=> \/ s \in marks /\ \A u \in open : s # u.launch.slot
                                     \/ \E u \in open : s \in u.marks
    BY DEF UndoneMarks
  <1>4. \A s : s \in UndoneMarks' <=> \/ s \in marks' /\ \A u \in open' : s # u.launch.slot
                                      \/ \E u \in open' : s \in u.marks
    BY DEF UndoneMarks
  <1>5. \A s : s \in UndoneMarks' <=> s \in UndoneMarks
    BY <1>1, <1>2, <1>3, <1>4
  <1> QED
    BY <1>5

\* and one that begins remembers them.
LEMMA SpawnUndoneMarks ==
    ASSUME IInv, Occupied, NEW i \in Reached("spawn"), NEW p, NEW t, NEW taken, Begins(i.launch, p, t, taken)
    PROVE  UndoneMarks' = UndoneMarks
  <1> DEFINE l == i.launch
  <1>1. plan \in Plans /\ l \in Launched(plan) /\ Of(l) = {} /\ ~Idle
    BY Takes
  <1>2. /\ taken = {s \in Taken(l) : slot[s] # Nobody}
        /\ t.launch = l /\ t.marks = marks \cap taken /\ open' = open \cup {t}
        /\ marks' = IF l.slot \in Videos
                    THEN (marks \ (Taken(l) \cup {l.slot})) \cup (IF l.scene THEN {l.slot} ELSE {})
                    ELSE marks
    BY DEF Begins
  <1>3. \A u \in open : Reach(u.launch) \cap Reach(l) = {} /\ u.launch.slot \in Reach(u.launch)
    <2>1. \A u \in open : u.launch \in Launched(plan) /\ u.launch # l
      BY <1>1 DEF IInv, Running, Of
    <2> QED
      BY <1>1, <2>1, ApartReach DEF Reach
  <1>4. l.slot \in Videos => l.slot \in Taken(l)
    BY DEF Taken
  <1>5. l.slot \notin Videos => Taken(l) \subseteq {l.slot}
    BY SlotKinds DEF Taken
  <1>6. marks \subseteq Videos
    BY DEF IInv, TypeOK
  <1> HIDE DEF l
  <1>7. \A s : s \in UndoneMarks <=> \/ s \in marks /\ \A u \in open : s # u.launch.slot
                                     \/ \E u \in open : s \in u.marks
    BY DEF UndoneMarks
  <1>8. \A s : s \in UndoneMarks' <=> \/ s \in marks' /\ \A u \in open' : s # u.launch.slot
                                      \/ \E u \in open' : s \in u.marks
    BY DEF UndoneMarks
  <1>9. \A s \in marks : slot[s] # Nobody
    BY DEF Occupied
  <1>10. ASSUME NEW s PROVE s \in UndoneMarks' <=> s \in UndoneMarks
    <2>1. s \in UndoneMarks' <=> \/ s \in marks' /\ s # l.slot /\ \A u \in open : s # u.launch.slot
                                 \/ (\E u \in open : s \in u.marks) \/ s \in t.marks
      BY <1>2, <1>8
    <2>2. CASE l.slot \in Videos
      <3>1. s \in marks' /\ s # l.slot <=> s \in marks /\ s \notin Taken(l)
        BY <1>2, <1>4, <2>2
      <3>2. s \in t.marks <=> s \in marks /\ s \in Taken(l)
        BY <1>2, <1>9
      <3>3. s \in Taken(l) => \A u \in open : s # u.launch.slot
        BY <1>3 DEF Reach
      <3> QED
        BY <1>7, <2>1, <3>1, <3>2, <3>3
    <2>3. CASE l.slot \notin Videos
      <3>1. marks' = marks /\ l.slot \notin marks /\ t.marks = {}
        BY <1>2, <1>5, <1>6, <2>3
      <3> QED
        BY <1>7, <2>1, <3>1
    <2> QED
      BY <2>2, <2>3
  <1> QED
    BY <1>10

\* Collecting a renderer takes its mark, unless it was one that would be killed.
LEMMA EmptyUndoneMarks ==
    ASSUME IInv, NEW S \in SUBSET Installed, \A s \in S : slot[s] # Nobody,
           marks' = marks \ S, open' = open
    PROVE  UndoneMarks' = UndoneMarks \ {s \in S : Undone[s] = slot[s]}
  <1>1. \A s : s \in UndoneMarks <=> \/ s \in marks /\ \A u \in open : s # u.launch.slot
                                     \/ \E u \in open : s \in u.marks
    BY DEF UndoneMarks
  <1>2. \A s : s \in UndoneMarks' <=> \/ s \in marks' /\ \A u \in open' : s # u.launch.slot
                                      \/ \E u \in open' : s \in u.marks
    BY DEF UndoneMarks
  <1>3. ASSUME NEW s \in S, Undone[s] = slot[s], NEW u \in open, s \in u.marks PROVE FALSE
    <2>1. s \in DOMAIN u.from /\ u.from[s] \in Pids
      BY <1>3, MarksOf DEF IInv, TypeOK
    <2>2. Undone[s] = u.from[s]
      BY <2>1, UndoneIs DEF UndoneParts
    <2>3. Displaced(u.from[s]) /\ InSlot(u.from[s])
      BY <1>3, <2>1, <2>2, SlotKinds DEF Displaced, InSlot
    <2> QED
      BY <2>1, <2>3 DEF IInv, Once
  <1>4. ASSUME NEW s \in S, Undone[s] # slot[s], \A u \in open : s # u.launch.slot PROVE FALSE
    <2>1. PICK u \in open : s \in DOMAIN u.from
      BY <1>4, UndoneIs DEF UndoneParts
    <2>2. slot[s] = Nobody
      BY <1>4, <2>1 DEF IInv, Transactions
    <2> QED
      BY <2>2
  <1>5. ASSUME NEW s PROVE s \in UndoneMarks' <=> s \in UndoneMarks /\ ~(s \in S /\ Undone[s] = slot[s])
    BY <1>1, <1>2, <1>3, <1>4
  <1> QED
    BY <1>5

\* Every launch is prepared before anything is committed.
LEMMA LaunchPrepared ==
    ASSUME NEW r \in Plans, NEW l \in Launched(r)
    PROVE  \E i \in Program(r) : i.do = "prepare" /\ i.launch = l
  <1>0. r.op \in Ops /\ l \in All(r)
    BY PlanIs, LaunchedIs
  <1>1. CASE r.op = "reconcile"
    <2>1. /\ Part(5, 2, "prepare", Handoffs(r)) \subseteq ReconcileProgram(r)
          /\ Part(6, 1, "prepare", Scenes(r)) \subseteq ReconcileProgram(r)
          /\ Part(7, 1, "prepare", Overlaid(r)) \subseteq ReconcileProgram(r)
      BY Zenon DEF ReconcileProgram, Pairs, Each, Overlaid
    <2>2. Program(r) = ReconcileProgram(r)
      BY <1>1 DEF Program
    <2>3. l \in Handoffs(r) \/ l \in Scenes(r) \/ l \in Overlaid(r)
      BY <1>0, <1>1 DEF All, Reconciled
    <2> QED
      BY <2>1, <2>2, <2>3, PartHas
  <1>2. CASE r.op = "video"
    <2>1. Part(2, 1, "prepare", {Everywhere(r)}) \subseteq Program(r)
      BY <1>2, Zenon DEF Program, VideoProgram, Each, Everywhere
    <2>2. l \in {Everywhere(r)}
      BY <1>0, <1>2 DEF All
    <2> QED
      BY <2>1, <2>2, PartHas
  <1>3. CASE r.op = "we"
    <2>1. Part(2, 1, "prepare", Scenes(r)) \subseteq Program(r)
      BY <1>3, Zenon DEF Program, WeProgram, Each
    <2>2. l \in Scenes(r)
      BY <1>0, <1>3 DEF All
    <2> QED
      BY <2>1, <2>2, PartHas
  <1>4. CASE r.op = "static"
    <2>1. Part(3, 1, "prepare", Apart(r)) \subseteq Program(r)
      BY <1>4, Zenon DEF Program, StaticProgram, Each, Apart
    <2>2. l \in Apart(r)
      BY <1>0, <1>4 DEF All
    <2> QED
      BY <2>1, <2>2, PartHas
  <1>5. CASE r.op = "fade"
    <2>1. /\ Part(3, 2, "prepare", Appearing(r)) \subseteq Program(r)
          /\ Part(4, 1, "prepare", Fading(r)) \subseteq Program(r)
      BY <1>5, Zenon DEF Program, FadeProgram, Pairs, Each, Appearing, Fading
    <2>2. l \in Appearing(r) \/ l \in Fading(r)
      BY <1>0, <1>5 DEF All
    <2> QED
      BY <2>1, <2>2, PartHas
  <1> QED
    BY <1>0, <1>1, <1>2, <1>3, <1>4, <1>5 DEF Ops

\* A program that has just been laid out is not past its last failing step.
LEMMA NotYet ==
    ASSUME NEW r \in Plans, Suits(r),
           \A i \in Program(r) : i.do = "prepare" => i \in todo'
    PROVE  ~Committing'
  <1>1. PICK o \in DOMAIN r.want : TRUE
    BY DEF Plans, Wishes, Groups
  <1>2. PICK l \in Launched(r) : TRUE
    BY LaunchesCover
  <1>3. PICK i \in Program(r) : i.do = "prepare"
    BY <1>2, LaunchPrepared
  <1> QED
    BY <1>3 DEF Committing

\* So a request does not begin there, and giving up a shared renderer does not lead
\* there.
LEMMA StartsEarly ==
    ASSUME IInv', Suited', NEW q \in Requests, Start(q)
    PROVE  ~Committing'
  <1>1. PICK r : plan' = r /\ todo' = Program(r) /\ outcome' = "running"
    BY DEF Start
  <1>2. r \in Plans /\ Suits(r)
    BY <1>1 DEF IInv, Running, Idle, Suited, Suits
  <1> QED
    BY <1>1, <1>2, NotYet

LEMMA GivesUpEarly ==
    ASSUME IInv, IInv', Suited', ~Idle, outcome' = outcome, NEW l, GiveUp(l)
    PROVE  ~Committing'
  <1>1. CASE l.shared
    <2>1. PICK r : plan' = r /\ todo' = Rest(r)
      BY <1>1 DEF GiveUp
    <2>2. r \in Plans /\ Suits(r)
      BY <2>1 DEF IInv, Running, Idle, Suited, Suits
    <2> QED
      BY <2>1, <2>2, NotYet DEF Rest
  <1>2. CASE ~l.shared
    BY <1>2 DEF GiveUp, Committing
  <1> QED
    BY <1>1, <1>2

\* What is shown of the places, now and after a step.
LEMMA Worlds ==
    /\ DOMAIN World = Installed /\ World = [s \in Installed |-> World[s]]
    /\ ~Committing => World = Undone
    /\ Committing => World = Final
    /\ (\A s \in Installed : Undone'[s] = Undone[s]) => Undone' = Undone
  <1>1. Undone = [s \in Installed |-> Undone[s]] /\ Final = [s \in Installed |-> Final[s]]
    BY DEF Undone, Final
  <1>2. Undone' = [s \in Installed |-> Undone'[s]]
    BY DEF Undone
  <1> QED
    BY <1>1, <1>2 DEF World

LEMMA WorldsNext ==
    /\ DOMAIN World' = Installed /\ World' = [s \in Installed |-> World'[s]]
    /\ ~Committing' => World' = Undone'
    /\ Committing' => World' = Final'
  <1>1. Undone' = [s \in Installed |-> Undone'[s]] /\ Final' = [s \in Installed |-> Final'[s]]
    BY DEF Undone, Final
  <1> QED
    BY <1>1 DEF World

\* What a request will empty at its end does not change under way.
LEMMA EmptiedStays ==
    ASSUME plan' = plan, prior' = prior, weRender' = weRender
    PROVE  Emptied(plan)' = Emptied(plan)
  <1>1. Handoffs(plan)' = Handoffs(plan)
    BY DEF Handoffs, Still, Video, MultiVideo, Wanting, SharedStills, SharedVideo, Alike, Warm
  <1>2. Scenes(plan)' = Scenes(plan)
    BY DEF Scenes, SceneGroups, WeGroups, Alike, Wanting
  <1> QED
    BY <1>1, <1>2 DEF Emptied, Keeps, Managed, FadeGroups, Uniform, Alike

\* Nothing that the boundary shows changes, but for the renderers that exited.
LEMMA Unseen ==
    ASSUME slot' = slot, marks' = marks, assigned' = assigned, open' = open, plan' = plan,
           todo' = todo, prior' = prior, outcome' = outcome, weRender' = weRender
    PROVE  BoundaryStep
  <1>1. Emptied(plan)' = Emptied(plan)
    BY EmptiedStays
  <1>2. Committing' = Committing
    BY DEF Committing
  <1>3. Undone' = Undone /\ UndoneMarks' = UndoneMarks
    BY SameUndone, Worlds, SameUndoneMarks
  <1>4. Final' = Final
    BY <1>1 DEF Final
  <1>5. Settled' = Settled
    BY DEF Settled, HandedOver, AllAssigned
  <1>6. Idle' = Idle
    BY DEF Idle
  <1>7. World' = World /\ Scened' = Scened /\ Recorded' = Recorded /\ Told' = Told
    BY <1>1, <1>2, <1>3, <1>4, <1>5, <1>6 DEF World, Scened, Recorded, Told
  <1> QED
    BY <1>7, Stands

\* A step of a request that can still fail, as far as what it undoes to stays.
LEMMA Proceeds ==
    ASSUME IInv', ~Committing, outcome = "running", outcome' = outcome, prior' = prior,
           \A s \in Installed : Undone'[s] = Undone[s], UndoneMarks' = UndoneMarks,
           Committing' => Dead' = Dead
    PROVE  BoundaryStep
  <1>1. Told = "running" /\ World = Undone /\ Scened = UndoneMarks /\ Recorded = prior
    BY Worlds DEF Told, Scened, Recorded, Idle
  <1>2. CASE Committing'
    <2>1. Told' = "ok" /\ DOMAIN World' = DOMAIN World
      BY <1>2, Worlds, WorldsNext DEF Told
    <2>2. Scened' \subseteq DOMAIN World
      BY <1>2, Worlds, SlotKinds DEF Scened, IInv, TypeOK
    <2> QED
      BY <1>1, <1>2, <2>1, <2>2, Replaced
  <1>3. CASE ~Committing'
    <2>1. World' = World
      BY <1>1, <1>3, Worlds, WorldsNext
    <2>2. Told' = Told /\ Scened' = Scened /\ Recorded' = Recorded
      BY <1>1, <1>3 DEF Told, Scened, Recorded, Idle
    <2> QED
      BY <2>1, <2>2, Stands
  <1> QED
    BY <1>2, <1>3

\* The steps, one by one.
LEMMA StartSeen ==
    ASSUME IInv, IInv', Suited', NEW q \in Requests, Start(q)
    PROVE  BoundaryStep
  <1>1. /\ Idle /\ todo = {} /\ prior' = assigned /\ outcome' = "running"
        /\ slot' = slot /\ marks' = marks /\ phase' = phase /\ open' = open
    BY DEF Start
  <1>2. ~Committing /\ ~Committing'
    BY <1>1, StartsEarly DEF Committing
  <1>3. Undone' = Undone /\ UndoneMarks' = UndoneMarks
    BY <1>1, SameUndone, Worlds, SameUndoneMarks
  <1>4. World' = World
    BY <1>2, <1>3, Worlds, WorldsNext
  <1>5. Told # "running" /\ Told' = "running" /\ Scened' = Scened /\ Recorded' = Recorded /\ Dead' = Dead
    BY <1>1, <1>2, <1>3 DEF Told, Scened, Recorded, Dead, Idle
  <1> QED
    BY <1>4, <1>5, Begun

LEMMA SpawnSeen ==
    ASSUME IInv, IInv', Suited', Occupied, Spawn
    PROVE  BoundaryStep
  <1>1. prior' = prior /\ outcome' = outcome
    BY SpawnBegins
  <1>2. PICK i \in Reached("spawn") :
          \/ \E p \in Fresh : \E t, taken : Begins(i.launch, p, t, taken)
          \/ GiveUp(i.launch) /\ UNCHANGED <<slot, marks, open, phase, role>>
    BY SpawnBegins
  <1>3. ~Committing /\ outcome = "running" /\ ~Idle
    <2>1. i \in todo /\ i.do = "spawn" /\ ~Idle
      BY Takes
    <2> QED
      BY <2>1 DEF Committing, Idle
  <1>4. CASE \E p \in Fresh : \E t, taken : Begins(i.launch, p, t, taken)
    <2>1. PICK p \in Fresh : \E t, taken : Begins(i.launch, p, t, taken)
      BY <1>4
    <2>2. PICK t, taken : Begins(i.launch, p, t, taken)
      BY <2>1
    <2>3. \A s \in Installed : Undone'[s] = Undone[s]
      BY <2>2, BeginsUndone
    <2>4. UndoneMarks' = UndoneMarks
      BY <2>2, SpawnUndoneMarks
    <2>5. Dead' = Dead
      <3>1. phase \in [Pids -> Phases] /\ p \in Pids /\ phase[p] = "free"
        BY DEF Fresh, IInv, TypeOK
      <3>2. phase' = [phase EXCEPT ![p] = IF i.launch.hidden THEN "preloading" ELSE "loading"]
        BY <2>2 DEF Begins
      <3> QED
        BY <3>1, <3>2 DEF Dead
    <2> QED
      BY <1>1, <1>3, <2>3, <2>4, <2>5, Proceeds
  <1>5. CASE GiveUp(i.launch) /\ UNCHANGED <<slot, marks, open, phase, role>>
    <2>1. slot' = slot /\ marks' = marks /\ open' = open /\ phase' = phase
      BY <1>5
    <2> QED
      BY <1>1, <1>3, <2>1, SameUndone, SameUndoneMarks, Proceeds DEF Dead
  <1> QED
    BY <1>2, <1>4, <1>5

\* Reusing a renderer, revealing a candidate and preparing a commit.
LEMMA OthersSeen ==
    ASSUME IInv, IInv', Reuse \/ Reveal \/ Prepare
    PROVE  BoundaryStep
  <1>1. \E do \in {"spawn", "reveal", "prepare", "start"} : Reached(do) # {}
    BY Zenon DEF Reuse, Reveal, Prepare
  <1>2. ~Committing /\ outcome = "running"
    <2>1. PICK do \in {"spawn", "reveal", "prepare", "start"} : Reached(do) # {}
      BY <1>1
    <2>2. PICK i \in Reached(do) : TRUE
      BY <2>1
    <2>3. i \in todo /\ i.do = do /\ ~Idle
      BY Takes
    <2> QED
      BY <2>3 DEF Committing, Idle
  <1>3. slot' = slot /\ marks' = marks /\ open' = open /\ prior' = prior /\ outcome' = outcome
    BY Zenon DEF Reuse, Reveal, Prepare
  <1>4. Dead' = Dead
    <2>1. CASE phase' = phase
      BY <2>1 DEF Dead
    <2>2. CASE Reveal /\ phase' # phase
      <3>1. PICK i \in Reached("reveal") : \E t \in Of(i.launch) :
              phase' = [phase EXCEPT ![t.pid] = IF @ = "hidden" THEN "revealing" ELSE @]
        BY <2>2, Zenon DEF Reveal
      <3>2. PICK p : phase' = [phase EXCEPT ![p] = IF @ = "hidden" THEN "revealing" ELSE @]
        BY <3>1
      <3>3. \A q \in Pids : phase'[q] = IF q = p /\ phase[q] = "hidden" THEN "revealing" ELSE phase[q]
        BY <3>2 DEF IInv, TypeOK
      <3> QED
        BY <3>3 DEF Dead
    <2>3. Reuse \/ Prepare => phase' = phase
      BY Zenon DEF Reuse, Prepare
    <2> QED
      BY <2>1, <2>2, <2>3
  <1> QED
    BY <1>2, <1>3, <1>4, SameUndone, SameUndoneMarks, Proceeds

LEMMA WaitSeen ==
    ASSUME IInv, IInv', Suited', Wait
    PROVE  BoundaryStep
  <1>1. PICK i \in Reached("wait") \cup Reached("answer") : \E t \in Of(i.launch) :
          \/ GiveUp(t.launch) /\ Undo(t)
          \/ UNCHANGED <<slot, marks, phase, role, open>>
    BY Zenon DEF Wait
  <1>2. PICK t \in Of(i.launch) : \/ GiveUp(t.launch) /\ Undo(t)
                                  \/ UNCHANGED <<slot, marks, phase, role, open>>
    BY <1>1
  <1>3. prior' = prior /\ outcome' = outcome
    BY Zenon DEF Wait
  <1>4. ~Committing /\ outcome = "running" /\ ~Idle
    <2>1. i \in todo /\ i.do \in {"wait", "answer"} /\ ~Idle
      BY Takes
    <2> QED
      BY <2>1 DEF Committing, Idle
  <1>5. CASE GiveUp(t.launch) /\ Undo(t)
    <2>1. ~Committing' /\ t \in open
      BY <1>3, <1>4, <1>5, GivesUpEarly DEF Of
    <2> QED
      BY <1>3, <1>4, <1>5, <2>1, UndoUndone, UndoUndoneMarks, Proceeds
  <1>6. CASE UNCHANGED <<slot, marks, phase, role, open>>
    <2>1. slot' = slot /\ marks' = marks /\ open' = open /\ phase' = phase
      BY <1>6
    <2> QED
      BY <1>3, <1>4, <2>1, SameUndone, SameUndoneMarks, Proceeds DEF Dead
  <1> QED
    BY <1>2, <1>5, <1>6

LEMMA DropSeen ==
    ASSUME IInv, IInv', Drop
    PROVE  BoundaryStep
  <1>1. PICK t \in open : Undo(t)
    BY DEF Drop
  <1>2. /\ outcome = "running" /\ todo = {} /\ todo' = todo /\ prior' = prior /\ outcome' = outcome
    BY DEF Drop
  <1>3. ~Committing /\ ~Committing'
    BY <1>2 DEF Committing
  <1> QED
    BY <1>1, <1>2, <1>3, UndoUndone, UndoUndoneMarks, Proceeds

LEMMA FailSeen ==
    ASSUME IInv, IInv', Handed, Mapped, Fail
    PROVE  BoundaryStep
  <1>1. /\ outcome = "running" /\ todo = {} /\ todo' = {} /\ open' = open /\ slot' = slot /\ marks' = marks
        /\ phase' = phase /\ outcome' = "error"
        /\ assigned' = IF plan.op \in {"static", "video"} THEN prior ELSE assigned
    BY DEF Fail
  <1>2. ~Committing /\ ~Committing'
    BY <1>1 DEF Committing
  <1>3. assigned' = prior
    <2>1. CASE plan.op \in {"static", "video"}
      BY <1>1, <2>1
    <2>2. CASE plan.op \notin {"static", "video"}
      <3>1. \A k \in Outputs \cup {Multi} : assigned[k] = prior[k]
        BY <1>1, <1>2, <2>2 DEF Handed, Idle
      <3>2. DOMAIN assigned = Outputs \cup {Multi} /\ DOMAIN prior = Outputs \cup {Multi}
        BY DEF IInv, TypeOK
      <3>3. assigned = prior
        BY <3>1, <3>2 DEF Mapped
      <3> QED
        BY <1>1, <2>2, <3>3
    <2> QED
      BY <2>1, <2>2
  <1>4. Undone' = Undone /\ UndoneMarks' = UndoneMarks
    BY <1>1, SameUndone, Worlds, SameUndoneMarks
  <1>5. World' = World
    BY <1>2, <1>4, Worlds, WorldsNext
  <1>6. Told = "running" /\ Told' = "error" /\ Scened' = Scened /\ Recorded' = Recorded /\ Dead' = Dead
    BY <1>1, <1>2, <1>3, <1>4 DEF Told, Scened, Recorded, Dead, Idle
  <1> QED
    BY <1>5, <1>6, Refused

\* The assignments at the end of a reconciliation: those it was asked for, and
\* for the shared renderer what is handed over to it or was before.
Settling == ~Idle /\ plan.op = "reconcile" =>
    /\ Settled = [k \in Outputs \cup {Multi} |-> Settled[k]]
    /\ \A o \in Outputs : Settled[o] = IF o \in DOMAIN plan.want THEN plan.want[o] ELSE assigned[o]
    /\ (\A t \in open : t.launch.slot # Multi) => Settled[Multi] = assigned[Multi]
    /\ \A t \in open : t.launch.slot = Multi => Settled[Multi] = Group(plan.want, t.launch.serves)

LEMMA SettledIs == IInv => Settling
  <1> SUFFICES ASSUME IInv, ~Idle, plan.op = "reconcile"
               PROVE  /\ Settled = [k \in Outputs \cup {Multi} |-> Settled[k]]
                      /\ \A o \in Outputs : Settled[o] = IF o \in DOMAIN plan.want THEN plan.want[o] ELSE assigned[o]
                      /\ (\A t \in open : t.launch.slot # Multi) => Settled[Multi] = assigned[Multi]
                      /\ \A t \in open : t.launch.slot = Multi => Settled[Multi] = Group(plan.want, t.launch.serves)
    BY DEF Settling
  <1>1. DOMAIN assigned = Outputs \cup {Multi} /\ Multi \notin Outputs
    BY HandoffAssumption DEF IInv, TypeOK
  <1>2. plan \in Plans /\ DOMAIN plan.want \subseteq Outputs /\ \A t \in open : t.launch \in Launched(plan)
    BY PlanIs DEF IInv, Running, Groups
  <1> DEFINE multi == {t \in open : t.launch.slot = Multi}
             last == HandedOver(plan, (CHOOSE t \in multi : TRUE).launch)[Multi]
  <1>3. Settled = [k \in DOMAIN assigned |->
                     IF k = Multi /\ multi # {} THEN last
                     ELSE IF k \in DOMAIN plan.want THEN plan.want[k] ELSE assigned[k]]
    BY DEF Settled
  <1>4. ASSUME NEW t \in open, t.launch.slot = Multi PROVE last = Group(plan.want, t.launch.serves)
    <2>1. \A u \in multi : u = t
      <3>1. \A u \in multi : u.launch = t.launch
        BY <1>2, <1>4, ProgramIs
      <3> QED
        BY <1>4, <3>1 DEF IInv, Transactions
    <2>2. (CHOOSE u \in multi : TRUE) = t
      BY <1>4, <2>1
    <2>3. t.launch.serves \subseteq DOMAIN plan.want
      BY <1>2, Serves
    <2>4. Multi \in DOMAIN assigned /\ Multi \notin t.launch.serves
      BY <1>1, <1>2, <2>3
    <2>5. HandedOver(plan, t.launch)[Multi] = Group(plan.want, t.launch.serves)
      BY <1>4, <2>4, Zenon DEF HandedOver, Group
    <2> HIDE DEF multi
    <2> QED
      BY <2>2, <2>5
  <1>5. multi # {} => \E t \in open : t.launch.slot = Multi
    OBVIOUS
  <1>6. \A t \in open : t.launch.slot = Multi => multi # {}
    OBVIOUS
  <1> HIDE DEF multi, last
  <1>7. \A o \in Outputs : Settled[o] = IF o \in DOMAIN plan.want THEN plan.want[o] ELSE assigned[o]
    BY <1>1, <1>3
  <1>8. Settled[Multi] = IF multi # {} THEN last ELSE assigned[Multi]
    BY <1>1, <1>2, <1>3
  <1> QED
    BY <1>1, <1>3, <1>4, <1>5, <1>6, <1>7, <1>8

LEMMA SettledStaysSo == IInv' => Settling'
  BY SettledIs, PTL

\* A commit assigns what the whole program will have assigned at its end.
LEMMA CommitSettles ==
    ASSUME IInv, IInv', Commit
    PROVE  Settled' = Settled
  <1>1. PICK i \in Reached("commit") : \E t \in Of(i.launch) :
          /\ open' = open \ {t} /\ plan' = plan
          /\ assigned' = IF plan.op = "reconcile" THEN HandedOver(plan, t.launch) ELSE assigned
    BY Zenon DEF Commit, Step
  <1>2. PICK t \in Of(i.launch) :
          /\ open' = open \ {t} /\ plan' = plan
          /\ assigned' = IF plan.op = "reconcile" THEN HandedOver(plan, t.launch) ELSE assigned
    BY <1>1
  <1>3. ~Idle /\ plan \in Plans /\ t \in open /\ outcome' = outcome
    BY Takes, Zenon DEF Of, Commit
  <1>4. t.launch \in Launched(plan) /\ \A u \in open : u.launch \in Launched(plan)
    BY <1>3 DEF IInv, Running
  <1>5. DOMAIN assigned = Outputs \cup {Multi} /\ Multi \notin Outputs
    BY HandoffAssumption DEF IInv, TypeOK
  <1>6. CASE plan.op = "reconcile"
    <2>1. assigned' = HandedOver(plan, t.launch)
      BY <1>2, <1>6
    <2>2. t.launch.serves \subseteq DOMAIN plan.want /\ DOMAIN plan.want \subseteq Outputs
      BY <1>3, <1>4, <1>6, Serves, PlanIs DEF Groups
    <2>3. \A o \in Outputs : o \notin DOMAIN plan.want => assigned'[o] = assigned[o]
      BY <1>5, <2>1, <2>2 DEF HandedOver
    <2>4. assigned'[Multi] = IF t.launch.slot = Multi THEN Group(plan.want, t.launch.serves) ELSE assigned[Multi]
      BY <1>5, <2>1, <2>2, Zenon DEF HandedOver, Group
    <2>5. /\ Settled = [k \in Outputs \cup {Multi} |-> Settled[k]]
          /\ \A o \in Outputs : Settled[o] = IF o \in DOMAIN plan.want THEN plan.want[o] ELSE assigned[o]
          /\ (\A u \in open : u.launch.slot # Multi) => Settled[Multi] = assigned[Multi]
          /\ \A u \in open : u.launch.slot = Multi => Settled[Multi] = Group(plan.want, u.launch.serves)
      BY <1>3, <1>6, SettledIs DEF Settling
    <2>6. /\ Settled' = [k \in Outputs \cup {Multi} |-> Settled'[k]]
          /\ \A o \in Outputs : Settled'[o] = IF o \in DOMAIN plan.want THEN plan.want[o] ELSE assigned'[o]
          /\ (\A u \in open' : u.launch.slot # Multi) => Settled'[Multi] = assigned'[Multi]
          /\ \A u \in open' : u.launch.slot = Multi => Settled'[Multi] = Group(plan.want, u.launch.serves)
      BY <1>2, <1>3, <1>6, SettledStaysSo DEF Settling, Idle
    <2>7. \A o \in Outputs : Settled'[o] = Settled[o]
      BY <2>3, <2>5, <2>6
    <2>8. Settled'[Multi] = Settled[Multi]
      <3>1. CASE t.launch.slot = Multi
        <4>1. \A u \in open' : u.launch.slot # Multi
          <5>1. ASSUME NEW u \in open', u.launch.slot = Multi PROVE FALSE
            <6>1. u \in open /\ u # t /\ u.launch = t.launch
              BY <1>2, <1>3, <1>4, <3>1, <5>1, ProgramIs
            <6> QED
              BY <1>3, <6>1 DEF IInv, Transactions
          <5> QED
            BY <5>1
        <4> QED
          BY <1>3, <2>4, <2>5, <2>6, <3>1, <4>1
      <3>2. CASE t.launch.slot # Multi
        <4>1. CASE \E u \in open' : u.launch.slot = Multi
          BY <1>2, <2>5, <2>6, <4>1
        <4>2. CASE \A u \in open' : u.launch.slot # Multi
          <5>1. \A u \in open : u.launch.slot # Multi
            BY <1>2, <3>2, <4>2
          <5> QED
            BY <2>4, <2>5, <2>6, <3>2, <4>2, <5>1
        <4> QED
          BY <4>1, <4>2
      <3> QED
        BY <3>1, <3>2
    <2> QED
      BY <2>5, <2>6, <2>7, <2>8
  <1>7. CASE plan.op # "reconcile"
    <2>1. assigned' = assigned
      BY <1>2, <1>7
    <2> QED
      BY <1>2, <1>7, <2>1 DEF Settled, AllAssigned
  <1> QED
    BY <1>6, <1>7

LEMMA CommitSeen ==
    ASSUME IInv, IInv', Tailed, Commit
    PROVE  BoundaryStep
  <1>1. PICK i \in Reached("commit") : \E t \in Of(i.launch) :
          /\ IF t.launch.slot \in Installed THEN slot' = slot
             ELSE slot' = Without({t.launch.slot})
          /\ plan' = plan
    BY Zenon DEF Commit, Step
  <1>2. PICK t \in Of(i.launch) :
          /\ IF t.launch.slot \in Installed THEN slot' = slot
             ELSE slot' = Without({t.launch.slot})
          /\ plan' = plan
    BY <1>1
  <1>3. prior' = prior /\ weRender' = weRender /\ marks' = marks /\ outcome' = outcome
    BY Zenon DEF Commit
  <1>4. Committing
    BY CommitsLast
  <1>5. outcome = "running"
    BY <1>4 DEF Committing, IInv, Resting, Idle
  <1>6. Committing'
    <2>1. Commit => [Next]_vars
      BY Zenon DEF Next, Run
    <2>2. Tidy => outcome' = "ok"
      BY Zenon DEF Tidy
    <2> QED
      BY <1>3, <1>4, <1>5, <2>1, <2>2, ClosingStays
  <1>7. Emptied(plan)' = Emptied(plan)
    BY <1>2, <1>3, EmptiedStays
  <1>8. \A s \in Installed : slot'[s] = slot[s]
    BY <1>2, SlotKinds DEF Without
  <1>9. Final' = Final
    BY <1>7, <1>8 DEF Final
  <1>10. World' = World
    BY <1>4, <1>6, <1>9, Worlds, WorldsNext
  <1>11. Scened' = Scened /\ Recorded' = Recorded /\ Told' = Told
    BY <1>3, <1>4, <1>6, <1>7, CommitSettles DEF Scened, Recorded, Told
  <1> QED
    BY <1>10, <1>11, Stands

LEMMA TidySeen ==
    ASSUME IInv, IInv', Tidy
    PROVE  BoundaryStep
  <1>1. /\ Reached("tail") # {} /\ slot' = Without(Emptied(plan)) /\ open' = open
        /\ marks' = marks \ Emptied(plan) /\ todo' = {}
        /\ assigned' = Settled /\ outcome' = "ok"
    BY Zenon DEF Tidy
  <1>2. open = {} /\ Committing /\ ~Committing'
    BY <1>1, TailIsLast, CommitsLast DEF Committing
  <1>3. \A s \in Installed : Undone'[s] = slot'[s]
    BY <1>1, <1>2, UndoneParted DEF UndoneParts
  <1>4. \A s \in Installed : Final[s] = slot'[s]
    BY <1>1, SlotKinds DEF Final, Without
  <1>5. World' = World
    BY <1>2, <1>3, <1>4, Worlds, WorldsNext
  <1>6. UndoneMarks' = marks'
    BY <1>1, <1>2 DEF UndoneMarks
  <1>7. Scened' = Scened /\ Recorded' = Recorded /\ Told' = Told
    BY <1>1, <1>2, <1>6 DEF Scened, Recorded, Told, Idle
  <1> QED
    BY <1>5, <1>7, Stands

\* Renderers are taken out of their places, by nobody's request.
LEMMA Leaves ==
    ASSUME IInv, IInv', NEW S \in SUBSET Installed, \A s \in S : slot[s] # Nobody,
           slot' = Without(S), open' = open, plan' = plan, todo' = todo, prior' = prior,
           weRender' = weRender, outcome' = outcome, assigned' = assigned,
           NEW gone, gone = {s \in S : World[s] = slot[s]}
    PROVE  /\ World' = [s \in Installed |-> IF s \in gone THEN Nobody ELSE World[s]]
           /\ marks' = marks => Scened' = Scened
           /\ marks' = marks \ S => Scened' = Scened \ gone
           /\ Recorded' = Recorded /\ Told' = Told
  <1>1. Emptied(plan)' = Emptied(plan)
    BY EmptiedStays
  <1>2. Committing' = Committing
    BY DEF Committing
  <1>3. Settled' = Settled
    BY DEF Settled, HandedOver, AllAssigned
  <1>4. Recorded' = Recorded /\ Told' = Told
    BY <1>2, <1>3 DEF Recorded, Told, Idle
  <1>5. S \in SUBSET Slots
    BY SlotKinds
  <1>6. CASE Committing
    <2>1. gone = S \ Emptied(plan)
      <3>1. \A s \in S : Final[s] = IF s \in Emptied(plan) THEN Nobody ELSE slot[s]
        BY DEF Final
      <3> QED
        BY <1>6, <3>1, Worlds
    <2>2. \A s \in Installed : World'[s] = IF s \in gone THEN Nobody ELSE World[s]
      <3>1. \A s \in Installed : slot'[s] = IF s \in S THEN Nobody ELSE slot[s]
        BY SlotKinds DEF Without
      <3>2. \A s \in Installed : /\ Final[s] = IF s \in Emptied(plan) THEN Nobody ELSE slot[s]
                                 /\ Final'[s] = IF s \in Emptied(plan) THEN Nobody ELSE slot'[s]
        BY <1>1 DEF Final
      <3> QED
        BY <1>2, <1>6, <2>1, <3>1, <3>2, Worlds, WorldsNext
    <2>3. Scened = marks \ Emptied(plan) /\ Scened' = marks' \ Emptied(plan)
      BY <1>1, <1>2, <1>6 DEF Scened
    <2>4. World' = [s \in Installed |-> IF s \in gone THEN Nobody ELSE World[s]]
      BY <2>2, WorldsNext
    <2> QED
      BY <1>4, <2>1, <2>3, <2>4
  <1>7. CASE ~Committing
    <2>1. gone = {s \in S : Undone[s] = slot[s]}
      BY <1>7, Worlds
    <2>2. \A s \in Installed : Undone'[s] = IF s \in S /\ Undone[s] = slot[s] THEN Nobody ELSE Undone[s]
      BY <1>5, EmptyUndone
    <2>3. \A s \in Installed : World'[s] = IF s \in gone THEN Nobody ELSE World[s]
      BY <1>2, <1>7, <2>1, <2>2, Worlds, WorldsNext
    <2>4. World' = [s \in Installed |-> IF s \in gone THEN Nobody ELSE World[s]]
      BY <2>3, WorldsNext
    <2>5. Scened = UndoneMarks /\ Scened' = UndoneMarks'
      BY <1>2, <1>7 DEF Scened
    <2>6. marks' = marks => Scened' = Scened
      BY <2>5, SameUndoneMarks
    <2>7. marks' = marks \ S => Scened' = Scened \ gone
      BY <2>1, <2>5, EmptyUndoneMarks
    <2> QED
      BY <1>4, <2>4, <2>6, <2>7
  <1> QED
    BY <1>6, <1>7

\* If nobody shown is gone, nothing shown has changed.
LEMMA NoneGone ==
    ASSUME NEW gone, World' = [s \in Installed |-> IF s \in gone THEN Nobody ELSE World[s]], gone = {}
    PROVE  World' = World
  BY Worlds

LEMMA ReapSeen ==
    ASSUME IInv, IInv', Reap
    PROVE  BoundaryStep
  <1>1. PICK S \in {{Paper}, Installed} :
            LET exited == {s \in S : slot[s] # Nobody /\ ~Alive(s)} IN
            slot' = Without(exited) /\ marks' = marks \ exited /\ Kill(In(exited))
    BY Zenon DEF Reap
  <1>2. /\ open' = open /\ plan' = plan /\ todo' = todo /\ prior' = prior
        /\ weRender' = weRender /\ outcome' = outcome /\ assigned' = assigned
    BY Zenon DEF Reap, quiet
  <1> DEFINE exited == {s \in S : slot[s] # Nobody /\ ~Alive(s)}
             gone == {s \in exited : World[s] = slot[s]}
  <1>3. slot' = Without(exited) /\ marks' = marks \ exited /\ Kill(In(exited))
    BY <1>1
  <1>4. exited \in SUBSET Installed /\ \A s \in exited : slot[s] # Nobody /\ phase[slot[s]] = "dead"
    BY SlotKinds DEF Alive
  <1>5. gone \subseteq exited /\ \A s \in gone : World[s] = slot[s]
    OBVIOUS
  <1>6. gone = {s \in exited : World[s] = slot[s]}
    OBVIOUS
  <1> HIDE DEF exited, gone
  <1>7. /\ World' = [s \in Installed |-> IF s \in gone THEN Nobody ELSE World[s]]
        /\ Scened' = Scened \ gone /\ Recorded' = Recorded /\ Told' = Told
    BY <1>2, <1>3, <1>4, <1>6, Leaves
  <1>8. CASE gone = {}
    BY <1>7, <1>8, NoneGone, Stands
  <1>9. CASE gone # {}
    <2>1. \A s \in gone : s \in Installed /\ World[s] \in Dead
      <3>1. \A s \in gone : slot[s] \in Pids
        BY <1>4, <1>5, SlotKinds DEF IInv, TypeOK
      <3> QED
        BY <1>4, <1>5, <3>1 DEF Dead
    <2>2. Dead' \subseteq Dead
      BY <1>3 DEF Dead, Kill
    <2>3. DOMAIN World = Installed
      BY Worlds
    <2> QED
      BY <1>7, <1>9, <2>1, <2>2, <2>3, Gathered
  <1> QED
    BY <1>8, <1>9

LEMMA RetirePaperSeen ==
    ASSUME IInv, IInv', NEW p \in Pids, RetirePaper(p)
    PROVE  BoundaryStep
  <1>1. /\ open' = open /\ plan' = plan /\ todo' = todo /\ prior' = prior /\ marks' = marks
        /\ weRender' = weRender /\ outcome' = outcome /\ assigned' = assigned
    BY Zenon DEF RetirePaper
  <1>2. CASE slot[Paper] = p
    <2>1. slot' = Without({Paper}) /\ Kill({p})
      BY <1>2 DEF RetirePaper
    <2>2. slot[Paper] # Nobody /\ {Paper} \in SUBSET Installed
      BY <1>2, NobodyIs, SlotKinds
    <2> DEFINE gone == {s \in {Paper} : World[s] = slot[s]}
    <2>3. gone = {} \/ (gone = {Paper} /\ World[Paper] = p)
      <3>1. CASE World[Paper] = slot[Paper]
        <4>1. gone = {Paper}
          BY <3>1
        <4> QED
          BY <1>2, <3>1, <4>1
      <3>2. CASE World[Paper] # slot[Paper]
        <4>1. gone = {}
          BY <3>2
        <4> QED
          BY <4>1
      <3> QED
        BY <3>1, <3>2
    <2>4. gone = {s \in {Paper} : World[s] = slot[s]}
      OBVIOUS
    <2> HIDE DEF gone
    <2>5. /\ World' = [s \in Installed |-> IF s \in gone THEN Nobody ELSE World[s]]
          /\ Scened' = Scened /\ Recorded' = Recorded /\ Told' = Told
      BY <1>1, <2>1, <2>2, <2>4, Leaves
    <2>6. CASE gone = {}
      BY <2>5, <2>6, NoneGone, Stands
    <2>7. CASE gone = {Paper} /\ World[Paper] = p
      <3>1. World' = [World EXCEPT ![Paper] = Nobody]
        BY <2>5, <2>7, Worlds
      <3>2. Dead' = Dead \ {World[Paper]}
        BY <2>1, <2>7 DEF Dead, Kill
      <3>3. World[Paper] # Nobody
        BY <2>7, NobodyIs
      <3> QED
        BY <2>5, <3>1, <3>2, <3>3, Retired
    <2> QED
      BY <2>3, <2>6, <2>7
  <1>3. CASE slot[Paper] # p
    <2>1. slot' = slot
      BY <1>3 DEF RetirePaper
    <2> QED
      BY <1>1, <2>1, Unseen
  <1> QED
    BY <1>2, <1>3

LEMMA HotplugSeen ==
    ASSUME IInv, IInv', Hotplug
    PROVE  BoundaryStep
  <1>1. Idle /\ todo = {} /\ open = {}
    BY DEF Hotplug, IInv, Resting
  <1>2. /\ open' = open /\ todo' = todo /\ outcome' = outcome /\ DOMAIN assigned' = DOMAIN assigned
        /\ \E gone : slot' = Without(gone) /\ marks' = marks \ gone /\ Kill(In(gone))
    BY Zenon DEF Hotplug
  <1>3. PICK gone : slot' = Without(gone) /\ marks' = marks \ gone /\ Kill(In(gone))
    BY <1>2
  <1>4. ~Committing /\ ~Committing'
    BY <1>1, <1>2 DEF Committing
  <1>5. \A s \in Installed : World[s] = slot[s] /\ World'[s] = slot'[s]
    <2>1. \A s \in Installed : Undone[s] = slot[s] /\ Undone'[s] = slot'[s]
      BY <1>1, <1>2, UndoneIs, UndoneParted DEF UndoneParts
    <2> QED
      BY <1>4, <2>1, Worlds, WorldsNext
  <1>6. Scened = marks /\ Scened' = marks'
    BY <1>1, <1>2, <1>4 DEF Scened, UndoneMarks
  <1>7. Told # "running" /\ Told' = Told /\ DOMAIN Recorded' = DOMAIN Recorded
    BY <1>1, <1>2, <1>4 DEF Told, Recorded, Idle
  <1>8. \A s \in Installed : slot'[s] = IF s \in gone THEN Nobody ELSE slot[s]
    BY <1>3, SlotKinds DEF Without
  <1>9. Dead' \subseteq Dead
    BY <1>3 DEF Dead, Kill
  <1>10. DOMAIN World = Installed
    BY Worlds
  <1>11. \A s \in Installed : World'[s] \in {World[s], Nobody}
    BY <1>5, <1>8
  <1>12. \A s \in Installed : World'[s] = Nobody => s \notin Scened' \/ World[s] = Nobody
    BY <1>3, <1>5, <1>6, <1>8
  <1>13. Scened' \subseteq Scened
    BY <1>3, <1>6
  <1> QED
    BY <1>7, <1>9, <1>10, <1>11, <1>12, <1>13, Followed

LEMMA BoundaryInitially == Init => Boundary!Init
  <1> SUFFICES ASSUME Init PROVE Boundary!Init
    OBVIOUS
  <1>1. /\ slot = [s \in Slots |-> Nobody] /\ marks = {} /\ open = {} /\ todo = {} /\ outcome = "none"
        /\ phase = [p \in Pids |-> "free"]
    BY DEF Init
  <1>2. ~Committing
    BY <1>1 DEF Committing
  <1>3. \A s \in Installed : Undone[s] = Nobody
    <2>1. IInv
      BY Initially
    <2> QED
      BY <1>1, <2>1, UndoneIs, SlotKinds DEF UndoneParts
  <1>4. World = [s \in Installed |-> Nobody]
    BY <1>2, <1>3, Worlds
  <1>5. Scened = {} /\ Dead = {} /\ Told = "none"
    BY <1>1, <1>2 DEF Scened, UndoneMarks, Dead, Told
  <1> QED
    BY <1>4, <1>5 DEF Boundary!Init, World, Scened, Dead, Told

LEMMA BoundaryKept ==
    ASSUME IInv, IInv', Suited', Tailed, Handed, Mapped, Occupied, [Next]_vars
    PROVE  BoundaryStep
  <1>1. CASE \E q \in Requests : Start(q)
    BY <1>1, StartSeen
  <1>2. CASE \E p \in Pids : \/ \E result \in {"ok", "err"} : Signal(p, result)
                             \/ Exit(p) \/ ReleaseDeferred(p)
    <2>1. /\ slot' = slot /\ marks' = marks /\ assigned' = assigned /\ open' = open /\ plan' = plan
          /\ todo' = todo /\ prior' = prior /\ outcome' = outcome /\ weRender' = weRender
      BY <1>2, Zenon DEF Signal, Exit, ReleaseDeferred, program, quiet
    <2> QED
      BY <2>1, Unseen
  <1>3. CASE \E p \in Pids : RetirePaper(p)
    BY <1>3, RetirePaperSeen
  <1>4. CASE UNCHANGED vars
    <2>1. /\ slot' = slot /\ marks' = marks /\ assigned' = assigned /\ open' = open /\ plan' = plan
          /\ todo' = todo /\ prior' = prior /\ outcome' = outcome /\ weRender' = weRender
      BY <1>4, Zenon DEF vars
    <2> QED
      BY <2>1, Unseen
  <1> QED
    BY <1>1, <1>2, <1>3, <1>4, SpawnSeen, OthersSeen, WaitSeen, CommitSeen, TidySeen, DropSeen, FailSeen,
       ReapSeen, HotplugSeen DEF Next, Run

\* Seen through its open transactions, a request replaces the renderers, the
\* scene marks and the assignments in one step or leaves them all as they were,
\* whatever fails, exits or is collected on the way.
THEOREM ImplementsBoundary == Spec => AllOrNothing
  <1>1. Init => Mapped /\ Occupied
    BY DEF Init, Mapped, Occupied
  <1>2. IInv /\ CInv /\ Covered /\ Suited /\ DInv /\ Mapped /\ Occupied /\ [Next]_vars =>
          /\ IInv' /\ CInv' /\ Covered' /\ Suited' /\ DInv' /\ Mapped' /\ Occupied'
          /\ [Boundary!Next]_(Boundary!vars)
    BY Preserved, CandidatesPreserved, CoveredStays, DrawnPreserved, MappedStays, OccupiedStays, BoundaryKept
       DEF DInv, BoundaryStep
  <1> QED
    BY <1>1, <1>2, Initially, CandidatesInitially, SuitedInitially, DrawnInitially, BoundaryInitially, PTL
       DEF Spec, AllOrNothing, Boundary!Spec
================================================================================
