---------------------------- MODULE WindowProofs ----------------------------
(***************************************************************************)
(* Proofs about the screens of the window, for any clusters, namespaces,   *)
(* keys, rows and changes and any number of requests in flight:            *)
(* ObjectDrawer, ScopedScreens, WindowNav, ChangeReview and                *)
(* OverviewClaims, which share no state; and about the demo that runs them *)
(* over a recording, DemoRecording and DemoEngine.                         *)
(***************************************************************************)
EXTENDS ObjectDrawer, ScopedScreens, WindowNav, ChangeReview, OverviewClaims, DemoEngine,
        SequenceTheorems, FiniteSetTheorems, WellFoundedInduction, TLAPS

-----------------------------------------------------------------------------
(***************************************************************************)
(* Proofs about ObjectDrawer, for any clusters and keys and any number of  *)
(* requests in flight.                                                     *)
(*                                                                         *)
(* The argument for the containers: what the pane watches tells the        *)
(* cluster, the key and whether there are containers, so a selection that  *)
(* wakes no watcher is of the same name, and with a value revealed it is   *)
(* the same object (BoxInv).                                               *)
(***************************************************************************)

HereInv == sel # NoObject => sel.cluster = cluster

BoxInv ==
    pane = "object" =>
        /\ shown # {} => Boxed(sel)
        /\ \A o \in shown : SameName(o, sel)
        /\ \A v \in revealed : v.at = sel /\ SameName(v.by, sel)
        /\ \A a \in asks : Reveals(a) => a.of = sel /\ Boxed(sel) /\ SameName(a.by, sel)

\* An edit is begun in the editor, and only there.
EditorInv == dirty => sel # NoObject

DrawerInv == DrawerTypeOK /\ HereInv /\ BoxInv /\ EditorInv

-----------------------------------------------------------------------------

LEMMA ObjectFacts ==
    /\ NoObject \notin Objects
    /\ \A s, o \in Objects : s.cluster = o.cluster /\ s.kind = o.kind /\ s.key = o.key => s = o
    /\ \A s \in Objects : s.key # "" /\ s.kind \in Kinds /\ s.cluster \in Clusters
<1>1. NoObject \notin Objects
  BY DrawerAssumption DEF Objects, Kinds
<1>2. \A s, o \in Objects : s.cluster = o.cluster /\ s.kind = o.kind /\ s.key = o.key => s = o
  BY DEF Objects
<1>3. \A s \in Objects : s.key # "" /\ s.kind \in Kinds /\ s.cluster \in Clusters
  BY DrawerAssumption DEF Objects
<1> QED
  BY <1>1, <1>2, <1>3

LEMMA TicketFacts == 0 \in 0 .. MaxAsks /\ \A n \in 1 .. MaxAsks : n \in 0 .. MaxAsks
<1>1. MaxAsks \in Nat \ {0}
  BY DrawerAssumption
<1> QED
  BY <1>1

\* What is asked with no value to reveal reveals none.
LEMMA PaneAskFacts ==
    /\ \A o \in Objects, n \in 1 .. MaxAsks, b \in Objects \cup {NoObject} :
          /\ AskFor(o, n, b) \in Ask /\ AskFor(o, n, b).of = o /\ AskFor(o, n, b).n = n /\ AskFor(o, n, b).by = b
          /\ Reveals(AskFor(o, n, b)) <=> b # NoObject
    /\ \A o, n : ~ Reveals(AskFor(o, n, NoObject)) /\ AskFor(o, n, NoObject).of = o /\ AskFor(o, n, NoObject).n = n
    /\ \A a \in Ask : a.of \in Objects /\ a.n \in 1 .. MaxAsks /\ a.by \in Objects \cup {NoObject}
  BY DEF AskFor, Ask, Reveals

\* What the containers' pane watches.
LEMMA WatchedObject ==
    ASSUME pane = "object", NEW c, NEW s, NEW t, Watched(c, s, t) = Watched(cluster, sel, tab)
    PROVE  c = cluster /\ KeyOf(s) = KeyOf(sel) /\ (Boxed(s) <=> Boxed(sel))
  BY DEF Watched

\* What a move of the selection does.
LEMMA MoveFacts ==
    ASSUME DrawerInv, NEW c \in Clusters, NEW s \in Objects \cup {NoObject}, NEW t \in PaneTabs, Move(c, s, t)
    PROVE  /\ cluster' = c /\ sel' = s /\ tab' = t /\ edit' = NoObject /\ pane' = pane /\ outdated' = outdated
           /\ strayed' \in BOOLEAN /\ revealed' \in {revealed, {}}
           /\ dirty' = (dirty /\ s # NoObject /\ t = "yaml")
           /\ \E left \in SUBSET asks :
                 \/ /\ Watched(c, s, t) = Watched(cluster, sel, tab)
                    /\ asks' = left /\ UNCHANGED <<shown, bare, loading, newest, late>>
                 \/ Watched(c, s, t) # Watched(cluster, sel, tab) /\ Load(s, t, left)
           /\ (revealed' # {} \/ \E a \in asks' : Reveals(a)) =>
                 shown # {} /\ Watched(c, s, t) = Watched(cluster, sel, tab)
<1> DEFINE same == Watched(c, s, t) = Watched(cluster, sel, tab)
           open == shown # {} /\ tab = "overview" /\ t = "overview" /\ same
           left == {a \in asks : (Reveals(a) => open) /\ (pane = "events" => Mounted(s, t))}
<1>1. /\ cluster' = c /\ sel' = s /\ tab' = t /\ edit' = NoObject /\ pane' = pane /\ outdated' = outdated
      /\ revealed' = IF open THEN revealed ELSE {}
      /\ IF same THEN asks' = left /\ UNCHANGED <<shown, bare, loading, newest, late>>
                 ELSE Load(s, t, left)
  BY DEF Move
<1>2. strayed' = (s # NoObject /\ KeyOf(s) = KeyOf(sel) /\ (s # sel \/ strayed))
  BY DEF Move
<1>3. dirty' = (dirty /\ s # NoObject /\ t = "yaml")
  BY DEF Move
<1>4. left \in SUBSET asks /\ \A a \in left : Reveals(a) => open
  OBVIOUS
<1>5. \A a \in asks' : a \in left \/ ~ Reveals(a)
  BY <1>1, PaneAskFacts DEF Load
<1> HIDE DEF left
<1> QED
  BY <1>1, <1>2, <1>3, <1>4, <1>5

-----------------------------------------------------------------------------

LEMMA DrawerStart == DrawerInit => DrawerInv
<1> SUFFICES ASSUME DrawerInit PROVE DrawerInv
  OBVIOUS
<1> USE DEF DrawerInit
<1>1. DrawerTypeOK
  <2>1. pane \in Panes /\ cluster \in Clusters /\ sel \in Objects \cup {NoObject} /\ tab \in PaneTabs
    BY DrawerAssumption DEF PaneTabs
  <2>2. asks \subseteq Ask /\ newest \in 0 .. MaxAsks /\ shown \subseteq Objects
          /\ revealed \subseteq [at : Objects, by : Objects] /\ edit \in Edit \cup {NoObject}
    BY TicketFacts
  <2>3. {bare, loading, dirty, outdated, strayed, late} \subseteq BOOLEAN
    OBVIOUS
  <2> QED
    BY <2>1, <2>2, <2>3 DEF DrawerTypeOK
<1>2. HereInv /\ BoxInv /\ EditorInv
  BY DEF HereInv, BoxInv, EditorInv
<1> QED
  BY <1>1, <1>2 DEF DrawerInv

\* What Load does, with its ticket.
LEMMA LoadFacts ==
    ASSUME DrawerTypeOK, NEW s \in Objects \cup {NoObject}, NEW t, NEW left \in SUBSET asks, Load(s, t, left)
    PROVE  /\ shown' = IF pane = "yaml" THEN shown ELSE {}
           /\ bare' \in BOOLEAN /\ loading' \in BOOLEAN /\ late' \in BOOLEAN
           /\ late' => late /\ pane = "yaml"
           /\ pane = "yaml" /\ late => late'
           /\ pane = "yaml" /\ Wants(s, t) => loading'
           /\ \/ ~ Wants(s, t) /\ asks' = left /\ newest' = 0
              \/ /\ Wants(s, t)
                 /\ \E n \in Free : asks' = left \cup {AskFor(s, n, NoObject)} /\ newest' = n
<1>1. /\ shown' = IF pane = "yaml" THEN shown ELSE {}
      /\ bare' = FALSE
      /\ \/ ~ Wants(s, t) /\ asks' = left /\ newest' = 0
         \/ /\ Wants(s, t)
            /\ \E n \in Free : asks' = left \cup {AskFor(s, n, NoObject)} /\ newest' = n
  BY DEF Load
<1>2. late' = (late /\ pane = "yaml") /\ late \in BOOLEAN
  BY DEF Load, DrawerTypeOK
<1>3. loading' = (loading \/ (pane = "yaml" /\ Wants(s, t)))
  BY DEF Load
<1>4. late' \in BOOLEAN /\ (late' <=> late /\ pane = "yaml")
  BY <1>2, Zenon
<1>5. loading' \in BOOLEAN /\ (pane = "yaml" /\ Wants(s, t) => loading')
  BY <1>3, Zenon
<1> QED
  BY <1>1, <1>4, <1>5

LEMMA WantsObject == \A s \in Objects \cup {NoObject} : \A t : Wants(s, t) /\ pane \in Panes => s \in Objects
  BY DEF Wants, Boxed, Mounted, Keyed, Panes

LEMMA MoveTypes ==
    ASSUME DrawerInv, NEW c \in Clusters, NEW s \in Objects \cup {NoObject}, NEW t \in PaneTabs, Move(c, s, t)
    PROVE  DrawerTypeOK'
<1> USE DEF DrawerInv, DrawerTypeOK
<1>1. /\ cluster' = c /\ sel' = s /\ tab' = t /\ edit' = NoObject /\ pane' = pane
      /\ strayed' \in BOOLEAN /\ revealed' \subseteq [at : Objects, by : Objects] /\ outdated' = outdated
  BY MoveFacts
<1>2. dirty' \in BOOLEAN
  BY MoveFacts, Zenon
<1>3. PICK left \in SUBSET asks :
          \/ /\ Watched(c, s, t) = Watched(cluster, sel, tab)
             /\ asks' = left /\ UNCHANGED <<shown, bare, loading, newest, late>>
          \/ Watched(c, s, t) # Watched(cluster, sel, tab) /\ Load(s, t, left)
  BY MoveFacts
<1>4. CASE asks' = left /\ UNCHANGED <<shown, bare, loading, newest, late>>
  BY <1>1, <1>2, <1>4
<1>5. CASE Load(s, t, left)
  <2>1. shown' \subseteq Objects /\ {bare', loading', late'} \subseteq BOOLEAN
    BY <1>5, LoadFacts
  <2>2. asks' \subseteq Ask /\ newest' \in 0 .. MaxAsks
    <3>1. CASE asks' = left /\ newest' = 0
      BY <3>1, TicketFacts
    <3>2. ASSUME NEW n \in Free, Wants(s, t),
                 asks' = left \cup {AskFor(s, n, NoObject)}, newest' = n
          PROVE  asks' \subseteq Ask /\ newest' \in 0 .. MaxAsks
      <4>1. s \in Objects /\ n \in 1 .. MaxAsks
        BY <3>2, WantsObject DEF Free
      <4>2. AskFor(s, n, NoObject) \in Ask
        BY <4>1, PaneAskFacts
      <4> QED
        BY <3>2, <4>1, <4>2, TicketFacts
    <3> QED
      BY <1>5, <3>1, <3>2, LoadFacts
  <2> QED
    BY <1>1, <1>2, <2>1, <2>2
<1> QED
  BY <1>3, <1>4, <1>5

LEMMA MoveBoxes ==
    ASSUME DrawerInv, NEW c \in Clusters, NEW s \in Objects \cup {NoObject}, NEW t \in PaneTabs, Move(c, s, t),
           s # NoObject => s.cluster = c, pane = "object"
    PROVE  BoxInv'
<1>1. sel' = s /\ revealed' \in {revealed, {}}
  BY MoveFacts
<1>2. (revealed' # {} \/ \E a \in asks' : Reveals(a)) =>
          shown # {} /\ Watched(c, s, t) = Watched(cluster, sel, tab)
  BY MoveFacts
<1>3. PICK left \in SUBSET asks :
          \/ /\ Watched(c, s, t) = Watched(cluster, sel, tab)
             /\ asks' = left /\ UNCHANGED <<shown, bare, loading, newest, late>>
          \/ Watched(c, s, t) # Watched(cluster, sel, tab) /\ Load(s, t, left)
  BY MoveFacts
<1>4. CASE shown = {} \/ Watched(c, s, t) # Watched(cluster, sel, tab)
  <2>1. shown' = {}
    BY <1>3, <1>4, LoadFacts DEF DrawerInv
  <2> QED
    BY <1>2, <1>4, <2>1 DEF BoxInv
<1>5. CASE shown # {} /\ Watched(c, s, t) = Watched(cluster, sel, tab)
  <2>1. c = cluster /\ KeyOf(s) = KeyOf(sel) /\ Boxed(s) /\ Boxed(sel)
    BY <1>5, WatchedObject DEF DrawerInv, BoxInv
  <2>2. s \in Objects /\ sel \in Objects /\ s.kind = "pods" /\ sel.kind = "pods" /\ s.key = sel.key
    BY <2>1, ObjectFacts DEF DrawerInv, DrawerTypeOK, Boxed, KeyOf
  <2>3. s = sel
    BY <2>1, <2>2, ObjectFacts DEF DrawerInv, HereInv
  <2> QED
    BY <1>1, <1>3, <1>5, <2>3 DEF DrawerInv, BoxInv
<1> QED
  BY <1>4, <1>5

\* A move of the selection keeps every part of the invariant.
LEMMA MoveKeeps ==
    ASSUME DrawerInv, NEW c \in Clusters, NEW s \in Objects \cup {NoObject}, NEW t \in PaneTabs, Move(c, s, t),
           s # NoObject => s.cluster = c /\ c = cluster
    PROVE  DrawerInv'
<1>1. HereInv'
  BY MoveFacts DEF HereInv
<1>2. pane' = pane /\ sel' = s
  BY MoveFacts
<1>3. dirty' => s # NoObject
  BY MoveFacts, Zenon
<1> QED
  BY <1>1, <1>2, <1>3, MoveTypes, MoveBoxes DEF DrawerInv, BoxInv, EditorInv

-----------------------------------------------------------------------------

\* Again asks for the object selected, with a ticket nobody has.
LEMMA AgainKeeps ==
    ASSUME DrawerInv, Again
    PROVE  DrawerInv'
<1>1. /\ UNCHANGED <<pane, cluster, sel, tab, shown, bare, dirty, outdated, edit, revealed, strayed, late>>
      /\ pane \in {"history", "yaml"} /\ Wants(sel, tab) /\ pane # "object"
  BY DEF Again
<1>2. PICK n \in Free : asks' = asks \cup {AskFor(sel, n, NoObject)} /\ newest' = n
  BY DEF Again
<1>3. loading' = (pane = "yaml")
  BY DEF Again
<1>4. loading' \in BOOLEAN /\ (pane = "yaml" => loading')
  BY <1>3, Zenon
<1>5. sel \in Objects /\ n \in 1 .. MaxAsks
  BY <1>1, WantsObject DEF DrawerInv, DrawerTypeOK, Free
<1>6. AskFor(sel, n, NoObject) \in Ask
  BY <1>5, PaneAskFacts
<1>7. DrawerTypeOK'
  BY <1>1, <1>2, <1>4, <1>5, <1>6, TicketFacts DEF DrawerInv, DrawerTypeOK
<1>8. HereInv' /\ BoxInv' /\ EditorInv'
  BY <1>1 DEF DrawerInv, HereInv, BoxInv, EditorInv
<1> QED
  BY <1>7, <1>8 DEF DrawerInv

LEMMA AnswerKeeps ==
    ASSUME DrawerInv, NEW a \in asks, Answer(a)
    PROVE  DrawerInv'
<1>1. /\ ~ Reveals(a) /\ asks' = asks \ {a} /\ loading' = FALSE
      /\ shown' = IF ~ Taken(a) \/ (pane = "data" /\ sel = NoObject) THEN shown
                  ELSE IF pane = "data" THEN shown \cup {a.of} ELSE {a.of}
      /\ UNCHANGED <<pane, cluster, sel, tab, newest, edit, revealed, strayed>>
  BY DEF Answer
<1>2. bare' = (bare \/ (pane = "data" /\ sel # NoObject /\ ~ Keyed(sel)))
  BY DEF Answer
<1>3. late' = IF ~ Taken(a) THEN late ELSE a.n # newest \/ (late /\ pane = "data")
  BY DEF Answer
<1>4. (dirty' = dirty \/ dirty' = FALSE) /\ outdated' = (pane = "yaml" /\ a.old)
  BY DEF Answer
<1>5. bare' \in BOOLEAN /\ late' \in BOOLEAN /\ dirty' \in BOOLEAN /\ outdated' \in BOOLEAN
  <2>1. bare' \in BOOLEAN
    BY <1>2, Zenon
  <2>2. late \in BOOLEAN /\ dirty \in BOOLEAN
    BY DEF DrawerInv, DrawerTypeOK
  <2>3. late' \in BOOLEAN
    BY <1>3, <2>2, Zenon
  <2>4. outdated' \in BOOLEAN
    BY <1>4, Zenon
  <2> QED
    BY <1>4, <2>1, <2>2, <2>3, <2>4
<1>6. a \in Ask /\ a.of \in Objects
  BY DEF DrawerInv, DrawerTypeOK, Ask
<1>7. DrawerTypeOK'
  BY <1>1, <1>5, <1>6 DEF DrawerInv, DrawerTypeOK
<1>8. BoxInv'
  BY <1>1, <1>6 DEF DrawerInv, BoxInv, Taken
<1>9. dirty' => dirty
  BY <1>4
<1> QED
  BY <1>1, <1>7, <1>8, <1>9 DEF DrawerInv, HereInv, EditorInv

LEMMA FailKeeps ==
    ASSUME DrawerInv, NEW a \in asks, Fail(a)
    PROVE  DrawerInv'
<1>1. /\ asks' = asks \ {a} /\ loading' = FALSE
      /\ shown' = IF pane = "consumers" THEN {} ELSE shown
      /\ UNCHANGED <<pane, cluster, sel, tab, newest, bare, dirty, outdated, edit, revealed, strayed>>
  BY DEF Fail
<1>2. late' = (late \/ a.n = newest \/ pane = "consumers")
  BY DEF Fail
<1>3. late' \in BOOLEAN
  BY <1>2, Zenon
<1>4. DrawerTypeOK'
  BY <1>1, <1>3 DEF DrawerInv, DrawerTypeOK
<1> QED
  BY <1>1, <1>4 DEF DrawerInv, HereInv, BoxInv, EditorInv

\* Somebody else's change moves nothing in the window but what its text is worth.
LEMMA OthersKeep ==
    ASSUME DrawerInv, OtherWrites
    PROVE  DrawerInv'
<1>1. /\ pane = "yaml" /\ outdated' = TRUE
      /\ UNCHANGED <<pane, cluster, sel, tab, newest, shown, bare, loading, dirty, revealed, strayed, late>>
  BY DEF OtherWrites
<1>2. edit' \in {edit, NoObject}
  BY DEF OtherWrites
<1>3. PICK read \in SUBSET asks : asks' = (asks \ read) \cup {[a EXCEPT !.old = TRUE] : a \in read}
  BY DEF OtherWrites
<1>4. \A a \in Ask : [a EXCEPT !.old = TRUE] \in Ask
  BY DEF Ask
<1>5. asks' \subseteq Ask
  BY <1>3, <1>4 DEF DrawerInv, DrawerTypeOK
<1>6. DrawerTypeOK'
  BY <1>1, <1>2, <1>5 DEF DrawerInv, DrawerTypeOK
<1> QED
  BY <1>1, <1>6 DEF DrawerInv, HereInv, BoxInv, EditorInv

\* What the person does in the editor.
LEMMA EditorKeeps ==
    ASSUME DrawerInv, Type \/ Revert \/ Save \/ Approve
    PROVE  DrawerInv'
<1>1. UNCHANGED <<pane, cluster, sel, tab, asks, newest, shown, bare, loading, outdated, revealed, strayed, late>>
  BY DEF Type, Revert, Save, Approve
<1>2. dirty' \in BOOLEAN /\ (dirty' => dirty \/ sel # NoObject)
  <2>1. CASE Type
    BY <2>1 DEF Type
  <2>2. CASE Revert
    BY <2>2 DEF Revert
  <2>3. CASE Save \/ Approve
    BY <2>3 DEF Save, Approve, DrawerInv, DrawerTypeOK
  <2> QED
    BY <2>1, <2>2, <2>3
<1>3. edit' \in Edit \cup {NoObject}
  <2>1. CASE Type \/ Revert
    BY <2>1 DEF Type, Revert, DrawerInv, DrawerTypeOK
  <2>2. CASE Save
    <3>1. dirty /\ edit' = [target |-> sel, outdated |-> outdated, written |-> FALSE]
      BY <2>2 DEF Save
    <3>2. sel \in Objects /\ outdated \in BOOLEAN
      BY <3>1 DEF DrawerInv, EditorInv, DrawerTypeOK
    <3> QED
      BY <3>1, <3>2 DEF Edit
  <2>3. CASE Approve
    <3>1. edit \in Edit /\ edit' = [edit EXCEPT !.written = TRUE]
      BY <2>3 DEF Approve, DrawerInv, DrawerTypeOK
    <3> QED
      BY <3>1 DEF Edit
  <2> QED
    BY <2>1, <2>2, <2>3
<1>4. DrawerTypeOK'
  BY <1>1, <1>2, <1>3 DEF DrawerInv, DrawerTypeOK
<1> QED
  BY <1>1, <1>2, <1>4 DEF DrawerInv, HereInv, BoxInv, EditorInv

\* The values behind the references of a container.
LEMMA RevealKeeps ==
    ASSUME DrawerInv, Reveal \/ Hide \/ \E a \in asks : Revealed(a)
    PROVE  DrawerInv'
<1>1. UNCHANGED <<pane, cluster, sel, tab, newest, shown, bare, loading, dirty, outdated, edit, strayed, late>>
  BY DEF Reveal, Hide, Revealed
<1>2. CASE Reveal
  <2>1. pane = "object" /\ revealed' = revealed
    BY <1>2 DEF Reveal
  <2>2. PICK n \in Free, o \in shown : asks' = asks \cup {AskFor(sel, n, o)}
    BY <1>2 DEF Reveal
  <2>3. Boxed(sel) /\ SameName(o, sel) /\ sel \in Objects /\ o \in Objects /\ n \in 1 .. MaxAsks
    BY <2>1, ObjectFacts DEF DrawerInv, BoxInv, Boxed, DrawerTypeOK, Free
  <2>4. AskFor(sel, n, o) \in Ask /\ AskFor(sel, n, o).of = sel /\ AskFor(sel, n, o).by = o
    BY <2>3, PaneAskFacts
  <2>5. DrawerTypeOK'
    BY <1>1, <2>1, <2>2, <2>4 DEF DrawerInv, DrawerTypeOK
  <2>6. BoxInv'
    BY <1>1, <2>1, <2>2, <2>3, <2>4 DEF DrawerInv, BoxInv
  <2> QED
    BY <1>1, <2>5, <2>6 DEF DrawerInv, HereInv, EditorInv
<1>3. CASE Hide \/ \E a \in asks : Revealed(a)
  <2>1. asks' \subseteq asks
    BY <1>3 DEF Hide, Revealed
  <2>2. \A v \in revealed' : v \in revealed \/ \E a \in asks : Reveals(a) /\ v = [at |-> a.of, by |-> a.by]
    BY <1>3 DEF Hide, Revealed
  <2>3. \A a \in asks : Reveals(a) => a.of \in Objects /\ a.by \in Objects
    BY DEF DrawerInv, DrawerTypeOK, Ask, Reveals
  <2>4. DrawerTypeOK'
    BY <1>1, <2>1, <2>2, <2>3 DEF DrawerInv, DrawerTypeOK
  <2>5. BoxInv'
    BY <1>1, <2>1, <2>2 DEF DrawerInv, BoxInv
  <2> QED
    BY <1>1, <2>4, <2>5 DEF DrawerInv, HereInv, EditorInv
<1> QED
  BY <1>2, <1>3

LEMMA DrawerStep == DrawerInv /\ [DrawerNext]_drawer => DrawerInv'
<1> SUFFICES ASSUME DrawerInv, [DrawerNext]_drawer PROVE DrawerInv'
  OBVIOUS
<1>0. /\ cluster \in Clusters /\ sel \in Objects \cup {NoObject} /\ tab \in PaneTabs
      /\ sel # NoObject => sel.cluster = cluster
  BY DEF DrawerInv, DrawerTypeOK, HereInv
<1>1. ASSUME NEW o \in Objects, NEW t \in {tab, "overview", "events"}, Select(o, t) PROVE DrawerInv'
  BY <1>0, <1>1, MoveKeeps DEF Select, PaneTabs
<1>2. CASE CloseDrawer
  BY <1>0, <1>2, MoveKeeps DEF CloseDrawer
<1>3. ASSUME NEW t \in PaneTabs, SetTab(t) PROVE DrawerInv'
  BY <1>0, <1>3, MoveKeeps DEF SetTab
<1>4. ASSUME NEW c \in Clusters, SwitchCluster(c) PROVE DrawerInv'
  BY <1>0, <1>4, MoveKeeps DEF SwitchCluster
<1>5. CASE UNCHANGED drawer
  BY <1>5 DEF drawer, DrawerInv, DrawerTypeOK, HereInv, BoxInv, EditorInv
<1> QED
  BY <1>1, <1>2, <1>3, <1>4, <1>5, AgainKeeps, AnswerKeeps, FailKeeps, OthersKeep, EditorKeeps, RevealKeeps
     DEF DrawerNext

(***************************************************************************)
(* The drawer's state has its type, whatever is selected and answered.     *)
(***************************************************************************)
THEOREM DrawerTyping == DrawerSpec => []DrawerTypeOK
<1>1. DrawerInv => DrawerTypeOK
  BY DEF DrawerInv
<1> QED
  BY <1>1, DrawerStart, DrawerStep, PTL DEF DrawerSpec

(***************************************************************************)
(* Every container shown is of the kind and name selected, and every value *)
(* revealed was read where the object selected is, from a Secret that an   *)
(* object of that name refers to, in whatever order answers land.          *)
(***************************************************************************)
THEOREM BoxesCorrect == DrawerSpec => []BoxesAreSelected
<1>1. DrawerInv => BoxesAreSelected
  BY DEF DrawerInv, BoxInv, BoxesAreSelected
<1> QED
  BY <1>1, DrawerStart, DrawerStep, PTL DEF DrawerSpec

(***************************************************************************)
(* What a settled pane shows.  Three panes watch all that tells the object *)
(* they ask for (Exact); the others watch its key, and are only sure of    *)
(* the object while the selection has not strayed to another of that key.  *)
(* Of a pane that is sure: the newest request, in flight, is for the       *)
(* selection; while nothing older landed last the selection is shown or on *)
(* its way, and nothing else is shown but the text the editor keeps until  *)
(* the next comes.                                                         *)
(***************************************************************************)
Exact == pane \in {"object", "history", "events"}
Sure  == Exact \/ ~ strayed
IsNewest(a) == ~ Reveals(a) /\ a.n = newest

NewestInv == Sure => \A a \in asks : IsNewest(a) => Wants(sel, tab) /\ a.of = sel
ComesInv  == Sure /\ ~ late /\ Wants(sel, tab) => shown = {sel} \/ \E a \in asks : IsNewest(a)
OnlyInv   == Sure /\ ~ late /\ pane # "yaml" => \A o \in shown : Wants(sel, tab) /\ o = sel
BareInv   == bare => pane = "data" /\ (strayed \/ ~ Keyed(sel))

PaneInv == (strayed => sel # NoObject) /\ NewestInv /\ ComesInv /\ OnlyInv /\ BareInv

\* A move that wakes no watcher: the pane wants what it wanted, and is sure of no more.
LEMMA SameWatched ==
    ASSUME DrawerInv, PaneInv, NEW c \in Clusters, NEW s \in Objects \cup {NoObject}, NEW t \in PaneTabs,
           Move(c, s, t), s # NoObject => s.cluster = c /\ c = cluster,
           Watched(c, s, t) = Watched(cluster, sel, tab), Sure'
    PROVE  Sure /\ (Wants(s, t) <=> Wants(sel, tab)) /\ (Wants(s, t) => s = sel)
<1>1. sel \in Objects \cup {NoObject} /\ pane \in Panes /\ pane' = pane /\ (sel # NoObject => sel.cluster = cluster)
  BY MoveFacts DEF DrawerInv, DrawerTypeOK, HereInv
<1>2. CASE pane = "object"
  <2>1. KeyOf(s) = KeyOf(sel) /\ (Boxed(s) <=> Boxed(sel))
    BY <1>2, WatchedObject
  <2>2. Boxed(s) => s = sel
    BY <1>1, <2>1, ObjectFacts DEF Boxed, KeyOf
  <2> QED
    BY <1>2, <2>1, <2>2 DEF Sure, Exact, Wants
<1>3. CASE pane = "history"
  <2>1. (IF Boxed(s) THEN s.key ELSE "") = (IF Boxed(sel) THEN sel.key ELSE "")
    BY <1>3 DEF Watched
  <2>2. (Boxed(s) <=> Boxed(sel)) /\ (Boxed(s) => s = sel)
    BY <1>1, <2>1, ObjectFacts DEF Boxed
  <2> QED
    BY <1>3, <2>2 DEF Sure, Exact, Wants
<1>4. CASE pane = "events"
  <2>1. /\ Mounted(s, t) = Mounted(sel, tab)
        /\ (IF Mounted(s, t) THEN <<s.kind, s.key>> ELSE <<>>) = (IF Mounted(sel, tab) THEN <<sel.kind, sel.key>> ELSE <<>>)
    BY <1>4 DEF Watched
  <2>2. Mounted(s, t) => s # NoObject /\ sel # NoObject /\ s.kind = sel.kind /\ s.key = sel.key
    BY <2>1 DEF Mounted
  <2>3. Mounted(s, t) => s = sel
    BY <1>1, <2>2, ObjectFacts
  <2> QED
    BY <1>4, <2>1, <2>3 DEF Sure, Exact, Wants
<1>5. CASE ~ Exact
  <2>1. KeyOf(s) = KeyOf(sel) /\ (pane = "yaml" => t = tab)
    BY <1>1, <1>5 DEF Watched, Exact, Panes
  <2>2. ~ strayed'
    BY <1>1, <1>5 DEF Sure, Exact
  <2>3. ~ (s # NoObject /\ KeyOf(s) = KeyOf(sel) /\ (s # sel \/ strayed))
    BY <2>2, Zenon DEF Move
  <2>4. s = sel
    BY <1>1, <2>1, <2>3, ObjectFacts DEF KeyOf
  <2>5. ~ strayed
    BY <2>1, <2>3, <2>4 DEF PaneInv
  <2> QED
    BY <1>1, <1>5, <2>1, <2>4, <2>5 DEF Sure, Wants, Exact, Panes, Mounted
<1> QED
  BY <1>2, <1>3, <1>4, <1>5 DEF Exact

\* What stays of the requests in flight when the selection moves.
LEMMA Stays ==
    ASSUME NEW c, NEW s, NEW t, Move(c, s, t)
    PROVE  \E left \in SUBSET asks :
             /\ \A a \in asks : ~ Reveals(a) /\ (pane = "events" => Mounted(s, t)) => a \in left
             /\ \/ /\ Watched(c, s, t) = Watched(cluster, sel, tab)
                   /\ asks' = left /\ UNCHANGED <<shown, bare, loading, newest, late>>
                \/ Watched(c, s, t) # Watched(cluster, sel, tab) /\ Load(s, t, left)
<1> DEFINE open == shown # {} /\ tab = "overview" /\ t = "overview" /\ Watched(c, s, t) = Watched(cluster, sel, tab)
           left == {a \in asks : (Reveals(a) => open) /\ (pane = "events" => Mounted(s, t))}
<1>1. left \in SUBSET asks /\ \A a \in asks : ~ Reveals(a) /\ (pane = "events" => Mounted(s, t)) => a \in left
  OBVIOUS
<1>2. IF Watched(c, s, t) = Watched(cluster, sel, tab)
      THEN asks' = left /\ UNCHANGED <<shown, bare, loading, newest, late>>
      ELSE Load(s, t, left)
  BY DEF Move
<1> HIDE DEF left
<1> QED
  BY <1>1, <1>2

LEMMA PaneMoves ==
    ASSUME DrawerInv, PaneInv, NEW c \in Clusters, NEW s \in Objects \cup {NoObject}, NEW t \in PaneTabs,
           Move(c, s, t), s # NoObject => s.cluster = c /\ c = cluster
    PROVE  PaneInv'
<1>1. sel' = s /\ tab' = t /\ pane' = pane
  BY MoveFacts
<1>2. strayed' = (s # NoObject /\ KeyOf(s) = KeyOf(sel) /\ (s # sel \/ strayed))
  BY DEF Move
<1>3. strayed' => s # NoObject
  BY <1>2, Zenon
<1>4. Wants(sel, tab)' <=> Wants(s, t)
  BY <1>1 DEF Wants, Boxed, Keyed, Mounted
<1>5. PICK left \in SUBSET asks :
             /\ \A a \in asks : ~ Reveals(a) /\ (pane = "events" => Mounted(s, t)) => a \in left
             /\ \/ /\ Watched(c, s, t) = Watched(cluster, sel, tab)
                   /\ asks' = left /\ UNCHANGED <<shown, bare, loading, newest, late>>
                \/ Watched(c, s, t) # Watched(cluster, sel, tab) /\ Load(s, t, left)
  BY Stays
<1>6. CASE Watched(c, s, t) = Watched(cluster, sel, tab)
  <2>1. asks' = left /\ UNCHANGED <<shown, bare, loading, newest, late>>
    BY <1>5, <1>6
  <2>2. Sure' => Sure /\ (Wants(s, t) <=> Wants(sel, tab)) /\ (Wants(s, t) => s = sel)
    BY <1>6, SameWatched
  <2>3. NewestInv'
    BY <1>1, <1>4, <2>1, <2>2 DEF PaneInv, NewestInv, IsNewest
  <2>4. Wants(s, t) => (pane = "events" => Mounted(s, t))
    BY DEF Wants
  <2>5. ComesInv'
    BY <1>1, <1>4, <1>5, <2>1, <2>2, <2>4 DEF PaneInv, ComesInv, IsNewest
  <2>6. OnlyInv'
    BY <1>1, <1>4, <2>1, <2>2 DEF PaneInv, OnlyInv
  <2>7. BareInv'
    <3>1. bare' => bare /\ pane = "data" /\ (strayed \/ ~ Keyed(sel)) /\ KeyOf(s) = KeyOf(sel)
      BY <1>6, <2>1 DEF PaneInv, BareInv, Watched
    <3>2. bare' /\ s # NoObject /\ s = sel => strayed' \/ ~ Keyed(s)
      BY <1>2, <3>1, Zenon
    <3>3. bare' /\ s # NoObject /\ s # sel => strayed'
      BY <1>2, <3>1, Zenon
    <3>4. s = NoObject => ~ Keyed(s)
      BY DEF Keyed
    <3>5. Keyed(sel)' <=> Keyed(s)
      BY <1>1 DEF Keyed
    <3> QED
      BY <1>1, <3>1, <3>2, <3>3, <3>4, <3>5 DEF BareInv
  <2> QED
    BY <1>1, <1>3, <2>3, <2>5, <2>6, <2>7 DEF PaneInv
<1>7. CASE Load(s, t, left)
  <2>1. bare' = FALSE /\ (pane # "yaml" => shown' = {})
    BY <1>7 DEF Load
  <2>2. \/ ~ Wants(s, t) /\ asks' = left /\ newest' = 0
        \/ /\ Wants(s, t)
           /\ \E n \in Free : asks' = left \cup {AskFor(s, n, NoObject)} /\ newest' = n
    BY <1>7 DEF Load
  <2>3. \A a \in left : a.n \in 1 .. MaxAsks
    BY DEF DrawerInv, DrawerTypeOK, Ask
  <2>4. CASE ~ Wants(s, t) /\ asks' = left /\ newest' = 0
    <3>1. \A a \in asks' : a.n # newest'
      BY <2>3, <2>4
    <3> QED
      BY <1>1, <1>3, <1>4, <2>1, <2>4, <3>1 DEF PaneInv, NewestInv, ComesInv, OnlyInv, BareInv, IsNewest
  <2>5. ASSUME NEW n \in Free, Wants(s, t), asks' = left \cup {AskFor(s, n, NoObject)}, newest' = n
        PROVE  PaneInv'
    <3>1. \A a \in left : a.n # n
      BY DEF Free
    <3>2. NewestInv'
      BY <1>1, <1>4, <2>5, <3>1, PaneAskFacts DEF NewestInv, IsNewest
    <3>3. \E a \in asks' : ~ Reveals(a) /\ a.n = newest'
      <4> DEFINE r == AskFor(s, n, NoObject)
      <4>1. r \in asks' /\ ~ Reveals(r) /\ r.n = newest'
        BY <2>5, PaneAskFacts
      <4> HIDE DEF r
      <4> QED
        BY <4>1
    <3>4. ComesInv'
      BY <3>3 DEF ComesInv, IsNewest
    <3> QED
      BY <1>1, <1>3, <2>1, <3>2, <3>4 DEF PaneInv, OnlyInv, BareInv
  <2> QED
    BY <2>2, <2>4, <2>5
<1> QED
  BY <1>5, <1>6, <1>7

LEMMA PaneAgain ==
    ASSUME DrawerInv, PaneInv, Again PROVE PaneInv'
<1>1. UNCHANGED <<pane, cluster, sel, tab, shown, bare, strayed, late>> /\ Wants(sel, tab)
  BY DEF Again
<1>2. PICK n \in Free : asks' = asks \cup {AskFor(sel, n, NoObject)} /\ newest' = n
  BY DEF Again
<1>3. \A a \in asks : a.n # n
  BY DEF Free
<1>4. Wants(sel, tab)' <=> Wants(sel, tab)
  BY <1>1 DEF Wants, Boxed, Keyed, Mounted
<1>5. NewestInv'
  BY <1>1, <1>2, <1>3, <1>4, PaneAskFacts DEF NewestInv, IsNewest
<1>6. \E a \in asks' : ~ Reveals(a) /\ a.n = newest'
  <2> DEFINE r == AskFor(sel, n, NoObject)
  <2>1. r \in asks' /\ ~ Reveals(r) /\ r.n = newest'
    BY <1>2, PaneAskFacts
  <2> HIDE DEF r
  <2> QED
    BY <2>1
<1>7. ComesInv'
  BY <1>6 DEF ComesInv, IsNewest
<1> QED
  BY <1>1, <1>4, <1>5, <1>7 DEF PaneInv, OnlyInv, BareInv, Sure, Exact, Keyed

LEMMA PaneAnswers ==
    ASSUME DrawerInv, PaneInv, NEW a \in asks, Answer(a) PROVE PaneInv'
<1>1. /\ ~ Reveals(a) /\ asks' = asks \ {a}
      /\ shown' = IF ~ Taken(a) \/ (pane = "data" /\ sel = NoObject) THEN shown
                  ELSE IF pane = "data" THEN shown \cup {a.of} ELSE {a.of}
      /\ UNCHANGED <<pane, cluster, sel, tab, newest, strayed>>
  BY DEF Answer
<1>2. bare' = (bare \/ (pane = "data" /\ sel # NoObject /\ ~ Keyed(sel)))
  BY DEF Answer
<1>3. late' = IF ~ Taken(a) THEN late ELSE a.n # newest \/ (late /\ pane = "data")
  BY DEF Answer
<1>4. bare' => bare \/ (pane = "data" /\ ~ Keyed(sel))
  BY <1>2, Zenon
<1>5. ~ late' => (~ Taken(a) /\ ~ late) \/ (Taken(a) /\ a.n = newest /\ (pane = "data" => ~ late))
  BY <1>3, Zenon
<1>6. (Wants(sel, tab)' <=> Wants(sel, tab)) /\ (Keyed(sel)' <=> Keyed(sel)) /\ (Sure' <=> Sure)
  BY <1>1 DEF Wants, Boxed, Keyed, Mounted, Sure, Exact
<1>7. NewestInv' /\ BareInv'
  BY <1>1, <1>4, <1>6 DEF PaneInv, NewestInv, BareInv, IsNewest
<1>8. Sure /\ a.n = newest => Taken(a) /\ Wants(sel, tab) /\ a.of = sel
  BY <1>1 DEF PaneInv, NewestInv, IsNewest, Taken, Wants, SameName
<1>9. pane = "data" /\ Wants(sel, tab) => sel # NoObject
  BY DEF Wants, Keyed
<1>10. ASSUME Sure, ~ late', a.n = newest PROVE ComesInv' /\ OnlyInv'
  BY <1>1, <1>5, <1>6, <1>8, <1>9, <1>10 DEF PaneInv, ComesInv, OnlyInv
<1>11. ASSUME Sure, ~ late', a.n # newest PROVE ComesInv' /\ OnlyInv'
  <2>1. ~ Taken(a) /\ ~ late /\ shown' = shown
    BY <1>1, <1>5, <1>11
  <2> QED
    BY <1>1, <1>6, <1>11, <2>1 DEF PaneInv, ComesInv, OnlyInv, IsNewest
<1>12. ComesInv' /\ OnlyInv'
  BY <1>6, <1>10, <1>11 DEF ComesInv, OnlyInv
<1> QED
  BY <1>1, <1>7, <1>12 DEF PaneInv

LEMMA PaneFails ==
    ASSUME DrawerInv, PaneInv, NEW a \in asks, Fail(a) PROVE PaneInv'
<1>1. /\ asks' = asks \ {a} /\ UNCHANGED <<pane, cluster, sel, tab, newest, bare, strayed>>
      /\ shown' = IF pane = "consumers" THEN {} ELSE shown
  BY DEF Fail
<1>2. late' = (late \/ a.n = newest \/ pane = "consumers")
  BY DEF Fail
<1>3. ~ late' => ~ late /\ a.n # newest /\ pane # "consumers"
  BY <1>2, Zenon
<1>4. (Wants(sel, tab)' <=> Wants(sel, tab)) /\ (Keyed(sel)' <=> Keyed(sel)) /\ (Sure' <=> Sure)
  BY <1>1 DEF Wants, Boxed, Keyed, Mounted, Sure, Exact
<1> QED
  BY <1>1, <1>3, <1>4 DEF PaneInv, NewestInv, ComesInv, OnlyInv, BareInv, IsNewest

\* What is typed, saved, revealed or hidden moves no request that a pane asked for its content.
LEMMA PaneRests ==
    ASSUME DrawerInv, PaneInv,
           \/ Type \/ Revert \/ Save \/ Approve \/ Reveal \/ Hide \/ UNCHANGED drawer
           \/ \E a \in asks : Revealed(a)
    PROVE  PaneInv'
<1>1. UNCHANGED <<pane, cluster, sel, tab, newest, shown, bare, strayed, late>>
  BY DEF Type, Revert, Save, Approve, Reveal, Hide, Revealed, drawer
<1>2. \A a : ~ Reveals(a) => (a \in asks' <=> a \in asks)
  <2>1. CASE Reveal
    <3>1. PICK n \in Free, o \in shown : asks' = asks \cup {AskFor(sel, n, o)}
      BY <2>1 DEF Reveal
    <3>2. o # NoObject
      BY ObjectFacts DEF DrawerInv, DrawerTypeOK
    <3> QED
      BY <3>1, <3>2 DEF AskFor, Reveals
  <2> QED
    BY <2>1 DEF Type, Revert, Save, Approve, Hide, Revealed, drawer
<1>3. (Wants(sel, tab)' <=> Wants(sel, tab)) /\ (Keyed(sel)' <=> Keyed(sel)) /\ (Sure' <=> Sure)
  BY <1>1 DEF Wants, Boxed, Keyed, Mounted, Sure, Exact
<1>4. NewestInv' /\ ComesInv'
  BY <1>1, <1>2, <1>3 DEF PaneInv, NewestInv, ComesInv, IsNewest
<1> QED
  BY <1>1, <1>3, <1>4 DEF PaneInv, OnlyInv, BareInv

\* Somebody else's change marks requests as read before it, and moves none of them.
LEMMA PaneOthers ==
    ASSUME DrawerInv, PaneInv, OtherWrites PROVE PaneInv'
<1>1. UNCHANGED <<pane, cluster, sel, tab, newest, shown, bare, strayed, late>>
  BY DEF OtherWrites
<1> DEFINE Old(a) == [a EXCEPT !.old = TRUE]
<1>2. PICK read \in SUBSET asks : asks' = (asks \ read) \cup {Old(a) : a \in read}
  BY DEF OtherWrites
<1>3. \A a \in asks : Old(a).of = a.of /\ Old(a).n = a.n /\ (Reveals(Old(a)) <=> Reveals(a))
  BY DEF DrawerInv, DrawerTypeOK, Ask, Reveals
<1> HIDE DEF Old
<1>4. \A b \in asks' : \E a \in asks : b.of = a.of /\ b.n = a.n /\ (Reveals(b) <=> Reveals(a))
  BY <1>2, <1>3
<1>5. \A a \in asks : \E b \in asks' : b.of = a.of /\ b.n = a.n /\ (Reveals(b) <=> Reveals(a))
  BY <1>2, <1>3
<1>6. (Wants(sel, tab)' <=> Wants(sel, tab)) /\ (Keyed(sel)' <=> Keyed(sel)) /\ (Sure' <=> Sure)
  BY <1>1 DEF Wants, Boxed, Keyed, Mounted, Sure, Exact
<1>7. NewestInv'
  BY <1>1, <1>4, <1>6 DEF PaneInv, NewestInv, IsNewest
<1>8. ComesInv'
  BY <1>1, <1>5, <1>6 DEF PaneInv, ComesInv, IsNewest
<1> QED
  BY <1>1, <1>6, <1>7, <1>8 DEF PaneInv, OnlyInv, BareInv

LEMMA PaneStep == DrawerInv /\ PaneInv /\ [DrawerNext]_drawer => PaneInv'
<1> SUFFICES ASSUME DrawerInv, PaneInv, [DrawerNext]_drawer PROVE PaneInv'
  OBVIOUS
<1>0. /\ cluster \in Clusters /\ sel \in Objects \cup {NoObject} /\ tab \in PaneTabs
      /\ sel # NoObject => sel.cluster = cluster
  BY DEF DrawerInv, DrawerTypeOK, HereInv
<1>1. ASSUME NEW o \in Objects, NEW t \in {tab, "overview", "events"}, Select(o, t) PROVE PaneInv'
  BY <1>0, <1>1, PaneMoves DEF Select, PaneTabs
<1>2. CASE CloseDrawer
  BY <1>0, <1>2, PaneMoves DEF CloseDrawer
<1>3. ASSUME NEW t \in PaneTabs, SetTab(t) PROVE PaneInv'
  BY <1>0, <1>3, PaneMoves DEF SetTab
<1>4. ASSUME NEW c \in Clusters, SwitchCluster(c) PROVE PaneInv'
  BY <1>0, <1>4, PaneMoves DEF SwitchCluster
<1> QED
  BY <1>1, <1>2, <1>3, <1>4, PaneAgain, PaneAnswers, PaneFails, PaneOthers, PaneRests DEF DrawerNext

(***************************************************************************)
(* With nothing in flight a pane shows the object selected and nothing     *)
(* else, and a Secret's data masked, where the last read was answered, the *)
(* answer to the newest request landed last, and the selection did not     *)
(* stray to another object of the same key.                                *)
(***************************************************************************)
THEOREM SettledCorrect == DrawerSpec => []SettledPanesFit
<1>1. DrawerInit => PaneInv
  BY DEF DrawerInit, PaneInv, NewestInv, ComesInv, OnlyInv, BareInv, Wants, Boxed, Keyed, Mounted
<1>2. DrawerInv /\ PaneInv => SettledPanesFit
  <2> SUFFICES ASSUME DrawerInv, PaneInv, sel # NoObject, asks = {}, ~ late, ~ strayed, pane = "yaml" => tab = "yaml"
               PROVE  (shown = IF Wants(sel, tab) THEN {sel} ELSE {}) /\ (Keyed(sel) => ~ bare)
    BY DEF SettledPanesFit
  <2>1. Wants(sel, tab) => shown = {sel}
    BY DEF PaneInv, ComesInv, Sure
  <2>2. pane = "yaml" => Wants(sel, tab)
    BY DEF Wants
  <2>3. ~ Wants(sel, tab) => shown = {}
    BY <2>2 DEF PaneInv, OnlyInv, Sure
  <2> QED
    BY <2>1, <2>3 DEF PaneInv, BareInv
<1> QED
  BY <1>1, <1>2, DrawerStart, DrawerStep, PaneStep, PTL DEF DrawerSpec

-----------------------------------------------------------------------------
(***************************************************************************)
(* Proofs about ScopedScreens, for any clusters and views and any number   *)
(* of requests in flight.                                                  *)
(*                                                                         *)
(* The argument: the read with the last ticket is of the scope asked for   *)
(* (LatestInv), the two screens that follow the scope have always asked    *)
(* for the one the window has (AskedInv), only Helm has a release          *)
(* selected, which a move of the scope clears (ScreenInv), and once the    *)
(* newest report is in, what is shown is that one, an error, or an answer  *)
(* marked as astray (ShownInv).                                            *)
(***************************************************************************)

LatestInv == \A r \in reads : r.what = "report" /\ r.n = latest => r.of = asked

AskedInv == screen # "drift" => asked = scope

ScreenInv == screen # "helm" => detail = Nowhere /\ \A r \in reads : r.what # "detail"

ShownInv ==
    /\ \/ \E r \in reads : r.what = "report" /\ r.n = latest
       \/ failed \/ report \in {Nowhere, asked} \/ "report" \in strays
    /\ detail # Nowhere /\ "detail" \notin strays => detail.context = scope.context

ScopedInv == ScopedTypeOK /\ LatestInv /\ AskedInv /\ ScreenInv /\ ShownInv

-----------------------------------------------------------------------------

LEMMA ScopeFacts ==
    /\ Nowhere \notin Scopes
    /\ \A s \in Scopes : s.context \in Contexts /\ s.view \in Views
    /\ \A c \in Contexts, v \in Views : [context |-> c, view |-> v] \in Scopes
    /\ 1 \in 1 .. MaxReads /\ 0 \in 0 .. MaxReads
    /\ \A n \in 1 .. MaxReads : n \in 0 .. MaxReads
    /\ HomeContext \in Contexts /\ AllViews \in Views
<1>1. MaxReads \in Nat \ {0} /\ Nowhere \notin Scopes /\ HomeContext \in Contexts /\ AllViews \in Views
  BY ScopeAssumption DEF Scopes
<1>2. \A s \in Scopes : s.context \in Contexts /\ s.view \in Views
  BY DEF Scopes
<1>3. \A c \in Contexts, v \in Views : [context |-> c, view |-> v] \in Scopes
  BY DEF Scopes
<1>4. 1 \in 1 .. MaxReads /\ 0 \in 0 .. MaxReads /\ \A n \in 1 .. MaxReads : n \in 0 .. MaxReads
  BY <1>1
<1> QED
  BY <1>1, <1>2, <1>3, <1>4

LEMMA HereFacts == ScopedTypeOK => Here \in Scopes
  BY ScopeFacts DEF ScopedTypeOK, Here

LEMMA ReadFacts ==
    ASSUME NEW w \in Purposes, NEW s \in Scopes, NEW n \in 1 .. MaxReads
    PROVE  [what |-> w, of |-> s, n |-> n] \in Read
  BY DEF Read

-----------------------------------------------------------------------------

LEMMA ScopedStart == ScopedInit => ScopedInv
<1> SUFFICES ASSUME ScopedInit PROVE ScopedInv
  OBVIOUS
<1> USE DEF ScopedInit
<1>1. scope \in Scopes
  BY ScopeFacts
<1>2. ScopedTypeOK
  <2>1. reads \subseteq Read /\ latest \in 0 .. MaxReads /\ rescan \in 0 .. MaxReads /\ asked \in Scopes \cup {Nowhere}
    BY <1>1, ScopeFacts, ReadFacts DEF Purposes
  <2>2. reading \in BOOLEAN
    BY Zenon
  <2> QED
    BY <1>1, <2>1, <2>2 DEF ScopedTypeOK, Screens
<1>3. LatestInv /\ AskedInv /\ ScreenInv /\ ShownInv
  BY DEF LatestInv, AskedInv, ScreenInv, ShownInv
<1> QED
  BY <1>2, <1>3 DEF ScopedInv

\* What a report read anew leaves.
LEMMA ReportAsked ==
    ASSUME ScopedInv, NEW s \in Scopes, NEW left \in SUBSET reads, ReadReport(s, left),
           screen' = screen, screen # "drift" => scope' = s
    PROVE  /\ LatestInv' /\ AskedInv' /\ ScreenInv' /\ ShownInv'
           /\ reads' \subseteq Read /\ latest' \in 0 .. MaxReads
           /\ {asked', report', detail'} \subseteq Scopes \cup {Nowhere}
           /\ {failed', reading'} \subseteq BOOLEAN
           /\ strays' \subseteq {"report", "detail"}
<1>1. PICK n \in Tickets("report") :
          reads' = left \cup {[what |-> "report", of |-> s, n |-> n]} /\ latest' = n
  BY DEF ReadReport
<1>2. n \in 1 .. MaxReads /\ \A r \in left : r.what = "report" => r.n # n
  BY DEF Tickets, InFlight
<1>3. asked' = s /\ failed' = FALSE
  BY DEF ReadReport
<1>4. reading' \in BOOLEAN
  <2>1. reading' = (screen # "helm")
    BY DEF ReadReport
  <2> QED
    BY <2>1, Zenon
<1>5. /\ screen = "helm" => report' = Nowhere /\ detail' = Nowhere /\ strays' = {}
      /\ screen # "helm" => report' = report /\ detail' = detail /\ strays' = strays
  BY DEF ReadReport
<1>6. /\ left \subseteq Read /\ {report, detail} \subseteq Scopes \cup {Nowhere}
      /\ strays \subseteq {"report", "detail"}
  BY DEF ScopedInv, ScopedTypeOK
<1>7. LatestInv'
  BY <1>1, <1>2, <1>3 DEF LatestInv
<1>8. AskedInv'
  BY <1>3 DEF AskedInv
<1>9. ScreenInv'
  BY <1>1, <1>5 DEF ScopedInv, ScreenInv
<1>10. ShownInv'
  <2>1. [what |-> "report", of |-> s, n |-> n] \in reads'
    BY <1>1
  <2>2. \E r \in reads' : r.what = "report" /\ r.n = latest'
    BY <1>1, <2>1
  <2>3. detail' = Nowhere
    BY <1>5 DEF ScopedInv, ScreenInv
  <2> QED
    BY <2>2, <2>3 DEF ShownInv
<1>11. reads' \subseteq Read /\ latest' \in 0 .. MaxReads
  BY <1>1, <1>2, <1>6, ReadFacts, ScopeFacts DEF Purposes
<1> QED
  BY <1>3, <1>4, <1>5, <1>6, <1>7, <1>8, <1>9, <1>10, <1>11

-----------------------------------------------------------------------------
\* One lemma per action.

LEMMA MoveScopeKeeps == ASSUME ScopedInv, NEW s \in Scopes, MoveScope(s) PROVE ScopedInv'
<1>1. scope' = s /\ UNCHANGED <<screen, rescan>>
  BY DEF MoveScope
<1>2. CASE screen = "drift"
  <2>1. UNCHANGED <<reads, latest, asked, report, failed, reading, detail, strays>>
    BY <1>2 DEF MoveScope
  <2> QED
    BY <1>1, <1>2, <2>1 DEF ScopedInv, ScopedTypeOK, LatestInv, AskedInv, ScreenInv, ShownInv
<1>3. CASE screen # "drift"
  <2>1. ReadReport(s, reads)
    BY <1>3 DEF MoveScope
  <2> QED
    BY <1>1, <2>1, ReportAsked DEF ScopedInv, ScopedTypeOK
<1> QED
  BY <1>2, <1>3

LEMMA RefreshKeeps == ASSUME ScopedInv, Refresh PROVE ScopedInv'
<1>1. ReadReport(scope, reads) /\ UNCHANGED <<screen, scope, rescan>>
  BY DEF Refresh
<1>2. scope \in Scopes
  BY DEF ScopedInv, ScopedTypeOK
<1> QED
  BY <1>1, <1>2, ReportAsked DEF ScopedInv, ScopedTypeOK

LEMMA ReportReadKeeps == ASSUME ScopedInv, NEW r \in reads, ReportRead(r) PROVE ScopedInv'
<1>1. /\ r.what = "report" /\ reads' = reads \ {r} /\ reading' = FALSE
      /\ rescan' \in {0, rescan} /\ UNCHANGED <<screen, scope, latest, asked, detail>>
  BY DEF ReportRead
<1>2. r.of \in Scopes
  BY DEF ScopedInv, ScopedTypeOK, Read
<1>3. \/ /\ report' = r.of /\ failed' = failed
         /\ strays' = IF r.n = latest THEN strays \ {"report"} ELSE strays \cup {"report"}
      \/ failed' = TRUE /\ report' \in {report, Nowhere} /\ strays' = strays
  BY DEF ReportRead
<1>4. ScopedTypeOK'
  BY <1>1, <1>2, <1>3, ScopeFacts DEF ScopedInv, ScopedTypeOK
<1>5. LatestInv' /\ AskedInv' /\ ScreenInv'
  BY <1>1 DEF ScopedInv, LatestInv, AskedInv, ScreenInv
<1>6. ShownInv'
  <2>1. "detail" \in strays' <=> "detail" \in strays
    BY <1>3
  <2>2. failed' \/ report' = asked \/ "report" \in strays'
    BY <1>1, <1>3 DEF ScopedInv, LatestInv
  <2> QED
    BY <1>1, <2>1, <2>2 DEF ScopedInv, ShownInv
<1> QED
  BY <1>4, <1>5, <1>6 DEF ScopedInv

\* A request of another purpose goes out, to the cluster the window has.
LEMMA OtherAsked ==
    ASSUME ScopedInv, NEW w \in Purposes, w # "report", NEW n \in 1 .. MaxReads,
           w = "detail" => screen = "helm",
           reads' = reads \cup {[what |-> w, of |-> Here, n |-> n]},
           UNCHANGED <<screen, scope, latest, asked, report, failed, reading, detail, rescan, strays>>
    PROVE  ScopedInv'
<1>1. [what |-> w, of |-> Here, n |-> n] \in Read
  BY HereFacts, ReadFacts DEF ScopedInv
<1>2. ScopedTypeOK'
  BY <1>1 DEF ScopedInv, ScopedTypeOK
<1>3. LatestInv' /\ AskedInv' /\ ScreenInv'
  BY DEF ScopedInv, LatestInv, AskedInv, ScreenInv
<1>4. ShownInv'
  BY DEF ScopedInv, ShownInv
<1> QED
  BY <1>2, <1>3, <1>4 DEF ScopedInv

LEMMA OpenReleaseKeeps == ASSUME ScopedInv, OpenRelease PROVE ScopedInv'
<1>1. PICK n \in Tickets("detail") : reads' = reads \cup {[what |-> "detail", of |-> Here, n |-> n]}
  BY DEF OpenRelease
<1>2. n \in 1 .. MaxReads /\ "detail" \in Purposes
  BY DEF Tickets, Purposes
<1>3. /\ screen = "helm"
      /\ UNCHANGED <<screen, scope, latest, asked, report, failed, reading, detail, rescan, strays>>
  BY DEF OpenRelease
<1> QED
  BY <1>1, <1>2, <1>3, OtherAsked

LEMMA PlanAskedKeeps == ASSUME ScopedInv, Rollback \/ CaptureAll PROVE ScopedInv'
<1>1. UNCHANGED <<screen, scope, latest, asked, report, failed, reading, detail, rescan, strays>>
  BY DEF Rollback, CaptureAll
<1>2. 1 \in 1 .. MaxReads /\ {"plan", "capture"} \subseteq Purposes
  BY ScopeFacts DEF Purposes
<1>3. CASE Rollback
  BY <1>1, <1>2, <1>3, OtherAsked DEF Rollback
<1>4. CASE CaptureAll
  BY <1>1, <1>2, <1>4, OtherAsked DEF CaptureAll
<1> QED
  BY <1>3, <1>4

LEMMA ReleaseReadKeeps == ASSUME ScopedInv, NEW r \in reads, ReleaseRead(r) PROVE ScopedInv'
<1>1. /\ r.what = "detail" /\ reads' = reads \ {r}
      /\ UNCHANGED <<screen, scope, latest, asked, report, reading, rescan>>
  BY DEF ReleaseRead
<1>2. \/ /\ detail' = r.of /\ failed' = failed
         /\ strays' = IF r.of.context = scope.context THEN strays \ {"detail"} ELSE strays \cup {"detail"}
      \/ failed' = TRUE /\ detail' = detail /\ strays' = strays
  BY DEF ReleaseRead
<1>3. r.of \in Scopes /\ screen = "helm"
  BY <1>1 DEF ScopedInv, ScopedTypeOK, Read, ScreenInv
<1>4. ScopedTypeOK'
  BY <1>1, <1>2, <1>3 DEF ScopedInv, ScopedTypeOK
<1>5. LatestInv' /\ AskedInv' /\ ScreenInv'
  BY <1>1, <1>3 DEF ScopedInv, LatestInv, AskedInv, ScreenInv
<1>6. ShownInv'
  <2>1. "report" \in strays' <=> "report" \in strays
    BY <1>2
  <2>2. detail' # Nowhere /\ "detail" \notin strays' => detail'.context = scope.context
    BY <1>2 DEF ScopedInv, ShownInv
  <2>3. \A x \in reads : x.what = "report" => x \in reads'
    BY <1>1
  <2>4. failed => failed'
    BY <1>2
  <2> QED
    BY <1>1, <2>1, <2>2, <2>3, <2>4 DEF ScopedInv, ShownInv
<1> QED
  BY <1>4, <1>5, <1>6 DEF ScopedInv

\* An answer of another purpose leaves, and its refusal may be shown as an error.
LEMMA OtherReadKeeps ==
    ASSUME ScopedInv, NEW r \in reads, r.what # "report", reads' = reads \ {r}, failed' \in {failed, TRUE},
           UNCHANGED <<screen, scope, latest, asked, report, reading, detail, rescan, strays>>
    PROVE  ScopedInv'
<1>1. ScopedTypeOK'
  BY DEF ScopedInv, ScopedTypeOK
<1>2. LatestInv' /\ AskedInv' /\ ScreenInv'
  BY DEF ScopedInv, LatestInv, AskedInv, ScreenInv
<1>3. ShownInv'
  BY DEF ScopedInv, ShownInv
<1> QED
  BY <1>1, <1>2, <1>3 DEF ScopedInv

LEMMA CapturedKeeps == ASSUME ScopedInv, NEW r \in reads, Captured(r) PROVE ScopedInv'
<1>1. r.what = "capture" /\ UNCHANGED <<screen, scope>>
  BY DEF Captured
<1>2. CASE ReadReport(scope, reads \ {r}) /\ rescan' = latest'
  <2>1. scope \in Scopes /\ reads \ {r} \in SUBSET reads
    BY DEF ScopedInv, ScopedTypeOK
  <2> QED
    BY <1>1, <1>2, <2>1, ReportAsked DEF ScopedInv, ScopedTypeOK
<1>3. CASE /\ reads' = reads \ {r}
           /\ UNCHANGED <<latest, asked, report, failed, reading, detail, rescan, strays>>
  BY <1>1, <1>3, OtherReadKeeps
<1> QED
  BY <1>2, <1>3 DEF Captured

LEMMA ScopedStep == ScopedInv /\ [ScopedNext]_scoped => ScopedInv'
<1> SUFFICES ASSUME ScopedInv, [ScopedNext]_scoped PROVE ScopedInv'
  OBVIOUS
<1>1. ASSUME NEW c \in Contexts, SetContext(c) PROVE ScopedInv'
  BY <1>1, ScopeFacts, MoveScopeKeeps DEF SetContext
<1>2. ASSUME NEW v \in Views, SetView(v) PROVE ScopedInv'
  <2>1. [scope EXCEPT !.view = v] \in Scopes
    BY <1>2 DEF ScopedInv, ScopedTypeOK, Scopes
  <2> QED
    BY <1>2, <2>1, MoveScopeKeeps DEF SetView
<1>3. ASSUME NEW r \in reads, PlanRead(r) PROVE ScopedInv'
  BY <1>3, OtherReadKeeps DEF PlanRead
<1>4. CASE UNCHANGED scoped
  BY <1>4 DEF scoped, ScopedInv, ScopedTypeOK, LatestInv, AskedInv, ScreenInv, ShownInv
<1> QED
  BY <1>1, <1>2, <1>3, <1>4, RefreshKeeps, ReportReadKeeps, OpenReleaseKeeps, ReleaseReadKeeps, PlanAskedKeeps,
     CapturedKeeps DEF ScopedNext

\* The screens keep their types, for any clusters, views and number of reads in flight.
THEOREM ScopedTyping == ScopedSpec => []ScopedTypeOK
<1>1. ScopedInv => ScopedTypeOK
  BY DEF ScopedInv
<1> QED
  BY ScopedStart, ScopedStep, <1>1, PTL DEF ScopedSpec

(***************************************************************************)
(* With every report answered and no error shown, the report is the last   *)
(* asked for, of the window's scope where the screen follows it, and the   *)
(* release is of the window's cluster, in whatever order the scope moves   *)
(* and reads are sent; not where the answer that filled them came after a  *)
(* newer report's, or after the window left the release's cluster.         *)
(***************************************************************************)
THEOREM ScopedCorrect == ScopedSpec => []SettledReportFits
<1>1. ScopedInv => SettledReportFits
  <2> SUFFICES ASSUME ScopedInv, InFlight("report") = {}, ~ failed
               PROVE  /\ report # Nowhere /\ "report" \notin strays
                            => report = asked /\ (screen # "drift" => report = scope)
                      /\ detail # Nowhere /\ "detail" \notin strays => detail.context = scope.context
    BY DEF SettledReportFits
  <2>1. ~ \E r \in reads : r.what = "report"
    BY DEF InFlight
  <2> QED
    BY <2>1 DEF ScopedInv, ShownInv, AskedInv
<1> QED
  BY <1>1, ScopedStart, ScopedStep, PTL DEF ScopedSpec

-----------------------------------------------------------------------------
(***************************************************************************)
(* Proofs about WindowNav, for any clusters and namespaces.                *)
(*                                                                         *)
(* Nearly every action is Settle with some filter, so the argument is      *)
(* about Settle: SettleFits says what its arguments must satisfy for the   *)
(* window to fit afterwards, and each action is shown to satisfy that.     *)
(* The tab fits also when nothing is selected (TabInv): the next selection *)
(* may come without a tab of its own and keep it.  Only a table has        *)
(* subscriptions that rows can come of (StreamInv).                        *)
(***************************************************************************)

TabInv == drawerTab \in TabsOf(picked)

StreamInv == subscribed # {} => place \notin Tops

NavInv == NavTypeOK /\ TabInv /\ StreamInv /\ WindowFits

-----------------------------------------------------------------------------

\* No screen, table or doorway is the absence of one; the tabs of a kind the
\* window has a spec of are told by the spec.
LEMMA KindFacts ==
    /\ NoSite \notin Tables \cup Doorways
    /\ \A k, j \in Tables \cup Doorways \cup {NoSite} : SpecOf(k) = SpecOf(j) => TabsOf(k) = TabsOf(j)
    /\ \A k \in Tables \cup Doorways \cup {NoSite} : "overview" \in TabsOf(k) /\ TabsOf(k) \subseteq AllTabs
<1>1. NoSite \notin Tables \cup Doorways
  BY NavAssumption
<1>2. \A k, j \in Tables \cup Doorways \cup {NoSite} : SpecOf(k) = SpecOf(j) => TabsOf(k) = TabsOf(j)
  BY <1>1 DEF SpecOf, TabsOf, Tables, Doorways
<1>3. \A k \in Tables \cup Doorways \cup {NoSite} : "overview" \in TabsOf(k) /\ TabsOf(k) \subseteq AllTabs
  BY DEF TabsOf, AllTabs, PodTabs
<1> QED
  BY <1>1, <1>2, <1>3

\* A namespace fits any kind: a kind without one takes all of them.
LEMMA SpaceFacts == \A k, s : s \in Spaces => SpaceFor(k, s) \in Spaces
  BY NavAssumption DEF SpaceFor

\* The parts of WindowFits that Settle decides, of the state after it.
RowsFit ==
        /\ (place \notin Tops /\ rowsOf # NoSite) => rowsOf.kind = place
        /\ \A c \in tallies : c.late \/ c.site = site
        /\ TabInv /\ StreamInv

LEMMA SettleTypes ==
    ASSUME NavInv, NEW p \in Places, NEW c \in Sites \cup {NoSite}, NEW s \in Spaces,
           NEW k \in Tables \cup Doorways \cup {NoSite}, NEW t \in AllTabs, Settle(p, c, s, k, t)
    PROVE  /\ place' = p /\ place' \in Places /\ site' = c /\ site' \in Sites \cup {NoSite}
           /\ space' \in Spaces /\ picked' = (IF c # site THEN NoSite ELSE k)
           /\ picked' \in Tables \cup Doorways \cup {NoSite}
           /\ drawerTab' \in AllTabs
           /\ rowsOf' \in Shown \cup {NoSite}
           /\ tallies' \subseteq Tally /\ subscribed' \subseteq [site : Sites, space : Spaces]
<1>1. place' = p /\ site' = c /\ picked' = (IF c # site THEN NoSite ELSE k)
  BY DEF Settle
<1>2. space' \in Spaces
  BY NavAssumption DEF Settle
<1>3. drawerTab' \in AllTabs
  BY DEF Settle, AllTabs
<1>4. rowsOf' \in Shown \cup {NoSite}
  BY DEF Settle, NavInv, NavTypeOK
<1>5. tallies' \subseteq Tally
  <2>1. tallies' \subseteq tallies \cup {[site |-> c, late |-> FALSE]}
    BY DEF Settle
  <2>2. [site |-> c, late |-> FALSE] \in Tally
    BY DEF Tally
  <2> QED
    BY <2>1, <2>2 DEF NavInv, NavTypeOK
<1>6. subscribed' \subseteq [site : Sites, space : Spaces]
  <2>1. subscribed' \subseteq subscribed \/ (c # NoSite /\ subscribed' \subseteq subscribed \cup {StreamFor(p, c, space')})
    BY DEF Settle
  <2>2. c # NoSite => StreamFor(p, c, space') \in [site : Sites, space : Spaces]
    BY <1>2, SpaceFacts DEF StreamFor
  <2> QED
    BY <2>1, <2>2 DEF NavInv, NavTypeOK
<1> QED
  BY <1>1, <1>2, <1>3, <1>4, <1>5, <1>6

\* A tab handed to Settle must be one the object has, unless the drawer is to notice.
LEMMA SettleFits ==
    ASSUME NavInv, NEW p \in Places, NEW c \in Sites \cup {NoSite}, NEW s \in Spaces,
           NEW k \in Tables \cup Doorways \cup {NoSite}, NEW t \in AllTabs, Settle(p, c, s, k, t),
           t = drawerTab \/ (t \in TabsOf(k) /\ c = site)
    PROVE  RowsFit'
<1>1. /\ place' = p /\ site' = c /\ space' = IF c # site THEN AllSpaces ELSE s
      /\ picked' = IF c # site THEN NoSite ELSE k
  BY DEF Settle
<1>2. ASSUME p \notin Tops, rowsOf' # NoSite PROVE rowsOf'.kind = p
  <2>1. rowsOf' = rowsOf /\ p = place
    BY <1>2 DEF Settle
  <2> QED
    BY <1>2, <2>1 DEF NavInv, WindowFits
<1>3. ASSUME NEW x \in tallies' PROVE x.late \/ x.site = c
  <2>1. x = [site |-> c, late |-> FALSE] \/ (c = site /\ x \in tallies)
    BY <1>3 DEF Settle
  <2> QED
    BY <2>1 DEF NavInv, WindowFits
<1>5. StreamInv'
  <2>1. p \in Tops => subscribed' = {} \/ (p = place /\ subscribed' = subscribed)
    BY DEF Settle
  <2> QED
    BY <1>1, <2>1 DEF NavInv, StreamInv
<1>4. drawerTab' \in TabsOf(picked')
  <2>1. picked \in Tables \cup Doorways \cup {NoSite} /\ picked' \in Tables \cup Doorways \cup {NoSite}
    BY <1>1 DEF NavInv, NavTypeOK
  <2>2. CASE drawerTab' = "overview"
    BY <2>1, <2>2, KindFacts
  <2>3. CASE drawerTab' = t /\ (SpecOf(picked') = SpecOf(picked) \/ t \in TabsOf(picked'))
    <3>1. CASE t \in TabsOf(k) /\ c = site
      BY <1>1, <2>3, <3>1
    <3>2. CASE t = drawerTab
      BY <2>1, <2>3, <3>2, KindFacts DEF NavInv, TabInv
    <3> QED
      BY <3>1, <3>2
  <2> QED
    BY <1>1, <2>2, <2>3 DEF Settle
<1> QED
  BY <1>1, <1>2, <1>3, <1>4, <1>5 DEF RowsFit, TabInv

-----------------------------------------------------------------------------

\* What is left of the invariant once Settle has done its part.
LEMMA SettledInv ==
    ASSUME NavInv, NEW p \in Places, NEW c \in Sites \cup {NoSite}, NEW s \in Spaces,
           NEW k \in Tables \cup Doorways \cup {NoSite}, NEW t \in AllTabs, Settle(p, c, s, k, t),
           t = drawerTab \/ (t \in TabsOf(k) /\ c = site),
           filter' \in {"", "typed", "warning"}, palette' \in BOOLEAN, kept' \in BOOLEAN,
           (picked' # NoSite /\ ~ kept') => place' = picked',
           filter' = "warning" => place' = "events", filter' = "typed" => place' \notin Tops
    PROVE  NavInv'
<1>1. NavTypeOK'
  BY SettleTypes DEF NavTypeOK, Shown
<1>2. RowsFit'
  BY SettleFits
<1>3. WindowFits'
  BY <1>2 DEF WindowFits, RowsFit, TabInv
<1>4. TabInv' /\ StreamInv'
  BY <1>2 DEF RowsFit
<1> QED
  BY <1>1, <1>3, <1>4 DEF NavInv

\* With the filter emptied where the screen moves.
LEMMA NavigateInv ==
    ASSUME NavInv, NEW p \in Places, NEW c \in Sites \cup {NoSite}, NEW s \in Spaces,
           NEW k \in Tables \cup Doorways \cup {NoSite}, NEW t \in AllTabs, Navigate(p, c, s, k, t),
           t = drawerTab \/ (t \in TabsOf(k) /\ c = site),
           palette' \in BOOLEAN, kept' \in BOOLEAN,
           (c = site /\ k # NoSite /\ ~ kept') => p = k
    PROVE  NavInv'
<1>1. Settle(p, c, s, k, t) /\ filter' = IF p # place THEN "" ELSE filter
  BY DEF Navigate
<1>2. place' = p /\ picked' = (IF c # site THEN NoSite ELSE k)
  BY <1>1 DEF Settle
<1>3. /\ filter' \in {"", "typed", "warning"}
      /\ filter' = "warning" => place' = "events"
      /\ filter' = "typed" => place' \notin Tops
  BY <1>1, <1>2 DEF NavInv, NavTypeOK, WindowFits
<1>4. (picked' # NoSite /\ ~ kept') => place' = picked'
  BY <1>2
<1> QED
  BY <1>1, <1>3, <1>4, SettledInv

\* A row opened without a tab keeps the tab there is, if its kind has it.
LEMMA SelectTabFits ==
    ASSUME NavInv, NEW k \in Tables \cup Doorways
    PROVE  SelectTab(k, NoTab) \in TabsOf(k) /\ SelectTab(k, NoTab) \in AllTabs
  BY DEF NavInv, NavTypeOK, SelectTab, TabsOf, AllTabs, PodTabs, NoTab

-----------------------------------------------------------------------------

LEMMA NavStart == NavInit => NavInv
  BY NavAssumption DEF NavInit, NavInv, NavTypeOK, TabInv, StreamInv, WindowFits, TabsOf, AllTabs, PodTabs, Places, Tops, Tables, Doorways

LEMMA ChoiceInv ==
    ASSUME NavInv,
           \/ \E c \in Sites : ClustersListed(c) \/ ChooseSite(c)
           \/ \E s \in Spaces : ChooseSpace(s)
           \/ \E p \in Places : Go(p) \/ PaletteGo(p)
           \/ GoWarnings \/ CloseButton
    PROVE  NavInv'
<1>1. /\ place \in Places /\ site \in Sites \cup {NoSite} /\ space \in Spaces /\ drawerTab \in AllTabs
      /\ picked \in Tables \cup Doorways \cup {NoSite} /\ palette \in BOOLEAN /\ kept \in BOOLEAN
      /\ (picked # NoSite /\ ~ kept) => place = picked
  BY DEF NavInv, NavTypeOK, WindowFits
<1>2. ASSUME NEW c \in Sites, ClustersListed(c) \/ ChooseSite(c) PROVE NavInv'
  <2>1. /\ c # site /\ Navigate(place, c, space, picked, drawerTab)
        /\ kept' \in BOOLEAN /\ palette' \in BOOLEAN
    BY <1>1, <1>2, NavAssumption DEF ClustersListed, ChooseSite
  <2> QED
    BY <1>1, <2>1, NavigateInv
<1>3. ASSUME NEW s \in Spaces, ChooseSpace(s) PROVE NavInv'
  <2>1. /\ Navigate(place, site, s, picked, drawerTab)
        /\ kept' = kept /\ palette' \in BOOLEAN
    BY <1>3 DEF ChooseSpace
  <2> QED
    BY <1>1, <2>1, NavigateInv
<1>4. ASSUME NEW p \in Places, Go(p) PROVE NavInv'
  <2>1. /\ Navigate(p, site, space, NoSite, drawerTab)
        /\ kept' \in BOOLEAN /\ palette' \in BOOLEAN
    BY <1>1, <1>4 DEF Go
  <2> QED
    BY <1>1, <2>1, NavigateInv
<1>5. ASSUME NEW p \in Places, PaletteGo(p) PROVE NavInv'
  <2>1. /\ Navigate(p, site, space, picked, drawerTab)
        /\ kept' \in BOOLEAN /\ palette' \in BOOLEAN
        /\ picked # NoSite /\ ~ kept' => p = picked
    BY <1>5 DEF PaletteGo
  <2> QED
    BY <1>1, <2>1, NavigateInv
<1>6. CASE GoWarnings
  <2>1. /\ Settle("events", site, space, NoSite, drawerTab) /\ filter' = "warning"
        /\ kept' \in BOOLEAN /\ palette' \in BOOLEAN
    BY <1>1, <1>6 DEF GoWarnings
  <2>2. "events" \in Places /\ NoSite \in Tables \cup Doorways \cup {NoSite}
    BY DEF Places, Tables
  <2>3. place' = "events" /\ picked' = NoSite
    BY <2>1 DEF Settle
  <2> QED
    BY <1>1, <2>1, <2>2, <2>3, SettledInv
<1>7. CASE CloseButton
  <2>1. /\ Navigate(place, site, space, NoSite, drawerTab)
        /\ kept' \in BOOLEAN /\ palette' \in BOOLEAN
    BY <1>1, <1>7 DEF CloseButton, Stay
  <2> QED
    BY <1>1, <2>1, NavigateInv
<1> QED
  BY <1>2, <1>3, <1>4, <1>5, <1>6, <1>7

LEMMA OpenInv ==
    ASSUME NavInv,
           \/ \E k \in Tables : OverviewOpen(k) \/ TimelineOpen(k) \/ OpenConsumer(k)
           \/ RowClick \/ PaletteRow
    PROVE  NavInv'
<1>1. /\ place \in Places /\ site \in Sites \cup {NoSite} /\ space \in Spaces /\ drawerTab \in AllTabs
      /\ palette \in BOOLEAN
      /\ place \notin Tops => place \in Tables \cup Doorways
  BY DEF NavInv, NavTypeOK, Places
<1>2. ASSUME NEW k \in Tables, NEW t \in TabsOf(k), Open(k, t) PROVE NavInv'
  <2>1. Navigate(k, site, space, k, t) /\ kept' = FALSE /\ palette' = palette
    BY <1>2 DEF Open
  <2>2. k \in Places /\ t \in AllTabs
    BY KindFacts DEF Places
  <2> QED
    BY <1>1, <2>1, <2>2, NavigateInv
<1>3. ASSUME NEW k \in Tables, OverviewOpen(k) \/ TimelineOpen(k) \/ OpenConsumer(k) PROVE NavInv'
  <2>1. \E t \in TabsOf(k) : Open(k, t)
    BY <1>3 DEF OverviewOpen, TimelineOpen, OpenConsumer, TabsOf, AllTabs, PodTabs
  <2> QED
    BY <1>2, <2>1
<1>4. ASSUME place \in Tables \cup Doorways, Stay(place, SelectTab(place, NoTab)),
             kept' = FALSE, palette' \in BOOLEAN
      PROVE  NavInv'
  <2>1. Navigate(place, site, space, place, SelectTab(place, NoTab))
    BY <1>4 DEF Stay
  <2> QED
    BY <1>1, <1>4, <2>1, SelectTabFits, NavigateInv
<1>5. CASE RowClick
  <2>1. CASE place = "customresourcedefinitions"
    <3>1. /\ Navigate("crd", site, space, NoSite, drawerTab)
          /\ kept' \in BOOLEAN /\ palette' \in BOOLEAN
      BY <1>1, <1>5, <2>1 DEF RowClick
    <3>2. "crd" \in Places
      BY DEF Places, Doorways
    <3> QED
      BY <1>1, <3>1, <3>2, NavigateInv
  <2>2. CASE place # "customresourcedefinitions"
    BY <1>1, <1>4, <1>5, <2>2 DEF RowClick
  <2> QED
    BY <2>1, <2>2
<1>6. CASE PaletteRow
  BY <1>1, <1>4, <1>6 DEF PaletteRow
<1> QED
  BY <1>3, <1>5, <1>6

LEMMA StreamSite ==
    ASSUME NEW x, NEW p, NEW c, NEW s, x = StreamFor(p, c, s)
    PROVE  x.site = c
  BY DEF StreamFor

LEMMA InPlaceInv ==
    ASSUME NavInv, Escape \/ OpenPalette \/ TypeFilter \/ RowsArrive \/ \E t \in AllTabs : TabClick(t)
    PROVE  NavInv'
<1> USE DEF NavInv, NavTypeOK, WindowFits, TabInv, StreamInv
<1>1. CASE Escape
  <2>1. CASE CloseButton
    BY <2>1, ChoiceInv
  <2>2. CASE /\ UNCHANGED <<place, site, space, picked, drawerTab, subscribed, rowsOf, tallies, kept>>
             /\ palette' \in BOOLEAN /\ filter' \in {filter, ""}
    BY <2>2
  <2> QED
    BY <1>1, <2>1, <2>2 DEF Escape
<1>2. CASE OpenPalette
  BY <1>2 DEF OpenPalette
<1>3. CASE TypeFilter
  BY <1>3 DEF TypeFilter
<1>4. CASE RowsArrive
  <2>1. PICK x \in subscribed :
           /\ rowsOf' = [kind |-> place, site |-> x.site, space |-> x.space]
           /\ tallies' = tallies \cup {[site |-> x.site, late |-> x # StreamFor(place, site, space)]}
    BY <1>4 DEF RowsArrive
  <2>2. UNCHANGED <<place, site, space, picked, drawerTab, subscribed, filter, palette, kept>>
    BY <1>4 DEF RowsArrive
  <2>3. place \in Tables \cup Doorways /\ x.site \in Sites /\ x.space \in Spaces
    BY DEF Places
  <2>4. rowsOf' \in Shown /\ rowsOf'.kind = place
    BY <2>1, <2>3 DEF Shown
  <2> DEFINE tardy == x # StreamFor(place, site, space)
             new   == [site |-> x.site, late |-> tardy]
  <2>5. tardy \in BOOLEAN
    OBVIOUS
  <2>6. tallies' = tallies \cup {new}
    BY <2>1
  <2>7. ~ tardy => x.site = site
    BY StreamSite
  <2> HIDE DEF tardy
  <2>8. new \in Tally /\ (new.late \/ new.site = site)
    <3>1. new.site = x.site
      OBVIOUS
    <3>2. CASE tardy = TRUE
      <4>1. new = [site |-> x.site, late |-> TRUE]
        BY <3>2
      <4> HIDE DEF new
      <4> QED
        BY <2>3, <4>1 DEF Tally
    <3>3. CASE tardy = FALSE
      <4>1. new = [site |-> x.site, late |-> FALSE]
        BY <3>3
      <4>2. x.site = site
        BY <2>7, <3>3
      <4> HIDE DEF new
      <4> QED
        BY <2>3, <3>1, <4>1, <4>2 DEF Tally
    <3> QED
      BY <2>5, <3>2, <3>3
  <2> HIDE DEF new
  <2>9. NavTypeOK'
    BY <2>2, <2>4, <2>6, <2>8 DEF Shown
  <2>10. \A c \in tallies' : c.late \/ c.site = site
    BY <2>6, <2>8
  <2>11. TabInv' /\ StreamInv'
    BY <2>2 DEF TabsOf
  <2>12. WindowFits'
    BY <2>2, <2>4, <2>10 DEF TabsOf
  <2> QED
    BY <2>9, <2>11, <2>12
<1>5. ASSUME NEW t \in AllTabs, TabClick(t) PROVE NavInv'
  BY <1>5 DEF TabClick
<1> QED
  BY <1>1, <1>2, <1>3, <1>4, <1>5

LEMMA NavStep == NavInv /\ [NavNext]_nav => NavInv'
<1> SUFFICES ASSUME NavInv, [NavNext]_nav PROVE NavInv'
  OBVIOUS
<1>1. CASE UNCHANGED nav
  BY <1>1 DEF nav, NavInv, NavTypeOK, TabInv, StreamInv, WindowFits
<1>2. CASE NavNext
  BY <1>2, ChoiceInv, OpenInv, InPlaceInv DEF NavNext
<1> QED
  BY <1>1, <1>2

(***************************************************************************)
(* The window's state keeps its types, for any clusters and namespaces.    *)
(***************************************************************************)
THEOREM NavTyping == NavSpec => []NavTypeOK
<1>1. NavInv => NavTypeOK
  BY DEF NavInv
<1> QED
  BY <1>1, NavStart, NavStep, PTL DEF NavSpec

(***************************************************************************)
(* Whatever is clicked, in any order, and whichever of a table's           *)
(* subscriptions its rows come of, the watchers leave a drawer on a tab    *)
(* its kind has, rows of the table's kind, a filter of the screen, counts  *)
(* of the cluster but for rows that came late, and a selection of the      *)
(* table's kind, unless the palette moved the screen.                      *)
(***************************************************************************)
THEOREM NavigationFits == NavSpec => []WindowFits
<1>1. NavInv => WindowFits
  BY DEF NavInv
<1> QED
  BY <1>1, NavStart, NavStep, PTL DEF NavSpec

-----------------------------------------------------------------------------
(***************************************************************************)
(* Proofs about ChangeReview, for any number of changes and of list        *)
(* requests under way.                                                     *)
(*                                                                         *)
(* The argument: the dialog has at most one decision under way, and is     *)
(* busy from Act until the list that decision asked for lands (BusyInv);   *)
(* an answer is what the gate holds, which no longer moves once it is an   *)
(* outcome (DecidedInv, ToldInv); and the newest list, asked for, on the    *)
(* way or shown, was or will be taken after every outcome told (ListInv).  *)
(***************************************************************************)

BusyInv ==
    /\ busy <=> (decisions # {} \/ awaits > 0)
    /\ decisions # {} => awaits = 0
    /\ \A r, q \in decisions : r = q
    /\ awaits <= listAsks + Len(lists)

DecidedInv ==
    \A r \in decisions :
        /\ r.answer = "executing" => gate[r.change] = "approved"
        /\ r.answer \in Ends => gate[r.change] = r.answer

ToldInv == \A t \in told : gate[t.change] = t.status

ListInv ==
    \A t \in told :
        \/ listAsks > 0
        \/ lists # <<>> /\ lists[Len(lists)][t.change] = t.status
        \/ lists = <<>> /\ listed[t.change] = t.status

ReviewInv == ReviewTypeOK /\ BusyInv /\ DecidedInv /\ ToldInv /\ ListInv

-----------------------------------------------------------------------------

\* A change of the gate leaves every outcome where it is.
GateKeepsEnds == \A c \in Changes : gate[c] \in Ends => gate'[c] = gate[c]

\* The gate's three ways with a decision, each with its answer.
LEMMA DecidesFacts ==
    ASSUME ReviewTypeOK, NEW r \in decisions, GateDecides(r)
    PROVE  /\ r.answer = "" /\ UNCHANGED <<busy, awaits, listAsks, lists, listed, told>>
           /\ \/ gate' = gate /\ Answers(r, "refused")
              \/ /\ gate[r.change] = "pending" /\ gate' = [gate EXCEPT ![r.change] = "approved"]
                 /\ Answers(r, "executing")
              \/ /\ gate[r.change] = "pending" /\ gate' = [gate EXCEPT ![r.change] = "rejected"]
                 /\ \E s \in {"refused", "rejected"} : Answers(r, s)
           /\ UNCHANGED <<proposals, dialog, drafting>>
  BY DEF GateDecides, Refusable

LEMMA GateSettles ==
    ASSUME ReviewInv, [ReviewNext]_review
    PROVE  GateKeepsEnds
<1> USE DEF GateKeepsEnds
<1>1. ASSUME NEW c \in Changes, GateProposes(c) \/ OtherDecides(c) PROVE GateKeepsEnds
  BY <1>1 DEF GateProposes, OtherDecides, ReviewInv, ReviewTypeOK, Ends, Statuses
<1>2. ASSUME NEW r \in decisions, GateDecides(r) PROVE GateKeepsEnds
  BY <1>2, DecidesFacts DEF ReviewInv, ReviewTypeOK, Ends
<1>3. ASSUME NEW r \in decisions, GateEnds(r) PROVE GateKeepsEnds
  BY <1>3 DEF GateEnds, ReviewInv, ReviewTypeOK, DecidedInv, Decision, Ends, Statuses
<1>4. CASE UNCHANGED gate
  BY <1>4
<1>5. QED
  BY <1>1, <1>2, <1>3, <1>4 DEF ReviewNext, review, Propose, Proposed, SaveDraft, Review, Act,
     Decided, DecisionRefused, Draft, Cancel, AskList, ListChanges, ListLanded

\* A list taken from the front leaves the last one last, or shown.
LEMMA LandedFacts ==
    ASSUME ReviewTypeOK, ListLanded
    PROVE  /\ lists' \in Seq([Changes -> Statuses]) /\ Len(lists') = Len(lists) - 1
           /\ listed' \in [Changes -> Statuses] /\ Len(lists) \in Nat \ {0}
           /\ lists' # <<>> => lists'[Len(lists')] = lists[Len(lists)]
           /\ lists' = <<>> => listed' = lists[Len(lists)]
<1>1. lists \in Seq([Changes -> Statuses]) /\ lists # <<>> /\ lists' = Tail(lists) /\ listed' = Head(lists)
  BY DEF ReviewTypeOK, ListLanded
<1>2. /\ Tail(lists) \in Seq([Changes -> Statuses]) /\ Len(Tail(lists)) = Len(lists) - 1
      /\ \A i \in 1 .. Len(Tail(lists)) : Tail(lists)[i] = lists[i + 1]
  BY <1>1, HeadTailProperties
<1>3. Len(lists) \in Nat \ {0} /\ Head(lists) = lists[1] /\ Head(lists) \in [Changes -> Statuses]
  BY <1>1, HeadTailProperties, EmptySeq
<1>4. lists' = <<>> => lists[1] = lists[Len(lists)]
  <2>1. lists' = <<>> => Len(Tail(lists)) = 0
    BY <1>1, EmptySeq
  <2>2. Len(Tail(lists)) = Len(lists) - 1 /\ Len(lists) \in Nat
    BY <1>2, <1>3
  <2>3. lists' = <<>> => Len(lists) = 1
    BY <2>1, <2>2
  <2> QED
    BY <2>3
<1>5. lists' # <<>> => Tail(lists)[Len(Tail(lists))] = lists[Len(lists)]
  <2>1. lists' # <<>> => Len(Tail(lists)) \in 1 .. Len(Tail(lists))
    BY <1>1, <1>2, EmptySeq
  <2> QED
    BY <1>2, <1>3, <2>1
<1> QED
  BY <1>1, <1>2, <1>3, <1>4, <1>5

LEMMA AskedFacts ==
    ASSUME ReviewTypeOK, ListChanges
    PROVE  /\ lists' \in Seq([Changes -> Statuses]) /\ Len(lists') = Len(lists) + 1
           /\ lists' # <<>> /\ lists'[Len(lists')] = gate
           /\ listAsks \in Nat /\ listAsks' = listAsks - 1 /\ Len(lists) \in Nat
  BY DEF ReviewTypeOK, ListChanges

\* What a decision becomes.
LEMMA AnswersFacts ==
    ASSUME ReviewTypeOK, NEW r \in decisions, NEW s \in Ends \cup {"executing", "refused"}, Answers(r, s)
    PROVE  /\ decisions' \subseteq Decision
           /\ [r EXCEPT !.answer = s].change = r.change
           /\ [r EXCEPT !.answer = s].answer = s
           /\ decisions' = (decisions \ {r}) \cup {[r EXCEPT !.answer = s]}
  BY DEF ReviewTypeOK, Decision, Answers

-----------------------------------------------------------------------------

LEMMA ReviewStart == ReviewInit => ReviewInv
<1> SUFFICES ASSUME ReviewInit PROVE ReviewInv
  OBVIOUS
<1> USE DEF ReviewInit
<1>1. gate \in [Changes -> Statuses] /\ listed \in [Changes -> Statuses]
  BY DEF Statuses
<1>2. lists \in Seq([Changes -> Statuses]) /\ Len(lists) = 0
  BY EmptySeq
<1>3. ReviewTypeOK
  <2>1. listAsks \in 0 .. MaxLists /\ awaits \in 0 .. MaxLists
    BY ReviewAssumption
  <2>2. decisions \subseteq Decision /\ told \subseteq [change : Changes, status : Ends] /\ proposals \subseteq Changes
    OBVIOUS
  <2>3. dialog \in Changes \cup {NoChange} /\ drafting \in BOOLEAN /\ busy \in BOOLEAN
    OBVIOUS
  <2> QED
    BY <1>1, <1>2, <2>1, <2>2, <2>3 DEF ReviewTypeOK
<1>4. BusyInv
  BY <1>2 DEF BusyInv
<1>5. DecidedInv /\ ToldInv /\ ListInv
  BY DEF DecidedInv, ToldInv, ListInv
<1> QED
  BY <1>3, <1>4, <1>5 DEF ReviewInv

LEMMA ReviewTypes ==
    ASSUME ReviewInv, [ReviewNext]_review
    PROVE  ReviewTypeOK'
<1> USE ReviewAssumption DEF ReviewInv, ReviewTypeOK
<1>1. ASSUME NEW c \in Changes, Propose(c) \/ Proposed(c) \/ SaveDraft(c) \/ Review(c) PROVE ReviewTypeOK'
  BY <1>1 DEF Propose, Proposed, SaveDraft, Review
<1>2. ASSUME NEW c \in Changes, GateProposes(c) \/ OtherDecides(c) PROVE ReviewTypeOK'
  BY <1>2 DEF GateProposes, OtherDecides, Statuses
<1>3. ASSUME NEW d \in BOOLEAN, Act(d) PROVE ReviewTypeOK'
  <2>1. [change |-> dialog, approve |-> d, answer |-> ""] \in Decision
    BY <1>3 DEF Act, Decision
  <2> QED
    BY <1>3, <2>1 DEF Act
<1>4. ASSUME NEW r \in decisions, GateDecides(r) PROVE ReviewTypeOK'
  <2>1. /\ gate' \in [Changes -> Statuses]
        /\ UNCHANGED <<proposals, dialog, drafting, busy, listAsks, lists, listed, awaits, told>>
    BY <1>4, DecidesFacts DEF Statuses
  <2>2. \E s \in Ends \cup {"executing", "refused"} : Answers(r, s)
    BY <1>4, DecidesFacts DEF Ends
  <2> QED
    BY <2>1, <2>2, AnswersFacts
<1>5. ASSUME NEW r \in decisions, GateEnds(r) PROVE ReviewTypeOK'
  <2>1. /\ gate' \in [Changes -> Statuses]
        /\ UNCHANGED <<proposals, dialog, drafting, busy, listAsks, lists, listed, awaits, told>>
    BY <1>5 DEF GateEnds, Statuses
  <2>2. \E s \in Ends \cup {"executing", "refused"} : Answers(r, s)
    BY <1>5 DEF GateEnds, Refusable, Ends
  <2> QED
    BY <2>1, <2>2, AnswersFacts
<1>6. ASSUME NEW r \in decisions, Decided(r) PROVE ReviewTypeOK'
  <2>1. Len(lists) \in Nat
    OBVIOUS
  <2>2. listAsks' \in 0 .. MaxLists /\ awaits' \in 0 .. MaxLists
    BY <1>6, <2>1 DEF Decided
  <2>3. told' \subseteq [change : Changes, status : Ends]
    <3>1. r.change \in Changes /\ r.answer \in Ends
      BY <1>6 DEF Decided, Decision
    <3>2. told' = told \cup {[change |-> r.change, status |-> r.answer]}
      BY <1>6 DEF Decided
    <3> QED
      BY <3>1, <3>2
  <2> QED
    BY <1>6, <2>2, <2>3 DEF Decided
<1>7. ASSUME NEW r \in decisions, DecisionRefused(r) PROVE ReviewTypeOK'
  BY <1>7 DEF DecisionRefused
<1>8. CASE Draft \/ Cancel
  BY <1>8 DEF Draft, Cancel
<1>9. CASE AskList
  <2>1. Len(lists) \in Nat
    OBVIOUS
  <2> QED
    BY <1>9, <2>1 DEF AskList
<1>10. CASE ListChanges
  BY <1>10, AskedFacts DEF ListChanges
<1>11. CASE ListLanded
  BY <1>11, LandedFacts DEF ListLanded
<1>12. CASE UNCHANGED review
  BY <1>12 DEF review
<1> QED
  BY <1>1, <1>2, <1>3, <1>4, <1>5, <1>6, <1>7, <1>8, <1>9, <1>10, <1>11, <1>12 DEF ReviewNext

LEMMA ReviewBusy ==
    ASSUME ReviewInv, [ReviewNext]_review
    PROVE  BusyInv'
<1> USE DEF ReviewInv, BusyInv
<1>0. Len(lists) \in Nat /\ listAsks \in Nat /\ awaits \in Nat /\ busy \in BOOLEAN
  BY ReviewAssumption DEF ReviewTypeOK
<1>1. CASE UNCHANGED <<busy, decisions, awaits, listAsks, lists>>
  BY <1>1
<1>2. ASSUME NEW d \in BOOLEAN, Act(d) PROVE BusyInv'
  <2>0. ~ busy /\ busy' = TRUE /\ UNCHANGED <<listAsks, lists, awaits>>
    BY <1>2 DEF Act
  <2>1. decisions = {} /\ awaits = 0
    BY <1>0, <2>0
  <2>2. \E x : decisions' = {x}
    BY <1>2, <2>1 DEF Act
  <2> QED
    BY <1>0, <2>0, <2>1, <2>2
<1>3. ASSUME NEW r \in decisions, GateDecides(r) \/ GateEnds(r) PROVE BusyInv'
  <2>1. UNCHANGED <<busy, awaits, listAsks, lists>>
    BY <1>3, DecidesFacts DEF GateEnds
  <2>2. \E s : Answers(r, s)
    BY <1>3, DecidesFacts DEF GateEnds
  <2>3. \E x : decisions' = {x}
    BY <2>2 DEF Answers
  <2> QED
    BY <2>1, <2>3
<1>4. ASSUME NEW r \in decisions, Decided(r) PROVE BusyInv'
  BY <1>0, <1>4 DEF Decided
<1>5. ASSUME NEW r \in decisions, DecisionRefused(r) PROVE BusyInv'
  BY <1>0, <1>5 DEF DecisionRefused
<1>6. CASE AskList
  BY <1>0, <1>6 DEF AskList
<1>7. CASE ListChanges
  BY <1>0, <1>7, AskedFacts DEF ListChanges
<1>8. CASE ListLanded
  <2>1. Len(lists') = Len(lists) - 1 /\ Len(lists) >= 1 /\ UNCHANGED <<listAsks, decisions>>
    BY <1>0, <1>8, LandedFacts DEF ListLanded
  <2>2. CASE awaits = 0
    <3>1. awaits' = 0 /\ busy' = busy
      BY <1>0, <1>8, <2>2 DEF ListLanded
    <3> QED
      BY <1>0, <2>1, <2>2, <3>1
  <2>3. CASE awaits = 1
    <3>0. decisions = {}
      BY <2>3
    <3>1. awaits' = 0
      BY <1>8, <2>3 DEF ListLanded
    <3>2. busy' = (busy /\ awaits # 1)
      BY <1>8 DEF ListLanded
    <3>3. ~ busy'
      BY <2>3, <3>2, Zenon
    <3> QED
      BY <1>0, <2>1, <2>3, <3>0, <3>1, <3>3
  <2>4. CASE awaits > 1
    <3>1. awaits' = awaits - 1 /\ busy' = busy
      BY <1>0, <1>8, <2>4 DEF ListLanded
    <3> QED
      BY <1>0, <2>1, <2>4, <3>1
  <2> QED
    BY <1>0, <2>2, <2>3, <2>4
<1> QED
  BY <1>1, <1>2, <1>3, <1>4, <1>5, <1>6, <1>7, <1>8 DEF ReviewNext, review, Propose, GateProposes,
     OtherDecides, Proposed, SaveDraft, Review, Draft, Cancel

\* The one decision under way, answered as the gate now stands.
LEMMA AnswerOnly ==
    ASSUME ReviewTypeOK, NEW r, decisions = {r}, NEW s \in Ends \cup {"executing", "refused"}, Answers(r, s),
           s = "executing" => gate'[r.change] = "approved",
           s \in Ends => gate'[r.change] = s
    PROVE  DecidedInv'
<1>1. [r EXCEPT !.answer = s].change = r.change /\ [r EXCEPT !.answer = s].answer = s
  BY AnswersFacts
<1>2. decisions' = {[r EXCEPT !.answer = s]}
  BY DEF Answers
<1> QED
  BY <1>1, <1>2 DEF DecidedInv

LEMMA ReviewAnswer ==
    ASSUME ReviewInv, [ReviewNext]_review
    PROVE  DecidedInv'
<1> USE DEF ReviewInv, DecidedInv
<1>1. CASE UNCHANGED <<decisions, gate>>
  BY <1>1
<1>2. ASSUME NEW c \in Changes, GateProposes(c) \/ OtherDecides(c) PROVE DecidedInv'
  <2>1. decisions' = decisions /\ gate[c] \in {"none", "pending"} /\ \A x \in Changes : x # c => gate'[x] = gate[x]
    BY <1>2 DEF GateProposes, OtherDecides, ReviewTypeOK
  <2>2. \A r \in decisions : r.change \in Changes
    BY DEF ReviewTypeOK, Decision
  <2> QED
    BY <2>1, <2>2 DEF Ends
<1>3. ASSUME NEW d \in BOOLEAN, Act(d) PROVE DecidedInv'
  <2>1. /\ gate' = gate
        /\ decisions' = decisions \cup {[change |-> dialog, approve |-> d, answer |-> ""]}
    BY <1>3 DEF Act
  <2>2. [change |-> dialog, approve |-> d, answer |-> ""].answer \notin Ends \cup {"executing"}
    BY DEF Ends
  <2>3. \A r \in decisions' : r \in decisions \/ r.answer \notin Ends \cup {"executing"}
    BY <2>1, <2>2
  <2> QED
    BY <2>1, <2>3
<1>4. ASSUME NEW r \in decisions, GateDecides(r) PROVE DecidedInv'
  <2>1. r.change \in Changes /\ decisions = {r}
    BY DEF ReviewTypeOK, Decision, BusyInv
  <2>2. \E s \in Ends \cup {"executing", "refused"} :
             /\ Answers(r, s)
             /\ s = "executing" => gate'[r.change] = "approved"
             /\ s \in Ends => gate'[r.change] = s
    <3>1. gate \in [Changes -> Statuses]
      BY DEF ReviewTypeOK
    <3>2. CASE Answers(r, "refused")
      BY <3>2 DEF Ends
    <3>3. CASE gate' = [gate EXCEPT ![r.change] = "approved"] /\ Answers(r, "executing")
      BY <2>1, <3>1, <3>3 DEF Ends
    <3>4. CASE gate' = [gate EXCEPT ![r.change] = "rejected"] /\ Answers(r, "rejected")
      BY <2>1, <3>1, <3>4 DEF Ends
    <3> QED
      BY <1>4, <3>2, <3>3, <3>4, DecidesFacts
  <2> QED
    BY <2>1, <2>2, AnswerOnly
<1>5. ASSUME NEW r \in decisions, GateEnds(r) PROVE DecidedInv'
  <2>1. r.change \in Changes /\ decisions = {r}
    BY DEF ReviewTypeOK, Decision, BusyInv
  <2>2. \E s \in Ends \cup {"executing", "refused"} :
             /\ Answers(r, s)
             /\ s = "executing" => gate'[r.change] = "approved"
             /\ s \in Ends => gate'[r.change] = s
    BY <1>5, <2>1 DEF GateEnds, Refusable, ReviewTypeOK, Ends
  <2> QED
    BY <2>1, <2>2, AnswerOnly
<1>6. ASSUME NEW r \in decisions, Decided(r) \/ DecisionRefused(r) PROVE DecidedInv'
  BY <1>6 DEF Decided, DecisionRefused
<1> QED
  BY <1>1, <1>2, <1>3, <1>4, <1>5, <1>6 DEF ReviewNext, review, Propose, Proposed, SaveDraft, Review,
     Draft, Cancel, AskList, ListChanges, ListLanded

LEMMA ReviewTold ==
    ASSUME ReviewInv, [ReviewNext]_review
    PROVE  ToldInv'
<1> USE DEF ReviewInv, ToldInv
<1>0. \A t \in told : t.change \in Changes /\ t.status \in Ends
  BY DEF ReviewTypeOK
<1>1. CASE UNCHANGED told
  BY <1>0, <1>1, GateSettles DEF GateKeepsEnds
<1>2. ASSUME NEW r \in decisions, Decided(r) PROVE ToldInv'
  BY <1>2 DEF Decided, DecidedInv
<1> QED
  BY <1>1, <1>2 DEF ReviewNext, review, Propose, GateProposes, OtherDecides, Proposed, SaveDraft, Review,
     Act, GateDecides, GateEnds, DecisionRefused, Draft, Cancel, AskList, ListChanges, ListLanded

LEMMA ReviewList ==
    ASSUME ReviewInv, [ReviewNext]_review
    PROVE  ListInv'
<1> USE DEF ReviewInv, ListInv
<1>0. listAsks \in Nat
  BY ReviewAssumption DEF ReviewTypeOK
<1>1. CASE UNCHANGED <<told, lists, listed>> /\ listAsks' >= listAsks
  BY <1>0, <1>1, ReviewTypes, ReviewAssumption DEF ReviewTypeOK
<1>2. ASSUME NEW r \in decisions, Decided(r) PROVE ListInv'
  BY <1>0, <1>2 DEF Decided
<1>3. CASE ListChanges
  BY <1>3, AskedFacts DEF ListChanges, ToldInv
<1>4. CASE ListLanded
  BY <1>4, LandedFacts DEF ListLanded
<1>5. ASSUME NEW r \in decisions, GateDecides(r) \/ GateEnds(r) PROVE ListInv'
  <2>1. UNCHANGED <<told, lists, listed, listAsks>>
    BY <1>5, DecidesFacts DEF GateEnds
  <2> QED
    BY <1>0, <1>1, <2>1
<1>6. CASE AskList
  BY <1>0, <1>1, <1>6 DEF AskList
<1> QED
  BY <1>0, <1>1, <1>2, <1>3, <1>4, <1>5, <1>6 DEF ReviewNext, review, Propose, GateProposes, OtherDecides,
     Proposed, SaveDraft, Review, Act, DecisionRefused, Draft, Cancel

LEMMA ReviewStep == ReviewInv /\ [ReviewNext]_review => ReviewInv'
  BY ReviewTypes, ReviewBusy, ReviewAnswer, ReviewTold, ReviewList DEF ReviewInv

LEMMA ReviewSuffices == ReviewInv => ReviewIsTrue
<1> SUFFICES ASSUME ReviewInv PROVE ReviewIsTrue
  OBVIOUS
<1>1. \A t \in told : gate[t.change] = t.status
  BY DEF ReviewInv, ToldInv
<1>2. ASSUME decisions = {}, listAsks = 0, lists = <<>>
      PROVE  (\A t \in told : listed[t.change] = t.status) /\ ~ busy
  <2>1. \A t \in told : listed[t.change] = t.status
    BY <1>2 DEF ReviewInv, ListInv
  <2>2. awaits = 0
    BY <1>2, ReviewAssumption DEF ReviewInv, BusyInv, ReviewTypeOK
  <2> QED
    BY <1>2, <2>1, <2>2 DEF ReviewInv, BusyInv
<1> QED
  BY <1>1, <1>2 DEF ReviewIsTrue

(***************************************************************************)
(* What the window remembers of changes, decisions and lists has its type, *)
(* however many changes there are.                                         *)
(***************************************************************************)
THEOREM ReviewTyping == ReviewSpec => []ReviewTypeOK
<1>1. ReviewInv => ReviewTypeOK
  BY DEF ReviewInv
<1> QED
  BY <1>1, ReviewStart, ReviewStep, PTL DEF ReviewSpec

(***************************************************************************)
(* A toast never tells another outcome than the gate gave, the list shows  *)
(* what was told once nothing is under way, and the dialog is not left     *)
(* busy: for any number of changes, decisions and lists.                   *)
(***************************************************************************)
THEOREM ReviewCorrect == ReviewSpec => []ReviewIsTrue
  BY ReviewStart, ReviewStep, ReviewSuffices, PTL DEF ReviewSpec

-----------------------------------------------------------------------------
(***************************************************************************)
(* Proofs about OverviewClaims, for any pods, deployments and nodes.  Each *)
(* claim is about how many rows are of a health; a count is positive when  *)
(* there is such a row, and the lines of the attention list about a kind   *)
(* are as many as its rows that count as wrong.                            *)
(***************************************************************************)
OverviewTyped == OverviewTypeOK /\ health = [f \in Feeds |-> health[f]]

LEMMA FeedFacts ==
    /\ NamesOf["pods"] = PodNames /\ NamesOf["deployments"] = DeploymentNames /\ NamesOf["nodes"] = NodeNames
    /\ \A f \in Feeds : IsFiniteSet(NamesOf[f])
    /\ \A f \in Feeds : Nothing(f) \in [NamesOf[f] -> Healths[f] \cup {"gone"}]
    /\ \A a \in Ages : a < Buckets => a + 1 \in Ages
    /\ {-1, 0} \subseteq Ages
<1>1. NamesOf["pods"] = PodNames /\ NamesOf["deployments"] = DeploymentNames /\ NamesOf["nodes"] = NodeNames
  BY DEF NamesOf
<1>2. \A f \in Feeds : IsFiniteSet(NamesOf[f])
  BY <1>1, OverviewAssumption DEF Feeds
<1>3. \A f \in Feeds : Nothing(f) \in [NamesOf[f] -> Healths[f] \cup {"gone"}]
  BY DEF Nothing
<1>4. Buckets \in Nat \ {0}
  BY OverviewAssumption
<1>5. (\A a \in Ages : a < Buckets => a + 1 \in Ages) /\ {-1, 0} \subseteq Ages
  BY <1>4 DEF Ages
<1> QED
  BY <1>1, <1>2, <1>3, <1>5

LEMMA OverviewStarts == OverviewInit => OverviewTyped
  BY FeedFacts DEF OverviewInit, OverviewTyped, OverviewTypeOK

LEMMA OverviewSteps == OverviewTyped /\ [OverviewNext]_overview => OverviewTyped'
<1> SUFFICES ASSUME OverviewTyped, [OverviewNext]_overview PROVE OverviewTyped'
  OBVIOUS
<1>1. ASSUME NEW f \in Feeds, Snapshot(f) PROVE OverviewTyped'
  <2>1. PICK h \in [NamesOf[f] -> Healths[f] \cup {"gone"}] : health' = [health EXCEPT ![f] = h]
    BY <1>1 DEF Snapshot
  <2> QED
    BY <1>1, <2>1 DEF Snapshot, OverviewTyped, OverviewTypeOK
<1>2. ASSUME NEW f \in Feeds, NEW n \in NamesOf[f], Delta(f, n) PROVE OverviewTyped'
  <2>1. PICK h \in Healths[f] \cup {"gone"} : health' = [health EXCEPT ![f][n] = h]
    BY <1>2 DEF Delta
  <2> DEFINE g == [health[f] EXCEPT ![n] = h]
  <2>2. g \in [NamesOf[f] -> Healths[f] \cup {"gone"}]
    BY DEF OverviewTyped, OverviewTypeOK
  <2>3. health' = [health EXCEPT ![f] = g]
    BY <2>1 DEF OverviewTyped, OverviewTypeOK
  <2> HIDE DEF g
  <2> QED
    BY <1>2, <2>2, <2>3 DEF Delta, OverviewTyped, OverviewTypeOK
<1>3. ASSUME NEW fs, Rescope(fs) PROVE OverviewTyped'
  BY <1>3, FeedFacts DEF Rescope, OverviewTyped, OverviewTypeOK
<1>4. CASE Warned \/ Tick
  BY <1>4, FeedFacts DEF Warned, Tick, OverviewTyped, OverviewTypeOK
<1>5. CASE UNCHANGED overview
  BY <1>5 DEF overview, OverviewTyped, OverviewTypeOK
<1> QED
  BY <1>1, <1>2, <1>3, <1>4, <1>5 DEF OverviewNext

LEMMA Counts ==
    ASSUME NEW f \in Feeds, NEW hs
    PROVE  IsFiniteSet(InHealth(f, hs)) /\ CountOf(f, hs) \in Nat /\ (CountOf(f, hs) > 0 <=> InHealth(f, hs) # {})
<1>1. IsFiniteSet(InHealth(f, hs))
  BY FeedFacts, FS_Subset DEF InHealth
<1> QED
  BY <1>1, FS_CardinalityType, FS_EmptySet DEF CountOf

\* The rows of a health of one of two kinds, counted.
LEMMA CountsAdd ==
    ASSUME NEW f \in Feeds, NEW gs, NEW hs, gs \cap hs = {}
    PROVE  CountOf(f, gs \cup hs) = CountOf(f, gs) + CountOf(f, hs)
<1> DEFINE G == InHealth(f, gs)
           H == InHealth(f, hs)
<1>1. InHealth(f, gs \cup hs) = G \cup H /\ G \cap H = {}
  BY DEF InHealth
<1>2. IsFiniteSet(G) /\ IsFiniteSet(H) /\ Cardinality(G) \in Nat /\ Cardinality(H) \in Nat
  BY Counts DEF CountOf
<1> HIDE DEF G, H
<1>3. Cardinality(G \cup H) = Cardinality(G) + Cardinality(H) - Cardinality(G \cap H)
  BY <1>2, FS_Union
<1>4. Cardinality(G \cap H) = 0
  <2>1. Cardinality({}) = 0
    BY FS_EmptySet
  <2>2. G \cap H = {}
    BY <1>1
  <2> QED
    BY <2>1, <2>2, Zenon
<1>5. Cardinality(G \cup H) = Cardinality(G) + Cardinality(H)
  BY <1>2, <1>3, <1>4
<1> QED
  BY <1>1, <1>5 DEF CountOf, G, H

Wrong(f) == IF f = "pods" THEN {"bad"} ELSE {"warn", "bad"}

LEMMA LinesOf ==
    ASSUME NEW f \in Feeds
    PROVE  Cardinality({a \in attention : a[1] = f}) = CountOf(f, Wrong(f))
<1> DEFINE S == InHealth(f, Wrong(f))
           T == {a \in attention : a[1] = f}
           g == [n \in S |-> <<f, n>>]
<1>1. \A n \in S : <<f, n>> \in T
  BY DEF attention, Wrong, InHealth
<1>2. \A a \in T : a[2] \in S /\ a = <<f, a[2]>>
  BY DEF attention, Wrong, InHealth
<1>3. g \in Bijection(S, T)
  <2>1. g \in [S -> T]
    BY <1>1
  <2>2. \A m, n \in S : g[m] = g[n] => m = n
    OBVIOUS
  <2>3. \A a \in T : \E n \in S : g[n] = a
    BY <1>2
  <2> HIDE DEF S, T, g
  <2> QED
    BY <2>1, <2>2, <2>3 DEF Bijection, Injection, Surjection, IsInjective
<1>4. IsFiniteSet(S)
  BY Counts
<1> HIDE DEF S, T, g
<1>5. Cardinality(T) = Cardinality(S)
  BY <1>3, <1>4, FS_Bijection DEF ExistsBijection
<1> QED
  BY <1>5 DEF S, T, CountOf

\* The sentence, by the numbers it is made of.
LEMMA SentenceFacts ==
    ASSUME podsBad \in Nat, podsWarn \in Nat, depsBad \in Nat, nodesBad \in Nat, podsRunning \in Nat,
           podsTotal = podsRunning + podsWarn + podsBad
    PROVE  /\ podsBad > 0 => <<"pods", podsBad>> \in sentence.says
           /\ depsBad > 0 => <<"deployments", depsBad>> \in sentence.says
           /\ nodesBad > 0 => <<"nodes", nodesBad>> \in sentence.says
           /\ sentence.lead = "all" => podsRunning = podsTotal /\ nodesBad = 0
           /\ sentence.lead = "partly" => podsRunning + podsWarn = podsTotal
<1>1. CASE podsBad > 0
  <2>1. sentence = Clauses("failing", {<<"pods", podsBad>>, <<"deployments", depsBad>>, <<"nodes", nodesBad>>})
    BY <1>1 DEF sentence
  <2> QED
    BY <1>1, <2>1 DEF Clauses
<1>2. CASE podsBad = 0 /\ (depsBad > 0 \/ nodesBad > 0)
  <2>1. podsBad + depsBad + nodesBad # 0 /\ podsBad + depsBad + nodesBad + podsTotal # 0 /\ ~ (podsBad > 0)
    BY <1>2
  <2>2. sentence = Clauses("degraded", {<<"deployments", depsBad>>, <<"nodes", nodesBad>>})
    BY <1>2, <2>1, Zenon DEF sentence
  <2> QED
    BY <1>2, <2>2 DEF Clauses
<1>3. CASE podsBad = 0 /\ depsBad = 0 /\ nodesBad = 0
  <2>1. CASE podsTotal = 0
    <3>1. sentence = Clauses("empty", {})
      BY <1>3, <2>1 DEF sentence
    <3> QED
      BY <1>3, <3>1 DEF Clauses
  <2>2. CASE podsTotal > 0 /\ podsWarn > 0
    <3>1. sentence.lead = "partly"
      BY <1>3, <2>2 DEF sentence, Clauses
    <3> QED
      BY <1>3, <3>1
  <2>3. CASE podsTotal > 0 /\ podsWarn = 0
    <3>1. sentence.lead = "all"
      BY <1>3, <2>3 DEF sentence, Clauses
    <3> QED
      BY <1>3, <2>3, <3>1
  <2> QED
    BY <2>1, <2>2, <2>3
<1> QED
  BY <1>1, <1>2, <1>3

LEMMA ClaimsFollow == ClaimsAgree
<1>0. "pods" \in Feeds /\ "deployments" \in Feeds /\ "nodes" \in Feeds
  BY DEF Feeds
<1>1. /\ podsBad = CountOf("pods", Wrong("pods")) /\ depsBad = CountOf("deployments", Wrong("deployments"))
      /\ nodesBad = CountOf("nodes", Wrong("nodes"))
  BY DEF podsBad, depsBad, nodesBad, Wrong
<1>2. podsBad \in Nat /\ podsWarn \in Nat /\ depsBad \in Nat /\ nodesBad \in Nat /\ podsRunning \in Nat
  BY <1>0, Counts DEF podsBad, podsWarn, depsBad, nodesBad, podsRunning
<1>3. podsTotal = podsRunning + podsWarn + podsBad
  <2>1. {"ok", "warn", "bad"} = ({"ok"} \cup {"warn"}) \cup {"bad"}
    OBVIOUS
  <2>2. CountOf("pods", {"ok"} \cup {"warn"}) = podsRunning + podsWarn
    BY <1>0, CountsAdd DEF podsRunning, podsWarn
  <2>3. CountOf("pods", ({"ok"} \cup {"warn"}) \cup {"bad"}) = CountOf("pods", {"ok"} \cup {"warn"}) + podsBad
    BY <1>0, CountsAdd DEF podsBad
  <2> QED
    BY <2>1, <2>2, <2>3 DEF podsTotal
<1>4. healthy <=> podsBad = 0 /\ depsBad = 0 /\ nodesBad = 0
  <2>1. healthy <=> /\ ~ (nodesBad > 0) /\ ~ (podsBad > 0) /\ ~ (depsBad > 0)
    <3>1. nodesBad > 0 <=> <<"nodes", nodesBad, "bad">> \in problems
      BY DEF problems
    <3>2. podsBad > 0 <=> <<"pods", podsBad, "bad">> \in problems
      BY DEF problems
    <3>3. depsBad > 0 <=> <<"deployments", depsBad, "bad">> \in problems
      BY DEF problems
    <3>4. \A p \in problems : \/ p[3] = "warn"
                             \/ p \in {<<"nodes", nodesBad, "bad">>, <<"pods", podsBad, "bad">>, <<"deployments", depsBad, "bad">>}
      BY DEF problems
    <3> QED
      BY <3>1, <3>2, <3>3, <3>4 DEF healthy
  <2> QED
    BY <1>2, <2>1
<1>5. attention = {} <=> podsBad = 0 /\ depsBad = 0 /\ nodesBad = 0
  <2>1. \A f \in Feeds : CountOf(f, Wrong(f)) = 0 <=> InHealth(f, Wrong(f)) = {}
    BY Counts
  <2>2. ASSUME NEW f \in Feeds, NEW n \in InHealth(f, Wrong(f)) PROVE <<f, n>> \in attention
    BY DEF attention, Wrong, InHealth
  <2>3. ASSUME NEW a \in attention PROVE a[1] \in Feeds /\ a[2] \in InHealth(a[1], Wrong(a[1]))
    BY DEF attention, Wrong
  <2>4. attention = {} <=> \A f \in Feeds : InHealth(f, Wrong(f)) = {}
    BY <2>2, <2>3
  <2> QED
    BY <1>1, <2>1, <2>4 DEF Feeds
<1>6. tone # "bad" <=> podsBad = 0 /\ depsBad = 0 /\ nodesBad = 0
  BY <1>2 DEF tone
<1>7. ASSUME NEW f \in Feeds, Cardinality({a \in attention : a[1] = f}) > 0
      PROVE  <<f, Cardinality({a \in attention : a[1] = f})>> \in sentence.says
  BY <1>1, <1>2, <1>3, <1>7, LinesOf, SentenceFacts DEF Feeds
<1> QED
  BY <1>2, <1>3, <1>4, <1>5, <1>6, <1>7, SentenceFacts DEF ClaimsAgree

\* However the four subscriptions fill and change: the overview's state has its type, and the pill,
\* the colour, the sentence and the attention list tell one story of it.
THEOREM OverviewCorrect == OverviewSpec => []OverviewTypeOK /\ []ClaimsAgree
<1>1. OverviewTyped => OverviewTypeOK
  BY DEF OverviewTyped
<1> QED
  BY <1>1, OverviewStarts, OverviewSteps, ClaimsFollow, PTL DEF OverviewSpec

\* Induction over a set of numbers: it has a least.
LEMMA LeastNumber ==
    ASSUME NEW T, T \subseteq Nat, T # {}
    PROVE  \E x \in T : \A y \in T : x <= y
<1> DEFINE R == {ss \in Nat \X Nat : ss[1] < ss[2]}
<1>0. IsWellFoundedOn(R, Nat)
  BY NatLessThanWellFounded DEF OpToRel
<1>1. \A x, y \in Nat : <<y, x>> \in R <=> y < x
  OBVIOUS
<1> HIDE DEF R
<1>2. PICK x \in T : \A y \in T : ~ (<<y, x>> \in R)
  BY <1>0, WFMin, Zenon
<1> QED
  <2>1. ASSUME NEW y \in T PROVE x <= y
    <3>1. x \in Nat /\ y \in Nat /\ ~ (y < x)
      BY <1>1, <1>2
    <3> QED
      BY <3>1
  <2> QED
    BY <2>1

\* What holds of zero and of the next of each it holds of holds of all: here of the members of a set.
LEMMA Inductive ==
    ASSUME NEW T, 0 \in T, \A n \in Nat : n \in T => n + 1 \in T
    PROVE  Nat \subseteq T
<1> DEFINE B == Nat \ T
<1>1. CASE B # {}
  <2>1. PICK x \in B : \A y \in B : x <= y
    <3>1. B \subseteq Nat
      OBVIOUS
    <3> HIDE DEF B
    <3> QED
      BY <1>1, <3>1, LeastNumber
  <2>2. x \in Nat /\ x # 0 /\ x \notin T
    OBVIOUS
  <2>3. x - 1 \in Nat /\ ~ (x <= x - 1) /\ (x - 1) + 1 = x
    BY <2>2
  <2>4. x - 1 \in T
    BY <2>1, <2>3
  <2> QED
    BY <2>2, <2>3, <2>4
<1> QED
  BY <1>1

\* A fold over a finite set, some element first: there is one.
FoldStep(base, step, pick, g, s) == IF s = {} THEN base ELSE step[<<pick[s], g[s \ {pick[s]}]>>]
Foldable(S, V, base, step, pick) ==
    /\ IsFiniteSet(S) /\ base \in V /\ step \in [S \X V -> V]
    /\ \A s \in SUBSET S : s # {} => pick[s] \in s
IsFold(g, S, V, base, step, pick) ==
    g \in [SUBSET S -> V] /\ \A s \in SUBSET S : g[s] = FoldStep(base, step, pick, g, s)
LEMMA FoldExists ==
    ASSUME NEW S, NEW V, NEW base, NEW step, NEW pick, Foldable(S, V, base, step, pick)
    PROVE  \E g : IsFold(g, S, V, base, step, pick)
<1> USE DEF Foldable
<1> DEFINE Upto(g, n) == \A s \in SUBSET S : Cardinality(s) <= n => g[s] = FoldStep(base, step, pick, g, s)
           T == {n \in Nat : \E g \in [SUBSET S -> V] : Upto(g, n)}
<1>0. \A s \in SUBSET S : IsFiniteSet(s) /\ Cardinality(s) \in Nat /\ (Cardinality(s) = 0 <=> s = {})
  BY FS_Subset, FS_CardinalityType, FS_EmptySet
<1>1. 0 \in T
  <2> DEFINE g == [s \in SUBSET S |-> base]
  <2>1. g \in [SUBSET S -> V] /\ Upto(g, 0)
    BY <1>0 DEF FoldStep
  <2> HIDE DEF g, Upto
  <2> QED
    BY <2>1
<1>2. ASSUME NEW n \in Nat, n \in T PROVE n + 1 \in T
  <2>1. PICK g \in [SUBSET S -> V] : Upto(g, n)
    BY <1>2
  <2> DEFINE h == [s \in SUBSET S |-> FoldStep(base, step, pick, g, s)]
  <2>2. \A s \in SUBSET S : FoldStep(base, step, pick, g, s) \in V
    BY DEF FoldStep
  <2>3. h \in [SUBSET S -> V]
    BY <2>2
  <2>4. ASSUME NEW s \in SUBSET S, Cardinality(s) <= n + 1 PROVE h[s] = FoldStep(base, step, pick, h, s)
    <3>1. CASE s = {}
      BY <3>1 DEF FoldStep
    <3>2. CASE s # {}
      <4> DEFINE r == s \ {pick[s]}
      <4>1. r \in SUBSET S /\ pick[s] \in s
        BY <3>2
      <4>2. Cardinality(r) = Cardinality(s) - 1
        BY <1>0, <4>1, FS_RemoveElement
      <4>3. Cardinality(r) <= n
        <5> HIDE DEF r
        <5> QED
          BY <1>0, <2>4, <4>1, <4>2
      <4>4. h[r] = g[r]
        BY <2>1, <4>1, <4>3
      <4>5. h[s] = step[<<pick[s], g[r]>>] /\ FoldStep(base, step, pick, h, s) = step[<<pick[s], h[r]>>]
        BY <3>2 DEF FoldStep
      <4> QED
        BY <4>4, <4>5
    <3> QED
      BY <3>1, <3>2
  <2>5. Upto(h, n + 1)
    BY <2>4
  <2> HIDE DEF h, Upto
  <2> QED
    BY <2>3, <2>5
<1>3. Cardinality(S) \in T
  <2> HIDE DEF T
  <2> QED
    BY <1>0, <1>1, <1>2, Inductive
<1>4. PICK g \in [SUBSET S -> V] : Upto(g, Cardinality(S))
  BY <1>3
<1>5. \A s \in SUBSET S : Cardinality(s) <= Cardinality(S)
  BY FS_Subset
<1> QED
  BY <1>4, <1>5 DEF IsFold

\* The prefixes of a fold from the left.
LEMMA PrefixMax ==
    ASSUME NEW n \in Nat
    PROVE  /\ \A s \in SUBSET (1 .. n) : s # {} => Seqs!Max(s) \in s
           /\ \A i \in 1 .. n : Seqs!Max(1 .. i) = i /\ (1 .. i) \ {i} = 1 .. i - 1
<1>1. ASSUME NEW s \in SUBSET (1 .. n), s # {} PROVE Seqs!Max(s) \in s
  <2> DEFINE B == {m \in Nat : \E x \in s : x = n - m}
  <2>1. PICK x \in s : TRUE
    BY <1>1
  <2>2. n - x \in B
    BY <2>1
  <2>3. PICK m \in B : \A k \in B : m <= k
    <3>1. B \subseteq Nat
      OBVIOUS
    <3> HIDE DEF B
    <3> QED
      BY <2>2, <3>1, LeastNumber
  <2>4. PICK y \in s : y = n - m
    BY <2>3
  <2>5. ASSUME NEW z \in s PROVE y >= z
    <3>1. n - z \in B
      OBVIOUS
    <3>2. m <= n - z
      BY <2>3, <3>1
    <3>3. y \in Nat /\ z \in Nat /\ m \in Nat
      OBVIOUS
    <3> QED
      BY <2>4, <3>2, <3>3
  <2> QED
    BY <2>5 DEF Seqs!Max
<1>2. ASSUME NEW i \in 1 .. n PROVE Seqs!Max(1 .. i) = i /\ (1 .. i) \ {i} = 1 .. i - 1
  <2>1. i \in 1 .. i /\ \A y \in 1 .. i : i >= y
    OBVIOUS
  <2>2. ASSUME NEW x \in 1 .. i, \A y \in 1 .. i : x >= y PROVE x = i
    BY <2>2
  <2>3. Seqs!Max(1 .. i) = i
    BY <2>1, <2>2 DEF Seqs!Max
  <2> QED
    BY <2>3
<1> QED
  BY <1>1, <1>2

\* A sum over a set, as the fold takes it: some element first, then the rest.
Picked(s) == CHOOSE x \in s : TRUE
Sums(f, g, S) == g = [s \in SUBSET S |-> IF s = {} THEN 0 ELSE f[Picked(s)] + g[s \ {Picked(s)}]]
\* Two functions that take the sum so are one: no smallest set tells them apart.
LEMMA SumsAgree ==
    ASSUME NEW f, NEW S, IsFiniteSet(S), NEW g, NEW h, Sums(f, g, S), Sums(f, h, S)
    PROVE  g[S] = h[S]
<1> DEFINE T == {n \in Nat : \E s \in SUBSET S : Cardinality(s) = n /\ g[s] # h[s]}
<1>1. CASE T = {}
  BY <1>1, FS_CardinalityType
<1>2. CASE T # {}
  <2>1. PICK n \in T : \A m \in T : n <= m
    <3>1. T \subseteq Nat
      OBVIOUS
    <3> HIDE DEF T
    <3> QED
      BY <1>2, <3>1, LeastNumber
  <2>2. PICK s \in SUBSET S : Cardinality(s) = n /\ g[s] # h[s]
    OBVIOUS
  <2>3. s # {}
    <3>1. g[{}] = 0 /\ h[{}] = 0
      BY Zenon DEF Sums
    <3> QED
      BY <2>2, <3>1
  <2>4. Picked(s) \in s
    BY <2>3 DEF Picked
  <2> DEFINE r == s \ {Picked(s)}
  <2>5. g[s] = f[Picked(s)] + g[r] /\ h[s] = f[Picked(s)] + h[r]
    BY <2>3 DEF Sums
  <2>6. r \in SUBSET S /\ g[r] # h[r]
    BY <2>2, <2>5
  <2>7. IsFiniteSet(s) /\ Cardinality(r) = n - 1 /\ Cardinality(r) \in Nat
    BY <2>2, <2>4, FS_Subset, FS_RemoveElement, FS_CardinalityType
  <2>8. Cardinality(r) \in T
    BY <2>6, <2>7
  <2>9. n \in Nat /\ n <= n - 1
    <3> HIDE DEF r
    <3> QED
      BY <2>1, <2>7, <2>8
  <2> QED
    BY <2>9
<1> QED
  BY <1>1, <1>2


\* The bars of the histogram add up: each warning is under the bar of its age.
LEMMA HistogramSum ==
    ASSUME OverviewTypeOK
    PROVE  HistogramCounts
<1> DEFINE S == 0 .. Buckets - 1
           In(s) == {a \in warnings : Buckets - a \in s}
           count == [s \in SUBSET S |-> Cardinality(In(s))]
<1>0. Buckets \in Nat /\ Buckets > 0
  BY OverviewAssumption
<1>1. warnings \subseteq Int /\ (\A a \in warnings : a < Buckets) /\ IsFiniteSet(warnings)
  <2>1. ages \subseteq -1 .. Buckets
    BY DEF OverviewTypeOK, Ages
  <2>2. warnings \subseteq -1 .. Buckets
    BY <2>1 DEF warnings
  <2>3. -1 \in Int /\ Buckets \in Int
    BY <1>0
  <2>4. IsFiniteSet(-1 .. Buckets)
    BY <2>3, FS_Interval
  <2>5. IsFiniteSet(warnings)
    BY <2>2, <2>4, FS_Subset
  <2>6. \A a \in warnings : a < Buckets
    BY DEF warnings
  <2> QED
    BY <2>2, <2>5, <2>6
<1>2. Sums(warnHist, count, S)
  <2>1. ASSUME NEW s \in SUBSET S, s = {} PROVE count[s] = 0
    <3>1. In(s) = {}
      BY <2>1
    <3> QED
      BY <3>1, FS_EmptySet
  <2>2. ASSUME NEW s \in SUBSET S, s # {} PROVE count[s] = warnHist[Picked(s)] + count[s \ {Picked(s)}]
    <3> DEFINE p == Picked(s)
               A == {a \in warnings : Buckets - a = p}
               B == In(s \ {p})
    <3>1. p \in s /\ s \ {p} \in SUBSET S
      BY <2>2 DEF Picked
    <3>2. warnHist[p] = Cardinality(A) /\ count[s \ {p}] = Cardinality(B) /\ count[s] = Cardinality(In(s))
      <4> HIDE DEF p
      <4> QED
        BY <3>1 DEF warnHist
    <3>3. In(s) = A \cup B /\ A \cap B = {}
      <4> HIDE DEF p
      <4> QED
        BY <3>1
    <3>4. IsFiniteSet(A) /\ IsFiniteSet(B)
      BY <1>1, FS_Subset
    <3>5. Cardinality(A \cup B) = Cardinality(A) + Cardinality(B)
      <4> HIDE DEF A, B
      <4>1. Cardinality(A \cap B) = 0 /\ Cardinality(A) \in Nat /\ Cardinality(B) \in Nat
        BY <3>3, <3>4, FS_EmptySet, FS_CardinalityType
      <4>2. Cardinality(A \cup B) = Cardinality(A) + Cardinality(B) - Cardinality(A \cap B)
        BY <3>4, FS_Union
      <4> QED
        BY <4>1, <4>2
    <3> QED
      BY <3>2, <3>3, <3>5, Zenon
  <2> QED
    BY <2>1, <2>2, Zenon DEF Sums
<1>3. Sums(warnHist, CHOOSE g : Sums(warnHist, g, S), S)
  BY <1>2, Zenon
<1>4. (CHOOSE g : Sums(warnHist, g, S))[S] = count[S]
  <2>1. IsFiniteSet(S)
    BY <1>0, FS_Interval
  <2> HIDE DEF S, count
  <2> QED
    BY <1>2, <1>3, <2>1, SumsAgree, Zenon
<1>5. MapThenSumSet(LAMBDA i : warnHist[i], S) = count[S]
  <2>1. MapThenSumSet(LAMBDA i : warnHist[i], S) = (CHOOSE g : Sums(warnHist, g, S))[S]
    BY Zenon DEF MapThenSumSet, MapThenFoldSet, Picked, Sums
  <2> HIDE DEF S, count
  <2> QED
    BY <1>4, <2>1, Zenon
<1>6. In(S) = {a \in warnings : a > 0}
  <2>1. ASSUME NEW a \in warnings PROVE Buckets - a \in S <=> a > 0
    BY <1>0, <1>1
  <2> QED
    BY <2>1, Zenon
<1>7. DOMAIN warnHist = S
  BY DEF warnHist
<1> QED
  BY <1>5, <1>6, <1>7, Zenon DEF HistogramCounts

\* However warnings come, age and leave with a scope that moves: the bars of the histogram add up
\* to the warnings counted beside it, but those newer than the clock.
THEOREM HistogramCorrect == OverviewSpec => []HistogramCounts
  BY HistogramSum, OverviewCorrect, PTL

-----------------------------------------------------------------------------
(***************************************************************************)
(* Proofs about DemoRecording and DemoEngine, for any cluster recorded,    *)
(* any asks that come to nothing and any visitor.                          *)
(*                                                                         *)
(* The recorder: what it waits for or has yet to ask is an ask of its      *)
(* stage, about what is on tape (AskInv), so an answer is filed under the  *)
(* key of a row.  An ask of the two stages that make the tape complete is  *)
(* either waited for or filed, while none came to nothing (HomeInv,        *)
(* ConsumersInv).                                                          *)
(***************************************************************************)
EntryOf(t) == [key |-> RowKey(t), of |-> t]
Entries    == {EntryOf(t) : t \in Things}
EventEntry(t, things) == [key |-> RowKey(t), of |-> things]
EventEntries == [key : {RowKey(t) : t \in Things}, of : SUBSET Things]
PlanSet    == [of : Things, to : Nat, from : 0 .. MaxRevision]
FirstOps   == {Scaled} \cup {Rolled(t) : t \in Things}
Tape  == [rows : SUBSET Things, listedAt : 0 .. MaxRevision, release : SUBSET Things, objects : SUBSET Entries,
          events : SUBSET EventEntries, logs : SUBSET Entries, consumers : SUBSET Entries,
          plan : SUBSET PlanSet, pending : SUBSET FirstOps, drift : BOOLEAN]
StageNames == {"rows", "release", "objects", "space", "logs", "consumers", "rollback", "scale", "roll", "drift",
               "published", "dead"}

RecorderTyped == /\ stage \in StageNames /\ revision \in 0 .. MaxRevision /\ tape \in Tape
                 /\ IsFiniteSet(missed) /\ Cardinality(missed) <= MaxMissed

\* An ask is one of its stage, about what the tape has.
RowsOf(tp, k) == {t \in tp.rows : t[1] = k}
HomeOf(tp, k) == {t \in RowsOf(tp, k) : t[2] = HomeSpace}
AskFits(a, s, tp) ==
    \/ s = "rows" /\ \E k \in {t[1] : t \in Things} : a = <<"rows", k>>
    \/ \E t \in RowsOf(tp, "releases") : a = AskOf("release", t)
    \/ \E t \in tp.rows, w \in {"object", "events"} : a = AskOf(w, t)
    \/ \E t \in HomeOf(tp, "secrets") : a = AskOf("consumers", t)
    \/ tp.listedAt > 1 /\ \E t \in tp.rows : a = AskOf("plan", t)
    \/ a = Scaled
    \/ tp.plan # {} /\ \E t \in Things : a = Rolled(t)
    \/ a = <<"drift">>

Waiting == todo \cup ({asking} \ {Idle})
AskInv  == \A a \in Waiting : AskFits(a, stage, tape) /\ (stage = "rows" => a[1] = "rows")
OverInv == /\ stage \in {"published", "dead"} => asking = Idle /\ todo = {} /\ answering = {}
           /\ Idle \notin answering

RevisionInv == /\ stage \notin {"published", "dead"} => tape.listedAt <= revision
               /\ tape.listedAt > 0 => RowsOf(tape, "releases") # {}
               /\ stage = "rows" => tape.plan = {}
               /\ tape.release \subseteq RowsOf(tape, "releases")

\* Events of everything with the row's namespace and name, or none when the ask came to nothing.
EventsFit(t, e, gone) == e.key = RowKey(t) /\ (e.of = NamedAs(t) \/ (e.of = {} /\ AskOf("events", t) \in gone))
FiledInv ==
    /\ \A e \in UNION {tape.objects, tape.logs, tape.consumers} : e.of \in tape.rows
    /\ \A e \in tape.events : \E t \in tape.rows : EventsFit(t, e, missed)
    /\ \A p \in tape.plan : p.of \in tape.rows /\ p.to + 1 = tape.listedAt /\ p.from >= tape.listedAt
    /\ (\E c \in tape.pending : c # Scaled) => tape.plan # {}

Early == {"rows", "release", "objects", "dead"}
HomeInv ==
    missed = {} /\ stage \notin Early =>
        \A k \in Opened : \A t \in HomeOf(tape, k) :
            RowKey(t) \in KeysOf(tape.objects) \/ (stage = "space" /\ AskOf("object", t) \in Waiting)
ConsumersInv ==
    missed = {} /\ stage \notin Early \cup {"space", "logs"} =>
        \A t \in HomeOf(tape, "secrets") :
            t \in KeysOf(tape.consumers) \/ (stage = "consumers" /\ AskOf("consumers", t) \in Waiting)

TapeInv == RecorderTyped /\ AskInv /\ OverInv /\ RevisionInv /\ FiledInv /\ HomeInv /\ ConsumersInv

-----------------------------------------------------------------------------

LEMMA ThingFacts ==
    ASSUME NEW t \in Things
    PROVE  /\ t = <<t[1], t[2], t[3]>> /\ t[1] \in STRING /\ t[2] \in STRING /\ t[3] \in STRING
           /\ t[2] # "" => RowKey(t) = t
           /\ \A w : OfAsk(AskOf(w, t)) = t /\ AskOf(w, t)[1] = w
<1>1. t \in STRING \X STRING \X STRING
  BY RecordingAssumption
<1>2. t = <<t[1], t[2], t[3]>> /\ t[1] \in STRING /\ t[2] \in STRING /\ t[3] \in STRING
  BY <1>1
<1>3. t[2] # "" => RowKey(t) = t
  BY DEF RowKey
<1>4. ASSUME NEW w PROVE OfAsk(AskOf(w, t)) = t /\ AskOf(w, t)[1] = w
  BY <1>2 DEF OfAsk, AskOf
<1> QED
  BY <1>2, <1>3, <1>4

\* What an ask is about, by what it asks.
AskKinds == {"rows", "release", "object", "events", "consumers", "plan", "scale", "apply", "drift"}
LEMMA AskFacts ==
    ASSUME NEW a, NEW s, NEW tp \in Tape, AskFits(a, s, tp)
    PROVE  /\ a # Idle
           /\ a[1] \in AskKinds
           /\ a[1] = "rows" => s = "rows" /\ \E k \in {t[1] : t \in Things} : a = <<"rows", k>>
           /\ a[1] = "release" => OfAsk(a) \in RowsOf(tp, "releases")
           /\ a[1] \in {"object", "events"} => OfAsk(a) \in tp.rows /\ a = AskOf(a[1], OfAsk(a))
           /\ a[1] = "consumers" => OfAsk(a) \in HomeOf(tp, "secrets")
           /\ a[1] = "plan" => OfAsk(a) \in tp.rows /\ tp.listedAt > 1
           /\ a[1] = "apply" => tp.plan # {} /\ a \in FirstOps
           /\ a[1] = "scale" => a = Scaled
<1> DEFINE P == /\ a[1] \in AskKinds
                /\ a[1] = "rows" => s = "rows" /\ \E k \in {t[1] : t \in Things} : a = <<"rows", k>>
                /\ a[1] = "release" => OfAsk(a) \in RowsOf(tp, "releases")
                /\ a[1] \in {"object", "events"} => OfAsk(a) \in tp.rows /\ a = AskOf(a[1], OfAsk(a))
                /\ a[1] = "consumers" => OfAsk(a) \in HomeOf(tp, "secrets")
                /\ a[1] = "plan" => OfAsk(a) \in tp.rows /\ tp.listedAt > 1
                /\ a[1] = "apply" => tp.plan # {} /\ a \in FirstOps
                /\ a[1] = "scale" => a = Scaled
<1>0. tp.rows \subseteq Things /\ (\A k : RowsOf(tp, k) \subseteq tp.rows) /\ \A k : HomeOf(tp, k) \subseteq tp.rows
  BY DEF Tape, RowsOf, HomeOf
<1>1. ASSUME s = "rows", NEW k \in {t[1] : t \in Things}, a = <<"rows", k>> PROVE P
  <2>1. a[1] = "rows"
    BY <1>1
  <2> QED
    BY <1>1, <2>1 DEF AskKinds
<1>2. ASSUME NEW t \in RowsOf(tp, "releases"), a = AskOf("release", t) PROVE P
  <2>1. a[1] = "release" /\ OfAsk(a) = t
    BY <1>0, <1>2, ThingFacts
  <2> QED
    BY <1>2, <2>1 DEF AskKinds
<1>3. ASSUME NEW t \in tp.rows, NEW w \in {"object", "events"}, a = AskOf(w, t) PROVE P
  <2>1. a[1] = w /\ OfAsk(a) = t
    BY <1>0, <1>3, ThingFacts
  <2> QED
    BY <1>3, <2>1 DEF AskKinds
<1>4. ASSUME NEW t \in HomeOf(tp, "secrets"), a = AskOf("consumers", t) PROVE P
  <2>1. a[1] = "consumers" /\ OfAsk(a) = t
    BY <1>0, <1>4, ThingFacts
  <2> QED
    BY <1>4, <2>1 DEF AskKinds
<1>5. ASSUME tp.listedAt > 1, NEW t \in tp.rows, a = AskOf("plan", t) PROVE P
  <2>1. a[1] = "plan" /\ OfAsk(a) = t
    BY <1>0, <1>5, ThingFacts
  <2> QED
    BY <1>5, <2>1 DEF AskKinds
<1>6. ASSUME a = Scaled PROVE P
  <2>1. a[1] = "scale"
    BY <1>6 DEF Scaled
  <2> QED
    BY <1>6, <2>1 DEF AskKinds
<1>7. ASSUME tp.plan # {}, NEW t \in Things, a = Rolled(t) PROVE P
  <2>1. a[1] = "apply"
    BY <1>7 DEF Rolled
  <2> QED
    BY <1>7, <2>1 DEF AskKinds, FirstOps
<1>8. ASSUME a = <<"drift">> PROVE P
  <2>1. a[1] = "drift"
    BY <1>8
  <2> QED
    BY <2>1 DEF AskKinds
<1>9. P
  BY <1>1, <1>2, <1>3, <1>4, <1>5, <1>6, <1>7, <1>8 DEF AskFits
<1>10. a # Idle
  BY <1>9 DEF Idle, AskKinds
<1> QED
  BY <1>9, <1>10

\* An ask still fits when the tape has grown.
LEMMA StillFits ==
    ASSUME NEW a, NEW s, NEW tp \in Tape, NEW tq \in Tape, AskFits(a, s, tp),
           tp.rows \subseteq tq.rows, tp.listedAt = tq.listedAt, tp.plan # {} => tq.plan # {}
    PROVE  AskFits(a, s, tq)
  BY DEF AskFits, RowsOf, HomeOf

LEMMA StageFacts ==
    /\ DOMAIN After = 1 .. 10
    /\ {Stages[i] : i \in DOMAIN Stages} = StageNames \ {"dead"}
    /\ \A i \in DOMAIN After : <<Stages[i], After[i]>> \in
           {<<"rows", "release">>, <<"release", "objects">>, <<"objects", "space">>, <<"space", "logs">>,
            <<"logs", "consumers">>, <<"consumers", "rollback">>, <<"rollback", "scale">>, <<"scale", "roll">>,
            <<"roll", "drift">>, <<"drift", "published">>}
<1>1. Len(Stages) = 11 /\ DOMAIN Stages = 1 .. 11
  BY DEF Stages
<1>2. DOMAIN After = 1 .. 10 /\ \A i \in 1 .. 10 : After[i] = Stages[i + 1]
  BY <1>1 DEF After
<1>3. \A i \in 1 .. 10 : i \in {1, 2, 3, 4, 5, 6, 7, 8, 9, 10}
  OBVIOUS
<1>4. \A i \in 1 .. 11 : i \in {1, 2, 3, 4, 5, 6, 7, 8, 9, 10, 11}
  OBVIOUS
<1>5. /\ Stages[1] = "rows" /\ Stages[2] = "release" /\ Stages[3] = "objects" /\ Stages[4] = "space"
      /\ Stages[5] = "logs" /\ Stages[6] = "consumers" /\ Stages[7] = "rollback" /\ Stages[8] = "scale"
      /\ Stages[9] = "roll" /\ Stages[10] = "drift" /\ Stages[11] = "published"
  BY DEF Stages
<1>6. {Stages[i] : i \in 1 .. 11} = StageNames \ {"dead"}
  BY <1>4, <1>5 DEF StageNames
<1> QED
  BY <1>1, <1>2, <1>3, <1>5, <1>6

\* SendFirst: all that is asked for is waited for, or has yet to be sent.
LEMMA SentFirst ==
    ASSUME NEW todos, Idle \notin todos, SendFirst(todos), Idle \notin answering
    PROVE  Waiting' = todos /\ Idle \notin answering'
  BY DEF SendFirst, Waiting

LEMMA HomeFacts == IsFiniteSet(Things) /\ HomeSpace # ""
  BY RecordingAssumption

LEMMA BoundFacts == MaxRevision \in Nat /\ MaxMissed \in Nat /\ 0 \in 0 .. MaxRevision /\ 2 \in 0 .. MaxRevision /\ 0 <= MaxMissed
<1>1. MaxRevision \in Nat /\ MaxRevision >= 2 /\ MaxMissed \in Nat
  BY RecordingAssumption
<1> QED
  BY <1>1

LEMMA RevisionFacts ==
    /\ \A n \in 0 .. MaxRevision : n \in Nat
    /\ \A tp \in Tape : tp.listedAt \in 0 .. MaxRevision
<1>1. MaxRevision \in Nat
  BY BoundFacts
<1>2. \A n \in 0 .. MaxRevision : n \in Nat
  BY <1>1
<1>3. \A tp \in Tape : tp.listedAt \in 0 .. MaxRevision
  BY DEF Tape
<1> QED
  BY <1>2, <1>3

\* What an answer changes of the tape: the one field its ask is about.
LEMMA FileFields ==
    ASSUME tape \in Tape, revision \in 0 .. MaxRevision, NEW a, AskFits(a, stage, tape), File(a, a)
    PROVE  /\ tape' \in Tape
           /\ tape'.rows = IF a[1] = "rows" THEN tape.rows \cup {t \in Things : t[1] = a[2] /\ (a[2] = "releases" => revision > 0)}
                                            ELSE tape.rows
           /\ tape'.listedAt = IF a[1] = "rows" /\ a[2] = "releases" THEN revision ELSE tape.listedAt
           /\ tape'.release = IF a[1] = "release" THEN {OfAsk(a)} ELSE tape.release
           /\ tape'.objects = IF a[1] = "object" THEN tape.objects \cup {EntryOf(OfAsk(a))} ELSE tape.objects
           /\ tape'.events = IF a[1] = "events" THEN tape.events \cup {EventEntry(OfAsk(a), NamedAs(OfAsk(a)))} ELSE tape.events
           /\ tape'.logs = tape.logs
           /\ tape'.consumers = IF a[1] = "consumers" THEN tape.consumers \cup {EntryOf(OfAsk(a))} ELSE tape.consumers
           /\ tape'.plan = IF a[1] = "plan" THEN {[of |-> OfAsk(a), to |-> tape.listedAt - 1, from |-> revision]} ELSE tape.plan
           /\ tape'.pending = IF a[1] \in {"scale", "apply"} THEN tape.pending \cup {a} ELSE tape.pending
<1> DEFINE Q == /\ tape' \in Tape
                /\ tape'.rows = IF a[1] = "rows" THEN tape.rows \cup {t \in Things : t[1] = a[2] /\ (a[2] = "releases" => revision > 0)}
                                                 ELSE tape.rows
                /\ tape'.listedAt = IF a[1] = "rows" /\ a[2] = "releases" THEN revision ELSE tape.listedAt
                /\ tape'.release = IF a[1] = "release" THEN {OfAsk(a)} ELSE tape.release
                /\ tape'.objects = IF a[1] = "object" THEN tape.objects \cup {EntryOf(OfAsk(a))} ELSE tape.objects
                /\ tape'.events = IF a[1] = "events" THEN tape.events \cup {EventEntry(OfAsk(a), NamedAs(OfAsk(a)))} ELSE tape.events
                /\ tape'.logs = tape.logs
                /\ tape'.consumers = IF a[1] = "consumers" THEN tape.consumers \cup {EntryOf(OfAsk(a))} ELSE tape.consumers
                /\ tape'.plan = IF a[1] = "plan" THEN {[of |-> OfAsk(a), to |-> tape.listedAt - 1, from |-> revision]} ELSE tape.plan
                /\ tape'.pending = IF a[1] \in {"scale", "apply"} THEN tape.pending \cup {a} ELSE tape.pending
<1>1. /\ a[1] \in AskKinds
      /\ a[1] \in {"release", "object", "events", "consumers", "plan"} => OfAsk(a) \in Things
      /\ a[1] = "plan" => tape.listedAt > 1
      /\ a[1] \in {"scale", "apply"} => a \in FirstOps
  BY AskFacts DEF Tape, RowsOf, HomeOf, FirstOps
<1>2. ASSUME NEW t \in Things PROVE EntryOf(t) \in Entries
  BY DEF Entries
<1>3. CASE a[1] = "rows"
  <2> DEFINE more == {t \in Things : t[1] = a[2] /\ (a[2] = "releases" => revision > 0)}
             at   == IF a[2] = "releases" THEN revision ELSE tape.listedAt
  <2>1. tape' = [tape EXCEPT !.rows = @ \cup more, !.listedAt = at]
    BY <1>3 DEF File
  <2>2. more \in SUBSET Things /\ at \in 0 .. MaxRevision
    BY DEF Tape
  <2>3. at = IF a[1] = "rows" /\ a[2] = "releases" THEN revision ELSE tape.listedAt
    BY <1>3
  <2> HIDE DEF more, at
  <2>4. /\ tape' \in Tape /\ tape'.rows = tape.rows \cup more /\ tape'.listedAt = at
        /\ tape'.release = tape.release /\ tape'.objects = tape.objects /\ tape'.events = tape.events
        /\ tape'.logs = tape.logs /\ tape'.consumers = tape.consumers /\ tape'.plan = tape.plan /\ tape'.pending = tape.pending
    BY <2>1, <2>2 DEF Tape
  <2>5. tape'.rows = IF a[1] = "rows" THEN tape.rows \cup {t \in Things : t[1] = a[2] /\ (a[2] = "releases" => revision > 0)}
                                      ELSE tape.rows
    BY <1>3, <2>4 DEF more
  <2> QED
    BY <1>3, <2>3, <2>4, <2>5
<1>4. CASE a[1] = "release"
  <2>1. tape' = [tape EXCEPT !.release = {OfAsk(a)}]
    BY <1>4 DEF File
  <2> QED
    BY <1>1, <1>4, <2>1 DEF Tape
<1>5. CASE a[1] = "object"
  <2>1. tape' = [tape EXCEPT !.objects = @ \cup {EntryOf(OfAsk(a))}]
    BY <1>5 DEF File, EntryOf
  <2> QED
    BY <1>1, <1>2, <1>5, <2>1 DEF Tape
<1>6. CASE a[1] = "events"
  <2> DEFINE heard == EventEntry(OfAsk(a), NamedAs(OfAsk(a)))
  <2>1. tape' = [tape EXCEPT !.events = tape.events \cup {heard}]
    BY <1>6 DEF File, EventsUnder, EventEntry
  <2>2. heard \in EventEntries
    BY <1>1, <1>6 DEF EventEntry, EventEntries, NamedAs
  <2>3. heard = EventEntry(OfAsk(a), NamedAs(OfAsk(a)))
    OBVIOUS
  <2> HIDE DEF heard
  <2>4. tape' \in Tape /\ tape'.events = tape.events \cup {heard}
        /\ tape'.rows = tape.rows /\ tape'.listedAt = tape.listedAt
        /\ tape'.release = tape.release /\ tape'.objects = tape.objects /\ tape'.plan = tape.plan
        /\ tape'.logs = tape.logs /\ tape'.consumers = tape.consumers /\ tape'.pending = tape.pending
    BY <2>1, <2>2 DEF Tape
  <2> QED
    BY <1>6, <2>3, <2>4
<1>7. CASE a[1] = "consumers"
  <2>1. tape' = [tape EXCEPT !.consumers = @ \cup {EntryOf(OfAsk(a))}]
    BY <1>7 DEF File, EntryOf
  <2> QED
    BY <1>1, <1>2, <1>7, <2>1 DEF Tape
<1>8. CASE a[1] = "plan"
  <2> DEFINE p == [of |-> OfAsk(a), to |-> tape.listedAt - 1, from |-> revision]
  <2>1. tape' = [tape EXCEPT !.plan = {p}]
    BY <1>8 DEF File
  <2>2. tape.listedAt \in Nat
    BY RevisionFacts
  <2>3. tape.listedAt - 1 \in Nat
    BY <1>1, <1>8, <2>2
  <2>4. p \in PlanSet
    BY <1>1, <1>8, <2>3 DEF PlanSet
  <2>5. p = [of |-> OfAsk(a), to |-> tape.listedAt - 1, from |-> revision]
    OBVIOUS
  <2> HIDE DEF p
  <2>6. tape' \in Tape /\ tape'.plan = {p}
        /\ tape'.rows = tape.rows /\ tape'.listedAt = tape.listedAt
        /\ tape'.release = tape.release /\ tape'.objects = tape.objects /\ tape'.events = tape.events
        /\ tape'.logs = tape.logs /\ tape'.consumers = tape.consumers /\ tape'.pending = tape.pending
    BY <2>1, <2>4 DEF Tape
  <2> QED
    BY <1>8, <2>5, <2>6
<1>9. CASE a[1] = "drift"
  <2>1. tape' = [tape EXCEPT !.drift = TRUE]
    BY <1>9 DEF File
  <2> QED
    BY <1>9, <2>1 DEF Tape
<1>10. CASE a[1] \in {"scale", "apply"}
  <2>1. tape' = [tape EXCEPT !.pending = @ \cup {a}]
    BY <1>10 DEF File
  <2> QED
    BY <1>1, <1>10, <2>1 DEF Tape
<1>11. Q
  BY <1>1, <1>3, <1>4, <1>5, <1>6, <1>7, <1>8, <1>9, <1>10 DEF AskKinds
<1> QED
  BY <1>11

\* An answer heard: what is waited for is filed, under the key of the row it is of.
LEMMA HeardStep ==
    ASSUME TapeInv, asking # Idle, File(asking, asking), asking' = Idle,
           UNCHANGED <<stage, todo, missed, revision>>, answering' \subseteq answering
    PROVE  TapeInv'
<1> DEFINE a == asking
<1>1. a \in Waiting /\ AskFits(a, stage, tape) /\ (stage = "rows" => a[1] = "rows")
  BY DEF TapeInv, AskInv, Waiting
<1>2. tape \in Tape /\ revision \in 0 .. MaxRevision /\ stage \notin {"published", "dead"}
  BY DEF TapeInv, RecorderTyped, OverInv
<1>3. /\ tape' \in Tape
      /\ tape'.rows = IF a[1] = "rows" THEN tape.rows \cup {t \in Things : t[1] = a[2] /\ (a[2] = "releases" => revision > 0)}
                                       ELSE tape.rows
      /\ tape'.listedAt = IF a[1] = "rows" /\ a[2] = "releases" THEN revision ELSE tape.listedAt
      /\ tape'.release = IF a[1] = "release" THEN {OfAsk(a)} ELSE tape.release
      /\ tape'.objects = IF a[1] = "object" THEN tape.objects \cup {EntryOf(OfAsk(a))} ELSE tape.objects
      /\ tape'.events = IF a[1] = "events" THEN tape.events \cup {EventEntry(OfAsk(a), NamedAs(OfAsk(a)))} ELSE tape.events
      /\ tape'.logs = tape.logs
      /\ tape'.consumers = IF a[1] = "consumers" THEN tape.consumers \cup {EntryOf(OfAsk(a))} ELSE tape.consumers
      /\ tape'.plan = IF a[1] = "plan" THEN {[of |-> OfAsk(a), to |-> tape.listedAt - 1, from |-> revision]} ELSE tape.plan
      /\ tape'.pending = IF a[1] \in {"scale", "apply"} THEN tape.pending \cup {a} ELSE tape.pending
  BY <1>1, <1>2, FileFields
<1>4. /\ a[1] \in AskKinds
      /\ a[1] = "rows" => stage = "rows" /\ \E k \in {t[1] : t \in Things} : a = <<"rows", k>>
      /\ a[1] = "release" => OfAsk(a) \in RowsOf(tape, "releases")
      /\ a[1] \in {"object", "events"} => OfAsk(a) \in tape.rows /\ a = AskOf(a[1], OfAsk(a))
      /\ a[1] = "consumers" => OfAsk(a) \in HomeOf(tape, "secrets")
      /\ a[1] = "plan" => OfAsk(a) \in tape.rows /\ tape.listedAt > 1
      /\ a[1] = "apply" => tape.plan # {} /\ a \in FirstOps
      /\ a[1] = "scale" => a = Scaled
  BY <1>1, <1>2, AskFacts
<1>5. tape.rows \subseteq tape'.rows /\ (stage # "rows" => tape'.rows = tape.rows /\ tape'.listedAt = tape.listedAt)
  BY <1>3, <1>4
<1>6. Waiting' = Waiting \ {a} \/ Waiting' = Waiting
  BY DEF Waiting
<1> HIDE DEF a
<1>7. RecorderTyped'
  BY <1>3 DEF TapeInv, RecorderTyped
<1>8. AskInv'
  <2> SUFFICES ASSUME NEW b \in Waiting' PROVE AskFits(b, stage, tape') /\ (stage = "rows" => b[1] = "rows")
    BY DEF AskInv
  <2>1. b \in Waiting /\ AskFits(b, stage, tape) /\ (stage = "rows" => b[1] = "rows")
    BY <1>6 DEF TapeInv, AskInv
  <2>2. CASE stage = "rows"
    <3>1. \E k \in {t[1] : t \in Things} : b = <<"rows", k>>
      BY <1>2, <2>1, <2>2, AskFacts
    <3> QED
      BY <2>1, <2>2, <3>1 DEF AskFits
  <2>3. CASE stage # "rows"
    <3>1. tape.plan # {} => tape'.plan # {}
      BY <1>3
    <3> QED
      BY <1>2, <1>3, <1>5, <2>1, <2>3, <3>1, StillFits
  <2> QED
    BY <2>2, <2>3
<1>9. OverInv'
  BY <1>2 DEF TapeInv, OverInv
<1>10. RevisionInv'
  <2>1. tape'.listedAt <= revision
    <3>1. tape.listedAt <= revision /\ revision \in Nat
      BY <1>2, RevisionFacts DEF TapeInv, RevisionInv
    <3> QED
      BY <1>3, <3>1
  <2>2. ASSUME tape'.listedAt > 0 PROVE RowsOf(tape', "releases") # {}
    <3>1. CASE a[1] = "rows" /\ a[2] = "releases"
      <4>1. PICK t \in Things : a = <<"rows", t[1]>>
        BY <1>4, <3>1
      <4>2. t[1] = "releases"
        BY <3>1, <4>1
      <4>3. t \in tape'.rows
        BY <1>3, <2>2, <3>1, <4>2
      <4> QED
        BY <4>2, <4>3 DEF RowsOf
    <3>2. CASE ~ (a[1] = "rows" /\ a[2] = "releases")
      BY <1>3, <1>5, <2>2, <3>2 DEF TapeInv, RevisionInv, RowsOf
    <3> QED
      BY <3>1, <3>2
  <2>3. stage = "rows" => tape'.plan = {}
    BY <1>1, <1>3 DEF TapeInv, RevisionInv
  <2>4. tape'.release \subseteq RowsOf(tape', "releases")
    BY <1>3, <1>4, <1>5 DEF TapeInv, RevisionInv, RowsOf
  <2> QED
    BY <2>1, <2>2, <2>3, <2>4 DEF RevisionInv
<1>11. FiledInv'
  <2>1. ASSUME NEW e \in UNION {tape'.objects, tape'.logs, tape'.consumers} PROVE e.of \in tape'.rows
    <3>1. \/ e \in UNION {tape.objects, tape.logs, tape.consumers}
          \/ a[1] \in {"object", "consumers"} /\ e = EntryOf(OfAsk(a))
      BY <1>3
    <3>2. a[1] \in {"object", "consumers"} => OfAsk(a) \in tape.rows
      BY <1>4 DEF HomeOf, RowsOf
    <3> QED
      BY <1>5, <3>1, <3>2 DEF TapeInv, FiledInv, EntryOf
  <2>2. ASSUME NEW p \in tape'.plan PROVE p.of \in tape'.rows /\ p.to + 1 = tape'.listedAt /\ p.from >= tape'.listedAt
    <3>1. CASE a[1] = "plan"
      <4>1. p.of = OfAsk(a) /\ p.to = tape.listedAt - 1 /\ p.from = revision /\ tape'.listedAt = tape.listedAt
        BY <1>3, <3>1
      <4>2. tape.listedAt \in Nat /\ tape.listedAt <= revision /\ revision \in Nat
        BY <1>2, RevisionFacts DEF TapeInv, RevisionInv
      <4> QED
        BY <1>4, <1>5, <3>1, <4>1, <4>2
    <3>2. CASE a[1] # "plan"
      <4>1. p \in tape.plan /\ stage # "rows"
        BY <1>3, <3>2 DEF TapeInv, RevisionInv
      <4> QED
        BY <1>5, <4>1 DEF TapeInv, FiledInv
    <3> QED
      BY <3>1, <3>2
  <2>3. (\E c \in tape'.pending : c # Scaled) => tape'.plan # {}
    <3>1. CASE a[1] \in {"scale", "apply"}
      BY <1>3, <1>4, <3>1 DEF TapeInv, FiledInv
    <3>2. CASE a[1] \notin {"scale", "apply"}
      BY <1>3, <3>2 DEF TapeInv, FiledInv
    <3> QED
      BY <3>1, <3>2
  <2>4. ASSUME NEW e \in tape'.events PROVE \E t \in tape'.rows : EventsFit(t, e, missed')
    <3>1. CASE e \in tape.events
      BY <1>5, <3>1 DEF TapeInv, FiledInv
    <3>2. CASE e \notin tape.events
      <4>1. a[1] = "events" /\ e = EventEntry(OfAsk(a), NamedAs(OfAsk(a)))
        BY <1>3, <3>2
      <4>2. OfAsk(a) \in tape'.rows
        BY <1>4, <1>5, <4>1
      <4> QED
        BY <4>1, <4>2 DEF EventEntry, EventsFit
    <3> QED
      BY <3>1, <3>2
  <2> QED
    BY <2>1, <2>2, <2>3, <2>4 DEF FiledInv
<1>12. HomeInv'
  <2> SUFFICES ASSUME missed = {}, stage \notin Early, NEW k \in Opened, NEW t \in HomeOf(tape', k)
               PROVE  RowKey(t) \in KeysOf(tape'.objects) \/ (stage = "space" /\ AskOf("object", t) \in Waiting')
    BY DEF HomeInv
  <2>1. stage # "rows"
    BY DEF Early
  <2>2. t \in HomeOf(tape, k) /\ t \in Things
    BY <1>2, <1>5, <2>1 DEF HomeOf, RowsOf, Tape
  <2>3. RowKey(t) \in KeysOf(tape.objects) \/ (stage = "space" /\ AskOf("object", t) \in Waiting)
    BY <2>2 DEF TapeInv, HomeInv
  <2>4. KeysOf(tape.objects) \subseteq KeysOf(tape'.objects)
    BY <1>3 DEF KeysOf
  <2>5. CASE AskOf("object", t) = a
    <3>1. a[1] = "object" /\ OfAsk(a) = t
      BY <2>2, <2>5, ThingFacts
    <3>2. EntryOf(t) \in tape'.objects
      BY <1>3, <3>1
    <3> QED
      BY <3>2 DEF KeysOf, EntryOf
  <2>6. CASE AskOf("object", t) # a
    BY <1>6, <2>3, <2>4, <2>6
  <2> QED
    BY <2>5, <2>6
<1>13. ConsumersInv'
  <2> SUFFICES ASSUME missed = {}, stage \notin Early \cup {"space", "logs"}, NEW t \in HomeOf(tape', "secrets")
               PROVE  t \in KeysOf(tape'.consumers) \/ (stage = "consumers" /\ AskOf("consumers", t) \in Waiting')
    BY DEF ConsumersInv
  <2>1. stage # "rows"
    BY DEF Early
  <2>2. t \in HomeOf(tape, "secrets") /\ t \in Things /\ t[2] # ""
    BY <1>2, <1>5, <2>1, HomeFacts DEF HomeOf, RowsOf, Tape
  <2>3. t \in KeysOf(tape.consumers) \/ (stage = "consumers" /\ AskOf("consumers", t) \in Waiting)
    BY <2>2 DEF TapeInv, ConsumersInv
  <2>4. KeysOf(tape.consumers) \subseteq KeysOf(tape'.consumers)
    BY <1>3 DEF KeysOf
  <2>5. CASE AskOf("consumers", t) = a
    <3>1. a[1] = "consumers" /\ OfAsk(a) = t /\ RowKey(t) = t
      BY <2>2, <2>5, ThingFacts
    <3>2. EntryOf(t) \in tape'.consumers
      BY <1>3, <3>1
    <3> QED
      BY <3>1, <3>2 DEF KeysOf, EntryOf
  <2>6. CASE AskOf("consumers", t) # a
    BY <1>6, <2>3, <2>4, <2>6
  <2> QED
    BY <2>5, <2>6
<1> QED
  BY <1>7, <1>8, <1>9, <1>10, <1>11, <1>12, <1>13 DEF TapeInv

LEMMA BlankIsTape == Blank \in Tape
<1>1. 0 \in 0 .. MaxRevision
  BY BoundFacts
<1> QED
  BY <1>1 DEF Blank, Tape

LEMMA ListedIs == (\A k : Listed(k) = RowsOf(tape, k)) /\ \A k : InHome(k) = HomeOf(tape, k)
  BY DEF Listed, InHome, RowsOf, HomeOf

\* What a stage after the first is to ask fits it.
LEMMA AgendaFits ==
    ASSUME TapeInv, NEW s, s # "rows", NEW a \in Agenda(s)
    PROVE  AskFits(a, s, tape) /\ a # Idle
<1>1. tape \in Tape /\ tape.rows \subseteq Things
  BY DEF TapeInv, RecorderTyped, Tape
<1> SUFFICES AskFits(a, s, tape)
  BY <1>1, AskFacts
<1>2. \A k : (Listed(k) # {} => FirstOf(k) \in RowsOf(tape, k)) /\ RowsOf(tape, k) \subseteq tape.rows
  BY ListedIs DEF FirstOf, RowsOf
<1>3. CASE s = "release"
  <2>1. Listed("releases") # {} /\ a = AskOf("release", FirstOf("releases"))
    BY <1>3 DEF Agenda
  <2> QED
    BY <1>2, <2>1 DEF AskFits
<1>4. CASE s = "objects"
  <2>1. PICK w \in {"object", "events"}, k \in Opened : Listed(k) # {} /\ a = AskOf(w, FirstOf(k))
    BY <1>4 DEF Agenda
  <2>2. FirstOf(k) \in tape.rows
    BY <1>2, <2>1
  <2> QED
    BY <2>1, <2>2 DEF AskFits
<1>5. CASE s = "space"
  <2>1. PICK t \in UNION {InHome(k) : k \in Opened} : a = AskOf("object", t)
    BY <1>5 DEF Agenda
  <2>2. t \in tape.rows
    BY DEF InHome, Listed
  <2> QED
    BY <2>1, <2>2 DEF AskFits
<1>6. CASE s = "consumers"
  <2>1. PICK t \in InHome("secrets") : a = AskOf("consumers", t)
    BY <1>6 DEF Agenda
  <2> QED
    BY <2>1, ListedIs DEF AskFits
<1>7. CASE s = "rollback"
  <2>1. tape.listedAt > 1 /\ a = AskOf("plan", FirstOf("releases"))
    BY <1>7 DEF Agenda
  <2>2. tape.listedAt \in Nat
    BY <1>1, RevisionFacts
  <2>3. tape.listedAt > 0
    BY <2>1, <2>2
  <2>4. Listed("releases") # {}
    BY <2>3, ListedIs DEF TapeInv, RevisionInv
  <2> QED
    BY <1>2, <2>1, <2>4 DEF AskFits
<1>8. CASE s = "scale"
  BY <1>8 DEF Agenda, AskFits
<1>9. CASE s = "roll"
  <2>1. PICK p \in tape.plan : a = Rolled(p.of)
    BY <1>9 DEF Agenda
  <2>2. p.of \in Things
    BY <1>1 DEF TapeInv, FiledInv
  <2> QED
    BY <2>1, <2>2 DEF AskFits
<1>10. CASE s = "drift"
  BY <1>10 DEF Agenda, AskFits
<1>11. CASE s \notin {"release", "objects", "space", "consumers", "rollback", "scale", "roll", "drift"}
  BY <1>11 DEF Agenda
<1> QED
  BY <1>3, <1>4, <1>5, <1>6, <1>7, <1>8, <1>9, <1>10, <1>11

LEMMA AskNextStep == ASSUME TapeInv, AskNext PROVE TapeInv'
<1>1. Idle \notin todo
  BY AskFacts DEF TapeInv, RecorderTyped, AskInv, Waiting
<1>2. Waiting' = todo /\ Idle \notin answering'
  BY <1>1, SentFirst DEF AskNext, TapeInv, OverInv
<1>3. Waiting = todo
  BY DEF AskNext, Waiting
<1>4. stage \notin {"published", "dead"}
  BY DEF AskNext, TapeInv, OverInv
<1>5. RecorderTyped' /\ AskInv' /\ OverInv' /\ RevisionInv' /\ FiledInv'
  BY <1>2, <1>3, <1>4 DEF AskNext, TapeInv, RecorderTyped, AskInv, OverInv, RevisionInv, FiledInv
<1>6. HomeInv' /\ ConsumersInv'
  BY <1>2, <1>3 DEF AskNext, TapeInv, HomeInv, ConsumersInv
<1> QED
  BY <1>5, <1>6 DEF TapeInv

LEMMA MissStep == ASSUME TapeInv, NEW left, left \subseteq answering, Miss(left) PROVE TapeInv'
<1>1. Waiting' \subseteq Waiting /\ missed' # {}
  BY DEF Miss, Waiting
<1>2. IsFiniteSet(missed') /\ Cardinality(missed') <= MaxMissed
  <2>1. /\ IsFiniteSet(missed) /\ Cardinality(missed) \in Nat /\ Cardinality(missed) < MaxMissed /\ MaxMissed \in Nat
        /\ missed' = missed \cup {asking}
    BY FS_CardinalityType, BoundFacts DEF Miss, TapeInv, RecorderTyped
  <2>2. IsFiniteSet(missed') /\ (Cardinality(missed') = Cardinality(missed) \/ Cardinality(missed') = Cardinality(missed) + 1)
    BY <2>1, FS_AddElement
  <2> QED
    BY <2>1, <2>2
<1> DEFINE none == EventEntry(OfAsk(asking), {})
<1>3. asking \in Waiting /\ tape \in Tape /\ tape.rows \subseteq Things
  BY DEF Miss, Waiting, TapeInv, RecorderTyped, Tape
<1>4. AskFits(asking, stage, tape)
  BY <1>3 DEF TapeInv, AskInv
<1>5. asking[1] = "events" => OfAsk(asking) \in tape.rows /\ asking = AskOf("events", OfAsk(asking))
  BY <1>3, <1>4, AskFacts
<1>6. asking[1] = "events" => none \in EventEntries
  BY <1>3, <1>5 DEF EventEntry, EventEntries
<1>7. tape' = IF asking[1] = "events" THEN [tape EXCEPT !.events = tape.events \cup {none}] ELSE tape
  BY DEF Miss, EventsUnder, EventEntry
<1>8. none.key = RowKey(OfAsk(asking)) /\ none.of = {}
  BY DEF EventEntry
<1> HIDE DEF none
<1>9. /\ tape' \in Tape /\ tape'.events \in {tape.events, tape.events \cup {none}}
      /\ tape'.events # tape.events => asking[1] = "events"
      /\ tape'.rows = tape.rows /\ tape'.listedAt = tape.listedAt /\ tape'.release = tape.release
      /\ tape'.objects = tape.objects /\ tape'.logs = tape.logs /\ tape'.consumers = tape.consumers
      /\ tape'.plan = tape.plan /\ tape'.pending = tape.pending
  BY <1>3, <1>6, <1>7 DEF Tape
<1>10. RecorderTyped'
  BY <1>2, <1>9 DEF Miss, TapeInv, RecorderTyped
<1>11. AskInv'
  <2> SUFFICES ASSUME NEW b \in Waiting' PROVE AskFits(b, stage, tape') /\ (stage = "rows" => b[1] = "rows")
    BY DEF Miss, AskInv
  <2>1. AskFits(b, stage, tape) /\ (stage = "rows" => b[1] = "rows")
    BY <1>1 DEF TapeInv, AskInv
  <2> QED
    BY <1>3, <1>9, <2>1, StillFits
<1>12. OverInv'
  BY DEF Miss, TapeInv, OverInv
<1>13. RevisionInv'
  BY <1>9 DEF Miss, TapeInv, RevisionInv, RowsOf
<1>14. FiledInv'
  <2>1. ASSUME NEW e \in tape'.events PROVE \E t \in tape.rows : EventsFit(t, e, missed')
    <3>1. missed \subseteq missed' /\ asking \in missed'
      BY DEF Miss
    <3>2. CASE e \in tape.events
      BY <3>1, <3>2 DEF TapeInv, FiledInv, EventsFit
    <3>3. CASE e \notin tape.events
      <4>1. e = none /\ asking[1] = "events"
        BY <1>9, <3>3
      <4> QED
        BY <1>5, <1>8, <3>1, <4>1 DEF EventsFit
    <3> QED
      BY <3>2, <3>3
  <2> QED
    BY <1>9, <2>1 DEF TapeInv, FiledInv
<1>15. HomeInv' /\ ConsumersInv'
  BY <1>1 DEF HomeInv, ConsumersInv
<1> QED
  BY <1>10, <1>11, <1>12, <1>13, <1>14, <1>15 DEF TapeInv

LEMMA AnsweredStep == ASSUME TapeInv, NEW x \in answering, Answered(x) PROVE TapeInv'
<1>1. CASE Heard(x)
  <2>1. asking # Idle
    BY <1>1 DEF Heard, TapeInv, OverInv
  <2>2. File(asking, asking) /\ asking' = Idle /\ answering' \subseteq answering /\ UNCHANGED <<stage, todo, missed, revision>>
    BY <1>1 DEF Answered, Heard
  <2> QED
    BY <2>1, <2>2, HeardStep
<1>2. CASE ~ Heard(x)
  <2>1. UNCHANGED <<stage, todo, asking, missed, revision, tape>> /\ answering' \subseteq answering
    BY <1>2 DEF Answered
  <2>2. Waiting' = Waiting
    BY <2>1 DEF Waiting
  <2> QED
    BY <2>1, <2>2 DEF TapeInv, RecorderTyped, AskInv, OverInv, RevisionInv, FiledInv, HomeInv, ConsumersInv
<1> QED
  BY <1>1, <1>2

\* A log is filed under the key of its pod.
LEMMA LogsStep ==
    ASSUME TapeInv, NEW pods \in SUBSET InHome("pods"), LogsHeard(pods), UNCHANGED missed
    PROVE  /\ tape' \in Tape /\ FiledInv'
           /\ tape'.rows = tape.rows /\ tape'.listedAt = tape.listedAt /\ tape'.release = tape.release
           /\ tape'.objects = tape.objects /\ tape'.consumers = tape.consumers /\ tape'.plan = tape.plan
<1> DEFINE heard == {[key |-> t, of |-> t] : t \in pods}
<1>1. tape \in Tape /\ pods \subseteq Things /\ pods \subseteq tape.rows /\ \A t \in pods : t[2] # ""
  BY HomeFacts DEF TapeInv, RecorderTyped, Tape, InHome, Listed
<1>2. ASSUME NEW t \in pods PROVE [key |-> t, of |-> t] \in Entries
  <2>1. t \in Things /\ RowKey(t) = t
    BY <1>1, ThingFacts
  <2>2. EntryOf(t) = [key |-> t, of |-> t]
    BY <2>1 DEF EntryOf
  <2> QED
    BY <2>1, <2>2 DEF Entries
<1>2a. heard \subseteq Entries /\ \A e \in heard : e.of \in tape.rows
  <2> SUFFICES ASSUME NEW e \in heard PROVE e \in Entries /\ e.of \in tape.rows
    OBVIOUS
  <2>1. PICK t \in pods : e = [key |-> t, of |-> t]
    OBVIOUS
  <2> QED
    BY <1>1, <1>2, <2>1
<1>3. tape' = [tape EXCEPT !.logs = heard]
  BY DEF LogsHeard
<1> HIDE DEF heard
<1>4. /\ tape' \in Tape /\ tape'.logs = heard /\ tape'.events = tape.events /\ tape'.pending = tape.pending
      /\ tape'.rows = tape.rows /\ tape'.listedAt = tape.listedAt /\ tape'.release = tape.release
      /\ tape'.objects = tape.objects /\ tape'.consumers = tape.consumers /\ tape'.plan = tape.plan
  BY <1>1, <1>2a, <1>3 DEF Tape
<1>5. FiledInv'
  BY <1>2a, <1>4 DEF TapeInv, FiledInv
<1> QED
  BY <1>4, <1>5

LEMMA NextStageStep == ASSUME TapeInv, NextStage PROVE TapeInv'
<1>1. /\ asking = Idle /\ todo = {} /\ missed' = missed /\ Waiting = {}
      /\ <<stage, stage'>> \in
           {<<"rows", "release">>, <<"release", "objects">>, <<"objects", "space">>, <<"space", "logs">>,
            <<"logs", "consumers">>, <<"consumers", "rollback">>, <<"rollback", "scale">>, <<"scale", "roll">>,
            <<"roll", "drift">>, <<"drift", "published">>}
  <2>1. PICK i \in DOMAIN After : Stages[i] = stage /\ stage' = After[i]
    BY DEF NextStage
  <2> QED
    BY <2>1, StageFacts DEF NextStage, Waiting
<1>2. /\ tape \in Tape /\ tape' \in Tape /\ FiledInv'
      /\ tape'.rows = tape.rows /\ tape'.listedAt = tape.listedAt /\ tape'.release = tape.release
      /\ tape'.objects = tape.objects /\ tape'.consumers = tape.consumers /\ tape'.plan = tape.plan
  <2>1. CASE stage = "logs"
    BY <2>1, LogsStep DEF NextStage, TapeInv, RecorderTyped
  <2>2. CASE stage # "logs"
    BY <2>2 DEF NextStage, TapeInv, RecorderTyped, FiledInv
  <2> QED
    BY <2>1, <2>2
<1>3. CASE stage' = "published"
  <2>1. todo' = {} /\ answering' = {} /\ revision' = 0 /\ asking' = Idle /\ stage = "drift"
    BY <1>1, <1>3 DEF NextStage
  <2>2. Waiting' = {}
    BY <2>1 DEF Waiting
  <2>3. 0 \in 0 .. MaxRevision
    BY BoundFacts
  <2>4. RecorderTyped'
    BY <1>1, <1>2, <1>3, <2>1, <2>3 DEF TapeInv, RecorderTyped, StageNames
  <2>5. AskInv' /\ OverInv'
    BY <2>1, <2>2 DEF AskInv, OverInv
  <2>6. RevisionInv'
    BY <1>2, <1>3 DEF TapeInv, RevisionInv, RowsOf
  <2>7. HomeInv'
    BY <1>1, <1>2, <2>1 DEF TapeInv, HomeInv, Early, HomeOf, RowsOf
  <2>8. ConsumersInv'
    BY <1>1, <1>2, <2>1 DEF TapeInv, ConsumersInv, Early, HomeOf, RowsOf
  <2> QED
    BY <1>2, <2>4, <2>5, <2>6, <2>7, <2>8 DEF TapeInv
<1>4. CASE stage' # "published"
  <2>1. SendFirst(Agenda(stage')) /\ revision' = revision /\ stage' # "rows" /\ stage # "published" /\ stage # "dead" /\ stage' # "dead"
    BY <1>1, <1>4 DEF NextStage
  <2>2. \A a \in Agenda(stage') : AskFits(a, stage', tape) /\ a # Idle
    BY <2>1, AgendaFits
  <2>3. Waiting' = Agenda(stage') /\ Idle \notin answering'
    BY <2>1, <2>2, SentFirst DEF TapeInv, OverInv
  <2>4. RecorderTyped'
    BY <1>1, <1>2, <2>1 DEF TapeInv, RecorderTyped, StageNames
  <2>5. AskInv'
    BY <1>2, <2>1, <2>2, <2>3, StillFits DEF AskInv
  <2>6. OverInv'
    BY <1>4, <2>1, <2>3 DEF OverInv
  <2>7. RevisionInv'
    BY <1>2, <2>1 DEF TapeInv, RevisionInv, RowsOf
  <2>8. HomeInv'
    <3> SUFFICES ASSUME missed = {}, stage' \notin Early, NEW k \in Opened, NEW t \in HomeOf(tape', k)
                 PROVE  RowKey(t) \in KeysOf(tape'.objects) \/ (stage' = "space" /\ AskOf("object", t) \in Waiting')
      BY <1>1 DEF HomeInv
    <3>1. t \in HomeOf(tape, k)
      BY <1>2 DEF HomeOf, RowsOf
    <3>2. CASE stage' = "space"
      <4>1. RowKey(t) \notin KeysOf(tape.objects) => AskOf("object", t) \in Agenda("space")
        BY <3>1, ListedIs DEF Agenda
      <4> QED
        BY <1>2, <2>3, <3>2, <4>1
    <3>3. CASE stage' # "space"
      <4>1. stage \notin Early
        BY <1>1, <3>3 DEF Early
      <4> QED
        BY <1>1, <1>2, <3>1, <4>1 DEF TapeInv, HomeInv
    <3> QED
      BY <3>2, <3>3
  <2>9. ConsumersInv'
    <3> SUFFICES ASSUME missed = {}, stage' \notin Early \cup {"space", "logs"}, NEW t \in HomeOf(tape', "secrets")
                 PROVE  t \in KeysOf(tape'.consumers) \/ (stage' = "consumers" /\ AskOf("consumers", t) \in Waiting')
      BY <1>1 DEF ConsumersInv
    <3>1. t \in HomeOf(tape, "secrets")
      BY <1>2 DEF HomeOf, RowsOf
    <3>2. CASE stage' = "consumers"
      <4>1. AskOf("consumers", t) \in Agenda("consumers")
        BY <3>1, ListedIs DEF Agenda
      <4> QED
        BY <2>3, <3>2, <4>1
    <3>3. CASE stage' # "consumers"
      <4>1. stage \notin Early \cup {"space", "logs"}
        BY <1>1, <3>3 DEF Early
      <4> QED
        BY <1>1, <1>2, <3>1, <4>1 DEF TapeInv, ConsumersInv
    <3> QED
      BY <3>2, <3>3
  <2> QED
    BY <1>2, <2>4, <2>5, <2>6, <2>7, <2>8, <2>9 DEF TapeInv
<1> QED
  BY <1>3, <1>4

\* A process that is killed, or has not begun, has nothing on tape.
LEMMA BlankHolds ==
    ASSUME tape = Blank, stage \in {"rows", "dead"}, revision \in 0 .. MaxRevision, missed = {}, asking = Idle, answering = {},
           todo = IF stage = "rows" THEN Agenda("rows") ELSE {}
    PROVE  TapeInv
<1>1. RecorderTyped
  <2>1. Cardinality({}) = 0 /\ 0 <= MaxMissed /\ IsFiniteSet({})
    BY FS_EmptySet, BoundFacts
  <2>2. Cardinality(missed) <= MaxMissed /\ IsFiniteSet(missed)
    BY <2>1, Zenon
  <2> QED
    BY <2>2, BlankIsTape DEF RecorderTyped, StageNames
<1>2. /\ tape.rows = {} /\ tape.objects = {} /\ tape.events = {} /\ tape.logs = {} /\ tape.consumers = {} /\ tape.plan = {}
      /\ tape.pending = {} /\ tape.release = {} /\ tape.listedAt = 0
  BY DEF Blank
<1>3. \A a \in Waiting : stage = "rows" /\ \E k \in {t[1] : t \in Things} : a = <<"rows", k>>
  BY DEF Waiting, Agenda
<1>4. \A a \in Waiting : AskFits(a, stage, tape) /\ a[1] = "rows" /\ a # Idle
  <2> TAKE a \in Waiting
  <2>1. PICK k \in {t[1] : t \in Things} : a = <<"rows", k>>
    BY <1>3
  <2>2. stage = "rows" /\ a[1] = "rows" /\ Idle[1] = "idle"
    BY <1>3, <2>1 DEF Idle
  <2> QED
    BY <2>1, <2>2 DEF AskFits
<1>5. AskInv
  BY <1>4 DEF AskInv
<1>6. OverInv
  BY DEF OverInv
<1>7. RevisionInv
  <2>1. 0 <= revision
    BY RevisionFacts
  <2> QED
    BY <1>2, <2>1 DEF RevisionInv
<1>8. FiledInv
  BY <1>2 DEF FiledInv
<1>9. HomeInv /\ ConsumersInv
  BY DEF HomeInv, ConsumersInv, Early
<1> QED
  BY <1>1, <1>5, <1>6, <1>7, <1>8, <1>9 DEF TapeInv

LEMMA TimeUpStep == ASSUME TapeInv, TimeUp PROVE TapeInv'
<1>1. 0 \in 0 .. MaxRevision
  BY BoundFacts
<1>2. Cardinality({}) <= MaxMissed
  <2>1. Cardinality({}) = 0 /\ 0 <= MaxMissed
    BY FS_EmptySet, BoundFacts
  <2> QED
    BY <2>1, Zenon
<1>3. RecorderTyped'
  BY <1>1, <1>2, BlankIsTape, FS_EmptySet DEF TimeUp, RecorderTyped, StageNames
<1>4. /\ tape'.rows = {} /\ tape'.objects = {} /\ tape'.events = {} /\ tape'.logs = {} /\ tape'.consumers = {} /\ tape'.plan = {}
      /\ tape'.pending = {} /\ tape'.release = {} /\ tape'.listedAt = 0
  BY DEF TimeUp, Blank
<1>5. AskInv' /\ OverInv'
  BY DEF TimeUp, AskInv, Waiting, OverInv
<1>6. RevisionInv' /\ FiledInv'
  BY <1>4 DEF TimeUp, RevisionInv, FiledInv
<1>7. HomeInv' /\ ConsumersInv'
  BY DEF TimeUp, HomeInv, ConsumersInv, Early
<1> QED
  BY <1>3, <1>5, <1>6, <1>7 DEF TapeInv

LEMMA UpgradeStep == ASSUME TapeInv, Upgrade PROVE TapeInv'
<1>0. revision \in 0 .. MaxRevision /\ tape \in Tape /\ revision \in 1 .. MaxRevision - 1 /\ revision' = revision + 1
  BY DEF TapeInv, RecorderTyped, Upgrade
<1>0a. MaxRevision \in Nat
  BY BoundFacts
<1>1. revision \in Nat /\ tape.listedAt \in Nat /\ revision' = revision + 1 /\ MaxRevision \in Nat /\ revision <= MaxRevision - 1
  BY <1>0, <1>0a, RevisionFacts
<1>2. revision' \in 0 .. MaxRevision /\ (tape.listedAt <= revision => tape.listedAt <= revision')
  BY <1>1
<1>3. UNCHANGED <<stage, todo, asking, answering, missed, tape, Waiting>>
  BY DEF Upgrade, Waiting
<1>4. RecorderTyped'
  BY <1>2, <1>3 DEF TapeInv, RecorderTyped
<1>5. RevisionInv'
  BY <1>2, <1>3 DEF TapeInv, RevisionInv
<1>6. AskInv' /\ OverInv' /\ FiledInv' /\ HomeInv' /\ ConsumersInv'
  BY <1>3 DEF TapeInv, AskInv, OverInv, FiledInv, HomeInv, ConsumersInv
<1> QED
  BY <1>4, <1>5, <1>6 DEF TapeInv

LEMMA RecorderStep == ASSUME TapeInv, [RecordingNext]_recorder PROVE TapeInv'
<1>1. CASE AskNext
  BY <1>1, AskNextStep
<1>2. CASE Refused
  BY <1>2, MissStep DEF Refused
<1>3. CASE GiveUp
  BY <1>3, MissStep DEF GiveUp
<1>4. CASE NextStage
  BY <1>4, NextStageStep
<1>5. CASE TimeUp
  BY <1>5, TimeUpStep
<1>6. CASE Upgrade
  BY <1>6, UpgradeStep
<1>7. CASE \E x \in answering : Answered(x)
  BY <1>7, AnsweredStep
<1>8. CASE UNCHANGED recorder
  <2>1. UNCHANGED <<stage, todo, asking, answering, missed, revision, tape, Waiting>>
    BY <1>8 DEF recorder, Waiting
  <2> QED
    BY <2>1 DEF TapeInv, RecorderTyped, AskInv, OverInv, RevisionInv, FiledInv, HomeInv, ConsumersInv
<1> QED
  BY <1>1, <1>2, <1>3, <1>4, <1>5, <1>6, <1>7, <1>8 DEF RecordingNext

LEMMA RecorderStart == RecordingInit => TapeInv
<1>1. 0 \in 0 .. MaxRevision /\ 2 \in 0 .. MaxRevision
  BY BoundFacts
<1> QED
  BY <1>1, BlankHolds DEF RecordingInit

LEMMA TapeFollows == TapeInv => RecordingTypeOK /\ TapeFits
<1> SUFFICES ASSUME TapeInv PROVE RecordingTypeOK /\ TapeFits
  OBVIOUS
<1>1. DOMAIN tape = DOMAIN Blank
  BY BlankIsTape DEF TapeInv, RecorderTyped, Tape
<1>2. /\ tape.rows \subseteq Things /\ tape.release \subseteq Things /\ tape.listedAt \in 0 .. MaxRevision
      /\ UNION {tape.objects, tape.logs, tape.consumers} \subseteq Entries /\ tape.plan \subseteq PlanSet
      /\ tape.events \subseteq EventEntries
  BY DEF TapeInv, RecorderTyped, Tape
<1>3. \A e \in Entries : e.of \in Things /\ e.key = RowKey(e.of)
  BY DEF Entries, EntryOf
<1>4. /\ \A e \in UNION {tape.objects, tape.logs, tape.consumers, tape.plan} : e.of \in Things
      /\ \A e \in tape.events : e.of \subseteq Things
  BY <1>2, <1>3 DEF PlanSet, EventEntries
<1>5. RecordingTypeOK
  <2>1. stage \in {Stages[i] : i \in DOMAIN Stages} \cup {"dead"}
    BY StageFacts DEF TapeInv, RecorderTyped
  <2> QED
    BY <1>1, <1>2, <1>4, <2>1 DEF RecordingTypeOK, TapeInv, RecorderTyped
<1>6. \A e \in UNION {tape.objects, tape.logs, tape.consumers} : e.key = RowKey(e.of) /\ e.of \in tape.rows
  BY <1>2, <1>3 DEF TapeInv, FiledInv
<1>7. ASSUME stage = "published", missed = {}
      PROVE  /\ \A k \in Opened : \A t \in InHome(k) : RowKey(t) \in KeysOf(tape.objects)
             /\ \A t \in InHome("secrets") : t \in KeysOf(tape.consumers)
  BY <1>7, ListedIs DEF TapeInv, HomeInv, ConsumersInv, Early
<1> QED
  BY <1>5, <1>6, <1>7 DEF TapeInv, FiledInv, EventsFit, TapeFits

-----------------------------------------------------------------------------
(***************************************************************************)
(* The demo: an answer says what the tape has of what was asked            *)
(* (TimersInv); the last subscribe under way is the table's, the last      *)
(* request of a pane the selected thing's, and with none under way the     *)
(* table and the pane show the reply to theirs (TableInv, VisitInv); a     *)
(* proposal is under way, or the dialog is open on it, or refused          *)
(* (DialogInv).  Until the tape is published there is no visitor           *)
(* (BlankInv), and from then on it stays as it is (PublishedStays).        *)
(***************************************************************************)
TimerTypes == {"subscribe", "change.propose", "change.decide"} \cup Panels
TimerSet == [type : TimerTypes, of : Things \cup Proposals \cup ({t[1] : t \in Things} \X NamespaceChoices), body : SUBSET (Things \cup FirstOps)]

\* Of timers, the last of a type in C; none of them.
IsLast(C, ts, j) == j \in DOMAIN ts /\ ts[j].type \in C /\ \A k \in DOMAIN ts : k > j => ts[k].type \notin C
Absent(C, ts)    == \A j \in DOMAIN ts : ts[j].type \notin C

DemoTyped == DemoTypeOK /\ timers \in Seq(TimerSet)
TimersInv == \A j \in DOMAIN timers : timers[j].body = Reply(timers[j])
TableInv ==
    /\ \A j : IsLast({"subscribe"}, timers, j) => timers[j].of = table
    /\ Absent({"subscribe"}, timers) => table[1] = "none" \/ listing = Reply([type |-> "subscribe", of |-> table])
    /\ listing \subseteq tape.rows
VisitInv ==
    visited # NoThing =>
        /\ visited \in tape.rows /\ Asked(visited, panel)
        /\ \A j : IsLast(Panels, timers, j) => timers[j].of = visited /\ timers[j].type = panel
        /\ Absent(Panels, timers) => shownOf = Reply([type |-> panel, of |-> visited])
DialogInv ==
    \/ dialogOf = proposed /\ Absent({"change.propose"}, timers)
    \/ /\ dialogOf = NoThing /\ proposed # NoThing /\ Len(timers) = 1
       /\ timers[1].type = "change.propose" /\ timers[1].of = proposed
BlankInv == stage # "published" =>
    timers = <<>> /\ table = <<"none", "">> /\ listing = {} /\ visited = NoThing /\ dialogOf = NoThing /\ proposed = NoThing

DemoInv == DemoTyped /\ TimersInv /\ TableInv /\ VisitInv /\ DialogInv /\ BlankInv

-----------------------------------------------------------------------------

LEMMA AppendSeq ==
    ASSUME NEW ts \in Seq(TimerSet), NEW m \in TimerSet
    PROVE  LET us == Append(ts, m)
           IN  /\ us \in Seq(TimerSet) /\ Len(ts) \in Nat /\ Len(us) = Len(ts) + 1 /\ us[Len(us)] = m
               /\ DOMAIN ts = 1 .. Len(ts) /\ DOMAIN us = 1 .. Len(ts) + 1 /\ \A j \in 1 .. Len(ts) : us[j] = ts[j]
               /\ \A j \in DOMAIN us : us[j] = m \/ (j \in DOMAIN ts /\ us[j] = ts[j])
<1> DEFINE us == Append(ts, m)  n == Len(ts)
<1>1. /\ us \in Seq(TimerSet) /\ n \in Nat /\ Len(us) = n + 1 /\ us[n + 1] = m
      /\ DOMAIN ts = 1 .. n /\ DOMAIN us = 1 .. n + 1 /\ \A j \in 1 .. n : us[j] = ts[j]
  OBVIOUS
<1> HIDE DEF n
<1>2. \A j \in 1 .. n + 1 : j = n + 1 \/ j \in 1 .. n
  BY <1>1
<1>3. \A j \in DOMAIN us : us[j] = m \/ (j \in DOMAIN ts /\ us[j] = ts[j])
  BY <1>1, <1>2
<1> QED
  BY <1>1, <1>3 DEF n

\* The last of its type is the timer added,
LEMMA AppendedLast ==
    ASSUME NEW ts \in Seq(TimerSet), NEW m \in TimerSet, NEW us, us = Append(ts, m), NEW C, m.type \in C
    PROVE  ~ Absent(C, us) /\ \A j : IsLast(C, us, j) => j = Len(us)
<1>1. /\ Len(ts) \in Nat /\ Len(us) = Len(ts) + 1 /\ us[Len(ts) + 1] = m /\ DOMAIN us = 1 .. Len(ts) + 1
      /\ \A j \in DOMAIN us : us[j] = m \/ j \in 1 .. Len(ts)
  BY AppendSeq
<1>2. Len(ts) + 1 \in DOMAIN us /\ \A j \in DOMAIN us : j = Len(ts) + 1 \/ Len(ts) + 1 > j
  BY <1>1
<1>3. ~ Absent(C, us)
  BY <1>1, <1>2 DEF Absent
<1>4. ASSUME NEW j, IsLast(C, us, j) PROVE j = Len(us)
  BY <1>1, <1>2, <1>4 DEF IsLast
<1> QED
  BY <1>3, <1>4

\* and of another type the one it was.
LEMMA AppendedOther ==
    ASSUME NEW ts \in Seq(TimerSet), NEW m \in TimerSet, NEW us, us = Append(ts, m), NEW C, m.type \notin C
    PROVE  (Absent(C, us) <=> Absent(C, ts)) /\ \A j : IsLast(C, us, j) => IsLast(C, ts, j) /\ us[j] = ts[j]
<1> DEFINE n == Len(ts)
<1>1. /\ n \in Nat /\ us[n + 1] = m /\ DOMAIN ts = 1 .. n /\ DOMAIN us = 1 .. n + 1 /\ \A j \in 1 .. n : us[j] = ts[j]
  BY AppendSeq
<1> HIDE DEF n
<1>2. (\A j \in 1 .. n + 1 : j = n + 1 \/ j \in 1 .. n) /\ \A j \in 1 .. n : j \in 1 .. n + 1
  BY <1>1
<1>3. Absent(C, us) <=> Absent(C, ts)
  BY <1>1, <1>2 DEF Absent
<1>4. ASSUME NEW j, IsLast(C, us, j) PROVE IsLast(C, ts, j) /\ us[j] = ts[j]
  <2>1. j \in 1 .. n
    BY <1>1, <1>2, <1>4 DEF IsLast
  <2> QED
    BY <1>1, <1>2, <1>4, <2>1 DEF IsLast
<1> QED
  BY <1>3, <1>4

LEMMA TailLast ==
    ASSUME NEW C, NEW ts \in Seq(TimerSet), ts # <<>>, NEW us, us = Tail(ts)
    PROVE  /\ us \in Seq(TimerSet) /\ Len(us) = Len(ts) - 1 /\ Len(ts) \in Nat
           /\ 1 \in DOMAIN ts /\ Head(ts) = ts[1] /\ ts[1] \in TimerSet
           /\ \A j \in DOMAIN us : j + 1 \in DOMAIN ts /\ us[j] = ts[j + 1]
           /\ Absent(C, ts) => Absent(C, us)
           /\ Absent(C, us) => IF ts[1].type \in C THEN IsLast(C, ts, 1) ELSE Absent(C, ts)
<1> DEFINE n == Len(ts) - 1
<1>1. /\ us \in Seq(TimerSet) /\ n \in Nat /\ Len(ts) = n + 1 /\ Len(us) = n /\ Head(ts) = ts[1] /\ ts[1] \in TimerSet
      /\ DOMAIN ts = 1 .. n + 1 /\ DOMAIN us = 1 .. n /\ \A j \in 1 .. n : us[j] = ts[j + 1]
  OBVIOUS
<1> HIDE DEF n
<1>2. /\ \A j \in 1 .. n : j + 1 \in 1 .. n + 1
      /\ \A k \in 1 .. n + 1 : k = 1 \/ (k - 1 \in 1 .. n /\ (k - 1) + 1 = k)
      /\ 1 \in 1 .. n + 1
  BY <1>1
<1>3. Absent(C, ts) => Absent(C, us)
  BY <1>1, <1>2 DEF Absent
<1>4. ASSUME Absent(C, us) PROVE IF ts[1].type \in C THEN IsLast(C, ts, 1) ELSE Absent(C, ts)
  <2>1. ASSUME NEW k \in 1 .. n + 1, k # 1 PROVE ts[k].type \notin C
    <3>1. k - 1 \in 1 .. n /\ (k - 1) + 1 = k
      BY <1>2, <2>1
    <3>2. us[k - 1] = ts[k]
      BY <1>1, <3>1
    <3> QED
      BY <1>1, <1>4, <3>1, <3>2 DEF Absent
  <2>2. \A k \in 1 .. n + 1 : k > 1 => k # 1
    BY <1>1
  <2> QED
    BY <1>1, <1>2, <2>1, <2>2 DEF IsLast, Absent
<1>5. Len(us) = Len(ts) - 1 /\ Len(ts) \in Nat
  BY <1>1
<1>6. \A j \in DOMAIN us : j + 1 \in DOMAIN ts /\ us[j] = ts[j + 1]
  BY <1>1, <1>2
<1>7. 1 \in DOMAIN ts
  BY <1>1, <1>2
<1> QED
  BY <1>1, <1>3, <1>4, <1>5, <1>6, <1>7, Zenon

LEMMA TailedLast ==
    ASSUME NEW C, NEW ts \in Seq(TimerSet), ts # <<>>, NEW j, IsLast(C, Tail(ts), j)
    PROVE  j + 1 \in DOMAIN ts /\ IsLast(C, ts, j + 1) /\ Tail(ts)[j] = ts[j + 1]
<1> DEFINE n == Len(ts) - 1  us == Tail(ts)
<1>1. /\ n \in Nat /\ DOMAIN ts = 1 .. n + 1 /\ DOMAIN us = 1 .. n /\ \A i \in 1 .. n : us[i] = ts[i + 1]
  OBVIOUS
<1>1a. IsLast(C, us, j)
  OBVIOUS
<1> HIDE DEF n
<1>2. j \in 1 .. n /\ us[j].type \in C /\ \A k \in 1 .. n : k > j => us[k].type \notin C
  BY <1>1, <1>1a DEF IsLast
<1>3. j + 1 \in 1 .. n + 1 /\ us[j] = ts[j + 1]
  BY <1>1, <1>2
<1>4. ASSUME NEW k \in 1 .. n + 1, k > j + 1 PROVE ts[k].type \notin C
  <2>1. k - 1 \in 1 .. n /\ k - 1 > j /\ (k - 1) + 1 = k
    BY <1>1, <1>2, <1>4
  <2>2. us[k - 1] = ts[k]
    BY <1>1, <2>1
  <2> QED
    BY <1>2, <2>1, <2>2
<1>5. ts[j + 1].type \in C
  BY <1>2, <1>3
<1> QED
  BY <1>1, <1>3, <1>4, <1>5 DEF IsLast

\* The events told are those of one recorded key that includes the name, if there is one.
LEMMA EventsFound ==
    ASSUME NEW t
    PROVE  findEvents(t) = {} \/ \E e \in tape.events : Within(t[3], e.key) /\ findEvents(t) = e.of
<1> DEFINE found == {e \in tape.events : Within(t[3], e.key)}
<1>1. findEvents(t) = IF found = {} THEN {} ELSE (CHOOSE e \in found : TRUE).of
  BY DEF findEvents
<1>2. found # {} => (CHOOSE e \in found : TRUE) \in found
  OBVIOUS
<1> QED
  BY <1>1, <1>2

\* A reply is a matter of what is asked, and says only what the tape has.
LEMMA ReplyFacts ==
    ASSUME TapeInv, NEW m, NEW y, NEW o, m.type = y, m.of = o
    PROVE  /\ Reply(m) = Reply([type |-> y, of |-> o])
           /\ y = "subscribe" => Reply(m) \subseteq tape.rows
           /\ y # "change.propose" => Reply(m) \subseteq Things
           /\ Reply(m) \subseteq Things \cup FirstOps
           /\ y = "change.propose" => Reply(m) \subseteq {o}
<1>1. /\ tape.rows \subseteq Things /\ tape.release \subseteq Things /\ tape.pending \subseteq FirstOps
      /\ UNION {tape.objects, tape.logs, tape.consumers} \subseteq Entries /\ tape.plan \subseteq PlanSet
      /\ tape.events \subseteq EventEntries
  BY DEF TapeInv, RecorderTyped, Tape
<1>2. (\A e \in Entries : e.of \in Things) /\ \A p \in PlanSet : p.of \in Things
  BY DEF Entries, EntryOf, PlanSet
<1>3. Reply(m) = Reply([type |-> y, of |-> o])
  BY DEF Reply
<1>4. CASE y = "subscribe"
  <2>1. Reply(m) \subseteq tape.rows
    BY <1>4 DEF Reply, Listed
  <2> QED
    BY <1>1, <1>3, <1>4, <2>1
<1>5. CASE y = "change.propose"
  <2>1. Reply(m) = {c \in tape.pending : c = o}
    BY <1>5 DEF Reply
  <2> QED
    BY <1>1, <1>3, <1>5, <2>1
<1>6. CASE y \notin {"subscribe", "change.propose"}
  <2>1. CASE y = "get"
    BY <1>1, <1>2, <2>1 DEF Reply, At, findObject
  <2>2. CASE y = "events"
    <3>1. Reply(m) = findEvents(o)
      BY <2>2 DEF Reply
    <3>2. findEvents(o) = {} \/ \E e \in tape.events : findEvents(o) = e.of
      BY EventsFound
    <3>3. \A e \in tape.events : e.of \subseteq Things
      BY <1>1 DEF EventEntries
    <3>4. findEvents(o) \subseteq Things
      BY <3>2, <3>3
    <3> QED
      BY <1>3, <1>6, <2>2, <3>1, <3>4
  <2>3. CASE y = "consumers"
    BY <1>1, <1>2, <2>3 DEF Reply, At
  <2>4. CASE y = "logs"
    BY <1>1, <1>2, <2>4 DEF Reply, At
  <2>5. CASE y = "helm.get"
    BY <1>1, <2>5 DEF Reply
  <2>6. CASE y = "helm.rollback.plan"
    BY <1>1, <1>2, <2>6 DEF Reply
  <2>7. CASE y \notin {"subscribe", "change.propose", "get", "events", "consumers", "logs", "helm.get", "helm.rollback.plan"}
    BY <2>7 DEF Reply
  <2>8. Reply(m) \subseteq Things
    BY <1>6, <2>1, <2>2, <2>3, <2>4, <2>5, <2>6, <2>7
  <2> QED
    BY <1>3, <1>6, <2>8
<1> QED
  BY <1>4, <1>5, <1>6

\* A published tape does not change.
LEMMA PublishedStays == ASSUME TapeInv, stage = "published", [RecordingNext]_recorder PROVE UNCHANGED recorder
<1>1. asking = Idle /\ todo = {} /\ answering = {}
  BY DEF TapeInv, OverInv
<1>2. ~ AskNext /\ ~ Refused /\ ~ GiveUp /\ ~ TimeUp /\ ~ Upgrade /\ ~ \E x \in answering : Answered(x)
  BY <1>1 DEF AskNext, Refused, GiveUp, Miss, TimeUp, Upgrade
<1>3. ~ NextStage
  <2> SUFFICES ASSUME NextStage PROVE FALSE
    OBVIOUS
  <2>1. PICK i \in DOMAIN After : Stages[i] = stage
    BY DEF NextStage
  <2> QED
    BY <2>1, StageFacts
<1> QED
  BY <1>2, <1>3 DEF RecordingNext

\* Until the tape is published there is no visitor.
LEMMA RecordingStep ==
    ASSUME TapeInv, DemoInv, RecordingNext, UNCHANGED demo
    PROVE  DemoInv'
<1>1. UNCHANGED <<table, listing, visited, panel, shownOf, timers, dialogOf, proposed>>
  BY DEF demo
<1>2. CASE stage = "published"
  <2>1. UNCHANGED <<stage, tape>>
    BY <1>2, PublishedStays DEF recorder
  <2>2. \A m : Reply(m)' = Reply(m)
    BY <2>1 DEF Reply, At, Listed, findEvents, findObject, Within
  <2>3. DemoTyped' /\ DialogInv' /\ BlankInv'
    BY <1>1, <2>1 DEF DemoInv, DemoTyped, DemoTypeOK, DialogInv, BlankInv
  <2>4. TimersInv' /\ TableInv' /\ VisitInv'
    BY <1>1, <2>1, <2>2 DEF DemoInv, TimersInv, TableInv, VisitInv
  <2> QED
    BY <2>3, <2>4 DEF DemoInv
<1>3. CASE stage # "published"
  <2>1. timers = <<>> /\ table = <<"none", "">> /\ listing = {} /\ visited = NoThing /\ dialogOf = NoThing /\ proposed = NoThing
    BY <1>3 DEF DemoInv, BlankInv
  <2>2. DemoTyped'
    BY <1>1 DEF DemoInv, DemoTyped, DemoTypeOK
  <2>3. DOMAIN timers = {} /\ table[1] = "none"
    <3>1. timers = <<>> /\ table = <<"none", "">>
      BY <2>1
    <3>2. timers = <<>> => DOMAIN timers = {}
      OBVIOUS
    <3>3. <<"none", "">>[1] = "none"
      OBVIOUS
    <3> QED
      BY <3>1, <3>2, <3>3
  <2>4. TimersInv' /\ TableInv' /\ VisitInv' /\ DialogInv' /\ BlankInv'
    BY <1>1, <2>1, <2>3 DEF TimersInv, TableInv, VisitInv, DialogInv, BlankInv, IsLast, Absent
  <2> QED
    BY <2>2, <2>4 DEF DemoInv
<1> QED
  BY <1>2, <1>3

\* What is sent: one more timer, with the reply to it.
LEMMA SendFacts ==
    ASSUME TapeInv, DemoInv, stage = "published", UNCHANGED recorder,
           NEW y \in TimerTypes, NEW o \in Things \cup Proposals \cup ({t[1] : t \in Things} \X NamespaceChoices),
           Send([type |-> y, of |-> o])
    PROVE  /\ timers' \in Seq(TimerSet) /\ Len(timers') <= MaxTimers /\ Len(timers') = Len(timers) + 1
           /\ timers'[Len(timers')].type = y /\ timers'[Len(timers')].of = o
           /\ TimersInv'
           /\ \A C : y \in C => ~ Absent(C, timers') /\ \A j : IsLast(C, timers', j) => timers'[j].type = y /\ timers'[j].of = o
           /\ \A C : y \notin C => /\ Absent(C, timers') <=> Absent(C, timers)
                                   /\ \A j : IsLast(C, timers', j) => IsLast(C, timers, j) /\ timers'[j] = timers[j]
<1> DEFINE m == [type |-> y, of |-> o, body |-> Reply([type |-> y, of |-> o])]
<1>1. timers \in Seq(TimerSet)
  BY DEF DemoInv, DemoTyped
<1>2. m \in TimerSet
  <2>1. Reply([type |-> y, of |-> o]) \subseteq Things \cup FirstOps
    BY ReplyFacts
  <2> QED
    BY <2>1 DEF TimerSet
<1>3. timers' = Append(timers, m) /\ Len(timers) < MaxTimers
  BY DEF Send
<1>4. m.type = y /\ m.of = o /\ m.body = Reply(m)
  BY ReplyFacts
<1> HIDE DEF m
<1>5. UNCHANGED tape
  BY DEF recorder
<1>6. \A x : Reply(x)' = Reply(x)
  BY <1>5 DEF Reply, At, Listed, findEvents, findObject, Within
<1>7. /\ timers' \in Seq(TimerSet) /\ Len(timers') = Len(timers) + 1 /\ timers'[Len(timers')] = m
      /\ \A j \in DOMAIN timers' : timers'[j] = m \/ (j \in DOMAIN timers /\ timers'[j] = timers[j])
  BY <1>1, <1>2, <1>3, AppendSeq
<1>8. TimersInv'
  <2> SUFFICES ASSUME NEW j \in DOMAIN timers' PROVE timers'[j].body = Reply(timers'[j])
    BY <1>6 DEF TimersInv
  <2> QED
    BY <1>4, <1>7 DEF DemoInv, TimersInv
<1>9. Len(timers') <= MaxTimers
  <2>1. Len(timers) \in Nat /\ MaxTimers \in Nat
    BY <1>1, DemoAssumption
  <2> QED
    BY <1>3, <1>7, <2>1
<1>10. ASSUME NEW C, y \in C
       PROVE  ~ Absent(C, timers') /\ \A j : IsLast(C, timers', j) => timers'[j].type = y /\ timers'[j].of = o
  <2>1. m.type \in C
    BY <1>4, <1>10
  <2>2. ~ Absent(C, timers')
    BY <1>1, <1>2, <1>3, <2>1, AppendedLast
  <2>3. ASSUME NEW j, IsLast(C, timers', j) PROVE timers'[j] = m
    <3>1. j = Len(timers')
      BY <1>1, <1>2, <1>3, <2>1, <2>3, AppendedLast
    <3> QED
      BY <1>7, <3>1
  <2> QED
    BY <1>4, <2>2, <2>3
<1>11. ASSUME NEW C, y \notin C
       PROVE  /\ Absent(C, timers') <=> Absent(C, timers)
              /\ \A j : IsLast(C, timers', j) => IsLast(C, timers, j) /\ timers'[j] = timers[j]
  <2>1. m.type \notin C
    BY <1>4, <1>11
  <2> QED
    BY <1>1, <1>2, <1>3, <2>1, AppendedOther
<1> QED
  BY <1>4, <1>7, <1>8, <1>9, <1>10, <1>11

LEMMA TapeStays ==
    ASSUME TapeInv, Published
    PROVE  /\ TapeInv' /\ stage = "published" /\ stage' = "published" /\ tape' = tape /\ UNCHANGED recorder
           /\ \A x : Reply(x)' = Reply(x)
<1>1. stage = "published" /\ UNCHANGED recorder
  BY DEF Published
<1>2. stage' = "published" /\ tape' = tape
  BY <1>1 DEF recorder
<1>3. TapeInv'
  BY <1>1, RecorderStep
<1>4. \A x : Reply(x)' = Reply(x)
  BY <1>2 DEF Reply, At, Listed, findEvents, findObject, Within
<1> QED
  BY <1>1, <1>2, <1>3, <1>4

LEMMA TypesApart ==
    /\ "subscribe" \in TimerTypes /\ "change.propose" \in TimerTypes /\ "change.decide" \in TimerTypes /\ Panels \subseteq TimerTypes
    /\ "subscribe" \notin Panels /\ "change.propose" \notin Panels /\ "change.decide" \notin Panels
    /\ \A p \in Panels : p \notin {"subscribe"} /\ p \notin {"change.propose"}
  BY DEF TimerTypes, Panels

LEMMA NoThingApart == NoThing \notin Things /\ NoThing \notin Proposals
  BY DemoAssumption DEF NoThing

LEMMA SubscribeStep ==
    ASSUME TapeInv, DemoInv, NEW k \in {t[1] : t \in Things}, NEW s \in NamespaceChoices, Subscribe(k, s)
    PROVE  DemoInv'
<1>1. /\ Published /\ table' = <<k, s>> /\ listing' = {} /\ visited = NoThing /\ proposed = NoThing
      /\ Send([type |-> "subscribe", of |-> <<k, s>>]) /\ UNCHANGED <<visited, panel, shownOf, dialogOf, proposed>>
  BY DEF Subscribe
<1>2. /\ TapeInv' /\ stage = "published" /\ stage' = "published" /\ tape' = tape /\ UNCHANGED recorder
      /\ \A x : Reply(x)' = Reply(x)
  BY <1>1, TapeStays
<1>3. <<k, s>> \in Things \cup Proposals \cup ({t[1] : t \in Things} \X NamespaceChoices)
  OBVIOUS
<1>4. /\ timers' \in Seq(TimerSet) /\ Len(timers') <= MaxTimers /\ TimersInv'
      /\ ~ Absent({"subscribe"}, timers') /\ \A j : IsLast({"subscribe"}, timers', j) => timers'[j].of = <<k, s>>
      /\ Absent({"change.propose"}, timers') <=> Absent({"change.propose"}, timers)
  BY <1>1, <1>2, <1>3, SendFacts, TypesApart
<1>5. DemoTyped'
  <2>1. <<k, s>> \in (TableKinds \cup {"releases", "none"}) \X NamespaceChoices
    BY DEF TableKinds
  <2> QED
    BY <1>1, <1>4, <2>1 DEF DemoInv, DemoTyped, DemoTypeOK
<1>6. TableInv'
  BY <1>1, <1>4 DEF TableInv
<1>7. VisitInv' /\ BlankInv'
  BY <1>1, <1>2 DEF VisitInv, BlankInv
<1>8. DialogInv'
  BY <1>1, <1>4 DEF DemoInv, DialogInv
<1> QED
  BY <1>4, <1>5, <1>6, <1>7, <1>8 DEF DemoInv

LEMMA VisitStep ==
    ASSUME TapeInv, DemoInv, NEW t \in Things, NEW p \in Panels, Visit(t, p)
    PROVE  DemoInv'
<1>1. /\ Published /\ t \in listing /\ Asked(t, p) /\ visited' = t /\ panel' = p /\ shownOf' = {} /\ proposed = NoThing
      /\ Send([type |-> p, of |-> t]) /\ UNCHANGED <<table, listing, dialogOf, proposed>>
  BY DEF Visit
<1>2. /\ TapeInv' /\ stage = "published" /\ stage' = "published" /\ tape' = tape /\ UNCHANGED recorder
      /\ \A x : Reply(x)' = Reply(x)
  BY <1>1, TapeStays
<1>3. p \in TimerTypes /\ p \notin {"subscribe"} /\ p \notin {"change.propose"} /\ t \in Things \cup Proposals \cup ({u[1] : u \in Things} \X NamespaceChoices)
  BY TypesApart
<1>4. /\ timers' \in Seq(TimerSet) /\ Len(timers') <= MaxTimers /\ TimersInv'
      /\ ~ Absent(Panels, timers') /\ \A j : IsLast(Panels, timers', j) => timers'[j].type = p /\ timers'[j].of = t
      /\ Absent({"change.propose"}, timers') <=> Absent({"change.propose"}, timers)
      /\ Absent({"subscribe"}, timers') <=> Absent({"subscribe"}, timers)
      /\ \A j : IsLast({"subscribe"}, timers', j) => IsLast({"subscribe"}, timers, j) /\ timers'[j] = timers[j]
  BY <1>1, <1>2, <1>3, SendFacts
<1>5. DemoTyped'
  BY <1>1, <1>4 DEF DemoInv, DemoTyped, DemoTypeOK
<1>6. TableInv'
  BY <1>1, <1>2, <1>4 DEF DemoInv, TableInv
<1>7. VisitInv'
  <2>1. t \in tape.rows
    BY <1>1 DEF DemoInv, TableInv
  <2>2. Asked(visited, panel)'
    BY <1>1 DEF Asked
  <2> QED
    BY <1>1, <1>2, <1>4, <2>1, <2>2 DEF VisitInv
<1>8. DialogInv' /\ BlankInv'
  BY <1>1, <1>2, <1>4 DEF DemoInv, DialogInv, BlankInv
<1> QED
  BY <1>4, <1>5, <1>6, <1>7, <1>8 DEF DemoInv

LEMMA ProposeStep ==
    ASSUME TapeInv, DemoInv, NEW op \in Proposals, ProposeHere(op)
    PROVE  DemoInv'
<1>1. /\ Published /\ proposed = NoThing /\ timers = <<>> /\ proposed' = op
      /\ Send([type |-> "change.propose", of |-> op]) /\ UNCHANGED <<table, listing, visited, panel, shownOf, dialogOf>>
  BY DEF ProposeHere, Settled
<1>2. /\ TapeInv' /\ stage = "published" /\ stage' = "published" /\ tape' = tape /\ UNCHANGED recorder
      /\ \A x : Reply(x)' = Reply(x)
  BY <1>1, TapeStays
<1>3. op \in Things \cup Proposals \cup ({t[1] : t \in Things} \X NamespaceChoices)
  OBVIOUS
<1>4. /\ timers' \in Seq(TimerSet) /\ Len(timers') <= MaxTimers /\ TimersInv' /\ Len(timers') = Len(timers) + 1
      /\ timers'[Len(timers')].type = "change.propose" /\ timers'[Len(timers')].of = op
      /\ Absent({"subscribe"}, timers') <=> Absent({"subscribe"}, timers)
      /\ \A j : IsLast({"subscribe"}, timers', j) => IsLast({"subscribe"}, timers, j) /\ timers'[j] = timers[j]
      /\ Absent(Panels, timers') <=> Absent(Panels, timers)
      /\ \A j : IsLast(Panels, timers', j) => IsLast(Panels, timers, j) /\ timers'[j] = timers[j]
  BY <1>1, <1>2, <1>3, SendFacts, TypesApart
<1>5. DemoTyped'
  BY <1>1, <1>4 DEF DemoInv, DemoTyped, DemoTypeOK
<1>6. TableInv'
  BY <1>1, <1>2, <1>4 DEF DemoInv, TableInv
<1>7. VisitInv'
  BY <1>1, <1>2, <1>4 DEF DemoInv, VisitInv, Asked
<1>8. DialogInv'
  <2>1. Len(timers') = 1
    <3>1. Len(timers) = 0
      BY <1>1
    <3> QED
      BY <1>4, <3>1
  <2>2. dialogOf = NoThing /\ op # NoThing
    BY <1>1, NoThingApart DEF DemoInv, DialogInv
  <2> QED
    BY <1>1, <1>4, <2>1, <2>2 DEF DialogInv
<1>9. BlankInv'
  BY <1>2 DEF BlankInv
<1> QED
  BY <1>4, <1>5, <1>6, <1>7, <1>8, <1>9 DEF DemoInv

LEMMA WriteStep == ASSUME TapeInv, DemoInv, Write("change.decide") PROVE DemoInv'
<1>1. /\ Published /\ dialogOf # NoThing
      /\ Send([type |-> "change.decide", of |-> dialogOf]) /\ UNCHANGED <<table, listing, visited, panel, shownOf, dialogOf, proposed>>
  BY DEF Write
<1>2. /\ TapeInv' /\ stage = "published" /\ stage' = "published" /\ tape' = tape /\ UNCHANGED recorder
      /\ \A x : Reply(x)' = Reply(x)
  BY <1>1, TapeStays
<1>3. dialogOf \in Things \cup Proposals \cup ({t[1] : t \in Things} \X NamespaceChoices)
  BY <1>1 DEF DemoInv, DemoTyped, DemoTypeOK
<1>4. /\ timers' \in Seq(TimerSet) /\ Len(timers') <= MaxTimers /\ TimersInv'
      /\ Absent({"change.propose"}, timers') <=> Absent({"change.propose"}, timers)
      /\ Absent({"subscribe"}, timers') <=> Absent({"subscribe"}, timers)
      /\ \A j : IsLast({"subscribe"}, timers', j) => IsLast({"subscribe"}, timers, j) /\ timers'[j] = timers[j]
      /\ Absent(Panels, timers') <=> Absent(Panels, timers)
      /\ \A j : IsLast(Panels, timers', j) => IsLast(Panels, timers, j) /\ timers'[j] = timers[j]
  BY <1>1, <1>2, <1>3, SendFacts, TypesApart
<1>5. DemoTyped'
  BY <1>1, <1>4 DEF DemoInv, DemoTyped, DemoTypeOK
<1>6. TableInv'
  BY <1>1, <1>2, <1>4 DEF DemoInv, TableInv
<1>7. VisitInv'
  BY <1>1, <1>2, <1>4 DEF DemoInv, VisitInv, Asked
<1>8. DialogInv' /\ BlankInv'
  BY <1>1, <1>2, <1>4 DEF DemoInv, DialogInv, BlankInv
<1> QED
  BY <1>4, <1>5, <1>6, <1>7, <1>8 DEF DemoInv

LEMMA CloseStep == ASSUME TapeInv, DemoInv, Leave \/ CancelDialog PROVE DemoInv'
<1>1. Published /\ UNCHANGED <<table, listing, timers>>
  BY DEF Leave, CancelDialog
<1>2. /\ TapeInv' /\ stage = "published" /\ stage' = "published" /\ tape' = tape /\ \A x : Reply(x)' = Reply(x)
  BY <1>1, TapeStays
<1>3. TimersInv' /\ TableInv' /\ BlankInv'
  BY <1>1, <1>2 DEF DemoInv, TimersInv, TableInv, BlankInv
<1>4. DemoTyped'
  BY <1>1 DEF DemoInv, DemoTyped, DemoTypeOK, Leave, CancelDialog, Panels
<1>5. VisitInv'
  BY <1>1, <1>2 DEF DemoInv, VisitInv, Asked, Leave, CancelDialog
<1>6. DialogInv'
  BY <1>1 DEF DemoInv, DialogInv, Leave, CancelDialog
<1> QED
  BY <1>3, <1>4, <1>5, <1>6 DEF DemoInv

LEMMA FireStep == ASSUME TapeInv, DemoInv, Fire PROVE DemoInv'
<1> DEFINE m == timers[1]
<1>1. Published /\ timers # <<>> /\ timers' = Tail(timers) /\ timers \in Seq(TimerSet) /\ UNCHANGED <<table, visited, panel>>
  BY DEF Fire, DemoInv, DemoTyped
<1>2. /\ TapeInv' /\ stage = "published" /\ stage' = "published" /\ tape' = tape /\ UNCHANGED recorder
      /\ \A x : Reply(x)' = Reply(x)
  BY <1>1, TapeStays
<1>3. /\ timers' \in Seq(TimerSet) /\ Len(timers') = Len(timers) - 1 /\ Len(timers) \in Nat
      /\ 1 \in DOMAIN timers /\ Head(timers) = m /\ m \in TimerSet
      /\ \A j \in DOMAIN timers' : j + 1 \in DOMAIN timers /\ timers'[j] = timers[j + 1]
  BY <1>1, TailLast
<1>4. ASSUME NEW C
      PROVE  /\ \A j : IsLast(C, timers', j) => IsLast(C, timers, j + 1) /\ timers'[j] = timers[j + 1]
             /\ Absent(C, timers) => Absent(C, timers')
             /\ Absent(C, timers') => IF m.type \in C THEN IsLast(C, timers, 1) ELSE Absent(C, timers)
  <2>1. ASSUME NEW j, IsLast(C, timers', j) PROVE IsLast(C, timers, j + 1) /\ timers'[j] = timers[j + 1]
    <3>1. timers \in Seq(TimerSet) /\ timers # <<>> /\ IsLast(C, Tail(timers), j)
      BY <1>1, <2>1
    <3>2. IsLast(C, timers, j + 1) /\ Tail(timers)[j] = timers[j + 1]
      BY <3>1, TailedLast
    <3> QED
      BY <1>1, <3>2
  <2>2. Absent(C, timers) => Absent(C, timers')
    BY <1>1, TailLast
  <2>3. Absent(C, timers') => IF m.type \in C THEN IsLast(C, timers, 1) ELSE Absent(C, timers)
    BY <1>1, TailLast
  <2> QED
    BY <2>1, <2>2, <2>3
<1>5. m.body = Reply(m) /\ m.type \in TimerTypes
  BY <1>3 DEF DemoInv, TimersInv, TimerSet
<1> HIDE DEF m
<1>6. /\ m.type = "subscribe" => listing' = m.body /\ UNCHANGED <<shownOf, dialogOf, proposed>>
      /\ m.type = "change.propose" =>
             /\ m.body # {} => dialogOf' \in m.body /\ UNCHANGED proposed
             /\ m.body = {} => proposed' = NoThing /\ UNCHANGED dialogOf
             /\ UNCHANGED <<listing, shownOf>>
      /\ m.type \in Panels => /\ shownOf' = IF visited = NoThing THEN shownOf ELSE m.body
                              /\ UNCHANGED <<listing, dialogOf, proposed>>
      /\ m.type = "change.decide" => UNCHANGED <<listing, shownOf, dialogOf, proposed>>
  <2>1. CASE m.type = "subscribe"
    BY <1>3, <2>1, TypesApart DEF Fire
  <2>2. CASE m.type = "change.propose"
    BY <1>3, <2>2, TypesApart DEF Fire
  <2>3. CASE m.type \in Panels
    BY <1>3, <2>3, TypesApart DEF Fire
  <2>4. CASE m.type = "change.decide"
    BY <1>3, <2>4, TypesApart DEF Fire
  <2> QED
    BY <1>5, <2>1, <2>2, <2>3, <2>4 DEF TimerTypes
<1>7. /\ m.type = "subscribe" => m.body \subseteq tape.rows /\ m.body = Reply([type |-> "subscribe", of |-> m.of])
      /\ m.type = "change.propose" => m.body \subseteq {m.of}
      /\ m.type \in Panels => m.body \subseteq Things /\ m.body = Reply([type |-> m.type, of |-> m.of])
  BY <1>2, <1>5, ReplyFacts, TypesApart
<1>8. m.type = "change.propose" =>
          /\ dialogOf = NoThing /\ proposed # NoThing /\ m.of = proposed /\ timers' = <<>>
          /\ proposed \in Proposals
  <2> SUFFICES ASSUME m.type = "change.propose"
               PROVE  dialogOf = NoThing /\ proposed # NoThing /\ m.of = proposed /\ timers' = <<>> /\ proposed \in Proposals
    OBVIOUS
  <2>1. ~ Absent({"change.propose"}, timers)
    BY <1>3 DEF Absent, m
  <2>2. dialogOf = NoThing /\ proposed # NoThing /\ Len(timers) = 1 /\ m.of = proposed
    BY <2>1 DEF DemoInv, DialogInv, m
  <2>3. Len(timers') = 0
    BY <1>3, <2>2
  <2>4. timers' = <<>>
    BY <1>3, <2>3
  <2> QED
    BY <2>2, <2>4 DEF DemoInv, DemoTyped, DemoTypeOK
<1>9. TimersInv'
  BY <1>2, <1>3 DEF DemoInv, TimersInv
<1>10. DemoTyped'
  <2>1. listing' \subseteq Things /\ shownOf' \subseteq Things
    <3>1. tape.rows \subseteq Things
      BY DEF TapeInv, RecorderTyped, Tape
    <3> QED
      BY <1>5, <1>6, <1>7, <3>1 DEF DemoInv, DemoTyped, DemoTypeOK, TimerTypes
  <2>2. {dialogOf', proposed'} \subseteq Proposals \cup {NoThing}
    <3>1. CASE m.type = "change.propose"
      BY <1>6, <1>7, <1>8, <3>1
    <3>2. CASE m.type # "change.propose"
      BY <1>5, <1>6, <3>2 DEF DemoInv, DemoTyped, DemoTypeOK, TimerTypes
    <3> QED
      BY <3>1, <3>2
  <2>3. Len(timers') <= MaxTimers
    <3>1. Len(timers) <= MaxTimers /\ MaxTimers \in Nat
      BY DemoAssumption DEF DemoInv, DemoTyped, DemoTypeOK
    <3> QED
      BY <1>3, <3>1
  <2> QED
    BY <1>1, <1>3, <2>1, <2>2, <2>3 DEF DemoInv, DemoTyped, DemoTypeOK
<1>11. TableInv'
  <2>1. ASSUME NEW j, IsLast({"subscribe"}, timers', j) PROVE timers'[j].of = table
    <3>1. IsLast({"subscribe"}, timers, j + 1) /\ timers'[j] = timers[j + 1]
      BY <1>4, <2>1
    <3> QED
      BY <3>1 DEF DemoInv, TableInv
  <2>2. ASSUME Absent({"subscribe"}, timers') PROVE table[1] = "none" \/ listing' = Reply([type |-> "subscribe", of |-> table])
    <3>1. CASE m.type = "subscribe"
      <4>1. m.of = table
        <5>1. IsLast({"subscribe"}, timers, 1)
          BY <1>4, <2>2, <3>1
        <5> QED
          BY <5>1 DEF DemoInv, TableInv, m
      <4> QED
        BY <1>6, <1>7, <3>1, <4>1
    <3>2. CASE m.type # "subscribe"
      <4>1. Absent({"subscribe"}, timers)
        BY <1>4, <2>2, <3>2
      <4>2. listing' = listing
        BY <1>5, <1>6, <3>2 DEF TimerTypes
      <4> QED
        BY <4>1, <4>2 DEF DemoInv, TableInv
    <3> QED
      BY <3>1, <3>2
  <2>3. listing' \subseteq tape.rows
    BY <1>5, <1>6, <1>7 DEF DemoInv, TableInv, TimerTypes
  <2> QED
    BY <1>1, <1>2, <2>1, <2>2, <2>3 DEF TableInv
<1>12. VisitInv'
  <2> SUFFICES ASSUME visited # NoThing
               PROVE  /\ visited \in tape.rows /\ Asked(visited, panel)
                      /\ \A j : IsLast(Panels, timers', j) => timers'[j].of = visited /\ timers'[j].type = panel
                      /\ Absent(Panels, timers') => shownOf' = Reply([type |-> panel, of |-> visited])
    BY <1>1, <1>2 DEF VisitInv, Asked
  <2>1. /\ visited \in tape.rows /\ Asked(visited, panel)
        /\ \A j : IsLast(Panels, timers, j) => timers[j].of = visited /\ timers[j].type = panel
        /\ Absent(Panels, timers) => shownOf = Reply([type |-> panel, of |-> visited])
    BY DEF DemoInv, VisitInv
  <2>2. \A j : IsLast(Panels, timers', j) => timers'[j].of = visited /\ timers'[j].type = panel
    BY <1>4, <2>1
  <2>3. ASSUME Absent(Panels, timers') PROVE shownOf' = Reply([type |-> panel, of |-> visited])
    <3>1. CASE m.type \in Panels
      <4>1. IsLast(Panels, timers, 1)
        BY <1>4, <2>3, <3>1
      <4>2. m.of = visited /\ m.type = panel
        BY <2>1, <4>1 DEF m
      <4> QED
        BY <1>6, <1>7, <3>1, <4>2
    <3>2. CASE m.type \notin Panels
      <4>1. Absent(Panels, timers)
        BY <1>4, <2>3, <3>2
      <4>2. shownOf' = shownOf
        BY <1>5, <1>6, <3>2 DEF TimerTypes
      <4> QED
        BY <2>1, <4>1, <4>2
    <3> QED
      BY <3>1, <3>2
  <2> QED
    BY <2>1, <2>2, <2>3
<1>13. DialogInv'
  <2>1. CASE m.type = "change.propose"
    <3>1. Absent({"change.propose"}, timers')
      BY <1>8, <2>1 DEF Absent
    <3>2. dialogOf' = proposed'
      BY <1>6, <1>7, <1>8, <2>1
    <3> QED
      BY <3>1, <3>2 DEF DialogInv
  <2>2. CASE m.type # "change.propose"
    <3>1. UNCHANGED <<dialogOf, proposed>>
      BY <1>5, <1>6, <2>2 DEF TimerTypes
    <3>2. dialogOf = proposed /\ Absent({"change.propose"}, timers)
      BY <2>2 DEF DemoInv, DialogInv, m
    <3> QED
      BY <1>4, <3>1, <3>2 DEF DialogInv
  <2> QED
    BY <2>1, <2>2
<1>14. BlankInv'
  BY <1>2 DEF BlankInv
<1> QED
  BY <1>9, <1>10, <1>11, <1>12, <1>13, <1>14 DEF DemoInv

LEMMA DemoStart == DemoInit => TapeInv /\ DemoInv
<1> SUFFICES ASSUME DemoInit PROVE TapeInv /\ DemoInv
  OBVIOUS
<1>1. TapeInv
  BY RecorderStart DEF DemoInit
<1>2. /\ panel = "get" /\ table = <<"none", "">> /\ listing = {} /\ visited = NoThing /\ shownOf = {}
      /\ timers = <<>> /\ dialogOf = NoThing /\ proposed = NoThing
  BY DEF DemoInit
<1>3. timers \in Seq(TimerSet) /\ DOMAIN timers = {} /\ Len(timers) = 0
  <2>1. timers = <<>>
    BY <1>2
  <2> QED
    BY <2>1
<1>4. 0 <= MaxTimers
  BY DemoAssumption
<1>5. Len(timers) <= MaxTimers
  BY <1>3, <1>4
<1>6. table[1] = "none" /\ table \in (TableKinds \cup {"releases", "none"}) \X NamespaceChoices
  <2>1. <<"none", "">>[1] = "none" /\ <<"none", "">> \in (TableKinds \cup {"releases", "none"}) \X NamespaceChoices
    BY DEF NamespaceChoices
  <2> QED
    BY <1>2, <2>1
<1>7. DemoTyped
  BY <1>2, <1>3, <1>5, <1>6 DEF DemoTyped, DemoTypeOK, Panels
<1>8. TimersInv /\ TableInv /\ VisitInv /\ DialogInv /\ BlankInv
  BY <1>2, <1>3, <1>6 DEF TimersInv, TableInv, VisitInv, DialogInv, BlankInv, IsLast, Absent
<1> QED
  BY <1>1, <1>7, <1>8 DEF DemoInv

LEMMA DemoStep == ASSUME TapeInv, DemoInv, [DemoNext]_<<recorder, demo>> PROVE TapeInv' /\ DemoInv'
<1>1. CASE RecordingNext /\ UNCHANGED demo
  BY <1>1, RecorderStep, RecordingStep
<1>2. CASE \E k \in {t[1] : t \in Things}, s \in NamespaceChoices : Subscribe(k, s)
  <2>1. TapeInv'
    BY <1>2, TapeStays DEF Subscribe
  <2> QED
    BY <1>2, <2>1, SubscribeStep
<1>3. CASE \E t \in Things, p \in Panels : Visit(t, p)
  <2>1. TapeInv'
    BY <1>3, TapeStays DEF Visit
  <2> QED
    BY <1>3, <2>1, VisitStep
<1>4. CASE \E op \in Proposals : ProposeHere(op)
  <2>1. TapeInv'
    BY <1>4, TapeStays DEF ProposeHere
  <2> QED
    BY <1>4, <2>1, ProposeStep
<1>5. CASE Leave \/ CancelDialog
  <2>1. TapeInv'
    BY <1>5, TapeStays DEF Leave, CancelDialog
  <2> QED
    BY <1>5, <2>1, CloseStep
<1>6. CASE Write("change.decide")
  <2>1. TapeInv'
    BY <1>6, TapeStays DEF Write
  <2> QED
    BY <1>6, <2>1, WriteStep
<1>7. CASE Fire
  <2>1. TapeInv'
    BY <1>7, TapeStays DEF Fire
  <2> QED
    BY <1>7, <2>1, FireStep
<1>8. CASE UNCHANGED <<recorder, demo>>
  <2>1. UNCHANGED recorder /\ UNCHANGED <<stage, tape, table, listing, visited, panel, shownOf, timers, dialogOf, proposed>>
    BY <1>8 DEF recorder, demo
  <2>2. TapeInv'
    BY <2>1, RecorderStep
  <2>3. \A x : Reply(x)' = Reply(x)
    BY <2>1 DEF Reply, At, Listed, findEvents, findObject, Within
  <2>4. DemoTyped' /\ DialogInv' /\ BlankInv'
    BY <2>1 DEF DemoInv, DemoTyped, DemoTypeOK, DialogInv, BlankInv
  <2>5. TimersInv' /\ TableInv' /\ VisitInv'
    BY <2>1, <2>3 DEF DemoInv, TimersInv, TableInv, VisitInv, Asked
  <2> QED
    BY <2>2, <2>4, <2>5 DEF DemoInv
<1> QED
  BY <1>1, <1>2, <1>3, <1>4, <1>5, <1>6, <1>7, <1>8 DEF DemoNext

\* A key looked up by is the key of one thing at most, and of that one unless it has no namespace.
LEMMA KeyFacts ==
    ASSUME NEW t \in Things, NEW u \in Things
    PROVE  /\ RowKey(u) = Key(t) => u = t
           /\ RowKey(u) = t => u = t
           /\ t[2] # "" => Key(t) = RowKey(t) /\ RowKey(t) = t
<1>1. /\ t = <<t[1], t[2], t[3]>> /\ u = <<u[1], u[2], u[3]>> /\ (t[2] # "" => RowKey(t) = t) /\ (u[2] # "" => RowKey(u) = u)
  BY ThingFacts
<1>2. ASSUME NEW a, NEW b, NEW c, NEW d, NEW e PROVE <<a, b>> # <<c, d, e>>
  <2>1. Len(<<a, b>>) = 2 /\ Len(<<c, d, e>>) = 3
    OBVIOUS
  <2> QED
    BY <2>1
<1>3. u[2] = "" => RowKey(u) = <<u[1], u[3]>>
  BY DEF RowKey
<1>4. Key(t) = IF t[2] = "" THEN <<t[1], "undefined", t[3]>> ELSE t
  BY DEF Key
<1>5. ASSUME u[2] = "" PROVE RowKey(u) # Key(t) /\ RowKey(u) # t
  <2>1. RowKey(u) # t
    BY <1>1, <1>2, <1>3, <1>5
  <2>2. RowKey(u) # <<t[1], "undefined", t[3]>>
    BY <1>2, <1>3, <1>5
  <2> QED
    BY <1>4, <2>1, <2>2
<1>6. ASSUME u[2] # "", RowKey(u) = Key(t) PROVE u = t
  <2>1. CASE t[2] = ""
    <3>1. u = <<t[1], "undefined", t[3]>>
      BY <1>1, <1>4, <1>6, <2>1
    <3>2. u[2] = "undefined"
      BY <3>1
    <3> QED
      BY <3>2, DemoAssumption
  <2>2. CASE t[2] # ""
    BY <1>1, <1>4, <1>6, <2>2
  <2> QED
    BY <2>1, <2>2
<1> QED
  BY <1>1, <1>4, <1>5, <1>6

\* Once the timers are done, what the pane shows is the reply to what the visitor asked.
LEMMA DemoFollows == TapeInv /\ DemoInv => DemoTypeOK /\ DemoAnswers
<1> SUFFICES ASSUME TapeInv, DemoInv PROVE DemoTypeOK /\ DemoAnswers
  OBVIOUS
<1>1. DemoTypeOK
  BY DEF DemoInv, DemoTyped
<1>2. ASSUME Settled PROVE (\A C : Absent(C, timers)) /\ Len(timers) = 0
  <2>1. timers = <<>>
    BY <1>2 DEF Settled
  <2>2. DOMAIN timers = {} /\ Len(timers) = 0
    BY <2>1
  <2> QED
    BY <2>2 DEF Absent
<1>3. (Settled /\ table[1] # "none") =>
          listing = {t \in tape.rows : t[1] = table[1] /\ (table[1] = "releases" \/ table[2] = "" \/ t[2] \in {"", table[2]})}
  <2>1. (Settled /\ table[1] # "none") => listing = Reply([type |-> "subscribe", of |-> table])
    BY <1>2 DEF DemoInv, TableInv
  <2>2. Reply([type |-> "subscribe", of |-> table])
          = {t \in Listed(table[1]) : table[1] = "releases" \/ table[2] = "" \/ t[2] \in {"", table[2]}}
    BY DEF Reply
  <2> QED
    BY <2>1, <2>2 DEF Listed
<1>4. dialogOf \in {proposed, NoThing} /\ (Settled => dialogOf = proposed)
  BY <1>2 DEF DemoInv, DialogInv
<1>5. ASSUME Settled, visited # NoThing
      PROVE  /\ panel \in {"get", "consumers", "logs"} =>
                   /\ shownOf \subseteq {visited}
                   /\ visited[2] # "" => (shownOf # {} <=> \E e \in OnTape : e.of = visited)
             /\ panel = "events" =>
                   /\ shownOf = {} \/ \E e \in tape.events : Within(visited[3], e.key) /\ shownOf = e.of
                   /\ Namesakes(visited) = {} => shownOf \subseteq NamedAs(visited)
             /\ panel = "helm.get" => shownOf = tape.release
             /\ panel = "helm.rollback.plan" => shownOf \subseteq {visited}
  <2>1. visited \in tape.rows /\ Asked(visited, panel) /\ shownOf = Reply([type |-> panel, of |-> visited])
    BY <1>2, <1>5 DEF DemoInv, VisitInv
  <2>2. /\ tape.rows \subseteq Things /\ tape.release \subseteq Things
        /\ tape.objects \subseteq Entries /\ tape.consumers \subseteq Entries /\ tape.logs \subseteq Entries
    BY DEF TapeInv, RecorderTyped, Tape
  <2>3. visited \in Things
    BY <2>1, <2>2
  <2>4. ASSUME NEW es \in SUBSET Entries, NEW key, key \in {Key(visited), visited}
        PROVE  /\ At(es, key) \subseteq {visited}
               /\ visited[2] # "" => (At(es, key) # {} <=> \E e \in es : e.of = visited)
    <3>1. \A e \in es : e.of \in Things /\ e.key = RowKey(e.of)
      BY DEF Entries, EntryOf
    <3>2. ASSUME NEW e \in es, e.key = key PROVE e.of = visited
      <4>1. RowKey(e.of) = key /\ e.of \in Things
        BY <3>1, <3>2
      <4>2. CASE key = Key(visited)
        BY <2>3, <4>1, <4>2, KeyFacts
      <4>3. CASE key = visited
        BY <2>3, <4>1, <4>3, KeyFacts
      <4> QED
        BY <2>4, <4>2, <4>3
    <3>3. visited[2] # "" => \A e \in es : e.of = visited => e.key = key
      BY <2>3, <2>4, <3>1, KeyFacts
    <3> QED
      BY <3>2, <3>3 DEF At
  <2>5. ASSUME panel \in {"get", "consumers", "logs"}
        PROVE  shownOf \subseteq {visited} /\ (visited[2] # "" => (shownOf # {} <=> \E e \in OnTape : e.of = visited))
    <3>1. CASE panel = "get"
      <4>1. shownOf = At(tape.objects, Key(visited)) /\ OnTape = tape.objects
        BY <2>1, <3>1 DEF Reply, OnTape, findObject
      <4> QED
        BY <2>2, <2>4, <4>1
    <3>2. CASE panel = "consumers"
      <4>1. shownOf = At(tape.consumers, visited) /\ OnTape = tape.consumers
        BY <2>1, <3>2 DEF Reply, OnTape
      <4> QED
        BY <2>2, <2>4, <4>1
    <3>3. CASE panel = "logs"
      <4>1. shownOf = At(tape.logs, visited) /\ OnTape = tape.logs
        BY <2>1, <3>3 DEF Reply, OnTape
      <4> QED
        BY <2>2, <2>4, <4>1
    <3> QED
      BY <2>5, <3>1, <3>2, <3>3
  <2>6. ASSUME panel = "events"
        PROVE  /\ shownOf = {} \/ \E e \in tape.events : Within(visited[3], e.key) /\ shownOf = e.of
               /\ Namesakes(visited) = {} => shownOf \subseteq NamedAs(visited)
    <3>1. shownOf = findEvents(visited)
      BY <2>1, <2>6 DEF Reply
    <3>2. shownOf = {} \/ \E e \in tape.events : Within(visited[3], e.key) /\ shownOf = e.of
      BY <3>1, EventsFound
    <3> QED
      BY <3>2 DEF Namesakes
  <2>7. ASSUME panel = "helm.get" PROVE shownOf = tape.release
    BY <2>1, <2>7 DEF Reply
  <2>8. ASSUME panel = "helm.rollback.plan" PROVE shownOf \subseteq {visited}
    BY <2>1, <2>8 DEF Reply
  <2> QED
    BY <2>5, <2>6, <2>7, <2>8
<1> QED
  BY <1>1, <1>3, <1>4, <1>5 DEF DemoAnswers

LEMMA DemoInvariant == DemoSpec => [](TapeInv /\ DemoInv)
<1>1. TapeInv /\ DemoInv /\ [DemoNext]_<<recorder, demo>> => (TapeInv /\ DemoInv)'
  BY DemoStep
<1> QED
  BY <1>1, DemoStart, PTL DEF DemoSpec

\* The tape fits the cluster it was recorded from, for any cluster, any asks given up on or refused
\* and any release upgraded meanwhile: an object, a log and the consumers filed under a key are of
\* that key and of a row listed; the events filed under one are of everything with its namespace
\* and name, of any kind, or none where the ask for them came to nothing; a rollback change comes
\* with its plan, and a tape made without a miss is complete.
THEOREM RecordingCorrect == DemoSpec => []RecordingTypeOK /\ []TapeFits
<1>1. TapeInv /\ DemoInv => RecordingTypeOK /\ TapeFits
  BY TapeFollows
<1> QED
  BY <1>1, DemoInvariant, PTL

\* Whatever the visitor does while answers are under way, once they are in: the table lists the
\* rows recorded of its kind and namespace, and all the releases whatever the namespace; the drawer
\* shows what the tape has of the thing selected and no other object, consumers or log; its events
\* are those of one recorded key that includes the name; a release's detail is the one recorded,
\* whichever is selected.  The dialog is on the operation proposed.
THEOREM DemoCorrect == DemoSpec => []DemoTypeOK /\ []DemoAnswers
<1>1. TapeInv /\ DemoInv => DemoTypeOK /\ DemoAnswers
  BY DemoFollows
<1> QED
  BY <1>1, DemoInvariant, PTL
-----------------------------------------------------------------------------
(***************************************************************************)
(* redactSecretYaml, for an object of any length.  Its two passes are      *)
(* folds over the lines; what the first has on its page after a line is    *)
(* told from the lines so far (AtLine), and the second drops nothing but   *)
(* annotations.                                                            *)
(***************************************************************************)
Outs   == Lines \cup {"redacted"}
AccSet == [skipping : BOOLEAN, inData : BOOLEAN, out : Seq(Outs)]
Clear  == [skipping |-> FALSE, inData |-> FALSE, out |-> <<>>]

LEMMA RedactLineType ==
    ASSUME NEW acc \in AccSet, NEW l \in Lines
    PROVE  RedactLine(acc, l) \in AccSet
  BY AppendProperties DEF RedactLine, AccSet, Outs, Lines, Unindented

\* redactSecretYaml goes through the lines one by one.
LEMMA RedactRun ==
    ASSUME NEW text \in Seq(Lines)
    PROVE  \E run : /\ run[0] = Clear
                    /\ \A i \in 1 .. Len(text) : run[i] = RedactLine(run[i - 1], text[i])
                    /\ run[Len(text)] = Seqs!FoldLeft(RedactLine, Clear, text)
<1> DEFINE n == Len(text)
           S == 1 .. n
           IsIter(it) == it = [s \in SUBSET S |-> IF s = {} THEN Clear ELSE RedactLine(it[s \ {Seqs!Max(s)}], text[Seqs!Max(s)])]
           iter == CHOOSE it : IsIter(it)
           run == [i \in 0 .. n |-> iter[1 .. i]]
<1>0. n \in Nat /\ DOMAIN text = S /\ (\A i \in S : text[i] \in Lines) /\ IsFiniteSet(S)
  BY FS_Interval
<1>1. Clear \in AccSet
  BY DEF Clear, AccSet
<1>2. \E it : IsIter(it)
  <2> DEFINE pick == [s \in SUBSET S |-> Seqs!Max(s)]
             step == [v \in S \X AccSet |-> RedactLine(v[2], text[v[1]])]
  <2>1. \A s \in SUBSET S : s # {} => pick[s] \in s
    BY <1>0, PrefixMax
  <2>2. step \in [S \X AccSet -> AccSet]
    BY <1>0, RedactLineType
  <2>3. PICK g \in [SUBSET S -> AccSet] : \A s \in SUBSET S : g[s] = FoldStep(Clear, step, pick, g, s)
    <3>1. Foldable(S, AccSet, Clear, step, pick)
      BY <1>0, <1>1, <2>1, <2>2 DEF Foldable
    <3> HIDE DEF S, pick, step
    <3>2. PICK g : IsFold(g, S, AccSet, Clear, step, pick)
      BY <3>1, FoldExists
    <3> QED
      BY <3>2 DEF IsFold
  <2>4. ASSUME NEW s \in SUBSET S, s # {}
        PROVE  g[s] = RedactLine(g[s \ {Seqs!Max(s)}], text[Seqs!Max(s)])
    <3> DEFINE m == Seqs!Max(s)
    <3>1. pick[s] = m /\ m \in S /\ s \ {m} \in SUBSET S
      BY <2>1, <2>4
    <3>2. g[s \ {m}] \in AccSet
      BY <3>1
    <3>3. g[s] = step[<<m, g[s \ {m}]>>]
      BY <2>3, <2>4, <3>1 DEF FoldStep
    <3>4. step[<<m, g[s \ {m}]>>] = RedactLine(g[s \ {m}], text[m])
      <4> HIDE DEF m, S
      <4> QED
        BY <3>1, <3>2
    <3> QED
      BY <3>3, <3>4
  <2>5. g[{}] = Clear
    BY <2>3 DEF FoldStep
  <2>6. IsIter(g)
    <3> HIDE DEF S, pick, step
    <3> QED
      BY <2>4, <2>5
  <2> QED
    BY <2>6
<1>3. IsIter(iter)
  <2> HIDE DEF IsIter
  <2> QED
    BY <1>2, Zenon
<1>4. run[0] = Clear
  <2>1. 1 .. 0 = {} /\ {} \in SUBSET S
    OBVIOUS
  <2>2. iter[{}] = Clear
    <3> HIDE DEF S, iter
    <3> QED
      BY <1>3
  <2> HIDE DEF iter
  <2> QED
    BY <1>0, <2>1, <2>2
<1>5. ASSUME NEW i \in 1 .. n PROVE run[i] = RedactLine(run[i - 1], text[i])
  <2>0. i \in Nat /\ i <= n /\ i >= 1
    BY <1>0
  <2>1. 1 .. i \in SUBSET S /\ 1 \in 1 .. i /\ 1 .. i # {} /\ i - 1 \in 0 .. n
    <3> HIDE DEF n
    <3>1. 1 .. i \subseteq 1 .. n
      BY <1>0, <2>0
    <3> QED
      BY <1>0, <2>0, <3>1
  <2>2. Seqs!Max(1 .. i) = i /\ (1 .. i) \ {i} = 1 .. i - 1
    BY <1>0, PrefixMax
  <2>3. iter[1 .. i] = RedactLine(iter[(1 .. i) \ {Seqs!Max(1 .. i)}], text[Seqs!Max(1 .. i)])
    <3> HIDE DEF S, iter
    <3> QED
      BY <1>3, <2>1
  <2> HIDE DEF iter
  <2> QED
    BY <1>0, <2>1, <2>2, <2>3
<1>6. run[n] = Seqs!FoldLeft(RedactLine, Clear, text)
  <2>1. Seqs!FoldLeft(RedactLine, Clear, text) = (CHOOSE it : it =
            [s \in SUBSET DOMAIN text |-> IF s = {} THEN Clear ELSE RedactLine(it[s \ {Seqs!Max(s)}], text[Seqs!Max(s)])])[DOMAIN text]
    BY Zenon DEF Seqs!FoldLeft, Seqs!MapThenFoldSet
  <2>2. Seqs!FoldLeft(RedactLine, Clear, text) = iter[S]
    BY <1>0, <2>1, Zenon
  <2>3. run[n] = iter[S]
    <3> HIDE DEF iter
    <3> QED
      BY <1>0
  <2> QED
    BY <2>2, <2>3, Zenon
<1> QED
  <2> HIDE DEF run, n
  <2>1. /\ run[0] = Clear /\ \A i \in 1 .. n : run[i] = RedactLine(run[i - 1], text[i])
        /\ run[n] = Seqs!FoldLeft(RedactLine, Clear, text)
    BY <1>4, <1>5, <1>6, Zenon
  <2> QED
    BY <2>1, Zenon DEF n

-----------------------------------------------------------------------------
\* How often something is among the first of a sequence, and in all of it.
Upto(f, i, l) == {j \in 1 .. i : f[j] = l}
Left(out, l)  == Cardinality({i \in DOMAIN out : out[i] = l})

LEMMA UptoNext ==
    ASSUME NEW f, NEW i \in Nat, NEW l
    PROVE  /\ Cardinality(Upto(f, i + 1, l)) = Cardinality(Upto(f, i, l)) + (IF f[i + 1] = l THEN 1 ELSE 0)
           /\ Cardinality(Upto(f, i, l)) \in Nat
<1> DEFINE A == Upto(f, i, l)
<1>1. IsFiniteSet(A) /\ Cardinality(A) \in Nat /\ i + 1 \notin A
  <2>1. IsFiniteSet(1 .. i)
    BY FS_Interval
  <2> QED
    BY <2>1, FS_Subset, FS_CardinalityType DEF Upto
<1>2. 1 .. i + 1 = (1 .. i) \cup {i + 1}
  OBVIOUS
<1>3. CASE f[i + 1] = l
  <2>1. Upto(f, i + 1, l) = A \cup {i + 1}
    BY <1>2, <1>3, Zenon DEF Upto
  <2> HIDE DEF A
  <2>2. Cardinality(A \cup {i + 1}) = Cardinality(A) + 1
    BY <1>1, FS_AddElement
  <2> QED
    BY <1>1, <1>3, <2>1, <2>2 DEF A
<1>4. CASE f[i + 1] # l
  <2>1. Upto(f, i + 1, l) = A
    BY <1>2, <1>4, Zenon DEF Upto
  <2> QED
    BY <1>1, <1>4, <2>1
<1> QED
  BY <1>3, <1>4

LEMMA LeftAppend ==
    ASSUME NEW out \in Seq(Outs), NEW e \in Outs, NEW l
    PROVE  Left(Append(out, e), l) = Left(out, l) + (IF e = l THEN 1 ELSE 0) /\ Left(out, l) \in Nat
<1> DEFINE n == Len(out)
           more == Append(out, e)
<1>1. n \in Nat /\ DOMAIN out = 1 .. n /\ DOMAIN more = 1 .. n + 1 /\ more[n + 1] = e
  BY AppendProperties
<1>2. \A i \in 1 .. n : more[i] = out[i]
  BY AppendProperties
<1> HIDE DEF more, n
<1>3. Left(more, l) = Cardinality(Upto(more, n + 1, l)) /\ Left(out, l) = Cardinality(Upto(out, n, l))
  BY <1>1 DEF Left, Upto
<1>4. Upto(more, n, l) = Upto(out, n, l)
  BY <1>2 DEF Upto
<1>5. Left(more, l) = Left(out, l) + (IF e = l THEN 1 ELSE 0) /\ Left(out, l) \in Nat
  BY <1>1, <1>3, <1>4, UptoNext
<1> QED
  BY <1>5 DEF more

\* What a line leaves on the page, and what the accumulator is after i of them.
Emits(text) ==
    [j \in 1 .. Len(text) |->
        IF text[j] = "applied" \/ (text[j] = "deep" /\ Dropped(text, j)) THEN "nothing"
        ELSE IF text[j] \in {"entry", "child"} /\ Under(text, j) THEN "redacted" ELSE text[j]]
AtLine(text, i, acc) ==
    /\ acc \in AccSet
    /\ acc.inData <=> Under(text, i + 1)
    /\ acc.skipping <=> Dropped(text, i)
    /\ \A l \in Outs : Left(acc.out, l) = Cardinality(Upto(Emits(text), i, l))

LEMMA UnderNext ==
    ASSUME NEW text, NEW i \in Nat, i >= 1
    PROVE  Under(text, i + 1) <=> text[i] = "data" \/ (Under(text, i) /\ text[i] \notin Unindented \ {"data"})
<1>0. (i + 1) - 1 = i /\ 1 .. i = (1 .. i - 1) \cup {i} /\ i .. i = {i}
  OBVIOUS
<1>1. ASSUME Under(text, i + 1) PROVE text[i] = "data" \/ (Under(text, i) /\ text[i] \notin Unindented \ {"data"})
  <2>1. PICK j \in 1 .. i : text[j] = "data" /\ \A k \in j .. i : text[k] \notin Unindented \ {"data"}
    BY <1>0, <1>1 DEF Under
  <2>2. CASE j = i
    BY <2>1, <2>2
  <2>3. CASE j # i
    <3>1. j \in 1 .. i - 1 /\ i \in j .. i /\ j .. i - 1 \subseteq j .. i
      BY <2>3
    <3> QED
      BY <2>1, <3>1 DEF Under
  <2> QED
    BY <2>2, <2>3
<1>2. ASSUME text[i] = "data" PROVE Under(text, i + 1)
  BY <1>0, <1>2 DEF Under
<1>3. ASSUME Under(text, i), text[i] \notin Unindented \ {"data"} PROVE Under(text, i + 1)
  <2>1. PICK j \in 1 .. i - 1 : text[j] = "data" /\ \A k \in j .. i - 1 : text[k] \notin Unindented \ {"data"}
    BY <1>3 DEF Under
  <2>2. j \in 1 .. i /\ j .. i = (j .. i - 1) \cup {i}
    OBVIOUS
  <2> QED
    BY <1>0, <1>3, <2>1, <2>2 DEF Under
<1> QED
  BY <1>1, <1>2, <1>3

LEMMA DroppedNext ==
    ASSUME NEW text, NEW i \in Nat, i >= 1
    PROVE  Dropped(text, i) <=> text[i] = "applied" \/ (Dropped(text, i - 1) /\ text[i] = "deep")
<1>1. ASSUME Dropped(text, i) PROVE text[i] = "applied" \/ (Dropped(text, i - 1) /\ text[i] = "deep")
  <2>1. PICK j \in 1 .. i : text[j] = "applied" /\ \A k \in j + 1 .. i : text[k] = "deep"
    BY <1>1 DEF Dropped
  <2>2. CASE j = i
    BY <2>1, <2>2
  <2>3. CASE j # i
    <3>1. j \in 1 .. i - 1 /\ i \in j + 1 .. i /\ j + 1 .. i - 1 \subseteq j + 1 .. i
      BY <2>3
    <3> QED
      BY <2>1, <3>1 DEF Dropped
  <2> QED
    BY <2>2, <2>3
<1>2. ASSUME text[i] = "applied" PROVE Dropped(text, i)
  <2>1. i \in 1 .. i /\ i + 1 .. i = {}
    OBVIOUS
  <2> QED
    BY <1>2, <2>1 DEF Dropped
<1>3. ASSUME Dropped(text, i - 1), text[i] = "deep" PROVE Dropped(text, i)
  <2>1. PICK j \in 1 .. i - 1 : text[j] = "applied" /\ \A k \in j + 1 .. i - 1 : text[k] = "deep"
    BY <1>3 DEF Dropped
  <2>2. j \in 1 .. i /\ j + 1 .. i = (j + 1 .. i - 1) \cup {i}
    OBVIOUS
  <2> QED
    BY <1>3, <2>1, <2>2 DEF Dropped
<1> QED
  BY <1>1, <1>2, <1>3

LEMMA RedactStep ==
    ASSUME NEW text \in Seq(Lines), NEW i \in 1 .. Len(text), NEW acc, AtLine(text, i - 1, acc)
    PROVE  AtLine(text, i, RedactLine(acc, text[i]))
<1> DEFINE l == text[i]
           next == RedactLine(acc, l)
           e == Emits(text)[i]
<1>0. i \in Nat /\ i >= 1 /\ i - 1 \in Nat /\ (i - 1) + 1 = i /\ l \in Lines /\ acc \in AccSet
  BY DEF AtLine
<1>1. Under(text, i + 1) <=> l = "data" \/ (acc.inData /\ l \notin {"secret", "top"})
  BY <1>0, UnderNext DEF AtLine, Unindented
<1>2. Dropped(text, i) <=> l = "applied" \/ (acc.skipping /\ l = "deep")
  BY <1>0, DroppedNext DEF AtLine
<1>3. e = IF l = "applied" \/ (acc.skipping /\ l = "deep") THEN "nothing"
          ELSE IF l \in {"entry", "child"} /\ acc.inData THEN "redacted" ELSE l
  <2>1. acc.inData <=> Under(text, i)
    BY <1>0 DEF AtLine
  <2> QED
    BY <1>2, <2>1 DEF Emits
<1>4. next \in AccSet
  BY <1>0, RedactLineType
<1>5. next.out = IF e = "nothing" THEN acc.out ELSE Append(acc.out, e)
  BY <1>0, <1>3 DEF RedactLine, AccSet, Lines, Unindented
<1>6. (next.inData <=> Under(text, i + 1)) /\ (next.skipping <=> Dropped(text, i))
  <2>1. next.inData <=> l = "data" \/ (acc.inData /\ l \notin {"secret", "top"})
    BY <1>0 DEF RedactLine, AccSet, Lines, Unindented
  <2>2. next.skipping <=> l = "applied" \/ (acc.skipping /\ l = "deep")
    BY <1>0 DEF RedactLine, AccSet, Lines, Unindented
  <2> HIDE DEF next
  <2> QED
    BY <1>1, <1>2, <2>1, <2>2
<1>7. e \in Outs \cup {"nothing"} /\ "nothing" \notin Outs
  BY <1>0, <1>3 DEF Outs, Lines
<1>8. ASSUME NEW m \in Outs PROVE Left(next.out, m) = Cardinality(Upto(Emits(text), i, m))
  <2>1. Left(acc.out, m) = Cardinality(Upto(Emits(text), i - 1, m)) /\ Cardinality(Upto(Emits(text), i - 1, m)) \in Nat
    BY <1>0, UptoNext DEF AtLine
  <2>2. Cardinality(Upto(Emits(text), i, m)) = Cardinality(Upto(Emits(text), i - 1, m)) + (IF e = m THEN 1 ELSE 0)
    <3>1. Cardinality(Upto(Emits(text), (i - 1) + 1, m))
            = Cardinality(Upto(Emits(text), i - 1, m)) + (IF Emits(text)[(i - 1) + 1] = m THEN 1 ELSE 0)
      BY <1>0, UptoNext
    <3> QED
      BY <1>0, <3>1
  <2>3. Left(next.out, m) = Left(acc.out, m) + (IF e = m THEN 1 ELSE 0)
    <3>1. CASE e = "nothing"
      BY <1>5, <1>7, <2>1, <3>1
    <3>2. CASE e # "nothing"
      <4>1. acc.out \in Seq(Outs)
        BY <1>0 DEF AccSet
      <4> HIDE DEF next, e
      <4> QED
        BY <1>5, <1>7, <3>2, <4>1, LeftAppend
    <3> QED
      BY <3>1, <3>2
  <2> QED
    BY <2>1, <2>2, <2>3
<1> QED
  BY <1>4, <1>6, <1>8 DEF AtLine

\* What redactSecretYaml has put on the page when all lines are read.
LEMMA RedactedText ==
    ASSUME NEW text \in Seq(Lines)
    PROVE  AtLine(text, Len(text), Seqs!FoldLeft(RedactLine, Clear, text))
<1>1. PICK run : /\ run[0] = Clear
                 /\ \A i \in 1 .. Len(text) : run[i] = RedactLine(run[i - 1], text[i])
                 /\ run[Len(text)] = Seqs!FoldLeft(RedactLine, Clear, text)
  BY RedactRun
<1> DEFINE T == {i \in Nat : i <= Len(text) => AtLine(text, i, run[i])}
<1>2. 0 \in T
  <2>1. AtLine(text, 0, Clear)
    <3>1. ~ Under(text, 0 + 1) /\ ~ Dropped(text, 0)
      BY DEF Under, Dropped
    <3>2. ASSUME NEW l PROVE Left(<<>>, l) = 0 /\ Cardinality(Upto(Emits(text), 0, l)) = 0
      <4>1. {i \in DOMAIN <<>> : <<>>[i] = l} = {} /\ Upto(Emits(text), 0, l) = {}
        BY DEF Upto
      <4> QED
        BY <4>1, FS_EmptySet DEF Left
    <3> QED
      BY <3>1, <3>2 DEF AtLine, Clear, AccSet
  <2> QED
    BY <1>1, <2>1
<1>3. ASSUME NEW n \in Nat, n \in T PROVE n + 1 \in T
  <2>1. CASE n + 1 <= Len(text)
    <3>1. Len(text) \in Nat /\ n + 1 \in 1 .. Len(text) /\ (n + 1) - 1 = n
      BY <2>1
    <3>2. AtLine(text, n, run[n]) /\ run[n + 1] = RedactLine(run[n], text[n + 1])
      BY <1>1, <1>3, <3>1
    <3>3. AtLine(text, n + 1, RedactLine(run[n], text[n + 1]))
      BY <3>1, <3>2, RedactStep
    <3> QED
      BY <3>2, <3>3
  <2>2. CASE ~ (n + 1 <= Len(text))
    BY <2>2
  <2> QED
    BY <2>1, <2>2
<1>4. Len(text) \in Nat /\ Len(text) \in T
  <2> HIDE DEF T
  <2> QED
    BY <1>2, <1>3, Inductive
<1> QED
  BY <1>1, <1>4

-----------------------------------------------------------------------------
\* The second pass: an annotations: left with nothing under it goes, all else stays.
Kept(out, i) == ~ (out[i] = "annotations" /\ (i = Len(out) \/ out[i + 1] \in Unindented \cup {"entry", "quoted", "annotations"}))
PruneLine(out, acc, i) == IF Kept(out, i) THEN Append(acc, out[i]) ELSE acc
LEMMA PruneRun ==
    ASSUME NEW out \in Seq(Outs)
    PROVE  \E run : /\ run[0] = <<>>
                    /\ \A i \in 1 .. Len(out) : run[i] = PruneLine(out, run[i - 1], i)
                    /\ run[Len(out)] = Pruned(out)
<1> DEFINE n == Len(out)
           S == 1 .. n
           steps == [i \in 1 .. Len(out) |-> i]
           Line(acc, i) == IF out[steps[i]] = "annotations" /\ (steps[i] = Len(out) \/ out[steps[i] + 1] \in Unindented \cup {"entry", "quoted", "annotations"})
                           THEN acc ELSE Append(acc, out[steps[i]])
           IsIter(it) == it = [s \in SUBSET S |-> IF s = {} THEN <<>> ELSE Line(it[s \ {Seqs!Max(s)}], Seqs!Max(s))]
           iter == CHOOSE it : IsIter(it)
           run == [i \in 0 .. n |-> iter[1 .. i]]
<1>0. n \in Nat /\ DOMAIN out = S /\ (\A i \in S : out[i] \in Outs) /\ IsFiniteSet(S)
  BY FS_Interval
<1>1. <<>> \in Seq(Outs) /\ DOMAIN steps = S
  OBVIOUS
<1>7. ASSUME NEW acc, NEW i \in S PROVE Line(acc, i) = PruneLine(out, acc, i)
  BY DEF PruneLine, Kept
<1>2. \E it : IsIter(it)
  <2> DEFINE pick == [s \in SUBSET S |-> Seqs!Max(s)]
             step == [v \in S \X Seq(Outs) |-> PruneLine(out, v[2], v[1])]
  <2>1. \A s \in SUBSET S : s # {} => pick[s] \in s
    BY <1>0, PrefixMax
  <2>2. step \in [S \X Seq(Outs) -> Seq(Outs)]
    BY <1>0, AppendProperties DEF PruneLine
  <2>3. PICK g \in [SUBSET S -> Seq(Outs)] : \A s \in SUBSET S : g[s] = FoldStep(<<>>, step, pick, g, s)
    <3>1. Foldable(S, Seq(Outs), <<>>, step, pick)
      BY <1>0, <1>1, <2>1, <2>2 DEF Foldable
    <3> HIDE DEF S, pick, step
    <3>2. PICK g : IsFold(g, S, Seq(Outs), <<>>, step, pick)
      BY <3>1, FoldExists
    <3> QED
      BY <3>2 DEF IsFold
  <2>4. ASSUME NEW s \in SUBSET S, s # {}
        PROVE  g[s] = Line(g[s \ {Seqs!Max(s)}], Seqs!Max(s))
    <3> DEFINE m == Seqs!Max(s)
    <3>1. pick[s] = m /\ m \in S /\ s \ {m} \in SUBSET S
      BY <2>1, <2>4
    <3>2. g[s \ {m}] \in Seq(Outs)
      BY <3>1
    <3>3. g[s] = step[<<m, g[s \ {m}]>>]
      BY <2>3, <2>4, <3>1 DEF FoldStep
    <3>4. step[<<m, g[s \ {m}]>>] = PruneLine(out, g[s \ {m}], m)
      <4> HIDE DEF m, S
      <4> QED
        BY <3>1, <3>2
    <3> HIDE DEF m, steps
    <3> QED
      BY <1>7, <3>1, <3>3, <3>4
  <2>5. g[{}] = <<>>
    BY <2>3 DEF FoldStep
  <2>6. IsIter(g)
    <3> HIDE DEF S, pick, step, Line
    <3> QED
      BY <2>4, <2>5
  <2> QED
    BY <2>6
<1>3. IsIter(iter)
  <2> HIDE DEF IsIter
  <2> QED
    BY <1>2, Zenon
<1>4. run[0] = <<>>
  <2>1. 1 .. 0 = {} /\ {} \in SUBSET S
    OBVIOUS
  <2>2. iter[{}] = <<>>
    <3> HIDE DEF S, iter
    <3> QED
      BY <1>3
  <2> HIDE DEF iter
  <2> QED
    BY <1>0, <2>1, <2>2
<1>5. ASSUME NEW i \in 1 .. n PROVE run[i] = PruneLine(out, run[i - 1], i)
  <2>0. i \in Nat /\ i <= n /\ i >= 1
    BY <1>0
  <2>1. 1 .. i \in SUBSET S /\ 1 \in 1 .. i /\ 1 .. i # {} /\ i - 1 \in 0 .. n
    <3> HIDE DEF n
    <3>1. 1 .. i \subseteq 1 .. n
      BY <1>0, <2>0
    <3> QED
      BY <1>0, <2>0, <3>1
  <2>2. Seqs!Max(1 .. i) = i /\ (1 .. i) \ {i} = 1 .. i - 1
    BY <1>0, PrefixMax
  <2>3. iter[1 .. i] = Line(iter[(1 .. i) \ {Seqs!Max(1 .. i)}], Seqs!Max(1 .. i))
    <3> HIDE DEF S, iter, Line
    <3> QED
      BY <1>3, <2>1
  <2>4. iter[1 .. i] = PruneLine(out, iter[1 .. i - 1], i)
    <3> HIDE DEF iter, Line
    <3> QED
      BY <1>7, <2>2, <2>3
  <2> HIDE DEF iter
  <2> QED
    BY <1>0, <2>1, <2>4
<1>6. run[n] = Pruned(out)
  <2>1. Pruned(out) = (CHOOSE it : it =
            [s \in SUBSET DOMAIN steps |-> IF s = {} THEN <<>> ELSE Line(it[s \ {Seqs!Max(s)}], Seqs!Max(s))])[DOMAIN steps]
    BY Zenon DEF Seqs!FoldLeft, Seqs!MapThenFoldSet, Pruned
  <2>2. Pruned(out) = iter[S]
    <3> HIDE DEF steps
    <3> QED
      BY <1>1, <2>1, Zenon
  <2>3. run[n] = iter[S]
    <3> HIDE DEF iter
    <3> QED
      BY <1>0
  <2> QED
    BY <2>2, <2>3, Zenon
<1> QED
  <2> HIDE DEF run, n
  <2>1. /\ run[0] = <<>> /\ \A i \in 1 .. n : run[i] = PruneLine(out, run[i - 1], i)
        /\ run[n] = Pruned(out)
    BY <1>4, <1>5, <1>6, Zenon
  <2> QED
    BY <2>1, Zenon DEF n

LEMMA PrunedLeft ==
    ASSUME NEW out \in Seq(Outs), NEW l, l # "annotations"
    PROVE  Left(Pruned(out), l) = Left(out, l)
<1> DEFINE n == Len(out)
<1>0. n \in Nat /\ DOMAIN out = 1 .. n /\ \A i \in 1 .. n : out[i] \in Outs
  OBVIOUS
<1>1. PICK run : /\ run[0] = <<>>
                 /\ \A i \in 1 .. n : run[i] = PruneLine(out, run[i - 1], i)
                 /\ run[n] = Pruned(out)
  BY PruneRun
<1> HIDE DEF n
<1> DEFINE T == {i \in Nat : i <= n => run[i] \in Seq(Outs) /\ Left(run[i], l) = Cardinality(Upto(out, i, l))}
<1>2. 0 \in T
  <2>1. {i \in DOMAIN <<>> : <<>>[i] = l} = {} /\ Upto(out, 0, l) = {}
    BY DEF Upto
  <2>2. Left(run[0], l) = 0 /\ Cardinality(Upto(out, 0, l)) = 0 /\ run[0] \in Seq(Outs)
    <3>1. Left(<<>>, l) = Cardinality({}) /\ Cardinality(Upto(out, 0, l)) = Cardinality({})
      BY <2>1, Zenon DEF Left
    <3> HIDE DEF T
    <3> QED
      BY <1>1, <3>1, FS_EmptySet
  <2> QED
    BY <2>2
<1>3. ASSUME NEW i \in Nat, i \in T PROVE i + 1 \in T
  <2>1. CASE i + 1 <= n
    <3>1. i + 1 \in 1 .. n /\ (i + 1) - 1 = i /\ i <= n
      BY <1>0, <2>1
    <3>2. run[i] \in Seq(Outs) /\ Left(run[i], l) = Cardinality(Upto(out, i, l))
      BY <1>3, <3>1
    <3>3. run[i + 1] = PruneLine(out, run[i], i + 1) /\ out[i + 1] \in Outs
      BY <1>0, <1>1, <3>1
    <3>4. Cardinality(Upto(out, i + 1, l)) = Cardinality(Upto(out, i, l)) + (IF out[i + 1] = l THEN 1 ELSE 0)
          /\ Cardinality(Upto(out, i, l)) \in Nat
      BY UptoNext
    <3>5. CASE Kept(out, i + 1)
      <4>1. run[i + 1] = Append(run[i], out[i + 1])
        BY <3>3, <3>5 DEF PruneLine
      <4>2. Append(run[i], out[i + 1]) \in Seq(Outs)
        <5> HIDE DEF T
        <5> QED
          BY <3>2, <3>3, AppendProperties
      <4>3. Left(Append(run[i], out[i + 1]), l) = Left(run[i], l) + (IF out[i + 1] = l THEN 1 ELSE 0)
        <5> HIDE DEF T
        <5> QED
          BY <3>2, <3>3, LeftAppend
      <4>4. /\ run[i + 1] \in Seq(Outs)
            /\ Left(run[i + 1], l) = Cardinality(Upto(out, i + 1, l))
        <5> HIDE DEF T
        <5> QED
          BY <3>2, <3>4, <4>1, <4>2, <4>3
      <4> QED
        BY <4>4
    <3>6. CASE ~ Kept(out, i + 1)
      <4>1. run[i + 1] = run[i] /\ out[i + 1] # l
        BY <3>3, <3>6 DEF PruneLine, Kept
      <4> QED
        BY <3>2, <3>4, <4>1
    <3> QED
      BY <3>5, <3>6
  <2>2. CASE ~ (i + 1 <= n)
    BY <2>2
  <2> QED
    BY <2>1, <2>2
<1>4. n \in T
  <2> HIDE DEF T
  <2> QED
    BY <1>0, <1>2, <1>3, Inductive
<1>5. Left(Pruned(out), l) = Cardinality(Upto(out, n, l))
  BY <1>0, <1>1, <1>4
<1> QED
  BY <1>0, <1>5 DEF Left, Upto

\* The object of a Secret, of any length: the lines under its data that read `key: value` are
\* blanked, and what kubectl last applied is gone with the lines it runs over.  Nothing else is
\* touched: an entry whose key is in quotes, and the lines of a block scalar, stay as they are.
THEOREM RedactionCorrect ==
    \A text \in Seq(Lines) : (\E i \in DOMAIN text : text[i] = "secret") => Cleaned(text)
<1> SUFFICES ASSUME NEW text \in Seq(Lines), NEW i0 \in DOMAIN text, text[i0] = "secret" PROVE Cleaned(text)
  OBVIOUS
<1> DEFINE n == Len(text)
           out == redactSecretYaml(text)
           page == Seqs!FoldLeft(RedactLine, Clear, text).out
<1>0. n \in Nat /\ DOMAIN text = 1 .. n /\ \A i \in 1 .. n : text[i] \in Lines
  OBVIOUS
<1>1. out = Pruned(page)
  BY DEF redactSecretYaml, Clear
<1>2. page \in Seq(Outs) /\ \A l \in Outs : Left(page, l) = Cardinality(Upto(Emits(text), n, l))
  BY RedactedText DEF AtLine, AccSet
<1>3. ASSUME NEW l \in Outs, l # "annotations"
      PROVE  Left(out, l) = Cardinality({i \in DOMAIN text : Emits(text)[i] = l})
  <2> HIDE DEF page, out
  <2> QED
    BY <1>0, <1>1, <1>2, <1>3, PrunedLeft DEF Upto
<1>4. ASSUME NEW i \in DOMAIN text
      PROVE  /\ Emits(text)[i] # "applied"
             /\ \A l \in {"top", "data", "quoted", "scalar"} : Emits(text)[i] = l <=> text[i] = l
             /\ Emits(text)[i] = "redacted" <=> text[i] \in {"entry", "child"} /\ Under(text, i)
             /\ \A l \in {"entry", "child"} : Emits(text)[i] = l <=> text[i] = l /\ ~ Under(text, i)
             /\ Emits(text)[i] = "deep" <=> text[i] = "deep" /\ ~ Dropped(text, i)
  <2>1. text[i] \in Lines /\ Emits(text)[i] =
            IF text[i] = "applied" \/ (text[i] = "deep" /\ Dropped(text, i)) THEN "nothing"
            ELSE IF text[i] \in {"entry", "child"} /\ Under(text, i) THEN "redacted" ELSE text[i]
    BY <1>0 DEF Emits
  <2> QED
    BY <2>1 DEF Lines
<1> HIDE DEF out, page, n
<1>5. Left(out, "applied") = 0
  <2>1. {i \in DOMAIN text : Emits(text)[i] = "applied"} = {}
    BY <1>4
  <2> QED
    BY <1>3, <2>1, FS_EmptySet DEF Outs, Lines
<1>6. \A l \in {"top", "data", "quoted", "scalar"} : Left(out, l) = Cardinality({i \in DOMAIN text : text[i] = l})
  <2>1. ASSUME NEW l \in {"top", "data", "quoted", "scalar"}
        PROVE  Left(out, l) = Cardinality({i \in DOMAIN text : text[i] = l})
    <3>1. {i \in DOMAIN text : Emits(text)[i] = l} = {i \in DOMAIN text : text[i] = l}
      BY <1>4
    <3>2. l \in Outs /\ l # "annotations"
      BY DEF Outs, Lines
    <3> QED
      BY <1>3, <3>1, <3>2
  <2> QED
    BY <2>1
<1>7. Left(out, "redacted") = Cardinality({i \in DOMAIN text : text[i] \in {"entry", "child"} /\ Under(text, i)})
  <2>1. {i \in DOMAIN text : Emits(text)[i] = "redacted"} = {i \in DOMAIN text : text[i] \in {"entry", "child"} /\ Under(text, i)}
    BY <1>4
  <2> QED
    BY <1>3, <2>1 DEF Outs
<1>8. Left(out, "entry") + Left(out, "child")
         = Cardinality({i \in DOMAIN text : text[i] \in {"entry", "child"} /\ ~ Under(text, i)})
  <2> DEFINE A == {i \in DOMAIN text : Emits(text)[i] = "entry"}
             B == {i \in DOMAIN text : Emits(text)[i] = "child"}
  <2>1. A \cup B = {i \in DOMAIN text : text[i] \in {"entry", "child"} /\ ~ Under(text, i)} /\ A \cap B = {}
    BY <1>4
  <2>2. IsFiniteSet(A) /\ IsFiniteSet(B)
    <3>1. IsFiniteSet(DOMAIN text)
      BY <1>0, FS_Interval
    <3> QED
      BY <3>1, FS_Subset
  <2>3. Left(out, "entry") = Cardinality(A) /\ Left(out, "child") = Cardinality(B)
    BY <1>3 DEF Outs, Lines
  <2> HIDE DEF A, B
  <2>4. Cardinality(A \cap B) = 0 /\ Cardinality(A) \in Nat /\ Cardinality(B) \in Nat
    BY <2>1, <2>2, FS_EmptySet, FS_CardinalityType
  <2>5. Cardinality(A \cup B) = Cardinality(A) + Cardinality(B) - Cardinality(A \cap B)
    BY <2>2, FS_Union
  <2>6. Left(out, "entry") + Left(out, "child") = Cardinality(A \cup B)
    BY <2>1, <2>3, <2>4, <2>5
  <2> QED
    BY <2>1, <2>6, Zenon
<1>9. Left(out, "deep") = Cardinality({i \in DOMAIN text : text[i] = "deep" /\ ~ Dropped(text, i)})
  <2>1. {i \in DOMAIN text : Emits(text)[i] = "deep"} = {i \in DOMAIN text : text[i] = "deep" /\ ~ Dropped(text, i)}
    BY <1>4
  <2> QED
    BY <1>3, <2>1 DEF Outs, Lines
<1> QED
  BY <1>5, <1>6, <1>7, <1>8, <1>9, Zenon DEF Cleaned, Left, out
=============================================================================
