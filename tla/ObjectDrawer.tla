---------------------------- MODULE ObjectDrawer ----------------------------
(***************************************************************************)
(* The detail drawer and the answers that fill its panes: the full object  *)
(* and the values revealed in its containers, the YAML editor, the data of *)
(* a Secret or ConfigMap, its consumers, its history and its events.       *)
(* Each pane asks the engine when what it watches moves, and the engine    *)
(* answers every request on a goroutine of its own, so answers land in any *)
(* order.  The panes share only the cluster, the selection and the tab:    *)
(* `pane` is fixed by the initial state, one behaviour follows one pane.   *)
(* An action is an event handler with the watchers it wakes: nothing runs  *)
(* between the two.                                                        *)
(***************************************************************************)
EXTENDS Naturals, FiniteSets

CONSTANTS Clusters, FirstCluster,  \* contexts, and the one the window opens on
          Keys,            \* row keys ("namespace/name")
          NoObject,        \* nothing selected
          MaxAsks          \* bound: requests of the pane in flight at once

ASSUME DrawerAssumption == /\ MaxAsks \in Nat \ {0} /\ FirstCluster \in Clusters /\ "" \notin Keys
                           /\ NoObject \notin [cluster : Clusters, kind : {"pods", "secrets"}, key : Keys]

Kinds   == {"pods", "secrets"}          \* one kind with containers, one with data
Objects == [cluster : Clusters, kind : Kinds, key : Keys]
Panes   == {"object", "yaml", "data", "consumers", "history", "events"}
PaneTabs == {"overview", "yaml", "events"}

VARIABLES pane,      \* the pane this behaviour follows
          cluster,   \* ui.cluster
          sel,       \* ui.selection
          tab,       \* ui.drawerTab
          asks,      \* requests in flight, each with the ticket that tells repeats apart
          newest,    \* the ticket of the last request sent, 0 when the last load sent none
          shown,     \* the objects whose content the pane shows
          bare,      \* data is shown that is not masked
          loading,   \* yamlLoading: the editor is read only
          dirty,     \* the editor holds an edit
          outdated,  \* somebody else changed the object after the editor's text was read
          edit,      \* the edit under review, and then written
          revealed,  \* the revealed values: whose cluster and namespace each was read in, and whose spec named it
          strayed,   \* the selection took another object of the same key
          late       \* what landed last was not the answer to the newest request

drawer == <<pane, cluster, sel, tab, asks, newest, shown, bare, loading, dirty, outdated, edit, revealed, strayed, late>>

\* by: for a value to reveal, the object shown whose spec names it, else NoObject; old: the
\* engine has read the object and somebody changed it since.
Ask == [of : Objects, n : 1 .. MaxAsks, by : Objects \cup {NoObject}, old : BOOLEAN]
Edit == [target : Objects, outdated : BOOLEAN, written : BOOLEAN]
AskFor(o, n, by) == [of |-> o, n |-> n, by |-> by, old |-> FALSE]
Reveals(a) == a.by # NoObject

DrawerTypeOK ==
    /\ pane \in Panes /\ cluster \in Clusters /\ sel \in Objects \cup {NoObject} /\ tab \in PaneTabs
    /\ asks \subseteq Ask /\ newest \in 0 .. MaxAsks /\ shown \subseteq Objects
    /\ revealed \subseteq [at : Objects, by : Objects]
    /\ {bare, loading, dirty, outdated, strayed, late} \subseteq BOOLEAN
    /\ edit \in Edit \cup {NoObject}

Boxed(s)  == s # NoObject /\ s.kind = "pods"       \* wantsContainers
Keyed(s)  == s # NoObject /\ s.kind = "secrets"    \* ConfigMaps and Secrets
KeyOf(s)  == IF s = NoObject THEN "" ELSE s.key
KindOf(s) == IF s = NoObject THEN "" ELSE s.kind
SameName(a, b) == KindOf(a) = KindOf(b) /\ KeyOf(a) = KeyOf(b)

(***************************************************************************)
(* What each pane's watcher watches, and whether its load asks the engine. *)
(* A pane under a tab is mounted with it, and its answers die with it.     *)
(***************************************************************************)
Mounted(s, t) == s # NoObject /\ (pane # "events" \/ t = "events")
\* Mutant: the editor's watcher forgets the object.
WatchedByTab(c, s, t) == IF pane = "yaml" THEN <<t>> ELSE <<c, s, t>>

Watched(c, s, t) ==
    CASE pane = "object"  -> <<c, KeyOf(s), Boxed(s), IF Boxed(s) THEN s.kind ELSE "">>
      [] pane = "yaml"    -> <<KeyOf(s), t>>
      [] pane = "history" -> <<c, IF Boxed(s) THEN s.key ELSE "">>
      [] pane = "events"  -> <<c, Mounted(s, t), IF Mounted(s, t) THEN <<s.kind, s.key>> ELSE <<>> >>
      [] OTHER            -> <<KeyOf(s)>>
Wants(s, t) ==
    CASE pane \in {"object", "history"}  -> Boxed(s)
      [] pane = "yaml"                   -> s # NoObject /\ t = "yaml"
      [] pane = "events"                 -> Mounted(s, t)
      [] OTHER                           -> Keyed(s)

Free == {n \in 1 .. MaxAsks : \A a \in asks : a.n # n}

\* load: what is shown goes, except the editor's text, and a request may go out.
Load(s, t, kept) ==
    /\ shown' = IF pane = "yaml" THEN shown ELSE {}
    /\ bare' = FALSE
    /\ late' = (late /\ pane = "yaml")
    /\ loading' = (loading \/ (pane = "yaml" /\ Wants(s, t)))
    /\ IF Wants(s, t)
       THEN \E n \in Free : asks' = kept \cup {AskFor(s, n, NoObject)} /\ newest' = n
       ELSE asks' = kept /\ newest' = 0

\* The selection, the tab or the cluster moves, and the watchers run.  ContainerDetail goes
\* when the object does, and with it what was revealed; the editor goes when its tab does.
Move(c, s, t) ==
    LET same == Watched(c, s, t) = Watched(cluster, sel, tab)
        open == shown # {} /\ tab = "overview" /\ t = "overview" /\ same
        kept == {a \in asks : (Reveals(a) => open) /\ (pane = "events" => Mounted(s, t))}
    IN /\ cluster' = c /\ sel' = s /\ tab' = t
       /\ strayed' = (s # NoObject /\ KeyOf(s) = KeyOf(sel) /\ (s # sel \/ strayed))
       /\ revealed' = IF open THEN revealed ELSE {}
       /\ dirty' = (dirty /\ s # NoObject /\ t = "yaml")
       /\ IF same THEN asks' = kept /\ UNCHANGED <<shown, bare, loading, newest, late>>
                  ELSE Load(s, t, kept)
       /\ edit' = NoObject
       /\ UNCHANGED <<pane, outdated>>

\* A row, a consumer or an attention line is opened, on the tab there is or on the opener's.
Select(o, t) == o.cluster = cluster /\ <<o, t>> # <<sel, tab>> /\ Move(cluster, o, t)
CloseDrawer  == sel # NoObject /\ Move(cluster, NoObject, tab)
SetTab(t)    == sel # NoObject /\ t # tab /\ Move(cluster, sel, t)
SwitchCluster(c) == c # cluster /\ Move(c, NoObject, tab)

\* The history's fifteen seconds, or the editor's Reload: a load that clears nothing.
Again ==
    /\ pane \in {"history", "yaml"} /\ (pane = "yaml" => tab = "yaml") /\ Wants(sel, tab)
    /\ \E n \in Free : asks' = asks \cup {AskFor(sel, n, NoObject)} /\ newest' = n
    /\ loading' = (pane = "yaml")
    /\ UNCHANGED <<pane, cluster, sel, tab, shown, bare, dirty, outdated, edit, revealed, strayed, late>>

\* Mutant: an answer for an object the selection has left is shown.
TakenAlways(a) == TRUE

\* useObject takes no answer for a name the selection has left; every other pane takes what comes.
Taken(a) == pane = "object" => Boxed(sel) /\ SameName(a.of, sel)

Answer(a) ==
    /\ ~ Reveals(a)
    /\ asks' = asks \ {a}
    /\ loading' = FALSE
    /\ shown' = IF ~ Taken(a) \/ (pane = "data" /\ sel = NoObject) THEN shown
                ELSE IF pane = "data" THEN shown \cup {a.of} ELSE {a.of}
    /\ bare' = (bare \/ (pane = "data" /\ sel # NoObject /\ ~ Keyed(sel)))  \* masked by the kind selected now
    /\ late' = IF ~ Taken(a) THEN late ELSE a.n # newest \/ (late /\ pane = "data")
    /\ dirty' \in (IF shown = {a.of} THEN {dirty, FALSE} ELSE {FALSE})      \* the same text wakes no watcher
    /\ outdated' = (pane = "yaml" /\ a.old)
    /\ UNCHANGED <<pane, cluster, sel, tab, newest, edit, revealed, strayed>>

\* A refusal, or a link lost: text already read stays, and consumers become an empty list.
Fail(a) ==
    /\ ~ Reveals(a)
    /\ asks' = asks \ {a}
    /\ loading' = FALSE
    /\ shown' = IF pane = "consumers" THEN {} ELSE shown
    /\ late' = (late \/ a.n = newest \/ pane = "consumers")
    /\ UNCHANGED <<pane, cluster, sel, tab, newest, bare, dirty, outdated, edit, revealed, strayed>>

\* Somebody else changes the object whose text the editor holds.  An edit of it under review is
\* out of date by this, and the gate will not carry it out.
OtherWrites ==
    /\ pane = "yaml" /\ shown # {}
    /\ outdated' = TRUE
    /\ \E read \in SUBSET {a \in asks : a.of \in shown} :
          asks' = (asks \ read) \cup {[a EXCEPT !.old = TRUE] : a \in read}
    /\ edit' = IF edit # NoObject /\ ~ edit.written THEN NoObject ELSE edit
    /\ UNCHANGED <<pane, cluster, sel, tab, newest, shown, bare, loading, dirty, revealed, strayed, late>>

\* The person types, reverts, or saves.
Type == /\ pane = "yaml" /\ tab = "yaml" /\ sel # NoObject /\ shown # {} /\ ~ loading /\ ~ dirty
        /\ dirty' = TRUE
        /\ UNCHANGED <<pane, cluster, sel, tab, asks, newest, shown, bare, loading, outdated, edit, revealed, strayed, late>>
Revert == /\ dirty /\ dirty' = FALSE
          /\ UNCHANGED <<pane, cluster, sel, tab, asks, newest, shown, bare, loading, outdated, edit, revealed, strayed, late>>

\* The gate refuses an apply whose body names another object; the API server's dry run refuses
\* one of another kind, or with the uid another cluster gave it.  The dry run is asked without the
\* version the text has, so a text that is behind is taken; execute writes under the version it
\* reads itself, having compared the object with what the dry run found.
GateTakes(o, body) == body.key = o.key
ServerTakes(o, body) == body.kind = o.kind /\ body.cluster = o.cluster
Save == /\ dirty
        /\ \E o \in shown : /\ GateTakes(sel, o) /\ ServerTakes(sel, o)
                            /\ edit' = [target |-> sel, outdated |-> outdated, written |-> FALSE]
        /\ UNCHANGED <<pane, cluster, sel, tab, asks, newest, shown, bare, loading, dirty, outdated, revealed, strayed, late>>
Approve == /\ edit # NoObject /\ ~ edit.written
           /\ edit' = [edit EXCEPT !.written = TRUE]
           /\ UNCHANGED <<pane, cluster, sel, tab, asks, newest, shown, bare, loading, dirty, outdated, revealed, strayed, late>>

\* A value behind a secretKeyRef is read on demand, and hidden again: the Secret that the spec
\* shown names, in the cluster and namespace of the object selected.  What is revealed is kept by
\* container and variable, through any answer that replaces the object shown.
Reveal ==
    /\ pane = "object" /\ tab = "overview"
    /\ \E n \in Free, o \in shown : asks' = asks \cup {AskFor(sel, n, o)}
    /\ UNCHANGED <<pane, cluster, sel, tab, newest, shown, bare, loading, dirty, outdated, edit, revealed, strayed, late>>
Revealed(a) ==
    /\ Reveals(a)
    /\ asks' = asks \ {a}
    /\ revealed' \in {revealed \cup {[at |-> a.of, by |-> a.by]}, revealed}        \* the value, or a refusal as a toast
    /\ UNCHANGED <<pane, cluster, sel, tab, newest, shown, bare, loading, dirty, outdated, edit, strayed, late>>
Hide == /\ \E v \in revealed : revealed' = revealed \ {v}
        /\ UNCHANGED <<pane, cluster, sel, tab, asks, newest, shown, bare, loading, dirty, outdated, edit, strayed, late>>

DrawerInit ==
    /\ pane \in Panes /\ cluster = FirstCluster /\ sel = NoObject /\ tab = "overview"
    /\ asks = {} /\ newest = 0 /\ shown = {} /\ revealed = {} /\ edit = NoObject
    /\ bare = FALSE /\ loading = FALSE /\ dirty = FALSE /\ outdated = FALSE /\ strayed = FALSE /\ late = FALSE

DrawerNext ==
    \/ \E o \in Objects, t \in {tab, "overview", "events"} : Select(o, t)
    \/ CloseDrawer
    \/ \E t \in PaneTabs : SetTab(t)
    \/ \E c \in Clusters : SwitchCluster(c)
    \/ \E a \in asks : Answer(a) \/ Fail(a) \/ Revealed(a)
    \/ Again \/ Type \/ Revert \/ Save \/ Approve \/ OtherWrites \/ Reveal \/ Hide

DrawerSpec == DrawerInit /\ [][DrawerNext]_drawer

(***************************************************************************)
(* The containers shown are those of the kind and name selected, and every *)
(* value revealed among them was read in the cluster and namespace         *)
(* selected, from a Secret that an object of that kind and name refers to: *)
(* no answer that comes after the selection moved shows one name's         *)
(* environment under another's (useObject.ts "selection moved on").  The   *)
(* name is all it compares, so the object, and the one whose spec named    *)
(* the Secret, may be the namesake of another cluster.                     *)
(***************************************************************************)
BoxesAreSelected == pane = "object" => /\ \A o \in shown : SameName(o, sel)
                                       /\ \A v \in revealed : v.at = sel /\ SameName(v.by, sel)

(***************************************************************************)
(* With nothing in flight, a pane shows the object selected and nothing    *)
(* else, and a Secret's data masked.  Three things are excepted: the last  *)
(* read was refused; an answer overtaken by a newer one landed after it    *)
(* and was taken (`late`); the selection went to another object of the     *)
(* same key without closing, which most panes do not watch (`strayed`).    *)
(***************************************************************************)
SettledPanesFit ==
    (sel # NoObject /\ asks = {} /\ ~ late /\ ~ strayed /\ (pane = "yaml" => tab = "yaml"))
        => /\ shown = IF Wants(sel, tab) THEN {sel} ELSE {}
           /\ Keyed(sel) => ~ bare

(***************************************************************************)
(* docs/features.md, "YAML": "Saving uses the resourceVersion you loaded,  *)
(* so if someone else changed the object while you were editing, you get a *)
(* conflict instead of silently overwriting their work".  No edit is       *)
(* written whose text was read before somebody else's change.              *)
(***************************************************************************)
LoadedVersionGuards == edit # NoObject => ~ (edit.outdated /\ edit.written)
=============================================================================
