----------------------------- MODULE WindowNav -----------------------------
(***************************************************************************)
(* What the window is looking at: the screen, the cluster and namespace,   *)
(* the object selected and the tab of its drawer, the rows the drawer and  *)
(* the palette read, the filter and the counts in the tree.  A click        *)
(* writes a few of these and the watchers move the rest before the window   *)
(* is painted again, so an action is a click with the watchers it wakes.   *)
(* Objects share a key across kinds, as a Service and its Deployment do:   *)
(* a selection is the kind, and one object stands for every key.           *)
(***************************************************************************)
EXTENDS Naturals, FiniteSets

CONSTANTS Sites,       \* clusters
          NoSite,      \* no cluster yet, no rows, no selection
          Spaces, AllSpaces  \* namespaces, and the choice of all of them

\* One kind with logs and a terminal, two without, one not namespaced, and the CRDs with
\* the custom kind their rows lead to.  kindByKey knows no custom kind.
Tables   == {"pods", "deployments", "events", "customresourcedefinitions"}
Tops     == {"overview", "timeline"}
Doorways == {"crd"}
Places   == Tops \cup Tables \cup Doorways
PodTabs  == {"logs", "terminal"}
AllTabs  == {"overview", "events", "explain", "yaml"} \cup PodTabs

ASSUME NavAssumption == AllSpaces \in Spaces /\ NoSite \notin Sites \cup Tables \cup Doorways /\ Sites # {}

VARIABLES place,    \* ui.screen
          site,     \* ui.cluster
          space,    \* ui.namespace
          picked,   \* the kind of ui.selection
          drawerTab,
          subscribed,  \* what the table's subscription was for since the screen was mounted: its id stays
          rowsOf,   \* what currentRows was read for
          tallies,  \* what the counts in the tree were taken of: a cluster, and whether the rows came late
          filter,   \* "", what was typed, or the one the overview's warnings link sets
          palette,  \* ui.paletteOpen
          kept      \* the palette changed the screen under a selection

nav == <<place, site, space, picked, drawerTab, subscribed, rowsOf, tallies, filter, palette, kept>>

Shown == [kind : Tables \cup Doorways, site : Sites, space : Spaces]
Tally == [site : Sites \cup {NoSite}, late : BOOLEAN]

NavTypeOK ==
    /\ place \in Places /\ site \in Sites \cup {NoSite} /\ space \in Spaces
    /\ picked \in Tables \cup Doorways \cup {NoSite} /\ drawerTab \in AllTabs
    /\ subscribed \subseteq [site : Sites, space : Spaces]
    /\ rowsOf \in Shown \cup {NoSite} /\ tallies \subseteq Tally
    /\ filter \in {"", "typed", "warning"} /\ palette \in BOOLEAN /\ kept \in BOOLEAN

Namespaced(k) == k # "customresourcedefinitions"
SpaceFor(k, s) == IF Namespaced(k) THEN s ELSE AllSpaces      \* nsForSub

\* tabs: logs and terminal for the kinds that have them.  A kind kindByKey does not know has
\* no spec, as no selection has none.
TabsOf(k) == IF k = "pods" THEN AllTabs ELSE AllTabs \ PodTabs
SpecOf(k) == IF k \in Tables THEN k ELSE NoSite

\* select: the tab asked for; without one, a pod's own tabs are left when the object is no pod.
NoTab == "none"
SelectTab(k, t) == IF t # NoTab THEN t
                   ELSE IF drawerTab \in PodTabs /\ k # "pods" THEN "overview" ELSE drawerTab

(***************************************************************************)
(* The watchers.  A cluster empties the namespace, the selection and the   *)
(* counts; a screen empties the filter; a table with another kind, cluster *)
(* or namespace drops its rows, reports them, and subscribes, under a new  *)
(* id only where it was mounted anew; a drawer whose tabs changed leaves a *)
(* tab it no longer has.                                                   *)
(***************************************************************************)
StreamFor(p, c, s) == [site |-> c, space |-> SpaceFor(p, s)]

Settle(p, c, s, k, t) ==
    LET moved == c # site
        k1    == IF moved THEN NoSite ELSE k
        s1    == IF moved THEN AllSpaces ELSE s
        fresh == p \notin Tops /\ (p # place \/ moved \/ SpaceFor(p, s1) # SpaceFor(p, space))
        was   == IF moved THEN {} ELSE tallies
    IN /\ place' = p /\ site' = c /\ space' = s1 /\ picked' = k1
       /\ drawerTab' = IF SpecOf(k1) # SpecOf(picked) /\ t \notin TabsOf(k1) THEN "overview" ELSE t
       /\ rowsOf' = IF fresh THEN NoSite ELSE rowsOf
       /\ tallies' = IF fresh THEN was \cup {[site |-> c, late |-> FALSE]} ELSE was
       /\ subscribed' = LET left == IF p = place THEN subscribed ELSE {}
                     IN IF fresh /\ c # NoSite THEN left \cup {StreamFor(p, c, s1)} ELSE left

Navigate(p, c, s, k, t) == Settle(p, c, s, k, t) /\ filter' = IF p # place THEN "" ELSE filter
Stay(k, t) == Navigate(place, site, space, k, t)

\* App.vue: the engine's list of clusters chooses one when none is chosen.
ClustersListed(c) ==
    /\ site = NoSite
    /\ Navigate(place, c, space, picked, drawerTab) /\ kept' = FALSE /\ UNCHANGED palette

\* The top bar's selects, and the palette's items for the same.
ChooseSite(c) ==
    /\ site # NoSite /\ c # site
    /\ Navigate(place, c, space, picked, drawerTab) /\ kept' = FALSE /\ palette' = FALSE
ChooseSpace(s) ==
    /\ site # NoSite /\ s # space
    /\ Navigate(place, site, s, picked, drawerTab) /\ palette' = FALSE /\ UNCHANGED kept

\* Mutant: the rail leaves the selection where it is.
GoKeepsSelection(p) ==
    /\ ~ palette /\ p \in Tops \cup Tables
    /\ Navigate(p, site, space, picked, drawerTab) /\ kept' = FALSE /\ UNCHANGED palette

\* go of the rail, the tree and the overview drops the selection; the palette's does not.
Go(p) ==
    /\ ~ palette /\ p \in Tops \cup Tables
    /\ Navigate(p, site, space, NoSite, drawerTab) /\ kept' = FALSE /\ UNCHANGED palette
PaletteGo(p) ==
    /\ palette /\ p \in Tops \cup Tables
    /\ Navigate(p, site, space, picked, drawerTab)
    /\ kept' = (picked # NoSite /\ p # picked) /\ palette' = FALSE

\* goWarnings: the filter goes in after the screen's watcher has emptied it.
GoWarnings ==
    /\ ~ palette /\ place = "overview"
    /\ Settle("events", site, space, NoSite, drawerTab) /\ filter' = "warning"
    /\ kept' = FALSE /\ UNCHANGED palette

\* An object opened from the overview, the timeline or a consumer list takes its screen along.
Open(k, t) == Navigate(k, site, space, k, t) /\ kept' = FALSE /\ UNCHANGED palette
OverviewOpen(k) == /\ place = "overview" /\ site # NoSite /\ ~ palette /\ k \in {"pods", "deployments"}
                   /\ \E t \in IF k = "pods" THEN {"logs", "overview"} ELSE {"events"} : Open(k, t)
TimelineOpen(k) == /\ place = "timeline" /\ site # NoSite /\ ~ palette /\ k \in Tables
                   /\ \E t \in {"events", "overview"} : Open(k, t)
OpenConsumer(k) == /\ picked # NoSite /\ ~ palette /\ k \in {"pods", "deployments"} /\ Open(k, "overview")

\* A row of the table; a CRD's row leads to its custom kind.
RowClick ==
    /\ place \notin Tops /\ rowsOf # NoSite /\ ~ palette
    /\ IF place = "customresourcedefinitions"
       THEN Navigate("crd", site, space, NoSite, drawerTab)
       ELSE Stay(place, SelectTab(place, NoTab))
    /\ kept' = FALSE /\ UNCHANGED palette
\* The palette offers the rows on a screen kindByKey knows, CRDs as objects.
PaletteRow ==
    /\ palette /\ place \in Tables /\ rowsOf # NoSite
    /\ Stay(place, SelectTab(place, NoTab)) /\ kept' = FALSE /\ palette' = FALSE

TabClick(t) ==
    /\ picked # NoSite /\ ~ palette /\ t \in TabsOf(picked)
    /\ drawerTab' = t
    /\ UNCHANGED <<place, site, space, picked, subscribed, rowsOf, tallies, filter, palette, kept>>

CloseButton == picked # NoSite /\ ~ palette /\ Stay(NoSite, drawerTab) /\ kept' = FALSE /\ UNCHANGED palette
Escape ==
    IF palette THEN palette' = FALSE /\ UNCHANGED <<place, site, space, picked, drawerTab, subscribed, rowsOf, tallies, filter, kept>>
    ELSE IF picked # NoSite THEN CloseButton
    ELSE filter' = "" /\ UNCHANGED <<place, site, space, picked, drawerTab, subscribed, rowsOf, tallies, palette, kept>>
OpenPalette ==
    /\ ~ palette /\ palette' = TRUE
    /\ UNCHANGED <<place, site, space, picked, drawerTab, subscribed, rowsOf, tallies, filter, kept>>
TypeFilter ==
    /\ place \notin Tops /\ ~ palette /\ filter' = "typed"
    /\ UNCHANGED <<place, site, space, picked, drawerTab, subscribed, rowsOf, tallies, palette, kept>>

\* Mutant: a table asks for rows before there is a cluster.
RowsArriveUnchosen ==
    /\ place \notin Tops /\ rowsOf = NoSite
    /\ rowsOf' = [kind |-> place, site |-> site, space |-> SpaceFor(place, space)]
    /\ UNCHANGED <<place, site, space, picked, drawerTab, subscribed, tallies, filter, palette, kept>>

\* A snapshot or a delta under the table's id, of its subscription or of one it replaced, which is
\* told by nothing: the rows go to the window and are counted.
RowsArrive ==
    /\ \E x \in subscribed :
          /\ rowsOf' = [kind |-> place, site |-> x.site, space |-> x.space]
          /\ tallies' = tallies \cup {[site |-> x.site, late |-> x # StreamFor(place, site, space)]}
    /\ UNCHANGED <<place, site, space, picked, drawerTab, subscribed, filter, palette, kept>>

NavInit ==
    /\ place = "overview" /\ site = NoSite /\ space = AllSpaces /\ picked = NoSite /\ drawerTab = "overview"
    /\ subscribed = {} /\ rowsOf = NoSite /\ tallies = {} /\ filter = "" /\ palette = FALSE /\ kept = FALSE

NavNext ==
    \/ \E c \in Sites : ClustersListed(c) \/ ChooseSite(c)
    \/ \E s \in Spaces : ChooseSpace(s)
    \/ \E p \in Places : Go(p) \/ PaletteGo(p)
    \/ \E k \in Tables : OverviewOpen(k) \/ TimelineOpen(k) \/ OpenConsumer(k)
    \/ GoWarnings \/ RowClick \/ PaletteRow \/ CloseButton \/ Escape \/ OpenPalette \/ TypeFilter \/ RowsArrive
    \/ \E t \in AllTabs : TabClick(t)

NavSpec == NavInit /\ [][NavNext]_nav

(***************************************************************************)
(* The drawer is on a tab its kind has.  While a table is on screen, the   *)
(* rows the drawer and the palette read are of its kind, and the object    *)
(* selected is of it too, so the row the drawer finds by key is not of a   *)
(* namesake of another kind, unless the palette changed the screen under   *)
(* it.  The tree counts nothing of a cluster the window has left, but what *)
(* came late, from a subscription the table had replaced.  No filter is    *)
(* left from another screen.  Of which cluster and namespace the rows are  *)
(* is not claimed: that a late snapshot stays is what the run socket_rows  *)
(* shows.                                                                  *)
(***************************************************************************)
WindowFits ==
    /\ picked # NoSite => drawerTab \in TabsOf(picked)
    /\ (place \notin Tops /\ rowsOf # NoSite) => rowsOf.kind = place
    /\ (picked # NoSite /\ ~ kept) => place = picked
    /\ \A c \in tallies : c.late \/ c.site = site
    /\ (filter = "warning" => place = "events") /\ (filter = "typed" => place \notin Tops)
=============================================================================
