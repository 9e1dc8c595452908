---------------------------- MODULE ScopedScreens ----------------------------
(***************************************************************************)
(* The three screens that show a report of a scope of the cluster: what    *)
(* changed (TimelineScreen), Helm releases (HelmScreen) and drift          *)
(* (DriftScreen).  A scope is a cluster and a view of it: the namespace,   *)
(* and on the timeline the minutes.  The first two read again when the     *)
(* scope moves, the third only when it is told to.  Each request is        *)
(* answered on a goroutine of its own, so answers land in any order.       *)
(* `screen` is fixed by the initial state: the window mounts one of them.  *)
(***************************************************************************)
EXTENDS Naturals, FiniteSets

CONSTANTS Contexts, HomeContext,  \* clusters, and the one the window opens on
          Views, AllViews,        \* views, and the one a cluster starts with
          Nowhere,                \* no scope: nothing shown, nothing asked
          MaxReads                \* bound: requests of one purpose in flight at once

ASSUME ScopeAssumption == /\ HomeContext \in Contexts /\ AllViews \in Views /\ MaxReads \in Nat \ {0}
                          /\ Nowhere \notin [context : Contexts, view : Views]

Screens  == {"timeline", "helm", "drift"}
Scopes   == [context : Contexts, view : Views]
Purposes == {"report", "detail", "plan", "capture"}

VARIABLES screen,    \* the screen this behaviour follows
          scope,     \* ui.cluster, ui.namespace and minutes
          reads,     \* requests in flight, with the ticket that tells repeats apart
          latest,    \* the ticket of the last report asked for
          asked,     \* the scope it was asked for
          report,    \* the scope of the report shown, Nowhere when none is
          failed,    \* error: the message shown instead of the report
          reading,   \* loading, or scanning
          detail,    \* the scope of the release selected
          rescan,    \* the ticket of the scan a capture waits for, 0 when none does
          strays     \* what an answer filled that was overtaken, or read in a cluster since left

scoped == <<screen, scope, reads, latest, asked, report, failed, reading, detail, rescan, strays>>

Read == [what : Purposes, of : Scopes, n : 1 .. MaxReads]

ScopedTypeOK ==
    /\ screen \in Screens /\ scope \in Scopes /\ reads \subseteq Read
    /\ latest \in 0 .. MaxReads /\ rescan \in 0 .. MaxReads
    /\ {asked, report, detail} \subseteq Scopes \cup {Nowhere}
    /\ {failed, reading} \subseteq BOOLEAN
    /\ strays \subseteq {"report", "detail"}

InFlight(w) == {r \in reads : r.what = w}
Tickets(w)  == {n \in 1 .. MaxReads : \A r \in InFlight(w) : r.n # n}

(***************************************************************************)
(* load and scan.  Helm's clears what it showed, the others keep it until  *)
(* the answer or the error.                                                *)
(***************************************************************************)
\* Mutant: a load keeps the release that was selected.
ReadReportKeepsDetail(s, kept) ==
    /\ \E n \in Tickets("report") : reads' = kept \cup {[what |-> "report", of |-> s, n |-> n]} /\ latest' = n
    /\ asked' = s /\ failed' = FALSE /\ reading' = (screen # "helm")
    /\ report' = (IF screen = "helm" THEN Nowhere ELSE report)
    /\ strays' = (IF screen = "helm" THEN {} ELSE strays)
    /\ UNCHANGED detail

ReadReport(s, kept) ==
    /\ \E n \in Tickets("report") : reads' = kept \cup {[what |-> "report", of |-> s, n |-> n]} /\ latest' = n
    /\ asked' = s
    /\ failed' = FALSE
    /\ reading' = (screen # "helm")
    /\ IF screen = "helm" THEN report' = Nowhere /\ detail' = Nowhere /\ strays' = {}
                          ELSE UNCHANGED <<report, detail, strays>>

\* The scope moves: App.vue empties the namespace with the cluster, and the watchers read again.
MoveScope(s) ==
    /\ s # scope
    /\ scope' = s
    /\ IF screen = "drift" THEN UNCHANGED <<reads, latest, asked, report, failed, reading, detail, strays>>
                           ELSE ReadReport(s, reads)
    /\ UNCHANGED <<screen, rescan>>
SetContext(c) == c # scope.context /\ MoveScope([context |-> c, view |-> AllViews])
SetView(v)    == MoveScope([scope EXCEPT !.view = v])

\* Refresh and Scan. The buttons wait for the last read, except Helm's; Enter in the path does not.
Refresh ==
    /\ screen = "timeline" => ~ reading
    /\ ReadReport(scope, reads)
    /\ UNCHANGED <<screen, scope, rescan>>

ReportRead(r) ==
    /\ r.what = "report"
    /\ reads' = reads \ {r}
    /\ reading' = FALSE
    /\ \/ /\ report' = r.of /\ UNCHANGED failed
          /\ strays' = IF r.n = latest THEN strays \ {"report"} ELSE strays \cup {"report"}
       \/ /\ failed' = TRUE /\ report' = IF screen = "helm" THEN report ELSE Nowhere
          /\ UNCHANGED strays
    /\ rescan' = IF r.n = rescan THEN 0 ELSE rescan
    /\ UNCHANGED <<screen, scope, latest, asked, detail>>

\* What is asked of the cluster whatever the view.
Here == [context |-> scope.context, view |-> AllViews]

\* openRelease takes the answer whatever became of the list it was opened from.
OpenRelease ==
    /\ screen = "helm" /\ report # Nowhere /\ ~ failed
    /\ \E n \in Tickets("detail") : reads' = reads \cup {[what |-> "detail", of |-> Here, n |-> n]}
    /\ UNCHANGED <<screen, scope, latest, asked, report, failed, reading, detail, rescan, strays>>
ReleaseRead(r) ==
    /\ r.what = "detail"
    /\ reads' = reads \ {r}
    /\ \/ /\ detail' = r.of /\ UNCHANGED failed
          /\ strays' = IF r.of.context = scope.context THEN strays \ {"detail"} ELSE strays \cup {"detail"}
       \/ failed' = TRUE /\ UNCHANGED <<detail, strays>>
    /\ UNCHANGED <<screen, scope, latest, asked, report, reading, rescan>>

\* rollback reads one plan at a time and proposes it, or tells why not; only a refusal is an error.
Rollback ==
    /\ screen = "helm" /\ detail # Nowhere /\ report # Nowhere /\ ~ failed /\ InFlight("plan") = {}
    /\ reads' = reads \cup {[what |-> "plan", of |-> Here, n |-> 1]}
    /\ UNCHANGED <<screen, scope, latest, asked, report, failed, reading, detail, rescan, strays>>
PlanRead(r) ==
    /\ r.what = "plan"
    /\ reads' = reads \ {r}
    /\ failed' \in {failed, TRUE}
    /\ UNCHANGED <<screen, scope, latest, asked, report, reading, detail, rescan, strays>>

\* captureAll sends every unmanaged object of the report; when it worked it scans again, and the
\* button waits for that scan too.
CaptureAll ==
    /\ screen = "drift" /\ report # Nowhere /\ InFlight("capture") = {} /\ rescan = 0
    /\ reads' = reads \cup {[what |-> "capture", of |-> Here, n |-> 1]}
    /\ UNCHANGED <<screen, scope, latest, asked, report, failed, reading, detail, rescan, strays>>
Captured(r) ==
    /\ r.what = "capture"
    /\ \/ ReadReport(scope, reads \ {r}) /\ rescan' = latest'
       \/ /\ reads' = reads \ {r}
          /\ UNCHANGED <<latest, asked, report, failed, reading, detail, rescan, strays>>
    /\ UNCHANGED <<screen, scope>>

ScopedInit ==
    /\ screen \in Screens
    /\ scope = [context |-> HomeContext, view |-> AllViews]
    /\ IF screen = "drift" THEN reads = {} /\ latest = 0 /\ asked = Nowhere
       ELSE reads = {[what |-> "report", of |-> scope, n |-> 1]} /\ latest = 1 /\ asked = scope
    /\ report = Nowhere /\ detail = Nowhere
    /\ failed = FALSE /\ rescan = 0 /\ strays = {}
    /\ reading = (screen = "timeline")

ScopedNext ==
    \/ \E c \in Contexts : SetContext(c)
    \/ \E v \in Views : SetView(v)
    \/ \E r \in reads : ReportRead(r) \/ ReleaseRead(r) \/ PlanRead(r) \/ Captured(r)
    \/ Refresh \/ OpenRelease \/ Rollback \/ CaptureAll

ScopedSpec == ScopedInit /\ [][ScopedNext]_scoped

(***************************************************************************)
(* With every report answered and no error shown, the report is the one    *)
(* last asked for, and on the timeline and on Helm that is one of the      *)
(* scope the window has; the release selected is of the window's cluster.  *)
(* Neither holds of what an answer filled that came out of its order,      *)
(* which no screen checks for: a report's after a newer one's, and a       *)
(* release's after the window left the cluster it was opened in.  The      *)
(* drift screen keeps its report when the scope moves, and what it or a    *)
(* rollback proposes then goes to the cluster the window moved to.         *)
(***************************************************************************)
SettledReportFits ==
    (InFlight("report") = {} /\ ~ failed) =>
        /\ report # Nowhere /\ "report" \notin strays => report = asked /\ (screen # "drift" => report = scope)
        /\ detail # Nowhere /\ "detail" \notin strays => detail.context = scope.context
=============================================================================
