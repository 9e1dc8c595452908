--------------------------- MODULE MCWindowProofs ----------------------------
(***************************************************************************)
(* Proofs about the window as a whole: every behaviour of MCWindow is one  *)
(* of each of its modules, which carries what is proved of them over to    *)
(* it, for any values of their constants.                                  *)
(***************************************************************************)
EXTENDS MCWindow, WindowProofs, PanesProofs

\* What a scene's module does is a step of it, and every other module stutters.
LEMMA LogsOfWindow == WindowSpec => LogSpec
<1>1. WindowInit => LogInit
  BY DEF WindowInit
<1>2. [WindowNext]_<<scene, drawer, scoped, nav, review, overview, logs, terminal, explain, capture, forwarding, demoSite>>
         => [LogNext]_logs
  BY DEF WindowNext, OthersStay
<1> QED
  BY <1>1, <1>2, PTL DEF WindowSpec, LogSpec

LEMMA TerminalOfWindow == WindowSpec => ShellSpec
<1>1. WindowInit => ShellInit
  BY DEF WindowInit
<1>2. [WindowNext]_<<scene, drawer, scoped, nav, review, overview, logs, terminal, explain, capture, forwarding, demoSite>>
         => [ShellNext]_terminal
  BY DEF WindowNext, OthersStay
<1> QED
  BY <1>1, <1>2, PTL DEF WindowSpec, ShellSpec

LEMMA ExplainOfWindow == WindowSpec => ExplainSpec
<1>1. WindowInit => ExplainInit
  BY DEF WindowInit
<1>2. [WindowNext]_<<scene, drawer, scoped, nav, review, overview, logs, terminal, explain, capture, forwarding, demoSite>>
         => [ExplainNext]_explain
  BY DEF WindowNext, OthersStay
<1> QED
  BY <1>1, <1>2, PTL DEF WindowSpec, ExplainSpec

LEMMA ForwardsOfWindow == WindowSpec => ForwardsSpec
<1>1. WindowInit => ForwardsInit
  BY DEF WindowInit
<1>2. [WindowNext]_<<scene, drawer, scoped, nav, review, overview, logs, terminal, explain, capture, forwarding, demoSite>>
         => [ForwardsNext]_forwarding
  BY DEF WindowNext, OthersStay
<1> QED
  BY <1>1, <1>2, PTL DEF WindowSpec, ForwardsSpec

LEMMA DrawerOfWindow == WindowSpec => DrawerSpec
<1>1. WindowInit => DrawerInit
  BY DEF WindowInit
<1>2. [WindowNext]_<<scene, drawer, scoped, nav, review, overview, logs, terminal, explain, capture, forwarding, demoSite>>
         => [DrawerNext]_drawer
  BY DEF WindowNext, OthersStay
<1> QED
  BY <1>1, <1>2, PTL DEF WindowSpec, DrawerSpec

LEMMA ScopedOfWindow == WindowSpec => ScopedSpec
<1>1. WindowInit => ScopedInit
  BY DEF WindowInit
<1>2. [WindowNext]_<<scene, drawer, scoped, nav, review, overview, logs, terminal, explain, capture, forwarding, demoSite>>
         => [ScopedNext]_scoped
  BY DEF WindowNext, OthersStay
<1> QED
  BY <1>1, <1>2, PTL DEF WindowSpec, ScopedSpec

LEMMA NavOfWindow == WindowSpec => NavSpec
<1>1. WindowInit => NavInit
  BY DEF WindowInit
<1>2. [WindowNext]_<<scene, drawer, scoped, nav, review, overview, logs, terminal, explain, capture, forwarding, demoSite>>
         => [NavNext]_nav
  BY DEF WindowNext, OthersStay
<1> QED
  BY <1>1, <1>2, PTL DEF WindowSpec, NavSpec

LEMMA ReviewOfWindow == WindowSpec => ReviewSpec
<1>1. WindowInit => ReviewInit
  BY DEF WindowInit
<1>2. [WindowNext]_<<scene, drawer, scoped, nav, review, overview, logs, terminal, explain, capture, forwarding, demoSite>>
         => [ReviewNext]_review
  BY DEF WindowNext, OthersStay
<1> QED
  BY <1>1, <1>2, PTL DEF WindowSpec, ReviewSpec

LEMMA OverviewOfWindow == WindowSpec => OverviewSpec
<1>1. WindowInit => OverviewInit
  BY DEF WindowInit
<1>2. [WindowNext]_<<scene, drawer, scoped, nav, review, overview, logs, terminal, explain, capture, forwarding, demoSite>>
         => [OverviewNext]_overview
  BY DEF WindowNext, OthersStay
<1> QED
  BY <1>1, <1>2, PTL DEF WindowSpec, OverviewSpec

LEMMA CaptureOfWindow == WindowSpec => CaptureSpec
<1>1. WindowInit => CaptureInit
  BY DEF WindowInit
<1>2. [WindowNext]_<<scene, drawer, scoped, nav, review, overview, logs, terminal, explain, capture, forwarding, demoSite>>
         => [CaptureNext]_capture
  BY DEF WindowNext, OthersStay
<1> QED
  BY <1>1, <1>2, PTL DEF WindowSpec, CaptureSpec

LEMMA DemoOfWindow == WindowSpec => DemoSpec
<1>1. WindowInit => DemoInit
  BY DEF WindowInit
<1>2. [WindowNext]_<<scene, drawer, scoped, nav, review, overview, logs, terminal, explain, capture, forwarding, demoSite>>
         => [DemoNext]_<<recorder, demo>>
  BY DEF WindowNext, OthersStay, demoSite
<1> QED
  BY <1>1, <1>2, PTL DEF WindowSpec, DemoSpec

\* Every variable of every module has its type.
THEOREM WindowTyping == WindowSpec => []WindowTypeOK
<1>1. /\ DrawerTypeOK /\ ScopedTypeOK /\ NavTypeOK /\ ReviewTypeOK /\ OverviewTypeOK /\ LogTypeOK /\ ShellTypeOK
      /\ ExplainTypeOK /\ CaptureTypeOK /\ ForwardsTypeOK /\ RecordingTypeOK /\ DemoTypeOK
      => WindowTypeOK
  BY DEF WindowTypeOK
<1>2. WindowSpec => []DrawerTypeOK /\ []ScopedTypeOK /\ []NavTypeOK /\ []ReviewTypeOK
  BY DrawerOfWindow, ScopedOfWindow, NavOfWindow, ReviewOfWindow,
     DrawerTyping, ScopedTyping, NavTyping, ReviewTyping, PTL
<1>3. WindowSpec => []OverviewTypeOK /\ []LogTypeOK /\ []ShellTypeOK /\ []ExplainTypeOK
  BY OverviewOfWindow, LogsOfWindow, TerminalOfWindow, ExplainOfWindow,
     OverviewCorrect, LogCorrect, ShellsCorrect, ExplainCorrect, PTL
<1>4. WindowSpec => []CaptureTypeOK /\ []ForwardsTypeOK /\ []RecordingTypeOK /\ []DemoTypeOK
  BY CaptureOfWindow, ForwardsOfWindow, DemoOfWindow, CaptureCorrect, ForwardsCorrect, RecordingCorrect, DemoCorrect, PTL
<1> QED
  BY <1>1, <1>2, <1>3, <1>4, PTL

\* Of the window as a whole, with the exceptions each of the four names: the log pane shows the
\* last lines of what came, the stream chosen whole and in order until the link comes back under
\* it; a terminal prints its own session and, but for one the link went down under, leaves no other
\* shell and has its own; an answer of the model is of the evidence beside it; no listener is left
\* where it cannot be stopped.
THEOREM PanesCorrect ==
    WindowSpec => []LogFollows /\ []ShellsAreOwned /\ []ExplainIsOfItsEvidence /\ []ForwardsHeld
  BY LogsOfWindow, TerminalOfWindow, ExplainOfWindow, ForwardsOfWindow,
     LogCorrect, ShellsCorrect, ExplainCorrect, ForwardsCorrect, PTL

\* Of the window as a whole, with the exceptions each of them names: where revealed values were
\* read, what a pane of the drawer shows once it is settled, what the reports that follow the
\* cluster show, where the window is, the review of a change, and what the overview claims.
THEOREM ScreensCorrect ==
    WindowSpec => [](/\ BoxesAreSelected /\ SettledPanesFit /\ SettledReportFits
                     /\ WindowFits /\ ReviewIsTrue /\ ClaimsAgree /\ HistogramCounts)
  BY DrawerOfWindow, ScopedOfWindow, NavOfWindow, ReviewOfWindow, OverviewOfWindow, BoxesCorrect,
     SettledCorrect, ScopedCorrect, NavigationFits, ReviewCorrect, OverviewCorrect,
     HistogramCorrect, PTL

\* Of the engine the window belongs to: a capture nobody came between changes no branch but its
\* own; no capture writes a path where a file is, or a value of a Secret.
THEOREM WindowCaptures == WindowSpec => []CaptureHoldsItsOwn
  BY CaptureOfWindow, CaptureCorrect, PTL

\* Of the demo on the project's site: what is recorded under a key is of that key, its events of
\* that key's namespace and name; and the visitor is shown what was recorded of the thing selected,
\* but for events and the one release, which are shown as DemoAnswers says.
THEOREM WindowDemo == WindowSpec => [](TapeFits /\ DemoAnswers)
  BY DemoOfWindow, RecordingCorrect, DemoCorrect, PTL
=============================================================================
