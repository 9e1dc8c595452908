------------------------------ MODULE MCWindow ------------------------------
(***************************************************************************)
(* The instance that checks the modules of the window, of the capture its  *)
(* drift screen asks for, of the port forwards and of the demo in one run. *)
(* They share no state here: `scene` is chosen at the start and only its   *)
(* module moves, so the run is the sum of their instances and not their    *)
(* product, and the module of another scene stays in its first state (its  *)
(* pane or screen fixed).                                                  *)
(* The repository captured into starts on a branch without any of the      *)
(* paths; the person may leave it for no branch.                           *)
(***************************************************************************)
EXTENDS ObjectDrawer, ScopedScreens, WindowNav, ChangeReview, OverviewClaims, LogFollow,
        TerminalSession, ExplainPane, DriftCapture, PortForwards, DemoEngine

VARIABLE scene

MCThings == {<<"pods", "shop", "web">>, <<"pods", "kube", "web">>, <<"secrets", "shop", "web">>,
             <<"nodes", "", "n1">>, <<"releases", "shop", "front">>, <<"releases", "kube", "ops">>}
MCProposals == {<<"scale", "deployments", "shop", "checkout">>, <<"apply", "services", "shop", "front">>,
                <<"delete", "pods", "shop", "web">>}
MCSubjects == {<<"web", "shop">>, <<"web", "kube">>, <<"db", "shop">>}
\* Two objects that can be captured, and one whose file .gitignore hides.
MCLiveObjects == {"web", "front", "cache"}
MCFileNameFor == [web |-> "shop-web", front |-> "shop-front", cache |-> "shop-cache"]
MCBatches == {<<"web", "front">>, <<"cache">>}
MCPaths   == {"shop-web", "shop-front", "shop-cache"}
MCIgnored == {"shop-cache"}

\* The person, and another capture, come between a capture's steps; one of them is enough.
CaptureBound == acts = 0 \/ Cardinality({w \in Windows : UnderWay(w)}) <= 1

Scenes == {"drawer", "scoped", "nav", "review", "overview", "logs", "terminal", "explain", "capture", "forwards", "demo"}
demoSite == <<recorder, demo>>

WindowInit ==
    /\ scene \in Scenes
    /\ DrawerInit /\ ScopedInit /\ NavInit /\ ReviewInit /\ OverviewInit /\ LogInit /\ ShellInit /\ ExplainInit /\ CaptureInit
    /\ ForwardsInit /\ DemoInit
    /\ scene # "drawer" => pane = "object"
    /\ scene # "scoped" => screen = "timeline"
    /\ scene # "demo"   => revision = 0
    /\ head = Main /\ tree[Main] = {}

OthersStay(mine) ==
    /\ UNCHANGED scene
    /\ "drawer"   # mine => UNCHANGED drawer
    /\ "scoped"   # mine => UNCHANGED scoped
    /\ "nav"      # mine => UNCHANGED nav
    /\ "review"   # mine => UNCHANGED review
    /\ "overview" # mine => UNCHANGED overview
    /\ "logs"     # mine => UNCHANGED logs
    /\ "terminal" # mine => UNCHANGED terminal
    /\ "explain"  # mine => UNCHANGED explain
    /\ "capture"  # mine => UNCHANGED capture
    /\ "forwards" # mine => UNCHANGED forwarding
    /\ "demo"     # mine => UNCHANGED demoSite

WindowNext ==
    \/ scene = "drawer"   /\ DrawerNext   /\ OthersStay("drawer")
    \/ scene = "scoped"   /\ ScopedNext   /\ OthersStay("scoped")
    \/ scene = "nav"      /\ NavNext      /\ OthersStay("nav")
    \/ scene = "review"   /\ ReviewNext   /\ OthersStay("review")
    \/ scene = "overview" /\ OverviewNext /\ OthersStay("overview")
    \/ scene = "logs"     /\ LogNext      /\ OthersStay("logs")
    \/ scene = "terminal" /\ ShellNext    /\ OthersStay("terminal")
    \/ scene = "explain"  /\ ExplainNext  /\ OthersStay("explain")
    \/ scene = "capture"  /\ CaptureNext  /\ OthersStay("capture")
    \/ scene = "forwards" /\ ForwardsNext /\ OthersStay("forwards")
    \/ scene = "demo"     /\ DemoNext     /\ OthersStay("demo")

WindowSpec == WindowInit /\ [][WindowNext]_<<scene, drawer, scoped, nav, review, overview, logs, terminal, explain, capture, forwarding, demoSite>>

\* States are told apart by the variables that move.  Of the tab a pane of the drawer knows only
\* whether it is the one the pane is under, or, for revealed values, the overview.
TabSeen == CASE pane = "object"           -> tab = "overview"
             [] pane \in {"yaml", "events"} -> tab = pane
             [] OTHER                     -> FALSE
SceneView ==
    <<scene, CASE scene = "drawer"   -> <<pane, cluster, sel, TabSeen, asks, newest, shown, bare, loading,
                                          dirty, outdated, edit, revealed, strayed, late>>
               [] scene = "scoped"   -> scoped
               [] scene = "nav"      -> nav
               [] scene = "review"   -> review
               [] scene = "overview" -> overview
               [] scene = "logs"     -> logs
               [] scene = "terminal" -> terminal
               [] scene = "explain"  -> explain
               [] scene = "capture"  -> capture
               [] scene = "forwards" -> forwarding
               [] scene = "demo"     -> demoSite>>

\* Every variable of the scene's module has its type.
WindowTypeOK ==
    /\ scene = "drawer"   => DrawerTypeOK
    /\ scene = "scoped"   => ScopedTypeOK
    /\ scene = "nav"      => NavTypeOK
    /\ scene = "review"   => ReviewTypeOK
    /\ scene = "overview" => OverviewTypeOK
    /\ scene = "logs"     => LogTypeOK
    /\ scene = "terminal" => ShellTypeOK
    /\ scene = "explain"  => ExplainTypeOK
    /\ scene = "capture"  => CaptureTypeOK
    /\ scene = "forwards" => ForwardsTypeOK
    /\ scene = "demo"     => RecordingTypeOK /\ DemoTypeOK
=============================================================================
