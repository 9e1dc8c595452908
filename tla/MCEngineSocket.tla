---------------------------- MODULE MCEngineSocket ----------------------------
(***************************************************************************)
(* Instances of EngineSocket for model checking: one table, which shows    *)
(* pods in one of two namespaces, a kind the engine does not know, or pods *)
(* in a context that cannot be connected to.                               *)
(***************************************************************************)
EXTENDS EngineSocket

CONSTANTS pods, widgets, away, n1, n2

PodsHere == [kind |-> pods, ns |-> n1]
PodsThere == [kind |-> pods, ns |-> n2]
WidgetsHere == [kind |-> widgets, ns |-> n1]
PodsAway == [kind |-> away, ns |-> n1]

MCTargets == {PodsHere, PodsThere, WidgetsHere, PodsAway}
MCNoKind == {WidgetsHere}
MCNoSession == {PodsAway}
MCServed == {PodsHere, PodsThere}
MCTwoConnections == 1 .. 2
=============================================================================
