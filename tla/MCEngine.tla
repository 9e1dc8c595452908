------------------------------ MODULE MCEngine ------------------------------
(***************************************************************************)
(* The instance that checks the engine's socket with its streams, the      *)
(* audit log and the two halves of the comparison in one run.  They share  *)
(* no state: `scene` is chosen at the start and only its module moves, so  *)
(* the run is the sum of their instances and not their product, and the    *)
(* module of another scene stays in one first state.                       *)
(***************************************************************************)
EXTENDS MCEngineSocket, AuditLog, MCDriftScan, MCDriftRender

VARIABLE scene

Scenes == {"socket", "log", "scan", "render"}

EngineInit ==
    /\ scene \in Scenes
    /\ scene # "scan"   => /\ live = [k \in Keys |-> Absent]
                           /\ request = [ns |-> "none", unmanaged |-> FALSE, mayUpdate |-> TRUE]
    /\ scene # "render" => tree = [kust |-> {}, refs |-> [d \in Dirs |-> {}], chart |-> {},
                                   manifest |-> [d \in Dirs |-> "none"]]
    /\ Init /\ AuditInit /\ DriftInit /\ RenderInit

OthersStay(mine) ==
    /\ UNCHANGED scene
    /\ "socket" # mine => UNCHANGED vars
    /\ "log"    # mine => UNCHANGED audit
    /\ "scan"   # mine => UNCHANGED drift
    /\ "render" # mine => UNCHANGED render

EngineNext ==
    \/ scene = "socket" /\ Next       /\ OthersStay("socket")
    \/ scene = "log"    /\ AuditNext  /\ OthersStay("log")
    \/ scene = "scan"   /\ DriftNext  /\ OthersStay("scan")
    \/ scene = "render" /\ RenderNext /\ OthersStay("render")

EngineSpec == EngineInit /\ [][EngineNext]_<<scene, vars, audit, drift, render>>

\* States are told apart by the variables that move.
SceneView == <<scene, CASE scene = "socket" -> vars
                        [] scene = "log"    -> audit
                        [] scene = "scan"   -> drift
                        [] scene = "render" -> render>>

\* Every variable of the scene's module has its type.
EngineTypeOK ==
    /\ scene = "socket" => TypeOK
    /\ scene = "log"    => AuditTypeOK
    /\ scene = "scan"   => DriftTypeOK
    /\ scene = "render" => RenderTypeOK
=============================================================================
