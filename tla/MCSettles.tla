----------------------------- MODULE MCSettles ------------------------------
(***************************************************************************)
(* The instance that checks what must come to an end under fairness: the   *)
(* rows of one table and the change gate.  They share no state: `scene` is *)
(* chosen at the start and only its module moves, so the run is the sum of *)
(* their instances and not their product, and the module of the other      *)
(* scene stays in one first state.  Fairness is that of each module, for   *)
(* the steps of its own scene.                                             *)
(***************************************************************************)
EXTENDS ResourceStream, MCChangeGate

VARIABLE scene

SettlesInit ==
    /\ scene \in {"table", "gate"}
    /\ StreamInit /\ GateInit
    /\ scene # "table" => ~ wantMetrics /\ store = [k \in Keys |-> 0]
    /\ scene # "gate"  => live = [o \in Objects |-> Absent]

SettlesNext ==
    /\ UNCHANGED scene
    /\ \/ scene = "table" /\ StreamNext /\ UNCHANGED gateVars
       \/ scene = "gate"  /\ GateNext   /\ UNCHANGED streamVars

\* StreamFairness and GateFairness, each of its own scene.
TableFairness ==
    /\ WF_streamVars(scene = "table" /\ (Handle \/ HandlerUpsert \/ HandlerDelete))
    /\ WF_streamVars(scene = "table" /\ Subscribe)
    /\ WF_streamVars(scene = "table" /\ (List \/ SendSnapshot \/ TooSlow \/ Flush \/ TickDone))
    /\ WF_streamVars(scene = "table" /\ \E k \in Keys : TickRow(k))
    /\ WF_streamVars(scene = "table" /\ Tick)
    /\ WF_streamVars(scene = "table" /\ Receive)

DecidingFairness ==
    /\ \A c \in Changes : WF_gateVars(scene = "gate" /\ Proposing(c))
    /\ \A d \in Deciders : WF_gateVars(scene = "gate" /\ Deciding(d))

SettlesSpec ==
    /\ SettlesInit /\ [][SettlesNext]_<<scene, streamVars, gateVars>>
    /\ TableFairness /\ DecidingFairness

(***************************************************************************)
(* Both modules keep their types, whatever fails and whoever is late: what *)
(* is queued to a window never exceeds its limit (server.go                *)
(* connection.send), and a change that fails has a status the gate knows   *)
(* (change.go setFailed).                                                  *)
(***************************************************************************)
SettlesTypeOK == StreamTypeOK /\ GateTypeOK
=============================================================================
