-------------------------- MODULE ChangeLifecycle --------------------------
(***************************************************************************)
(* What the change gate promises of each change, apart from how it keeps   *)
(* the promise: the life of a change in docs/security.md, "The change      *)
(* gate".  A change is proposed with a number of ops, decided once, and    *)
(* its ops are carried out one by one, only after its approval went on     *)
(* record, before it is called applied.                                    *)
(***************************************************************************)
EXTENDS Integers

CONSTANT Changes

VARIABLES
    stage,      \* stage[c]: the status a client sees
    size,       \* size[c]: how many ops the plan has
    onRecord,   \* onRecord[c]: the approval is in the audit log
    carried     \* carried[c]: how many ops reached the cluster

vars == <<stage, size, onRecord, carried>>

Init ==
    /\ stage = [c \in Changes |-> "none"]
    /\ size = [c \in Changes |-> 0]
    /\ onRecord = [c \in Changes |-> FALSE]
    /\ carried = [c \in Changes |-> 0]

Become(c, from, to) ==
    /\ stage[c] = from
    /\ stage' = [stage EXCEPT ![c] = to]

\* A plan is drawn up while nobody sees the change yet.
Draft(c) ==
    /\ stage[c] = "none"
    /\ size'[c] \in Nat
    /\ size' = [size EXCEPT ![c] = size'[c]]
    /\ UNCHANGED <<stage, onRecord, carried>>

Propose(c) ==
    /\ Become(c, "none", "pending")
    /\ size[c] > 0
    /\ UNCHANGED <<size, onRecord, carried>>

Decide(c) ==
    /\ Become(c, "pending", "approved") \/ Become(c, "pending", "rejected")
    /\ UNCHANGED <<size, onRecord, carried>>

Record(c) ==
    /\ stage[c] = "approved"
    /\ ~onRecord[c]
    /\ carried[c] = 0
    /\ onRecord' = [onRecord EXCEPT ![c] = TRUE]
    /\ UNCHANGED <<stage, size, carried>>

Carry(c) ==
    /\ stage[c] = "approved"
    /\ onRecord[c]
    /\ carried[c] < size[c]
    /\ carried' = [carried EXCEPT ![c] = @ + 1]
    /\ UNCHANGED <<stage, size, onRecord>>

Conclude(c) ==
    /\ \/ Become(c, "approved", "applied") /\ carried[c] = size[c]
       \/ Become(c, "approved", "failed")
    /\ UNCHANGED <<size, onRecord, carried>>

\* The engine stops: every change it held is gone, what was done stays done.
Forget ==
    /\ stage' = [c \in Changes |->
                   IF stage[c] = "none" THEN "none" ELSE "gone"]
    /\ UNCHANGED <<size, onRecord, carried>>

Next ==
    \/ \E c \in Changes :
         Draft(c) \/ Propose(c) \/ Decide(c) \/ Record(c) \/ Carry(c)
           \/ Conclude(c)
    \/ Forget

Spec == Init /\ [][Next]_vars
=============================================================================
