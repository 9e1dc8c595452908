---------------------------- MODULE MCChangeGate ----------------------------
(***************************************************************************)
(* Instances of ChangeGate for model checking.  An object holds a template,*)
(* a replica count and whether the template carries a restart stamp: an    *)
(* apply writes all of it, a scale or a restart only its own part.         *)
(***************************************************************************)
EXTENDS ChangeGate, TLC

CONSTANTS c1, c2, d1, d2, o1, o2

Content(template, replicas, stamped) ==
    [template |-> template, replicas |-> replicas, stamped |-> stamped]

MCContents ==
    [template : {"t1", "t2"}, replicas : {1, 2}, stamped : BOOLEAN]

\* Others run the old template, at either size.
MCWritten == {Content("t1", 1, FALSE), Content("t1", 2, FALSE)}

MCPatched(op, content) ==
    IF op.op = "scale" THEN [content EXCEPT !.replicas = 2]
    ELSE [content EXCEPT !.stamped = TRUE]

MCOp(op, o) ==
    [op |-> op, obj |-> o, yaml |-> Content("t2", 1, FALSE), valid |-> TRUE]

Apply == MCOp("apply", o1)
Scale == MCOp("scale", o1)
Restart == MCOp("restart", o2)
Delete == MCOp("delete", o1)
Invalid == [Apply EXCEPT !.valid = FALSE]

\* A plan of one op, and one whose second op meets what its first one did.
MCPlans == {<<Apply>>, <<Scale, Apply>>}

\* Plans over two objects, and two that Propose refuses.
MCLongPlans == {<<Apply, Restart>>, <<Restart, Delete>>, <<Invalid>>, <<>>}

MCSymmetry == Permutations(Changes) \cup Permutations(Deciders)
=============================================================================
