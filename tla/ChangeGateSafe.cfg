SPECIFICATION GateSpec
CONSTANTS
    c1 = c1
    c2 = c2
    d1 = d1
    d2 = d2
    o1 = o1
    o2 = o2
    Absent = Absent
    Changes = {c1, c2}
    Deciders = {d1, d2}
    Objects = {o1}
    Contents <- MCContents
    Written <- MCWritten
    Patched <- MCPatched
    Plans <- MCPlans
    AuditFaults = {"lost", "kept"}
    CallFaults = {"replyLost"}
    MaxEdits = 1
    MaxCrashes = 1
SYMMETRY MCSymmetry
INVARIANT ApprovalOnDisk
INVARIANT ExecutedOnceInOrder
INVARIANT OutcomeIsTrue
INVARIANT OneStory
PROPERTY ApplyHitsReviewed
CHECK_DEADLOCK FALSE
