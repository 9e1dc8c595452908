SPECIFICATION GateSpec
CONSTANTS
    c1 = c1
    c2 = c2
    d1 = d1
    d2 = d2
    o1 = o1
    o2 = o2
    Absent = Absent
    Changes = {c1}
    Deciders = {d1}
    Objects = {o1}
    Contents <- MCContents
    Written <- MCWritten
    Patched <- MCPatched
    Plans <- MCPlans
    AuditFaults = {"lost"}
    CallFaults = {}
    MaxEdits = 0
    MaxCrashes = 0
INVARIANT UnrecordedIsNotHeld
CHECK_DEADLOCK FALSE
