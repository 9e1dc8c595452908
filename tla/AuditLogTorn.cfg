SPECIFICATION AuditSpec
CONSTANTS
    Engines = {e1}
    Faults = {"short"}
    MaxAppends = 3
INVARIANT FailureKeepsLinks
CHECK_DEADLOCK FALSE
