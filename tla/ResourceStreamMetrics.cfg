SPECIFICATION StreamSpec
CONSTANTS
    Keys = {k1}
    MaxOut = 2
    MaxChanges = 1
    MaxPolls = 1
    MaxDrops = 0
INVARIANT RowsFollowObjects
CHECK_DEADLOCK FALSE
