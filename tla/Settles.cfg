SPECIFICATION SettlesSpec
CONSTANTS
  Keys = {k1}
  MaxOut = 2
  MaxChanges = 2
  MaxPolls = 2
  MaxDrops = 1
  c1 = c1
  c2 = c2
  d1 = d1
  d2 = d2
  o1 = o1
  o2 = o2
  Absent = Absent
  Changes = {c1}
  Deciders = {d1, d2}
  Objects = {o1, o2}
  Contents <- MCContents
  Written <- MCWritten
  Patched <- MCPatched
  Plans <- MCLongPlans
  AuditFaults = {"kept"}
  CallFaults = {"refused", "replyLost"}
  MaxEdits = 2
  MaxCrashes = 1
INVARIANT SettlesTypeOK
INVARIANT TableMatchesCluster
INVARIANT NothingMissing
PROPERTY CatchesUp
PROPERTY OutcomeRecorded
PROPERTY ImplementsLifecycle
CHECK_DEADLOCK FALSE
