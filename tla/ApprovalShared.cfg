SPECIFICATION Spec
CONSTANTS
  Approvals = {a1}
  Calls = {r1, r2, r3}
  Processes = {p1, p2}
  MayDecline = TRUE
  MaxFaults = 2
  MaxGiveUps = 1
  MaxCrashes = 1
SYMMETRY Symmetry
INVARIANTS
  OkMeansSpent
  ConsumedMeansPerformed
  AuditBeforeRuntime
  OrphanNeedsFault
CHECK_DEADLOCK FALSE
