SPECIFICATION Spec
CONSTANTS
  Approvals = {a1}
  Calls = {r1, r2, r3}
  Processes = {p1}
  MayDecline = FALSE
  MaxFaults = 2
  MaxGiveUps = 1
  MaxCrashes = 1
INVARIANTS
  TypeOK
  OneClaimant
  DoubleExecutionNeedsLeak
PROPERTIES
  NoReplay
CHECK_DEADLOCK FALSE
