SPECIFICATION Spec
CONSTANTS
  Approvals = {a1}
  Calls = {r1, r2}
  Processes = {p1}
  MayDecline = FALSE
  MaxFaults = 0
  MaxGiveUps = 1
  MaxCrashes = 0
INVARIANTS
  AtMostOnce
CHECK_DEADLOCK FALSE
