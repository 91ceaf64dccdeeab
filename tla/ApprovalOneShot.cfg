SPECIFICATION FairSpec
CONSTANTS
  Approvals = {a1}
  Calls = {r1, r2, r3}
  Processes = {p1}
  MayDecline = FALSE
  MaxFaults = 0
  MaxGiveUps = 0
  MaxCrashes = 1
PROPERTIES
  IsOneShot
  EveryCallAnswered
  ReservationSettles
CHECK_DEADLOCK FALSE
