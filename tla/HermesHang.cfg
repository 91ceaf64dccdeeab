SPECIFICATION FairSpec
CONSTANTS
  Turns = {t1, t2}
  InitLoop = init
  MaxBacklog = 1
  MaxErrors = 0
  MaxExits = 1
PROPERTIES
  TurnsNeverHang
CHECK_DEADLOCK FALSE
