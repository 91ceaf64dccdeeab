SPECIFICATION Spec
CONSTANTS
  Turns = {t1, t2}
  InitLoop = init
  MaxBacklog = 1
  MaxErrors = 1
  MaxExits = 0
INVARIANTS
  OwnFrames
CHECK_DEADLOCK FALSE
