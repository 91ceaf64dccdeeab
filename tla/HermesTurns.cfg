SPECIFICATION FairSpec
CONSTANTS
  Turns = {t1, t2, t3}
  InitLoop = init
  MaxBacklog = 2
  MaxErrors = 1
  MaxExits = 1
INVARIANTS
  TypeOK
  OwnFramesWhenCalm
  OnePromptAtATime
  NoLostWakeup
PROPERTIES
  TurnsEnd
CHECK_DEADLOCK FALSE
