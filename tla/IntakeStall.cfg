SPECIFICATION Spec
CONSTANTS
  Writers = {w1, w2}
  NoOne = none
  Attempts = 2
  Cap = 2
  MaxMishaps = 1
PROPERTIES
  ReleaseKeepsOthers
CHECK_DEADLOCK FALSE
