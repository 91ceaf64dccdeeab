SPECIFICATION FairSpec
CONSTANTS
  Writers = {w1, w2, w3}
  NoOne = none
  Attempts = 2
  Cap = 2
  MaxMishaps = 1
INVARIANTS
  TypeOK
  OneWriter
  StaleFilesDoNotBlock
PROPERTIES
  LedgerAppends
  LockFreed
CHECK_DEADLOCK FALSE
