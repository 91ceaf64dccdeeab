SPECIFICATION Spec
CONSTANTS
  Tokens = {t1, t2, t3, t4}
  Wallets = {w1, w2}
  Terms = {m1, m2}
  MaxFaults = 1
  MaxKills = 1
SYMMETRY Symmetry
INVARIANTS
  TypeOK
  OneActive
  RevocationHolds
  NoTokenLost
  RotationKeepsTerms
CHECK_DEADLOCK FALSE
