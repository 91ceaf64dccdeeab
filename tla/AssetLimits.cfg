SPECIFICATION GovernedCallSpec
CONSTANTS
  CallRequests <- MCRequests
  PassportDocuments <- MCDocuments
  ApprovalFile <- MCApprovals
  RuntimeEnvs <- MCEnvironments
  Number <- MCNumber
  MaxChanges = 2
INVARIANTS
  AssetsWithinGrant
CHECK_DEADLOCK FALSE
