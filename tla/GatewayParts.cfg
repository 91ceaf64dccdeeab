SPECIFICATION GatewaySpec
CONSTANTS
  CallRequests <- MCRequests
  PassportDocuments <- MCDocuments
  ApprovalFile <- MCApprovals
  RuntimeEnvs <- MCEnvironments
  Number <- MCNumber
  MaxChanges = 2

  Requests = {r1, r2}
  Free = 1
  MaxToolRounds = 1
  Scope = {"search"}
  FreeTools = {"search_graph", "graph_bible"}
  PaidTools = {"council_quick"}
  MaxFaults = 1

  Conversations = {c1, c2}
  Turns = {u1, u2}
  SoftMax = 2
  KeepRecent = 1
  HardMax = 3
  MaxNumber = 4
  MaxMishaps = 1

  BankrSmokes = {b1}
  GraphSmokes = {g1}
  ScopeOf <- MCScopeOf
  Probes = 1
  MaxRegistryFaults = 1
  MaxRegistryKills = 0
  MaxLost = 1

  Holders = {"h1", "h2"}
  SampleAccess = {"h1"}
  Catalog <- MCCatalog
  MaxSample = 2
  Ledger <- MCLedger
  LabPage = 2
  Searches = {"leak"}
  MaxRuns = 2
  MaxSignIns = 1
  MaxAsking = 2
  MaxRestarts = 1

  HistoryCap = 2
  ConversationCap = 2
  RecallCap = 2
  CouncilCap = 1
  Threads = {"k1", "k2", "k3"}
  Prompts = {"p1", "p2"}
  Seats = {"archimedes", "kallimachos"}
  Captures = {"off", "isolated", "unbound"}
  MaxNotes = 3
  MaxSaves = 4
  MaxTurns = 4
  MaxSessions = 2
  MaxMemoryFaults = 1
INVARIANTS
  GatewayTypesOK
  FreeTierHolds VerdictBeforeRelease RefusedLeavesNoTrace EndIsTold
  ForgettingIsExplained OrphansOnlyAtTheCut ThreadIntact
  ActsOnlyAsGranted RevokedMeansRefused
  SmokeKeepsItsWord ShownIsAsked MemoryIsKept
PROPERTIES
  EveryStreamCloses
CHECK_DEADLOCK FALSE
