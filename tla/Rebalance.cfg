\* Two overlapping calls on one portfolio with two-leg plans, and a choice of
\* its owner or a crash of the backend.
SPECIFICATION FairSpec
CONSTANTS
  u1 = u1
  w1 = w1
  w2 = w2
  Users = {u1}
  Workers = {w1, w2}
  NumAssets = 3
  Dust = 1
  Targets <- Moved3
  InitialWallets <- OneSided3
  InitialHoldings <- OneSided3
  DriftThreshold = 2
  MaxPortfolioCC = 4
  SwapAttempts <- FewAttempts
  MockModes <- TempleMayBeMocked
  MaxRequests = 2
  MaxEnvSteps = 1
INVARIANTS
  TypeOK
  RequestsAreExclusive
  RecordsAreBacked
PROPERTIES
  SettledStaysSettled
  SwapsUnderExecutingRequest
  CallsReturn
CHECK_DEADLOCK FALSE
