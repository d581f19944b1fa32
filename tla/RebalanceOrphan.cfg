\* One call: SetSwapLegs fails after InitiateRebalance.
SPECIFICATION Spec
CONSTANTS
  u1 = u1
  w1 = w1
  w2 = w2
  Users = {u1}
  Workers = {w1}
  NumAssets = 2
  Dust = 1
  Targets <- Even
  InitialWallets <- OneSided
  InitialHoldings <- OneSided
  DriftThreshold = 2
  MaxPortfolioCC = 6
  SwapAttempts <- AttemptsOfTheCode
  MockModes <- AllReal
  MaxRequests = 1
  MaxEnvSteps = 0
PROPERTY
  FailsTheRequestItInitiated
CHECK_DEADLOCK FALSE
