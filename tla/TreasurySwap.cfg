\* Treasury: two overlapping calls, three quotes, a price that jumps and a
\* midnight.  Oracle: two calls that overlap, for a quoted asset and one that
\* is not, and a history that wraps.  Compound: a party whose hours and days are
\* one slot and two, a change of its settings and a restart.  Rewards: two tiers
\* and three months.  Router: a swap that may be partly filled or fail, five books
\* and two overlapping probes of the sidecar.
SPECIFICATION ValueSpec
CONSTANTS
  cc = cc
  usdc = usdc
  u1 = u1
  u2 = u2
  c1 = c1
  c2 = c2
  d1 = d1
  d2 = d2
  p1 = p1
  e1 = e1
  v1 = v1
  n1 = n1
  j1 = j1
  s1 = s1
  w1 = w1
  w2 = w2
  Assets = {cc, usdc}
  Users = {u1, u2}
  Calls = {c1, c2}
  Amounts = {2}
  Markets <- MCMarkets
  InitialBalances <- MCBalances
  SpreadPct = 0
  MaxExposurePct = 80
  MaxMovePct = 5
  Window = 1
  QuoteTtl = 1
  MaxTradeUsd = 6
  DailyLimitUsd = 10
  MaxRequests = 2
  MaxTime = 2
  MaxDay = 1
  Listed = {"CC", "ETHx"}
  Quoted = {"CC"}
  Readers = {d1, d2}
  Prices = {1, 2}
  MadeUp <- Nine
  CacheTtl = 1
  MaxHistory = 2
  MaxRecords = 3
  MaxPriceTime = 2
  Parties = {p1}
  Executors = {e1}
  Interval <- Frequencies
  Slot <- Slots
  FirstPeriod = 2
  SlotsPerDay = 3
  CatchUp = 0
  Minima = {1}
  MaxLegs = 1
  MaxCompoundTime = 2
  MaxChanges = 1
  Traders = {v1}
  Recorders = {n1}
  Jobs = {j1}
  TierBounds = {1}
  RatePerTx <- Rates
  MaxTx = 3
  MaxMonth = 2
  MaxRestarts = 1
  Swaps = {s1}
  Watchers = {w1, w2}
  Amount = 3
  Outputs = {0, 4}
  Books <- Bids
  Attempts <- Tries
  Dummy = 5
  CantexFee = 1
  TakerRate = 4
  AvailabilityTtl = 1
  MaxRouterTime = 2
INVARIANTS
  TypesOK
  
  QuotesAreSpentOnce
  
  FileCatchesUp
  
  RewardsAreExact
CHECK_DEADLOCK FALSE
