\* One user holds two quotes, each within what is left of the day.
SPECIFICATION Spec
CONSTANTS
  cc = cc
  usdc = usdc
  u1 = u1
  u2 = u2
  c1 = c1
  c2 = c2
  Assets = {cc, usdc}
  Users = {u1}
  Calls = {c1, c2}
  Amounts = {2}
  Markets <- StableMarket
  InitialBalances <- RichBalances
  SpreadPct = 0
  MaxExposurePct = 100
  MaxMovePct = 5
  Window = 1
  QuoteTtl = 1
  MaxTradeUsd = 4
  DailyLimitUsd = 6
  MaxRequests = 2
  MaxTime = 0
  MaxDay = 0
INVARIANT
  DailyLimitHolds
CHECK_DEADLOCK FALSE
