\* Plans: four assets, so that two sellers can meet two buyers, and deviations
\* and remainders on both sides of Dust.  Transfers: two of each kind, and a
\* venue that delivers enough or too little.  Bridge: two equal deposits, and a
\* withdrawal that needs what one of them brings.  Featured app: two activities
\* and a retry cycle for a queue of one marker.  Commands: two callers, and a
\* cache of one entry, which expires.  Owners: three requests and an engine on
\* a contract that is replaced twice.
SPECIFICATION WritesSpec
CONSTANTS
  NumAssets = 4
  Dust = 2
  Total = 8
  Slack = 1
  s1 = s1
  s2 = s2
  w1 = w1
  w2 = w2
  q1 = q1
  a1 = a1
  a2 = a2
  r1 = r1
  adm = adm
  c1 = c1
  c2 = c2
  k1 = k1
  k2 = k2
  h1 = h1
  h2 = h2
  h3 = h3
  Sends = {s1, s2}
  Swaps = {w1, w2}
  Amounts = {1, 2}
  MinBuyAmount = 2
  Deposits = {1, 2}
  Withdrawals = {11}
  Amount <- Two
  Wallet <- One
  Polls = {q1}
  MaxRestarts = 1
  Activities = {a1, a2}
  Retriers = {r1}
  Admins = {adm}
  Cap = 1
  MaxRetries = 2
  MaxConfigs = 1
  MaxCycles = 2
  Callers = {c1, c2}
  Keys = {k1, k2}
  MaxSize = 1
  Ttl = 1
  MaxResubmissions = 1
  MaxSubmissions = 3
  MaxTime = 1
  HttpRequests = {h1, h2, h3}
  Backend = Backend
  Values = {1, 2}
  MaxContracts = 3
INVARIANTS
  PlansAreSound
  TypesOK
  
  
  
  SubmissionsAreExact
  OwnersAreObeyed
CHECK_DEADLOCK FALSE
