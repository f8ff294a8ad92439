SPECIFICATION OperationsSpec
CONSTANTS
  Ann = Ann
  k1 = k1
  k2 = k2
  vip = vip
  std = std
  c1 = c1
  c2 = c2
  w1 = w1
  w2 = w2
  q1 = q1
  q2 = q2
  b1 = b1
  ann = ann
  bob = bob
  eve = eve
  g1 = g1
  g2 = g2
  z1 = z1
  z2 = z2
  s1 = s1
  s2 = s2
  t1 = t1
  Subject = {"ledger", "limits", "seed", "phone"}
  User = {Ann}
  Key = {k1, k2}
  TicketType = {vip, std}
  NoType = NoType
  Capacity <- MCCapacity
  PerUserLimit <- MCPerUserLimit
  MaxQuantity = 2
  Client = {c1, c2}
  Worker = {w1, w2}
  BatchSize = 2
  Visit = {q1, q2}
  Caller = {ann, bob, eve}
  Backend = {b1}
  Rules <- TwoRules
  Allowed <- OneEach
  Identifier <- Identifiers
  NoIdentifier = NoIdentifier
  BadToken = BadToken
  BaseScore <- Scores
  Redis = Redis
  Window = 2
  RiskWindow = 1
  RiskRetry = 2
  RiskAttempts = 2
  MaxTime = 2
  MaxOutages = 2
  MaxSeeds = 2
  Code = {s1, s2}
  Place <- Places
  Pass = {t1}
  ZoneOf <- Zones
  Nothing = Nothing
  MaxFullEntries = 1
  MaxAssignments = 2
  MaxCalls = 2
SYMMETRY Interchangeable
INVARIANTS
  LedgerConsistent
  NoOversell
  QuotaRespected
  LimitsAreKept
  SeedsLeaveOrder
  
PROPERTIES
  ImplementsSeatPool
