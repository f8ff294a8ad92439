SPECIFICATION ProviderSpec
CONSTANTS
  c1 = c1
  c2 = c2
  c3 = c3
  c4 = c4
  h1 = h1
  h2 = h2
  Subject = {"calls", "results"}
  Call = {c1, c2, c3, c4}
  Threshold = 2
  Limit = 2
  Handler = {h1, h2}
  Defect = {"signature", "amount"}
  Unfinished <- NoPaymentYet
  MaxBroken = 1
INVARIANTS
  SlotsAreCounted
  ResultsAgree
PROPERTIES
  CircuitRecovers
  PaidIsAcknowledged
CHECK_DEADLOCK FALSE
