SPECIFICATION FairCheckoutSpec
CONSTANTS
  Ann = Ann
  k1 = k1
  k2 = k2
  o1 = o1
  vip = vip
  c1 = c1
  w1 = w1
  h1 = h1
  h2 = h2
  atReturn = atReturn
  byIpn = byIpn
  TicketType = {vip}
  NoType = NoType
  User = {Ann}
  Key = {k1}
  OrderKey = {k1}
  Paired = TRUE
  Capacity <- OneSeat
  PerUserLimit <- TwoSeats
  MaxQuantity = 1
  Client = {c1}
  Worker = {w1}
  BatchSize = 1
  Provider = {"VNPAY", "mock"}
  Source = {byIpn}
  Soundness = {TRUE}
  RetryAfterFailure = FALSE
  Handler = {h1, h2}
PROPERTIES
  CapturedMoneySettles
  LapsedOrdersEnd
