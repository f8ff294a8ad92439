SPECIFICATION CheckoutSpec
CONSTANTS
  Ann = Ann
  k1 = k1
  k2 = k2
  o1 = o1
  vip = vip
  c1 = c1
  w1 = w1
  h1 = h1
  h2 = h2
  atReturn = atReturn
  byIpn = byIpn
  TicketType = {vip}
  NoType = NoType
  User = {Ann}
  Key = {k1, k2}
  OrderKey = {o1}
  Paired = FALSE
  Capacity <- TwoSeats
  PerUserLimit <- TwoSeats
  MaxQuantity = 1
  Client = {c1}
  Worker = {w1}
  BatchSize = 2
  Provider = {"VNPAY"}
  Source = {atReturn, byIpn}
  Soundness = {TRUE, FALSE}
  RetryAfterFailure = TRUE
  Handler = {h1, h2}
SYMMETRY Slots
INVARIANTS
  OrdersAgree
PROPERTIES
  ImplementsInventory
  RedeliveryChangesNothing
  ImplementsOrderBook
