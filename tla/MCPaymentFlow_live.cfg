SPECIFICATION FairPaymentSpec
CONSTANTS
  Ann = Ann
  k1 = k1
  vip = vip
  c1 = c1
  w1 = w1
  h1 = h1
  r1 = r1
  i1 = i1
  a1 = a1
  a2 = a2
  ann = ann
  bob = bob
  staff = staff
  t1 = t1
  t2 = t2
  Account = {ann, bob, staff}
  Audience = {ann, bob}
  Nobody = Nobody
  Tab = {t1, t2}
  Keep = Keep
  MaxStrays = 1
  Subject = {"payments"}
  NoOwner = NoOwner
  TicketType = {vip}
  NoType = NoType
  User = {Ann}
  Key = {k1}
  OrderKey = {k1}
  Paired = TRUE
  Capacity <- OneSeat
  PerUserLimit <- OneSeat
  MaxQuantity = 1
  Client = {c1}
  Worker = {w1}
  BatchSize = 1
  Provider = {"VNPAY"}
  Source = {"ipn", "reconciliation"}
  Soundness = {TRUE}
  RetryAfterFailure = FALSE
  Handler = {h1, r1}
  Reconciler = {r1}
  Asker = {a1}
  IntentKey = {i1}
PROPERTIES
  OpenPaymentsEnd
