SPECIFICATION OrganizerSpec
CONSTANTS
  m1 = m1
  m2 = m2
  csv1 = csv1
  csv2 = csv2
  csv3 = csv3
  guest1 = guest1
  i1 = i1
  i2 = i2
  d1 = d1
  g1 = g1
  Ann = Ann
  k1 = k1
  vip = vip
  c1 = c1
  w1 = w1
  h1 = h1
  h2 = h2
  a1 = a1
  Subject = {"guests"}
  Editor = {m1, m2}
  MaxPosters = 2
  LostReplies = FALSE
  Csv = {csv1, csv2, csv3}
  Unparsable = {}
  Invalid = {}
  Guest = {csv1, csv2, csv3}
  GuestsOf <- OwnGuest
  Import = {i1, i2}
  Clear = {d1}
  MaxClears = 1
  Table <- Tables
  Style <- Dialects
  HeadingOf <- Headings
  Lowered <- LowerCase
  Address = {"a@x.vn"}
  Digit = {"9"}
  MinDigits = 2
  MaxDigits = 3
  KnownKeys <- KnownOnes
  Officer = {m1}
  Gate = {g1}
  MaxAssignments = 1
  Seller = {m1}
  MaxCapacity = 1
  MaxTime = 1
  NoOwner = NoOwner
  TicketType = {vip}
  NoType = NoType
  ConcertType = {vip}
  User = {Ann}
  Key = {k1}
  OrderKey = {k1}
  Paired = TRUE
  Capacity <- OneSeat
  PerUserLimit <- OneSeat
  MaxQuantity = 1
  Client = {c1}
  Worker = {w1}
  BatchSize = 1
  Provider = {"VNPAY"}
  Source = {"ipn", "reconciliation"}
  Soundness = {TRUE}
  RetryAfterFailure = FALSE
  Handler = {h1, h2}
  Reconciler = {}
  Asker = {a1}
  IntentKey = {k1}
  Admin = {m1}
INVARIANTS
  OneActiveVersion
CHECK_DEADLOCK FALSE
