SPECIFICATION BuyerSpec
CONSTANTS
  Ann = Ann
  Bob = Bob
  o1 = o1
  o2 = o2
  p1 = p1
  p2 = p2
  f1 = f1
  f2 = f2
  vnpay = vnpay
  mock = mock
  m1 = m1
  b1 = b1
  b2 = b2
  Manager = {m1}
  Button = {b1, b2}
  MaxConcerts = 2
  MaxBios = 2
  MaxVersion = 2
  Subject = {"checkout form", "messages", "concert form", "panel"}
  Form = {f1}
  Method = {vnpay, mock}
  MaxIntents = 2
  MaxLate = 1
  MaxLoads = 2
  Order = {o1}
  User = {Ann}
  BuyerOf <- Buyers
  Channel = {"email"}
  Process = {p1, p2}
  Scheduler = {p1}
  Worker = {p1, p2}
  BatchSize = 1
  MaxFaults = 1
INVARIANTS
  OneHoldPerForm
  DeliveriesAreTrue
  ConsoleTellsTheTruth
PROPERTIES
  OnlyOldFormsTakeBack
  BrowserKeepsTheOrder
  
CHECK_DEADLOCK FALSE
