SPECIFICATION CheckInSpec
CONSTANTS
  d1 = d1
  d2 = d2
  t1 = t1
  t2 = t2
  x1 = x1
  x2 = x2
  Device = {d1, d2}
  Ticket = {t1}
  Slot = {x1, x2}
  NoSlot = NoSlot
  MaxPush = 4
SYMMETRY Interchangeable
INVARIANTS
  OneAdmission
PROPERTIES
  ImplementsRegister
