------------------------------ MODULE MCCheckIn ------------------------------
(* Instances of CheckIn for TLC.                                           *)
EXTENDS CheckIn, TLC

CONSTANTS d1, d2, t1, t2, x1, x2

Interchangeable ==
  Permutations(Device) \cup Permutations(Ticket) \cup Permutations(Slot)
=============================================================================
