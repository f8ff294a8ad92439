---------------------------- MODULE MCMockPayment ----------------------------
(* An instance of MockPayment for TLC.                                     *)
EXTENDS MockPayment, TLC

CONSTANTS Ann, Bob, k1, vip, c1, w1, h1, h2

OneSeat == [t \in TicketType |-> 1]
Slots == Permutations(Handler)
=============================================================================
