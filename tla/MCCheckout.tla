----------------------------- MODULE MCCheckout -----------------------------
(* Instances of Checkout for TLC.                                          *)
EXTENDS Checkout, TLC

CONSTANTS Ann, k1, k2, o1, vip, c1, w1, h1, h2, atReturn, byIpn

OneSeat == [t \in TicketType |-> 1]
TwoSeats == [t \in TicketType |-> 2]

Slots == Permutations(Handler) \cup Permutations(Key) \cup Permutations(Source)
=============================================================================
