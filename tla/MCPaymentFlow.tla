--------------------------- MODULE MCPaymentFlow ---------------------------
(* Instances of PaymentFlow and Sessions for TLC: payments, and the tabs of *)
(* a buyer's browser.  They share no state: a behaviour is one of either,   *)
(* not of their product.                                                    *)
EXTENDS PaymentFlow, Sessions, TLC

CONSTANTS
  Ann, k1, vip, c1, w1, h1, r1, i1, a1, a2, ann, bob, staff, t1, t2,
  Subject        \* the modules that a behaviour may be of

OneSeat == [t \in TicketType |-> 1]

Interchangeable == Permutations(Audience) \cup Permutations(Tab)

VARIABLE subject

PaymentInit == subject \in Subject /\ FlowInit /\ SessionsInit

PaymentNext ==
  /\ \/ subject = "payments" /\ FlowNext /\ UNCHANGED sessionVars
     \/ subject = "sessions" /\ SessionsNext /\ UNCHANGED flowVars
  /\ UNCHANGED subject

PaymentSpec == PaymentInit /\ [][PaymentNext]_<<subject, flowVars, sessionVars>>

\* For payments alone.
FairPaymentSpec == PaymentSpec /\ FlowFairness
=============================================================================
