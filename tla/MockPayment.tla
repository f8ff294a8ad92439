----------------------------- MODULE MockPayment -----------------------------
(***************************************************************************)
(* The checkout with the confirmation of mock payments added:              *)
(* POST /payments/mock-success, which is not behind the row locks the      *)
(* callbacks take.                                                         *)
(***************************************************************************)
EXTENDS Checkout

\* The payloadHash a confirmation makes up for a payment that has none.
MockHash == <<"mock">>

\* confirmMockPayment decides as a callback does, but reads order, payment and
\* reservation without a lock.
MockLoad(h) ==
  /\ tx[h] = Idle
  /\ \E o \in Order : \E r \in Linked(o) :
       /\ order[o].provider = "mock"
       /\ ConfirmOutcome(o, r) # "refused"
       /\ tx' = [tx EXCEPT ![h] =
            [step |-> "mock", order |-> o, reservation |-> r,
             hash |-> IF payment[o].hash = NoHash THEN MockHash ELSE payment[o].hash,
             outcome |-> ConfirmOutcome(o, r), held |-> Active(r)]]
  /\ UNCHANGED <<inventoryVars, order, reservationOrder, paymentVars, reported>>

\* Its writes wait for whoever has locked the rows, and go ahead.
MockCommit(h) ==
  /\ tx[h].step = "mock"
  /\ tx[h].outcome # "replay" => ~OrderLocked(tx[h].order)
  /\ Apply(tx[h])
  /\ tx' = [tx EXCEPT ![h] = Idle]
  /\ UNCHANGED <<lapsed, saleOpen, requestVars, selected, reservationOrder, log, reported>>

MockAbort(h) ==
  /\ tx[h].step = "mock"
  /\ tx' = [tx EXCEPT ![h] = Idle]
  /\ UNCHANGED <<inventoryVars, order, reservationOrder, paymentVars, reported>>

MockNext ==
  \/ CheckoutNext
  \/ \E h \in Handler : MockLoad(h) \/ MockCommit(h) \/ MockAbort(h)

MockSpec == CheckoutInit /\ [][MockNext]_checkoutVars

-----------------------------------------------------------------------------
\* blueprint/08-requirements.md:75: no oversell.  Stated over the seats sold,
\* which NoOversell does not bound once a reserved counter went below zero.
TicketsWithinCapacity ==
  \A t \in TicketType : soldCount[t] <= Capacity[t]
=============================================================================
