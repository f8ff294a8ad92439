----------------------------- MODULE OrderBook ------------------------------
(***************************************************************************)
(* What the checkout promises, with nothing of requests, retries, row      *)
(* locks, deliveries and counters: a book of orders, each of one hold, in  *)
(* which what an order says, its seats, its money and its tickets change   *)
(* together (`blueprint/05-business-flows.md`, the payment flows).  An     *)
(* order gets its tickets while its seats are held and its money was       *)
(* captured; money captured too late is marked for a refund and its seats  *)
(* are free again.  Checkout.tla implements this specification.            *)
(***************************************************************************)
EXTENDS Naturals

CONSTANTS Order, HoldId, MaxSeats

VARIABLES
  book,       \* of each order its status and its hold
  hold,       \* of each hold its status and its seats
  lapsed,     \* holds whose time is over
  captured,   \* orders the payment provider has taken the money for
  declined,   \* orders it has refused a payment of
  money,      \* what the payment of each order says
  tickets     \* number of tickets of each order

bookVars == <<book, hold, lapsed, captured, declined, money, tickets>>

Unplaced == [status |-> "none", hold |-> <<>>]
Untaken == [status |-> "none", seats |-> 0]

BookInit ==
  /\ book = [o \in Order |-> Unplaced]
  /\ hold = [h \in HoldId |-> Untaken]
  /\ lapsed = {} /\ captured = {} /\ declined = {}
  /\ money = [o \in Order |-> "none"]
  /\ tickets = [o \in Order |-> 0]

Held(h) == hold[h].status = "active"
OrdersOf(H) == {o \in Order : book[o].status # "none" /\ book[o].hold \in H}
Unsettled(o) == book[o].status \in {"pending_payment", "expired"}

Becomes(o, status, paid) ==
  /\ book' = [book EXCEPT ![o].status = status]
  /\ money' = [money EXCEPT ![o] = paid]

-----------------------------------------------------------------------------
(* Holds and orders                                                        *)

Take(h) ==
  /\ hold[h] = Untaken
  /\ \E n \in 1 .. MaxSeats : hold' = [hold EXCEPT ![h] = [status |-> "active", seats |-> n]]
  /\ UNCHANGED <<book, lapsed, captured, declined, money, tickets>>

Lapse(h) ==
  /\ hold[h].status # "none"
  /\ lapsed' = lapsed \cup {h}
  /\ UNCHANGED <<book, hold, captured, declined, money, tickets>>

\* A hold has one order, and that may come late.
Place(o, h) ==
  /\ book[o] = Unplaced /\ hold[h].status # "none" /\ OrdersOf({h}) = {}
  /\ book' = [book EXCEPT ![o] = [status |-> "pending_payment", hold |-> h]]
  /\ money' = [money EXCEPT ![o] = "created"]
  /\ UNCHANGED <<hold, lapsed, captured, declined, tickets>>

\* Holds end when their time is over, and the open orders with them.
End(H) ==
  /\ \A h \in H : Held(h) /\ h \in lapsed
  /\ hold' = [h \in HoldId |-> IF h \in H THEN [hold[h] EXCEPT !.status = "expired"] ELSE hold[h]]
  /\ book' = [o \in Order |->
       IF o \in OrdersOf(H) /\ book[o].status = "pending_payment"
       THEN [book[o] EXCEPT !.status = "expired"] ELSE book[o]]
  /\ UNCHANGED <<lapsed, captured, declined, money, tickets>>

-----------------------------------------------------------------------------
(* Money                                                                   *)

Capture(o) ==
  /\ book[o].status # "none"
  /\ captured' = captured \cup {o}
  /\ UNCHANGED <<book, hold, lapsed, declined, money, tickets>>

Decline(o) ==
  /\ book[o].status # "none"
  /\ declined' = declined \cup {o}
  /\ UNCHANGED <<book, hold, lapsed, captured, money, tickets>>

\* The money came in time: the seats are sold, and there is a ticket for each.
Issue(o) ==
  /\ book[o].status = "pending_payment" /\ o \in captured /\ Held(book[o].hold)
  /\ Becomes(o, "issued", "succeeded")
  /\ hold' = [hold EXCEPT ![book[o].hold].status = "confirmed"]
  /\ tickets' = [tickets EXCEPT ![o] = hold[book[o].hold].seats]
  /\ UNCHANGED <<lapsed, captured, declined>>

\* It came too late: it is to be paid back, and the seats are free.
OweBack(o) ==
  /\ Unsettled(o) /\ o \in captured
  /\ \/ hold[book[o].hold].status = "expired" /\ UNCHANGED hold
     \/ /\ Held(book[o].hold) /\ book[o].hold \in lapsed
        /\ hold' = [hold EXCEPT ![book[o].hold].status = "expired"]
  /\ Becomes(o, "refund_required", "succeeded")
  /\ UNCHANGED <<lapsed, captured, declined, tickets>>

\* It did not come.
GiveUp(o) ==
  /\ Unsettled(o) /\ o \in declined
  /\ Becomes(o, "failed", "failed")
  /\ UNCHANGED <<hold, lapsed, captured, declined, tickets>>

BookNext ==
  \/ \E h \in HoldId : Take(h) \/ Lapse(h)
  \/ \E o \in Order, h \in HoldId : Place(o, h)
  \/ \E H \in SUBSET HoldId : End(H)
  \/ \E o \in Order : Capture(o) \/ Decline(o) \/ Issue(o) \/ OweBack(o) \/ GiveUp(o)

BookSpec == BookInit /\ [][BookNext]_bookVars
=============================================================================
