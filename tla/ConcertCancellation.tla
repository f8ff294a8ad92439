------------------------ MODULE ConcertCancellation ------------------------
(***************************************************************************)
(* AdminService.cancelConcert on top of the checkout: one READ COMMITTED   *)
(* transaction that reads the active reservations, the orders with their   *)
(* payments, and the issued tickets of a concert, each with a plain SELECT,*)
(* and then writes rows by the ids it has read.  Requests, callbacks and   *)
(* the workers may commit between any two of its reads.                    *)
(*                                                                         *)
(* Its writes are one step that waits for every row lock they need.  What  *)
(* the service does after the commit is elsewhere: the notifications of    *)
(* the refunds in Notification, the cached pages in PublicPages.           *)
(***************************************************************************)
EXTENDS PaymentFlow

CONSTANTS
  Admin,         \* POST /admin/concerts/:id/cancel in flight, one per admin
  ConcertType    \* the ticket types of the concert

ASSUME ConcertAssumption == ConcertType \subseteq TicketType

VARIABLES
  canceled,      \* the concert's status is canceled
  revoked,       \* orders whose tickets are revoked
  cancel         \* cancellations in flight

cancelOnly == <<canceled, revoked, cancel>>
cancelVars == <<flowVars, cancelOnly>>

NoCancel == [step |-> "idle"]

CancelInit ==
  /\ FlowInit
  /\ canceled = FALSE
  /\ revoked = {}
  /\ cancel = [m \in Admin |-> NoCancel]

OfConcert(r) == reservation[r].ticketType \in ConcertType
ConcertOrder(o) == OrderExists(o) /\ OfConcert(order[o].reservation)
ValidTickets(o) == tickets[o] > 0 /\ o \notin revoked

-----------------------------------------------------------------------------
(* The reads                                                               *)

\* The status is looked at before the transaction and never again.  "settled"
\* is history: the orders that were issued when the request came.
CancelBegin(m) ==
  /\ cancel[m] = NoCancel /\ ~canceled
  /\ cancel' = [cancel EXCEPT ![m] =
       [step |-> "reservations",
        settled |-> {o \in Order : ConcertOrder(o) /\ order[o].status = "issued"},
        holds |-> {}, refund |-> {}, unpaid |-> {}, open |-> {}, valid |-> {}]]
  /\ UNCHANGED <<flowVars, canceled, revoked>>

CancelReadReservations(m) ==
  /\ cancel[m].step = "reservations"
  /\ cancel' = [cancel EXCEPT ![m].step = "orders",
       ![m].holds = {r \in Reservation : Active(r) /\ OfConcert(r)}]
  /\ UNCHANGED <<flowVars, canceled, revoked>>

\* Faulty variant: the payments decide alone.
PaymentNeedsRefund(o) == PaymentStatus(o) \in {"succeeded", "pending_reconciliation"}

\* needsRefundWorkflow
NeedsRefund(o) ==
  \/ order[o].status \in {"issued", "refund_required"}
  \/ PaymentStatus(o) \in {"succeeded", "pending_reconciliation"}

\* The orders with their payments, sorted into what will be done to them:
\* marked for a refund, expired, and the payments that are expired.
CancelReadOrders(m) ==
  /\ cancel[m].step = "orders"
  /\ cancel' = [cancel EXCEPT ![m].step = "tickets",
       ![m].refund = {o \in Order : /\ ConcertOrder(o) /\ NeedsRefund(o)
                                    /\ order[o].status # "refund_required"},
       ![m].unpaid = {o \in Order : ConcertOrder(o) /\ ~NeedsRefund(o) /\ Pending(o)},
       ![m].open = {o \in Order : /\ ConcertOrder(o) /\ ~NeedsRefund(o)
                                  /\ PaymentStatus(o) \in {"created", "pending"}}]
  /\ UNCHANGED <<flowVars, canceled, revoked>>

CancelReadTickets(m) ==
  /\ cancel[m].step = "tickets"
  /\ cancel' = [cancel EXCEPT ![m].step = "write",
       ![m].valid = {o \in Order : ConcertOrder(o) /\ ValidTickets(o)}]
  /\ UNCHANGED <<flowVars, canceled, revoked>>

-----------------------------------------------------------------------------
(* The writes                                                              *)

Touched(c) == c.refund \cup c.unpaid \cup c.open

CancelWrite(m) ==
  LET c == cancel[m]
  IN /\ c.step = "write"
     /\ \A r \in c.holds : ~Locked(r)
     /\ \A o \in Touched(c) : ~OrderLocked(o)
     /\ canceled' = TRUE
     /\ ReleaseHolds(c.holds)
     /\ order' = [o \in Order |->
          IF o \in c.refund THEN [order[o] EXCEPT !.status = "refund_required"]
          ELSE IF o \in c.unpaid THEN [order[o] EXCEPT !.status = "expired"]
          ELSE order[o]]
     /\ payment' = [o \in Order |->
          IF o \in c.open THEN [payment[o] EXCEPT !.status = "expired"] ELSE payment[o]]
     /\ revoked' = revoked \cup c.valid
     /\ cancel' = [cancel EXCEPT ![m] = NoCancel]
     /\ UNCHANGED <<lapsed, saleOpen, requestVars, selected, reservationOrder, tickets, log,
                    reported, tx, flowOnly>>

\* The transaction is rolled back: a deadlock, a timeout, a crash.
CancelAbort(m) ==
  /\ cancel[m] # NoCancel
  /\ cancel' = [cancel EXCEPT ![m] = NoCancel]
  /\ UNCHANGED <<flowVars, canceled, revoked>>

CancelStep(m) ==
  \/ CancelBegin(m) \/ CancelReadReservations(m) \/ CancelReadOrders(m)
  \/ CancelReadTickets(m) \/ CancelWrite(m) \/ CancelAbort(m)

CancelNext ==
  \/ FlowNext /\ UNCHANGED cancelOnly
  \/ \E m \in Admin : CancelStep(m)

CancelSpec == CancelInit /\ [][CancelNext]_cancelVars

-----------------------------------------------------------------------------
(* Properties                                                              *)

\* Whatever overtakes the cancellation, the seats counted as sold are those
\* tickets were printed for, canceled or not, for all and for each user.
Printed(S, t) == {x \in S \X (1 .. MaxQuantity) :
                    x[2] <= tickets[x[1]] /\ reservation[order[x[1]].reservation].ticketType = t}
SoldSeatsHaveTickets ==
  \A t \in TicketType :
    /\ soldCount[t] = Cardinality(Printed(Order, t))
    /\ \A u \in User : quotaPaid[<<u, t>>] = Cardinality(Printed({o \in Order : o[1] = u}, t))

\* blueprint/specs/concert-management.md:39: who had tickets when the organizer
\* asked for the cancellation ends it with the tickets revoked and the order in
\* the refund queue, whatever is delivered, expired or canceled meanwhile.
SettledOrdersAreRefunded ==
  [][\A m \in Admin : (cancel[m].step = "write" /\ cancel'[m] = NoCancel /\ canceled') =>
       \A o \in cancel[m].settled :
         order'[o].status = "refund_required" /\ o \in revoked']_cancelVars

\* An order that was expired or put into the refund queue, by the cancellation
\* or otherwise, never gets tickets: money captured later can only be refunded.
ClosedOrdersGetNoTickets ==
  [][\A o \in Order :
       order[o].status \in {"expired", "refund_required", "failed"} =>
         order'[o].status # "issued" /\ tickets'[o] = tickets[o]]_cancelVars

-----------------------------------------------------------------------------
(* What the documents say, and the code does not keep.                     *)

\* blueprint/specs/concert-management.md:39: who loses valid tickets to the
\* cancellation is in the refund queue.
RevokedOrdersAreRefunded == \A o \in revoked : order[o].status = "refund_required"
=============================================================================
