------------------------------ MODULE Checkout ------------------------------
(***************************************************************************)
(* The checkout on top of the ledger: OrderService and OrderRepository,    *)
(* the payment callbacks of PaymentRepository, TicketIssuanceService, and  *)
(* what the expiry worker does to orders.                                  *)
(*                                                                         *)
(* A transaction is split where it may be overtaken.  A callback holds the *)
(* Order and Payment rows FOR UPDATE from its first read on, so what it    *)
(* decides there (its outcome) cannot become stale; only the Reservation   *)
(* row is read without a lock.  The creation of an order takes no lock at  *)
(* all.                                                                    *)
(*                                                                         *)
(* A payment is open ("created") here until a callback settles it: payment *)
(* intents and reconciliation are in PaymentFlow, the confirmation of mock *)
(* payments is in MockPayment.                                             *)
(***************************************************************************)
EXTENDS Inventory

CONSTANTS
  OrderKey,            \* idempotency keys of POST /orders
  Paired,              \* one order key per reservation key, as the web client does
  Provider,            \* payment methods in use, a subset of {"mock", "VNPAY"}
  Source,              \* the ways a result reaches us: return URL, IPN, ...
  Soundness,           \* {TRUE}, or BOOLEAN to have amounts that do not match
  RetryAfterFailure,   \* the buyer may pay again after a failed attempt
  Handler              \* checkout requests in flight, at most one per handler

ASSUME PairingAssumption ==
  /\ Paired \in BOOLEAN /\ RetryAfterFailure \in BOOLEAN
  /\ Paired => OrderKey = Key
  /\ Provider \subseteq {"mock", "VNPAY"}
  /\ Soundness \subseteq BOOLEAN

VARIABLES
  order,             \* the Order rows, with the reservation of their one item
  payment,           \* the Payment row of each order
  reservationOrder,  \* Reservation.orderId
  tickets,           \* number of Ticket rows of each order
  log,               \* PaymentProviderEvent rows
  reported,          \* the results the payment provider has decided on
  tx                 \* checkout requests in flight

paymentVars == <<payment, tickets, log>>
checkoutOnly == <<order, reservationOrder, paymentVars, reported, tx>>
checkoutVars == <<inventoryVars, checkoutOnly>>

\* An order is known by its unique (userId, idempotencyKey).
Order == User \X OrderKey
NoOrderId == <<>>
NoOrder == [status |-> "none", reservation |-> <<>>, provider |-> "none"]

Verdict == {"succeeded", "failed"}
\* A provider event is known by (provider, providerEventId).
Event == Order \X Source \X Verdict
OrderOf(e) == e[1]
VerdictOf(e) == e[3]

\* payloadHash: none, or that of the event the status comes from.
NoHash == <<>>

OrderExists(o) == order[o].status # "none"
Pending(o) == order[o].status = "pending_payment"
Linked(o) == {r \in Reservation : reservationOrder[r] = o}

Idle == [step |-> "idle"]
OrderReply == {"created", "replayed", "duplicate_request_conflict", "refused"}
OrderRequest == [order : Order, reservation : Reservation, provider : Provider]
OrderTx == [step : {"check", "write"} \cup OrderReply, request : OrderRequest]
Outcome == {"reject", "replay", "fail", "confirm", "refund"}
PaymentTx ==
  [step : {"webhook"}, order : Order, reservation : Reservation,
   hash : Event, outcome : Outcome, held : BOOLEAN]

\* Faulty variant: callbacks do not lock the order.
OrderUnlocked(o) == FALSE

\* Some callback holds the Order and Payment rows FOR UPDATE.
OrderLocked(o) == \E h \in Handler : tx[h].step = "webhook" /\ tx[h].order = o

CheckoutInit ==
  /\ Init
  /\ order = [o \in Order |-> NoOrder]
  /\ payment = [o \in Order |-> [status |-> "none", hash |-> NoHash]]
  /\ reservationOrder = [r \in Reservation |-> NoOrderId]
  /\ tickets = [o \in Order |-> 0]
  /\ log = [e \in Event |-> "none"]
  /\ reported = {}
  /\ tx = [h \in Handler |-> Idle]

-----------------------------------------------------------------------------
(* POST /orders                                                            *)

OrderKeysFor(r) == IF Paired THEN {r[2]} ELSE OrderKey

\* ensureDuplicatePayloadMatches
DuplicateReply(a) ==
  IF order[a.order].reservation = a.reservation /\ order[a.order].provider = a.provider
  THEN "replayed" ELSE "duplicate_request_conflict"

\* A request arrives and looks its idempotency key up.
OrderLookup(h) ==
  /\ tx[h] = Idle
  /\ \E a \in OrderRequest :
       /\ Exists(a.reservation)
       /\ a.order \in {Owner(a.reservation)} \X OrderKeysFor(a.reservation)
       /\ tx' = [tx EXCEPT ![h] =
            [step |-> IF OrderExists(a.order) THEN DuplicateReply(a) ELSE "check",
             request |-> a]]
  /\ UNCHANGED <<inventoryVars, order, reservationOrder, paymentVars, reported>>

\* The transaction reads the reservation, without a lock, and checks it.
Orderable(r) == Active(r) /\ r \notin lapsed /\ reservationOrder[r] = NoOrderId

OrderCheck(h) ==
  /\ tx[h].step = "check"
  /\ tx' = [tx EXCEPT ![h].step =
       IF Orderable(tx[h].request.reservation) THEN "write" ELSE "refused"]
  /\ UNCHANGED <<inventoryVars, order, reservationOrder, paymentVars, reported>>

\* Faulty variant: the reservation is linked although the key was taken.
LinkAnyway(h) ==
  LET a == tx[h].request
  IN /\ tx[h].step = "write" /\ ~Locked(a.reservation)
     /\ IF OrderExists(a.order)
        THEN /\ tx' = [tx EXCEPT ![h].step = DuplicateReply(a)]
             /\ UNCHANGED <<order, payment>>
        ELSE /\ order' = [order EXCEPT ![a.order] =
                  [status |-> "pending_payment", reservation |-> a.reservation,
                   provider |-> a.provider]]
             /\ payment' = [payment EXCEPT ![a.order].status = "created"]
             /\ tx' = [tx EXCEPT ![h].step = "created"]
     /\ reservationOrder' = [reservationOrder EXCEPT ![a.reservation] = a.order]
     /\ UNCHANGED <<inventoryVars, tickets, log, reported>>

\* It inserts order, item and payment and links the reservation, whatever the
\* reservation has become; or the insert finds the key taken, and the service
\* answers with the order that took it.
OrderWrite(h) ==
  LET a == tx[h].request
  IN /\ tx[h].step = "write"
     /\ IF OrderExists(a.order)
        THEN /\ tx' = [tx EXCEPT ![h].step = DuplicateReply(a)]
             /\ UNCHANGED <<order, reservationOrder, payment>>
        ELSE /\ ~Locked(a.reservation)
             /\ order' = [order EXCEPT ![a.order] =
                  [status |-> "pending_payment", reservation |-> a.reservation,
                   provider |-> a.provider]]
             /\ payment' = [payment EXCEPT ![a.order].status = "created"]
             /\ reservationOrder' = [reservationOrder EXCEPT ![a.reservation] = a.order]
             /\ tx' = [tx EXCEPT ![h].step = "created"]
     /\ UNCHANGED <<inventoryVars, tickets, log, reported>>

OrderReturn(h) ==
  /\ tx[h].step \in OrderReply
  /\ tx' = [tx EXCEPT ![h] = Idle]
  /\ UNCHANGED <<inventoryVars, order, reservationOrder, paymentVars, reported>>

-----------------------------------------------------------------------------
(* The payment provider                                                    *)

\* The provider decides on an attempt to pay an order.
ProviderReports(o, v) ==
  LET said == {x \in Verdict : <<o, x>> \in reported}
  IN /\ OrderExists(o)
     /\ \/ said = {}
        \/ RetryAfterFailure /\ said = {"failed"} /\ v = "succeeded"
     /\ reported' = reported \cup {<<o, v>>}
     /\ UNCHANGED <<inventoryVars, order, reservationOrder, paymentVars, tx>>

-----------------------------------------------------------------------------
(* Payment callbacks                                                       *)

\* Faulty variant: a success that comes late is refused.
ConfirmInTimeOnly(o, r) ==
  IF payment[o].status = "succeeded"
  THEN IF order[o].status \in {"issued", "refund_required"} THEN "replay" ELSE "refused"
  ELSE IF Pending(o) /\ Active(r) /\ r \notin lapsed THEN "confirm"
  ELSE "refused"

\* Faulty variant: the seats are looked at, and the order is not.
ConfirmHeldSeats(o, r) ==
  IF payment[o].status = "succeeded"
  THEN IF order[o].status \in {"issued", "refund_required"} THEN "replay" ELSE "refused"
  ELSE IF payment[o].status = "failed" THEN "refused"
  ELSE IF Status(r) = "expired" \/ r \in lapsed THEN "refund"
  ELSE IF Active(r) THEN "confirm"
  ELSE "refused"

\* confirmPaymentSuccess up to its first write, in the order of its checks.
ConfirmOutcome(o, r) ==
  IF payment[o].status = "succeeded"
  THEN IF order[o].status \in {"issued", "refund_required"} THEN "replay" ELSE "refused"
  ELSE IF payment[o].status = "failed" THEN "refused"
  ELSE IF order[o].status = "expired" \/ Status(r) = "expired" \/ r \in lapsed THEN "refund"
  ELSE IF Pending(o) /\ Active(r) THEN "confirm"
  ELSE "refused"

\* Faulty variant: a success is applied again.
ConfirmEveryTime(e, r, sound) ==
  IF ~sound THEN "reject"
  ELSE IF VerdictOf(e) = "failed" THEN "fail"
  ELSE IF Active(r) /\ r \in lapsed THEN "refund"
  ELSE "confirm"

\* processWebhook up to its first write.  "refused" are the exceptions that
\* roll the transaction back, the event row included.
WebhookOutcome(e, r, sound) ==
  LET o == OrderOf(e)
  IN IF log[e] = (IF sound THEN "rejected" ELSE "processed") THEN "refused"
     ELSE IF ~sound THEN "reject"
     ELSE IF payment[o].hash = e THEN "replay"
     ELSE IF VerdictOf(e) = "succeeded" THEN ConfirmOutcome(o, r)
     ELSE IF payment[o].status = "succeeded" THEN "refused"
     ELSE "fail"

\* A callback reads: it locks order and payment, looks at the reservation and
\* decides.  Amounts are validated for every provider but the mock.
WebhookReads(h, e, sound) ==
  /\ tx[h] = Idle
  /\ order[OrderOf(e)].provider = "mock" => sound
  /\ ~OrderLocked(OrderOf(e))
  /\ \E r \in Linked(OrderOf(e)) :
       /\ WebhookOutcome(e, r, sound) # "refused"
       /\ tx' = [tx EXCEPT ![h] =
            [step |-> "webhook", order |-> OrderOf(e), reservation |-> r, hash |-> e,
             outcome |-> WebhookOutcome(e, r, sound), held |-> Active(r)]]
  /\ UNCHANGED <<inventoryVars, order, reservationOrder, paymentVars, reported>>

\* A callback is delivered, for the first time or once more.
Deliver(h, e, sound) ==
  <<OrderOf(e), VerdictOf(e)>> \in reported /\ WebhookReads(h, e, sound)
WebhookLoad(h) == \E e \in Event, sound \in Soundness : Deliver(h, e, sound)

Settle(o, st, paid, hash) ==
  /\ order' = [order EXCEPT ![o].status = st]
  /\ payment' = [payment EXCEPT ![o] = [status |-> paid, hash |-> hash]]

\* Faulty variant: the sale does not wait for the row the worker has locked.
ConfirmUnderLock(a) ==
  /\ SellHold(a.reservation)
  /\ Settle(a.order, "issued", "succeeded", a.hash)
  /\ tickets' = [tickets EXCEPT ![a.order] = reservation[a.reservation].quantity]

\* The writes, by outcome.  Each of them waits for the worker's row lock.
Confirm(a) ==
  /\ ~Locked(a.reservation)
  /\ SellHold(a.reservation)
  /\ Settle(a.order, "issued", "succeeded", a.hash)
  /\ tickets' = [tickets EXCEPT ![a.order] =
       IF @ < reservation[a.reservation].quantity
       THEN reservation[a.reservation].quantity ELSE @]

Refund(a) ==
  /\ IF a.held
     THEN ~Locked(a.reservation) /\ ReleaseHolds({a.reservation})
     ELSE UNCHANGED ledgerVars
  /\ Settle(a.order, "refund_required", "succeeded", a.hash)
  /\ UNCHANGED tickets

Fail(a) ==
  /\ Settle(a.order, "failed", "failed", a.hash)
  /\ UNCHANGED <<ledgerVars, tickets>>

Apply(a) ==
  \/ a.outcome = "confirm" /\ Confirm(a)
  \/ a.outcome = "refund" /\ Refund(a)
  \/ a.outcome = "fail" /\ Fail(a)
  \/ a.outcome \in {"replay", "reject"} /\ UNCHANGED <<ledgerVars, order, payment, tickets>>

WebhookCommit(h) ==
  /\ tx[h].step = "webhook"
  /\ Apply(tx[h])
  /\ log' = [log EXCEPT ![tx[h].hash] =
       IF tx[h].outcome = "reject" THEN "rejected" ELSE "processed"]
  /\ tx' = [tx EXCEPT ![h] = Idle]
  /\ UNCHANGED <<lapsed, saleOpen, requestVars, selected, reservationOrder, reported>>

\* The transaction is rolled back: the victim of a deadlock with the worker
\* (which locks the reservation first and the order second), or a crash.
CheckoutAbort(h) ==
  /\ tx[h].step \in {"check", "write", "webhook"}
  /\ tx' = [tx EXCEPT ![h] = Idle]
  /\ UNCHANGED <<inventoryVars, order, reservationOrder, paymentVars, reported>>

-----------------------------------------------------------------------------
(* The expiry worker expires the pending orders of its reservations too; it *)
(* waits for the callbacks that hold them.                                  *)

\* Faulty variant: the worker forgets the orders.
NoOrdersOf(S) == {}

PendingOrdersOf(S) == {o \in Order : Pending(o) /\ \E r \in S : reservationOrder[r] = o}

ExpireWithOrders(w) ==
  LET expiring == PendingOrdersOf({r \in selected[w] : Active(r)})
  IN /\ \A o \in expiring : ~OrderLocked(o)
     /\ ExpireCommit(w)
     /\ order' = [o \in Order |->
          IF o \in expiring THEN [order[o] EXCEPT !.status = "expired"] ELSE order[o]]
     /\ UNCHANGED <<reservationOrder, paymentVars, reported, tx>>

-----------------------------------------------------------------------------
InventoryStep ==
  /\ \/ \E c \in Client :
          Lookup(c) \/ Begin(c) \/ Reserve(c) \/ Recover(c) \/ RequestFails(c) \/ Return(c)
     \/ \E r \in Reservation : Lapse(r)
     \/ \E t \in TicketType : SaleEnds(t)
     \/ \E w \in Worker : ExpireSelect(w) \/ ExpireAbort(w)
  /\ UNCHANGED checkoutOnly

CheckoutNext ==
  \/ InventoryStep
  \/ \E w \in Worker : ExpireWithOrders(w)
  \/ \E o \in Order, v \in Verdict : ProviderReports(o, v)
  \/ \E h \in Handler :
       \/ OrderLookup(h) \/ OrderCheck(h) \/ OrderWrite(h) \/ OrderReturn(h)
       \/ WebhookLoad(h) \/ WebhookCommit(h)
       \/ CheckoutAbort(h)

CheckoutSpec == CheckoutInit /\ [][CheckoutNext]_checkoutVars
\* A callback waits for a reservation row the worker holds, and the worker for
\* an order row the callback holds; PostgreSQL then rolls one of them back.
WaitsForWorker(h, w) ==
  /\ tx[h].step = "webhook" /\ tx[h].outcome \in {"confirm", "refund"} /\ tx[h].held
  /\ tx[h].reservation \in selected[w]
WaitsForCallback(w, h) ==
  /\ tx[h].step = "webhook" /\ Pending(tx[h].order)
  /\ \E r \in selected[w] : reservationOrder[r] = tx[h].order
Deadlocked(h, w) == WaitsForWorker(h, w) /\ WaitsForCallback(w, h)
BreakDeadlock(h, w) ==
  /\ Deadlocked(h, w)
  /\ CheckoutAbort(h) \/ (ExpireAbort(w) /\ UNCHANGED checkoutOnly)

(* Fairness: that of the ledger, with the worker's commit now touching the *)
(* orders; an accepted POST /orders runs to its reply; a result is         *)
(* delivered again until it was processed (the provider repeats its IPN,   *)
(* reconciliation asks again), and is not rolled back every single time;   *)
(* and the database resolves a deadlock.                                   *)
ProcessEvent(h, e) == tx[h].step = "webhook" /\ tx[h].hash = e /\ WebhookCommit(h)
DeliverNew(h, e) == log[e] = "none" /\ Deliver(h, e, TRUE)

CheckoutFairness ==
  /\ \A w \in Worker :
       WF_checkoutVars(ExpireSelect(w) /\ UNCHANGED checkoutOnly)
         /\ SF_checkoutVars(ExpireWithOrders(w))
  /\ \A h \in Handler : WF_checkoutVars(OrderCheck(h) \/ OrderWrite(h) \/ OrderReturn(h))
  /\ \A h \in Handler, w \in Worker : WF_checkoutVars(BreakDeadlock(h, w))
  /\ \A e \in Event : SF_checkoutVars(\E h \in Handler : DeliverNew(h, e))
  /\ \A e \in Event : SF_checkoutVars(\E h \in Handler : ProcessEvent(h, e))

FairCheckoutSpec == CheckoutSpec /\ CheckoutFairness

-----------------------------------------------------------------------------
(* Properties                                                              *)

CheckoutTypeOK ==
  /\ order \in [Order -> [status : {"pending_payment", "issued", "failed", "expired",
                                    "refund_required"},
                          reservation : Reservation, provider : Provider] \cup {NoOrder}]
  /\ payment \in [Order -> [status : {"none", "created", "succeeded", "failed"},
                            hash : Event \cup {NoHash}]]
  /\ reservationOrder \in [Reservation -> Order \cup {NoOrderId}]
  /\ tickets \in [Order -> 0 .. MaxQuantity]
  /\ log \in [Event -> {"none", "processed", "rejected"}]
  /\ reported \subseteq Order \X Verdict
  /\ tx \in [Handler -> {Idle} \cup OrderTx \cup PaymentTx]

\* Whatever callbacks, order requests and expiry runs do to each other, what
\* they do to the ledger is what Inventory allows: a callback sells or releases
\* a reservation only while it is active, although it read it without a lock.
ImplementsInventory == Spec

\* The book of orders that these tables are.
ReportedAs(v) == {o \in Order : <<o, v>> \in reported}
Entry(o) == [status |-> order[o].status, hold |-> order[o].reservation]
SeatsHeld(r) == [status |-> Status(r), seats |-> reservation[r].quantity]
Book == INSTANCE OrderBook WITH
  HoldId <- Reservation, MaxSeats <- MaxQuantity,
  book <- [o \in Order |-> Entry(o)], hold <- [r \in Reservation |-> SeatsHeld(r)],
  captured <- ReportedAs("succeeded"), declined <- ReportedAs("failed"),
  money <- [o \in Order |-> payment[o].status]

\* However requests, callbacks and expiry runs overtake each other, what an
\* order says, its seats, its money and its tickets change together, one order
\* per hold: tickets only for money captured while the seats were held, and a
\* refund mark for money that came later.
ImplementsOrderBook == Book!BookSpec

\* blueprint/04-database-design.md:132: tickets exist for exactly the orders
\* whose payment succeeded while the seats were held, all of them, once.
Sold(o) ==
  /\ order[o].status = "issued"
  /\ payment[o].status = "succeeded"
  /\ Status(order[o].reservation) = "confirmed"
  /\ tickets[o] = reservation[order[o].reservation].quantity

TicketsMatchSales ==
  /\ \A o \in Order : tickets[o] > 0 \/ order[o].status = "issued" => Sold(o)
  /\ \A r \in Reservation : Status(r) = "confirmed" =>
       \E o \in Order : /\ order[o].reservation = r /\ Sold(o)
                        /\ \A p \in Order : p # o /\ order[p].reservation = r => tickets[p] = 0

\* Money is accounted for: a succeeded payment has its tickets or is marked for
\* a refund, which holds no seat any more; a failed one has a failed order; and
\* a payment only ever succeeds because the provider said so.
MoneyMatchesOrders ==
  \A o \in Order :
    /\ payment[o].status = "succeeded" <=> order[o].status \in {"issued", "refund_required"}
    /\ payment[o].status = "failed" <=> order[o].status = "failed"
    /\ order[o].status = "refund_required" => Status(order[o].reservation) = "expired"
    /\ payment[o].status = "succeeded" => <<o, "succeeded">> \in reported

\* An order moves along the edges of the order state machine and no other,
\* however late a callback or the worker is; what is issued, failed or to be
\* refunded stays so.  The edge from expired to failed is not in the diagram of
\* blueprint/07-protection-mechanisms.md:121: a failure is recorded whatever
\* the order has become.
OrderEdge ==
  {<<"none", "pending_payment">>, <<"pending_payment", "issued">>,
   <<"pending_payment", "failed">>, <<"pending_payment", "expired">>,
   <<"pending_payment", "refund_required">>, <<"expired", "refund_required">>,
   <<"expired", "failed">>}
OrderLifecycle ==
  [][\A o \in Order :
       order'[o] # order[o] => <<order[o].status, order'[o].status>> \in OrderEdge]_checkoutVars

\* blueprint/05-business-flows.md:48: a callback delivered again, after its
\* event was processed, changes neither ledger nor order nor tickets.
RedeliveryChangesNothing ==
  [][\A h \in Handler :
       (tx[h].step = "webhook" /\ tx'[h] = Idle /\ log[tx[h].hash] = "processed") =>
         /\ UNCHANGED <<ledgerVars, tickets>>
         /\ order'[tx[h].order] = order[tx[h].order]]_checkoutVars

\* A buyer told that an order was created or replayed has that order, for the
\* reservation and with the payment method of the request.
OrderReplyIsTrue ==
  \A h \in Handler :
    tx[h].step \in {"created", "replayed"} =>
      /\ order[tx[h].request.order].reservation = tx[h].request.reservation
      /\ order[tx[h].request.order].provider = tx[h].request.provider
      /\ reservationOrder[tx[h].request.reservation] = tx[h].request.order

\* What a buyer is told, what the order says, the tickets, the seats and the
\* money agree at all times.
OrdersAgree == OrderReplyIsTrue /\ TicketsMatchSales /\ MoneyMatchesOrders

\* Money the provider captured ends in tickets or in a refund.
CapturedMoneySettles ==
  \A o \in Order :
    (<<o, "succeeded">> \in reported) ~> order[o].status \in {"issued", "refund_required"}

\* Seats on hold are given back or sold once their TTL has run out, whether
\* they were ordered or not.
LapsedHoldsEnd ==
  \A r \in Reservation : (Active(r) /\ r \in lapsed) ~> ~Active(r)

\* An unpaid order whose reservation runs out while it is held ends with it.
LapsedOrdersEnd ==
  \A o \in Order :
    (Pending(o) /\ Active(order[o].reservation) /\ order[o].reservation \in lapsed)
      ~> ~Pending(o)

-----------------------------------------------------------------------------
(* What the documents and the code's own tables say, and the code does not *)
(* keep.                                                                   *)

\* blueprint/04-database-design.md:188: pending orders expire with their
\* reservation.
ExpiredOrdersEnd ==
  \A o \in Order :
    (Pending(o) /\ Status(order[o].reservation) = "expired") ~> ~Pending(o)

\* blueprint/05-business-flows.md:51: a success that arrives for an expired
\* reservation is kept and the order is marked for a refund.
LateSuccessIsRefunded ==
  \A o \in Order :
    (<<o, "succeeded">> \in reported /\ Status(order[o].reservation) = "expired")
      ~> order[o].status = "refund_required"
=============================================================================
