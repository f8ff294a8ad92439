--------------------------- MODULE CheckoutProofs ---------------------------
(***************************************************************************)
(* The checkout for every number of users, keys, workers and callbacks:    *)
(* what it does to the ledger is what Inventory allows, and orders,        *)
(* tickets, seats and money agree.                                         *)
(***************************************************************************)
EXTENDS Checkout, InventoryProofs

OrdersFor(r) == {Owner(r)} \X OrderKeysFor(r)

\* All requests that order one reservation carry the same key.  The web client
\* sees to that (each reservation key has its order key); createOrder does not,
\* and without it a reservation can be linked to a second order while a payment
\* of the first one is being applied.
OneKeyPerHold == \A r \in Reservation : \A j, k \in OrderKeysFor(r) : j = k

-----------------------------------------------------------------------------
(* The inductive invariant                                                 *)

\* An order, its reservation, its tickets and its payment.  The reservation of
\* an order is linked to it, and has ended with it unless the order is open.
OrderFits(o) ==
  /\ OrderExists(o) =>
       /\ order[o].reservation \in Reservation /\ Exists(order[o].reservation)
       /\ o \in OrdersFor(order[o].reservation)
       /\ reservationOrder[order[o].reservation] = o
  /\ order[o].status = "issued" =>
       /\ Status(order[o].reservation) = "confirmed"
       /\ tickets[o] = reservation[order[o].reservation].quantity
  /\ order[o].status # "issued" => tickets[o] = 0
  /\ order[o].status \in {"expired", "refund_required"} =>
       Status(order[o].reservation) = "expired"
  /\ payment[o].status = "none" <=> order[o].status = "none"
  /\ payment[o].status = "created" <=> order[o].status \in {"pending_payment", "expired"}
  /\ payment[o].status = "succeeded" <=> order[o].status \in {"issued", "refund_required"}
  /\ payment[o].status = "failed" <=> order[o].status = "failed"
  /\ payment[o].status = "succeeded" => <<o, "succeeded">> \in reported

\* A reservation and the order it is linked to; seats are only sold by one.
LinkFits(r) ==
  /\ reservationOrder[r] # NoOrderId =>
       OrderExists(reservationOrder[r]) /\ order[reservationOrder[r]].reservation = r
  /\ Status(r) = "confirmed" =>
       reservationOrder[r] # NoOrderId /\ order[reservationOrder[r]].status = "issued"

\* A POST /orders in flight, and what it was answered.
RequestFits(q) ==
  /\ q.step \in {"check", "write"} \cup OrderReply =>
       q.request.order \in OrdersFor(q.request.reservation) /\ Exists(q.request.reservation)
  /\ q.step \in {"created", "replayed"} =>
       /\ OrderExists(q.request.order)
       /\ order[q.request.order].reservation = q.request.reservation
       /\ order[q.request.order].provider = q.request.provider

\* A callback between its reads and its writes: what it has decided still fits,
\* the state of the reservation included, which it does not lock.
CallbackFits(q) ==
  q.step = "webhook" =>
    /\ q.order = OrderOf(q.hash) /\ reservationOrder[q.reservation] = q.order
    /\ <<q.order, VerdictOf(q.hash)>> \in reported
    /\ q.outcome \in {"confirm", "refund"} =>
         /\ VerdictOf(q.hash) = "succeeded"
         /\ payment[q.order].status = "created"
         /\ q.held <=> Active(q.reservation)
    /\ q.outcome = "confirm" => q.held
    /\ q.outcome = "refund" /\ q.held => q.reservation \in lapsed
    /\ q.outcome = "fail" =>
         VerdictOf(q.hash) = "failed" /\ payment[q.order].status # "succeeded"

\* A callback has its order to itself.
CallbacksAlone ==
  \A g, h \in Handler :
    tx[g].step = "webhook" /\ tx[h].step = "webhook" /\ tx[g].order = tx[h].order => g = h

CheckoutInv ==
  /\ IInv
  /\ CheckoutTypeOK
  /\ \A o \in Order : OrderFits(o)
  /\ \A r \in Reservation : LinkFits(r)
  /\ \A h \in Handler : RequestFits(tx[h]) /\ CallbackFits(tx[h])
  /\ CallbacksAlone

-----------------------------------------------------------------------------

\* No order has the id that stands for none.
LEMMA OrderIsSome == NoOrderId \notin Order
  BY DEF NoOrderId, Order

LEMMA CheckoutInitInv == CheckoutInit => CheckoutInv
<1> SUFFICES ASSUME CheckoutInit PROVE CheckoutInv  OBVIOUS
<1> USE DEF CheckoutInit
<1>1. IInv
  BY InvInit
<1>2. CheckoutTypeOK
  <2>1. \A q \in 0 .. MaxQuantity : q \in Int
    BY LimitAssumption
  <2>2. 0 \in 0 .. MaxQuantity
    BY LimitAssumption
  <2> QED
    BY <2>2 DEF CheckoutTypeOK
<1>3. ASSUME NEW o \in Order
      PROVE  OrderFits(o)
  BY DEF OrderFits, OrderExists, NoOrder
<1>4. ASSUME NEW r \in Reservation
      PROVE  LinkFits(r)
  BY DEF LinkFits, Status, Init, NoReservation
<1>5. ASSUME NEW h \in Handler
      PROVE  RequestFits(tx[h]) /\ CallbackFits(tx[h])
  BY DEF RequestFits, CallbackFits, Idle, OrderReply
<1>6. CallbacksAlone
  BY DEF CallbacksAlone, Idle
<1> QED
  BY <1>1, <1>2, <1>3, <1>4, <1>5, <1>6 DEF CheckoutInv

\* The requests that are in flight, by their step.
LEMMA TxByStep ==
  ASSUME CheckoutTypeOK, NEW h \in Handler
  PROVE  /\ tx[h].step = "webhook" => tx[h] \in PaymentTx
         /\ tx[h].step \in {"check", "write"} \cup OrderReply => tx[h] \in OrderTx
         /\ tx[h].step = "idle" => tx[h] = Idle
  BY DEF CheckoutTypeOK, Idle, OrderTx, PaymentTx, OrderReply

-----------------------------------------------------------------------------
(* Rows: what a step may do to a reservation.                              *)

\* A row that is there stays, and a settled one stays as it is.
RowKept(r) ==
  Exists(r) => /\ Exists(r)'
               /\ reservation'[r].quantity = reservation[r].quantity
               /\ Status(r) \in {"confirmed", "expired"} => reservation'[r] = reservation[r]

LEMMA RowsAreKept ==
  ASSUME IInv, [Next]_inventoryVars, NEW r \in Reservation
  PROVE  RowKept(r)
<1> SUFFICES ASSUME Exists(r) PROVE RowKept(r)
  BY DEF RowKept
<1>1. /\ Exists(r)' /\ reservation'[r].quantity = reservation[r].quantity /\ RowLifecycle(r)
  BY StepMovesLedger, MoveKeepsRows DEF IInv
<1> QED
  BY <1>1 DEF RowKept, RowLifecycle, Status

\* The steps of the ledger that the checkout takes as they are sell nothing.
LEMMA InventoryStepRows ==
  ASSUME IInv, InventoryStep, NEW r \in Reservation
  PROVE  reservation'[r] = reservation[r] \/ (~Exists(r) /\ Status(r)' = "active")
<1>1. ASSUME NEW c \in Client, Reserve(c)
      PROVE  reservation'[r] = reservation[r] \/ (~Exists(r) /\ Status(r)' = "active")
  <2>1. call[c] \in Call /\ reservation \in [Reservation -> Row \cup {NoReservation}]
    BY <1>1 DEF Reserve, IInv, TypeOK
  <2>2. CASE ReserveOutcome(call[c]) = "created"
    <3>1. Hold(call[c]) /\ ~Exists(call[c].id)
      BY <1>1, <2>2 DEF Reserve, ReserveOutcome
    <3>2. CASE r = call[c].id
      BY <2>1, <3>1, <3>2 DEF Hold, Status
    <3>3. CASE r # call[c].id
      BY <2>1, <3>1, <3>3 DEF Hold
    <3> QED
      BY <3>2, <3>3
  <2>3. CASE ReserveOutcome(call[c]) # "created"
    BY <1>1, <2>3 DEF Reserve, ledgerVars
  <2> QED
    BY <2>2, <2>3
<1>2. ASSUME NEW c \in Client, Lookup(c) \/ Begin(c) \/ Recover(c) \/ RequestFails(c) \/ Return(c)
      PROVE  reservation' = reservation
  BY <1>2 DEF Lookup, Begin, Recover, RequestFails, Return, ledgerVars
<1>3. ASSUME NEW x \in Reservation, Lapse(x)
      PROVE  reservation' = reservation
  BY <1>3 DEF Lapse, ledgerVars
<1>4. ASSUME NEW t \in TicketType, SaleEnds(t)
      PROVE  reservation' = reservation
  BY <1>4 DEF SaleEnds, ledgerVars
<1>5. ASSUME NEW w \in Worker, ExpireSelect(w) \/ ExpireAbort(w)
      PROVE  reservation' = reservation
  BY <1>5 DEF ExpireSelect, ExpireAbort, ledgerVars
<1> QED
  BY <1>1, <1>2, <1>3, <1>4, <1>5 DEF InventoryStep

-----------------------------------------------------------------------------
(* What stays as it is, fits as before.                                    *)

LEMMA OrderStays ==
  ASSUME NEW o \in Order, OrderFits(o), OrderExists(o) => RowKept(order[o].reservation),
         order'[o] = order[o], payment'[o] = payment[o], tickets'[o] = tickets[o],
         reported \subseteq reported',
         OrderExists(o) =>
           reservationOrder'[order[o].reservation] = reservationOrder[order[o].reservation]
  PROVE  OrderFits(o)'
<1>1. CASE ~OrderExists(o)
  BY <1>1 DEF OrderFits, OrderExists
<1>2. CASE OrderExists(o)
  <2>1. order[o].reservation \in Reservation /\ Exists(order[o].reservation)
    BY <1>2 DEF OrderFits
  <2> QED
    BY <1>2, <2>1 DEF OrderFits, OrderExists, RowKept, Status
<1> QED
  BY <1>1, <1>2

LEMMA LinkStays ==
  ASSUME NEW r \in Reservation, LinkFits(r), reservationOrder'[r] = reservationOrder[r],
         reservationOrder[r] # NoOrderId =>
           LET o == reservationOrder[r]
           IN /\ order'[o].status # "none" /\ order'[o].reservation = order[o].reservation
              /\ order[o].status = "issued" => order'[o].status = "issued",
         Status(r)' = "confirmed" => Status(r) = "confirmed"
  PROVE  LinkFits(r)'
  BY DEF LinkFits, OrderExists

LEMMA RequestStays ==
  ASSUME NEW h \in Handler, RequestFits(tx[h]), tx'[h] = tx[h],
         tx[h].step \in {"check", "write"} \cup OrderReply => RowKept(tx[h].request.reservation),
         tx[h].step \in {"created", "replayed"} =>
           LET o == tx[h].request.order
           IN OrderExists(o) =>
                /\ order'[o].status # "none" /\ order'[o].reservation = order[o].reservation
                /\ order'[o].provider = order[o].provider
  PROVE  RequestFits(tx[h])'
  BY DEF RequestFits, RowKept, OrderExists, OrderReply

LEMMA CallbackStays ==
  ASSUME NEW h \in Handler, CallbackFits(tx[h]), tx'[h] = tx[h],
         reported \subseteq reported', lapsed \subseteq lapsed',
         tx[h].step = "webhook" =>
           /\ payment'[tx[h].order] = payment[tx[h].order]
           /\ reservationOrder'[tx[h].reservation] = reservationOrder[tx[h].reservation]
           /\ tx[h].outcome \in {"confirm", "refund"} =>
                (Active(tx[h].reservation)' <=> Active(tx[h].reservation))
  PROVE  CallbackFits(tx[h])'
  BY DEF CallbackFits, OrderOf, VerdictOf

\* So do the other requests, when orders do not change and no hold ends.
LEMMA OthersStay ==
  ASSUME CheckoutInv, NEW g \in Handler, tx'[g] = tx[g], UNCHANGED <<order, payment, reservationOrder>>,
         reported \subseteq reported', lapsed \subseteq lapsed',
         \A r \in Reservation : RowKept(r),
         \A r \in Reservation : Exists(r) => (Active(r)' <=> Active(r))
  PROVE  RequestFits(tx[g])' /\ CallbackFits(tx[g])'
<1>1. RequestFits(tx[g]) /\ CallbackFits(tx[g]) /\ CheckoutTypeOK
  BY DEF CheckoutInv
<1>2. tx[g].step \in {"check", "write"} \cup OrderReply => tx[g].request.reservation \in Reservation
  BY <1>1, TxByStep DEF OrderTx, OrderRequest
<1>3. ASSUME tx[g].step = "webhook"
      PROVE  tx[g].reservation \in Reservation /\ Exists(tx[g].reservation)
  <2>1. tx[g].reservation \in Reservation /\ tx[g].order \in Order
    BY <1>1, <1>3, TxByStep DEF PaymentTx
  <2>2. reservationOrder[tx[g].reservation] = tx[g].order
    BY <1>1, <1>3 DEF CallbackFits
  <2>3. OrderExists(tx[g].order) /\ order[tx[g].order].reservation = tx[g].reservation
    BY <2>1, <2>2, OrderIsSome DEF CheckoutInv, LinkFits
  <2> QED
    BY <2>1, <2>3 DEF CheckoutInv, OrderFits
<1>4. RequestFits(tx[g])'
  BY <1>1, <1>2, RequestStays DEF OrderExists
<1>5. CallbackFits(tx[g])'
  BY <1>1, <1>3, CallbackStays
<1> QED
  BY <1>4, <1>5

LEMMA TxTyped ==
  ASSUME CheckoutTypeOK, NEW h \in Handler, tx' = [tx EXCEPT ![h] = tx'[h]],
         tx'[h] \in {Idle} \cup OrderTx \cup PaymentTx
  PROVE  /\ tx' \in [Handler -> {Idle} \cup OrderTx \cup PaymentTx]
         /\ \A g \in Handler \ {h} : tx'[g] = tx[g]
  BY DEF CheckoutTypeOK

\* A step that is one of a single request, and changes nothing else.
LEMMA OnlyTx ==
  ASSUME CheckoutInv, NEW h \in Handler,
         UNCHANGED <<inventoryVars, order, reservationOrder, paymentVars>>,
         reported \subseteq reported', reported' \subseteq Order \X Verdict,
         tx' = [tx EXCEPT ![h] = tx'[h]], tx'[h] \in {Idle} \cup OrderTx \cup PaymentTx,
         RequestFits(tx[h])', CallbackFits(tx[h])',
         tx'[h].step = "webhook" =>
           \A g \in Handler \ {h} : ~(tx[g].step = "webhook" /\ tx[g].order = tx'[h].order)
  PROVE  CheckoutInv'
<1> USE DEF inventoryVars, ledgerVars, paymentVars
<1>1. IInv'
  BY InvStep DEF CheckoutInv
<1>2. /\ tx' \in [Handler -> {Idle} \cup OrderTx \cup PaymentTx]
      /\ \A g \in Handler \ {h} : tx'[g] = tx[g]
  BY TxTyped DEF CheckoutInv
<1>3. CheckoutTypeOK'
  BY <1>2 DEF CheckoutInv, CheckoutTypeOK
<1>4. \A r \in Reservation : RowKept(r) /\ (Exists(r) => (Active(r)' <=> Active(r)))
  BY DEF RowKept, Exists, Active, Status
<1>5. ASSUME NEW o \in Order
      PROVE  OrderFits(o)'
  <2>1. OrderExists(o) => order[o].reservation \in Reservation
    BY DEF CheckoutInv, OrderFits
  <2> QED
    BY <1>4, <2>1, OrderStays DEF CheckoutInv
<1>6. ASSUME NEW r \in Reservation
      PROVE  LinkFits(r)'
  BY DEF CheckoutInv, LinkFits, OrderExists, Status
<1>7. ASSUME NEW g \in Handler
      PROVE  RequestFits(tx[g])' /\ CallbackFits(tx[g])'
  <2>1. CASE g = h
    BY <2>1
  <2>2. CASE g # h
    <3>1. lapsed \subseteq lapsed' /\ tx'[g] = tx[g]
      BY <1>2, <2>2
    <3> QED
      BY <1>4, <3>1, OthersStay
  <2> QED
    BY <2>1, <2>2
<1>8. CallbacksAlone'
  BY <1>2 DEF CheckoutInv, CallbacksAlone
<1> QED
  BY <1>1, <1>3, <1>5, <1>6, <1>7, <1>8 DEF CheckoutInv

-----------------------------------------------------------------------------
(* POST /orders                                                            *)

LEMMA OrderLookupKeeps ==
  ASSUME CheckoutInv, NEW h \in Handler, OrderLookup(h)
  PROVE  CheckoutInv'
<1>1. PICK a \in OrderRequest :
        /\ Exists(a.reservation)
        /\ a.order \in {Owner(a.reservation)} \X OrderKeysFor(a.reservation)
        /\ tx' = [tx EXCEPT ![h] =
             [step |-> IF OrderExists(a.order) THEN DuplicateReply(a) ELSE "check",
              request |-> a]]
  BY DEF OrderLookup
<1> DEFINE step == IF OrderExists(a.order) THEN DuplicateReply(a) ELSE "check"
<1>2. /\ step \in {"check", "replayed", "duplicate_request_conflict"}
      /\ step = "replayed" => /\ OrderExists(a.order) /\ order[a.order].reservation = a.reservation
                              /\ order[a.order].provider = a.provider
  BY DEF DuplicateReply
<1> HIDE DEF step
<1>3. tx'[h] = [step |-> step, request |-> a] /\ tx' = [tx EXCEPT ![h] = tx'[h]]
  BY <1>1 DEF step, CheckoutInv, CheckoutTypeOK
<1>4. tx'[h] \in OrderTx
  BY <1>2, <1>3 DEF OrderTx, OrderReply
<1>5. UNCHANGED <<reservation, order, reported>> /\ reported \subseteq Order \X Verdict
  BY DEF OrderLookup, inventoryVars, ledgerVars, CheckoutInv, CheckoutTypeOK
<1>6. RequestFits(tx[h])' /\ CallbackFits(tx[h])'
  BY <1>1, <1>2, <1>3, <1>5
     DEF RequestFits, CallbackFits, OrdersFor, OrderReply, OrderExists, Exists, Status
<1>7. tx'[h].step # "webhook"
  BY <1>2, <1>3
<1> QED
  BY <1>3, <1>4, <1>5, <1>6, <1>7, OnlyTx DEF OrderLookup

LEMMA OrderCheckKeeps ==
  ASSUME CheckoutInv, NEW h \in Handler, OrderCheck(h)
  PROVE  CheckoutInv'
<1> DEFINE step == IF Orderable(tx[h].request.reservation) THEN "write" ELSE "refused"
<1>1. tx[h].step = "check" /\ tx[h] \in OrderTx /\ RequestFits(tx[h])
  BY TxByStep DEF OrderCheck, CheckoutInv
<1>2. step \in {"write", "refused"}
  OBVIOUS
<1>3. tx' = [tx EXCEPT ![h].step = step]
  BY DEF OrderCheck
<1> HIDE DEF step
<1>4. tx'[h] = [tx[h] EXCEPT !.step = step] /\ tx' = [tx EXCEPT ![h] = tx'[h]]
  BY <1>3 DEF CheckoutInv, CheckoutTypeOK
<1>5. tx'[h] \in OrderTx /\ tx'[h].step = step /\ tx'[h].request = tx[h].request
  BY <1>1, <1>2, <1>4 DEF OrderTx, OrderReply
<1>6. UNCHANGED <<reservation, order, reported>> /\ reported \subseteq Order \X Verdict
  BY DEF OrderCheck, inventoryVars, ledgerVars, CheckoutInv, CheckoutTypeOK
<1>7. RequestFits(tx[h])' /\ CallbackFits(tx[h])'
  BY <1>1, <1>2, <1>5, <1>6 DEF RequestFits, CallbackFits, OrderReply, Exists, Status
<1> QED
  BY <1>2, <1>4, <1>5, <1>6, <1>7, OnlyTx DEF OrderCheck

LEMMA BackToIdle ==
  ASSUME CheckoutInv, NEW h \in Handler, OrderReturn(h) \/ CheckoutAbort(h)
  PROVE  CheckoutInv'
<1>1. tx'[h] = Idle /\ tx' = [tx EXCEPT ![h] = tx'[h]]
  BY DEF OrderReturn, CheckoutAbort, CheckoutInv, CheckoutTypeOK
<1>2. RequestFits(tx[h])' /\ CallbackFits(tx[h])'
  BY <1>1 DEF RequestFits, CallbackFits, OrderReply, Idle
<1>3. reported' = reported /\ reported \subseteq Order \X Verdict
  BY DEF OrderReturn, CheckoutAbort, CheckoutInv, CheckoutTypeOK
<1>4. tx'[h].step # "webhook"
  BY <1>1 DEF Idle
<1> QED
  BY <1>1, <1>2, <1>3, <1>4, OnlyTx DEF OrderReturn, CheckoutAbort

LEMMA ProviderReportsKeeps ==
  ASSUME CheckoutInv, NEW o \in Order, NEW v \in Verdict, ProviderReports(o, v)
  PROVE  CheckoutInv'
<1> USE DEF ProviderReports, inventoryVars, ledgerVars, paymentVars
<1>1. IInv'
  BY InvStep DEF CheckoutInv
<1>2. CheckoutTypeOK'
  BY DEF CheckoutInv, CheckoutTypeOK
<1>3. \A r \in Reservation : RowKept(r) /\ (Exists(r) => (Active(r)' <=> Active(r)))
  BY DEF RowKept, Exists, Active, Status
<1>4. ASSUME NEW p \in Order
      PROVE  OrderFits(p)'
  <2>1. OrderExists(p) => order[p].reservation \in Reservation
    BY DEF CheckoutInv, OrderFits
  <2> QED
    BY <1>3, <2>1, OrderStays DEF CheckoutInv
<1>5. ASSUME NEW r \in Reservation
      PROVE  LinkFits(r)'
  BY DEF CheckoutInv, LinkFits, OrderExists, Status
<1>6. ASSUME NEW g \in Handler
      PROVE  RequestFits(tx[g])' /\ CallbackFits(tx[g])'
  BY <1>3, OthersStay
<1>7. CallbacksAlone'
  BY DEF CheckoutInv, CallbacksAlone
<1> QED
  BY <1>1, <1>2, <1>4, <1>5, <1>6, <1>7 DEF CheckoutInv

\* An order is written: the key was free, so the reservation was linked to no
\* order and has not been sold, whatever else has become of it.
LEMMA OrderWriteKeeps ==
  ASSUME OneKeyPerHold, CheckoutInv, NEW h \in Handler, OrderWrite(h)
  PROVE  CheckoutInv'
<1> PICK a : a = tx[h].request
  OBVIOUS
<1>1. tx[h].step = "write" /\ tx[h] \in OrderTx /\ RequestFits(tx[h]) /\ a \in OrderRequest
  BY TxByStep DEF OrderWrite, CheckoutInv, OrderTx
<1>2. /\ a.order \in OrdersFor(a.reservation) /\ Exists(a.reservation)
      /\ a.order \in Order /\ a.reservation \in Reservation /\ a.provider \in Provider
  BY <1>1 DEF RequestFits, OrderRequest
<1>3. UNCHANGED <<reservation, lapsed, tickets, log, reported>> /\ UNCHANGED inventoryVars
  BY DEF OrderWrite, inventoryVars, ledgerVars
<1>4. \A r \in Reservation : RowKept(r) /\ (Exists(r) => (Active(r)' <=> Active(r)))
  BY <1>3 DEF RowKept, Exists, Active, Status
<1>5. CASE OrderExists(a.order)
  <2> DEFINE step == DuplicateReply(a)
  <2>1. /\ step \in {"replayed", "duplicate_request_conflict"}
        /\ step = "replayed" => /\ order[a.order].reservation = a.reservation
                                /\ order[a.order].provider = a.provider
    BY DEF DuplicateReply
  <2>2. tx' = [tx EXCEPT ![h].step = step] /\ UNCHANGED <<order, reservationOrder, payment>>
    BY <1>5 DEF OrderWrite
  <2> HIDE DEF step
  <2>3. tx'[h] = [tx[h] EXCEPT !.step = step] /\ tx' = [tx EXCEPT ![h] = tx'[h]]
    BY <2>2 DEF CheckoutInv, CheckoutTypeOK
  <2>4. tx'[h] \in OrderTx /\ tx'[h].step = step /\ tx'[h].request = a
    BY <1>1, <2>1, <2>3 DEF OrderTx, OrderReply
  <2>5. RequestFits(tx[h])' /\ CallbackFits(tx[h])'
    BY <1>2, <1>3, <1>5, <2>1, <2>2, <2>4
       DEF RequestFits, CallbackFits, OrderReply, OrderExists, Exists, Status
  <2>6. reported \subseteq Order \X Verdict
    BY DEF CheckoutInv, CheckoutTypeOK
  <2> QED
    BY <1>3, <2>1, <2>2, <2>3, <2>4, <2>5, <2>6, OnlyTx DEF paymentVars
<1>6. CASE ~OrderExists(a.order)
  <2> DEFINE o == a.order
             r == a.reservation
             new == [status |-> "pending_payment", reservation |-> a.reservation,
                     provider |-> a.provider]
  <2>1. /\ order' = [order EXCEPT ![o] = new]
        /\ payment' = [payment EXCEPT ![o].status = "created"]
        /\ reservationOrder' = [reservationOrder EXCEPT ![r] = o]
        /\ tx' = [tx EXCEPT ![h].step = "created"]
    BY <1>6 DEF OrderWrite
  <2>2. /\ order'[o] = new /\ \A p \in Order \ {o} : order'[p] = order[p]
        /\ payment'[o].status = "created" /\ \A p \in Order \ {o} : payment'[p] = payment[p]
        /\ reservationOrder'[r] = o
        /\ \A x \in Reservation \ {r} : reservationOrder'[x] = reservationOrder[x]
    BY <1>2, <2>1 DEF CheckoutInv, CheckoutTypeOK
  <2>3. tx'[h] = [tx[h] EXCEPT !.step = "created"] /\ tx' = [tx EXCEPT ![h] = tx'[h]]
    BY <2>1 DEF CheckoutInv, CheckoutTypeOK
  <2>4. tx'[h] \in OrderTx /\ tx'[h].step = "created" /\ tx'[h].request = a
    BY <1>1, <2>3 DEF OrderTx, OrderReply
  <2>5. /\ tx' \in [Handler -> {Idle} \cup OrderTx \cup PaymentTx]
        /\ \A g \in Handler \ {h} : tx'[g] = tx[g]
    BY <2>3, <2>4, TxTyped DEF CheckoutInv
  <2>6. reservationOrder[r] = NoOrderId
    <3> SUFFICES ASSUME reservationOrder[r] # NoOrderId PROVE FALSE
      OBVIOUS
    <3> DEFINE p == reservationOrder[r]
    <3>1. p \in Order /\ OrderExists(p) /\ order[p].reservation = r
      BY <1>2 DEF CheckoutInv, CheckoutTypeOK, LinkFits
    <3>2. p \in OrdersFor(r)
      BY <3>1 DEF CheckoutInv, OrderFits
    <3>3. p = o
      BY <1>2, <3>2 DEF OneKeyPerHold, OrdersFor
    <3> QED
      BY <1>6, <3>1, <3>3
  <2>7. IInv'
    BY <1>3, InvStep DEF CheckoutInv
  <2>8. CheckoutTypeOK'
    <3>1. new \in [status : {"pending_payment", "issued", "failed", "expired", "refund_required"},
                   reservation : Reservation, provider : Provider]
      BY <1>2
    <3>2. payment' \in [Order -> [status : {"none", "created", "succeeded", "failed"},
                                  hash : Event \cup {NoHash}]]
      BY <1>2, <2>1 DEF CheckoutInv, CheckoutTypeOK
    <3> QED
      BY <1>2, <1>3, <2>1, <2>5, <3>1, <3>2 DEF CheckoutInv, CheckoutTypeOK
  <2>9. ASSUME NEW p \in Order
        PROVE  OrderFits(p)'
    <3>1. CASE p = o
      <4>1. tickets[o] = 0
        BY <1>2, <1>6 DEF CheckoutInv, OrderFits, OrderExists
      <4>2. /\ order'[o].status = "pending_payment" /\ order'[o].reservation = r
            /\ payment'[o].status = "created" /\ tickets'[o] = 0
            /\ reservationOrder'[r] = o
        BY <1>3, <2>2, <4>1
      <4>3. Exists(r)' /\ o \in OrdersFor(r)
        BY <1>2, <1>3 DEF Exists, Status
      <4> QED
        BY <1>2, <3>1, <4>2, <4>3 DEF OrderFits, OrderExists
    <3>2. CASE p # o
      <4>1. OrderExists(p) =>
              /\ order[p].reservation \in Reservation
              /\ reservationOrder[order[p].reservation] = p
        BY DEF CheckoutInv, OrderFits
      <4>2. OrderExists(p) => reservationOrder'[order[p].reservation] = reservationOrder[order[p].reservation]
        BY <2>2, <2>6, <4>1, OrderIsSome
      <4> QED
        BY <1>3, <1>4, <2>2, <3>2, <4>1, <4>2, OrderStays DEF CheckoutInv
    <3> QED
      BY <3>1, <3>2
  <2>10. ASSUME NEW x \in Reservation
         PROVE  LinkFits(x)'
    <3>1. CASE x = r
      <4>1. Status(r) # "confirmed"
        BY <1>2, <2>6 DEF CheckoutInv, LinkFits
      <4> QED
        BY <1>3, <2>2, <3>1, <4>1 DEF LinkFits, OrderExists, Status
    <3>2. CASE x # r
      <4>1. reservationOrder[x] # NoOrderId => reservationOrder[x] # o
        BY <1>6 DEF CheckoutInv, LinkFits
      <4>2. reservationOrder[x] # NoOrderId => reservationOrder[x] \in Order
        BY DEF CheckoutInv, CheckoutTypeOK
      <4> QED
        BY <1>3, <2>2, <3>2, <4>1, <4>2 DEF CheckoutInv, LinkFits, OrderExists, Status
    <3> QED
      BY <3>1, <3>2
  <2>11. ASSUME NEW g \in Handler
         PROVE  RequestFits(tx[g])' /\ CallbackFits(tx[g])'
    <3>1. CASE g = h
      BY <1>2, <1>3, <2>2, <2>4, <3>1
         DEF RequestFits, CallbackFits, OrderReply, OrderExists, Exists, Status
    <3>2. CASE g # h
      <4>1. RequestFits(tx[g]) /\ CallbackFits(tx[g]) /\ tx'[g] = tx[g]
        BY <2>5, <3>2 DEF CheckoutInv
      <4>2. /\ tx[g].step \in {"check", "write"} \cup OrderReply =>
                 tx[g].request.reservation \in Reservation /\ tx[g].request.order \in Order
            /\ tx[g].step = "webhook" => tx[g].reservation \in Reservation /\ tx[g].order \in Order
        BY TxByStep DEF CheckoutInv, OrderTx, OrderRequest, PaymentTx
      <4>3. RequestFits(tx[g])'
        <5>1. tx[g].step \in {"created", "replayed"} => tx[g].request.order # o
          BY <1>6, <4>1 DEF RequestFits
        <5> QED
          BY <1>4, <2>2, <4>1, <4>2, <5>1, RequestStays DEF OrderReply, OrderExists
      <4>4. CallbackFits(tx[g])'
        <5>1. ASSUME tx[g].step = "webhook"
              PROVE  /\ tx[g].reservation # r /\ tx[g].order # o
                     /\ Exists(tx[g].reservation)
          <6>1. reservationOrder[tx[g].reservation] = tx[g].order /\ tx[g].order # NoOrderId
            BY <4>1, <4>2, <5>1, OrderIsSome DEF CallbackFits
          <6>2. OrderExists(tx[g].order) /\ order[tx[g].order].reservation = tx[g].reservation
            BY <4>2, <5>1, <6>1 DEF CheckoutInv, LinkFits
          <6> QED
            BY <1>6, <2>6, <4>2, <5>1, <6>1, <6>2 DEF CheckoutInv, OrderFits
        <5> QED
          BY <1>3, <1>4, <2>2, <4>1, <4>2, <5>1, CallbackStays
      <4> QED
        BY <4>3, <4>4
    <3> QED
      BY <3>1, <3>2
  <2>12. CallbacksAlone'
    BY <2>4, <2>5 DEF CheckoutInv, CallbacksAlone
  <2> QED
    BY <2>7, <2>8, <2>9, <2>10, <2>11, <2>12 DEF CheckoutInv
<1> QED
  BY <1>5, <1>6

-----------------------------------------------------------------------------
(* The ledger, and the expiry worker                                       *)

LEMMA InventoryStepKeeps ==
  ASSUME CheckoutInv, InventoryStep
  PROVE  CheckoutInv'
<1> USE DEF checkoutOnly, paymentVars
<1>1. [Next]_inventoryVars /\ UNCHANGED checkoutOnly
  BY DEF InventoryStep, Next
<1>2. IInv'
  BY <1>1, InvStep DEF CheckoutInv
<1>3. CheckoutTypeOK'
  BY <1>1 DEF CheckoutInv, CheckoutTypeOK
<1>4. lapsed \subseteq lapsed'
  BY DEF InventoryStep, Lookup, Begin, Reserve, Recover, RequestFails, Return, Lapse, SaleEnds,
         ExpireSelect, ExpireAbort
<1>5. \A r \in Reservation :
        /\ RowKept(r)
        /\ reservation'[r] = reservation[r] \/ (~Exists(r) /\ Status(r)' = "active")
  BY <1>1, RowsAreKept, InventoryStepRows DEF CheckoutInv
<1>6. ASSUME NEW o \in Order
      PROVE  OrderFits(o)'
  <2>1. OrderExists(o) => order[o].reservation \in Reservation
    BY DEF CheckoutInv, OrderFits
  <2> QED
    BY <1>1, <1>5, <2>1, OrderStays DEF CheckoutInv
<1>7. ASSUME NEW r \in Reservation
      PROVE  LinkFits(r)'
  <2>1. Status(r)' = "confirmed" => Status(r) = "confirmed"
    BY <1>5 DEF Status
  <2> QED
    BY <1>1, <2>1 DEF CheckoutInv, LinkFits, OrderExists
<1>8. ASSUME NEW g \in Handler
      PROVE  RequestFits(tx[g])' /\ CallbackFits(tx[g])'
  <2>1. \A r \in Reservation : Exists(r) => (Active(r)' <=> Active(r))
    BY <1>5 DEF Active, Status
  <2> QED
    BY <1>1, <1>4, <1>5, <2>1, OthersStay
<1>9. CallbacksAlone'
  BY <1>1 DEF CheckoutInv, CallbacksAlone
<1> QED
  BY <1>2, <1>3, <1>6, <1>7, <1>8, <1>9 DEF CheckoutInv

\* The worker: it expires the pending orders of the rows it expires.  A hold
\* that a callback relies on is not among them, for the order of that callback
\* is pending and locked.
LEMMA ExpireWithOrdersKeeps ==
  ASSUME CheckoutInv, NEW w \in Worker, ExpireWithOrders(w)
  PROVE  CheckoutInv'
<1> DEFINE S == {r \in selected[w] : Active(r)}
           E == PendingOrdersOf(S)
<1> USE DEF paymentVars
<1>1. /\ \A o \in E : ~OrderLocked(o)
      /\ ExpireCommit(w)
      /\ order' = [o \in Order |->
           IF o \in E THEN [order[o] EXCEPT !.status = "expired"] ELSE order[o]]
      /\ UNCHANGED <<reservationOrder, paymentVars, reported, tx>>
  BY DEF ExpireWithOrders
<1>2. [Next]_inventoryVars /\ lapsed' = lapsed
  BY <1>1 DEF Next, ExpireCommit
<1>3. IInv'
  BY <1>2, InvStep DEF CheckoutInv
<1>4. \A r \in Reservation : reservation'[r] =
        IF r \in S THEN [reservation[r] EXCEPT !.status = "expired"] ELSE reservation[r]
  BY <1>1 DEF ExpireCommit, ReleaseHolds
<1>5. \A r \in Reservation : r \in S => Status(r)' = "expired" /\ Active(r)
  <2> SUFFICES ASSUME NEW r \in Reservation, r \in S
               PROVE  Status(r)' = "expired"
    OBVIOUS
  <2>1. reservation[r] \in Row
    BY DEF CheckoutInv, IInv, TypeOK, Active, Status, NoReservation
  <2> QED
    BY <1>4, <2>1 DEF Status, Row
<1>6. \A r \in Reservation : RowKept(r)
  BY <1>2, RowsAreKept DEF CheckoutInv
<1>7. \A o \in Order : o \in E <=> Pending(o) /\ \E r \in S : reservationOrder[r] = o
  BY DEF PendingOrdersOf
<1>8. S \subseteq Reservation
  BY DEF CheckoutInv, IInv, TypeOK
<1> HIDE DEF S, E
<1>9. ASSUME NEW o \in Order, o \in E
      PROVE  /\ OrderExists(o) /\ order[o].reservation \in S /\ Pending(o)
             /\ order'[o] = [order[o] EXCEPT !.status = "expired"]
             /\ order'[o].status = "expired" /\ order'[o].reservation = order[o].reservation
             /\ order'[o].provider = order[o].provider
  <2>1. PICK r \in S : reservationOrder[r] = o
    BY <1>7, <1>9
  <2>2. order[o].reservation = r
    BY <1>8, <2>1, OrderIsSome DEF CheckoutInv, LinkFits
  <2>3. Pending(o) /\ OrderExists(o)
    BY <1>7, <1>9 DEF Pending, OrderExists
  <2>4. order[o] \in [status : {"pending_payment", "issued", "failed", "expired", "refund_required"},
                      reservation : Reservation, provider : Provider]
    BY <2>3 DEF CheckoutInv, CheckoutTypeOK, OrderExists, NoOrder
  <2>5. order'[o] = [order[o] EXCEPT !.status = "expired"]
    BY <1>1, <1>9
  <2> QED
    BY <2>2, <2>3, <2>4, <2>5
<1>10. \A o \in Order : o \notin E => order'[o] = order[o]
  BY <1>1
<1>11. CheckoutTypeOK'
  <2>1. ASSUME NEW o \in Order
        PROVE  order'[o] \in [status : {"pending_payment", "issued", "failed", "expired",
                                        "refund_required"},
                              reservation : Reservation, provider : Provider] \cup {NoOrder}
    <3>1. CASE o \in E
      <4>1. OrderExists(o) /\ order'[o] = [order[o] EXCEPT !.status = "expired"]
        BY <1>9, <3>1
      <4>2. order[o] \in [status : {"pending_payment", "issued", "failed", "expired", "refund_required"},
                          reservation : Reservation, provider : Provider]
        BY <4>1 DEF CheckoutInv, CheckoutTypeOK, OrderExists, NoOrder
      <4> QED
        BY <4>1, <4>2
    <3>2. CASE o \notin E
      BY <1>10, <3>2 DEF CheckoutInv, CheckoutTypeOK
    <3> QED
      BY <3>1, <3>2
  <2>2. order' = [o \in Order |-> order'[o]]
    BY <1>1
  <2> QED
    BY <1>1, <2>1, <2>2 DEF CheckoutInv, CheckoutTypeOK
<1>12. ASSUME NEW o \in Order
       PROVE  OrderFits(o)'
  <2>1. CASE o \in E
    <3> DEFINE r == order[o].reservation
    <3>1. r \in Reservation /\ reservationOrder[r] = o /\ o \in OrdersFor(r)
      BY <1>9, <2>1 DEF CheckoutInv, OrderFits
    <3>2. reservation'[r].status = "expired"
      BY <1>5, <1>9, <2>1, <3>1 DEF Status
    <3>3. payment[o].status = "created" /\ tickets[o] = 0
      BY <1>9, <2>1 DEF CheckoutInv, OrderFits, Pending
    <3>4. /\ order'[o].status = "expired" /\ order'[o].reservation = r
          /\ payment'[o].status = "created" /\ tickets'[o] = 0
          /\ reservationOrder'[r] = o
      BY <1>1, <1>9, <2>1, <3>1, <3>3
    <3> HIDE DEF r
    <3> QED
      BY <3>1, <3>2, <3>4 DEF OrderFits, OrderExists, Exists, Status
  <2>2. CASE o \notin E
    <3>1. OrderExists(o) => order[o].reservation \in Reservation
      BY DEF CheckoutInv, OrderFits
    <3> QED
      BY <1>1, <1>6, <1>10, <2>2, <3>1, OrderStays DEF CheckoutInv
  <2> QED
    BY <2>1, <2>2
<1>13. ASSUME NEW r \in Reservation
       PROVE  LinkFits(r)'
  <2>1. Status(r)' = "confirmed" => Status(r) = "confirmed"
    BY <1>4, <1>5 DEF Status
  <2>2. ASSUME reservationOrder[r] # NoOrderId
        PROVE  LET o == reservationOrder[r]
               IN /\ order'[o].status # "none" /\ order'[o].reservation = order[o].reservation
                  /\ order[o].status = "issued" => order'[o].status = "issued"
    <3>1. reservationOrder[r] \in Order /\ OrderExists(reservationOrder[r])
      BY <2>2 DEF CheckoutInv, CheckoutTypeOK, LinkFits
    <3> QED
      BY <1>9, <1>10, <3>1 DEF Pending, OrderExists
  <2> QED
    BY <1>1, <2>1, <2>2, LinkStays DEF CheckoutInv
<1>14. ASSUME NEW g \in Handler
       PROVE  RequestFits(tx[g])' /\ CallbackFits(tx[g])'
  <2>1. RequestFits(tx[g]) /\ CallbackFits(tx[g]) /\ tx'[g] = tx[g]
    BY <1>1 DEF CheckoutInv
  <2>2. /\ tx[g].step \in {"check", "write"} \cup OrderReply =>
             tx[g].request.reservation \in Reservation /\ tx[g].request.order \in Order
        /\ tx[g].step = "webhook" => tx[g].reservation \in Reservation /\ tx[g].order \in Order
    BY TxByStep DEF CheckoutInv, OrderTx, OrderRequest, PaymentTx
  <2>3. RequestFits(tx[g])'
    <3>1. \A o \in Order : OrderExists(o) =>
            /\ order'[o].status # "none" /\ order'[o].reservation = order[o].reservation
            /\ order'[o].provider = order[o].provider
      BY <1>9, <1>10 DEF OrderExists
    <3> QED
      BY <1>6, <2>1, <2>2, <3>1, RequestStays DEF OrderReply
  <2>4. ASSUME tx[g].step = "webhook", tx[g].outcome \in {"confirm", "refund"}
        PROVE  Active(tx[g].reservation)' <=> Active(tx[g].reservation)
    <3> DEFINE o == tx[g].order
               r == tx[g].reservation
    <3>1. reservationOrder[r] = o /\ payment[o].status = "created" /\ OrderLocked(o)
      BY <2>1, <2>4 DEF CallbackFits, OrderLocked
    <3>2. order[o].reservation = r
      BY <2>2, <2>4, <3>1, OrderIsSome DEF CheckoutInv, LinkFits
    <3>3. Active(r) => Pending(o)
      BY <2>2, <2>4, <3>1, <3>2 DEF CheckoutInv, OrderFits, Active, Pending
    <3>4. r \notin S
      BY <1>1, <1>5, <1>7, <2>2, <2>4, <3>1, <3>3
    <3>5. reservation'[r] = reservation[r]
      BY <1>4, <2>2, <2>4, <3>4
    <3> QED
      BY <2>1, <3>5 DEF Active, Status
  <2>5. CallbackFits(tx[g])'
    BY <1>1, <1>2, <2>1, <2>4, CallbackStays
  <2> QED
    BY <2>3, <2>5
<1>15. CallbacksAlone'
  BY <1>1 DEF CheckoutInv, CallbacksAlone
<1> QED
  BY <1>3, <1>11, <1>12, <1>13, <1>14, <1>15 DEF CheckoutInv

-----------------------------------------------------------------------------
(* Payment callbacks                                                       *)

\* What a callback decides, and what it has seen when it does.
LEMMA OutcomeIsFounded ==
  ASSUME NEW e \in Event, NEW r \in Reservation, NEW sound
  PROVE  LET o == OrderOf(e)
             d == WebhookOutcome(e, r, sound)
         IN /\ d \in Outcome \cup {"refused"}
            /\ d \in {"confirm", "refund"} =>
                 VerdictOf(e) = "succeeded" /\ payment[o].status \notin {"succeeded", "failed"}
            /\ d = "confirm" => Pending(o) /\ Active(r)
            /\ d = "refund" => order[o].status = "expired" \/ Status(r) = "expired" \/ r \in lapsed
            /\ d = "fail" => VerdictOf(e) # "succeeded" /\ payment[o].status # "succeeded"
<1> DEFINE o == OrderOf(e)
           c == ConfirmOutcome(o, r)
           d == WebhookOutcome(e, r, sound)
<1>1. /\ c \in {"replay", "refused", "refund", "confirm"}
      /\ c \in {"confirm", "refund"} => payment[o].status \notin {"succeeded", "failed"}
      /\ c = "confirm" => Pending(o) /\ Active(r)
      /\ c = "refund" => order[o].status = "expired" \/ Status(r) = "expired" \/ r \in lapsed
  BY Zenon DEF ConfirmOutcome
<1>2. \/ d \in {"refused", "reject", "replay"}
      \/ VerdictOf(e) = "succeeded" /\ d = c
      \/ VerdictOf(e) # "succeeded" /\ payment[o].status # "succeeded" /\ d = "fail"
  BY Zenon DEF WebhookOutcome
<1> HIDE DEF c, d
<1>3. /\ d \in Outcome \cup {"refused"}
      /\ d \in {"confirm", "refund"} =>
           VerdictOf(e) = "succeeded" /\ payment[o].status \notin {"succeeded", "failed"}
      /\ d = "confirm" => Pending(o) /\ Active(r)
      /\ d = "refund" => order[o].status = "expired" \/ Status(r) = "expired" \/ r \in lapsed
      /\ d = "fail" => VerdictOf(e) # "succeeded" /\ payment[o].status # "succeeded"
  BY <1>1, <1>2 DEF Outcome
<1> QED
  BY <1>3 DEF d

\* The order a callback is about, and the reservation it has read.
LEMMA CallbackOrder ==
  ASSUME CheckoutInv, NEW h \in Handler, tx[h].step = "webhook"
  PROVE  /\ tx[h] \in PaymentTx /\ tx[h].order \in Order /\ tx[h].reservation \in Reservation
         /\ reservationOrder[tx[h].reservation] = tx[h].order
         /\ OrderExists(tx[h].order) /\ order[tx[h].order].reservation = tx[h].reservation
         /\ Exists(tx[h].reservation)
<1>1. tx[h] \in PaymentTx /\ tx[h].order \in Order /\ tx[h].reservation \in Reservation
  BY TxByStep DEF CheckoutInv, PaymentTx
<1>2. reservationOrder[tx[h].reservation] = tx[h].order
  BY DEF CheckoutInv, CallbackFits
<1>3. OrderExists(tx[h].order) /\ order[tx[h].order].reservation = tx[h].reservation
  BY <1>1, <1>2, OrderIsSome DEF CheckoutInv, LinkFits
<1> QED
  BY <1>1, <1>2, <1>3 DEF CheckoutInv, OrderFits

LEMMA WebhookLoadKeeps ==
  ASSUME CheckoutInv, NEW h \in Handler, WebhookLoad(h)
  PROVE  CheckoutInv'
<1>1. PICK e \in Event, sound \in Soundness : Deliver(h, e, sound)
  BY DEF WebhookLoad
<1> PICK o : o = OrderOf(e)
  OBVIOUS
<1>2. /\ ~OrderLocked(o) /\ <<o, VerdictOf(e)>> \in reported
      /\ UNCHANGED <<inventoryVars, order, reservationOrder, paymentVars, reported>>
  BY <1>1 DEF Deliver, WebhookReads
<1>3. PICK r \in Linked(o) :
        /\ WebhookOutcome(e, r, sound) # "refused"
        /\ tx' = [tx EXCEPT ![h] =
             [step |-> "webhook", order |-> o, reservation |-> r, hash |-> e,
              outcome |-> WebhookOutcome(e, r, sound), held |-> Active(r)]]
  BY <1>1 DEF Deliver, WebhookReads
<1>4. /\ o \in Order /\ r \in Reservation /\ reservationOrder[r] = o
      /\ OrderExists(o) /\ order[o].reservation = r
  <2>1. o \in Order
    BY DEF Event, OrderOf
  <2> QED
    BY <2>1, OrderIsSome DEF Linked, CheckoutInv, LinkFits
<1> PICK d : d = WebhookOutcome(e, r, sound)
  OBVIOUS
<1> PICK held \in BOOLEAN : held <=> Active(r)
  OBVIOUS
<1>5. /\ d \in Outcome
      /\ d \in {"confirm", "refund"} =>
           VerdictOf(e) = "succeeded" /\ payment[o].status \notin {"succeeded", "failed"}
      /\ d = "confirm" => Pending(o) /\ Active(r)
      /\ d = "refund" => order[o].status = "expired" \/ Status(r) = "expired" \/ r \in lapsed
      /\ d = "fail" => VerdictOf(e) = "failed" /\ payment[o].status # "succeeded"
  <2>1. VerdictOf(e) \in Verdict
    BY DEF Event, VerdictOf
  <2> QED
    BY <1>3, <1>4, <2>1, OutcomeIsFounded DEF Verdict
<1>6. d \in {"confirm", "refund"} => payment[o].status = "created"
  <2>1. payment[o].status \in {"none", "created", "succeeded", "failed"}
    BY <1>4 DEF CheckoutInv, CheckoutTypeOK
  <2>2. payment[o].status # "none"
    BY <1>4 DEF CheckoutInv, OrderFits, OrderExists
  <2> QED
    BY <1>5, <2>1, <2>2
<1>7. d = "refund" /\ Active(r) => r \in lapsed
  BY <1>4, <1>5 DEF CheckoutInv, OrderFits, Active, Status
<1>8. tx'[h] = [step |-> "webhook", order |-> o, reservation |-> r, hash |-> e,
                outcome |-> d, held |-> held]
  <2>1. held = Active(r)
    BY DEF Active
  <2>2. tx'[h] = [step |-> "webhook", order |-> o, reservation |-> r, hash |-> e,
                  outcome |-> WebhookOutcome(e, r, sound), held |-> Active(r)]
    BY <1>3, Zenon DEF CheckoutInv, CheckoutTypeOK
  <2> QED
    BY <2>1, <2>2, Zenon
<1>9. tx' = [tx EXCEPT ![h] = tx'[h]]
  BY <1>3 DEF CheckoutInv, CheckoutTypeOK
<1>10. tx'[h] \in PaymentTx
  BY <1>4, <1>5, <1>8 DEF PaymentTx
<1>11. RequestFits(tx[h])'
  BY <1>8 DEF RequestFits, OrderReply
<1>12. UNCHANGED <<reservation, lapsed, reservationOrder, payment, reported>>
  BY <1>2 DEF inventoryVars, ledgerVars, paymentVars
<1>13. CallbackFits(tx[h])'
  BY <1>2, <1>4, <1>5, <1>6, <1>7, <1>8, <1>12 DEF CallbackFits, Active, Status
<1>14. \A g \in Handler \ {h} : ~(tx[g].step = "webhook" /\ tx[g].order = tx'[h].order)
  BY <1>2, <1>8 DEF OrderLocked
<1>15. reported' \subseteq Order \X Verdict
  BY <1>2 DEF CheckoutInv, CheckoutTypeOK
<1> QED
  BY <1>2, <1>9, <1>10, <1>11, <1>13, <1>14, <1>15, OnlyTx

\* What the writes of a callback do to the ledger is what Inventory lets the
\* payment module do.
LEMMA WebhookCommitRefines ==
  ASSUME CheckoutInv, NEW h \in Handler, WebhookCommit(h)
  PROVE  [Next]_inventoryVars /\ lapsed' = lapsed
<1> PICK a : a = tx[h]
  OBVIOUS
<1>1. tx[h].step = "webhook" /\ Apply(a) /\ UNCHANGED <<lapsed, saleOpen, requestVars, selected>>
  BY DEF WebhookCommit
<1>2. a.reservation \in Reservation
  BY <1>1, CallbackOrder
<1>3. CallbackFits(a)
  BY DEF CheckoutInv
<1>4. CASE a.outcome = "confirm" /\ Confirm(a)
  <2>1. ConfirmSale(a.reservation)
    BY <1>1, <1>3, <1>4 DEF ConfirmSale, Confirm, CallbackFits
  <2> QED
    BY <1>1, <1>2, <2>1 DEF Next
<1>5. CASE a.outcome = "refund" /\ Refund(a) /\ a.held
  <2>1. ReleaseLate(a.reservation)
    BY <1>1, <1>3, <1>5 DEF ReleaseLate, Refund, CallbackFits
  <2> QED
    BY <1>1, <1>2, <2>1 DEF Next
<1>6. CASE UNCHANGED ledgerVars
  BY <1>1, <1>6 DEF inventoryVars
<1> QED
  BY <1>1, <1>4, <1>5, <1>6 DEF Apply, Refund, Fail

\* The writes of a callback keep the invariant if they leave its own order and
\* its own reservation in order.
LEMMA SettlingKeeps ==
  ASSUME CheckoutInv, NEW h \in Handler, WebhookCommit(h), CheckoutTypeOK',
         NEW o \in Order, NEW r \in Reservation, tx[h].order = o, tx[h].reservation = r,
         OrderFits(o)', LinkFits(r)',
         order'[o].status # "none", order'[o].reservation = order[o].reservation,
         order'[o].provider = order[o].provider,
         \A p \in Order \ {o} :
           order'[p] = order[p] /\ payment'[p] = payment[p] /\ tickets'[p] = tickets[p],
         \A x \in Reservation \ {r} : reservation'[x] = reservation[x]
  PROVE  CheckoutInv'
<1>1. /\ tx[h].step = "webhook" /\ tx' = [tx EXCEPT ![h] = Idle]
      /\ UNCHANGED <<reservationOrder, reported>>
  BY DEF WebhookCommit
<1>2. /\ o \in Order /\ r \in Reservation /\ reservationOrder[r] = o
      /\ OrderExists(o) /\ order[o].reservation = r
  BY <1>1, CallbackOrder
<1>3. tx'[h] = Idle /\ \A g \in Handler \ {h} : tx'[g] = tx[g]
  BY <1>1 DEF CheckoutInv, CheckoutTypeOK
<1>4. [Next]_inventoryVars /\ lapsed' = lapsed
  BY WebhookCommitRefines
<1>5. IInv'
  BY <1>4, InvStep DEF CheckoutInv
<1>6. \A x \in Reservation : RowKept(x)
  BY <1>4, RowsAreKept DEF CheckoutInv
<1>7. ASSUME NEW p \in Order
      PROVE  OrderFits(p)'
  <2>1. CASE p = o
    BY <2>1
  <2>2. CASE p # o
    <3>1. OrderExists(p) => order[p].reservation \in Reservation
      BY DEF CheckoutInv, OrderFits
    <3> QED
      BY <1>1, <1>6, <2>2, <3>1, OrderStays DEF CheckoutInv
  <2> QED
    BY <2>1, <2>2
<1>8. ASSUME NEW x \in Reservation
      PROVE  LinkFits(x)'
  <2>1. CASE x = r
    BY <2>1
  <2>2. CASE x # r
    <3>1. reservation'[x] = reservation[x] /\ reservationOrder'[x] = reservationOrder[x]
      BY <1>1, <2>2
    <3>2. reservationOrder[x] # NoOrderId =>
            /\ reservationOrder[x] \in Order /\ reservationOrder[x] # o
            /\ order'[reservationOrder[x]] = order[reservationOrder[x]]
      BY <1>2, <2>2 DEF CheckoutInv, CheckoutTypeOK, LinkFits
    <3> QED
      BY <3>1, <3>2 DEF CheckoutInv, LinkFits, OrderExists, Status
  <2> QED
    BY <2>1, <2>2
<1>9. ASSUME NEW g \in Handler
      PROVE  RequestFits(tx[g])' /\ CallbackFits(tx[g])'
  <2>1. CASE g = h
    BY <1>3, <2>1 DEF RequestFits, CallbackFits, OrderReply, Idle
  <2>2. CASE g # h
    <3>1. RequestFits(tx[g]) /\ CallbackFits(tx[g]) /\ tx'[g] = tx[g]
      BY <1>3, <2>2 DEF CheckoutInv
    <3>2. tx[g].step \in {"check", "write"} \cup OrderReply =>
            tx[g].request.reservation \in Reservation /\ tx[g].request.order \in Order
      BY TxByStep DEF CheckoutInv, OrderTx, OrderRequest
    <3>3. \A p \in Order : OrderExists(p) =>
            /\ order'[p].status # "none" /\ order'[p].reservation = order[p].reservation
            /\ order'[p].provider = order[p].provider
      BY DEF OrderExists
    <3>4. RequestFits(tx[g])'
      BY <1>6, <3>1, <3>2, <3>3, RequestStays DEF OrderReply
    <3>5. ASSUME tx[g].step = "webhook"
          PROVE  /\ payment'[tx[g].order] = payment[tx[g].order]
                 /\ reservation'[tx[g].reservation] = reservation[tx[g].reservation]
      <4>1. /\ tx[g].order \in Order /\ tx[g].reservation \in Reservation
            /\ reservationOrder[tx[g].reservation] = tx[g].order
        BY <3>5, CallbackOrder
      <4>2. tx[g].order # o
        BY <1>1, <2>2, <3>5 DEF CheckoutInv, CallbacksAlone
      <4> QED
        BY <1>2, <4>1, <4>2
    <3>6. CallbackFits(tx[g])'
      BY <1>1, <1>4, <3>1, <3>5, CallbackStays DEF Active, Status
    <3> QED
      BY <3>4, <3>6
  <2> QED
    BY <2>1, <2>2
<1>10. CallbacksAlone'
  BY <1>3 DEF CheckoutInv, CallbacksAlone, Idle
<1> QED
  BY <1>5, <1>7, <1>8, <1>9, <1>10 DEF CheckoutInv

\* The rows a callback writes, all of its own order.
LEMMA SettlementTyped ==
  ASSUME CheckoutInv, NEW h \in Handler, WebhookCommit(h),
         NEW o \in Order, OrderExists(o), NEW e \in Event,
         NEW st \in {"issued", "failed", "refund_required"}, NEW paid \in {"succeeded", "failed"},
         Settle(o, st, paid, e), tickets' \in [Order -> 0 .. MaxQuantity]
  PROVE  /\ CheckoutTypeOK'
         /\ order'[o].status = st /\ order'[o].reservation = order[o].reservation
         /\ order'[o].provider = order[o].provider
         /\ payment'[o].status = paid
         /\ \A p \in Order \ {o} : order'[p] = order[p] /\ payment'[p] = payment[p]
<1> DEFINE Statuses == {"pending_payment", "issued", "failed", "expired", "refund_required"}
           Rows == [status : Statuses, reservation : Reservation, provider : Provider]
           Payments == [status : {"none", "created", "succeeded", "failed"},
                        hash : Event \cup {NoHash}]
<1>1. /\ tx[h].step = "webhook" /\ tx' = [tx EXCEPT ![h] = Idle]
      /\ log' = [log EXCEPT ![tx[h].hash] =
           IF tx[h].outcome = "reject" THEN "rejected" ELSE "processed"]
      /\ UNCHANGED <<reservationOrder, reported>>
  BY DEF WebhookCommit
<1>3. order \in [Order -> Rows \cup {NoOrder}] /\ payment \in [Order -> Payments]
  BY DEF CheckoutInv, CheckoutTypeOK
<1>4. order' = [order EXCEPT ![o].status = st]
      /\ payment' = [payment EXCEPT ![o] = [status |-> paid, hash |-> e]]
  BY DEF Settle
<1>5. order[o] \in Rows
  BY <1>3 DEF OrderExists, NoOrder
<1>6. order'[o] = [order[o] EXCEPT !.status = st]
  BY <1>3, <1>4
<1>7. /\ order'[o] \in Rows
      /\ order'[o].status = st /\ order'[o].reservation = order[o].reservation
      /\ order'[o].provider = order[o].provider
  BY <1>5, <1>6
<1>8. [status |-> paid, hash |-> e] \in Payments
  OBVIOUS
<1>9. payment'[o].status = paid
  BY <1>3, <1>4
<1>10. \A p \in Order \ {o} : order'[p] = order[p] /\ payment'[p] = payment[p]
  BY <1>3, <1>4
<1>11. order' \in [Order -> Rows \cup {NoOrder}]
  <2>1. order' = [order EXCEPT ![o] = order'[o]]
    BY <1>3, <1>4, <1>6
  <2> HIDE DEF Rows
  <2> QED
    BY <1>3, <1>7, <2>1
<1>12. payment' \in [Order -> Payments]
  <2> HIDE DEF Payments
  <2> QED
    BY <1>3, <1>4, <1>8
<1>13. log' \in [Event -> {"none", "processed", "rejected"}]
       /\ tx' \in [Handler -> {Idle} \cup OrderTx \cup PaymentTx]
  BY <1>1 DEF CheckoutInv, CheckoutTypeOK
<1>14. CheckoutTypeOK'
  BY <1>1, <1>11, <1>12, <1>13 DEF CheckoutInv, CheckoutTypeOK
<1> QED
  BY <1>7, <1>9, <1>10, <1>14

LEMMA WebhookCommitKeeps ==
  ASSUME CheckoutInv, NEW h \in Handler, WebhookCommit(h)
  PROVE  CheckoutInv'
<1> PICK a : a = tx[h]
  OBVIOUS
<1> PICK o, r : o = a.order /\ r = a.reservation
  OBVIOUS
<1>1. /\ tx[h].step = "webhook" /\ a.step = "webhook" /\ Apply(a)
      /\ UNCHANGED <<lapsed, saleOpen, requestVars, selected, reservationOrder, reported>>
  BY DEF WebhookCommit
<1>2. /\ o \in Order /\ r \in Reservation /\ reservationOrder[r] = o
      /\ OrderExists(o) /\ order[o].reservation = r /\ Exists(r) /\ a.hash \in Event
  BY <1>1, CallbackOrder DEF PaymentTx
<1>3. CallbackFits(a) /\ OrderFits(o) /\ LinkFits(r) /\ o \in OrdersFor(r)
  BY <1>2 DEF CheckoutInv, OrderFits
<1>4. reservation \in [Reservation -> Row \cup {NoReservation}] /\ reservation[r] \in Row
  BY <1>2 DEF CheckoutInv, IInv, TypeOK, Exists, Status, NoReservation
<1>5. order[o].status # "issued" => tickets[o] = 0
  BY <1>3 DEF OrderFits
<1>6. tickets \in [Order -> 0 .. MaxQuantity] /\ 0 \in 0 .. MaxQuantity
  BY LimitAssumption DEF CheckoutInv, CheckoutTypeOK
<1>7. CASE a.outcome = "confirm" /\ Confirm(a)
  <2> PICK q : q = reservation[r].quantity
    OBVIOUS
  <2>1. Pending(o)
    BY <1>1, <1>2, <1>3, <1>7 DEF CallbackFits, OrderFits, Active, Pending, Status
  <2>2. q \in 1 .. MaxQuantity
    BY <1>4 DEF Row
  <2>3. tickets' = [tickets EXCEPT ![o] = q]
    <3>1. tickets' = [tickets EXCEPT ![o] = IF @ < q THEN q ELSE @]
      BY <1>7 DEF Confirm
    <3>2. tickets[o] < q /\ q \in 0 .. MaxQuantity
      BY <1>5, <2>1, <2>2, LimitAssumption DEF Pending
    <3> QED
      BY <1>2, <1>6, <3>1, <3>2
  <2>4. /\ tickets' \in [Order -> 0 .. MaxQuantity] /\ tickets'[o] = q
        /\ \A p \in Order \ {o} : tickets'[p] = tickets[p]
    BY <1>2, <1>6, <2>2, <2>3, LimitAssumption
  <2>5. reservation' = [reservation EXCEPT ![r].status = "confirmed"]
    BY <1>7 DEF Confirm, SellHold
  <2>6. reservation'[r].status = "confirmed" /\ reservation'[r].quantity = q
    BY <1>2, <1>4, <2>5 DEF Row
  <2>7. \A x \in Reservation \ {r} : reservation'[x] = reservation[x]
    BY <1>4, <2>5
  <2>8. Settle(o, "issued", "succeeded", a.hash)
    BY <1>7 DEF Confirm
  <2>9. /\ CheckoutTypeOK'
        /\ order'[o].status = "issued" /\ order'[o].reservation = r
        /\ order'[o].provider = order[o].provider
        /\ payment'[o].status = "succeeded"
        /\ \A p \in Order \ {o} : order'[p] = order[p] /\ payment'[p] = payment[p]
    BY <1>2, <2>4, <2>8, SettlementTyped
  <2>10. <<o, "succeeded">> \in reported' /\ reservationOrder'[r] = o
    BY <1>1, <1>2, <1>3, <1>7 DEF CallbackFits
  <2>11. OrderFits(o)'
    BY <1>2, <1>3, <2>4, <2>6, <2>9, <2>10 DEF OrderFits, OrderExists, Exists, Status
  <2>12. LinkFits(r)'
    BY <1>2, <2>9, <2>10, OrderIsSome DEF LinkFits, OrderExists
  <2> QED
    BY <1>2, <2>4, <2>7, <2>9, <2>11, <2>12, SettlingKeeps
<1>8. CASE a.outcome = "refund" /\ Refund(a)
  <2>1. order[o].status \in {"pending_payment", "expired"}
    BY <1>1, <1>2, <1>3, <1>8 DEF CallbackFits, OrderFits
  <2>2. tickets' = tickets /\ tickets[o] = 0
    BY <1>5, <1>8, <2>1 DEF Refund
  <2>3. /\ reservation'[r].status = "expired"
        /\ \A x \in Reservation \ {r} : reservation'[x] = reservation[x]
    <3>1. CASE a.held
      <4>1. reservation' = [x \in Reservation |->
              IF x \in {r} THEN [reservation[x] EXCEPT !.status = "expired"] ELSE reservation[x]]
        BY <1>8, <3>1 DEF Refund, ReleaseHolds
      <4> QED
        BY <1>2, <1>4, <4>1 DEF Row
    <3>2. CASE ~a.held
      <4>1. reservation' = reservation
        BY <1>8, <3>2 DEF Refund, ledgerVars
      <4>2. ~Active(r)
        BY <1>1, <1>3, <1>8, <3>2 DEF CallbackFits
      <4>3. Status(r) # "confirmed"
        BY <1>2, <1>3, <2>1, OrderIsSome DEF LinkFits
      <4>4. Status(r) \in {"active", "confirmed", "expired"}
        BY <1>4 DEF Row, Status
      <4> QED
        BY <4>1, <4>2, <4>3, <4>4 DEF Active, Status
    <3> QED
      BY <3>1, <3>2
  <2>4. Settle(o, "refund_required", "succeeded", a.hash)
    BY <1>8 DEF Refund
  <2>5. /\ CheckoutTypeOK'
        /\ order'[o].status = "refund_required" /\ order'[o].reservation = r
        /\ order'[o].provider = order[o].provider
        /\ payment'[o].status = "succeeded"
        /\ \A p \in Order \ {o} : order'[p] = order[p] /\ payment'[p] = payment[p]
    BY <1>2, <1>6, <2>2, <2>4, SettlementTyped
  <2>6. <<o, "succeeded">> \in reported' /\ reservationOrder'[r] = o
    BY <1>1, <1>2, <1>3, <1>8 DEF CallbackFits
  <2>7. OrderFits(o)'
    BY <1>2, <1>3, <2>2, <2>3, <2>5, <2>6 DEF OrderFits, OrderExists, Exists, Status
  <2>8. LinkFits(r)'
    BY <1>2, <2>3, <2>5, <2>6 DEF LinkFits, OrderExists, Status
  <2> QED
    BY <1>2, <2>2, <2>3, <2>5, <2>7, <2>8, SettlingKeeps
<1>9. CASE a.outcome = "fail" /\ Fail(a)
  <2>1. order[o].status \notin {"issued", "refund_required"}
    BY <1>1, <1>3, <1>9 DEF CallbackFits, OrderFits
  <2>2. tickets' = tickets /\ tickets[o] = 0 /\ reservation' = reservation
    BY <1>5, <1>9, <2>1 DEF Fail, ledgerVars
  <2>3. Settle(o, "failed", "failed", a.hash)
    BY <1>9 DEF Fail
  <2>4. /\ CheckoutTypeOK'
        /\ order'[o].status = "failed" /\ order'[o].reservation = r
        /\ order'[o].provider = order[o].provider
        /\ payment'[o].status = "failed"
        /\ \A p \in Order \ {o} : order'[p] = order[p] /\ payment'[p] = payment[p]
    BY <1>2, <1>6, <2>2, <2>3, SettlementTyped
  <2>5. reservationOrder'[r] = o
    BY <1>1, <1>2
  <2>6. OrderFits(o)'
    BY <1>2, <1>3, <2>2, <2>4, <2>5 DEF OrderFits, OrderExists, Exists, Status
  <2>7. Status(r) # "confirmed"
    BY <1>2, <1>3, <2>1, OrderIsSome DEF LinkFits
  <2>8. LinkFits(r)'
    BY <1>2, <2>2, <2>4, <2>5, <2>7 DEF LinkFits, OrderExists, Status
  <2> QED
    BY <1>2, <2>2, <2>4, <2>6, <2>8, SettlingKeeps
<1>10. CASE a.outcome \in {"replay", "reject"} /\ UNCHANGED <<ledgerVars, order, payment, tickets>>
  <2>1. UNCHANGED <<reservation, order, payment, tickets>>
    BY <1>10 DEF ledgerVars
  <2>2. /\ log' \in [Event -> {"none", "processed", "rejected"}]
        /\ tx' \in [Handler -> {Idle} \cup OrderTx \cup PaymentTx]
    BY <1>1 DEF CheckoutInv, CheckoutTypeOK, WebhookCommit
  <2>3. CheckoutTypeOK'
    BY <1>1, <2>1, <2>2 DEF CheckoutInv, CheckoutTypeOK
  <2>4. OrderFits(o)'
    BY <1>1, <1>3, <2>1 DEF OrderFits, OrderExists, Exists, Status
  <2>5. LinkFits(r)'
    BY <1>1, <1>3, <2>1 DEF LinkFits, OrderExists, Status
  <2> QED
    BY <1>2, <2>1, <2>3, <2>4, <2>5, SettlingKeeps DEF OrderExists
<1> QED
  BY <1>1, <1>7, <1>8, <1>9, <1>10 DEF Apply

-----------------------------------------------------------------------------
(* The theorems                                                            *)

LEMMA CheckoutInvStep ==
  OneKeyPerHold /\ CheckoutInv /\ [CheckoutNext]_checkoutVars => CheckoutInv'
<1> SUFFICES ASSUME OneKeyPerHold, CheckoutInv, [CheckoutNext]_checkoutVars
             PROVE  CheckoutInv'
  OBVIOUS
<1>1. CASE InventoryStep
  BY <1>1, InventoryStepKeeps
<1>2. ASSUME NEW w \in Worker, ExpireWithOrders(w)
      PROVE  CheckoutInv'
  BY <1>2, ExpireWithOrdersKeeps
<1>3. ASSUME NEW o \in Order, NEW v \in Verdict, ProviderReports(o, v)
      PROVE  CheckoutInv'
  BY <1>3, ProviderReportsKeeps
<1>4. ASSUME NEW h \in Handler, OrderLookup(h) \/ OrderCheck(h)
      PROVE  CheckoutInv'
  BY <1>4, OrderLookupKeeps, OrderCheckKeeps
<1>5. ASSUME NEW h \in Handler, OrderWrite(h)
      PROVE  CheckoutInv'
  BY <1>5, OrderWriteKeeps
<1>6. ASSUME NEW h \in Handler, OrderReturn(h) \/ CheckoutAbort(h)
      PROVE  CheckoutInv'
  BY <1>6, BackToIdle
<1>7. ASSUME NEW h \in Handler, WebhookLoad(h) \/ WebhookCommit(h)
      PROVE  CheckoutInv'
  BY <1>7, WebhookLoadKeeps, WebhookCommitKeeps
<1>8. CASE UNCHANGED checkoutVars
  <2> USE <1>8 DEF checkoutVars, checkoutOnly, paymentVars
  <2>1. IInv'
    BY InvStep DEF CheckoutInv
  <2>2. UNCHANGED <<reservation, lapsed>>
    BY DEF inventoryVars, ledgerVars
  <2>3. CheckoutTypeOK' /\ CallbacksAlone'
    BY DEF CheckoutInv, CheckoutTypeOK, CallbacksAlone
  <2>4. \A o \in Order : OrderFits(o)'
    BY <2>2 DEF CheckoutInv, OrderFits, OrderExists, Exists, Status
  <2>5. \A r \in Reservation : LinkFits(r)'
    BY <2>2 DEF CheckoutInv, LinkFits, OrderExists, Status
  <2>6. \A h \in Handler : RequestFits(tx[h])' /\ CallbackFits(tx[h])'
    BY <2>2 DEF CheckoutInv, RequestFits, CallbackFits, OrderExists, Exists, Active, Status
  <2> QED
    BY <2>1, <2>3, <2>4, <2>5, <2>6 DEF CheckoutInv
<1> QED
  BY <1>1, <1>2, <1>3, <1>4, <1>5, <1>6, <1>7, <1>8 DEF CheckoutNext

\* CheckoutInv holds in every reachable state.
LEMMA CheckoutInvariance == OneKeyPerHold => (CheckoutSpec => []CheckoutInv)
<1> SUFFICES ASSUME OneKeyPerHold PROVE CheckoutSpec => []CheckoutInv
  OBVIOUS
<1>1. CheckoutInv /\ [CheckoutNext]_checkoutVars => CheckoutInv'
  BY CheckoutInvStep
<1> QED
  BY CheckoutInitInv, <1>1, PTL DEF CheckoutSpec

\* Every step of the checkout is a step of the ledger or leaves it alone.
LEMMA CheckoutRefines ==
  CheckoutInv /\ [CheckoutNext]_checkoutVars => [Next]_inventoryVars
<1> SUFFICES ASSUME CheckoutInv, [CheckoutNext]_checkoutVars
             PROVE  [Next]_inventoryVars
  OBVIOUS
<1>1. CASE InventoryStep
  BY <1>1 DEF InventoryStep, Next
<1>2. ASSUME NEW w \in Worker, ExpireWithOrders(w)
      PROVE  [Next]_inventoryVars
  BY <1>2 DEF ExpireWithOrders, Next
<1>3. ASSUME NEW h \in Handler, WebhookCommit(h)
      PROVE  [Next]_inventoryVars
  BY <1>3, WebhookCommitRefines
<1>4. ASSUME NEW o \in Order, NEW v \in Verdict, ProviderReports(o, v)
      PROVE  UNCHANGED inventoryVars
  BY <1>4 DEF ProviderReports
<1>5. ASSUME NEW h \in Handler,
             \/ OrderLookup(h) \/ OrderCheck(h) \/ OrderWrite(h) \/ OrderReturn(h)
             \/ WebhookLoad(h) \/ CheckoutAbort(h)
      PROVE  UNCHANGED inventoryVars
  BY <1>5 DEF OrderLookup, OrderCheck, OrderWrite, OrderReturn, WebhookLoad, Deliver,
              WebhookReads, CheckoutAbort
<1>6. CASE UNCHANGED checkoutVars
  BY <1>6 DEF checkoutVars
<1> QED
  BY <1>1, <1>2, <1>3, <1>4, <1>5, <1>6 DEF CheckoutNext

\* Every table and every request in flight keeps its type.
THEOREM CheckoutTyped == OneKeyPerHold => (CheckoutSpec => []CheckoutTypeOK)
<1> SUFFICES ASSUME OneKeyPerHold PROVE CheckoutSpec => []CheckoutTypeOK
  OBVIOUS
<1>1. CheckoutInv => CheckoutTypeOK
  BY DEF CheckoutInv
<1> QED
  BY <1>1, CheckoutInvariance, PTL

\* The checkout does to the ledger what Inventory allows and nothing else:
\* callbacks that read the reservation without a lock, retries, late results,
\* crashes and the worker's expiry of orders included.
THEOREM CheckoutImplementsInventory ==
  OneKeyPerHold => (CheckoutSpec => ImplementsInventory)
<1> SUFFICES ASSUME OneKeyPerHold PROVE CheckoutSpec => ImplementsInventory
  OBVIOUS
<1>1. CheckoutInit => Init
  BY DEF CheckoutInit
<1>2. CheckoutInv /\ [CheckoutNext]_checkoutVars => [Next]_inventoryVars
  BY CheckoutRefines
<1> QED
  BY <1>1, <1>2, CheckoutInvariance, PTL DEF CheckoutSpec, ImplementsInventory, Spec

\* What was proved of the ledger therefore holds of the whole checkout: no
\* ticket type is ever promised beyond its capacity.
THEOREM CheckoutNeverOversold == OneKeyPerHold => (CheckoutSpec => []NoOversell)
<1> SUFFICES ASSUME OneKeyPerHold PROVE CheckoutSpec => []NoOversell
  OBVIOUS
<1> QED
  BY CheckoutImplementsInventory, NeverOversold, PTL DEF ImplementsInventory

\* What a buyer is told, what the order says, the tickets, the seats and the
\* money agree at all times.
THEOREM OrdersAlwaysAgree == OneKeyPerHold => (CheckoutSpec => []OrdersAgree)
<1> SUFFICES ASSUME OneKeyPerHold PROVE CheckoutSpec => []OrdersAgree
  OBVIOUS
<1>1. CheckoutInv => OrdersAgree
  <2> SUFFICES ASSUME CheckoutInv PROVE OrdersAgree
    OBVIOUS
  <2>1. OrderReplyIsTrue
    <3> SUFFICES ASSUME NEW h \in Handler, tx[h].step \in {"created", "replayed"}
                 PROVE  /\ order[tx[h].request.order].reservation = tx[h].request.reservation
                        /\ order[tx[h].request.order].provider = tx[h].request.provider
                        /\ reservationOrder[tx[h].request.reservation] = tx[h].request.order
      BY DEF OrderReplyIsTrue
    <3>1. RequestFits(tx[h]) /\ tx[h].request.order \in Order
      BY TxByStep DEF CheckoutInv, OrderTx, OrderRequest, OrderReply
    <3>2. /\ OrderExists(tx[h].request.order)
          /\ order[tx[h].request.order].reservation = tx[h].request.reservation
          /\ order[tx[h].request.order].provider = tx[h].request.provider
      BY <3>1 DEF RequestFits
    <3>3. OrderFits(tx[h].request.order)
      BY <3>1 DEF CheckoutInv
    <3> QED
      BY <3>2, <3>3 DEF OrderFits
  <2>2. ASSUME NEW o \in Order, tickets[o] > 0 \/ order[o].status = "issued"
        PROVE  Sold(o)
    <3>1. OrderFits(o)
      BY DEF CheckoutInv
    <3>2. order[o].status = "issued"
      <4>1. order[o].status # "issued" => tickets[o] = 0
        BY <3>1 DEF OrderFits
      <4> QED
        BY <2>2, <4>1
    <3>3. payment[o].status = "succeeded"
      BY <3>1, <3>2 DEF OrderFits
    <3>4. /\ Status(order[o].reservation) = "confirmed"
          /\ tickets[o] = reservation[order[o].reservation].quantity
      BY <3>1, <3>2 DEF OrderFits
    <3> QED
      BY <3>2, <3>3, <3>4 DEF Sold
  <2>3. ASSUME NEW r \in Reservation, Status(r) = "confirmed"
        PROVE  \E o \in Order : /\ order[o].reservation = r /\ Sold(o)
                                /\ \A p \in Order : p # o /\ order[p].reservation = r => tickets[p] = 0
    <3> PICK o : o = reservationOrder[r]
      OBVIOUS
    <3>1. /\ o \in Order /\ order[o].reservation = r /\ order[o].status = "issued"
      BY <2>3 DEF CheckoutInv, CheckoutTypeOK, LinkFits
    <3>2. Sold(o)
      BY <2>2, <3>1
    <3>3. ASSUME NEW p \in Order, p # o, order[p].reservation = r
          PROVE  tickets[p] = 0
      BY <3>3 DEF CheckoutInv, OrderFits, OrderExists
    <3> QED
      BY <3>1, <3>2, <3>3
  <2>4. TicketsMatchSales
    BY <2>2, <2>3 DEF TicketsMatchSales
  <2>5. MoneyMatchesOrders
    <3> SUFFICES ASSUME NEW o \in Order
                 PROVE  /\ payment[o].status = "succeeded" <=> order[o].status \in {"issued", "refund_required"}
                        /\ payment[o].status = "failed" <=> order[o].status = "failed"
                        /\ order[o].status = "refund_required" => Status(order[o].reservation) = "expired"
                        /\ payment[o].status = "succeeded" => <<o, "succeeded">> \in reported
      BY DEF MoneyMatchesOrders
    <3> QED
      BY DEF CheckoutInv, OrderFits
  <2> QED
    BY <2>1, <2>4, <2>5 DEF OrdersAgree
<1> QED
  BY <1>1, CheckoutInvariance, PTL

-----------------------------------------------------------------------------
(* How orders move, and what a callback delivered again does               *)

\* What the writes of a callback do to its order.
LEMMA CommitMovesOrder ==
  ASSUME CheckoutInv, NEW h \in Handler, WebhookCommit(h), NEW o \in Order, order'[o] # order[o]
  PROVE  <<order[o].status, order'[o].status>> \in OrderEdge
<1> PICK a : a = tx[h]
  OBVIOUS
<1>1. tx[h].step = "webhook" /\ a.step = "webhook" /\ Apply(a) /\ CallbackFits(a)
  BY DEF WebhookCommit, CheckoutInv
<1>2. a.order \in Order /\ OrderExists(a.order) /\ OrderFits(a.order)
  BY <1>1, CallbackOrder DEF CheckoutInv
<1>3. order \in [Order -> [status : {"pending_payment", "issued", "failed", "expired",
                                     "refund_required"},
                           reservation : Reservation, provider : Provider] \cup {NoOrder}]
  BY DEF CheckoutInv, CheckoutTypeOK
<1>4. PICK st \in {"issued", "failed", "refund_required"} :
        /\ order' = [order EXCEPT ![a.order].status = st]
        /\ st = "issued" => a.outcome = "confirm"
        /\ st = "refund_required" => a.outcome = "refund"
        /\ st = "failed" => a.outcome = "fail"
  BY <1>1 DEF Apply, Confirm, Refund, Fail, Settle
<1>5. o = a.order /\ order'[o] = [order[o] EXCEPT !.status = st]
  BY <1>2, <1>3, <1>4
<1>6. order[o] \in [status : {"pending_payment", "issued", "failed", "expired", "refund_required"},
                    reservation : Reservation, provider : Provider]
  BY <1>2, <1>3, <1>5 DEF OrderExists, NoOrder
<1>7. order'[o].status = st /\ order[o].status # st
  BY <1>5, <1>6
<1>8. CASE st = "issued"
  <2>1. Status(a.reservation) = "active" /\ payment[o].status = "created"
    BY <1>1, <1>4, <1>5, <1>8 DEF CallbackFits, Active
  <2>2. order[o].reservation = a.reservation
    BY <1>1, <1>5, CallbackOrder
  <2>3. order[o].status = "pending_payment"
    BY <1>2, <1>5, <2>1, <2>2 DEF OrderFits
  <2> QED
    BY <1>7, <1>8, <2>3 DEF OrderEdge
<1>9. CASE st = "refund_required"
  <2>1. payment[o].status = "created"
    BY <1>1, <1>4, <1>5, <1>9 DEF CallbackFits
  <2>2. order[o].status \in {"pending_payment", "expired"}
    BY <1>2, <1>5, <2>1 DEF OrderFits
  <2> QED
    BY <1>7, <1>9, <2>2 DEF OrderEdge
<1>10. CASE st = "failed"
  <2>1. payment[o].status # "succeeded"
    BY <1>1, <1>4, <1>5, <1>10 DEF CallbackFits
  <2>2. order[o].status \in {"pending_payment", "expired"}
    BY <1>2, <1>5, <1>6, <1>7, <1>10, <2>1 DEF OrderFits
  <2> QED
    BY <1>7, <1>10, <2>2 DEF OrderEdge
<1> QED
  BY <1>8, <1>9, <1>10

\* No order ever leaves the edges of its state machine: what is issued, failed
\* or to be refunded stays so, however late a callback or the worker is.
THEOREM OrderLifecycleHolds == OneKeyPerHold => (CheckoutSpec => OrderLifecycle)
<1> SUFFICES ASSUME OneKeyPerHold PROVE CheckoutSpec => OrderLifecycle
  OBVIOUS
<1> DEFINE Moves == \A o \in Order :
                      order'[o] # order[o] => <<order[o].status, order'[o].status>> \in OrderEdge
<1>1. CheckoutInv /\ [CheckoutNext]_checkoutVars => [Moves]_checkoutVars
  <2> SUFFICES ASSUME CheckoutInv, CheckoutNext, NEW o \in Order, order'[o] # order[o]
               PROVE  <<order[o].status, order'[o].status>> \in OrderEdge
    OBVIOUS
  <2>1. order \in [Order -> [status : {"pending_payment", "issued", "failed", "expired",
                                       "refund_required"},
                             reservation : Reservation, provider : Provider] \cup {NoOrder}]
    BY DEF CheckoutInv, CheckoutTypeOK
  <2>2. ASSUME NEW w \in Worker, ExpireWithOrders(w)
        PROVE  Pending(o) /\ order'[o] = [order[o] EXCEPT !.status = "expired"]
    BY <2>2 DEF ExpireWithOrders, PendingOrdersOf
  <2>3. ASSUME NEW w \in Worker, ExpireWithOrders(w)
        PROVE  order[o].status = "pending_payment" /\ order'[o].status = "expired"
    BY <2>1, <2>2, <2>3 DEF Pending, NoOrder
  <2>4. ASSUME NEW h \in Handler, OrderWrite(h)
        PROVE  order[o].status = "none" /\ order'[o].status = "pending_payment"
    <3>1. ~OrderExists(o) /\ order' = [order EXCEPT ![o] =
            [status |-> "pending_payment", reservation |-> tx[h].request.reservation,
             provider |-> tx[h].request.provider]]
      BY <2>1, <2>4 DEF OrderWrite
    <3> QED
      BY <2>1, <3>1 DEF OrderExists
  <2>5. ASSUME NEW h \in Handler, WebhookCommit(h)
        PROVE  <<order[o].status, order'[o].status>> \in OrderEdge
    BY <2>5, CommitMovesOrder
  <2>6. ASSUME NEW h \in Handler,
               \/ OrderLookup(h) \/ OrderCheck(h) \/ OrderReturn(h)
               \/ WebhookLoad(h) \/ CheckoutAbort(h)
        PROVE  FALSE
    BY <2>6 DEF OrderLookup, OrderCheck, OrderReturn, WebhookLoad, Deliver, WebhookReads,
                CheckoutAbort
  <2>7. ASSUME InventoryStep \/ \E p \in Order, v \in Verdict : ProviderReports(p, v)
        PROVE  FALSE
    BY <2>7 DEF InventoryStep, checkoutOnly, ProviderReports
  <2> QED
    BY <2>3, <2>4, <2>5, <2>6, <2>7 DEF CheckoutNext, OrderEdge
<1> QED
  BY <1>1, CheckoutInvariance, PTL DEF CheckoutSpec, OrderLifecycle

Settled(o) == payment[o].status \in {"succeeded", "failed"}

\* An event that was processed has settled its payment, and a payment that is
\* settled stays settled.
EventsSettle ==
  /\ \A o \in Order : payment[o].hash # NoHash => Settled(o)
  /\ \A e \in Event : log[e] = "processed" => Settled(OrderOf(e))
  /\ \A h \in Handler : tx[h].step = "webhook" /\ tx[h].outcome = "replay" => Settled(tx[h].order)

\* What the writes of a callback do to payments.
LEMMA CommitSettles ==
  ASSUME CheckoutInv, EventsSettle, NEW h \in Handler, WebhookCommit(h)
  PROVE  /\ \A o \in Order : /\ Settled(o) => Settled(o)'
                             /\ payment'[o].hash # NoHash => Settled(o)'
         /\ tx[h].outcome # "reject" => payment'[tx[h].order].status \in {"succeeded", "failed"}
<1> PICK a : a = tx[h]
  OBVIOUS
<1>1. tx[h].step = "webhook" /\ a.step = "webhook" /\ Apply(a) /\ a.order \in Order
  BY CallbackOrder DEF WebhookCommit
<1>2. payment \in [Order -> [status : {"none", "created", "succeeded", "failed"},
                             hash : Event \cup {NoHash}]]
  BY DEF CheckoutInv, CheckoutTypeOK
<1>3. ASSUME NEW paid \in {"succeeded", "failed"},
             payment' = [payment EXCEPT ![a.order] = [status |-> paid, hash |-> a.hash]]
      PROVE  /\ payment'[a.order].status \in {"succeeded", "failed"}
             /\ \A o \in Order \ {a.order} : payment'[o] = payment[o]
  BY <1>1, <1>2, <1>3
<1>4. CASE a.outcome \in {"confirm", "refund", "fail"}
  <2>1. \E paid \in {"succeeded", "failed"} :
          payment' = [payment EXCEPT ![a.order] = [status |-> paid, hash |-> a.hash]]
    BY <1>1, <1>4 DEF Apply, Confirm, Refund, Fail, Settle
  <2>2. /\ payment'[a.order].status \in {"succeeded", "failed"}
        /\ \A o \in Order \ {a.order} : payment'[o] = payment[o]
    BY <1>3, <2>1
  <2> QED
    BY <2>2 DEF EventsSettle, Settled
<1>5. CASE a.outcome \in {"replay", "reject"} /\ payment' = payment
  BY <1>1, <1>5 DEF EventsSettle, Settled
<1> QED
  BY <1>1, <1>4, <1>5 DEF Apply

LEMMA EventsSettleStep ==
  CheckoutInv /\ EventsSettle /\ [CheckoutNext]_checkoutVars => EventsSettle'
<1> SUFFICES ASSUME CheckoutInv, EventsSettle, [CheckoutNext]_checkoutVars
             PROVE  EventsSettle'
  OBVIOUS
<1>1. CASE UNCHANGED <<payment, log, tx>>
  BY <1>1 DEF EventsSettle, Settled
<1>2. ASSUME NEW h \in Handler, UNCHANGED <<payment, log>>,
             tx' = [tx EXCEPT ![h] = tx'[h]],
             tx'[h].step = "webhook" /\ tx'[h].outcome = "replay" =>
               payment[tx'[h].order].status \in {"succeeded", "failed"}
      PROVE  EventsSettle'
  <2>1. \A g \in Handler \ {h} : tx'[g] = tx[g]
    BY <1>2 DEF CheckoutInv, CheckoutTypeOK
  <2> QED
    BY <1>2, <2>1 DEF EventsSettle, Settled
<1>3. ASSUME NEW h \in Handler, OrderLookup(h)
      PROVE  EventsSettle'
  <2>1. PICK b \in OrderRequest :
          tx' = [tx EXCEPT ![h] =
                   [step |-> IF OrderExists(b.order) THEN DuplicateReply(b) ELSE "check",
                    request |-> b]]
    BY <1>3 DEF OrderLookup
  <2>2. tx'[h] = [step |-> IF OrderExists(b.order) THEN DuplicateReply(b) ELSE "check",
                  request |-> b]
    BY <2>1 DEF CheckoutInv, CheckoutTypeOK
  <2>3. tx'[h].step # "webhook"
    BY <2>2 DEF DuplicateReply
  <2>4. tx' = [tx EXCEPT ![h] = tx'[h]]
    BY <2>1, <2>2
  <2> QED
    BY <1>2, <1>3, <2>3, <2>4 DEF OrderLookup, paymentVars
<1>4. ASSUME NEW h \in Handler, OrderReturn(h) \/ CheckoutAbort(h)
      PROVE  EventsSettle'
  <2>1. tx' = [tx EXCEPT ![h] = tx'[h]] /\ tx'[h].step # "webhook"
    BY <1>4 DEF OrderReturn, CheckoutAbort, CheckoutInv, CheckoutTypeOK, Idle
  <2> QED
    BY <1>2, <1>4, <2>1 DEF OrderReturn, CheckoutAbort, paymentVars
<1>5. ASSUME NEW h \in Handler, OrderCheck(h)
      PROVE  EventsSettle'
  <2>1. PICK st \in {"write", "refused"} : tx' = [tx EXCEPT ![h].step = st]
    BY <1>5 DEF OrderCheck
  <2>2. tx[h] \in OrderTx
    BY <1>5, TxByStep DEF OrderCheck, CheckoutInv
  <2>3. tx'[h] = [tx[h] EXCEPT !.step = st] /\ tx' = [tx EXCEPT ![h] = tx'[h]]
    BY <2>1 DEF CheckoutInv, CheckoutTypeOK
  <2>4. tx'[h].step # "webhook"
    BY <2>2, <2>3 DEF OrderTx
  <2> QED
    BY <1>2, <1>5, <2>3, <2>4 DEF OrderCheck, paymentVars
<1>6. ASSUME NEW h \in Handler, OrderWrite(h)
      PROVE  EventsSettle'
  <2> PICK b : b = tx[h].request
    OBVIOUS
  <2>1. tx[h] \in OrderTx /\ b.order \in Order /\ log' = log
    BY <1>6, TxByStep DEF OrderWrite, CheckoutInv, OrderTx, OrderRequest
  <2>2. PICK st \in {"replayed", "duplicate_request_conflict", "created"} :
          tx' = [tx EXCEPT ![h].step = st]
    BY <1>6 DEF OrderWrite, DuplicateReply
  <2>3. tx'[h] = [tx[h] EXCEPT !.step = st] /\ \A g \in Handler \ {h} : tx'[g] = tx[g]
    BY <2>2 DEF CheckoutInv, CheckoutTypeOK
  <2>4. tx'[h].step # "webhook"
    BY <2>1, <2>3 DEF OrderTx
  <2>5. \A o \in Order : payment'[o].hash = payment[o].hash /\ (Settled(o) => payment'[o] = payment[o])
    <3>1. CASE payment' = payment
      BY <3>1
    <3>2. CASE ~OrderExists(b.order) /\ payment' = [payment EXCEPT ![b.order].status = "created"]
      <4>1. /\ payment'[b.order] = [payment[b.order] EXCEPT !.status = "created"]
            /\ \A o \in Order \ {b.order} : payment'[o] = payment[o]
        BY <2>1, <3>2 DEF CheckoutInv, CheckoutTypeOK
      <4>2. payment'[b.order].hash = payment[b.order].hash
        BY <2>1, <4>1 DEF CheckoutInv, CheckoutTypeOK
      <4>3. ~Settled(b.order)
        BY <2>1, <3>2 DEF CheckoutInv, OrderFits, OrderExists, Settled
      <4> QED
        BY <4>1, <4>2, <4>3
    <3> QED
      BY <1>6, <3>1, <3>2 DEF OrderWrite
  <2>6. \A e \in Event : OrderOf(e) \in Order
    BY DEF Event, OrderOf
  <2>7. \A g \in Handler : tx[g].step = "webhook" => tx[g].order \in Order
    BY CallbackOrder
  <2>8. \A o \in Order : Settled(o) => Settled(o)'
    BY <2>5 DEF Settled
  <2>9. \A o \in Order : payment'[o].hash # NoHash => Settled(o)'
    BY <2>5, <2>8 DEF EventsSettle
  <2>10. \A e \in Event : log'[e] = "processed" => Settled(OrderOf(e))'
    <3>1. \A e \in Event : log[e] = "processed" => Settled(OrderOf(e))
      BY DEF EventsSettle
    <3> QED
      BY <2>1, <2>6, <2>8, <3>1 DEF Settled, OrderOf
  <2>11. \A g \in Handler : tx'[g].step = "webhook" /\ tx'[g].outcome = "replay" =>
           payment'[tx'[g].order].status \in {"succeeded", "failed"}
    BY <2>3, <2>4, <2>7, <2>8 DEF EventsSettle, Settled
  <2> QED
    BY <2>9, <2>10, <2>11 DEF EventsSettle, Settled
<1>7. ASSUME NEW h \in Handler, WebhookLoad(h)
      PROVE  EventsSettle'
  <2>1. PICK e \in Event, sound \in Soundness : Deliver(h, e, sound)
    BY <1>7 DEF WebhookLoad
  <2>2. UNCHANGED <<payment, log>>
    BY <2>1 DEF Deliver, WebhookReads, paymentVars
  <2>3. PICK r \in Linked(OrderOf(e)) :
          tx' = [tx EXCEPT ![h] =
            [step |-> "webhook", order |-> OrderOf(e), reservation |-> r, hash |-> e,
             outcome |-> WebhookOutcome(e, r, sound), held |-> Active(r)]]
    BY <2>1 DEF Deliver, WebhookReads
  <2>4. /\ tx'[h].order = OrderOf(e) /\ tx'[h].outcome = WebhookOutcome(e, r, sound)
        /\ tx' = [tx EXCEPT ![h] = tx'[h]]
    BY <2>3 DEF CheckoutInv, CheckoutTypeOK
  <2>5. OrderOf(e) \in Order
    BY DEF Event, OrderOf
  <2>6. WebhookOutcome(e, r, sound) = "replay" => Settled(OrderOf(e))
    <3>1. WebhookOutcome(e, r, sound) = "replay" =>
            payment[OrderOf(e)].hash = e \/ payment[OrderOf(e)].status = "succeeded"
      BY DEF WebhookOutcome, ConfirmOutcome
    <3>2. e # NoHash
      BY DEF Event, NoHash
    <3> QED
      BY <2>5, <3>1, <3>2 DEF EventsSettle, Settled
  <2> QED
    BY <1>2, <2>2, <2>4, <2>6 DEF Settled
<1>8. ASSUME NEW h \in Handler, WebhookCommit(h)
      PROVE  EventsSettle'
  <2> PICK a : a = tx[h]
    OBVIOUS
  <2>1. /\ \A o \in Order : /\ Settled(o) => Settled(o)'
                            /\ payment'[o].hash # NoHash => Settled(o)'
        /\ a.outcome # "reject" => payment'[a.order].status \in {"succeeded", "failed"}
    BY <1>8, CommitSettles
  <2>2. /\ tx[h].step = "webhook" /\ a.order = OrderOf(a.hash)
        /\ tx' = [tx EXCEPT ![h] = Idle]
        /\ log' = [log EXCEPT ![a.hash] = IF a.outcome = "reject" THEN "rejected" ELSE "processed"]
    BY <1>8 DEF WebhookCommit, CheckoutInv, CallbackFits
  <2>3. \A e \in Event : OrderOf(e) \in Order
    BY DEF Event, OrderOf
  <2>4. \A e \in Event : log'[e] = "processed" =>
          log[e] = "processed" \/ (e = a.hash /\ a.outcome # "reject")
    BY <2>2 DEF CheckoutInv, CheckoutTypeOK
  <2>5. tx'[h] = Idle /\ \A g \in Handler \ {h} : tx'[g] = tx[g]
    BY <2>2 DEF CheckoutInv, CheckoutTypeOK
  <2>6. \A g \in Handler : tx[g].step = "webhook" => tx[g].order \in Order
    BY CallbackOrder
  <2>7. \A e \in Event : log'[e] = "processed" => Settled(OrderOf(e))'
    BY <2>1, <2>2, <2>3, <2>4 DEF EventsSettle, Settled
  <2>8. \A g \in Handler : tx'[g].step = "webhook" /\ tx'[g].outcome = "replay" =>
          payment'[tx'[g].order].status \in {"succeeded", "failed"}
    BY <2>1, <2>5, <2>6 DEF EventsSettle, Settled, Idle
  <2> QED
    BY <2>1, <2>7, <2>8 DEF EventsSettle, Settled
<1>9. ASSUME NEW w \in Worker, ExpireWithOrders(w)
      PROVE  EventsSettle'
  BY <1>1, <1>9 DEF ExpireWithOrders, paymentVars
<1>10. CASE InventoryStep \/ (\E o \in Order, v \in Verdict : ProviderReports(o, v))
            \/ UNCHANGED checkoutVars
  BY <1>1, <1>10 DEF InventoryStep, ProviderReports, checkoutVars, checkoutOnly, paymentVars
<1> QED
  BY <1>3, <1>4, <1>5, <1>6, <1>7, <1>8, <1>9, <1>10 DEF CheckoutNext

\* A callback delivered again, after its event was processed, changes neither
\* the ledger nor its order nor the tickets.
THEOREM RedeliveryIsHarmless == OneKeyPerHold => (CheckoutSpec => RedeliveryChangesNothing)
<1> SUFFICES ASSUME OneKeyPerHold PROVE CheckoutSpec => RedeliveryChangesNothing
  OBVIOUS
<1> DEFINE Harmless ==
             \A h \in Handler :
               (tx[h].step = "webhook" /\ tx'[h] = Idle /\ log[tx[h].hash] = "processed") =>
                 /\ UNCHANGED <<ledgerVars, tickets>>
                 /\ order'[tx[h].order] = order[tx[h].order]
<1>1. CheckoutInit => EventsSettle
  BY DEF CheckoutInit, EventsSettle, Idle, NoHash
<1>2. CheckoutInv /\ EventsSettle /\ [CheckoutNext]_checkoutVars => [Harmless]_checkoutVars
  <2> SUFFICES ASSUME CheckoutInv, EventsSettle, CheckoutNext, NEW h \in Handler,
                      tx[h].step = "webhook", tx'[h] = Idle, log[tx[h].hash] = "processed"
               PROVE  /\ UNCHANGED <<ledgerVars, tickets>>
                      /\ order'[tx[h].order] = order[tx[h].order]
    OBVIOUS
  <2> PICK a : a = tx[h]
    OBVIOUS
  <2>1. /\ a \in PaymentTx /\ a.step = "webhook" /\ a.order \in Order /\ a.hash \in Event
        /\ CallbackFits(a) /\ OrderFits(a.order)
    BY CallbackOrder DEF CheckoutInv, PaymentTx
  <2>2. Settled(a.order)
    BY <2>1 DEF EventsSettle, CallbackFits
  <2>3. ~(a.outcome \in {"confirm", "refund"})
    BY <2>1, <2>2 DEF CallbackFits, Settled
  <2>4. CASE WebhookCommit(h)
    <3>1. CASE a.outcome = "fail" /\ Fail(a)
      <4>1. order[a.order].status = "failed"
        BY <2>1, <2>2, <3>1 DEF CallbackFits, OrderFits, Settled
      <4>2. order' = [order EXCEPT ![a.order].status = "failed"]
        BY <3>1 DEF Fail, Settle
      <4>3. order[a.order] \in [status : {"pending_payment", "issued", "failed", "expired",
                                          "refund_required"},
                                reservation : Reservation, provider : Provider]
        BY <2>1, <4>1 DEF CheckoutInv, CheckoutTypeOK, NoOrder
      <4>4. order'[a.order] = [order[a.order] EXCEPT !.status = "failed"]
        BY <2>1, <4>2 DEF CheckoutInv, CheckoutTypeOK
      <4>5. order'[a.order] = order[a.order]
        BY <4>1, <4>3, <4>4
      <4> QED
        BY <3>1, <4>5 DEF Fail
    <3>2. CASE UNCHANGED <<ledgerVars, order, payment, tickets>>
      BY <3>2
    <3> QED
      BY <2>3, <2>4, <3>1, <3>2 DEF WebhookCommit, Apply
  <2>5. CASE CheckoutAbort(h)
    BY <2>5 DEF CheckoutAbort, inventoryVars, paymentVars
  <2>6. ASSUME NEW g \in Handler, g # h,
               \/ OrderLookup(g) \/ OrderCheck(g) \/ OrderWrite(g) \/ OrderReturn(g)
               \/ WebhookLoad(g) \/ WebhookCommit(g) \/ CheckoutAbort(g)
        PROVE  FALSE
    <3>1. tx \in [Handler -> {Idle} \cup OrderTx \cup PaymentTx]
      BY DEF CheckoutInv, CheckoutTypeOK
    <3>2. CASE OrderLookup(g)
      BY <2>6, <3>1, <3>2 DEF OrderLookup, Idle
    <3>3. CASE OrderCheck(g)
      BY <2>6, <3>1, <3>3 DEF OrderCheck, Idle
    <3>4. CASE OrderWrite(g)
      BY <2>6, <3>1, <3>4 DEF OrderWrite, Idle
    <3>5. CASE OrderReturn(g) \/ CheckoutAbort(g) \/ WebhookCommit(g)
      BY <2>6, <3>1, <3>5 DEF OrderReturn, CheckoutAbort, WebhookCommit, Idle
    <3>6. CASE WebhookLoad(g)
      BY <2>6, <3>1, <3>6 DEF WebhookLoad, Deliver, WebhookReads, Idle
    <3> QED
      BY <2>6, <3>2, <3>3, <3>4, <3>5, <3>6
  <2>7. ASSUME OrderLookup(h) \/ OrderCheck(h) \/ OrderWrite(h) \/ OrderReturn(h) \/ WebhookLoad(h)
        PROVE  FALSE
    <3>1. tx[h].step \in {"idle", "check", "write"} \cup OrderReply
      <4>1. Idle.step = "idle"
        BY DEF Idle
      <4>2. OrderLookup(h) \/ WebhookLoad(h) => tx[h] = Idle
        BY DEF OrderLookup, WebhookLoad, Deliver, WebhookReads
      <4>3. OrderCheck(h) => tx[h].step = "check"
        BY DEF OrderCheck
      <4>4. OrderWrite(h) => tx[h].step = "write"
        BY DEF OrderWrite
      <4>5. OrderReturn(h) => tx[h].step \in OrderReply
        BY DEF OrderReturn
      <4> QED
        BY <2>7, <4>1, <4>2, <4>3, <4>4, <4>5
    <3> QED
      BY <3>1 DEF OrderReply
  <2>8. ASSUME \/ InventoryStep
               \/ \E w \in Worker : ExpireWithOrders(w)
               \/ \E p \in Order, v \in Verdict : ProviderReports(p, v)
        PROVE  FALSE
    <3>1. tx' = tx
      BY <2>8 DEF InventoryStep, checkoutOnly, ExpireWithOrders, ProviderReports
    <3> QED
      BY <3>1 DEF Idle
  <2> QED
    BY <2>4, <2>5, <2>6, <2>7, <2>8 DEF CheckoutNext
<1>3. EventsSettle /\ CheckoutInv /\ [CheckoutNext]_checkoutVars => EventsSettle'
  BY EventsSettleStep
<1> QED
  BY <1>1, <1>2, <1>3, CheckoutInvariance, PTL DEF CheckoutSpec, RedeliveryChangesNothing

-----------------------------------------------------------------------------
(* The book of orders                                                      *)

LEMMA BookInitially == CheckoutInit => Book!BookInit
<1> SUFFICES ASSUME CheckoutInit PROVE Book!BookInit  OBVIOUS
<1> USE DEF CheckoutInit
<1>1. [o \in Order |-> Entry(o)] = [o \in Order |-> Book!Unplaced]
  BY DEF Entry, NoOrder, Book!Unplaced
<1>2. [r \in Reservation |-> SeatsHeld(r)] = [r \in Reservation |-> Book!Untaken]
  BY DEF SeatsHeld, Status, Init, NoReservation, Book!Untaken
<1>3. lapsed = {} /\ ReportedAs("succeeded") = {} /\ ReportedAs("failed") = {}
  BY DEF Init, ReportedAs
<1>4. [o \in Order |-> payment[o].status] = [o \in Order |-> "none"]
  OBVIOUS
<1> QED
  BY <1>1, <1>2, <1>3, <1>4 DEF Book!BookInit

\* What the book says depends on these variables and no others.
LEMMA BookStays ==
  ASSUME UNCHANGED <<order, payment, tickets, reservation, lapsed, reported>>
  PROVE  UNCHANGED Book!bookVars
  BY DEF Book!bookVars, Entry, SeatsHeld, Status, ReportedAs

\* The reservations and the clock: a hold is taken, or it lapses.
LEMMA InventoryStepOfBook ==
  ASSUME CheckoutInv, InventoryStep
  PROVE  [Book!BookNext]_(Book!bookVars)
<1>1. UNCHANGED <<order, payment, tickets, reported>>
  BY DEF InventoryStep, checkoutOnly, paymentVars
<1>2. /\ [o \in Order |-> Entry(o)]' = [o \in Order |-> Entry(o)]
      /\ [o \in Order |-> payment[o].status]' = [o \in Order |-> payment[o].status]
      /\ ReportedAs("succeeded")' = ReportedAs("succeeded")
      /\ ReportedAs("failed")' = ReportedAs("failed")
  BY <1>1 DEF Entry, ReportedAs
<1>3. CASE UNCHANGED <<reservation, lapsed>>
  BY <1>1, <1>3, BookStays
<1>4. ASSUME NEW c \in Client, Reserve(c), ReserveOutcome(call[c]) = "created"
      PROVE  \E h \in Reservation : Book!Take(h)
  <2> PICK a : a = call[c]
    OBVIOUS
  <2>1. a \in Call /\ reservation \in [Reservation -> Row \cup {NoReservation}]
    BY <1>4 DEF Reserve, CheckoutInv, IInv, TypeOK
  <2>2. /\ reservation' = [reservation EXCEPT ![a.id] =
             [status |-> "active", ticketType |-> a.ticketType, quantity |-> a.quantity]]
        /\ ~Exists(a.id) /\ UNCHANGED lapsed
    BY <1>4 DEF Reserve, ReserveOutcome, Hold
  <2>3. a.id \in Reservation /\ a.quantity \in 1 .. MaxQuantity
    BY <2>1 DEF Call
  <2>4. SeatsHeld(a.id) = Book!Untaken
    <3>1. reservation[a.id] = NoReservation
      BY <2>1, <2>2, <2>3 DEF Exists, Status, Row
    <3> QED
      BY <3>1 DEF SeatsHeld, Status, NoReservation, Book!Untaken
  <2>5. SeatsHeld(a.id)' = [status |-> "active", seats |-> a.quantity]
    BY <2>1, <2>2, <2>3 DEF SeatsHeld, Status
  <2>6. \A r \in Reservation \ {a.id} : SeatsHeld(r)' = SeatsHeld(r)
    BY <2>1, <2>2, <2>3 DEF SeatsHeld, Status
  <2>7. [r \in Reservation |-> SeatsHeld(r)]' =
          [[r \in Reservation |-> SeatsHeld(r)] EXCEPT ![a.id] =
             [status |-> "active", seats |-> a.quantity]]
    BY <2>3, <2>5, <2>6
  <2> QED
    BY <1>1, <1>2, <2>2, <2>3, <2>4, <2>7 DEF Book!Take
<1>5. ASSUME NEW r \in Reservation, Lapse(r)
      PROVE  Book!Lapse(r)
  <2>1. Status(r) # "none" /\ lapsed' = lapsed \cup {r} /\ UNCHANGED reservation
    BY <1>5 DEF Lapse, Exists, ledgerVars
  <2>2. [x \in Reservation |-> SeatsHeld(x)]' = [x \in Reservation |-> SeatsHeld(x)]
    BY <2>1 DEF SeatsHeld, Status
  <2>3. [x \in Reservation |-> SeatsHeld(x)][r].status = Status(r)
    BY DEF SeatsHeld
  <2> QED
    BY <1>1, <1>2, <2>1, <2>2, <2>3 DEF Book!Lapse
<1>6. CASE \E c \in Client :
              Lookup(c) \/ Begin(c) \/ Recover(c) \/ RequestFails(c) \/ Return(c)
  BY <1>3, <1>6 DEF Lookup, Begin, Recover, RequestFails, Return, ledgerVars
<1>7. ASSUME NEW c \in Client, Reserve(c), ReserveOutcome(call[c]) # "created"
      PROVE  UNCHANGED <<reservation, lapsed>>
  BY <1>7 DEF Reserve, ledgerVars
<1>8. CASE \/ \E t \in TicketType : SaleEnds(t)
           \/ \E w \in Worker : ExpireSelect(w) \/ ExpireAbort(w)
  BY <1>3, <1>8 DEF SaleEnds, ExpireSelect, ExpireAbort, ledgerVars
<1> QED
  BY <1>3, <1>4, <1>5, <1>6, <1>7, <1>8 DEF InventoryStep, Book!BookNext

\* The worker ends the holds it has selected, which are over, and the pending
\* orders linked to them, which are those of the book.
LEMMA ExpiryOfBook ==
  ASSUME CheckoutInv, NEW w \in Worker, ExpireWithOrders(w)
  PROVE  \E H \in SUBSET Reservation : Book!End(H)
<1> DEFINE S == {r \in selected[w] : Active(r)}
           E == PendingOrdersOf(S)
<1>1. /\ ExpireCommit(w)
      /\ order' = [o \in Order |->
           IF o \in E THEN [order[o] EXCEPT !.status = "expired"] ELSE order[o]]
      /\ UNCHANGED <<reservationOrder, paymentVars, reported, tx>>
  BY DEF ExpireWithOrders
<1>2. S \subseteq Reservation /\ \A r \in S : Active(r) /\ r \in lapsed
  BY DEF CheckoutInv, IInv, TypeOK, SelectionIsExclusive
<1>3. ASSUME NEW r \in Reservation
      PROVE  SeatsHeld(r)' = IF r \in S THEN [SeatsHeld(r) EXCEPT !.status = "expired"]
                                        ELSE SeatsHeld(r)
  <2>1. reservation'[r] =
          IF r \in S THEN [reservation[r] EXCEPT !.status = "expired"] ELSE reservation[r]
    BY <1>1 DEF ExpireCommit, ReleaseHolds
  <2>2. r \in S => reservation[r] \in Row
    BY DEF CheckoutInv, IInv, TypeOK, Active, Status, NoReservation
  <2> QED
    BY <2>1, <2>2 DEF SeatsHeld, Status, Row
<1>4. ASSUME NEW o \in Order
      PROVE  o \in E <=> Pending(o) /\ order[o].reservation \in S
  <2>1. ASSUME o \in E
        PROVE  order[o].reservation \in S
    <3>1. PICK r \in S : reservationOrder[r] = o
      BY <2>1 DEF PendingOrdersOf
    <3>2. order[o].reservation = r
      BY <1>2, <3>1, OrderIsSome DEF CheckoutInv, LinkFits
    <3> QED
      BY <3>1, <3>2
  <2>2. Pending(o) => reservationOrder[order[o].reservation] = o
    BY DEF CheckoutInv, OrderFits, OrderExists, Pending
  <2> QED
    BY <2>1, <2>2 DEF PendingOrdersOf
<1>5. ASSUME NEW o \in Order
      PROVE  Entry(o)' = IF Pending(o) /\ order[o].reservation \in S
                         THEN [Entry(o) EXCEPT !.status = "expired"] ELSE Entry(o)
  <2>1. order'[o] = IF o \in E THEN [order[o] EXCEPT !.status = "expired"] ELSE order[o]
    BY <1>1
  <2>2. o \in E => order[o] \in [status : {"pending_payment", "issued", "failed", "expired",
                                           "refund_required"},
                                 reservation : Reservation, provider : Provider]
    BY <1>4 DEF CheckoutInv, CheckoutTypeOK, Pending, NoOrder
  <2> HIDE DEF E, S
  <2> QED
    BY <1>4, <2>1, <2>2 DEF Entry
<1> HIDE DEF S, E
<1>6. Book!End(S)
  <2>1. \A r \in S : SeatsHeld(r).status = "active" /\ r \in lapsed
    BY <1>2 DEF SeatsHeld, Active
  <2>2. \A o \in Order : Entry(o).status = order[o].status /\ Entry(o).hold = order[o].reservation
    BY DEF Entry
  <2>3. [r \in Reservation |-> SeatsHeld(r)]' =
          [r \in Reservation |-> IF r \in S THEN [SeatsHeld(r) EXCEPT !.status = "expired"]
                                            ELSE SeatsHeld(r)]
    BY <1>3
  <2>4. ASSUME NEW o \in Order
        PROVE  (o \in Book!OrdersOf(S) /\ Entry(o).status = "pending_payment")
                 <=> (Pending(o) /\ order[o].reservation \in S)
    BY <2>2 DEF Book!OrdersOf, Pending
  <2>5. [o \in Order |-> Entry(o)]' =
          [o \in Order |-> IF o \in Book!OrdersOf(S) /\ Entry(o).status = "pending_payment"
                          THEN [Entry(o) EXCEPT !.status = "expired"] ELSE Entry(o)]
    BY <1>5, <2>4
  <2>6. UNCHANGED <<lapsed, payment, tickets, reported>>
    BY <1>1 DEF ExpireCommit, paymentVars
  <2> QED
    BY <1>2, <2>1, <2>3, <2>5, <2>6 DEF Book!End, Book!Held, ReportedAs
<1> QED
  BY <1>2, <1>6

\* An order that is written is the first of its hold: any other would have
\* the same key.
LEMMA OrderWriteOfBook ==
  ASSUME OneKeyPerHold, CheckoutInv, NEW h \in Handler, OrderWrite(h)
  PROVE  [Book!BookNext]_(Book!bookVars)
<1> PICK a : a = tx[h].request
  OBVIOUS
<1> PICK o, r : o = a.order /\ r = a.reservation
  OBVIOUS
<1>1. tx[h].step = "write" /\ tx[h] \in OrderTx /\ RequestFits(tx[h])
  BY TxByStep DEF OrderWrite, CheckoutInv, OrderTx
<1>2. o \in OrdersFor(r) /\ Exists(r) /\ o \in Order /\ r \in Reservation
  BY <1>1 DEF RequestFits, OrderTx, OrderRequest
<1>3. UNCHANGED <<reservation, lapsed, tickets, reported>>
  BY DEF OrderWrite, inventoryVars, ledgerVars
<1>4. CASE OrderExists(o)
  <2>1. UNCHANGED <<order, payment>>
    BY <1>4 DEF OrderWrite
  <2> QED
    BY <1>3, <2>1, BookStays
<1>5. CASE ~OrderExists(o)
  <2>1. /\ order' = [order EXCEPT ![o] = [status |-> "pending_payment", reservation |-> r,
                                         provider |-> a.provider]]
        /\ payment' = [payment EXCEPT ![o].status = "created"]
    BY <1>5 DEF OrderWrite
  <2>2. order[o] = NoOrder
    BY <1>2, <1>5 DEF CheckoutInv, CheckoutTypeOK, OrderExists
  <2>3. \A p \in Order : order[p].status = "none" \/ order[p].reservation # r
    <3> SUFFICES ASSUME NEW p \in Order, OrderExists(p), order[p].reservation = r
                 PROVE  FALSE
      BY DEF OrderExists
    <3>1. p \in OrdersFor(r)
      BY DEF CheckoutInv, OrderFits
    <3> QED
      BY <1>2, <1>5, <3>1 DEF OneKeyPerHold, OrdersFor
  <2>4. [p \in Order |-> Entry(p)]' =
          [[p \in Order |-> Entry(p)] EXCEPT ![o] = [status |-> "pending_payment", hold |-> r]]
    <3>1. Entry(o)' = [status |-> "pending_payment", hold |-> r]
      BY <1>2, <2>1 DEF Entry, CheckoutInv, CheckoutTypeOK
    <3>2. \A p \in Order \ {o} : Entry(p)' = Entry(p)
      BY <2>1 DEF Entry, CheckoutInv, CheckoutTypeOK
    <3> QED
      BY <1>2, <3>1, <3>2
  <2>5. [p \in Order |-> payment[p].status]' =
          [[p \in Order |-> payment[p].status] EXCEPT ![o] = "created"]
    <3>1. payment'[o].status = "created" /\ \A p \in Order \ {o} : payment'[p] = payment[p]
      BY <1>2, <2>1 DEF CheckoutInv, CheckoutTypeOK
    <3> QED
      BY <1>2, <3>1
  <2>6. Entry(o) = Book!Unplaced
    BY <2>2 DEF Entry, NoOrder, Book!Unplaced
  <2>7. SeatsHeld(r).status # "none"
    BY <1>2 DEF SeatsHeld, Exists
  <2>8. Book!OrdersOf({r}) = {}
    BY <2>3 DEF Book!OrdersOf, Entry
  <2>9. UNCHANGED <<lapsed, tickets, ReportedAs("succeeded"), ReportedAs("failed"),
                    [x \in Reservation |-> SeatsHeld(x)]>>
    BY <1>3 DEF ReportedAs, SeatsHeld, Status
  <2>10. Book!Place(o, r)
    BY <1>2, <2>4, <2>5, <2>6, <2>7, <2>8, <2>9 DEF Book!Place
  <2> QED
    BY <1>2, <2>10 DEF Book!BookNext
<1> QED
  BY <1>4, <1>5

\* The provider takes the money for an order, or refuses it.
LEMMA ReportOfBook ==
  ASSUME CheckoutInv, NEW o \in Order, NEW v \in Verdict, ProviderReports(o, v)
  PROVE  Book!Capture(o) \/ Book!Decline(o)
<1>1. /\ OrderExists(o) /\ reported' = reported \cup {<<o, v>>}
      /\ UNCHANGED <<reservation, lapsed, order, payment, tickets>>
  BY DEF ProviderReports, inventoryVars, ledgerVars, paymentVars
<1>2. UNCHANGED <<[p \in Order |-> Entry(p)], [r \in Reservation |-> SeatsHeld(r)],
                  [p \in Order |-> payment[p].status], lapsed, tickets>>
  BY <1>1 DEF Entry, SeatsHeld, Status
<1>3. Entry(o).status # "none"
  BY <1>1 DEF Entry, OrderExists
<1>4. \A x \in Verdict : ReportedAs(x)' = IF x = v THEN ReportedAs(x) \cup {o} ELSE ReportedAs(x)
  BY <1>1 DEF ReportedAs
<1>5. CASE v = "succeeded"
  BY <1>2, <1>3, <1>4, <1>5 DEF Book!Capture, Verdict
<1>6. CASE v = "failed"
  BY <1>2, <1>3, <1>4, <1>6 DEF Book!Decline, Verdict
<1> QED
  BY <1>5, <1>6 DEF Verdict

\* What the writes of a callback do to its order, in the book's words.
LEMMA SettleOfBook ==
  ASSUME CheckoutInv, NEW o \in Order, OrderExists(o), NEW e,
         NEW st, NEW paid, Settle(o, st, paid, e)
  PROVE  Book!Becomes(o, st, paid)
<1>1. /\ order' = [order EXCEPT ![o].status = st]
      /\ payment' = [payment EXCEPT ![o] = [status |-> paid, hash |-> e]]
  BY DEF Settle
<1>2. order[o] \in [status : {"pending_payment", "issued", "failed", "expired", "refund_required"},
                   reservation : Reservation, provider : Provider]
  BY DEF CheckoutInv, CheckoutTypeOK, OrderExists, NoOrder
<1>3. order'[o] = [order[o] EXCEPT !.status = st] /\ payment'[o].status = paid
  BY <1>1 DEF CheckoutInv, CheckoutTypeOK
<1>4. \A p \in Order \ {o} : order'[p] = order[p] /\ payment'[p] = payment[p]
  BY <1>1 DEF CheckoutInv, CheckoutTypeOK
<1>5. Entry(o)' = [Entry(o) EXCEPT !.status = st]
  BY <1>2, <1>3 DEF Entry
<1>6. \A p \in Order \ {o} : Entry(p)' = Entry(p)
  BY <1>4 DEF Entry
<1>7. [p \in Order |-> Entry(p)]' = [[p \in Order |-> Entry(p)] EXCEPT ![o].status = st]
  BY <1>5, <1>6
<1>8. [p \in Order |-> payment[p].status]' =
        [[p \in Order |-> payment[p].status] EXCEPT ![o] = paid]
  BY <1>3, <1>4
<1> QED
  BY <1>7, <1>8 DEF Book!Becomes

\* What they do to its hold.
LEMMA HoldOfBook ==
  ASSUME CheckoutInv, NEW r \in Reservation, Exists(r), NEW st,
         \A x \in Reservation :
           reservation'[x] = IF x = r THEN [reservation[x] EXCEPT !.status = st] ELSE reservation[x]
  PROVE  [x \in Reservation |-> SeatsHeld(x)]' =
           [[x \in Reservation |-> SeatsHeld(x)] EXCEPT ![r].status = st]
<1>1. reservation[r] \in Row
  BY DEF CheckoutInv, IInv, TypeOK, Exists, Status, NoReservation
<1>2. SeatsHeld(r)' = [SeatsHeld(r) EXCEPT !.status = st]
  <2>1. reservation'[r] = [reservation[r] EXCEPT !.status = st]
    OBVIOUS
  <2>2. reservation'[r].status = st /\ reservation'[r].quantity = reservation[r].quantity
    BY <1>1, <2>1 DEF Row
  <2> QED
    BY <2>2 DEF SeatsHeld, Status
<1>3. \A x \in Reservation \ {r} : SeatsHeld(x)' = SeatsHeld(x)
  BY DEF SeatsHeld, Status
<1> QED
  BY <1>2, <1>3

\* The writes of a callback are those of the book, because what it has decided
\* still fits: the seats it sells are held and its order is open, whatever has
\* happened since it looked.
LEMMA CommitOfBook ==
  ASSUME CheckoutInv, NEW h \in Handler, WebhookCommit(h)
  PROVE  [Book!BookNext]_(Book!bookVars)
<1> PICK a : a = tx[h]
  OBVIOUS
<1> PICK o, r : o = a.order /\ r = a.reservation
  OBVIOUS
<1>1. /\ tx[h].step = "webhook" /\ a.step = "webhook" /\ Apply(a)
      /\ UNCHANGED <<lapsed, reported>>
  BY DEF WebhookCommit
<1>2. /\ o \in Order /\ r \in Reservation
      /\ OrderExists(o) /\ order[o].reservation = r /\ Exists(r)
  BY <1>1, CallbackOrder
<1>3. CallbackFits(a) /\ OrderFits(o) /\ LinkFits(r) /\ reservationOrder[r] = o
  BY <1>1, <1>2, CallbackOrder DEF CheckoutInv
<1>4. reservation \in [Reservation -> Row \cup {NoReservation}] /\ reservation[r] \in Row
  BY <1>2 DEF CheckoutInv, IInv, TypeOK, Exists, Status, NoReservation
<1>5. /\ ReportedAs("succeeded")' = ReportedAs("succeeded")
      /\ ReportedAs("failed")' = ReportedAs("failed")
      /\ o \in ReportedAs(VerdictOf(a.hash))
  BY <1>1, <1>2, <1>3 DEF ReportedAs, CallbackFits
<1>6. /\ Entry(o).status = order[o].status /\ Entry(o).hold = r
      /\ SeatsHeld(r).status = Status(r) /\ SeatsHeld(r).seats = reservation[r].quantity
  BY <1>2 DEF Entry, SeatsHeld
<1>7. CASE a.outcome = "confirm" /\ Confirm(a)
  <2>1. Active(r) /\ payment[o].status = "created"
    BY <1>1, <1>3, <1>7 DEF CallbackFits
  <2>2. order[o].status = "pending_payment" /\ tickets[o] = 0
    BY <1>2, <1>3, <2>1 DEF OrderFits, Active
  <2>3. VerdictOf(a.hash) = "succeeded"
    BY <1>1, <1>3, <1>7 DEF CallbackFits
  <2>4. tickets' = [tickets EXCEPT ![o] = reservation[r].quantity]
    <3>1. reservation[r].quantity \in 1 .. MaxQuantity
      BY <1>4 DEF Row
    <3>2. tickets[o] < reservation[r].quantity
      BY <2>2, <3>1, LimitAssumption
    <3>3. tickets' = [tickets EXCEPT ![o] =
            IF @ < reservation[r].quantity THEN reservation[r].quantity ELSE @]
      BY <1>7 DEF Confirm
    <3> QED
      BY <1>2, <3>2, <3>3 DEF CheckoutInv, CheckoutTypeOK
  <2>5. Book!Becomes(o, "issued", "succeeded")
    BY <1>2, <1>7, SettleOfBook DEF Confirm
  <2>6. \A x \in Reservation : reservation'[x] =
          IF x = r THEN [reservation[x] EXCEPT !.status = "confirmed"] ELSE reservation[x]
    BY <1>4, <1>7 DEF Confirm, SellHold
  <2>7. [x \in Reservation |-> SeatsHeld(x)]' =
          [[x \in Reservation |-> SeatsHeld(x)] EXCEPT ![r].status = "confirmed"]
    BY <1>2, <2>6, HoldOfBook
  <2>8. Book!Issue(o)
    BY <1>1, <1>2, <1>5, <1>6, <2>1, <2>2, <2>3, <2>4, <2>5, <2>7
       DEF Book!Issue, Book!Held, Active
  <2> QED
    BY <1>2, <2>8 DEF Book!BookNext
<1>8. CASE a.outcome = "refund" /\ Refund(a)
  <2>1. payment[o].status = "created" /\ VerdictOf(a.hash) = "succeeded"
    BY <1>1, <1>3, <1>8 DEF CallbackFits
  <2>2. Book!Unsettled(o)
    BY <1>2, <1>3, <1>6, <2>1 DEF OrderFits, Book!Unsettled
  <2>3. Book!Becomes(o, "refund_required", "succeeded") /\ UNCHANGED tickets
    BY <1>2, <1>8, SettleOfBook DEF Refund
  <2>4. CASE a.held
    <3>1. Active(r) /\ r \in lapsed
      BY <1>1, <1>3, <1>8, <2>4 DEF CallbackFits
    <3>2. \A x \in Reservation : reservation'[x] =
            IF x = r THEN [reservation[x] EXCEPT !.status = "expired"] ELSE reservation[x]
      BY <1>8, <2>4 DEF Refund, ReleaseHolds
    <3>3. [x \in Reservation |-> SeatsHeld(x)]' =
            [[x \in Reservation |-> SeatsHeld(x)] EXCEPT ![r].status = "expired"]
      BY <1>2, <3>2, HoldOfBook
    <3>4. Book!OweBack(o)
      BY <1>1, <1>2, <1>5, <1>6, <2>1, <2>2, <2>3, <3>1, <3>3
         DEF Book!OweBack, Book!Held, Active
    <3> QED
      BY <1>2, <3>4 DEF Book!BookNext
  <2>5. CASE ~a.held
    <3>1. Status(r) = "expired"
      <4>1. ~Active(r)
        BY <1>1, <1>3, <1>8, <2>5 DEF CallbackFits
      <4>2. Status(r) # "confirmed"
        BY <1>2, <1>3, <2>1 DEF LinkFits, OrderFits
      <4> QED
        BY <1>4, <4>1, <4>2 DEF Active, Status, Row
    <3>2. UNCHANGED reservation
      BY <1>8, <2>5 DEF Refund, ledgerVars
    <3>3. UNCHANGED [x \in Reservation |-> SeatsHeld(x)]
      BY <3>2 DEF SeatsHeld, Status
    <3>4. Book!OweBack(o)
      BY <1>1, <1>2, <1>5, <1>6, <2>1, <2>2, <2>3, <3>1, <3>3 DEF Book!OweBack
    <3> QED
      BY <1>2, <3>4 DEF Book!BookNext
  <2> QED
    BY <2>4, <2>5
<1>9. CASE a.outcome = "fail" /\ Fail(a)
  <2>1. payment[o].status # "succeeded" /\ UNCHANGED <<reservation, tickets>>
    BY <1>1, <1>3, <1>9 DEF CallbackFits, Fail, ledgerVars
  <2>2. Book!Becomes(o, "failed", "failed")
    BY <1>2, <1>9, SettleOfBook DEF Fail
  <2>3. UNCHANGED [x \in Reservation |-> SeatsHeld(x)]
    BY <2>1 DEF SeatsHeld, Status
  <2>4. CASE order[o].status = "failed"
    <3>1. \A p \in Order : order'[p] = order[p] /\ payment'[p].status = payment[p].status
      <4>1. payment[o].status = "failed"
        BY <1>3, <2>4 DEF OrderFits
      <4>2. order[o] \in [status : {"pending_payment", "issued", "failed", "expired",
                                   "refund_required"},
                         reservation : Reservation, provider : Provider]
        BY <1>2 DEF CheckoutInv, CheckoutTypeOK, OrderExists, NoOrder
      <4>3. /\ order' = [order EXCEPT ![o].status = "failed"]
            /\ payment' = [payment EXCEPT ![o] = [status |-> "failed", hash |-> a.hash]]
        BY <1>9 DEF Fail, Settle
      <4> QED
        BY <1>2, <2>4, <4>1, <4>2, <4>3 DEF CheckoutInv, CheckoutTypeOK
    <3>2. UNCHANGED <<[p \in Order |-> Entry(p)], [p \in Order |-> payment[p].status]>>
      BY <3>1 DEF Entry
    <3> QED
      BY <1>1, <1>5, <2>1, <2>3, <3>2 DEF Book!bookVars
  <2>5. CASE order[o].status # "failed"
    <3>1. Book!Unsettled(o)
      <4>1. order[o].status \in {"pending_payment", "expired"}
        BY <1>2, <1>3, <2>1, <2>5 DEF OrderFits, OrderExists, CheckoutInv, CheckoutTypeOK
      <4> QED
        BY <1>2, <1>6, <4>1 DEF Book!Unsettled
    <3>2. o \in ReportedAs("failed")
      <4>1. VerdictOf(a.hash) = "failed"
        BY <1>1, <1>3, <1>9 DEF CallbackFits
      <4> QED
        BY <1>5, <4>1
    <3>3. Book!GiveUp(o)
      BY <1>1, <1>5, <2>1, <2>2, <2>3, <3>1, <3>2 DEF Book!GiveUp
    <3> QED
      BY <1>2, <3>3 DEF Book!BookNext
  <2> QED
    BY <2>4, <2>5
<1>10. CASE UNCHANGED <<ledgerVars, order, payment, tickets>>
  BY <1>1, <1>10, BookStays DEF ledgerVars
<1> QED
  BY <1>1, <1>7, <1>8, <1>9, <1>10 DEF Apply

\* Every step of the checkout is a step of the book or none.
LEMMA BookStep ==
  OneKeyPerHold /\ CheckoutInv /\ [CheckoutNext]_checkoutVars => [Book!BookNext]_(Book!bookVars)
<1> SUFFICES ASSUME OneKeyPerHold, CheckoutInv, [CheckoutNext]_checkoutVars
             PROVE  [Book!BookNext]_(Book!bookVars)
  OBVIOUS
<1>1. CASE InventoryStep
  BY <1>1, InventoryStepOfBook
<1>2. ASSUME NEW w \in Worker, ExpireWithOrders(w)
      PROVE  Book!BookNext
  BY <1>2, ExpiryOfBook DEF Book!BookNext
<1>3. ASSUME NEW o \in Order, NEW v \in Verdict, ProviderReports(o, v)
      PROVE  Book!BookNext
  BY <1>3, ReportOfBook DEF Book!BookNext
<1>4. ASSUME NEW h \in Handler, OrderWrite(h)
      PROVE  [Book!BookNext]_(Book!bookVars)
  BY <1>4, OrderWriteOfBook
<1>5. ASSUME NEW h \in Handler, WebhookCommit(h)
      PROVE  [Book!BookNext]_(Book!bookVars)
  BY <1>5, CommitOfBook
<1>6. ASSUME NEW h \in Handler,
             \/ OrderLookup(h) \/ OrderCheck(h) \/ OrderReturn(h)
             \/ WebhookLoad(h) \/ CheckoutAbort(h)
      PROVE  UNCHANGED Book!bookVars
  <2>1. UNCHANGED <<order, payment, tickets, reservation, lapsed, reported>>
    BY <1>6 DEF OrderLookup, OrderCheck, OrderReturn, WebhookLoad, Deliver, WebhookReads,
                CheckoutAbort, inventoryVars, ledgerVars, paymentVars
  <2> QED
    BY <2>1, BookStays
<1>7. CASE UNCHANGED checkoutVars
  <2>1. UNCHANGED <<order, payment, tickets, reservation, lapsed, reported>>
    BY <1>7 DEF checkoutVars, checkoutOnly, inventoryVars, ledgerVars, paymentVars
  <2> QED
    BY <2>1, BookStays
<1> QED
  BY <1>1, <1>2, <1>3, <1>4, <1>5, <1>6, <1>7 DEF CheckoutNext

\* However requests, callbacks and the worker overtake each other, what an order
\* says, its seats, its money and its tickets change together: the tables are
\* a book of orders, for any number of users, keys, callbacks and workers.
THEOREM CheckoutImplementsOrderBook ==
  OneKeyPerHold => (CheckoutSpec => ImplementsOrderBook)
<1> SUFFICES ASSUME OneKeyPerHold PROVE CheckoutSpec => ImplementsOrderBook
  OBVIOUS
<1>1. CheckoutInv /\ [CheckoutNext]_checkoutVars => [Book!BookNext]_(Book!bookVars)
  BY BookStep
<1> QED
  BY <1>1, BookInitially, CheckoutInvariance, PTL
     DEF CheckoutSpec, ImplementsOrderBook, Book!BookSpec
=============================================================================
