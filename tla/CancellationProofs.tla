------------------------- MODULE CancellationProofs -------------------------
(***************************************************************************)
(* The cancellation of a concert for every number of buyers, callbacks,    *)
(* batches and administrators: closed orders get no tickets, the seats     *)
(* counted as sold are those tickets were printed for, and who had tickets *)
(* is in the refund queue.                                                 *)
(*                                                                         *)
(* The cancellation expires reservations by a list it read before, sold    *)
(* ones included, so what the proofs about checkout and payments know of   *)
(* reservations and payments does not hold here.  What is left is that an  *)
(* order is confirmed once: a callback that will confirm it holds it, and  *)
(* holds it pending.                                                       *)
(***************************************************************************)
EXTENDS ConcertCancellation, PaymentFlowProofs

-----------------------------------------------------------------------------
(* The inductive invariant                                                 *)

Cancellation ==
  [step : {"reservations", "orders", "tickets", "write"},
   settled : SUBSET Order, holds : SUBSET Reservation,
   refund : SUBSET Order, unpaid : SUBSET Order, open : SUBSET Order, valid : SUBSET Order]

SeatTypes ==
  /\ order \in [Order -> Sale \cup {NoOrder}]
  /\ reservationOrder \in [Reservation -> Order \cup {NoOrderId}]
  /\ tickets \in [Order -> Nat]
  /\ tx \in [Handler -> {Idle} \cup OrderTx \cup PaymentTx]
  /\ soldCount \in [TicketType -> Int]
  /\ quotaPaid \in [User \X TicketType -> Int]
  /\ cancel \in [Admin -> {NoCancel} \cup Cancellation]

\* An order has a reservation of its own user.
OrderHas(o) ==
  OrderExists(o) =>
    LET r == order[o].reservation
    IN r \in Reservation /\ Exists(r) /\ o[1] = Owner(r)

\* Tickets are printed when an order stops to be pending.
Unprinted(o) == order[o].status \in {"none", "pending_payment"} => tickets[o] = 0

AsksFor(q) ==
  q.step \in {"check", "write"} =>
    q.request.order[1] = Owner(q.request.reservation) /\ Exists(q.request.reservation)

\* A callback knows the order and the reservation it is about; the order that it
\* will confirm stays pending, because the callback holds it.
Confirms(q) ==
  q.step = "webhook" =>
    /\ OrderExists(q.order) /\ order[q.order].reservation = q.reservation
    /\ q.outcome = "confirm" => Pending(q.order)

\* The cancellation knows rows that exist, and no more of them.
CancelKnows(c) ==
  c.step # "idle" =>
    /\ \A r \in c.holds : Exists(r)
    /\ \A o \in c.refund \cup c.unpaid : OrderExists(o)

SeatInv ==
  /\ RowTypes /\ SeatTypes
  /\ \A o \in Order : OrderHas(o) /\ Unprinted(o)
  /\ \A r \in Reservation : LinkHolds(r)
  /\ \A h \in Handler : AsksFor(tx[h]) /\ Confirms(tx[h])
  /\ CallbacksAlone
  /\ \A m \in Admin : CancelKnows(cancel[m])

\* The books: intents, batches and results, which the cancellation leaves alone.
BooksInv == AskInv /\ ReconInv /\ reported \subseteq Order \X Verdict

\* The tickets that are printed are finitely many, and those that were paid for.
PrintedAreSold ==
  /\ SoldSeatsHaveTickets
  /\ \A t \in TicketType : IsFiniteSet(Printed(Order, t))

CancelInv == BooksInv /\ SeatInv /\ PrintedAreSold

-----------------------------------------------------------------------------
(* When the provider decides once, and one administrator cancels           *)

DecidesOnce == ~RetryAfterFailure
OneAdmin == \A m, n \in Admin : m = n

Founded(q) ==
  q.step = "webhook" =>
    /\ q.order = OrderOf(q.hash) /\ <<q.order, VerdictOf(q.hash)>> \in reported
    /\ q.outcome = "fail" => VerdictOf(q.hash) = "failed"
    /\ q.outcome = "confirm" => VerdictOf(q.hash) = "succeeded"

Refundable(o) == order[o].status \in {"issued", "refund_required"}

\* An order that was issued when the request came is issued or in the refund
\* queue until the cancellation writes, and the cancellation knows that.
SettledIsKnown(c) ==
  c.step # "idle" =>
    /\ ~canceled
    /\ \A o \in c.settled :
         /\ ConcertOrder(o) /\ Refundable(o) /\ tickets[o] > 0
         /\ c.step \in {"tickets", "write"} =>
              /\ order[o].status = "issued" => o \in c.refund
              /\ o \notin c.unpaid
         /\ c.step = "write" => o \in c.valid \cup revoked

\* Who has tickets has paid, and a payment that succeeded has not failed.
PaidInv ==
  /\ \A o \in Order : ~(\A v \in Verdict : <<o, v>> \in reported)
  /\ \A h \in Handler : Founded(tx[h])
  /\ \A o \in Order : order[o].status = "issued" => tickets[o] > 0
  /\ \A o \in Order : tickets[o] > 0 => <<o, "succeeded">> \in reported

SettledInv == PaidInv /\ \A m \in Admin : SettledIsKnown(cancel[m])

LEMMA CancelInitInv == CancelInit => CancelInv
<1> SUFFICES ASSUME CancelInit PROVE CancelInv  OBVIOUS
<1> USE DEF CancelInit
<1>1. FlowInit
  OBVIOUS
<1>2. AskInv /\ ReconInv
  BY <1>1, FlowInitInv DEF FlowInv
<1>3. RowTypes
  BY <1>1, SaleInitInv DEF SaleInv
<1> USE DEF FlowInit, CheckoutInit
<1>4. BooksInv
  BY <1>2 DEF BooksInv
<1>5. SeatTypes
  BY DEF SeatTypes, Init
<1>6. \A o \in Order : OrderHas(o) /\ Unprinted(o)
  BY DEF OrderHas, Unprinted, OrderExists, NoOrder
<1>7. \A r \in Reservation : LinkHolds(r)
  BY DEF LinkHolds
<1>8. \A h \in Handler : AsksFor(tx[h]) /\ Confirms(tx[h])
  BY DEF AsksFor, Confirms, Idle
<1>9. CallbacksAlone
  BY DEF CallbacksAlone, Idle
<1>10. \A m \in Admin : CancelKnows(cancel[m])
  BY DEF CancelKnows, NoCancel
<1>11. SeatInv
  BY <1>3, <1>5, <1>6, <1>7, <1>8, <1>9, <1>10 DEF SeatInv
<1>12. ASSUME NEW S, S \subseteq Order, NEW t \in TicketType
       PROVE  Printed(S, t) = {}
  BY <1>12, LimitAssumption DEF Printed
<1>13. PrintedAreSold
  <2>1. \A u \in User : {o \in Order : o[1] = u} \subseteq Order
    OBVIOUS
  <2>2. Cardinality({}) = 0 /\ IsFiniteSet({})
    BY FS_EmptySet
  <2>3. /\ \A t \in TicketType : Printed(Order, t) = {}
        /\ \A u \in User, t \in TicketType : Printed({o \in Order : o[1] = u}, t) = {}
    BY <1>12, <2>1
  <2>4. /\ \A t \in TicketType : soldCount[t] = 0
        /\ \A u \in User, t \in TicketType : quotaPaid[<<u, t>>] = 0
    BY DEF Init
  <2> QED
    BY <2>2, <2>3, <2>4, Zenon DEF PrintedAreSold, SoldSeatsHaveTickets
<1> QED
  BY <1>4, <1>11, <1>13 DEF CancelInv

-----------------------------------------------------------------------------
(* The books                                                               *)

LEMMA BooksStay ==
  ASSUME BooksInv, UNCHANGED <<intentVars, leaseVars, recon, reported>>
  PROVE  BooksInv'
<1>1. AskInv'
  BY AskStays DEF BooksInv
<1>2. ReconInv'
  BY ReconStays DEF BooksInv, ReconInv, ReconTypes, leaseVars
<1> QED
  BY <1>1, <1>2 DEF BooksInv

LEMMA BooksStep ==
  ASSUME BooksInv, [CancelNext]_cancelVars
  PROVE  BooksInv'
<1>1. CASE CheckoutStep
  <2>1. UNCHANGED <<intentVars, leaseVars, recon>>
    BY <1>1 DEF CheckoutStep, flowOnly
  <2>2. /\ reported \subseteq reported' /\ reported' \subseteq Order \X Verdict
    <3>1. \/ reported' = reported
          \/ \E o \in intent, v \in Verdict : reported' = reported \cup {<<o, v>>}
      BY <1>1, Zenon DEF CheckoutStep, InventoryStep, checkoutOnly, ExpireWithOrders, ProviderReports,
        OrderLookup, OrderCheck, OrderWrite, OrderReturn, Deliver, WebhookReads, WebhookCommit,
        CheckoutAbort
    <3>2. intent \subseteq Order /\ reported \subseteq Order \X Verdict
      BY DEF BooksInv, AskInv, AskTypes
    <3> QED
      BY <3>1, <3>2
  <2>3. ReconInv'
    BY <2>1, <2>2, ReconStays DEF BooksInv, leaseVars, ReconInv, ReconTypes
  <2> QED
    BY <2>1, <2>2, <2>3, AskStays DEF BooksInv
<1>2. ASSUME NEW a \in Asker, AskStep(a)
      PROVE  BooksInv'
  <2>1. reported' = reported /\ recon' = recon
    BY <1>2, Zenon DEF AskStep, IntentLoad, IntentExpire, IntentClaim, IntentCall, IntentSave,
      IntentDoubt, IntentComplete, IntentStumbles, IntentCrash, SetStatus, checkoutVars, checkoutOnly
  <2>2. UNCHANGED leaseVars \/ ClearLease(ask[a].order)
    BY <1>2, Zenon DEF AskStep, IntentLoad, IntentExpire, IntentClaim, IntentCall, IntentSave,
      IntentDoubt, IntentComplete, IntentStumbles, IntentCrash
  <2>3. leaseOwner' \in [Order -> Reconciler \cup {NoOwner}] /\ leased' \subseteq Order
    BY <2>2 DEF ClearLease, leaseVars, BooksInv, ReconInv, ReconTypes
  <2>4. ReconInv'
    BY <2>1, <2>3, ReconStays DEF BooksInv
  <2> QED
    BY <1>2, <2>1, <2>4, AskStepKeeps DEF BooksInv
<1>3. ASSUME NEW r \in Reconciler, ReconcileStep(r)
      PROVE  BooksInv'
  BY <1>3, ReconcileKeepsBatches, ReconcileKeepsAsks DEF BooksInv
<1>4. ASSUME NEW o \in Order, LeaseRunsOut(o)
      PROVE  BooksInv'
  <2>1. /\ UNCHANGED <<intentVars, leaseOwner, recon>> /\ reported' = reported
        /\ leased' \subseteq Order
    BY <1>4 DEF LeaseRunsOut, checkoutVars, checkoutOnly, BooksInv, ReconInv, ReconTypes
  <2>2. ReconInv'
    BY <2>1, ReconStays DEF BooksInv, ReconInv, ReconTypes
  <2> QED
    BY <2>1, <2>2, AskStays DEF BooksInv
<1>5. ASSUME NEW m \in Admin, CancelStep(m)
      PROVE  UNCHANGED <<intentVars, leaseVars, recon, reported>>
  BY <1>5, Zenon DEF CancelStep, CancelBegin, CancelReadReservations, CancelReadOrders,
    CancelReadTickets, CancelWrite, CancelAbort, flowVars, flowOnly, checkoutVars, checkoutOnly
<1>6. CASE UNCHANGED cancelVars
  BY <1>6, BooksStay DEF cancelVars, flowVars, flowOnly, checkoutVars, checkoutOnly
<1> QED
  BY <1>1, <1>2, <1>3, <1>4, <1>5, <1>6, BooksStay DEF CancelNext, FlowNext

-----------------------------------------------------------------------------
(* Rows                                                                    *)

\* A row that is there stays, for the same seats.
SeatsKept(r) ==
  Exists(r) => /\ reservation'[r].status # "none"
               /\ reservation'[r].quantity = reservation[r].quantity
               /\ reservation'[r].ticketType = reservation[r].ticketType

LEMMA LedgerStepSeats ==
  ASSUME RowTypes, InventoryStep
  PROVE  /\ RowTypes' /\ \A r \in Reservation : SeatsKept(r)
         /\ UNCHANGED <<soldCount, quotaPaid>>
<1>1. RowTypes'
  BY LedgerStepRows
<1>2. ASSUME NEW c \in Client, Reserve(c)
      PROVE  (\A r \in Reservation : SeatsKept(r)) /\ UNCHANGED <<soldCount, quotaPaid>>
  <2> PICK a : a = call[c]
    OBVIOUS
  <2>1. CASE ReserveOutcome(a) = "created"
    <3>1. Hold(a) /\ ~Exists(a.id)
      BY <1>2, <2>1 DEF Reserve, ReserveOutcome
    <3>2. \A r \in Reservation : r # a.id => reservation'[r] = reservation[r]
      BY <3>1 DEF Hold, RowTypes
    <3> QED
      BY <3>1, <3>2 DEF Hold, SeatsKept, Exists, Status
  <2>2. CASE ReserveOutcome(a) # "created"
    BY <1>2, <2>2 DEF Reserve, ledgerVars, SeatsKept, Exists, Status
  <2> QED
    BY <2>1, <2>2
<1>3. CASE UNCHANGED ledgerVars
  BY <1>1, <1>3 DEF ledgerVars, SeatsKept, Exists, Status
<1>4. ASSUME NEW c \in Client, Lookup(c) \/ Begin(c) \/ Recover(c) \/ RequestFails(c) \/ Return(c)
      PROVE  UNCHANGED ledgerVars
  BY <1>4, Zenon DEF Lookup, Begin, Recover, RequestFails, Return
<1>5. ASSUME NEW r \in Reservation, Lapse(r)
      PROVE  UNCHANGED ledgerVars
  BY <1>5 DEF Lapse
<1>6. ASSUME NEW t \in TicketType, SaleEnds(t)
      PROVE  UNCHANGED ledgerVars
  BY <1>6 DEF SaleEnds
<1>7. ASSUME NEW w \in Worker, ExpireSelect(w) \/ ExpireAbort(w)
      PROVE  UNCHANGED ledgerVars
  BY <1>7, Zenon DEF ExpireSelect, ExpireAbort
<1> QED
  BY <1>1, <1>2, <1>3, <1>4, <1>5, <1>6, <1>7 DEF InventoryStep

LEMMA ReleaseSeats ==
  ASSUME RowTypes, NEW S, S \subseteq Reservation, ReleaseHolds(S), \A r \in S : Exists(r)
  PROVE  /\ reservation' \in [Reservation -> Row \cup {NoReservation}]
         /\ \A r \in Reservation : SeatsKept(r)
         /\ UNCHANGED <<soldCount, quotaPaid>>
<1>1. \A r \in Reservation : reservation'[r] =
        IF r \in S THEN [reservation[r] EXCEPT !.status = "expired"] ELSE reservation[r]
  BY DEF ReleaseHolds
<1>2. ASSUME NEW r \in S
      PROVE  /\ reservation'[r] \in Row /\ reservation'[r].status = "expired"
             /\ reservation'[r].quantity = reservation[r].quantity
             /\ reservation'[r].ticketType = reservation[r].ticketType
  <2>1. reservation[r] \in Row
    BY DEF RowTypes, Exists, Status, NoReservation
  <2> QED
    BY <1>1, <2>1 DEF Row
<1>3. \A r \in Reservation \ S : reservation'[r] = reservation[r]
  BY <1>1
<1>4. reservation' \in [Reservation -> Row \cup {NoReservation}]
  <2>1. reservation' = [r \in Reservation |-> reservation'[r]]
    BY DEF ReleaseHolds
  <2>2. \A r \in Reservation : reservation'[r] \in Row \cup {NoReservation}
    BY <1>2, <1>3 DEF RowTypes
  <2> QED
    BY <2>1, <2>2
<1>5. \A r \in Reservation : SeatsKept(r)
  BY <1>2, <1>3 DEF SeatsKept, Exists, Status
<1> QED
  BY <1>4, <1>5 DEF ReleaseHolds

LEMMA SellSeats ==
  ASSUME RowTypes, NEW r \in Reservation, Exists(r), SellHold(r)
  PROVE  /\ reservation' \in [Reservation -> Row \cup {NoReservation}]
         /\ \A x \in Reservation : SeatsKept(x)
         /\ reservation[r].quantity \in 1 .. MaxQuantity
         /\ reservation[r].ticketType \in TicketType
<1>1. reservation' = [reservation EXCEPT ![r].status = "confirmed"]
  BY DEF SellHold
<1>2. reservation[r] \in Row
  BY DEF RowTypes, Exists, Status, NoReservation
<1>3. reservation'[r] = [reservation[r] EXCEPT !.status = "confirmed"]
  BY <1>1 DEF RowTypes
<1>4. /\ reservation'[r] \in Row /\ reservation'[r].status = "confirmed"
      /\ reservation'[r].quantity = reservation[r].quantity
      /\ reservation'[r].ticketType = reservation[r].ticketType
  BY <1>2, <1>3 DEF Row
<1>5. /\ reservation' \in [Reservation -> Row \cup {NoReservation}]
      /\ \A x \in Reservation \ {r} : reservation'[x] = reservation[x]
  <2>1. reservation' = [reservation EXCEPT ![r] = reservation'[r]]
    BY <1>1, <1>3 DEF RowTypes
  <2> QED
    BY <1>4, <2>1 DEF RowTypes
<1>6. \A x \in Reservation : SeatsKept(x)
  BY <1>4, <1>5 DEF SeatsKept, Exists, Status
<1> QED
  BY <1>2, <1>5, <1>6 DEF Row

-----------------------------------------------------------------------------
(* Tickets                                                                 *)

\* What is printed stays printed, for the seats it was printed for.
LEMMA PrintedStays ==
  ASSUME SeatInv, PrintedAreSold, UNCHANGED <<tickets, soldCount, quotaPaid>>,
         \A r \in Reservation : SeatsKept(r),
         \A o \in Order : OrderExists(o) => order'[o].reservation = order[o].reservation
  PROVE  PrintedAreSold'
<1>1. ASSUME NEW o \in Order, tickets[o] > 0
      PROVE  reservation'[order'[o].reservation].ticketType
               = reservation[order[o].reservation].ticketType
  <2>1. OrderExists(o) /\ order[o].reservation \in Reservation /\ Exists(order[o].reservation)
    BY <1>1 DEF SeatInv, Unprinted, OrderHas, OrderExists
  <2> QED
    BY <2>1 DEF SeatsKept
<1>2. ASSUME NEW S, S \subseteq Order, NEW t \in TicketType
      PROVE  Printed(S, t)' = Printed(S, t)
  <2>1. \A x \in S \X (1 .. MaxQuantity) : x[1] \in Order /\ (x[2] <= tickets[x[1]] => tickets[x[1]] > 0)
    BY <1>2, LimitAssumption DEF SeatInv, SeatTypes
  <2>2. \A x \in S \X (1 .. MaxQuantity) :
          (x[2] <= tickets'[x[1]] /\ reservation'[order'[x[1]].reservation].ticketType = t)
            <=> (x[2] <= tickets[x[1]] /\ reservation[order[x[1]].reservation].ticketType = t)
    BY <1>1, <2>1
  <2> QED
    BY <2>2 DEF Printed
<1>3. /\ \A t \in TicketType : Printed(Order, t)' = Printed(Order, t)
      /\ \A u \in User, t \in TicketType :
           Printed({o \in Order : o[1] = u}, t)' = Printed({o \in Order : o[1] = u}, t)
  BY <1>2
<1> QED
  BY <1>3, Zenon DEF PrintedAreSold, SoldSeatsHaveTickets

LEMMA TicketsOfOne ==
  ASSUME NEW o, NEW q \in Nat
  PROVE  IsFiniteSet({o} \X (1 .. q)) /\ Cardinality({o} \X (1 .. q)) = q
<1>1. IsFiniteSet({o}) /\ Cardinality({o}) = 1
  BY FS_Singleton
<1>2. IsFiniteSet(1 .. q) /\ Cardinality(1 .. q) = q
  BY FS_Interval
<1>3. Cardinality({o} \X (1 .. q)) = 1 * q
  BY <1>1, <1>2, FS_Product
<1>4. IsFiniteSet({o} \X (1 .. q))
  BY <1>1, <1>2, FS_Product
<1> QED
  BY <1>3, <1>4

\* A step that prints q tickets of one order adds q to those of its ticket type.
LEMMA PrintedGrows ==
  ASSUME SeatInv, NEW o \in Order, NEW q \in 1 .. MaxQuantity, NEW t0,
         tickets[o] = 0, tickets'[o] = q, \A p \in Order \ {o} : tickets'[p] = tickets[p],
         \A r \in Reservation : SeatsKept(r),
         \A p \in Order : OrderExists(p) => order'[p].reservation = order[p].reservation,
         reservation'[order'[o].reservation].ticketType = t0,
         NEW S, S \subseteq Order, NEW t \in TicketType, IsFiniteSet(Printed(S, t))
  PROVE  /\ IsFiniteSet(Printed(S, t)')
         /\ Cardinality(Printed(S, t)')
              = Cardinality(Printed(S, t)) + (IF o \in S /\ t = t0 THEN q ELSE 0)
<1>1. ASSUME NEW p \in Order, p # o, tickets[p] > 0
      PROVE  reservation'[order'[p].reservation].ticketType
               = reservation[order[p].reservation].ticketType
  <2>1. OrderExists(p) /\ order[p].reservation \in Reservation /\ Exists(order[p].reservation)
    BY <1>1 DEF SeatInv, Unprinted, OrderHas, OrderExists
  <2> QED
    BY <2>1 DEF SeatsKept
<1>2. \A x \in S \X (1 .. MaxQuantity) :
        /\ x[1] \in Order /\ x[2] \in 1 .. MaxQuantity
        /\ x[2] <= tickets[x[1]] => tickets[x[1]] > 0
  BY LimitAssumption DEF SeatInv, SeatTypes
<1>3. \A x \in S \X (1 .. MaxQuantity) : x[1] # o =>
        ((x[2] <= tickets'[x[1]] /\ reservation'[order'[x[1]].reservation].ticketType = t)
           <=> (x[2] <= tickets[x[1]] /\ reservation[order[x[1]].reservation].ticketType = t))
  BY <1>1, <1>2
<1>4. \A x \in S \X (1 .. MaxQuantity) : x[1] = o => ~(x[2] <= tickets[x[1]])
  BY <1>2, LimitAssumption
<1>5. Cardinality(Printed(S, t)) \in Nat
  BY FS_CardinalityType
<1>6. CASE o \in S /\ t = t0
  <2>1. Printed(S, t)' = Printed(S, t) \cup ({o} \X (1 .. q))
    <3>1. \A x \in S \X (1 .. MaxQuantity) : x \in Printed(S, t)' <=> x \in Printed(S, t) \/ x \in {o} \X (1 .. q)
      <4>1. ASSUME NEW x \in S \X (1 .. MaxQuantity), x[1] = o
            PROVE  x \in Printed(S, t)' <=> x \in {o} \X (1 .. q)
        BY <1>2, <1>6, <4>1, LimitAssumption DEF Printed
      <4>2. ASSUME NEW x \in S \X (1 .. MaxQuantity), x[1] = o
            PROVE  x \notin Printed(S, t)
        BY <1>4, <4>2 DEF Printed
      <4>3. ASSUME NEW x \in S \X (1 .. MaxQuantity), x[1] # o
            PROVE  (x \in Printed(S, t)' <=> x \in Printed(S, t)) /\ x \notin {o} \X (1 .. q)
        BY <1>3, <4>3 DEF Printed
      <4> QED
        BY <4>1, <4>2, <4>3
    <3>2. {o} \X (1 .. q) \subseteq S \X (1 .. MaxQuantity)
      BY <1>6, LimitAssumption
    <3>3. Printed(S, t) \subseteq S \X (1 .. MaxQuantity) /\ Printed(S, t)' \subseteq S \X (1 .. MaxQuantity)
      BY DEF Printed
    <3> QED
      BY <3>1, <3>2, <3>3
  <2>2. Printed(S, t) \cap ({o} \X (1 .. q)) = {}
    BY <1>4 DEF Printed
  <2>3. IsFiniteSet({o} \X (1 .. q)) /\ Cardinality({o} \X (1 .. q)) = q
    <3>1. q \in Nat
      BY LimitAssumption
    <3> QED
      BY <3>1, TicketsOfOne
  <2>4. /\ IsFiniteSet(Printed(S, t) \cup ({o} \X (1 .. q)))
        /\ Cardinality(Printed(S, t) \cup ({o} \X (1 .. q)))
             = Cardinality(Printed(S, t)) + q - Cardinality({})
    BY <2>2, <2>3, FS_Union
  <2>5. Cardinality({}) = 0
    BY FS_EmptySet
  <2>6. q \in Int
    BY LimitAssumption
  <2> QED
    BY <1>5, <1>6, <2>1, <2>4, <2>5, <2>6
<1>7. CASE ~(o \in S /\ t = t0)
  <2>1. \A x \in S \X (1 .. MaxQuantity) : x \in Printed(S, t)' <=> x \in Printed(S, t)
    <3>1. ASSUME NEW x \in S \X (1 .. MaxQuantity), x[1] = o
          PROVE  x \notin Printed(S, t)' /\ x \notin Printed(S, t)
      BY <1>4, <1>7, <3>1 DEF Printed
    <3>2. ASSUME NEW x \in S \X (1 .. MaxQuantity), x[1] # o
          PROVE  x \in Printed(S, t)' <=> x \in Printed(S, t)
      BY <1>3, <3>2 DEF Printed
    <3> QED
      BY <3>1, <3>2
  <2>2. Printed(S, t) \subseteq S \X (1 .. MaxQuantity) /\ Printed(S, t)' \subseteq S \X (1 .. MaxQuantity)
    BY DEF Printed
  <2>3. Printed(S, t)' = Printed(S, t)
    BY <2>1, <2>2
  <2> QED
    BY <1>5, <1>7, <2>3
<1> QED
  BY <1>6, <1>7

-----------------------------------------------------------------------------
(* A step                                                                  *)

\* What a step must do: keep the invariant, and print nothing for an order that
\* is closed.
ClosedStayClosed ==
  \A o \in Order :
    order[o].status \in {"expired", "refund_required", "failed"} =>
      order'[o].status # "issued" /\ tickets'[o] = tickets[o]

Sound == SeatInv' /\ PrintedAreSold' /\ ClosedStayClosed

\* An order that ends keeps its reservation.
OrderEnds(o) ==
  \/ order'[o] = order[o]
  \/ /\ OrderExists(o) /\ order'[o] \in Sale
     /\ order'[o].reservation = order[o].reservation
     /\ order'[o].status \in {"expired", "refund_required", "failed"}

\* What others have read stays true while rows keep their seats, and the orders
\* they have locked stay as they are.
LEMMA ReadersStay ==
  ASSUME SeatInv, \A r \in Reservation : SeatsKept(r),
         \A o \in Order : OrderExists(o) =>
           order'[o].status # "none" /\ order'[o].reservation = order[o].reservation
  PROVE  /\ \A h \in Handler :
              (/\ tx'[h] = tx[h]
               /\ tx[h].step = "webhook" => order'[tx[h].order].status = order[tx[h].order].status)
                 => AsksFor(tx[h])' /\ Confirms(tx[h])'
         /\ \A m \in Admin : cancel'[m] = cancel[m] => CancelKnows(cancel[m])'
<1>1. ASSUME NEW h \in Handler, tx'[h] = tx[h]
      PROVE  AsksFor(tx[h])'
  <2>1. tx[h].step \in {"check", "write"} => tx[h].request.reservation \in Reservation
    BY DEF SeatInv, SeatTypes, Idle, OrderTx, PaymentTx, OrderRequest
  <2> QED
    BY <1>1, <2>1 DEF SeatInv, AsksFor, SeatsKept, Exists, Status
<1>2. ASSUME NEW h \in Handler, tx'[h] = tx[h],
             tx[h].step = "webhook" => order'[tx[h].order].status = order[tx[h].order].status
      PROVE  Confirms(tx[h])'
  <2>1. tx[h].step = "webhook" => tx[h].order \in Order
    BY DEF SeatInv, SeatTypes, Idle, OrderTx, PaymentTx, OrderReply
  <2> QED
    BY <1>2, <2>1 DEF SeatInv, Confirms, OrderExists, Pending
<1>3. ASSUME NEW m \in Admin, cancel'[m] = cancel[m]
      PROVE  CancelKnows(cancel[m])'
  <2>1. cancel[m].step # "idle" => /\ cancel[m].holds \subseteq Reservation
                                   /\ cancel[m].refund \cup cancel[m].unpaid \subseteq Order
    BY DEF SeatInv, SeatTypes, NoCancel, Cancellation
  <2> QED
    BY <1>3, <2>1 DEF SeatInv, CancelKnows, SeatsKept, Exists, Status, OrderExists
<1> QED
  BY <1>1, <1>2, <1>3

\* A step that prints nothing.
LEMMA QuietStep ==
  ASSUME SeatInv, PrintedAreSold,
         UNCHANGED <<reservationOrder, tickets, soldCount, quotaPaid>>,
         RowTypes', \A r \in Reservation : SeatsKept(r),
         order' \in [Order -> Sale \cup {NoOrder}], \A o \in Order : OrderEnds(o),
         tx' \in [Handler -> {Idle} \cup OrderTx \cup PaymentTx],
         cancel' \in [Admin -> {NoCancel} \cup Cancellation],
         \A h \in Handler :
           \/ /\ tx'[h] = tx[h]
              /\ tx[h].step = "webhook" => order'[tx[h].order] = order[tx[h].order]
           \/ AsksFor(tx[h])' /\ Confirms(tx[h])',
         CallbacksAlone',
         \A m \in Admin : cancel'[m] = cancel[m] \/ CancelKnows(cancel[m])'
  PROVE  Sound
<1>1. \A o \in Order : /\ OrderExists(o)' <=> OrderExists(o)
                       /\ OrderExists(o) => order'[o].reservation = order[o].reservation
  BY DEF OrderEnds, OrderExists
<1>2. \A o \in Order : OrderHas(o)'
  <2> SUFFICES ASSUME NEW o \in Order PROVE OrderHas(o)'
    OBVIOUS
  <2>1. OrderHas(o)
    BY DEF SeatInv
  <2> QED
    BY <1>1, <2>1 DEF OrderHas, SeatsKept, Exists, Status
<1>3. \A o \in Order : Unprinted(o)'
  BY DEF SeatInv, Unprinted, OrderEnds
<1>4. \A r \in Reservation : LinkHolds(r)'
  <2> SUFFICES ASSUME NEW r \in Reservation PROVE LinkHolds(r)'
    OBVIOUS
  <2>1. reservationOrder[r] \in Order \cup {NoOrderId} /\ LinkHolds(r)
    BY DEF SeatInv, SeatTypes
  <2> QED
    BY <1>1, <2>1 DEF LinkHolds
<1>5. /\ \A h \in Handler : AsksFor(tx[h])' /\ Confirms(tx[h])'
      /\ \A m \in Admin : CancelKnows(cancel[m])'
  BY <1>1, ReadersStay DEF OrderExists
<1>6. SeatTypes'
  BY DEF SeatInv, SeatTypes
<1>7. SeatInv'
  BY <1>2, <1>3, <1>4, <1>5, <1>6 DEF SeatInv
<1>8. PrintedAreSold'
  BY <1>1, PrintedStays
<1>9. ClosedStayClosed
  BY DEF ClosedStayClosed, OrderEnds
<1> QED
  BY <1>7, <1>8, <1>9 DEF Sound

\* A step of one request, which changes nothing else.
LEMMA OneRequest ==
  ASSUME SeatInv, PrintedAreSold, NEW h \in Handler,
         UNCHANGED <<inventoryVars, order, reservationOrder, tickets, cancel>>,
         tx' = [tx EXCEPT ![h] = tx'[h]], tx'[h] \in {Idle} \cup OrderTx \cup PaymentTx,
         AsksFor(tx[h])', Confirms(tx[h])',
         tx'[h].step = "webhook" =>
           \A g \in Handler \ {h} : ~(tx[g].step = "webhook" /\ tx[g].order = tx'[h].order)
  PROVE  Sound
<1> USE DEF inventoryVars, ledgerVars, requestVars
<1>1. /\ tx' \in [Handler -> {Idle} \cup OrderTx \cup PaymentTx]
      /\ \A g \in Handler \ {h} : tx'[g] = tx[g]
  BY DEF SeatInv, SeatTypes
<1>2. RowTypes' /\ \A r \in Reservation : SeatsKept(r)
  BY DEF SeatInv, RowTypes, SeatsKept, Exists, Status
<1>3. CallbacksAlone'
  BY <1>1 DEF SeatInv, CallbacksAlone
<1>4. /\ order' \in [Order -> Sale \cup {NoOrder}] /\ \A o \in Order : OrderEnds(o)
      /\ cancel' \in [Admin -> {NoCancel} \cup Cancellation]
  BY DEF SeatInv, SeatTypes, OrderEnds
<1>5. \A g \in Handler :
        \/ /\ tx'[g] = tx[g]
           /\ tx[g].step = "webhook" => order'[tx[g].order] = order[tx[g].order]
        \/ AsksFor(tx[g])' /\ Confirms(tx[g])'
  BY <1>1
<1> QED
  BY <1>1, <1>2, <1>3, <1>4, <1>5, QuietStep

\* A step of somebody else.
LEMMA NobodyMoves ==
  ASSUME SeatInv, PrintedAreSold,
         UNCHANGED <<inventoryVars, order, reservationOrder, tickets, tx, cancel>>
  PROVE  Sound
<1> USE DEF inventoryVars, ledgerVars, requestVars
<1>1. RowTypes' /\ CallbacksAlone' /\ \A r \in Reservation : SeatsKept(r)
  BY DEF SeatInv, RowTypes, CallbacksAlone, SeatsKept, Exists, Status
<1>2. /\ order' \in [Order -> Sale \cup {NoOrder}] /\ \A o \in Order : OrderEnds(o)
      /\ tx' \in [Handler -> {Idle} \cup OrderTx \cup PaymentTx]
      /\ cancel' \in [Admin -> {NoCancel} \cup Cancellation]
  BY DEF SeatInv, SeatTypes, OrderEnds
<1> QED
  BY <1>1, <1>2, QuietStep

-----------------------------------------------------------------------------
(* Requests, the expiry worker, callbacks                                  *)

LEMMA InventorySound ==
  ASSUME SeatInv, PrintedAreSold, InventoryStep, cancel' = cancel
  PROVE  Sound
<1>1. UNCHANGED <<order, reservationOrder, tickets, tx>>
  BY DEF InventoryStep, checkoutOnly, paymentVars
<1>2. /\ RowTypes' /\ \A r \in Reservation : SeatsKept(r)
      /\ UNCHANGED <<soldCount, quotaPaid>>
  BY LedgerStepSeats DEF SeatInv
<1>3. /\ CallbacksAlone'
      /\ order' \in [Order -> Sale \cup {NoOrder}] /\ \A o \in Order : OrderEnds(o)
      /\ tx' \in [Handler -> {Idle} \cup OrderTx \cup PaymentTx]
      /\ cancel' \in [Admin -> {NoCancel} \cup Cancellation]
  BY <1>1 DEF SeatInv, SeatTypes, OrderEnds, CallbacksAlone
<1> QED
  BY <1>1, <1>2, <1>3, QuietStep

LEMMA LookupSound ==
  ASSUME SeatInv, PrintedAreSold, NEW h \in Handler, OrderLookup(h), cancel' = cancel
  PROVE  Sound
<1>1. PICK a \in OrderRequest :
        /\ Exists(a.reservation)
        /\ a.order \in {Owner(a.reservation)} \X OrderKeysFor(a.reservation)
        /\ tx' = [tx EXCEPT ![h] =
             [step |-> IF OrderExists(a.order) THEN DuplicateReply(a) ELSE "check",
              request |-> a]]
  BY DEF OrderLookup
<1>2. PICK st \in {"check", "replayed", "duplicate_request_conflict"} :
        tx' = [tx EXCEPT ![h] = [step |-> st, request |-> a]]
  BY <1>1 DEF DuplicateReply
<1>3. tx'[h] = [step |-> st, request |-> a] /\ tx' = [tx EXCEPT ![h] = tx'[h]]
  BY <1>2 DEF SeatInv, SeatTypes
<1>4. tx'[h] \in OrderTx
  BY <1>3 DEF OrderTx, OrderReply
<1>5. UNCHANGED reservation /\ UNCHANGED <<inventoryVars, order, reservationOrder, tickets>>
  BY DEF OrderLookup, inventoryVars, ledgerVars, paymentVars
<1>6. a.order[1] = Owner(a.reservation)
  BY <1>1
<1>7. AsksFor(tx[h])' /\ Confirms(tx[h])' /\ tx'[h].step # "webhook"
  BY <1>1, <1>3, <1>5, <1>6 DEF AsksFor, Confirms, Exists, Status
<1> QED
  BY <1>3, <1>4, <1>5, <1>7, OneRequest

LEMMA CheckSound ==
  ASSUME SeatInv, PrintedAreSold, NEW h \in Handler, OrderCheck(h), cancel' = cancel
  PROVE  Sound
<1>1. tx[h].step = "check" /\ tx[h] \in OrderTx /\ AsksFor(tx[h])
  BY DEF OrderCheck, SeatInv, SeatTypes, Idle, PaymentTx
<1>2. PICK st \in {"write", "refused"} : tx' = [tx EXCEPT ![h].step = st]
  BY DEF OrderCheck
<1>3. tx'[h] = [tx[h] EXCEPT !.step = st] /\ tx' = [tx EXCEPT ![h] = tx'[h]]
  BY <1>2 DEF SeatInv, SeatTypes
<1>4. UNCHANGED reservation /\ UNCHANGED <<inventoryVars, order, reservationOrder, tickets>>
  BY DEF OrderCheck, inventoryVars, ledgerVars, paymentVars
<1>5. tx'[h] \in OrderTx /\ tx'[h].step = st /\ tx'[h].request = tx[h].request
  BY <1>1, <1>3 DEF OrderTx, OrderReply
<1>6. AsksFor(tx[h])' /\ Confirms(tx[h])' /\ tx'[h].step # "webhook"
  BY <1>1, <1>4, <1>5 DEF AsksFor, Confirms, Exists, Status
<1> QED
  BY <1>3, <1>4, <1>5, <1>6, OneRequest

LEMMA IdleSound ==
  ASSUME SeatInv, PrintedAreSold, NEW h \in Handler, tx' = [tx EXCEPT ![h] = Idle],
         UNCHANGED <<inventoryVars, order, reservationOrder, tickets, cancel>>
  PROVE  Sound
<1>1. tx'[h] = Idle /\ tx' = [tx EXCEPT ![h] = tx'[h]]
  BY DEF SeatInv, SeatTypes
<1>2. AsksFor(tx[h])' /\ Confirms(tx[h])' /\ tx'[h].step # "webhook"
  BY <1>1 DEF AsksFor, Confirms, Idle
<1> QED
  BY <1>1, <1>2, OneRequest

\* A callback that will confirm its order has found it pending.
LEMMA ReadsSound ==
  ASSUME SeatInv, PrintedAreSold, NEW h \in Handler, NEW e \in Event, NEW sound \in BOOLEAN,
         WebhookReads(h, e, sound), cancel' = cancel
  PROVE  Sound
<1> PICK o : o = OrderOf(e)
  OBVIOUS
<1>1. /\ ~OrderLocked(o)
      /\ UNCHANGED <<inventoryVars, order, reservationOrder, tickets>>
  BY DEF WebhookReads, paymentVars
<1>2. PICK r \in Linked(o) :
        /\ WebhookOutcome(e, r, sound) # "refused"
        /\ tx' = [tx EXCEPT ![h] =
             [step |-> "webhook", order |-> o, reservation |-> r, hash |-> e,
              outcome |-> WebhookOutcome(e, r, sound), held |-> Active(r)]]
  BY DEF WebhookReads
<1>3. o \in Order /\ r \in Reservation /\ reservationOrder[r] = o
  BY DEF Event, OrderOf, Linked
<1> PICK d : d = WebhookOutcome(e, r, sound)
  OBVIOUS
<1>4. d \in Outcome /\ (d = "confirm" => Pending(o))
  BY <1>2, <1>3, OutcomeIsFounded
<1> PICK held : held = Active(r)
  OBVIOUS
<1>5. held \in BOOLEAN
  BY DEF Active
<1>6. tx'[h] = [step |-> "webhook", order |-> o, reservation |-> r, hash |-> e,
                outcome |-> d, held |-> held]
  BY <1>2, Zenon DEF SeatInv, SeatTypes
<1>7. tx' = [tx EXCEPT ![h] = tx'[h]]
  BY <1>2 DEF SeatInv, SeatTypes
<1>8. tx'[h] \in PaymentTx
  BY <1>3, <1>4, <1>5, <1>6 DEF PaymentTx
<1>9. OrderExists(o) /\ order[o].reservation = r
  BY <1>3, OrderIsSome DEF SeatInv, LinkHolds
<1>10. AsksFor(tx[h])' /\ Confirms(tx[h])'
  BY <1>1, <1>4, <1>6, <1>9 DEF AsksFor, Confirms, OrderExists, Pending
<1>11. \A g \in Handler \ {h} : ~(tx[g].step = "webhook" /\ tx[g].order = tx'[h].order)
  BY <1>1, <1>6 DEF OrderLocked
<1> QED
  BY <1>1, <1>7, <1>8, <1>10, <1>11, OneRequest

\* Orders end with their reservations, unless a callback holds them.
LEMMA ExpirySound ==
  ASSUME SeatInv, PrintedAreSold, NEW w \in Worker, ExpireWithOrders(w), cancel' = cancel
  PROVE  Sound
<1> PICK S : S = {r \in selected[w] : Active(r)}
  OBVIOUS
<1> PICK E : E = PendingOrdersOf(S)
  OBVIOUS
<1>1. /\ ReleaseHolds(S) /\ selected' = [selected EXCEPT ![w] = {}]
      /\ \A o \in E : ~OrderLocked(o)
      /\ order' = [o \in Order |->
           IF o \in E THEN [order[o] EXCEPT !.status = "expired"] ELSE order[o]]
      /\ UNCHANGED <<pc, call, reservationOrder, tickets, tx>>
  BY DEF ExpireWithOrders, ExpireCommit, requestVars, paymentVars
<1>2. S \subseteq Reservation /\ \A r \in S : Exists(r)
  BY DEF SeatInv, RowTypes, Active, Exists
<1>3. /\ reservation' \in [Reservation -> Row \cup {NoReservation}]
      /\ \A r \in Reservation : SeatsKept(r)
      /\ UNCHANGED <<soldCount, quotaPaid>>
  BY <1>1, <1>2, ReleaseSeats DEF SeatInv
<1>4. RowTypes'
  BY <1>1, <1>3 DEF SeatInv, RowTypes
<1>5. ASSUME NEW o \in Order, o \in E
      PROVE  /\ OrderExists(o) /\ order'[o] \in Sale /\ order'[o].status = "expired"
             /\ order'[o].reservation = order[o].reservation
  <2>1. OrderExists(o)
    BY <1>5 DEF PendingOrdersOf, Pending, OrderExists
  <2>2. order[o] \in Sale
    BY <2>1 DEF SeatInv, SeatTypes, OrderExists, NoOrder
  <2>3. order'[o] = [order[o] EXCEPT !.status = "expired"]
    BY <1>1, <1>5
  <2> QED
    BY <2>1, <2>2, <2>3 DEF Sale
<1>6. \A o \in Order : o \notin E => order'[o] = order[o]
  BY <1>1
<1>7. \A o \in Order : OrderEnds(o)
  BY <1>5, <1>6 DEF OrderEnds
<1>8. order' \in [Order -> Sale \cup {NoOrder}]
  <2>1. \A o \in Order : order'[o] \in Sale \cup {NoOrder}
    BY <1>5, <1>6 DEF SeatInv, SeatTypes
  <2>2. order' = [o \in Order |-> order'[o]]
    BY <1>1
  <2> QED
    BY <2>1, <2>2
<1>9. /\ tx' \in [Handler -> {Idle} \cup OrderTx \cup PaymentTx] /\ CallbacksAlone'
      /\ cancel' \in [Admin -> {NoCancel} \cup Cancellation]
  BY <1>1 DEF SeatInv, SeatTypes, CallbacksAlone
<1>10. \A h \in Handler :
         /\ tx'[h] = tx[h]
         /\ tx[h].step = "webhook" => order'[tx[h].order] = order[tx[h].order]
  <2> SUFFICES ASSUME NEW h \in Handler, tx[h].step = "webhook"
               PROVE  order'[tx[h].order] = order[tx[h].order]
    BY <1>1
  <2>1. tx[h].order \in Order
    BY DEF SeatInv, SeatTypes, Idle, OrderTx, PaymentTx, OrderReply
  <2>2. tx[h].order \notin E
    BY <1>1 DEF OrderLocked
  <2> QED
    BY <1>6, <2>1, <2>2
<1> QED
  BY <1>1, <1>3, <1>4, <1>7, <1>8, <1>9, <1>10, QuietStep

\* An order is written: nothing was printed for it.
LEMMA WriteSound ==
  ASSUME SeatInv, PrintedAreSold, NEW h \in Handler, OrderWrite(h), cancel' = cancel
  PROVE  Sound
<1> PICK a : a = tx[h].request
  OBVIOUS
<1>1. /\ tx[h].step = "write" /\ tx[h] \in OrderTx /\ AsksFor(tx[h])
      /\ a \in OrderRequest
  BY DEF OrderWrite, SeatInv, SeatTypes, Idle, PaymentTx, OrderTx
<1> PICK o, r : o = a.order /\ r = a.reservation
  OBVIOUS
<1>2. /\ o[1] = Owner(r) /\ Exists(r)
      /\ o \in Order /\ r \in Reservation /\ a.provider \in Provider
  BY <1>1 DEF AsksFor, OrderRequest
<1>3. /\ UNCHANGED <<inventoryVars, tickets>>
      /\ UNCHANGED <<reservation, soldCount, quotaPaid, pc, call, selected>>
  BY DEF OrderWrite, inventoryVars, ledgerVars, requestVars
<1>4. CASE OrderExists(o)
  <2>1. PICK st \in OrderReply : tx' = [tx EXCEPT ![h].step = st]
    BY <1>4 DEF OrderWrite, DuplicateReply, OrderReply
  <2>2. UNCHANGED <<order, reservationOrder>>
    BY <1>4 DEF OrderWrite
  <2>3. tx'[h] = [tx[h] EXCEPT !.step = st] /\ tx' = [tx EXCEPT ![h] = tx'[h]]
    BY <2>1 DEF SeatInv, SeatTypes
  <2>4. tx'[h] \in OrderTx /\ tx'[h].step = st
    BY <1>1, <2>3 DEF OrderTx
  <2>5. AsksFor(tx[h])' /\ Confirms(tx[h])' /\ tx'[h].step # "webhook"
    BY <2>4 DEF AsksFor, Confirms, OrderReply
  <2> QED
    BY <1>3, <2>2, <2>3, <2>4, <2>5, OneRequest
<1>5. CASE ~OrderExists(o)
  <2> PICK new : new = [status |-> "pending_payment", reservation |-> r, provider |-> a.provider]
    OBVIOUS
  <2>1. /\ order' = [order EXCEPT ![o] = new]
        /\ reservationOrder' = [reservationOrder EXCEPT ![r] = o]
        /\ tx' = [tx EXCEPT ![h].step = "created"]
    BY <1>5 DEF OrderWrite
  <2>2. /\ new \in Sale /\ new.status = "pending_payment" /\ new.reservation = r
    BY <1>2 DEF Sale
  <2>3. /\ order' \in [Order -> Sale \cup {NoOrder}]
        /\ order'[o] = new /\ \A p \in Order \ {o} : order'[p] = order[p]
        /\ reservationOrder' \in [Reservation -> Order \cup {NoOrderId}]
        /\ reservationOrder'[r] = o
        /\ \A x \in Reservation \ {r} : reservationOrder'[x] = reservationOrder[x]
    BY <1>2, <2>1, <2>2 DEF SeatInv, SeatTypes
  <2>4. /\ tx' \in [Handler -> {Idle} \cup OrderTx \cup PaymentTx]
        /\ tx'[h].step = "created" /\ \A g \in Handler \ {h} : tx'[g] = tx[g]
    <3>1. tx'[h] = [tx[h] EXCEPT !.step = "created"] /\ tx' = [tx EXCEPT ![h] = tx'[h]]
      BY <2>1 DEF SeatInv, SeatTypes
    <3>2. tx'[h] \in OrderTx /\ tx'[h].step = "created"
      BY <1>1, <3>1 DEF OrderTx, OrderReply
    <3> QED
      BY <3>1, <3>2 DEF SeatInv, SeatTypes
  <2>5. order[o].status = "none" /\ tickets[o] = 0
    BY <1>2, <1>5 DEF OrderExists, SeatInv, Unprinted
  <2>6. \A x \in Reservation : SeatsKept(x)
    BY <1>3 DEF SeatsKept, Exists, Status
  <2>7. \A p \in Order : OrderExists(p) =>
          order'[p].status = order[p].status /\ order'[p].reservation = order[p].reservation
    BY <1>5, <2>3
  <2>8. ASSUME NEW p \in Order
        PROVE  OrderHas(p)' /\ Unprinted(p)'
    <3>1. CASE p = o
      BY <1>2, <1>3, <2>2, <2>3, <2>5, <3>1 DEF OrderHas, Unprinted, Exists, Status
    <3>2. CASE p # o
      BY <1>3, <2>3, <3>2 DEF SeatInv, OrderHas, Unprinted, OrderExists, Exists, Status
    <3> QED
      BY <3>1, <3>2
  <2>9. ASSUME NEW x \in Reservation
        PROVE  LinkHolds(x)'
    <3>1. CASE x = r
      BY <2>2, <2>3, <3>1 DEF LinkHolds, OrderExists
    <3>2. CASE x # r
      <4>1. LinkHolds(x) /\ reservationOrder'[x] = reservationOrder[x]
            /\ reservationOrder[x] \in Order \cup {NoOrderId}
        BY <2>3, <3>2 DEF SeatInv, SeatTypes
      <4> QED
        BY <2>7, <4>1 DEF LinkHolds, OrderExists
    <3> QED
      BY <3>1, <3>2
  <2>10. ASSUME NEW g \in Handler
         PROVE  AsksFor(tx[g])' /\ Confirms(tx[g])'
    <3>1. CASE g = h
      BY <2>4, <3>1 DEF AsksFor, Confirms
    <3>2. CASE g # h
      <4>1. tx'[g] = tx[g]
        BY <2>4, <3>2
      <4>2. tx[g].step = "webhook" => tx[g].order \in Order /\ OrderExists(tx[g].order)
        BY DEF SeatInv, SeatTypes, Confirms, Idle, OrderTx, PaymentTx, OrderReply
      <4>3. tx[g].step = "webhook" => order'[tx[g].order].status = order[tx[g].order].status
        BY <2>7, <4>2
      <4> QED
        BY <2>6, <2>7, <4>1, <4>3, ReadersStay DEF OrderExists
    <3> QED
      BY <3>1, <3>2
  <2>11. \A m \in Admin : CancelKnows(cancel[m])'
    BY <2>6, <2>7, ReadersStay DEF OrderExists
  <2>12. CallbacksAlone'
    BY <2>4 DEF SeatInv, CallbacksAlone
  <2>13. RowTypes' /\ SeatTypes'
    BY <1>3, <2>3, <2>4 DEF SeatInv, RowTypes, SeatTypes
  <2>14. SeatInv'
    BY <2>8, <2>9, <2>10, <2>11, <2>12, <2>13 DEF SeatInv
  <2>15. PrintedAreSold'
    BY <1>3, <2>6, <2>7, PrintedStays
  <2>16. ClosedStayClosed
    BY <1>3, <2>3, <2>5 DEF ClosedStayClosed
  <2> QED
    BY <2>14, <2>15, <2>16 DEF Sound
<1> QED
  BY <1>4, <1>5

\* The order and the reservation of a callback.
LEMMA CallbackHas ==
  ASSUME SeatInv, NEW h \in Handler, tx[h].step = "webhook"
  PROVE  /\ tx[h] \in PaymentTx /\ tx[h].order \in Order /\ tx[h].reservation \in Reservation
         /\ OrderExists(tx[h].order) /\ order[tx[h].order].reservation = tx[h].reservation
         /\ Exists(tx[h].reservation) /\ tx[h].order[1] = Owner(tx[h].reservation)
         /\ tx[h].outcome = "confirm" => Pending(tx[h].order)
<1>1. tx[h] \in PaymentTx
  BY DEF SeatInv, SeatTypes, Idle, OrderTx, OrderReply
<1>2. tx[h].order \in Order /\ tx[h].reservation \in Reservation
  BY <1>1 DEF PaymentTx
<1>3. Confirms(tx[h]) /\ OrderHas(tx[h].order)
  BY <1>2 DEF SeatInv
<1> QED
  BY <1>1, <1>2, <1>3 DEF Confirms, OrderHas

LEMMA SettleOrder ==
  ASSUME SeatInv, NEW o \in Order, OrderExists(o),
         NEW st \in {"issued", "failed", "refund_required"},
         order' = [order EXCEPT ![o].status = st]
  PROVE  /\ order' \in [Order -> Sale \cup {NoOrder}]
         /\ order'[o] \in Sale /\ order'[o].status = st
         /\ order'[o].reservation = order[o].reservation
         /\ \A p \in Order \ {o} : order'[p] = order[p]
<1>1. order[o] \in Sale
  BY DEF SeatInv, SeatTypes, OrderExists, NoOrder
<1>2. order'[o] = [order[o] EXCEPT !.status = st]
  BY DEF SeatInv, SeatTypes
<1>3. order'[o] \in Sale /\ order'[o].status = st /\ order'[o].reservation = order[o].reservation
  BY <1>1, <1>2 DEF Sale
<1>4. order' = [order EXCEPT ![o] = order'[o]]
  BY <1>2 DEF SeatInv, SeatTypes
<1> QED
  BY <1>3, <1>4 DEF SeatInv, SeatTypes

\* A callback that sells nothing.
LEMMA CallbackEndsSound ==
  ASSUME SeatInv, PrintedAreSold, NEW h \in Handler, tx[h].step = "webhook",
         tx' = [tx EXCEPT ![h] = Idle],
         UNCHANGED <<pc, call, selected, reservationOrder, tickets, soldCount, quotaPaid, cancel>>,
         reservation' \in [Reservation -> Row \cup {NoReservation}],
         \A r \in Reservation : SeatsKept(r),
         order' \in [Order -> Sale \cup {NoOrder}], \A o \in Order : OrderEnds(o),
         \A o \in Order \ {tx[h].order} : order'[o] = order[o]
  PROVE  Sound
<1>1. /\ tx' \in [Handler -> {Idle} \cup OrderTx \cup PaymentTx] /\ tx'[h] = Idle
      /\ \A g \in Handler \ {h} : tx'[g] = tx[g]
  BY DEF SeatInv, SeatTypes
<1>2. RowTypes' /\ cancel' \in [Admin -> {NoCancel} \cup Cancellation]
  BY DEF SeatInv, RowTypes, SeatTypes
<1>3. AsksFor(tx[h])' /\ Confirms(tx[h])'
  BY <1>1 DEF AsksFor, Confirms, Idle
<1>4. ASSUME NEW g \in Handler, g # h, tx[g].step = "webhook"
      PROVE  order'[tx[g].order] = order[tx[g].order]
  <2>1. tx[g].order \in Order /\ tx[g].order # tx[h].order
    BY <1>4, CallbackHas DEF SeatInv, CallbacksAlone
  <2> QED
    BY <2>1
<1>5. \A g \in Handler :
        \/ /\ tx'[g] = tx[g]
           /\ tx[g].step = "webhook" => order'[tx[g].order] = order[tx[g].order]
        \/ AsksFor(tx[g])' /\ Confirms(tx[g])'
  <2> SUFFICES ASSUME NEW g \in Handler
               PROVE  \/ /\ tx'[g] = tx[g]
                         /\ tx[g].step = "webhook" => order'[tx[g].order] = order[tx[g].order]
                      \/ AsksFor(tx[g])' /\ Confirms(tx[g])'
    OBVIOUS
  <2>1. CASE g = h
    BY <1>3, <2>1
  <2>2. CASE g # h
    BY <1>1, <1>4, <2>2
  <2> QED
    BY <2>1, <2>2
<1>6. CallbacksAlone'
  BY <1>1 DEF SeatInv, CallbacksAlone, Idle
<1> QED
  BY <1>1, <1>2, <1>5, <1>6, QuietStep

\* A sale: the seats of the reservation are counted, and as many tickets printed.
LEMMA ConfirmSound ==
  ASSUME SeatInv, PrintedAreSold, NEW h \in Handler, WebhookCommit(h),
         tx[h].outcome = "confirm", Confirm(tx[h]), cancel' = cancel
  PROVE  Sound
<1> PICK a : a = tx[h]
  OBVIOUS
<1> PICK o, r : o = a.order /\ r = a.reservation
  OBVIOUS
<1>1. /\ tx[h].step = "webhook" /\ tx' = [tx EXCEPT ![h] = Idle]
      /\ UNCHANGED <<pc, call, selected, reservationOrder>>
  BY DEF WebhookCommit, requestVars
<1>2. /\ o \in Order /\ r \in Reservation /\ OrderExists(o) /\ order[o].reservation = r
      /\ Exists(r) /\ o[1] = Owner(r) /\ Pending(o)
  BY <1>1, CallbackHas
<1> PICK q, t0 : q = reservation[r].quantity /\ t0 = reservation[r].ticketType
  OBVIOUS
<1>3. /\ SellHold(r) /\ order' = [order EXCEPT ![o].status = "issued"]
      /\ tickets' = [tickets EXCEPT ![o] = IF @ < q THEN q ELSE @]
  BY DEF Confirm, Settle
<1>4. /\ reservation' \in [Reservation -> Row \cup {NoReservation}]
      /\ \A x \in Reservation : SeatsKept(x)
      /\ q \in 1 .. MaxQuantity /\ t0 \in TicketType
  BY <1>2, <1>3, SellSeats DEF SeatInv
<1>5. /\ order' \in [Order -> Sale \cup {NoOrder}]
      /\ order'[o] \in Sale /\ order'[o].status = "issued"
      /\ order'[o].reservation = r
      /\ \A p \in Order \ {o} : order'[p] = order[p]
  BY <1>2, <1>3, SettleOrder
<1>6. \A p \in Order :
        /\ OrderExists(p)' <=> OrderExists(p)
        /\ OrderExists(p) => order'[p].status # "none" /\ order'[p].reservation = order[p].reservation
  BY <1>2, <1>5 DEF OrderExists
<1>7. tickets[o] = 0
  BY <1>2 DEF SeatInv, Unprinted, Pending
<1>8. /\ tickets' \in [Order -> Nat] /\ tickets'[o] = q
      /\ \A p \in Order \ {o} : tickets'[p] = tickets[p]
  <2>1. q \in Nat /\ 0 < q
    BY <1>4, LimitAssumption
  <2>2. tickets' = [tickets EXCEPT ![o] = q]
    BY <1>2, <1>3, <1>7, <2>1 DEF SeatInv, SeatTypes
  <2> QED
    BY <1>2, <2>1, <2>2 DEF SeatInv, SeatTypes
<1>9. /\ tx' \in [Handler -> {Idle} \cup OrderTx \cup PaymentTx] /\ tx'[h] = Idle
      /\ \A g \in Handler \ {h} : tx'[g] = tx[g]
  BY <1>1 DEF SeatInv, SeatTypes
<1>10. /\ soldCount' = [soldCount EXCEPT ![t0] = @ + q]
       /\ quotaPaid' = [quotaPaid EXCEPT ![<<o[1], t0>>] = @ + q]
  BY <1>2, <1>3 DEF SellHold
<1>11. q \in Int /\ o[1] \in User
  BY <1>2, <1>4, LimitAssumption DEF Order
<1>12. RowTypes' /\ SeatTypes'
  <2>1. RowTypes'
    BY <1>1, <1>4 DEF SeatInv, RowTypes
  <2>2. soldCount' \in [TicketType -> Int] /\ quotaPaid' \in [User \X TicketType -> Int]
    BY <1>4, <1>10, <1>11 DEF SeatInv, SeatTypes
  <2> QED
    BY <1>1, <1>5, <1>8, <1>9, <2>1, <2>2 DEF SeatInv, SeatTypes
<1>13. ASSUME NEW p \in Order
       PROVE  OrderHas(p)' /\ Unprinted(p)'
  <2>1. OrderHas(p) /\ Unprinted(p)
    BY DEF SeatInv
  <2>2. OrderHas(p)'
    BY <1>4, <1>6, <2>1 DEF OrderHas, SeatsKept, Exists, Status
  <2>3. Unprinted(p)'
    BY <1>5, <1>8, <2>1 DEF Unprinted
  <2> QED
    BY <2>2, <2>3
<1>14. ASSUME NEW x \in Reservation
       PROVE  LinkHolds(x)'
  <2>1. reservationOrder[x] \in Order \cup {NoOrderId} /\ LinkHolds(x)
    BY DEF SeatInv, SeatTypes
  <2> QED
    BY <1>1, <1>6, <2>1 DEF LinkHolds
<1>15. ASSUME NEW g \in Handler
       PROVE  AsksFor(tx[g])' /\ Confirms(tx[g])'
  <2>1. CASE g = h
    BY <1>9, <2>1 DEF AsksFor, Confirms, Idle
  <2>2. CASE g # h
    <3>1. tx'[g] = tx[g]
      BY <1>9, <2>2
    <3>2. tx[g].step = "webhook" => tx[g].order \in Order /\ tx[g].order # o
      BY <1>1, <2>2, CallbackHas DEF SeatInv, CallbacksAlone
    <3>3. tx[g].step = "webhook" => order'[tx[g].order].status = order[tx[g].order].status
      BY <1>5, <3>2
    <3> QED
      BY <1>4, <1>6, <3>1, <3>3, ReadersStay
  <2> QED
    BY <2>1, <2>2
<1>16. \A m \in Admin : CancelKnows(cancel[m])'
  BY <1>4, <1>6, ReadersStay
<1>17. CallbacksAlone'
  BY <1>9 DEF SeatInv, CallbacksAlone, Idle
<1>18. SeatInv'
  BY <1>12, <1>13, <1>14, <1>15, <1>16, <1>17 DEF SeatInv
<1>19. reservation'[order'[o].reservation].ticketType = t0
  BY <1>2, <1>4, <1>5 DEF SeatsKept
<1>20. ASSUME NEW S, S \subseteq Order, NEW t \in TicketType, IsFiniteSet(Printed(S, t))
       PROVE  /\ IsFiniteSet(Printed(S, t)')
              /\ Cardinality(Printed(S, t)')
                   = Cardinality(Printed(S, t)) + (IF o \in S /\ t = t0 THEN q ELSE 0)
  BY <1>2, <1>4, <1>6, <1>7, <1>8, <1>19, <1>20, PrintedGrows
<1>21. PrintedAreSold'
  <2>1. ASSUME NEW t \in TicketType
        PROVE  IsFiniteSet(Printed(Order, t)') /\ soldCount'[t] = Cardinality(Printed(Order, t)')
    <3>1. IsFiniteSet(Printed(Order, t)) /\ soldCount[t] = Cardinality(Printed(Order, t))
      BY DEF PrintedAreSold, SoldSeatsHaveTickets
    <3>2. /\ IsFiniteSet(Printed(Order, t)')
          /\ Cardinality(Printed(Order, t)')
               = Cardinality(Printed(Order, t)) + (IF t = t0 THEN q ELSE 0)
      BY <1>2, <1>20, <3>1
    <3>3. soldCount[t] \in Int /\ soldCount'[t] = soldCount[t] + (IF t = t0 THEN q ELSE 0)
      BY <1>4, <1>10, <1>11 DEF SeatInv, SeatTypes
    <3> QED
      BY <3>1, <3>2, <3>3
  <2>2. ASSUME NEW u \in User, NEW t \in TicketType
        PROVE  quotaPaid'[<<u, t>>] = Cardinality(Printed({p \in Order : p[1] = u}, t)')
    <3> PICK S : S = {p \in Order : p[1] = u}
      OBVIOUS
    <3>1. Printed(S, t) \in SUBSET Printed(Order, t) /\ IsFiniteSet(Printed(Order, t))
      BY DEF Printed, PrintedAreSold
    <3>2. IsFiniteSet(Printed(S, t)) /\ quotaPaid[<<u, t>>] = Cardinality(Printed(S, t))
      BY <3>1, FS_Subset DEF PrintedAreSold, SoldSeatsHaveTickets
    <3>3. Cardinality(Printed(S, t)')
            = Cardinality(Printed(S, t)) + (IF o \in S /\ t = t0 THEN q ELSE 0)
      BY <1>20, <3>2
    <3>4. /\ quotaPaid[<<u, t>>] \in Int
          /\ quotaPaid'[<<u, t>>] = quotaPaid[<<u, t>>] + (IF o \in S /\ t = t0 THEN q ELSE 0)
      BY <1>2, <1>4, <1>10, <1>11 DEF SeatInv, SeatTypes
    <3> QED
      BY <3>2, <3>3, <3>4
  <2> QED
    BY <2>1, <2>2 DEF PrintedAreSold, SoldSeatsHaveTickets
<1>22. ClosedStayClosed
  BY <1>2, <1>5, <1>8 DEF ClosedStayClosed, Pending
<1> QED
  BY <1>18, <1>21, <1>22 DEF Sound

LEMMA CommitSound ==
  ASSUME SeatInv, PrintedAreSold, NEW h \in Handler, WebhookCommit(h), cancel' = cancel
  PROVE  Sound
<1> PICK a : a = tx[h]
  OBVIOUS
<1> PICK o, r : o = a.order /\ r = a.reservation
  OBVIOUS
<1>1. /\ tx[h].step = "webhook" /\ tx' = [tx EXCEPT ![h] = Idle] /\ Apply(a)
      /\ UNCHANGED <<pc, call, selected, reservationOrder>>
  BY DEF WebhookCommit, requestVars
<1>2. /\ o \in Order /\ r \in Reservation /\ OrderExists(o) /\ Exists(r)
  BY <1>1, CallbackHas
<1>3. CASE a.outcome = "confirm" /\ Confirm(a)
  BY <1>3, ConfirmSound
<1>4. ASSUME NEW st \in {"failed", "refund_required"},
             order' = [order EXCEPT ![o].status = st], UNCHANGED tickets,
             reservation' \in [Reservation -> Row \cup {NoReservation}],
             \A x \in Reservation : SeatsKept(x), UNCHANGED <<soldCount, quotaPaid>>
      PROVE  Sound
  <2>1. /\ order' \in [Order -> Sale \cup {NoOrder}]
        /\ order'[o] \in Sale /\ order'[o].status = st
        /\ order'[o].reservation = order[o].reservation
        /\ \A p \in Order \ {o} : order'[p] = order[p]
    BY <1>2, <1>4, SettleOrder
  <2>2. \A p \in Order : OrderEnds(p)
    BY <1>2, <2>1 DEF OrderEnds
  <2> QED
    BY <1>1, <1>4, <2>1, <2>2, CallbackEndsSound
<1>5. UNCHANGED ledgerVars =>
        /\ reservation' \in [Reservation -> Row \cup {NoReservation}]
        /\ \A x \in Reservation : SeatsKept(x)
        /\ UNCHANGED <<soldCount, quotaPaid>>
  BY DEF ledgerVars, SeatsKept, Exists, Status, SeatInv, RowTypes
<1>6. CASE Refund(a)
  <2>1. /\ reservation' \in [Reservation -> Row \cup {NoReservation}]
        /\ \A x \in Reservation : SeatsKept(x)
        /\ UNCHANGED <<soldCount, quotaPaid>>
    <3>1. CASE a.held
      BY <1>2, <1>6, <3>1, ReleaseSeats DEF Refund, SeatInv
    <3>2. CASE ~a.held
      BY <1>5, <1>6, <3>2 DEF Refund
    <3> QED
      BY <3>1, <3>2
  <2>2. order' = [order EXCEPT ![o].status = "refund_required"] /\ UNCHANGED tickets
    BY <1>6 DEF Refund, Settle
  <2> QED
    BY <1>4, <2>1, <2>2
<1>7. CASE Fail(a)
  <2>1. order' = [order EXCEPT ![o].status = "failed"] /\ UNCHANGED tickets /\ UNCHANGED ledgerVars
    BY <1>7 DEF Fail, Settle
  <2> QED
    BY <1>4, <1>5, <2>1
<1>8. CASE UNCHANGED <<ledgerVars, order, payment, tickets>>
  <2>1. UNCHANGED ledgerVars /\ UNCHANGED <<order, tickets>>
    BY <1>8
  <2>2. order' \in [Order -> Sale \cup {NoOrder}] /\ \A p \in Order : OrderEnds(p)
    BY <2>1 DEF SeatInv, SeatTypes, OrderEnds
  <2> QED
    BY <1>1, <1>5, <2>1, <2>2, CallbackEndsSound
<1> QED
  BY <1>1, <1>3, <1>6, <1>7, <1>8 DEF Apply

LEMMA StatusSound ==
  ASSUME SeatInv, PrintedAreSold, NEW o, NEW st, SetStatus(o, st), cancel' = cancel
  PROVE  Sound
<1>1. UNCHANGED <<inventoryVars, order, reservationOrder, tickets, tx, cancel>>
  BY DEF SetStatus
<1> QED
  BY <1>1, NobodyMoves

LEMMA ShopRests ==
  ASSUME SeatInv, PrintedAreSold, UNCHANGED checkoutVars, cancel' = cancel
  PROVE  Sound
<1>1. UNCHANGED <<inventoryVars, order, reservationOrder, tickets, tx, cancel>>
  BY DEF checkoutVars, checkoutOnly, paymentVars
<1> QED
  BY <1>1, NobodyMoves

LEMMA CheckoutStepSound ==
  ASSUME SeatInv, PrintedAreSold, CheckoutStep, cancel' = cancel
  PROVE  Sound
<1>1. CASE InventoryStep
  BY <1>1, InventorySound
<1>2. ASSUME NEW w \in Worker, ExpireWithOrders(w)
      PROVE  Sound
  BY <1>2, ExpirySound
<1>3. ASSUME NEW o, NEW v, ProviderReports(o, v)
      PROVE  Sound
  <2>1. UNCHANGED <<inventoryVars, order, reservationOrder, tickets, tx, cancel>>
    BY <1>3 DEF ProviderReports, paymentVars
  <2> QED
    BY <2>1, NobodyMoves
<1>4. ASSUME NEW h \in Handler, OrderReturn(h) \/ CheckoutAbort(h)
      PROVE  Sound
  <2>1. /\ tx' = [tx EXCEPT ![h] = Idle]
        /\ UNCHANGED <<inventoryVars, order, reservationOrder, tickets, cancel>>
    BY <1>4 DEF OrderReturn, CheckoutAbort, paymentVars
  <2> QED
    BY <2>1, IdleSound
<1>5. ASSUME NEW h \in Handler, NEW e \in Event, NEW sound \in Soundness, Deliver(h, e, sound)
      PROVE  Sound
  <2>1. sound \in BOOLEAN /\ WebhookReads(h, e, sound)
    BY <1>5, PairingAssumption DEF Deliver
  <2> QED
    BY <2>1, ReadsSound
<1>6. ASSUME NEW h \in Handler, OrderLookup(h) \/ OrderCheck(h) \/ OrderWrite(h) \/ WebhookCommit(h)
      PROVE  Sound
  BY <1>6, LookupSound, CheckSound, WriteSound, CommitSound
<1> QED
  BY <1>1, <1>2, <1>3, <1>4, <1>5, <1>6 DEF CheckoutStep

LEMMA AskSound ==
  ASSUME SeatInv, PrintedAreSold, NEW a \in Asker, AskStep(a), cancel' = cancel
  PROVE  Sound
<1>1. \/ UNCHANGED checkoutVars
      \/ \E st \in {"expired", "pending", "pending_reconciliation"} : SetStatus(ask[a].order, st)
  BY DEF AskStep, IntentLoad, IntentExpire, IntentClaim, IntentCall, IntentSave, IntentDoubt,
    IntentComplete, IntentStumbles, IntentCrash
<1> QED
  BY <1>1, ShopRests, StatusSound

LEMMA ReconcileSound ==
  ASSUME BooksInv, SeatInv, PrintedAreSold, NEW r \in Reconciler, ReconcileStep(r), cancel' = cancel
  PROVE  Sound
<1>1. r \in Handler
  BY ReconcilerAssumption
<1>2. CASE UNCHANGED checkoutVars
  BY <1>2, ShopRests
<1>3. CASE ReconcileFinalize(r)
  <2> PICK e : e = AnswerEvent(r)
    OBVIOUS
  <2>1. WebhookReads(r, e, TRUE) /\ recon[r].step = "finalize"
    BY <1>3 DEF ReconcileFinalize
  <2>2. e \in Event
    BY <2>1, AnswerIsEvent DEF BooksInv
  <2> QED
    BY <1>1, <2>1, <2>2, ReadsSound
<1>4. CASE ReconcileFinalized(r)
  BY <1>1, <1>4, CommitSound DEF ReconcileFinalized
<1>5. CASE ReconcileRolledBack(r) \/ ReconcileCrash(r)
  <2>1. /\ tx' = [tx EXCEPT ![r] = Idle]
        /\ UNCHANGED <<inventoryVars, order, reservationOrder, tickets, cancel>>
    BY <1>5 DEF ReconcileRolledBack, CheckoutAbort, ReconcileCrash, paymentVars
  <2> QED
    BY <1>1, <2>1, IdleSound
<1>6. CASE ReconcileWrite(r)
  <2>1. \/ UNCHANGED checkoutVars
        \/ \E st \in {"expired", "pending_reconciliation"} : SetStatus(recon[r].order, st)
    BY <1>6 DEF ReconcileWrite
  <2> QED
    BY <2>1, ShopRests, StatusSound
<1> QED
  BY <1>2, <1>3, <1>4, <1>5, <1>6 DEF ReconcileStep, ReconcileTurn, ReconcileClaim,
    ReconcileQuery, ReconcileRefused, ReconcileJudge

-----------------------------------------------------------------------------
(* The cancellation                                                        *)

\* A step of one cancellation that only reads.
LEMMA CancelReads ==
  ASSUME SeatInv, PrintedAreSold, NEW m \in Admin, UNCHANGED flowVars,
         NEW c \in {NoCancel} \cup Cancellation, cancel' = [cancel EXCEPT ![m] = c],
         CancelKnows(c)
  PROVE  Sound
<1>1. UNCHANGED <<inventoryVars, order, reservationOrder, tickets, tx>>
  BY DEF flowVars, checkoutVars, checkoutOnly, paymentVars
<1>2. UNCHANGED <<reservation, order, soldCount, quotaPaid>>
  BY <1>1 DEF inventoryVars, ledgerVars
<1>3. RowTypes' /\ CallbacksAlone' /\ \A r \in Reservation : SeatsKept(r)
  BY <1>1 DEF SeatInv, RowTypes, CallbacksAlone, SeatsKept, Exists, Status, inventoryVars,
    ledgerVars, requestVars
<1>4. /\ order' \in [Order -> Sale \cup {NoOrder}] /\ \A o \in Order : OrderEnds(o)
      /\ tx' \in [Handler -> {Idle} \cup OrderTx \cup PaymentTx]
      /\ cancel' \in [Admin -> {NoCancel} \cup Cancellation]
      /\ cancel'[m] = c /\ \A n \in Admin \ {m} : cancel'[n] = cancel[n]
  BY <1>1 DEF SeatInv, SeatTypes, OrderEnds
<1>5. CancelKnows(cancel[m])'
  BY <1>2, <1>4 DEF CancelKnows, Exists, Status, OrderExists
<1>6. \A n \in Admin : cancel'[n] = cancel[n] \/ CancelKnows(cancel[n])'
  BY <1>4, <1>5
<1> QED
  BY <1>1, <1>2, <1>3, <1>4, <1>6, QuietStep

LEMMA CancelTyped ==
  ASSUME SeatInv, NEW m \in Admin, cancel[m].step # "idle"
  PROVE  cancel[m] \in Cancellation /\ CancelKnows(cancel[m])
  BY DEF SeatInv, SeatTypes, NoCancel

LEMMA CancelReadsSound ==
  ASSUME SeatInv, PrintedAreSold, NEW m \in Admin,
         \/ CancelBegin(m) \/ CancelReadReservations(m) \/ CancelReadOrders(m)
         \/ CancelReadTickets(m) \/ CancelAbort(m)
  PROVE  Sound
<1>1. UNCHANGED flowVars
  BY DEF CancelBegin, CancelReadReservations, CancelReadOrders, CancelReadTickets, CancelAbort
<1>2. CASE CancelBegin(m)
  <2> PICK S : S = {o \in Order : ConcertOrder(o) /\ order[o].status = "issued"}
    OBVIOUS
  <2> PICK c : c = [step |-> "reservations", settled |-> S, holds |-> {}, refund |-> {},
                    unpaid |-> {}, open |-> {}, valid |-> {}]
    OBVIOUS
  <2>1. cancel' = [cancel EXCEPT ![m] = c]
    BY <1>2 DEF CancelBegin
  <2>2. c \in Cancellation /\ CancelKnows(c)
    BY DEF Cancellation, CancelKnows
  <2> QED
    BY <1>1, <2>1, <2>2, CancelReads
<1>3. CASE CancelReadReservations(m)
  <2> PICK S : S = {r \in Reservation : Active(r) /\ OfConcert(r)}
    OBVIOUS
  <2> PICK k : k = cancel[m]
    OBVIOUS
  <2>1. k.step = "reservations" /\ k \in Cancellation /\ CancelKnows(k)
    BY <1>3, CancelTyped DEF CancelReadReservations
  <2> PICK c : c = [k EXCEPT !.step = "orders", !.holds = S]
    OBVIOUS
  <2>2. cancel' = [cancel EXCEPT ![m] = c]
    BY <1>3 DEF CancelReadReservations, SeatInv, SeatTypes
  <2>3. c \in Cancellation /\ c.holds = S /\ c.refund = k.refund /\ c.unpaid = k.unpaid
    BY <2>1 DEF Cancellation
  <2>4. \A r \in S : Exists(r)
    BY DEF Active, Exists
  <2>5. CancelKnows(c)
    BY <2>1, <2>3, <2>4 DEF CancelKnows
  <2> QED
    BY <1>1, <2>2, <2>3, <2>5, CancelReads
<1>4. CASE CancelReadOrders(m)
  <2> PICK R, U, O :
        /\ R = {o \in Order : /\ ConcertOrder(o) /\ NeedsRefund(o)
                              /\ order[o].status # "refund_required"}
        /\ U = {o \in Order : ConcertOrder(o) /\ ~NeedsRefund(o) /\ Pending(o)}
        /\ O = {o \in Order : /\ ConcertOrder(o) /\ ~NeedsRefund(o)
                              /\ PaymentStatus(o) \in {"created", "pending"}}
    OBVIOUS
  <2> PICK k : k = cancel[m]
    OBVIOUS
  <2>1. k.step = "orders" /\ k \in Cancellation /\ CancelKnows(k)
    BY <1>4, CancelTyped DEF CancelReadOrders
  <2> PICK c : c = [k EXCEPT !.step = "tickets", !.refund = R, !.unpaid = U, !.open = O]
    OBVIOUS
  <2>2. cancel' = [cancel EXCEPT ![m] = c]
    BY <1>4 DEF CancelReadOrders, SeatInv, SeatTypes
  <2>3. R \subseteq Order /\ U \subseteq Order /\ O \subseteq Order
    OBVIOUS
  <2>4. c \in Cancellation /\ c.holds = k.holds /\ c.refund = R /\ c.unpaid = U
    BY <2>1, <2>3 DEF Cancellation
  <2>5. \A o \in R \cup U : OrderExists(o)
    BY DEF ConcertOrder
  <2>6. CancelKnows(c)
    BY <2>1, <2>4, <2>5 DEF CancelKnows
  <2> QED
    BY <1>1, <2>2, <2>4, <2>6, CancelReads
<1>5. CASE CancelReadTickets(m)
  <2> PICK V : V = {o \in Order : ConcertOrder(o) /\ ValidTickets(o)}
    OBVIOUS
  <2> PICK k : k = cancel[m]
    OBVIOUS
  <2>1. k.step = "tickets" /\ k \in Cancellation /\ CancelKnows(k)
    BY <1>5, CancelTyped DEF CancelReadTickets
  <2> PICK c : c = [k EXCEPT !.step = "write", !.valid = V]
    OBVIOUS
  <2>2. cancel' = [cancel EXCEPT ![m] = c]
    BY <1>5 DEF CancelReadTickets, SeatInv, SeatTypes
  <2>3. c \in Cancellation /\ c.holds = k.holds /\ c.refund = k.refund /\ c.unpaid = k.unpaid
    BY <2>1 DEF Cancellation
  <2>4. CancelKnows(c)
    BY <2>1, <2>3 DEF CancelKnows
  <2> QED
    BY <1>1, <2>2, <2>3, <2>4, CancelReads
<1>6. CASE CancelAbort(m)
  <2>1. cancel' = [cancel EXCEPT ![m] = NoCancel]
    BY <1>6 DEF CancelAbort
  <2>2. CancelKnows(NoCancel)
    BY DEF CancelKnows, NoCancel
  <2> QED
    BY <1>1, <2>1, <2>2, CancelReads
<1> QED
  BY <1>2, <1>3, <1>4, <1>5, <1>6

\* It expires what it read as active, whatever it has become, and ends the orders
\* that no callback holds.
LEMMA CancelWriteSound ==
  ASSUME SeatInv, PrintedAreSold, NEW m \in Admin, CancelWrite(m)
  PROVE  Sound
<1> PICK c : c = cancel[m]
  OBVIOUS
<1>1. c.step = "write" /\ c \in Cancellation /\ CancelKnows(c)
  BY CancelTyped DEF CancelWrite
<1>2. /\ ReleaseHolds(c.holds)
      /\ \A o \in Touched(c) : ~OrderLocked(o)
      /\ order' = [o \in Order |->
           IF o \in c.refund THEN [order[o] EXCEPT !.status = "refund_required"]
           ELSE IF o \in c.unpaid THEN [order[o] EXCEPT !.status = "expired"]
           ELSE order[o]]
      /\ cancel' = [cancel EXCEPT ![m] = NoCancel]
      /\ UNCHANGED <<requestVars, selected, reservationOrder, tickets, tx>>
  BY DEF CancelWrite
<1>3. /\ c.holds \subseteq Reservation /\ c.refund \subseteq Order /\ c.unpaid \subseteq Order
      /\ \A r \in c.holds : Exists(r)
      /\ \A o \in c.refund \cup c.unpaid : OrderExists(o)
  BY <1>1 DEF Cancellation, CancelKnows
<1>4. /\ reservation' \in [Reservation -> Row \cup {NoReservation}]
      /\ \A r \in Reservation : SeatsKept(r)
      /\ UNCHANGED <<soldCount, quotaPaid>>
  BY <1>2, <1>3, ReleaseSeats DEF SeatInv
<1>5. RowTypes'
  BY <1>2, <1>4 DEF SeatInv, RowTypes, requestVars
<1>6. ASSUME NEW o \in Order, NEW st \in {"refund_required", "expired"}, OrderExists(o),
             order'[o] = [order[o] EXCEPT !.status = st]
      PROVE  OrderEnds(o) /\ order'[o] \in Sale
  <2>1. order[o] \in Sale
    BY <1>6 DEF SeatInv, SeatTypes, OrderExists, NoOrder
  <2>2. order'[o] \in Sale /\ order'[o].status = st
        /\ order'[o].reservation = order[o].reservation
    BY <1>6, <2>1 DEF Sale
  <2> QED
    BY <1>6, <2>2 DEF OrderEnds
<1>7. ASSUME NEW o \in Order
      PROVE  OrderEnds(o) /\ order'[o] \in Sale \cup {NoOrder}
  <2>1. CASE o \in c.refund
    <3>1. order'[o] = [order[o] EXCEPT !.status = "refund_required"] /\ OrderExists(o)
      BY <1>2, <1>3, <2>1
    <3> QED
      BY <1>6, <3>1
  <2>2. CASE o \notin c.refund /\ o \in c.unpaid
    <3>1. order'[o] = [order[o] EXCEPT !.status = "expired"] /\ OrderExists(o)
      BY <1>2, <1>3, <2>2
    <3> QED
      BY <1>6, <3>1
  <2>3. CASE o \notin c.refund /\ o \notin c.unpaid
    <3>1. order'[o] = order[o]
      BY <1>2, <2>3
    <3> QED
      BY <3>1 DEF OrderEnds, SeatInv, SeatTypes
  <2> QED
    BY <2>1, <2>2, <2>3
<1>8. order' \in [Order -> Sale \cup {NoOrder}]
  <2>1. order' = [o \in Order |-> order'[o]]
    BY <1>2
  <2> QED
    BY <1>7, <2>1
<1>9. /\ tx' \in [Handler -> {Idle} \cup OrderTx \cup PaymentTx] /\ CallbacksAlone'
      /\ cancel' \in [Admin -> {NoCancel} \cup Cancellation]
      /\ cancel'[m] = NoCancel /\ \A n \in Admin \ {m} : cancel'[n] = cancel[n]
  BY <1>2 DEF SeatInv, SeatTypes, CallbacksAlone
<1>10. \A n \in Admin : cancel'[n] = cancel[n] \/ CancelKnows(cancel[n])'
  BY <1>9 DEF CancelKnows, NoCancel
<1>11. \A h \in Handler :
         /\ tx'[h] = tx[h]
         /\ tx[h].step = "webhook" => order'[tx[h].order] = order[tx[h].order]
  <2> SUFFICES ASSUME NEW h \in Handler, tx[h].step = "webhook"
               PROVE  order'[tx[h].order] = order[tx[h].order]
    BY <1>2
  <2>1. tx[h].order \in Order
    BY CallbackHas
  <2>2. tx[h].order \notin Touched(c)
    BY <1>2 DEF OrderLocked
  <2> QED
    BY <1>2, <2>1, <2>2 DEF Touched
<1> QED
  BY <1>2, <1>4, <1>5, <1>7, <1>8, <1>9, <1>10, <1>11, QuietStep

LEMMA CancelNextSound ==
  ASSUME CancelInv, [CancelNext]_cancelVars
  PROVE  Sound
<1> USE DEF CancelInv
<1>1. CASE FlowNext /\ UNCHANGED cancelOnly
  <2>1. cancel' = cancel
    BY <1>1 DEF cancelOnly
  <2>2. CASE CheckoutStep
    BY <2>1, <2>2, CheckoutStepSound
  <2>3. ASSUME NEW a \in Asker, AskStep(a)
        PROVE  Sound
    BY <2>1, <2>3, AskSound
  <2>4. ASSUME NEW r \in Reconciler, ReconcileStep(r)
        PROVE  Sound
    BY <2>1, <2>4, ReconcileSound
  <2>5. ASSUME NEW o \in Order, LeaseRunsOut(o)
        PROVE  Sound
    BY <2>1, <2>5, ShopRests DEF LeaseRunsOut
  <2> QED
    BY <1>1, <2>2, <2>3, <2>4, <2>5 DEF FlowNext
<1>2. ASSUME NEW m \in Admin, CancelStep(m)
      PROVE  Sound
  BY <1>2, CancelReadsSound, CancelWriteSound DEF CancelStep
<1>3. CASE UNCHANGED cancelVars
  BY <1>3, ShopRests DEF cancelVars, cancelOnly, flowVars
<1> QED
  BY <1>1, <1>2, <1>3 DEF CancelNext

LEMMA CancelStepKeeps ==
  ASSUME CancelInv, [CancelNext]_cancelVars
  PROVE  CancelInv' /\ ClosedStayClosed
<1>1. Sound
  BY CancelNextSound
<1>2. BooksInv'
  BY BooksStep DEF CancelInv
<1> QED
  BY <1>1, <1>2 DEF CancelInv, Sound

LEMMA CancelInvariance == CancelSpec => []CancelInv
<1>1. CancelInv /\ [CancelNext]_cancelVars => CancelInv'
  BY CancelStepKeeps
<1> QED
  BY <1>1, CancelInitInv, PTL DEF CancelSpec

-----------------------------------------------------------------------------
(* What was settled                                                        *)

\* A step takes no tickets away, and what was settled stays settled, or goes to
\* the refund queue.
StaysSettled(o) ==
  /\ OrderExists(o) =>
       order'[o].status # "none" /\ order'[o].reservation = order[o].reservation
  /\ Refundable(o) /\ tickets[o] > 0 =>
       /\ tickets'[o] = tickets[o]
       /\ order'[o].status \in {order[o].status, "refund_required"}

PaidStep ==
  /\ PaidInv'
  /\ \A r \in Reservation : SeatsKept(r)
  /\ \A o \in Order : StaysSettled(o)

\* An order that starts, ends or rests, and is not a settled one that fails.
SellsNothing(o) ==
  \/ order'[o] = order[o]
  \/ order[o].status = "none" /\ order'[o].status = "pending_payment"
  \/ /\ OrderExists(o) /\ order'[o].reservation = order[o].reservation
     /\ order'[o].status \in {"expired", "refund_required", "failed"}
     /\ Refundable(o) /\ tickets[o] > 0 => order'[o].status = "refund_required"

LEMMA NothingSold ==
  ASSUME PaidInv, UNCHANGED <<tickets, reported>>, \A r \in Reservation : SeatsKept(r),
         \A o \in Order : SellsNothing(o),
         \A h \in Handler : tx'[h] = tx[h] \/ Founded(tx[h])'
  PROVE  PaidStep
<1>1. \A o \in Order : StaysSettled(o)
  BY DEF SellsNothing, StaysSettled, OrderExists, Refundable
<1>2. \A o \in Order : order'[o].status = "issued" => tickets'[o] > 0
  BY DEF SellsNothing, PaidInv
<1>3. \A h \in Handler : Founded(tx[h])'
  BY DEF PaidInv, Founded
<1> QED
  BY <1>1, <1>2, <1>3 DEF PaidStep, PaidInv

LEMMA RowsKept ==
  ASSUME UNCHANGED reservation
  PROVE  \A r \in Reservation : SeatsKept(r)
  BY DEF SeatsKept, Exists, Status

\* A step of one request that no callback answers.
LEMMA RequestPaid ==
  ASSUME SeatInv, PaidInv, NEW h \in Handler, UNCHANGED <<reservation, order, tickets, reported>>,
         NEW q, q.step # "webhook", tx' = [tx EXCEPT ![h] = q]
  PROVE  PaidStep
<1>1. \A o \in Order : SellsNothing(o)
  BY DEF SellsNothing
<1>2. tx'[h] = q /\ \A g \in Handler \ {h} : tx'[g] = tx[g]
  BY DEF SeatInv, SeatTypes
<1>3. \A g \in Handler : tx'[g] = tx[g] \/ Founded(tx[g])'
  BY <1>2 DEF Founded
<1> QED
  BY <1>1, <1>3, RowsKept, NothingSold

LEMMA OthersPaid ==
  ASSUME PaidInv, UNCHANGED <<reservation, order, tickets, reported, tx>>
  PROVE  PaidStep
<1>1. \A o \in Order : SellsNothing(o)
  BY DEF SellsNothing
<1> QED
  BY <1>1, RowsKept, NothingSold

LEMMA WritePaid ==
  ASSUME SeatInv, PaidInv, NEW h \in Handler, OrderWrite(h)
  PROVE  PaidStep
<1> PICK a : a = tx[h].request
  OBVIOUS
<1>1. /\ a.order \in Order
      /\ UNCHANGED <<reservation, tickets, reported>>
  BY DEF OrderWrite, inventoryVars, ledgerVars, SeatInv, SeatTypes, Idle, PaymentTx, OrderTx,
    OrderRequest
<1>2. PICK st \in OrderReply : tx' = [tx EXCEPT ![h].step = st]
  BY DEF OrderWrite, DuplicateReply, OrderReply
<1>3. /\ tx'[h] = [tx[h] EXCEPT !.step = st] /\ \A g \in Handler \ {h} : tx'[g] = tx[g]
      /\ tx[h] \in OrderTx
  BY <1>2 DEF OrderWrite, SeatInv, SeatTypes, Idle, PaymentTx
<1>4. tx'[h].step # "webhook"
  BY <1>3 DEF OrderTx, OrderReply
<1>5. \A o \in Order : SellsNothing(o)
  <2>1. CASE OrderExists(a.order)
    BY <2>1 DEF OrderWrite, SellsNothing
  <2>2. CASE ~OrderExists(a.order)
    <3>1. order' = [order EXCEPT ![a.order] =
                      [status |-> "pending_payment", reservation |-> a.reservation,
                       provider |-> a.provider]]
      BY <2>2 DEF OrderWrite
    <3>2. /\ order'[a.order].status = "pending_payment"
          /\ \A o \in Order \ {a.order} : order'[o] = order[o]
      BY <1>1, <3>1 DEF SeatInv, SeatTypes
    <3> QED
      BY <1>1, <2>2, <3>2 DEF SellsNothing, OrderExists
  <2> QED
    BY <2>1, <2>2
<1>6. \A g \in Handler : tx'[g] = tx[g] \/ Founded(tx[g])'
  BY <1>3, <1>4 DEF Founded
<1> QED
  BY <1>1, <1>5, <1>6, RowsKept, NothingSold

LEMMA ReadsPaid ==
  ASSUME SeatInv, PaidInv, NEW h \in Handler, NEW e \in Event, NEW sound \in BOOLEAN,
         WebhookReads(h, e, sound), <<OrderOf(e), VerdictOf(e)>> \in reported
  PROVE  PaidStep
<1>1. UNCHANGED <<reservation, order, tickets, reported>>
  BY DEF WebhookReads, inventoryVars, ledgerVars, paymentVars
<1>2. PICK r \in Linked(OrderOf(e)) :
        /\ WebhookOutcome(e, r, sound) # "refused"
        /\ tx' = [tx EXCEPT ![h] =
             [step |-> "webhook", order |-> OrderOf(e), reservation |-> r, hash |-> e,
              outcome |-> WebhookOutcome(e, r, sound), held |-> Active(r)]]
  BY DEF WebhookReads
<1> PICK d, held : d = WebhookOutcome(e, r, sound) /\ held = Active(r)
  OBVIOUS
<1>3. tx'[h] = [step |-> "webhook", order |-> OrderOf(e), reservation |-> r, hash |-> e,
                outcome |-> d, held |-> held]
  BY <1>2, Zenon DEF SeatInv, SeatTypes
<1>4. \A g \in Handler \ {h} : tx'[g] = tx[g]
  BY <1>2 DEF SeatInv, SeatTypes
<1>5. VerdictOf(e) \in Verdict
  BY DEF Event, VerdictOf
<1>6. /\ d = "fail" => VerdictOf(e) = "failed"
      /\ d = "confirm" => VerdictOf(e) = "succeeded"
  BY <1>5 DEF WebhookOutcome, ConfirmOutcome, Verdict
<1>7. Founded(tx[h])'
  BY <1>1, <1>3, <1>6 DEF Founded
<1>8. \A g \in Handler : tx'[g] = tx[g] \/ Founded(tx[g])'
  BY <1>4, <1>7
<1>9. \A o \in Order : SellsNothing(o)
  BY <1>1 DEF SellsNothing
<1> QED
  BY <1>1, <1>8, <1>9, RowsKept, NothingSold

\* The provider has failed no order that has tickets.
LEMMA CommitPaid ==
  ASSUME SeatInv, PaidInv, NEW h \in Handler, WebhookCommit(h)
  PROVE  PaidStep
<1> PICK a : a = tx[h]
  OBVIOUS
<1> PICK o, r : o = a.order /\ r = a.reservation
  OBVIOUS
<1>1. /\ tx[h].step = "webhook" /\ tx' = [tx EXCEPT ![h] = Idle] /\ Apply(a)
      /\ reported' = reported
  BY DEF WebhookCommit
<1>2. /\ o \in Order /\ r \in Reservation /\ OrderExists(o) /\ Exists(r)
      /\ a.outcome = "confirm" => Pending(o)
  BY <1>1, CallbackHas
<1>3. tx'[h] = Idle /\ \A g \in Handler \ {h} : tx'[g] = tx[g]
  BY <1>1 DEF SeatInv, SeatTypes
<1>4. \A g \in Handler : tx'[g] = tx[g] \/ Founded(tx[g])'
  BY <1>3 DEF Founded, Idle
<1>5. /\ a.outcome = "fail" => <<o, "failed">> \in reported
      /\ a.outcome = "confirm" => <<o, "succeeded">> \in reported
  BY <1>1 DEF PaidInv, Founded
<1>6. UNCHANGED ledgerVars => \A x \in Reservation : SeatsKept(x)
  BY RowsKept DEF ledgerVars
<1>7. CASE a.outcome = "confirm" /\ Confirm(a)
  <2> PICK q : q = reservation[r].quantity
    OBVIOUS
  <2>1. /\ SellHold(r) /\ order' = [order EXCEPT ![o].status = "issued"]
        /\ tickets' = [tickets EXCEPT ![o] = IF @ < q THEN q ELSE @]
    BY <1>7 DEF Confirm, Settle
  <2>2. (\A x \in Reservation : SeatsKept(x)) /\ q \in 1 .. MaxQuantity
    BY <1>2, <2>1, SellSeats DEF SeatInv
  <2>3. /\ order'[o].status = "issued" /\ order'[o].reservation = order[o].reservation
        /\ \A p \in Order \ {o} : order'[p] = order[p]
    BY <1>2, <2>1, SettleOrder
  <2>4. tickets'[o] > 0 /\ \A p \in Order \ {o} : tickets'[p] = tickets[p]
    <3>1. q \in Nat /\ q > 0
      BY <2>2, LimitAssumption
    <3> QED
      BY <1>2, <2>1, <3>1 DEF SeatInv, SeatTypes
  <2>5. \A p \in Order : StaysSettled(p)
    BY <1>2, <1>7, <2>3, <2>4 DEF StaysSettled, OrderExists, Refundable, Pending
  <2>6. PaidInv'
    <3>1. \A p \in Order : ~(\A v \in Verdict : <<p, v>> \in reported')
      BY <1>1 DEF PaidInv
    <3>2. \A g \in Handler : Founded(tx[g])'
      BY <1>1, <1>4 DEF PaidInv, Founded
    <3>3. \A p \in Order : order'[p].status = "issued" => tickets'[p] > 0
      BY <2>3, <2>4 DEF PaidInv
    <3>4. \A p \in Order : tickets'[p] > 0 => <<p, "succeeded">> \in reported'
      BY <1>1, <1>5, <1>7, <2>4 DEF PaidInv
    <3> QED
      BY <3>1, <3>2, <3>3, <3>4 DEF PaidInv
  <2> QED
    BY <2>2, <2>5, <2>6 DEF PaidStep
<1>8. CASE Refund(a)
  <2>1. order' = [order EXCEPT ![o].status = "refund_required"] /\ UNCHANGED tickets
    BY <1>8 DEF Refund, Settle
  <2>2. \A x \in Reservation : SeatsKept(x)
    <3>1. CASE a.held
      BY <1>2, <1>8, <3>1, ReleaseSeats DEF Refund, SeatInv
    <3>2. CASE ~a.held
      BY <1>6, <1>8, <3>2 DEF Refund
    <3> QED
      BY <3>1, <3>2
  <2>3. /\ order'[o].status = "refund_required" /\ order'[o].reservation = order[o].reservation
        /\ \A p \in Order \ {o} : order'[p] = order[p]
    BY <1>2, <2>1, SettleOrder
  <2>4. \A p \in Order : SellsNothing(p)
    BY <1>2, <2>3 DEF SellsNothing
  <2> QED
    BY <1>1, <1>4, <2>1, <2>2, <2>4, NothingSold
<1>9. CASE a.outcome = "fail" /\ Fail(a)
  <2>1. /\ order' = [order EXCEPT ![o].status = "failed"] /\ UNCHANGED tickets
        /\ UNCHANGED ledgerVars
    BY <1>9 DEF Fail, Settle
  <2>2. /\ order'[o].status = "failed" /\ order'[o].reservation = order[o].reservation
        /\ \A p \in Order \ {o} : order'[p] = order[p]
    BY <1>2, <2>1, SettleOrder
  <2>3. ~(tickets[o] > 0)
    BY <1>2, <1>5, <1>9 DEF PaidInv, Verdict
  <2>4. \A p \in Order : SellsNothing(p)
    BY <1>2, <2>2, <2>3 DEF SellsNothing
  <2> QED
    BY <1>1, <1>4, <1>6, <2>1, <2>4, NothingSold
<1>10. CASE UNCHANGED <<ledgerVars, order, payment, tickets>>
  <2>1. \A p \in Order : SellsNothing(p)
    BY <1>10 DEF SellsNothing
  <2> QED
    BY <1>1, <1>4, <1>6, <1>10, <2>1, NothingSold
<1> QED
  BY <1>1, <1>7, <1>8, <1>9, <1>10 DEF Apply

LEMMA ExpiryPaid ==
  ASSUME SeatInv, PaidInv, NEW w \in Worker, ExpireWithOrders(w)
  PROVE  PaidStep
<1> PICK S : S = {r \in selected[w] : Active(r)}
  OBVIOUS
<1> PICK E : E = PendingOrdersOf(S)
  OBVIOUS
<1>1. /\ ReleaseHolds(S)
      /\ order' = [o \in Order |->
           IF o \in E THEN [order[o] EXCEPT !.status = "expired"] ELSE order[o]]
      /\ UNCHANGED <<tickets, reported, tx>>
  BY DEF ExpireWithOrders, ExpireCommit, paymentVars
<1>2. S \subseteq Reservation /\ \A r \in S : Exists(r)
  BY DEF SeatInv, RowTypes, Active, Exists
<1>3. \A r \in Reservation : SeatsKept(r)
  BY <1>1, <1>2, ReleaseSeats DEF SeatInv
<1>4. ASSUME NEW o \in Order
      PROVE  SellsNothing(o)
  <2>1. CASE o \in E
    <3>1. Pending(o) /\ OrderExists(o)
      BY <2>1 DEF PendingOrdersOf, Pending, OrderExists
    <3>2. order[o] \in Sale
      BY <3>1 DEF SeatInv, SeatTypes, OrderExists, NoOrder
    <3>3. order'[o] = [order[o] EXCEPT !.status = "expired"]
      BY <1>1, <2>1
    <3>4. order'[o].status = "expired" /\ order'[o].reservation = order[o].reservation
      BY <3>2, <3>3 DEF Sale
    <3> QED
      BY <3>1, <3>4 DEF SellsNothing, Refundable, Pending
  <2>2. CASE o \notin E
    BY <1>1, <2>2 DEF SellsNothing
  <2> QED
    BY <2>1, <2>2
<1> QED
  BY <1>1, <1>3, <1>4, NothingSold

LEMMA ReportsPaid ==
  ASSUME DecidesOnce, SeatInv, PaidInv, NEW o \in Order, NEW v \in Verdict, ProviderReports(o, v)
  PROVE  PaidStep
<1>1. /\ {x \in Verdict : <<o, x>> \in reported} = {} /\ reported' = reported \cup {<<o, v>>}
      /\ UNCHANGED <<reservation, order, tickets, tx>>
  BY DEF DecidesOnce, ProviderReports, inventoryVars, ledgerVars, paymentVars
<1>2. \A p \in Order : ~(\A x \in Verdict : <<p, x>> \in reported')
  <2> SUFFICES ASSUME NEW p \in Order PROVE ~(\A x \in Verdict : <<p, x>> \in reported')
    OBVIOUS
  <2>1. CASE p = o
    <3>1. \A x \in Verdict : <<o, x>> \in reported' => x = v
      BY <1>1
    <3> QED
      BY <2>1, <3>1 DEF Verdict
  <2>2. CASE p # o
    <3>1. \A x \in Verdict : <<p, x>> \in reported' => <<p, x>> \in reported
      BY <1>1, <2>2
    <3> QED
      BY <3>1 DEF PaidInv
  <2> QED
    BY <2>1, <2>2
<1>3. PaidInv'
  BY <1>1, <1>2 DEF PaidInv, Founded
<1>4. \A p \in Order : StaysSettled(p)
  BY <1>1 DEF StaysSettled, OrderExists
<1> QED
  BY <1>1, <1>3, <1>4, RowsKept DEF PaidStep

LEMMA FlowPaid ==
  ASSUME DecidesOnce, CancelInv, PaidInv, FlowNext
  PROVE  PaidStep
<1> USE DEF CancelInv
<1>1. UNCHANGED checkoutVars => PaidStep
  BY OthersPaid DEF checkoutVars, inventoryVars, ledgerVars, checkoutOnly, paymentVars
<1>2. ASSUME NEW o, NEW st, SetStatus(o, st)
      PROVE  PaidStep
  BY <1>2, OthersPaid DEF SetStatus, inventoryVars, ledgerVars
<1>3. ASSUME NEW h \in Handler, \/ OrderLookup(h) \/ OrderCheck(h) \/ OrderReturn(h)
                                \/ CheckoutAbort(h)
      PROVE  PaidStep
  <2>1. UNCHANGED <<reservation, order, tickets, reported>>
    BY <1>3 DEF OrderLookup, OrderCheck, OrderReturn, CheckoutAbort, inventoryVars, ledgerVars,
      paymentVars
  <2>2. CASE OrderReturn(h) \/ CheckoutAbort(h)
    <3>1. tx' = [tx EXCEPT ![h] = Idle]
      BY <2>2 DEF OrderReturn, CheckoutAbort
    <3>2. Idle.step # "webhook"
      BY DEF Idle
    <3> QED
      BY <2>1, <3>1, <3>2, RequestPaid
  <2>3. CASE OrderLookup(h)
    <3>1. PICK a \in OrderRequest, st \in {"check", "replayed", "duplicate_request_conflict"} :
            tx' = [tx EXCEPT ![h] = [step |-> st, request |-> a]]
      BY <2>3 DEF OrderLookup, DuplicateReply
    <3> PICK q : q = [step |-> st, request |-> a]
      OBVIOUS
    <3>2. q.step # "webhook" /\ tx' = [tx EXCEPT ![h] = q]
      BY <3>1
    <3> QED
      BY <2>1, <3>2, RequestPaid
  <2>4. CASE OrderCheck(h)
    <3>1. PICK st \in {"write", "refused"} : tx' = [tx EXCEPT ![h].step = st]
      BY <2>4 DEF OrderCheck
    <3>2. tx[h] \in OrderTx
      BY <2>4 DEF OrderCheck, SeatInv, SeatTypes, Idle, PaymentTx
    <3> PICK k : k = tx[h]
      OBVIOUS
    <3> PICK q : q = [k EXCEPT !.step = st]
      OBVIOUS
    <3>3. q.step # "webhook" /\ tx' = [tx EXCEPT ![h] = q]
      BY <3>1, <3>2 DEF OrderTx, SeatInv, SeatTypes
    <3> QED
      BY <2>1, <3>3, RequestPaid
  <2> QED
    BY <1>3, <2>2, <2>3, <2>4
<1>4. ASSUME CheckoutStep
      PROVE  PaidStep
  <2>1. CASE InventoryStep
    <3>1. UNCHANGED <<order, tickets, reported, tx>>
      BY <2>1 DEF InventoryStep, checkoutOnly, paymentVars
    <3>2. \A r \in Reservation : SeatsKept(r)
      BY <2>1, LedgerStepSeats DEF SeatInv
    <3>3. \A o \in Order : SellsNothing(o)
      BY <3>1 DEF SellsNothing
    <3> QED
      BY <3>1, <3>2, <3>3, NothingSold
  <2>2. ASSUME NEW o \in intent, NEW v \in Verdict, ProviderReports(o, v)
        PROVE  PaidStep
    <3>1. o \in Order
      BY DEF BooksInv, AskInv, AskTypes
    <3> QED
      BY <2>2, <3>1, ReportsPaid
  <2>3. ASSUME NEW h \in Handler, NEW e \in Event, NEW sound \in Soundness, Deliver(h, e, sound)
        PROVE  PaidStep
    <3>1. /\ sound \in BOOLEAN /\ WebhookReads(h, e, sound)
          /\ <<OrderOf(e), VerdictOf(e)>> \in reported
      BY <2>3, PairingAssumption DEF Deliver
    <3> QED
      BY <3>1, ReadsPaid
  <2>4. ASSUME NEW w \in Worker, ExpireWithOrders(w)
        PROVE  PaidStep
    BY <2>4, ExpiryPaid
  <2>5. ASSUME NEW h \in Handler, OrderWrite(h) \/ WebhookCommit(h)
        PROVE  PaidStep
    BY <2>5, WritePaid, CommitPaid
  <2> QED
    BY <1>3, <1>4, <2>1, <2>2, <2>3, <2>4, <2>5 DEF CheckoutStep
<1>5. ASSUME NEW a \in Asker, AskStep(a)
      PROVE  PaidStep
  <2>1. \/ UNCHANGED checkoutVars
        \/ \E st \in {"expired", "pending", "pending_reconciliation"} : SetStatus(ask[a].order, st)
    BY <1>5 DEF AskStep, IntentLoad, IntentExpire, IntentClaim, IntentCall, IntentSave, IntentDoubt,
      IntentComplete, IntentStumbles, IntentCrash
  <2> QED
    BY <1>1, <1>2, <2>1
<1>6. ASSUME NEW r \in Reconciler, ReconcileStep(r)
      PROVE  PaidStep
  <2>1. r \in Handler
    BY ReconcilerAssumption
  <2>2. CASE ReconcileFinalize(r)
    <3> PICK e : e = AnswerEvent(r)
      OBVIOUS
    <3>1. WebhookReads(r, e, TRUE) /\ recon[r].step = "finalize"
      BY <2>2 DEF ReconcileFinalize
    <3>2. e \in Event /\ <<OrderOf(e), VerdictOf(e)>> \in reported
      BY <3>1, AnswerIsEvent DEF BooksInv
    <3> QED
      BY <2>1, <3>1, <3>2, ReadsPaid
  <2>3. CASE ReconcileFinalized(r)
    BY <2>1, <2>3, CommitPaid DEF ReconcileFinalized
  <2>4. CASE ReconcileRolledBack(r) \/ ReconcileCrash(r)
    <3>1. /\ tx' = [tx EXCEPT ![r] = Idle]
          /\ UNCHANGED <<reservation, order, tickets, reported>>
      BY <2>4 DEF ReconcileRolledBack, CheckoutAbort, ReconcileCrash, inventoryVars, ledgerVars,
        paymentVars
    <3>2. Idle.step # "webhook"
      BY DEF Idle
    <3> QED
      BY <2>1, <3>1, <3>2, RequestPaid
  <2>5. CASE ReconcileWrite(r)
    <3>1. \/ UNCHANGED checkoutVars
          \/ \E st \in {"expired", "pending_reconciliation"} : SetStatus(recon[r].order, st)
      BY <2>5 DEF ReconcileWrite
    <3> QED
      BY <1>1, <1>2, <3>1
  <2> QED
    BY <1>1, <1>6, <2>2, <2>3, <2>4, <2>5 DEF ReconcileStep, ReconcileTurn, ReconcileClaim,
      ReconcileQuery, ReconcileRefused, ReconcileJudge
<1> QED
  BY <1>1, <1>4, <1>5, <1>6 DEF FlowNext, LeaseRunsOut

\* What a cancellation knows of the settled orders stays true while others act.
LEMMA KnownStays ==
  ASSUME SeatInv, PaidStep, NEW c \in {NoCancel} \cup Cancellation, SettledIsKnown(c),
         canceled' = canceled, revoked' = revoked
  PROVE  SettledIsKnown(c)'
<1> SUFFICES ASSUME c.step # "idle" PROVE SettledIsKnown(c)'
  BY DEF SettledIsKnown
<1>1. c.settled \subseteq Order
  BY DEF NoCancel, Cancellation
<1>2. ~canceled'
  BY DEF SettledIsKnown
<1>3. ASSUME NEW o \in c.settled
      PROVE  /\ ConcertOrder(o)' /\ Refundable(o)' /\ tickets'[o] > 0
             /\ c.step \in {"tickets", "write"} =>
                  /\ order'[o].status = "issued" => o \in c.refund
                  /\ o \notin c.unpaid
             /\ c.step = "write" => o \in c.valid \cup revoked'
  <2>1. o \in Order /\ StaysSettled(o) /\ OrderHas(o)
    BY <1>1 DEF PaidStep, SeatInv
  <2>2. /\ ConcertOrder(o) /\ Refundable(o) /\ tickets[o] > 0
        /\ c.step \in {"tickets", "write"} =>
             /\ order[o].status = "issued" => o \in c.refund
             /\ o \notin c.unpaid
        /\ c.step = "write" => o \in c.valid \cup revoked
    BY DEF SettledIsKnown
  <2>3. OrderExists(o) /\ order[o].reservation \in Reservation /\ Exists(order[o].reservation)
    BY <2>1, <2>2 DEF ConcertOrder, OrderHas
  <2>4. ConcertOrder(o)'
    BY <2>1, <2>2, <2>3 DEF PaidStep, ConcertOrder, OfConcert, StaysSettled, SeatsKept, OrderExists
  <2>5. Refundable(o)' /\ tickets'[o] > 0 /\ (order'[o].status = "issued" => order[o].status = "issued")
    BY <2>1, <2>2 DEF StaysSettled, Refundable
  <2> QED
    BY <2>2, <2>4, <2>5
<1> QED
  BY <1>2, <1>3 DEF SettledIsKnown

\* What a read adds to it is true when it is read.
LEMMA KnownReads ==
  ASSUME SeatInv, SettledInv, NEW m \in Admin,
         \/ CancelBegin(m) \/ CancelReadReservations(m) \/ CancelReadOrders(m)
         \/ CancelReadTickets(m) \/ CancelAbort(m)
  PROVE  \E c \in {NoCancel} \cup Cancellation :
           cancel' = [cancel EXCEPT ![m] = c] /\ SettledIsKnown(c)
<1>1. CASE CancelBegin(m)
  <2> PICK S : S = {o \in Order : ConcertOrder(o) /\ order[o].status = "issued"}
    OBVIOUS
  <2> PICK c : c = [step |-> "reservations", settled |-> S, holds |-> {}, refund |-> {},
                    unpaid |-> {}, open |-> {}, valid |-> {}]
    OBVIOUS
  <2>1. cancel' = [cancel EXCEPT ![m] = c] /\ ~canceled
    BY <1>1 DEF CancelBegin
  <2>2. c \in Cancellation
    BY DEF Cancellation
  <2>3. SettledIsKnown(c)
    BY <2>1 DEF SettledIsKnown, Refundable, SettledInv, PaidInv
  <2> QED
    BY <2>1, <2>2, <2>3
<1> PICK k : k = cancel[m]
  OBVIOUS
<1>2. k.step # "idle" => k \in Cancellation /\ SettledIsKnown(k)
  BY CancelTyped DEF SettledInv
<1>3. CASE CancelReadReservations(m)
  <2> PICK S : S = {r \in Reservation : Active(r) /\ OfConcert(r)}
    OBVIOUS
  <2> PICK c : c = [k EXCEPT !.step = "orders", !.holds = S]
    OBVIOUS
  <2>1. cancel' = [cancel EXCEPT ![m] = c] /\ k.step = "reservations"
    BY <1>3 DEF CancelReadReservations, SeatInv, SeatTypes
  <2>2. c \in Cancellation /\ c.step = "orders" /\ c.settled = k.settled
    BY <1>2, <2>1 DEF Cancellation
  <2>3. SettledIsKnown(c)
    BY <1>2, <2>1, <2>2 DEF SettledIsKnown
  <2> QED
    BY <2>1, <2>2, <2>3
<1>4. CASE CancelReadOrders(m)
  <2> PICK R, U, O :
        /\ R = {o \in Order : /\ ConcertOrder(o) /\ NeedsRefund(o)
                              /\ order[o].status # "refund_required"}
        /\ U = {o \in Order : ConcertOrder(o) /\ ~NeedsRefund(o) /\ Pending(o)}
        /\ O = {o \in Order : /\ ConcertOrder(o) /\ ~NeedsRefund(o)
                              /\ PaymentStatus(o) \in {"created", "pending"}}
    OBVIOUS
  <2> PICK c : c = [k EXCEPT !.step = "tickets", !.refund = R, !.unpaid = U, !.open = O]
    OBVIOUS
  <2>1. cancel' = [cancel EXCEPT ![m] = c] /\ k.step = "orders"
    BY <1>4 DEF CancelReadOrders, SeatInv, SeatTypes
  <2>2. R \subseteq Order /\ U \subseteq Order /\ O \subseteq Order
    OBVIOUS
  <2>3. /\ c \in Cancellation /\ c.step = "tickets" /\ c.settled = k.settled
        /\ c.refund = R /\ c.unpaid = U /\ k.settled \subseteq Order
    BY <1>2, <2>1, <2>2 DEF Cancellation
  <2>4. \A o \in Order : ConcertOrder(o) /\ Refundable(o) =>
          (order[o].status = "issued" => o \in R) /\ o \notin U
    BY DEF Refundable, NeedsRefund
  <2>5. SettledIsKnown(c)
    BY <1>2, <2>1, <2>3, <2>4 DEF SettledIsKnown
  <2> QED
    BY <2>1, <2>3, <2>5
<1>5. CASE CancelReadTickets(m)
  <2> PICK V : V = {o \in Order : ConcertOrder(o) /\ ValidTickets(o)}
    OBVIOUS
  <2> PICK c : c = [k EXCEPT !.step = "write", !.valid = V]
    OBVIOUS
  <2>1. cancel' = [cancel EXCEPT ![m] = c] /\ k.step = "tickets"
    BY <1>5 DEF CancelReadTickets, SeatInv, SeatTypes
  <2>2. V \subseteq Order
    OBVIOUS
  <2>3. /\ c \in Cancellation /\ c.step = "write" /\ c.settled = k.settled
        /\ c.refund = k.refund /\ c.unpaid = k.unpaid /\ c.valid = V /\ k.settled \subseteq Order
    BY <1>2, <2>1, <2>2 DEF Cancellation
  <2>4. \A o \in Order : ConcertOrder(o) /\ tickets[o] > 0 => o \in V \cup revoked
    BY DEF ValidTickets
  <2>5. SettledIsKnown(c)
    BY <1>2, <2>1, <2>3, <2>4 DEF SettledIsKnown
  <2> QED
    BY <2>1, <2>3, <2>5
<1>6. CASE CancelAbort(m)
  <2>1. cancel' = [cancel EXCEPT ![m] = NoCancel]
    BY <1>6 DEF CancelAbort
  <2>2. SettledIsKnown(NoCancel)
    BY DEF SettledIsKnown, NoCancel
  <2> QED
    BY <2>1, <2>2
<1> QED
  BY <1>1, <1>3, <1>4, <1>5, <1>6

LEMMA CancelWritePaid ==
  ASSUME SeatInv, SettledInv, NEW m \in Admin, CancelWrite(m)
  PROVE  /\ PaidInv'
         /\ \A o \in cancel[m].settled : order'[o].status = "refund_required" /\ o \in revoked'
<1> PICK c : c = cancel[m]
  OBVIOUS
<1>1. /\ c.step = "write" /\ c \in Cancellation /\ CancelKnows(c) /\ SettledIsKnown(c)
  BY CancelTyped DEF CancelWrite, SettledInv
<1>2. /\ order' = [o \in Order |->
           IF o \in c.refund THEN [order[o] EXCEPT !.status = "refund_required"]
           ELSE IF o \in c.unpaid THEN [order[o] EXCEPT !.status = "expired"]
           ELSE order[o]]
      /\ revoked' = revoked \cup c.valid
      /\ UNCHANGED <<tickets, reported, tx>>
  BY DEF CancelWrite
<1>3. /\ c.refund \subseteq Order /\ c.unpaid \subseteq Order /\ c.settled \subseteq Order
      /\ \A o \in c.refund \cup c.unpaid : OrderExists(o)
  BY <1>1 DEF Cancellation, CancelKnows
<1>4. ASSUME NEW o \in Order, NEW st, OrderExists(o),
             order'[o] = [order[o] EXCEPT !.status = st]
      PROVE  order'[o].status = st /\ order'[o].reservation = order[o].reservation
  <2>1. order[o] \in Sale
    BY <1>4 DEF SeatInv, SeatTypes, OrderExists, NoOrder
  <2> QED
    BY <1>4, <2>1 DEF Sale
<1>5. \A o \in c.refund : /\ order'[o].status = "refund_required"
                          /\ order'[o].reservation = order[o].reservation
  <2> SUFFICES ASSUME NEW o \in c.refund
               PROVE  /\ order'[o].status = "refund_required"
                      /\ order'[o].reservation = order[o].reservation
    OBVIOUS
  <2>1. o \in Order /\ OrderExists(o) /\ order'[o] = [order[o] EXCEPT !.status = "refund_required"]
    BY <1>2, <1>3
  <2> QED
    BY <1>4, <2>1
<1>6. \A o \in c.unpaid : o \notin c.refund =>
        /\ order'[o].status = "expired" /\ order'[o].reservation = order[o].reservation
  <2> SUFFICES ASSUME NEW o \in c.unpaid, o \notin c.refund
               PROVE  /\ order'[o].status = "expired"
                      /\ order'[o].reservation = order[o].reservation
    OBVIOUS
  <2>1. o \in Order /\ OrderExists(o) /\ order'[o] = [order[o] EXCEPT !.status = "expired"]
    BY <1>2, <1>3
  <2> QED
    BY <1>4, <2>1
<1>7. \A o \in Order : o \notin c.refund /\ o \notin c.unpaid => order'[o] = order[o]
  BY <1>2
<1>8. \A o \in c.settled : /\ Refundable(o)
                           /\ order[o].status = "issued" => o \in c.refund
                           /\ o \notin c.unpaid /\ o \in c.valid \cup revoked
  BY <1>1 DEF SettledIsKnown
<1>9. \A o \in c.settled : order'[o].status = "refund_required" /\ o \in revoked'
  BY <1>2, <1>3, <1>5, <1>7, <1>8 DEF Refundable
<1>10. PaidInv'
  <2>1. \A o \in Order : order'[o].status = "issued" => order[o].status = "issued"
    BY <1>5, <1>6, <1>7
  <2> QED
    BY <1>2, <2>1 DEF SettledInv, PaidInv, Founded
<1> QED
  BY <1>9, <1>10

LEMMA SettledStep ==
  ASSUME DecidesOnce, OneAdmin, CancelInv, SettledInv, [CancelNext]_cancelVars
  PROVE  /\ SettledInv'
         /\ \A m \in Admin : (cancel[m].step = "write" /\ cancel'[m] = NoCancel /\ canceled') =>
              \A o \in cancel[m].settled : order'[o].status = "refund_required" /\ o \in revoked'
<1> USE DEF CancelInv
<1>1. \A m \in Admin : cancel[m] \in {NoCancel} \cup Cancellation /\ SettledIsKnown(cancel[m])
  BY DEF SeatInv, SeatTypes, SettledInv
<1>2. \A m \in Admin : cancel[m].step = "write" => cancel[m] # NoCancel /\ ~canceled
  BY <1>1 DEF NoCancel, SettledIsKnown
<1>3. ASSUME PaidStep, UNCHANGED cancelOnly
      PROVE  SettledInv'
  <2>1. canceled' = canceled /\ revoked' = revoked /\ cancel' = cancel
    BY <1>3 DEF cancelOnly
  <2>2. ASSUME NEW m \in Admin
        PROVE  SettledIsKnown(cancel[m])'
    <3> PICK c : c = cancel[m]
      OBVIOUS
    <3>1. SettledIsKnown(c)'
      BY <1>1, <1>3, <2>1, KnownStays
    <3> QED
      BY <2>1, <3>1 DEF SettledIsKnown
  <2> QED
    BY <1>3, <2>2 DEF SettledInv, PaidStep
<1>4. CASE FlowNext /\ UNCHANGED cancelOnly
  <2>1. PaidStep
    BY <1>4, FlowPaid DEF SettledInv
  <2>2. cancel' = cancel
    BY <1>4 DEF cancelOnly
  <2> QED
    BY <1>2, <1>3, <1>4, <2>1, <2>2
<1>5. ASSUME NEW m \in Admin,
             \/ CancelBegin(m) \/ CancelReadReservations(m) \/ CancelReadOrders(m)
             \/ CancelReadTickets(m) \/ CancelAbort(m)
      PROVE  SettledInv' /\ ~(\E n \in Admin : cancel[n].step = "write" /\ canceled')
  <2>1. UNCHANGED flowVars /\ canceled' = canceled /\ revoked' = revoked
    BY <1>5 DEF CancelBegin, CancelReadReservations, CancelReadOrders, CancelReadTickets,
      CancelAbort
  <2>2. UNCHANGED <<reservation, order, tickets, reported, tx>>
    BY <2>1 DEF flowVars, checkoutVars, checkoutOnly, paymentVars, inventoryVars, ledgerVars
  <2>3. PaidStep
    BY <2>2, OthersPaid DEF SettledInv
  <2>4. PICK c \in {NoCancel} \cup Cancellation :
          cancel' = [cancel EXCEPT ![m] = c] /\ SettledIsKnown(c)
    BY <1>5, KnownReads
  <2>5. SettledIsKnown(c)'
    BY <2>1, <2>3, <2>4, KnownStays
  <2>6. \A n \in Admin : cancel'[n] = c
    BY <2>4 DEF OneAdmin, SeatInv, SeatTypes
  <2>7. \A n \in Admin : SettledIsKnown(cancel[n])'
    BY <2>5, <2>6 DEF SettledIsKnown
  <2> QED
    BY <1>2, <2>1, <2>3, <2>7 DEF SettledInv, PaidStep
<1>6. ASSUME NEW m \in Admin, CancelWrite(m)
      PROVE  /\ SettledInv'
             /\ \A n \in Admin : \A o \in cancel[n].settled :
                  order'[o].status = "refund_required" /\ o \in revoked'
  <2>1. /\ PaidInv'
        /\ \A o \in cancel[m].settled : order'[o].status = "refund_required" /\ o \in revoked'
    BY <1>6, CancelWritePaid
  <2>2. \A n \in Admin : n = m /\ cancel'[n] = NoCancel
    BY <1>6 DEF OneAdmin, CancelWrite, SeatInv, SeatTypes
  <2>3. \A n \in Admin : SettledIsKnown(cancel[n])'
    BY <2>2 DEF SettledIsKnown, NoCancel
  <2> QED
    BY <2>1, <2>2, <2>3 DEF SettledInv
<1>7. CASE UNCHANGED cancelVars
  <2>1. UNCHANGED <<reservation, order, tickets, reported, tx>> /\ UNCHANGED cancelOnly
    BY <1>7 DEF cancelVars, flowVars, checkoutVars, checkoutOnly, paymentVars, inventoryVars,
      ledgerVars
  <2>2. PaidStep
    BY <2>1, OthersPaid DEF SettledInv
  <2>3. cancel' = cancel
    BY <2>1 DEF cancelOnly
  <2> QED
    BY <1>2, <1>3, <2>1, <2>2, <2>3
<1>8. ASSUME NEW m \in Admin, CancelStep(m)
      PROVE  /\ SettledInv'
             /\ \A n \in Admin : (cancel[n].step = "write" /\ cancel'[n] = NoCancel /\ canceled') =>
                  \A o \in cancel[n].settled : order'[o].status = "refund_required" /\ o \in revoked'
  BY <1>5, <1>6, <1>8 DEF CancelStep
<1> QED
  BY <1>4, <1>7, <1>8 DEF CancelNext

LEMMA SettledInit == CancelInit => SettledInv
<1> SUFFICES ASSUME CancelInit PROVE SettledInv  OBVIOUS
<1>1. /\ order = [o \in Order |-> NoOrder] /\ tickets = [o \in Order |-> 0] /\ reported = {}
      /\ tx = [h \in Handler |-> Idle] /\ cancel = [m \in Admin |-> NoCancel]
  BY DEF CancelInit, FlowInit, CheckoutInit
<1> QED
  BY <1>1 DEF SettledInv, PaidInv, Founded, SettledIsKnown, NoOrder, Idle, NoCancel, Verdict

-----------------------------------------------------------------------------
(* The theorems                                                            *)

\* However callbacks, requests, the workers and any number of administrators who
\* cancel the concert overtake each other, the seats counted as sold, in all and
\* for each user, are those tickets were printed for.
THEOREM SoldSeatsAlwaysHaveTickets == CancelSpec => []SoldSeatsHaveTickets
<1>1. CancelInv => SoldSeatsHaveTickets
  BY DEF CancelInv, PrintedAreSold
<1> QED
  BY <1>1, CancelInvariance, PTL

\* An order that was expired, failed or put into the refund queue never gets
\* tickets, however late the success arrives and whatever row was released twice.
THEOREM ClosedOrdersStayClosed == CancelSpec => ClosedOrdersGetNoTickets
<1>1. CancelInv /\ [CancelNext]_cancelVars =>
        [\A o \in Order :
           order[o].status \in {"expired", "refund_required", "failed"} =>
             order'[o].status # "issued" /\ tickets'[o] = tickets[o]]_cancelVars
  BY CancelStepKeeps DEF ClosedStayClosed
<1> QED
  BY <1>1, CancelInvariance, PTL DEF CancelSpec, ClosedOrdersGetNoTickets

\* One administrator cancels, and the provider decides once: whoever had tickets
\* when the cancellation was asked for ends in the refund queue, with tickets
\* revoked.  Neither hypothesis can be dropped.  Another cancellation may have
\* read the order before it was paid and expire it; and a failure that is
\* delivered after the success fails an issued order, once an intent request has
\* overwritten its payment.
THEOREM SettledOrdersGetRefunds ==
  ASSUME DecidesOnce, OneAdmin
  PROVE  CancelSpec => SettledOrdersAreRefunded
<1>1. CancelInv /\ SettledInv /\ [CancelNext]_cancelVars => SettledInv'
  BY SettledStep
<1>2. CancelInv /\ SettledInv /\ [CancelNext]_cancelVars =>
        [\A m \in Admin : (cancel[m].step = "write" /\ cancel'[m] = NoCancel /\ canceled') =>
           \A o \in cancel[m].settled :
             order'[o].status = "refund_required" /\ o \in revoked']_cancelVars
  BY SettledStep
<1> QED
  BY <1>1, <1>2, CancelInvariance, SettledInit, PTL DEF CancelSpec, SettledOrdersAreRefunded
=============================================================================
