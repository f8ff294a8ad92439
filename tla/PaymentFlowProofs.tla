------------------------- MODULE PaymentFlowProofs --------------------------
(***************************************************************************)
(* Payment intents and reconciliation for every number of orders, requests *)
(* and batches: one request past the claim for each key, and tickets only  *)
(* for captured money and sold seats.                                      *)
(*                                                                         *)
(* Nothing is assumed of what a payment's status says, which is            *)
(* overwritten at any time, nor of the counters of the ledger, which a     *)
(* refund can decrement twice.  The proof rests on what locks and links    *)
(* keep: who an order belongs to, and that a callback has it to itself.    *)
(***************************************************************************)
EXTENDS PaymentFlow, CheckoutProofs

-----------------------------------------------------------------------------
(* Intent requests and their keys                                          *)

AskTypes ==
  /\ intent \subseteq Order
  /\ record \in [IntentId -> Order \cup {NoOrderId}]
  /\ answered \subseteq IntentId
  /\ ask \in [Asker -> {NoAsk} \cup Ask]

PastClaim == {"call", "save", "doubt", "complete"}

\* Who is past the claim has a record of its own that is not answered yet, and
\* what is answered has a record.
KeyFits ==
  /\ \A a \in Asker :
       ask[a].step \in PastClaim => KeyTaken(ask[a].id) /\ ask[a].id \notin answered
  /\ \A a, b \in Asker :
       ask[a].step \in PastClaim /\ ask[b].step \in PastClaim /\ ask[a].id = ask[b].id => a = b
  /\ \A i \in answered : KeyTaken(i)

AskInv == AskTypes /\ KeyFits

LEMMA AskStays ==
  ASSUME AskInv, UNCHANGED intentVars
  PROVE  AskInv'
  BY DEF AskInv, AskTypes, KeyFits, KeyTaken, intentVars

LEMMA AskByStep ==
  ASSUME AskTypes, NEW a \in Asker, ask[a].step # "idle"
  PROVE  ask[a] \in Ask /\ ask[a].order \in Order /\ ask[a].id \in IntentId
  BY DEF AskTypes, NoAsk, Ask

\* A request that moves on past its claim.
LEMMA AskGoesOn ==
  ASSUME AskInv, NEW a \in Asker, NEW st \in {"save", "doubt", "complete"},
         ask[a].step \in PastClaim, ask' = [ask EXCEPT ![a].step = st],
         intent' \subseteq Order, UNCHANGED <<record, answered>>
  PROVE  AskInv'
<1>1. ask[a] \in Ask
  BY AskByStep DEF AskInv, PastClaim
<1>2. /\ ask' \in [Asker -> {NoAsk} \cup Ask]
      /\ ask'[a].step = st /\ ask'[a].id = ask[a].id
      /\ \A b \in Asker \ {a} : ask'[b] = ask[b]
  BY <1>1 DEF AskInv, AskTypes, Ask
<1>3. AskTypes'
  BY <1>2 DEF AskInv, AskTypes
<1>4. KeyFits'
  BY <1>2 DEF AskInv, KeyFits, KeyTaken, PastClaim
<1> QED
  BY <1>3, <1>4 DEF AskInv

\* A request that ends, and keeps its key or gives it back.
LEMMA AskEnds ==
  ASSUME AskInv, NEW a \in Asker, ask' = [ask EXCEPT ![a] = NoAsk],
         UNCHANGED <<intent, answered>>,
         \/ record' = record
         \/ ask[a].step \in PastClaim /\ record' = [record EXCEPT ![ask[a].id] = NoOrderId]
  PROVE  AskInv'
<1>1. /\ ask' \in [Asker -> {NoAsk} \cup Ask] /\ ask'[a].step = "idle"
      /\ \A b \in Asker \ {a} : ask'[b] = ask[b]
  BY DEF AskInv, AskTypes, NoAsk
<1>2. CASE record' = record
  BY <1>1, <1>2 DEF AskInv, AskTypes, KeyFits, KeyTaken, PastClaim
<1>3. CASE ask[a].step \in PastClaim /\ record' = [record EXCEPT ![ask[a].id] = NoOrderId]
  <2>1. \A i \in IntentId \ {ask[a].id} : record'[i] = record[i]
    BY <1>3 DEF AskInv, AskTypes
  <2>2. AskTypes'
    BY <1>1, <1>3 DEF AskInv, AskTypes
  <2>3. \A b \in Asker : ask[b].step \in PastClaim => ask[b].id \in IntentId
    BY AskByStep DEF AskInv, PastClaim
  <2>4. KeyFits'
    BY <1>1, <1>3, <2>1, <2>3 DEF AskInv, AskTypes, KeyFits, KeyTaken, PastClaim
  <2> QED
    BY <2>2, <2>4 DEF AskInv
<1> QED
  BY <1>2, <1>3

LEMMA IntentLoadKeeps ==
  ASSUME AskInv, NEW a \in Asker, IntentLoad(a)
  PROVE  AskInv'
<1>1. PICK o \in Order, k \in IntentKey : \E r \in Linked(o) :
        /\ IntentStep(o, r) # "reply"
        /\ ask' = [ask EXCEPT ![a] =
             [step |-> IntentStep(o, r), order |-> o, id |-> <<o[1], k>>]]
  BY DEF IntentLoad
<1>2. PICK st \in {"expire", "claim"} :
        ask' = [ask EXCEPT ![a] = [step |-> st, order |-> o, id |-> <<o[1], k>>]]
  BY <1>1 DEF IntentStep
<1>3. [step |-> st, order |-> o, id |-> <<o[1], k>>] \in Ask
  BY DEF Ask, IntentId, Order
<1>4. /\ ask' \in [Asker -> {NoAsk} \cup Ask] /\ ask'[a].step = st
      /\ \A b \in Asker \ {a} : ask'[b] = ask[b]
  BY <1>2, <1>3 DEF AskInv, AskTypes
<1>5. UNCHANGED <<intent, record, answered>>
  BY DEF IntentLoad
<1> QED
  BY <1>4, <1>5 DEF AskInv, AskTypes, KeyFits, KeyTaken, PastClaim

LEMMA IntentClaimKeeps ==
  ASSUME AskInv, NEW a \in Asker, IntentClaim(a)
  PROVE  AskInv'
<1> PICK i : i = ask[a].id
  OBVIOUS
<1>1. /\ ask[a].step = "claim" /\ UNCHANGED <<intent, answered>>
      /\ ask[a] \in Ask /\ ask[a].order \in Order /\ i \in IntentId
  BY AskByStep DEF IntentClaim, AskInv
<1>2. CASE KeyTaken(i)
  BY <1>1, <1>2, AskEnds DEF IntentClaim
<1>3. CASE ~KeyTaken(i)
  <2>1. /\ record' = [record EXCEPT ![i] = ask[a].order]
        /\ ask' = [ask EXCEPT ![a].step = "call"]
    BY <1>3 DEF IntentClaim
  <2>2. /\ ask' \in [Asker -> {NoAsk} \cup Ask] /\ ask'[a].step = "call" /\ ask'[a].id = i
        /\ \A b \in Asker \ {a} : ask'[b] = ask[b]
    BY <1>1, <2>1 DEF AskInv, AskTypes, Ask
  <2>3. /\ record' \in [IntentId -> Order \cup {NoOrderId}] /\ record'[i] \in Order
        /\ \A j \in IntentId \ {i} : record'[j] = record[j]
    BY <1>1, <2>1 DEF AskInv, AskTypes
  <2>4. AskTypes'
    BY <1>1, <2>2, <2>3 DEF AskInv, AskTypes
  <2>5. i \notin answered /\ \A b \in Asker : ask[b].step \in PastClaim => ask[b].id # i
    BY <1>3 DEF AskInv, KeyFits
  <2>6. \A b \in Asker : ask[b].step \in PastClaim => ask[b].id \in IntentId
    BY AskByStep DEF AskInv, PastClaim
  <2>7. \A j \in IntentId : KeyTaken(j) => KeyTaken(j)'
    BY <1>3, <2>3 DEF KeyTaken
  <2>8. KeyTaken(i)'
    BY <2>3, OrderIsSome DEF KeyTaken
  <2>9. KeyFits'
    BY <1>1, <2>2, <2>5, <2>6, <2>7, <2>8 DEF AskInv, AskTypes, KeyFits, PastClaim
  <2> QED
    BY <2>4, <2>9 DEF AskInv
<1> QED
  BY <1>2, <1>3

LEMMA IntentCompleteKeeps ==
  ASSUME AskInv, NEW a \in Asker, IntentComplete(a)
  PROVE  AskInv'
<1>1. /\ ask[a].step = "complete" /\ answered' = answered \cup {ask[a].id}
      /\ ask' = [ask EXCEPT ![a] = NoAsk] /\ UNCHANGED <<intent, record>>
      /\ ask[a].id \in IntentId
  BY AskByStep DEF IntentComplete, AskInv
<1>2. /\ ask' \in [Asker -> {NoAsk} \cup Ask] /\ ask'[a].step = "idle"
      /\ \A b \in Asker \ {a} : ask'[b] = ask[b]
  BY <1>1 DEF AskInv, AskTypes, NoAsk
<1>3. AskTypes'
  BY <1>1, <1>2 DEF AskInv, AskTypes
<1>4. KeyFits'
  BY <1>1, <1>2 DEF AskInv, KeyFits, KeyTaken, PastClaim
<1> QED
  BY <1>3, <1>4 DEF AskInv

LEMMA AskStepKeeps ==
  ASSUME AskInv, NEW a \in Asker, AskStep(a)
  PROVE  AskInv'
<1>1. CASE IntentLoad(a)
  BY <1>1, IntentLoadKeeps
<1>2. CASE IntentExpire(a)
  BY <1>2, AskEnds DEF IntentExpire
<1>3. CASE IntentClaim(a)
  BY <1>3, IntentClaimKeeps
<1>4. CASE IntentCall(a)
  <2>1. ask[a].step \in PastClaim /\ UNCHANGED <<intent, answered>>
    BY <1>4 DEF IntentCall, PastClaim
  <2>2. CASE \E st \in {"save", "doubt"} : ask' = [ask EXCEPT ![a].step = st] /\ record' = record
    BY <2>1, <2>2, AskGoesOn DEF AskInv, AskTypes
  <2>3. CASE /\ record' = [record EXCEPT ![ask[a].id] = NoOrderId]
             /\ ask' = [ask EXCEPT ![a] = NoAsk]
    BY <2>1, <2>3, AskEnds
  <2> QED
    BY <1>4, <2>2, <2>3 DEF IntentCall
<1>5. CASE IntentSave(a)
  <2>1. ask[a].order \in Order
    BY <1>5, AskByStep DEF IntentSave, AskInv
  <2>2. intent' \subseteq Order
    BY <1>5, <2>1 DEF IntentSave, AskInv, AskTypes
  <2> QED
    BY <1>5, <2>2, AskGoesOn DEF IntentSave, PastClaim
<1>6. CASE IntentDoubt(a) \/ IntentStumbles(a)
  <2>1. intent' \subseteq Order
    BY <1>6 DEF IntentDoubt, IntentStumbles, AskInv, AskTypes
  <2> QED
    BY <1>6, <2>1, AskGoesOn DEF IntentDoubt, IntentStumbles, PastClaim
<1>7. CASE IntentComplete(a)
  BY <1>7, IntentCompleteKeeps
<1>8. CASE IntentCrash(a)
  BY <1>8, AskEnds DEF IntentCrash
<1> QED
  BY <1>1, <1>2, <1>3, <1>4, <1>5, <1>6, <1>7, <1>8 DEF AskStep

LEMMA ReconcileKeepsAsks ==
  ASSUME AskInv, NEW r \in Reconciler, ReconcileStep(r)
  PROVE  AskInv'
<1>1. UNCHANGED intentVars
  BY Zenon DEF ReconcileStep, ReconcileTurn, ReconcileClaim, ReconcileQuery, ReconcileFinalize,
    ReconcileRefused, ReconcileFinalized, ReconcileJudge, ReconcileWrite, ReconcileRolledBack,
    ReconcileCrash
<1> QED
  BY <1>1, AskStays

LEMMA AskInvariance == FlowSpec => []AskInv
<1>1. FlowInit => AskInv
  BY DEF FlowInit, AskInv, AskTypes, KeyFits, KeyTaken, PastClaim, NoAsk
<1>2. AskInv /\ [FlowNext]_flowVars => AskInv'
  <2> SUFFICES ASSUME AskInv, [FlowNext]_flowVars PROVE AskInv'
    OBVIOUS
  <2>1. CASE CheckoutStep
    BY <2>1, AskStays DEF CheckoutStep, flowOnly
  <2>2. ASSUME NEW a \in Asker, AskStep(a)
        PROVE  AskInv'
    BY <2>2, AskStepKeeps
  <2>3. ASSUME NEW r \in Reconciler, ReconcileStep(r)
        PROVE  AskInv'
    BY <2>3, ReconcileKeepsAsks
  <2>4. ASSUME NEW o \in Order, LeaseRunsOut(o)
        PROVE  AskInv'
    BY <2>4, AskStays DEF LeaseRunsOut
  <2>5. CASE UNCHANGED flowVars
    BY <2>5, AskStays DEF flowVars, flowOnly
  <2> QED
    BY <2>1, <2>2, <2>3, <2>4, <2>5 DEF FlowNext
<1> QED
  BY <1>1, <1>2, PTL DEF FlowSpec

\* Of the intent requests that use one key, at most one calls the provider and
\* writes its answer, and none when the key has its answer, however many
\* requests there are, and whether they crash, stumble or give the key back.
THEOREM IntentKeyHasOneOwner == FlowSpec => []KeyHasOneOwner
<1>1. AskInv => KeyHasOneOwner
  BY DEF AskInv, KeyFits, KeyHasOneOwner, PastClaim
<1> QED
  BY <1>1, AskInvariance, PTL

-----------------------------------------------------------------------------
(* Orders, seats and callbacks: the inductive invariant                    *)

Sale == [status : {"pending_payment", "issued", "failed", "expired", "refund_required"},
         reservation : Reservation, provider : Provider]
PaymentRow ==
  [status : {"none", "created", "pending", "pending_reconciliation",
             "succeeded", "failed", "expired"},
   hash : Event \cup {NoHash}]

\* Of the ledger, the rows and the requests; the counters play no part.
RowTypes ==
  /\ reservation \in [Reservation -> Row \cup {NoReservation}]
  /\ pc \in [Client -> {"idle"} \cup InProgress \cup Reply]
  /\ call \in [Client -> Call \cup {NoCall}]
  /\ \A c \in Client : pc[c] # "idle" => call[c] \in Call
  /\ selected \in [Worker -> SUBSET Reservation]

SaleTypes ==
  /\ order \in [Order -> Sale \cup {NoOrder}]
  /\ payment \in [Order -> PaymentRow]
  /\ reservationOrder \in [Reservation -> Order \cup {NoOrderId}]
  /\ tickets \in [Order -> Nat]
  /\ reported \subseteq Order \X Verdict
  /\ tx \in [Handler -> {Idle} \cup OrderTx \cup PaymentTx]

\* An order and its reservation know each other, and its tickets are those of
\* the sale of that reservation.
TicketFits(o) ==
  /\ OrderExists(o) =>
       /\ order[o].reservation \in Reservation /\ Exists(order[o].reservation)
       /\ o \in OrdersFor(order[o].reservation)
       /\ reservationOrder[order[o].reservation] = o
  /\ tickets[o] > 0 =>
       /\ OrderExists(o) /\ <<o, "succeeded">> \in reported
       /\ Status(order[o].reservation) = "confirmed"
       /\ tickets[o] = reservation[order[o].reservation].quantity

LinkHolds(r) ==
  reservationOrder[r] # NoOrderId =>
    OrderExists(reservationOrder[r]) /\ order[reservationOrder[r]].reservation = r

RequestHolds(q) ==
  q.step \in {"check", "write"} =>
    q.request.order \in OrdersFor(q.request.reservation) /\ Exists(q.request.reservation)

\* What a callback has read without a lock can only have expired meanwhile.
CallbackHolds(q) ==
  q.step = "webhook" =>
    /\ reservationOrder[q.reservation] = q.order
    /\ q.outcome = "confirm" => q.held /\ <<q.order, "succeeded">> \in reported
    /\ q.held => Status(q.reservation) # "confirmed"

SaleInv ==
  /\ RowTypes /\ SaleTypes
  /\ \A o \in Order : TicketFits(o)
  /\ \A r \in Reservation : LinkHolds(r)
  /\ \A h \in Handler : RequestHolds(tx[h]) /\ CallbackHolds(tx[h])
  /\ CallbacksAlone

LEMMA SaleInitInv == FlowInit => SaleInv
<1> SUFFICES ASSUME FlowInit PROVE SaleInv  OBVIOUS
<1> USE DEF FlowInit, CheckoutInit
<1>1. RowTypes
  BY DEF Init, RowTypes
<1>2. SaleTypes
  BY DEF SaleTypes, PaymentRow
<1>3. \A o \in Order : TicketFits(o)
  BY DEF TicketFits, OrderExists, NoOrder
<1>4. \A r \in Reservation : LinkHolds(r)
  BY DEF LinkHolds
<1>5. \A h \in Handler : RequestHolds(tx[h]) /\ CallbackHolds(tx[h])
  BY DEF RequestHolds, CallbackHolds, Idle
<1>6. CallbacksAlone
  BY DEF CallbacksAlone, Idle
<1> QED
  BY <1>1, <1>2, <1>3, <1>4, <1>5, <1>6 DEF SaleInv

-----------------------------------------------------------------------------
(* Rows                                                                    *)

\* A row that is there stays, for as many seats, and a sale is not undone.
RowAdvances(r) ==
  Exists(r) => /\ Exists(r)' /\ reservation'[r].quantity = reservation[r].quantity
               /\ Status(r) = "confirmed" => reservation'[r] = reservation[r]

\* Nothing is sold.
NoSale == \A r \in Reservation : Status(r)' = "confirmed" => Status(r) = "confirmed"

LEMMA RowsAsTheyAre ==
  ASSUME UNCHANGED reservation
  PROVE  NoSale /\ \A r \in Reservation : RowAdvances(r)
  BY DEF NoSale, RowAdvances, Exists, Status

LEMMA ReleaseRows ==
  ASSUME RowTypes, NEW S, S \subseteq Reservation, ReleaseHolds(S),
         \A r \in S : Exists(r) /\ Status(r) # "confirmed"
  PROVE  /\ NoSale /\ \A r \in Reservation : RowAdvances(r)
         /\ reservation' \in [Reservation -> Row \cup {NoReservation}]
<1>1. \A r \in Reservation : reservation'[r] =
        IF r \in S THEN [reservation[r] EXCEPT !.status = "expired"] ELSE reservation[r]
  BY DEF ReleaseHolds
<1>2. ASSUME NEW r \in S
      PROVE  /\ reservation'[r] \in Row /\ reservation'[r].status = "expired"
             /\ reservation'[r].quantity = reservation[r].quantity
             /\ reservation[r].status # "confirmed"
  <2>1. reservation[r] \in Row
    BY DEF RowTypes, Exists, Status, NoReservation
  <2> QED
    BY <1>1, <2>1 DEF Row, Status
<1>3. \A r \in Reservation \ S : reservation'[r] = reservation[r]
  BY <1>1
<1>4. reservation' \in [Reservation -> Row \cup {NoReservation}]
  <2>1. reservation' = [r \in Reservation |-> reservation'[r]]
    BY DEF ReleaseHolds
  <2>2. \A r \in Reservation : reservation'[r] \in Row \cup {NoReservation}
    BY <1>2, <1>3 DEF RowTypes
  <2> QED
    BY <2>1, <2>2
<1>5. NoSale /\ \A r \in Reservation : RowAdvances(r)
  BY <1>2, <1>3 DEF NoSale, RowAdvances, Exists, Status
<1> QED
  BY <1>4, <1>5

LEMMA LedgerStepRows ==
  ASSUME RowTypes, InventoryStep
  PROVE  RowTypes' /\ NoSale /\ \A r \in Reservation : RowAdvances(r)
<1>1. ASSUME NEW c \in Client, Lookup(c)
      PROVE  RowTypes' /\ UNCHANGED reservation
  <2>1. PICK a \in Call :
          /\ call' = [call EXCEPT ![c] = a]
          /\ pc' = [pc EXCEPT ![c] = IF Exists(a.id) THEN LookupReply(a) ELSE "begin"]
    BY <1>1 DEF Lookup
  <2>2. (IF Exists(a.id) THEN LookupReply(a) ELSE "begin") \in InProgress \cup Reply
    BY DEF LookupReply, InProgress, Reply, Refusal
  <2> QED
    BY <1>1, <2>1, <2>2 DEF Lookup, RowTypes, ledgerVars
<1>2. ASSUME NEW c \in Client, Begin(c) \/ Recover(c) \/ RequestFails(c)
      PROVE  RowTypes' /\ UNCHANGED reservation
  <2>1. pc[c] # "idle" /\ UNCHANGED <<call, reservation, selected>>
    BY <1>2 DEF Begin, Recover, RequestFails, InProgress, ledgerVars
  <2>2. PICK x \in InProgress \cup Reply : pc' = [pc EXCEPT ![c] = x]
    BY <1>2 DEF Begin, Recover, RequestFails, LookupReply, InProgress, Reply, Refusal
  <2> QED
    BY <2>1, <2>2 DEF RowTypes
<1>3. ASSUME NEW c \in Client, Return(c)
      PROVE  RowTypes' /\ UNCHANGED reservation
  BY <1>3 DEF Return, RowTypes, ledgerVars
<1>4. ASSUME NEW c \in Client, Reserve(c)
      PROVE  RowTypes' /\ NoSale /\ \A r \in Reservation : RowAdvances(r)
  <2> PICK a : a = call[c]
    OBVIOUS
  <2>1. ReserveOutcome(a) \in InProgress \cup Reply
    BY DEF ReserveOutcome, InProgress, Reply, Refusal
  <2>2. pc' = [pc EXCEPT ![c] = ReserveOutcome(a)] /\ UNCHANGED <<call, selected>> /\ a \in Call
    BY <1>4 DEF Reserve, RowTypes
  <2>3. CASE ReserveOutcome(a) = "created"
    <3> DEFINE row == [status |-> "active", ticketType |-> a.ticketType, quantity |-> a.quantity]
    <3>1. /\ reservation' = [reservation EXCEPT ![a.id] = row]
          /\ ~Exists(a.id) /\ a.id \in Reservation /\ row \in Row
      BY <1>4, <2>2, <2>3 DEF Reserve, Hold, ReserveOutcome, Call, Row
    <3>2. /\ reservation' \in [Reservation -> Row \cup {NoReservation}]
          /\ reservation'[a.id].status = "active"
          /\ \A r \in Reservation \ {a.id} : reservation'[r] = reservation[r]
      BY <3>1 DEF RowTypes
    <3>3. RowTypes'
      BY <2>1, <2>2, <3>2 DEF RowTypes
    <3>4. NoSale /\ \A r \in Reservation : RowAdvances(r)
      BY <3>1, <3>2 DEF NoSale, RowAdvances, Exists, Status
    <3> QED
      BY <3>3, <3>4
  <2>4. CASE ReserveOutcome(a) # "created"
    <3>1. UNCHANGED reservation
      BY <1>4, <2>4 DEF Reserve, ledgerVars
    <3>2. RowTypes'
      BY <2>1, <2>2, <3>1 DEF RowTypes
    <3> QED
      BY <3>1, <3>2, RowsAsTheyAre
  <2> QED
    BY <2>3, <2>4
<1>5. ASSUME \/ \E r \in Reservation : Lapse(r)
             \/ \E t \in TicketType : SaleEnds(t)
      PROVE  RowTypes' /\ UNCHANGED reservation
  BY <1>5 DEF Lapse, SaleEnds, RowTypes, ledgerVars, requestVars
<1>6. ASSUME NEW w \in Worker, ExpireSelect(w) \/ ExpireAbort(w)
      PROVE  RowTypes' /\ UNCHANGED reservation
  BY <1>6 DEF ExpireSelect, ExpireAbort, Expirable, RowTypes, ledgerVars, requestVars
<1> QED
  BY <1>1, <1>2, <1>3, <1>4, <1>5, <1>6, RowsAsTheyAre DEF InventoryStep

-----------------------------------------------------------------------------
(* Steps that sell nothing and order nothing                               *)

\* Orders may end, and keep their reservation.
OrdersStay ==
  \A o \in Order : /\ OrderExists(o)' <=> OrderExists(o)
                   /\ OrderExists(o) => order'[o].reservation = order[o].reservation

LEMMA SaleStays ==
  ASSUME SaleInv, UNCHANGED <<reservationOrder, tickets>>, reported \subseteq reported',
         OrdersStay, NoSale, \A r \in Reservation : RowAdvances(r)
  PROVE  /\ \A o \in Order : TicketFits(o)'
         /\ \A r \in Reservation : LinkHolds(r)'
         /\ \A h \in Handler : tx'[h] = tx[h] => RequestHolds(tx[h])' /\ CallbackHolds(tx[h])'
<1>1. ASSUME NEW o \in Order
      PROVE  TicketFits(o)'
  <2>1. TicketFits(o) /\ (OrderExists(o)' <=> OrderExists(o))
    BY DEF SaleInv, OrdersStay
  <2>2. CASE ~OrderExists(o)
    BY <2>1, <2>2 DEF TicketFits
  <2>3. CASE OrderExists(o)
    <3> PICK r : r = order[o].reservation
      OBVIOUS
    <3>1. r \in Reservation /\ Exists(r) /\ order'[o].reservation = r
      BY <2>1, <2>3 DEF TicketFits, OrdersStay
    <3>2. RowAdvances(r)
      BY <3>1
    <3> QED
      BY <2>1, <2>3, <3>1, <3>2 DEF TicketFits, RowAdvances, Status
  <2> QED
    BY <2>2, <2>3
<1>2. ASSUME NEW r \in Reservation
      PROVE  LinkHolds(r)'
  <2>1. reservationOrder[r] \in Order \cup {NoOrderId}
    BY DEF SaleInv, SaleTypes
  <2> QED
    BY <2>1 DEF SaleInv, LinkHolds, OrdersStay
<1>3. ASSUME NEW h \in Handler, tx'[h] = tx[h]
      PROVE  RequestHolds(tx[h])'
  <2>1. tx[h].step \in {"check", "write"} => tx[h].request.reservation \in Reservation
    BY DEF SaleInv, SaleTypes, Idle, OrderTx, PaymentTx, OrderRequest
  <2> QED
    BY <1>3, <2>1 DEF SaleInv, RequestHolds, RowAdvances
<1>4. ASSUME NEW h \in Handler, tx'[h] = tx[h]
      PROVE  CallbackHolds(tx[h])'
  <2>1. tx[h].step = "webhook" => tx[h].reservation \in Reservation
    BY DEF SaleInv, SaleTypes, Idle, OrderTx, PaymentTx, OrderReply
  <2> QED
    BY <1>4, <2>1 DEF SaleInv, CallbackHolds, NoSale
<1> QED
  BY <1>1, <1>2, <1>3, <1>4

\* No request moves.
LEMMA LedgerMoves ==
  ASSUME SaleInv, UNCHANGED <<reservationOrder, tickets, tx>>, reported \subseteq reported',
         OrdersStay, NoSale, \A r \in Reservation : RowAdvances(r), RowTypes', SaleTypes'
  PROVE  SaleInv'
<1>1. CallbacksAlone'
  BY DEF SaleInv, CallbacksAlone
<1> QED
  BY <1>1, SaleStays DEF SaleInv

\* One request moves, and nothing else.
LEMMA OneRequestMoves ==
  ASSUME SaleInv, NEW h \in Handler,
         UNCHANGED <<inventoryVars, order, payment, reservationOrder, tickets, reported>>,
         tx' = [tx EXCEPT ![h] = tx'[h]], tx'[h] \in {Idle} \cup OrderTx \cup PaymentTx,
         RequestHolds(tx[h])', CallbackHolds(tx[h])',
         tx'[h].step = "webhook" =>
           \A g \in Handler \ {h} : ~(tx[g].step = "webhook" /\ tx[g].order = tx'[h].order)
  PROVE  SaleInv'
<1> USE DEF inventoryVars, ledgerVars, requestVars
<1>1. RowTypes' /\ OrdersStay /\ NoSale /\ \A r \in Reservation : RowAdvances(r)
  BY RowsAsTheyAre DEF SaleInv, RowTypes, OrdersStay, OrderExists
<1>2. /\ tx' \in [Handler -> {Idle} \cup OrderTx \cup PaymentTx]
      /\ \A g \in Handler \ {h} : tx'[g] = tx[g]
  BY DEF SaleInv, SaleTypes
<1>3. SaleTypes'
  BY <1>2 DEF SaleInv, SaleTypes
<1>4. /\ \A o \in Order : TicketFits(o)'
      /\ \A r \in Reservation : LinkHolds(r)'
      /\ \A g \in Handler : RequestHolds(tx[g])' /\ CallbackHolds(tx[g])'
  BY <1>1, <1>2, SaleStays
<1>5. CallbacksAlone'
  BY <1>2 DEF SaleInv, CallbacksAlone
<1> QED
  BY <1>1, <1>3, <1>4, <1>5 DEF SaleInv

LEMMA LookupHolds ==
  ASSUME SaleInv, NEW h \in Handler, OrderLookup(h)
  PROVE  SaleInv'
<1>1. PICK a \in OrderRequest :
        /\ Exists(a.reservation)
        /\ a.order \in {Owner(a.reservation)} \X OrderKeysFor(a.reservation)
        /\ tx' = [tx EXCEPT ![h] =
             [step |-> IF OrderExists(a.order) THEN DuplicateReply(a) ELSE "check",
              request |-> a]]
  BY DEF OrderLookup
<1>2. PICK st \in {"check", "replayed", "duplicate_request_conflict"} :
        tx' = [tx EXCEPT ![h] = [step |-> st, request |-> a]]
  BY <1>1 DEF DuplicateReply
<1>3. tx'[h] = [step |-> st, request |-> a] /\ tx' = [tx EXCEPT ![h] = tx'[h]]
  BY <1>2 DEF SaleInv, SaleTypes
<1>4. tx'[h] \in OrderTx
  BY <1>3 DEF OrderTx, OrderReply
<1>5. UNCHANGED reservation
  BY DEF OrderLookup, inventoryVars, ledgerVars
<1>6. RequestHolds(tx[h])' /\ CallbackHolds(tx[h])'
  BY <1>1, <1>3, <1>5 DEF RequestHolds, CallbackHolds, OrdersFor, Exists, Status
<1>7. tx'[h].step # "webhook"
  BY <1>3
<1> QED
  BY <1>3, <1>4, <1>6, <1>7, OneRequestMoves DEF OrderLookup, paymentVars

LEMMA CheckHolds ==
  ASSUME SaleInv, NEW h \in Handler, OrderCheck(h)
  PROVE  SaleInv'
<1>1. tx[h].step = "check" /\ tx[h] \in OrderTx /\ RequestHolds(tx[h])
  BY DEF OrderCheck, SaleInv, SaleTypes, Idle, PaymentTx
<1>2. PICK st \in {"write", "refused"} : tx' = [tx EXCEPT ![h].step = st]
  BY DEF OrderCheck
<1>3. /\ tx'[h] = [tx[h] EXCEPT !.step = st] /\ tx' = [tx EXCEPT ![h] = tx'[h]]
      /\ UNCHANGED reservation
  BY <1>2 DEF OrderCheck, SaleInv, SaleTypes, inventoryVars, ledgerVars
<1>4. tx'[h] \in OrderTx /\ tx'[h].step = st /\ tx'[h].request = tx[h].request
  BY <1>1, <1>3 DEF OrderTx, OrderReply
<1>5. RequestHolds(tx[h])' /\ CallbackHolds(tx[h])'
  BY <1>1, <1>3, <1>4 DEF RequestHolds, CallbackHolds, Exists, Status
<1> QED
  BY <1>3, <1>4, <1>5, OneRequestMoves DEF OrderCheck, paymentVars

LEMMA IdleHolds ==
  ASSUME SaleInv, NEW h \in Handler, tx' = [tx EXCEPT ![h] = Idle],
         UNCHANGED <<inventoryVars, order, reservationOrder, paymentVars, reported>>
  PROVE  SaleInv'
<1>1. tx'[h] = Idle /\ tx' = [tx EXCEPT ![h] = tx'[h]]
  BY DEF SaleInv, SaleTypes
<1>2. RequestHolds(tx[h])' /\ CallbackHolds(tx[h])' /\ tx'[h].step # "webhook"
  BY <1>1 DEF RequestHolds, CallbackHolds, Idle
<1> QED
  BY <1>1, <1>2, OneRequestMoves DEF paymentVars

\* A callback is founded on a result of the provider.
LEMMA ReadsHolds ==
  ASSUME SaleInv, NEW h \in Handler, NEW e \in Event, NEW sound \in BOOLEAN,
         <<OrderOf(e), VerdictOf(e)>> \in reported, WebhookReads(h, e, sound)
  PROVE  SaleInv'
<1> PICK o : o = OrderOf(e)
  OBVIOUS
<1>1. /\ ~OrderLocked(o)
      /\ UNCHANGED <<inventoryVars, order, reservationOrder, paymentVars, reported>>
  BY DEF WebhookReads
<1>2. PICK r \in Linked(o) :
        /\ WebhookOutcome(e, r, sound) # "refused"
        /\ tx' = [tx EXCEPT ![h] =
             [step |-> "webhook", order |-> o, reservation |-> r, hash |-> e,
              outcome |-> WebhookOutcome(e, r, sound), held |-> Active(r)]]
  BY DEF WebhookReads
<1>3. o \in Order /\ r \in Reservation /\ reservationOrder[r] = o
  BY DEF Event, OrderOf, Linked
<1> PICK d : d = WebhookOutcome(e, r, sound)
  OBVIOUS
<1> PICK held \in BOOLEAN : held <=> Active(r)
  OBVIOUS
<1>4. d \in Outcome /\ (d = "confirm" => held /\ VerdictOf(e) = "succeeded")
  BY <1>2, <1>3, OutcomeIsFounded
<1>5. tx'[h] = [step |-> "webhook", order |-> o, reservation |-> r, hash |-> e,
                outcome |-> d, held |-> held]
  <2>1. held = Active(r)
    BY DEF Active
  <2>2. tx'[h] = [step |-> "webhook", order |-> o, reservation |-> r, hash |-> e,
                  outcome |-> WebhookOutcome(e, r, sound), held |-> Active(r)]
    BY <1>2, Zenon DEF SaleInv, SaleTypes
  <2> QED
    BY <2>1, <2>2, Zenon
<1>6. tx' = [tx EXCEPT ![h] = tx'[h]]
  BY <1>2 DEF SaleInv, SaleTypes
<1>7. tx'[h] \in PaymentTx
  BY <1>3, <1>4, <1>5 DEF PaymentTx
<1>8. UNCHANGED <<reservation, reservationOrder, reported>>
  BY <1>1 DEF inventoryVars, ledgerVars
<1>9. RequestHolds(tx[h])' /\ CallbackHolds(tx[h])'
  BY <1>3, <1>4, <1>5, <1>8 DEF RequestHolds, CallbackHolds, Active, Status
<1>10. \A g \in Handler \ {h} : ~(tx[g].step = "webhook" /\ tx[g].order = tx'[h].order)
  BY <1>1, <1>5 DEF OrderLocked
<1> QED
  BY <1>1, <1>6, <1>7, <1>9, <1>10, OneRequestMoves DEF paymentVars

LEMMA ReportHolds ==
  ASSUME SaleInv, NEW o \in Order, NEW v \in Verdict, ProviderReports(o, v)
  PROVE  SaleInv'
<1>1. /\ UNCHANGED <<inventoryVars, order, reservationOrder, payment, tickets, tx>>
      /\ reported' = reported \cup {<<o, v>>}
  BY DEF ProviderReports, paymentVars
<1>2. RowTypes' /\ OrdersStay /\ NoSale /\ \A r \in Reservation : RowAdvances(r)
  BY <1>1, RowsAsTheyAre
     DEF SaleInv, RowTypes, OrdersStay, OrderExists, inventoryVars, ledgerVars, requestVars
<1>3. SaleTypes'
  BY <1>1 DEF SaleInv, SaleTypes
<1> QED
  BY <1>1, <1>2, <1>3, LedgerMoves

LEMMA StatusHolds ==
  ASSUME SaleInv, NEW o \in Order, SetStatus(o, "expired") \/ SetStatus(o, "pending")
                                     \/ SetStatus(o, "pending_reconciliation")
  PROVE  SaleInv'
<1>1. PICK st \in {"expired", "pending", "pending_reconciliation"} :
        payment' = [payment EXCEPT ![o].status = st]
  BY DEF SetStatus
<1>2. UNCHANGED <<inventoryVars, order, reservationOrder, tickets, reported, tx>>
  BY DEF SetStatus
<1>3. RowTypes' /\ OrdersStay /\ NoSale /\ \A r \in Reservation : RowAdvances(r)
  BY <1>2, RowsAsTheyAre
     DEF SaleInv, RowTypes, OrdersStay, OrderExists, inventoryVars, ledgerVars, requestVars
<1>4. payment' \in [Order -> PaymentRow]
  BY <1>1 DEF SaleInv, SaleTypes, PaymentRow
<1>5. SaleTypes'
  BY <1>2, <1>4 DEF SaleInv, SaleTypes
<1> QED
  BY <1>2, <1>3, <1>5, LedgerMoves

LEMMA InventoryStepHolds ==
  ASSUME SaleInv, InventoryStep
  PROVE  SaleInv'
<1>1. UNCHANGED <<order, payment, reservationOrder, tickets, reported, tx>>
  BY DEF InventoryStep, checkoutOnly, paymentVars
<1>2. SaleTypes' /\ OrdersStay
  BY <1>1 DEF SaleInv, SaleTypes, OrdersStay, OrderExists
<1> QED
  BY <1>1, <1>2, LedgerStepRows, LedgerMoves DEF SaleInv

LEMMA ExpiryHolds ==
  ASSUME SaleInv, NEW w \in Worker, ExpireWithOrders(w)
  PROVE  SaleInv' /\ \A r \in Reservation : RowAdvances(r)
<1> PICK S : S = {r \in selected[w] : Active(r)}
  OBVIOUS
<1> PICK E : E = PendingOrdersOf(S)
  OBVIOUS
<1>1. /\ ReleaseHolds(S) /\ selected' = [selected EXCEPT ![w] = {}]
      /\ order' = [o \in Order |->
           IF o \in E THEN [order[o] EXCEPT !.status = "expired"] ELSE order[o]]
      /\ UNCHANGED <<pc, call, reservationOrder, payment, tickets, reported, tx>>
  BY DEF ExpireWithOrders, ExpireCommit, requestVars, paymentVars
<1>2. S \subseteq Reservation /\ \A r \in S : Exists(r) /\ Status(r) # "confirmed"
  BY DEF SaleInv, RowTypes, Active, Exists
<1>3. /\ NoSale /\ \A r \in Reservation : RowAdvances(r)
      /\ reservation' \in [Reservation -> Row \cup {NoReservation}]
  BY <1>1, <1>2, ReleaseRows DEF SaleInv
<1>4. RowTypes'
  BY <1>1, <1>3 DEF SaleInv, RowTypes
<1>5. ASSUME NEW o \in Order, o \in E
      PROVE  /\ OrderExists(o) /\ order'[o] \in Sale /\ order'[o].status # "none"
             /\ order'[o].reservation = order[o].reservation
  <2>1. OrderExists(o)
    BY <1>5 DEF PendingOrdersOf, Pending, OrderExists
  <2>2. order[o] \in Sale
    BY <2>1 DEF SaleInv, SaleTypes, OrderExists, NoOrder
  <2>3. order'[o] = [order[o] EXCEPT !.status = "expired"]
    BY <1>1, <1>5
  <2> QED
    BY <2>1, <2>2, <2>3 DEF Sale
<1>6. \A o \in Order : o \notin E => order'[o] = order[o]
  BY <1>1
<1>7. OrdersStay
  BY <1>5, <1>6 DEF OrdersStay, OrderExists
<1>8. order' \in [Order -> Sale \cup {NoOrder}]
  <2>1. \A o \in Order : order'[o] \in Sale \cup {NoOrder}
    BY <1>5, <1>6 DEF SaleInv, SaleTypes
  <2>2. order' = [o \in Order |-> order'[o]]
    BY <1>1
  <2> QED
    BY <2>1, <2>2
<1>9. SaleTypes'
  BY <1>1, <1>8 DEF SaleInv, SaleTypes
<1> QED
  BY <1>1, <1>3, <1>4, <1>7, <1>9, LedgerMoves

-----------------------------------------------------------------------------
(* A reservation is ordered                                                *)

LEMMA WriteHolds ==
  ASSUME OneKeyPerHold, SaleInv, NEW h \in Handler, OrderWrite(h)
  PROVE  SaleInv'
<1> PICK a : a = tx[h].request
  OBVIOUS
<1>1. /\ tx[h].step = "write" /\ tx[h] \in OrderTx /\ RequestHolds(tx[h])
      /\ a \in OrderRequest
  BY DEF OrderWrite, SaleInv, SaleTypes, Idle, PaymentTx, OrderTx
<1> PICK o, r : o = a.order /\ r = a.reservation
  OBVIOUS
<1>2. /\ o \in OrdersFor(r) /\ Exists(r)
      /\ o \in Order /\ r \in Reservation /\ a.provider \in Provider
  BY <1>1 DEF RequestHolds, OrderRequest
<1>3. UNCHANGED <<inventoryVars, reservation, tickets, reported>>
  BY DEF OrderWrite, inventoryVars, ledgerVars
<1>4. CASE OrderExists(o)
  <2>1. PICK st \in OrderReply : tx' = [tx EXCEPT ![h].step = st]
    BY <1>4 DEF OrderWrite, DuplicateReply, OrderReply
  <2>2. UNCHANGED <<order, payment, reservationOrder>>
    BY <1>4 DEF OrderWrite
  <2>3. tx'[h] = [tx[h] EXCEPT !.step = st] /\ tx' = [tx EXCEPT ![h] = tx'[h]]
    BY <2>1 DEF SaleInv, SaleTypes
  <2>4. tx'[h] \in OrderTx /\ tx'[h].step = st
    BY <1>1, <2>3 DEF OrderTx
  <2>5. RequestHolds(tx[h])' /\ CallbackHolds(tx[h])' /\ tx'[h].step # "webhook"
    BY <2>4 DEF RequestHolds, CallbackHolds, OrderReply
  <2> QED
    BY <1>3, <2>2, <2>3, <2>4, <2>5, OneRequestMoves
<1>5. CASE ~OrderExists(o)
  <2> DEFINE new == [status |-> "pending_payment", reservation |-> r, provider |-> a.provider]
  <2>1. /\ order' = [order EXCEPT ![o] = new]
        /\ payment' = [payment EXCEPT ![o].status = "created"]
        /\ reservationOrder' = [reservationOrder EXCEPT ![r] = o]
        /\ tx' = [tx EXCEPT ![h].step = "created"]
    BY <1>5 DEF OrderWrite
  <2>2. /\ order'[o] = new /\ \A p \in Order \ {o} : order'[p] = order[p]
        /\ reservationOrder'[r] = o
        /\ \A x \in Reservation \ {r} : reservationOrder'[x] = reservationOrder[x]
    BY <1>2, <2>1 DEF SaleInv, SaleTypes
  <2>3. /\ tx' \in [Handler -> {Idle} \cup OrderTx \cup PaymentTx]
        /\ tx'[h].step = "created" /\ \A g \in Handler \ {h} : tx'[g] = tx[g]
    <3>1. tx'[h] = [tx[h] EXCEPT !.step = "created"] /\ tx' = [tx EXCEPT ![h] = tx'[h]]
      BY <2>1 DEF SaleInv, SaleTypes
    <3>2. tx'[h] \in OrderTx /\ tx'[h].step = "created"
      BY <1>1, <3>1 DEF OrderTx, OrderReply
    <3> QED
      BY <3>1, <3>2 DEF SaleInv, SaleTypes
  <2>4. reservationOrder[r] = NoOrderId
    <3> SUFFICES ASSUME reservationOrder[r] # NoOrderId PROVE FALSE
      OBVIOUS
    <3> PICK p : p = reservationOrder[r]
      OBVIOUS
    <3>1. p \in Order /\ OrderExists(p) /\ order[p].reservation = r
      BY <1>2 DEF SaleInv, SaleTypes, LinkHolds
    <3>2. p \in OrdersFor(r)
      BY <3>1 DEF SaleInv, TicketFits
    <3>3. p = o
      BY <1>2, <3>2 DEF OneKeyPerHold, OrdersFor
    <3> QED
      BY <1>5, <3>1, <3>3
  <2>5. payment' \in [Order -> PaymentRow]
    BY <1>2, <2>1 DEF SaleInv, SaleTypes, PaymentRow
  <2>6. new \in Sale
    BY <1>2 DEF Sale
  <2> HIDE DEF new
  <2>7. SaleTypes'
    BY <1>2, <1>3, <2>1, <2>3, <2>5, <2>6 DEF SaleInv, SaleTypes
  <2>8. RowTypes'
    BY <1>3 DEF SaleInv, RowTypes, inventoryVars, requestVars
  <2>9. /\ order'[o].status = "pending_payment" /\ order'[o].reservation = r /\ tickets[o] = 0
    <3>1. tickets[o] \in Nat /\ TicketFits(o)
      BY <1>2 DEF SaleInv, SaleTypes
    <3>2. tickets[o] = 0
      BY <1>5, <3>1 DEF TicketFits
    <3> QED
      BY <2>2, <3>2 DEF new
  <2>10. ASSUME NEW p \in Order
         PROVE  TicketFits(p)'
    <3>1. CASE p = o
      BY <1>2, <1>3, <2>2, <2>9, <3>1 DEF TicketFits, Exists, Status, OrdersFor
    <3>2. CASE p # o
      <4>1. TicketFits(p) /\ order'[p] = order[p]
        BY <2>2, <3>2 DEF SaleInv
      <4>2. OrderExists(p) => order[p].reservation # r
        BY <1>2, <2>4, <4>1, OrderIsSome DEF TicketFits
      <4> QED
        BY <1>3, <2>2, <4>1, <4>2 DEF TicketFits, OrderExists, Exists, Status
    <3> QED
      BY <3>1, <3>2
  <2>11. ASSUME NEW x \in Reservation
         PROVE  LinkHolds(x)'
    <3>1. CASE x = r
      BY <2>2, <2>9, <3>1 DEF LinkHolds, OrderExists
    <3>2. CASE x # r
      <4>1. LinkHolds(x) /\ reservationOrder'[x] = reservationOrder[x]
        BY <2>2, <3>2 DEF SaleInv
      <4>2. reservationOrder[x] # NoOrderId =>
              reservationOrder[x] \in Order /\ reservationOrder[x] # o
        BY <1>5, <4>1 DEF LinkHolds, SaleInv, SaleTypes
      <4> QED
        BY <2>2, <4>1, <4>2 DEF LinkHolds, OrderExists
    <3> QED
      BY <3>1, <3>2
  <2>12. ASSUME NEW g \in Handler
         PROVE  RequestHolds(tx[g])' /\ CallbackHolds(tx[g])'
    <3>1. CASE g = h
      BY <2>3, <3>1 DEF RequestHolds, CallbackHolds
    <3>2. CASE g # h
      <4>1. tx'[g] = tx[g] /\ RequestHolds(tx[g]) /\ CallbackHolds(tx[g])
        BY <2>3, <3>2 DEF SaleInv
      <4>2. RequestHolds(tx[g])'
        BY <1>3, <4>1 DEF RequestHolds, Exists, Status
      <4>3. tx[g].step = "webhook" => tx[g].reservation \in Reservation /\ tx[g].order \in Order
        BY DEF SaleInv, SaleTypes, Idle, OrderTx, PaymentTx, OrderReply
      <4>4. tx[g].step = "webhook" => tx[g].reservation # r
        BY <2>4, <4>1, <4>3, OrderIsSome DEF CallbackHolds
      <4>5. CallbackHolds(tx[g])'
        BY <1>3, <2>2, <4>1, <4>3, <4>4 DEF CallbackHolds, Status
      <4> QED
        BY <4>2, <4>5
    <3> QED
      BY <3>1, <3>2
  <2>13. CallbacksAlone'
    BY <2>3 DEF SaleInv, CallbacksAlone
  <2> QED
    BY <2>7, <2>8, <2>10, <2>11, <2>12, <2>13 DEF SaleInv
<1> QED
  BY <1>4, <1>5

-----------------------------------------------------------------------------
(* A callback commits                                                      *)

LEMMA CallbackKnowsOrder ==
  ASSUME SaleInv, NEW h \in Handler, tx[h].step = "webhook"
  PROVE  /\ tx[h] \in PaymentTx /\ tx[h].order \in Order /\ tx[h].reservation \in Reservation
         /\ reservationOrder[tx[h].reservation] = tx[h].order
         /\ OrderExists(tx[h].order) /\ order[tx[h].order].reservation = tx[h].reservation
         /\ Exists(tx[h].reservation)
<1>1. tx[h] \in PaymentTx
  BY DEF SaleInv, SaleTypes, Idle, OrderTx, OrderReply
<1>2. tx[h].order \in Order /\ tx[h].reservation \in Reservation
  BY <1>1 DEF PaymentTx
<1>3. reservationOrder[tx[h].reservation] = tx[h].order
  BY DEF SaleInv, CallbackHolds
<1>4. OrderExists(tx[h].order) /\ order[tx[h].order].reservation = tx[h].reservation
  BY <1>2, <1>3, OrderIsSome DEF SaleInv, LinkHolds
<1> QED
  BY <1>1, <1>2, <1>3, <1>4 DEF SaleInv, TicketFits

LEMMA SettleRows ==
  ASSUME SaleInv, NEW o \in Order, OrderExists(o), NEW e \in Event,
         NEW st \in {"issued", "failed", "refund_required"}, NEW paid \in {"succeeded", "failed"},
         Settle(o, st, paid, e)
  PROVE  /\ order' \in [Order -> Sale \cup {NoOrder}] /\ payment' \in [Order -> PaymentRow]
         /\ OrdersStay
<1>1. /\ order' = [order EXCEPT ![o].status = st]
      /\ payment' = [payment EXCEPT ![o] = [status |-> paid, hash |-> e]]
  BY DEF Settle
<1>2. order[o] \in Sale
  BY DEF SaleInv, SaleTypes, OrderExists, NoOrder
<1>3. order'[o] = [order[o] EXCEPT !.status = st]
  BY <1>1 DEF SaleInv, SaleTypes
<1>4. order'[o] \in Sale /\ order'[o].status = st /\ order'[o].reservation = order[o].reservation
  BY <1>2, <1>3 DEF Sale
<1>5. order' = [order EXCEPT ![o] = order'[o]]
  BY <1>1, <1>3 DEF SaleInv, SaleTypes
<1>6. order' \in [Order -> Sale \cup {NoOrder}] /\ \A p \in Order \ {o} : order'[p] = order[p]
  BY <1>4, <1>5 DEF SaleInv, SaleTypes
<1>7. OrdersStay
  BY <1>4, <1>6 DEF OrdersStay, OrderExists
<1>8. [status |-> paid, hash |-> e] \in PaymentRow
  BY DEF PaymentRow
<1>9. payment' \in [Order -> PaymentRow]
  BY <1>1, <1>8 DEF SaleInv, SaleTypes
<1> QED
  BY <1>6, <1>7, <1>9

\* A callback that sells nothing.
LEMMA CallbackEnds ==
  ASSUME SaleInv, NEW h \in Handler, tx' = [tx EXCEPT ![h] = Idle],
         UNCHANGED <<pc, call, selected, reservationOrder, tickets, reported>>,
         order' \in [Order -> Sale \cup {NoOrder}], payment' \in [Order -> PaymentRow],
         reservation' \in [Reservation -> Row \cup {NoReservation}],
         OrdersStay, NoSale, \A r \in Reservation : RowAdvances(r)
  PROVE  SaleInv'
<1>1. /\ tx' \in [Handler -> {Idle} \cup OrderTx \cup PaymentTx] /\ tx'[h] = Idle
      /\ \A g \in Handler \ {h} : tx'[g] = tx[g]
  BY DEF SaleInv, SaleTypes
<1>2. RowTypes' /\ SaleTypes'
  BY <1>1 DEF SaleInv, RowTypes, SaleTypes
<1>3. RequestHolds(tx[h])' /\ CallbackHolds(tx[h])'
  BY <1>1 DEF RequestHolds, CallbackHolds, Idle
<1>4. /\ \A o \in Order : TicketFits(o)'
      /\ \A r \in Reservation : LinkHolds(r)'
      /\ \A g \in Handler : tx'[g] = tx[g] => RequestHolds(tx[g])' /\ CallbackHolds(tx[g])'
  BY SaleStays
<1>5. CallbacksAlone'
  BY <1>1 DEF SaleInv, CallbacksAlone, Idle
<1> QED
  BY <1>1, <1>2, <1>3, <1>4, <1>5 DEF SaleInv

\* The rows a sale changes, and the callbacks it leaves alone.
LEMMA SellRows ==
  ASSUME SaleInv, NEW r \in Reservation, Exists(r), Status(r) # "confirmed", SellHold(r)
  PROVE  /\ reservation' \in [Reservation -> Row \cup {NoReservation}]
         /\ Status(r)' = "confirmed"
         /\ reservation[r].quantity \in Nat \ {0}
         /\ \A x \in Reservation : RowAdvances(x)
         /\ \A x \in Reservation \ {r} : reservation'[x] = reservation[x]
<1>1. reservation' = [reservation EXCEPT ![r].status = "confirmed"]
  BY DEF SellHold
<1>2. reservation[r] \in Row
  BY DEF SaleInv, RowTypes, Exists, Status, NoReservation
<1>3. reservation'[r] = [reservation[r] EXCEPT !.status = "confirmed"]
  BY <1>1 DEF SaleInv, RowTypes
<1>4. /\ reservation'[r] \in Row /\ reservation'[r].status = "confirmed"
      /\ reservation'[r].quantity = reservation[r].quantity
  BY <1>2, <1>3 DEF Row
<1>5. /\ reservation' \in [Reservation -> Row \cup {NoReservation}]
      /\ \A x \in Reservation \ {r} : reservation'[x] = reservation[x]
  <2>1. reservation' = [reservation EXCEPT ![r] = reservation'[r]]
    BY <1>1, <1>3 DEF SaleInv, RowTypes
  <2> QED
    BY <1>4, <2>1 DEF SaleInv, RowTypes
<1>6. \A x \in Reservation : RowAdvances(x)
  BY <1>4, <1>5 DEF RowAdvances, Exists, Status
<1>7. reservation[r].quantity \in Nat \ {0}
  BY <1>2, LimitAssumption DEF Row
<1> QED
  BY <1>4, <1>5, <1>6, <1>7 DEF Status

LEMMA ConfirmHolds ==
  ASSUME SaleInv, NEW h \in Handler, WebhookCommit(h), tx[h].outcome = "confirm", Confirm(tx[h])
  PROVE  SaleInv' /\ \A x \in Reservation : RowAdvances(x)
<1> PICK a : a = tx[h]
  OBVIOUS
<1> PICK o, r : o = a.order /\ r = a.reservation
  OBVIOUS
<1>1. /\ tx[h].step = "webhook" /\ tx' = [tx EXCEPT ![h] = Idle]
      /\ UNCHANGED <<pc, call, selected, reservationOrder, reported>>
  BY DEF WebhookCommit, requestVars
<1>2. /\ a \in PaymentTx /\ o \in Order /\ r \in Reservation /\ reservationOrder[r] = o
      /\ OrderExists(o) /\ order[o].reservation = r /\ Exists(r)
  BY <1>1, CallbackKnowsOrder
<1>3. Status(r) # "confirmed" /\ <<o, "succeeded">> \in reported
  BY <1>1 DEF SaleInv, CallbackHolds
<1>4. /\ SellHold(r) /\ Settle(o, "issued", "succeeded", a.hash)
      /\ tickets' = [tickets EXCEPT ![o] =
           IF @ < reservation[r].quantity THEN reservation[r].quantity ELSE @]
  BY DEF Confirm
<1>5. /\ reservation' \in [Reservation -> Row \cup {NoReservation}]
      /\ Status(r)' = "confirmed"
      /\ reservation[r].quantity \in Nat \ {0}
      /\ \A x \in Reservation : RowAdvances(x)
      /\ \A x \in Reservation \ {r} : reservation'[x] = reservation[x]
  BY <1>2, <1>3, <1>4, SellRows
<1>6. /\ order' \in [Order -> Sale \cup {NoOrder}] /\ payment' \in [Order -> PaymentRow]
      /\ OrdersStay
  <2>1. a.hash \in Event
    BY <1>2 DEF PaymentTx
  <2> QED
    BY <1>2, <1>4, <2>1, SettleRows
<1>7. tickets[o] = 0
  <2>1. tickets[o] \in Nat /\ TicketFits(o)
    BY <1>2 DEF SaleInv, SaleTypes
  <2> QED
    BY <1>2, <1>3, <2>1 DEF TicketFits
<1>8. /\ tickets' \in [Order -> Nat] /\ tickets'[o] = reservation[r].quantity
      /\ \A p \in Order \ {o} : tickets'[p] = tickets[p]
  BY <1>2, <1>4, <1>5, <1>7 DEF SaleInv, SaleTypes
<1>9. /\ tx' \in [Handler -> {Idle} \cup OrderTx \cup PaymentTx] /\ tx'[h] = Idle
      /\ \A g \in Handler \ {h} : tx'[g] = tx[g]
  BY <1>1 DEF SaleInv, SaleTypes
<1>10. RowTypes' /\ SaleTypes'
  BY <1>1, <1>5, <1>6, <1>8, <1>9 DEF SaleInv, RowTypes, SaleTypes
<1>11. ASSUME NEW p \in Order
       PROVE  TicketFits(p)'
  <2>1. TicketFits(p) /\ (OrderExists(p)' <=> OrderExists(p))
    BY <1>6 DEF SaleInv, OrdersStay
  <2>2. OrderExists(p) => /\ order'[p].reservation = order[p].reservation
                          /\ RowAdvances(order[p].reservation)
    BY <1>5, <1>6, <2>1 DEF OrdersStay, TicketFits
  <2>3. CASE p = o
    BY <1>1, <1>2, <1>3, <1>5, <1>8, <2>1, <2>2, <2>3 DEF TicketFits, RowAdvances
  <2>4. CASE p # o
    BY <1>1, <1>8, <2>1, <2>2, <2>4 DEF TicketFits, RowAdvances, Status
  <2> QED
    BY <2>3, <2>4
<1>12. ASSUME NEW x \in Reservation
       PROVE  LinkHolds(x)'
  <2>1. reservationOrder[x] \in Order \cup {NoOrderId} /\ LinkHolds(x)
    BY DEF SaleInv, SaleTypes
  <2> QED
    BY <1>1, <1>6, <2>1 DEF LinkHolds, OrdersStay
<1>13. ASSUME NEW g \in Handler
       PROVE  RequestHolds(tx[g])' /\ CallbackHolds(tx[g])'
  <2>1. CASE g = h
    BY <1>9, <2>1 DEF RequestHolds, CallbackHolds, Idle
  <2>2. CASE g # h
    <3>1. tx'[g] = tx[g] /\ RequestHolds(tx[g]) /\ CallbackHolds(tx[g])
      BY <1>9, <2>2 DEF SaleInv
    <3>2. tx[g].step \in {"check", "write"} => tx[g].request.reservation \in Reservation
      BY DEF SaleInv, SaleTypes, Idle, OrderTx, PaymentTx, OrderRequest
    <3>3. RequestHolds(tx[g])'
      BY <1>5, <3>1, <3>2 DEF RequestHolds, RowAdvances
    <3>4. tx[g].step = "webhook" => tx[g].reservation \in Reservation
      BY CallbackKnowsOrder
    <3>5. tx[g].step = "webhook" => tx[g].reservation # r
      BY <1>1, <1>2, <2>2, <3>1 DEF SaleInv, CallbacksAlone, CallbackHolds
    <3>6. CallbackHolds(tx[g])'
      BY <1>1, <1>5, <3>1, <3>4, <3>5 DEF CallbackHolds, Status
    <3> QED
      BY <3>3, <3>6
  <2> QED
    BY <2>1, <2>2
<1>14. CallbacksAlone'
  BY <1>9 DEF SaleInv, CallbacksAlone, Idle
<1> QED
  BY <1>5, <1>10, <1>11, <1>12, <1>13, <1>14 DEF SaleInv

LEMMA CommitHolds ==
  ASSUME SaleInv, NEW h \in Handler, WebhookCommit(h)
  PROVE  SaleInv' /\ \A x \in Reservation : RowAdvances(x)
<1> PICK a : a = tx[h]
  OBVIOUS
<1> PICK o, r : o = a.order /\ r = a.reservation
  OBVIOUS
<1>1. /\ tx[h].step = "webhook" /\ tx' = [tx EXCEPT ![h] = Idle] /\ Apply(a)
      /\ UNCHANGED <<pc, call, selected, reservationOrder, reported>>
  BY DEF WebhookCommit, requestVars
<1>2. /\ a \in PaymentTx /\ o \in Order /\ r \in Reservation /\ OrderExists(o) /\ Exists(r)
  BY <1>1, CallbackKnowsOrder
<1>3. a.hash \in Event
  BY <1>2 DEF PaymentTx
<1>4. CASE a.outcome = "confirm" /\ Confirm(a)
  BY <1>4, ConfirmHolds
<1>5. CASE Refund(a)
  <2>1. order' \in [Order -> Sale \cup {NoOrder}] /\ payment' \in [Order -> PaymentRow] /\ OrdersStay
    BY <1>2, <1>3, <1>5, SettleRows DEF Refund
  <2>2. /\ NoSale /\ \A x \in Reservation : RowAdvances(x)
        /\ reservation' \in [Reservation -> Row \cup {NoReservation}]
    <3>1. CASE a.held
      <4>1. Status(r) # "confirmed" /\ ReleaseHolds({r})
        BY <1>1, <1>5, <3>1 DEF SaleInv, CallbackHolds, Refund
      <4> QED
        BY <1>2, <4>1, ReleaseRows DEF SaleInv
    <3>2. CASE ~a.held
      BY <1>5, <3>2, RowsAsTheyAre DEF Refund, ledgerVars, SaleInv, RowTypes
    <3> QED
      BY <3>1, <3>2
  <2>3. UNCHANGED tickets
    BY <1>5 DEF Refund
  <2> QED
    BY <1>1, <2>1, <2>2, <2>3, CallbackEnds
<1>6. CASE Fail(a)
  <2>1. order' \in [Order -> Sale \cup {NoOrder}] /\ payment' \in [Order -> PaymentRow] /\ OrdersStay
    BY <1>2, <1>3, <1>6, SettleRows DEF Fail
  <2>2. UNCHANGED <<reservation, tickets>>
    BY <1>6 DEF Fail, ledgerVars
  <2>3. /\ NoSale /\ \A x \in Reservation : RowAdvances(x)
        /\ reservation' \in [Reservation -> Row \cup {NoReservation}]
    BY <2>2, RowsAsTheyAre DEF SaleInv, RowTypes
  <2> QED
    BY <1>1, <2>1, <2>2, <2>3, CallbackEnds
<1>7. CASE UNCHANGED <<ledgerVars, order, payment, tickets>>
  <2>1. UNCHANGED <<reservation, order, payment, tickets>>
    BY <1>7 DEF ledgerVars
  <2>2. /\ NoSale /\ \A x \in Reservation : RowAdvances(x)
        /\ reservation' \in [Reservation -> Row \cup {NoReservation}]
        /\ order' \in [Order -> Sale \cup {NoOrder}] /\ payment' \in [Order -> PaymentRow]
        /\ OrdersStay
    BY <2>1, RowsAsTheyAre DEF SaleInv, RowTypes, SaleTypes, OrdersStay, OrderExists
  <2> QED
    BY <1>1, <2>1, <2>2, CallbackEnds
<1> QED
  BY <1>1, <1>4, <1>5, <1>6, <1>7 DEF Apply

-----------------------------------------------------------------------------
(* The whole flow                                                          *)

LEMMA SaleRests ==
  ASSUME SaleInv, UNCHANGED checkoutVars
  PROVE  SaleInv' /\ \A x \in Reservation : RowAdvances(x)
<1> USE DEF checkoutVars, checkoutOnly, paymentVars
<1>1. UNCHANGED <<reservation, pc, call, selected>>
  BY DEF inventoryVars, ledgerVars, requestVars
<1>2. NoSale /\ OrdersStay /\ \A x \in Reservation : RowAdvances(x)
  BY <1>1, RowsAsTheyAre DEF OrdersStay, OrderExists
<1>3. RowTypes' /\ SaleTypes'
  BY <1>1 DEF SaleInv, RowTypes, SaleTypes
<1> QED
  BY <1>2, <1>3, LedgerMoves

\* The orders and callbacks of one handler.
OrderStep(h) ==
  OrderLookup(h) \/ OrderCheck(h) \/ OrderWrite(h) \/ OrderReturn(h) \/ CheckoutAbort(h)

LEMMA OrderStepHolds ==
  ASSUME OneKeyPerHold, SaleInv, NEW h \in Handler, OrderStep(h)
  PROVE  SaleInv' /\ (\A x \in Reservation : RowAdvances(x)) /\ reported' = reported
<1>1. UNCHANGED <<inventoryVars, reported>>
  BY DEF OrderStep, OrderLookup, OrderCheck, OrderWrite, OrderReturn, CheckoutAbort
<1>2. \A x \in Reservation : RowAdvances(x)
  BY <1>1, RowsAsTheyAre DEF inventoryVars, ledgerVars
<1>3. OrderReturn(h) \/ CheckoutAbort(h) => SaleInv'
  BY IdleHolds DEF OrderReturn, CheckoutAbort
<1> QED
  BY <1>1, <1>2, <1>3, LookupHolds, CheckHolds, WriteHolds DEF OrderStep

LEMMA CallbackReads ==
  ASSUME SaleInv, NEW h \in Handler, NEW e \in Event, NEW sound \in BOOLEAN,
         <<OrderOf(e), VerdictOf(e)>> \in reported, WebhookReads(h, e, sound)
  PROVE  SaleInv' /\ (\A x \in Reservation : RowAdvances(x)) /\ reported' = reported
<1>1. UNCHANGED <<reservation, reported>>
  BY DEF WebhookReads, inventoryVars, ledgerVars
<1> QED
  BY <1>1, ReadsHolds, RowsAsTheyAre

LEMMA CheckoutStepHolds ==
  ASSUME OneKeyPerHold, SaleInv, intent \subseteq Order, CheckoutStep
  PROVE  SaleInv' /\ (\A x \in Reservation : RowAdvances(x)) /\ reported \subseteq reported'
<1>1. CASE InventoryStep
  BY <1>1, InventoryStepHolds, LedgerStepRows DEF SaleInv, InventoryStep, checkoutOnly
<1>2. ASSUME NEW w \in Worker, ExpireWithOrders(w)
      PROVE  SaleInv' /\ (\A x \in Reservation : RowAdvances(x)) /\ reported \subseteq reported'
  BY <1>2, ExpiryHolds DEF ExpireWithOrders
<1>3. ASSUME NEW o \in intent, NEW v \in Verdict, ProviderReports(o, v)
      PROVE  SaleInv' /\ (\A x \in Reservation : RowAdvances(x)) /\ reported \subseteq reported'
  <2>1. UNCHANGED reservation /\ reported \subseteq reported'
    BY <1>3 DEF ProviderReports, inventoryVars, ledgerVars
  <2> QED
    BY <1>3, <2>1, ReportHolds, RowsAsTheyAre
<1>4. ASSUME NEW h \in Handler, OrderStep(h)
      PROVE  SaleInv' /\ (\A x \in Reservation : RowAdvances(x)) /\ reported \subseteq reported'
  BY <1>4, OrderStepHolds
<1>5. ASSUME NEW h \in Handler, NEW e \in Event, NEW sound \in Soundness, Deliver(h, e, sound)
      PROVE  SaleInv' /\ (\A x \in Reservation : RowAdvances(x)) /\ reported \subseteq reported'
  <2>1. sound \in BOOLEAN
    BY PairingAssumption
  <2> QED
    BY <1>5, <2>1, CallbackReads DEF Deliver
<1>6. ASSUME NEW h \in Handler, WebhookCommit(h)
      PROVE  SaleInv' /\ (\A x \in Reservation : RowAdvances(x)) /\ reported \subseteq reported'
  BY <1>6, CommitHolds DEF WebhookCommit
<1> QED
  BY <1>1, <1>2, <1>3, <1>4, <1>5, <1>6 DEF CheckoutStep, OrderStep

LEMMA AskStepHolds ==
  ASSUME SaleInv, AskInv, NEW a \in Asker, AskStep(a)
  PROVE  SaleInv' /\ (\A x \in Reservation : RowAdvances(x)) /\ reported' = reported
<1>1. ASSUME UNCHANGED checkoutVars
      PROVE  SaleInv' /\ (\A x \in Reservation : RowAdvances(x)) /\ reported' = reported
  BY <1>1, SaleRests DEF checkoutVars, checkoutOnly
<1>2. ASSUME NEW o \in Order, NEW st \in {"expired", "pending", "pending_reconciliation"},
             SetStatus(o, st)
      PROVE  SaleInv' /\ (\A x \in Reservation : RowAdvances(x)) /\ reported' = reported
  <2>1. UNCHANGED <<reservation, reported>>
    BY <1>2 DEF SetStatus, inventoryVars, ledgerVars
  <2> QED
    BY <1>2, <2>1, StatusHolds, RowsAsTheyAre
<1>3. CASE IntentExpire(a) \/ IntentSave(a) \/ IntentDoubt(a)
  <2>1. ask[a].order \in Order
    BY <1>3, AskByStep DEF AskInv, IntentExpire, IntentSave, IntentDoubt
  <2> QED
    BY <1>2, <1>3, <2>1 DEF IntentExpire, IntentSave, IntentDoubt
<1>4. CASE IntentLoad(a) \/ IntentClaim(a) \/ IntentCall(a) \/ IntentComplete(a)
             \/ IntentStumbles(a) \/ IntentCrash(a)
  BY <1>1, <1>4
     DEF IntentLoad, IntentClaim, IntentCall, IntentComplete, IntentStumbles, IntentCrash
<1> QED
  BY <1>3, <1>4 DEF AskStep

ReconTypes ==
  /\ leaseOwner \in [Order -> Reconciler \cup {NoOwner}]
  /\ leased \subseteq Order
  /\ recon \in [Reconciler -> {NoBatch} \cup Batch \cup Turn]

\* A batch only applies what the provider has said.
AnswerFounded(b) ==
  b.step \in {"finalize", "finalizing"} => <<b.order, b.answer>> \in reported

ReconInv == ReconTypes /\ \A r \in Reconciler : AnswerFounded(recon[r])

LEMMA ReconStays ==
  ASSUME ReconInv, UNCHANGED recon, reported \subseteq reported',
         leaseOwner' \in [Order -> Reconciler \cup {NoOwner}], leased' \subseteq Order
  PROVE  ReconInv'
  BY DEF ReconInv, ReconTypes, AnswerFounded

LEMMA TurnByStep ==
  ASSUME ReconTypes, NEW r \in Reconciler
  PROVE  /\ recon[r].step = "next" => recon[r] \in Batch
         /\ recon[r].step \notin {"idle", "next"} =>
              recon[r] \in Turn /\ recon[r].order \in Order /\ recon[r].todo \subseteq Order
  BY DEF ReconTypes, NoBatch, Batch, Turn

LEMMA SomeToDo ==
  ASSUME NEW todo, todo \subseteq Order, todo # {}
  PROVE  [step |-> "next", todo |-> todo] \in Batch
<1>1. todo \in SUBSET Order /\ todo \notin {{}}
  OBVIOUS
<1>2. todo \in (SUBSET Order) \ {{}}
  BY <1>1, Zenon
<1> QED
  BY <1>2, Zenon DEF Batch

\* A batch moves on.
LEMMA BatchMoves ==
  ASSUME ReconInv, NEW r \in Reconciler, NEW b \in {NoBatch} \cup Batch \cup Turn,
         recon' = [recon EXCEPT ![r] = b], reported' = reported,
         b.step \in {"finalize", "finalizing"} => <<b.order, b.answer>> \in reported,
         leaseOwner' \in [Order -> Reconciler \cup {NoOwner}], leased' \subseteq Order
  PROVE  ReconInv'
  BY DEF ReconInv, ReconTypes, AnswerFounded

LEMMA NextTurnKeeps ==
  ASSUME ReconInv, NEW r \in Reconciler, NEW todo, todo \subseteq Order, NextTurn(r, todo),
         reported' = reported,
         leaseOwner' \in [Order -> Reconciler \cup {NoOwner}], leased' \subseteq Order
  PROVE  ReconInv'
<1>1. CASE todo = {}
  BY <1>1, BatchMoves DEF NextTurn, NoBatch
<1>2. CASE todo # {}
  <2>1. [step |-> "next", todo |-> todo] \in Batch
    BY <1>2, SomeToDo
  <2> QED
    BY <1>2, <2>1, BatchMoves DEF NextTurn
<1> QED
  BY <1>1, <1>2

\* A step within a turn.
LEMMA TurnGoesOn ==
  ASSUME ReconInv, NEW r \in Reconciler, NEW st \in {"finalizing", "judge", "expire", "reschedule"},
         recon[r].step \in {"finalize", "finalizing", "judge"}, 
         st = "finalizing" => recon[r].step = "finalize",
         recon' = [recon EXCEPT ![r].step = st], reported' = reported, UNCHANGED leaseVars
  PROVE  ReconInv'
<1>1. recon[r] \in Turn /\ AnswerFounded(recon[r])
  BY TurnByStep DEF ReconInv
<1> PICK b : b = [recon[r] EXCEPT !.step = st]
  OBVIOUS
<1>2. b \in Turn /\ b.step = st /\ b.order = recon[r].order /\ b.answer = recon[r].answer
  BY <1>1 DEF Turn
<1>3. recon' = [recon EXCEPT ![r] = b]
  BY DEF ReconInv, ReconTypes
<1>4. b.step \in {"finalize", "finalizing"} => <<b.order, b.answer>> \in reported
  BY <1>1, <1>2 DEF AnswerFounded
<1>5. leaseOwner' \in [Order -> Reconciler \cup {NoOwner}] /\ leased' \subseteq Order
  BY DEF ReconInv, ReconTypes, leaseVars
<1> QED
  BY <1>2, <1>3, <1>4, <1>5, BatchMoves

\* What a step of reconciliation does to its batch and its lease, whatever it
\* does to orders and seats.
LEMMA ReconcileKeepsBatches ==
  ASSUME ReconInv, NEW r \in Reconciler, ReconcileStep(r)
  PROVE  ReconInv' /\ reported' = reported
<1>1. reported' = reported
  BY Zenon DEF ReconcileStep, ReconcileTurn, ReconcileClaim, ReconcileQuery, ReconcileFinalize,
    ReconcileRefused, ReconcileFinalized, ReconcileJudge, ReconcileWrite, ReconcileRolledBack,
    ReconcileCrash, WebhookReads, WebhookCommit, CheckoutAbort, SetStatus, checkoutVars, checkoutOnly
<1> USE <1>1
<1>2. UNCHANGED leaseVars => leaseOwner' \in [Order -> Reconciler \cup {NoOwner}] /\ leased' \subseteq Order
  BY DEF ReconInv, ReconTypes, leaseVars
<1>3. CASE ReconcileClaim(r)
  <2>1. Due \subseteq Order /\ [step |-> "next", todo |-> Due] \in Batch
    <3>1. Due \subseteq Order
      BY DEF Due
    <3>2. Due # {}
      BY <1>3 DEF ReconcileClaim
    <3> QED
      BY <3>1, <3>2, SomeToDo
  <2>2. leaseOwner' \in [Order -> Reconciler \cup {NoOwner}] /\ leased' \subseteq Order
    BY <1>3, <2>1 DEF ReconcileClaim, ReconInv, ReconTypes
  <2>3. recon' = [recon EXCEPT ![r] = [step |-> "next", todo |-> Due]]
    BY <1>3 DEF ReconcileClaim
  <2> QED
    BY <2>1, <2>2, <2>3, BatchMoves
<1>4. CASE ReconcileQuery(r)
  <2>1. PICK o \in recon[r].todo, v \in Verdict \cup {"unknown"} :
          /\ v # "unknown" => <<o, v>> \in reported
          /\ recon' = [recon EXCEPT ![r] =
               [step |-> IF v = "unknown" THEN "judge" ELSE "finalize",
                todo |-> recon[r].todo \ {o}, order |-> o, answer |-> v]]
    BY <1>4 DEF ReconcileQuery
  <2>2. recon[r] \in Batch
    BY <1>4, TurnByStep DEF ReconcileQuery, ReconInv
  <2> PICK b : b = [step |-> IF v = "unknown" THEN "judge" ELSE "finalize",
                    todo |-> recon[r].todo \ {o}, order |-> o, answer |-> v]
    OBVIOUS
  <2>3. /\ b \in Turn /\ b.order = o /\ b.answer = v
        /\ b.step = IF v = "unknown" THEN "judge" ELSE "finalize"
    BY <2>2 DEF Batch, Turn
  <2>4. b.step \in {"finalize", "finalizing"} => <<b.order, b.answer>> \in reported
    BY <2>1, <2>3
  <2>5. recon' = [recon EXCEPT ![r] = b]
    BY <2>1
  <2>6. UNCHANGED leaseVars
    BY <1>4 DEF ReconcileQuery
  <2> QED
    BY <1>2, <2>3, <2>4, <2>5, <2>6, BatchMoves
<1>5. CASE ReconcileFinalize(r)
  BY <1>5, TurnGoesOn DEF ReconcileFinalize
<1>6. CASE ReconcileRefused(r) \/ ReconcileJudge(r)
  <2>1. PICK st \in {"judge", "expire", "reschedule"} : recon' = [recon EXCEPT ![r].step = st]
    BY <1>6 DEF ReconcileRefused, ReconcileJudge
  <2>2. recon[r].step \in {"finalize", "judge"} /\ UNCHANGED leaseVars
    BY <1>6 DEF ReconcileRefused, ReconcileJudge
  <2> QED
    BY <2>1, <2>2, TurnGoesOn
<1>7. CASE ReconcileFinalized(r)
  <2>1. NextTurn(r, recon[r].todo) /\ UNCHANGED leaseVars /\ recon[r].todo \subseteq Order
    BY <1>7, TurnByStep DEF ReconcileFinalized, ReconInv
  <2> QED
    BY <1>2, <2>1, NextTurnKeeps
<1>8. CASE ReconcileRolledBack(r)
  BY <1>8, TurnGoesOn DEF ReconcileRolledBack
<1>9. CASE ReconcileWrite(r)
  <2> PICK o : o = recon[r].order
    OBVIOUS
  <2>1. o \in Order /\ recon[r].todo \subseteq Order /\ NextTurn(r, recon[r].todo)
    BY <1>9, TurnByStep DEF ReconcileWrite, ReconInv
  <2>2. ClearLease(o) \/ UNCHANGED leaseVars
    BY <1>9 DEF ReconcileWrite
  <2>3. leaseOwner' \in [Order -> Reconciler \cup {NoOwner}] /\ leased' \subseteq Order
    BY <1>2, <2>1, <2>2 DEF ClearLease, ReconInv, ReconTypes
  <2> QED
    BY <2>1, <2>3, NextTurnKeeps
<1>10. CASE ReconcileCrash(r)
  <2>1. UNCHANGED leaseVars /\ recon' = [recon EXCEPT ![r] = NoBatch]
    BY <1>10 DEF ReconcileCrash
  <2>2. NoBatch.step = "idle"
    BY DEF NoBatch
  <2> QED
    BY <1>2, <2>1, <2>2, BatchMoves
<1> QED
  BY <1>3, <1>4, <1>5, <1>6, <1>7, <1>8, <1>9, <1>10 DEF ReconcileStep, ReconcileTurn

\* An answer that a batch applies is an event like any other.
LEMMA AnswerIsEvent ==
  ASSUME ReconInv, reported \subseteq Order \X Verdict,
         NEW r \in Reconciler, recon[r].step = "finalize"
  PROVE  LET e == AnswerEvent(r)
         IN e \in Event /\ OrderOf(e) = recon[r].order /\ <<OrderOf(e), VerdictOf(e)>> \in reported
<1>1. <<recon[r].order, recon[r].answer>> \in reported
  BY DEF ReconInv, AnswerFounded
<1>2. recon[r].order \in Order /\ recon[r].answer \in Verdict
  BY <1>1
<1> QED
  BY <1>1, <1>2, ReconcilerAssumption DEF AnswerEvent, Event, OrderOf, VerdictOf

\* What it does to orders and seats.
LEMMA ReconcileStepHolds ==
  ASSUME SaleInv, ReconInv, NEW r \in Reconciler, ReconcileStep(r)
  PROVE  SaleInv' /\ \A x \in Reservation : RowAdvances(x)
<1>1. r \in Handler
  BY ReconcilerAssumption
<1>2. CASE UNCHANGED checkoutVars
  BY <1>2, SaleRests
<1>3. CASE ReconcileFinalize(r)
  <2> PICK e : e = AnswerEvent(r)
    OBVIOUS
  <2>1. WebhookReads(r, e, TRUE) /\ recon[r].step = "finalize"
    BY <1>3 DEF ReconcileFinalize
  <2>2. e \in Event /\ <<OrderOf(e), VerdictOf(e)>> \in reported
    BY <2>1, AnswerIsEvent DEF SaleInv, SaleTypes
  <2> QED
    BY <1>1, <2>1, <2>2, CallbackReads
<1>4. CASE ReconcileFinalized(r)
  BY <1>1, <1>4, CommitHolds DEF ReconcileFinalized
<1>5. CASE ReconcileRolledBack(r) \/ ReconcileCrash(r)
  <2>1. /\ UNCHANGED <<inventoryVars, order, reservationOrder, paymentVars, reported>>
        /\ tx' = [tx EXCEPT ![r] = Idle]
    BY <1>5 DEF ReconcileRolledBack, CheckoutAbort, ReconcileCrash
  <2>2. UNCHANGED reservation
    BY <2>1 DEF inventoryVars, ledgerVars
  <2> QED
    BY <1>1, <2>1, <2>2, IdleHolds, RowsAsTheyAre
<1>6. CASE ReconcileWrite(r)
  <2> PICK o : o = recon[r].order
    OBVIOUS
  <2>1. o \in Order
    BY <1>6, TurnByStep DEF ReconcileWrite, ReconInv
  <2>2. CASE leaseOwner[o] = r
    <3>1. SetStatus(o, "expired") \/ SetStatus(o, "pending_reconciliation")
      BY <1>6, <2>2 DEF ReconcileWrite
    <3>2. UNCHANGED reservation
      BY <3>1 DEF SetStatus, inventoryVars, ledgerVars
    <3> QED
      BY <2>1, <3>1, <3>2, StatusHolds, RowsAsTheyAre
  <2>3. CASE leaseOwner[o] # r
    BY <1>2, <1>6, <2>3 DEF ReconcileWrite
  <2> QED
    BY <2>2, <2>3
<1> QED
  BY <1>2, <1>3, <1>4, <1>5, <1>6 DEF ReconcileStep, ReconcileTurn, ReconcileClaim,
    ReconcileQuery, ReconcileRefused, ReconcileJudge

FlowInv == AskInv /\ SaleInv /\ ReconInv

\* A step of the flow keeps the invariant and undoes no sale.
LEMMA FlowStep ==
  ASSUME OneKeyPerHold, FlowInv, [FlowNext]_flowVars
  PROVE  FlowInv' /\ \A x \in Reservation : RowAdvances(x)
<1> USE DEF FlowInv
<1>1. CASE CheckoutStep
  <2>1. UNCHANGED <<intentVars, leaseVars, recon>>
    BY <1>1 DEF CheckoutStep, flowOnly
  <2>2. SaleInv' /\ (\A x \in Reservation : RowAdvances(x)) /\ reported \subseteq reported'
    BY <1>1, CheckoutStepHolds DEF AskInv, AskTypes
  <2>3. ReconInv'
    BY <2>1, <2>2, ReconStays DEF leaseVars, ReconInv, ReconTypes
  <2> QED
    BY <2>1, <2>2, <2>3, AskStays
<1>2. ASSUME NEW a \in Asker, AskStep(a)
      PROVE  FlowInv' /\ \A x \in Reservation : RowAdvances(x)
  <2>1. SaleInv' /\ (\A x \in Reservation : RowAdvances(x)) /\ reported' = reported
    BY <1>2, AskStepHolds
  <2>2. recon' = recon
    BY <1>2, Zenon DEF AskStep, IntentLoad, IntentExpire, IntentClaim, IntentCall, IntentSave,
      IntentDoubt, IntentComplete, IntentStumbles, IntentCrash
  <2>3. UNCHANGED leaseVars \/ ClearLease(ask[a].order)
    BY <1>2, Zenon DEF AskStep, IntentLoad, IntentExpire, IntentClaim, IntentCall, IntentSave,
      IntentDoubt, IntentComplete, IntentStumbles, IntentCrash
  <2>4. leaseOwner' \in [Order -> Reconciler \cup {NoOwner}] /\ leased' \subseteq Order
    BY <2>3 DEF ClearLease, leaseVars, ReconInv, ReconTypes
  <2>5. ReconInv'
    BY <2>1, <2>2, <2>4, ReconStays
  <2> QED
    BY <1>2, <2>1, <2>5, AskStepKeeps
<1>3. ASSUME NEW r \in Reconciler, ReconcileStep(r)
      PROVE  FlowInv' /\ \A x \in Reservation : RowAdvances(x)
  BY <1>3, ReconcileStepHolds, ReconcileKeepsBatches, ReconcileKeepsAsks
<1>4. ASSUME NEW o \in Order, LeaseRunsOut(o)
      PROVE  FlowInv' /\ \A x \in Reservation : RowAdvances(x)
  <2>1. /\ UNCHANGED checkoutVars /\ UNCHANGED <<intentVars, leaseOwner, recon>>
        /\ leased' \subseteq Order /\ reported' = reported
    BY <1>4 DEF LeaseRunsOut, checkoutVars, checkoutOnly, ReconInv, ReconTypes
  <2>2. ReconInv'
    BY <2>1, ReconStays DEF ReconInv, ReconTypes
  <2> QED
    BY <2>1, <2>2, SaleRests, AskStays
<1>5. CASE UNCHANGED flowVars
  <2>1. /\ UNCHANGED checkoutVars /\ UNCHANGED <<intentVars, leaseVars, recon>>
        /\ reported' = reported
    BY <1>5 DEF flowVars, flowOnly, checkoutVars, checkoutOnly
  <2>2. ReconInv'
    BY <2>1, ReconStays DEF leaseVars, ReconInv, ReconTypes
  <2> QED
    BY <2>1, <2>2, SaleRests, AskStays
<1> QED
  BY <1>1, <1>2, <1>3, <1>4, <1>5 DEF FlowNext

LEMMA FlowInitInv == FlowInit => FlowInv
<1> SUFFICES ASSUME FlowInit PROVE FlowInv  OBVIOUS
<1>1. AskInv
  BY DEF FlowInit, AskInv, AskTypes, KeyFits, KeyTaken, PastClaim, NoAsk
<1>2. ReconInv
  BY DEF FlowInit, ReconInv, ReconTypes, AnswerFounded, NoBatch
<1> QED
  BY <1>1, <1>2, SaleInitInv DEF FlowInv

LEMMA FlowInvariance == OneKeyPerHold => (FlowSpec => []FlowInv)
<1> SUFFICES ASSUME OneKeyPerHold PROVE FlowSpec => []FlowInv
  OBVIOUS
<1>1. FlowInv /\ [FlowNext]_flowVars => FlowInv'
  BY FlowStep
<1> QED
  BY <1>1, FlowInitInv, PTL DEF FlowSpec

\* What the payment module adds to the checkout keeps its type.
THEOREM FlowTyped == OneKeyPerHold => (FlowSpec => []FlowTypeOK)
<1> SUFFICES ASSUME OneKeyPerHold PROVE FlowSpec => []FlowTypeOK
  OBVIOUS
<1>1. FlowInv => FlowTypeOK
  BY DEF FlowInv, FlowTypeOK, AskInv, AskTypes, SaleInv, SaleTypes, PaymentRow, ReconInv, ReconTypes
<1> QED
  BY <1>1, FlowInvariance, PTL

\* Whatever intent requests, batches and callbacks write over a payment's
\* status, and although a refund can be taken off the counters twice: tickets
\* exist only for captured money and a sold reservation, all of its tickets,
\* and of one order.
THEOREM TicketsStayPaidFor == OneKeyPerHold => (FlowSpec => []TicketsArePaidFor)
<1> SUFFICES ASSUME OneKeyPerHold PROVE FlowSpec => []TicketsArePaidFor
  OBVIOUS
<1>1. FlowInv => TicketsArePaidFor
  <2> SUFFICES ASSUME FlowInv, NEW o \in Order, tickets[o] > 0
               PROVE  /\ <<o, "succeeded">> \in reported
                      /\ Status(order[o].reservation) = "confirmed"
                      /\ tickets[o] = reservation[order[o].reservation].quantity
                      /\ \A p \in Order : p # o /\ tickets[p] > 0 =>
                           order[p].reservation # order[o].reservation
    BY DEF TicketsArePaidFor
  <2>1. \A p \in Order : TicketFits(p)
    BY DEF FlowInv, SaleInv
  <2> QED
    BY <2>1 DEF TicketFits
<1> QED
  BY <1>1, FlowInvariance, PTL

\* A reservation that was sold is never expired, released or sold again, by
\* whichever of the callbacks, batches and expiry runs comes last.
SalesAreFinal ==
  [][\A r \in Reservation : Status(r) = "confirmed" => reservation'[r] = reservation[r]]_flowVars

THEOREM SalesStayFinal == OneKeyPerHold => (FlowSpec => SalesAreFinal)
<1> SUFFICES ASSUME OneKeyPerHold PROVE FlowSpec => SalesAreFinal
  OBVIOUS
<1>1. FlowInv /\ [FlowNext]_flowVars =>
        [\A r \in Reservation : Status(r) = "confirmed" => reservation'[r] = reservation[r]]_flowVars
  <2> SUFFICES ASSUME FlowInv, [FlowNext]_flowVars, NEW r \in Reservation, Status(r) = "confirmed"
               PROVE  reservation'[r] = reservation[r]
    OBVIOUS
  <2>1. RowAdvances(r)
    BY FlowStep
  <2> QED
    BY <2>1 DEF RowAdvances, Exists
<1> QED
  BY <1>1, FlowInvariance, PTL DEF FlowSpec, SalesAreFinal
=============================================================================
