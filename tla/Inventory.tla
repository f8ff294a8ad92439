----------------------------- MODULE Inventory ------------------------------
(***************************************************************************)
(* The reservation ledger of the backend: InventoryService and             *)
(* InventoryRepository, the reservation-expiry worker, and the two writes  *)
(* the payment module makes to the ledger.                                 *)
(*                                                                         *)
(* PostgreSQL runs at READ COMMITTED.  A handler is split wherever it may  *)
(* be overtaken: the idempotency lookup before the reserve transaction,    *)
(* the lookup after a unique violation, and the SELECT ... FOR UPDATE SKIP *)
(* LOCKED of the worker before its writes.  What a transaction does under  *)
(* the row lock of the inventory counter is one step.                      *)
(***************************************************************************)
EXTENDS Integers, FiniteSets

CONSTANTS User, Key,        \* who reserves, and the idempotency keys in use
          TicketType, NoType,
          Capacity,         \* inventory_counters.total_capacity
          PerUserLimit,     \* ticket_types.per_user_limit
          MaxQuantity,      \* the largest quantity a request may carry
          Client,           \* requests in flight, at most one per client
          Worker,           \* runs of the expiry worker, which may overlap
          BatchSize         \* RESERVATION_EXPIRY_BATCH_SIZE

\* A reservation is known by its unique (userId, idempotencyKey).
Reservation == User \X Key
Owner(r) == r[1]

ASSUME IdentityAssumption ==
  /\ IsFiniteSet(User) /\ IsFiniteSet(Key)
  /\ NoType \notin TicketType
ASSUME LimitAssumption ==
  /\ Capacity \in [TicketType -> Nat]
  /\ PerUserLimit \in [TicketType -> Nat]
  /\ MaxQuantity \in Nat \ {0}
  /\ BatchSize \in Nat \ {0}

VARIABLES
  reservation,    \* the Reservation rows
  lapsed,         \* reservations whose expiresAt has passed
  saleOpen,       \* ticket types whose sale window is open
  reservedCount, soldCount,      \* inventory_counters
  quotaReserved, quotaPaid,      \* user_ticket_quotas
  pc, call,       \* POST /reservations in flight, and their payloads
  selected        \* rows an expiry transaction holds FOR UPDATE

ledgerVars == <<reservation, reservedCount, soldCount, quotaReserved, quotaPaid>>
requestVars == <<pc, call>>
inventoryVars == <<ledgerVars, lapsed, saleOpen, requestVars, selected>>

NoReservation == [status |-> "none", ticketType |-> NoType, quantity |-> 0]
Row == [status : {"active", "confirmed", "expired"},
        ticketType : TicketType, quantity : 1 .. MaxQuantity]

NoCall == [id |-> <<>>, ticketType |-> NoType, quantity |-> 0]
Call == [id : Reservation, ticketType : TicketType, quantity : 1 .. MaxQuantity]

Refusal == {"sale_window_inactive", "sold_out", "quota_exceeded",
            "duplicate_request_conflict"}
Reply == {"created", "replayed", "failed"} \cup Refusal
InProgress == {"begin", "reserve", "recover"}

Status(r) == reservation[r].status
Exists(r) == Status(r) # "none"
Active(r) == Status(r) = "active"
Locked(r) == \E w \in Worker : r \in selected[w]

Init ==
  /\ reservation = [r \in Reservation |-> NoReservation]
  /\ lapsed = {}
  /\ saleOpen = TicketType
  /\ reservedCount = [t \in TicketType |-> 0]
  /\ soldCount = [t \in TicketType |-> 0]
  /\ quotaReserved = [a \in User \X TicketType |-> 0]
  /\ quotaPaid = [a \in User \X TicketType |-> 0]
  /\ pc = [c \in Client |-> "idle"]
  /\ call = [c \in Client |-> NoCall]
  /\ selected = [w \in Worker |-> {}]

-----------------------------------------------------------------------------
(* POST /reservations                                                      *)

\* ensureDuplicatePayloadMatches
PayloadMatches(a) ==
  /\ reservation[a.id].ticketType = a.ticketType
  /\ reservation[a.id].quantity = a.quantity

LookupReply(a) ==
  IF PayloadMatches(a) THEN "replayed" ELSE "duplicate_request_conflict"

\* A request arrives and looks its idempotency key up.
Lookup(c) ==
  /\ pc[c] = "idle"
  /\ \E a \in Call :
       /\ call' = [call EXCEPT ![c] = a]
       /\ pc' = [pc EXCEPT ![c] = IF Exists(a.id) THEN LookupReply(a) ELSE "begin"]
  /\ UNCHANGED <<ledgerVars, lapsed, saleOpen, selected>>

\* Faulty variants: seats on hold are counted as free, for all and for one user.
FreeOrHeld(t) == Capacity[t] - soldCount[t]
QuotaUnpaid(u, t) == PerUserLimit[t] - quotaPaid[<<u, t>>]

Available(t) == Capacity[t] - reservedCount[t] - soldCount[t]
QuotaLeft(u, t) == PerUserLimit[t] - quotaPaid[<<u, t>>] - quotaReserved[<<u, t>>]

\* The reserve transaction compares the sale window with a time taken before it
\* waits for the inventory counter.
Begin(c) ==
  /\ pc[c] = "begin"
  /\ pc' = [pc EXCEPT ![c] =
       IF call[c].ticketType \in saleOpen THEN "reserve" ELSE "sale_window_inactive"]
  /\ UNCHANGED <<call, ledgerVars, lapsed, saleOpen, selected>>

\* Its checks under the lock on the counter, in the order the code makes them;
\* "recover" is the unique violation raised by the insert.
ReserveOutcome(a) ==
  IF Available(a.ticketType) < a.quantity THEN "sold_out"
  ELSE IF QuotaLeft(Owner(a.id), a.ticketType) < a.quantity THEN "quota_exceeded"
  ELSE IF Exists(a.id) THEN "recover"
  ELSE "created"

\* The ledger writes of an accepted reservation.
Hold(a) ==
  /\ reservation' = [reservation EXCEPT ![a.id] =
       [status |-> "active", ticketType |-> a.ticketType, quantity |-> a.quantity]]
  /\ reservedCount' = [reservedCount EXCEPT ![a.ticketType] = @ + a.quantity]
  /\ quotaReserved' =
       [quotaReserved EXCEPT ![<<Owner(a.id), a.ticketType>>] = @ + a.quantity]
  /\ UNCHANGED <<soldCount, quotaPaid>>

\* The rest of the transaction, serialized by the lock on the inventory counter.
Reserve(c) ==
  /\ pc[c] = "reserve"
  /\ pc' = [pc EXCEPT ![c] = ReserveOutcome(call[c])]
  /\ IF ReserveOutcome(call[c]) = "created" THEN Hold(call[c]) ELSE UNCHANGED ledgerVars
  /\ UNCHANGED <<call, lapsed, saleOpen, selected>>

\* After the unique violation the service reads the row that won.
Recover(c) ==
  /\ pc[c] = "recover"
  /\ pc' = [pc EXCEPT ![c] = LookupReply(call[c])]
  /\ UNCHANGED <<call, ledgerVars, lapsed, saleOpen, selected>>

\* The transaction is rolled back by a timeout or a crash, and the request ends
\* without its answer; the client may repeat it.
RequestFails(c) ==
  /\ pc[c] \in InProgress
  /\ pc' = [pc EXCEPT ![c] = "failed"]
  /\ UNCHANGED <<call, ledgerVars, lapsed, saleOpen, selected>>

\* The response has been sent; the client may send its next request.
Return(c) ==
  /\ pc[c] \in Reply
  /\ pc' = [pc EXCEPT ![c] = "idle"]
  /\ call' = [call EXCEPT ![c] = NoCall]
  /\ UNCHANGED <<ledgerVars, lapsed, saleOpen, selected>>

-----------------------------------------------------------------------------
(* Time                                                                    *)

\* The TTL of a reservation runs out.
Lapse(r) ==
  /\ Exists(r) /\ r \notin lapsed
  /\ lapsed' = lapsed \cup {r}
  /\ UNCHANGED <<ledgerVars, saleOpen, requestVars, selected>>

\* saleEndAt passes.
SaleEnds(t) ==
  /\ t \in saleOpen
  /\ saleOpen' = saleOpen \ {t}
  /\ UNCHANGED <<ledgerVars, lapsed, requestVars, selected>>

-----------------------------------------------------------------------------
(* The tickets the rows in S stand for: one element per ticket, so that a  *)
(* sum of quantities is the size of a set.                                 *)

Units(rows, S) == {x \in S \X (1 .. MaxQuantity) : x[2] <= rows[x[1]].quantity}
Quantity(rows, S) == Cardinality(Units(rows, S))

OfType(S, t) == {r \in S : reservation[r].ticketType = t}
OfOwner(S, u) == {r \in S : Owner(r) = u}

\* The writes that give the seats of the rows in S back: status expired, the
\* counters and the owners' quotas decremented.
ReleaseHolds(S) ==
  /\ reservation' = [r \in Reservation |->
       IF r \in S THEN [reservation[r] EXCEPT !.status = "expired"] ELSE reservation[r]]
  /\ reservedCount' = [t \in TicketType |-> reservedCount[t] - Quantity(reservation, OfType(S, t))]
  /\ quotaReserved' = [a \in User \X TicketType |->
       quotaReserved[a] - Quantity(reservation, OfOwner(OfType(S, a[2]), a[1]))]
  /\ UNCHANGED <<soldCount, quotaPaid>>

\* Faulty variant: the sold seats stay on hold.
SellAndKeepHold(r) ==
  LET t == reservation[r].ticketType
      q == reservation[r].quantity
      a == <<Owner(r), t>>
  IN /\ reservation' = [reservation EXCEPT ![r].status = "confirmed"]
     /\ soldCount' = [soldCount EXCEPT ![t] = @ + q]
     /\ quotaPaid' = [quotaPaid EXCEPT ![a] = @ + q]
     /\ UNCHANGED <<reservedCount, quotaReserved>>

\* The writes that sell the seats of one reservation.
SellHold(r) ==
  LET t == reservation[r].ticketType
      q == reservation[r].quantity
      a == <<Owner(r), t>>
  IN /\ reservation' = [reservation EXCEPT ![r].status = "confirmed"]
     /\ reservedCount' = [reservedCount EXCEPT ![t] = @ - q]
     /\ soldCount' = [soldCount EXCEPT ![t] = @ + q]
     /\ quotaReserved' = [quotaReserved EXCEPT ![a] = @ - q]
     /\ quotaPaid' = [quotaPaid EXCEPT ![a] = @ + q]

-----------------------------------------------------------------------------
(* The expiry worker                                                       *)

Expirable == {r \in Reservation : Active(r) /\ r \in lapsed /\ ~Locked(r)}

\* SELECT ... LIMIT batch FOR UPDATE SKIP LOCKED.  The ORDER BY is left open:
\* any full batch may be the oldest one.
ExpireSelect(w) ==
  /\ selected[w] = {}
  /\ \E S \in SUBSET Expirable :
       /\ S # {}
       /\ Cardinality(S) <= BatchSize
       /\ S = Expirable \/ Cardinality(S) = BatchSize
       /\ selected' = [selected EXCEPT ![w] = S]
  /\ UNCHANGED <<ledgerVars, lapsed, saleOpen, requestVars>>

\* The loop over the selected rows, each update conditional on status active.
ExpireCommit(w) ==
  /\ selected[w] # {}
  /\ ReleaseHolds({r \in selected[w] : Active(r)})
  /\ selected' = [selected EXCEPT ![w] = {}]
  /\ UNCHANGED <<lapsed, saleOpen, requestVars>>

\* The transaction is rolled back: a deadlock, a timeout, a crash.
ExpireAbort(w) ==
  /\ selected[w] # {}
  /\ selected' = [selected EXCEPT ![w] = {}]
  /\ UNCHANGED <<ledgerVars, lapsed, saleOpen, requestVars>>

-----------------------------------------------------------------------------
(* What the payment module does to the ledger; Checkout.tla has the whole  *)
(* handlers and shows that with a provider webhook they do no more.        *)

\* Faulty variant: a second success sells the reservation again.
ConfirmAgain(r) ==
  /\ Exists(r) /\ ~Locked(r)
  /\ SellHold(r)
  /\ UNCHANGED <<lapsed, saleOpen, requestVars, selected>>

\* A payment succeeded while the reservation was held.
ConfirmSale(r) ==
  /\ Active(r) /\ ~Locked(r)
  /\ SellHold(r)
  /\ UNCHANGED <<lapsed, saleOpen, requestVars, selected>>

\* A payment succeeded after the TTL and before the worker came by.
ReleaseLate(r) ==
  /\ Active(r) /\ ~Locked(r) /\ r \in lapsed
  /\ ReleaseHolds({r})
  /\ UNCHANGED <<lapsed, saleOpen, requestVars, selected>>

-----------------------------------------------------------------------------
Next ==
  \/ \E c \in Client :
       Lookup(c) \/ Begin(c) \/ Reserve(c) \/ Recover(c) \/ RequestFails(c) \/ Return(c)
  \/ \E r \in Reservation : Lapse(r) \/ ConfirmSale(r) \/ ReleaseLate(r)
  \/ \E t \in TicketType : SaleEnds(t)
  \/ \E w \in Worker : ExpireSelect(w) \/ ExpireCommit(w) \/ ExpireAbort(w)

Spec == Init /\ [][Next]_inventoryVars

-----------------------------------------------------------------------------
(* Properties                                                              *)

TypeOK ==
  /\ reservation \in [Reservation -> Row \cup {NoReservation}]
  /\ lapsed \subseteq Reservation
  /\ saleOpen \subseteq TicketType
  /\ reservedCount \in [TicketType -> Int]
  /\ soldCount \in [TicketType -> Int]
  /\ quotaReserved \in [User \X TicketType -> Int]
  /\ quotaPaid \in [User \X TicketType -> Int]
  /\ pc \in [Client -> {"idle"} \cup InProgress \cup Reply]
  /\ call \in [Client -> Call \cup {NoCall}]
  /\ \A c \in Client : pc[c] # "idle" => call[c] \in Call
  /\ selected \in [Worker -> SUBSET Reservation]

WithStatus(st) == {r \in Reservation : Status(r) = st}
Seats(st, t) == Quantity(reservation, OfType(WithStatus(st), t))
SeatsOf(u, st, t) == Quantity(reservation, OfOwner(OfType(WithStatus(st), t), u))

\* The four counters are never out of step with the Reservation rows: each
\* equals the tickets of the active (reserved) or confirmed (sold, paid) rows.
\* Every handler updates rows and counters by separate relative updates, so a
\* handler that acts twice on a row, or on a row another one has settled,
\* breaks this for good.
LedgerConsistent ==
  /\ \A t \in TicketType :
       /\ reservedCount[t] = Seats("active", t)
       /\ soldCount[t] = Seats("confirmed", t)
  /\ \A u \in User, t \in TicketType :
       /\ quotaReserved[<<u, t>>] = SeatsOf(u, "active", t)
       /\ quotaPaid[<<u, t>>] = SeatsOf(u, "confirmed", t)

\* blueprint/04-database-design.md:128, sold_count + reserved_count <=
\* total_capacity: concurrent reservations, sales and expiries never promise
\* more seats than there are.
NoOversell ==
  \A t \in TicketType : reservedCount[t] + soldCount[t] <= Capacity[t]

\* blueprint/04-database-design.md:130: parallel requests of one user, under
\* different keys, never get past the per-user limit.
QuotaRespected ==
  \A u \in User, t \in TicketType :
    quotaReserved[<<u, t>>] + quotaPaid[<<u, t>>] <= PerUserLimit[t]

\* A row a running expiry transaction holds is lapsed and still active, and
\* no other run holds it: the worker never expires a sold reservation, nor
\* one reservation twice, whatever happens between its SELECT and its UPDATE.
SelectionIsExclusive ==
  /\ \A w \in Worker : \A r \in selected[w] : Active(r) /\ r \in lapsed
  /\ \A v, w \in Worker : v # w => selected[v] \cap selected[w] = {}

\* A buyer told "created" or "replayed" has a reservation with exactly the
\* payload of that request, whoever else used the same key at the same time;
\* and the service that lost the race for the key finds the winner's row.
TrueTo(c) ==
  /\ pc[c] = "recover" => Exists(call[c].id)
  /\ pc[c] \in {"created", "replayed"} => Exists(call[c].id) /\ PayloadMatches(call[c])

ReplyIsTrue == \A c \in Client : TrueTo(c)

\* A settled reservation is never touched again, no row changes its ticket
\* type or quantity, and a hold is not taken away before its TTL.
RowLifecycle(r) ==
  LET old == reservation[r]
      new == reservation'[r]
  IN (Exists(r) /\ new # old) =>
       /\ old.status = "active"
       /\ new \in {[old EXCEPT !.status = "confirmed"], [old EXCEPT !.status = "expired"]}
       /\ new.status = "expired" => r \in lapsed

ReservationLifecycle == [][\A r \in Reservation : RowLifecycle(r)]_inventoryVars

\* The counters as a pool of held and sold seats: see SeatPool.tla.
Pool == INSTANCE SeatPool WITH held <- reservedCount, sold <- soldCount
ImplementsSeatPool == Pool!PoolSpec
=============================================================================
