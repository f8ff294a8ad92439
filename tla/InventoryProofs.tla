-------------------------- MODULE InventoryProofs --------------------------
(***************************************************************************)
(* The safety of Inventory for every set of users, keys, ticket types,     *)
(* clients and workers, and for every capacity, limit and batch size.      *)
(***************************************************************************)
EXTENDS Inventory, FiniteSetTheorems, TLAPS

-----------------------------------------------------------------------------
(* Quantity(rows, S) behaves like a sum over S.                            *)

\* There are finitely many reservations, because there are finitely many users
\* and keys (Reservation's unique constraint on userId, idempotencyKey).
LEMMA ReservationFinite == IsFiniteSet(Reservation)
  BY IdentityAssumption, FS_Product DEF Reservation

\* A finite set of rows stands for a natural number of tickets.
LEMMA QuantityNat ==
  ASSUME NEW rows, NEW S, IsFiniteSet(S)
  PROVE  IsFiniteSet(Units(rows, S)) /\ Quantity(rows, S) \in Nat
<1>1. IsFiniteSet(1 .. MaxQuantity)
  BY LimitAssumption, FS_Interval
<1>2. IsFiniteSet(S \X (1 .. MaxQuantity))
  BY <1>1, FS_Product
<1>3. Units(rows, S) \in SUBSET (S \X (1 .. MaxQuantity))
  BY DEF Units
<1>4. IsFiniteSet(Units(rows, S))
  BY <1>2, <1>3, FS_Subset
<1> QED
  BY <1>4, FS_CardinalityType DEF Quantity

\* A single row stands for as many tickets as its quantity says.
LEMMA QuantitySingle ==
  ASSUME NEW rows, NEW r, rows[r].quantity \in 0 .. MaxQuantity
  PROVE  Quantity(rows, {r}) = rows[r].quantity
<1>1. PICK q \in Nat : q = rows[r].quantity /\ q <= MaxQuantity
  BY LimitAssumption
<1>2. Units(rows, {r}) = {r} \X (1 .. q)
  BY <1>1, LimitAssumption DEF Units
<1>3. IsFiniteSet({r}) /\ Cardinality({r}) = 1
  BY FS_Singleton
<1>4. IsFiniteSet(1 .. q) /\ Cardinality(1 .. q) = q
  BY FS_Interval
<1>5. Cardinality({r} \X (1 .. q)) = 1 * q
  BY <1>3, <1>4, FS_Product
<1>6. Cardinality({r} \X (1 .. q)) = q
  BY <1>5
<1> QED
  BY <1>1, <1>2, <1>6 DEF Quantity

\* Only the quantities of the rows in S matter.
LEMMA QuantitySame ==
  ASSUME NEW f, NEW g, NEW S, \A r \in S : f[r].quantity = g[r].quantity
  PROVE  Quantity(f, S) = Quantity(g, S)
<1>1. Units(f, S) = Units(g, S)
  BY DEF Units
<1> QED
  BY <1>1 DEF Quantity

\* The tickets of disjoint sets of rows add up.
LEMMA QuantityUnion ==
  ASSUME NEW rows, NEW S, NEW T, IsFiniteSet(S), IsFiniteSet(T), S \cap T = {}
  PROVE  Quantity(rows, S \cup T) = Quantity(rows, S) + Quantity(rows, T)
<1>1. Units(rows, S \cup T) = Units(rows, S) \cup Units(rows, T)
  BY DEF Units
<1>2. Units(rows, S) \cap Units(rows, T) = {}
  BY DEF Units
<1>3. IsFiniteSet(Units(rows, S)) /\ IsFiniteSet(Units(rows, T))
  BY QuantityNat
<1>4. Cardinality(Units(rows, S) \cup Units(rows, T))
        = Cardinality(Units(rows, S)) + Cardinality(Units(rows, T)) - Cardinality({})
  BY <1>2, <1>3, FS_Union
<1>5. Cardinality({}) = 0
  BY FS_EmptySet
<1>6. Cardinality(Units(rows, S)) \in Nat /\ Cardinality(Units(rows, T)) \in Nat
  BY QuantityNat DEF Quantity
<1>7. Cardinality(Units(rows, S)) + Cardinality(Units(rows, T)) - 0
        = Cardinality(Units(rows, S)) + Cardinality(Units(rows, T))
  BY <1>6
<1> QED
  BY <1>1, <1>4, <1>5, <1>7 DEF Quantity

\* Rows join a set: its tickets grow by theirs.
LEMMA QuantityJoins ==
  ASSUME NEW f, NEW g, NEW A, NEW X, IsFiniteSet(A), IsFiniteSet(X), A \cap X = {},
         \A r \in A : f[r].quantity = g[r].quantity
  PROVE  Quantity(g, A \cup X) = Quantity(f, A) + Quantity(g, X)
  BY QuantitySame, QuantityUnion

\* Rows leave a set: its tickets shrink by theirs.
LEMMA QuantityLeaves ==
  ASSUME NEW f, NEW g, NEW A, NEW X, IsFiniteSet(A), X \subseteq A,
         \A r \in A : f[r].quantity = g[r].quantity
  PROVE  Quantity(g, A \ X) = Quantity(f, A) - Quantity(f, X)
<1>1. IsFiniteSet(X) /\ IsFiniteSet(A \ X)
  BY FS_Subset, FS_Difference
<1>2. A = (A \ X) \cup X /\ (A \ X) \cap X = {}
  OBVIOUS
<1>3. Quantity(f, A) = Quantity(f, A \ X) + Quantity(f, X)
  BY <1>1, <1>2, QuantityUnion
<1>4. Quantity(g, A \ X) = Quantity(f, A \ X)
  BY QuantitySame
<1>5. Quantity(f, A \ X) \in Nat /\ Quantity(f, X) \in Nat
  BY <1>1, QuantityNat
<1> QED
  BY <1>3, <1>4, <1>5

-----------------------------------------------------------------------------
(* The ledger: rows and counters move together.                            *)

LedgerTypes ==
  /\ reservation \in [Reservation -> Row \cup {NoReservation}]
  /\ reservedCount \in [TicketType -> Int]
  /\ soldCount \in [TicketType -> Int]
  /\ quotaReserved \in [User \X TicketType -> Int]
  /\ quotaPaid \in [User \X TicketType -> Int]

RowsWith(rows, st, t) == {r \in Reservation : rows[r].status = st /\ rows[r].ticketType = t}
RowsOf(rows, u, st, t) == {r \in RowsWith(rows, st, t) : Owner(r) = u}

\* The sums in LedgerConsistent, before and after a step, as sums over a table.
LEMMA SeatsAreRows ==
  ASSUME NEW st, NEW t, NEW u
  PROVE  /\ Seats(st, t) = Quantity(reservation, RowsWith(reservation, st, t))
         /\ SeatsOf(u, st, t) = Quantity(reservation, RowsOf(reservation, u, st, t))
         /\ Seats(st, t)' = Quantity(reservation', RowsWith(reservation', st, t))
         /\ SeatsOf(u, st, t)' = Quantity(reservation', RowsOf(reservation', u, st, t))
<1>1. OfType(WithStatus(st), t) = RowsWith(reservation, st, t)
  BY DEF OfType, WithStatus, Status, RowsWith
<1>2. OfType(WithStatus(st), t)' = RowsWith(reservation', st, t)
  BY DEF OfType, WithStatus, Status, RowsWith
<1> QED
  BY <1>1, <1>2 DEF Seats, SeatsOf, OfOwner, RowsOf

\* LedgerConsistent after a step, stated over the next table.
LEMMA LedgerNext ==
  ASSUME \A t \in TicketType :
           /\ reservedCount'[t] = Quantity(reservation', RowsWith(reservation', "active", t))
           /\ soldCount'[t] = Quantity(reservation', RowsWith(reservation', "confirmed", t)),
         \A u \in User, t \in TicketType :
           /\ quotaReserved'[<<u, t>>] = Quantity(reservation', RowsOf(reservation', u, "active", t))
           /\ quotaPaid'[<<u, t>>] = Quantity(reservation', RowsOf(reservation', u, "confirmed", t))
  PROVE  LedgerConsistent'
<1>1. ASSUME NEW t \in TicketType
      PROVE  (reservedCount[t] = Seats("active", t) /\ soldCount[t] = Seats("confirmed", t))'
  BY SeatsAreRows
<1>2. ASSUME NEW u \in User, NEW t \in TicketType
      PROVE  (/\ quotaReserved[<<u, t>>] = SeatsOf(u, "active", t)
              /\ quotaPaid[<<u, t>>] = SeatsOf(u, "confirmed", t))'
  BY SeatsAreRows
<1> QED
  BY <1>1, <1>2 DEF LedgerConsistent

\* Sets of rows are finite.
LEMMA RowsFinite ==
  ASSUME NEW S, S \subseteq Reservation
  PROVE  IsFiniteSet(S)
  BY ReservationFinite, FS_Subset

\* The writes of an accepted reservation (reserve, inventory.repository.ts)
\* keep rows and counters together.
LEMMA HoldKeepsLedger ==
  ASSUME LedgerTypes, LedgerConsistent, NEW a \in Call, ~Exists(a.id), Hold(a)
  PROVE  LedgerTypes' /\ LedgerConsistent'
<1> DEFINE o == a.id
           T == a.ticketType
           q == a.quantity
<1>1. o \in Reservation /\ T \in TicketType /\ q \in 1 .. MaxQuantity /\ q \in Int
  BY LimitAssumption DEF Call
<1>2. Owner(o) \in User
  BY <1>1 DEF Reservation, Owner
<1>3. reservation[o].status = "none"
  BY DEF Exists, Status
<1>4. /\ reservation' \in [Reservation -> Row \cup {NoReservation}]
      /\ \A r \in Reservation \ {o} : reservation'[r] = reservation[r]
      /\ reservation'[o] = [status |-> "active", ticketType |-> T, quantity |-> q]
  BY <1>1 DEF LedgerTypes, Hold, Row
<1>5. LedgerTypes'
  BY <1>1, <1>2, <1>4 DEF LedgerTypes, Hold
<1>6. Quantity(reservation', {o}) = q
  BY <1>1, <1>4, QuantitySingle
<1>7. ASSUME NEW t \in TicketType
      PROVE  /\ reservedCount'[t] = Quantity(reservation', RowsWith(reservation', "active", t))
             /\ soldCount'[t] = Quantity(reservation', RowsWith(reservation', "confirmed", t))
  <2> DEFINE A == RowsWith(reservation, "active", t)
             C == RowsWith(reservation, "confirmed", t)
  <2>1. IsFiniteSet(A) /\ IsFiniteSet({o}) /\ A \cap {o} = {}
    BY <1>1, <1>3, RowsFinite DEF RowsWith
  <2>2. reservedCount[t] = Quantity(reservation, A) /\ soldCount[t] = Quantity(reservation, C)
    BY SeatsAreRows DEF LedgerConsistent
  <2>3. RowsWith(reservation', "confirmed", t) = C
    BY <1>1, <1>3, <1>4 DEF RowsWith
  <2>4. \A r \in A \cup C : reservation'[r] = reservation[r]
    BY <1>3, <1>4 DEF RowsWith
  <2>5. Quantity(reservation', C) = Quantity(reservation, C)
    BY <2>4, QuantitySame
  <2>6. CASE t = T
    <3>1. RowsWith(reservation', "active", t) = A \cup {o}
      BY <1>1, <1>3, <1>4, <2>6 DEF RowsWith
    <3>2. Quantity(reservation', A \cup {o}) = Quantity(reservation, A) + Quantity(reservation', {o})
      BY <2>1, <2>4, QuantityJoins
    <3>3. reservedCount'[t] = reservedCount[t] + q
      BY <1>1, <2>6 DEF Hold, LedgerTypes
    <3> QED
      BY <1>6, <2>2, <2>3, <2>5, <3>1, <3>2, <3>3 DEF Hold
  <2>7. CASE t # T
    <3>1. RowsWith(reservation', "active", t) = A
      BY <1>1, <1>3, <1>4, <2>7 DEF RowsWith
    <3>2. reservedCount'[t] = reservedCount[t]
      BY <2>7 DEF Hold, LedgerTypes
    <3>3. Quantity(reservation', A) = Quantity(reservation, A)
      BY <2>4, QuantitySame
    <3> QED
      BY <2>2, <2>3, <2>5, <3>1, <3>2, <3>3 DEF Hold
  <2> QED
    BY <2>6, <2>7
<1>8. ASSUME NEW u \in User, NEW t \in TicketType
      PROVE  /\ quotaReserved'[<<u, t>>] = Quantity(reservation', RowsOf(reservation', u, "active", t))
             /\ quotaPaid'[<<u, t>>] = Quantity(reservation', RowsOf(reservation', u, "confirmed", t))
  <2> DEFINE A == RowsOf(reservation, u, "active", t)
             C == RowsOf(reservation, u, "confirmed", t)
  <2>1. IsFiniteSet(A) /\ IsFiniteSet({o}) /\ A \cap {o} = {}
    BY <1>1, <1>3, RowsFinite DEF RowsOf, RowsWith
  <2>2. /\ quotaReserved[<<u, t>>] = Quantity(reservation, A)
        /\ quotaPaid[<<u, t>>] = Quantity(reservation, C)
    BY SeatsAreRows DEF LedgerConsistent
  <2>3. RowsOf(reservation', u, "confirmed", t) = C
    BY <1>1, <1>3, <1>4 DEF RowsOf, RowsWith
  <2>4. \A r \in A \cup C : reservation'[r] = reservation[r]
    BY <1>3, <1>4 DEF RowsOf, RowsWith
  <2>5. Quantity(reservation', C) = Quantity(reservation, C)
    BY <2>4, QuantitySame
  <2>6. CASE u = Owner(o) /\ t = T
    <3>1. RowsOf(reservation', u, "active", t) = A \cup {o}
      BY <1>1, <1>3, <1>4, <2>6 DEF RowsOf, RowsWith
    <3>2. Quantity(reservation', A \cup {o}) = Quantity(reservation, A) + Quantity(reservation', {o})
      BY <2>1, <2>4, QuantityJoins
    <3>3. quotaReserved'[<<u, t>>] = quotaReserved[<<u, t>>] + q
      BY <1>1, <2>6 DEF Hold, LedgerTypes
    <3> QED
      BY <1>6, <2>2, <2>3, <2>5, <3>1, <3>2, <3>3 DEF Hold
  <2>7. CASE ~(u = Owner(o) /\ t = T)
    <3>1. RowsOf(reservation', u, "active", t) = A
      BY <1>1, <1>3, <1>4, <2>7 DEF RowsOf, RowsWith
    <3>2. quotaReserved'[<<u, t>>] = quotaReserved[<<u, t>>]
      BY <2>7 DEF Hold, LedgerTypes
    <3>3. Quantity(reservation', A) = Quantity(reservation, A)
      BY <2>4, QuantitySame
    <3> QED
      BY <2>2, <2>3, <2>5, <3>1, <3>2, <3>3 DEF Hold
  <2> QED
    BY <2>6, <2>7
<1> QED
  BY <1>5, <1>7, <1>8, LedgerNext

\* The writes that sell a held reservation (confirmPaymentSuccess,
\* payment.repository.ts) keep rows and counters together.
LEMMA SellKeepsLedger ==
  ASSUME LedgerTypes, LedgerConsistent, NEW o \in Reservation, Active(o), SellHold(o)
  PROVE  LedgerTypes' /\ LedgerConsistent'
<1> DEFINE T == reservation[o].ticketType
           q == reservation[o].quantity
<1>1. reservation[o] \in Row /\ reservation[o].status = "active"
  BY DEF LedgerTypes, Active, Status, NoReservation, Row
<1>2. T \in TicketType /\ q \in 1 .. MaxQuantity /\ q \in Int /\ Owner(o) \in User
  BY <1>1, LimitAssumption DEF Row, Reservation, Owner
<1>3. /\ reservation' \in [Reservation -> Row \cup {NoReservation}]
      /\ \A r \in Reservation \ {o} : reservation'[r] = reservation[r]
      /\ reservation'[o] = [status |-> "confirmed", ticketType |-> T, quantity |-> q]
  BY <1>1 DEF LedgerTypes, SellHold, Row
<1>4. LedgerTypes'
  BY <1>2, <1>3 DEF LedgerTypes, SellHold
<1>5. Quantity(reservation', {o}) = q /\ Quantity(reservation, {o}) = q
  BY <1>2, <1>3, QuantitySingle
<1>6. \A r \in Reservation : reservation'[r].quantity = reservation[r].quantity
  BY <1>3
<1>7. ASSUME NEW t \in TicketType
      PROVE  /\ reservedCount'[t] = Quantity(reservation', RowsWith(reservation', "active", t))
             /\ soldCount'[t] = Quantity(reservation', RowsWith(reservation', "confirmed", t))
  <2> DEFINE A == RowsWith(reservation, "active", t)
             C == RowsWith(reservation, "confirmed", t)
  <2>1. /\ A \subseteq Reservation /\ C \subseteq Reservation /\ C \cap {o} = {}
        /\ IsFiniteSet(A) /\ IsFiniteSet(C) /\ IsFiniteSet({o})
    BY <1>1, RowsFinite DEF RowsWith
  <2>2. reservedCount[t] = Quantity(reservation, A) /\ soldCount[t] = Quantity(reservation, C)
    BY SeatsAreRows DEF LedgerConsistent
  <2>3. CASE t = T
    <3>1. RowsWith(reservation', "active", t) = A \ {o} /\ {o} \subseteq A
      BY <1>1, <1>3, <2>3 DEF RowsWith
    <3>2. RowsWith(reservation', "confirmed", t) = C \cup {o}
      BY <1>1, <1>3, <2>3 DEF RowsWith
    <3>3. Quantity(reservation', A \ {o}) = Quantity(reservation, A) - Quantity(reservation, {o})
      BY <1>6, <2>1, <3>1, QuantityLeaves
    <3>4. Quantity(reservation', C \cup {o}) = Quantity(reservation, C) + Quantity(reservation', {o})
      BY <1>6, <2>1, QuantityJoins
    <3>5. reservedCount'[t] = reservedCount[t] - q /\ soldCount'[t] = soldCount[t] + q
      BY <1>2, <2>3 DEF SellHold, LedgerTypes
    <3> QED
      BY <1>5, <2>2, <3>1, <3>2, <3>3, <3>4, <3>5
  <2>4. CASE t # T
    <3>1. /\ RowsWith(reservation', "active", t) = A
          /\ RowsWith(reservation', "confirmed", t) = C
      BY <1>1, <1>3, <2>4 DEF RowsWith
    <3>2. /\ Quantity(reservation', A) = Quantity(reservation, A)
          /\ Quantity(reservation', C) = Quantity(reservation, C)
      BY <1>6, <2>1, QuantitySame
    <3>3. reservedCount'[t] = reservedCount[t] /\ soldCount'[t] = soldCount[t]
      BY <2>4 DEF SellHold, LedgerTypes
    <3> QED
      BY <2>2, <3>1, <3>2, <3>3
  <2> QED
    BY <2>3, <2>4
<1>8. ASSUME NEW u \in User, NEW t \in TicketType
      PROVE  /\ quotaReserved'[<<u, t>>] = Quantity(reservation', RowsOf(reservation', u, "active", t))
             /\ quotaPaid'[<<u, t>>] = Quantity(reservation', RowsOf(reservation', u, "confirmed", t))
  <2> DEFINE A == RowsOf(reservation, u, "active", t)
             C == RowsOf(reservation, u, "confirmed", t)
  <2>1. /\ A \subseteq Reservation /\ C \subseteq Reservation /\ C \cap {o} = {}
        /\ IsFiniteSet(A) /\ IsFiniteSet(C) /\ IsFiniteSet({o})
    BY <1>1, RowsFinite DEF RowsOf, RowsWith
  <2>2. /\ quotaReserved[<<u, t>>] = Quantity(reservation, A)
        /\ quotaPaid[<<u, t>>] = Quantity(reservation, C)
    BY SeatsAreRows DEF LedgerConsistent
  <2>3. CASE u = Owner(o) /\ t = T
    <3>1. RowsOf(reservation', u, "active", t) = A \ {o} /\ {o} \subseteq A
      BY <1>1, <1>3, <2>3 DEF RowsOf, RowsWith
    <3>2. RowsOf(reservation', u, "confirmed", t) = C \cup {o}
      BY <1>1, <1>3, <2>3 DEF RowsOf, RowsWith
    <3>3. Quantity(reservation', A \ {o}) = Quantity(reservation, A) - Quantity(reservation, {o})
      BY <1>6, <2>1, <3>1, QuantityLeaves
    <3>4. Quantity(reservation', C \cup {o}) = Quantity(reservation, C) + Quantity(reservation', {o})
      BY <1>6, <2>1, QuantityJoins
    <3>5. /\ quotaReserved'[<<u, t>>] = quotaReserved[<<u, t>>] - q
          /\ quotaPaid'[<<u, t>>] = quotaPaid[<<u, t>>] + q
      BY <1>2, <2>3 DEF SellHold, LedgerTypes
    <3> QED
      BY <1>5, <2>2, <3>1, <3>2, <3>3, <3>4, <3>5
  <2>4. CASE ~(u = Owner(o) /\ t = T)
    <3>1. /\ RowsOf(reservation', u, "active", t) = A
          /\ RowsOf(reservation', u, "confirmed", t) = C
      BY <1>1, <1>3, <2>4 DEF RowsOf, RowsWith
    <3>2. /\ Quantity(reservation', A) = Quantity(reservation, A)
          /\ Quantity(reservation', C) = Quantity(reservation, C)
      BY <1>6, <2>1, QuantitySame
    <3>3. /\ quotaReserved'[<<u, t>>] = quotaReserved[<<u, t>>]
          /\ quotaPaid'[<<u, t>>] = quotaPaid[<<u, t>>]
      BY <2>4 DEF SellHold, LedgerTypes
    <3> QED
      BY <2>2, <3>1, <3>2, <3>3
  <2> QED
    BY <2>3, <2>4
<1> QED
  BY <1>4, <1>7, <1>8, LedgerNext

\* The writes that give the seats of active rows back (expireReservations,
\* inventory.repository.ts) keep rows and counters together, however many rows,
\* users and ticket types the batch spans.
LEMMA ReleaseKeepsLedger ==
  ASSUME LedgerTypes, LedgerConsistent, NEW S, S \subseteq Reservation,
         \A r \in S : Active(r), ReleaseHolds(S)
  PROVE  LedgerTypes' /\ LedgerConsistent'
<1>1. \A r \in S : reservation[r] \in Row /\ reservation[r].status = "active"
  BY DEF LedgerTypes, Active, Status, NoReservation, Row
<1>2. /\ reservation' \in [Reservation -> Row \cup {NoReservation}]
      /\ \A r \in Reservation \ S : reservation'[r] = reservation[r]
      /\ \A r \in S : /\ reservation'[r].status = "expired"
                      /\ reservation'[r].quantity = reservation[r].quantity
                      /\ reservation'[r].ticketType = reservation[r].ticketType
  BY <1>1 DEF LedgerTypes, ReleaseHolds, Row
<1>3. \A r \in Reservation : /\ reservation'[r].quantity = reservation[r].quantity
                             /\ reservation'[r].ticketType = reservation[r].ticketType
  BY <1>2
<1>4. ASSUME NEW X, X \subseteq S PROVE Quantity(reservation, X) \in Int
  BY <1>4, RowsFinite, QuantityNat
<1>5. LedgerTypes'
  <2>1. reservedCount' \in [TicketType -> Int]
    BY <1>4 DEF LedgerTypes, ReleaseHolds, OfType
  <2>2. quotaReserved' \in [User \X TicketType -> Int]
    BY <1>4 DEF LedgerTypes, ReleaseHolds, OfType, OfOwner
  <2> QED
    BY <1>2, <2>1, <2>2 DEF LedgerTypes, ReleaseHolds
<1>6. ASSUME NEW t \in TicketType
      PROVE  /\ reservedCount'[t] = Quantity(reservation', RowsWith(reservation', "active", t))
             /\ soldCount'[t] = Quantity(reservation', RowsWith(reservation', "confirmed", t))
  <2> DEFINE A == RowsWith(reservation, "active", t)
             C == RowsWith(reservation, "confirmed", t)
             X == OfType(S, t)
  <2>1. /\ A \subseteq Reservation /\ C \subseteq Reservation /\ X \subseteq A
        /\ IsFiniteSet(A)
    BY <1>1, RowsFinite DEF RowsWith, OfType
  <2>2. reservedCount[t] = Quantity(reservation, A) /\ soldCount[t] = Quantity(reservation, C)
    BY SeatsAreRows DEF LedgerConsistent
  <2>3. RowsWith(reservation', "active", t) = A \ X
    BY <1>1, <1>2, <1>3 DEF RowsWith, OfType
  <2>4. RowsWith(reservation', "confirmed", t) = C
    BY <1>1, <1>2, <1>3 DEF RowsWith
  <2>5. Quantity(reservation', A \ X) = Quantity(reservation, A) - Quantity(reservation, X)
    BY <1>3, <2>1, QuantityLeaves
  <2>6. Quantity(reservation', C) = Quantity(reservation, C)
    BY <1>3, <2>1, QuantitySame
  <2>7. reservedCount'[t] = reservedCount[t] - Quantity(reservation, X) /\ soldCount' = soldCount
    BY DEF ReleaseHolds
  <2> QED
    BY <2>2, <2>3, <2>4, <2>5, <2>6, <2>7
<1>7. ASSUME NEW u \in User, NEW t \in TicketType
      PROVE  /\ quotaReserved'[<<u, t>>] = Quantity(reservation', RowsOf(reservation', u, "active", t))
             /\ quotaPaid'[<<u, t>>] = Quantity(reservation', RowsOf(reservation', u, "confirmed", t))
  <2> DEFINE A == RowsOf(reservation, u, "active", t)
             C == RowsOf(reservation, u, "confirmed", t)
             X == OfOwner(OfType(S, t), u)
  <2>1. /\ A \subseteq Reservation /\ C \subseteq Reservation /\ X \subseteq A
        /\ IsFiniteSet(A)
    BY <1>1, RowsFinite DEF RowsOf, RowsWith, OfType, OfOwner
  <2>2. /\ quotaReserved[<<u, t>>] = Quantity(reservation, A)
        /\ quotaPaid[<<u, t>>] = Quantity(reservation, C)
    BY SeatsAreRows DEF LedgerConsistent
  <2>3. RowsOf(reservation', u, "active", t) = A \ X
    BY <1>1, <1>2, <1>3 DEF RowsOf, RowsWith, OfType, OfOwner
  <2>4. RowsOf(reservation', u, "confirmed", t) = C
    BY <1>1, <1>2, <1>3 DEF RowsOf, RowsWith
  <2>5. Quantity(reservation', A \ X) = Quantity(reservation, A) - Quantity(reservation, X)
    BY <1>3, <2>1, QuantityLeaves
  <2>6. Quantity(reservation', C) = Quantity(reservation, C)
    BY <1>3, <2>1, QuantitySame
  <2>7. quotaReserved'[<<u, t>>] = quotaReserved[<<u, t>>] - Quantity(reservation, X)
    BY DEF ReleaseHolds
  <2>8. quotaPaid' = quotaPaid
    BY DEF ReleaseHolds
  <2> QED
    BY <2>2, <2>3, <2>4, <2>5, <2>6, <2>7, <2>8
<1> QED
  BY <1>5, <1>6, <1>7, LedgerNext

\* A step that leaves the ledger alone keeps rows and counters together.
LEMMA NothingKeepsLedger ==
  ASSUME LedgerTypes, LedgerConsistent, UNCHANGED ledgerVars
  PROVE  LedgerTypes' /\ LedgerConsistent'
<1>1. /\ reservation' = reservation
      /\ reservedCount' = reservedCount /\ soldCount' = soldCount
      /\ quotaReserved' = quotaReserved /\ quotaPaid' = quotaPaid
  BY DEF ledgerVars
<1>2. LedgerTypes'
  BY <1>1 DEF LedgerTypes
<1>3. ASSUME NEW t \in TicketType
      PROVE  /\ reservedCount'[t] = Quantity(reservation', RowsWith(reservation', "active", t))
             /\ soldCount'[t] = Quantity(reservation', RowsWith(reservation', "confirmed", t))
  BY <1>1, SeatsAreRows DEF LedgerConsistent
<1>4. ASSUME NEW u \in User, NEW t \in TicketType
      PROVE  /\ quotaReserved'[<<u, t>>] = Quantity(reservation', RowsOf(reservation', u, "active", t))
             /\ quotaPaid'[<<u, t>>] = Quantity(reservation', RowsOf(reservation', u, "confirmed", t))
  BY <1>1, SeatsAreRows DEF LedgerConsistent
<1> QED
  BY <1>2, <1>3, <1>4, LedgerNext

-----------------------------------------------------------------------------
(* Every step of the system does one of four things to the ledger.         *)

HoldsSome ==
  \E a \in Call :
    /\ ~Exists(a.id)
    /\ a.quantity <= Available(a.ticketType)
    /\ a.quantity <= QuotaLeft(Owner(a.id), a.ticketType)
    /\ Hold(a)
SellsOne == \E r \in Reservation : Active(r) /\ SellHold(r)
ReleasesSome ==
  \E S \in SUBSET Reservation :
    (\A r \in S : Active(r) /\ r \in lapsed) /\ ReleaseHolds(S)
LedgerMove == UNCHANGED ledgerVars \/ HoldsSome \/ SellsOne \/ ReleasesSome

IInv ==
  /\ TypeOK
  /\ LedgerConsistent
  /\ NoOversell
  /\ QuotaRespected
  /\ SelectionIsExclusive
  /\ ReplyIsTrue

\* The reserve transaction holds seats only after its checks, sales and late
\* releases act on active rows, and so does the worker, because the rows it
\* selected are still active when it writes.
LEMMA StepMovesLedger ==
  ASSUME TypeOK, SelectionIsExclusive, [Next]_inventoryVars
  PROVE  LedgerMove
<1>1. ASSUME NEW c \in Client, Lookup(c) \/ Begin(c) \/ Recover(c) \/ RequestFails(c) \/ Return(c)
      PROVE  LedgerMove
  BY <1>1 DEF LedgerMove, Lookup, Begin, Recover, RequestFails, Return
<1>2. ASSUME NEW c \in Client, Reserve(c)
      PROVE  LedgerMove
  <2>1. call[c] \in Call
    BY <1>2 DEF Reserve, TypeOK
  <2>2. CASE ReserveOutcome(call[c]) = "created"
    <3>1. ~(Available(call[c].ticketType) < call[c].quantity)
      BY <2>2 DEF ReserveOutcome
    <3>2. ~(QuotaLeft(Owner(call[c].id), call[c].ticketType) < call[c].quantity)
      BY <2>2 DEF ReserveOutcome
    <3>3. ~Exists(call[c].id)
      BY <2>2 DEF ReserveOutcome
    <3>4. /\ Owner(call[c].id) \in User /\ call[c].ticketType \in TicketType
          /\ call[c].quantity \in Int
      BY <2>1, LimitAssumption DEF Call, Reservation, Owner
    <3>5. /\ Available(call[c].ticketType) \in Int
          /\ QuotaLeft(Owner(call[c].id), call[c].ticketType) \in Int
      BY <3>4, LimitAssumption DEF TypeOK, Available, QuotaLeft
    <3> QED
      BY <1>2, <2>1, <2>2, <3>1, <3>2, <3>3, <3>4, <3>5 DEF Reserve, LedgerMove, HoldsSome
  <2>3. CASE ReserveOutcome(call[c]) # "created"
    BY <1>2, <2>3 DEF Reserve, LedgerMove
  <2> QED
    BY <2>2, <2>3
<1>3. ASSUME NEW r \in Reservation, Lapse(r)
      PROVE  LedgerMove
  BY <1>3 DEF Lapse, LedgerMove
<1>4. ASSUME NEW r \in Reservation, ConfirmSale(r)
      PROVE  LedgerMove
  BY <1>4 DEF ConfirmSale, LedgerMove, SellsOne
<1>5. ASSUME NEW r \in Reservation, ReleaseLate(r)
      PROVE  LedgerMove
  <2>1. {r} \in SUBSET Reservation
    OBVIOUS
  <2>2. (\A x \in {r} : Active(x) /\ x \in lapsed) /\ ReleaseHolds({r})
    BY <1>5 DEF ReleaseLate
  <2> QED
    BY <2>1, <2>2 DEF LedgerMove, ReleasesSome
<1>6. ASSUME NEW t \in TicketType, SaleEnds(t)
      PROVE  LedgerMove
  BY <1>6 DEF SaleEnds, LedgerMove
<1>7. ASSUME NEW w \in Worker, ExpireSelect(w) \/ ExpireAbort(w)
      PROVE  LedgerMove
  BY <1>7 DEF ExpireSelect, ExpireAbort, LedgerMove
<1>8. ASSUME NEW w \in Worker, ExpireCommit(w)
      PROVE  LedgerMove
  <2> DEFINE S == {r \in selected[w] : Active(r)}
  <2>1. S \in SUBSET Reservation
    BY DEF TypeOK
  <2>2. \A r \in S : Active(r) /\ r \in lapsed
    BY DEF SelectionIsExclusive
  <2>3. ReleaseHolds(S)
    BY <1>8 DEF ExpireCommit
  <2> QED
    BY <2>1, <2>2, <2>3 DEF LedgerMove, ReleasesSome
<1>9. CASE UNCHANGED inventoryVars
  BY <1>9 DEF inventoryVars, LedgerMove
<1> QED
  BY <1>1, <1>2, <1>3, <1>4, <1>5, <1>6, <1>7, <1>8, <1>9 DEF Next

\* Whatever a step does to the ledger, rows and counters stay together.
LEMMA MoveKeepsLedger ==
  ASSUME TypeOK, LedgerConsistent, LedgerMove
  PROVE  LedgerTypes' /\ LedgerConsistent'
<1>1. LedgerTypes
  BY DEF TypeOK, LedgerTypes
<1>2. CASE UNCHANGED ledgerVars
  BY <1>1, <1>2, NothingKeepsLedger
<1>3. CASE HoldsSome
  BY <1>1, <1>3, HoldKeepsLedger DEF HoldsSome
<1>4. CASE SellsOne
  BY <1>1, <1>4, SellKeepsLedger DEF SellsOne
<1>5. CASE ReleasesSome
  BY <1>1, <1>5, ReleaseKeepsLedger DEF ReleasesSome
<1> QED
  BY <1>2, <1>3, <1>4, <1>5 DEF LedgerMove

\* Whatever a step does to the ledger, no more seats are promised than exist.
LEMMA MoveKeepsCapacity ==
  ASSUME TypeOK, NoOversell, LedgerMove
  PROVE  NoOversell'
<1> SUFFICES ASSUME NEW t \in TicketType
             PROVE  reservedCount'[t] + soldCount'[t] <= Capacity[t]
  BY DEF NoOversell
<1>1. /\ reservedCount[t] + soldCount[t] <= Capacity[t]
      /\ reservedCount[t] \in Int /\ soldCount[t] \in Int /\ Capacity[t] \in Nat
  BY LimitAssumption DEF NoOversell, TypeOK
<1>2. CASE UNCHANGED ledgerVars
  BY <1>1, <1>2 DEF ledgerVars
<1>3. CASE HoldsSome
  <2>1. PICK a \in Call : Hold(a) /\ a.quantity <= Available(a.ticketType)
    BY <1>3 DEF HoldsSome
  <2>2. soldCount' = soldCount /\ a.quantity \in Int /\ a.ticketType \in TicketType
    BY <2>1, LimitAssumption DEF Hold, Call
  <2>3. CASE t = a.ticketType
    <3>1. reservedCount'[t] = reservedCount[t] + a.quantity
      BY <2>1, <2>3 DEF Hold, TypeOK
    <3> QED
      BY <1>1, <2>1, <2>2, <2>3, <3>1 DEF Available
  <2>4. CASE t # a.ticketType
    <3>1. reservedCount'[t] = reservedCount[t]
      BY <2>1, <2>4 DEF Hold, TypeOK
    <3> QED
      BY <1>1, <2>2, <3>1
  <2> QED
    BY <2>3, <2>4
<1>4. CASE SellsOne
  <2>1. PICK r \in Reservation : Active(r) /\ SellHold(r)
    BY <1>4 DEF SellsOne
  <2>2. reservation[r].quantity \in Int
    BY <2>1, LimitAssumption DEF TypeOK, Active, Status, Row, NoReservation
  <2>3. CASE t = reservation[r].ticketType
    BY <1>1, <2>1, <2>2, <2>3 DEF SellHold, TypeOK
  <2>4. CASE t # reservation[r].ticketType
    BY <1>1, <2>1, <2>4 DEF SellHold, TypeOK
  <2> QED
    BY <2>3, <2>4
<1>5. CASE ReleasesSome
  <2>1. PICK S \in SUBSET Reservation : ReleaseHolds(S)
    BY <1>5 DEF ReleasesSome
  <2>2. Quantity(reservation, OfType(S, t)) \in Nat
    BY RowsFinite, QuantityNat DEF OfType
  <2>3. /\ soldCount' = soldCount
        /\ reservedCount'[t] = reservedCount[t] - Quantity(reservation, OfType(S, t))
    BY <2>1 DEF ReleaseHolds
  <2> QED
    BY <1>1, <2>2, <2>3
<1> QED
  BY <1>2, <1>3, <1>4, <1>5 DEF LedgerMove

\* Whatever a step does to the ledger, no user gets past the limit: a sale only
\* moves seats from the reserved to the paid side of the quota.
LEMMA MoveKeepsQuota ==
  ASSUME TypeOK, QuotaRespected, LedgerMove
  PROVE  QuotaRespected'
<1> SUFFICES ASSUME NEW u \in User, NEW t \in TicketType
             PROVE  quotaReserved'[<<u, t>>] + quotaPaid'[<<u, t>>] <= PerUserLimit[t]
  BY DEF QuotaRespected
<1>1. /\ quotaReserved[<<u, t>>] + quotaPaid[<<u, t>>] <= PerUserLimit[t]
      /\ quotaReserved[<<u, t>>] \in Int /\ quotaPaid[<<u, t>>] \in Int
      /\ PerUserLimit[t] \in Nat
  BY LimitAssumption DEF QuotaRespected, TypeOK
<1>2. CASE UNCHANGED ledgerVars
  BY <1>1, <1>2 DEF ledgerVars
<1>3. CASE HoldsSome
  <2>1. PICK a \in Call :
          Hold(a) /\ a.quantity <= QuotaLeft(Owner(a.id), a.ticketType)
    BY <1>3 DEF HoldsSome
  <2>2. /\ quotaPaid' = quotaPaid /\ a.quantity \in Int
        /\ a.ticketType \in TicketType /\ Owner(a.id) \in User
    BY <2>1, LimitAssumption DEF Hold, Call, Reservation, Owner
  <2>3. CASE u = Owner(a.id) /\ t = a.ticketType
    <3>1. quotaReserved'[<<u, t>>] = quotaReserved[<<u, t>>] + a.quantity
      BY <2>1, <2>3 DEF Hold, TypeOK
    <3> QED
      BY <1>1, <2>1, <2>2, <2>3, <3>1 DEF QuotaLeft
  <2>4. CASE ~(u = Owner(a.id) /\ t = a.ticketType)
    <3>1. quotaReserved'[<<u, t>>] = quotaReserved[<<u, t>>]
      BY <2>1, <2>4 DEF Hold, TypeOK
    <3> QED
      BY <1>1, <2>2, <3>1
  <2> QED
    BY <2>3, <2>4
<1>4. CASE SellsOne
  <2>1. PICK r \in Reservation : Active(r) /\ SellHold(r)
    BY <1>4 DEF SellsOne
  <2>2. reservation[r].quantity \in Int
    BY <2>1, LimitAssumption DEF TypeOK, Active, Status, Row, NoReservation
  <2>3. CASE u = Owner(r) /\ t = reservation[r].ticketType
    BY <1>1, <2>1, <2>2, <2>3 DEF SellHold, TypeOK
  <2>4. CASE ~(u = Owner(r) /\ t = reservation[r].ticketType)
    BY <1>1, <2>1, <2>4 DEF SellHold, TypeOK
  <2> QED
    BY <2>3, <2>4
<1>5. CASE ReleasesSome
  <2>1. PICK S \in SUBSET Reservation : ReleaseHolds(S)
    BY <1>5 DEF ReleasesSome
  <2>2. Quantity(reservation, OfOwner(OfType(S, t), u)) \in Nat
    BY RowsFinite, QuantityNat DEF OfType, OfOwner
  <2>3. quotaReserved'[<<u, t>>]
          = quotaReserved[<<u, t>>] - Quantity(reservation, OfOwner(OfType(S, t), u))
    BY <2>1 DEF ReleaseHolds
  <2>4. quotaPaid' = quotaPaid
    BY <2>1 DEF ReleaseHolds
  <2> QED
    BY <1>1, <2>2, <2>3, <2>4
<1> QED
  BY <1>2, <1>3, <1>4, <1>5 DEF LedgerMove

\* What a step does to the table itself: rows appear, or active rows settle,
\* an expired one only after its TTL; ticket types and quantities stay.
LEMMA MoveKeepsRows ==
  ASSUME TypeOK, LedgerMove, NEW r \in Reservation, Exists(r)
  PROVE  /\ Exists(r)'
         /\ reservation'[r].ticketType = reservation[r].ticketType
         /\ reservation'[r].quantity = reservation[r].quantity
         /\ RowLifecycle(r)
<1>1. reservation[r] \in Row /\ reservation[r].status # "none"
  BY DEF TypeOK, Exists, Status, NoReservation
<1>2. CASE UNCHANGED ledgerVars
  BY <1>1, <1>2 DEF ledgerVars, Exists, Status, RowLifecycle
<1>3. CASE HoldsSome
  <2>1. PICK a \in Call : ~Exists(a.id) /\ Hold(a)
    BY <1>3 DEF HoldsSome
  <2>2. reservation'[r] = reservation[r]
    BY <2>1 DEF Hold, TypeOK, Exists, Status
  <2> QED
    BY <1>1, <2>2 DEF Exists, Status, RowLifecycle
<1>4. CASE SellsOne
  <2>1. PICK o \in Reservation : Active(o) /\ SellHold(o)
    BY <1>4 DEF SellsOne
  <2>2. CASE r # o
    <3>1. reservation'[r] = reservation[r]
      BY <2>1, <2>2 DEF SellHold, TypeOK
    <3> QED
      BY <1>1, <3>1 DEF Exists, Status, RowLifecycle
  <2>3. CASE r = o
    <3>1. reservation'[r] = [reservation[r] EXCEPT !.status = "confirmed"]
      BY <2>1, <2>3 DEF SellHold, TypeOK
    <3> QED
      BY <1>1, <2>1, <2>3, <3>1 DEF Exists, Status, Active, RowLifecycle, Row
  <2> QED
    BY <2>2, <2>3
<1>5. CASE ReleasesSome
  <2>1. PICK S \in SUBSET Reservation :
          (\A x \in S : Active(x) /\ x \in lapsed) /\ ReleaseHolds(S)
    BY <1>5 DEF ReleasesSome
  <2>2. CASE r \notin S
    <3>1. reservation'[r] = reservation[r]
      BY <2>1, <2>2 DEF ReleaseHolds
    <3> QED
      BY <1>1, <3>1 DEF Exists, Status, RowLifecycle
  <2>3. CASE r \in S
    <3>1. reservation'[r] = [reservation[r] EXCEPT !.status = "expired"]
      BY <2>1, <2>3 DEF ReleaseHolds
    <3> QED
      BY <1>1, <2>1, <2>3, <3>1 DEF Exists, Status, Active, RowLifecycle, Row
  <2> QED
    BY <2>2, <2>3
<1> QED
  BY <1>2, <1>3, <1>4, <1>5 DEF LedgerMove

-----------------------------------------------------------------------------
(* The parts of the invariant that are not about the ledger.               *)

\* Requests, time and the worker's selections keep their types.
LEMMA TypeStep ==
  ASSUME IInv, [Next]_inventoryVars
  PROVE  TypeOK'
<1> USE DEF IInv
<1>1. LedgerTypes'
  BY StepMovesLedger, MoveKeepsLedger
<1>2. ASSUME NEW c \in Client, Lookup(c)
      PROVE  TypeOK'
  <2>1. PICK a \in Call :
          /\ call' = [call EXCEPT ![c] = a]
          /\ pc' = [pc EXCEPT ![c] = IF Exists(a.id) THEN LookupReply(a) ELSE "begin"]
    BY <1>2 DEF Lookup
  <2>2. (IF Exists(a.id) THEN LookupReply(a) ELSE "begin") \in InProgress \cup Reply
    BY DEF LookupReply, InProgress, Reply, Refusal
  <2>3. lapsed' = lapsed /\ saleOpen' = saleOpen /\ selected' = selected
    BY <1>2 DEF Lookup
  <2> QED
    BY <1>1, <2>1, <2>2, <2>3 DEF TypeOK, LedgerTypes
<1>3. ASSUME NEW c \in Client, Reserve(c)
      PROVE  TypeOK'
  <2>1. ReserveOutcome(call[c]) \in InProgress \cup Reply
    BY DEF ReserveOutcome, InProgress, Reply, Refusal
  <2>2. pc' = [pc EXCEPT ![c] = ReserveOutcome(call[c])] /\ pc[c] = "reserve"
    BY <1>3 DEF Reserve
  <2>3. call' = call /\ lapsed' = lapsed /\ saleOpen' = saleOpen /\ selected' = selected
    BY <1>3 DEF Reserve
  <2> QED
    BY <1>1, <2>1, <2>2, <2>3 DEF TypeOK, LedgerTypes
<1>4. ASSUME NEW c \in Client, Begin(c) \/ Recover(c) \/ RequestFails(c)
      PROVE  TypeOK'
  <2>1. pc[c] # "idle" /\ call' = call
    BY <1>4 DEF Begin, Recover, RequestFails, InProgress
  <2>2. PICK x \in InProgress \cup Reply : pc' = [pc EXCEPT ![c] = x]
    BY <1>4 DEF Begin, Recover, RequestFails, LookupReply, InProgress, Reply, Refusal
  <2>3. lapsed' = lapsed /\ saleOpen' = saleOpen /\ selected' = selected
    BY <1>4 DEF Begin, Recover, RequestFails
  <2> QED
    BY <1>1, <2>1, <2>2, <2>3 DEF TypeOK, LedgerTypes
<1>5. ASSUME NEW c \in Client, Return(c)
      PROVE  TypeOK'
  BY <1>1, <1>5 DEF Return, TypeOK, LedgerTypes
<1>6. ASSUME NEW r \in Reservation, Lapse(r) \/ ConfirmSale(r) \/ ReleaseLate(r)
      PROVE  TypeOK'
  BY <1>1, <1>6 DEF Lapse, ConfirmSale, ReleaseLate, TypeOK, LedgerTypes, requestVars
<1>7. ASSUME NEW t \in TicketType, SaleEnds(t)
      PROVE  TypeOK'
  BY <1>1, <1>7 DEF SaleEnds, TypeOK, LedgerTypes, requestVars
<1>8. ASSUME NEW w \in Worker, ExpireSelect(w)
      PROVE  TypeOK'
  BY <1>1, <1>8 DEF ExpireSelect, Expirable, TypeOK, LedgerTypes, requestVars
<1>9. ASSUME NEW w \in Worker, ExpireCommit(w) \/ ExpireAbort(w)
      PROVE  TypeOK'
  BY <1>1, <1>9 DEF ExpireCommit, ExpireAbort, TypeOK, LedgerTypes, requestVars
<1>10. CASE UNCHANGED inventoryVars
  BY <1>10 DEF inventoryVars, ledgerVars, requestVars, TypeOK
<1> QED
  BY <1>2, <1>3, <1>4, <1>5, <1>6, <1>7, <1>8, <1>9, <1>10 DEF Next

\* A selected row is settled by nobody but the run that selected it.
LEMMA SelectionStep ==
  ASSUME IInv, [Next]_inventoryVars
  PROVE  SelectionIsExclusive'
<1> USE DEF IInv
<1>1. ASSUME UNCHANGED <<lapsed, selected>>, \A r \in Reservation : Locked(r) => Active(r)'
      PROVE  SelectionIsExclusive'
  BY <1>1 DEF SelectionIsExclusive, TypeOK, Locked
<1>2. ASSUME NEW c \in Client, Lookup(c) \/ Begin(c) \/ Recover(c) \/ RequestFails(c) \/ Return(c)
      PROVE  SelectionIsExclusive'
  BY <1>1, <1>2 DEF Lookup, Begin, Recover, RequestFails, Return, ledgerVars, SelectionIsExclusive, Active, Status
<1>3. ASSUME NEW c \in Client, Reserve(c)
      PROVE  SelectionIsExclusive'
  <2>1. ASSUME NEW r \in Reservation, Active(r)
        PROVE  Active(r)'
    <3>1. CASE ReserveOutcome(call[c]) = "created"
      <4>1. ~Exists(call[c].id) /\ Hold(call[c])
        BY <1>3, <3>1 DEF Reserve, ReserveOutcome
      <4> QED
        BY <2>1, <4>1 DEF Hold, TypeOK, Exists, Active, Status
    <3>2. CASE ReserveOutcome(call[c]) # "created"
      BY <1>3, <2>1, <3>2 DEF Reserve, ledgerVars, Active, Status
    <3> QED
      BY <3>1, <3>2
  <2> QED
    BY <1>1, <1>3, <2>1 DEF Reserve, SelectionIsExclusive, Locked
<1>4. ASSUME NEW r \in Reservation, Lapse(r)
      PROVE  SelectionIsExclusive'
  BY <1>4 DEF Lapse, ledgerVars, SelectionIsExclusive, Active, Status
<1>5. ASSUME NEW r \in Reservation, ConfirmSale(r)
      PROVE  SelectionIsExclusive'
  <2>1. \A x \in Reservation : Locked(x) => Active(x)'
    BY <1>5 DEF ConfirmSale, SellHold, SelectionIsExclusive, Locked, TypeOK, Active, Status
  <2> QED
    BY <1>1, <1>5, <2>1 DEF ConfirmSale
<1>6. ASSUME NEW r \in Reservation, ReleaseLate(r)
      PROVE  SelectionIsExclusive'
  <2>1. \A x \in Reservation : Locked(x) => Active(x)'
    BY <1>6 DEF ReleaseLate, ReleaseHolds, SelectionIsExclusive, Locked, Active, Status
  <2> QED
    BY <1>1, <1>6, <2>1 DEF ReleaseLate
<1>7. ASSUME NEW t \in TicketType, SaleEnds(t)
      PROVE  SelectionIsExclusive'
  BY <1>7 DEF SaleEnds, ledgerVars, SelectionIsExclusive, Active, Status
<1>8. ASSUME NEW w \in Worker, ExpireSelect(w)
      PROVE  SelectionIsExclusive'
  <2>1. PICK S \in SUBSET Expirable : selected' = [selected EXCEPT ![w] = S]
    BY <1>8 DEF ExpireSelect
  <2>2. UNCHANGED <<reservation, lapsed>>
    BY <1>8 DEF ExpireSelect, ledgerVars
  <2> QED
    BY <2>1, <2>2 DEF SelectionIsExclusive, Expirable, Locked, Active, Status, TypeOK
<1>9. ASSUME NEW w \in Worker, ExpireCommit(w)
      PROVE  SelectionIsExclusive'
  <2>1. /\ selected' = [selected EXCEPT ![w] = {}]
        /\ lapsed' = lapsed
        /\ \A r \in Reservation \ selected[w] : reservation'[r] = reservation[r]
    BY <1>9 DEF ExpireCommit, ReleaseHolds
  <2> QED
    BY <2>1 DEF SelectionIsExclusive, TypeOK, Active, Status
<1>10. ASSUME NEW w \in Worker, ExpireAbort(w)
       PROVE  SelectionIsExclusive'
  BY <1>10 DEF ExpireAbort, ledgerVars, SelectionIsExclusive, TypeOK, Active, Status
<1>11. CASE UNCHANGED inventoryVars
  BY <1>11 DEF inventoryVars, ledgerVars, SelectionIsExclusive, Active, Status
<1> QED
  BY <1>2, <1>3, <1>4, <1>5, <1>6, <1>7, <1>8, <1>9, <1>10, <1>11 DEF Next

\* What a buyer was told stays true while the reply is on its way.
LEMMA ReplyStep ==
  ASSUME IInv, [Next]_inventoryVars
  PROVE  ReplyIsTrue'
<1> USE DEF IInv
<1>1. LedgerMove
  BY StepMovesLedger
<1>2. ASSUME NEW a \in Call, Exists(a.id)
      PROVE  Exists(a.id)' /\ (PayloadMatches(a) => PayloadMatches(a)')
  <2>1. a.id \in Reservation
    BY DEF Call
  <2> QED
    BY <1>1, <1>2, <2>1, MoveKeepsRows DEF PayloadMatches
<1>3. SUFFICES ASSUME NEW d \in Client
               PROVE  TrueTo(d)'
  BY DEF ReplyIsTrue
<1>4. CASE pc'[d] = pc[d] /\ call'[d] = call[d]
  <2>1. ASSUME pc[d] \in {"recover", "created", "replayed"}
        PROVE  call[d] \in Call
    BY <2>1 DEF TypeOK
  <2> QED
    BY <1>2, <1>4, <2>1 DEF ReplyIsTrue, TrueTo, Exists, Status, PayloadMatches
<1>5. ASSUME Lookup(d)
      PROVE  TrueTo(d)'
  <2>1. PICK a \in Call :
          /\ call' = [call EXCEPT ![d] = a]
          /\ pc' = [pc EXCEPT ![d] = IF Exists(a.id) THEN LookupReply(a) ELSE "begin"]
    BY <1>5 DEF Lookup
  <2>2. call'[d] = a /\ pc'[d] = IF Exists(a.id) THEN LookupReply(a) ELSE "begin"
    BY <2>1 DEF TypeOK
  <2>3. reservation' = reservation
    BY <1>5 DEF Lookup, ledgerVars
  <2> QED
    BY <2>2, <2>3 DEF TrueTo, LookupReply, Exists, Status, PayloadMatches
<1>6. ASSUME Reserve(d)
      PROVE  TrueTo(d)'
  <2>1. pc'[d] = ReserveOutcome(call[d]) /\ call' = call /\ call[d] \in Call
    BY <1>6 DEF Reserve, TypeOK
  <2>2. CASE ReserveOutcome(call[d]) = "created"
    <3>1. Hold(call[d]) /\ call[d].id \in Reservation
      BY <1>6, <2>1, <2>2 DEF Reserve, Call
    <3>2. reservation'[call[d].id] = [status |-> "active",
            ticketType |-> call[d].ticketType, quantity |-> call[d].quantity]
      BY <3>1 DEF Hold, TypeOK
    <3> QED
      BY <2>1, <2>2, <3>2 DEF TrueTo, Exists, Status, PayloadMatches
  <2>3. CASE ReserveOutcome(call[d]) = "recover"
    <3>1. Exists(call[d].id)
      BY <2>3 DEF ReserveOutcome
    <3> QED
      BY <1>2, <2>1, <2>3, <3>1 DEF TrueTo, Exists, Status
  <2>4. CASE ReserveOutcome(call[d]) \notin {"created", "recover"}
    BY <2>1, <2>4 DEF TrueTo, ReserveOutcome
  <2> QED
    BY <2>2, <2>3, <2>4
<1>7. ASSUME Recover(d)
      PROVE  TrueTo(d)'
  <2>1. /\ pc[d] = "recover" /\ pc'[d] = LookupReply(call[d]) /\ call' = call
        /\ reservation' = reservation
    BY <1>7 DEF Recover, TypeOK, ledgerVars
  <2> QED
    BY <2>1 DEF ReplyIsTrue, TrueTo, LookupReply, Exists, Status, PayloadMatches
<1>8. ASSUME Begin(d) \/ RequestFails(d) \/ Return(d)
      PROVE  TrueTo(d)'
  BY <1>8 DEF TrueTo, Begin, RequestFails, Return, TypeOK
<1>9. ASSUME NEW c \in Client, c # d,
             Lookup(c) \/ Begin(c) \/ Reserve(c) \/ Recover(c) \/ RequestFails(c) \/ Return(c)
      PROVE  pc'[d] = pc[d] /\ call'[d] = call[d]
  BY <1>9 DEF Lookup, Begin, Reserve, Recover, RequestFails, Return, TypeOK
<1>10. ASSUME NEW r \in Reservation, Lapse(r) \/ ConfirmSale(r) \/ ReleaseLate(r)
       PROVE  UNCHANGED requestVars
  BY <1>10 DEF Lapse, ConfirmSale, ReleaseLate
<1>11. ASSUME NEW t \in TicketType, SaleEnds(t)
       PROVE  UNCHANGED requestVars
  BY <1>11 DEF SaleEnds
<1>12. ASSUME NEW w \in Worker, ExpireSelect(w) \/ ExpireCommit(w) \/ ExpireAbort(w)
       PROVE  UNCHANGED requestVars
  BY <1>12 DEF ExpireSelect, ExpireCommit, ExpireAbort
<1>13. CASE UNCHANGED requestVars
  BY <1>4, <1>13 DEF requestVars
<1>14. CASE UNCHANGED inventoryVars
  BY <1>13, <1>14 DEF inventoryVars
<1>15. CASE \E c \in Client :
         Lookup(c) \/ Begin(c) \/ Reserve(c) \/ Recover(c) \/ RequestFails(c) \/ Return(c)
  BY <1>4, <1>5, <1>6, <1>7, <1>8, <1>9, <1>15
<1> QED
  BY <1>10, <1>11, <1>12, <1>13, <1>14, <1>15 DEF Next

-----------------------------------------------------------------------------
(* The theorems.                                                           *)

\* Nobody has reserved anything yet: every counter is zero and so is every sum.
LEMMA InvInit == Init => IInv
<1> SUFFICES ASSUME Init PROVE IInv
  OBVIOUS
<1>1. TypeOK
  BY DEF Init, TypeOK
<1>2. ASSUME NEW st \in {"active", "confirmed"}, NEW t, NEW u
      PROVE  Seats(st, t) = 0 /\ SeatsOf(u, st, t) = 0
  <2>1. Units(reservation, {}) = {}
    BY DEF Units
  <2>2. Quantity(reservation, {}) = 0
    BY <2>1, FS_EmptySet DEF Quantity
  <2>3. OfType(WithStatus(st), t) = {}
    BY DEF Init, OfType, WithStatus, Status, NoReservation
  <2> QED
    BY <2>2, <2>3 DEF Seats, SeatsOf, OfOwner
<1>3. LedgerConsistent
  BY <1>2 DEF LedgerConsistent, Init
<1>4. NoOversell /\ QuotaRespected
  BY LimitAssumption DEF NoOversell, QuotaRespected, Init
<1>5. SelectionIsExclusive /\ ReplyIsTrue
  BY DEF SelectionIsExclusive, ReplyIsTrue, TrueTo, Init
<1> QED
  BY <1>1, <1>3, <1>4, <1>5 DEF IInv

\* Every step of the server, the worker and the payment module keeps IInv.
LEMMA InvStep == IInv /\ [Next]_inventoryVars => IInv'
<1> SUFFICES ASSUME IInv, [Next]_inventoryVars PROVE IInv'
  OBVIOUS
<1>1. LedgerMove
  BY StepMovesLedger DEF IInv
<1>2. TypeOK'
  BY TypeStep
<1>3. LedgerConsistent'
  BY <1>1, MoveKeepsLedger DEF IInv
<1>4. NoOversell'
  BY <1>1, MoveKeepsCapacity DEF IInv
<1>5. QuotaRespected'
  BY <1>1, MoveKeepsQuota DEF IInv
<1>6. SelectionIsExclusive' /\ ReplyIsTrue'
  BY SelectionStep, ReplyStep
<1> QED
  BY <1>2, <1>3, <1>4, <1>5, <1>6 DEF IInv

\* IInv holds in every reachable state.
LEMMA Invariance == Spec => []IInv
  BY InvInit, InvStep, PTL DEF Spec

\* Every variable keeps its type.
THEOREM TypeCorrect == Spec => []TypeOK
<1>1. IInv => TypeOK
  BY DEF IInv
<1> QED
  BY <1>1, Invariance, PTL

\* The counters equal the sums over the Reservation rows, for any number of
\* users, requests, ticket types and overlapping expiry workers.
THEOREM LedgerIsConsistent == Spec => []LedgerConsistent
<1>1. IInv => LedgerConsistent
  BY DEF IInv
<1> QED
  BY <1>1, Invariance, PTL

\* No ticket type is ever promised beyond its capacity.
THEOREM NeverOversold == Spec => []NoOversell
<1>1. IInv => NoOversell
  BY DEF IInv
<1> QED
  BY <1>1, Invariance, PTL

\* No user gets past the per-user limit of a ticket type.
THEOREM QuotaHolds == Spec => []QuotaRespected
<1>1. IInv => QuotaRespected
  BY DEF IInv
<1> QED
  BY <1>1, Invariance, PTL

\* A row is selected by one run of the worker, and is still expirable then.
THEOREM SelectionHolds == Spec => []SelectionIsExclusive
<1>1. IInv => SelectionIsExclusive
  BY DEF IInv
<1> QED
  BY <1>1, Invariance, PTL

\* A reply describes a reservation that exists with the request's payload.
THEOREM RepliesAreTrue == Spec => []ReplyIsTrue
<1>1. IInv => ReplyIsTrue
  BY DEF IInv
<1> QED
  BY <1>1, Invariance, PTL

\* A settled reservation stays as it is, and a hold outlives its TTL.
THEOREM LifecycleHolds == Spec => ReservationLifecycle
<1>1. IInv /\ [Next]_inventoryVars =>
        [\A r \in Reservation : RowLifecycle(r)]_inventoryVars
  <2> SUFFICES ASSUME IInv, [Next]_inventoryVars, NEW r \in Reservation
               PROVE  RowLifecycle(r)
    OBVIOUS
  <2>1. LedgerMove
    BY StepMovesLedger DEF IInv
  <2>2. CASE Exists(r)
    BY <2>1, <2>2, MoveKeepsRows DEF IInv
  <2>3. CASE ~Exists(r)
    BY <2>3 DEF RowLifecycle
  <2> QED
    BY <2>2, <2>3
<1> QED
  BY <1>1, Invariance, PTL DEF Spec, ReservationLifecycle

-----------------------------------------------------------------------------
(* The counters implement the abstract pool of seats.                      *)

\* The seats of an active row are among the reserved seats of its type, so the
\* decrement of a sale never takes the counter below zero.
LEMMA RowIsReserved ==
  ASSUME TypeOK, LedgerConsistent, NEW r \in Reservation, Active(r)
  PROVE  /\ reservation[r].ticketType \in TicketType
         /\ reservation[r].quantity \in 1 .. reservedCount[reservation[r].ticketType]
<1> DEFINE t == reservation[r].ticketType
           A == RowsWith(reservation, "active", t)
<1>1. /\ t \in TicketType /\ reservation[r].quantity \in 1 .. MaxQuantity
      /\ reservation[r].quantity \in Int
  BY LimitAssumption DEF TypeOK, Active, Status, Row, NoReservation
<1>2. r \in A /\ A \subseteq Reservation
  BY DEF RowsWith, Active, Status
<1>3. IsFiniteSet(A) /\ IsFiniteSet(A \ {r})
  BY <1>2, RowsFinite
<1>4. Quantity(reservation, A \ {r}) = Quantity(reservation, A) - Quantity(reservation, {r})
  BY <1>2, <1>3, QuantityLeaves
<1>5. Quantity(reservation, A \ {r}) \in Nat /\ Quantity(reservation, A) \in Nat
  BY <1>3, QuantityNat
<1>6. Quantity(reservation, {r}) = reservation[r].quantity
  <2>1. reservation[r].quantity \in 0 .. MaxQuantity
    BY <1>1, LimitAssumption
  <2> QED
    BY <2>1, QuantitySingle
<1>7. reservedCount[t] = Quantity(reservation, A)
  BY <1>1, SeatsAreRows DEF LedgerConsistent
<1> QED
  BY <1>1, <1>4, <1>5, <1>6, <1>7

\* The counter of reserved seats is a natural number in every reachable state.
LEMMA ReservedIsNat ==
  ASSUME TypeOK, LedgerConsistent
  PROVE  reservedCount \in [TicketType -> Nat]
<1>1. ASSUME NEW t \in TicketType
      PROVE  reservedCount[t] \in Nat
  <2>1. reservedCount[t] = Quantity(reservation, RowsWith(reservation, "active", t))
    BY SeatsAreRows DEF LedgerConsistent
  <2>2. IsFiniteSet(RowsWith(reservation, "active", t))
    BY RowsFinite DEF RowsWith
  <2> QED
    BY <2>1, <2>2, QuantityNat
<1> QED
  BY <1>1 DEF TypeOK

\* Every step of the ledger is a step of the pool or leaves the pool alone.
LEMMA MoveIsPoolMove ==
  ASSUME IInv, IInv', LedgerMove
  PROVE  [Pool!PoolNext]_(Pool!poolVars)
<1> USE DEF IInv
<1>1. CASE UNCHANGED ledgerVars
  BY <1>1 DEF ledgerVars, Pool!poolVars
<1>2. CASE HoldsSome
  <2>1. PICK a \in Call : Hold(a) /\ a.quantity <= Available(a.ticketType)
    BY <1>2 DEF HoldsSome
  <2> DEFINE t == a.ticketType
  <2>2. /\ t \in TicketType /\ a.quantity \in Int /\ a.quantity >= 1
        /\ Capacity[t] - reservedCount[t] - soldCount[t] \in Int
    BY LimitAssumption DEF Call, TypeOK
  <2>3. a.quantity \in 1 .. (Capacity[t] - reservedCount[t] - soldCount[t])
    BY <2>1, <2>2 DEF Available
  <2>4. reservedCount' = [reservedCount EXCEPT ![t] = @ + a.quantity]
    BY <2>1 DEF Hold
  <2>5. soldCount' = soldCount
    BY <2>1 DEF Hold
  <2>6. Pool!Hold
    BY <2>2, <2>3, <2>4, <2>5 DEF Pool!Hold
  <2> QED
    BY <2>6 DEF Pool!PoolNext
<1>3. CASE SellsOne
  <2>1. PICK r \in Reservation : Active(r) /\ SellHold(r)
    BY <1>3 DEF SellsOne
  <2> DEFINE t == reservation[r].ticketType
             q == reservation[r].quantity
  <2>2. t \in TicketType /\ q \in 1 .. reservedCount[t]
    BY <2>1, RowIsReserved
  <2>3. /\ reservedCount' = [reservedCount EXCEPT ![t] = @ - q]
        /\ soldCount' = [soldCount EXCEPT ![t] = @ + q]
    BY <2>1 DEF SellHold
  <2>4. Pool!Sell
    BY <2>2, <2>3 DEF Pool!Sell
  <2> QED
    BY <2>4 DEF Pool!PoolNext
<1>4. CASE ReleasesSome
  <2>1. PICK S \in SUBSET Reservation : ReleaseHolds(S)
    BY <1>4 DEF ReleasesSome
  <2>2. reservedCount' \in [TicketType -> Nat] /\ reservedCount \in [TicketType -> Nat]
    <3>1. ASSUME NEW t \in TicketType
          PROVE  reservedCount'[t] \in Nat
      <4>1. reservedCount'[t] = Seats("active", t)'
        BY DEF LedgerConsistent
      <4>2. IsFiniteSet(RowsWith(reservation', "active", t))
        BY RowsFinite DEF RowsWith
      <4> QED
        BY <4>1, <4>2, SeatsAreRows, QuantityNat
    <3>2. reservedCount' \in [TicketType -> Int]
      BY DEF TypeOK
    <3> QED
      BY <3>1, <3>2, ReservedIsNat
  <2>3. ASSUME NEW t \in TicketType
        PROVE  reservedCount'[t] <= reservedCount[t]
    <3>1. Quantity(reservation, OfType(S, t)) \in Nat
      BY RowsFinite, QuantityNat DEF OfType
    <3>2. reservedCount'[t] = reservedCount[t] - Quantity(reservation, OfType(S, t))
      BY <2>1 DEF ReleaseHolds
    <3>3. reservedCount[t] \in Nat
      BY <2>2
    <3> QED
      BY <3>1, <3>2, <3>3
  <2>4. soldCount' = soldCount
    BY <2>1 DEF ReleaseHolds
  <2>5. Pool!Release
    BY <2>2, <2>3, <2>4 DEF Pool!Release
  <2> QED
    BY <2>5 DEF Pool!PoolNext
<1> QED
  BY <1>1, <1>2, <1>3, <1>4 DEF LedgerMove

\* The ledger keeps the promise of SeatPool: seats are only ever held from the
\* free ones, sold from the held ones and given back from the held ones.
THEOREM InventoryImplementsSeatPool == Spec => ImplementsSeatPool
<1>1. Init => Pool!PoolInit
  BY DEF Init, Pool!PoolInit
<1>2. IInv /\ IInv' /\ [Next]_inventoryVars => [Pool!PoolNext]_(Pool!poolVars)
  <2> SUFFICES ASSUME IInv, IInv', [Next]_inventoryVars
               PROVE  [Pool!PoolNext]_(Pool!poolVars)
    OBVIOUS
  <2>1. LedgerMove
    BY StepMovesLedger DEF IInv
  <2> QED
    BY <2>1, MoveIsPoolMove
<1> QED
  BY <1>1, <1>2, Invariance, PTL DEF Spec, ImplementsSeatPool, Pool!PoolSpec
=============================================================================
