----------------------------- MODULE MCOperations -----------------------------
(* Instances of Inventory, RequestLimits, DemoSeed and ScannerSetup for TLC:  *)
(* the ledger of seats, what stands before it, the data it starts with, and   *)
(* the phones at the gates.  They share no state: a behaviour is one of       *)
(* either, not of their product.                                              *)
EXTENDS Inventory, RequestLimits, DemoSeed, ScannerSetup, TLC

CONSTANTS
  Ann, k1, k2, vip, std, c1, c2, w1, w2,
  q1, q2, b1, ann, bob, eve, g1, g2, z1, z2, s1, s2, t1,
  Subject        \* the modules that a behaviour may be of

\* A type that sells out first and a type on which the per-user limit is met
\* first: two reservations of one user compete for seats on vip and for quota
\* on std.
MCCapacity == [t \in TicketType |-> IF t = vip THEN 1 ELSE 3]
MCPerUserLimit == [t \in TicketType |-> IF t = vip THEN 2 ELSE 1]

Interchangeable ==
  Permutations(Key) \cup Permutations(Client) \cup Permutations(Code)

\* Three callers from one address: ann is signed in and suspicious for another
\* reason, bob's token is expired, eve has none.
TwoRules == <<"ip", "user">>
OneEach == [s \in {"ip", "user"} |-> 1]
Identifiers ==
  [ip |-> [c \in Caller |-> "address"],
   user |-> [c \in Caller |->
     IF c = ann THEN "ann" ELSE IF c = bob THEN BadToken ELSE NoIdentifier]]
Scores == [c \in Caller |-> IF c = ann THEN 1 ELSE 0]

Places == {[gate |-> g1, zone |-> z1], [gate |-> g2, zone |-> z1], [gate |-> g1, zone |-> z2]}
Zones == [t \in Pass |-> z1]

VARIABLE subject

operationsVars == <<inventoryVars, limitVars, seedVars, setupVars>>

OperationsInit ==
  /\ subject \in Subject
  /\ Init /\ LimitsInit /\ SeedInit /\ SetupInit

\* Visits are over some day, and calls used up: only the ledger never stops.
OperationsNext ==
  /\ \/ /\ subject = "ledger" /\ Next
        /\ UNCHANGED <<limitVars, seedVars, setupVars>>
     \/ /\ subject = "limits" /\ LimitsNext
        /\ UNCHANGED <<inventoryVars, seedVars, setupVars>>
     \/ /\ subject = "seed" /\ SeedNext
        /\ UNCHANGED <<inventoryVars, limitVars, setupVars>>
     \/ /\ subject = "phone" /\ SetupNext
        /\ UNCHANGED <<inventoryVars, limitVars, seedVars>>
     \/ subject # "ledger" /\ UNCHANGED operationsVars
  /\ UNCHANGED subject

OperationsSpec == OperationsInit /\ [][OperationsNext]_<<subject, operationsVars>>
=============================================================================
