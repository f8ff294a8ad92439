------------------------------ MODULE SeatPool ------------------------------
(***************************************************************************)
(* What the inventory of the ticket box promises to a buyer, with nothing  *)
(* of how it keeps the promise: every ticket type is a pool of seats, a    *)
(* seat is free, held for a buyer or sold, and a sold seat stays sold.     *)
(* `blueprint/04-database-design.md' states the promise as                 *)
(*   sold_count + reserved_count <= total_capacity.                        *)
(* Inventory.tla implements this specification.                            *)
(***************************************************************************)
EXTENDS Naturals

CONSTANTS TicketType,  \* the pools
          Capacity     \* seats of each pool

VARIABLES held,        \* seats of each pool held for a buyer
          sold         \* seats of each pool sold

poolVars == <<held, sold>>

PoolInit ==
  /\ held = [t \in TicketType |-> 0]
  /\ sold = [t \in TicketType |-> 0]

\* Some free seats of one pool are put on hold.
Hold ==
  \E t \in TicketType :
    \E q \in 1 .. (Capacity[t] - held[t] - sold[t]) :
      /\ held' = [held EXCEPT ![t] = @ + q]
      /\ UNCHANGED sold

\* Some held seats of one pool are sold.
Sell ==
  \E t \in TicketType :
    \E q \in 1 .. held[t] :
      /\ held' = [held EXCEPT ![t] = @ - q]
      /\ sold' = [sold EXCEPT ![t] = @ + q]

\* Held seats, of any number of pools at once, become free again.
Release ==
  /\ held' \in [TicketType -> Nat]
  /\ \A t \in TicketType : held'[t] <= held[t]
  /\ UNCHANGED sold

PoolNext == Hold \/ Sell \/ Release

PoolSpec == PoolInit /\ [][PoolNext]_poolVars
=============================================================================
