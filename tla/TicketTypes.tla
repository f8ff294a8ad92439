---------------------------- MODULE TicketTypes ----------------------------
(***************************************************************************)
(* A ticket type and its inventory counter, as organizers create and edit  *)
(* them: an edit is judged by what it has read, and written in a           *)
(* transaction of its own.  Meanwhile the sale may start, and others edit. *)
(* What buyers hold is one number; Inventory models how it comes about.    *)
(***************************************************************************)
EXTENDS Integers

CONSTANTS
  Seller,        \* requests of organizers in flight
  MaxCapacity,   \* bound: the largest capacity they ask for
  MaxTime        \* bound: the last moment of the clock

ASSUME TypesAssumption == MaxCapacity \in Nat \ {0} /\ MaxTime \in Nat

Time == 0..MaxTime
Size == 1..MaxCapacity
Keep == -1       \* a field the request does not name

VARIABLES
  clock,
  ticketType,    \* its capacity, saleStartAt and saleEndAt
  counter,       \* totalCapacity, and reservedCount plus soldCount
  change,        \* the requests of organizers
  outdated       \* history: a request was judged by what was no longer true

typeVars == <<clock, ticketType, counter, change, outdated>>

NotCreated == [capacity |-> 0, start |-> MaxTime, end |-> MaxTime]
NoChange == [step |-> "idle"]

TypesInit ==
  /\ clock = 0
  /\ ticketType = NotCreated
  /\ counter = [total |-> 0, out |-> 0]
  /\ change = [s \in Seller |-> NoChange]
  /\ outdated = FALSE

\* createTicketType makes both rows in one transaction.
CreateTicketType(s) ==
  /\ change[s] = NoChange /\ ticketType = NotCreated
  /\ \E n \in Size, from, to \in Time :
       /\ from < to
       /\ ticketType' = [capacity |-> n, start |-> from, end |-> to]
       /\ counter' = [total |-> n, out |-> 0]
  /\ UNCHANGED <<clock, change, outdated>>

\* Faulty variant: the capacity is not among the restricted fields.
TimesOnly(c) == c.start # Keep \/ c.end # Keep
\* Fields that may not be changed after the start of the sale.
Restricted(c) == c.capacity # Keep \/ c.start # Keep \/ c.end # Keep

Chosen(field, old) == IF field = Keep THEN old ELSE field

\* updateTicketType reads both rows and checks the request against them.
ChangeBegin(s) ==
  /\ change[s] = NoChange /\ ticketType # NotCreated
  /\ \E n \in Size \cup {Keep}, from, to \in Time \cup {Keep} :
       LET c == [step |-> "write", capacity |-> n, start |-> from, end |-> to,
                 current |-> TRUE]
       IN  /\ Restricted(c) => clock < ticketType.start
           /\ Chosen(from, ticketType.start) < Chosen(to, ticketType.end)
           /\ n # Keep => counter.out <= n
           /\ change' = [change EXCEPT ![s] = c]
  /\ UNCHANGED <<clock, ticketType, counter, outdated>>

\* Requests in flight that can no longer rely on what they have read.
Overtaken == [s \in Seller |->
  IF change[s] = NoChange THEN NoChange ELSE [change[s] EXCEPT !.current = FALSE]]

ChangeWrite(s) ==
  /\ change[s].step = "write"
  /\ ticketType' = [capacity |-> Chosen(change[s].capacity, ticketType.capacity),
                    start |-> Chosen(change[s].start, ticketType.start),
                    end |-> Chosen(change[s].end, ticketType.end)]
  /\ counter' = [counter EXCEPT !.total = Chosen(change[s].capacity, @)]
  /\ change' = [Overtaken EXCEPT ![s] = NoChange]
  /\ outdated' = (outdated \/ ~change[s].current)
  /\ UNCHANGED clock

ChangeFails(s) ==
  /\ change[s] # NoChange
  /\ change' = [change EXCEPT ![s] = NoChange]
  /\ UNCHANGED <<clock, ticketType, counter, outdated>>

\* A buyer takes a seat, or gives one back.
Take ==
  /\ ticketType.start <= clock /\ clock < ticketType.end
  /\ counter.out < counter.total
  /\ counter' = [counter EXCEPT !.out = @ + 1]
  /\ UNCHANGED <<clock, ticketType, change, outdated>>

GiveBack ==
  /\ counter.out > 0
  /\ counter' = [counter EXCEPT !.out = @ - 1]
  /\ UNCHANGED <<clock, ticketType, change, outdated>>

\* Time passes; when the sale starts, what was read before is out of date.
Tick ==
  /\ clock < MaxTime
  /\ clock' = clock + 1
  /\ change' = IF ticketType.start = clock' THEN Overtaken ELSE change
  /\ UNCHANGED <<ticketType, counter, outdated>>

TypesNext ==
  \/ \E s \in Seller :
       CreateTicketType(s) \/ ChangeBegin(s) \/ ChangeWrite(s) \/ ChangeFails(s)
  \/ Take \/ GiveBack \/ Tick

TypesSpec == TypesInit /\ [][TypesNext]_typeVars

-----------------------------------------------------------------------------
(* Properties                                                              *)

\* The capacity the pages show is the one that sales are checked with; and
\* unless a request was written after the start of the sale or another request
\* had made its checks worthless, nobody holds a seat beyond it and the sale ends
\* after it starts.
TicketTypeIsSound ==
  /\ ticketType.capacity = counter.total
  /\ outdated \/ ticketType = NotCreated \/
       (counter.out <= counter.total /\ ticketType.start < ticketType.end)
=============================================================================
