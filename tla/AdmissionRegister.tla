------------------------- MODULE AdmissionRegister -------------------------
(***************************************************************************)
(* What check-in promises at the gates, with nothing of queues, batches,   *)
(* snapshots and locks: a register in which each scan of a ticket gets one *)
(* verdict that stays.  Of the scans of a ticket one is admitted, a        *)
(* conflict names it, an admitted ticket cannot be used again, and a       *)
(* device shows verdicts of the register and nothing else                  *)
(* (`blueprint/specs/offline-check-in.md').  CheckIn.tla implements this   *)
(* specification.                                                          *)
(***************************************************************************)
CONSTANTS Device, Ticket

VARIABLES
  verdict,   \* of each scan, with the scan it lost to
  spent,     \* tickets that were admitted or revoked
  shown      \* what each device shows of its own scans

registerVars == <<verdict, spent, shown>>

Scan == Device \X Ticket
Undecided == [result |-> "none", winner |-> {}]
Nothing == [t \in Ticket |-> "none"]

RegisterInit ==
  /\ verdict = [s \in Scan |-> Undecided]
  /\ spent = {}
  /\ shown = [d \in Device |-> Nothing]

Admitted(t) == {s \in Scan : s[2] = t /\ verdict[s].result = "accepted"}

Decide(s, result, winner) ==
  /\ verdict[s] = Undecided
  /\ verdict' = [verdict EXCEPT ![s] = [result |-> result, winner |-> winner]]
  /\ UNCHANGED shown

\* The first scan of a ticket that is let in is the only one.
Admit(s) ==
  /\ Admitted(s[2]) = {}
  /\ Decide(s, "accepted", {})
  /\ spent' = spent \cup {s[2]}

\* Another one is told which scan was let in.
TurnAway(s) ==
  /\ \E u \in Admitted(s[2]) : Decide(s, "conflict", {u})
  /\ UNCHANGED spent

\* A scan that is out of scope, or of a revoked ticket.
Refuse(s) ==
  /\ \E winner \in SUBSET Admitted(s[2]) : Decide(s, "rejected", winner)
  /\ UNCHANGED spent

\* A device shows some of the verdicts it lost by; it may forget others.
Show(d) ==
  /\ \E marks \in [Ticket -> {"none", "conflict", "rejected"}] :
       /\ \A t \in Ticket : marks[t] # "none" => verdict[<<d, t>>].result = marks[t]
       /\ shown' = [shown EXCEPT ![d] = marks]
  /\ UNCHANGED <<verdict, spent>>

\* Tickets are revoked.
Void ==
  /\ \E S \in SUBSET Ticket : spent' = spent \cup S
  /\ UNCHANGED <<verdict, shown>>

RegisterNext ==
  \/ \E s \in Scan : Admit(s) \/ TurnAway(s) \/ Refuse(s)
  \/ \E d \in Device : Show(d)
  \/ Void

RegisterSpec == RegisterInit /\ [][RegisterNext]_registerVars
=============================================================================
