---------------------------- MODULE ScannerSetup ----------------------------
(***************************************************************************)
(* A scanner phone that changes hands: it is connected with the code of    *)
(* one device, then of another, while devices are assigned to other gates. *)
(* What it has loaded, what it admits, and what the backend says of that.  *)
(*                                                                         *)
(* SetupScreen starts a request and goes on; the answer is stored whenever *)
(* it comes.  Connecting clears assignment and manifest but not the queue. *)
(* Overlapping refreshes and check-ins by other phones are in CheckIn.     *)
(***************************************************************************)
EXTENDS Integers, Sequences, FiniteSets

CONSTANTS
  Code,            \* device codes, each with a scanner user of its own
  Place,           \* where a device may be assigned: a gate, and a zone of an event
  Pass, ZoneOf,    \* tickets, and the zone of each
  Nothing,         \* null, in the store of the phone
  MaxFullEntries,  \* entries of a manifest that is sent in one piece
  MaxAssignments, MaxCalls   \* bounds

\* null is none of the items that the phone keeps.
ASSUME NothingAssumption ==
  Nothing \notin [code : Code, gate : {p.gate : p \in Place}, zone : {p.zone : p \in Place},
                  status : {"pending", "accepted", "rejected", "dropped"}]

VARIABLES
  assignments,     \* ScannerAssignment rows, in their order
  withdrawn,       \* tickets that are revoked
  phone,           \* the store: config, assignment, manifest
  held,            \* queue, and with it checkedInTicketRefs: items by ticket
  calls,           \* requests and answers on their way
  pushing,         \* Push Sync waits for its answer
  verdict          \* CheckInEvent rows

setupVars == <<assignments, withdrawn, phone, held, calls, pushing, verdict>>

None == [result |-> "none"]

SetupInit ==
  /\ assignments = <<>> /\ withdrawn = {}
  /\ phone = [config |-> Nothing, assignment |-> Nothing, manifest |-> Nothing]
  /\ held = [t \in Pass |-> Nothing]
  /\ calls = {} /\ pushing = FALSE
  /\ verdict = [t \in Pass |-> None]

-----------------------------------------------------------------------------
(* The organizer.  ScannerDevices has what happens between the statements.  *)

AssignmentsOf(c) == {i \in DOMAIN assignments : assignments[i].code = c}
\* getAuthorizedActiveAssignment: the last one.
HasAssignment(c) == AssignmentsOf(c) # {}
ActiveOf(c) == CHOOSE i \in AssignmentsOf(c) : \A j \in AssignmentsOf(c) : j <= i

Assign(c, p) ==
  /\ Len(assignments) < MaxAssignments
  /\ assignments' = Append(assignments, [code |-> c, gate |-> p.gate, zone |-> p.zone])
  /\ UNCHANGED <<withdrawn, phone, held, calls, pushing, verdict>>

Withdraw(t) ==
  /\ t \notin withdrawn /\ withdrawn' = withdrawn \cup {t}
  /\ UNCHANGED <<assignments, phone, held, calls, pushing, verdict>>

-----------------------------------------------------------------------------
(* The phone                                                               *)

Send(call) == Cardinality(calls) < MaxCalls /\ calls' = calls \cup {call}

\* parseScannerSetupQr or the form, then connectWithConfig.
Connect(c) ==
  /\ phone' = [config |-> c, assignment |-> Nothing, manifest |-> Nothing]
  /\ Send([ask |-> "assignment", code |-> c])
  /\ UNCHANGED <<assignments, withdrawn, held, pushing, verdict>>

\* handleFetchManifest
AskManifest ==
  /\ phone.config # Nothing /\ phone.assignment # Nothing
  /\ Send([ask |-> "manifest", code |-> phone.config, assignment |-> phone.assignment.id])
  /\ UNCHANGED <<assignments, withdrawn, phone, held, pushing, verdict>>

\* An answer is stored, whatever the phone is connected with by now.
StoreAnswer ==
  /\ \E a \in calls :
       /\ a.ask \in {"give assignment", "give manifest"}
       /\ calls' = calls \ {a}
       /\ phone' = IF a.ask = "give assignment" THEN [phone EXCEPT !.assignment = a.body]
                   ELSE [phone EXCEPT !.manifest = a.body]
  /\ UNCHANGED <<assignments, withdrawn, held, pushing, verdict>>

\* validateLocalScan: the entries of a manifest have its gate and zone, and
\* are compared with the assignment that is stored now.  Guests are no tickets.
ValidLocally(t) ==
  /\ phone.manifest # Nothing /\ phone.assignment # Nothing
  /\ t \in phone.manifest.tickets \ phone.manifest.revoked
  /\ held[t] = Nothing
  /\ phone.manifest.gate = phone.assignment.gate
  /\ phone.manifest.zone = phone.assignment.zone

\* processScan, buildPendingQueueEvent, recordPendingScan.
AdmitTicket(t) ==
  /\ ValidLocally(t)
  /\ held' = [held EXCEPT ![t] =
       [code |-> phone.assignment.code, gate |-> phone.assignment.gate,
        zone |-> phone.assignment.zone, status |-> "pending"]]
  /\ UNCHANGED <<assignments, withdrawn, phone, calls, pushing, verdict>>

PendingItems == {t \in Pass : held[t] # Nothing /\ held[t].status = "pending"}

\* handleSync
Push ==
  /\ Nothing \notin {phone.config, phone.assignment, phone.manifest}
  /\ PendingItems # {} /\ ~pushing /\ pushing' = TRUE
  /\ Send([ask |-> "sync", code |-> phone.config, assignment |-> phone.assignment.id,
           events |-> [t \in PendingItems |-> held[t]]])
  /\ UNCHANGED <<assignments, withdrawn, phone, held, verdict>>

\* The queue of the push is put back with the results: what was scanned since
\* is dropped from it.  An accepted item leaves it too, but both references
\* stay in checkedInTicketRefs: all of them are held.
StoreResults ==
  /\ \E a \in calls :
       /\ a.ask = "give results"
       /\ calls' = calls \ {a}
       /\ held' = [t \in Pass |->
            IF t \in DOMAIN a.body THEN [held[t] EXCEPT !.status = a.body[t]]
            ELSE IF t \in PendingItems THEN [held[t] EXCEPT !.status = "dropped"]
            ELSE held[t]]
  /\ pushing' = FALSE
  /\ UNCHANGED <<assignments, withdrawn, phone, verdict>>

\* The answer is lost, or an error: the phone shows it and changes nothing.
Fail(call) == calls' = calls \ {call} /\ pushing' = (pushing /\ call.ask \notin {"sync", "give results"})

AnswerLost ==
  /\ \E call \in calls : Fail(call)
  /\ UNCHANGED <<assignments, withdrawn, phone, held, verdict>>

-----------------------------------------------------------------------------
(* The backend                                                             *)

Respond(call, ask, body) ==
  /\ calls' = (calls \ {call}) \cup {[ask |-> ask, body |-> body]}
  /\ UNCHANGED pushing

\* getCurrentAssignment
GiveAssignment(call) ==
  /\ call.ask = "assignment"
  /\ IF HasAssignment(call.code)
     THEN LET i == ActiveOf(call.code)
          IN Respond(call, "give assignment",
                    [id |-> i, code |-> call.code, gate |-> assignments[i].gate,
                     zone |-> assignments[i].zone])
     ELSE Fail(call)
  /\ UNCHANGED <<assignments, withdrawn, phone, held, verdict>>

TicketsIn(z) == {t \in Pass : ZoneOf[t] = z}

\* getManifest, which the phone asks for in one piece.
GiveManifest(call) ==
  /\ call.ask = "manifest"
  /\ LET i == ActiveOf(call.code)
         z == assignments[i].zone
         revoked == TicketsIn(z) \cap withdrawn
     IN IF /\ HasAssignment(call.code) /\ call.assignment = i
           /\ Cardinality(TicketsIn(z)) + Cardinality(revoked) <= MaxFullEntries
        THEN Respond(call, "give manifest",
                    [gate |-> assignments[i].gate, zone |-> z,
                     tickets |-> TicketsIn(z), revoked |-> revoked])
        ELSE Fail(call)
  /\ UNCHANGED <<assignments, withdrawn, phone, held, verdict>>

\* Faulty variant: the zone is all that counts.
ZoneOnly(call, t, i) ==
  /\ call.assignment = i
  /\ call.events[t].zone = assignments[i].zone
  /\ t \in TicketsIn(assignments[i].zone) \ withdrawn

\* resolveCheckInRejectionReason, against the assignment that is active.
Acceptable(call, t, i) ==
  LET e == call.events[t]
  IN /\ call.assignment = i
     /\ e.code = call.code
     /\ e.gate = assignments[i].gate /\ e.zone = assignments[i].zone
     /\ t \in TicketsIn(assignments[i].zone) \ withdrawn

\* Events of another device make validateSyncEnvelope refuse the whole batch.
SoundEnvelope(call) == \A t \in DOMAIN call.events : call.events[t].code = call.code

\* syncCheckIns; an event that is known is replayed.
Sync(call) ==
  /\ call.ask = "sync"
  /\ IF SoundEnvelope(call) /\ HasAssignment(call.code)
     THEN LET i == ActiveOf(call.code)
              result(t) ==
                IF verdict[t] # None THEN verdict[t]
                ELSE [result |-> IF Acceptable(call, t, i) THEN "accepted" ELSE "rejected",
                      assignment |-> i, asked |-> call.assignment, item |-> call.events[t],
                      revoked |-> t \in withdrawn]
          IN /\ verdict' = [t \in Pass |->
                  IF t \in DOMAIN call.events THEN result(t) ELSE verdict[t]]
             /\ Respond(call, "give results",
                       [t \in DOMAIN call.events |-> result(t).result])
     ELSE Fail(call) /\ UNCHANGED verdict
  /\ UNCHANGED <<assignments, withdrawn, phone, held>>

SetupNext ==
  \/ \E c \in Code, p \in Place : Assign(c, p)
  \/ \E c \in Code : Connect(c)
  \/ \E t \in Pass : Withdraw(t) \/ AdmitTicket(t)
  \/ AskManifest \/ StoreAnswer \/ Push \/ StoreResults \/ AnswerLost
  \/ \E call \in calls : GiveAssignment(call) \/ GiveManifest(call) \/ Sync(call)

SetupSpec == SetupInit /\ [][SetupNext]_setupVars

-----------------------------------------------------------------------------
(* Properties                                                              *)

\* blueprint/specs/offline-check-in.md:54: whatever the phone has loaded in
\* which order, it admits tickets of the zone it is there for, and the backend
\* books a check-in at the gate and for the device where it was made.
GatesKeepTheirScope ==
  \A t \in Pass :
    /\ held[t] # Nothing => held[t].zone = ZoneOf[t]
    /\ verdict[t].result = "accepted" =>
         LET a == assignments[verdict[t].assignment]
         IN verdict[t].item.code = a.code /\ verdict[t].item.gate = a.gate /\ a.zone = ZoneOf[t]

\* What a phone has admitted is turned down by the backend only if the ticket
\* was revoked, or the device got another assignment, or the answer for
\* another device code came late and the phone took its assignment.
RejectionsAreExplained ==
  \A t \in Pass : verdict[t].result = "rejected" =>
    \/ verdict[t].revoked
    \/ Cardinality(AssignmentsOf(verdict[t].item.code)) > 1
    \/ assignments[verdict[t].asked].code # verdict[t].item.code

\* Phone and backend agree on who is admitted where.
ScansKeepTheirPlace == GatesKeepTheirScope /\ RejectionsAreExplained
=============================================================================
