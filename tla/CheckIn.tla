------------------------------- MODULE CheckIn -------------------------------
(***************************************************************************)
(* Checking tickets in: the scanner app with its offline queue, and the    *)
(* scanner module of the backend with the manifest projection.             *)
(*                                                                         *)
(* Each device has one assignment, and all of them are for the same event  *)
(* and zone.  A request is handled statement by statement.  A check-in is  *)
(* recorded in a SERIALIZABLE transaction whose snapshot is taken before   *)
(* it waits for the advisory lock of the ticket, so what it knows about    *)
(* the ticket is what had been committed when it began; PostgreSQL refuses *)
(* its commit when that makes a difference.                                *)
(***************************************************************************)
EXTENDS Integers, FiniteSets

CONSTANTS Device,    \* scanner devices, one active assignment each
          Ticket,    \* ticketRefs of the zone
          Slot,      \* requests in flight
          NoSlot,
          MaxPush    \* bound: how often the devices push their queues

ASSUME CheckInAssumption == NoSlot \notin Slot /\ MaxPush \in Nat

\* A device records a ticket at most once, so a clientEventId is known by both.
Scan == Device \X Ticket
TicketOf(s) == s[2]

VARIABLES
  manifest,      \* the manifest stored on each device
  queue,         \* the offline queue of each device, and
  checkedIn,     \* its checkedInTicketRefs
  sync,          \* the Push Sync a device waits for
  pushes,        \* how many there have been so far, for the bound
  request,       \* requests the backend is working on
  event,         \* CheckInEvent rows
  ticketStatus,  \* Ticket.status
  projection,    \* the manifest of each assignment in the database
  canceling      \* tickets the cancellation of the concert is about to revoke

deviceVars == <<manifest, queue, checkedIn, sync, pushes>>
ticketVars == <<ticketStatus, canceling>>
checkInVars == <<deviceVars, request, event, ticketVars, projection>>

Result == {"accepted", "conflict", "rejected"}
TicketStatus == {"issued", "checked_in", "revoked"}

NoEvent == [result |-> "none", winner |-> {}]
Decided(s) == event[s] # NoEvent
Accepted(s) == event[s].result = "accepted"
EventsOf(t) == {s \in Scan : TicketOf(s) = t /\ Decided(s)}

NoSync == [slot |-> NoSlot, queue |-> <<>>]
Pending(d) == {t \in Ticket : queue[d][t] = "pending"}

\* A batch of check-ins, from a device that has the manifest of that version.
NoReplies == [t \in Ticket |-> "none"]
NoRead == [status |-> <<>>, newly |-> {}, version |-> 0]
NoAttempt == [ticket |-> NoSlot, seen |-> {}, was |-> "issued"]
Request(stage, d, version, todo) ==
  [stage |-> stage, device |-> d, todo |-> todo, version |-> version,
   inScope |-> TRUE, read |-> NoRead, revoked |-> {}, replies |-> NoReplies,
   attempt |-> NoAttempt]
Idle == Request("idle", NoSlot, 0, {})

CheckInInit ==
  /\ manifest = [d \in Device |-> [version |-> 1, revoked |-> {}]]
  /\ queue = [d \in Device |-> [t \in Ticket |-> "none"]]
  /\ checkedIn = [d \in Device |-> {}]
  /\ sync = [d \in Device |-> NoSync]
  /\ pushes = 0
  /\ request = [x \in Slot |-> Idle]
  /\ event = [s \in Scan |-> NoEvent]
  /\ ticketStatus = [t \in Ticket |-> "issued"]
  /\ projection = [d \in Device |->
       [version |-> 1, status |-> [t \in Ticket |-> "issued"], revoked |-> {}]]
  /\ canceling = {}

-----------------------------------------------------------------------------
(* The device                                                              *)

\* A ticket is scanned: validateLocalScan, then recordPendingScan.
ScanTicket(d, t) ==
  /\ t \notin manifest[d].revoked
  /\ t \notin checkedIn[d] /\ queue[d][t] = "none"
  /\ queue' = [queue EXCEPT ![d][t] = "pending"]
  /\ checkedIn' = [checkedIn EXCEPT ![d] = @ \cup {t}]
  /\ UNCHANGED <<manifest, sync, pushes, request, event, ticketVars, projection>>

\* Push Sync: the pending scans are sent, and the queue as it is now stays in
\* the closure that waits for the answer.
PushSync(d, x) ==
  /\ sync[d] = NoSync /\ Pending(d) # {} /\ request[x] = Idle
  /\ pushes < MaxPush
  /\ pushes' = pushes + 1
  /\ sync' = [sync EXCEPT ![d] = [slot |-> x, queue |-> queue[d]]]
  /\ request' = [request EXCEPT ![x] = Request("arrived", d, manifest[d].version, Pending(d))]
  /\ UNCHANGED <<manifest, queue, checkedIn, event, ticketVars, projection>>

\* A queue after the answer: what was accepted is dropped, the rest is kept
\* with its result.
Reconciled(before, replies) ==
  [t \in Ticket |->
     IF before[t] # "pending" \/ replies[t] = "none" THEN before[t]
     ELSE IF replies[t] = "accepted" THEN "none" ELSE replies[t]]

\* The answer arrives, and the queue in the closure replaces the stored one.
SyncAnswered(d) ==
  LET x == sync[d].slot
  IN /\ sync[d] # NoSync
     /\ request[x].stage = "done" /\ request[x].device = d
     /\ queue' = [queue EXCEPT ![d] = Reconciled(sync[d].queue, request[x].replies)]
     /\ sync' = [sync EXCEPT ![d] = NoSync]
     /\ request' = [request EXCEPT ![x] = Idle]
     /\ UNCHANGED <<manifest, checkedIn, pushes, event, ticketVars, projection>>

\* No answer: an error, a lost connection, or the app was restarted.  The
\* backend may go on with the request.
SyncFails(d) ==
  /\ sync[d] # NoSync
  /\ sync' = [sync EXCEPT ![d] = NoSync]
  /\ UNCHANGED <<manifest, queue, checkedIn, pushes, request, event, ticketVars, projection>>

-----------------------------------------------------------------------------
(* The backend: a batch, and a manifest, begin with the assignment and the  *)
(* refresh of its projection.                                              *)

Revoked(status) == {t \in Ticket : status[t] = "revoked"}

\* What refreshAssignment reads; version 0 leaves the version alone.
Refresh(p) ==
  LET newly == Revoked(ticketStatus) \ p.revoked
  IN [status |-> ticketStatus, newly |-> newly,
      version |-> IF p.status = ticketStatus /\ newly = {} THEN 0 ELSE p.version + 1]

\* The manifest after a refresh has written what it read.
Refreshed(p, read) ==
  [version |-> IF read.version = 0 THEN p.version ELSE read.version,
   status |-> read.status,
   revoked |-> p.revoked \cup read.newly]

\* getAuthorizedActiveAssignment: the batch will be compared with the manifest
\* version of this moment.  refreshAssignment reads assignment and tickets,
Authorize(x) ==
  LET q == request[x]
      p == projection[q.device]
  IN /\ q.stage = "arrived"
     /\ request' = [request EXCEPT ![x].stage = "refreshing",
                                   ![x].version = 0,
                                   ![x].inScope = q.version <= p.version,
                                   ![x].read = Refresh(p)]
     /\ UNCHANGED <<deviceVars, event, ticketVars, projection>>

\* and writes what it has read; a row for a revoked ticket is inserted, which
\* fails if there is one by now.
RefreshWrite(x) ==
  LET q == request[x]
      p == projection[q.device]
  IN /\ q.stage = "refreshing"
     /\ q.read.newly \cap p.revoked = {}
     /\ projection' = [projection EXCEPT ![q.device] = Refreshed(p, q.read)]
     /\ request' = [request EXCEPT ![x].stage = "refreshed", ![x].read = NoRead]
     /\ UNCHANGED <<deviceVars, event, ticketVars>>

\* getManifest, with its refresh, in one step: two batches show what refreshes
\* that overlap do to each other.
FetchManifest(d) ==
  LET p == Refreshed(projection[d], Refresh(projection[d]))
  IN /\ projection' = [projection EXCEPT ![d] = p]
     /\ manifest' = [manifest EXCEPT ![d] = [version |-> p.version, revoked |-> p.revoked]]
     /\ UNCHANGED <<queue, checkedIn, sync, pushes, request, event, ticketVars>>

\* A batch reads the manifest once, for all its events.
LoadBatch(x) ==
  LET q == request[x]
  IN /\ q.stage = "refreshed"
     /\ request' = [request EXCEPT ![x].stage = "batch",
                                   ![x].revoked = projection[q.device].revoked]
     /\ UNCHANGED <<deviceVars, event, ticketVars, projection>>

-----------------------------------------------------------------------------
(* recordCheckInAttempt                                                    *)

\* The batch goes on, or is answered when it was the last event.
Replied(q, t, result) ==
  [q EXCEPT !.stage = IF q.todo = {t} THEN "done" ELSE "batch",
            !.todo = @ \ {t},
            !.replies[t] = result,
            !.attempt = NoAttempt]

\* The transaction begins: a clientEventId that is known is replayed.
ReplayEvent(x) ==
  LET q == request[x]
  IN /\ q.stage = "batch"
     /\ \E t \in q.todo :
          /\ Decided(<<q.device, t>>)
          /\ request' = [request EXCEPT ![x] =
               Replied(q, t, event[<<q.device, t>>].result)]
     /\ UNCHANGED <<deviceVars, event, ticketVars, projection>>

\* Otherwise it goes to the advisory lock with the snapshot it has.
BeginAttempt(x) ==
  LET q == request[x]
  IN /\ q.stage = "batch"
     /\ \E t \in q.todo :
          /\ ~Decided(<<q.device, t>>)
          /\ request' = [request EXCEPT
               ![x].stage = "recording",
               ![x].attempt = [ticket |-> t, seen |-> EventsOf(t), was |-> ticketStatus[t]]]
     /\ UNCHANGED <<deviceVars, event, ticketVars, projection>>

Winners(q) == {s \in q.attempt.seen : Accepted(s)}

\* resolveCheckInRejectionReason and resolveResult.
AttemptResult(q) ==
  IF ~q.inScope \/ q.attempt.ticket \in q.revoked THEN "rejected"
  ELSE IF Winners(q) # {} THEN "conflict"
  ELSE "accepted"

\* Faulty variant: the isolation level is that of a plain snapshot.
SnapshotOnly(q) == ~Decided(<<q.device, q.attempt.ticket>>)

\* What PostgreSQL lets commit: the clientEventId is new; of two that accept
\* the ticket neither missed the other (each would have read what the other
\* one wrote); and the ticket row that is updated is as it was.
Serializable(q) ==
  /\ ~Decided(<<q.device, q.attempt.ticket>>)
  /\ AttemptResult(q) = "accepted" =>
       /\ \A s \in EventsOf(q.attempt.ticket) \ q.attempt.seen : ~Accepted(s)
       /\ q.attempt.was = "issued" => ticketStatus[q.attempt.ticket] = "issued"

\* Faulty variant: the ticket is left as it is.
RecordWithoutTicket(x) ==
  LET q == request[x]
      t == q.attempt.ticket
  IN /\ q.stage = "recording"
     /\ Serializable(q)
     /\ event' = [event EXCEPT ![<<q.device, t>>] =
          [result |-> AttemptResult(q), winner |-> Winners(q)]]
     /\ request' = [request EXCEPT ![x] = Replied(q, t, AttemptResult(q))]
     /\ UNCHANGED <<deviceVars, ticketVars, projection>>

\* The rest of the transaction, in which it alone has the advisory lock.
RecordAttempt(x) ==
  LET q == request[x]
      t == q.attempt.ticket
  IN /\ q.stage = "recording"
     /\ Serializable(q)
     /\ event' = [event EXCEPT ![<<q.device, t>>] =
          [result |-> AttemptResult(q), winner |-> Winners(q)]]
     /\ ticketStatus' = [ticketStatus EXCEPT ![t] =
          IF AttemptResult(q) = "accepted" /\ @ = "issued" THEN "checked_in" ELSE @]
     /\ request' = [request EXCEPT ![x] = Replied(q, t, AttemptResult(q))]
     /\ UNCHANGED <<deviceVars, canceling, projection>>

\* The request ends without its answer: a serialization failure or another
\* error, a crash, an answer that is lost.  Events recorded so far stay.
HandlerFails(x) ==
  /\ request[x] # Idle
  /\ request' = [request EXCEPT ![x] = Idle]
  /\ UNCHANGED <<deviceVars, event, ticketVars, projection>>

-----------------------------------------------------------------------------
(* The concert is canceled: cancelConcert reads the issued tickets and     *)
(* revokes them by id.                                                     *)

CancelSelect ==
  /\ canceling = {}
  /\ canceling' = {t \in Ticket : ticketStatus[t] = "issued"}
  /\ UNCHANGED <<deviceVars, request, event, ticketStatus, projection>>

CancelWrite ==
  /\ canceling # {}
  /\ ticketStatus' = [t \in Ticket |-> IF t \in canceling THEN "revoked" ELSE ticketStatus[t]]
  /\ canceling' = {}
  /\ UNCHANGED <<deviceVars, request, event, projection>>

-----------------------------------------------------------------------------
DeviceStep(d) ==
  \/ \E t \in Ticket : ScanTicket(d, t)
  \/ \E x \in Slot : PushSync(d, x)
  \/ SyncAnswered(d) \/ SyncFails(d) \/ FetchManifest(d)

Handle(x) ==
  \/ Authorize(x) \/ RefreshWrite(x) \/ LoadBatch(x) \/ ReplayEvent(x)
  \/ BeginAttempt(x) \/ RecordAttempt(x)

CheckInNext ==
  \/ \E d \in Device : DeviceStep(d)
  \/ \E x \in Slot : Handle(x) \/ HandlerFails(x)
  \/ CancelSelect \/ CancelWrite

CheckInSpec == CheckInInit /\ [][CheckInNext]_checkInVars

-----------------------------------------------------------------------------
(* Properties                                                              *)

CheckInTypeOK ==
  /\ manifest \in [Device -> [version : Nat, revoked : SUBSET Ticket]]
  /\ queue \in [Device -> [Ticket -> {"none", "pending", "conflict", "rejected"}]]
  /\ checkedIn \in [Device -> SUBSET Ticket]
  /\ \A d \in Device : sync[d].slot \in Slot \cup {NoSlot}
  /\ pushes \in 0 .. MaxPush
  /\ \A x \in Slot :
       /\ request[x].stage \in {"idle", "arrived", "refreshing", "refreshed",
                                "batch", "recording", "done"}
       /\ request[x].replies \in [Ticket -> Result \cup {"none"}]
       /\ request[x].stage \in {"batch", "recording"} => request[x].todo # {}
       /\ request[x].stage = "done" => request[x].todo = {}
  /\ event \in [Scan -> [result : Result, winner : SUBSET Scan] \cup {NoEvent}]
  /\ ticketStatus \in [Ticket -> TicketStatus]
  /\ canceling \subseteq Ticket
  /\ projection \in [Device -> [version : Nat, status : [Ticket -> TicketStatus],
                                revoked : SUBSET Ticket]]

\* blueprint/specs/offline-check-in.md, conflict resolution: a ticket has at
\* most one accepted check-in, however many devices had it in their queues,
\* send it at the same time and send it again.
OneAdmission ==
  \A s, u \in Scan : Accepted(s) /\ Accepted(u) /\ TicketOf(s) = TicketOf(u) => s = u

\* A conflict names the one accepted check-in of the ticket that it lost to,
\* and a ticket with an accepted check-in is no longer issued.
ConflictsAreTrue ==
  \A s \in Scan :
    /\ event[s].result = "conflict" =>
         \E u \in Scan \ {s} : event[s].winner = {u} /\ TicketOf(u) = TicketOf(s) /\ Accepted(u)
    /\ Accepted(s) => ticketStatus[TicketOf(s)] # "issued"

\* What a device shows for a scan it has an answer for is what the backend has
\* recorded, although answers get lost, batches are cut short and sent again.
AnswersAreTrue ==
  \A d \in Device, t \in Ticket :
    queue[d][t] \in {"conflict", "rejected"} => event[<<d, t>>].result = queue[d][t]

\* The verdicts of the backend are true, and the devices show them.
VerdictsAreTrue == ConflictsAreTrue /\ AnswersAreTrue

\* To whoever looks at events, tickets and the marks of the devices, the check-in
\* is a register of admissions: every step decides one scan for good, shows
\* what is decided, revokes tickets, or changes nothing that could be seen.
Shown == [d \in Device |-> [t \in Ticket |->
            IF queue[d][t] \in {"conflict", "rejected"} THEN queue[d][t] ELSE "none"]]
Spent == {t \in Ticket : ticketStatus[t] # "issued"}
Register == INSTANCE AdmissionRegister WITH verdict <- event, spent <- Spent, shown <- Shown
ImplementsRegister == Register!RegisterSpec

-----------------------------------------------------------------------------
(* What the documents say, and the code does not keep.                     *)

\* blueprint/07-protection-mechanisms.md:229: the app drops a scan only after
\* its acknowledgement.
KeptUntilAcknowledged ==
  \A d \in Device : \A t \in checkedIn[d] : queue[d][t] # "none" \/ Accepted(<<d, t>>)
=============================================================================
