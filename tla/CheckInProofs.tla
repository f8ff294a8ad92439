---------------------------- MODULE CheckInProofs ----------------------------
(***************************************************************************)
(* The safety properties of CheckIn, for any number of devices, tickets    *)
(* and requests in flight.  An admission is decided in one transaction, so *)
(* what has to be carried from step to step is what a request remembers:   *)
(* the events in its snapshot and the results in its answer are recorded,  *)
(* and so is what a device keeps in the closure of a Push Sync.            *)
(* The second part is about ScannerSetup, where a phone gets its place,    *)
(* the third about the demo data that a site starts with.                  *)
(***************************************************************************)
EXTENDS CheckIn, ScannerSetup, DemoSeed, FiniteSetTheorems, SequenceTheorems, TLAPS

Stage == {"idle", "arrived", "refreshing", "refreshed", "batch", "recording", "done"}
Unanswered == Stage \ {"idle", "done"}
Mark == {"none", "pending", "conflict", "rejected"}
Read == [status : [Ticket -> TicketStatus], newly : SUBSET Ticket, version : Nat]
Attempt == [ticket : Ticket, seen : SUBSET Scan, was : TicketStatus]
RequestRow ==
  [stage : Stage, device : Device \cup {NoSlot}, todo : SUBSET Ticket, version : Nat,
   inScope : BOOLEAN, read : Read \cup {NoRead}, revoked : SUBSET Ticket,
   replies : [Ticket -> Result \cup {"none"}], attempt : Attempt \cup {NoAttempt}]

\* Requests and closures; CheckInTypeOK leaves their details open.
RequestsTyped ==
  /\ request \in [Slot -> RequestRow]
  /\ sync \in [Device -> [slot : Slot, queue : [Ticket -> Mark]] \cup {NoSync}]

\* The rest of CheckInTypeOK.
TablesTyped ==
  /\ manifest \in [Device -> [version : Nat, revoked : SUBSET Ticket]]
  /\ queue \in [Device -> [Ticket -> Mark]]
  /\ checkedIn \in [Device -> SUBSET Ticket]
  /\ pushes \in 0 .. MaxPush
  /\ event \in [Scan -> [result : Result, winner : SUBSET Scan] \cup {NoEvent}]
  /\ ticketStatus \in [Ticket -> TicketStatus]
  /\ canceling \subseteq Ticket
  /\ projection \in [Device -> [version : Nat, status : [Ticket -> TicketStatus],
                                revoked : SUBSET Ticket]]

\* How far a request is says what it holds.
StageFits(q) ==
  /\ q.stage # "idle" => q.device \in Device
  /\ q.stage \in Unanswered => q.todo # {}
  /\ q.stage = "done" => q.todo = {}
  /\ q.stage = "refreshing" => q.read \in Read
  /\ q.stage = "recording" =>
       /\ q.attempt \in Attempt /\ q.attempt.ticket \in q.todo
       /\ q.attempt.seen \subseteq EventsOf(q.attempt.ticket)
StagesFit == \A x \in Slot : StageFits(request[x])

\* A result on its way to a device is recorded.
AnswerRecorded(q) ==
  q.stage # "idle" =>
    \A t \in Ticket : q.replies[t] # "none" => event[<<q.device, t>>].result = q.replies[t]
AnswersRecorded == \A x \in Slot : AnswerRecorded(request[x])

\* So is a result that a device remembers while it waits.
ClosuresTrue ==
  \A d \in Device, t \in Ticket :
    sync[d] # NoSync /\ sync[d].queue[t] \in {"conflict", "rejected"} =>
      event[<<d, t>>].result = sync[d].queue[t]

GateInv ==
  /\ TablesTyped /\ RequestsTyped
  /\ StagesFit /\ AnswersRecorded /\ ClosuresTrue
  /\ OneAdmission /\ ConflictsAreTrue /\ AnswersAreTrue

-----------------------------------------------------------------------------

\* The initial request of a slot.
LEMMA IdleIsTyped ==
  /\ Idle \in RequestRow /\ Idle.stage = "idle"
  /\ Idle.replies = NoReplies /\ Idle.todo = {}
<1>1. NoReplies \in [Ticket -> Result \cup {"none"}]
  BY DEF NoReplies
<1> QED
  BY <1>1 DEF Idle, Request, RequestRow, Stage

\* What the invariant says of types is what CheckInTypeOK says.
LEMMA GateIsTyped == GateInv => CheckInTypeOK
<1> SUFFICES ASSUME GateInv PROVE CheckInTypeOK  OBVIOUS
<1>1. \A d \in Device : sync[d].slot \in Slot \cup {NoSlot}
  BY DEF GateInv, RequestsTyped, NoSync
<1>2. \A x \in Slot :
        /\ request[x].stage \in {"idle", "arrived", "refreshing", "refreshed",
                                 "batch", "recording", "done"}
        /\ request[x].replies \in [Ticket -> Result \cup {"none"}]
        /\ request[x].stage \in {"batch", "recording"} => request[x].todo # {}
        /\ request[x].stage = "done" => request[x].todo = {}
  BY DEF GateInv, RequestsTyped, RequestRow, StagesFit, StageFits, Stage, Unanswered
<1> QED
  BY <1>1, <1>2 DEF GateInv, TablesTyped, CheckInTypeOK, Mark

LEMMA GateInitInv == CheckInInit => GateInv
<1> SUFFICES ASSUME CheckInInit PROVE GateInv  OBVIOUS
<1> USE DEF CheckInInit
<1>1. RequestsTyped
  BY IdleIsTyped DEF RequestsTyped
<1>2. TablesTyped
  BY CheckInAssumption DEF TablesTyped, Mark, TicketStatus
<1>3. StagesFit /\ AnswersRecorded
  BY IdleIsTyped DEF StagesFit, StageFits, AnswersRecorded, AnswerRecorded, Unanswered
<1>4. ClosuresTrue /\ AnswersAreTrue
  BY DEF ClosuresTrue, AnswersAreTrue
<1>5. OneAdmission /\ ConflictsAreTrue
  BY DEF OneAdmission, ConflictsAreTrue, Accepted, NoEvent
<1> QED
  BY <1>1, <1>2, <1>3, <1>4, <1>5 DEF GateInv

-----------------------------------------------------------------------------
(* What a step leaves alone.                                               *)

\* A recorded event stays.
EventsStay == \A s \in Scan : Decided(s) => event'[s] = event[s]

\* One request changes, and no event is taken back: the other requests still
\* fit, and what they are to answer is still recorded.
LEMMA SlotChanges ==
  ASSUME NEW x \in Slot, TablesTyped, RequestsTyped, StagesFit, AnswersRecorded, EventsStay,
         \A y \in Slot \ {x} : request'[y] = request[y],
         StageFits(request[x])', AnswerRecorded(request[x])'
  PROVE  StagesFit' /\ AnswersRecorded'
<1>1. ASSUME NEW y \in Slot, y # x
      PROVE  StageFits(request[y])' /\ AnswerRecorded(request[y])'
  <2> DEFINE q == request[y]
  <2>1. request'[y] = q /\ StageFits(q) /\ AnswerRecorded(q) /\ q \in RequestRow
    BY <1>1 DEF RequestsTyped, StagesFit, AnswersRecorded
  <2>2. EventsOf(q.attempt.ticket) \subseteq {s \in Scan : TicketOf(s) = q.attempt.ticket /\ event'[s] # NoEvent}
    BY DEF EventsOf, EventsStay, Decided
  <2>3. StageFits(request[y])'
    BY <2>1, <2>2 DEF StageFits, EventsOf, Decided
  <2>4. AnswerRecorded(request[y])'
    <3> SUFFICES ASSUME q.stage # "idle", NEW t \in Ticket, q.replies[t] # "none"
                 PROVE  event'[<<q.device, t>>].result = q.replies[t]
      BY <2>1 DEF AnswerRecorded
    <3>1. q.device \in Device /\ <<q.device, t>> \in Scan
      BY <2>1 DEF StageFits, Scan
    <3>2. event[<<q.device, t>>].result = q.replies[t]
      BY <2>1 DEF AnswerRecorded
    <3>3. Decided(<<q.device, t>>)
      BY <3>2 DEF Decided, NoEvent
    <3> QED
      BY <3>1, <3>2, <3>3 DEF EventsStay
  <2> QED
    BY <2>3, <2>4
<1> QED
  BY <1>1 DEF StagesFit, AnswersRecorded

\* A step that touches neither events nor tickets keeps the admissions.
LEMMA AdmissionsStay ==
  ASSUME OneAdmission, ConflictsAreTrue, UNCHANGED <<event, ticketStatus>>
  PROVE  EventsStay /\ OneAdmission' /\ ConflictsAreTrue'
  BY DEF OneAdmission, ConflictsAreTrue, Accepted, EventsStay

\* So do the devices, when neither events nor queues change.
LEMMA AnswersStay ==
  ASSUME AnswersAreTrue, ClosuresTrue, UNCHANGED <<event, queue, sync>>
  PROVE  AnswersAreTrue' /\ ClosuresTrue'
  BY DEF AnswersAreTrue, ClosuresTrue

-----------------------------------------------------------------------------
(* The devices                                                             *)

LEMMA ScanTicketKeeps ==
  ASSUME GateInv, NEW d \in Device, NEW t \in Ticket, ScanTicket(d, t)
  PROVE  GateInv'
<1> USE DEF GateInv, ScanTicket, ticketVars
<1>1. TablesTyped'
  BY DEF TablesTyped, Mark
<1>2. RequestsTyped'
  BY DEF RequestsTyped
<1>3. StagesFit' /\ AnswersRecorded'
  BY DEF StagesFit, StageFits, AnswersRecorded, AnswerRecorded, EventsOf, Decided
<1>4. ClosuresTrue'
  BY DEF ClosuresTrue
<1>5. AnswersAreTrue'
  BY DEF AnswersAreTrue, TablesTyped
<1> QED
  BY <1>1, <1>2, <1>3, <1>4, <1>5, AdmissionsStay

LEMMA PushSyncKeeps ==
  ASSUME GateInv, NEW d \in Device, NEW x \in Slot, PushSync(d, x)
  PROVE  GateInv'
<1> DEFINE q == Request("arrived", d, manifest[d].version, Pending(d))
<1> USE DEF GateInv, PushSync, ticketVars
<1>1. TablesTyped'
  BY CheckInAssumption DEF TablesTyped
<1>2. q \in RequestRow /\ q.stage = "arrived" /\ q.device = d /\ q.todo # {} /\ q.replies = NoReplies
  <2>1. NoReplies \in [Ticket -> Result \cup {"none"}]
    BY DEF NoReplies
  <2> QED
    BY <2>1 DEF Request, RequestRow, Stage, Pending, TablesTyped
<1>3. request'[x] = q /\ \A y \in Slot \ {x} : request'[y] = request[y]
  BY DEF RequestsTyped
<1>4. RequestsTyped'
  BY <1>2 DEF RequestsTyped, TablesTyped
<1>5. StageFits(request[x])' /\ AnswerRecorded(request[x])'
  BY <1>2, <1>3 DEF StageFits, AnswerRecorded, NoReplies, Unanswered
<1>6. AnswersAreTrue'
  BY DEF AnswersAreTrue
<1>7. ClosuresTrue'
  BY DEF ClosuresTrue, AnswersAreTrue, RequestsTyped
<1> QED
  BY <1>1, <1>3, <1>4, <1>5, <1>6, <1>7, AdmissionsStay, SlotChanges

\* The closure and the answer are both true, and so is what comes of them.
LEMMA SyncAnsweredKeeps ==
  ASSUME GateInv, NEW d \in Device, SyncAnswered(d)
  PROVE  GateInv'
<1> USE DEF GateInv, SyncAnswered, ticketVars
<1> PICK x \in Slot : x = sync[d].slot
  BY DEF RequestsTyped
<1> DEFINE before == sync[d].queue
           replies == request[x].replies
<1>1. x \in Slot /\ before \in [Ticket -> Mark] /\ request[x] \in RequestRow
  BY DEF RequestsTyped
<1>2. Reconciled(before, replies) \in [Ticket -> Mark]
  BY <1>1 DEF Reconciled, Mark, RequestRow, Result
<1>3. TablesTyped'
  BY <1>2 DEF TablesTyped
<1>4. RequestsTyped'
  BY <1>1, IdleIsTyped DEF RequestsTyped
<1>5. request'[x] = Idle /\ \A y \in Slot \ {x} : request'[y] = request[y]
  BY <1>1 DEF RequestsTyped
<1>6. StageFits(request[x])' /\ AnswerRecorded(request[x])'
  BY <1>5, IdleIsTyped DEF StageFits, AnswerRecorded, Unanswered
<1>7. ClosuresTrue'
  BY DEF ClosuresTrue, RequestsTyped
<1>8. ASSUME NEW t \in Ticket, Reconciled(before, replies)[t] \in {"conflict", "rejected"}
      PROVE  event[<<d, t>>].result = Reconciled(before, replies)[t]
  <2>1. CASE before[t] # "pending" \/ replies[t] = "none"
    BY <1>8, <2>1 DEF Reconciled, ClosuresTrue
  <2>2. CASE ~(before[t] # "pending" \/ replies[t] = "none")
    <3>1. Reconciled(before, replies)[t] = replies[t]
      BY <1>8, <2>2 DEF Reconciled
    <3> QED
      BY <1>1, <2>2, <3>1 DEF AnswersRecorded, AnswerRecorded
  <2> QED
    BY <2>1, <2>2
<1>9. AnswersAreTrue'
  <2> SUFFICES ASSUME NEW e \in Device, NEW t \in Ticket, queue'[e][t] \in {"conflict", "rejected"}
               PROVE  event'[<<e, t>>].result = queue'[e][t]
    BY DEF AnswersAreTrue
  <2>1. CASE e = d
    BY <1>8, <2>1 DEF TablesTyped
  <2>2. CASE e # d
    BY <2>2 DEF TablesTyped, AnswersAreTrue
  <2> QED
    BY <2>1, <2>2
<1> QED
  BY <1>1, <1>3, <1>4, <1>5, <1>6, <1>7, <1>9, AdmissionsStay, SlotChanges

LEMMA SyncFailsKeeps ==
  ASSUME GateInv, NEW d \in Device, SyncFails(d)
  PROVE  GateInv'
<1> USE DEF GateInv, SyncFails, ticketVars
<1>1. TablesTyped'
  BY DEF TablesTyped
<1>2. RequestsTyped'
  BY DEF RequestsTyped
<1>3. StagesFit' /\ AnswersRecorded'
  BY DEF StagesFit, StageFits, AnswersRecorded, AnswerRecorded, EventsOf, Decided
<1>4. ClosuresTrue' /\ AnswersAreTrue'
  BY DEF ClosuresTrue, AnswersAreTrue, RequestsTyped
<1> QED
  BY <1>1, <1>2, <1>3, <1>4, AdmissionsStay

\* A refresh keeps the projection a projection.
LEMMA RefreshTyped ==
  ASSUME TablesTyped, NEW d \in Device
  PROVE  /\ Refresh(projection[d]) \in Read
         /\ \A read \in Read : Refreshed(projection[d], read) \in
              [version : Nat, status : [Ticket -> TicketStatus], revoked : SUBSET Ticket]
  BY DEF TablesTyped, Refresh, Refreshed, Read, Revoked

LEMMA FetchManifestKeeps ==
  ASSUME GateInv, NEW d \in Device, FetchManifest(d)
  PROVE  GateInv'
<1> USE DEF GateInv, FetchManifest, ticketVars
<1>1. TablesTyped'
  BY RefreshTyped DEF TablesTyped
<1>2. RequestsTyped'
  BY DEF RequestsTyped
<1>3. StagesFit' /\ AnswersRecorded'
  BY DEF StagesFit, StageFits, AnswersRecorded, AnswerRecorded, EventsOf, Decided
<1> QED
  BY <1>1, <1>2, <1>3, AnswersStay, AdmissionsStay

-----------------------------------------------------------------------------
(* The backend, as far as it records nothing.                              *)

\* A request changes that is not answered by the step, and nothing else that
\* the properties are about does.
LEMMA RequestMoves ==
  ASSUME GateInv, NEW x \in Slot, UNCHANGED <<deviceVars, event, ticketVars>>, TablesTyped',
         request' = [request EXCEPT ![x] = request'[x]],
         request'[x] \in RequestRow,
         StageFits(request[x])', AnswerRecorded(request[x])'
  PROVE  GateInv'
<1> USE DEF GateInv, deviceVars, ticketVars
<1>1. RequestsTyped'
  BY DEF RequestsTyped
<1>2. \A y \in Slot \ {x} : request'[y] = request[y]
  BY DEF RequestsTyped
<1> QED
  BY <1>1, <1>2, AdmissionsStay, AnswersStay, SlotChanges

LEMMA AuthorizeKeeps ==
  ASSUME GateInv, NEW x \in Slot, Authorize(x)
  PROVE  GateInv'
<1> USE DEF GateInv
<1> DEFINE q == request[x]
<1>1. q \in RequestRow /\ q.device \in Device /\ q.stage = "arrived"
  BY DEF RequestsTyped, StagesFit, StageFits, Authorize
<1>2. Refresh(projection[q.device]) \in Read
  BY <1>1, RefreshTyped
<1>3. /\ request'[x] = [q EXCEPT !.stage = "refreshing", !.version = 0,
                          !.inScope = q.version <= projection[q.device].version,
                          !.read = Refresh(projection[q.device])]
      /\ request' = [request EXCEPT ![x] = request'[x]]
  BY Zenon DEF RequestsTyped, Authorize
<1>4. "refreshing" \in Stage /\ 0 \in Nat /\ (q.version <= projection[q.device].version) \in BOOLEAN
  BY DEF Stage
<1>5. /\ request'[x] \in RequestRow
      /\ request'[x].stage = "refreshing" /\ request'[x].device = q.device
      /\ request'[x].todo = q.todo /\ request'[x].replies = q.replies
      /\ request'[x].read \in Read
  <2>1. PICK read \in Read, ok \in BOOLEAN :
          read = Refresh(projection[q.device]) /\ ok = (q.version <= projection[q.device].version)
    BY <1>2, <1>4
  <2> HIDE DEF q
  <2>2. request'[x] = [q EXCEPT !.stage = "refreshing", !.version = 0, !.inScope = ok, !.read = read]
    BY <1>3, <2>1, Zenon
  <2> QED
    BY <1>1, <1>4, <2>2, Zenon DEF RequestRow
<1>6. StageFits(request[x])' /\ AnswerRecorded(request[x])'
  BY <1>1, <1>5 DEF StageFits, AnswerRecorded, StagesFit, AnswersRecorded, Unanswered, Stage, Authorize
<1>7. TablesTyped'
  BY DEF TablesTyped, deviceVars, ticketVars, Authorize
<1> QED
  BY <1>3, <1>5, <1>6, <1>7, RequestMoves DEF Authorize

LEMMA RefreshWriteKeeps ==
  ASSUME GateInv, NEW x \in Slot, RefreshWrite(x)
  PROVE  GateInv'
<1> USE DEF GateInv
<1> DEFINE q == request[x]
<1>1. q \in RequestRow /\ q.device \in Device /\ q.stage = "refreshing" /\ q.read \in Read
  BY DEF RequestsTyped, StagesFit, StageFits, RefreshWrite
<1>2. /\ request'[x] = [q EXCEPT !.stage = "refreshed", !.read = NoRead]
      /\ request' = [request EXCEPT ![x] = request'[x]]
  BY Zenon DEF RequestsTyped, RefreshWrite
<1>3. "refreshed" \in Stage
  BY DEF Stage, RefreshWrite
<1>4. /\ request'[x] \in RequestRow
      /\ request'[x].stage = "refreshed" /\ request'[x].device = q.device
      /\ request'[x].todo = q.todo /\ request'[x].replies = q.replies
  <2> HIDE DEF q
  <2> QED
    BY <1>1, <1>2, <1>3, Zenon DEF RequestRow
<1>5. StageFits(request[x])' /\ AnswerRecorded(request[x])'
  BY <1>1, <1>4 DEF StageFits, AnswerRecorded, StagesFit, AnswersRecorded, Unanswered, Stage, RefreshWrite
<1>6. TablesTyped'
  BY <1>1, RefreshTyped DEF TablesTyped, deviceVars, ticketVars, RefreshWrite
<1> QED
  BY <1>2, <1>4, <1>5, <1>6, RequestMoves DEF RefreshWrite

LEMMA LoadBatchKeeps ==
  ASSUME GateInv, NEW x \in Slot, LoadBatch(x)
  PROVE  GateInv'
<1> USE DEF GateInv
<1> DEFINE q == request[x]
<1>1. q \in RequestRow /\ q.device \in Device /\ q.stage = "refreshed"
  BY DEF RequestsTyped, StagesFit, StageFits, LoadBatch
<1>2. /\ request'[x] = [q EXCEPT !.stage = "batch", !.revoked = projection[q.device].revoked]
      /\ request' = [request EXCEPT ![x] = request'[x]]
  BY Zenon DEF RequestsTyped, LoadBatch
<1>3. "batch" \in Stage /\ projection[q.device].revoked \in SUBSET Ticket
  BY <1>1 DEF Stage, TablesTyped, LoadBatch
<1>4. /\ request'[x] \in RequestRow
      /\ request'[x].stage = "batch" /\ request'[x].device = q.device
      /\ request'[x].todo = q.todo /\ request'[x].replies = q.replies
  <2>1. PICK revoked \in SUBSET Ticket : revoked = projection[q.device].revoked
    BY <1>3
  <2> HIDE DEF q
  <2>2. request'[x] = [q EXCEPT !.stage = "batch", !.revoked = revoked]
    BY <1>2, <2>1, Zenon
  <2> QED
    BY <1>1, <1>3, <2>2, Zenon DEF RequestRow
<1>5. StageFits(request[x])' /\ AnswerRecorded(request[x])'
  BY <1>1, <1>4 DEF StageFits, AnswerRecorded, StagesFit, AnswersRecorded, Unanswered, Stage, LoadBatch
<1>6. TablesTyped'
  BY DEF TablesTyped, deviceVars, ticketVars, LoadBatch
<1> QED
  BY <1>2, <1>4, <1>5, <1>6, RequestMoves DEF LoadBatch

\* A batch that goes on after one of its events, with the result of the event.
LEMMA RepliedFits ==
  ASSUME NEW q \in RequestRow, q.device \in Device, NEW t \in q.todo, NEW result \in Result
  PROVE  /\ Replied(q, t, result) \in RequestRow
         /\ Replied(q, t, result).device = q.device
         /\ Replied(q, t, result).stage \in {"batch", "done"}
         /\ Replied(q, t, result).stage = "batch" => Replied(q, t, result).todo # {}
         /\ Replied(q, t, result).stage = "done" => Replied(q, t, result).todo = {}
         /\ Replied(q, t, result).replies = [q.replies EXCEPT ![t] = result]
<1> DEFINE stage == IF q.todo = {t} THEN "done" ELSE "batch"
           p == Replied(q, t, result)
<1>1. p = [q EXCEPT !.stage = stage, !.todo = q.todo \ {t},
                    !.replies = [q.replies EXCEPT ![t] = result], !.attempt = NoAttempt]
  BY Zenon DEF Replied, RequestRow
<1>2. stage \in Stage /\ q.todo \ {t} \in SUBSET Ticket
  BY DEF Stage, RequestRow
<1>3. [q.replies EXCEPT ![t] = result] \in [Ticket -> Result \cup {"none"}]
  BY DEF RequestRow
<1>4. p \in RequestRow
  BY <1>1, <1>2, <1>3, Zenon DEF RequestRow
<1>5. /\ p.stage = stage /\ p.todo = q.todo \ {t} /\ p.device = q.device
      /\ p.replies = [q.replies EXCEPT ![t] = result]
  BY <1>1, Zenon DEF RequestRow
<1> HIDE DEF p
<1>6. /\ p.stage \in {"batch", "done"}
      /\ p.stage = "batch" => p.todo # {}
      /\ p.stage = "done" => p.todo = {}
  BY <1>5
<1> QED
  BY <1>4, <1>5, <1>6 DEF p

\* It fits, and its answer is recorded if the event is.
LEMMA RepliedIsRecorded ==
  ASSUME RequestsTyped, StagesFit, AnswersRecorded, EventsStay,
         NEW x \in Slot, request[x].stage # "idle", NEW t \in request[x].todo, NEW result \in Result,
         request'[x] = Replied(request[x], t, result),
         event'[<<request[x].device, t>>].result = result
  PROVE  request'[x] \in RequestRow /\ StageFits(request[x])' /\ AnswerRecorded(request[x])'
<1> DEFINE q == request[x]
<1>1. q \in RequestRow /\ q.device \in Device /\ AnswerRecorded(q)
  BY DEF RequestsTyped, StagesFit, StageFits, AnswersRecorded
<1>2. /\ request'[x] \in RequestRow
      /\ request'[x].device = q.device
      /\ request'[x].stage \in {"batch", "done"}
      /\ request'[x].stage = "batch" => request'[x].todo # {}
      /\ request'[x].stage = "done" => request'[x].todo = {}
      /\ request'[x].replies = [q.replies EXCEPT ![t] = result]
  BY <1>1, RepliedFits
<1>3. StageFits(request[x])'
  BY <1>1, <1>2 DEF StageFits, Unanswered, Stage
<1>4. ASSUME NEW u \in Ticket, request'[x].replies[u] # "none"
      PROVE  event'[<<q.device, u>>].result = request'[x].replies[u]
  <2>1. CASE u = t
    BY <1>1, <1>2, <2>1 DEF RequestRow
  <2>2. CASE u # t
    <3>1. request'[x].replies[u] = q.replies[u]
      BY <1>1, <1>2, <2>2 DEF RequestRow
    <3>2. event[<<q.device, u>>].result = q.replies[u]
      BY <1>1, <1>4, <3>1 DEF AnswerRecorded
    <3>3. <<q.device, u>> \in Scan /\ Decided(<<q.device, u>>)
      BY <1>1, <1>4, <3>1, <3>2 DEF Scan, Decided, NoEvent
    <3> QED
      BY <3>1, <3>2, <3>3 DEF EventsStay
  <2> QED
    BY <2>1, <2>2
<1>5. AnswerRecorded(request[x])'
  BY <1>2, <1>4 DEF AnswerRecorded
<1> QED
  BY <1>2, <1>3, <1>5

LEMMA ReplayEventKeeps ==
  ASSUME GateInv, NEW x \in Slot, ReplayEvent(x)
  PROVE  GateInv'
<1> USE DEF GateInv, ReplayEvent
<1> DEFINE q == request[x]
<1>1. PICK t \in q.todo :
        /\ Decided(<<q.device, t>>)
        /\ request' = [request EXCEPT ![x] = Replied(q, t, event[<<q.device, t>>].result)]
  OBVIOUS
<1>2. q \in RequestRow /\ q.device \in Device /\ q.stage = "batch" /\ t \in Ticket
  BY DEF RequestsTyped, RequestRow, StagesFit, StageFits
<1>3. event[<<q.device, t>>].result \in Result
  BY <1>1, <1>2 DEF TablesTyped, Decided, Scan
<1>4. request'[x] = Replied(q, t, event[<<q.device, t>>].result)
  BY <1>1 DEF RequestsTyped
<1>5. request' = [request EXCEPT ![x] = request'[x]]
  BY <1>1, <1>4
<1>6. EventsStay /\ event' = event
  BY DEF EventsStay
<1>7. request'[x] \in RequestRow /\ StageFits(request[x])' /\ AnswerRecorded(request[x])'
  BY <1>2, <1>3, <1>4, <1>6, RepliedIsRecorded
<1>8. TablesTyped'
  BY DEF TablesTyped, deviceVars, ticketVars
<1> QED
  BY <1>5, <1>7, <1>8, RequestMoves

LEMMA BeginAttemptKeeps ==
  ASSUME GateInv, NEW x \in Slot, BeginAttempt(x)
  PROVE  GateInv'
<1> USE DEF GateInv
<1> DEFINE q == request[x]
<1>1. PICK t \in q.todo :
        request' = [request EXCEPT
          ![x].stage = "recording",
          ![x].attempt = [ticket |-> t, seen |-> EventsOf(t), was |-> ticketStatus[t]]]
  BY DEF BeginAttempt
<1> DEFINE attempt == [ticket |-> t, seen |-> EventsOf(t), was |-> ticketStatus[t]]
<1>2. q \in RequestRow /\ q.device \in Device /\ q.stage = "batch" /\ t \in Ticket
  BY DEF RequestsTyped, RequestRow, StagesFit, StageFits, BeginAttempt
<1>3. attempt \in Attempt /\ attempt.ticket = t /\ attempt.seen = EventsOf(t)
  BY <1>2 DEF Attempt, TablesTyped, EventsOf, BeginAttempt
<1> HIDE DEF attempt
<1>4. /\ request'[x] = [q EXCEPT !.stage = "recording", !.attempt = attempt]
      /\ request' = [request EXCEPT ![x] = request'[x]]
  BY <1>1, Zenon DEF RequestsTyped, attempt, BeginAttempt
<1>5. "recording" \in Stage
  BY DEF Stage, BeginAttempt
<1>6. /\ request'[x] \in RequestRow
      /\ request'[x].stage = "recording" /\ request'[x].device = q.device
      /\ request'[x].todo = q.todo /\ request'[x].replies = q.replies
      /\ request'[x].attempt = attempt
  <2> HIDE DEF q
  <2> QED
    BY <1>2, <1>3, <1>4, <1>5, Zenon DEF RequestRow
<1>7. StageFits(request[x])'
  BY <1>2, <1>3, <1>6 DEF StageFits, Unanswered, Stage, EventsOf, Decided, BeginAttempt
<1>8. AnswerRecorded(request[x])'
  BY <1>2, <1>6 DEF AnswerRecorded, AnswersRecorded, BeginAttempt
<1>9. TablesTyped'
  BY DEF TablesTyped, deviceVars, ticketVars, BeginAttempt
<1> QED
  BY <1>4, <1>6, <1>7, <1>8, <1>9, RequestMoves DEF BeginAttempt

LEMMA HandlerFailsKeeps ==
  ASSUME GateInv, NEW x \in Slot, HandlerFails(x)
  PROVE  GateInv'
<1> USE DEF GateInv, HandlerFails
<1>1. request'[x] = Idle /\ request' = [request EXCEPT ![x] = request'[x]]
  BY DEF RequestsTyped
<1>2. StageFits(request[x])' /\ AnswerRecorded(request[x])'
  BY <1>1, IdleIsTyped DEF StageFits, AnswerRecorded, Unanswered
<1>3. TablesTyped'
  BY DEF TablesTyped, deviceVars, ticketVars
<1> QED
  BY <1>1, <1>2, <1>3, IdleIsTyped, RequestMoves

-----------------------------------------------------------------------------
(* The tickets                                                             *)

LEMMA CancelSelectKeeps ==
  ASSUME GateInv, CancelSelect
  PROVE  GateInv'
<1> USE DEF GateInv, CancelSelect, deviceVars
<1>1. TablesTyped' /\ RequestsTyped'
  BY DEF TablesTyped, RequestsTyped
<1>2. StagesFit' /\ AnswersRecorded'
  BY DEF StagesFit, StageFits, AnswersRecorded, AnswerRecorded, EventsOf, Decided
<1> QED
  BY <1>1, <1>2, AnswersStay, AdmissionsStay

LEMMA CancelWriteKeeps ==
  ASSUME GateInv, CancelWrite
  PROVE  GateInv'
<1> USE DEF GateInv, CancelWrite, deviceVars
<1>1. TablesTyped' /\ RequestsTyped'
  BY DEF TablesTyped, RequestsTyped, TicketStatus
<1>2. StagesFit' /\ AnswersRecorded'
  BY DEF StagesFit, StageFits, AnswersRecorded, AnswerRecorded, EventsOf, Decided
<1>3. OneAdmission' /\ ConflictsAreTrue'
  <2>1. \A s \in Scan : TicketOf(s) \in Ticket
    BY DEF Scan, TicketOf
  <2> QED
    BY <2>1 DEF OneAdmission, ConflictsAreTrue, Accepted
<1> QED
  BY <1>1, <1>2, <1>3, AnswersStay

\* An admission.  Of the events of the ticket, those in the snapshot say what
\* the result is, and those that are not were no admissions, or the commit would
\* have been refused.
LEMMA RecordAttemptKeeps ==
  ASSUME GateInv, NEW x \in Slot, RecordAttempt(x)
  PROVE  GateInv'
<1> DEFINE q == request[x]
<1> USE DEF GateInv
<1>1. q \in RequestRow /\ q.device \in Device /\ q.stage = "recording" /\ q.todo # {}
  BY DEF RecordAttempt, RequestsTyped, StagesFit, StageFits, Unanswered, Stage
<1>2. q.attempt \in Attempt /\ q.attempt.seen \subseteq EventsOf(q.attempt.ticket)
  BY <1>1 DEF StagesFit, StageFits
<1>3. PICK t \in Ticket : t = q.attempt.ticket
  BY <1>2 DEF Attempt
<1>4. PICK result \in Result : result = AttemptResult(q)
  BY DEF AttemptResult, Result
<1>5. PICK mine \in Scan : mine = <<q.device, t>> /\ TicketOf(mine) = t
  <2>1. <<q.device, t>> \in Scan
    BY <1>1, <1>3 DEF Scan
  <2>2. TicketOf(<<q.device, t>>) = t
    BY DEF TicketOf
  <2> QED
    BY <2>1, <2>2
<1>6. PICK winners \in SUBSET Scan : winners = Winners(q)
  BY <1>2 DEF Winners, Attempt
<1>7. /\ event' = [event EXCEPT ![mine] = [result |-> result, winner |-> winners]]
      /\ ~Decided(mine)
      /\ UNCHANGED <<deviceVars, canceling, projection>>
  BY <1>3, <1>4, <1>5, <1>6 DEF RecordAttempt, Serializable
<1>8. /\ ticketStatus' = [ticketStatus EXCEPT ![t] =
             IF result = "accepted" /\ @ = "issued" THEN "checked_in" ELSE @]
      /\ request' = [request EXCEPT ![x] = Replied(q, t, result)]
  BY <1>3, <1>4 DEF RecordAttempt
<1>9. /\ winners \subseteq {s \in EventsOf(t) : Accepted(s)}
      /\ result = "conflict" => winners # {}
      /\ result = "accepted" => winners = {} /\ \A s \in EventsOf(t) : ~Accepted(s)
  <2>1. winners = {s \in q.attempt.seen : Accepted(s)} /\ q.attempt.seen \subseteq EventsOf(t)
    BY <1>2, <1>3, <1>6 DEF Winners
  <2>2. result = "conflict" => winners # {}
    BY <1>4, <1>6 DEF AttemptResult
  <2>3. result = "accepted" => winners = {}
    BY <1>4, <1>6 DEF AttemptResult
  <2>4. result = "accepted" => \A s \in EventsOf(t) \ q.attempt.seen : ~Accepted(s)
    BY <1>3, <1>4 DEF RecordAttempt, Serializable
  <2> QED
    BY <2>1, <2>2, <2>3, <2>4
<1>10. EventsStay
  BY <1>7 DEF EventsStay, TablesTyped
<1>11. /\ event'[mine] = [result |-> result, winner |-> winners]
       /\ \A s \in Scan \ {mine} : event'[s] = event[s]
  BY <1>7 DEF TablesTyped
<1>12. TablesTyped'
  BY <1>7, <1>8 DEF TablesTyped, TicketStatus, deviceVars
<1>13. RequestsTyped' /\ StagesFit' /\ AnswersRecorded'
  <2>1. request'[x] = Replied(q, t, result) /\ \A y \in Slot \ {x} : request'[y] = request[y]
    BY <1>8 DEF RequestsTyped
  <2>2. t \in q.todo /\ event'[<<q.device, t>>].result = result
    BY <1>1, <1>3, <1>5, <1>11 DEF StagesFit, StageFits
  <2>3. request'[x] \in RequestRow /\ StageFits(request[x])' /\ AnswerRecorded(request[x])'
    BY <1>1, <1>10, <2>1, <2>2, RepliedIsRecorded
  <2>4. RequestsTyped'
    BY <1>7, <1>8, <2>1, <2>3 DEF RequestsTyped, deviceVars
  <2> QED
    BY <1>10, <2>1, <2>3, <2>4, SlotChanges
<1>14. OneAdmission'
  <2> SUFFICES ASSUME NEW s \in Scan, NEW u \in Scan, event'[s].result = "accepted",
                      event'[u].result = "accepted", TicketOf(s) = TicketOf(u), s # u
               PROVE  FALSE
    BY DEF OneAdmission, Accepted
  <2>1. \A z \in Scan \ {mine} : event'[z].result = "accepted" =>
          Accepted(z) /\ (TicketOf(z) = t => z \in EventsOf(t))
    BY <1>11 DEF Accepted, EventsOf, Decided, NoEvent
  <2>2. ASSUME NEW z \in Scan, z # mine, TicketOf(z) = t, event'[z].result = "accepted"
        PROVE  event'[mine].result # "accepted"
    <3>1. z \in EventsOf(t) /\ Accepted(z)
      BY <2>1, <2>2
    <3>2. event'[mine].result = result
      BY <1>11
    <3> QED
      BY <1>9, <3>1, <3>2
  <2>3. CASE s = mine \/ u = mine
    BY <1>5, <2>2, <2>3
  <2>4. CASE s # mine /\ u # mine
    BY <2>1, <2>4 DEF OneAdmission
  <2> QED
    BY <2>3, <2>4
<1>15. ConflictsAreTrue'
  <2> SUFFICES ASSUME NEW s \in Scan
               PROVE  /\ event'[s].result = "conflict" =>
                           \E u \in Scan \ {s} : /\ event'[s].winner = {u} /\ TicketOf(u) = TicketOf(s)
                                                 /\ event'[u].result = "accepted"
                      /\ event'[s].result = "accepted" => ticketStatus'[TicketOf(s)] # "issued"
    BY DEF ConflictsAreTrue, Accepted
  <2>1. \A z \in Ticket : ticketStatus[z] # "issued" => ticketStatus'[z] # "issued"
    BY <1>8 DEF TablesTyped
  <2>2. TicketOf(s) \in Ticket
    BY DEF Scan, TicketOf
  <2>3. CASE s = mine
    <3>1. ASSUME result = "conflict"
          PROVE  \E u \in Scan \ {mine} : winners = {u} /\ TicketOf(u) = t /\ event'[u].result = "accepted"
      <4>1. PICK u \in winners : TRUE
        BY <1>9, <3>1
      <4>2. u \in Scan /\ TicketOf(u) = t /\ Accepted(u) /\ Decided(u)
        BY <1>9 DEF EventsOf
      <4>3. winners = {u}
        BY <1>9, <4>2 DEF OneAdmission, EventsOf
      <4>4. u # mine
        BY <1>7, <4>2
      <4> QED
        BY <1>11, <4>2, <4>3, <4>4 DEF Accepted
    <3>2. result = "accepted" => ticketStatus'[t] # "issued"
      BY <1>8 DEF TablesTyped
    <3> QED
      BY <1>5, <1>11, <2>3, <3>1, <3>2
  <2>4. CASE s # mine
    <3>1. event'[s] = event[s]
      BY <1>11, <2>4
    <3>2. ASSUME event[s].result = "conflict"
          PROVE  \E u \in Scan \ {s} : /\ event[s].winner = {u} /\ TicketOf(u) = TicketOf(s)
                                       /\ event'[u].result = "accepted"
      <4>1. PICK u \in Scan \ {s} : event[s].winner = {u} /\ TicketOf(u) = TicketOf(s) /\ Accepted(u)
        BY <3>2 DEF ConflictsAreTrue
      <4>2. u # mine
        BY <1>7, <4>1 DEF Accepted, Decided, NoEvent
      <4> QED
        BY <1>11, <4>1, <4>2 DEF Accepted
    <3>3. event[s].result = "accepted" => ticketStatus[TicketOf(s)] # "issued"
      BY DEF ConflictsAreTrue, Accepted
    <3> QED
      BY <2>1, <2>2, <3>1, <3>2, <3>3
  <2> QED
    BY <2>3, <2>4
<1>16. ClosuresTrue' /\ AnswersAreTrue'
  <2>1. ASSUME NEW d \in Device, NEW u \in Ticket, event[<<d, u>>].result \in {"conflict", "rejected"}
        PROVE  event'[<<d, u>>] = event[<<d, u>>]
    BY <1>10, <2>1 DEF EventsStay, Scan, Decided, NoEvent
  <2> QED
    BY <1>7, <2>1 DEF ClosuresTrue, AnswersAreTrue, deviceVars
<1> QED
  BY <1>12, <1>13, <1>14, <1>15, <1>16

-----------------------------------------------------------------------------
(* The theorems                                                            *)

LEMMA GateNextInv == GateInv /\ [CheckInNext]_checkInVars => GateInv'
<1> SUFFICES ASSUME GateInv, [CheckInNext]_checkInVars PROVE GateInv'
  OBVIOUS
<1>1. CASE UNCHANGED checkInVars
  <2> USE DEF GateInv, checkInVars, deviceVars, ticketVars
  <2>1. TablesTyped' /\ RequestsTyped'
    BY <1>1 DEF TablesTyped, RequestsTyped
  <2>2. StagesFit' /\ AnswersRecorded'
    BY <1>1 DEF StagesFit, StageFits, AnswersRecorded, AnswerRecorded, EventsOf, Decided
  <2> QED
    BY <1>1, <2>1, <2>2, AnswersStay, AdmissionsStay
<1>2. ASSUME NEW d \in Device, DeviceStep(d)
      PROVE  GateInv'
  BY <1>2, ScanTicketKeeps, PushSyncKeeps, SyncAnsweredKeeps, SyncFailsKeeps, FetchManifestKeeps
     DEF DeviceStep
<1>3. ASSUME NEW x \in Slot, Handle(x)
      PROVE  GateInv'
  BY <1>3, AuthorizeKeeps, RefreshWriteKeeps, LoadBatchKeeps, ReplayEventKeeps,
     BeginAttemptKeeps, RecordAttemptKeeps DEF Handle
<1>4. ASSUME NEW x \in Slot, HandlerFails(x)
      PROVE  GateInv'
  BY <1>4, HandlerFailsKeeps
<1>5. CASE CancelSelect \/ CancelWrite
  BY <1>5, CancelSelectKeeps, CancelWriteKeeps
<1> QED
  BY <1>1, <1>2, <1>3, <1>4, <1>5 DEF CheckInNext

\* Every device, request and table keeps its type, whatever batches, answers
\* and crashes there are (recordCheckInAttempt and its callers).
THEOREM CheckInTyped == CheckInSpec => []CheckInTypeOK
<1>1. CheckInInit => GateInv
  BY GateInitInv
<1>2. GateInv /\ [CheckInNext]_checkInVars => GateInv'
  BY GateNextInv
<1>3. GateInv => CheckInTypeOK
  BY GateIsTyped
<1> QED
  BY <1>1, <1>2, <1>3, PTL DEF CheckInSpec

\* A ticket is admitted once, for any number of devices, copies of a batch and
\* requests at the same time: the isolation of the transaction is enough.
THEOREM TicketAdmittedOnce == CheckInSpec => []OneAdmission
<1>1. CheckInInit => GateInv
  BY GateInitInv
<1>2. GateInv /\ [CheckInNext]_checkInVars => GateInv'
  BY GateNextInv
<1>3. GateInv => OneAdmission
  BY DEF GateInv
<1> QED
  BY <1>1, <1>2, <1>3, PTL DEF CheckInSpec

\* A conflict names the admission it lost to, an admitted ticket is no longer
\* issued, and a device shows for a scan only what is recorded for it.
THEOREM VerdictsHold == CheckInSpec => []VerdictsAreTrue
<1>1. CheckInInit => GateInv
  BY GateInitInv
<1>2. GateInv /\ [CheckInNext]_checkInVars => GateInv'
  BY GateNextInv
<1>3. GateInv => VerdictsAreTrue
  BY DEF GateInv, VerdictsAreTrue
<1> QED
  BY <1>1, <1>2, <1>3, PTL DEF CheckInSpec

\* A verdict is final: no batch, replay, cancellation or crash changes an event
\* that is recorded.
EventsAreFinal == [][EventsStay]_checkInVars

LEMMA EventsStayNext == GateInv /\ [CheckInNext]_checkInVars => EventsStay
<1> SUFFICES ASSUME GateInv, [CheckInNext]_checkInVars PROVE EventsStay
  OBVIOUS
<1>1. ASSUME NEW x \in Slot, RecordAttempt(x)
      PROVE  EventsStay
  <2>1. ~Decided(<<request[x].device, request[x].attempt.ticket>>)
    BY <1>1 DEF RecordAttempt, Serializable
  <2> QED
    BY <1>1, <2>1 DEF RecordAttempt, EventsStay, GateInv, TablesTyped
<1>2. CASE event' = event
  BY <1>2 DEF EventsStay
<1>3. CASE UNCHANGED checkInVars
  BY <1>2, <1>3 DEF checkInVars
<1>4. ASSUME NEW d \in Device, DeviceStep(d)
      PROVE  event' = event
  BY <1>4 DEF DeviceStep, ScanTicket, PushSync, SyncAnswered, SyncFails, FetchManifest
<1>5. ASSUME NEW x \in Slot, Handle(x), ~RecordAttempt(x)
      PROVE  event' = event
  BY <1>5 DEF Handle, Authorize, RefreshWrite, LoadBatch, ReplayEvent, BeginAttempt
<1>6. ASSUME NEW x \in Slot, HandlerFails(x)
      PROVE  event' = event
  BY <1>6 DEF HandlerFails
<1>7. CASE CancelSelect \/ CancelWrite
  BY <1>2, <1>7 DEF CancelSelect, CancelWrite
<1> QED
  BY <1>1, <1>2, <1>3, <1>4, <1>5, <1>6, <1>7 DEF CheckInNext

THEOREM VerdictsAreFinal == CheckInSpec => EventsAreFinal
<1>1. CheckInInit => GateInv
  BY GateInitInv
<1>2. GateInv /\ [CheckInNext]_checkInVars => GateInv' /\ EventsStay
  BY GateNextInv, EventsStayNext
<1> QED
  BY <1>1, <1>2, PTL DEF CheckInSpec, EventsAreFinal

-----------------------------------------------------------------------------
(* The register of admissions                                              *)

\* What of CheckIn can be seen in the register.
RegisterSame == UNCHANGED <<event, Spent, Shown>>

LEMMA RegisterInitMaps == CheckInInit => Register!RegisterInit
<1> SUFFICES ASSUME CheckInInit PROVE Register!RegisterInit  OBVIOUS
<1>1. event = [s \in Register!Scan |-> Register!Undecided]
  BY DEF CheckInInit, Scan, NoEvent, Register!Scan, Register!Undecided
<1>2. Spent = {} /\ Shown = [d \in Device |-> Register!Nothing]
  BY DEF CheckInInit, Spent, Shown, Register!Nothing
<1> QED
  BY <1>1, <1>2 DEF Register!RegisterInit

\* Unless it records or revokes, a step leaves the tickets of the register alone.
LEMMA MarksSayWhatIsShown ==
  ASSUME TablesTyped, UNCHANGED <<event, ticketStatus>>, NEW d \in Device,
         \E marks \in [Ticket -> Mark] : queue' = [queue EXCEPT ![d] = marks],
         AnswersAreTrue'
  PROVE  Register!Show(d)
<1> DEFINE marks == Shown'[d]
<1>1. marks \in [Ticket -> {"none", "conflict", "rejected"}]
  BY DEF Shown, Mark
<1>2. \A t \in Ticket : marks[t] # "none" => event[<<d, t>>].result = marks[t]
  BY DEF Shown, AnswersAreTrue
<1>3. \A e \in Device \ {d} : Shown'[e] = Shown[e]
  BY DEF Shown, TablesTyped
<1>4. Shown' = [Shown EXCEPT ![d] = marks]
  BY <1>3 DEF Shown
<1>5. Spent' = Spent
  BY DEF Spent
<1> HIDE DEF marks
<1> QED
  BY <1>1, <1>2, <1>4, <1>5 DEF Register!Show

LEMMA DeviceStepMaps ==
  ASSUME GateInv, GateInv', NEW d \in Device, DeviceStep(d)
  PROVE  Register!Show(d) \/ RegisterSame
<1>1. ASSUME NEW t \in Ticket, ScanTicket(d, t)
      PROVE  RegisterSame
  <2>1. \A e \in Device, u \in Ticket :
          \/ queue'[e][u] = queue[e][u]
          \/ queue'[e][u] = "pending" /\ queue[e][u] = "none"
    BY <1>1 DEF ScanTicket, GateInv, TablesTyped
  <2> QED
    BY <1>1, <2>1 DEF ScanTicket, ticketVars, RegisterSame, Spent, Shown
<1>2. ASSUME SyncAnswered(d)
      PROVE  Register!Show(d)
  <2>1. PICK marks : marks = queue'[d] /\ queue' = [queue EXCEPT ![d] = marks]
    BY <1>2 DEF SyncAnswered, GateInv, TablesTyped
  <2>2. marks \in [Ticket -> Mark]
    BY <2>1 DEF GateInv, TablesTyped
  <2> QED
    BY <1>2, <2>1, <2>2, MarksSayWhatIsShown DEF SyncAnswered, GateInv, ticketVars
<1>3. ASSUME \/ \E x \in Slot : PushSync(d, x)
             \/ SyncFails(d) \/ FetchManifest(d)
      PROVE  RegisterSame
  BY <1>3 DEF PushSync, SyncFails, FetchManifest, ticketVars, RegisterSame, Spent, Shown
<1> QED
  BY <1>1, <1>2, <1>3 DEF DeviceStep

\* The commit of an attempt decides its scan, by what GateInv knows of the
\* snapshot it was decided on.
LEMMA RecordAttemptMaps ==
  ASSUME GateInv, NEW x \in Slot, RecordAttempt(x)
  PROVE  \E s \in Register!Scan : Register!Admit(s) \/ Register!TurnAway(s) \/ Register!Refuse(s)
<1> DEFINE q == request[x]
           t == q.attempt.ticket
           s == <<q.device, t>>
           winners == Winners(q)
<1>1. /\ q.device \in Device /\ t \in Ticket
      /\ q.attempt.seen \subseteq EventsOf(t)
  BY DEF RecordAttempt, GateInv, StagesFit, StageFits, Attempt
<1>2. s \in Scan /\ s \in Register!Scan /\ s[2] = t
  BY <1>1 DEF Scan, Register!Scan
<1>3. /\ event[s] = Register!Undecided
      /\ event' = [event EXCEPT ![s] = [result |-> AttemptResult(q), winner |-> winners]]
      /\ Shown' = Shown
  BY DEF RecordAttempt, Serializable, Decided, NoEvent, Register!Undecided, deviceVars, Shown
<1>4. winners \subseteq Register!Admitted(t)
  BY <1>1 DEF Winners, EventsOf, Accepted, Register!Admitted, Register!Scan, Scan, TicketOf
<1>5. \A u \in Register!Admitted(t), v \in Register!Admitted(t) : u = v
  BY DEF Register!Admitted, Register!Scan, Scan, TicketOf, Accepted, GateInv, OneAdmission
<1>6. ticketStatus' = [ticketStatus EXCEPT ![t] =
         IF AttemptResult(q) = "accepted" /\ @ = "issued" THEN "checked_in" ELSE @]
  BY DEF RecordAttempt
<1>7. CASE AttemptResult(q) = "accepted"
  <2>1. winners = {}
    BY <1>7 DEF AttemptResult
  <2>2. Register!Admitted(t) = {}
    <3>1. \A u \in EventsOf(t) \ q.attempt.seen : ~Accepted(u)
      BY <1>7 DEF RecordAttempt, Serializable
    <3>2. \A u \in q.attempt.seen : ~Accepted(u)
      BY <2>1 DEF Winners
    <3> QED
      BY <3>1, <3>2 DEF EventsOf, Decided, NoEvent, Accepted, Register!Admitted, Register!Scan,
                        Scan, TicketOf
  <2>3. Spent' = Spent \cup {t}
    BY <1>1, <1>6, <1>7 DEF Spent, GateInv, TablesTyped
  <2>4. Register!Decide(s, "accepted", {})
    BY <1>3, <1>7, <2>1 DEF Register!Decide
  <2>5. Register!Admit(s)
    BY <1>2, <2>2, <2>3, <2>4 DEF Register!Admit
  <2> QED
    BY <1>2, <2>5
<1>8. CASE AttemptResult(q) # "accepted"
  <2>1. Spent' = Spent
    BY <1>6, <1>8 DEF Spent, GateInv, TablesTyped
  <2>2. CASE AttemptResult(q) = "conflict"
    <3>1. PICK u \in winners : TRUE
      BY <2>2 DEF AttemptResult
    <3>2. u \in Register!Admitted(t) /\ winners = {u}
      BY <1>4, <1>5, <3>1
    <3>3. Register!Decide(s, "conflict", {u})
      BY <1>3, <2>2, <3>2 DEF Register!Decide
    <3>4. Register!TurnAway(s)
      BY <1>2, <2>1, <3>2, <3>3 DEF Register!TurnAway
    <3> QED
      BY <1>2, <3>4
  <2>3. CASE AttemptResult(q) = "rejected"
    <3>1. Register!Decide(s, "rejected", winners)
      BY <1>3, <2>3 DEF Register!Decide
    <3>2. Register!Refuse(s)
      BY <1>2, <1>4, <2>1, <3>1 DEF Register!Refuse
    <3> QED
      BY <1>2, <3>2
  <2> QED
    BY <1>8, <2>2, <2>3 DEF AttemptResult
<1> QED
  BY <1>7, <1>8

LEMMA RegisterStepMaps ==
  GateInv /\ GateInv' /\ [CheckInNext]_checkInVars
    => [Register!RegisterNext]_(Register!registerVars)
<1> SUFFICES ASSUME GateInv, GateInv', [CheckInNext]_checkInVars
             PROVE  Register!RegisterNext \/ RegisterSame
  BY DEF RegisterSame, Register!registerVars
<1>1. ASSUME NEW d \in Device, DeviceStep(d)
      PROVE  Register!RegisterNext \/ RegisterSame
  BY <1>1, DeviceStepMaps DEF Register!RegisterNext
<1>2. ASSUME NEW x \in Slot, RecordAttempt(x)
      PROVE  Register!RegisterNext
  BY <1>2, RecordAttemptMaps DEF Register!RegisterNext
<1>3. ASSUME NEW x \in Slot, Handle(x) \/ HandlerFails(x), ~RecordAttempt(x)
      PROVE  RegisterSame
  BY <1>3 DEF Handle, Authorize, RefreshWrite, LoadBatch, ReplayEvent, BeginAttempt, HandlerFails,
              deviceVars, ticketVars, RegisterSame, Spent, Shown
<1>4. CASE CancelSelect \/ UNCHANGED checkInVars
  BY <1>4 DEF CancelSelect, checkInVars, deviceVars, ticketVars, RegisterSame, Spent, Shown
<1>5. CASE CancelWrite
  <2>1. Spent' = Spent \cup canceling /\ canceling \in SUBSET Ticket
    BY <1>5 DEF CancelWrite, Spent, GateInv, TablesTyped
  <2>2. event' = event /\ Shown' = Shown
    BY <1>5 DEF CancelWrite, deviceVars, Shown
  <2> QED
    BY <2>1, <2>2 DEF Register!Void, Register!RegisterNext
<1> QED
  BY <1>1, <1>2, <1>3, <1>4, <1>5 DEF CheckInNext

\* Queues, batches that are sent again, snapshots, replays, lost answers and the
\* cancellation together do nothing that the register would not do: whoever sees
\* only verdicts, marks and spent tickets cannot tell the two apart.
THEOREM CheckInImplementsRegister == CheckInSpec => ImplementsRegister
<1>1. CheckInInit => GateInv /\ Register!RegisterInit
  BY GateInitInv, RegisterInitMaps
<1>2. GateInv /\ [CheckInNext]_checkInVars => GateInv'
  BY GateNextInv
<1>3. GateInv /\ GateInv' /\ [CheckInNext]_checkInVars
        => [Register!RegisterNext]_(Register!registerVars)
  BY RegisterStepMaps
<1> QED
  BY <1>1, <1>2, <1>3, PTL DEF CheckInSpec, ImplementsRegister, Register!RegisterSpec

-----------------------------------------------------------------------------
(* Setting up a phone                                                      *)

Gate == {p.gate : p \in Place}
Zone == {p.zone : p \in Place}
AssignmentRow == [code : Code, gate : Gate, zone : Zone]
AssignmentBody == [id : Nat, code : Code, gate : Gate, zone : Zone]
ManifestBody == [gate : Gate, zone : Zone, tickets : SUBSET Pass, revoked : SUBSET Pass]
PhoneStore ==
  [config : Code \cup {Nothing}, assignment : AssignmentBody \cup {Nothing},
   manifest : ManifestBody \cup {Nothing}]
Item ==
  [code : Code, gate : Gate, zone : Zone,
   status : {"pending", "accepted", "rejected", "dropped"}]

\* A device with assignments has a last one.
LastOnes ==
  /\ assignments \in Seq(AssignmentRow)
  /\ \A c \in Code : HasAssignment(c) =>
       \E i \in AssignmentsOf(c) : \A j \in AssignmentsOf(c) : j <= i

\* What the phone is told, by itself, is so: it describes an assignment, and the
\* tickets of a zone.
BodyFits(b) ==
  /\ b \in AssignmentBody /\ b.id \in DOMAIN assignments
  /\ LET a == assignments[b.id] IN a.code = b.code /\ a.gate = b.gate /\ a.zone = b.zone
ManifestFits(m) == m \in ManifestBody /\ m.tickets \subseteq TicketsIn(m.zone)
PhoneFits ==
  /\ phone \in PhoneStore
  /\ phone.assignment # Nothing => BodyFits(phone.assignment)
  /\ phone.manifest # Nothing => ManifestFits(phone.manifest)

\* What it has admitted belongs to an assignment of the device it says.
ItemFits(t, e) ==
  /\ e \in Item /\ e.zone = ZoneOf[t]
  /\ \E j \in DOMAIN assignments :
       LET a == assignments[j] IN a.code = e.code /\ a.gate = e.gate /\ a.zone = e.zone
HeldFits ==
  /\ held \in [Pass -> Item \cup {Nothing}]
  /\ \A t \in Pass : held[t] \in Item => ItemFits(t, held[t])

CallFits(q) ==
  /\ q.ask = "sync" =>
       /\ q.assignment \in DOMAIN assignments /\ DOMAIN q.events \subseteq Pass
       /\ \A t \in DOMAIN q.events : ItemFits(t, q.events[t]) /\ held[t] \in Item
  /\ q.ask = "give assignment" => BodyFits(q.body)
  /\ q.ask = "give manifest" => ManifestFits(q.body)
  /\ q.ask = "give results" => \A t \in DOMAIN q.body :
       t \in Pass /\ held[t] \in Item /\ q.body[t] \in {"accepted", "rejected"}
CallsFit == \A q \in calls : CallFits(q)

AssignedTwice(c) == \E i, j \in AssignmentsOf(c) : i # j

\* The grounds of a check-in are on record.
VerdictFits(t, v) ==
  /\ v = None \/ v.result \in {"accepted", "rejected"}
  /\ v.result = "accepted" =>
       /\ v.assignment \in DOMAIN assignments
       /\ LET a == assignments[v.assignment]
          IN v.item.code = a.code /\ v.item.gate = a.gate /\ a.zone = ZoneOf[t]
  /\ v.result = "rejected" =>
       \/ v.revoked = TRUE \/ AssignedTwice(v.item.code)
       \/ (v.asked \in DOMAIN assignments /\ assignments[v.asked].code # v.item.code)
VerdictsFit == \A t \in Pass : VerdictFits(t, verdict[t])

SetupInv == LastOnes /\ PhoneFits /\ HeldFits /\ CallsFit /\ VerdictsFit

LEMMA SetupStarts == SetupInit => SetupInv
<1> SUFFICES ASSUME SetupInit PROVE SetupInv  OBVIOUS
<1>1. LastOnes
  BY DEF SetupInit, LastOnes, HasAssignment, AssignmentsOf
<1>2. PhoneFits
  BY DEF SetupInit, PhoneFits, PhoneStore
<1>3. HeldFits /\ CallsFit
  BY NothingAssumption DEF SetupInit, HeldFits, CallsFit, Item, Gate, Zone
<1>4. VerdictsFit
  BY DEF SetupInit, VerdictsFit, VerdictFits, None
<1> QED  BY <1>1, <1>2, <1>3, <1>4 DEF SetupInv

LEMMA LastIsActive ==
  ASSUME LastOnes, NEW c, HasAssignment(c)
  PROVE  ActiveOf(c) \in DOMAIN assignments /\ assignments[ActiveOf(c)].code = c
         /\ assignments[ActiveOf(c)] \in AssignmentRow
<1>1. c \in Code
  <2>1. PICK n \in DOMAIN assignments : assignments[n].code = c
    BY DEF HasAssignment, AssignmentsOf
  <2>2. assignments[n] \in AssignmentRow
    BY <2>1 DEF LastOnes
  <2> QED  BY <2>1, <2>2 DEF AssignmentRow
<1>2. \E i \in AssignmentsOf(c) : \A j \in AssignmentsOf(c) : j <= i
  BY <1>1 DEF LastOnes
<1>3. ActiveOf(c) \in AssignmentsOf(c)
  BY <1>2 DEF ActiveOf
<1> QED  BY <1>3 DEF AssignmentsOf, LastOnes

\* Assignments stay as they are, and so does what the phone has admitted.
Grown ==
  /\ \A i \in DOMAIN assignments : i \in DOMAIN assignments' /\ assignments'[i] = assignments[i]
  /\ \A t \in Pass : held[t] \in Item => held'[t] \in Item

LEMMA FitsStay ==
  ASSUME Grown
  PROVE  /\ \A b : BodyFits(b) => BodyFits(b)'
         /\ \A m : ManifestFits(m) => ManifestFits(m)'
         /\ \A t, e : ItemFits(t, e) => ItemFits(t, e)'
         /\ \A t, v : VerdictFits(t, v) => VerdictFits(t, v)'
<1>1. \A b : BodyFits(b) => BodyFits(b)'
  BY DEF Grown, BodyFits
<1>2. \A m : ManifestFits(m) => ManifestFits(m)'
  BY DEF ManifestFits, TicketsIn
<1>3. \A t, e : ItemFits(t, e) => ItemFits(t, e)'
  BY DEF Grown, ItemFits
<1>4. \A c : AssignedTwice(c) => AssignedTwice(c)'
  BY DEF Grown, AssignedTwice, AssignmentsOf
<1>5. \A t, v : VerdictFits(t, v) => VerdictFits(t, v)'
  BY <1>4 DEF Grown, VerdictFits
<1> QED  BY <1>1, <1>2, <1>3, <1>5

LEMMA CallsStay ==
  ASSUME Grown, NEW q, CallFits(q) PROVE CallFits(q)'
<1>1. CASE q.ask = "sync"
  BY <1>1, FitsStay DEF Grown, CallFits
<1>2. CASE q.ask = "give assignment"
  BY <1>2, FitsStay DEF CallFits
<1>3. CASE q.ask = "give manifest"
  BY <1>3, FitsStay DEF CallFits
<1>4. CASE q.ask = "give results"
  BY <1>4 DEF Grown, CallFits
<1> QED  BY <1>1, <1>2, <1>3, <1>4 DEF CallFits

\* A step that adds at most one call, and nothing to the books.
LEMMA QuietPart ==
  ASSUME SetupInv, Grown, assignments' = assignments, verdict' = verdict,
         \A q \in calls' : q \in calls \/ CallFits(q)'
  PROVE  LastOnes' /\ CallsFit' /\ VerdictsFit'
<1>1. LastOnes'
  BY DEF SetupInv, LastOnes, AssignmentsOf, HasAssignment
<1>2. CallsFit'
  BY CallsStay DEF SetupInv, CallsFit
<1>3. VerdictsFit'
  BY FitsStay DEF SetupInv, VerdictsFit
<1> QED  BY <1>1, <1>2, <1>3

LEMMA PhoneRests ==
  ASSUME SetupInv, Grown, phone' = phone PROVE PhoneFits'
  BY FitsStay DEF SetupInv, PhoneFits

LEMMA HeldRests ==
  ASSUME SetupInv, Grown, held' = held PROVE HeldFits'
  BY FitsStay DEF SetupInv, HeldFits

LEMMA AssignKeeps ==
  ASSUME SetupInv, NEW c \in Code, NEW p \in Place, Assign(c, p) PROVE SetupInv'
<1>1. PICK r \in AssignmentRow :
        /\ r.code = c
        /\ assignments' = Append(assignments, r)
        /\ phone' = phone /\ held' = held /\ calls' = calls /\ verdict' = verdict
  <2>1. PICK r : r = [code |-> c, gate |-> p.gate, zone |-> p.zone]
    OBVIOUS
  <2>2. r \in AssignmentRow /\ r.code = c
    BY <2>1 DEF AssignmentRow, Gate, Zone
  <2> QED  BY <2>1, <2>2 DEF Assign
<1>2. assignments \in Seq(AssignmentRow)
  BY DEF SetupInv, LastOnes
<1>3. /\ assignments' \in Seq(AssignmentRow)
      /\ DOMAIN assignments = 1 .. Len(assignments)
      /\ DOMAIN assignments' = 1 .. Len(assignments) + 1
      /\ assignments'[Len(assignments) + 1] = r
      /\ \A i \in 1 .. Len(assignments) : assignments'[i] = assignments[i]
      /\ Len(assignments) \in Nat
  BY <1>1, <1>2
<1>4. Grown
  BY <1>1, <1>3 DEF Grown
<1>5. LastOnes'
  <2>1. ASSUME NEW d \in Code, HasAssignment(d)'
        PROVE  \E i : i \in AssignmentsOf(d)' /\ \A j : j \in AssignmentsOf(d)' => j <= i
    <3>1. \A j : j \in AssignmentsOf(d)' <=>
                 (j \in AssignmentsOf(d) \/ (j = Len(assignments) + 1 /\ d = c))
      BY <1>1, <1>3 DEF AssignmentsOf
    <3>2. CASE d = c
      <4>1. Len(assignments) + 1 \in AssignmentsOf(d)'
        BY <3>1, <3>2
      <4>2. \A j : j \in AssignmentsOf(d)' => j <= Len(assignments) + 1
        BY <1>3 DEF AssignmentsOf
      <4> QED  BY <4>1, <4>2
    <3>3. CASE d # c
      <4>1. HasAssignment(d)
        BY <2>1, <3>1, <3>3 DEF HasAssignment
      <4>2. \E i \in AssignmentsOf(d) : \A j \in AssignmentsOf(d) : j <= i
        BY <4>1 DEF SetupInv, LastOnes
      <4> QED  BY <3>1, <3>3, <4>2
    <3> QED  BY <3>2, <3>3
  <2> QED  BY <1>3, <2>1 DEF LastOnes
<1>6. CallsFit'
  BY <1>1, <1>4, CallsStay DEF SetupInv, CallsFit
<1>7. VerdictsFit'
  BY <1>1, <1>4, FitsStay DEF SetupInv, VerdictsFit
<1>8. PhoneFits' /\ HeldFits'
  BY <1>1, <1>4, PhoneRests, HeldRests
<1> QED  BY <1>5, <1>6, <1>7, <1>8 DEF SetupInv

LEMMA ConnectKeeps == ASSUME SetupInv, NEW c \in Code, Connect(c) PROVE SetupInv'
<1>1. PICK q : q = [ask |-> "assignment", code |-> c] /\ calls' = calls \cup {q}
  BY DEF Connect, Send
<1>2. assignments' = assignments /\ held' = held /\ verdict' = verdict
      /\ phone' = [config |-> c, assignment |-> Nothing, manifest |-> Nothing]
  BY DEF Connect
<1>3. Grown
  BY <1>2 DEF Grown
<1>4. CallFits(q)'
  BY <1>1 DEF CallFits
<1>5. PhoneFits'
  BY <1>2 DEF PhoneFits, PhoneStore
<1> QED  BY <1>1, <1>2, <1>3, <1>4, <1>5, QuietPart, HeldRests DEF SetupInv

LEMMA AskManifestKeeps == ASSUME SetupInv, AskManifest PROVE SetupInv'
<1>1. PICK q : q = [ask |-> "manifest", code |-> phone.config, assignment |-> phone.assignment.id]
               /\ calls' = calls \cup {q}
  BY DEF AskManifest, Send
<1>2. assignments' = assignments /\ held' = held /\ verdict' = verdict /\ phone' = phone
  BY DEF AskManifest
<1>3. Grown
  BY <1>2 DEF Grown
<1>4. CallFits(q)'
  BY <1>1 DEF CallFits
<1> QED  BY <1>1, <1>2, <1>3, <1>4, QuietPart, HeldRests, PhoneRests DEF SetupInv

LEMMA StoreAnswerKeeps == ASSUME SetupInv, StoreAnswer PROVE SetupInv'
<1>1. PICK a \in calls :
        /\ a.ask \in {"give assignment", "give manifest"}
        /\ calls' = calls \ {a}
        /\ phone' = IF a.ask = "give assignment" THEN [phone EXCEPT !.assignment = a.body]
                    ELSE [phone EXCEPT !.manifest = a.body]
  BY DEF StoreAnswer
<1>2. assignments' = assignments /\ held' = held /\ verdict' = verdict
  BY DEF StoreAnswer
<1>3. Grown
  BY <1>2 DEF Grown
<1>4. CallFits(a)
  BY DEF SetupInv, CallsFit
<1>5. CASE a.ask = "give assignment"
  <2>1. BodyFits(a.body) /\ a.body \in AssignmentBody
    BY <1>4, <1>5 DEF CallFits, BodyFits
  <2>2. phone' \in PhoneStore /\ phone'.assignment = a.body /\ phone'.manifest = phone.manifest
    BY <1>1, <1>5, <2>1 DEF SetupInv, PhoneFits, PhoneStore
  <2>3. BodyFits(phone.assignment)' /\ (phone'.manifest # Nothing => ManifestFits(phone.manifest)')
    BY <1>2, <2>1, <2>2 DEF SetupInv, PhoneFits, BodyFits, ManifestFits, TicketsIn
  <2>4. PhoneFits'
    BY <2>2, <2>3 DEF PhoneFits
  <2> QED  BY <1>1, <1>2, <1>3, <2>4, QuietPart, HeldRests DEF SetupInv
<1>6. CASE a.ask = "give manifest"
  <2>1. ManifestFits(a.body) /\ a.body \in ManifestBody
    BY <1>4, <1>6 DEF CallFits, ManifestFits
  <2>2. phone' \in PhoneStore /\ phone'.manifest = a.body /\ phone'.assignment = phone.assignment
    BY <1>1, <1>6, <2>1 DEF SetupInv, PhoneFits, PhoneStore
  <2>3. ManifestFits(phone.manifest)' /\ (phone'.assignment # Nothing => BodyFits(phone.assignment)')
    BY <1>2, <2>1, <2>2 DEF SetupInv, PhoneFits, BodyFits, ManifestFits, TicketsIn
  <2>4. PhoneFits'
    BY <2>2, <2>3 DEF PhoneFits
  <2> QED  BY <1>1, <1>2, <1>3, <2>4, QuietPart, HeldRests DEF SetupInv
<1> QED  BY <1>1, <1>5, <1>6

\* The manifest has the tickets of the zone that the assignment says.
LEMMA AdmitTicketKeeps == ASSUME SetupInv, NEW t \in Pass, AdmitTicket(t) PROVE SetupInv'
<1>1. PICK b, m : /\ b = phone.assignment /\ m = phone.manifest
                  /\ BodyFits(b) /\ ManifestFits(m)
                  /\ t \in m.tickets /\ m.zone = b.zone
  BY DEF AdmitTicket, ValidLocally, SetupInv, PhoneFits
<1>2. PICK e : /\ e = [code |-> b.code, gate |-> b.gate, zone |-> b.zone, status |-> "pending"]
               /\ held' = [held EXCEPT ![t] = e]
  BY <1>1 DEF AdmitTicket
<1>3. assignments' = assignments /\ phone' = phone /\ calls' = calls /\ verdict' = verdict
  BY DEF AdmitTicket
<1>4. ItemFits(t, e)
  <2>1. e \in Item
    BY <1>1, <1>2 DEF BodyFits, AssignmentBody, Item
  <2>2. e.zone = ZoneOf[t]
    BY <1>1, <1>2 DEF ManifestFits, TicketsIn
  <2>3. b.id \in DOMAIN assignments /\ assignments[b.id].code = e.code
        /\ assignments[b.id].gate = e.gate /\ assignments[b.id].zone = e.zone
    BY <1>1, <1>2 DEF BodyFits
  <2> QED  BY <2>1, <2>2, <2>3 DEF ItemFits
<1>5. e \in Item
  BY <1>4 DEF ItemFits
<1>6. Grown
  BY <1>2, <1>3, <1>5 DEF Grown, SetupInv, HeldFits
<1>7. HeldFits'
  <2>1. held' \in [Pass -> Item \cup {Nothing}]
    BY <1>2, <1>5 DEF SetupInv, HeldFits
  <2>2. \A s \in Pass : held'[s] = (IF s = t THEN e ELSE held[s])
    BY <1>2 DEF SetupInv, HeldFits
  <2>3. \A s \in Pass : held'[s] \in Item => ItemFits(s, held'[s])
    BY <1>4, <2>2 DEF SetupInv, HeldFits
  <2>4. \A s, d : ItemFits(s, d) => ItemFits(s, d)'
    BY <1>6, FitsStay
  <2> QED  BY <2>1, <2>3, <2>4 DEF HeldFits
<1> QED  BY <1>3, <1>6, <1>7, QuietPart, PhoneRests DEF SetupInv

LEMMA PushKeeps == ASSUME SetupInv, Push PROVE SetupInv'
<1>1. PICK q : /\ q = [ask |-> "sync", code |-> phone.config, assignment |-> phone.assignment.id,
                       events |-> [t \in PendingItems |-> held[t]]]
               /\ calls' = calls \cup {q}
  BY DEF Push, Send
<1>2. assignments' = assignments /\ held' = held /\ verdict' = verdict /\ phone' = phone
      /\ phone.assignment # Nothing
  BY DEF Push
<1>3. Grown
  BY <1>2 DEF Grown
<1>4. CallFits(q)
  <2>1. q.ask = "sync" /\ q.assignment = phone.assignment.id
        /\ DOMAIN q.events = PendingItems /\ \A t \in PendingItems : q.events[t] = held[t]
    BY <1>1
  <2>2. phone.assignment.id \in DOMAIN assignments
    BY <1>2 DEF SetupInv, PhoneFits, BodyFits
  <2>3. \A t \in PendingItems : t \in Pass /\ ItemFits(t, held[t]) /\ held[t] \in Item
    BY DEF PendingItems, SetupInv, HeldFits, ItemFits
  <2> QED  BY <2>1, <2>2, <2>3 DEF CallFits
<1>5. CallFits(q)'
  BY <1>3, <1>4, CallsStay
<1> QED  BY <1>1, <1>2, <1>3, <1>5, QuietPart, HeldRests, PhoneRests DEF SetupInv

LEMMA StoreResultsKeeps == ASSUME SetupInv, StoreResults PROVE SetupInv'
<1>1. PICK a \in calls :
        /\ a.ask = "give results"
        /\ calls' = calls \ {a}
        /\ held' = [t \in Pass |->
             IF t \in DOMAIN a.body THEN [held[t] EXCEPT !.status = a.body[t]]
             ELSE IF t \in PendingItems THEN [held[t] EXCEPT !.status = "dropped"]
             ELSE held[t]]
  BY DEF StoreResults
<1>2. assignments' = assignments /\ verdict' = verdict /\ phone' = phone
  BY DEF StoreResults
<1>3. \A t \in DOMAIN a.body : held[t] \in Item /\ a.body[t] \in {"accepted", "rejected"}
  BY <1>1 DEF SetupInv, CallsFit, CallFits
<1>4. \A t \in PendingItems : held[t] \in Item
  BY DEF PendingItems, SetupInv, HeldFits
<1>5. ASSUME NEW t \in Pass
      PROVE  \/ held'[t] = held[t]
             \/ /\ held[t] \in Item /\ held'[t] \in Item
                /\ held'[t].code = held[t].code /\ held'[t].gate = held[t].gate
                /\ held'[t].zone = held[t].zone
  <2>1. ASSUME NEW s \in {"accepted", "rejected", "dropped"}, held[t] \in Item,
               held'[t] = [held[t] EXCEPT !.status = s]
        PROVE  /\ held'[t] \in Item
               /\ held'[t].code = held[t].code /\ held'[t].gate = held[t].gate
               /\ held'[t].zone = held[t].zone
    <3>1. PICK e : e = held[t] /\ e \in Item
      BY <2>1
    <3>2. PICK d : d = [e EXCEPT !.status = s]
      OBVIOUS
    <3>3. d \in Item /\ d.code = e.code /\ d.gate = e.gate /\ d.zone = e.zone
      BY <3>1, <3>2 DEF Item
    <3> QED  BY <2>1, <3>1, <3>2, <3>3
  <2> QED  BY <1>1, <1>3, <1>4, <2>1
<1>6. Grown
  BY <1>2, <1>5 DEF Grown
<1>7. HeldFits'
  <2>1. held' \in [Pass -> Item \cup {Nothing}]
    BY <1>1, <1>5 DEF SetupInv, HeldFits
  <2>2. ASSUME NEW t \in Pass, held'[t] \in Item PROVE ItemFits(t, held[t])'
    BY <1>2, <1>5, <2>2 DEF SetupInv, HeldFits, ItemFits
  <2> QED  BY <2>1, <2>2 DEF HeldFits
<1> QED  BY <1>1, <1>2, <1>6, <1>7, QuietPart, PhoneRests DEF SetupInv

LEMMA LostKeeps == ASSUME SetupInv, AnswerLost PROVE SetupInv'
<1>1. assignments' = assignments /\ held' = held /\ verdict' = verdict /\ phone' = phone
      /\ \A q \in calls' : q \in calls
  BY DEF AnswerLost, Fail
<1>2. Grown
  BY <1>1 DEF Grown
<1> QED  BY <1>1, <1>2, QuietPart, HeldRests, PhoneRests DEF SetupInv

LEMMA WithdrawKeeps == ASSUME SetupInv, NEW t \in Pass, Withdraw(t) PROVE SetupInv'
<1>1. assignments' = assignments /\ held' = held /\ verdict' = verdict /\ phone' = phone
      /\ calls' = calls
  BY DEF Withdraw
<1>2. Grown
  BY <1>1 DEF Grown
<1> QED  BY <1>1, <1>2, QuietPart, HeldRests, PhoneRests DEF SetupInv

LEMMA GiveAssignmentKeeps ==
  ASSUME SetupInv, NEW call \in calls, GiveAssignment(call) PROVE SetupInv'
<1>1. assignments' = assignments /\ held' = held /\ verdict' = verdict /\ phone' = phone
  BY DEF GiveAssignment
<1>2. Grown
  BY <1>1 DEF Grown
<1>3. CASE HasAssignment(call.code)
  <2>1. PICK i : /\ i = ActiveOf(call.code) /\ i \in DOMAIN assignments
                 /\ assignments[i] \in AssignmentRow /\ assignments[i].code = call.code
    BY <1>3, LastIsActive DEF SetupInv
  <2>2. PICK b : b = [id |-> i, code |-> call.code, gate |-> assignments[i].gate,
                      zone |-> assignments[i].zone]
    OBVIOUS
  <2>3. PICK q : q = [ask |-> "give assignment", body |-> b]
    OBVIOUS
  <2>4. calls' = (calls \ {call}) \cup {q}
    BY <1>3, <2>1, <2>2, <2>3 DEF GiveAssignment, Respond
  <2>5. b \in AssignmentBody
    <3>1. i \in Nat
      BY <2>1 DEF SetupInv, LastOnes
    <3> QED  BY <2>1, <2>2, <3>1 DEF AssignmentRow, AssignmentBody
  <2>6. BodyFits(b)
    BY <2>1, <2>2, <2>5 DEF BodyFits
  <2>7. CallFits(q)
    BY <2>3, <2>6 DEF CallFits
  <2>8. CallFits(q)'
    BY <1>2, <2>7, CallsStay
  <2> QED  BY <1>1, <1>2, <2>4, <2>8, QuietPart, HeldRests, PhoneRests DEF SetupInv
<1>4. CASE ~HasAssignment(call.code)
  <2>1. \A q \in calls' : q \in calls
    BY <1>4 DEF GiveAssignment, Fail
  <2> QED  BY <1>1, <1>2, <2>1, QuietPart, HeldRests, PhoneRests DEF SetupInv
<1> QED  BY <1>3, <1>4

LEMMA GiveManifestKeeps ==
  ASSUME SetupInv, NEW call \in calls, GiveManifest(call) PROVE SetupInv'
<1>1. assignments' = assignments /\ held' = held /\ verdict' = verdict /\ phone' = phone
  BY DEF GiveManifest
<1>2. Grown
  BY <1>1 DEF Grown
<1>3. PICK i, z, revoked :
        /\ i = ActiveOf(call.code) /\ z = assignments[i].zone
        /\ revoked = TicketsIn(z) \cap withdrawn
        /\ \/ /\ HasAssignment(call.code)
              /\ Respond(call, "give manifest",
                    [gate |-> assignments[i].gate, zone |-> z,
                     tickets |-> TicketsIn(z), revoked |-> revoked])
           \/ Fail(call)
  BY DEF GiveManifest
<1>4. CASE Fail(call)
  <2>1. \A q \in calls' : q \in calls
    BY <1>4 DEF Fail
  <2> QED  BY <1>1, <1>2, <2>1, QuietPart, HeldRests, PhoneRests DEF SetupInv
<1>5. CASE /\ HasAssignment(call.code)
           /\ Respond(call, "give manifest",
                 [gate |-> assignments[i].gate, zone |-> z,
                  tickets |-> TicketsIn(z), revoked |-> revoked])
  <2>1. assignments[i] \in AssignmentRow
    BY <1>3, <1>5, LastIsActive DEF SetupInv
  <2>2. PICK m : m = [gate |-> assignments[i].gate, zone |-> z,
                      tickets |-> TicketsIn(z), revoked |-> revoked]
    OBVIOUS
  <2>3. PICK q : q = [ask |-> "give manifest", body |-> m]
    OBVIOUS
  <2>4. calls' = (calls \ {call}) \cup {q}
    BY <1>5, <2>2, <2>3 DEF Respond
  <2>5. m \in ManifestBody
    BY <1>3, <2>1, <2>2 DEF AssignmentRow, ManifestBody, TicketsIn
  <2>6. ManifestFits(m)
    BY <2>2, <2>5 DEF ManifestFits
  <2>7. CallFits(q)
    BY <2>3, <2>6 DEF CallFits
  <2>8. CallFits(q)'
    BY <1>2, <2>7, CallsStay
  <2> QED  BY <1>1, <1>2, <2>4, <2>8, QuietPart, HeldRests, PhoneRests DEF SetupInv
<1> QED  BY <1>3, <1>4, <1>5

\* An item that is turned down was not revoked, and its device has one
\* assignment, so it was asked for with another device's.
LEMMA ResultFits ==
  ASSUME SetupInv, NEW q \in calls, q.ask = "sync", SoundEnvelope(q), HasAssignment(q.code),
         NEW i, i = ActiveOf(q.code), NEW t \in DOMAIN q.events,
         NEW v, v = [result |-> IF Acceptable(q, t, i) THEN "accepted" ELSE "rejected",
                     assignment |-> i, asked |-> q.assignment, item |-> q.events[t],
                     revoked |-> t \in withdrawn]
  PROVE  t \in Pass /\ VerdictFits(t, v)
<1>1. /\ q.assignment \in DOMAIN assignments /\ t \in Pass
      /\ ItemFits(t, q.events[t])
  BY DEF SetupInv, CallsFit, CallFits
<1>2. i \in DOMAIN assignments /\ assignments[i].code = q.code
  BY LastIsActive DEF SetupInv
<1>3. q.events[t].code = q.code
  BY DEF SoundEnvelope
<1>4. CASE Acceptable(q, t, i)
  <2>1. v.result = "accepted" /\ v.assignment = i /\ v.item = q.events[t]
    BY <1>4
  <2>2. q.events[t].gate = assignments[i].gate /\ assignments[i].zone = ZoneOf[t]
    BY <1>4 DEF Acceptable, TicketsIn
  <2> QED  BY <1>1, <1>2, <1>3, <2>1, <2>2 DEF VerdictFits
<1>5. CASE ~Acceptable(q, t, i)
  <2>1. v.result = "rejected" /\ v.asked = q.assignment /\ v.item = q.events[t]
        /\ v.revoked = (t \in withdrawn)
    BY <1>5
  <2>2. ASSUME t \notin withdrawn, ~AssignedTwice(q.code), assignments[q.assignment].code = q.code
        PROVE  FALSE
    <3>1. PICK e : e = q.events[t] /\ ItemFits(t, e)
      BY <1>1
    <3>2. PICK j \in DOMAIN assignments :
            assignments[j].code = e.code /\ assignments[j].gate = e.gate
            /\ assignments[j].zone = e.zone
      BY <3>1 DEF ItemFits
    <3>3. i = j /\ i = q.assignment
      BY <1>1, <1>2, <1>3, <2>2, <3>1, <3>2 DEF AssignedTwice, AssignmentsOf
    <3>4. e.zone = ZoneOf[t]
      BY <3>1 DEF ItemFits
    <3> QED  BY <1>1, <1>3, <1>5, <2>2, <3>1, <3>2, <3>3, <3>4 DEF Acceptable, TicketsIn
  <2>3. v.revoked = TRUE \/ AssignedTwice(v.item.code) \/ assignments[v.asked].code # v.item.code
    BY <1>3, <2>1, <2>2
  <2> QED  BY <1>1, <2>1, <2>3 DEF VerdictFits
<1> QED  BY <1>1, <1>4, <1>5

LEMMA SyncKeeps == ASSUME SetupInv, NEW call \in calls, Sync(call) PROVE SetupInv'
<1>1. assignments' = assignments /\ held' = held /\ phone' = phone /\ call.ask = "sync"
  BY DEF Sync
<1>2. Grown
  BY <1>1 DEF Grown
<1>3. PhoneFits' /\ HeldFits'
  BY <1>1, <1>2, PhoneRests, HeldRests
<1>4. CASE SoundEnvelope(call) /\ HasAssignment(call.code)
  <2> DEFINE i == ActiveOf(call.code)
             fresh(t) == [result |-> IF Acceptable(call, t, i) THEN "accepted" ELSE "rejected",
                          assignment |-> i, asked |-> call.assignment, item |-> call.events[t],
                          revoked |-> t \in withdrawn]
             result(t) == IF verdict[t] # None THEN verdict[t] ELSE fresh(t)
  <2>1. /\ verdict' = [t \in Pass |->
              IF t \in DOMAIN call.events THEN result(t) ELSE verdict[t]]
        /\ Respond(call, "give results", [t \in DOMAIN call.events |-> result(t).result])
    BY <1>4 DEF Sync
  <2>2. \A t \in DOMAIN call.events : t \in Pass /\ VerdictFits(t, fresh(t))
    BY <1>1, <1>4, ResultFits
  <2>3. \A t \in DOMAIN call.events : t \in Pass /\ held[t] \in Item
    BY <1>1 DEF SetupInv, CallsFit, CallFits
  <2>4. \A t \in DOMAIN call.events : VerdictFits(t, result(t))
    <3> HIDE DEF fresh
    <3> QED  BY <2>2 DEF SetupInv, VerdictsFit
  <2>5. \A t \in DOMAIN call.events : result(t).result \in {"accepted", "rejected"}
    <3>1. \A t : fresh(t).result \in {"accepted", "rejected"}
      OBVIOUS
    <3>2. \A t \in Pass : verdict[t] # None => verdict[t].result \in {"accepted", "rejected"}
      BY DEF SetupInv, VerdictsFit, VerdictFits
    <3> HIDE DEF fresh
    <3> QED  BY <2>3, <3>1, <3>2
  <2> HIDE DEF i, fresh, result
  <2>6. \A t \in Pass : VerdictFits(t, verdict'[t])
    BY <2>1, <2>4 DEF SetupInv, VerdictsFit
  <2>7. VerdictsFit'
    <3>1. \A t, v : VerdictFits(t, v) => VerdictFits(t, v)'
      BY <1>2, FitsStay
    <3> QED  BY <2>6, <3>1 DEF VerdictsFit
  <2>8. PICK b, q : /\ b = [t \in DOMAIN call.events |-> result(t).result]
                    /\ q = [ask |-> "give results", body |-> b]
    OBVIOUS
  <2>9. calls' = (calls \ {call}) \cup {q}
    BY <2>1, <2>8 DEF Respond
  <2>10. CallFits(q)
    BY <2>3, <2>5, <2>8 DEF CallFits
  <2>11. CallsFit'
    BY <1>2, <2>9, <2>10, CallsStay DEF SetupInv, CallsFit
  <2>12. LastOnes'
    BY <1>1 DEF SetupInv, LastOnes, AssignmentsOf, HasAssignment
  <2> QED  BY <1>3, <2>7, <2>11, <2>12 DEF SetupInv
<1>5. CASE ~(SoundEnvelope(call) /\ HasAssignment(call.code))
  <2>1. verdict' = verdict /\ \A q \in calls' : q \in calls
    BY <1>5 DEF Sync, Fail
  <2> QED  BY <1>1, <1>2, <1>3, <2>1, QuietPart DEF SetupInv
<1> QED  BY <1>4, <1>5

LEMMA SetupKeeps == SetupInv /\ [SetupNext]_setupVars => SetupInv'
<1> SUFFICES ASSUME SetupInv, [SetupNext]_setupVars PROVE SetupInv'  OBVIOUS
<1>1. CASE SetupNext
  BY <1>1, AssignKeeps, ConnectKeeps, WithdrawKeeps, AdmitTicketKeeps, AskManifestKeeps,
     StoreAnswerKeeps, PushKeeps, StoreResultsKeeps, LostKeeps, GiveAssignmentKeeps,
     GiveManifestKeeps, SyncKeeps DEF SetupNext
<1>2. CASE UNCHANGED setupVars
  <2>1. assignments' = assignments /\ held' = held /\ verdict' = verdict /\ phone' = phone
        /\ calls' = calls
    BY <1>2 DEF setupVars
  <2>2. Grown
    BY <2>1 DEF Grown
  <2> QED  BY <2>1, <2>2, QuietPart, HeldRests, PhoneRests DEF SetupInv
<1> QED  BY <1>1, <1>2

LEMMA TwiceIsMore ==
  ASSUME LastOnes, NEW c, AssignedTwice(c) PROVE Cardinality(AssignmentsOf(c)) > 1
<1>1. PICK i, j : i \in AssignmentsOf(c) /\ j \in AssignmentsOf(c) /\ i # j
  BY DEF AssignedTwice
<1>2. IsFiniteSet(AssignmentsOf(c))
  <2>1. Len(assignments) \in Nat /\ AssignmentsOf(c) \subseteq 1 .. Len(assignments)
    BY DEF LastOnes, AssignmentsOf
  <2>2. IsFiniteSet(1 .. Len(assignments))
    BY <2>1, FS_Interval
  <2> QED  BY <2>1, <2>2, FS_Subset
<1>3. IsFiniteSet({i}) /\ Cardinality({i}) = 1
  BY FS_Singleton
<1>4. IsFiniteSet({i} \cup {j}) /\ Cardinality({i} \cup {j}) = 2
  BY <1>1, <1>3, FS_AddElement
<1>5. Cardinality({i} \cup {j}) <= Cardinality(AssignmentsOf(c))
  BY <1>1, <1>2, FS_Subset
<1>6. Cardinality(AssignmentsOf(c)) \in Nat
  BY <1>2, FS_CardinalityType
<1> QED  BY <1>4, <1>5, <1>6

LEMMA SetupHolds == SetupInv => ScansKeepTheirPlace
<1> SUFFICES ASSUME SetupInv PROVE ScansKeepTheirPlace  OBVIOUS
<1>1. \A t \in Pass : held[t] # Nothing => held[t].zone = ZoneOf[t]
  BY DEF SetupInv, HeldFits, ItemFits
<1>2. \A t \in Pass : VerdictFits(t, verdict[t])
  BY DEF SetupInv, VerdictsFit
<1>3. GatesKeepTheirScope
  BY <1>1, <1>2 DEF GatesKeepTheirScope, VerdictFits
<1>4. RejectionsAreExplained
  <2>1. \A c : AssignedTwice(c) => Cardinality(AssignmentsOf(c)) > 1
    BY TwiceIsMore DEF SetupInv
  <2> QED  BY <1>2, <2>1 DEF RejectionsAreExplained, VerdictFits
<1> QED  BY <1>3, <1>4 DEF ScansKeepTheirPlace

\* ScannerSetup: a phone admits tickets of the zone it is there for, they are
\* booked at the gate and for the device where they were scanned, and what the
\* backend turns down has an explanation, for any number of devices and answers.
THEOREM ScansAlwaysKeepTheirPlace == SetupSpec => []ScansKeepTheirPlace
<1>1. SetupSpec => []SetupInv
  BY SetupStarts, SetupKeeps, PTL DEF SetupSpec
<1> QED  BY <1>1, SetupHolds, PTL

-----------------------------------------------------------------------------
(* The demo data                                                           *)

(***************************************************************************)
(* The seed is one list of statements, so what its rows are follows from   *)
(* how far it is.  Its own rows of a table are gone between the deletion   *)
(* and the creation and there before and after, except for a guest list    *)
(* that was cleared; a buyer's rows come and go with the seats he holds,   *)
(* and one who does not write leaves a seed nothing to stumble over.       *)
(***************************************************************************)

\* When each table is emptied, and when it is filled.
DeletedAt ==
  [checkIn |-> 2, projection |-> 3, assignment |-> 4, device |-> 5, notification |-> 6,
   ticket |-> 7, item |-> 8, payment |-> 9, reservation |-> 10, order |-> 11, quota |-> 12,
   entry |-> 13, outbox |-> 14, version |-> 15, staging |-> 16, batch |-> 17, draft |-> 18,
   job |-> 19, counter |-> 20, type |-> 21, concert |-> 22]
CreatedAt ==
  [organization |-> 23, user |-> 24, concert |-> 25, type |-> 26, counter |-> 27, order |-> 28,
   reservation |-> 29, payment |-> 30, item |-> 31, ticket |-> 32, quota |-> 35, batch |-> 36,
   staging |-> 37, version |-> 38, entry |-> 39, outbox |-> 40, job |-> 41, draft |-> 42,
   notification |-> 43, device |-> 44, assignment |-> 45, projection |-> 46]

\* A function on the first numbers is a sequence.
LEMMA Listed ==
  ASSUME NEW S, NEW s, NEW n \in Nat, s = [i \in 1 .. n |-> s[i]], \A i \in 1 .. n : s[i] \in S
  PROVE  s \in Seq(S) /\ Len(s) = n
<1>1. s \in [1 .. n -> S]
  OBVIOUS
<1> QED
  BY <1>1, SeqDef

\* What a statement is about.
Statement == {"find", "delete", "create", "sum", "count", "quotas"} \X (Table \cup {""})

LEMMA StatementsAre ==
  ASSUME NEW ts \in Seq(Table), NEW kind \in {"delete", "create"}
  PROVE  /\ Statements(kind, ts) \in Seq(Statement) /\ Len(Statements(kind, ts)) = Len(ts)
         /\ \A i \in 1 .. Len(ts) : Statements(kind, ts)[i] = <<kind, ts[i]>>
<1>1. DOMAIN ts = 1 .. Len(ts) /\ Len(ts) \in Nat
  OBVIOUS
<1>2. ASSUME NEW i \in 1 .. Len(ts)
      PROVE  <<kind, ts[i]>> \in Statement
  <2>1. ts[i] \in Table
    OBVIOUS
  <2> QED
    BY <2>1 DEF Statement
<1>3. Statements(kind, ts) = [i \in 1 .. Len(ts) |-> <<kind, ts[i]>>]
  BY <1>1 DEF Statements
<1>4. /\ Statements(kind, ts) = [i \in 1 .. Len(ts) |-> Statements(kind, ts)[i]]
      /\ \A i \in 1 .. Len(ts) : Statements(kind, ts)[i] = <<kind, ts[i]>>
  BY <1>3
<1>5. \A i \in 1 .. Len(ts) : Statements(kind, ts)[i] \in Statement
  BY <1>2, <1>4
<1>6. Statements(kind, ts) \in Seq(Statement) /\ Len(Statements(kind, ts)) = Len(ts)
  BY <1>1, <1>4, <1>5, Listed
<1> QED
  BY <1>4, <1>6

\* The lists of tables are sequences of tables.
LEMMA DeletionsAre == Deletions \in Seq(Table) /\ Len(Deletions) = 21
<1>1. \A i \in 1 .. 21 : Deletions[i] \in Table
  BY DEF Deletions, Table
<1>2. Deletions = [i \in 1 .. 21 |-> Deletions[i]]
  BY DEF Deletions
<1> QED
  BY <1>1, <1>2, Listed

LEMMA ShopIs == Shop \in Seq(Table) /\ Len(Shop) = 10
<1>1. \A i \in 1 .. 10 : Shop[i] \in Table
  BY DEF Shop, Table
<1>2. Shop = [i \in 1 .. 10 |-> Shop[i]]
  BY DEF Shop
<1> QED
  BY <1>1, <1>2, Listed

Rest == GuestDemo \o BiographyDemo \o NotificationDemo \o ScannerDemo

LEMMA RestIs ==
  /\ Rest \in Seq(Table) /\ Len(Rest) = 11
  /\ Rest[1] = "batch" /\ Rest[2] = "staging" /\ Rest[3] = "version" /\ Rest[4] = "entry"
  /\ Rest[5] = "outbox" /\ Rest[6] = "job" /\ Rest[7] = "draft" /\ Rest[8] = "notification"
  /\ Rest[9] = "device" /\ Rest[10] = "assignment" /\ Rest[11] = "projection"
<1> PICK g, b, n, d : g = GuestDemo /\ b = BiographyDemo /\ n = NotificationDemo /\ d = ScannerDemo
  OBVIOUS
<1>1. g \in Seq(Table) /\ Len(g) = 5 /\ b \in Seq(Table) /\ Len(b) = 2
  BY DEF GuestDemo, BiographyDemo, Table
<1>2. n \in Seq(Table) /\ Len(n) = 1 /\ d \in Seq(Table) /\ Len(d) = 3
  BY DEF NotificationDemo, ScannerDemo, Table
<1>3. /\ g[1] = "batch" /\ g[2] = "staging" /\ g[3] = "version" /\ g[4] = "entry" /\ g[5] = "outbox"
      /\ b[1] = "job" /\ b[2] = "draft"
  BY DEF GuestDemo, BiographyDemo
<1>4. /\ n[1] = "notification"
      /\ d[1] = "device" /\ d[2] = "assignment" /\ d[3] = "projection"
  BY DEF NotificationDemo, ScannerDemo
<1>5. PICK gb : gb = g \o b
  OBVIOUS
<1>6. PICK gbn : gbn = gb \o n
  OBVIOUS
<1>7. PICK all : all = gbn \o d
  OBVIOUS
<1>8. /\ gb \in Seq(Table) /\ Len(gb) = 7
      /\ \A i \in 1 .. 7 : gb[i] = IF i <= 5 THEN g[i] ELSE b[i - 5]
  <2>1. /\ gb \in Seq(Table) /\ Len(gb) = Len(g) + Len(b)
        /\ \A i \in 1 .. Len(g) + Len(b) :
             gb[i] = IF i <= Len(g) THEN g[i] ELSE b[i - Len(g)]
    BY <1>1, <1>5, ConcatProperties
  <2>2. Len(gb) = 7 /\ Len(g) + Len(b) = 7
    BY <1>1, <2>1
  <2>3. \A i \in 1 .. 7 : gb[i] = IF i <= Len(g) THEN g[i] ELSE b[i - Len(g)]
    BY <2>1, <2>2, Zenon
  <2> QED
    BY <1>1, <2>1, <2>2, <2>3
<1>9. /\ gbn \in Seq(Table) /\ Len(gbn) = 8
      /\ \A i \in 1 .. 8 : gbn[i] = IF i <= 7 THEN gb[i] ELSE n[i - 7]
  <2>1. /\ gbn \in Seq(Table) /\ Len(gbn) = Len(gb) + Len(n)
        /\ \A i \in 1 .. Len(gb) + Len(n) :
             gbn[i] = IF i <= Len(gb) THEN gb[i] ELSE n[i - Len(gb)]
    BY <1>2, <1>8, <1>6, ConcatProperties
  <2>2. Len(gbn) = 8 /\ Len(gb) + Len(n) = 8
    BY <1>2, <1>8, <2>1
  <2>3. \A i \in 1 .. 8 : gbn[i] = IF i <= Len(gb) THEN gb[i] ELSE n[i - Len(gb)]
    BY <2>1, <2>2, Zenon
  <2> QED
    BY <1>2, <1>8, <2>1, <2>2, <2>3
<1>10. /\ all \in Seq(Table) /\ Len(all) = 11
      /\ \A i \in 1 .. 11 : all[i] = IF i <= 8 THEN gbn[i] ELSE d[i - 8]
  <2>1. /\ all \in Seq(Table) /\ Len(all) = Len(gbn) + Len(d)
        /\ \A i \in 1 .. Len(gbn) + Len(d) :
             all[i] = IF i <= Len(gbn) THEN gbn[i] ELSE d[i - Len(gbn)]
    BY <1>2, <1>9, <1>7, ConcatProperties
  <2>2. Len(all) = 11 /\ Len(gbn) + Len(d) = 11
    BY <1>2, <1>9, <2>1
  <2>3. \A i \in 1 .. 11 : all[i] = IF i <= Len(gbn) THEN gbn[i] ELSE d[i - Len(gbn)]
    BY <2>1, <2>2, Zenon
  <2> QED
    BY <1>2, <1>9, <2>1, <2>2, <2>3
<1>11. Rest = all
  BY <1>5, <1>6, <1>7 DEF Rest
<1>12. \A i \in 1 .. 7 : all[i] = gb[i]
  BY <1>9, <1>10
<1>13. \A i \in 1 .. 5 : all[i] = g[i]
  BY <1>8, <1>12
<1>14. all[6] = b[1] /\ all[7] = b[2]
  BY <1>8, <1>12
<1>15. all[8] = n[1]
  BY <1>9, <1>10
<1>16. all[9] = d[1] /\ all[10] = d[2] /\ all[11] = d[3]
  BY <1>10
<1>17. all[1] = g[1] /\ all[2] = g[2] /\ all[3] = g[3] /\ all[4] = g[4] /\ all[5] = g[5]
  BY <1>13
<1> QED
  BY <1>1, <1>2, <1>3, <1>4, <1>10, <1>11, <1>14, <1>15, <1>16, <1>17

\* Short sequences.
LEMMA Single ==
  ASSUME NEW S, NEW a \in S
  PROVE  <<a>> \in Seq(S) /\ Len(<<a>>) = 1 /\ <<a>>[1] = a
  OBVIOUS

LEMMA Three ==
  ASSUME NEW S, NEW a \in S, NEW b \in S, NEW c \in S
  PROVE  /\ <<a, b, c>> \in Seq(S) /\ Len(<<a, b, c>>) = 3
         /\ <<a, b, c>>[1] = a /\ <<a, b, c>>[2] = b /\ <<a, b, c>>[3] = c
  OBVIOUS

Counting == <<<<"sum", "">>, <<"count", "">>, <<"quotas", "">>>>

\* The program, statement by statement.
LEMMA ProgramIs ==
  /\ Len(Program) = 46 /\ DOMAIN Program = 1 .. 46
  /\ Program[1] = <<"find", "">>
  /\ \A i \in 2 .. 22 : Program[i] = <<"delete", Deletions[i - 1]>>
  /\ \A i \in 23 .. 32 : Program[i] = <<"create", Shop[i - 22]>>
  /\ Program[33] = <<"sum", "">> /\ Program[34] = <<"count", "">> /\ Program[35] = <<"quotas", "">>
  /\ \A i \in 36 .. 46 : Program[i] = <<"create", Rest[i - 35]>>
<1>1. PICK P, D, B, C, R :
      /\ P = <<<<"find", "">>>> /\ D = Statements("delete", Deletions)
      /\ B = Statements("create", Shop) /\ C = Counting /\ R = Statements("create", Rest)
  OBVIOUS
<1>2. P \in Seq(Statement) /\ Len(P) = 1 /\ P[1] = <<"find", "">>
  <2>1. <<"find", "">> \in Statement
    BY DEF Statement
  <2> QED
    BY <1>1, <2>1, Single
<1>3. /\ D \in Seq(Statement) /\ Len(D) = Len(Deletions)
      /\ \A i \in 1 .. Len(Deletions) : D[i] = <<"delete", Deletions[i]>>
  BY <1>1, DeletionsAre, StatementsAre
<1>4. /\ B \in Seq(Statement) /\ Len(B) = Len(Shop)
      /\ \A i \in 1 .. Len(Shop) : B[i] = <<"create", Shop[i]>>
  BY <1>1, ShopIs, StatementsAre
<1>5. /\ R \in Seq(Statement) /\ Len(R) = Len(Rest)
      /\ \A i \in 1 .. Len(Rest) : R[i] = <<"create", Rest[i]>>
  BY <1>1, RestIs, StatementsAre
<1>6. /\ C \in Seq(Statement) /\ Len(C) = 3 /\ C[1] = <<"sum", "">>
      /\ C[2] = <<"count", "">> /\ C[3] = <<"quotas", "">>
  <2>1. <<"sum", "">> \in Statement /\ <<"count", "">> \in Statement /\ <<"quotas", "">> \in Statement
    BY DEF Statement
  <2> QED
    BY <1>1, <2>1, Three DEF Counting
<1>7. Program = P \o D \o B \o C \o R
  BY <1>1 DEF Program, Counting, Rest
<1>8. PICK PD : PD = P \o D
  OBVIOUS
<1>9. PICK PDB : PDB = PD \o B
  OBVIOUS
<1>10. PICK PDBC : PDBC = PDB \o C
  OBVIOUS
<1>11. PICK all : all = PDBC \o R
  OBVIOUS
<1> DEFINE Lengths ==
      /\ P \in Seq(Statement) /\ Len(P) = 1 /\ D \in Seq(Statement) /\ Len(D) = 21
      /\ B \in Seq(Statement) /\ Len(B) = 10 /\ C \in Seq(Statement) /\ Len(C) = 3
      /\ R \in Seq(Statement) /\ Len(R) = 11
<1>12. Lengths
  BY <1>2, <1>3, <1>4, <1>5, <1>6, DeletionsAre, ShopIs, RestIs
<1>13. /\ PD \in Seq(Statement) /\ Len(PD) = 22
      /\ \A i \in 1 .. 22 : PD[i] = IF i <= 1 THEN P[i] ELSE D[i - 1]
  <2>1. /\ PD \in Seq(Statement) /\ Len(PD) = Len(P) + Len(D)
        /\ \A i \in 1 .. Len(P) + Len(D) :
             PD[i] = IF i <= Len(P) THEN P[i] ELSE D[i - Len(P)]
    BY <1>12, <1>8, ConcatProperties
  <2>2. Len(PD) = 22 /\ Len(P) + Len(D) = 22
    BY <1>12, <2>1
  <2>3. \A i \in 1 .. 22 : PD[i] = IF i <= Len(P) THEN P[i] ELSE D[i - Len(P)]
    BY <2>1, <2>2, Zenon
  <2> QED
    BY <1>12, <2>1, <2>2, <2>3
<1>14. /\ PDB \in Seq(Statement) /\ Len(PDB) = 32
      /\ \A i \in 1 .. 32 : PDB[i] = IF i <= 22 THEN PD[i] ELSE B[i - 22]
  <2>1. /\ PDB \in Seq(Statement) /\ Len(PDB) = Len(PD) + Len(B)
        /\ \A i \in 1 .. Len(PD) + Len(B) :
             PDB[i] = IF i <= Len(PD) THEN PD[i] ELSE B[i - Len(PD)]
    BY <1>12, <1>13, <1>9, ConcatProperties
  <2>2. Len(PDB) = 32 /\ Len(PD) + Len(B) = 32
    BY <1>12, <1>13, <2>1
  <2>3. \A i \in 1 .. 32 : PDB[i] = IF i <= Len(PD) THEN PD[i] ELSE B[i - Len(PD)]
    BY <2>1, <2>2, Zenon
  <2> QED
    BY <1>12, <1>13, <2>1, <2>2, <2>3
<1>15. /\ PDBC \in Seq(Statement) /\ Len(PDBC) = 35
      /\ \A i \in 1 .. 35 : PDBC[i] = IF i <= 32 THEN PDB[i] ELSE C[i - 32]
  <2>1. /\ PDBC \in Seq(Statement) /\ Len(PDBC) = Len(PDB) + Len(C)
        /\ \A i \in 1 .. Len(PDB) + Len(C) :
             PDBC[i] = IF i <= Len(PDB) THEN PDB[i] ELSE C[i - Len(PDB)]
    BY <1>12, <1>14, <1>10, ConcatProperties
  <2>2. Len(PDBC) = 35 /\ Len(PDB) + Len(C) = 35
    BY <1>12, <1>14, <2>1
  <2>3. \A i \in 1 .. 35 : PDBC[i] = IF i <= Len(PDB) THEN PDB[i] ELSE C[i - Len(PDB)]
    BY <2>1, <2>2, Zenon
  <2> QED
    BY <1>12, <1>14, <2>1, <2>2, <2>3
<1>16. /\ all \in Seq(Statement) /\ Len(all) = 46
      /\ \A i \in 1 .. 46 : all[i] = IF i <= 35 THEN PDBC[i] ELSE R[i - 35]
  <2>1. /\ all \in Seq(Statement) /\ Len(all) = Len(PDBC) + Len(R)
        /\ \A i \in 1 .. Len(PDBC) + Len(R) :
             all[i] = IF i <= Len(PDBC) THEN PDBC[i] ELSE R[i - Len(PDBC)]
    BY <1>12, <1>15, <1>11, ConcatProperties
  <2>2. Len(all) = 46 /\ Len(PDBC) + Len(R) = 46
    BY <1>12, <1>15, <2>1
  <2>3. \A i \in 1 .. 46 : all[i] = IF i <= Len(PDBC) THEN PDBC[i] ELSE R[i - Len(PDBC)]
    BY <2>1, <2>2, Zenon
  <2> QED
    BY <1>12, <1>15, <2>1, <2>2, <2>3
<1>17. \A i \in 1 .. 22 : PD[i] = IF i <= 1 THEN P[i] ELSE D[i - 1]
  BY <1>13, Zenon
<1>18. \A i \in 1 .. 32 : PDB[i] = IF i <= 22 THEN PD[i] ELSE B[i - 22]
  BY <1>14, Zenon
<1>19. \A i \in 1 .. 35 : PDBC[i] = IF i <= 32 THEN PDB[i] ELSE C[i - 32]
  BY <1>15, Zenon
<1>20. \A i \in 1 .. 46 : all[i] = IF i <= 35 THEN PDBC[i] ELSE R[i - 35]
  BY <1>16, Zenon
<1>21. \A i \in 36 .. 46 : all[i] = R[i - 35]
  BY <1>20
<1>22. \A i \in 1 .. 35 : all[i] = PDBC[i]
  BY <1>20
<1>23. \A i \in 33 .. 35 : all[i] = C[i - 32]
  BY <1>19, <1>22
<1>24. \A i \in 1 .. 32 : all[i] = PDB[i]
  BY <1>19, <1>22
<1>25. \A i \in 23 .. 32 : all[i] = B[i - 22]
  BY <1>18, <1>24
<1>26. \A i \in 1 .. 22 : all[i] = PD[i]
  BY <1>18, <1>24
<1>27. all[1] = P[1] /\ \A i \in 2 .. 22 : all[i] = D[i - 1]
  BY <1>17, <1>26
<1>28. all[33] = C[1] /\ all[34] = C[2] /\ all[35] = C[3]
  BY <1>23
<1>29. Program = all /\ Len(all) = 46 /\ DOMAIN all = 1 .. 46
  <2>1. Program = all
    BY <1>7, <1>8, <1>9, <1>10, <1>11
  <2>2. all \in Seq(Statement) /\ Len(all) = 46
    BY <1>16, Zenon
  <2>3. DOMAIN all = 1 .. 46
    BY <2>2
  <2> QED
    BY <2>1, <2>2, <2>3
<1>30. \A i \in 2 .. 22 : all[i] = <<"delete", Deletions[i - 1]>>
  <2>1. \A i \in 2 .. 22 : i - 1 \in 1 .. Len(Deletions)
    BY DeletionsAre
  <2> QED
    BY <1>3, <1>27, <2>1
<1>31. \A i \in 23 .. 32 : all[i] = <<"create", Shop[i - 22]>>
  <2>1. \A i \in 23 .. 32 : i - 22 \in 1 .. Len(Shop)
    BY ShopIs
  <2> QED
    BY <1>4, <1>25, <2>1
<1>32. \A i \in 36 .. 46 : all[i] = <<"create", Rest[i - 35]>>
  <2>1. \A i \in 36 .. 46 : i - 35 \in 1 .. Len(Rest)
    BY RestIs
  <2> QED
    BY <1>5, <1>21, <2>1
<1>33. all[1] = <<"find", "">>
  BY <1>2, <1>27, Zenon
<1>34. all[33] = <<"sum", "">> /\ all[34] = <<"count", "">> /\ all[35] = <<"quotas", "">>
  BY <1>6, <1>28, Zenon
<1> QED
  BY <1>29, <1>30, <1>31, <1>32, <1>33, <1>34, Zenon

-----------------------------------------------------------------------------
(* What a statement finds                                                  *)

LEMMA DeletionsInOrder ==
  /\ \A i \in 1 .. 21 : Deletions[i] \in DOMAIN DeletedAt /\ DeletedAt[Deletions[i]] = i + 1
  /\ \A t \in DOMAIN DeletedAt : t \in Table /\ DeletedAt[t] \in 2 .. 22 /\ Deletions[DeletedAt[t] - 1] = t
  BY DEF DeletedAt, Deletions, Table

LEMMA CreationsInOrder ==
  /\ \A i \in 1 .. 10 : Shop[i] \in DOMAIN CreatedAt /\ CreatedAt[Shop[i]] = i + 22
  /\ \A i \in 1 .. 11 : Rest[i] \in DOMAIN CreatedAt /\ CreatedAt[Rest[i]] = i + 35
  /\ \A t \in DOMAIN CreatedAt :
       /\ t \in Table /\ CreatedAt[t] \in 23 .. 46
       /\ CreatedAt[t] <= 32 => Shop[CreatedAt[t] - 22] = t
       /\ CreatedAt[t] \in 33 .. 35 => t = "quota"
       /\ CreatedAt[t] > 35 => Rest[CreatedAt[t] - 35] = t
<1>1. \A i \in 1 .. 10 : Shop[i] \in DOMAIN CreatedAt /\ CreatedAt[Shop[i]] = i + 22
  BY DEF CreatedAt, Shop
<1>2. /\ Rest[1] = "batch" /\ Rest[2] = "staging" /\ Rest[3] = "version" /\ Rest[4] = "entry"
      /\ Rest[5] = "outbox" /\ Rest[6] = "job" /\ Rest[7] = "draft" /\ Rest[8] = "notification"
      /\ Rest[9] = "device" /\ Rest[10] = "assignment" /\ Rest[11] = "projection"
  BY RestIs, Zenon
<1>3. \A i \in 1 .. 11 : Rest[i] \in DOMAIN CreatedAt /\ CreatedAt[Rest[i]] = i + 35
  BY <1>2 DEF CreatedAt
<1>4. \A t \in DOMAIN CreatedAt :
        /\ t \in Table /\ CreatedAt[t] \in 23 .. 46
        /\ CreatedAt[t] <= 32 => Shop[CreatedAt[t] - 22] = t
        /\ CreatedAt[t] \in 33 .. 35 => t = "quota"
  BY DEF CreatedAt, Shop, Table
<1>5. \A t \in DOMAIN CreatedAt : CreatedAt[t] > 35 => Rest[CreatedAt[t] - 35] = t
  BY <1>2 DEF CreatedAt
<1> QED
  BY <1>1, <1>3, <1>4, <1>5

LEMMA First == \A a, b : <<a, b>>[1] = a
  OBVIOUS

\* Each statement's kind, and its place among the others.
LEMMA StatementAt ==
  /\ DOMAIN Program = 1 .. 46 /\ Len(Program) = 46
  /\ Program[1][1] = "find" /\ Program[33][1] = "sum" /\ Program[34][1] = "count"
  /\ Program[35][1] = "quotas"
  /\ \A i \in 2 .. 22 :
       /\ Program[i][1] = "delete"
       /\ Program[i][2] \in DOMAIN DeletedAt /\ DeletedAt[Program[i][2]] = i
       /\ \A t \in DOMAIN DeletedAt : DeletedAt[t] = i => t = Program[i][2]
  /\ \A i \in (23 .. 32) \cup (36 .. 46) :
       /\ Program[i][1] = "create"
       /\ Program[i][2] \in DOMAIN CreatedAt /\ CreatedAt[Program[i][2]] = i
       /\ \A t \in DOMAIN CreatedAt : CreatedAt[t] = i => t = Program[i][2]
<1>1. DOMAIN Program = 1 .. 46 /\ Len(Program) = 46
  BY ProgramIs, Zenon
<1>2. /\ Program[1][1] = "find" /\ Program[33][1] = "sum" /\ Program[34][1] = "count"
      /\ Program[35][1] = "quotas"
  <2>1. Program[1] = <<"find", "">>
    BY ProgramIs, Zenon
  <2>2. Program[33] = <<"sum", "">>
    BY ProgramIs, Zenon
  <2>3. Program[34] = <<"count", "">>
    BY ProgramIs, Zenon
  <2>4. Program[35] = <<"quotas", "">>
    BY ProgramIs, Zenon
  <2>5. Program[1][1] = "find"
    BY <2>1, First, Zenon
  <2>6. Program[33][1] = "sum"
    BY <2>2, First, Zenon
  <2>7. Program[34][1] = "count"
    BY <2>3, First, Zenon
  <2>8. Program[35][1] = "quotas"
    BY <2>4, First, Zenon
  <2> QED
    BY <2>5, <2>6, <2>7, <2>8
<1>3. ASSUME NEW i \in 2 .. 22
      PROVE  /\ Program[i][1] = "delete"
             /\ Program[i][2] \in DOMAIN DeletedAt /\ DeletedAt[Program[i][2]] = i
             /\ \A t \in DOMAIN DeletedAt : DeletedAt[t] = i => t = Program[i][2]
  <2>1. Program[i] = <<"delete", Deletions[i - 1]>>
    BY ProgramIs, Zenon
  <2>2. Program[i][1] = "delete" /\ Program[i][2] = Deletions[i - 1]
    BY <2>1
  <2>3. i - 1 \in 1 .. 21 /\ (i - 1) + 1 = i
    OBVIOUS
  <2> QED
    BY <2>2, <2>3, DeletionsInOrder, Zenon
<1>4. ASSUME NEW i \in (23 .. 32) \cup (36 .. 46)
      PROVE  /\ Program[i][1] = "create"
             /\ Program[i][2] \in DOMAIN CreatedAt /\ CreatedAt[Program[i][2]] = i
             /\ \A t \in DOMAIN CreatedAt : CreatedAt[t] = i => t = Program[i][2]
  <2>1. CASE i \in 23 .. 32
    <3>1. Program[i] = <<"create", Shop[i - 22]>>
      BY <2>1, ProgramIs, Zenon
    <3>2. Program[i][1] = "create" /\ Program[i][2] = Shop[i - 22]
      BY <3>1
    <3>3. i - 22 \in 1 .. 10 /\ (i - 22) + 22 = i /\ i <= 32
      BY <2>1
    <3> QED
      BY <3>2, <3>3, CreationsInOrder, Zenon
  <2>2. CASE i \in 36 .. 46
    <3>1. Program[i] = <<"create", Rest[i - 35]>>
      BY <2>2, ProgramIs, Zenon
    <3>2. Program[i][1] = "create" /\ Program[i][2] = Rest[i - 35]
      BY <3>1
    <3>3. i - 35 \in 1 .. 11 /\ (i - 35) + 35 = i /\ i > 35
      BY <2>2
    <3> QED
      BY <3>2, <3>3, CreationsInOrder, Zenon
  <2> QED
    BY <2>1, <2>2
<1> QED
  BY <1>1, <1>2, <1>3, <1>4, Zenon

-----------------------------------------------------------------------------
(* Foreign keys                                                            *)

\* A row of one table refers to a row of another.
Refers(u, r, t, s) ==
  \/ u \in DOMAIN Own /\ t \in Own[u] /\ s = r
  \/ u \in DOMAIN Seeded /\ t \in Seeded[u] /\ s = "demo"

LEMMA NeedsAre ==
  ASSUME NEW t, NEW r, NEW u, NEW s
  PROVE  <<u, s>> \in Needs(t, r) <=> Refers(t, r, u, s)
  BY DEF Needs, Refers

LEMMA Needed ==
  ASSUME NEW t, NEW r, NEW u, NEW gone
  PROVE  Needs(u, r) \cap ({t} \X gone) # {} <=> \E s \in gone : Refers(u, r, t, s)
<1>1. ASSUME NEW x \in Needs(u, r) \cap ({t} \X gone)
      PROVE  \E s \in gone : Refers(u, r, t, s)
  <2>1. PICK s \in gone : x = <<t, s>>
    BY <1>1
  <2> QED
    BY <1>1, <2>1, NeedsAre
<1>2. ASSUME NEW s \in gone, Refers(u, r, t, s)
      PROVE  <<t, s>> \in Needs(u, r) \cap ({t} \X gone)
  BY <1>2, NeedsAre
<1> QED
  BY <1>1, <1>2

LEMMA InUseIs ==
  ASSUME NEW t, NEW gone
  PROVE  InUse(t, gone) <=>
           \E u \in Table : \E r \in rows[u] : ~Follows(u, t) /\ \E s \in gone : Refers(u, r, t, s)
  BY Needed DEF InUse

LEMMA WithoutIs ==
  ASSUME NEW t, NEW gone, NEW u \in Table
  PROVE  Without(t, gone)[u] =
           IF u = t THEN rows[u] \ gone
           ELSE IF Follows(u, t) THEN {r \in rows[u] : ~\E s \in gone : Refers(u, r, t, s)}
           ELSE rows[u]
  BY Needed DEF Without

LEMMA CanAddIs ==
  ASSUME NEW t, NEW r, r \notin rows[t],
         \A u, s : Refers(t, r, u, s) => s \in rows[u]
  PROVE  CanAdd(t, r)
<1>1. ASSUME NEW n \in Needs(t, r)
      PROVE  n[2] \in rows[n[1]]
  <2>1. PICK u, s : n = <<u, s>>
    BY DEF Needs
  <2>2. s \in rows[u]
    BY <2>1, NeedsAre
  <2> QED
    BY <2>1, <2>2
<1> QED
  BY <1>1 DEF CanAdd

LEMMA CanAddNeeds ==
  ASSUME NEW t, NEW r, CanAdd(t, r), NEW u, NEW s, Refers(t, r, u, s)
  PROVE  s \in rows[u]
<1>1. <<u, s>> \in Needs(t, r)
  BY NeedsAre
<1> QED
  BY <1>1 DEF CanAdd

LEMMA RefersIs ==
  \A u, t \in Table : \A r, s : Refers(u, r, t, s) <=>
    \/ /\ s = r
       /\ \/ u = "ticket" /\ t \in {"order", "item"}
          \/ u \in {"item", "payment"} /\ t = "order"
          \/ u \in {"version", "staging"} /\ t = "batch"
          \/ u = "entry" /\ t = "version"
          \/ u = "draft" /\ t = "job"
          \/ u = "projection" /\ t = "assignment"
    \/ /\ s = "demo"
       /\ \/ u \in {"ticket", "item", "reservation", "counter", "quota"} /\ t = "type"
          \/ u \in {"type", "batch", "staging", "version", "job", "draft"} /\ t = "concert"
          \/ u \in {"concert", "notification"} /\ t = "organization"
          \/ u \in {"assignment", "checkIn"} /\ t = "device"
          \/ u = "checkIn" /\ t = "assignment"
<1>1. \A u, t \in Table : (u \in DOMAIN Own /\ t \in Own[u]) <=>
        \/ u = "ticket" /\ t \in {"order", "item"}
        \/ u \in {"item", "payment"} /\ t = "order"
        \/ u \in {"version", "staging"} /\ t = "batch"
        \/ u = "entry" /\ t = "version"
        \/ u = "draft" /\ t = "job"
        \/ u = "projection" /\ t = "assignment"
  BY DEF Own, Table
<1>2. \A u, t \in Table : (u \in DOMAIN Seeded /\ t \in Seeded[u]) <=>
        \/ u \in {"ticket", "item", "reservation", "counter", "quota"} /\ t = "type"
        \/ u \in {"type", "batch", "staging", "version", "job", "draft"} /\ t = "concert"
        \/ u \in {"concert", "notification"} /\ t = "organization"
        \/ u \in {"assignment", "checkIn"} /\ t = "device"
        \/ u = "checkIn" /\ t = "assignment"
  BY DEF Seeded, Table
<1> QED
  BY <1>1, <1>2 DEF Refers

LEMMA RefersInTables ==
  \A t \in Table : \A r, u, s : Refers(t, r, u, s) => u \in Table
  BY DEF Refers, Own, Seeded, Table

-----------------------------------------------------------------------------
(* The invariant of the demo data                                          *)

Rows == SUBSET {"demo", "own"}
SeedTyped ==
  /\ rows \in [Table -> Rows]
  /\ hold \in {"none", "active", "confirmed"}
  /\ seed \in [at : Nat, runs : BOOLEAN, starts : BOOLEAN, orders : Rows, versions : Rows,
               sums : [reserved : Nat, sold : Nat]]
  /\ seed.runs => seed.at \in 1 .. 47 /\ last = "none"
  /\ disturbed \in {"not", "early", "late"} /\ cleared \in BOOLEAN

\* What refers to what, whoever runs and however far.
RowsFit ==
  /\ rows["item"] \subseteq rows["order"]
  /\ rows["entry"] \subseteq rows["version"]
  /\ rows["reservation"] # {} \/ rows["quota"] # {} \/ rows["counter"] # {} => "demo" \in rows["type"]
  /\ "demo" \in rows["outbox"] => "demo" \in rows["version"] \/ cleared

Emptied(t) == seed.runs /\ DeletedAt[t] < seed.at
Filled(t) == seed.runs /\ t \in DOMAIN CreatedAt /\ CreatedAt[t] < seed.at

\* The seed's own rows are deleted, and then there again.
DemoRowsFit ==
  /\ \A t \in DOMAIN DeletedAt :
       Emptied(t) /\ ~Filled(t) => "demo" \notin rows[t] \/ (t = "outbox" /\ cleared)
  /\ \A t \in DOMAIN CreatedAt :
       Filled(t) => "demo" \in rows[t] \/ (t \in {"version", "entry"} /\ cleared)
  /\ seed.runs /\ seed.at \in 2 .. 15 /\ "demo" \in rows["version"] => "demo" \in seed.versions

\* What the buyer has, whatever he does meanwhile.
OwnRowsFit ==
  seed.runs =>
    /\ seed.at \in 22 .. 27 => rows["reservation"] = {} /\ rows["quota"] = {} /\ rows["counter"] = {}
    /\ seed.at > 21 => ("own" \in rows["quota"] <=> "own" \in rows["reservation"])
    /\ seed.at > 10 => (hold = "confirmed" => "own" \in rows["ticket"])
    /\ seed.at = 34 /\ disturbed # "late" => seed.sums = Sums
    /\ seed.at > 34 /\ disturbed # "late" => counter = Sums

\* What a seed has left of the application's rows, if nobody writes.
Selects(t) == t \notin {"item", "payment", "order", "entry", "outbox", "assignment", "projection"}
Alone == seed.runs /\ disturbed = "not" /\ ~cleared /\ "own" \notin rows["assignment"]
LoneRowsFit ==
  Alone =>
    /\ \A t \in DOMAIN DeletedAt : Emptied(t) /\ Selects(t) => "own" \notin rows[t]
    /\ seed.at > 1 => ("own" \in rows["item"] => "own" \in seed.orders)
    /\ seed.at > 8 => "own" \notin rows["item"]
    /\ seed.at > 9 => ("own" \in rows["payment"] => "own" \notin seed.orders)

SeedInv == SeedTyped /\ RowsFit /\ DemoRowsFit /\ OwnRowsFit /\ LoneRowsFit /\ SeedsLeaveOrder

-----------------------------------------------------------------------------
(* The statements as steps                                                 *)

GoesOn == seed' = [seed EXCEPT !.at = seed.at + 1] /\ last' = last
Breaks == seed' = NoSeed /\ last' = "failed" /\ UNCHANGED <<rows, hold, counter>>
DeletesNow(t) ==
  /\ t \in DOMAIN DeletedAt /\ DeletedAt[t] = seed.at /\ seed.at \in 2 .. 22
  /\ \A u \in DOMAIN DeletedAt : DeletedAt[u] = seed.at => u = t
CreatesNow(t) ==
  /\ t \in DOMAIN CreatedAt /\ CreatedAt[t] = seed.at /\ seed.at \in 23 .. 46 /\ seed.at \notin 33 .. 34
  /\ \A u \in DOMAIN CreatedAt : CreatedAt[u] = seed.at => u = t
Deletes(t) ==
  /\ DeletesNow(t) /\ GoesOn
  /\ ~InUse(t, Selected(t) \cap rows[t]) /\ rows' = Without(t, Selected(t) \cap rows[t])
  /\ hold' = (IF t = "reservation" THEN "none" ELSE hold) /\ counter' = counter
Creates(t) ==
  /\ CreatesNow(t) /\ GoesOn /\ (CanAdd(t, "demo") \/ t \in Upserts)
  /\ rows' = With({t}, "demo") /\ hold' = hold
  /\ counter' = (IF t = "counter" THEN [reserved |-> 0, sold |-> 0] ELSE counter)

LEMMA SeedStepIs ==
  ASSUME SeedTyped, SeedStep
  PROVE  /\ seed.runs /\ UNCHANGED <<api, disturbed, cleared, seeds>>
         /\ \/ /\ seed.at = 1 /\ UNCHANGED <<rows, hold, counter, last>>
               /\ seed' = [seed EXCEPT !.at = seed.at + 1,
                    !.orders = rows["order"] \cap rows["item"], !.versions = rows["version"]]
            \/ \E t \in Table : Deletes(t)
            \/ \E t \in Table : DeletesNow(t) /\ InUse(t, Selected(t) \cap rows[t]) /\ Breaks
            \/ \E t \in Table : Creates(t)
            \/ \E t \in Table : CreatesNow(t) /\ ~CanAdd(t, "demo") /\ t \notin Upserts /\ Breaks
            \/ /\ seed.at = 33 /\ UNCHANGED <<rows, hold, counter, last>>
               /\ seed' = [seed EXCEPT !.at = seed.at + 1, !.sums = Sums]
            \/ /\ seed.at = 34 /\ GoesOn
               /\ counter' = seed.sums /\ UNCHANGED <<rows, hold>>
<1> DEFINE at == Program[seed.at]
<1>1. seed.runs /\ seed.at \in 1 .. 46 /\ UNCHANGED <<api, disturbed, cleared, seeds>>
  BY StatementAt DEF SeedStep
<1>2. /\ seed.at = 1 => at[1] = "find"
      /\ seed.at = 33 => at[1] = "sum"
      /\ seed.at = 34 => at[1] = "count"
      /\ seed.at = 35 => at[1] = "quotas"
      /\ seed.at \in 2 .. 22 => at[1] = "delete" /\ at[2] \in Table /\ DeletesNow(at[2])
      /\ seed.at \in 23 .. 32 \/ seed.at \in 36 .. 46 =>
           at[1] = "create" /\ at[2] \in Table /\ CreatesNow(at[2])
  BY <1>1, StatementAt, DeletionsInOrder, CreationsInOrder DEF DeletesNow, CreatesNow
<1>3. seed.at = 35 => CreatesNow("quota") /\ "quota" \in Table
  BY CreationsInOrder DEF CreatesNow, CreatedAt, Table
<1>4. /\ seed.at \in 2 .. 22 \/ seed.at \in 23 .. 32 \/ seed.at \in 36 .. 46
         \/ seed.at = 1 \/ seed.at = 33 \/ seed.at = 34 \/ seed.at = 35
  BY <1>1
<1> HIDE DEF at
<1>5. CASE Find(at)
  <2>1. at[1] = "find"
    BY <1>5, First DEF Find
  <2>2. seed.at = 1
    BY <1>2, <1>4, <2>1
  <2> QED
    BY <1>1, <1>5, <2>2 DEF Find
<1>6. CASE Delete(at)
  <2>1. at[1] = "delete"
    BY <1>6 DEF Delete
  <2>2. at[2] \in Table /\ DeletesNow(at[2])
    BY <1>2, <1>4, <2>1
  <2>3. Deletes(at[2]) \/ (InUse(at[2], Selected(at[2]) \cap rows[at[2]]) /\ Breaks)
    BY <1>6, <2>2 DEF Delete, Deletes, Break, Breaks, GoOn, GoesOn
  <2> QED
    BY <1>1, <2>2, <2>3
<1>7. CASE Create(at)
  <2>1. at[1] = "create"
    BY <1>7 DEF Create
  <2>2. at[2] \in Table /\ CreatesNow(at[2])
    BY <1>2, <1>4, <2>1
  <2>3. Creates(at[2]) \/ (~CanAdd(at[2], "demo") /\ at[2] \notin Upserts /\ Breaks)
    BY <1>7, <2>2 DEF Create, Creates, Break, Breaks, GoOn, GoesOn
  <2> QED
    BY <1>1, <2>2, <2>3
<1>8. CASE Sum(at)
  <2>1. at[1] = "sum"
    BY <1>8, First DEF Sum
  <2>2. seed.at = 33
    BY <1>2, <1>4, <2>1
  <2> QED
    BY <1>1, <1>8, <2>2 DEF Sum
<1>9. CASE Count(at)
  <2>1. at[1] = "count"
    BY <1>9, First DEF Count
  <2>2. seed.at = 34
    BY <1>2, <1>4, <2>1
  <2> QED
    BY <1>1, <1>9, <2>2 DEF Count, GoOn, GoesOn
<1>10. CASE Quotas(at)
  <2>1. at[1] = "quotas"
    BY <1>10, First DEF Quotas
  <2>2. seed.at = 35
    BY <1>2, <1>4, <2>1
  <2>3. Creates("quota") \/ (~CanAdd("quota", "demo") /\ "quota" \notin Upserts /\ Breaks)
    BY <1>3, <1>10, <2>2 DEF Quotas, Creates, Break, Breaks, GoOn, GoesOn, Upserts
  <2> QED
    BY <1>1, <1>3, <2>2, <2>3
<1> QED
  BY <1>5, <1>6, <1>7, <1>8, <1>9, <1>10 DEF SeedStep, at

\* What a deletion does to the rows.
LEMMA DeletedRows ==
  ASSUME SeedTyped, NEW t \in Table, Deletes(t)
  PROVE  /\ rows' \in [Table -> Rows]
         /\ \A u \in Table : rows'[u] \subseteq rows[u]
         /\ rows'[t] = rows[t] \ Selected(t)
         /\ \A u \in Table : u # t /\ ~Follows(u, t) => rows'[u] = rows[u]
         /\ \A u \in Table : u # t /\ Follows(u, t) =>
              rows'[u] = {r \in rows[u] : ~\E s \in Selected(t) \cap rows[t] : Refers(u, r, t, s)}
<1> DEFINE gone == Selected(t) \cap rows[t]
<1>1. \A u \in Table : rows'[u] =
        IF u = t THEN rows[u] \ gone
        ELSE IF Follows(u, t) THEN {r \in rows[u] : ~\E s \in gone : Refers(u, r, t, s)}
        ELSE rows[u]
  <2>1. \A u \in Table : Without(t, gone)[u] =
          IF u = t THEN rows[u] \ gone
          ELSE IF Follows(u, t) THEN {r \in rows[u] : ~\E s \in gone : Refers(u, r, t, s)}
          ELSE rows[u]
    BY WithoutIs
  <2> QED
    BY <2>1 DEF Deletes
<1>2. DOMAIN rows' = Table /\ rows' = [u \in Table |-> rows'[u]]
  BY DEF Deletes, Without
<1>3. \A u \in Table : rows'[u] \subseteq rows[u]
  BY <1>1
<1>4. \A u \in Table : rows'[u] \in Rows
  BY <1>3 DEF SeedTyped, Rows
<1>5. rows' \in [Table -> Rows]
  BY <1>2, <1>4
<1> QED
  BY <1>1, <1>3, <1>5

LEMMA AddedRows ==
  ASSUME SeedTyped, NEW ts, NEW r \in {"demo", "own"}, rows' = With(ts, r)
  PROVE  /\ rows' \in [Table -> Rows]
         /\ \A u \in Table : rows'[u] = IF u \in ts THEN rows[u] \cup {r} ELSE rows[u]
  BY DEF SeedTyped, With, Rows

-----------------------------------------------------------------------------
(* A deletion                                                              *)

LEMMA DeletionFits ==
  ASSUME SeedInv, NEW t \in Table, Deletes(t), seed.runs, UNCHANGED <<disturbed, cleared>>
  PROVE  SeedTyped' /\ RowsFit' /\ DemoRowsFit'
<1> USE DEF SeedInv
<1>1. /\ rows' \in [Table -> Rows]
      /\ \A u \in Table : rows'[u] \subseteq rows[u]
      /\ rows'[t] = rows[t] \ Selected(t)
      /\ \A u \in Table : u # t /\ ~Follows(u, t) => rows'[u] = rows[u]
      /\ \A u \in Table : u # t /\ Follows(u, t) =>
           rows'[u] = {r \in rows[u] : ~\E s \in Selected(t) \cap rows[t] : Refers(u, r, t, s)}
  BY DeletedRows
<1>2. /\ seed' = [seed EXCEPT !.at = seed.at + 1] /\ last' = last /\ DeletesNow(t)
      /\ hold' = (IF t = "reservation" THEN "none" ELSE hold)
  BY DEF Deletes, GoesOn
<1>3. seed.at \in 2 .. 22 /\ t \in DOMAIN DeletedAt /\ DeletedAt[t] = seed.at
  BY <1>2 DEF DeletesNow
<1>4. SeedTyped'
  BY <1>1, <1>2, <1>3 DEF SeedTyped
<1>5. /\ seed'.runs /\ seed'.at = seed.at + 1 /\ seed'.versions = seed.versions
      /\ seed'.orders = seed.orders
  BY <1>2 DEF SeedTyped
<1>6. \A u \in Table : \A r \in rows[u], s \in Selected(t) \cap rows[t] : Refers(u, r, t, s) => Follows(u, t)
  BY InUseIs DEF Deletes
<1>7. "demo" \in rows[t] /\ t # "outbox" => "demo" \in Selected(t)
  <2>1. CASE t \in {"item", "payment", "order", "assignment", "projection"}
    BY <2>1 DEF Selected
  <2>2. CASE t = "entry"
    BY <2>2, <1>3 DEF Selected, RowsFit, DemoRowsFit, DeletedAt
  <2>3. CASE t \notin {"item", "payment", "order", "assignment", "projection", "entry", "outbox"}
    BY <2>3 DEF Selected
  <2> QED
    BY <2>1, <2>2, <2>3
<1>8. RowsFit'
  <2>1. rows'["item"] \subseteq rows'["order"]
    <3>1. CASE t = "order"
      BY <3>1, <1>1, <1>6, RefersIs DEF RowsFit, Table, Follows
    <3>2. CASE t # "order"
      BY <3>2, <1>1 DEF RowsFit, Table, Follows
    <3> QED
      BY <3>1, <3>2
  <2>2. rows'["entry"] \subseteq rows'["version"]
    <3>1. CASE t = "version"
      BY <3>1, <1>1, RefersIs DEF RowsFit, Table, Follows
    <3>2. CASE t # "version"
      BY <3>2, <1>1 DEF RowsFit, Table, Follows
    <3> QED
      BY <3>1, <3>2
  <2>3. rows'["reservation"] # {} \/ rows'["quota"] # {} \/ rows'["counter"] # {} => "demo" \in rows'["type"]
    <3>1. CASE t = "type"
      <4>1. CASE "demo" \in rows["type"]
        <5>1. "demo" \in Selected(t) \cap rows[t]
          BY <3>1, <4>1, <1>7
        <5>2. rows["reservation"] = {}
          BY <3>1, <5>1, <1>6, RefersIs DEF SeedTyped, Table, Follows
        <5>3. rows'["quota"] = {} /\ rows'["counter"] = {}
          BY <3>1, <5>1, <1>1, RefersIs DEF Table, Follows
        <5> QED
          BY <5>2, <5>3, <1>1 DEF Table
      <4>2. CASE "demo" \notin rows["type"]
        BY <4>2, <1>1 DEF RowsFit, Table
      <4> QED
        BY <4>1, <4>2
    <3>2. CASE t # "type"
      BY <3>2, <1>1 DEF RowsFit, Table, Follows
    <3> QED
      BY <3>1, <3>2
  <2>4. "demo" \in rows'["outbox"] => "demo" \in rows'["version"] \/ cleared'
    <3>1. CASE t = "version"
      <4>1. seed.at = 15
        BY <3>1, <1>3 DEF DeletedAt
      <4>2. "outbox" \in DOMAIN DeletedAt /\ Emptied("outbox") /\ ~Filled("outbox")
        BY <4>1 DEF Emptied, Filled, DeletedAt, CreatedAt
      <4>3. "demo" \notin rows["outbox"] \/ cleared
        BY <4>2 DEF DemoRowsFit
      <4> QED
        BY <4>3, <1>1 DEF Table
    <3>2. CASE t # "version"
      BY <3>2, <1>1 DEF RowsFit, Table, Follows
    <3> QED
      BY <3>1, <3>2
  <2> QED
    BY <2>1, <2>2, <2>3, <2>4 DEF RowsFit
<1>9. DemoRowsFit'
  <2>1. ASSUME NEW u \in DOMAIN DeletedAt, Emptied(u)', ~Filled(u)'
        PROVE  "demo" \notin rows'[u] \/ (u = "outbox" /\ cleared')
    <3>1. u \in Table /\ DeletedAt[u] \in 2 .. 22
      BY DeletionsInOrder
    <3>2. CASE u = t
      <4>1. CASE u = "outbox"
        <5>1. "demo" \in rows["outbox"] => "demo" \in seed.versions \/ cleared
          BY <3>2, <4>1, <1>3 DEF RowsFit, DemoRowsFit, DeletedAt
        <5> QED
          BY <3>2, <4>1, <5>1, <1>1 DEF Selected
      <4>2. CASE u # "outbox"
        BY <3>1, <3>2, <4>2, <1>1, <1>7
      <4> QED
        BY <4>1, <4>2
    <3>3. CASE u # t
      <4>1. Emptied(u) /\ ~Filled(u)
        BY <3>1, <3>3, <2>1, <1>2, <1>3, <1>5, CreationsInOrder DEF Emptied, Filled, DeletesNow
      <4> QED
        BY <3>1, <4>1, <1>1 DEF DemoRowsFit
    <3> QED
      BY <3>2, <3>3
  <2>2. ASSUME NEW u \in DOMAIN CreatedAt
        PROVE  ~Filled(u)'
    BY <1>3, <1>5, CreationsInOrder DEF Filled
  <2>3. seed'.runs /\ seed'.at \in 2 .. 15 /\ "demo" \in rows'["version"] => "demo" \in seed'.versions
    BY <1>1, <1>3, <1>5 DEF DemoRowsFit, Table
  <2> QED
    BY <2>1, <2>2, <2>3 DEF DemoRowsFit
<1> QED
  BY <1>4, <1>8, <1>9

LEMMA DeletionFitsOwn ==
  ASSUME SeedInv, NEW t \in Table, Deletes(t), seed.runs, UNCHANGED <<disturbed, cleared>>
  PROVE  OwnRowsFit' /\ LoneRowsFit'
<1> USE DEF SeedInv
<1>1. /\ \A u \in Table : rows'[u] \subseteq rows[u]
      /\ rows'[t] = rows[t] \ Selected(t)
      /\ \A u \in Table : u # t /\ ~Follows(u, t) => rows'[u] = rows[u]
  BY DeletedRows
<1>2. /\ seed' = [seed EXCEPT !.at = seed.at + 1] /\ DeletesNow(t)
      /\ hold' = (IF t = "reservation" THEN "none" ELSE hold)
  BY DEF Deletes, GoesOn
<1>3. seed.at \in 2 .. 22 /\ t \in DOMAIN DeletedAt /\ DeletedAt[t] = seed.at
  BY <1>2 DEF DeletesNow
<1>4. seed'.runs /\ seed'.at = seed.at + 1 /\ seed'.orders = seed.orders
  BY <1>2 DEF SeedTyped
<1>5. seed'.at \in 22 .. 27 => rows'["reservation"] = {} /\ rows'["quota"] = {} /\ rows'["counter"] = {}
  <2>1. CASE seed.at = 22
    BY <2>1, <1>1 DEF OwnRowsFit, Table, SeedTyped
  <2>2. CASE seed.at = 21
    <3>1. "type" \in DOMAIN DeletedAt /\ DeletedAt["type"] = 21
      BY DEF DeletedAt
    <3>2. t = "type"
      BY <2>2, <3>1, <1>2 DEF DeletesNow
    <3>3. RowsFit' /\ rows'["type"] = {}
      BY <3>2, <1>1, DeletionFits DEF Selected, SeedTyped, Rows
    <3> QED
      BY <3>3 DEF RowsFit
  <2> QED
    BY <2>1, <2>2, <1>3, <1>4
<1>6. seed'.at > 21 => ("own" \in rows'["quota"] <=> "own" \in rows'["reservation"])
  BY <1>3, <1>4, <1>5
<1>7. seed'.at > 10 => (hold' = "confirmed" => "own" \in rows'["ticket"])
  <2>1. CASE t = "reservation"
    BY <2>1, <1>2
  <2>2. CASE t # "reservation" /\ seed.at > 10
    <3>1. t # "ticket" /\ "ticket" \in Table
      BY <2>2, <1>3 DEF DeletedAt, Table
    <3> QED
      BY <2>2, <3>1, <1>1, <1>2, <1>3 DEF OwnRowsFit, Follows, SeedTyped
  <2>3. CASE t # "reservation" /\ seed.at = 10
    <3>1. "reservation" \in DOMAIN DeletedAt /\ DeletedAt["reservation"] = 10
      BY DEF DeletedAt
    <3> QED
      BY <2>3, <3>1, <1>2 DEF DeletesNow
  <2> QED
    BY <2>1, <2>2, <2>3, <1>3, <1>4
<1>8. OwnRowsFit'
  BY <1>3, <1>4, <1>5, <1>6, <1>7 DEF OwnRowsFit
<1>9. ASSUME Alone'
      PROVE  /\ \A u \in DOMAIN DeletedAt : Emptied(u)' /\ Selects(u) => "own" \notin rows'[u]
             /\ seed'.at > 1 => ("own" \in rows'["item"] => "own" \in seed'.orders)
             /\ seed'.at > 8 => "own" \notin rows'["item"]
             /\ seed'.at > 9 => ("own" \in rows'["payment"] => "own" \notin seed'.orders)
  <2>0. "item" \in Table /\ "payment" \in Table /\ "assignment" \in Table
    BY DEF Table
  <2>1. Alone
    <3>1. t = "assignment" => "own" \notin Selected(t)
      BY DEF Selected
    <3>2. "own" \notin rows["assignment"]
      BY <1>9, <2>0, <3>1, <1>1 DEF Alone, Follows
    <3> QED
      BY <3>2, <1>9 DEF Alone
  <2>2. ASSUME NEW u \in DOMAIN DeletedAt, Emptied(u)', Selects(u)
        PROVE  "own" \notin rows'[u]
    <3>1. u \in Table /\ DeletedAt[u] \in 2 .. 22
      BY DeletionsInOrder
    <3>2. CASE u = t
      BY <3>1, <3>2, <2>2, <1>1 DEF Selects, Selected
    <3>3. CASE u # t
      <4>1. Emptied(u)
        BY <3>1, <3>3, <2>2, <1>2, <1>3, <1>4 DEF Emptied, DeletesNow
      <4> QED
        BY <3>1, <4>1, <2>1, <2>2, <1>1 DEF LoneRowsFit
    <3> QED
      BY <3>2, <3>3
  <2>3. "own" \in rows'["item"] => "own" \in seed'.orders
    BY <2>0, <2>1, <1>1, <1>3, <1>4 DEF LoneRowsFit
  <2>4. seed'.at > 8 => "own" \notin rows'["item"]
    <3>1. CASE seed.at = 8
      <4>1. "item" \in DOMAIN DeletedAt /\ DeletedAt["item"] = 8
        BY DEF DeletedAt
      <4>2. t = "item"
        BY <3>1, <4>1, <1>2 DEF DeletesNow
      <4> QED
        BY <4>2, <3>1, <2>0, <2>1, <1>1 DEF LoneRowsFit, Selected
    <3>2. CASE seed.at > 8
      BY <3>2, <2>0, <2>1, <1>1 DEF LoneRowsFit
    <3> QED
      BY <3>1, <3>2, <1>3, <1>4
  <2>5. seed'.at > 9 => ("own" \in rows'["payment"] => "own" \notin seed'.orders)
    <3>1. CASE seed.at = 9
      <4>1. "payment" \in DOMAIN DeletedAt /\ DeletedAt["payment"] = 9
        BY DEF DeletedAt
      <4>2. t = "payment"
        BY <3>1, <4>1, <1>2 DEF DeletesNow
      <4> QED
        BY <4>2, <2>0, <1>1, <1>4 DEF Selected
    <3>2. CASE seed.at > 9
      BY <3>2, <2>0, <2>1, <1>1, <1>4 DEF LoneRowsFit
    <3> QED
      BY <3>1, <3>2, <1>3, <1>4
  <2> QED
    BY <2>2, <2>3, <2>4, <2>5
<1>10. LoneRowsFit'
  BY <1>9 DEF LoneRowsFit
<1> QED
  BY <1>8, <1>10

-----------------------------------------------------------------------------
(* A creation                                                              *)

LEMMA CreationFits ==
  ASSUME SeedInv, NEW t \in Table, Creates(t), seed.runs, UNCHANGED <<disturbed, cleared>>
  PROVE  SeedTyped' /\ RowsFit' /\ DemoRowsFit' /\ OwnRowsFit' /\ LoneRowsFit'
<1> USE DEF SeedInv
<1>1. /\ rows' \in [Table -> Rows]
      /\ \A u \in Table : rows'[u] = IF u = t THEN rows[u] \cup {"demo"} ELSE rows[u]
  BY AddedRows DEF Creates
<1>2. /\ seed' = [seed EXCEPT !.at = seed.at + 1] /\ last' = last /\ CreatesNow(t) /\ hold' = hold
      /\ counter' = (IF t = "counter" THEN [reserved |-> 0, sold |-> 0] ELSE counter)
  BY DEF Creates, GoesOn
<1>3. /\ seed.at \in 23 .. 46 /\ seed.at \notin 33 .. 34
      /\ t \in DOMAIN CreatedAt /\ CreatedAt[t] = seed.at
  BY <1>2 DEF CreatesNow
<1>4. SeedTyped'
  BY <1>1, <1>2, <1>3 DEF SeedTyped
<1>5. /\ seed'.runs /\ seed'.at = seed.at + 1 /\ seed'.versions = seed.versions
      /\ seed'.orders = seed.orders /\ seed'.sums = seed.sums
  BY <1>2 DEF SeedTyped
<1>6. /\ t = "reservation" => seed.at = 29
      /\ t = "counter" => seed.at = 27
      /\ t = "quota" => seed.at = 35
      /\ t = "item" => seed.at = 31
      /\ t = "entry" => seed.at = 39
      /\ t = "outbox" => seed.at = 40
  BY <1>3 DEF CreatedAt
<1>7. /\ seed.at > 26 => "demo" \in rows["type"]
      /\ seed.at > 28 => "demo" \in rows["order"]
      /\ seed.at > 38 => "demo" \in rows["version"] \/ cleared
  BY <1>3 DEF DemoRowsFit, Filled, CreatedAt
<1>8. RowsFit'
  <2>1. rows'["item"] \subseteq rows'["order"]
    BY <1>1, <1>6, <1>7 DEF RowsFit, Table
  <2>2. rows'["entry"] \subseteq rows'["version"]
    <3>1. t = "entry" => "demo" \in rows["version"]
      BY RefersIs, CanAddNeeds DEF Creates, Upserts, Table
    <3> QED
      BY <3>1, <1>1 DEF RowsFit, Table
  <2>3. rows'["reservation"] # {} \/ rows'["quota"] # {} \/ rows'["counter"] # {} => "demo" \in rows'["type"]
    BY <1>1, <1>6, <1>7 DEF RowsFit, Table
  <2>4. "demo" \in rows'["outbox"] => "demo" \in rows'["version"] \/ cleared
    BY <1>1, <1>6, <1>7 DEF RowsFit, Table
  <2> QED
    BY <2>1, <2>2, <2>3, <2>4 DEF RowsFit
<1>9. DemoRowsFit'
  <2>1. ASSUME NEW u \in DOMAIN DeletedAt, Emptied(u)', ~Filled(u)'
        PROVE  "demo" \notin rows'[u] \/ (u = "outbox" /\ cleared')
    <3>1. u \in Table /\ DeletedAt[u] \in 2 .. 22
      BY DeletionsInOrder
    <3>2. u # t
      BY <2>1, <1>3, <1>5 DEF Filled
    <3>3. Emptied(u) /\ ~Filled(u)
      BY <3>1, <2>1, <1>3, <1>5, CreationsInOrder DEF Emptied, Filled
    <3> QED
      BY <3>1, <3>2, <3>3, <1>1 DEF DemoRowsFit
  <2>2. ASSUME NEW u \in DOMAIN CreatedAt, Filled(u)'
        PROVE  "demo" \in rows'[u] \/ (u \in {"version", "entry"} /\ cleared')
    <3>1. u \in Table /\ CreatedAt[u] \in 23 .. 46
      BY CreationsInOrder
    <3>2. CASE u = t
      BY <3>1, <3>2, <1>1
    <3>3. CASE u # t
      <4>1. Filled(u)
        BY <3>1, <3>3, <2>2, <1>2, <1>3, <1>5 DEF Filled, CreatesNow
      <4> QED
        BY <3>1, <4>1, <1>1 DEF DemoRowsFit
    <3> QED
      BY <3>2, <3>3
  <2> QED
    BY <2>1, <2>2, <1>3, <1>5 DEF DemoRowsFit
<1>10. OwnRowsFit'
  <2>1. seed'.at \in 22 .. 27 => rows'["reservation"] = {} /\ rows'["quota"] = {} /\ rows'["counter"] = {}
    BY <1>1, <1>3, <1>5, <1>6 DEF OwnRowsFit, Table
  <2>2. "own" \in rows'["quota"] <=> "own" \in rows'["reservation"]
    BY <1>1, <1>3 DEF OwnRowsFit, Table
  <2>3. hold' = "confirmed" => "own" \in rows'["ticket"]
    BY <1>1, <1>2, <1>3 DEF OwnRowsFit, Table
  <2>4. seed'.at # 34
    BY <1>3, <1>5
  <2>5. seed'.at > 34 /\ disturbed' # "late" => counter' = Sums'
    <3>1. seed'.at > 34 => t # "counter" /\ t # "reservation"
      BY <1>3, <1>5, <1>6
    <3>2. seed'.at > 34 => rows'["reservation"] = rows["reservation"]
      BY <3>1, <1>1 DEF Table
    <3> QED
      BY <3>1, <3>2, <1>2, <1>3, <1>5 DEF OwnRowsFit, Sums
  <2> QED
    BY <2>1, <2>2, <2>3, <2>4, <2>5 DEF OwnRowsFit
<1>11. ASSUME Alone'
       PROVE  /\ \A u \in DOMAIN DeletedAt : Emptied(u)' /\ Selects(u) => "own" \notin rows'[u]
              /\ seed'.at > 1 => ("own" \in rows'["item"] => "own" \in seed'.orders)
              /\ seed'.at > 8 => "own" \notin rows'["item"]
              /\ seed'.at > 9 => ("own" \in rows'["payment"] => "own" \notin seed'.orders)
  <2>1. \A u \in Table : "own" \in rows'[u] <=> "own" \in rows[u]
    BY <1>1
  <2>2. Alone
    BY <2>1, <1>11 DEF Alone, Table
  <2>3. ASSUME NEW u \in DOMAIN DeletedAt, Emptied(u)', Selects(u)
        PROVE  "own" \notin rows'[u]
    <3>1. u \in Table /\ DeletedAt[u] \in 2 .. 22
      BY DeletionsInOrder
    <3>2. Emptied(u)
      BY <3>1, <1>3 DEF Emptied
    <3> QED
      BY <3>1, <3>2, <2>1, <2>2, <2>3 DEF LoneRowsFit
  <2> QED
    BY <2>1, <2>2, <2>3, <1>3, <1>5 DEF LoneRowsFit, Table
<1> QED
  BY <1>4, <1>8, <1>9, <1>10, <1>11 DEF LoneRowsFit

-----------------------------------------------------------------------------
(* A seed that nothing disturbs does not fail                              *)

LEMMA LoneDeletions ==
  ASSUME SeedInv, Alone, NEW t \in Table, DeletesNow(t)
  PROVE  ~InUse(t, Selected(t) \cap rows[t])
<1> USE DEF SeedInv
<1>1. seed.runs /\ seed.at \in 2 .. 22 /\ t \in DOMAIN DeletedAt /\ DeletedAt[t] = seed.at
  BY DEF Alone, DeletesNow
<1>2. ~cleared /\ "own" \notin rows["assignment"]
  BY DEF Alone
<1>3. \A u \in DOMAIN DeletedAt : DeletedAt[u] < seed.at => "demo" \notin rows[u]
  BY <1>1, <1>2, CreationsInOrder DEF DemoRowsFit, Emptied, Filled
<1>4. \A u \in DOMAIN DeletedAt : DeletedAt[u] < seed.at /\ Selects(u) => "own" \notin rows[u]
  BY <1>1 DEF LoneRowsFit, Emptied
<1>5. \A u \in DOMAIN DeletedAt : DeletedAt[u] < seed.at /\ Selects(u) => rows[u] = {}
  BY <1>3, <1>4, DeletionsInOrder DEF SeedTyped, Rows
<1>6. \A u \in DOMAIN DeletedAt : DeletedAt[u] < seed.at => rows[u] \subseteq {"own"}
  BY <1>3, DeletionsInOrder DEF SeedTyped, Rows
<1>7. ASSUME NEW u \in Table, NEW r \in rows[u], NEW s \in Selected(t) \cap rows[t],
             ~Follows(u, t), Refers(u, r, t, s)
      PROVE  FALSE
  <2>1. CASE t = "order"
    <3>1. rows["ticket"] = {} /\ rows["item"] = {}
      BY <2>1, <1>1, <1>5, <1>6 DEF LoneRowsFit, DeletedAt, Selects
    <3>2. u = "payment" /\ s = r
      BY <2>1, <3>1, <1>7, RefersIs DEF Table
    <3>3. r = "own" /\ "own" \notin seed.orders
      BY <2>1, <3>2, <1>1, <1>6 DEF LoneRowsFit, DeletedAt
    <3> QED
      BY <2>1, <3>2, <3>3 DEF Selected
  <2>2. CASE t = "item"
    BY <2>2, <1>1, <1>5, <1>7, RefersIs DEF DeletedAt, Selects, Table
  <2>3. CASE t = "assignment"
    <3>1. s = "demo"
      BY <2>3, <1>2 DEF SeedTyped, Rows
    <3>2. (u = "projection" /\ r = "demo") \/ u = "checkIn"
      BY <2>3, <3>1, <1>7, RefersIs DEF Table
    <3> QED
      BY <2>3, <3>2, <1>1, <1>3, <1>5 DEF DeletedAt, Selects
  <2>4. CASE t = "device"
    <3>1. rows["assignment"] = {} /\ rows["checkIn"] = {}
      BY <2>4, <1>1, <1>2, <1>5, <1>6 DEF DeletedAt, Selects
    <3> QED
      BY <2>4, <3>1, <1>7, RefersIs DEF Table
  <2>5. CASE t = "batch"
    BY <2>5, <1>1, <1>5, <1>7, RefersIs DEF DeletedAt, Selects, Table, Follows
  <2>6. CASE t = "type"
    <3>1. rows["ticket"] = {} /\ rows["reservation"] = {} /\ rows["item"] = {}
      BY <2>6, <1>1, <1>5, <1>6 DEF LoneRowsFit, DeletedAt, Selects
    <3> QED
      BY <2>6, <3>1, <1>7, RefersIs DEF Table, Follows
  <2>7. CASE t = "concert"
    <3>1. rows["type"] = {} /\ rows["version"] = {}
      BY <2>7, <1>1, <1>5 DEF DeletedAt, Selects
    <3> QED
      BY <2>7, <3>1, <1>7, RefersIs DEF Table, Follows
  <2>8. CASE t \in {"version", "job"}
    BY <2>8, <1>7, RefersIs DEF Table, Follows
  <2>9. CASE t \notin {"order", "item", "assignment", "device", "batch", "type", "concert", "version", "job"}
    <3>1. t # "organization"
      BY <1>1 DEF DeletedAt
    <3> QED
      BY <2>9, <3>1, <1>7, RefersIs
  <2> QED
    BY <2>1, <2>2, <2>3, <2>4, <2>5, <2>6, <2>7, <2>8, <2>9
<1> QED
  BY <1>7, InUseIs

LEMMA LoneCreations ==
  ASSUME SeedInv, Alone, NEW t \in Table, CreatesNow(t), t \notin Upserts
  PROVE  CanAdd(t, "demo")
<1> USE DEF SeedInv
<1>1. /\ seed.runs /\ seed.at \in 23 .. 46
      /\ t \in DOMAIN CreatedAt /\ CreatedAt[t] = seed.at /\ ~cleared
  BY DEF Alone, CreatesNow
<1>2. "demo" \notin rows[t]
  <2>1. t \in DOMAIN DeletedAt
    BY <1>1 DEF CreatedAt, DeletedAt, Upserts
  <2>2. Emptied(t) /\ ~Filled(t)
    BY <1>1, <2>1, DeletionsInOrder DEF Emptied, Filled
  <2> QED
    BY <1>1, <2>1, <2>2 DEF DemoRowsFit
<1>3. \A u \in DOMAIN CreatedAt : CreatedAt[u] < seed.at => "demo" \in rows[u]
  BY <1>1 DEF DemoRowsFit, Filled
<1>4. ASSUME NEW u, NEW s, Refers(t, "demo", u, s)
      PROVE  s \in rows[u]
  <2>1. u \in Table
    BY <1>4, RefersInTables
  <2>2. s = "demo"
    BY <1>4, <2>1, RefersIs
  <2>3. u \in DOMAIN CreatedAt /\ CreatedAt[u] < CreatedAt[t]
    <3>1. \/ t = "ticket" /\ u \in {"order", "item", "type"}
          \/ t = "item" /\ u \in {"order", "type"}
          \/ t = "payment" /\ u = "order"
          \/ t \in {"version", "staging"} /\ u \in {"batch", "concert"}
          \/ t = "entry" /\ u = "version"
          \/ t = "draft" /\ u \in {"job", "concert"}
          \/ t = "projection" /\ u = "assignment"
          \/ t \in {"reservation", "counter", "quota"} /\ u = "type"
          \/ t \in {"type", "batch", "job"} /\ u = "concert"
          \/ t \in {"concert", "notification"} /\ u = "organization"
          \/ t = "assignment" /\ u = "device"
          \/ t = "checkIn"
      BY <1>4, <2>1, RefersIs
    <3> QED
      BY <3>1, <1>1 DEF CreatedAt
  <2> QED
    BY <1>1, <1>3, <2>2, <2>3
<1> QED
  BY <1>2, <1>4, CanAddIs

-----------------------------------------------------------------------------
(* The steps of a seed                                                     *)

LEMMA SeedInitially == SeedInit => SeedInv
<1> SUFFICES ASSUME SeedInit
             PROVE  SeedInv
  OBVIOUS
<1>1. ~seed.runs /\ last = "none" /\ \A t \in Table : rows[t] = {}
  BY DEF SeedInit, NoSeed
<1>2. SeedTyped
  BY DEF SeedInit, NoSeed, SeedTyped, Rows
<1>3. RowsFit
  BY <1>1 DEF RowsFit, Table
<1>4. DemoRowsFit /\ OwnRowsFit /\ LoneRowsFit
  BY <1>1 DEF DemoRowsFit, OwnRowsFit, LoneRowsFit, Alone, Emptied, Filled
<1>5. SeedsLeaveOrder
  BY <1>1 DEF SeedsLeaveOrder, LoneSeedsSucceed, SeedsAgree
<1> QED
  BY <1>2, <1>3, <1>4, <1>5 DEF SeedInv

\* Once no seed runs, only the rows matter, and how the last one ended.
LEMMA StoppedFits ==
  ASSUME SeedInv, seed' = NoSeed, UNCHANGED <<rows, hold, disturbed, cleared>>, SeedsLeaveOrder'
  PROVE  SeedInv'
<1>1. SeedTyped' /\ ~seed'.runs
  BY DEF SeedInv, SeedTyped, NoSeed, Rows
<1>2. RowsFit'
  BY DEF SeedInv, RowsFit
<1>3. DemoRowsFit' /\ OwnRowsFit' /\ LoneRowsFit'
  BY <1>1 DEF DemoRowsFit, OwnRowsFit, LoneRowsFit, Alone, Emptied, Filled
<1> QED
  BY <1>1, <1>2, <1>3 DEF SeedInv

LEMMA SeedStepKeeps ==
  ASSUME SeedInv, SeedStep
  PROVE  SeedInv'
<1>1. SeedTyped
  BY DEF SeedInv
<1>2. seed.runs /\ UNCHANGED <<api, disturbed, cleared, seeds>> /\ last = "none"
  BY <1>1, SeedStepIs DEF SeedTyped
<1>3. ASSUME seed'.runs, last' = last
      PROVE  SeedsLeaveOrder'
  BY <1>2, <1>3 DEF SeedsLeaveOrder, LoneSeedsSucceed, SeedsAgree
<1>4. CASE /\ seed.at = 1 /\ UNCHANGED <<rows, hold, counter, last>>
           /\ seed' = [seed EXCEPT !.at = seed.at + 1,
                !.orders = rows["order"] \cap rows["item"], !.versions = rows["version"]]
  <2>1. /\ seed'.runs /\ seed'.at = 2 /\ seed'.versions = rows["version"]
        /\ seed'.orders = rows["order"] \cap rows["item"]
    BY <1>1, <1>2, <1>4 DEF SeedTyped
  <2>2. SeedTyped'
    <3>1. PICK o, v : o = rows["order"] \cap rows["item"] /\ v = rows["version"]
      OBVIOUS
    <3>2. o \in Rows /\ v \in Rows
      BY <1>1, <3>1 DEF SeedTyped, Rows, Table
    <3>3. seed' = [seed EXCEPT !.at = seed.at + 1, !.orders = o, !.versions = v]
      BY <1>4, <3>1
    <3>4. seed' \in [at : Nat, runs : BOOLEAN, starts : BOOLEAN, orders : Rows, versions : Rows,
                    sums : [reserved : Nat, sold : Nat]]
      <4>1. PICK S : S = [reserved : Nat, sold : Nat]
        OBVIOUS
      <4>2. seed \in [at : Nat, runs : BOOLEAN, starts : BOOLEAN, orders : Rows, versions : Rows, sums : S]
        BY <1>1, <4>1 DEF SeedTyped
      <4>3. seed' \in [at : Nat, runs : BOOLEAN, starts : BOOLEAN, orders : Rows, versions : Rows, sums : S]
        <5>1. seed' = [at |-> seed.at + 1, runs |-> seed.runs, starts |-> seed.starts, orders |-> o,
                       versions |-> v, sums |-> seed.sums]
          BY <3>3, <4>2
        <5>2. /\ seed.at + 1 \in Nat /\ seed.runs \in BOOLEAN /\ seed.starts \in BOOLEAN
              /\ seed.sums \in S
          BY <4>2
        <5> QED
          BY <3>2, <5>1, <5>2
      <4> QED
        BY <4>1, <4>3
    <3> QED
      BY <1>1, <1>2, <1>4, <2>1, <3>4 DEF SeedTyped
  <2>3. \A u \in DOMAIN DeletedAt : ~Emptied(u)'
    BY <2>1, DeletionsInOrder DEF Emptied
  <2>4. \A u \in DOMAIN CreatedAt : ~Filled(u)'
    BY <2>1, CreationsInOrder DEF Filled
  <2>5. RowsFit' /\ DemoRowsFit' /\ OwnRowsFit'
    BY <1>2, <1>4, <2>1, <2>3, <2>4 DEF SeedInv, RowsFit, DemoRowsFit, OwnRowsFit
  <2>6. LoneRowsFit'
    BY <1>4, <2>1, <2>3 DEF SeedInv, RowsFit, LoneRowsFit
  <2> QED
    BY <1>3, <1>4, <2>1, <2>2, <2>5, <2>6 DEF SeedInv
<1>5. CASE \E t \in Table : Deletes(t)
  <2>1. PICK t \in Table : Deletes(t)
    BY <1>5
  <2>2. seed'.runs /\ last' = last
    BY <1>1, <1>2, <2>1 DEF Deletes, GoesOn, SeedTyped
  <2> QED
    BY <1>2, <1>3, <2>1, <2>2, DeletionFits, DeletionFitsOwn DEF SeedInv
<1>6. CASE \E t \in Table : Creates(t)
  <2>1. PICK t \in Table : Creates(t)
    BY <1>6
  <2>2. seed'.runs /\ last' = last
    BY <1>1, <1>2, <2>1 DEF Creates, GoesOn, SeedTyped
  <2> QED
    BY <1>2, <1>3, <2>1, <2>2, CreationFits DEF SeedInv
<1>7. CASE /\ seed.at = 33 /\ UNCHANGED <<rows, hold, counter, last>>
           /\ seed' = [seed EXCEPT !.at = seed.at + 1, !.sums = Sums]
  <2>1. /\ seed'.runs /\ seed'.at = 34 /\ seed'.sums = Sums /\ seed'.orders = seed.orders
        /\ seed'.versions = seed.versions
    BY <1>1, <1>2, <1>7 DEF SeedTyped
  <2>2. Sums \in [reserved : Nat, sold : Nat] /\ Sums' = Sums
    BY <1>7 DEF Sums
  <2>3. SeedTyped'
    <3>1. PICK sums \in [reserved : Nat, sold : Nat] : sums = Sums
      BY <2>2
    <3>2. seed' = [seed EXCEPT !.at = seed.at + 1, !.sums = sums]
      BY <1>7, <3>1
    <3>3. seed' \in [at : Nat, runs : BOOLEAN, starts : BOOLEAN, orders : Rows, versions : Rows,
                    sums : [reserved : Nat, sold : Nat]]
      <4>1. PICK S : S = [reserved : Nat, sold : Nat]
        OBVIOUS
      <4>2. seed \in [at : Nat, runs : BOOLEAN, starts : BOOLEAN, orders : Rows, versions : Rows, sums : S]
        BY <1>1, <4>1 DEF SeedTyped
      <4>3. sums \in S
        BY <3>1, <4>1
      <4>4. seed' \in [at : Nat, runs : BOOLEAN, starts : BOOLEAN, orders : Rows, versions : Rows, sums : S]
        <5>1. seed' = [at |-> seed.at + 1, runs |-> seed.runs, starts |-> seed.starts,
                       orders |-> seed.orders, versions |-> seed.versions, sums |-> sums]
          BY <3>2, <4>2
        <5>2. /\ seed.at + 1 \in Nat /\ seed.runs \in BOOLEAN /\ seed.starts \in BOOLEAN
              /\ seed.orders \in Rows /\ seed.versions \in Rows
          BY <4>2
        <5> QED
          BY <4>3, <5>1, <5>2
      <4> QED
        BY <4>1, <4>4
    <3> QED
      BY <1>1, <1>2, <1>7, <2>1, <3>3 DEF SeedTyped
  <2>4. \A u \in DOMAIN DeletedAt : Emptied(u)' <=> Emptied(u)
    BY <1>2, <1>7, <2>1, DeletionsInOrder DEF Emptied
  <2>5. \A u \in DOMAIN CreatedAt : Filled(u)' => Filled(u) \/ CreatedAt[u] = 33
    BY <1>2, <1>7, <2>1, CreationsInOrder DEF Filled
  <2>6. \A u \in DOMAIN CreatedAt : CreatedAt[u] # 33 /\ CreatedAt[u] # 34
    BY DEF CreatedAt
  <2>7. \A u : Filled(u) => Filled(u)'
    BY <1>2, <1>7, <2>1, CreationsInOrder DEF Filled
  <2>8. RowsFit' /\ OwnRowsFit'
    BY <1>2, <1>7, <2>1, <2>2 DEF SeedInv, RowsFit, OwnRowsFit
  <2>9. DemoRowsFit'
    BY <1>2, <1>7, <2>1, <2>4, <2>5, <2>6, <2>7 DEF SeedInv, DemoRowsFit
  <2>10. LoneRowsFit'
    BY <1>2, <1>7, <2>1, <2>4 DEF SeedInv, LoneRowsFit, Alone
  <2> QED
    BY <1>3, <1>7, <2>1, <2>3, <2>8, <2>9, <2>10 DEF SeedInv
<1>8. CASE seed.at = 34 /\ GoesOn /\ counter' = seed.sums /\ UNCHANGED <<rows, hold>>
  <2>1. /\ seed'.runs /\ seed'.at = 35 /\ seed'.orders = seed.orders
        /\ seed'.versions = seed.versions /\ last' = last
    BY <1>1, <1>2, <1>8 DEF GoesOn, SeedTyped
  <2>2. Sums' = Sums
    BY <1>8 DEF Sums
  <2>3. SeedTyped'
    BY <1>1, <1>2, <1>8 DEF GoesOn, SeedTyped
  <2>4. \A u \in DOMAIN DeletedAt : Emptied(u)' <=> Emptied(u)
    BY <1>2, <1>8, <2>1, DeletionsInOrder DEF Emptied
  <2>5. \A u \in DOMAIN CreatedAt : Filled(u)' => Filled(u) \/ CreatedAt[u] = 34
    BY <1>2, <1>8, <2>1, CreationsInOrder DEF Filled
  <2>6. \A u \in DOMAIN CreatedAt : CreatedAt[u] # 34
    BY DEF CreatedAt
  <2>7. \A u : Filled(u) => Filled(u)'
    BY <1>2, <1>8, <2>1, CreationsInOrder DEF Filled
  <2>8. RowsFit' /\ OwnRowsFit'
    BY <1>2, <1>8, <2>1, <2>2 DEF SeedInv, RowsFit, OwnRowsFit
  <2>9. DemoRowsFit'
    BY <1>2, <1>8, <2>1, <2>4, <2>5, <2>6, <2>7 DEF SeedInv, DemoRowsFit
  <2>10. LoneRowsFit'
    BY <1>2, <1>8, <2>1, <2>4 DEF SeedInv, LoneRowsFit, Alone
  <2> QED
    BY <1>3, <2>1, <2>3, <2>8, <2>9, <2>10 DEF SeedInv
<1>9. CASE \E t \in Table : DeletesNow(t) /\ InUse(t, Selected(t) \cap rows[t]) /\ Breaks
  <2>1. ~Alone /\ Breaks
    BY <1>9, LoneDeletions
  <2>2. SeedsLeaveOrder'
    BY <1>2, <2>1 DEF Alone, Breaks, SeedsLeaveOrder, LoneSeedsSucceed, SeedsAgree
  <2> QED
    BY <1>2, <2>1, <2>2, StoppedFits DEF Breaks
<1>10. CASE \E t \in Table : CreatesNow(t) /\ ~CanAdd(t, "demo") /\ t \notin Upserts /\ Breaks
  <2>1. ~Alone /\ Breaks
    BY <1>10, LoneCreations
  <2>2. SeedsLeaveOrder'
    BY <1>2, <2>1 DEF Alone, Breaks, SeedsLeaveOrder, LoneSeedsSucceed, SeedsAgree
  <2> QED
    BY <1>2, <2>1, <2>2, StoppedFits DEF Breaks
<1> QED
  BY <1>1, <1>4, <1>5, <1>6, <1>7, <1>8, <1>9, <1>10, SeedStepIs

LEMMA SeedEndKeeps ==
  ASSUME SeedInv, SeedEnds
  PROVE  SeedInv'
<1>1. seed.runs /\ seed.at = 47
  BY StatementAt DEF SeedEnds, SeedInv, SeedTyped
<1>2. /\ seed' = NoSeed /\ last' = "done"
      /\ UNCHANGED <<rows, hold, counter, disturbed, cleared, seeds>>
  BY DEF SeedEnds
<1>3. disturbed # "late" => counter = Sums
  BY <1>1 DEF SeedInv, OwnRowsFit
<1>4. \A t \in {"reservation", "quota", "item"} : "demo" \in rows[t]
  BY <1>1 DEF SeedInv, DemoRowsFit, Filled, CreatedAt
<1>5. rows["quota"] = rows["reservation"]
  BY <1>1, <1>4 DEF SeedInv, OwnRowsFit, SeedTyped, Rows, Table
<1>6. rows["order"] \subseteq rows["item"] \cup {"own"}
  BY <1>4 DEF SeedInv, SeedTyped, Rows, Table
<1>7. hold = "confirmed" => "own" \in rows["ticket"]
  BY <1>1 DEF SeedInv, OwnRowsFit
<1>8. SeedsLeaveOrder'
  BY <1>2, <1>3, <1>5, <1>6, <1>7 DEF SeedsLeaveOrder, LoneSeedsSucceed, SeedsAgree, Sums
<1> QED
  BY <1>2, <1>8, StoppedFits

LEMMA RunKeeps ==
  ASSUME SeedInv, NEW starts \in BOOLEAN, Run(starts)
  PROVE  SeedInv'
<1>1. /\ seed' = [NoSeed EXCEPT !.at = 1, !.runs = TRUE, !.starts = starts]
      /\ disturbed' = "not" /\ last' = "none" /\ UNCHANGED <<rows, hold, counter, api, cleared>>
  BY DEF Run
<1>2. seed'.runs /\ seed'.at = 1
  BY <1>1 DEF NoSeed
<1>3. SeedTyped'
  <2>1. seed' = [at |-> 1, runs |-> TRUE, starts |-> starts, orders |-> {}, versions |-> {},
                 sums |-> [reserved |-> 0, sold |-> 0]]
    BY <1>1 DEF NoSeed
  <2>2. {} \in Rows /\ [reserved |-> 0, sold |-> 0] \in [reserved : Nat, sold : Nat]
    BY DEF Rows
  <2>3. seed' \in [at : Nat, runs : BOOLEAN, starts : BOOLEAN, orders : Rows, versions : Rows,
                  sums : [reserved : Nat, sold : Nat]]
    BY <2>1, <2>2
  <2> QED
    BY <1>1, <1>2, <2>3 DEF SeedInv, SeedTyped
<1>4. \A u \in DOMAIN DeletedAt : ~Emptied(u)'
  BY <1>2, DeletionsInOrder DEF Emptied
<1>5. \A u \in DOMAIN CreatedAt : ~Filled(u)'
  BY <1>2, CreationsInOrder DEF Filled
<1>6. RowsFit' /\ DemoRowsFit' /\ OwnRowsFit' /\ LoneRowsFit'
  BY <1>1, <1>2, <1>4, <1>5 DEF SeedInv, RowsFit, DemoRowsFit, OwnRowsFit, LoneRowsFit
<1>7. SeedsLeaveOrder'
  BY <1>1 DEF SeedsLeaveOrder, LoneSeedsSucceed, SeedsAgree
<1> QED
  BY <1>3, <1>6, <1>7 DEF SeedInv

-----------------------------------------------------------------------------
(* The application                                                         *)

\* What every write of the application leaves, and what it marks.
LEMMA WriteIs ==
  ASSUME SeedTyped, Write
  PROVE  /\ disturbed' \in {"not", "early", "late"}
         /\ ~seed.runs => disturbed' = disturbed
         /\ seed.runs => disturbed' # "not"
         /\ seed.runs /\ seed.at = 34 => disturbed' = "late"
         /\ disturbed = "late" => disturbed' = "late"
<1>1. seed.runs /\ seed.at = 34 => seed.at \in DOMAIN Program /\ Program[seed.at][1] = "count"
  BY StatementAt
<1> QED
  BY <1>1 DEF Write, SeedTyped

\* A write that touches none of the seed's rows.
LEMMA WriteFits ==
  ASSUME SeedInv, Write, UNCHANGED <<seed, last, cleared>>,
         \A u \in Table : "demo" \in rows'[u] <=> "demo" \in rows[u]
  PROVE  DemoRowsFit' /\ LoneRowsFit'
<1>1. \A u \in DOMAIN DeletedAt : u \in Table /\ (Emptied(u)' <=> Emptied(u))
  BY DeletionsInOrder DEF Emptied
<1>2. \A u : Filled(u)' <=> Filled(u)
  BY DEF Filled
<1>3. DemoRowsFit'
  BY <1>1, <1>2, CreationsInOrder DEF SeedInv, DemoRowsFit, Table
<1>4. ~Alone'
  BY WriteIs DEF SeedInv, Alone
<1> QED
  BY <1>3, <1>4 DEF LoneRowsFit

\* A write that touches neither holds nor counters.
LEMMA WriteFitsOwn ==
  ASSUME SeedInv, Write, UNCHANGED <<seed, last, hold, counter>>,
         \A t \in {"reservation", "quota", "counter"} : rows'[t] = rows[t],
         rows["ticket"] \subseteq rows'["ticket"],
         rows'["order"] \ {"own"} \subseteq rows["order"], rows["item"] \subseteq rows'["item"],
         "own" \in rows["assignment"] => "own" \in rows'["assignment"], cleared => cleared'
  PROVE  OwnRowsFit' /\ SeedsLeaveOrder'
<1>1. Sums' = Sums
  BY DEF Sums
<1>2. OwnRowsFit'
  BY <1>1, WriteIs DEF SeedInv, OwnRowsFit
<1>3. seed.runs => last' = "none"
  BY DEF SeedInv, SeedTyped
<1>4. ~seed.runs => disturbed' = disturbed
  BY WriteIs DEF SeedInv
<1>5. LoneSeedsSucceed'
  BY <1>3, <1>4 DEF SeedInv, SeedsLeaveOrder, LoneSeedsSucceed
<1>6. SeedsAgree'
  BY <1>1, <1>3, <1>4 DEF SeedInv, SeedsLeaveOrder, SeedsAgree
<1> QED
  BY <1>2, <1>5, <1>6 DEF SeedsLeaveOrder

LEMMA OwnAdded ==
  ASSUME SeedTyped, NEW ts, rows' = With(ts, "own")
  PROVE  /\ rows' \in [Table -> Rows]
         /\ \A u \in Table : rows'[u] = IF u \in ts THEN rows[u] \cup {"own"} ELSE rows[u]
         /\ \A u \in Table : "demo" \in rows'[u] <=> "demo" \in rows[u]
<1>1. /\ rows' \in [Table -> Rows]
      /\ \A u \in Table : rows'[u] = IF u \in ts THEN rows[u] \cup {"own"} ELSE rows[u]
  BY AddedRows
<1>2. ASSUME NEW u \in Table
      PROVE  "demo" \in rows'[u] <=> "demo" \in rows[u]
  <2>1. rows'[u] = IF u \in ts THEN rows[u] \cup {"own"} ELSE rows[u]
    BY <1>1
  <2> QED
    BY <2>1
<1> QED
  BY <1>1, <1>2

LEMMA HoldSeatKeeps == SeedInv /\ HoldSeat => SeedInv'
<1> SUFFICES ASSUME SeedInv, HoldSeat
             PROVE  SeedInv'
  OBVIOUS
<1>1. /\ Write /\ hold = "none" /\ hold' = "active" /\ "demo" \in rows["type"] \cap rows["counter"]
      /\ counter' = [counter EXCEPT !.reserved = @ + 1]
      /\ rows' = With({"reservation", "quota"}, "own") /\ UNCHANGED <<seed, api, last, cleared, seeds>>
  BY DEF HoldSeat
<1>2. /\ rows' \in [Table -> Rows]
      /\ \A u \in Table :
           rows'[u] = IF u \in {"reservation", "quota"} THEN rows[u] \cup {"own"} ELSE rows[u]
      /\ \A u \in Table : "demo" \in rows'[u] <=> "demo" \in rows[u]
  BY <1>1, OwnAdded DEF SeedInv
<1>3. SeedTyped' /\ RowsFit'
  BY <1>1, <1>2, WriteIs DEF SeedInv, SeedTyped, RowsFit, Table
<1>4. DemoRowsFit' /\ LoneRowsFit'
  BY <1>1, <1>2, WriteFits
<1>5. counter = Sums => counter' = Sums'
  BY <1>1, <1>2 DEF Sums, Table
<1>6. OwnRowsFit'
  BY <1>1, <1>2, <1>5, WriteIs DEF SeedInv, OwnRowsFit, Table
<1>7. SeedsLeaveOrder'
  <2>1. seed.runs => last' = "none"
    BY <1>1 DEF SeedInv, SeedTyped
  <2>2. ~seed.runs => disturbed' = disturbed
    BY <1>1, WriteIs DEF SeedInv
  <2> QED
    BY <1>1, <1>2, <1>5, <2>1, <2>2
       DEF SeedInv, SeedsLeaveOrder, LoneSeedsSucceed, SeedsAgree, Table
<1> QED
  BY <1>3, <1>4, <1>6, <1>7 DEF SeedInv

LEMMA PayKeeps == SeedInv /\ Pay => SeedInv'
<1> SUFFICES ASSUME SeedInv, Pay
             PROVE  SeedInv'
  OBVIOUS
<1>1. /\ Write /\ hold = "active" /\ hold' = "confirmed"
      /\ counter' = [reserved |-> counter.reserved - 1, sold |-> counter.sold + 1]
      /\ rows' = With({"ticket"}, "own") /\ UNCHANGED <<seed, api, last, cleared, seeds>>
  BY DEF Pay
<1>2. /\ rows' \in [Table -> Rows]
      /\ \A u \in Table : rows'[u] = IF u \in {"ticket"} THEN rows[u] \cup {"own"} ELSE rows[u]
      /\ \A u \in Table : "demo" \in rows'[u] <=> "demo" \in rows[u]
  BY <1>1, OwnAdded DEF SeedInv
<1>3. SeedTyped' /\ RowsFit'
  BY <1>1, <1>2, WriteIs DEF SeedInv, SeedTyped, RowsFit, Table
<1>4. DemoRowsFit' /\ LoneRowsFit'
  BY <1>1, <1>2, WriteFits
<1>5. counter = Sums => counter' = Sums'
  BY <1>1, <1>2 DEF Sums, Table
<1>6. OwnRowsFit'
  BY <1>1, <1>2, <1>5, WriteIs DEF SeedInv, OwnRowsFit, Table
<1>7. SeedsLeaveOrder'
  <2>1. seed.runs => last' = "none"
    BY <1>1 DEF SeedInv, SeedTyped
  <2>2. ~seed.runs => disturbed' = disturbed
    BY <1>1, WriteIs DEF SeedInv
  <2> QED
    BY <1>1, <1>2, <1>5, <2>1, <2>2
       DEF SeedInv, SeedsLeaveOrder, LoneSeedsSucceed, SeedsAgree, Table
<1> QED
  BY <1>3, <1>4, <1>6, <1>7 DEF SeedInv

\* The others add rows to tables that no counter is about.
LEMMA AddingKeeps ==
  ASSUME SeedInv, Write, UNCHANGED <<hold, counter, seed, last, cleared>>,
         NEW ts, rows' = With(ts, "own"),
         ts \cap {"reservation", "quota", "counter", "ticket"} = {},
         "item" \in ts => "order" \in ts, "entry" \in ts => "version" \in ts
  PROVE  SeedInv'
<1>1. /\ rows' \in [Table -> Rows]
      /\ \A u \in Table : rows'[u] = IF u \in ts THEN rows[u] \cup {"own"} ELSE rows[u]
      /\ \A u \in Table : "demo" \in rows'[u] <=> "demo" \in rows[u]
  BY OwnAdded DEF SeedInv
<1>2. SeedTyped'
  BY <1>1, WriteIs DEF SeedInv, SeedTyped
<1>3. RowsFit'
  BY <1>1 DEF SeedInv, RowsFit, Table
<1>4. DemoRowsFit' /\ LoneRowsFit'
  BY <1>1, WriteFits
<1>5. OwnRowsFit' /\ SeedsLeaveOrder'
  <2>1. \A t \in {"reservation", "quota", "counter"} : rows'[t] = rows[t]
    BY <1>1 DEF Table
  <2>2. /\ rows["ticket"] \subseteq rows'["ticket"]
        /\ rows'["order"] \ {"own"} \subseteq rows["order"] /\ rows["item"] \subseteq rows'["item"]
        /\ "own" \in rows["assignment"] => "own" \in rows'["assignment"]
    BY <1>1 DEF Table
  <2> QED
    BY <2>1, <2>2, WriteFitsOwn
<1> QED
  BY <1>2, <1>3, <1>4, <1>5 DEF SeedInv

LEMMA WithoutVersion ==
  ASSUME NEW gone
  PROVE  /\ \A u \in Table \ {"version", "entry"} : Without("version", gone)[u] = rows[u]
         /\ Without("version", gone)["version"] = rows["version"] \ gone
         /\ Without("version", gone)["entry"] = rows["entry"] \ gone
<1>1. ASSUME NEW r
      PROVE  Needs("entry", r) \cap ({"version"} \X gone) # {} <=> r \in gone
  <2>1. Needs("entry", r) = {<<"version", r>>}
    BY DEF Needs, Own, Seeded
  <2>2. ASSUME NEW v
        PROVE  {<<v, r>>} \cap ({v} \X gone) # {} <=> r \in gone
    <3>1. <<v, r>> \in {v} \X gone <=> r \in gone
      OBVIOUS
    <3> QED
      BY <3>1
  <2> QED
    BY <2>1, <2>2, Zenon
<1>2. /\ \A u \in Table \ {"version", "entry"} : ~Follows(u, "version")
      /\ Follows("entry", "version")
  BY DEF Follows
<1> QED
  BY <1>1, <1>2 DEF Without, Table

LEMMA ClearGuestsKeeps == SeedInv /\ ClearGuests => SeedInv'
<1> SUFFICES ASSUME SeedInv, ClearGuests
             PROVE  SeedInv'
  OBVIOUS
<1>1. PICK gone \in {{"own"}, {"demo"}} :
        gone = IF "own" \in rows["version"] THEN {"own"} ELSE {"demo"}
  OBVIOUS
<1>2. /\ Write /\ "demo" \in rows["version"] /\ rows' = Without("version", gone)
      /\ cleared' = (cleared \/ "own" \notin rows["version"])
      /\ UNCHANGED <<hold, counter, seed, api, last, seeds>>
  BY <1>1 DEF ClearGuests
<1>3. /\ \A u \in Table \ {"version", "entry"} : rows'[u] = rows[u]
      /\ rows'["version"] = rows["version"] \ gone /\ rows'["entry"] = rows["entry"] \ gone
  BY <1>2, WithoutVersion
<1>4. /\ gone \in Rows /\ ("own" \in rows["version"] => gone = {"own"}) /\ (cleared => cleared')
      /\ ("own" \notin rows["version"] => gone = {"demo"} /\ cleared') /\ cleared' \in BOOLEAN
  BY <1>1, <1>2 DEF Rows, SeedInv, SeedTyped
<1>5. rows' \in [Table -> Rows]
  <2>1. rows' = [u \in Table |-> rows'[u]]
    BY <1>2 DEF Without
  <2>2. \A u \in Table : rows'[u] \in Rows
    BY <1>3 DEF SeedInv, SeedTyped, Rows, Table
  <2> QED
    BY <2>1, <2>2
<1>6. SeedTyped'
  BY <1>2, <1>4, <1>5, WriteIs DEF SeedInv, SeedTyped
<1>7. RowsFit'
  BY <1>3, <1>4 DEF SeedInv, RowsFit, Table
<1>8. DemoRowsFit'
  <2>1. \A u \in DOMAIN DeletedAt : u \in Table /\ (Emptied(u)' <=> Emptied(u))
    BY <1>2, DeletionsInOrder DEF Emptied
  <2>2. \A u \in DOMAIN CreatedAt : u \in Table /\ (Filled(u)' <=> Filled(u))
    BY <1>2, CreationsInOrder DEF Filled
  <2>3. \A u \in DOMAIN DeletedAt : Filled(u)' <=> Filled(u)
    BY <1>2, CreationsInOrder DEF Filled
  <2>4. \A u \in Table : rows'[u] \subseteq rows[u]
    BY <1>3
  <2>5. \A u \in DOMAIN DeletedAt :
          Emptied(u)' /\ ~Filled(u)' => "demo" \notin rows'[u] \/ (u = "outbox" /\ cleared')
    BY <1>4, <2>1, <2>3, <2>4 DEF SeedInv, DemoRowsFit
  <2>6. \A u \in DOMAIN CreatedAt :
          Filled(u)' => "demo" \in rows'[u] \/ (u \in {"version", "entry"} /\ cleared')
    BY <1>3, <1>4, <2>2 DEF SeedInv, DemoRowsFit
  <2>7. seed'.runs /\ seed'.at \in 2 .. 15 /\ "demo" \in rows'["version"] => "demo" \in seed'.versions
    BY <1>2, <1>3 DEF SeedInv, DemoRowsFit
  <2> QED
    BY <2>5, <2>6, <2>7 DEF DemoRowsFit
<1>9. LoneRowsFit'
  BY <1>2, WriteIs DEF SeedInv, Alone, LoneRowsFit
<1>10. OwnRowsFit' /\ SeedsLeaveOrder'
  <2>1. \A t \in {"reservation", "quota", "counter", "ticket", "order", "item", "assignment"} : rows'[t] = rows[t]
    BY <1>3 DEF Table
  <2> QED
    BY <1>2, <1>4, <2>1, WriteFitsOwn
<1> QED
  BY <1>6, <1>7, <1>8, <1>9, <1>10 DEF SeedInv

LEMMA SeedInvariant == SeedInv /\ [SeedNext]_seedVars => SeedInv'
<1> SUFFICES ASSUME SeedInv, [SeedNext]_seedVars
             PROVE  SeedInv'
  OBVIOUS
<1>1. CASE SeedStep
  BY <1>1, SeedStepKeeps
<1>2. CASE SeedEnds
  BY <1>2, SeedEndKeeps
<1>3. CASE SeedIfEmpty \/ ForceSeed
  BY <1>3, RunKeeps DEF SeedIfEmpty, ForceSeed
<1>4. CASE StartApi \/ UNCHANGED seedVars
  <2>1. UNCHANGED <<rows, hold, counter, seed, last, disturbed, cleared>>
    BY <1>4 DEF StartApi, seedVars
  <2>2. Sums' = Sums /\ SeedTyped' /\ RowsFit'
    BY <2>1 DEF SeedInv, SeedTyped, RowsFit, Sums
  <2>3. /\ \A u : Emptied(u)' <=> Emptied(u)
        /\ \A u : Filled(u)' <=> Filled(u)
    BY <2>1 DEF Emptied, Filled
  <2>4. DemoRowsFit' /\ OwnRowsFit' /\ LoneRowsFit'
    BY <2>1, <2>2, <2>3 DEF SeedInv, DemoRowsFit, OwnRowsFit, LoneRowsFit, Alone
  <2>5. SeedsLeaveOrder'
    BY <2>1, <2>2 DEF SeedInv, SeedsLeaveOrder, LoneSeedsSucceed, SeedsAgree
  <2> QED
    BY <2>2, <2>4, <2>5 DEF SeedInv
<1>5. CASE Interrupt
  <2>1. SeedsLeaveOrder'
    BY <1>5 DEF Interrupt, SeedsLeaveOrder, LoneSeedsSucceed, SeedsAgree
  <2> QED
    BY <1>5, <2>1, StoppedFits DEF Interrupt
<1>6. CASE HoldSeat
  BY <1>6, HoldSeatKeeps
<1>7. CASE Pay
  BY <1>7, PayKeeps
<1>8. CASE ClearGuests
  BY <1>8, ClearGuestsKeeps
<1>9. CASE PlaceOrder
  BY <1>9, AddingKeeps DEF PlaceOrder
<1>10. CASE ImportGuests
  BY <1>10, AddingKeeps DEF ImportGuests
<1>11. CASE RecordCheckIn
  BY <1>11, AddingKeeps DEF RecordCheckIn
<1>12. CASE AssignElsewhere
  BY <1>12, AddingKeeps DEF AssignElsewhere
<1> QED
  BY <1>1, <1>2, <1>3, <1>4, <1>5, <1>6, <1>7, <1>8, <1>9, <1>10, <1>11, <1>12 DEF SeedNext

\* resetDemoData and main: a seed that nothing disturbs goes through, over
\* whatever interrupted ones have left, and what it leaves fits together.
THEOREM SeedsAlwaysLeaveOrder == SeedSpec => []SeedsLeaveOrder
<1>1. SeedInv => SeedsLeaveOrder
  BY DEF SeedInv
<1> QED
  BY <1>1, SeedInitially, SeedInvariant, PTL DEF SeedSpec
=============================================================================
