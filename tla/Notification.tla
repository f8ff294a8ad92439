---------------------------- MODULE Notification ----------------------------
(***************************************************************************)
(* The notification records: who creates them, the scheduler that adds the *)
(* reminders, and the worker that sends them.                              *)
(*                                                                         *)
(* A record is created after the transaction it tells about has committed, *)
(* by the request that committed it, and a worker of any backend process   *)
(* reads the due ones without locking or claiming them.  The records of    *)
(* one event, for one order or user, on one channel, share an idempotency  *)
(* key, which is what a record is here.  The worker takes the oldest due   *)
(* records; here it may take any, which is more than it can do.            *)
(***************************************************************************)
EXTENDS Integers, FiniteSets, FiniteSetsExt

CONSTANTS
  Order,
  User,
  BuyerOf,       \* the user of each order
  Channel,
  Process,       \* backend processes; each may have, by its configuration,
  Scheduler,     \* a reminder scheduler
  Worker,        \* and a notification worker
  BatchSize,
  MaxFaults      \* bound: crashes and failed writes of a task's status

ASSUME NotificationAssumption ==
  /\ BuyerOf \in [Order -> User]
  /\ IsFiniteSet(Process) /\ Scheduler \subseteq Process /\ Worker \subseteq Process
  /\ BatchSize \in Nat \ {0} /\ MaxFaults \in Nat

Notices(kind, S) == {kind} \X S \X Channel
Task == Notices("TicketIssued", Order) \cup Notices("ConcertReminder24h", User)
          \cup Notices("ConcertCanceledRefundRequired", Order)

VARIABLES
  concert,       \* its status, and whether it starts within 24 hours
  holders,       \* orders with issued tickets
  owed,          \* notices of committed transactions that are not recorded yet
  status,        \* of each record, "none" when there is none
  delivered,     \* how often the channel has accepted each of them
  scan,          \* the scheduler of each process
  job,           \* the batch the worker of each process is running
  faults

worldVars == <<concert, holders, owed>>
notificationVars == <<worldVars, status, delivered, scan, job, faults>>

Due == {t \in Task : status[t] = "pending"}
NoScan == [step |-> "idle", owners |-> {}]
NoJob == [step |-> "idle", todo |-> {}]
Job == [step : {"send", "mark", "fail"}, todo : SUBSET Task, task : Task]

NotificationInit ==
  /\ concert = [status |-> "published", soon |-> FALSE]
  /\ holders = {} /\ owed = {}
  /\ status = [t \in Task |-> "none"]
  /\ delivered = [t \in Task |-> 0]
  /\ scan = [p \in Scheduler |-> NoScan]
  /\ job = [p \in Worker |-> NoJob]
  /\ faults = 0

\* Faulty variant: a record that exists is written again.
UpsertTasks(S) == status' = [t \in Task |-> IF t \in S THEN "pending" ELSE status[t]]

\* createMany with skipDuplicates.
CreateTasks(S) ==
  status' = [t \in Task |-> IF t \in S /\ status[t] = "none" THEN "pending" ELSE status[t]]

-----------------------------------------------------------------------------
(* The events                                                              *)

\* A payment is confirmed and its tickets are issued (see Checkout).
IssueTickets(o) ==
  /\ o \notin holders /\ concert.status = "published"
  /\ holders' = holders \cup {o}
  /\ owed' = owed \cup {Notices("TicketIssued", {o})}
  /\ UNCHANGED <<concert, status, delivered, scan, job, faults>>

\* The concert is canceled (see ConcertCancellation).
CancelConcert ==
  /\ concert.status = "published"
  /\ concert' = [concert EXCEPT !.status = "canceled"]
  /\ holders' = {}
  /\ owed' = owed \cup {Notices("ConcertCanceledRefundRequired", holders)}
  /\ UNCHANGED <<status, delivered, scan, job, faults>>

ComesCloser ==
  /\ ~concert.soon
  /\ concert' = [concert EXCEPT !.soon = TRUE]
  /\ UNCHANGED <<holders, owed, status, delivered, scan, job, faults>>

\* notifyIssuedTickets, or the end of cancelConcert.
Announce(S) ==
  /\ S \in owed
  /\ owed' = owed \ {S}
  /\ CreateTasks(S)
  /\ UNCHANGED <<concert, holders, delivered, scan, job, faults>>

\* The records cannot be created, or the process is gone: the request never
\* tries again, and its error is only logged.
AnnounceFails(S) ==
  /\ S \in owed
  /\ owed' = owed \ {S}
  /\ UNCHANGED <<concert, holders, status, delivered, scan, job, faults>>

-----------------------------------------------------------------------------
(* NotificationReminderScheduler: the concerts, then their ticket owners,  *)
(* then the records, in three statements                                   *)

\* Faulty variant: the horizon is compared the wrong way round.
ScanDistantConcerts(p) ==
  /\ scan[p].step = "idle"
  /\ concert.status = "published" /\ ~concert.soon
  /\ scan' = [scan EXCEPT ![p].step = "owners"]
  /\ UNCHANGED <<worldVars, status, delivered, job, faults>>

ScanConcerts(p) ==
  /\ scan[p].step = "idle"
  /\ concert.status = "published" /\ concert.soon
  /\ scan' = [scan EXCEPT ![p].step = "owners"]
  /\ UNCHANGED <<worldVars, status, delivered, job, faults>>

ScanOwners(p) ==
  LET owners == {BuyerOf[o] : o \in holders}
  IN /\ scan[p].step = "owners"
     /\ scan' = [scan EXCEPT ![p] =
          IF owners = {} THEN NoScan ELSE [step |-> "create", owners |-> owners]]
     /\ UNCHANGED <<worldVars, status, delivered, job, faults>>

ScanCreate(p) ==
  /\ scan[p].step = "create"
  /\ CreateTasks(Notices("ConcertReminder24h", scan[p].owners))
  /\ scan' = [scan EXCEPT ![p] = NoScan]
  /\ UNCHANGED <<worldVars, delivered, job, faults>>

-----------------------------------------------------------------------------
(* NotificationWorker                                                      *)

\* The tasks a worker has read; the batch is over when there are none left,
\* and the running flag lets the next tick in.
GoOn(p, todo) ==
  IF todo = {} THEN job' = [job EXCEPT ![p] = NoJob]
  ELSE \E t \in todo :
         job' = [job EXCEPT ![p] = [step |-> "send", todo |-> todo \ {t}, task |-> t]]

\* A tick while the worker is running, or one that finds no due record, changes
\* nothing and is left out.
WorkerTick(p) ==
  /\ job[p] = NoJob /\ Due # {}
  /\ \E S \in SUBSET Due :
       /\ Cardinality(S) = Min({BatchSize, Cardinality(Due)})
       /\ GoOn(p, S)
  /\ UNCHANGED <<worldVars, status, delivered, scan, faults>>

\* adapter.send: the channel takes the message, refuses it, or takes it and
\* the answer is lost.
SendTask(p) ==
  /\ job[p].step = "send"
  /\ \E taken \in {0, 1}, next \in {"mark", "fail"} :
       /\ next = "mark" => taken = 1
       /\ delivered' = [delivered EXCEPT ![job[p].task] = @ + taken]
       /\ job' = [job EXCEPT ![p].step = next]
  /\ UNCHANGED <<worldVars, status, scan, faults>>

\* updateMany where the record is pending.
EndTask(t, st) ==
  status' = IF status[t] = "pending" THEN [status EXCEPT ![t] = st] ELSE status

MarkSent(p) ==
  /\ job[p].step = "mark"
  /\ EndTask(job[p].task, "sent")
  /\ GoOn(p, job[p].todo)
  /\ UNCHANGED <<worldVars, delivered, scan, faults>>

\* The mark is part of the try block: its error is handled like a refusal.
MarkSentFails(p) ==
  /\ job[p].step = "mark" /\ faults < MaxFaults
  /\ faults' = faults + 1
  /\ job' = [job EXCEPT ![p].step = "fail"]
  /\ UNCHANGED <<worldVars, status, delivered, scan>>

MarkFailed(p) ==
  /\ job[p].step = "fail"
  /\ EndTask(job[p].task, "failed")
  /\ GoOn(p, job[p].todo)
  /\ UNCHANGED <<worldVars, delivered, scan, faults>>

\* The second mark throws out of the batch.
BatchDies(p) ==
  /\ job[p].step = "fail" /\ faults < MaxFaults
  /\ faults' = faults + 1
  /\ GoOn(p, {})
  /\ UNCHANGED <<worldVars, status, delivered, scan>>

ProcessDies(p) ==
  /\ faults < MaxFaults
  /\ faults' = faults + 1
  /\ scan' = [q \in Scheduler |-> IF q = p THEN NoScan ELSE scan[q]]
  /\ job' = [q \in Worker |-> IF q = p THEN NoJob ELSE job[q]]
  /\ UNCHANGED <<worldVars, status, delivered>>

-----------------------------------------------------------------------------
SchedulerStep(p) == ScanConcerts(p) \/ ScanOwners(p) \/ ScanCreate(p)
WorkStep(p) == SendTask(p) \/ MarkSent(p) \/ MarkFailed(p)

NotificationNext ==
  \/ \E o \in Order : IssueTickets(o)
  \/ CancelConcert \/ ComesCloser
  \/ \E S \in owed : Announce(S) \/ AnnounceFails(S)
  \/ \E p \in Scheduler : SchedulerStep(p)
  \/ \E p \in Worker : WorkerTick(p) \/ WorkStep(p) \/ MarkSentFails(p) \/ BatchDies(p)
  \/ \E p \in Process : ProcessDies(p)

\* The timers of a process fire again and again, and a batch that has begun
\* goes on until it ends, throws or its process dies.
NotificationFairness ==
  /\ \A p \in Scheduler : WF_notificationVars(SchedulerStep(p))
  /\ \A p \in Worker :
       WF_notificationVars(WorkerTick(p)) /\ WF_notificationVars(WorkStep(p))

NotificationSpec ==
  NotificationInit /\ [][NotificationNext]_notificationVars /\ NotificationFairness

-----------------------------------------------------------------------------
(* Properties                                                              *)

\* blueprint/core-design-decisions/notifications.md: records are idempotent.
\* A user gets a message once from each worker at most, and once more for
\* each crash or failed write: schedulers that run side by side and requests
\* that are repeated add nothing.
DeliveriesAreBounded ==
  \A t \in Task : delivered[t] <= Cardinality(Worker) + faults

\* A message that is recorded as sent was accepted by its channel, whichever
\* of the workers that hold it was first.
SentWasDelivered == \A t \in Task : status[t] = "sent" => delivered[t] > 0

\* The two together: what is recorded as sent was, and not too often.
DeliveriesAreTrue == DeliveriesAreBounded /\ SentWasDelivered

\* A slower worker never turns a recorded result into another one, and no
\* scheduler opens it again.
ResultsAreFinal ==
  [][\A t \in Task : status[t] \in {"sent", "failed"} => status'[t] = status[t]]_notificationVars

\* blueprint/core-design-decisions/notifications.md: every record reaches a
\* result, whatever dies on the way.
TasksEnd ==
  \A t \in Task : (status[t] = "pending") ~> (status[t] \in {"sent", "failed"})

\* Whoever holds a ticket within 24 hours of a concert that is not canceled is
\* reminded of it, also when the ticket was bought after the first scan.
HoldersAreReminded ==
  \A o \in Order : (o \in holders /\ concert.soon) ~>
    \/ concert.status = "canceled"
    \/ \A t \in Notices("ConcertReminder24h", {BuyerOf[o]}) : status[t] # "none"

\* A message that is due is recorded, and a record reaches its result.
MessagesGetThere == TasksEnd /\ HoldersAreReminded
=============================================================================
