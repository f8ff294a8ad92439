----------------------------- MODULE BuyerProofs -----------------------------
(***************************************************************************)
(* What buyers and organizers see: the messages that buyers get            *)
(* (Notification), the checkout in the browser (WebCheckout), the session  *)
(* its tabs share (Sessions) and the admin site (AdminConsole), for any    *)
(* number of orders, channels and processes, forms and intents, accounts   *)
(* and tabs, organizers, concerts and buttons.                             *)
(***************************************************************************)
EXTENDS Notification, WebCheckout, Sessions, AdminConsole, FiniteSetTheorems, TLAPS

-----------------------------------------------------------------------------
(* Deliveries                                                              *)

MessagesTyped ==
  /\ status \in [Task -> {"none", "pending", "sent", "failed"}]
  /\ delivered \in [Task -> Nat]
  /\ job \in [Worker -> {NoJob} \cup Job]
  /\ faults \in Nat

\* The workers that have a message before them, and those that have just handed
\* it to its channel and not recorded the outcome.
Holding(p, t) ==
  job[p] # NoJob /\ (t \in job[p].todo \/ (job[p].step = "send" /\ t = job[p].task))
Sending(p, t) == job[p].step \in {"mark", "fail"} /\ job[p].task = t
Holders(t) == {p \in Worker : Holding(p, t)}
Senders(t) == {p \in Worker : Sending(p, t)}

\* A batch has recorded messages, and each of them once.
JobFits(p) ==
  job[p] # NoJob =>
    /\ job[p].task \notin job[p].todo /\ status[job[p].task] # "none"
    /\ \A t \in job[p].todo : status[t] # "none"
    /\ job[p].step = "mark" => delivered[job[p].task] > 0

\* As long as a message is due, every delivery of it was made by a worker that
\* has yet to record it or was kept from doing so by a fault; afterwards only
\* workers that have it already can deliver it.
Counted(t) ==
  /\ status[t] = "none" => delivered[t] = 0
  /\ status[t] = "pending" => delivered[t] <= Cardinality(Senders(t)) + faults
  /\ status[t] \in {"sent", "failed"} =>
       delivered[t] + Cardinality(Holders(t)) <= Cardinality(Worker) + faults

MessagesInv ==
  /\ MessagesTyped /\ SentWasDelivered
  /\ \A p \in Worker : JobFits(p)
  /\ \A t \in Task : Counted(t)

LEMMA NoJobIsNone == NoJob \notin Job /\ NoJob.step = "idle"
  BY DEF NoJob, Job

LEMMA WorkersAreFinite ==
  \A S \in SUBSET Worker :
    /\ IsFiniteSet(S) /\ Cardinality(S) \in Nat
    /\ Cardinality(S) <= Cardinality(Worker) /\ Cardinality(Worker) \in Nat
<1>1. IsFiniteSet(Worker)
  BY NotificationAssumption, FS_Subset
<1>2. ASSUME NEW S \in SUBSET Worker
      PROVE  IsFiniteSet(S) /\ Cardinality(S) <= Cardinality(Worker)
  BY <1>1, FS_Subset
<1> QED  BY <1>1, <1>2, FS_CardinalityType

LEMMA WorkersAreCounted ==
  ASSUME NEW S \in SUBSET Worker, NEW p \in Worker
  PROVE  /\ \A T \in SUBSET Worker : S \subseteq T => Cardinality(S) <= Cardinality(T)
         /\ \A T \in SUBSET Worker : S \ {p} \subseteq T => Cardinality(S) <= Cardinality(T) + 1
         /\ \A T \in SUBSET Worker :
              T \subseteq S \ {p} /\ p \in S => Cardinality(T) + 1 <= Cardinality(S)
         /\ \A T \in SUBSET Worker :
              S \cup {p} \subseteq T /\ p \notin S => Cardinality(S) + 1 <= Cardinality(T)
<1>1. \A T \in SUBSET Worker : IsFiniteSet(T) /\ Cardinality(T) \in Nat
  BY WorkersAreFinite
<1>2. \A A, B \in SUBSET Worker : A \subseteq B => Cardinality(A) <= Cardinality(B)
  BY <1>1, FS_Subset
<1>3. \A A \in SUBSET Worker :
        Cardinality(A \ {p}) = IF p \in A THEN Cardinality(A) - 1 ELSE Cardinality(A)
  BY <1>1, FS_RemoveElement
<1>4. \A A \in SUBSET Worker :
        Cardinality(A \cup {p}) = IF p \in A THEN Cardinality(A) ELSE Cardinality(A) + 1
  BY <1>1, FS_AddElement
<1>5. \A A \in SUBSET Worker : A \ {p} \in SUBSET Worker /\ A \cup {p} \in SUBSET Worker
  OBVIOUS
<1>6. ASSUME NEW T \in SUBSET Worker, S \ {p} \subseteq T
      PROVE  Cardinality(S) <= Cardinality(T) + 1
  <2>1. Cardinality(S \ {p}) <= Cardinality(T)
    BY <1>2, <1>5, <1>6
  <2> QED  BY <1>1, <1>3, <2>1
<1>7. ASSUME NEW T \in SUBSET Worker, T \subseteq S \ {p}, p \in S
      PROVE  Cardinality(T) + 1 <= Cardinality(S)
  <2>1. Cardinality(T) <= Cardinality(S \ {p})
    BY <1>2, <1>5, <1>7
  <2> QED  BY <1>1, <1>3, <1>7, <2>1
<1>8. ASSUME NEW T \in SUBSET Worker, S \cup {p} \subseteq T, p \notin S
      PROVE  Cardinality(S) + 1 <= Cardinality(T)
  <2>1. Cardinality(S \cup {p}) <= Cardinality(T)
    BY <1>2, <1>5, <1>8
  <2> QED  BY <1>1, <1>4, <1>8, <2>1
<1> QED  BY <1>2, <1>6, <1>7, <1>8

\* The two sets of workers do not meet.
LEMMA WorkersAreApart ==
  ASSUME MessagesTyped, \A p \in Worker : JobFits(p), NEW t \in Task
  PROVE  Cardinality(Senders(t)) + Cardinality(Holders(t)) <= Cardinality(Worker)
<1>1. Senders(t) \in SUBSET Worker /\ Holders(t) \in SUBSET Worker
  BY DEF Senders, Holders
<1>2. Senders(t) \cap Holders(t) = {}
  BY NoJobIsNone DEF Senders, Holders, Sending, Holding, JobFits
<1>3. PICK A, B : A = Senders(t) /\ B = Holders(t)
  OBVIOUS
<1>4. /\ IsFiniteSet(A) /\ IsFiniteSet(B) /\ Cardinality(A) \in Nat /\ Cardinality(B) \in Nat
      /\ Cardinality(A \cup B) <= Cardinality(Worker)
  BY <1>1, <1>3, WorkersAreFinite
<1>5. Cardinality(A \cap B) = 0
  BY <1>2, <1>3, FS_EmptySet
<1>6. Cardinality(A \cup B) = Cardinality(A) + Cardinality(B)
  <2>1. Cardinality(A \cup B) = Cardinality(A) + Cardinality(B) - Cardinality(A \cap B)
    BY <1>4, FS_Union, Zenon
  <2> QED  BY <1>4, <1>5, <2>1
<1> QED  BY <1>3, <1>4, <1>6

\* A message that nothing happens to, but for workers that pass it on or die.
LEMMA CountStays ==
  ASSUME MessagesTyped, NEW t \in Task, Counted(t),
         status'[t] = status[t], delivered'[t] = delivered[t],
         faults' \in Nat, faults' >= faults,
         \/ Senders(t) \subseteq Senders(t)'
         \/ faults' = faults + 1 /\ \E p \in Worker : Senders(t) \ {p} \subseteq Senders(t)',
         status[t] # "pending" => Holders(t)' \subseteq Holders(t)
  PROVE  Counted(t)'
<1>1. /\ Senders(t) \in SUBSET Worker /\ Holders(t) \in SUBSET Worker
      /\ Senders(t)' \in SUBSET Worker /\ Holders(t)' \in SUBSET Worker
  BY DEF Senders, Holders
<1>2. PICK A, B, C, D :
        A = Senders(t) /\ B = Senders(t)' /\ C = Holders(t) /\ D = Holders(t)'
  OBVIOUS
<1>3. /\ Cardinality(A) \in Nat /\ Cardinality(B) \in Nat /\ Cardinality(C) \in Nat
      /\ Cardinality(D) \in Nat /\ Cardinality(Worker) \in Nat
  BY <1>1, <1>2, WorkersAreFinite
<1>4. A \in SUBSET Worker /\ B \in SUBSET Worker /\ C \in SUBSET Worker /\ D \in SUBSET Worker
  BY <1>1, <1>2
<1>5. Cardinality(A) + faults <= Cardinality(B) + faults'
  <2>1. CASE A \subseteq B
    BY <1>1, <1>2, <1>3, <1>4, <2>1, FS_Subset, WorkersAreFinite DEF MessagesTyped
  <2>2. CASE faults' = faults + 1 /\ \E p \in Worker : A \ {p} \subseteq B
    BY <1>3, <1>4, <2>2, WorkersAreCounted DEF MessagesTyped
  <2> QED  BY <1>2, <2>1, <2>2
<1>6. status[t] # "pending" => Cardinality(D) <= Cardinality(C)
  BY <1>2, <1>4, FS_Subset, WorkersAreFinite
<1>7. delivered[t] \in Nat
  BY DEF MessagesTyped
<1>8. faults \in Nat
  BY DEF MessagesTyped
<1>9. /\ status[t] = "none" => delivered[t] = 0
      /\ status[t] = "pending" => delivered[t] <= Cardinality(A) + faults
      /\ status[t] \in {"sent", "failed"} =>
           delivered[t] + Cardinality(C) <= Cardinality(Worker) + faults
  BY <1>2, Zenon DEF Counted
<1>10. /\ status[t] = "none" => delivered[t] = 0
       /\ status[t] = "pending" => delivered[t] <= Cardinality(B) + faults'
       /\ status[t] \in {"sent", "failed"} =>
            delivered[t] + Cardinality(D) <= Cardinality(Worker) + faults'
  BY <1>3, <1>5, <1>6, <1>7, <1>8, <1>9
<1>11. /\ status'[t] = "none" => delivered'[t] = 0
       /\ status'[t] = "pending" => delivered'[t] <= Cardinality(B) + faults'
       /\ status'[t] \in {"sent", "failed"} =>
            delivered'[t] + Cardinality(D) <= Cardinality(Worker) + faults'
  BY <1>10
<1> QED  BY <1>2, <1>11, Zenon DEF Counted

\* A batch that takes up the next of its messages.
LEMMA GoOnFits ==
  ASSUME MessagesInv, NEW p \in Worker, NEW T \in SUBSET Task, GoOn(p, T),
         \A t \in T : status'[t] # "none",
         UNCHANGED delivered
  PROVE  /\ job' \in [Worker -> {NoJob} \cup Job]
         /\ \A q \in Worker \ {p} : job'[q] = job[q]
         /\ JobFits(p)'
         /\ \A t \in Task : (Holding(p, t)' <=> t \in T) /\ ~Sending(p, t)'
<1> USE DEF MessagesInv, MessagesTyped
<1>1. CASE T = {}
  <2>1. job' = [job EXCEPT ![p] = NoJob]
    BY <1>1 DEF GoOn
  <2>2. job'[p] = NoJob
    BY <2>1
  <2> QED  BY <1>1, <2>1, <2>2, NoJobIsNone DEF JobFits, Holding, Sending
<1>2. CASE T # {}
  <2>1. PICK t \in T :
          job' = [job EXCEPT ![p] = [step |-> "send", todo |-> T \ {t}, task |-> t]]
    BY <1>2 DEF GoOn
  <2>2. PICK j : j = [step |-> "send", todo |-> T \ {t}, task |-> t]
    OBVIOUS
  <2>3. j \in Job /\ j.step = "send" /\ j.todo = T \ {t} /\ j.task = t
    BY <2>2 DEF Job
  <2>4. job' = [job EXCEPT ![p] = j]
    BY <2>1, <2>2
  <2>5. job'[p] = j /\ j # NoJob
    BY <2>3, <2>4, NoJobIsNone
  <2>6. JobFits(p)'
    BY <2>3, <2>5 DEF JobFits
  <2>7. \A u \in Task : (Holding(p, u)' <=> u \in T) /\ ~Sending(p, u)'
    BY <2>3, <2>5, NoJobIsNone DEF Holding, Sending
  <2> QED  BY <2>3, <2>4, <2>6, <2>7
<1> QED  BY <1>1, <1>2

\* A worker's record is typed while it runs.
LEMMA JobFields ==
  ASSUME MessagesTyped, NEW p \in Worker, job[p].step # "idle"
  PROVE  /\ job[p] \in Job /\ job[p] # NoJob
         /\ job[p].task \in Task /\ job[p].todo \in SUBSET Task
<1>1. job[p] \in Job
  BY NoJobIsNone DEF MessagesTyped
<1> QED  BY <1>1, NoJobIsNone DEF Job

\* Records are created by requests and schedulers.
LEMMA CreationKeepsMessages ==
  ASSUME MessagesInv, UNCHANGED <<delivered, job, faults>>,
         UNCHANGED status \/ \E S : CreateTasks(S)
  PROVE  MessagesInv'
<1> USE DEF MessagesInv, MessagesTyped
<1>1. /\ \A t \in Task : \/ status'[t] = status[t]
                         \/ status[t] = "none" /\ status'[t] = "pending"
      /\ status' \in [Task -> {"none", "pending", "sent", "failed"}]
  BY DEF CreateTasks
<1>2. MessagesTyped'
  BY <1>1
<1>3. SentWasDelivered'
  BY <1>1 DEF SentWasDelivered
<1>4. ASSUME NEW p \in Worker
      PROVE  JobFits(p)'
  <2>1. job[p] # NoJob => job[p].task \in Task /\ job[p].todo \in SUBSET Task
    BY DEF Job
  <2> QED  BY <1>1, <2>1 DEF JobFits
<1>5. ASSUME NEW t \in Task
      PROVE  Counted(t)'
  <2>1. Senders(t)' = Senders(t) /\ Holders(t)' = Holders(t)
    BY DEF Senders, Holders, Sending, Holding
  <2>2. CASE status'[t] = status[t]
    BY <2>1, <2>2, CountStays
  <2>3. CASE status[t] = "none" /\ status'[t] = "pending"
    <3>1. delivered'[t] = 0
      BY <2>3 DEF Counted
    <3>2. Senders(t)' \in SUBSET Worker
      BY DEF Senders
    <3>3. Cardinality(Senders(t)') \in Nat
      BY <3>2, WorkersAreFinite
    <3> QED  BY <2>3, <3>1, <3>3 DEF Counted
  <2> QED  BY <1>1, <2>2, <2>3
<1> QED  BY <1>2, <1>3, <1>4, <1>5

\* What a step of one worker leaves alone for the others.
LEMMA OthersFit ==
  ASSUME MessagesInv, NEW p \in Worker,
         \A q \in Worker \ {p} : job'[q] = job[q],
         \A t \in Task : /\ status[t] # "none" => status'[t] # "none"
                         /\ delivered'[t] >= delivered[t],
         delivered' \in [Task -> Nat]
  PROVE  /\ \A q \in Worker \ {p} : JobFits(q)'
         /\ \A t \in Task :
              /\ Senders(t) \ {p} \subseteq Senders(t)'
              /\ Senders(t)' \subseteq Senders(t) \cup {p}
              /\ Holders(t) \ {p} \subseteq Holders(t)'
              /\ Holders(t)' \subseteq Holders(t) \cup {p}
<1> USE DEF MessagesInv, MessagesTyped
<1>1. ASSUME NEW q \in Worker \ {p}
      PROVE  JobFits(q)'
  <2>1. job[q] # NoJob => job[q].task \in Task /\ job[q].todo \in SUBSET Task
    BY DEF Job
  <2>2. JobFits(q)
    OBVIOUS
  <2>3. ASSUME job[q] # NoJob
        PROVE  /\ status'[job[q].task] # "none"
               /\ \A t \in job[q].todo : status'[t] # "none"
               /\ job[q].step = "mark" => delivered'[job[q].task] > 0
    BY <2>1, <2>2, <2>3 DEF JobFits
  <2> QED  BY <2>2, <2>3 DEF JobFits
<1>2. \A q \in Worker \ {p}, t \in Task :
        (Sending(q, t)' <=> Sending(q, t)) /\ (Holding(q, t)' <=> Holding(q, t))
  BY DEF Sending, Holding
<1> QED  BY <1>1, <1>2 DEF Senders, Holders

LEMMA TickKeepsMessages ==
  ASSUME MessagesInv, NEW p \in Worker, WorkerTick(p)
  PROVE  MessagesInv'
<1> USE DEF MessagesInv
<1>1. PICK S \in SUBSET Due : GoOn(p, S)
  BY DEF WorkerTick
<1>2. UNCHANGED <<status, delivered, faults>> /\ job[p] = NoJob
  BY DEF WorkerTick
<1>3. S \in SUBSET Task /\ \A t \in S : status'[t] = "pending"
  BY <1>2 DEF Due
<1>4. /\ job' \in [Worker -> {NoJob} \cup Job]
      /\ \A q \in Worker \ {p} : job'[q] = job[q]
      /\ JobFits(p)'
      /\ \A t \in Task : (Holding(p, t)' <=> t \in S) /\ ~Sending(p, t)'
  BY <1>1, <1>2, <1>3, GoOnFits
<1>5. MessagesTyped' /\ SentWasDelivered'
  BY <1>2, <1>4 DEF MessagesTyped, SentWasDelivered
<1>6. /\ \A q \in Worker \ {p} : JobFits(q)'
      /\ \A t \in Task : /\ Senders(t) \ {p} \subseteq Senders(t)'
                         /\ Holders(t)' \subseteq Holders(t) \cup {p}
  BY <1>2, <1>4, OthersFit DEF MessagesTyped
<1>7. ASSUME NEW t \in Task
      PROVE  Counted(t)'
  <2>1. Senders(t) \subseteq Senders(t)'
    BY <1>2, <1>6, NoJobIsNone DEF Senders, Sending
  <2>2. status[t] # "pending" => Holders(t)' \subseteq Holders(t)
    BY <1>2, <1>3, <1>4, <1>6 DEF Holders
  <2> QED  BY <1>2, <2>1, <2>2, CountStays DEF MessagesTyped
<1> QED  BY <1>4, <1>5, <1>6, <1>7

\* The channel has the message, and its worker leaves those that have it before
\* them.
LEMMA SendKeepsMessages ==
  ASSUME MessagesInv, NEW p \in Worker, SendTask(p)
  PROVE  MessagesInv'
<1> USE DEF MessagesInv
<1>1. PICK taken \in {0, 1}, next \in {"mark", "fail"} :
        /\ next = "mark" => taken = 1
        /\ delivered' = [delivered EXCEPT ![job[p].task] = @ + taken]
        /\ job' = [job EXCEPT ![p].step = next]
  BY DEF SendTask
<1>2. UNCHANGED <<status, faults>> /\ job[p].step = "send"
  BY DEF SendTask
<1>3. PICK j \in Job : j = job[p]
  BY <1>2, JobFields
<1>4. j # NoJob /\ j.task \in Task /\ j.todo \in SUBSET Task /\ j.step = "send"
  BY <1>2, <1>3, JobFields
<1>5. PICK k : k = [j EXCEPT !.step = next]
  OBVIOUS
<1>6. k \in Job /\ k.step = next /\ k.task = j.task /\ k.todo = j.todo
  BY <1>1, <1>5 DEF Job
<1>7. job' = [job EXCEPT ![p] = k]
  BY <1>1, <1>3, <1>5 DEF MessagesTyped
<1>8. /\ job' \in [Worker -> {NoJob} \cup Job] /\ job'[p] = k /\ k # NoJob
      /\ \A q \in Worker \ {p} : job'[q] = job[q]
  BY <1>1, <1>6, <1>7, NoJobIsNone DEF MessagesTyped
<1>9. /\ delivered' \in [Task -> Nat]
      /\ \A t \in Task : delivered'[t] = IF t = j.task THEN delivered[t] + taken ELSE delivered[t]
  BY <1>1, <1>3, <1>4 DEF MessagesTyped
<1>10. MessagesTyped'
  BY <1>2, <1>8, <1>9 DEF MessagesTyped
<1>11. \A t \in Task : delivered'[t] >= delivered[t] /\ delivered[t] \in Nat
  BY <1>1, <1>9 DEF MessagesTyped
<1>12. SentWasDelivered'
  BY <1>2, <1>11, <1>9 DEF SentWasDelivered
<1>13. JobFits(p)
  OBVIOUS
<1>14. JobFits(p)'
  <2>1. /\ j.task \notin j.todo /\ status[j.task] # "none"
        /\ \A t \in j.todo : status[t] # "none"
    BY <1>3, <1>4, <1>13 DEF JobFits
  <2>2. next = "mark" => delivered'[j.task] > 0
    BY <1>1, <1>4, <1>9, <1>11
  <2> QED  BY <1>2, <1>6, <1>8, <2>1, <2>2 DEF JobFits
<1>15. /\ \A q \in Worker \ {p} : JobFits(q)'
       /\ \A t \in Task :
            /\ Senders(t) \ {p} \subseteq Senders(t)'
            /\ Senders(t)' \subseteq Senders(t) \cup {p}
            /\ Holders(t) \ {p} \subseteq Holders(t)'
            /\ Holders(t)' \subseteq Holders(t) \cup {p}
  BY <1>2, <1>8, <1>9, <1>11, OthersFit
<1>16. ASSUME NEW t \in Task
       PROVE  Counted(t)'
  <2>1. p \notin Senders(t)
    BY <1>2 DEF Senders, Sending
  <2>2. Holding(p, t)' => Holding(p, t)
    BY <1>3, <1>4, <1>6, <1>8 DEF Holding
  <2>3. Senders(t) \subseteq Senders(t)' /\ Holders(t)' \subseteq Holders(t)
    BY <1>15, <2>1, <2>2 DEF Holders
  <2>4. CASE t # j.task
    BY <1>2, <1>9, <2>3, <2>4, CountStays DEF MessagesTyped
  <2>5. CASE t = j.task
    <3>1. Sending(p, t)' /\ Holding(p, t) /\ ~Holding(p, t)'
      BY <1>1, <1>3, <1>4, <1>6, <1>8, <1>13, <2>5 DEF Sending, Holding, JobFits
    <3>2. PICK A, B, C, D :
            A = Senders(t) /\ B = Senders(t)' /\ C = Holders(t) /\ D = Holders(t)'
      OBVIOUS
    <3>3. /\ A \in SUBSET Worker /\ B \in SUBSET Worker
          /\ C \in SUBSET Worker /\ D \in SUBSET Worker
      BY <3>2 DEF Senders, Holders
    <3>4. A \cup {p} \subseteq B /\ p \notin A /\ D \subseteq C \ {p} /\ p \in C
      BY <2>1, <2>3, <3>1, <3>2 DEF Senders, Holders
    <3>5. Cardinality(A) + 1 <= Cardinality(B) /\ Cardinality(D) + 1 <= Cardinality(C)
      BY <3>3, <3>4, WorkersAreCounted
    <3>6. /\ Cardinality(A) \in Nat /\ Cardinality(B) \in Nat /\ Cardinality(C) \in Nat
          /\ Cardinality(D) \in Nat /\ Cardinality(Worker) \in Nat /\ faults \in Nat
      BY <3>3, WorkersAreFinite DEF MessagesTyped
    <3>7. /\ status[t] = "pending" => delivered[t] <= Cardinality(A) + faults
          /\ status[t] \in {"sent", "failed"} =>
               delivered[t] + Cardinality(C) <= Cardinality(Worker) + faults
      BY <3>2, Zenon DEF Counted
    <3>8. delivered'[t] <= delivered[t] + 1 /\ delivered'[t] \in Nat /\ delivered[t] \in Nat
      BY <1>1, <1>9, <1>11
    <3>9. /\ status[t] = "pending" => delivered'[t] <= Cardinality(B) + faults
          /\ status[t] \in {"sent", "failed"} =>
               delivered'[t] + Cardinality(D) <= Cardinality(Worker) + faults
      BY <3>5, <3>6, <3>7, <3>8
    <3>10. status[t] # "none"
      BY <1>3, <1>4, <1>13, <2>5 DEF JobFits
    <3> QED  BY <1>2, <3>2, <3>9, <3>10, Zenon DEF Counted
  <2> QED  BY <2>4, <2>5
<1> QED  BY <1>10, <1>12, <1>14, <1>15, <1>16

\* The outcome is recorded; the message was due until now, or another worker has
\* been faster.
LEMMA MarkKeepsMessages ==
  ASSUME MessagesInv, NEW p \in Worker, MarkSent(p) \/ MarkFailed(p)
  PROVE  MessagesInv'
<1> USE DEF MessagesInv
<1>1. PICK st \in {"sent", "failed"} :
        /\ job[p].step \in {"mark", "fail"} /\ st = "sent" => job[p].step = "mark"
        /\ EndTask(job[p].task, st) /\ GoOn(p, job[p].todo)
  BY DEF MarkSent, MarkFailed
<1>2. job[p].step \in {"mark", "fail"} /\ UNCHANGED <<delivered, faults>>
  BY DEF MarkSent, MarkFailed
<1>3. PICK j \in Job : j = job[p] /\ j # NoJob /\ j.task \in Task /\ j.todo \in SUBSET Task
  BY <1>2, JobFields
<1>4. /\ j.task \notin j.todo /\ status[j.task] # "none"
      /\ \A t \in j.todo : status[t] # "none"
      /\ j.step = "mark" => delivered[j.task] > 0
  BY <1>3 DEF JobFits
<1>5. /\ status' \in [Task -> {"none", "pending", "sent", "failed"}]
      /\ \A t \in Task : status'[t] = IF t = j.task /\ status[t] = "pending" THEN st ELSE status[t]
  BY <1>1, <1>3 DEF EndTask, MessagesTyped
<1>6. /\ job' \in [Worker -> {NoJob} \cup Job]
      /\ \A q \in Worker \ {p} : job'[q] = job[q]
      /\ JobFits(p)'
      /\ \A t \in Task : (Holding(p, t)' <=> t \in j.todo) /\ ~Sending(p, t)'
  BY <1>1, <1>2, <1>3, <1>4, <1>5, GoOnFits
<1>7. MessagesTyped' /\ SentWasDelivered'
  <2>1. MessagesTyped'
    BY <1>2, <1>5, <1>6 DEF MessagesTyped
  <2>2. ASSUME NEW t \in Task, status'[t] = "sent"
        PROVE  delivered'[t] > 0
    BY <1>1, <1>2, <1>3, <1>4, <1>5, <2>2 DEF SentWasDelivered
  <2> QED  BY <2>1, <2>2 DEF SentWasDelivered
<1>8. /\ \A q \in Worker \ {p} : JobFits(q)'
      /\ \A t \in Task :
           /\ Senders(t) \ {p} \subseteq Senders(t)'
           /\ Senders(t)' \subseteq Senders(t) \cup {p}
           /\ Holders(t) \ {p} \subseteq Holders(t)'
           /\ Holders(t)' \subseteq Holders(t) \cup {p}
  <2>1. \A t \in Task : delivered'[t] >= delivered[t] /\ delivered' \in [Task -> Nat]
    BY <1>2 DEF MessagesTyped
  <2>2. \A t \in Task : status[t] # "none" => status'[t] # "none"
    BY <1>1, <1>5
  <2>3. delivered' \in [Task -> Nat]
    BY <1>2 DEF MessagesTyped
  <2> QED  BY <1>6, <2>1, <2>2, <2>3, OthersFit
<1>9. ASSUME NEW t \in Task
      PROVE  Counted(t)'
  <2>1. Holders(t)' \subseteq Holders(t)
    BY <1>3, <1>6, <1>8 DEF Holders, Holding
  <2>2. CASE t # j.task
    <3>1. ~Sending(p, t)
      BY <1>3, <2>2 DEF Sending
    <3>2. Senders(t) \subseteq Senders(t)'
      BY <1>8, <3>1 DEF Senders
    <3> QED  BY <1>2, <1>5, <2>1, <2>2, <3>2, CountStays DEF MessagesTyped
  <2>3. CASE t = j.task
    <3>1. PICK A, C, D : A = Senders(t) /\ C = Holders(t) /\ D = Holders(t)'
      OBVIOUS
    <3>2. /\ A \in SUBSET Worker /\ C \in SUBSET Worker /\ D \in SUBSET Worker
      BY <3>1 DEF Senders, Holders
    <3>3. /\ Cardinality(A) \in Nat /\ Cardinality(C) \in Nat /\ Cardinality(D) \in Nat
          /\ Cardinality(Worker) \in Nat /\ faults \in Nat /\ delivered[t] \in Nat
      BY <3>2, WorkersAreFinite DEF MessagesTyped
    <3>4. Cardinality(A) + Cardinality(C) <= Cardinality(Worker)
      BY <3>1, WorkersAreApart
    <3>5. Cardinality(D) <= Cardinality(C)
      BY <2>1, <3>1, <3>2, WorkersAreCounted
    <3>6. status'[t] \in {"sent", "failed"}
      BY <1>4, <1>5, <2>3 DEF MessagesTyped
    <3>7. /\ status[t] = "pending" => delivered[t] <= Cardinality(A) + faults
          /\ status[t] \in {"sent", "failed"} =>
               delivered[t] + Cardinality(C) <= Cardinality(Worker) + faults
      BY <3>1, Zenon DEF Counted
    <3>8. status[t] \in {"pending", "sent", "failed"}
      BY <1>4, <2>3 DEF MessagesTyped
    <3>9. delivered'[t] + Cardinality(D) <= Cardinality(Worker) + faults'
      BY <1>2, <3>3, <3>4, <3>5, <3>7, <3>8
    <3>10. status'[t] # "none" /\ status'[t] # "pending"
      BY <3>6
    <3> QED  BY <3>1, <3>9, <3>10, Zenon DEF Counted
  <2> QED  BY <2>2, <2>3
<1> QED  BY <1>6, <1>7, <1>8, <1>9

\* A fault costs one message one more delivery at most.
LEMMA FaultKeepsMessages ==
  ASSUME MessagesInv, NEW p \in Process,
         \/ p \in Worker /\ (MarkSentFails(p) \/ BatchDies(p))
         \/ ProcessDies(p)
  PROVE  MessagesInv'
<1> USE DEF MessagesInv
<1>1. UNCHANGED <<status, delivered>> /\ faults' = faults + 1
  BY DEF MarkSentFails, BatchDies, ProcessDies
<1>2. faults \in Nat /\ faults' \in Nat
  BY <1>1 DEF MessagesTyped
<1>3. CASE p \notin Worker
  <2>1. job' = job
    BY <1>3 DEF ProcessDies, MessagesTyped
  <2>2. MessagesTyped' /\ SentWasDelivered' /\ \A q \in Worker : JobFits(q)'
    BY <1>1, <1>2, <2>1 DEF MessagesTyped, SentWasDelivered, JobFits
  <2>3. \A t \in Task : Senders(t)' = Senders(t) /\ Holders(t)' = Holders(t)
    BY <2>1 DEF Senders, Holders, Sending, Holding
  <2>4. \A t \in Task : Counted(t)'
    BY <1>1, <1>2, <2>3, CountStays
  <2> QED  BY <2>2, <2>4
<1>4. CASE p \in Worker
  <2>1. /\ job' \in [Worker -> {NoJob} \cup Job]
        /\ \A q \in Worker \ {p} : job'[q] = job[q]
        /\ JobFits(p)'
        /\ \A t \in Task : Holding(p, t)' => Holding(p, t)
    <3>1. CASE MarkSentFails(p)
      <4>1. PICK j \in Job : j = job[p] /\ j # NoJob
        BY <1>4, <3>1, JobFields DEF MarkSentFails
      <4>2. PICK k : k = [j EXCEPT !.step = "fail"]
        OBVIOUS
      <4>3. k \in Job /\ k.step = "fail" /\ k.task = j.task /\ k.todo = j.todo /\ k # NoJob
        BY <4>2, NoJobIsNone DEF Job
      <4>4. job' = [job EXCEPT ![p] = k]
        BY <3>1, <4>1, <4>2 DEF MarkSentFails, MessagesTyped
      <4>5. job'[p] = k
        BY <1>4, <4>4 DEF MessagesTyped
      <4>6. JobFits(p)'
        BY <1>1, <1>4, <4>1, <4>3, <4>5 DEF JobFits
      <4>7. \A t \in Task : Holding(p, t)' => Holding(p, t)
        BY <4>1, <4>3, <4>5 DEF Holding
      <4> QED  BY <4>3, <4>4, <4>6, <4>7 DEF MessagesTyped
    <3>2. CASE BatchDies(p) \/ ProcessDies(p)
      <4>1. job' = [q \in Worker |-> IF q = p THEN NoJob ELSE job[q]]
        BY <1>4, <3>2 DEF BatchDies, GoOn, ProcessDies, MessagesTyped
      <4>2. job'[p] = NoJob
        BY <1>4, <4>1
      <4> QED  BY <4>1, <4>2 DEF MessagesTyped, JobFits, Holding
    <3> QED  BY <3>1, <3>2
  <2>2. MessagesTyped' /\ SentWasDelivered'
    BY <1>1, <1>2, <2>1 DEF MessagesTyped, SentWasDelivered
  <2>3. /\ \A q \in Worker \ {p} : JobFits(q)'
        /\ \A t \in Task :
             /\ Senders(t) \ {p} \subseteq Senders(t)'
             /\ Holders(t)' \subseteq Holders(t) \cup {p}
    <3>1. /\ \A t \in Task : delivered'[t] >= delivered[t]
          /\ delivered' \in [Task -> Nat]
      BY <1>1 DEF MessagesTyped
    <3> QED  BY <1>1, <1>4, <2>1, <3>1, OthersFit
  <2>4. ASSUME NEW t \in Task
        PROVE  Counted(t)'
    <3>1. Holders(t)' \subseteq Holders(t)
      BY <1>4, <2>1, <2>3 DEF Holders
    <3> QED  BY <1>1, <1>2, <1>4, <2>3, <3>1, CountStays
  <2> QED  BY <2>1, <2>2, <2>3, <2>4
<1> QED  BY <1>3, <1>4

LEMMA MessagesInitially == NotificationInit => MessagesInv
<1> SUFFICES ASSUME NotificationInit PROVE MessagesInv  OBVIOUS
<1> USE DEF NotificationInit
<1>1. MessagesTyped /\ SentWasDelivered
  BY DEF MessagesTyped, SentWasDelivered
<1>2. \A p \in Worker : JobFits(p)
  BY DEF JobFits
<1>3. \A t \in Task : Counted(t)
  BY DEF Counted
<1> QED  BY <1>1, <1>2, <1>3 DEF MessagesInv

LEMMA MessagesAreKept == MessagesInv /\ [NotificationNext]_notificationVars => MessagesInv'
<1> SUFFICES ASSUME MessagesInv, [NotificationNext]_notificationVars PROVE MessagesInv'
  OBVIOUS
<1>1. CASE UNCHANGED notificationVars
  BY <1>1, CreationKeepsMessages DEF notificationVars
<1>2. CASE \/ \E o \in Order : IssueTickets(o)
           \/ CancelConcert \/ ComesCloser
           \/ \E S \in owed : Announce(S) \/ AnnounceFails(S)
  <2>1. /\ UNCHANGED <<delivered, job, faults>>
        /\ UNCHANGED status \/ \E S : CreateTasks(S)
    BY <1>2 DEF IssueTickets, CancelConcert, ComesCloser, Announce, AnnounceFails
  <2> QED  BY <2>1, CreationKeepsMessages
<1>3. ASSUME NEW p \in Scheduler, SchedulerStep(p)
      PROVE  MessagesInv'
  <2>1. /\ UNCHANGED <<delivered, job, faults>>
        /\ UNCHANGED status \/ \E S : CreateTasks(S)
    BY <1>3 DEF SchedulerStep, ScanConcerts, ScanOwners, ScanCreate
  <2> QED  BY <2>1, CreationKeepsMessages
<1>4. ASSUME NEW p \in Worker, WorkerTick(p) \/ WorkStep(p) \/ MarkSentFails(p) \/ BatchDies(p)
      PROVE  MessagesInv'
  <2>1. p \in Process
    BY NotificationAssumption
  <2> QED
    BY <1>4, <2>1, TickKeepsMessages, SendKeepsMessages, MarkKeepsMessages, FaultKeepsMessages
    DEF WorkStep
<1>5. ASSUME NEW p \in Process, ProcessDies(p)
      PROVE  MessagesInv'
  BY <1>5, FaultKeepsMessages
<1> QED  BY <1>1, <1>2, <1>3, <1>4, <1>5 DEF NotificationNext

\* What is recorded as sent was accepted by its channel, and no message is
\* delivered more often than once by each worker and once more for each fault, for
\* any number of processes.
THEOREM DeliveriesStayTrue == NotificationSpec => []DeliveriesAreTrue
<1>1. ASSUME MessagesInv, NEW t \in Task
      PROVE  delivered[t] <= Cardinality(Worker) + faults
  <2>1. PICK A, C : A = Senders(t) /\ C = Holders(t)
    OBVIOUS
  <2>2. A \in SUBSET Worker /\ C \in SUBSET Worker
    BY <2>1 DEF Senders, Holders
  <2>3. /\ Cardinality(A) \in Nat /\ Cardinality(C) \in Nat /\ Cardinality(A) <= Cardinality(Worker)
        /\ Cardinality(Worker) \in Nat /\ faults \in Nat /\ delivered[t] \in Nat
    BY <1>1, <2>2, WorkersAreFinite DEF MessagesInv, MessagesTyped
  <2>4. /\ status[t] = "none" => delivered[t] = 0
        /\ status[t] = "pending" => delivered[t] <= Cardinality(A) + faults
        /\ status[t] \in {"sent", "failed"} =>
             delivered[t] + Cardinality(C) <= Cardinality(Worker) + faults
    BY <1>1, <2>1, Zenon DEF Counted, MessagesInv
  <2>5. status[t] \in {"none", "pending", "sent", "failed"}
    BY <1>1 DEF MessagesInv, MessagesTyped
  <2> QED  BY <2>3, <2>4, <2>5
<1>2. MessagesInv => DeliveriesAreTrue
  BY <1>1 DEF MessagesInv, DeliveriesAreTrue, DeliveriesAreBounded
<1> QED
  BY <1>2, MessagesInitially, MessagesAreKept, PTL DEF NotificationSpec

\* A recorded result is never changed, whoever else has the message.
THEOREM ResultsStayFinal == NotificationSpec => ResultsAreFinal
<1>1. ASSUME MessagesInv, [NotificationNext]_notificationVars, NEW t \in Task,
             status[t] \in {"sent", "failed"}
      PROVE  status'[t] = status[t]
  <2>1. CASE UNCHANGED status
    BY <2>1
  <2>2. CASE \E S : CreateTasks(S)
    BY <1>1, <2>2 DEF CreateTasks
  <2>3. ASSUME NEW u, NEW st, EndTask(u, st)
        PROVE  status'[t] = status[t]
    BY <1>1, <2>3 DEF EndTask, MessagesInv, MessagesTyped
  <2>4. \/ UNCHANGED status \/ \E S : CreateTasks(S)
        \/ \E u, st : EndTask(u, st)
    BY <1>1 DEF NotificationNext, notificationVars, IssueTickets, CancelConcert, ComesCloser,
      Announce, AnnounceFails, SchedulerStep, ScanConcerts, ScanOwners, ScanCreate, WorkerTick,
      WorkStep, SendTask, MarkSent, MarkFailed, MarkSentFails, BatchDies, ProcessDies
  <2> QED  BY <2>1, <2>2, <2>3, <2>4
<1>2. MessagesInv /\ [NotificationNext]_notificationVars =>
        [\A t \in Task : status[t] \in {"sent", "failed"} => status'[t] = status[t]]_notificationVars
  BY <1>1
<1> QED
  BY <1>2, MessagesInitially, MessagesAreKept, PTL DEF NotificationSpec, ResultsAreFinal

-----------------------------------------------------------------------------
(* The checkout in the browser                                             *)

\* How an order can have ended, and what the page may then be told for ever.
EndSet == {"issued", "failed", "expired", "refund"}
Requests == [kind : {"reserve", "order", "pay"}, key : Key, method : Method]
Submits == [step : {"reserve", "order", "pay"}, form : Form, method : Method, key : Key]
Pages == [of : Nat, shown : OrderStatus \cup {"loading"}, loading : BOOLEAN]
Orders == {NoOrder} \cup [status : OrderStatus, method : Method]

OrdersTyped == order \in [Key -> Orders]
BrowserTyped ==
  /\ madeFor \in Seq(Form) /\ Len(madeFor) <= MaxIntents
  /\ intent \in [Form -> 0..Len(madeFor)]
  /\ tab \in {Idle} \cup Submits
  /\ late \in SUBSET Requests

\* An intent was made for its form, and a form keeps it until it has an order.
IntentsFit ==
  /\ \A f \in Form : intent[f] # None => madeFor[intent[f]] = f
  /\ \A k \in Made : order[k] = NoOrder => intent[madeFor[k]] = k

\* A submit under way is about the intent of its form.
TabFits ==
  tab # Idle =>
    /\ tab.key \in Made /\ madeFor[tab.key] = tab.form
    /\ tab.step \in {"reserve", "order"} => intent[tab.form] = tab.key
    /\ tab.step = "pay" => order[tab.key] # NoOrder

\* The page is about an order; an answer that says it has ended is true, and a
\* page that has stopped asking has no other answers to wait for.
PageTyped ==
  /\ page \in Pages
  /\ page.of = None => page = NoPage /\ loads = {}
  /\ page.of # None => page.of \in Key /\ tab = Idle /\ order[page.of] # NoOrder
PageFits ==
  page.of # None =>
    /\ \A r \in loads \cup {page.shown} : r \in EndSet => order[page.of].status \in EndSet
    /\ PollMode(page.shown) = "stopped" =>
         page.shown \in EndSet /\ loads \subseteq EndSet
    /\ loads \subseteq OrderStatus

WebInv ==
  OrdersTyped /\ BrowserTyped /\ IntentsFit /\ TabFits /\ PageTyped /\ PageFits

\* Orders are never taken back, and an order that has ended stays so.
OrdersAdvance ==
  /\ order' \in [Key -> Orders]
  /\ \A k \in Key : order[k] # NoOrder => order'[k] # NoOrder
  /\ \A k \in Key : order[k].status \in EndSet => order'[k].status \in EndSet

LEMMA NoOrderIsApart ==
  /\ NoOrder.status = "none"
  /\ \A o \in [status : OrderStatus, method : Method] : o # NoOrder /\ o.status \in OrderStatus
  BY DEF NoOrder, OrderStatus

\* An order that moves from one status to another.
LEMMA MovingAdvances ==
  ASSUME OrdersTyped, NEW k \in Key, order[k] # NoOrder,
         NEW to \in OrderStatus, order[k].status \in EndSet => to \in EndSet,
         order' = [order EXCEPT ![k].status = to]
  PROVE  OrdersAdvance
<1>1. order[k] \in [status : OrderStatus, method : Method]
  BY DEF OrdersTyped, Orders
<1>2. PICK o : o = [order[k] EXCEPT !.status = to]
  OBVIOUS
<1>3. o \in [status : OrderStatus, method : Method] /\ o.status = to
  BY <1>1, <1>2
<1>4. order' = [order EXCEPT ![k] = o]
  BY <1>2, Zenon
<1>5. order'[k] = o /\ \A j \in Key : j # k => order'[j] = order[j]
  BY <1>4 DEF OrdersTyped
<1>6. order' \in [Key -> Orders]
  BY <1>3, <1>4 DEF OrdersTyped, Orders
<1> QED  BY <1>3, <1>5, <1>6, NoOrderIsApart DEF OrdersAdvance

\* Whatever request the backend handles, and however it answers.
LEMMA HandlingAdvances ==
  ASSUME OrdersTyped, NEW q \in Requests, NEW r, Handle(q, r)
  PROVE  /\ OrdersAdvance
         /\ q.kind = "order" /\ r = "ok" => order'[q.key] # NoOrder
<1>1. q.key \in Key /\ q.method \in Method
  BY DEF Requests
<1>2. ASSUME UNCHANGED order
      PROVE  OrdersAdvance
  BY <1>2 DEF OrdersAdvance, OrdersTyped
<1>3. CASE q.kind = "reserve" /\ Reserve(q.key, r)
  BY <1>2, <1>3 DEF Reserve
<1>4. CASE q.kind = "order" /\ PlaceOrder(q.key, q.method, r)
  <2>1. CASE /\ r = "ok" /\ order[q.key] = NoOrder
             /\ order' = [order EXCEPT ![q.key] = [status |-> "pending", method |-> q.method]]
    <3>1. PICK o : o = [status |-> "pending", method |-> q.method]
      OBVIOUS
    <3>2. o \in [status : OrderStatus, method : Method] /\ o # NoOrder
      BY <1>1, <3>1, NoOrderIsApart DEF OrderStatus
    <3>3. order' = [order EXCEPT ![q.key] = o]
      BY <2>1, <3>1
    <3>4. order'[q.key] = o /\ \A j \in Key : j # q.key => order'[j] = order[j]
      BY <1>1, <3>3 DEF OrdersTyped
    <3>5. order' \in [Key -> Orders]
      BY <3>2, <3>3 DEF OrdersTyped, Orders
    <3>6. order[q.key].status \notin EndSet
      BY <2>1 DEF NoOrder, EndSet
    <3> QED  BY <3>2, <3>4, <3>5, <3>6, <1>1 DEF OrdersAdvance
  <2>2. CASE UNCHANGED order /\ (r = "ok" => order[q.key] # NoOrder)
    BY <1>2, <2>2
  <2> QED  BY <1>4, <2>1, <2>2 DEF PlaceOrder
<1>5. CASE q.kind = "pay" /\ OpenPayment(q.key, r)
  <2>1. CASE UNCHANGED order
    BY <1>2, <1>5, <2>1
  <2>2. CASE /\ order[q.key].status \in {"pending", "checking"}
             /\ order' = [order EXCEPT ![q.key].status = "checking"]
    <3>1. order[q.key] # NoOrder /\ order[q.key].status \notin EndSet
      BY <2>2 DEF NoOrder, EndSet
    <3> QED  BY <1>1, <1>5, <2>2, <3>1, MovingAdvances DEF OrderStatus
  <2> QED  BY <1>5, <2>1, <2>2 DEF OpenPayment
<1> QED  BY <1>3, <1>4, <1>5 DEF Handle

LEMMA LapsingAdvances ==
  ASSUME OrdersTyped, NEW k \in Key, HoldLapses(k)
  PROVE  OrdersAdvance
<1>1. CASE UNCHANGED order
  BY <1>1 DEF OrdersAdvance, OrdersTyped
<1>2. CASE order[k].status \in {"pending", "checking"}
  <2>1. order' = [order EXCEPT ![k].status = "expired"]
    BY <1>2 DEF HoldLapses
  <2>2. order[k] # NoOrder /\ order[k].status \notin EndSet
    BY <1>2 DEF NoOrder, EndSet
  <2> QED  BY <2>1, <2>2, MovingAdvances DEF OrderStatus
<1> QED  BY <1>1, <1>2 DEF HoldLapses

LEMMA MovesAdvance ==
  ASSUME OrdersTyped, NEW k \in Key, OrderMoves(k)
  PROVE  OrdersAdvance
<1>1. PICK to \in OrderStatus \ {"expired"} :
        /\ \/ order[k].status \in {"pending", "checking"}
           \/ order[k].status = "expired" /\ to \in {"refund", "failed"}
        /\ order' = [order EXCEPT ![k].status = to]
  BY Zenon DEF OrderMoves
<1>2. order[k] # NoOrder /\ (order[k].status \in EndSet => to \in EndSet)
  BY <1>1 DEF NoOrder, EndSet
<1> QED  BY <1>1, <1>2, MovingAdvances

\* What other steps make of the orders disturbs neither the form nor the page.
LEMMA AdvancingKeepsWeb ==
  ASSUME WebInv, OrdersAdvance, UNCHANGED <<browserVars, orderPageVars>>,
         late' \in SUBSET late
  PROVE  WebInv'
<1>1. BrowserTyped'
  BY DEF WebInv, BrowserTyped, browserVars
<1>2. Made' = Made /\ Made \subseteq Key
  <2>1. madeFor \in Seq(Form) /\ Len(madeFor) <= MaxIntents /\ madeFor' = madeFor
    BY DEF WebInv, BrowserTyped, browserVars
  <2> QED  BY <2>1, WebAssumption DEF Made, Key
<1>3. IntentsFit'
  BY <1>2 DEF WebInv, IntentsFit, browserVars, OrdersAdvance
<1>4. TabFits'
  BY <1>2 DEF WebInv, TabFits, browserVars, OrdersAdvance
<1>5. PageTyped'
  BY DEF WebInv, PageTyped, NoPage, browserVars, orderPageVars, OrdersAdvance, None
<1>6. PageFits'
  BY DEF WebInv, PageTyped, PageFits, NoPage, orderPageVars, OrdersAdvance, None
<1> QED  BY <1>1, <1>3, <1>4, <1>5, <1>6 DEF WebInv, OrdersTyped, OrdersAdvance

LEMMA SubmitFields ==
  ASSUME NEW t \in Submits
  PROVE  /\ t # Idle /\ Request(t) \in Requests
         /\ Request(t).kind = t.step /\ Request(t).key = t.key
<1>1. t.step \in {"reserve", "order", "pay"} /\ t.key \in Key /\ t.method \in Method
  BY DEF Submits
<1> QED  BY <1>1 DEF Submits, Request, Requests, Idle

LEMMA NextStep ==
  ASSUME NEW t \in Submits, NEW s \in {"order", "pay"}, NEW n, n = [t EXCEPT !.step = s]
  PROVE  n \in Submits /\ n.step = s /\ n.key = t.key /\ n.form = t.form
  BY DEF Submits

LEMMA SubmitKeepsWeb ==
  ASSUME WebInv, NEW f \in Form, NEW m \in Method, Submit(f, m)
  PROVE  WebInv'
<1>1. tab = Idle /\ page = NoPage /\ UNCHANGED <<late, order, page, loads>>
  BY DEF Submit, serverVars, orderPageVars
<1>2. /\ tab' = [step |-> "reserve", form |-> f, method |-> m, key |-> intent'[f]]
      /\ tab'.step = "reserve" /\ tab'.form = f /\ tab'.key = intent'[f]
  BY DEF Submit
<1>3. /\ madeFor' \in Seq(Form) /\ Len(madeFor') <= MaxIntents /\ Len(madeFor) <= Len(madeFor')
      /\ intent' \in [Form -> 0..Len(madeFor')]
      /\ intent'[f] \in 1..Len(madeFor') /\ madeFor'[intent'[f]] = f
      /\ \A g \in Form \ {f} : intent'[g] = intent[g]
      /\ \A k \in Made : madeFor'[k] = madeFor[k]
      /\ \A k \in Made' : k \in Made \/ (k = intent'[f] /\ madeFor'[k] = f)
      /\ intent[f] # None => intent'[f] = intent[f]
  <2>1. CASE intent[f] # None
    BY <2>1 DEF Submit, Stored, WebInv, BrowserTyped, IntentsFit, Made, None
  <2>2. CASE intent[f] = None
    <3>1. /\ Len(madeFor) < MaxIntents /\ madeFor' = Append(madeFor, f)
          /\ intent' = [intent EXCEPT ![f] = Len(madeFor')]
      BY <2>2 DEF Submit, Stored
    <3>2. /\ madeFor \in Seq(Form) /\ intent \in [Form -> 0..Len(madeFor)]
      BY DEF WebInv, BrowserTyped
    <3>3. /\ madeFor' \in Seq(Form) /\ Len(madeFor') = Len(madeFor) + 1 /\ Len(madeFor) \in Nat
          /\ madeFor'[Len(madeFor) + 1] = f
          /\ \A k \in 1..Len(madeFor) : madeFor'[k] = madeFor[k]
      BY <3>1, <3>2
    <3>4. intent' \in [Form -> 0..Len(madeFor')] /\ intent'[f] = Len(madeFor) + 1
          /\ \A g \in Form \ {f} : intent'[g] = intent[g]
      BY <3>1, <3>2, <3>3
    <3> QED  BY <2>2, <3>1, <3>3, <3>4, WebAssumption DEF Made
  <2> QED  BY <2>1, <2>2
<1>4. Made' \subseteq Key /\ intent'[f] \in Key /\ intent'[f] \in Made'
  BY <1>3, WebAssumption DEF Made, Key
<1>5. tab' \in Submits
  BY <1>2, <1>4 DEF Submits
<1>6. BrowserTyped'
  BY <1>1, <1>3, <1>5 DEF WebInv, BrowserTyped
<1>7. IntentsFit'
  <2>1. ASSUME NEW g \in Form, intent'[g] # None
        PROVE  madeFor'[intent'[g]] = g
    <3>1. CASE g = f
      BY <1>3, <3>1
    <3>2. CASE g # f
      <4>1. intent[g] \in Made /\ madeFor[intent[g]] = g
        BY <1>3, <2>1, <3>2 DEF WebInv, BrowserTyped, IntentsFit, Made, None
      <4> QED  BY <1>3, <3>2, <4>1
    <3> QED  BY <3>1, <3>2
  <2>2. ASSUME NEW k \in Made', order'[k] = NoOrder
        PROVE  intent'[madeFor'[k]] = k
    <3>1. CASE k \in Made
      <4>1. intent[madeFor[k]] = k /\ madeFor[k] \in Form /\ k # None
        BY <1>1, <2>2, <3>1 DEF WebInv, BrowserTyped, IntentsFit, Made, None
      <4> QED  BY <1>3, <3>1, <4>1
    <3>2. CASE k \notin Made
      BY <1>3, <3>2
    <3> QED  BY <3>1, <3>2
  <2> QED  BY <2>1, <2>2 DEF IntentsFit
<1>8. TabFits'
  BY <1>2, <1>3, <1>4 DEF TabFits
<1>9. page.of = None /\ NoPage.of = None
  BY <1>1 DEF NoPage
<1>10. PageTyped'
  BY <1>1, <1>2, <1>9 DEF WebInv, PageTyped
<1>11. PageFits'
  BY <1>1, <1>9 DEF PageFits
<1> QED  BY <1>1, <1>6, <1>7, <1>8, <1>10, <1>11 DEF WebInv, OrdersTyped
\* What a step of submit() does to its form's intent.
LEMMA TabGoesOn ==
  ASSUME WebInv, tab # Idle, OrdersAdvance, madeFor' = madeFor, page' = page, loads' = loads,
         late' \in SUBSET Requests,
         NEW t \in Submits, tab' = t, t.key = tab.key, t.form = tab.form,
         \/ intent' = intent /\ tab.step = "reserve" /\ t.step = "order"
         \/ /\ intent' = [intent EXCEPT ![tab.form] = None] /\ order'[tab.key] # NoOrder
            /\ tab.step = "order" /\ t.step = "pay"
  PROVE  WebInv'
<1>1. tab \in Submits /\ tab.form \in Form /\ tab.key \in Made /\ madeFor[tab.key] = tab.form
  BY DEF WebInv, BrowserTyped, TabFits, Submits
<1>2. /\ tab' \in Submits /\ tab'.key = tab.key /\ tab'.form = tab.form
      /\ tab.step = "reserve" => tab'.step = "order" /\ intent' = intent
      /\ tab.step = "order" =>
           /\ tab'.step = "pay" /\ intent' = [intent EXCEPT ![tab.form] = None]
           /\ order'[tab.key] # NoOrder
      /\ tab.step \in {"reserve", "order"}
  BY <1>1
<1>3. madeFor' = madeFor /\ Made' = Made /\ Made \subseteq Key /\ 0 \in 0..Len(madeFor)
  <2>1. madeFor \in Seq(Form) /\ Len(madeFor) <= MaxIntents /\ madeFor' = madeFor
    BY DEF WebInv, BrowserTyped
  <2> QED  BY <2>1, WebAssumption DEF Made, Key
<1>4. intent \in [Form -> 0..Len(madeFor)] /\ intent' \in [Form -> 0..Len(madeFor)]
  BY <1>1, <1>2, <1>3 DEF WebInv, BrowserTyped, None
<1>5. \A f \in Form : intent'[f] = intent[f] \/ (f = tab.form /\ intent'[f] = None /\ tab.step = "order")
  BY <1>1, <1>2, <1>4
<1>6. BrowserTyped'
  BY <1>2, <1>3, <1>4 DEF WebInv, BrowserTyped
<1>7. IntentsFit'
  <2>1. ASSUME NEW k \in Made, order'[k] = NoOrder
        PROVE  intent'[madeFor[k]] = k
    <3>1. order[k] = NoOrder /\ intent[madeFor[k]] = k
      BY <1>3, <2>1 DEF OrdersAdvance, WebInv, IntentsFit
    <3>2. madeFor[k] \in Form
      BY <2>1 DEF WebInv, BrowserTyped, Made
    <3>3. CASE madeFor[k] = tab.form
      <4>1. CASE tab.step = "reserve"
        BY <1>2, <3>1, <4>1
      <4>2. CASE tab.step = "order"
        <5>1. intent[tab.form] = tab.key
          BY <4>2 DEF WebInv, TabFits
        <5> QED  BY <1>2, <2>1, <3>1, <3>3, <4>2, <5>1
      <4> QED  BY <1>2, <4>1, <4>2
    <3>4. CASE madeFor[k] # tab.form
      BY <1>5, <3>1, <3>2, <3>4
    <3> QED  BY <3>3, <3>4
  <2>2. \A f \in Form : intent'[f] # None => madeFor[intent'[f]] = f
    BY <1>5 DEF WebInv, IntentsFit
  <2> QED  BY <1>3, <2>1, <2>2 DEF IntentsFit
<1>8. TabFits'
  <2>1. tab.step = "reserve" => intent[tab.form] = tab.key
    BY DEF WebInv, TabFits
  <2> QED  BY <1>1, <1>2, <1>3, <2>1 DEF TabFits
<1>9. page.of = None /\ page' = page /\ loads' = loads
  BY DEF WebInv, PageTyped, orderPageVars
<1>10. PageTyped'
  BY <1>9 DEF WebInv, PageTyped
<1>11. PageFits'
  BY <1>9 DEF PageFits
<1> QED  BY <1>6, <1>7, <1>8, <1>10, <1>11 DEF WebInv, OrdersTyped, OrdersAdvance

\* The form is shown again, or the page of its order.
LEMMA TabEnds ==
  ASSUME WebInv, tab # Idle, OrdersAdvance, intent' = intent, madeFor' = madeFor,
         late' \in SUBSET Requests, tab' = Idle,
         IF tab.step = "pay" THEN OpenPage(tab.key) ELSE page' = page /\ loads' = loads
  PROVE  WebInv'
<1>1. madeFor' = madeFor /\ Made' = Made /\ Made \subseteq Key
  <2>1. madeFor \in Seq(Form) /\ Len(madeFor) <= MaxIntents /\ madeFor' = madeFor
    BY DEF WebInv, BrowserTyped
  <2> QED  BY <2>1, WebAssumption DEF Made, Key
<1>2. BrowserTyped'
  BY DEF WebInv, BrowserTyped
<1>3. IntentsFit'
  BY <1>1 DEF WebInv, IntentsFit, OrdersAdvance
<1>4. TabFits'
  BY DEF TabFits
<1>5. PageTyped' /\ PageFits'
  <2>1. CASE tab.step = "pay"
    <3>1. tab.key \in Key /\ order'[tab.key] # NoOrder
      BY <1>1, <2>1 DEF WebInv, TabFits, OrdersAdvance
    <3>2. page' = [of |-> tab.key, shown |-> "loading", loading |-> TRUE] /\ loads' = {}
      BY <2>1 DEF OpenPage
    <3>3. page'.of = tab.key /\ page'.shown = "loading"
      BY <3>2
    <3>4. page' \in Pages /\ page'.of # None
      BY <3>1, <3>2, <3>3 DEF Pages, Key, None
    <3>6. PageTyped'
      BY <3>1, <3>3, <3>4 DEF PageTyped
    <3>5. PageFits'
      BY <3>1, <3>2, <3>3 DEF PageFits, PollMode, EndSet
    <3> QED  BY <3>5, <3>6
  <2>2. CASE tab.step # "pay"
    <3>1. page.of = None /\ page' = page /\ loads' = loads
      BY <2>2 DEF WebInv, PageTyped, orderPageVars
    <3> QED  BY <3>1 DEF WebInv, PageTyped, PageFits
  <2> QED  BY <2>1, <2>2
<1> QED  BY <1>2, <1>3, <1>4, <1>5 DEF WebInv, OrdersTyped, OrdersAdvance

\* What the tab asks the backend.
LEMMA TabAsks ==
  ASSUME WebInv, tab # Idle
  PROVE  /\ tab \in Submits /\ Request(tab) \in Requests /\ tab.step \in {"reserve", "order", "pay"}
         /\ Request(tab).kind = tab.step /\ Request(tab).key = tab.key
<1>1. tab \in Submits
  BY DEF WebInv, BrowserTyped
<1>2. tab.step \in {"reserve", "order", "pay"}
  BY <1>1 DEF Submits
<1> QED  BY <1>1, <1>2, SubmitFields

LEMMA AnsweredKeepsWeb ==
  ASSUME WebInv, Answered
  PROVE  WebInv'
<1>1. tab # Idle /\ Handle(Request(tab), "ok") /\ madeFor' = madeFor /\ late' = late
  BY DEF Answered
<1>2. /\ OrdersAdvance
      /\ tab.step = "order" => order'[tab.key] # NoOrder
  <2>1. PICK q \in Requests : q = Request(tab) /\ Handle(q, "ok") /\ q.kind = tab.step /\ q.key = tab.key
    BY <1>1, TabAsks
  <2>2. OrdersTyped
    BY DEF WebInv
  <2> QED  BY <2>1, <2>2, HandlingAdvances
<1>3. late' \in SUBSET Requests
  BY <1>1 DEF WebInv, BrowserTyped
<1>4. CASE tab.step = "pay"
  <2>1. intent' = intent /\ tab' = Idle /\ OpenPage(tab.key)
    BY <1>4 DEF Answered, Clears
  <2> QED  BY <1>1, <1>2, <1>3, <1>4, <2>1, TabEnds
<1>5. CASE tab.step = "order"
  <2>1. /\ intent' = [intent EXCEPT ![tab.form] = None] /\ page' = page /\ loads' = loads
        /\ tab' = [tab EXCEPT !.step = "pay"]
    BY <1>5 DEF Answered, Clears, orderPageVars
  <2>2. PICK t : t = [tab EXCEPT !.step = "pay"]
    OBVIOUS
  <2>3. tab' = t /\ t \in Submits /\ t.step = "pay" /\ t.key = tab.key /\ t.form = tab.form
    BY <1>1, <2>1, <2>2, TabAsks, NextStep
  <2> QED  BY <1>1, <1>2, <1>3, <1>5, <2>1, <2>3, TabGoesOn
<1>6. CASE tab.step = "reserve"
  <2>1. /\ intent' = intent /\ page' = page /\ loads' = loads
        /\ tab' = [tab EXCEPT !.step = "order"]
    BY <1>6 DEF Answered, Clears, orderPageVars
  <2>2. PICK t : t = [tab EXCEPT !.step = "order"]
    OBVIOUS
  <2>3. tab' = t /\ t \in Submits /\ t.step = "order" /\ t.key = tab.key /\ t.form = tab.form
    BY <1>1, <2>1, <2>2, TabAsks, NextStep
  <2> QED  BY <1>1, <1>2, <1>3, <1>6, <2>1, <2>3, TabGoesOn
<1> QED  BY <1>1, <1>4, <1>5, <1>6, TabAsks

LEMMA ErrorsKeepWeb ==
  ASSUME WebInv, Refused \/ AnswerLost
  PROVE  WebInv'
<1>1. tab # Idle /\ \E r : Failed(r)
  BY DEF Refused, AnswerLost
<1>2. /\ intent' = intent /\ madeFor' = madeFor /\ tab' = Idle
      /\ IF tab.step = "pay" THEN OpenPage(tab.key) ELSE page' = page /\ loads' = loads
  BY <1>1 DEF Failed, orderPageVars
<1>3. PICK q \in Requests : q = Request(tab)
  BY <1>1, TabAsks
<1>4. /\ \/ UNCHANGED order
         \/ \E r : Handle(q, r)
      /\ late' \in {late, late \cup {q}}
  BY <1>3 DEF Refused, AnswerLost, serverVars
<1>5. late' \in SUBSET Requests
  BY <1>4 DEF WebInv, BrowserTyped
<1>6. OrdersAdvance
  <2>1. CASE UNCHANGED order
    BY <2>1 DEF WebInv, OrdersTyped, OrdersAdvance
  <2>2. CASE \E r : Handle(q, r)
    BY <2>2, HandlingAdvances DEF WebInv
  <2> QED  BY <1>4, <2>1, <2>2
<1>7. CASE tab.step = "pay"
  BY <1>1, <1>2, <1>5, <1>6, <1>7, TabEnds
<1>8. CASE tab.step # "pay"
  BY <1>1, <1>2, <1>5, <1>6, <1>8, TabEnds
<1> QED  BY <1>7, <1>8

\* What the page shows after it loads, or after an answer.
LEMMA PageFields ==
  ASSUME WebInv
  PROVE  /\ PageLoads => page' \in Pages /\ page'.of = page.of /\ page'.shown = page.shown
         /\ \A r \in loads : PageShows(r) =>
              page' \in Pages /\ page'.of = page.of /\ page'.shown = r
<1>1. page \in Pages /\ loads \subseteq OrderStatus
  BY DEF WebInv, PageTyped, PageFits
<1>2. ASSUME PageLoads
      PROVE  page' \in Pages /\ page'.of = page.of /\ page'.shown = page.shown
  <2>1. page' = [page EXCEPT !.loading = FALSE]
    BY <1>2 DEF PageLoads
  <2> QED  BY <1>1, <2>1 DEF Pages
<1>3. ASSUME NEW r \in loads, PageShows(r)
      PROVE  page' \in Pages /\ page'.of = page.of /\ page'.shown = r
  <2>1. PICK l \in BOOLEAN : l = (page.loading \/ PollMode(r) # PollMode(page.shown))
    BY <1>1 DEF Pages
  <2>2. page' = [page EXCEPT !.shown = r, !.loading = l]
    BY <1>3, <2>1 DEF PageShows
  <2> QED  BY <1>1, <2>2 DEF Pages
<1> QED  BY <1>2, <1>3

LEMMA PageKeepsWeb ==
  ASSUME WebInv, PageLoads \/ LeavePage \/ \E r \in loads : PageShows(r)
  PROVE  WebInv'
<1>1. page.of # None /\ page.of \in Key
  BY DEF WebInv, PageTyped, PageLoads, LeavePage, PageShows
<1>2. UNCHANGED <<browserVars, late, order>> /\ tab = Idle /\ order[page.of] # NoOrder
  BY <1>1 DEF WebInv, PageTyped, PageLoads, LeavePage, PageShows, serverVars
<1>3. OrdersTyped' /\ BrowserTyped' /\ IntentsFit' /\ TabFits'
  BY <1>2 DEF WebInv, OrdersTyped, BrowserTyped, IntentsFit, TabFits, Made, browserVars
<1>4. order[page.of] \in [status : OrderStatus, method : Method] /\ order[page.of].status \in OrderStatus
  BY <1>1, <1>2, NoOrderIsApart DEF WebInv, OrdersTyped, Orders
<1>5. PageTyped' /\ PageFits'
  <2>1. CASE LeavePage
    <3>1. page' = NoPage /\ page'.of = None /\ loads' = {}
      BY <2>1 DEF LeavePage, NoPage
    <3>2. NoPage \in Pages
      BY DEF NoPage, Pages, None
    <3> QED  BY <3>1, <3>2 DEF PageTyped, PageFits
  <2>2. CASE PageLoads
    <3>1. page' \in Pages /\ page'.of = page.of /\ page'.shown = page.shown
      BY <2>2, PageFields
    <3>2. loads' = loads \/ loads' = loads \cup {order[page.of].status}
      BY <2>2 DEF PageLoads
    <3>3. PageTyped'
      BY <1>1, <1>2, <3>1 DEF PageTyped, browserVars
    <3>4. PollMode(page.shown) = "stopped" => order[page.of].status \in EndSet
      BY <1>1 DEF WebInv, PageFits
    <3>5. /\ \A r \in loads \cup {page.shown} : r \in EndSet => order[page.of].status \in EndSet
          /\ PollMode(page.shown) = "stopped" => page.shown \in EndSet /\ loads \subseteq EndSet
          /\ loads \subseteq OrderStatus
      BY <1>1 DEF WebInv, PageFits
    <3>6. PICK st : st = order[page.of].status
      OBVIOUS
    <3>7. loads' \subseteq loads \cup {st} /\ order'[page'.of].status = st
      BY <1>2, <3>1, <3>2, <3>6
    <3>8. /\ \A r \in loads' \cup {page'.shown} : r \in EndSet => order'[page'.of].status \in EndSet
          /\ PollMode(page'.shown) = "stopped" => page'.shown \in EndSet /\ loads' \subseteq EndSet
          /\ loads' \subseteq OrderStatus
      BY <1>4, <3>1, <3>4, <3>5, <3>6, <3>7
    <3>9. PageFits'
      BY <3>8, Zenon DEF PageFits
    <3> QED  BY <3>3, <3>9
  <2>3. ASSUME NEW r \in loads, PageShows(r)
        PROVE  PageTyped' /\ PageFits'
    <3>1. page' \in Pages /\ page'.of = page.of /\ page'.shown = r
      BY <2>3, PageFields
    <3>2. loads' \subseteq loads /\ (PollMode(r) # PollMode(page.shown) => loads' = {})
      BY <2>3 DEF PageShows, StillActive
    <3>3. PageTyped'
      BY <1>1, <1>2, <3>1 DEF PageTyped, browserVars
    <3>4. r \in OrderStatus /\ (r \in EndSet => order[page.of].status \in EndSet)
      BY <1>1, <2>3 DEF WebInv, PageFits
    <3>5. PollMode(r) = "stopped" => r \in EndSet
      BY <3>4 DEF PollMode, OrderStatus, EndSet
    <3>6. PageFits'
      BY <1>1, <1>2, <3>1, <3>2, <3>4, <3>5 DEF WebInv, PageFits
    <3> QED  BY <3>3, <3>6
  <2> QED  BY <2>1, <2>2, <2>3
<1> QED  BY <1>3, <1>5 DEF WebInv

LEMMA WebIsKept == WebInv /\ [WebNext]_webVars => WebInv'
<1> SUFFICES ASSUME WebInv, [WebNext]_webVars PROVE WebInv'
  OBVIOUS
<1>1. CASE UNCHANGED webVars
  BY <1>1 DEF WebInv, OrdersTyped, BrowserTyped, IntentsFit, TabFits, PageTyped, PageFits, Made,
    webVars, browserVars, serverVars, orderPageVars
<1>2. CASE \E f \in Form, m \in Method : Submit(f, m)
  BY <1>2, SubmitKeepsWeb
<1>3. CASE Answered \/ Refused \/ AnswerLost
  BY <1>3, AnsweredKeepsWeb, ErrorsKeepWeb
<1>4. CASE Unlock
  <2>1. UNCHANGED <<intent, madeFor, tab, late, order, page, loads>>
    BY <1>4 DEF Unlock, serverVars, orderPageVars
  <2> QED  BY <2>1 DEF WebInv, OrdersTyped, BrowserTyped, IntentsFit, TabFits, PageTyped, PageFits, Made
<1>5. ASSUME NEW q \in late, ArrivesLate(q)
      PROVE  WebInv'
  <2>1. q \in Requests /\ OrdersTyped
    BY DEF WebInv, BrowserTyped
  <2>2. OrdersAdvance
    BY <1>5, <2>1, HandlingAdvances DEF ArrivesLate
  <2>3. late' \in SUBSET late /\ UNCHANGED <<browserVars, orderPageVars>>
    BY <1>5 DEF ArrivesLate
  <2> QED  BY <2>2, <2>3, AdvancingKeepsWeb
<1>6. ASSUME NEW k \in Key, HoldLapses(k) \/ OrderMoves(k)
      PROVE  WebInv'
  <2>1. OrdersAdvance
    BY <1>6, LapsingAdvances, MovesAdvance DEF WebInv
  <2>2. late' \in SUBSET late /\ UNCHANGED <<browserVars, orderPageVars>>
    BY <1>6 DEF HoldLapses, OrderMoves
  <2> QED  BY <2>1, <2>2, AdvancingKeepsWeb
<1>7. CASE PageLoads \/ LeavePage \/ \E r \in loads : PageShows(r)
  BY <1>7, PageKeepsWeb
<1> QED  BY <1>1, <1>2, <1>3, <1>4, <1>5, <1>6, <1>7 DEF WebNext

LEMMA WebInitially == WebInit => WebInv
<1> SUFFICES ASSUME WebInit PROVE WebInv
  OBVIOUS
<1>1. madeFor = <<>> /\ <<>> \in Seq(Form) /\ Len(<<>>) = 0 /\ Made = {}
  BY DEF WebInit, Made
<1>2. BrowserTyped /\ IntentsFit /\ TabFits
  BY <1>1, WebAssumption DEF WebInit, BrowserTyped, IntentsFit, TabFits, None
<1>3. OrdersTyped
  BY DEF WebInit, OrdersTyped, Orders
<1>4. page = NoPage /\ page.of = None /\ loads = {} /\ page \in Pages
  BY DEF WebInit, NoPage, Pages, None
<1> QED  BY <1>2, <1>3, <1>4 DEF WebInv, PageTyped, PageFits

\* However often a buyer submits a form, and whenever its requests arrive, the form
\* holds seats once that have not become an order, for any number of forms, intents
\* and late requests.
THEOREM FormsHoldOnce == WebSpec => []OneHoldPerForm
<1>1. ASSUME WebInv, NEW f \in Form
      PROVE  Cardinality({k \in Made : madeFor[k] = f /\ hold[k] = "active" /\ order[k] = NoOrder}) <= 1
  <2>1. PICK S : S = {k \in Made : madeFor[k] = f /\ hold[k] = "active" /\ order[k] = NoOrder}
    OBVIOUS
  <2>2. S \subseteq {intent[f]}
    BY <1>1, <2>1 DEF WebInv, IntentsFit
  <2>3. IsFiniteSet({intent[f]}) /\ Cardinality({intent[f]}) = 1
    BY FS_Singleton
  <2>4. Cardinality(S) <= Cardinality({intent[f]})
    BY <2>2, <2>3, FS_Subset
  <2> QED  BY <2>1, <2>3, <2>4
<1>2. WebInv => OneHoldPerForm
  BY <1>1 DEF OneHoldPerForm
<1> QED  BY <1>2, WebInitially, WebIsKept, PTL DEF WebSpec

\* The browser keeps the keys of an order until its page is open, and a page that
\* has shown how an order ended never shows it as pending again.
THEOREM BrowserKeeps == WebSpec => BrowserKeepsTheOrder
<1>1. ASSUME WebInv, WebInv', [WebNext]_webVars, NEW k \in Made,
             intent[madeFor[k]] = k \/ (tab # Idle /\ tab.key = k)
      PROVE  \/ intent'[madeFor'[k]] = k \/ (tab' # Idle /\ tab'.key = k)
             \/ page'.of = k
  <2>1. madeFor[k] \in Form /\ k # None
    BY <1>1 DEF WebInv, BrowserTyped, Made, None
  <2>2. CASE UNCHANGED <<intent, madeFor, tab>>
    BY <1>1, <2>2
  <2>3. ASSUME NEW f \in Form, NEW m \in Method, Submit(f, m)
        PROVE  intent'[madeFor'[k]] = k
    <3>1. tab = Idle /\ intent[madeFor[k]] = k
      BY <1>1, <2>3 DEF Submit
    <3>2. CASE intent[f] # None
      BY <2>3, <3>1, <3>2 DEF Submit, Stored
    <3>3. CASE intent[f] = None
      <4>1. madeFor' = Append(madeFor, f) /\ intent' = [intent EXCEPT ![f] = Len(madeFor')]
        BY <2>3, <3>3 DEF Submit, Stored
      <4>2. madeFor'[k] = madeFor[k]
        BY <1>1, <4>1 DEF WebInv, BrowserTyped, Made
      <4>3. f # madeFor[k]
        BY <2>1, <3>1, <3>3
      <4> QED  BY <1>1, <2>1, <3>1, <4>1, <4>2, <4>3 DEF WebInv, BrowserTyped
    <3> QED  BY <3>2, <3>3
  <2>4. CASE Answered \/ Refused \/ AnswerLost
    <3>1. /\ tab # Idle /\ madeFor' = madeFor
          /\ tab.step \in {"reserve", "order", "pay"} /\ madeFor[tab.key] = tab.form
          /\ tab.step \in {"reserve", "order"} => intent[tab.form] = tab.key
          /\ tab \in Submits /\ tab.form \in Form
      <4>1. tab # Idle /\ madeFor' = madeFor
        BY <2>4 DEF Answered, Refused, AnswerLost, Failed
      <4>2. tab \in Submits
        BY <1>1, <4>1 DEF WebInv, BrowserTyped
      <4> QED  BY <1>1, <4>1, <4>2 DEF WebInv, TabFits, Submits
    <3>2. CASE tab.step = "pay"
      <4>1. intent' = intent /\ OpenPage(tab.key)
        BY <2>4, <3>2 DEF Answered, Refused, AnswerLost, Failed, Clears
      <4>2. page'.of = tab.key
        BY <4>1 DEF OpenPage
      <4> QED  BY <1>1, <3>1, <4>1, <4>2
    <3>3. CASE tab.step = "order" /\ Answered
      <4>1. /\ intent' = [intent EXCEPT ![tab.form] = None]
            /\ tab' = [tab EXCEPT !.step = "pay"]
        BY <3>3 DEF Answered, Clears
      <4>2. tab' # Idle /\ tab'.key = tab.key
        BY <3>1, <4>1, NextStep, SubmitFields
      <4>3. CASE madeFor[k] = tab.form
        BY <1>1, <3>1, <3>3, <4>2, <4>3
      <4>4. CASE madeFor[k] # tab.form
        <5>1. tab.key # k
          BY <3>1, <4>4
        <5> QED  BY <1>1, <2>1, <3>1, <4>1, <4>4, <5>1 DEF WebInv, BrowserTyped
      <4> QED  BY <4>3, <4>4
    <3>4. CASE tab.step # "pay" /\ intent' = intent
      <4>1. tab.step \in {"reserve", "order"}
        BY <3>1, <3>4
      <4> QED  BY <1>1, <3>1, <3>4, <4>1
    <3>5. tab.step = "pay" \/ (tab.step = "order" /\ Answered) \/ intent' = intent
      BY <2>4, <3>1 DEF Answered, Refused, AnswerLost, Failed, Clears
    <3> QED  BY <3>2, <3>3, <3>4, <3>5
  <2>5. \/ UNCHANGED <<intent, madeFor, tab>> \/ \E f \in Form, m \in Method : Submit(f, m)
        \/ Answered \/ Refused \/ AnswerLost
    <3>1. ASSUME Unlock \/ PageLoads \/ LeavePage \/ \E r \in loads : PageShows(r)
          PROVE  UNCHANGED <<intent, madeFor, tab>>
      BY <3>1 DEF Unlock, PageLoads, LeavePage, PageShows, browserVars
    <3>2. ASSUME \/ \E q \in late : ArrivesLate(q)
                 \/ \E j \in Key : HoldLapses(j) \/ OrderMoves(j)
          PROVE  UNCHANGED <<intent, madeFor, tab>>
      BY <3>2 DEF ArrivesLate, HoldLapses, OrderMoves, browserVars
    <3>3. CASE UNCHANGED webVars
      BY <3>3 DEF webVars, browserVars
    <3>4. \/ UNCHANGED webVars
          \/ \E f \in Form, m \in Method : Submit(f, m)
          \/ Answered \/ Refused \/ AnswerLost
          \/ \E q \in late : ArrivesLate(q)
          \/ \E j \in Key : HoldLapses(j) \/ OrderMoves(j)
          \/ Unlock \/ PageLoads \/ LeavePage \/ \E r \in loads : PageShows(r)
      BY <1>1, Zenon DEF WebNext
    <3> QED  BY <3>1, <3>2, <3>3, <3>4
  <2> QED  BY <2>2, <2>3, <2>4, <2>5
<1>2. ASSUME WebInv, WebInv', [WebNext]_webVars, page.of = page'.of, PollMode(page.shown) = "stopped"
      PROVE  page'.shown \notin {"pending", "checking"}
  <2>1. page.of # None /\ tab = Idle /\ page.shown \in EndSet /\ loads \subseteq EndSet
    <3>1. page # NoPage
      BY <1>2 DEF NoPage, PollMode
    <3> QED  BY <1>2, <3>1 DEF WebInv, PageTyped, PageFits
  <2>2. page'.shown = page.shown \/ page'.shown \in loads
    <3>1. CASE PageLoads
      BY <1>2, <3>1, PageFields
    <3>2. ASSUME NEW r \in loads, PageShows(r)
          PROVE  page'.shown = r
      BY <1>2, <3>2, PageFields
    <3>3. CASE LeavePage
      BY <1>2, <2>1, <3>3 DEF LeavePage, NoPage
    <3>4. page' = page \/ PageLoads \/ LeavePage \/ \E r \in loads : PageShows(r)
      BY <1>2, <2>1 DEF WebNext, webVars, orderPageVars, Submit, Answered, Refused, AnswerLost,
        ArrivesLate, HoldLapses, OrderMoves, Unlock
    <3> QED  BY <3>1, <3>2, <3>3, <3>4
  <2> QED  BY <2>1, <2>2 DEF EndSet
<1>3. WebInv /\ WebInv' /\ [WebNext]_webVars =>
        [\A k \in Made :
           LET Held == intent[madeFor[k]] = k \/ (tab # Idle /\ tab.key = k)
           IN
               Held => \/ Held' \/ page'.of = k
                       \/ order'[k] = NoOrder /\ hold'[k] # "active"]_webVars
  BY <1>1
<1>4. WebInv /\ WebInv' /\ [WebNext]_webVars =>
        [page.of = page'.of /\ PollMode(page.shown) = "stopped"
           => page'.shown \notin {"pending", "checking"}]_webVars
  BY <1>2
<1> QED
  BY <1>3, <1>4, WebInitially, WebIsKept, PTL
  DEF WebSpec, BrowserKeepsTheOrder, NoOrderIsLost, PageKeepsTheEnd

-----------------------------------------------------------------------------
(* The panels of the admin site                                            *)

PanelStep == {"idle", "operate", "operated", "read", "told", "failed"}
ButtonState == [step : PanelStep, did : Nat, read : Nat, behind : BOOLEAN, hidden : BOOLEAN]

\* What has been read holds what the own operation has left and, unless another
\* button has told its result since, what every result told holds.
PanelInv ==
  /\ server \in Nat /\ shown \in Nat
  /\ busy \in [Button -> ButtonState]
  /\ \A b \in Button :
       /\ busy[b].did <= server
       /\ busy[b].step = "read" => busy[b].did <= busy[b].read
  /\ \A b, x \in Button :
       busy[b].step = "read" /\ ~busy[b].behind /\ busy[x].step = "told"
         => busy[x].did <= busy[b].read
  /\ PanelShowsTheResult

LEMMA RestFits ==
  \A s \in PanelStep :
    /\ [AtRest EXCEPT !.step = s] \in ButtonState
    /\ [AtRest EXCEPT !.step = s].step = s /\ [AtRest EXCEPT !.step = s].did = 0
  BY DEF AtRest, ButtonState, PanelStep

\* One button moves, and shows nothing.
LEMMA QuietKeepsPanel ==
  ASSUME PanelInv, NEW b \in Button, NEW r \in ButtonState, busy' = [busy EXCEPT ![b] = r],
         shown' = shown, server' \in {server, server + 1},
         r.step # "told", r.did <= server', r.step = "read" => r.did <= r.read /\ r.read = server'
  PROVE  PanelInv'
<1>1. /\ server \in Nat /\ shown \in Nat /\ server' \in Nat /\ server <= server'
      /\ busy \in [Button -> ButtonState] /\ busy' \in [Button -> ButtonState]
      /\ busy'[b] = r /\ \A x \in Button : x # b => busy'[x] = busy[x]
  BY DEF PanelInv
<1>2. \A x \in Button : busy[x].did \in Nat /\ busy[x].read \in Nat /\ busy[x].did <= server
  BY DEF PanelInv, ButtonState
<1>3. r.did \in Nat /\ r.read \in Nat
  BY DEF ButtonState
<1>4. ASSUME NEW x \in Button
      PROVE  /\ busy'[x].did <= server'
             /\ busy'[x].step = "read" => busy'[x].did <= busy'[x].read
             /\ busy'[x].step = "told" /\ ~busy'[x].hidden => shown' >= busy'[x].did
  <2>1. CASE x = b
    BY <1>1, <2>1
  <2>2. CASE x # b
    <3>1. busy'[x] = busy[x]
      BY <1>1, <2>2
    <3>2. busy[x].did <= server'
      BY <1>1, <1>2
    <3> QED  BY <3>1, <3>2 DEF PanelInv, PanelShowsTheResult
  <2> QED  BY <2>1, <2>2
<1>5. ASSUME NEW x \in Button, NEW y \in Button,
             busy'[x].step = "read", ~busy'[x].behind, busy'[y].step = "told"
      PROVE  busy'[y].did <= busy'[x].read
  <2>1. y # b /\ busy'[y] = busy[y]
    BY <1>1, <1>5
  <2>2. CASE x = b
    BY <1>1, <1>2, <1>5, <2>1, <2>2
  <2>3. CASE x # b
    <3>1. busy'[x] = busy[x]
      BY <1>1, <2>3
    <3> QED  BY <1>5, <2>1, <3>1 DEF PanelInv
  <2> QED  BY <2>2, <2>3
<1> QED  BY <1>1, <1>4, <1>5 DEF PanelInv, PanelShowsTheResult

\* A button shows what it has read.
LEMMA ShowKeepsPanel ==
  ASSUME PanelInv, NEW b \in Button, Show(b)
  PROVE  PanelInv'
<1>1. /\ server \in Nat /\ shown \in Nat /\ server' = server
      /\ busy \in [Button -> ButtonState] /\ busy[b].step = "read" /\ shown' = busy[b].read
  BY DEF PanelInv, Show
<1>2. \A x \in Button : /\ busy[x] \in ButtonState /\ busy[x].did \in Nat /\ busy[x].read \in Nat
                        /\ busy[x].behind \in BOOLEAN /\ busy[x].hidden \in BOOLEAN
  BY <1>1 DEF ButtonState
<1>3. /\ busy' \in [Button -> ButtonState]
      /\ \A x \in Button :
           /\ busy'[x].did = busy[x].did /\ busy'[x].read = busy[x].read
           /\ x = b => busy'[x].step = "told"
           /\ x # b => busy'[x].step = busy[x].step
           /\ x # b /\ busy[x].step = "read" => busy'[x].behind = TRUE
           /\ x # b /\ busy[x].step = "told" => busy'[x].hidden = (busy[x].hidden \/ busy[b].behind)
  <2>1. PICK new : new = [x \in Button |->
                CASE x = b -> [busy[b] EXCEPT !.step = "told"]
                  [] x # b /\ busy[x].step = "read" -> [busy[x] EXCEPT !.behind = TRUE]
                  [] x # b /\ busy[x].step = "told" -> [busy[x] EXCEPT !.hidden = @ \/ busy[b].behind]
                  [] OTHER -> busy[x]]
    OBVIOUS
  <2>2. busy' = new
    BY <2>1 DEF Show
  <2>3. ASSUME NEW x \in Button
        PROVE  /\ new[x] \in ButtonState
               /\ new[x].did = busy[x].did /\ new[x].read = busy[x].read
               /\ x = b => new[x].step = "told"
               /\ x # b => new[x].step = busy[x].step
               /\ x # b /\ busy[x].step = "read" => new[x].behind = TRUE
               /\ x # b /\ busy[x].step = "told" => new[x].hidden = (busy[x].hidden \/ busy[b].behind)
    <3>1. CASE x = b
      <4>1. new[x] = [busy[b] EXCEPT !.step = "told"]
        BY <2>1, <3>1
      <4> QED  BY <1>2, <3>1, <4>1 DEF ButtonState, PanelStep
    <3>2. CASE x # b /\ busy[x].step = "read"
      <4>1. new[x] = [busy[x] EXCEPT !.behind = TRUE]
        BY <2>1, <3>2
      <4> QED  BY <1>2, <3>2, <4>1 DEF ButtonState
    <3>3. CASE x # b /\ busy[x].step = "told"
      <4>1. PICK h \in BOOLEAN : h = (busy[x].hidden \/ busy[b].behind)
        BY <1>2
      <4>2. new[x] = [busy[x] EXCEPT !.hidden = h]
        BY <2>1, <3>3, <4>1
      <4> QED  BY <1>2, <3>3, <4>1, <4>2 DEF ButtonState
    <3>4. CASE x # b /\ busy[x].step \notin {"read", "told"}
      <4>1. new[x] = busy[x]
        BY <2>1, <3>4
      <4> QED  BY <1>2, <3>4, <4>1
    <3> QED  BY <3>1, <3>2, <3>3, <3>4
  <2>4. new \in [Button -> ButtonState]
    BY <2>1, <2>3
  <2> QED  BY <2>2, <2>3, <2>4
<1>4. busy[b].did <= busy[b].read /\ \A x \in Button : busy[x].did <= server
  BY <1>1 DEF PanelInv
<1>5. ASSUME NEW x \in Button
      PROVE  /\ busy'[x].did <= server'
             /\ busy'[x].step = "read" => busy'[x].did <= busy'[x].read
             /\ busy'[x].step = "told" /\ ~busy'[x].hidden => shown' >= busy'[x].did
  <2>1. CASE x = b
    BY <1>1, <1>2, <1>3, <1>4, <2>1
  <2>2. CASE x # b
    <3>1. busy[x].step = "read" => busy[x].did <= busy[x].read
      BY DEF PanelInv
    <3>2. busy[x].step = "told" /\ ~busy[b].behind => busy[x].did <= busy[b].read
      BY <1>1 DEF PanelInv
    <3>3. busy'[x].step = "told" /\ ~busy'[x].hidden => ~busy[b].behind
      BY <1>3, <2>2
    <3> QED  BY <1>1, <1>2, <1>3, <1>4, <2>2, <3>1, <3>2, <3>3
  <2> QED  BY <2>1, <2>2
<1>6. ASSUME NEW x \in Button, NEW y \in Button,
             busy'[x].step = "read", ~busy'[x].behind, busy'[y].step = "told"
      PROVE  FALSE
  BY <1>3, <1>6
<1> QED  BY <1>1, <1>2, <1>3, <1>5, <1>6 DEF PanelInv, PanelShowsTheResult

LEMMA PanelIsKept ==
  ASSUME PanelInv, [ConsoleNext]_consoleVars
  PROVE  PanelInv'
<1>1. CASE UNCHANGED panelVars
  BY <1>1 DEF PanelInv, PanelShowsTheResult, panelVars
<1>2. server \in Nat /\ busy \in [Button -> ButtonState] /\ \A b \in Button : busy[b].did \in Nat
  BY DEF PanelInv, ButtonState
<1>3. ASSUME NEW b \in Button, Press(b)
      PROVE  PanelInv'
  <2>1. PICK r : r = [AtRest EXCEPT !.step = "operate"]
    OBVIOUS
  <2>2. r \in ButtonState /\ r.step = "operate" /\ r.did = 0
    BY <2>1, RestFits DEF PanelStep
  <2>3. busy' = [busy EXCEPT ![b] = r] /\ server' = server /\ shown' = shown
    BY <1>3, <2>1 DEF Press, Do
  <2>4. r.did <= server' /\ r.step # "told" /\ r.step # "read"
    BY <1>2, <2>2, <2>3
  <2> QED  BY <2>2, <2>3, <2>4, QuietKeepsPanel
<1>4. ASSUME NEW b \in Button, Operate(b)
      PROVE  PanelInv'
  <2>1. server' \in {server, server + 1} /\ shown' = shown
    BY <1>4 DEF Operate
  <2>2. PICK n \in Nat : n = server'
    BY <1>2, <2>1
  <2>3. PICK r : r = [busy[b] EXCEPT !.step = "operated", !.did = n]
    OBVIOUS
  <2>4. r \in ButtonState /\ r.step = "operated" /\ r.did = n
    BY <1>2, <2>3 DEF ButtonState, PanelStep
  <2>5. busy' = [busy EXCEPT ![b] = r]
    BY <1>4, <2>2, <2>3, Zenon DEF Operate, Do
  <2>6. r.did <= server' /\ r.step # "told" /\ r.step # "read"
    BY <2>2, <2>4
  <2> QED  BY <2>1, <2>4, <2>5, <2>6, QuietKeepsPanel
<1>5. ASSUME NEW b \in Button, Refresh(b)
      PROVE  PanelInv'
  <2>1. UNCHANGED <<server, shown>>
    BY <1>5 DEF Refresh
  <2>2. PICK r : r = [busy[b] EXCEPT !.step = "read", !.read = server]
    OBVIOUS
  <2>3. r \in ButtonState /\ r.step = "read" /\ r.read = server /\ r.did = busy[b].did
    BY <1>2, <2>2 DEF ButtonState, PanelStep
  <2>4. busy' = [busy EXCEPT ![b] = r] /\ busy[b].did <= server
    BY <1>5, <2>2 DEF Refresh, Do, PanelInv
  <2>5. /\ server' = server /\ r.did <= server' /\ r.step # "told"
        /\ r.did <= r.read /\ r.read = server'
    BY <2>1, <2>3, <2>4
  <2> QED  BY <2>1, <2>3, <2>4, <2>5, QuietKeepsPanel
<1>6. ASSUME NEW b \in Button, GoesWrong(b)
      PROVE  PanelInv'
  <2>1. PICK r : r = [AtRest EXCEPT !.step = "failed"]
    OBVIOUS
  <2>2. r \in ButtonState /\ r.step = "failed" /\ r.did = 0
    BY <2>1, RestFits DEF PanelStep
  <2>3. busy' = [busy EXCEPT ![b] = r] /\ server' = server /\ shown' = shown
    BY <1>6, <2>1 DEF GoesWrong, Do
  <2>4. r.did <= server' /\ r.step # "told" /\ r.step # "read"
    BY <1>2, <2>2, <2>3
  <2> QED  BY <2>2, <2>3, <2>4, QuietKeepsPanel
<1>7. CASE Elsewhere
  <2>1. server' = server + 1 /\ UNCHANGED <<shown, busy>>
    BY <1>7 DEF Elsewhere
  <2>2. \A b \in Button : busy[b].did <= server + 1
    BY <1>2 DEF PanelInv
  <2> QED  BY <1>2, <2>1, <2>2 DEF PanelInv, PanelShowsTheResult
<1> QED
  BY <1>1, <1>3, <1>4, <1>5, <1>6, <1>7, ShowKeepsPanel
  DEF ConsoleNext, FormNext, PanelNext, consoleVars, panelVars

-----------------------------------------------------------------------------
(* The concert form of the admin site                                      *)

Concerts == [status : {"draft", "published", "canceled", "deleted"}, poster : BOOLEAN, bio : Nat]
FormStates ==
  [step : {"closed", "open", "create", "upload", "update", "saved", "failed"},
   new : BOOLEAN, at : Nat, seen : Concerts, status : {"draft", "published"},
   file : BOOLEAN, offered : Nat]

\* A form at work has its concert, and a file chosen is the concert's poster once
\* the upload is over.
FormFits(f) ==
  /\ f.step # "closed" /\ ~f.new => f.at \in Id
  /\ f.step \in {"upload", "update", "saved"} => f.at \in Id
  /\ f.step = "create" => f.new
  /\ f.step \in {"update", "saved"} /\ f.file => concerts[f.at].poster

FormInv ==
  /\ concerts \in Seq(Concerts)
  /\ form \in [Manager -> FormStates]
  /\ \A o \in Manager : FormFits(form[o])

LEMMA ConcertsAreTyped ==
  ASSUME FormInv, NEW c \in Id
  PROVE  c \in Nat /\ concerts[c] \in Concerts /\ concerts[c].bio \in Nat
<1>1. c \in Nat /\ concerts[c] \in Concerts
  BY DEF FormInv, Id
<1> QED  BY <1>1 DEF Concerts

\* No concert loses its poster or its place.
ConcertsGrow ==
  /\ concerts' \in Seq(Concerts) /\ Id \subseteq Id'
  /\ \A c \in Id : concerts[c].poster => concerts'[c].poster

LEMMA GrowingKeepsForms ==
  ASSUME FormInv, ConcertsGrow, NEW o \in Manager, NEW f \in FormStates,
         form' = [form EXCEPT ![o] = f], FormFits(f)'
  PROVE  FormInv'
<1>1. form' \in [Manager -> FormStates] /\ form'[o] = f
      /\ \A p \in Manager : p # o => form'[p] = form[p]
  BY DEF FormInv
<1>2. ASSUME NEW p \in Manager
      PROVE  FormFits(form[p])'
  <2>1. CASE p = o
    BY <1>1, <2>1 DEF FormFits
  <2>2. CASE p # o
    <3>1. FormFits(form[p]) /\ form'[p] = form[p]
      BY <1>1, <2>2 DEF FormInv
    <3> QED  BY <3>1 DEF FormFits, ConcertsGrow
  <2> QED  BY <2>1, <2>2
<1> QED  BY <1>1, <1>2 DEF FormInv, ConcertsGrow

LEMMA GrowingKeepsAll ==
  ASSUME FormInv, ConcertsGrow, UNCHANGED form
  PROVE  FormInv'
<1>1. ASSUME NEW p \in Manager
      PROVE  FormFits(form[p])'
  <2>1. FormFits(form[p]) /\ form'[p] = form[p]
    BY DEF FormInv
  <2> QED  BY <2>1 DEF FormFits, ConcertsGrow
<1> QED  BY <1>1 DEF FormInv, ConcertsGrow

LEMMA SameConcerts ==
  ASSUME FormInv, UNCHANGED concerts
  PROVE  ConcertsGrow /\ Id' = Id
  BY DEF FormInv, ConcertsGrow, Id

\* One concert changes and keeps its poster.
LEMMA ChangingGrows ==
  ASSUME FormInv, NEW c \in Id, NEW n \in Concerts, concerts' = [concerts EXCEPT ![c] = n],
         concerts[c].poster => n.poster
  PROVE  /\ ConcertsGrow /\ Id' = Id /\ concerts'[c] = n
         /\ \A d \in Id : d # c => concerts'[d] = concerts[d]
<1>1. concerts \in Seq(Concerts)
  BY DEF FormInv
<1>2. concerts' \in Seq(Concerts) /\ Id' = Id
  BY <1>1 DEF Id
<1>3. concerts'[c] = n /\ \A d \in Id : d # c => concerts'[d] = concerts[d]
  BY <1>1 DEF Id
<1> QED  BY <1>2, <1>3 DEF ConcertsGrow

\* The fields of a form after a change.
LEMMA StepFields ==
  ASSUME NEW f \in FormStates,
         NEW s \in {"closed", "open", "create", "upload", "update", "saved", "failed"},
         NEW g, g = [f EXCEPT !.step = s]
  PROVE  g \in FormStates /\ g.step = s /\ g.new = f.new /\ g.at = f.at /\ g.file = f.file
  BY DEF FormStates

LEMMA AtFields ==
  ASSUME NEW f \in FormStates, NEW a \in Nat, NEW g, g = [f EXCEPT !.at = a]
  PROVE  /\ g \in FormStates /\ g.step = f.step /\ g.new = f.new /\ g.at = a /\ g.file = f.file
         /\ g.seen = f.seen /\ g.status = f.status
  BY DEF FormStates

LEMMA ErrorFields ==
  ASSUME NEW f \in FormStates, NEW g, g = Error(f)
  PROVE  g \in FormStates /\ g.step = "failed" /\ g.new = f.new /\ g.at = f.at
<1>1. PICK n \in Nat : n = (IF f.new THEN f.at ELSE 0)
  BY DEF FormStates
<1>2. g = [f EXCEPT !.step = "failed", !.offered = n]
  BY <1>1 DEF Error
<1> QED  BY <1>2 DEF FormStates

LEMMA RefusalKeepsForm ==
  ASSUME FormInv, NEW o \in Manager, form[o].step # "closed", UNCHANGED concerts,
         GotRefusal(o, form[o])
  PROVE  FormInv'
<1>1. form[o] \in FormStates /\ FormFits(form[o])
  BY DEF FormInv
<1>2. PICK f : f = Error(form[o])
  OBVIOUS
<1>3. f \in FormStates /\ f.step = "failed" /\ f.new = form[o].new /\ f.at = form[o].at
  BY <1>1, <1>2, ErrorFields
<1>4. form' = [form EXCEPT ![o] = f]
  BY <1>2 DEF GotRefusal, Filled
<1>5. FormFits(f)'
  BY <1>1, <1>3, SameConcerts DEF FormFits
<1> QED  BY <1>3, <1>4, <1>5, SameConcerts, GrowingKeepsForms

\* The answer to a request that was carried out for the concert f.at.
LEMMA AnswerKeepsForm ==
  ASSUME FormInv, NEW o \in Manager, NEW f \in FormStates, ConcertsGrow,
         f.step \in {"create", "upload", "update"}, f.at \in Id', f.step = "create" => f.new,
         f.file /\ f.step # "create" => concerts'[f.at].poster, GotAnswer(o, f)
  PROVE  FormInv'
<1>1. CASE Filled(o, [f EXCEPT !.step = After(f, f.step)])
  <2>1. PICK s : s = After(f, f.step)
    OBVIOUS
  <2>2. s \in {"upload", "update", "saved"} /\ (f.step = "create" /\ s # "upload" => ~f.file)
    <3>1. CASE f.step = "create" /\ f.file
      BY <2>1, <3>1 DEF After
    <3>2. CASE f.step = "create" /\ ~f.file
      BY <2>1, <3>2 DEF After
    <3>3. CASE f.step = "upload"
      BY <2>1, <3>3 DEF After
    <3>4. CASE f.step = "update"
      BY <2>1, <3>4 DEF After
    <3> QED  BY <3>1, <3>2, <3>3, <3>4 DEF FormStates
  <2>3. PICK g : g = [f EXCEPT !.step = s]
    OBVIOUS
  <2>4. g \in FormStates /\ g.step = s /\ g.new = f.new /\ g.at = f.at /\ g.file = f.file
    BY <2>2, <2>3, StepFields
  <2>5. form' = [form EXCEPT ![o] = g]
    BY <1>1, <2>1, <2>3 DEF Filled
  <2>6. FormFits(g)'
    BY <2>2, <2>4 DEF FormFits
  <2> QED  BY <2>4, <2>5, <2>6, GrowingKeepsForms
<1>2. CASE Filled(o, Error(IF f.step = "create" THEN [f EXCEPT !.at = 0] ELSE f))
  <2>1. PICK h : h = IF f.step = "create" THEN [f EXCEPT !.at = 0] ELSE f
    OBVIOUS
  <2>2. h \in FormStates /\ h.new = f.new /\ (f.step # "create" => h.at = f.at)
    BY <2>1, AtFields
  <2>3. PICK g : g = Error(h)
    OBVIOUS
  <2>4. g \in FormStates /\ g.step = "failed" /\ g.new = h.new /\ g.at = h.at
    BY <2>2, <2>3, ErrorFields
  <2>5. form' = [form EXCEPT ![o] = g]
    BY <1>2, <2>1, <2>3 DEF Filled
  <2>6. FormFits(g)'
    BY <2>2, <2>4 DEF FormFits
  <2> QED  BY <2>4, <2>5, <2>6, GrowingKeepsForms
<1> QED  BY <1>1, <1>2 DEF GotAnswer

LEMMA OpeningKeepsForm ==
  ASSUME FormInv, NEW o \in Manager, OpenNew(o) \/ \E c \in Id : OpenEdit(o, c)
  PROVE  FormInv'
<1>1. PICK f : /\ f \in FormStates /\ f.step = "open" /\ (~f.new => f.at \in Id)
               /\ form' = [form EXCEPT ![o] = f]
  <2>1. CASE OpenNew(o)
    <3>1. PICK f : f = [Closed EXCEPT !.step = "open", !.new = TRUE]
      OBVIOUS
    <3>2. f \in FormStates /\ f.step = "open" /\ f.new
      BY <3>1 DEF Closed, Draft, FormStates, Concerts
    <3>3. form' = [form EXCEPT ![o] = f]
      BY <2>1, <3>1 DEF OpenNew, Filled
    <3> QED  BY <3>2, <3>3
  <2>2. ASSUME NEW c \in Id, OpenEdit(o, c)
        PROVE  \E f : /\ f \in FormStates /\ f.step = "open" /\ (~f.new => f.at \in Id)
                      /\ form' = [form EXCEPT ![o] = f]
    <3>1. concerts[c] \in Concerts /\ c \in Nat
      BY ConcertsAreTyped
    <3>2. PICK n : n = concerts[c]
      OBVIOUS
    <3>3. PICK f : f = [Closed EXCEPT !.step = "open", !.at = c, !.seen = n]
      OBVIOUS
    <3>4. f \in FormStates /\ f.step = "open" /\ f.at = c
      BY <3>1, <3>2, <3>3 DEF Closed, FormStates
    <3>5. form' = [form EXCEPT ![o] = f]
      BY <2>2, <3>2, <3>3 DEF OpenEdit, Filled
    <3> QED  BY <3>4, <3>5
  <2> QED  BY <2>1, <2>2
<1>2. ConcertsGrow /\ Id' = Id
  BY SameConcerts DEF OpenNew, OpenEdit
<1>3. FormFits(f)'
  BY <1>1, <1>2 DEF FormFits
<1> QED  BY <1>1, <1>2, <1>3, GrowingKeepsForms

LEMMA SubmittingKeepsForm ==
  ASSUME FormInv, NEW o \in Manager, NEW st \in {"draft", "published"}, NEW file \in BOOLEAN,
         SubmitForm(o, st, file)
  PROVE  FormInv'
<1>1. PICK f : f = form[o]
  OBVIOUS
<1>2. f \in FormStates /\ f.step \in {"open", "failed"} /\ f.new \in BOOLEAN
      /\ (~f.new => f.at \in Id)
  BY <1>1 DEF FormInv, FormFits, FormStates, SubmitForm
<1>3. PICK s : s = IF f.new THEN "create" ELSE IF file THEN "upload" ELSE "update"
  OBVIOUS
<1>4. PICK a \in Nat : a = IF f.new THEN 0 ELSE f.at
  BY <1>2 DEF FormStates
<1>5. PICK g : g = [f EXCEPT !.step = s, !.status = st, !.file = file, !.at = a, !.offered = 0]
  OBVIOUS
<1>6. s \in {"create", "upload", "update"}
  BY <1>3
<1>7. g \in FormStates /\ g.step = s /\ g.new = f.new /\ g.at = a /\ g.file = file
  BY <1>2, <1>5, <1>6 DEF FormStates
<1>8. form' = [form EXCEPT ![o] = g] /\ UNCHANGED concerts
  BY <1>1, <1>3, <1>4, <1>5 DEF SubmitForm, Filled
<1>9. ConcertsGrow /\ Id' = Id
  BY <1>8, SameConcerts
<1>10. FormFits(g)'
  BY <1>2, <1>3, <1>4, <1>7, <1>9 DEF FormFits
<1> QED  BY <1>7, <1>8, <1>9, <1>10, GrowingKeepsForms

LEMMA CreatingKeepsForm ==
  ASSUME FormInv, NEW o \in Manager, CreateConcert(o)
  PROVE  FormInv'
<1>1. PICK f : f = form[o]
  OBVIOUS
<1>2. f \in FormStates /\ f.step = "create" /\ f.new
  BY <1>1 DEF FormInv, FormFits, CreateConcert
<1>3. CASE GotRefusal(o, form[o]) /\ UNCHANGED concerts
  BY <1>1, <1>2, <1>3, RefusalKeepsForm
<1>4. CASE concerts' = Append(concerts, Draft) /\ GotAnswer(o, [form[o] EXCEPT !.at = Len(concerts')])
  <2>1. /\ concerts \in Seq(Concerts) /\ Draft \in Concerts
        /\ ~Draft.poster
    BY DEF FormInv, Draft, Concerts
  <2>2. PICK a : a = Len(concerts')
    OBVIOUS
  <2>3. concerts' \in Seq(Concerts) /\ a \in Nat /\ a = Len(concerts) + 1 /\ Id' = 1..a
        /\ Id = 1..Len(concerts) /\ \A c \in Id : concerts'[c] = concerts[c]
    BY <1>4, <2>1, <2>2 DEF Id
  <2>4. ConcertsGrow /\ a \in Id'
    BY <2>3 DEF ConcertsGrow
  <2>5. PICK g : g = [f EXCEPT !.at = a]
    OBVIOUS
  <2>6. g \in FormStates /\ g.step = f.step /\ g.new = f.new /\ g.at = a
    <3>1. a \in Nat
      BY <2>3
    <3> QED  BY <1>2, <2>5, <3>1, AtFields
  <2>7. GotAnswer(o, g)
    BY <1>1, <1>4, <2>2, <2>5
  <2> QED  BY <1>2, <2>4, <2>6, <2>7, AnswerKeepsForm
<1> QED  BY <1>3, <1>4 DEF CreateConcert

\* The update of a concert changes its status and biography as the form has them.
LEMMA UpdateFields ==
  ASSUME FormInv, NEW o \in Manager, UpdateConcert(o), ~UNCHANGED concerts
  PROVE  /\ form[o].step = "update" /\ form[o].at \in Id
         /\ GotAnswer(o, form[o])
         /\ ConcertsGrow /\ Id' = Id
         /\ \A d \in Id : d # form[o].at => concerts'[d] = concerts[d]
         /\ concerts'[form[o].at].bio =
              IF form[o].new THEN concerts[form[o].at].bio ELSE form[o].seen.bio
         /\ form[o].seen.status = "canceled" =>
              concerts'[form[o].at].status = concerts[form[o].at].status
<1>1. PICK f : f = form[o]
  OBVIOUS
<1>2. f \in FormStates /\ f.step = "update" /\ f.at \in Id /\ f.new \in BOOLEAN
      /\ f.seen \in Concerts /\ f.status \in {"draft", "published"}
  BY <1>1 DEF FormInv, FormFits, FormStates, UpdateConcert
<1>3. PICK c \in Id : c = f.at
  BY <1>2
<1>4. concerts[c] \in Concerts
  BY DEF FormInv, Id
<1>5. PICK bio \in Nat : bio = IF f.new THEN concerts[c].bio ELSE f.seen.bio
  BY <1>2, <1>4 DEF Concerts
<1>6. PICK st : st = IF StatusSent(f) = "unchanged" THEN concerts[c].status ELSE StatusSent(f)
  OBVIOUS
<1>7. /\ st \in {"draft", "published", "canceled", "deleted"}
      /\ f.seen.status = "canceled" => st = concerts[c].status
  <2>1. StatusSent(f) \in {"unchanged", "draft", "published"}
    BY <1>2 DEF StatusSent
  <2>2. f.seen.status = "canceled" => StatusSent(f) = "unchanged"
    BY DEF StatusSent
  <2> QED  BY <1>4, <1>6, <2>1, <2>2 DEF Concerts
<1>8. PICK b : b = [concerts[c] EXCEPT !.bio = bio]
  OBVIOUS
<1>9. /\ b \in Concerts /\ b.bio = bio /\ b.status = concerts[c].status
      /\ b.poster = concerts[c].poster
  BY <1>4, <1>8 DEF Concerts
<1>10. PICK n : n = [b EXCEPT !.status = st]
  OBVIOUS
<1>11. n \in Concerts /\ n.bio = bio /\ n.status = st /\ n.poster = concerts[c].poster
  BY <1>7, <1>9, <1>10 DEF Concerts
<1>12. concerts' = [concerts EXCEPT ![c].bio = bio,
                       ![c].status = IF StatusSent(f) = "unchanged" THEN @ ELSE StatusSent(f)]
       /\ GotAnswer(o, form[o])
  BY <1>1, <1>3, <1>5, Zenon DEF UpdateConcert
<1>13. concerts' = [concerts EXCEPT ![c] = n]
  <2>1. concerts' = [concerts EXCEPT ![c] =
           [[concerts[c] EXCEPT !.bio = bio] EXCEPT !.status =
              IF StatusSent(f) = "unchanged" THEN @ ELSE StatusSent(f)]]
    BY <1>12 DEF FormInv, Id
  <2>2. (IF StatusSent(f) = "unchanged" THEN b.status ELSE StatusSent(f)) = st
    BY <1>6, <1>9
  <2>3. concerts' = [concerts EXCEPT ![c] = [b EXCEPT !.status = st]]
    BY <1>8, <2>1, <2>2
  <2> QED  BY <1>10, <2>3
<1>14. /\ ConcertsGrow /\ Id' = Id /\ concerts'[c] = n
       /\ \A d \in Id : d # c => concerts'[d] = concerts[d]
  BY <1>11, <1>13, ChangingGrows
<1> QED  BY <1>1, <1>2, <1>3, <1>5, <1>7, <1>11, <1>12, <1>14

LEMMA UploadingKeepsForm ==
  ASSUME FormInv, NEW o \in Manager, UploadPoster(o)
  PROVE  FormInv'
<1>1. PICK f : f = form[o]
  OBVIOUS
<1>2. f \in FormStates /\ f.step = "upload" /\ f.at \in Id
  BY <1>1 DEF FormInv, FormFits, UploadPoster
<1>3. CASE GotRefusal(o, form[o]) /\ UNCHANGED concerts
  BY <1>1, <1>2, <1>3, RefusalKeepsForm
<1>4. CASE concerts' = [concerts EXCEPT ![form[o].at].poster = TRUE] /\ GotAnswer(o, form[o])
  <2>1. PICK c \in Id : c = f.at
    BY <1>2
  <2>2. concerts[c] \in Concerts
    BY DEF FormInv, Id
  <2>3. PICK n : n = [concerts[c] EXCEPT !.poster = TRUE]
    OBVIOUS
  <2>4. n \in Concerts /\ n.poster
    BY <2>2, <2>3 DEF Concerts
  <2>5. concerts' = [concerts EXCEPT ![c] = n]
    BY <1>1, <1>4, <2>1, <2>3, Zenon
  <2>6. ConcertsGrow /\ Id' = Id /\ concerts'[c] = n
    BY <2>4, <2>5, ChangingGrows
  <2> QED  BY <1>1, <1>2, <1>4, <2>1, <2>4, <2>6, AnswerKeepsForm
<1> QED  BY <1>3, <1>4 DEF UploadPoster

LEMMA UpdatingKeepsForm ==
  ASSUME FormInv, NEW o \in Manager, UpdateConcert(o)
  PROVE  FormInv'
<1>1. PICK f : f = form[o]
  OBVIOUS
<1>2. f \in FormStates /\ f.step = "update" /\ f.at \in Id /\ FormFits(f)
  BY <1>1 DEF FormInv, FormFits, UpdateConcert
<1>3. CASE GotRefusal(o, form[o]) /\ UNCHANGED concerts
  BY <1>1, <1>2, <1>3, RefusalKeepsForm
<1>4. CASE GotAnswer(o, form[o])
  <2>1. ConcertsGrow /\ Id' = Id
    BY UpdateFields, SameConcerts
  <2>2. f.file => concerts'[f.at].poster
    BY <1>2, <2>1 DEF FormFits, ConcertsGrow
  <2> QED  BY <1>1, <1>2, <1>4, <2>1, <2>2, AnswerKeepsForm
<1> QED  BY <1>3, <1>4 DEF UpdateConcert

\* What other pages do keeps the concert's poster.
LEMMA OthersKeepForms ==
  ASSUME FormInv, NEW c \in Id, Cancel(c) \/ PublishBio(c) \/ DeleteConcert(c)
  PROVE  /\ FormInv' /\ UNCHANGED form
         /\ \A d \in Id : /\ concerts'[d].bio \in Nat /\ concerts'[d].bio >= concerts[d].bio
                          /\ concerts[d].status = "canceled" =>
                               concerts'[d].status \in {"canceled", "deleted"}
<1>1. concerts[c] \in Concerts /\ concerts[c].bio \in Nat
  BY ConcertsAreTyped
<1>2. PICK n : /\ n \in Concerts /\ concerts' = [concerts EXCEPT ![c] = n]
               /\ n.poster = concerts[c].poster /\ n.bio >= concerts[c].bio
               /\ concerts[c].status = "canceled" => n.status \in {"canceled", "deleted"}
  <2>1. CASE Cancel(c)
    <3>1. PICK n : n = [concerts[c] EXCEPT !.status = "canceled"]
      OBVIOUS
    <3>2. concerts' = [concerts EXCEPT ![c] = n]
      BY <2>1, <3>1, Zenon DEF Cancel
    <3>3. n \in Concerts /\ n.poster = concerts[c].poster /\ n.bio = concerts[c].bio
      BY <1>1, <3>1 DEF Concerts
    <3>4. n.status \in {"canceled", "deleted"} /\ n.bio >= concerts[c].bio
      BY <1>1, <3>1, <3>3 DEF Concerts
    <3> QED  BY <3>2, <3>3, <3>4
  <2>2. CASE PublishBio(c)
    <3>1. PICK b \in Nat : b = concerts[c].bio + 1
      BY <1>1
    <3>2. PICK n : n = [concerts[c] EXCEPT !.bio = b]
      OBVIOUS
    <3>3. concerts' = [concerts EXCEPT ![c] = n]
      BY <2>2, <3>1, <3>2, Zenon DEF PublishBio
    <3>4. /\ n \in Concerts /\ n.poster = concerts[c].poster
          /\ n.bio = b /\ n.status = concerts[c].status
      BY <1>1, <3>2 DEF Concerts
    <3>5. concerts[c].status # "canceled" \/ n.status = "canceled"
      BY <3>4
    <3>6. n.bio >= concerts[c].bio
      BY <1>1, <3>1, <3>4
    <3> QED  BY <3>3, <3>4, <3>5, <3>6
  <2>3. CASE DeleteConcert(c)
    <3>1. PICK n : n = [concerts[c] EXCEPT !.status = "deleted"]
      OBVIOUS
    <3>2. concerts' = [concerts EXCEPT ![c] = n]
      BY <2>3, <3>1, Zenon DEF DeleteConcert
    <3>3. n \in Concerts /\ n.poster = concerts[c].poster /\ n.bio = concerts[c].bio
      BY <1>1, <3>1 DEF Concerts
    <3>4. n.status \in {"canceled", "deleted"} /\ n.bio >= concerts[c].bio
      BY <1>1, <3>1, <3>3 DEF Concerts
    <3> QED  BY <3>2, <3>3, <3>4
  <2> QED  BY <2>1, <2>2, <2>3
<1>3. UNCHANGED form
  BY DEF Cancel, PublishBio, DeleteConcert
<1>4. /\ ConcertsGrow /\ concerts'[c] = n
      /\ \A d \in Id : d # c => concerts'[d] = concerts[d]
  BY <1>2, ChangingGrows
<1>5. \A d \in Id : concerts[d].bio \in Nat
  BY ConcertsAreTyped
<1>6. FormInv'
  BY <1>3, <1>4, GrowingKeepsAll
<1>7. ASSUME NEW d \in Id
      PROVE  /\ concerts'[d].bio \in Nat /\ concerts'[d].bio >= concerts[d].bio
             /\ concerts[d].status = "canceled" => concerts'[d].status \in {"canceled", "deleted"}
  <2>1. CASE d = c
    <3>1. n.bio \in Nat
      BY <1>2 DEF Concerts
    <3> QED  BY <1>2, <1>4, <2>1, <3>1
  <2>2. CASE d # c
    <3>1. concerts'[d] = concerts[d]
      BY <1>4, <2>2
    <3> QED  BY <1>5, <3>1
  <2> QED  BY <2>1, <2>2
<1> QED  BY <1>3, <1>6, <1>7

LEMMA FormsAreKept ==
  ASSUME FormInv, [ConsoleNext]_consoleVars
  PROVE  FormInv'
<1>1. CASE UNCHANGED formVars
  BY <1>1, SameConcerts, GrowingKeepsAll DEF formVars
<1>2. ASSUME NEW o \in Manager, FormStep(o)
      PROVE  FormInv'
  BY <1>2, OpeningKeepsForm, SubmittingKeepsForm, CreatingKeepsForm, UploadingKeepsForm,
    UpdatingKeepsForm DEF FormStep
<1> QED
  BY <1>1, <1>2, OthersKeepForms DEF ConsoleNext, FormNext, PanelNext, consoleVars, formVars

LEMMA ConsoleInitially == ConsoleInit => PanelInv /\ FormInv
<1> SUFFICES ASSUME ConsoleInit PROVE PanelInv /\ FormInv
  OBVIOUS
<1>1. AtRest \in ButtonState /\ AtRest.step = "idle" /\ AtRest.did = 0
  BY DEF AtRest, ButtonState, PanelStep
<1>2. PanelInv
  BY <1>1 DEF ConsoleInit, PanelInv, PanelShowsTheResult
<1>3. Closed \in FormStates /\ Closed.step = "closed"
  BY DEF Closed, Draft, FormStates, Concerts
<1>4. concerts \in Seq(Concerts)
  BY DEF ConsoleInit, Draft, Concerts
<1>5. FormInv
  BY <1>3, <1>4 DEF ConsoleInit, FormInv, FormFits
<1> QED  BY <1>2, <1>5

\* A concert form that says "saved" has its poster uploaded, and a panel that tells
\* the result of an operation shows it, for any number of organizers, concerts and
\* buttons.
THEOREM ConsoleStaysTrue == ConsoleSpec => []ConsoleTellsTheTruth
<1>1. PanelInv /\ FormInv => ConsoleTellsTheTruth
  BY DEF PanelInv, FormInv, FormFits, ConsoleTellsTheTruth, SavedWithItsPoster
<1>2. PanelInv /\ FormInv /\ [ConsoleNext]_consoleVars => (PanelInv /\ FormInv)'
  BY PanelIsKept, FormsAreKept
<1> QED  BY <1>1, <1>2, ConsoleInitially, PTL DEF ConsoleSpec

\* Only a form opened before takes a cancellation back or puts an older biography
\* over a newer one.
THEOREM OldFormsTakeBack == ConsoleSpec => OnlyOldFormsTakeBack
<1>1. ASSUME FormInv, [ConsoleNext]_consoleVars, NEW c \in Id
      PROVE  /\ concerts[c].status = "canceled" /\ concerts'[c].status # "canceled" =>
                  \/ concerts'[c].status = "deleted"
                  \/ \E o \in Manager : /\ form[o].step = "update" /\ form[o].at = c
                                        /\ form[o].seen.status # "canceled"
             /\ concerts'[c].bio < concerts[c].bio =>
                  \E o \in Manager : /\ form[o].step = "update" /\ form[o].at = c
                                     /\ form[o].seen.bio < concerts[c].bio
  <2>1. concerts[c].bio \in Nat /\ ~(concerts[c].bio < concerts[c].bio)
    BY <1>1, ConcertsAreTyped
  <2>2. CASE concerts'[c] = concerts[c]
    BY <2>1, <2>2
  <2>3. ASSUME NEW d \in Id, Cancel(d) \/ PublishBio(d) \/ DeleteConcert(d)
        PROVE  /\ concerts'[c].bio >= concerts[c].bio
               /\ concerts[c].status = "canceled" => concerts'[c].status \in {"canceled", "deleted"}
    BY <1>1, <2>3, OthersKeepForms
  <2>4. ASSUME NEW d \in Id, Cancel(d) \/ PublishBio(d) \/ DeleteConcert(d)
        PROVE  concerts'[c].bio \in Nat
    BY <1>1, <2>4, OthersKeepForms
  <2>5. ASSUME NEW o \in Manager, UpdateConcert(o), concerts'[c] # concerts[c]
        PROVE  /\ form[o].step = "update" /\ form[o].at = c
               /\ concerts'[c].bio = IF form[o].new THEN concerts[c].bio ELSE form[o].seen.bio
               /\ form[o].seen.status = "canceled" => concerts'[c].status = concerts[c].status
    BY <1>1, <2>5, UpdateFields
  <2>6. ASSUME NEW o \in Manager, UploadPoster(o)
        PROVE  concerts'[c].bio = concerts[c].bio /\ concerts'[c].status = concerts[c].status
    <3>1. CASE UNCHANGED concerts
      BY <3>1
    <3>2. CASE concerts' = [concerts EXCEPT ![form[o].at].poster = TRUE]
      <4>1. PICK d : d = form[o].at
        OBVIOUS
      <4>2. concerts[c] \in Concerts
        BY <1>1, ConcertsAreTyped
      <4>3. PICK n : n = [concerts[c] EXCEPT !.poster = TRUE]
        OBVIOUS
      <4>4. n.bio = concerts[c].bio /\ n.status = concerts[c].status
        BY <4>2, <4>3 DEF Concerts
      <4>5. concerts'[c] = n \/ concerts'[c] = concerts[c]
        BY <1>1, <3>2, <4>1, <4>3 DEF FormInv, Id
      <4> QED  BY <4>4, <4>5
    <3> QED  BY <2>6, <3>1, <3>2 DEF UploadPoster
  <2>7. ASSUME NEW o \in Manager, CreateConcert(o)
        PROVE  concerts'[c] = concerts[c]
    BY <1>1, <2>7 DEF CreateConcert, FormInv, Id
  <2>8. \/ concerts'[c] = concerts[c]
        \/ \E d \in Id : Cancel(d) \/ PublishBio(d) \/ DeleteConcert(d)
        \/ \E o \in Manager : UpdateConcert(o) \/ UploadPoster(o) \/ CreateConcert(o)
    BY <1>1 DEF ConsoleNext, FormNext, PanelNext, FormStep, OpenNew, OpenEdit, SubmitForm,
      consoleVars, formVars
  <2> QED  BY <2>1, <2>2, <2>3, <2>4, <2>5, <2>6, <2>7, <2>8
<1>2. PanelInv /\ FormInv /\ [ConsoleNext]_consoleVars => (PanelInv /\ FormInv)'
  BY PanelIsKept, FormsAreKept
<1>3. FormInv /\ [ConsoleNext]_consoleVars =>
        [\A c \in Id :
           /\ concerts[c].status = "canceled" /\ concerts'[c].status # "canceled" =>
                \/ concerts'[c].status = "deleted"
                \/ \E o \in Manager : /\ form[o].step = "update" /\ form[o].at = c
                                      /\ form[o].seen.status # "canceled"
           /\ concerts'[c].bio < concerts[c].bio =>
                \E o \in Manager : /\ form[o].step = "update" /\ form[o].at = c
                                  /\ form[o].seen.bio < concerts[c].bio]_consoleVars
  BY <1>1
<1> QED
  BY <1>2, <1>3, ConsoleInitially, PTL DEF ConsoleSpec, OnlyOldFormsTakeBack

-----------------------------------------------------------------------------
(* Sessions                                                                *)

Who == Account \cup {Nobody}
SentRecords ==
  [tab : Tab, kind : {"visit", "sign in", "sign out", "call"}, who : Who, token : Who,
   stage : {"sent", "answered", "arrived"}, granted : BOOLEAN, sets : Who \cup {Keep},
   own : BOOLEAN]

SessionsTyped ==
  /\ cookie \in Who /\ shows \in [Tab -> Who]
  /\ asked \subseteq SentRecords /\ swapped \subseteq Tab

\* What an answer says is what its kind says; nothing arrives at a page that is
\* gone, and a visit ends only with its page.
AnswerFits(q) ==
  /\ q.kind = "sign out" => q.who = Nobody
  /\ q.stage = "arrived" \/ q.kind = "visit" => q.own
  /\ q.stage = "answered" =>
       /\ q.sets # Keep /\ q.kind # "visit"
       /\ q.kind = "sign in" => q.granted /\ q.sets = q.who
       /\ q.kind \in {"sign out", "call"} => q.sets = Nobody

\* The cookie is that of an account, or has ended.
Stands(who) == who # Nobody => cookie \in {who, Nobody}

\* The answer changes whom the page shows.
Changes(q) ==
  q.kind = "visit" \/ (q.stage = "arrived" /\ q.granted /\ q.kind # "call")

\* What a page shows stands, but for what it waits for.
SentFits(q) ==
  q.own /\ q.tab \notin swapped =>
    /\ q.kind = "visit" /\ q.stage = "sent" => cookie \in {q.token, Nobody}
    /\ q.stage = "arrived" /\ Changes(q) => Stands(q.who)
    /\ ~Changes(q) => Stands(shows[q.tab])
ShownFits(t) == t \notin swapped /\ Waiting(t) = {} => Stands(shows[t])

SessionsInv ==
  /\ SessionsTyped
  /\ \A q \in asked : AnswerFits(q) /\ SentFits(q)
  /\ \A q, p \in asked : q.own /\ p.own /\ q.tab = p.tab => q = p
  /\ \A t \in Tab : ShownFits(t)

LEMMA SessionsInitially == SessionsInit => SessionsInv
<1> SUFFICES ASSUME SessionsInit PROVE SessionsInv
  OBVIOUS
<1>1. SessionsTyped
  BY DEF SessionsInit, SessionsTyped, Who
<1>2. \A t \in Tab : ShownFits(t)
  BY DEF SessionsInit, ShownFits, Stands
<1> QED  BY <1>1, <1>2 DEF SessionsInv, SessionsInit

\* A request goes on: what the tabs show that do not wait for it stands.
LEMMA RequestGoesOn ==
  ASSUME SessionsInv, NEW q \in asked, NEW r \in SentRecords,
         asked' = (asked \ {q}) \cup {r}, r.tab = q.tab, r.own = q.own,
         shows' = shows, cookie' \in Who, swapped' \subseteq Tab,
         AnswerFits(r), SentFits(r)',
         \A t \in Tab : t \notin swapped' /\ (t # q.tab \/ ~q.own) =>
           t \notin swapped /\ cookie' \in {cookie, Nobody}
  PROVE  SessionsInv'
<1>1. SessionsTyped'
  BY DEF SessionsInv, SessionsTyped
<1>2. ASSUME NEW p \in asked', p # r PROVE AnswerFits(p) /\ SentFits(p)' /\ p \in asked
  <2>1. p \in asked /\ p # q /\ AnswerFits(p) /\ SentFits(p) /\ p.tab \in Tab
    BY <1>2 DEF SessionsInv, SessionsTyped, SentRecords
  <2>2. p.own => p.tab # q.tab \/ ~q.own
    BY <2>1 DEF SessionsInv
  <2> QED  BY <2>1, <2>2 DEF SentFits, Stands, Changes
<1>3. ASSUME NEW p \in asked', NEW u \in asked', p.own, u.own, p.tab = u.tab PROVE p = u
  BY <1>2, <1>3 DEF SessionsInv
<1>4. ASSUME NEW t \in Tab PROVE ShownFits(t)'
  <2>1. CASE q.own /\ t = q.tab
    BY <2>1 DEF ShownFits, Waiting
  <2>2. CASE ~q.own \/ t # q.tab
    <3>1. Waiting(t)' = {} => Waiting(t) = {}
      BY <2>2 DEF Waiting
    <3> QED  BY <2>2, <3>1 DEF SessionsInv, ShownFits, Stands
  <2> QED  BY <2>1, <2>2
<1>5. AnswerFits(r)'
  BY DEF AnswerFits
<1>6. \A p \in asked' : AnswerFits(p)' /\ SentFits(p)'
  BY <1>2, <1>5 DEF AnswerFits
<1> QED  BY <1>1, <1>3, <1>4, <1>6 DEF SessionsInv

\* A request ends: its tab waits for nothing.
LEMMA RequestEnds ==
  ASSUME SessionsInv, NEW q \in asked, asked' = asked \ {q},
         shows' \in [Tab -> Who], cookie' \in Who, swapped' \subseteq Tab,
         \A t \in Tab : t # q.tab \/ ~q.own => shows'[t] = shows[t],
         \A t \in Tab : t \notin swapped' /\ (t # q.tab \/ ~q.own) =>
           t \notin swapped /\ cookie' \in {cookie, Nobody},
         NEW who, who = shows'[q.tab], q.own /\ q.tab \notin swapped' => Stands(who)'
  PROVE  SessionsInv'
<1>1. SessionsTyped'
  BY DEF SessionsInv, SessionsTyped
<1>2. ASSUME NEW p \in asked' PROVE AnswerFits(p)' /\ SentFits(p)'
  <2>1. p \in asked /\ p # q /\ AnswerFits(p) /\ SentFits(p) /\ p.tab \in Tab
    BY <1>2 DEF SessionsInv, SessionsTyped, SentRecords
  <2>2. p.own => p.tab # q.tab \/ ~q.own
    BY <2>1 DEF SessionsInv
  <2> QED  BY <2>1, <2>2 DEF AnswerFits, SentFits, Stands, Changes
<1>3. ASSUME NEW p \in asked', NEW u \in asked', p.own, u.own, p.tab = u.tab PROVE p = u
  BY <1>3 DEF SessionsInv
<1>4. ASSUME NEW t \in Tab PROVE ShownFits(t)'
  <2>1. CASE q.own /\ t = q.tab
    BY <2>1 DEF ShownFits, Stands
  <2>2. CASE ~q.own \/ t # q.tab
    <3>1. Waiting(t)' = {} => Waiting(t) = {}
      BY <2>2 DEF Waiting
    <3> QED  BY <2>2, <3>1 DEF SessionsInv, ShownFits, Stands
  <2> QED  BY <2>1, <2>2
<1> QED  BY <1>1, <1>2, <1>3, <1>4 DEF SessionsInv

LEMMA NewRequest ==
  ASSUME SessionsInv, NEW t \in Tab, NEW kind \in {"visit", "sign in", "sign out", "call"},
         NEW who \in Who
  PROVE  Sent(t, kind, who) \in SentRecords
<1>1. cookie \in Who
  BY DEF SessionsInv, SessionsTyped
<1> QED  BY <1>1 DEF Sent, SentRecords

\* A tab goes to another page: what the old one waits for is no one's.
LEMMA TabLeaves ==
  ASSUME SessionsInv, NEW t \in Tab, Leave(t), cookie' = cookie, shows' = shows
  PROVE  SessionsInv'
<1>1. PICK v : v = Sent(t, "visit", Nobody)
  OBVIOUS
<1>2. /\ v \in SentRecords /\ v.tab = t /\ v.kind = "visit" /\ v.own = TRUE
      /\ v.token = cookie /\ v.stage = "sent"
  <2>1. v \in SentRecords
    <3>1. Nobody \in Who
      BY DEF Who
    <3>2. Sent(t, "visit", Nobody) \in SentRecords
      BY <3>1, NewRequest
    <3> QED  BY <1>1, <3>2
  <2>2. /\ v.tab = t /\ v.kind = "visit" /\ v.own = TRUE
        /\ v.token = cookie /\ v.stage = "sent"
    BY <1>1 DEF Sent
  <2> QED  BY <2>1, <2>2
<1>3. PICK strays : strays = {[q EXCEPT !.own = FALSE] : q \in {p \in Waiting(t) : MayChange(p)}}
  OBVIOUS
<1>4. asked' = (asked \ Waiting(t)) \cup strays \cup {v} /\ swapped' = swapped \ {t}
  BY <1>1, <1>3 DEF Leave
<1>5. ASSUME NEW s \in strays PROVE s \in SentRecords /\ ~s.own /\ AnswerFits(s)
  <2>1. PICK p \in Waiting(t) : MayChange(p) /\ s = [p EXCEPT !.own = FALSE]
    BY <1>3
  <2>2. p \in asked /\ p \in SentRecords /\ AnswerFits(p)
    BY <2>1 DEF Waiting, SessionsInv, SessionsTyped
  <2>3. /\ s \in SentRecords /\ s.own = FALSE /\ s.kind = p.kind /\ s.who = p.who
        /\ s.stage = p.stage /\ s.sets = p.sets /\ s.granted = p.granted
    BY <2>1, <2>2 DEF SentRecords
  <2>4. p.stage # "arrived" /\ p.kind # "visit"
    BY <2>1, <2>2 DEF MayChange, AnswerFits
  <2> QED  BY <2>2, <2>3, <2>4 DEF AnswerFits
<1>6. SessionsTyped'
  BY <1>2, <1>4, <1>5 DEF SessionsInv, SessionsTyped
<1>7. \A p \in asked' : p.own => p = v \/ (p \in asked /\ p.tab # t)
  BY <1>4, <1>5 DEF Waiting
<1>8. ASSUME NEW p \in asked' PROVE AnswerFits(p)' /\ SentFits(p)'
  <2>1. CASE p = v
    BY <1>2, <2>1 DEF AnswerFits, SentFits, Changes
  <2>2. CASE p \in strays
    <3>1. AnswerFits(p)
      BY <1>5, <2>2
    <3>2. ~p.own
      BY <1>5, <2>2
    <3> QED  BY <3>1, <3>2 DEF AnswerFits, SentFits
  <2>3. CASE p \in asked \ Waiting(t)
    <3>1. AnswerFits(p) /\ SentFits(p) /\ (p.own => p.tab # t)
      BY <2>3 DEF SessionsInv, Waiting
    <3> QED  BY <1>4, <3>1 DEF AnswerFits, SentFits, Changes, Stands
  <2> QED  BY <1>4, <2>1, <2>2, <2>3
<1>9. ASSUME NEW p \in asked', NEW u \in asked', p.own, u.own, p.tab = u.tab PROVE p = u
  BY <1>2, <1>7, <1>9 DEF SessionsInv
<1>10. ASSUME NEW u \in Tab PROVE ShownFits(u)'
  <2>1. CASE u = t
    BY <1>2, <1>4, <2>1 DEF ShownFits, Waiting
  <2>2. CASE u # t
    <3>1. Waiting(u)' = {} => Waiting(u) = {}
      BY <1>4, <2>2 DEF Waiting
    <3> QED  BY <1>4, <2>2, <3>1 DEF SessionsInv, ShownFits, Stands
  <2> QED  BY <2>1, <2>2
<1> QED  BY <1>6, <1>8, <1>9, <1>10 DEF SessionsInv

LEMMA RequestIsSent ==
  ASSUME SessionsInv, NEW t \in Tab, NEW kind \in {"sign in", "sign out", "call"}, NEW who \in Who,
         kind = "sign out" => who = Nobody, SendRequest(t, kind, who)
  PROVE  SessionsInv'
<1>1. PICK v : v = Sent(t, kind, who)
  OBVIOUS
<1>2. /\ v \in SentRecords /\ v.tab = t /\ v.kind = kind /\ v.who = who /\ v.own = TRUE
      /\ v.stage = "sent"
  <2>1. v \in SentRecords
    BY <1>1, NewRequest
  <2>2. /\ v.tab = t /\ v.kind = kind /\ v.who = who /\ v.own = TRUE
        /\ v.stage = "sent"
    BY <1>1 DEF Sent
  <2> QED  BY <2>1, <2>2
<1>3. /\ Waiting(t) = {} /\ asked' = asked \cup {v}
      /\ cookie' = cookie /\ shows' = shows /\ swapped' = swapped
  BY <1>1 DEF SendRequest
<1>4. SessionsTyped'
  BY <1>2, <1>3 DEF SessionsInv, SessionsTyped
<1>5. ASSUME NEW p \in asked' PROVE AnswerFits(p)' /\ SentFits(p)'
  <2>1. CASE p = v
    <3>1. ShownFits(t)
      BY DEF SessionsInv
    <3> QED  BY <1>2, <1>3, <2>1, <3>1 DEF AnswerFits, SentFits, ShownFits, Changes, Stands
  <2>2. CASE p \in asked
    <3>1. AnswerFits(p) /\ SentFits(p)
      BY <2>2 DEF SessionsInv
    <3> QED  BY <1>3, <3>1 DEF AnswerFits, SentFits, Changes, Stands
  <2> QED  BY <1>3, <2>1, <2>2
<1>6. ASSUME NEW p \in asked', NEW u \in asked', p.own, u.own, p.tab = u.tab PROVE p = u
  BY <1>2, <1>3, <1>6 DEF SessionsInv, Waiting
<1>7. ASSUME NEW u \in Tab PROVE ShownFits(u)'
  <2>1. Waiting(u)' = {} => Waiting(u) = {}
    BY <1>3 DEF Waiting
  <2> QED  BY <1>3, <2>1 DEF SessionsInv, ShownFits, Stands
<1> QED  BY <1>4, <1>5, <1>6, <1>7 DEF SessionsInv

\* A server's answer changes nobody's cookie yet.
LEMMA ServerAnswers ==
  ASSUME SessionsInv, NEW q \in asked, q.stage = "sent", q.kind # "visit",
         NEW granted \in BOOLEAN, NEW sets \in Who \cup {Keep},
         sets = Keep /\ granted => q.kind = "call",
         sets # Keep => /\ q.kind = "sign in" => granted /\ sets = q.who
                        /\ q.kind \in {"sign out", "call"} => sets = Nobody,
         AnswerWith(q, granted, sets), cookie' = cookie, shows' = shows, swapped' = swapped
  PROVE  SessionsInv'
<1>1. q \in SentRecords /\ AnswerFits(q) /\ SentFits(q) /\ q.tab \in Tab
  BY DEF SessionsInv, SessionsTyped, SentRecords
<1>2. shows' \in [Tab -> Who] /\ cookie' \in Who /\ swapped' \subseteq Tab
  BY DEF SessionsInv, SessionsTyped
<1>3. CASE sets = Keep /\ ~q.own
  <2>1. asked' = asked \ {q}
    BY <1>3 DEF AnswerWith
  <2> QED  BY <1>2, <1>3, <2>1, RequestEnds
<1>4. CASE ~(sets = Keep /\ ~q.own)
  <2>1. PICK stage \in {"arrived", "answered"} :
          stage = IF sets = Keep THEN "arrived" ELSE "answered"
    OBVIOUS
  <2>2. PICK r \in SentRecords :
          r = [q EXCEPT !.stage = stage, !.token = Nobody, !.granted = granted, !.sets = sets]
    BY <1>1, <2>1 DEF SentRecords, Who
  <2>3. /\ r.tab = q.tab /\ r.own = q.own /\ r.kind = q.kind /\ r.who = q.who
        /\ r.stage = stage /\ r.granted = granted /\ r.sets = sets
    BY <1>1, <2>2 DEF SentRecords
  <2>4. asked' = (asked \ {q}) \cup {r}
    BY <1>4, <2>1, <2>2 DEF AnswerWith, Change
  <2>5. AnswerFits(r)
    BY <1>1, <1>4, <2>1, <2>3 DEF AnswerFits, SentRecords
  <2>6. ~Changes(r) /\ ~Changes(q)
    BY <2>1, <2>3 DEF Changes
  <2>7. SentFits(r)'
    BY <1>1, <2>1, <2>3, <2>6 DEF SentFits, Changes, Stands
  <2> QED  BY <1>2, <2>3, <2>4, <2>5, <2>7, RequestGoesOn
<1> QED  BY <1>3, <1>4

LEMMA PageIsRendered ==
  ASSUME SessionsInv, NEW q \in asked, q.stage = "sent", q.kind = "visit", Render(q),
         cookie' = cookie, shows' = shows, swapped' = swapped
  PROVE  SessionsInv'
<1>1. /\ q \in SentRecords /\ AnswerFits(q) /\ SentFits(q)
      /\ q.token \in Who /\ Nobody \in Who
  BY DEF SessionsInv, SessionsTyped, SentRecords, Who
<1>2. cookie' \in Who /\ swapped' \subseteq Tab
  BY DEF SessionsInv, SessionsTyped
<1>3. PICK who \in {q.token, Nobody} :
        Change(q, [q EXCEPT !.stage = "arrived", !.token = Nobody, !.who = who])
  BY DEF Render
<1>4. PICK r \in SentRecords : r = [q EXCEPT !.stage = "arrived", !.token = Nobody, !.who = who]
  BY <1>1, <1>3 DEF SentRecords
<1>5. /\ r.tab = q.tab /\ r.own = q.own /\ r.kind = q.kind /\ r.who = who /\ r.stage = "arrived"
  BY <1>1, <1>4 DEF SentRecords
<1>6. asked' = (asked \ {q}) \cup {r}
  BY <1>3, <1>4 DEF Change
<1>7. AnswerFits(r)
  BY <1>1, <1>5 DEF AnswerFits
<1>8. SentFits(r)'
  BY <1>1, <1>3, <1>5 DEF SentFits, Changes, Stands
<1> QED  BY <1>2, <1>5, <1>6, <1>7, <1>8, RequestGoesOn

LEMMA RequestIsAnswered ==
  ASSUME SessionsInv, NEW q \in asked, Answer(q)
  PROVE  SessionsInv'
<1>1. q.stage = "sent" /\ cookie' = cookie /\ shows' = shows /\ swapped' = swapped
  BY DEF Answer
<1>2. q \in SentRecords /\ q.who \in Who
  BY DEF SessionsInv, SessionsTyped, SentRecords
<1>3. Nobody \in Who /\ Keep \notin Who /\ Audience \subseteq Who
  BY SessionsAssumption DEF Who
<1>4. CASE q.kind = "sign in" /\ Welcome(q)
  <2>1. CASE q.who \in Audience
    <3>1. AnswerWith(q, TRUE, q.who) /\ q.who # Keep
      BY <1>3, <1>4, <2>1 DEF Welcome
    <3> QED  BY <1>1, <1>2, <1>4, <3>1, ServerAnswers
  <2>2. CASE q.who \notin Audience
    <3>1. AnswerWith(q, FALSE, Keep)
      BY <1>4, <2>2 DEF Welcome
    <3> QED  BY <1>1, <1>4, <3>1, ServerAnswers
  <2> QED  BY <2>1, <2>2
<1>5. CASE q.kind = "visit" /\ Render(q)
  BY <1>1, <1>5, PageIsRendered
<1>6. CASE q.kind = "sign out" /\ AnswerWith(q, TRUE, Nobody)
  BY <1>1, <1>3, <1>6, ServerAnswers
<1>7. CASE q.kind = "call" /\ Serve(q)
  <2>1. PICK granted \in BOOLEAN, sets \in {Keep, Nobody} :
          AnswerWith(q, granted, sets) /\ (sets = Keep \/ ~granted)
    BY <1>7 DEF Serve
  <2> QED  BY <1>1, <1>3, <1>7, <2>1, ServerAnswers
<1> QED  BY <1>4, <1>5, <1>6, <1>7 DEF Answer

\* The cookie is set for one tab, or cleared for all of them.
LEMMA ResponseArrives ==
  ASSUME SessionsInv, NEW q \in asked, Receive(q)
  PROVE  SessionsInv'
<1>1. q \in SentRecords /\ AnswerFits(q) /\ SentFits(q) /\ q.tab \in Tab /\ q.sets \in Who \cup {Keep}
  BY DEF SessionsInv, SessionsTyped, SentRecords
<1>2. /\ q.stage = "answered" /\ cookie' = q.sets /\ shows' = shows
      /\ q.sets # Keep /\ q.kind # "visit"
      /\ q.sets = Nobody => swapped' = swapped
      /\ q.sets # Nobody => swapped' = IF q.own THEN Tab \ {q.tab} ELSE Tab
  BY <1>1 DEF Receive, AnswerFits
<1>3. /\ shows' \in [Tab -> Who] /\ cookie' \in Who /\ swapped' \subseteq Tab
      /\ \A t \in Tab : t \notin swapped' /\ (t # q.tab \/ ~q.own) =>
           t \notin swapped /\ cookie' \in {cookie, Nobody}
  BY <1>1, <1>2 DEF SessionsInv, SessionsTyped
<1>4. CASE ~q.own
  <2>1. asked' = asked \ {q}
    BY <1>4 DEF Receive
  <2> QED  BY <1>2, <1>3, <1>4, <2>1, RequestEnds
<1>5. CASE q.own
  <2>1. PICK r \in SentRecords : r = [q EXCEPT !.stage = "arrived"]
    BY <1>1 DEF SentRecords
  <2>2. /\ r.tab = q.tab /\ r.own = q.own /\ r.kind = q.kind /\ r.who = q.who
        /\ r.stage = "arrived" /\ r.granted = q.granted /\ r.sets = q.sets
    BY <1>1, <2>1 DEF SentRecords
  <2>3. asked' = (asked \ {q}) \cup {r}
    BY <1>5, <2>1 DEF Receive, Change
  <2>4. AnswerFits(r)
    BY <1>1, <1>5, <2>2 DEF AnswerFits
  <2>5. SentFits(r)'
    <3>1. CASE q.kind = "sign in"
      <4>1. q.granted /\ q.sets = q.who
        BY <1>1, <1>2, <3>1 DEF AnswerFits
      <4> QED  BY <1>2, <2>2, <3>1, <4>1 DEF SentFits, Changes, Stands
    <3>2. CASE q.kind \in {"sign out", "call"}
      <4>1. cookie' = Nobody
        BY <1>1, <1>2, <3>2 DEF AnswerFits
      <4> QED  BY <1>2, <2>2, <3>2, <4>1 DEF SentFits, Changes, Stands
    <3> QED  BY <1>1, <1>2, <3>1, <3>2 DEF SentRecords
  <2> QED  BY <1>2, <1>3, <2>2, <2>3, <2>4, <2>5, RequestGoesOn
<1> QED  BY <1>4, <1>5

LEMMA PageContinues ==
  ASSUME SessionsInv, NEW q \in asked, PageGoesOn(q)
  PROVE  SessionsInv'
<1>1. /\ q \in SentRecords /\ AnswerFits(q) /\ SentFits(q) /\ q.tab \in Tab /\ q.who \in Who
      /\ q.stage = "arrived" /\ cookie' = cookie
  BY DEF PageGoesOn, SessionsInv, SessionsTyped, SentRecords
<1>2. q.own /\ cookie' \in Who /\ swapped \subseteq Tab /\ shows \in [Tab -> Who]
  BY <1>1 DEF AnswerFits, SessionsInv, SessionsTyped
<1>3. CASE q.kind # "call"
  <2>1. /\ shows' = IF Changes(q) THEN [shows EXCEPT ![q.tab] = q.who] ELSE shows
        /\ asked' = asked \ {q} /\ swapped' = swapped
    BY <1>1, <1>3 DEF PageGoesOn, Changes
  <2>2. /\ shows' \in [Tab -> Who] /\ \A t \in Tab : t # q.tab => shows'[t] = shows[t]
        /\ shows'[q.tab] = IF Changes(q) THEN q.who ELSE shows[q.tab]
    BY <1>1, <1>2, <2>1
  <2>3. PICK who : who = shows'[q.tab]
    OBVIOUS
  <2>4. q.tab \notin swapped => Stands(who)'
    BY <1>1, <1>2, <2>2, <2>3 DEF SentFits, Stands
  <2> QED  BY <1>1, <1>2, <2>1, <2>2, <2>3, <2>4, RequestEnds
<1>4. CASE q.kind = "call" /\ q.granted
  <2>1. shows' = shows /\ asked' = asked \ {q} /\ swapped' = swapped
    BY <1>4 DEF PageGoesOn
  <2>2. PICK who : who = shows[q.tab]
    OBVIOUS
  <2>3. q.tab \notin swapped => Stands(who)'
    BY <1>1, <1>2, <1>4, <2>2 DEF SentFits, Changes, Stands
  <2> QED  BY <1>1, <1>2, <2>1, <2>2, <2>3, RequestEnds
<1>5. CASE q.kind = "call" /\ ~q.granted
  <2>1. shows' = shows /\ Leave(q.tab)
    BY <1>5 DEF PageGoesOn
  <2> QED  BY <1>1, <2>1, TabLeaves
<1> QED  BY <1>1, <1>3, <1>4, <1>5 DEF SentRecords

LEMMA RequestIsLost ==
  ASSUME SessionsInv, NEW q \in asked, GetsLost(q)
  PROVE  SessionsInv'
<1>1. /\ q.kind # "visit" /\ q.stage # "arrived" /\ asked' = asked \ {q}
      /\ cookie' = cookie /\ shows' = shows /\ swapped' = swapped
  BY DEF GetsLost
<1>2. /\ cookie' \in Who /\ swapped \subseteq Tab /\ shows \in [Tab -> Who] /\ SentFits(q)
  BY <1>1 DEF SessionsInv, SessionsTyped
<1>3. PICK who : who = shows[q.tab]
  OBVIOUS
<1>4. q.own /\ q.tab \notin swapped => Stands(who)'
  BY <1>1, <1>2, <1>3 DEF SentFits, Changes, Stands
<1> QED  BY <1>1, <1>2, <1>3, <1>4, RequestEnds

LEMMA CookieMayEnd ==
  ASSUME SessionsInv, cookie' \in {cookie, Nobody}, shows' = shows, asked' = asked,
         swapped' = swapped
  PROVE  SessionsInv'
<1>1. SessionsTyped'
  BY DEF SessionsInv, SessionsTyped, Who
<1>2. ASSUME NEW q \in asked' PROVE AnswerFits(q)' /\ SentFits(q)'
  <2>1. AnswerFits(q) /\ SentFits(q)
    BY <1>2 DEF SessionsInv
  <2> QED  BY <2>1 DEF AnswerFits, SentFits, Changes, Stands
<1>3. ASSUME NEW t \in Tab PROVE ShownFits(t)'
  BY <1>3 DEF SessionsInv, ShownFits, Stands, Waiting
<1>4. \A q, p \in asked' : q.own /\ p.own /\ q.tab = p.tab => q = p
  BY DEF SessionsInv
<1> QED  BY <1>1, <1>2, <1>3, <1>4 DEF SessionsInv

LEMMA SessionsKeep == SessionsInv /\ [SessionsNext]_sessionVars => SessionsInv'
<1> SUFFICES ASSUME SessionsInv, [SessionsNext]_sessionVars PROVE SessionsInv'
  OBVIOUS
<1>0. Account \subseteq Who /\ Nobody \in Who
  BY DEF Who
<1>1. ASSUME NEW t \in Tab, Visit(t) PROVE SessionsInv'
  <2>1. Leave(t) /\ cookie' = cookie /\ shows' = shows
    BY <1>1 DEF Visit
  <2> QED  BY <2>1, TabLeaves
<1>2. ASSUME NEW t \in Tab, NEW who \in Account, SendRequest(t, "sign in", who) PROVE SessionsInv'
  BY <1>0, <1>2, RequestIsSent
<1>3. ASSUME NEW t \in Tab, NEW kind \in {"sign out", "call"}, SendRequest(t, kind, Nobody)
      PROVE  SessionsInv'
  BY <1>0, <1>3, RequestIsSent
<1>4. ASSUME NEW q \in asked, Answer(q) \/ Receive(q) \/ PageGoesOn(q) \/ GetsLost(q)
      PROVE  SessionsInv'
  BY <1>4, RequestIsAnswered, ResponseArrives, PageContinues, RequestIsLost
<1>5. CASE CookieEnds
  BY <1>5, CookieMayEnd DEF CookieEnds
<1>6. CASE UNCHANGED sessionVars
  BY <1>6, CookieMayEnd DEF sessionVars
<1> QED  BY <1>1, <1>2, <1>3, <1>4, <1>5, <1>6 DEF SessionsNext

\* Unless another page has set the cookie since it was asked for, a page that
\* waits for no answer acts for the account that it shows, however many tabs
\* share the cookie and whichever answers still arrive.
THEOREM PagesActForTheShown == SessionsSpec => []ActsForTheShown
<1>1. SessionsInv => ActsForTheShown
  BY DEF SessionsInv, ShownFits, Stands, ActsForTheShown
<1> QED  BY <1>1, SessionsInitially, SessionsKeep, PTL DEF SessionsSpec
==============================================================================
