--------------------------- MODULE OrganizerProofs ---------------------------
(***************************************************************************)
(* What an organizer asks the backend for, for any number of requests in   *)
(* flight: ticket types, scanner devices, posters, guest lists and         *)
(* biographies; and the public pages that show the result.  The modules    *)
(* share no state; each part states its own theorems.                      *)
(***************************************************************************)
EXTENDS TicketTypes, ScannerDevices, ConcertPoster, GuestList, ArtistBio, PublicPages, FiniteSetTheorems, TLAPS

-----------------------------------------------------------------------------
(* Ticket types                                                            *)

Change ==
  [step : {"write"}, capacity : Size \cup {Keep}, start : Time \cup {Keep},
   end : Time \cup {Keep}, current : BOOLEAN]

TypesTyped ==
  /\ clock \in Time /\ outdated \in BOOLEAN
  /\ ticketType \in [capacity : 0..MaxCapacity, start : Time, end : Time]
  /\ counter \in [total : 0..MaxCapacity, out : Nat]
  /\ change \in [Seller -> {NoChange} \cup Change]

\* A type that has been made has seats, and one that has not sells none.
TypeIsMade ==
  /\ ticketType.capacity = counter.total
  /\ ticketType = NotCreated => counter.out = 0
  /\ ticketType # NotCreated => ticketType.capacity > 0

\* A request that nothing has overtaken would still pass its checks.
CurrentFits(c) ==
  /\ Restricted(c) => clock < ticketType.start
  /\ Chosen(c.start, ticketType.start) < Chosen(c.end, ticketType.end)
  /\ c.capacity # Keep => counter.out <= c.capacity
ChangesFit ==
  \A s \in Seller : change[s] # NoChange =>
    /\ ticketType # NotCreated
    /\ change[s].current => CurrentFits(change[s])

TypesInv == TypesTyped /\ TypeIsMade /\ ChangesFit /\ TicketTypeIsSound

LEMMA ChangeFields ==
  \A c \in Change : c # NoChange /\ c.step = "write" /\ c.capacity \in Size \cup {Keep}
    /\ c.start \in Time \cup {Keep} /\ c.end \in Time \cup {Keep} /\ c.current \in BOOLEAN
  BY DEF Change, NoChange

LEMMA OvertakenEntry ==
  \A c \in Change : [c EXCEPT !.current = FALSE] \in Change
                    /\ ~[c EXCEPT !.current = FALSE].current
  BY Zenon DEF Change

LEMMA OvertakenFields ==
  ASSUME change \in [Seller -> {NoChange} \cup Change]
  PROVE  /\ Overtaken \in [Seller -> {NoChange} \cup Change]
         /\ \A s \in Seller : Overtaken[s] # NoChange =>
              change[s] # NoChange /\ ~Overtaken[s].current
<1>1. \A s \in Seller : change[s] # NoChange =>
        [change[s] EXCEPT !.current = FALSE] \in Change
        /\ ~[change[s] EXCEPT !.current = FALSE].current
  BY OvertakenEntry
<1> QED  BY <1>1, Zenon DEF Overtaken

LEMMA TypesInitially == TypesInit => TypesInv
<1> SUFFICES ASSUME TypesInit PROVE TypesInv
  OBVIOUS
<1>1. NotCreated \in [capacity : 0..MaxCapacity, start : Time, end : Time]
  BY TypesAssumption DEF NotCreated, Time
<1>2. [total |-> 0, out |-> 0] \in [total : 0..MaxCapacity, out : Nat]
  BY TypesAssumption
<1>3. TypesTyped
  <2>1. clock \in Time
    BY TypesAssumption DEF TypesInit, Time
  <2> QED  BY <1>1, <1>2, <2>1, Zenon DEF TypesInit, TypesTyped
<1>4. NotCreated.capacity = 0 /\ \A s \in Seller : change[s] = NoChange
  BY DEF TypesInit, NotCreated
<1>5. ChangesFit
  BY <1>4 DEF ChangesFit
<1> QED
  BY <1>3, <1>4, <1>5 DEF TypesInit, TypesInv, TypeIsMade, TicketTypeIsSound

\* A step that leaves the two rows as they are and every request as it is, or
\* forgotten.
LEMMA CreateKeepsTypes ==
  ASSUME TypesInv, NEW s \in Seller, CreateTicketType(s)
  PROVE  TypesInv'
<1>1. PICK n \in Size, from, to \in Time :
        /\ from < to
        /\ ticketType' = [capacity |-> n, start |-> from, end |-> to]
        /\ counter' = [total |-> n, out |-> 0]
  BY DEF CreateTicketType
<1>2. ticketType = NotCreated /\ UNCHANGED <<clock, change, outdated>>
  BY DEF CreateTicketType
<1>3. \A r \in Seller : change[r] = NoChange
  BY <1>2 DEF TypesInv, ChangesFit
<1>4. n \in 0..MaxCapacity /\ n \in Nat /\ n > 0 /\ n <= MaxCapacity
  BY TypesAssumption DEF Size
<1>5. ticketType' \in [capacity : 0..MaxCapacity, start : Time, end : Time]
      /\ counter' \in [total : 0..MaxCapacity, out : Nat]
  BY <1>1, <1>4
<1>6. ticketType'.capacity = n /\ ticketType'.start = from /\ ticketType'.end = to
      /\ counter'.total = n /\ counter'.out = 0
  BY <1>1
<1>7. TypesTyped'
  BY <1>2, <1>5 DEF TypesInv, TypesTyped
<1>8. ChangesFit'
  BY <1>2, <1>3 DEF ChangesFit
<1> QED
  BY <1>1, <1>4, <1>6, <1>7, <1>8 DEF TypesInv, TypeIsMade, TicketTypeIsSound

LEMMA BeginKeepsTypes ==
  ASSUME TypesInv, NEW s \in Seller, ChangeBegin(s)
  PROVE  TypesInv'
<1>0. PICK n \in Size \cup {Keep}, from, to \in Time \cup {Keep} :
        \E c : /\ c = [step |-> "write", capacity |-> n, start |-> from, end |-> to, current |-> TRUE]
               /\ Restricted(c) => clock < ticketType.start
               /\ Chosen(from, ticketType.start) < Chosen(to, ticketType.end)
               /\ n # Keep => counter.out <= n
               /\ change' = [change EXCEPT ![s] = c]
  BY DEF ChangeBegin
<1>1. PICK c :
        /\ c = [step |-> "write", capacity |-> n, start |-> from, end |-> to, current |-> TRUE]
        /\ Restricted(c) => clock < ticketType.start
        /\ Chosen(from, ticketType.start) < Chosen(to, ticketType.end)
        /\ n # Keep => counter.out <= n
        /\ change' = [change EXCEPT ![s] = c]
  BY <1>0, Zenon
<1>2. ticketType # NotCreated /\ UNCHANGED <<clock, ticketType, counter, outdated>>
  BY DEF ChangeBegin
<1>3. c \in Change
  BY <1>1 DEF Change
<1>4. c.capacity = n /\ c.start = from /\ c.end = to
  BY <1>1
<1>5. CurrentFits(c)'
  BY <1>1, <1>2, <1>4 DEF CurrentFits
<1>6. TypesTyped'
  BY <1>1, <1>2, <1>3 DEF TypesInv, TypesTyped
<1>7. \A r \in Seller : change'[r] = IF r = s THEN c ELSE change[r]
  BY <1>1 DEF TypesInv, TypesTyped
<1>8. \A x : CurrentFits(x)' <=> CurrentFits(x)
  BY <1>2 DEF CurrentFits
<1>9. ChangesFit'
  BY <1>2, <1>5, <1>7, <1>8 DEF TypesInv, ChangesFit
<1> QED
  BY <1>2, <1>6, <1>9 DEF TypesInv, TypeIsMade, TicketTypeIsSound

LEMMA WriteKeepsTypes ==
  ASSUME TypesInv, NEW s \in Seller, ChangeWrite(s)
  PROVE  TypesInv'
<1> USE DEF TypesInv
<1>1. PICK c : c = change[s]
  OBVIOUS
<1>2. c \in Change
  BY <1>1 DEF ChangeWrite, TypesTyped, NoChange
<1>3. /\ ticketType' = [capacity |-> Chosen(c.capacity, ticketType.capacity),
                        start |-> Chosen(c.start, ticketType.start),
                        end |-> Chosen(c.end, ticketType.end)]
      /\ counter' = [counter EXCEPT !.total = Chosen(c.capacity, @)]
      /\ change' = [Overtaken EXCEPT ![s] = NoChange]
      /\ outdated' = (outdated \/ ~c.current) /\ UNCHANGED clock
  BY <1>1 DEF ChangeWrite
<1>4. /\ ticketType # NotCreated
      /\ c.current => CurrentFits(c)
  BY <1>1, <1>2, ChangeFields DEF ChangesFit
<1>5. /\ c.capacity \in Size \cup {Keep} /\ c.start \in Time \cup {Keep}
      /\ c.end \in Time \cup {Keep} /\ c.current \in BOOLEAN
  BY <1>2, ChangeFields
<1>6. /\ ticketType.capacity \in 0..MaxCapacity /\ ticketType.start \in Time
      /\ ticketType.end \in Time /\ ticketType.capacity > 0
      /\ ticketType.capacity = counter.total
  BY <1>4 DEF TypesTyped, TypeIsMade
<1>7. Chosen(c.capacity, ticketType.capacity) \in Size
  BY <1>5, <1>6, TypesAssumption DEF Chosen, Size, Keep
<1>8. Chosen(c.start, ticketType.start) \in Time /\ Chosen(c.end, ticketType.end) \in Time
  BY <1>5, <1>6 DEF Chosen
<1>9. /\ counter'.total = Chosen(c.capacity, ticketType.capacity)
      /\ counter'.out = counter.out /\ counter.out \in Nat
      /\ counter' \in [total : 0..MaxCapacity, out : Nat]
  <2>1. counter \in [total : 0..MaxCapacity, out : Nat]
    BY DEF TypesTyped
  <2>2. Chosen(c.capacity, counter.total) \in 0..MaxCapacity
    BY <1>6, <1>7 DEF Size
  <2>3. counter' = [counter EXCEPT !.total = Chosen(c.capacity, counter.total)]
    BY <1>3, <2>1
  <2> QED  BY <1>6, <2>1, <2>2, <2>3
<1>10. /\ ticketType'.capacity = Chosen(c.capacity, ticketType.capacity)
       /\ ticketType'.start = Chosen(c.start, ticketType.start)
       /\ ticketType'.end = Chosen(c.end, ticketType.end)
       /\ ticketType' \in [capacity : 0..MaxCapacity, start : Time, end : Time]
  <2>1. Chosen(c.capacity, ticketType.capacity) \in 0..MaxCapacity
    BY <1>7 DEF Size
  <2> QED  BY <1>3, <1>8, <2>1
<1>11. ticketType'.capacity > 0 /\ ticketType' # NotCreated
  BY <1>7, <1>10, TypesAssumption DEF Size, NotCreated
<1>12. change' \in [Seller -> {NoChange} \cup Change]
       /\ \A r \in Seller : change'[r] # NoChange => ~change'[r].current
  BY <1>3, OvertakenFields DEF TypesTyped
<1>13. TypesTyped'
  BY <1>3, <1>5, <1>9, <1>10, <1>12 DEF TypesTyped
<1>14. ChangesFit'
  BY <1>11, <1>12 DEF ChangesFit
<1>15. TypeIsMade'
  BY <1>9, <1>10, <1>11 DEF TypeIsMade
<1>16. outdated' \/ (/\ counter'.out <= counter'.total
                     /\ ticketType'.start < ticketType'.end)
  <2> SUFFICES ASSUME ~outdated, c.current
               PROVE  counter'.out <= counter'.total /\ ticketType'.start < ticketType'.end
    BY <1>3
  <2>1. CurrentFits(c) /\ counter.out <= counter.total
    BY <1>4 DEF TicketTypeIsSound
  <2> QED
    BY <1>6, <1>9, <1>10, <2>1 DEF CurrentFits, Chosen
<1> QED
  BY <1>13, <1>14, <1>15, <1>16 DEF TypeIsMade, TicketTypeIsSound

LEMMA SaleKeepsTypes ==
  ASSUME TypesInv, Take \/ GiveBack
  PROVE  TypesInv'
<1> USE DEF TypesInv
<1>1. /\ UNCHANGED <<clock, ticketType, change, outdated>>
      /\ counter.total \in 0..MaxCapacity /\ counter.out \in Nat
      /\ counter \in [total : 0..MaxCapacity, out : Nat]
  BY DEF Take, GiveBack, TypesTyped
<1>2. ticketType # NotCreated
  <2>1. CASE Take
    BY <2>1, TypesAssumption DEF Take, TypesTyped, NotCreated, Time
  <2>2. CASE GiveBack
    BY <2>2, <1>1 DEF GiveBack, TypeIsMade
  <2> QED  BY <2>1, <2>2
<1>3. /\ counter' \in [total : 0..MaxCapacity, out : Nat]
      /\ counter'.total = counter.total
      /\ \/ Take /\ counter'.out = counter.out + 1
         \/ GiveBack /\ counter'.out = counter.out - 1
  <2>1. CASE Take
    <3>1. counter' = [counter EXCEPT !.out = counter.out + 1]
      BY <2>1, <1>1 DEF Take
    <3>2. counter.out + 1 \in Nat
      BY <1>1
    <3> QED  BY <1>1, <2>1, <3>1, <3>2
  <2>2. CASE GiveBack
    <3>1. counter' = [counter EXCEPT !.out = counter.out - 1] /\ counter.out > 0
      BY <2>2, <1>1 DEF GiveBack
    <3>2. counter.out - 1 \in Nat
      BY <1>1, <3>1
    <3> QED  BY <1>1, <2>2, <3>1, <3>2
  <2> QED  BY <2>1, <2>2
<1>4. TypesTyped'
  BY <1>1, <1>3 DEF TypesTyped
<1>5. \A c \in Change : CurrentFits(c) => CurrentFits(c)'
  <2> SUFFICES ASSUME NEW c \in Change, CurrentFits(c)
               PROVE  CurrentFits(c)'
    OBVIOUS
  <2>1. c.capacity \in Size \cup {Keep}
    BY ChangeFields
  <2>2. CASE Take
    <3>1. ~Restricted(c)
      BY <2>2 DEF Take, CurrentFits, TypesTyped, Time
    <3> QED  BY <1>1, <3>1 DEF CurrentFits, Restricted
  <2>3. CASE GiveBack
    <3>1. counter'.out = counter.out - 1
      BY <2>3, <1>1 DEF GiveBack
    <3>2. c.capacity # Keep => counter'.out <= c.capacity
      BY <1>1, <2>1, <3>1 DEF CurrentFits, Size
    <3> QED  BY <1>1, <3>2 DEF CurrentFits
  <2> QED  BY <2>2, <2>3
<1>6. ChangesFit'
  BY <1>1, <1>2, <1>5 DEF ChangesFit, TypesTyped
<1>7. TypeIsMade'
  BY <1>1, <1>2, <1>3 DEF TypeIsMade
<1>8. outdated \/ counter'.out <= counter'.total
  <2>1. CASE Take
    BY <2>1, <1>1, <1>3 DEF Take
  <2>2. CASE GiveBack
    BY <2>2, <1>1, <1>2, <1>3 DEF GiveBack, TicketTypeIsSound
  <2> QED  BY <2>1, <2>2
<1> QED
  BY <1>1, <1>2, <1>3, <1>4, <1>6, <1>7, <1>8 DEF TicketTypeIsSound, TypeIsMade

LEMMA TickKeepsTypes ==
  ASSUME TypesInv, Tick
  PROVE  TypesInv'
<1> USE DEF TypesInv
<1>1. /\ clock \in 0..MaxTime /\ clock < MaxTime /\ clock' = clock + 1
      /\ UNCHANGED <<ticketType, counter, outdated>>
      /\ ticketType.start \in Time
  BY DEF Tick, TypesTyped, Time
<1>2. clock' \in Time
  BY <1>1, TypesAssumption DEF Time
<1>3. /\ change' \in [Seller -> {NoChange} \cup Change]
      /\ \A s \in Seller : change'[s] # NoChange =>
           change[s] # NoChange /\ (change'[s].current =>
             change'[s] = change[s] /\ ticketType.start # clock')
  BY OvertakenFields DEF Tick, TypesTyped
<1>4. \A c \in Change : CurrentFits(c) /\ ticketType.start # clock' => CurrentFits(c)'
  <2> SUFFICES ASSUME NEW c \in Change, CurrentFits(c), ticketType.start # clock'
               PROVE  CurrentFits(c)'
    OBVIOUS
  <2>1. Restricted(c) => clock' < ticketType.start
    BY <1>1, TypesAssumption DEF CurrentFits, Time
  <2> QED  BY <1>1, <2>1 DEF CurrentFits
<1>5. ChangesFit'
  <2> SUFFICES ASSUME NEW s \in Seller, change'[s] # NoChange
               PROVE  /\ ticketType' # NotCreated
                      /\ change'[s].current => CurrentFits(change[s])'
    BY DEF ChangesFit
  <2>1. change'[s] \in Change
    BY <1>3
  <2> QED  BY <1>1, <1>3, <1>4, <2>1 DEF ChangesFit
<1> QED
  BY <1>1, <1>2, <1>3, <1>5 DEF TypesTyped, TypeIsMade, TicketTypeIsSound

LEMMA FailureKeepsTypes ==
  ASSUME TypesInv, NEW s \in Seller, ChangeFails(s)
  PROVE  TypesInv'
<1> USE DEF TypesInv
<1>1. /\ change' = [change EXCEPT ![s] = NoChange]
      /\ UNCHANGED <<clock, ticketType, counter, outdated>>
  BY DEF ChangeFails
<1>2. TypesTyped'
  BY <1>1 DEF TypesTyped
<1>3. \A r \in Seller : change'[r] # NoChange => change'[r] = change[r]
  BY <1>1 DEF TypesTyped
<1>4. \A x : CurrentFits(x)' <=> CurrentFits(x)
  BY <1>1 DEF CurrentFits
<1>5. ChangesFit'
  BY <1>1, <1>3, <1>4 DEF ChangesFit
<1> QED
  BY <1>1, <1>2, <1>5 DEF TypeIsMade, TicketTypeIsSound

LEMMA TypesAreKept == TypesInv /\ [TypesNext]_typeVars => TypesInv'
<1> SUFFICES ASSUME TypesInv, [TypesNext]_typeVars PROVE TypesInv'
  OBVIOUS
<1>1. CASE \E s \in Seller :
             CreateTicketType(s) \/ ChangeBegin(s) \/ ChangeWrite(s) \/ ChangeFails(s)
  BY <1>1, CreateKeepsTypes, BeginKeepsTypes, WriteKeepsTypes, FailureKeepsTypes
<1>2. CASE Take \/ GiveBack
  BY <1>2, SaleKeepsTypes
<1>3. CASE Tick
  BY <1>3, TickKeepsTypes
<1>4. CASE UNCHANGED typeVars
  <2>1. UNCHANGED <<clock, ticketType, counter, change, outdated>>
    BY <1>4 DEF typeVars
  <2>2. \A x : CurrentFits(x)' <=> CurrentFits(x)
    BY <2>1 DEF CurrentFits
  <2> QED
    BY <2>1, <2>2 DEF TypesInv, TypesTyped, TypeIsMade, ChangesFit, TicketTypeIsSound
<1> QED
  BY <1>1, <1>2, <1>3, <1>4 DEF TypesNext

\* The capacity shown is the capacity sold, for any number of organizers; and
\* only a request that another one, or the start of the sale, has overtaken can
\* leave more seats out than there are or a sale that ends before it starts.
THEOREM TicketTypesStaySound == TypesSpec => []TicketTypeIsSound
<1>1. TypesInv => TicketTypeIsSound
  BY DEF TypesInv
<1> QED
  BY <1>1, TypesInitially, TypesAreKept, PTL DEF TypesSpec

-----------------------------------------------------------------------------
(* Scanner devices                                                         *)

\* A request to provision or to revoke the device, and one to assign it.
PlainTask ==
  [step : {"device", "assignments", "revoke", "disable"}, alone : BOOLEAN]
AssignTask ==
  [step : {"deactivate", "create", "refresh"}, alone : BOOLEAN, gate : Gate, id : Nat]
AssignmentRow ==
  [status : {"active", "inactive", "revoked"}, gate : Gate, manifest : BOOLEAN]

DevicesTyped ==
  /\ account \in {"none", "active", "disabled"} /\ device \in {"none", "active", "revoked"}
  /\ assignment \in Seq(AssignmentRow)
  /\ task \in [Officer -> {NoTask} \cup PlainTask \cup AssignTask]
  /\ settled \in Nat

\* Who runs alone has nobody else underway, and what it has done still stands.
AloneIsAlone ==
  \A a \in Officer : task[a] # NoTask /\ task[a].alone => Underway = {a}
AloneIsUndisturbed ==
  \A a \in Officer :
    /\ task[a].step = "refresh" => task[a].id \in DOMAIN assignment
    /\ task[a] # NoTask /\ task[a].alone =>
         /\ task[a].step = "create" => ActiveIds = {}
         /\ task[a].step = "refresh" => ActiveIds = {task[a].id}

\* Once an assignment is settled nothing happens until the next request.
SettledIsActive ==
  settled # Nothing =>
    /\ Underway = {} /\ settled \in DOMAIN assignment
    /\ ActiveIds = {settled} /\ assignment[settled].manifest

DevicesInv == DevicesTyped /\ AloneIsAlone /\ AloneIsUndisturbed /\ SettledIsActive

\* What the actions do to the record of a request, by name.
WithStep(r, st) == [r EXCEPT !.step = st]
WithId(r, i) == [r EXCEPT !.step = "refresh", !.id = i]
WithAlone(r, b) == [r EXCEPT !.alone = b]

LEMMA PlainTaskUpdates ==
  ASSUME NEW r \in PlainTask
  PROVE  /\ r # NoTask /\ r.alone \in BOOLEAN
         /\ r.step \in {"device", "assignments", "revoke", "disable"}
         /\ \A st \in {"revoke", "disable"} :
              /\ WithStep(r, st) \in PlainTask
              /\ WithStep(r, st).alone = r.alone /\ WithStep(r, st).step = st
         /\ \A b \in BOOLEAN :
              /\ WithAlone(r, b) \in PlainTask
              /\ WithAlone(r, b).alone = b /\ WithAlone(r, b).step = r.step
<1>1. r # NoTask /\ r.alone \in BOOLEAN
      /\ r.step \in {"device", "assignments", "revoke", "disable"}
  BY DEF PlainTask, NoTask
<1>2. ASSUME NEW st \in {"revoke", "disable"}
      PROVE  /\ WithStep(r, st) \in PlainTask
             /\ WithStep(r, st).alone = r.alone /\ WithStep(r, st).step = st
  BY Zenon DEF PlainTask, WithStep
<1>3. ASSUME NEW b \in BOOLEAN
      PROVE  /\ WithAlone(r, b) \in PlainTask
             /\ WithAlone(r, b).alone = b /\ WithAlone(r, b).step = r.step
  BY Zenon DEF PlainTask, WithAlone
<1> QED  BY <1>1, <1>2, <1>3

LEMMA AssignTaskUpdates ==
  ASSUME NEW r \in AssignTask
  PROVE  /\ r # NoTask /\ r.alone \in BOOLEAN /\ r.gate \in Gate /\ r.id \in Nat
         /\ r.step \in {"deactivate", "create", "refresh"}
         /\ /\ WithStep(r, "create") \in AssignTask
            /\ WithStep(r, "create").alone = r.alone /\ WithStep(r, "create").step = "create"
         /\ \A b \in BOOLEAN :
              /\ WithAlone(r, b) \in AssignTask /\ WithAlone(r, b).alone = b
              /\ WithAlone(r, b).step = r.step /\ WithAlone(r, b).id = r.id
<1>1. r # NoTask /\ r.alone \in BOOLEAN /\ r.gate \in Gate /\ r.id \in Nat
      /\ r.step \in {"deactivate", "create", "refresh"}
  BY DEF AssignTask, NoTask
<1>2. /\ WithStep(r, "create") \in AssignTask
      /\ WithStep(r, "create").alone = r.alone /\ WithStep(r, "create").step = "create"
  BY Zenon DEF AssignTask, WithStep
<1>3. ASSUME NEW b \in BOOLEAN
      PROVE  /\ WithAlone(r, b) \in AssignTask /\ WithAlone(r, b).alone = b
             /\ WithAlone(r, b).step = r.step /\ WithAlone(r, b).id = r.id
  BY Zenon DEF AssignTask, WithAlone
<1> QED  BY <1>1, <1>2, <1>3

LEMMA TaskGetsId ==
  ASSUME NEW r \in AssignTask, NEW i \in Nat
  PROVE  /\ WithId(r, i) \in AssignTask /\ WithId(r, i).alone = r.alone
         /\ WithId(r, i).step = "refresh" /\ WithId(r, i).id = i
<1>1. PICK q : q = [r EXCEPT !.step = "refresh"]
  OBVIOUS
<1>2. q \in AssignTask /\ q.alone = r.alone /\ q.step = "refresh"
  BY <1>1, Zenon DEF AssignTask
<1>3. WithId(r, i) = [q EXCEPT !.id = i]
  BY <1>1, Zenon DEF WithId
<1>4. /\ [q EXCEPT !.id = i] \in AssignTask /\ [q EXCEPT !.id = i].alone = q.alone
      /\ [q EXCEPT !.id = i].step = q.step /\ [q EXCEPT !.id = i].id = i
  BY <1>2, Zenon DEF AssignTask
<1> QED  BY <1>2, <1>3, <1>4, Zenon

\* What another request does to those underway when it begins.
LEMMA ReceiveFields ==
  ASSUME DevicesTyped, NEW a \in Officer, NEW t \in PlainTask \cup AssignTask,
         ~t.alone, Receive(a, t)
  PROVE  /\ task[a] = NoTask /\ settled' = Nothing
         /\ task' \in [Officer -> {NoTask} \cup PlainTask \cup AssignTask]
         /\ task'[a] # NoTask /\ task'[a].step = t.step
         /\ task'[a].alone => Underway = {}
         /\ \A b \in Officer \ {a} :
              /\ task[b] = NoTask => task'[b] = NoTask
              /\ task[b] # NoTask =>
                   /\ task'[b] # NoTask /\ ~task'[b].alone /\ task'[b].step = task[b].step
                   /\ task[b] \in AssignTask => task'[b].id = task[b].id
<1>1. task[a] = NoTask /\ settled' = Nothing
  BY DEF Receive
<1>2. task' = [b \in Officer |->
        IF b = a THEN WithAlone(t, Underway = {})
        ELSE IF b \in Underway THEN WithAlone(task[b], FALSE) ELSE task[b]]
  BY DEF Receive, WithAlone
<1>3. (Underway = {}) \in BOOLEAN /\ FALSE \in BOOLEAN
  OBVIOUS
<1>4. /\ WithAlone(t, Underway = {}) \in PlainTask \cup AssignTask
      /\ WithAlone(t, Underway = {}).alone = (Underway = {})
      /\ WithAlone(t, Underway = {}).step = t.step
      /\ WithAlone(t, Underway = {}) # NoTask
  <2>1. PICK alone \in BOOLEAN : alone = (Underway = {})
    BY <1>3
  <2>2. /\ WithAlone(t, alone) \in PlainTask \cup AssignTask
        /\ WithAlone(t, alone).alone = alone
        /\ WithAlone(t, alone).step = t.step
        /\ WithAlone(t, alone) # NoTask
    <3>1. CASE t \in PlainTask
      <4>1. /\ WithAlone(t, alone) \in PlainTask
            /\ WithAlone(t, alone).alone = alone /\ WithAlone(t, alone).step = t.step
        BY <3>1, PlainTaskUpdates
      <4> QED  BY <4>1, PlainTaskUpdates
    <3>2. CASE t \in AssignTask
      <4>1. /\ WithAlone(t, alone) \in AssignTask
            /\ WithAlone(t, alone).alone = alone /\ WithAlone(t, alone).step = t.step
        BY <3>2, AssignTaskUpdates
      <4> QED  BY <4>1, AssignTaskUpdates
    <3> QED  BY <3>1, <3>2
  <2> QED  BY <2>1, <2>2
<1>5. ASSUME NEW b \in Officer, task[b] # NoTask
      PROVE  LET q == WithAlone(task[b], FALSE)
             IN /\ q \in PlainTask \cup AssignTask /\ q # NoTask
                /\ ~q.alone /\ q.step = task[b].step
                /\ task[b] \in AssignTask => q.id = task[b].id
  <2>1. task[b] \in PlainTask \cup AssignTask
    BY <1>5 DEF DevicesTyped
  <2> QED  BY <1>3, <2>1, PlainTaskUpdates, AssignTaskUpdates
<1>6. \A b \in Officer : b \in Underway <=> task[b] # NoTask
  BY DEF Underway
<1>7. \A b \in Officer : task'[b] =
        IF b = a THEN WithAlone(t, Underway = {})
        ELSE IF b \in Underway THEN WithAlone(task[b], FALSE) ELSE task[b]
  BY <1>2
<1>8. \A b \in Officer : task[b] \in {NoTask} \cup PlainTask \cup AssignTask
  BY DEF DevicesTyped
<1>9. \A b \in Officer : task'[b] \in {NoTask} \cup PlainTask \cup AssignTask
  BY <1>4, <1>5, <1>6, <1>7, <1>8
<1>10. task' \in [Officer -> {NoTask} \cup PlainTask \cup AssignTask]
  BY <1>2, <1>9
<1> QED
  BY <1>1, <1>4, <1>5, <1>6, <1>7, <1>10

\* A request that begins changes nothing but the requests.
LEMMA ReceiveKeepsDevices ==
  ASSUME DevicesInv, NEW a \in Officer, NEW t \in PlainTask \cup AssignTask,
         ~t.alone, t.step \notin {"create", "refresh"}, Receive(a, t),
         account' \in {"none", "active", "disabled"}, UNCHANGED <<device, assignment>>
  PROVE  DevicesInv'
<1> USE DEF DevicesInv
<1>1. /\ task[a] = NoTask /\ settled' = Nothing
      /\ task' \in [Officer -> {NoTask} \cup PlainTask \cup AssignTask]
      /\ task'[a] # NoTask /\ task'[a].step = t.step
      /\ task'[a].alone => Underway = {}
      /\ \A b \in Officer \ {a} :
           /\ task[b] = NoTask => task'[b] = NoTask
           /\ task[b] # NoTask =>
                /\ task'[b] # NoTask /\ ~task'[b].alone /\ task'[b].step = task[b].step
                /\ task[b] \in AssignTask => task'[b].id = task[b].id
  BY ReceiveFields
<1>2. DevicesTyped' /\ ActiveIds' = ActiveIds /\ SettledIsActive'
  BY <1>1 DEF DevicesTyped, ActiveIds, SettledIsActive, Nothing
<1>3. AloneIsAlone'
  BY <1>1 DEF AloneIsAlone, Underway
<1>4. ASSUME NEW b \in Officer, task'[b].step = "refresh"
      PROVE  task'[b].id \in DOMAIN assignment
  <2>1. b # a /\ task[b] # NoTask
    BY <1>1, <1>4 DEF NoTask
  <2>2. task[b].step = "refresh" /\ task[b] \in AssignTask
    <3>1. task[b].step = "refresh" /\ task[b] \in PlainTask \cup AssignTask
      BY <1>1, <1>4, <2>1 DEF DevicesTyped
    <3> QED  BY <3>1, PlainTaskUpdates
  <2> QED  BY <1>1, <2>1, <2>2 DEF AloneIsUndisturbed
<1>5. AloneIsUndisturbed'
  BY <1>1, <1>4 DEF AloneIsUndisturbed
<1> QED  BY <1>2, <1>3, <1>5

\* A request that ends or is forgotten leaves the rows alone.
LEMMA EndKeepsDevices ==
  ASSUME DevicesInv, NEW a \in Officer, task[a] # NoTask, Ends(a),
         UNCHANGED assignment,
         account' \in {"none", "active", "disabled"}, device' \in {"none", "active", "revoked"},
         settled' = settled
  PROVE  DevicesInv'
<1> USE DEF DevicesInv
<1>1. \A b \in Officer : task'[b] = IF b = a THEN NoTask ELSE task[b]
  BY DEF Ends, DevicesTyped
<1>2. settled = Nothing
  BY DEF SettledIsActive, Underway
<1>3. DevicesTyped' /\ ActiveIds' = ActiveIds /\ SettledIsActive'
  BY <1>2 DEF Ends, DevicesTyped, ActiveIds, SettledIsActive
<1>4. AloneIsAlone'
  BY <1>1 DEF AloneIsAlone, Underway
<1>5. NoTask.step = "idle"
  BY DEF NoTask
<1>6. AloneIsUndisturbed'
  BY <1>1, <1>3, <1>5 DEF AloneIsUndisturbed
<1> QED  BY <1>3, <1>4, <1>6

\* updateMany changes the status of rows and nothing else.
LEMMA StatusFields ==
  ASSUME assignment \in Seq(AssignmentRow), NEW ids, NEW st \in {"inactive", "revoked"},
         SetDevices(ids, st), ActiveIds \subseteq ids
  PROVE  assignment' \in Seq(AssignmentRow) /\ DOMAIN assignment' = DOMAIN assignment
         /\ ActiveIds' = {}
<1>1. \A r \in AssignmentRow :
        [r EXCEPT !.status = st] \in AssignmentRow /\ [r EXCEPT !.status = st].status = st
  BY Zenon DEF AssignmentRow
<1>2. assignment' = [i \in DOMAIN assignment |->
        IF i \in ids THEN [assignment[i] EXCEPT !.status = st] ELSE assignment[i]]
  BY DEF SetDevices
<1>3. DOMAIN assignment = 1..Len(assignment) /\ Len(assignment) \in Nat
      /\ \A i \in DOMAIN assignment : assignment[i] \in AssignmentRow
  OBVIOUS
<1>4. \A i \in DOMAIN assignment : assignment'[i] \in AssignmentRow
        /\ assignment'[i].status # "active"
  BY <1>1, <1>2, <1>3 DEF ActiveIds
<1>5. DOMAIN assignment' = DOMAIN assignment
  BY <1>2
<1>6. assignment' \in Seq(AssignmentRow)
  BY <1>2, <1>3, <1>4
<1> QED  BY <1>4, <1>5, <1>6 DEF ActiveIds

LEMMA StatusKeepsDevices ==
  ASSUME DevicesInv, NEW a \in Officer,
         NEW from \in {"deactivate", "assignments"}, task[a].step = from,
         NEW to \in {"create", "revoke"}, from = "deactivate" <=> to = "create",
         NEW st \in {"inactive", "revoked"}, NEW ids, ActiveIds \subseteq ids,
         SetDevices(ids, st), Step(a, to), UNCHANGED <<account, device, settled>>
  PROVE  DevicesInv'
<1> USE DEF DevicesInv
<1>1. assignment' \in Seq(AssignmentRow) /\ DOMAIN assignment' = DOMAIN assignment
      /\ ActiveIds' = {}
  BY StatusFields DEF DevicesTyped
<1>2. task[a] # NoTask
  BY DEF NoTask
<1>3. \A b \in Officer : task'[b] = IF b = a THEN WithStep(task[a], to) ELSE task[b]
  BY DEF Step, WithStep, DevicesTyped
<1>4. /\ task'[a] \in PlainTask \cup AssignTask /\ task'[a] # NoTask
      /\ task'[a].alone = task[a].alone /\ task'[a].step = to
  <2>1. CASE task[a] \in PlainTask
    <3>1. to = "revoke"
      BY <2>1, PlainTaskUpdates
    <3>2. PICK q : q = WithStep(task[a], to)
      OBVIOUS
    <3>3. q \in PlainTask /\ q.alone = task[a].alone /\ q.step = to /\ q # NoTask
      BY <2>1, <3>1, <3>2, PlainTaskUpdates
    <3> QED  BY <1>3, <3>2, <3>3
  <2>2. CASE task[a] \in AssignTask
    <3>1. to = "create"
      BY <2>2, AssignTaskUpdates
    <3>2. PICK q : q = WithStep(task[a], to)
      OBVIOUS
    <3>3. q \in AssignTask /\ q.alone = task[a].alone /\ q.step = to /\ q # NoTask
      BY <2>2, <3>1, <3>2, AssignTaskUpdates
    <3> QED  BY <1>3, <3>2, <3>3
  <2> QED  BY <1>2, <2>1, <2>2 DEF DevicesTyped
<1>5. task' \in [Officer -> {NoTask} \cup PlainTask \cup AssignTask]
  <2>1. task' = [task EXCEPT ![a] = task'[a]]
    BY <1>3 DEF Step, DevicesTyped
  <2> QED  BY <1>4, <2>1 DEF DevicesTyped
<1>6. settled = Nothing
  BY <1>2 DEF SettledIsActive, Underway
<1>7. DevicesTyped' /\ SettledIsActive'
  BY <1>1, <1>5, <1>6 DEF DevicesTyped, SettledIsActive
<1>8. Underway' = Underway /\ AloneIsAlone'
  BY <1>2, <1>3, <1>4 DEF AloneIsAlone, Underway
<1>9. ASSUME NEW b \in Officer
      PROVE  /\ task'[b].step = "refresh" => b # a /\ task'[b].id \in DOMAIN assignment'
             /\ task'[b] # NoTask /\ task'[b].alone => b = a
  <2>1. b # a => task'[b] = task[b]
    BY <1>3
  <2>2. task'[b].step = "refresh" => b # a
    BY <1>4
  <2>3. task[b] # NoTask /\ task[b].alone => b = a
    BY <1>2 DEF AloneIsAlone, Underway
  <2> QED  BY <1>1, <2>1, <2>2, <2>3 DEF AloneIsUndisturbed
<1>10. AloneIsUndisturbed'
  BY <1>1, <1>4, <1>9 DEF AloneIsUndisturbed
<1> QED  BY <1>7, <1>8, <1>10

LEMMA CreateKeepsDevices ==
  ASSUME DevicesInv, NEW a \in Officer, CreateAssignment(a)
  PROVE  DevicesInv'
<1> USE DEF DevicesInv
<1>1. /\ task[a].step = "create" /\ task[a] # NoTask
      /\ UNCHANGED <<account, device, settled>>
  BY DEF CreateAssignment, NoTask
<1>2. task[a] \in AssignTask
  BY <1>1, PlainTaskUpdates DEF DevicesTyped
<1>3. PICK made : /\ made = [status |-> "active", gate |-> task[a].gate, manifest |-> FALSE]
                  /\ assignment' = Append(assignment, made)
  BY DEF CreateAssignment
<1>4. made \in AssignmentRow /\ made.status = "active"
  BY <1>2, <1>3, AssignTaskUpdates DEF AssignmentRow
<1>5. PICK n \in Nat : n = Len(assignment) + 1
  BY DEF DevicesTyped
<1>6. /\ assignment' \in Seq(AssignmentRow) /\ Len(assignment') = n
      /\ DOMAIN assignment' = DOMAIN assignment \cup {n} /\ n \notin DOMAIN assignment
      /\ assignment'[n] = made
      /\ \A i \in DOMAIN assignment : assignment'[i] = assignment[i]
  BY <1>3, <1>4, <1>5 DEF DevicesTyped
<1>7. ActiveIds' = ActiveIds \cup {n}
  BY <1>4, <1>6 DEF ActiveIds
<1>8. task' = [task EXCEPT ![a] = WithId(task[a], n)]
  BY <1>6 DEF CreateAssignment, WithId, DevicesTyped
<1>9. /\ task'[a] \in AssignTask /\ task'[a] # NoTask
      /\ task'[a].alone = task[a].alone /\ task'[a].step = "refresh" /\ task'[a].id = n
      /\ task' \in [Officer -> {NoTask} \cup PlainTask \cup AssignTask]
      /\ \A b \in Officer \ {a} : task'[b] = task[b]
  <2>1. PICK q : q = WithId(task[a], n)
    OBVIOUS
  <2>2. /\ q \in AssignTask /\ q # NoTask
        /\ q.alone = task[a].alone /\ q.step = "refresh" /\ q.id = n
    <3>1. /\ q \in AssignTask /\ q.alone = task[a].alone
          /\ q.step = "refresh" /\ q.id = n
      BY <1>2, <1>5, <2>1, TaskGetsId
    <3> QED  BY <3>1, AssignTaskUpdates
  <2>3. task' = [task EXCEPT ![a] = q]
    BY <1>8, <2>1
  <2> QED  BY <2>2, <2>3 DEF DevicesTyped
<1>10. settled = Nothing
  BY <1>1 DEF SettledIsActive, Underway
<1>11. DevicesTyped' /\ SettledIsActive'
  BY <1>1, <1>6, <1>9, <1>10 DEF DevicesTyped, SettledIsActive
<1>12. Underway' = Underway /\ AloneIsAlone'
  BY <1>1, <1>9 DEF AloneIsAlone, Underway
<1>13. \A b \in Officer \ {a} : task[b] # NoTask => ~task[b].alone
  BY <1>1 DEF AloneIsAlone, Underway
<1>14. task[a].alone => ActiveIds = {}
  BY <1>1 DEF AloneIsUndisturbed
<1>15. AloneIsUndisturbed'
  <2> SUFFICES ASSUME NEW b \in Officer
               PROVE  /\ task'[b].step = "refresh" => task'[b].id \in DOMAIN assignment'
                      /\ task'[b] # NoTask /\ task'[b].alone =>
                           /\ task'[b].step = "create" => ActiveIds' = {}
                           /\ task'[b].step = "refresh" => ActiveIds' = {task'[b].id}
    BY DEF AloneIsUndisturbed
  <2>1. CASE b = a
    BY <1>6, <1>7, <1>9, <1>14, <2>1
  <2>2. CASE b # a
    BY <1>6, <1>9, <1>13, <2>2 DEF AloneIsUndisturbed
  <2> QED  BY <2>1, <2>2
<1> QED  BY <1>11, <1>12, <1>15

LEMMA RefreshKeepsDevices ==
  ASSUME DevicesInv, NEW a \in Officer, RefreshNew(a)
  PROVE  DevicesInv'
<1> USE DEF DevicesInv
<1>1. /\ task[a].step = "refresh" /\ task[a] # NoTask /\ Ends(a)
      /\ UNCHANGED <<account, device>>
      /\ settled' = IF task[a].alone THEN task[a].id ELSE settled
  BY DEF RefreshNew, NoTask
<1>2. PICK i \in DOMAIN assignment : i = task[a].id
  BY <1>1 DEF AloneIsUndisturbed
<1>3. assignment' = [assignment EXCEPT ![i] = [assignment[i] EXCEPT !.manifest = TRUE]]
  BY <1>2 DEF RefreshNew
<1>4. /\ DOMAIN assignment = 1..Len(assignment) /\ Len(assignment) \in Nat
      /\ \A j \in DOMAIN assignment : assignment[j] \in AssignmentRow
  BY DEF DevicesTyped
<1>5. PICK sent \in AssignmentRow :
        /\ assignment' = [assignment EXCEPT ![i] = sent]
        /\ sent.manifest /\ sent.status = assignment[i].status
  <2>1. \A r \in AssignmentRow :
          /\ [r EXCEPT !.manifest = TRUE] \in AssignmentRow
          /\ [r EXCEPT !.manifest = TRUE].manifest
          /\ [r EXCEPT !.manifest = TRUE].status = r.status
    BY Zenon DEF AssignmentRow
  <2> QED  BY <1>3, <1>4, <2>1, Zenon
<1>6. /\ DOMAIN assignment' = DOMAIN assignment
      /\ \A j \in DOMAIN assignment :
           assignment'[j] \in AssignmentRow /\ assignment'[j].status = assignment[j].status
      /\ assignment'[i].manifest
  BY <1>4, <1>5
<1>7. assignment' \in Seq(AssignmentRow) /\ ActiveIds' = ActiveIds
  <2>1. assignment' \in Seq(AssignmentRow)
    BY <1>4, <1>5 DEF DevicesTyped
  <2> QED  BY <1>6, <2>1 DEF ActiveIds
<1>8. \A b \in Officer : task'[b] = IF b = a THEN NoTask ELSE task[b]
  BY <1>1 DEF Ends, DevicesTyped
<1>9. settled = Nothing
  BY <1>1 DEF SettledIsActive, Underway
<1>10. DevicesTyped'
  BY <1>1, <1>2, <1>4, <1>7, <1>9 DEF DevicesTyped, Ends, Nothing
<1>11. AloneIsAlone'
  BY <1>8 DEF AloneIsAlone, Underway
<1>12. NoTask.step = "idle"
  BY DEF NoTask
<1>13. AloneIsUndisturbed'
  BY <1>6, <1>7, <1>8, <1>12 DEF AloneIsUndisturbed
<1>14. SettledIsActive'
  <2> SUFFICES ASSUME task[a].alone
               PROVE  Underway' = {} /\ ActiveIds' = {i} /\ settled' = i
    BY <1>1, <1>6, <1>9 DEF SettledIsActive
  <2> QED  BY <1>1, <1>2, <1>7, <1>8 DEF AloneIsAlone, AloneIsUndisturbed, Underway
<1> QED  BY <1>10, <1>11, <1>13, <1>14

LEMMA RevokeKeepsDevices ==
  ASSUME DevicesInv, NEW a \in Officer, RevokeDevice(a)
  PROVE  DevicesInv'
<1> USE DEF DevicesInv
<1>1. /\ task[a].step = "revoke" /\ task[a] # NoTask /\ device' = "revoked"
      /\ task' = [task EXCEPT ![a] = WithStep(task[a], "disable")]
      /\ UNCHANGED <<account, assignment, settled>>
  BY DEF RevokeDevice, NoTask, Step, WithStep
<1>2. task[a] \in PlainTask
  BY <1>1, AssignTaskUpdates DEF DevicesTyped
<1>3. /\ task'[a] \in PlainTask /\ task'[a] # NoTask
      /\ task'[a].alone = task[a].alone /\ task'[a].step = "disable"
      /\ task' \in [Officer -> {NoTask} \cup PlainTask \cup AssignTask]
      /\ \A b \in Officer \ {a} : task'[b] = task[b]
  <2>1. PICK q : q = WithStep(task[a], "disable")
    OBVIOUS
  <2>2. q \in PlainTask /\ q # NoTask /\ q.alone = task[a].alone /\ q.step = "disable"
    BY <1>2, <2>1, PlainTaskUpdates
  <2>3. task' = [task EXCEPT ![a] = q]
    BY <1>1, <2>1
  <2> QED  BY <2>2, <2>3 DEF DevicesTyped
<1>4. Underway' = Underway /\ AloneIsAlone' /\ ActiveIds' = ActiveIds
  BY <1>1, <1>3 DEF AloneIsAlone, Underway, ActiveIds
<1>5. AloneIsUndisturbed'
  BY <1>1, <1>3, <1>4 DEF AloneIsUndisturbed
<1> QED
  BY <1>1, <1>3, <1>4, <1>5 DEF DevicesTyped, SettledIsActive

LEMMA DevicesInitially == DevicesInit => DevicesInv
<1> SUFFICES ASSUME DevicesInit PROVE DevicesInv
  OBVIOUS
<1>1. assignment \in Seq(AssignmentRow) /\ \A a \in Officer : task[a] = NoTask
  BY DEF DevicesInit
<1>2. NoTask.step = "idle"
  BY DEF NoTask
<1> QED
  BY <1>1, <1>2 DEF DevicesInit, DevicesInv, DevicesTyped, AloneIsAlone, AloneIsUndisturbed,
    SettledIsActive, Nothing

LEMMA DevicesAreKept == DevicesInv /\ [DevicesNext]_deviceVars => DevicesInv'
<1> SUFFICES ASSUME DevicesInv, [DevicesNext]_deviceVars PROVE DevicesInv'
  OBVIOUS
<1>1. CASE UNCHANGED deviceVars
  BY <1>1 DEF deviceVars, DevicesInv, DevicesTyped, AloneIsAlone, AloneIsUndisturbed,
    SettledIsActive, ActiveIds, Underway
<1>2. ASSUME NEW a \in Officer, Provision(a)
      PROVE  DevicesInv'
  <2>1. PICK t : t = [step |-> "device", alone |-> FALSE]
    OBVIOUS
  <2>2. t \in PlainTask /\ ~t.alone /\ t.step = "device"
    BY <2>1 DEF PlainTask
  <2> QED  BY <1>2, <2>1, <2>2, ReceiveKeepsDevices DEF Provision
<1>3. ASSUME NEW a \in Officer, RevokeBegin(a)
      PROVE  DevicesInv'
  <2>1. PICK t : t = [step |-> "assignments", alone |-> FALSE]
    OBVIOUS
  <2>2. t \in PlainTask /\ ~t.alone /\ t.step = "assignments"
    BY <2>1 DEF PlainTask
  <2> QED
    BY <1>3, <2>1, <2>2, ReceiveKeepsDevices DEF RevokeBegin, DevicesInv, DevicesTyped
<1>4. ASSUME NEW a \in Officer, NEW g \in Gate, AssignBegin(a, g)
      PROVE  DevicesInv'
  <2>1. PICK t : t = [step |-> "deactivate", alone |-> FALSE, gate |-> g, id |-> Nothing]
    OBVIOUS
  <2>2. t \in AssignTask /\ ~t.alone /\ t.step = "deactivate"
    BY <2>1 DEF AssignTask, Nothing
  <2> QED
    BY <1>4, <2>1, <2>2, ReceiveKeepsDevices DEF AssignBegin, DevicesInv, DevicesTyped
<1>5. ASSUME NEW a \in Officer, CreateDevice(a) \/ DisableAccount(a) \/ OfficerDies(a)
      PROVE  DevicesInv'
  <2>1. task[a] # NoTask
    BY <1>5 DEF CreateDevice, DisableAccount, OfficerDies, NoTask
  <2>2. /\ Ends(a) /\ UNCHANGED <<assignment, settled>>
        /\ account' \in {"none", "active", "disabled"} /\ device' \in {"none", "active", "revoked"}
    BY <1>5 DEF CreateDevice, DisableAccount, OfficerDies, DevicesInv, DevicesTyped
  <2> QED  BY <2>1, <2>2, EndKeepsDevices
<1>6. ASSUME NEW a \in Officer, Deactivate(a)
      PROVE  DevicesInv'
  <2>1. /\ task[a].step = "deactivate" /\ SetDevices(Closed, "inactive") /\ Step(a, "create")
        /\ UNCHANGED <<account, device, settled>> /\ ActiveIds \subseteq Closed
    BY <1>6 DEF Deactivate, Closed
  <2>2. PICK ids : ids = Closed
    OBVIOUS
  <2> QED  BY <2>1, <2>2, StatusKeepsDevices
<1>7. ASSUME NEW a \in Officer, RevokeAssignments(a)
      PROVE  DevicesInv'
  <2>1. /\ task[a].step = "assignments" /\ SetDevices(ActiveIds, "revoked") /\ Step(a, "revoke")
        /\ UNCHANGED <<account, device, settled>>
    BY <1>7 DEF RevokeAssignments
  <2>2. PICK ids : ids = ActiveIds
    OBVIOUS
  <2> QED  BY <2>1, <2>2, StatusKeepsDevices
<1> QED
  BY <1>1, <1>2, <1>3, <1>4, <1>5, <1>6, <1>7, CreateKeepsDevices, RefreshKeepsDevices,
    RevokeKeepsDevices DEF DevicesNext

\* However many administrators provision, assign and revoke the device at once,
\* and wherever they die: after an assignment that ran alone the device works at
\* that gate and at no other.
THEOREM LastAssignmentAlwaysHolds == DevicesSpec => []LastAssignmentHolds
<1>1. DevicesInv => LastAssignmentHolds
  <2> SUFFICES ASSUME DevicesInv, settled # Nothing
               PROVE  /\ ActiveIds = {settled} /\ assignment[settled].manifest
                      /\ device = "active" => Authorized = "ok"
    BY DEF LastAssignmentHolds
  <2>1. ActiveIds = {settled} /\ assignment[settled].manifest
    BY DEF DevicesInv, SettledIsActive
  <2>2. Cardinality(ActiveIds) = 1
    BY <2>1, FS_Singleton
  <2>3. device = "active" => Authorized = "ok"
    BY <2>1, <2>2 DEF Authorized
  <2> QED  BY <2>1, <2>3
<1> QED
  BY <1>1, DevicesInitially, DevicesAreKept, PTL DEF DevicesSpec

-----------------------------------------------------------------------------
(* Posters                                                                 *)

FileKey == [version : Nat, token : Nat]
PosterRow ==
  [status : {"draft", "published", "canceled", "gone"}, poster : FileKey]
EditSteps == {"withdraw", "check", "publish", "delete", "save", "swap", "cleanup"}
Edit == [step : EditSteps, was : PosterRow, key : FileKey]

PosterTyped ==
  /\ concertRow \in PosterRow /\ saved \in Nat
  /\ edit \in [Editor -> {NoEdit} \cup Edit]

Busy(m) == edit[m] # NoEdit

\* No key that is known anywhere is one that will be made.
KeysAreOld ==
  /\ concertRow.poster.token <= saved
  /\ \A m \in Editor : Busy(m) =>
       edit[m].key.token <= saved /\ edit[m].was.poster.token <= saved

KeyFollowsStep ==
  \A m \in Editor : Busy(m) =>
    /\ edit[m].step \notin {"swap", "cleanup"} => edit[m].key = NoKey
    /\ edit[m].step = "publish" => edit[m].was.poster # NoKey

\* The file of an upload is there, and nobody else knows its key.
NewFiles ==
  \A m \in Editor : edit[m].step = "swap" =>
    /\ edit[m].key \in posters /\ edit[m].key # concertRow.poster
    /\ \A n \in Editor : Busy(n) => edit[n].was.poster # edit[m].key
    /\ \A n \in Editor \ {m} : Busy(n) => edit[n].key # edit[m].key

\* What is about to be deleted is not the poster of the row.
OldFiles ==
  \A m \in Editor : edit[m].step = "cleanup" => edit[m].key \notin {concertRow.poster, NoKey}

\* The row names a file or none, and does not go back to none while it exists.
RowHasFile ==
  /\ concertRow.poster \in posters \cup {NoKey} /\ NoKey \notin posters
  /\ concertRow.status = "published" => concertRow.poster # NoKey
  /\ \A m \in Editor : Busy(m) /\ edit[m].was.poster # NoKey =>
       concertRow.status = "gone" \/ concertRow.poster # NoKey

PosterInv ==
  /\ PosterTyped /\ KeysAreOld /\ KeyFollowsStep /\ NewFiles /\ OldFiles /\ RowHasFile
  /\ FilesAreAccountedFor

StepTo(e, st) == [e EXCEPT !.step = st]
KeyTo(e, st, k) == [e EXCEPT !.step = st, !.key = k]

LEMMA EditFields ==
  ASSUME NEW e \in Edit
  PROVE  /\ e # NoEdit /\ e.step \in EditSteps /\ e.was \in PosterRow /\ e.key \in FileKey
         /\ e.was.poster \in FileKey
         /\ \A st \in EditSteps :
              /\ StepTo(e, st) \in Edit /\ StepTo(e, st).step = st
              /\ StepTo(e, st).was = e.was /\ StepTo(e, st).key = e.key
<1>1. e.step \in EditSteps /\ e.was \in PosterRow /\ e.key \in FileKey
  BY DEF Edit
<1>2. e # NoEdit
  BY <1>1 DEF NoEdit, EditSteps
<1>3. e.was.poster \in FileKey
  BY <1>1 DEF PosterRow
<1>4. ASSUME NEW r \in Edit, NEW st \in EditSteps
      PROVE  /\ StepTo(r, st) \in Edit /\ StepTo(r, st).step = st
             /\ StepTo(r, st).was = r.was /\ StepTo(r, st).key = r.key
  BY Zenon DEF Edit, StepTo
<1> QED  BY <1>1, <1>2, <1>3, <1>4

LEMMA KeyFields ==
  ASSUME NEW e \in Edit, NEW st \in EditSteps, NEW k \in FileKey
  PROVE  /\ KeyTo(e, st, k) \in Edit /\ KeyTo(e, st, k).step = st
         /\ KeyTo(e, st, k).was = e.was /\ KeyTo(e, st, k).key = k
<1>1. PICK q : q = StepTo(e, st)
  OBVIOUS
<1>2. q \in Edit /\ q.step = st /\ q.was = e.was
  BY <1>1, EditFields
<1>3. KeyTo(e, st, k) = [q EXCEPT !.key = k]
  BY <1>1, Zenon DEF StepTo, KeyTo
<1>4. /\ [q EXCEPT !.key = k] \in Edit /\ [q EXCEPT !.key = k].step = q.step
      /\ [q EXCEPT !.key = k].was = q.was /\ [q EXCEPT !.key = k].key = k
  BY <1>2, Zenon DEF Edit
<1> QED  BY <1>2, <1>3, <1>4, Zenon

LEMMA NoKeyIsKey == NoKey \in FileKey /\ NoKey.token = 0
  BY DEF NoKey, FileKey

LEMMA PosterInitially == PosterInit => PosterInv
<1> SUFFICES ASSUME PosterInit PROVE PosterInv
  OBVIOUS
<1>1. PICK made : made = [status |-> "draft", poster |-> NoKey]
  OBVIOUS
<1>2. made \in PosterRow /\ made.poster = NoKey /\ made.status = "draft" /\ concertRow = made
  BY <1>1, NoKeyIsKey DEF PosterInit, PosterRow
<1>3. /\ \A m \in Editor : edit[m] = NoEdit
      /\ edit \in [Editor -> {NoEdit} \cup Edit] /\ saved = 0 /\ posters = {}
  BY DEF PosterInit
<1>4. NoEdit.step = "idle"
  BY DEF NoEdit
<1>5. PosterTyped
  BY <1>2, <1>3 DEF PosterTyped
<1>6. KeysAreOld /\ KeyFollowsStep /\ NewFiles /\ OldFiles
  BY <1>2, <1>3, <1>4, NoKeyIsKey DEF KeysAreOld, KeyFollowsStep, NewFiles, OldFiles, Busy
<1> QED
  BY <1>2, <1>3, <1>5, <1>6 DEF PosterInv, RowHasFile, FilesAreAccountedFor, Busy

LEMMA BeginKeepsPosters ==
  ASSUME PosterInv, NEW m \in Editor,
         NEW st \in {"withdraw", "check", "delete", "save"}, BeginEdit(m, st)
  PROVE  PosterInv'
<1> USE DEF PosterInv
<1>1. PICK e : e = [step |-> st, was |-> concertRow, key |-> NoKey]
  OBVIOUS
<1>2. /\ e \in Edit /\ e # NoEdit /\ e.step = st /\ e.was = concertRow /\ e.key = NoKey
  <2>1. e \in Edit
    BY <1>1, NoKeyIsKey DEF PosterTyped, Edit, EditSteps
  <2> QED  BY <1>1, <2>1, EditFields
<1>3. /\ edit' = [edit EXCEPT ![m] = e] /\ edit[m] = NoEdit
      /\ concertRow.status # "gone" /\ UNCHANGED <<concertRow, posters, saved, left>>
  BY <1>1 DEF BeginEdit
<1>4. \A n \in Editor : edit'[n] = IF n = m THEN e ELSE edit[n]
  BY <1>3 DEF PosterTyped
<1>5. PosterTyped'
  BY <1>2, <1>3 DEF PosterTyped
<1>6. KeysAreOld'
  BY <1>2, <1>3, <1>4, NoKeyIsKey DEF KeysAreOld, Busy, PosterTyped
<1>7. KeyFollowsStep' /\ OldFiles'
  BY <1>2, <1>3, <1>4 DEF KeyFollowsStep, OldFiles, Busy
<1>8. NewFiles'
  BY <1>2, <1>3, <1>4 DEF NewFiles, Busy, RowHasFile
<1>9. RowHasFile'
  BY <1>2, <1>3, <1>4 DEF RowHasFile, Busy
<1>10. FilesAreAccountedFor'
  BY <1>3, <1>4 DEF FilesAreAccountedFor
<1> QED  BY <1>5, <1>6, <1>7, <1>8, <1>9, <1>10

\* A request ends, and the file it knew is the row's, gone, or left over.
LEMMA EndKeepsPosters ==
  ASSUME PosterInv, NEW m \in Editor, Busy(m), EndEdit(m),
         concertRow' \in PosterRow, concertRow'.poster = concertRow.poster,
         concertRow'.status = "published" => concertRow.poster # NoKey,
         concertRow.status = "gone" => concertRow'.status = "gone",
         posters' = posters \/
           (edit[m].step = "cleanup" /\ posters' = posters \ {edit[m].key}),
         edit[m].key \notin posters' \cup {NoKey} \/ edit[m].key \in left' \cup {NoKey},
         left \subseteq left', saved' = saved
  PROVE  PosterInv'
<1> USE DEF PosterInv
<1>1. edit' = [edit EXCEPT ![m] = NoEdit]
  BY DEF EndEdit
<1>2. \A n \in Editor : edit'[n] = IF n = m THEN NoEdit ELSE edit[n]
  BY <1>1 DEF PosterTyped
<1>3. NoEdit.step = "idle"
  BY DEF NoEdit
<1>4. PosterTyped'
  BY <1>1 DEF PosterTyped
<1>5. KeysAreOld' /\ KeyFollowsStep' /\ OldFiles'
  BY <1>2, <1>3 DEF KeysAreOld, KeyFollowsStep, OldFiles, Busy
<1>6. NewFiles'
  BY <1>2, <1>3 DEF NewFiles, Busy
<1>7. RowHasFile'
  BY <1>2 DEF RowHasFile, Busy, OldFiles
<1>8. FilesAreAccountedFor'
  <2> SUFFICES ASSUME NEW f \in posters'
               PROVE  f \in {concertRow'.poster} \cup left'
                              \cup {edit'[n].key : n \in {x \in Editor : edit'[x] # NoEdit}}
    BY DEF FilesAreAccountedFor
  <2>1. f \in posters /\ f # NoKey
    BY DEF RowHasFile
  <2>2. CASE f = concertRow.poster \/ f \in left
    BY <2>2
  <2>3. CASE \E n \in Editor : Busy(n) /\ f = edit[n].key
    BY <1>2, <2>1, <2>3 DEF Busy
  <2> QED  BY <2>1, <2>2, <2>3 DEF FilesAreAccountedFor, Busy
<1> QED  BY <1>4, <1>5, <1>6, <1>7, <1>8

\* A request goes on without a new file.
LEMMA StepKeepsPosters ==
  ASSUME PosterInv, NEW m \in Editor, Busy(m), NEW st \in {"publish", "cleanup"},
         edit' = [edit EXCEPT ![m] = StepTo(edit[m], st)],
         st = "publish" => edit[m].step = "check" /\ edit[m].was.poster # NoKey,
         st = "cleanup" => edit[m].step = "swap",
         UNCHANGED <<concertRow, posters, saved, left>>
  PROVE  PosterInv'
<1> USE DEF PosterInv
<1>1. PICK e \in Edit : e = edit[m]
  BY DEF PosterTyped, Busy
<1>2. PICK q \in Edit : /\ edit' = [edit EXCEPT ![m] = q] /\ q # NoEdit
                        /\ q.step = st /\ q.was = e.was /\ q.key = e.key
  <2>1. PICK q : q = StepTo(e, st)
    OBVIOUS
  <2>2. q \in Edit /\ q.step = st /\ q.was = e.was /\ q.key = e.key
    BY <1>1, <2>1, EditFields DEF EditSteps
  <2> QED  BY <1>1, <2>1, <2>2, EditFields
<1>3. \A n \in Editor : edit'[n] = IF n = m THEN q ELSE edit[n]
  BY <1>2 DEF PosterTyped
<1>4. PosterTyped'
  BY <1>2 DEF PosterTyped
<1>5. KeysAreOld' /\ KeyFollowsStep' /\ OldFiles'
  BY <1>1, <1>2, <1>3 DEF KeysAreOld, KeyFollowsStep, OldFiles, NewFiles, RowHasFile, Busy
<1>6. NewFiles'
  BY <1>1, <1>2, <1>3 DEF NewFiles, Busy
<1>7. RowHasFile' /\ FilesAreAccountedFor'
  BY <1>1, <1>2, <1>3 DEF RowHasFile, FilesAreAccountedFor, Busy
<1> QED  BY <1>4, <1>5, <1>6, <1>7

LEMMA SaveKeepsPosters ==
  ASSUME PosterInv, NEW m \in Editor, SavePoster(m)
  PROVE  PosterInv'
<1> USE DEF PosterInv
<1>1. PICK e \in Edit : e = edit[m] /\ e.step = "save" /\ Busy(m)
  BY DEF PosterTyped, SavePoster, Busy, NoEdit
<1>2. PICK k : k = ObjectKey(e.was.poster.version + 1, saved + 1)
  OBVIOUS
<1>3. k \in FileKey /\ k.token = saved + 1
  BY <1>1, <1>2, EditFields DEF ObjectKey, FileKey, PosterTyped
<1>4. PICK q \in Edit : /\ edit' = [edit EXCEPT ![m] = q] /\ q # NoEdit
                        /\ q.step = "swap" /\ q.was = e.was /\ q.key = k
  <2>1. PICK q : q = KeyTo(e, "swap", k)
    OBVIOUS
  <2>2. q \in Edit /\ q.step = "swap" /\ q.was = e.was /\ q.key = k
    <3>1. "swap" \in EditSteps
      BY DEF EditSteps
    <3> QED  BY <1>3, <2>1, <3>1, KeyFields
  <2>3. edit' = [edit EXCEPT ![m] = q]
    BY <1>1, <1>2, <2>1 DEF SavePoster, KeyTo, PosterTyped
  <2> QED  BY <2>2, <2>3, EditFields
<1>5. posters' = posters \cup {k} /\ saved' = saved + 1 /\ UNCHANGED <<concertRow, left>>
  BY <1>1, <1>2 DEF SavePoster
<1>6. \A n \in Editor : edit'[n] = IF n = m THEN q ELSE edit[n]
  BY <1>4 DEF PosterTyped
<1>7. PosterTyped'
  BY <1>4, <1>5 DEF PosterTyped
<1>8. /\ concertRow.poster \in FileKey /\ concertRow.poster.token <= saved
      /\ concertRow.poster.token \in Nat /\ saved \in Nat
      /\ \A n \in Editor : Busy(n) =>
           /\ edit[n].key.token <= saved /\ edit[n].was.poster.token <= saved
           /\ edit[n].key.token \in Nat /\ edit[n].was.poster.token \in Nat
  <2>1. concertRow.poster \in FileKey /\ saved \in Nat
    BY DEF PosterTyped, PosterRow
  <2>2. \A n \in Editor : Busy(n) => edit[n].key \in FileKey /\ edit[n].was.poster \in FileKey
    BY EditFields DEF PosterTyped, Busy
  <2>3. \A f \in FileKey : f.token \in Nat
    BY DEF FileKey
  <2> QED  BY <2>1, <2>2, <2>3 DEF KeysAreOld
<1>9. /\ k # concertRow.poster /\ k # NoKey
      /\ \A n \in Editor : Busy(n) => edit[n].key # k /\ edit[n].was.poster # k
  BY <1>3, <1>8, NoKeyIsKey
<1>10. \A n \in Editor : edit'[n] # NoEdit => Busy(n)
  BY <1>1, <1>6 DEF Busy
<1>11. KeysAreOld'
  BY <1>1, <1>3, <1>4, <1>5, <1>6, <1>8 DEF KeysAreOld, Busy
<1>12. KeyFollowsStep' /\ OldFiles'
  BY <1>1, <1>4, <1>5, <1>6, <1>9 DEF KeyFollowsStep, OldFiles, Busy
<1>13. NewFiles'
  <2> SUFFICES ASSUME NEW n \in Editor, edit'[n].step = "swap"
               PROVE  /\ edit'[n].key \in posters' /\ edit'[n].key # concertRow'.poster
                      /\ \A x \in Editor : edit'[x] # NoEdit => edit'[x].was.poster # edit'[n].key
                      /\ \A x \in Editor \ {n} : edit'[x] # NoEdit => edit'[x].key # edit'[n].key
    BY DEF NewFiles, Busy
  <2>1. CASE n = m
    BY <1>1, <1>4, <1>5, <1>6, <1>9, <2>1 DEF Busy
  <2>2. CASE n # m
    <3>1. edit'[n] = edit[n] /\ Busy(n)
      BY <1>6, <2>2 DEF Busy, NoEdit
    <3> QED  BY <1>1, <1>4, <1>5, <1>6, <1>9, <2>2, <3>1 DEF NewFiles, Busy
  <2> QED  BY <2>1, <2>2
<1>14. RowHasFile'
  BY <1>1, <1>4, <1>5, <1>6, <1>9 DEF RowHasFile, Busy
<1>15. edit[m].key = NoKey
  BY <1>1 DEF KeyFollowsStep
<1>16. FilesAreAccountedFor'
  <2> SUFFICES ASSUME NEW f \in posters'
               PROVE  f \in {concertRow'.poster} \cup left'
                              \cup {edit'[n].key : n \in {x \in Editor : edit'[x] # NoEdit}}
    BY DEF FilesAreAccountedFor
  <2>1. CASE f = k
    BY <1>4, <1>6, <2>1
  <2>2. CASE f # k
    <3>1. f \in posters /\ f # NoKey
      BY <1>5, <2>2 DEF RowHasFile
    <3>2. CASE f = concertRow.poster \/ f \in left
      BY <1>5, <3>2
    <3>3. CASE \E n \in Editor : Busy(n) /\ f = edit[n].key
      BY <1>6, <1>15, <3>1, <3>3 DEF Busy
    <3> QED  BY <3>1, <3>2, <3>3 DEF FilesAreAccountedFor, Busy
  <2> QED  BY <2>1, <2>2
<1> QED  BY <1>7, <1>11, <1>12, <1>13, <1>14, <1>16

\* The row names the new file; the old one, if any, is next to be deleted.
LEMMA SwapKeepsPosters ==
  ASSUME PosterInv, NEW m \in Editor, edit[m].step = "swap",
         concertRow.status # "gone", concertRow.poster = edit[m].was.poster,
         concertRow' = [concertRow EXCEPT !.poster = edit[m].key],
         IF edit[m].was.poster = NoKey THEN EndEdit(m)
         ELSE edit' = [edit EXCEPT ![m].step = "cleanup", ![m].key = edit[m].was.poster],
         UNCHANGED <<posters, saved, left>>
  PROVE  PosterInv'
<1> USE DEF PosterInv
<1>1. PICK e \in Edit : e = edit[m] /\ Busy(m) /\ e.step = "swap"
  BY DEF PosterTyped, Busy, NoEdit
<1>2. /\ concertRow' \in PosterRow /\ concertRow'.poster = e.key
      /\ concertRow'.status = concertRow.status
  <2>1. e.key \in FileKey
    BY EditFields
  <2>2. \A r \in PosterRow, k \in FileKey :
          /\ [r EXCEPT !.poster = k] \in PosterRow
          /\ [r EXCEPT !.poster = k].poster = k /\ [r EXCEPT !.poster = k].status = r.status
    BY Zenon DEF PosterRow
  <2>3. concertRow' = [concertRow EXCEPT !.poster = e.key] /\ concertRow \in PosterRow
    BY <1>1 DEF PosterTyped
  <2> QED  BY <2>1, <2>2, <2>3, Zenon
<1>3. /\ e.key \in posters /\ e.key # NoKey /\ e.key # concertRow.poster
      /\ \A n \in Editor : Busy(n) => edit[n].was.poster # e.key
      /\ \A n \in Editor \ {m} : Busy(n) => edit[n].key # e.key
  BY <1>1 DEF NewFiles, RowHasFile
<1>4. PICK q \in {NoEdit} \cup Edit :
        /\ edit' = [edit EXCEPT ![m] = q]
        /\ \/ q = NoEdit /\ e.was.poster = NoKey
           \/ /\ q \in Edit /\ q # NoEdit /\ e.was.poster # NoKey
              /\ q.step = "cleanup" /\ q.was = e.was /\ q.key = e.was.poster
  <2>1. CASE e.was.poster = NoKey
    BY <1>1, <2>1 DEF EndEdit
  <2>2. CASE e.was.poster # NoKey
    <3>1. PICK q : q = KeyTo(e, "cleanup", e.was.poster)
      OBVIOUS
    <3>2. q \in Edit /\ q.step = "cleanup" /\ q.was = e.was /\ q.key = e.was.poster
      <4>1. "cleanup" \in EditSteps /\ e.was.poster \in FileKey
        BY EditFields DEF EditSteps
      <4> QED  BY <3>1, <4>1, KeyFields
    <3>3. edit' = [edit EXCEPT ![m] = q]
      BY <1>1, <2>2, <3>1 DEF KeyTo, PosterTyped
    <3> QED  BY <2>2, <3>2, <3>3, EditFields
  <2> QED  BY <2>1, <2>2
<1>5. \A n \in Editor : edit'[n] = IF n = m THEN q ELSE edit[n]
  BY <1>4 DEF PosterTyped
<1>6. NoEdit.step = "idle"
  BY DEF NoEdit
<1>7. PosterTyped'
  BY <1>2, <1>4 DEF PosterTyped
<1>8. KeysAreOld' /\ KeyFollowsStep'
  BY <1>1, <1>2, <1>4, <1>5, <1>6 DEF KeysAreOld, KeyFollowsStep, Busy
<1>9. OldFiles'
  BY <1>1, <1>2, <1>3, <1>4, <1>5, <1>6 DEF OldFiles, Busy, NoEdit
<1>10. NewFiles'
  <2> SUFFICES ASSUME NEW n \in Editor, edit'[n].step = "swap"
               PROVE  /\ edit'[n].key \in posters' /\ edit'[n].key # concertRow'.poster
                      /\ \A x \in Editor : edit'[x] # NoEdit => edit'[x].was.poster # edit'[n].key
                      /\ \A x \in Editor \ {n} : edit'[x] # NoEdit => edit'[x].key # edit'[n].key
    BY DEF NewFiles, Busy
  <2>1. n # m /\ edit'[n] = edit[n] /\ Busy(n)
    BY <1>4, <1>5, <1>6 DEF Busy
  <2>2. edit[n].key # e.key /\ edit[n].key # concertRow.poster
    BY <1>3, <2>1 DEF NewFiles
  <2> QED  BY <1>1, <1>2, <1>4, <1>5, <2>1, <2>2 DEF NewFiles, Busy
<1>11. RowHasFile'
  BY <1>2, <1>3 DEF RowHasFile
<1>12. FilesAreAccountedFor'
  <2> SUFFICES ASSUME NEW f \in posters'
               PROVE  f \in {concertRow'.poster} \cup left'
                              \cup {edit'[n].key : n \in {x \in Editor : edit'[x] # NoEdit}}
    BY DEF FilesAreAccountedFor
  <2>1. f \in posters /\ f # NoKey
    BY DEF RowHasFile
  <2>2. CASE f \in left \/ f = e.key
    BY <1>2, <2>2
  <2>3. CASE f = concertRow.poster
    <3>1. edit'[m] # NoEdit /\ edit'[m].key = f
      BY <1>1, <1>4, <1>5, <2>1, <2>3
    <3> QED  BY <3>1
  <2>4. CASE \E n \in Editor \ {m} : Busy(n) /\ f = edit[n].key
    BY <1>5, <2>4 DEF Busy
  <2> QED  BY <1>1, <2>1, <2>2, <2>3, <2>4 DEF FilesAreAccountedFor, Busy
<1> QED  BY <1>7, <1>8, <1>9, <1>10, <1>11, <1>12

LEMMA DeletionKeepsPosters ==
  ASSUME PosterInv, NEW m \in Editor, edit[m].step = "delete",
         concertRow.status # "gone", concertRow' = NoConcert,
         left' = left \cup ({concertRow.poster} \ {edit[m].was.poster, NoKey}),
         IF edit[m].was.poster = NoKey THEN EndEdit(m)
         ELSE edit' = [edit EXCEPT ![m].step = "cleanup", ![m].key = edit[m].was.poster],
         UNCHANGED <<posters, saved>>
  PROVE  PosterInv'
<1> USE DEF PosterInv
<1>1. PICK e \in Edit : e = edit[m] /\ Busy(m) /\ e.step = "delete" /\ e.key = NoKey
  BY DEF PosterTyped, Busy, NoEdit, KeyFollowsStep
<1>2. /\ concertRow' \in PosterRow /\ concertRow'.poster = NoKey
      /\ concertRow'.status = "gone"
  BY NoKeyIsKey DEF NoConcert, PosterRow
<1>3. \A n \in Editor : edit[n].step = "swap" => Busy(n) /\ edit[n].key # e.was.poster
                                                /\ edit[n].key # NoKey
  BY <1>1 DEF NewFiles, RowHasFile, Busy, NoEdit
<1>4. PICK q \in {NoEdit} \cup Edit :
        /\ edit' = [edit EXCEPT ![m] = q]
        /\ \/ q = NoEdit /\ e.was.poster = NoKey
           \/ /\ q \in Edit /\ q # NoEdit /\ e.was.poster # NoKey
              /\ q.step = "cleanup" /\ q.was = e.was /\ q.key = e.was.poster
  <2>1. CASE e.was.poster = NoKey
    BY <1>1, <2>1 DEF EndEdit
  <2>2. CASE e.was.poster # NoKey
    <3>1. PICK q : q = KeyTo(e, "cleanup", e.was.poster)
      OBVIOUS
    <3>2. q \in Edit /\ q.step = "cleanup" /\ q.was = e.was /\ q.key = e.was.poster
      <4>1. "cleanup" \in EditSteps /\ e.was.poster \in FileKey
        BY EditFields DEF EditSteps
      <4> QED  BY <3>1, <4>1, KeyFields
    <3>3. edit' = [edit EXCEPT ![m] = q]
      BY <1>1, <2>2, <3>1 DEF KeyTo, PosterTyped
    <3> QED  BY <2>2, <3>2, <3>3, EditFields
  <2> QED  BY <2>1, <2>2
<1>5. \A n \in Editor : edit'[n] = IF n = m THEN q ELSE edit[n]
  BY <1>4 DEF PosterTyped
<1>6. NoEdit.step = "idle"
  BY DEF NoEdit
<1>7. PosterTyped'
  BY <1>2, <1>4 DEF PosterTyped
<1>8. saved \in Nat /\ NoKey.token <= saved
  BY NoKeyIsKey DEF PosterTyped
<1>9. KeysAreOld' /\ KeyFollowsStep'
  BY <1>1, <1>2, <1>4, <1>5, <1>6, <1>8 DEF KeysAreOld, KeyFollowsStep, Busy
<1>10. OldFiles'
  <2> SUFFICES ASSUME NEW n \in Editor, edit'[n].step = "cleanup"
               PROVE  edit'[n].key # NoKey
    BY <1>2 DEF OldFiles
  <2>1. CASE n = m
    BY <1>4, <1>5, <1>6, <2>1
  <2>2. CASE n # m
    BY <1>5, <2>2 DEF OldFiles
  <2> QED  BY <2>1, <2>2
<1>11. NewFiles'
  <2> SUFFICES ASSUME NEW n \in Editor, edit'[n].step = "swap"
               PROVE  /\ edit'[n].key \in posters' /\ edit'[n].key # concertRow'.poster
                      /\ \A x \in Editor : edit'[x] # NoEdit => edit'[x].was.poster # edit'[n].key
                      /\ \A x \in Editor \ {n} : edit'[x] # NoEdit => edit'[x].key # edit'[n].key
    BY DEF NewFiles, Busy
  <2>1. n # m /\ edit'[n] = edit[n] /\ Busy(n)
    BY <1>3, <1>4, <1>5, <1>6 DEF Busy
  <2> QED  BY <1>1, <1>2, <1>3, <1>4, <1>5, <2>1 DEF NewFiles, Busy
<1>12. RowHasFile'
  BY <1>2 DEF RowHasFile
<1>13. FilesAreAccountedFor'
  <2> SUFFICES ASSUME NEW f \in posters'
               PROVE  f \in {concertRow'.poster} \cup left'
                              \cup {edit'[n].key : n \in {x \in Editor : edit'[x] # NoEdit}}
    BY DEF FilesAreAccountedFor
  <2>1. f \in posters /\ f # NoKey
    BY DEF RowHasFile
  <2>2. CASE f \in left
    BY <2>2
  <2>3. CASE f = concertRow.poster
    <3>1. CASE f = e.was.poster
      <4>1. edit'[m] # NoEdit /\ edit'[m].key = f
        BY <1>1, <1>4, <1>5, <2>1, <3>1
      <4> QED  BY <4>1
    <3>2. CASE f # e.was.poster
      BY <1>1, <2>1, <2>3, <3>2
    <3> QED  BY <3>1, <3>2
  <2>4. CASE \E n \in Editor \ {m} : Busy(n) /\ f = edit[n].key
    BY <1>5, <2>4 DEF Busy
  <2> QED  BY <1>1, <2>1, <2>2, <2>3, <2>4 DEF FilesAreAccountedFor, Busy
<1> QED  BY <1>7, <1>9, <1>10, <1>11, <1>12, <1>13

LEMMA CrashKeepsPosters ==
  ASSUME PosterInv, PosterCrash
  PROVE  PosterInv'
<1> USE DEF PosterInv
<1>1. /\ \A m \in Editor : edit'[m] = NoEdit
      /\ edit' \in [Editor -> {NoEdit} \cup Edit]
      /\ left' = left \cup {edit[m].key : m \in {n \in Editor : edit[n] # NoEdit}}
      /\ UNCHANGED <<concertRow, posters, saved>>
  BY DEF PosterCrash
<1>2. NoEdit.step = "idle"
  BY DEF NoEdit
<1>3. PosterTyped' /\ KeysAreOld' /\ KeyFollowsStep' /\ NewFiles' /\ OldFiles' /\ RowHasFile'
  BY <1>1, <1>2 DEF PosterTyped, KeysAreOld, KeyFollowsStep, NewFiles, OldFiles, RowHasFile, Busy
<1>4. FilesAreAccountedFor'
  BY <1>1 DEF FilesAreAccountedFor
<1> QED  BY <1>3, <1>4

LEMMA RowStatus ==
  ASSUME concertRow \in PosterRow, NEW st \in {"draft", "published", "canceled"},
         concertRow' = [concertRow EXCEPT !.status = st]
  PROVE  /\ concertRow' \in PosterRow /\ concertRow'.poster = concertRow.poster
         /\ concertRow'.status = st
<1>1. \A r \in PosterRow : /\ [r EXCEPT !.status = st] \in PosterRow
                           /\ [r EXCEPT !.status = st].poster = r.poster
                           /\ [r EXCEPT !.status = st].status = st
  BY Zenon DEF PosterRow
<1> QED  BY <1>1, Zenon

LEMMA UpdateKeepsPosters ==
  ASSUME PosterInv, NEW m \in Editor, UpdateConcert(m)
  PROVE  PosterInv'
<1> USE DEF PosterInv
<1>1. /\ edit[m].step \in {"withdraw", "publish"} /\ Busy(m) /\ EndEdit(m)
      /\ UNCHANGED <<posters, saved, left>> /\ edit[m].key = NoKey
  BY DEF UpdateConcert, Busy, NoEdit, KeyFollowsStep
<1>2. CASE concertRow.status = "gone"
  <2>1. concertRow' = concertRow
    BY <1>2 DEF UpdateConcert
  <2> QED  BY <1>1, <1>2, <2>1, EndKeepsPosters DEF PosterTyped
<1>3. CASE concertRow.status # "gone"
  <2>1. PICK st \in {"draft", "published"} :
          /\ st = "published" => edit[m].step = "publish"
          /\ concertRow' = [concertRow EXCEPT !.status = st]
    BY <1>1, <1>3 DEF UpdateConcert
  <2>2. /\ concertRow' \in PosterRow /\ concertRow'.poster = concertRow.poster
        /\ concertRow'.status = st
    BY <2>1, RowStatus DEF PosterTyped
  <2>3. st = "published" => concertRow.poster # NoKey
    BY <1>1, <1>3, <2>1 DEF KeyFollowsStep, RowHasFile
  <2> QED  BY <1>1, <1>3, <2>1, <2>2, <2>3, EndKeepsPosters
<1> QED  BY <1>2, <1>3

LEMMA CancelKeepsPosters ==
  ASSUME PosterInv, CancelRow
  PROVE  PosterInv'
<1> USE DEF PosterInv
<1>1. /\ concertRow' \in PosterRow /\ concertRow'.poster = concertRow.poster
      /\ concertRow'.status = "canceled" /\ concertRow.status # "gone"
      /\ UNCHANGED <<posters, saved, edit, left>>
  BY RowStatus DEF CancelRow, PosterTyped
<1> QED
  BY <1>1 DEF PosterTyped, KeysAreOld, KeyFollowsStep, NewFiles, OldFiles, RowHasFile, Busy,
    FilesAreAccountedFor

LEMMA EditKeepsPosters ==
  ASSUME ~LostReplies, PosterInv, NEW m \in Editor, EditStep(m)
  PROVE  PosterInv'
<1> USE DEF PosterInv
<1>1. CASE WithdrawBegin(m) \/ PublishBegin(m) \/ DeleteBegin(m) \/ UploadBegin(m)
  BY <1>1, BeginKeepsPosters DEF WithdrawBegin, PublishBegin, DeleteBegin, UploadBegin
<1>2. CASE AssertPosterAvailable(m)
  <2>1. edit[m].step = "check" /\ Busy(m) /\ edit[m].key = NoKey
        /\ UNCHANGED <<concertRow, posters, saved, left>>
    BY <1>2 DEF AssertPosterAvailable, Busy, NoEdit, KeyFollowsStep
  <2>2. CASE edit[m].was.poster # NoKey /\ edit[m].was.poster \in posters
    <3>1. edit' = [edit EXCEPT ![m] = StepTo(edit[m], "publish")]
      BY <1>2, <2>2 DEF AssertPosterAvailable, StepTo, PosterTyped
    <3> QED  BY <2>1, <2>2, <3>1, StepKeepsPosters
  <2>3. CASE ~(edit[m].was.poster # NoKey /\ edit[m].was.poster \in posters)
    <3>1. EndEdit(m)
      BY <1>2, <2>3 DEF AssertPosterAvailable
    <3> QED  BY <2>1, <3>1, EndKeepsPosters DEF PosterTyped, RowHasFile
  <2> QED  BY <2>2, <2>3
<1>3. CASE SaveFails(m)
  <2>1. Busy(m) /\ edit[m].key = NoKey
    BY <1>3 DEF SaveFails, Busy, NoEdit, KeyFollowsStep
  <2> QED  BY <1>3, <2>1, EndKeepsPosters DEF SaveFails, PosterTyped, RowHasFile
<1>4. CASE DeleteConcert(m)
  <2>1. edit[m].step = "delete" /\ Busy(m) /\ edit[m].key = NoKey
    BY <1>4 DEF DeleteConcert, Busy, NoEdit, KeyFollowsStep
  <2>2. CASE EndEdit(m) /\ UNCHANGED <<concertRow, left>>
    BY <1>4, <2>1, <2>2, EndKeepsPosters DEF DeleteConcert, PosterTyped, RowHasFile
  <2>3. CASE ~(EndEdit(m) /\ UNCHANGED <<concertRow, left>>)
    BY <1>4, <2>1, <2>3, DeletionKeepsPosters DEF DeleteConcert
  <2> QED  BY <2>2, <2>3
<1>5. CASE SwapPoster(m)
  <2>1. edit[m].step = "swap" /\ Busy(m) /\ UNCHANGED <<posters, saved, left>>
    BY <1>5 DEF SwapPoster, Busy, NoEdit
  <2>2. CASE UNCHANGED concertRow /\ Undo(m)
    <3>1. edit' = [edit EXCEPT ![m] = StepTo(edit[m], "cleanup")]
      BY <2>2 DEF Undo, StepTo, PosterTyped
    <3> QED  BY <2>1, <2>2, <3>1, StepKeepsPosters
  <2>3. CASE ~(UNCHANGED concertRow /\ Undo(m))
    BY <1>5, <2>1, <2>3, SwapKeepsPosters DEF SwapPoster
  <2> QED  BY <2>2, <2>3
<1>6. CASE CleanUp(m)
  <2>1. edit[m].step = "cleanup" /\ Busy(m)
    BY <1>6 DEF CleanUp, Busy, NoEdit
  <2> QED  BY <1>6, <2>1, EndKeepsPosters DEF CleanUp, PosterTyped, RowHasFile
<1> QED
  BY <1>1, <1>2, <1>3, <1>4, <1>5, <1>6, UpdateKeepsPosters, SaveKeepsPosters DEF EditStep

LEMMA PostersAreKept ==
  ASSUME ~LostReplies
  PROVE  PosterInv /\ [PosterNext]_posterVars => PosterInv'
<1> SUFFICES ASSUME PosterInv, [PosterNext]_posterVars PROVE PosterInv'
  OBVIOUS
<1>1. CASE UNCHANGED posterVars
  BY <1>1 DEF posterVars, PosterInv, PosterTyped, KeysAreOld, KeyFollowsStep, NewFiles,
    OldFiles, RowHasFile, Busy, FilesAreAccountedFor
<1> QED
  BY <1>1, EditKeepsPosters, CancelKeepsPosters, CrashKeepsPosters DEF PosterNext

\* With any number of uploads, updates and deletions side by side, failures and
\* crashes, the poster of a published concert is in storage, and no file is left
\* that nobody knows of.  A write that is done though the database reports an
\* error would break both, as the README tells.
THEOREM PostersAlwaysFit == ~LostReplies => (PosterSpec => []PostersFitTheirRows)
<1> SUFFICES ASSUME ~LostReplies PROVE PosterSpec => []PostersFitTheirRows
  OBVIOUS
<1>1. PosterInv => PostersFitTheirRows
  BY DEF PosterInv, RowHasFile, PostersFitTheirRows, PublishedHasPoster
<1> QED
  BY <1>1, PosterInitially, PostersAreKept, PTL DEF PosterSpec

-----------------------------------------------------------------------------
(* Guest lists                                                             *)

ImportSteps ==
  {"save", "refuse", "guests", "open", "deactivate", "publish", "undo", "invite"}
ImportRow ==
  [step : ImportSteps, file : Csv, known : SUBSET Guest, no : Nat, old : SUBSET Csv,
   held : SUBSET Csv]

GuestsTyped ==
  /\ batch \in [Csv -> {"none", "failed", "validation_failed", "published"}]
  /\ version \in [Csv -> [no : Nat, active : BOOLEAN]]
  /\ outbox \in Seq(Csv \cup {"cleared"})
  /\ import \in [Import -> {NoImport} \cup ImportRow]
  /\ clear \in [Clear -> Csv \cup {NoClear}]
  /\ invited \in [Csv -> Nat]
  /\ crossed \in BOOLEAN

\* Any versions that are left have a highest number, so that the next one is
\* there to be read, whichever are deleted.
Highest(S, n) ==
  n \in {0} \cup {version[f].no : f \in S} /\ \A f \in S : version[f].no <= n
NumbersAreBounded == \A S \in SUBSET Versions : \E n \in Nat : Highest(S, n)

\* An import that is about to publish has the next number, and has seen the
\* version in force, or its number is taken and it will fail.
Taken(n) == \E g \in Versions : version[g].no = n
NumbersFit ==
  \A i \in Import : Open(i) =>
    /\ import[i].no > 0
    /\ ~crossed => \/ Taken(import[i].no)
                   \/ /\ import[i].no = NextVersionNo(i)
                      /\ import[i].step = "publish" => import[i].old = InForce

\* One import at once has a batch of the file in the making, and what follows
\* from a batch is there when it is published.
Told(f) == \E n \in 1..Len(outbox) : outbox[n] = f
BatchesFit ==
  /\ \A i \in Import : Open(i) =>
       /\ batch[import[i].file] = "none"
       /\ \A j \in Import : Open(j) /\ import[j].file = import[i].file => j = i
  /\ \A f \in Csv : version[f].no > 0 \/ Told(f) \/ invited[f] > 0 => batch[f] = "published"

InvitedOnce ==
  /\ \A i \in Import : import[i].step = "invite" =>
       /\ batch[import[i].file] = "published" /\ invited[import[i].file] = 0
       /\ \A j \in Import : import[j].step = "invite" /\ import[j].file = import[i].file => j = i
  /\ \A f \in Csv : invited[f] <= 1

ToldOnce ==
  \A f \in Csv, m, n \in 1..Len(outbox) : outbox[m] = f /\ outbox[n] = f => m = n

\* Files the parser refuses do not get as far as a transaction.
Sorted(r) ==
  /\ r.step = "refuse" => r.file \in Unparsable
  /\ r.step \in {"guests", "open", "deactivate", "publish"} => r.file \notin Unparsable
FilesAreSorted == \A i \in Import : Sorted(import[i])

\* The file of an import is there, and who else is at it is known.
FilesFit ==
  \A i \in Import, f \in Csv : Importing(i, f) =>
    /\ import[i].step \notin {"save", "undo"} => f \in csvs \cup doubledCsv
    /\ batch[f] # "none" => f \in doubledCsv
    /\ \A j \in Import \ {i} : Importing(j, f) => f \in doubledCsv

GuestsInv ==
  /\ GuestsTyped /\ NumbersAreBounded /\ NumbersFit /\ BatchesFit /\ InvitedOnce /\ ToldOnce
  /\ FilesAreSorted /\ FilesFit /\ BatchesHaveTheirFile /\ EventsTellTheActive

LEMMA ImportFields ==
  ASSUME NEW r \in ImportRow
  PROVE  /\ r # NoImport /\ r.step \in ImportSteps /\ r.file \in Csv /\ r.no \in Nat
         /\ r.old \in SUBSET Csv /\ r.step # "idle"
  BY DEF ImportRow, NoImport, ImportSteps

\* The updates of a request, one field after the other.
LEMMA ImportUpdates ==
  ASSUME NEW r \in ImportRow
  PROVE  /\ \A st \in ImportSteps :
              LET q == [r EXCEPT !.step = st]
              IN q \in ImportRow /\ q.step = st /\ q.file = r.file /\ q.no = r.no /\ q.old = r.old
         /\ \A S \in SUBSET Guest :
              LET q == [r EXCEPT !.known = S]
              IN q \in ImportRow /\ q.step = r.step /\ q.file = r.file
         /\ \A n \in Nat :
              LET q == [r EXCEPT !.no = n]
              IN q \in ImportRow /\ q.step = r.step /\ q.file = r.file /\ q.no = n
         /\ \A S \in SUBSET Csv :
              LET q == [r EXCEPT !.old = S]
              IN q \in ImportRow /\ q.step = r.step /\ q.file = r.file /\ q.no = r.no /\ q.old = S
         /\ \A S \in SUBSET Csv :
              LET q == [r EXCEPT !.held = S]
              IN /\ q \in ImportRow /\ q.step = r.step /\ q.file = r.file /\ q.no = r.no
                 /\ q.old = r.old
<1>1. ASSUME NEW st \in ImportSteps, NEW q, q = [r EXCEPT !.step = st]
      PROVE  q \in ImportRow /\ q.step = st /\ q.file = r.file /\ q.no = r.no /\ q.old = r.old
  BY <1>1, Zenon DEF ImportRow
<1>2. ASSUME NEW S \in SUBSET Guest, NEW q, q = [r EXCEPT !.known = S]
      PROVE  q \in ImportRow /\ q.step = r.step /\ q.file = r.file
  BY <1>2, Zenon DEF ImportRow
<1>3. ASSUME NEW n \in Nat, NEW q, q = [r EXCEPT !.no = n]
      PROVE  q \in ImportRow /\ q.step = r.step /\ q.file = r.file /\ q.no = n
  BY <1>3, Zenon DEF ImportRow
<1>4. ASSUME NEW S \in SUBSET Csv, NEW q, q = [r EXCEPT !.old = S]
      PROVE  q \in ImportRow /\ q.step = r.step /\ q.file = r.file /\ q.no = r.no /\ q.old = S
  BY <1>4, Zenon DEF ImportRow
<1>5. ASSUME NEW S \in SUBSET Csv, NEW q, q = [r EXCEPT !.held = S]
      PROVE  /\ q \in ImportRow /\ q.step = r.step /\ q.file = r.file /\ q.no = r.no
             /\ q.old = r.old
  BY <1>5, Zenon DEF ImportRow
<1> QED  BY <1>1, <1>2, <1>3, <1>4, <1>5, Zenon

LEMMA NextIsNext ==
  ASSUME NumbersAreBounded, GuestsTyped, NEW i \in Import
  PROVE  /\ NextVersionNo(i) \in Nat /\ NextVersionNo(i) > 0
         /\ \A g \in Versions : version[g].no < NextVersionNo(i)
<1> DEFINE Numbers == {0} \cup {version[f].no : f \in Versions}
<1>1. Numbers \subseteq Nat
  BY DEF GuestsTyped, Versions
<1>2. PICK n \in Nat : Highest(Versions, n)
  BY DEF NumbersAreBounded
<1>3. n \in Numbers /\ \A m \in Numbers : n >= m
  BY <1>1, <1>2 DEF Highest
<1>4. Max(Numbers) \in Numbers /\ \A m \in Numbers : Max(Numbers) >= m
  BY <1>3 DEF Max
<1>5. PICK top : top = Max(Numbers)
  OBVIOUS
<1>6. NextVersionNo(i) = 1 + top
  BY <1>5 DEF NextVersionNo
<1>7. top \in Nat /\ \A g \in Versions : version[g].no \in Nat /\ top >= version[g].no
  BY <1>1, <1>4, <1>5
<1> HIDE DEF Numbers
<1> QED  BY <1>6, <1>7

LEMMA GuestsInitially == GuestInit => GuestsInv
<1> SUFFICES ASSUME GuestInit PROVE GuestsInv
  OBVIOUS
<1> USE DEF GuestInit
<1>1. NoVersion \in [no : Nat, active : BOOLEAN] /\ NoVersion.no = 0 /\ ~NoVersion.active
  BY DEF NoVersion
<1>2. GuestsTyped
  <2>1. batch \in [Csv -> {"none", "failed", "validation_failed", "published"}]
        /\ outbox \in Seq(Csv \cup {"cleared"}) /\ invited \in [Csv -> Nat]
    OBVIOUS
  <2>2. version \in [Csv -> [no : Nat, active : BOOLEAN]]
    BY <1>1, Zenon
  <2>3. import \in [Import -> {NoImport} \cup ImportRow]
        /\ clear \in [Clear -> Csv \cup {NoClear}] /\ crossed \in BOOLEAN
    BY Zenon
  <2> QED  BY <2>1, <2>2, <2>3 DEF GuestsTyped
<1>3. Versions = {} /\ InForce = {} /\ NoImport.step = "idle"
  BY <1>1 DEF Versions, InForce, NoImport
<1>4. NumbersAreBounded
  BY <1>3 DEF NumbersAreBounded, Highest
<1>5. NumbersFit /\ FilesFit /\ FilesAreSorted
  BY <1>3 DEF NumbersFit, FilesFit, Open, Importing, FilesAreSorted, Sorted
<1>6. BatchesFit /\ InvitedOnce
  BY <1>1, <1>3 DEF BatchesFit, InvitedOnce, Open, Told
<1>7. ToldOnce /\ BatchesHaveTheirFile /\ EventsTellTheActive
  BY <1>3 DEF ToldOnce, BatchesHaveTheirFile, EventsTellTheActive, ToldBy
<1> QED  BY <1>2, <1>4, <1>5, <1>6, <1>7 DEF GuestsInv

\* A request that ends, or goes on to a step in which it has no transaction open.
LEMMA StepKeepsGuests ==
  ASSUME GuestsInv, NEW i \in Import, import[i] # NoImport,
         NEW q \in {NoImport} \cup ImportRow, import' = [import EXCEPT ![i] = q],
         q # NoImport => /\ q.file = import[i].file
                         /\ q.step \in {"refuse", "guests", "open", "undo"}
                         /\ import[i].step \in ImportSteps \ {"undo", "invite"}
                         /\ q.step # "undo" => q.file \in csvs' \cup doubledCsv
                         /\ Sorted(q),
         \/ csvs' = csvs \/ csvs' = csvs \cup {import[i].file}
         \/ csvs' = csvs \ {import[i].file} /\ import[i].step = "undo",
         UNCHANGED <<tableVars, clear, invited, history>>
  PROVE  GuestsInv'
<1> USE DEF GuestsInv
<1>1. \A j \in Import : import'[j] = IF j = i THEN q ELSE import[j]
  BY DEF GuestsTyped
<1>2. UNCHANGED <<batch, version, outbox, clear, invited, crossed, doubledCsv>>
  BY DEF tableVars, history
<1>3. NoImport.step = "idle"
  BY DEF NoImport
<1>4. GuestsTyped'
  BY <1>2 DEF GuestsTyped
<1>5. Versions' = Versions /\ InForce' = InForce
  BY <1>2 DEF Versions, InForce
<1>6. NumbersAreBounded' /\ ToldOnce' /\ EventsTellTheActive'
  BY <1>2, <1>5 DEF NumbersAreBounded, Highest, ToldOnce, EventsTellTheActive
<1>7. \A j \in Import : Open(j)' => j # i /\ Open(j) /\ import'[j] = import[j]
  BY <1>1, <1>3 DEF Open
<1>8. \A j \in Import : NextVersionNo(j)' = NextVersionNo(j)
  BY <1>2, <1>5 DEF NextVersionNo
<1>9. NumbersFit'
  BY <1>2, <1>5, <1>7, <1>8 DEF NumbersFit, Taken
<1>10. BatchesFit'
  BY <1>2, <1>7 DEF BatchesFit, Told
<1>11. \A j \in Import : import'[j].step = "invite" => j # i /\ import'[j] = import[j]
  BY <1>1, <1>3
<1>12. InvitedOnce'
  BY <1>2, <1>11 DEF InvitedOnce
<1>13. ASSUME NEW j \in Import, NEW f \in Csv, Importing(j, f)'
       PROVE  /\ Importing(j, f)
              /\ j # i => import'[j] = import[j]
  <2>1. CASE j = i
    <3>1. q # NoImport /\ import'[i] = q
      BY <1>1, <1>3, <1>13, <2>1 DEF Importing
    <3> QED  BY <1>13, <2>1, <3>1 DEF Importing, ImportSteps
  <2>2. CASE j # i
    BY <1>1, <1>13, <2>2 DEF Importing
  <2> QED  BY <2>1, <2>2
<1>14. FilesFit'
  <2> SUFFICES ASSUME NEW j \in Import, NEW f \in Csv, Importing(j, f)'
               PROVE  /\ import'[j].step \notin {"save", "undo"} => f \in csvs' \cup doubledCsv'
                      /\ batch'[f] # "none" => f \in doubledCsv'
                      /\ \A k \in Import \ {j} : Importing(k, f)' => f \in doubledCsv'
    BY DEF FilesFit
  <2>1. Importing(j, f) /\ \A k \in Import \ {j} : Importing(k, f)' => Importing(k, f)
    BY <1>13
  <2>2. CASE j = i
    <3>1. q # NoImport /\ q.file = f /\ import'[j] = q
      BY <1>1, <1>3, <2>2 DEF Importing
    <3> QED  BY <1>2, <2>1, <2>2, <3>1 DEF FilesFit
  <2>3. CASE j # i
    <3>1. import'[j] = import[j]
      BY <1>13, <2>3
    <3>2. f \notin csvs' /\ f \in csvs => f = import[i].file /\ Importing(i, f)
      BY DEF Importing
    <3> QED  BY <1>2, <2>1, <2>3, <3>1, <3>2 DEF FilesFit
  <2> QED  BY <2>2, <2>3
<1>15. BatchesHaveTheirFile'
  <2> SUFFICES ASSUME NEW f \in Csv, batch[f] # "none"
               PROVE  f \in csvs' \cup doubledCsv
    BY <1>2 DEF BatchesHaveTheirFile
  <2>1. f \in csvs \cup doubledCsv
    BY DEF BatchesHaveTheirFile
  <2>2. f \in csvs /\ f \notin csvs' => Importing(i, f)
    BY DEF Importing
  <2> QED  BY <2>1, <2>2 DEF FilesFit
<1>16. FilesAreSorted'
  BY <1>1, <1>3 DEF FilesAreSorted, Sorted
<1> QED  BY <1>4, <1>6, <1>9, <1>10, <1>12, <1>14, <1>15, <1>16

\* A request begins.
LEMMA BeginKeepsGuests ==
  ASSUME GuestsInv, NEW i \in Import, NEW f \in Csv, ImportBegin(i, f)
  PROVE  GuestsInv'
<1> USE DEF GuestsInv
<1>1. PICK q : q = [step |-> "save", file |-> f, known |-> {}, no |-> 0, old |-> {}, held |-> {}]
  OBVIOUS
<1>2. q \in ImportRow /\ q.step = "save" /\ q.file = f
  BY <1>1 DEF ImportRow, ImportSteps
<1>3. /\ batch[f] = "none" /\ import[i] = NoImport /\ import' = [import EXCEPT ![i] = q]
      /\ doubledCsv' = IF \E j \in Import : Importing(j, f)
                       THEN doubledCsv \cup {f} ELSE doubledCsv
      /\ UNCHANGED <<batch, version, outbox, csvs, clear, invited, crossed>>
  BY <1>1 DEF ImportBegin, Begun, tableVars
<1>4. \A j \in Import : import'[j] = IF j = i THEN q ELSE import[j]
  BY <1>3 DEF GuestsTyped
<1>5. GuestsTyped'
  BY <1>2, <1>3 DEF GuestsTyped
<1>6. Versions' = Versions /\ InForce' = InForce
  BY <1>3 DEF Versions, InForce
<1>7. NumbersAreBounded' /\ ToldOnce' /\ EventsTellTheActive'
  BY <1>3, <1>6 DEF NumbersAreBounded, Highest, ToldOnce, EventsTellTheActive
<1>8. \A j \in Import : Open(j)' => j # i /\ Open(j) /\ import'[j] = import[j]
  BY <1>2, <1>4 DEF Open
<1>9. \A j \in Import : NextVersionNo(j)' = NextVersionNo(j)
  BY <1>3, <1>6 DEF NextVersionNo
<1>10. NumbersFit'
  BY <1>3, <1>6, <1>8, <1>9 DEF NumbersFit, Taken
<1>11. BatchesFit'
  BY <1>3, <1>8 DEF BatchesFit, Told
<1>12. \A j \in Import : import'[j].step = "invite" => j # i /\ import'[j] = import[j]
  BY <1>2, <1>4
<1>13. InvitedOnce'
  BY <1>3, <1>12 DEF InvitedOnce
<1>14. \A j \in Import, g \in Csv : Importing(j, g)' =>
         IF j = i THEN g = f ELSE Importing(j, g) /\ import'[j] = import[j]
  BY <1>2, <1>4 DEF Importing
<1>15. FilesFit'
  <2> SUFFICES ASSUME NEW j \in Import, NEW g \in Csv, Importing(j, g)'
               PROVE  /\ import'[j].step \notin {"save", "undo"} => g \in csvs' \cup doubledCsv'
                      /\ batch'[g] # "none" => g \in doubledCsv'
                      /\ \A k \in Import \ {j} : Importing(k, g)' => g \in doubledCsv'
    BY DEF FilesFit
  <2>1. CASE j = i
    BY <1>2, <1>3, <1>4, <1>14, <2>1
  <2>2. CASE j # i
    BY <1>3, <1>14, <2>2 DEF FilesFit
  <2> QED  BY <2>1, <2>2
<1>16. BatchesHaveTheirFile'
  BY <1>3 DEF BatchesHaveTheirFile
<1>17. FilesAreSorted'
  BY <1>2, <1>4 DEF FilesAreSorted, Sorted
<1> QED  BY <1>5, <1>7, <1>10, <1>11, <1>13, <1>15, <1>16, <1>17

\* A batch that is not to be published is made, and the request ends.
LEMMA RefusalKeepsGuests ==
  ASSUME GuestsInv, NEW i \in Import, import[i].step \in {"refuse", "open"},
         NEW f \in Csv, f = import[i].file, batch[f] = "none",
         \A j \in Import : Open(j) => import[j].file # f,
         NEW st \in {"failed", "validation_failed"}, batch' = [batch EXCEPT ![f] = st],
         EndImport(i), UNCHANGED <<version, outbox, csvs, clear, invited, history>>
  PROVE  GuestsInv'
<1> USE DEF GuestsInv
<1>1. /\ \A j \in Import : import'[j] = IF j = i THEN NoImport ELSE import[j]
      /\ import' = [import EXCEPT ![i] = NoImport]
  BY DEF EndImport, GuestsTyped
<1>2. UNCHANGED <<version, outbox, csvs, clear, invited, crossed, doubledCsv>>
  BY DEF history
<1>3. NoImport.step = "idle"
  BY DEF NoImport
<1>4. \A g \in Csv : batch'[g] = IF g = f THEN st ELSE batch[g]
  BY DEF GuestsTyped
<1>5. GuestsTyped'
  BY <1>1, <1>2 DEF GuestsTyped
<1>6. Versions' = Versions /\ InForce' = InForce
  BY <1>2 DEF Versions, InForce
<1>7. NumbersAreBounded' /\ ToldOnce' /\ EventsTellTheActive'
  BY <1>2, <1>6 DEF NumbersAreBounded, Highest, ToldOnce, EventsTellTheActive
<1>8. \A j \in Import : Open(j)' => j # i /\ Open(j) /\ import'[j] = import[j]
  BY <1>1, <1>3 DEF Open
<1>9. \A j \in Import : NextVersionNo(j)' = NextVersionNo(j)
  BY <1>2, <1>6 DEF NextVersionNo
<1>10. NumbersFit'
  BY <1>2, <1>6, <1>8, <1>9 DEF NumbersFit, Taken
<1>11. version[f].no = 0 /\ ~Told(f) /\ invited[f] = 0
  <2>1. version[f].no \in Nat /\ invited[f] \in Nat
    BY DEF GuestsTyped
  <2>2. ~(version[f].no > 0 \/ Told(f) \/ invited[f] > 0)
    BY DEF BatchesFit
  <2> QED  BY <2>1, <2>2
<1>12. BatchesFit'
  <2>1. \A j \in Import : Open(j)' =>
          /\ batch'[import'[j].file] = "none"
          /\ \A k \in Import : Open(k)' /\ import'[k].file = import'[j].file => k = j
    BY <1>4, <1>8, ImportFields DEF BatchesFit, Open
  <2>2. \A g \in Csv : version'[g].no > 0 \/ Told(g)' \/ invited'[g] > 0 => batch'[g] = "published"
    BY <1>2, <1>4, <1>11 DEF BatchesFit, Told
  <2> QED  BY <2>1, <2>2 DEF BatchesFit
<1>13. \A j \in Import : import'[j].step = "invite" => j # i /\ import'[j] = import[j]
  BY <1>1, <1>3
<1>14. InvitedOnce'
  <2>1. \A j \in Import : import'[j].step = "invite" => import'[j].file # f
    BY <1>13 DEF InvitedOnce
  <2>2. \A j \in Import : import'[j].step = "invite" => import'[j].file \in Csv
    BY <1>5, <1>3, ImportFields DEF GuestsTyped
  <2> QED  BY <1>2, <1>4, <1>13, <2>1, <2>2 DEF InvitedOnce
<1>15. \A j \in Import, g \in Csv : Importing(j, g)' =>
         j # i /\ Importing(j, g) /\ import'[j] = import[j]
  BY <1>1, <1>3 DEF Importing
<1>16. Importing(i, f)
  BY DEF Importing
<1>17. FilesFit'
  BY <1>2, <1>4, <1>15, <1>16 DEF FilesFit
<1>18. BatchesHaveTheirFile'
  BY <1>2, <1>4, <1>16 DEF BatchesHaveTheirFile, FilesFit
<1>19. FilesAreSorted'
  BY <1>1, <1>3 DEF FilesAreSorted, Sorted
<1> QED  BY <1>5, <1>7, <1>10, <1>12, <1>14, <1>17, <1>18, <1>19

\* The transaction goes on, with the number and the version it has read.
LEMMA OpenKeepsGuests ==
  ASSUME GuestsInv, NEW i \in Import, import[i] # NoImport,
         NEW q \in ImportRow, import' = [import EXCEPT ![i] = q], q.file = import[i].file,
         \/ /\ import[i].step = "open" /\ q.step = "deactivate" /\ q.no = NextVersionNo(i)
            /\ batch[q.file] = "none"
            /\ \A j \in Import : Open(j) => import[j].file # q.file
         \/ /\ import[i].step = "deactivate" /\ q.step = "publish" /\ q.no = import[i].no
            /\ q.old = InForce,
         UNCHANGED <<tableVars, csvs, clear, invited, history>>
  PROVE  GuestsInv'
<1> USE DEF GuestsInv
<1>1. \A j \in Import : import'[j] = IF j = i THEN q ELSE import[j]
  BY DEF GuestsTyped
<1>2. UNCHANGED <<batch, version, outbox, csvs, clear, invited, crossed, doubledCsv>>
  BY DEF tableVars, history
<1>3. GuestsTyped'
  BY <1>2 DEF GuestsTyped
<1>4. Versions' = Versions /\ InForce' = InForce
  BY <1>2 DEF Versions, InForce
<1>5. NumbersAreBounded' /\ ToldOnce' /\ EventsTellTheActive'
  BY <1>2, <1>4 DEF NumbersAreBounded, Highest, ToldOnce, EventsTellTheActive
<1>6. \A j \in Import : Open(j)' => j = i \/ (Open(j) /\ import'[j] = import[j])
  BY <1>1 DEF Open
<1>7. \A j \in Import : NextVersionNo(j)' = NextVersionNo(j)
  BY <1>2, <1>4 DEF NextVersionNo
<1>8. NumbersFit'
  <2> SUFFICES ASSUME NEW j \in Import, Open(j)'
               PROVE  /\ import'[j].no > 0
                      /\ ~crossed' => \/ Taken(import[j].no)'
                                      \/ /\ import'[j].no = NextVersionNo(j)'
                                         /\ import'[j].step = "publish" =>
                                              import'[j].old = InForce'
    BY DEF NumbersFit
  <2>1. Taken(import[j].no)' <=> Taken(import'[j].no)
    BY <1>2, <1>4 DEF Taken
  <2>2. CASE j = i /\ q.step = "deactivate"
    BY <1>1, <1>7, <2>1, <2>2, NextIsNext
  <2>3. CASE j = i /\ q.step = "publish"
    <3>1. Open(i) /\ q.no = import[i].no /\ q.old = InForce /\ import'[j] = q
      BY <1>1, <2>3 DEF Open
    <3> QED  BY <1>2, <1>4, <1>7, <2>1, <2>3, <3>1 DEF NumbersFit
  <2>4. CASE j # i
    BY <1>1, <1>2, <1>4, <1>6, <1>7, <2>1, <2>4 DEF NumbersFit
  <2> QED  BY <2>2, <2>3, <2>4
<1>9. BatchesFit'
  <2>1. ASSUME NEW j \in Import, Open(j)'
        PROVE  /\ batch'[import'[j].file] = "none"
               /\ \A k \in Import : Open(k)' /\ import'[k].file = import'[j].file => k = j
    BY <1>1, <1>2, <1>6, <2>1 DEF BatchesFit, Open
  <2> QED  BY <1>2, <2>1 DEF BatchesFit, Told
<1>10. \A j \in Import : import'[j].step = "invite" => j # i /\ import'[j] = import[j]
  BY <1>1
<1>11. InvitedOnce'
  BY <1>2, <1>10 DEF InvitedOnce
<1>12. \A j \in Import, g \in Csv : Importing(j, g)' =>
         /\ Importing(j, g)
         /\ IF j = i THEN import[j].step \notin {"save", "undo"} ELSE import'[j] = import[j]
  BY <1>1 DEF Importing
<1>13. FilesFit'
  BY <1>2, <1>12 DEF FilesFit
<1>14. BatchesHaveTheirFile'
  BY <1>2 DEF BatchesHaveTheirFile
<1>15. FilesAreSorted'
  BY <1>1 DEF FilesAreSorted, Sorted
<1> QED  BY <1>3, <1>5, <1>8, <1>9, <1>11, <1>13, <1>14, <1>15

LEMMA InviteKeepsGuests ==
  ASSUME GuestsInv, NEW i \in Import, Invite(i)
  PROVE  GuestsInv'
<1> USE DEF GuestsInv
<1>1. PICK f \in Csv : f = import[i].file
  BY ImportFields DEF Invite, GuestsTyped, NoImport
<1>2. /\ import[i].step = "invite" /\ import' = [import EXCEPT ![i] = NoImport]
      /\ UNCHANGED <<batch, version, outbox, csvs, clear, crossed, doubledCsv>>
      /\ \/ invited' = [invited EXCEPT ![f] = invited[f] + 1]
         \/ invited' = invited
  BY <1>1 DEF Invite, EndImport, tableVars, history
<1>3. \A j \in Import : import'[j] = IF j = i THEN NoImport ELSE import[j]
  BY <1>2 DEF GuestsTyped
<1>4. /\ invited' \in [Csv -> Nat] /\ invited[f] = 0 /\ batch[f] = "published"
      /\ invited'[f] \in 0..1
      /\ \A g \in Csv \ {f} : invited'[g] = invited[g]
  BY <1>1, <1>2 DEF GuestsTyped, InvitedOnce
<1>5. NoImport.step = "idle"
  BY DEF NoImport
<1>6. GuestsTyped'
  BY <1>2, <1>4 DEF GuestsTyped
<1>7. Versions' = Versions /\ InForce' = InForce
  BY <1>2 DEF Versions, InForce
<1>8. NumbersAreBounded' /\ ToldOnce' /\ EventsTellTheActive'
  BY <1>2, <1>7 DEF NumbersAreBounded, Highest, ToldOnce, EventsTellTheActive
<1>9. \A j \in Import : Open(j)' => j # i /\ Open(j) /\ import'[j] = import[j]
  BY <1>3, <1>5 DEF Open
<1>10. \A j \in Import : NextVersionNo(j)' = NextVersionNo(j)
  BY <1>2, <1>7 DEF NextVersionNo
<1>11. NumbersFit'
  BY <1>2, <1>7, <1>9, <1>10 DEF NumbersFit, Taken
<1>12. BatchesFit'
  <2>1. \A g \in Csv : invited'[g] > 0 => g = f \/ invited[g] > 0
    BY <1>4
  <2> QED  BY <1>2, <1>4, <1>9, <2>1 DEF BatchesFit, Told
<1>13. InvitedOnce'
  <2>1. \A j \in Import : import'[j].step = "invite" =>
          j # i /\ import'[j] = import[j] /\ import[j].file # f
    BY <1>1, <1>2, <1>3, <1>5 DEF InvitedOnce
  <2>2. \A j \in Import : import'[j].step = "invite" => import'[j].file \in Csv
    BY <1>5, <1>6, ImportFields DEF GuestsTyped
  <2>3. \A g \in Csv : invited'[g] <= 1
    BY <1>4 DEF InvitedOnce
  <2> QED  BY <1>2, <1>4, <2>1, <2>2, <2>3 DEF InvitedOnce
<1>14. \A j \in Import, g \in Csv : Importing(j, g)' =>
         j # i /\ Importing(j, g) /\ import'[j] = import[j]
  BY <1>3, <1>5 DEF Importing
<1>15. FilesFit' /\ BatchesHaveTheirFile'
  BY <1>2, <1>14 DEF FilesFit, BatchesHaveTheirFile
<1>16. FilesAreSorted'
  BY <1>3, <1>5 DEF FilesAreSorted, Sorted
<1> QED  BY <1>6, <1>8, <1>11, <1>12, <1>13, <1>15, <1>16

\* With a number that nobody has, the file's version becomes the only one in
\* force, unless a deletion has crossed the import.
LEMMA PublishKeepsGuests ==
  ASSUME GuestsInv, NEW i \in Import, PublishVersion(i)
  PROVE  GuestsInv'
<1> USE DEF GuestsInv
<1>1. PICK e \in ImportRow : e = import[i] /\ e.step = "publish" /\ e.file \in Csv /\ Open(i)
  BY ImportFields DEF PublishVersion, GuestsTyped, NoImport, Open
<1>2. PICK f \in Csv : f = e.file
  BY <1>1
<1>3. PICK q \in ImportRow : /\ import' = [import EXCEPT ![i] = q]
                             /\ q.step = "invite" /\ q.file = f
  <2>1. PICK q : q = [e EXCEPT !.step = "invite"]
    OBVIOUS
  <2>2. q \in ImportRow /\ q.step = "invite" /\ q.file = e.file
    BY <2>1, Zenon DEF ImportRow, ImportSteps
  <2>3. import' = [import EXCEPT ![i] = q]
    BY <1>1, <2>1 DEF PublishVersion, GoOnImport, GuestsTyped
  <2> QED  BY <1>2, <2>2, <2>3
<1>4. /\ version' = [g \in Csv |->
            IF g = f THEN [no |-> e.no, active |-> TRUE]
            ELSE [version[g] EXCEPT !.active = @ /\ g \notin e.old]]
      /\ batch' = [batch EXCEPT ![f] = "published"]
      /\ outbox' = Append(outbox, f)
      /\ \A g \in Versions : version[g].no # e.no
      /\ UNCHANGED <<csvs, clear, invited, crossed, doubledCsv>>
  BY <1>1, <1>2 DEF PublishVersion, history
<1>5. /\ batch[f] = "none" /\ version[f].no = 0 /\ ~Told(f) /\ invited[f] = 0
      /\ \A j \in Import : Open(j) /\ import[j].file = f => j = i
  <2>1. version[f].no \in Nat /\ invited[f] \in Nat
    BY DEF GuestsTyped
  <2>2. batch[f] = "none" /\ \A j \in Import : Open(j) /\ import[j].file = f => j = i
    BY <1>1, <1>2 DEF BatchesFit
  <2>3. ~(version[f].no > 0 \/ Told(f) \/ invited[f] > 0)
    BY <2>2 DEF BatchesFit
  <2> QED  BY <2>1, <2>2, <2>3
<1>6. /\ version' \in [Csv -> [no : Nat, active : BOOLEAN]]
      /\ version'[f].no = e.no /\ version'[f].active
      /\ \A g \in Csv \ {f} : /\ version'[g].no = version[g].no
                              /\ version'[g].active <=> (version[g].active /\ g \notin e.old)
  <2>1. \A r \in [no : Nat, active : BOOLEAN], b \in BOOLEAN :
          /\ [r EXCEPT !.active = b] \in [no : Nat, active : BOOLEAN]
          /\ [r EXCEPT !.active = b].no = r.no /\ [r EXCEPT !.active = b].active = b
    BY Zenon
  <2>2. ASSUME NEW g \in Csv \ {f}
        PROVE  /\ version'[g] \in [no : Nat, active : BOOLEAN]
               /\ version'[g].no = version[g].no
               /\ version'[g].active <=> (version[g].active /\ g \notin e.old)
    <3>1. PICK r \in [no : Nat, active : BOOLEAN] : r = version[g]
      BY DEF GuestsTyped
    <3>2. PICK b \in BOOLEAN : b = (r.active /\ g \notin e.old)
      OBVIOUS
    <3>3. version'[g] = [r EXCEPT !.active = b]
      BY <1>4, <3>1, <3>2, Zenon
    <3>4. /\ version'[g] \in [no : Nat, active : BOOLEAN]
          /\ version'[g].no = r.no /\ version'[g].active = b
      BY <2>1, <3>3, Zenon
    <3> QED  BY <3>1, <3>2, <3>4
  <2>3. version'[f] = [no |-> e.no, active |-> TRUE]
    BY <1>4
  <2>4. version'[f] \in [no : Nat, active : BOOLEAN] /\ version'[f].no = e.no /\ version'[f].active
    BY <2>3, ImportFields
  <2>5. version' = [g \in Csv |-> version'[g]]
    BY <1>4, Zenon
  <2>6. \A g \in Csv : version'[g] \in [no : Nat, active : BOOLEAN]
    BY <2>2, <2>4
  <2>7. version' \in [Csv -> [no : Nat, active : BOOLEAN]]
    BY <2>5, <2>6, Zenon
  <2> QED  BY <2>2, <2>4, <2>7
<1>7. e.no \in Nat /\ e.no > 0
  BY <1>1, ImportFields DEF NumbersFit
<1>8. Versions' = Versions \cup {f} /\ f \notin Versions
  BY <1>5, <1>6, <1>7 DEF Versions
<1>9. \A j \in Import : import'[j] = IF j = i THEN q ELSE import[j]
  BY <1>3 DEF GuestsTyped
<1>10. GuestsTyped'
  BY <1>3, <1>4, <1>6 DEF GuestsTyped
<1>11. NumbersAreBounded'
  <2> SUFFICES ASSUME NEW S \in SUBSET Versions'
               PROVE  \E n \in Nat : Highest(S, n)'
    BY DEF NumbersAreBounded
  <2>1. S \ {f} \in SUBSET Versions /\ \A g \in S \ {f} : g \in Csv /\ g \in Versions
    BY <1>8 DEF Versions
  <2>2. PICK n \in Nat : Highest(S \ {f}, n)
    BY <2>1 DEF NumbersAreBounded
  <2>3. \A g \in S \ {f} : version'[g].no = version[g].no /\ version[g].no \in Nat
    BY <1>6, <2>1 DEF GuestsTyped
  <2>4. Highest(S \ {f}, n)'
    BY <2>2, <2>3 DEF Highest
  <2>5. CASE f \notin S
    BY <2>4, <2>5
  <2>6. CASE f \in S /\ e.no >= n
    <3>1. Highest(S, e.no)'
      BY <1>6, <1>7, <2>2, <2>3, <2>4, <2>6 DEF Highest
    <3> QED  BY <1>7, <3>1
  <2>7. CASE f \in S /\ ~(e.no >= n)
    <3>1. Highest(S, n)'
      BY <1>6, <1>7, <2>2, <2>3, <2>4, <2>7 DEF Highest
    <3> QED  BY <3>1
  <2> QED  BY <2>5, <2>6, <2>7
<1>12. \A j \in Import : Open(j)' => j # i /\ Open(j) /\ import'[j] = import[j]
  BY <1>3, <1>9 DEF Open
<1>13. \A n : Taken(n) => Taken(n)'
  BY <1>6, <1>8 DEF Taken, Versions
<1>14. \A j, k \in Import : NextVersionNo(j) = NextVersionNo(k)
  BY DEF NextVersionNo
<1>15. ~crossed => e.no = NextVersionNo(i) /\ e.old = InForce
  BY <1>1, <1>4 DEF NumbersFit, Taken
<1>16. Taken(e.no)'
  BY <1>6, <1>8 DEF Taken
<1>17. NumbersFit'
  <2> SUFFICES ASSUME NEW j \in Import, Open(j)'
               PROVE  import'[j].no > 0 /\ (~crossed' => Taken(import[j].no)')
    BY DEF NumbersFit
  <2>1. j # i /\ Open(j) /\ import'[j] = import[j]
    BY <1>12
  <2>2. import'[j].no > 0
    BY <2>1 DEF NumbersFit
  <2>3. ~crossed => Taken(import[j].no) \/ import[j].no = e.no
    BY <1>14, <1>15, <2>1 DEF NumbersFit
  <2> QED  BY <1>4, <1>13, <1>16, <2>1, <2>2, <2>3
<1>18. \A g \in Csv : batch'[g] = IF g = f THEN "published" ELSE batch[g]
  BY <1>4 DEF GuestsTyped
<1>19. /\ Len(outbox) \in Nat /\ Len(outbox') = Len(outbox) + 1
       /\ \A n \in 1..Len(outbox') : outbox'[n] = IF n = Len(outbox) + 1 THEN f ELSE outbox[n]
  BY <1>4 DEF GuestsTyped
<1>20. \A g \in Csv : Told(g)' => g = f \/ Told(g)
  BY <1>19 DEF Told
<1>21. BatchesFit'
  <2>1. \A j \in Import : Open(j)' =>
          /\ batch'[import'[j].file] = "none"
          /\ \A k \in Import : Open(k)' /\ import'[k].file = import'[j].file => k = j
    <3>1. \A j \in Import : Open(j)' => import'[j].file \in Csv \ {f}
      BY <1>5, <1>12, ImportFields DEF Open, GuestsTyped, NoImport
    <3> QED  BY <1>12, <1>18, <3>1 DEF BatchesFit
  <2>2. \A g \in Csv : version'[g].no > 0 \/ Told(g)' \/ invited'[g] > 0 => batch'[g] = "published"
    BY <1>4, <1>6, <1>18, <1>20 DEF BatchesFit
  <2> QED  BY <2>1, <2>2 DEF BatchesFit
<1>22. ToldOnce'
  BY <1>5, <1>19 DEF ToldOnce, Told
<1>23. InvitedOnce'
  <2>1. \A j \in Import \ {i} : import'[j].step = "invite" =>
          import'[j] = import[j] /\ import'[j].file # f
    BY <1>5, <1>9 DEF InvitedOnce
  <2>2. \A j \in Import : import'[j].step = "invite" => import'[j].file \in Csv
    BY <1>3, <1>9, <1>10, ImportFields DEF GuestsTyped, NoImport
  <2> QED  BY <1>3, <1>4, <1>5, <1>9, <1>18, <2>1, <2>2 DEF InvitedOnce
<1>24. \A j \in Import, g \in Csv : Importing(j, g)' =>
         j # i /\ Importing(j, g) /\ import'[j] = import[j]
  BY <1>3, <1>9 DEF Importing
<1>25. Importing(i, f)
  BY <1>1, <1>2 DEF Importing
<1>26. FilesFit' /\ BatchesHaveTheirFile'
  BY <1>1, <1>4, <1>18, <1>24, <1>25 DEF FilesFit, BatchesHaveTheirFile
<1>27. EventsTellTheActive'
  <2> SUFFICES ASSUME ~crossed
               PROVE  InForce' = ToldBy(outbox')
    BY <1>4 DEF EventsTellTheActive
  <2>1. e.old = InForce
    BY <1>15
  <2>2. InForce' = {f}
    BY <1>6, <2>1 DEF InForce
  <2>3. outbox' # <<>> /\ Last(outbox') = f
    BY <1>19 DEF Last
  <2>4. f # "cleared"
    BY GuestListAssumption
  <2> QED  BY <2>2, <2>3, <2>4 DEF ToldBy
<1>28. FilesAreSorted'
  BY <1>3, <1>9 DEF FilesAreSorted, Sorted
<1> QED
  BY <1>10, <1>11, <1>17, <1>21, <1>22, <1>23, <1>26, <1>27, <1>28

LEMMA ReadActiveKeepsGuests ==
  ASSUME GuestsInv, clear' \in [Clear -> Csv \cup {NoClear}],
         UNCHANGED <<tableVars, csvs, import, invited, history>>
  PROVE  GuestsInv'
<1>1. UNCHANGED <<batch, version, outbox, csvs, import, invited, crossed, doubledCsv>>
  BY DEF tableVars, history
<1>2. GuestsTyped' /\ ToldOnce' /\ BatchesHaveTheirFile' /\ FilesAreSorted'
  BY <1>1 DEF GuestsInv, GuestsTyped, ToldOnce, BatchesHaveTheirFile, FilesAreSorted
<1>3. Versions' = Versions /\ InForce' = InForce
  BY <1>1 DEF Versions, InForce
<1>4. NumbersAreBounded' /\ EventsTellTheActive'
  BY <1>1, <1>3 DEF GuestsInv, NumbersAreBounded, Highest, EventsTellTheActive
<1>5. \A j \in Import : NextVersionNo(j)' = NextVersionNo(j) /\ Open(j)' = Open(j)
  BY <1>1, <1>3 DEF NextVersionNo, Open
<1>6. NumbersFit'
  BY <1>1, <1>3, <1>5 DEF GuestsInv, NumbersFit, Taken
<1>7. BatchesFit' /\ InvitedOnce' /\ FilesFit'
  BY <1>1, <1>5 DEF GuestsInv, BatchesFit, InvitedOnce, FilesFit, Told, Importing
<1> QED  BY <1>2, <1>4, <1>6, <1>7 DEF GuestsInv

\* A deletion that crosses no import takes the one version in force away; one
\* that does is remembered.
LEMMA DeleteKeepsGuests ==
  ASSUME GuestsInv, NEW d \in Clear, DeleteVersion(d)
  PROVE  GuestsInv'
<1> USE DEF GuestsInv
<1>1. PICK f \in Csv : f = clear[d]
  BY DEF DeleteVersion, GuestsTyped
<1>2. /\ clear' = [clear EXCEPT ![d] = NoClear]
      /\ UNCHANGED <<batch, csvs, import, invited, doubledCsv>>
  BY DEF DeleteVersion
<1>3. clear' \in [Clear -> Csv \cup {NoClear}]
  BY <1>2 DEF GuestsTyped
<1>4. CASE version[f] = NoVersion
  BY <1>1, <1>2, <1>3, <1>4, ReadActiveKeepsGuests DEF DeleteVersion, tableVars, history
<1>5. CASE version[f] # NoVersion
  <2>1. /\ version' = [version EXCEPT ![f] = NoVersion]
        /\ outbox' = Append(outbox, "cleared")
        /\ crossed' = (crossed \/ ~version[f].active \/ \E i \in Import : Open(i))
    BY <1>1, <1>5 DEF DeleteVersion
  <2>2. NoVersion \in [no : Nat, active : BOOLEAN] /\ NoVersion.no = 0 /\ ~NoVersion.active
    BY DEF NoVersion
  <2>3. /\ version' \in [Csv -> [no : Nat, active : BOOLEAN]]
        /\ \A g \in Csv : version'[g] = IF g = f THEN NoVersion ELSE version[g]
    BY <2>1, <2>2 DEF GuestsTyped
  <2>4. /\ Len(outbox) \in Nat /\ Len(outbox') = Len(outbox) + 1
        /\ outbox' \in Seq(Csv \cup {"cleared"})
        /\ \A n \in 1..Len(outbox') :
             outbox'[n] = IF n = Len(outbox) + 1 THEN "cleared" ELSE outbox[n]
    BY <2>1 DEF GuestsTyped
  <2>5. GuestsTyped'
    BY <1>2, <1>3, <2>1, <2>3, <2>4 DEF GuestsTyped
  <2>6. Versions' = Versions \ {f} /\ InForce' = InForce \ {f}
    BY <2>2, <2>3 DEF Versions, InForce
  <2>7. NumbersAreBounded'
    <3> SUFFICES ASSUME NEW S \in SUBSET Versions'
                 PROVE  \E n \in Nat : Highest(S, n)'
      BY DEF NumbersAreBounded
    <3>1. S \in SUBSET Versions /\ \A g \in S : version'[g] = version[g]
      BY <2>3, <2>6 DEF Versions
    <3>2. PICK n \in Nat : Highest(S, n)
      BY <3>1 DEF NumbersAreBounded
    <3>3. Highest(S, n)'
      BY <3>1, <3>2 DEF Highest
    <3> QED  BY <3>3
  <2>8. \A j \in Import : Open(j)' <=> Open(j)
    BY <1>2 DEF Open
  <2>9. NumbersFit'
    BY <1>2, <2>1, <2>8 DEF NumbersFit
  <2>10. \A g \in Csv : Told(g)' => Told(g)
    BY <2>4, GuestListAssumption DEF Told
  <2>11. BatchesFit'
    <3>1. \A g \in Csv : version'[g].no > 0 => version[g].no > 0
      BY <2>2, <2>3
    <3> QED  BY <1>2, <2>8, <2>10, <3>1 DEF BatchesFit
  <2>12. InvitedOnce' /\ FilesFit' /\ BatchesHaveTheirFile' /\ FilesAreSorted'
    BY <1>2 DEF InvitedOnce, FilesFit, BatchesHaveTheirFile, Importing, FilesAreSorted
  <2>13. ToldOnce'
    BY <2>4, GuestListAssumption DEF ToldOnce
  <2>14. EventsTellTheActive'
    <3> SUFFICES ASSUME ~crossed'
                 PROVE  InForce' = {}
      BY <2>4 DEF EventsTellTheActive, ToldBy, Last
    <3>1. f \in InForce /\ InForce = ToldBy(outbox)
      BY <2>1 DEF InForce, EventsTellTheActive
    <3>2. InForce = {f}
      BY <3>1 DEF ToldBy
    <3> QED  BY <2>6, <3>2
  <2> QED
    BY <2>5, <2>7, <2>9, <2>11, <2>12, <2>13, <2>14
<1> QED  BY <1>4, <1>5

WithKnown(r, S) == [r EXCEPT !.known = S]
WithoutHeld(r) == [r EXCEPT !.held = {}]

LEMMA ImportKeepsGuests ==
  ASSUME GuestsInv, NEW i \in Import, ImportStep(i)
  PROVE  GuestsInv'
<1> USE DEF GuestsInv
<1>1. CASE \E f \in Csv : ImportBegin(i, f)
  BY <1>1, BeginKeepsGuests
<1>2. CASE PublishVersion(i) \/ Invite(i)
  BY <1>2, PublishKeepsGuests, InviteKeepsGuests
<1>3. CASE ImportDies(i) \/ UndoImport(i) \/ (SaveCsv(i) /\ EndImport(i))
  <2>1. /\ import[i] # NoImport /\ import' = [import EXCEPT ![i] = NoImport]
        /\ UNCHANGED <<tableVars, clear, invited, history>>
        /\ \/ csvs' = csvs
           \/ csvs' = csvs \cup {import[i].file}
           \/ csvs' = csvs \ {import[i].file} /\ import[i].step = "undo"
    BY <1>3 DEF ImportDies, UndoImport, SaveCsv, EndImport, NoImport
  <2> QED  BY <2>1, StepKeepsGuests
<1>4. ASSUME import[i].step \in ImportSteps
      PROVE  import[i] \in ImportRow /\ import[i] # NoImport
  BY <1>4 DEF GuestsTyped, NoImport, ImportSteps
<1>5. ASSUME NEW st \in {"refuse", "guests", "open", "undo"}, NEW S \in SUBSET Guest,
             import[i].step \in ImportSteps \ {"undo", "invite"},
             NEW r, import' = [import EXCEPT ![i] = r] \/ GoOnImport(i, st),
             \/ r = [import[i] EXCEPT !.step = st, !.known = S]
             \/ r = [import[i] EXCEPT !.step = st, !.held = {}],
             \/ /\ csvs' = csvs \cup {import[i].file}
                /\ st = (IF import[i].file \in Unparsable THEN "refuse" ELSE "guests")
             \/ csvs' = csvs /\ st = "undo"
             \/ csvs' = csvs /\ st = "open" /\ import[i].step = "guests",
             UNCHANGED <<tableVars, clear, invited, history>>
      PROVE  GuestsInv'
  <2>1. PICK e \in ImportRow : e = import[i] /\ e # NoImport /\ e.file \in Csv
    BY <1>4, <1>5, ImportFields
  <2>2. PICK q1 : q1 = [e EXCEPT !.step = st]
    OBVIOUS
  <2>3. q1 \in ImportRow /\ q1.step = st /\ q1.file = e.file
    BY <1>5, <2>2, Zenon DEF ImportRow, ImportSteps
  <2>4. /\ WithKnown(q1, S) \in ImportRow /\ WithKnown(q1, S).step = st
        /\ WithKnown(q1, S).file = e.file
    BY <2>3, Zenon DEF ImportRow, WithKnown
  <2>5. {} \in SUBSET Csv
    OBVIOUS
  <2>6. /\ WithoutHeld(q1) \in ImportRow /\ WithoutHeld(q1).step = st
        /\ WithoutHeld(q1).file = e.file
    BY <2>3, <2>5, Zenon DEF ImportRow, WithoutHeld
  <2>7. /\ [e EXCEPT !.step = st, !.known = S] = WithKnown(q1, S)
        /\ [e EXCEPT !.step = st, !.held = {}] = WithoutHeld(q1)
    BY <2>2, Zenon DEF WithKnown, WithoutHeld
  <2>8. PICK q \in ImportRow :
          import' = [import EXCEPT ![i] = q] /\ q.step = st /\ q.file = e.file
    <3>1. CASE GoOnImport(i, st)
      <4>1. import' = [import EXCEPT ![i] = q1]
        BY <2>1, <2>2, <3>1 DEF GoOnImport, GuestsTyped
      <4> QED  BY <2>3, <4>1
    <3>2. CASE import' = [import EXCEPT ![i] = r]
      <4>1. r = WithKnown(q1, S) \/ r = WithoutHeld(q1)
        BY <1>5, <2>1, <2>7, Zenon
      <4> QED  BY <2>4, <2>6, <3>2, <4>1, Zenon
    <3> QED  BY <1>5, <3>1, <3>2
  <2>9. Importing(i, e.file)
    BY <1>5, <2>1 DEF Importing, ImportSteps
  <2>10. st # "undo" => q.file \in csvs' \cup doubledCsv
    BY <1>5, <2>1, <2>8, <2>9 DEF FilesFit
  <2>11. Sorted(q)
    BY <1>5, <2>1, <2>8 DEF FilesAreSorted, Sorted
  <2> QED
    BY <1>5, <2>1, <2>8, <2>10, <2>11, StepKeepsGuests
<1>6. CASE SaveCsv(i) /\ ~EndImport(i)
  <2>1. PICK st \in {"refuse", "guests"} :
          /\ st = (IF import[i].file \in Unparsable THEN "refuse" ELSE "guests")
          /\ GoOnImport(i, st)
    BY <1>6 DEF SaveCsv
  <2> QED  BY <1>5, <1>6, <2>1 DEF SaveCsv, ImportSteps
<1>7. ASSUME import[i].step \in {"refuse", "open"}, NewBatch(import[i].file),
             \A j \in Import : Open(j) => import[j].file # import[i].file,
             NEW st \in {"failed", "validation_failed"},
             batch' = [batch EXCEPT ![import[i].file] = st], EndImport(i),
             UNCHANGED <<version, outbox, csvs, clear, invited, history>>
      PROVE  GuestsInv'
  <2>1. PICK f \in Csv : f = import[i].file
    BY <1>4, <1>7, ImportFields DEF ImportSteps
  <2> QED  BY <1>7, <2>1, RefusalKeepsGuests DEF NewBatch
<1>8. CASE RefuseCsv(i)
  <2>1. \A j \in Import : Open(j) => import[j].file # import[i].file
    BY <1>8 DEF RefuseCsv, FilesAreSorted, Sorted, Open
  <2>2. CASE GoOnImport(i, "undo") /\ UNCHANGED batch
    <3>1. {} \in SUBSET Guest
      OBVIOUS
    <3> QED  BY <1>5, <1>8, <2>2, <3>1 DEF RefuseCsv, ImportSteps, tableVars
  <2>3. CASE ~(GoOnImport(i, "undo") /\ UNCHANGED batch)
    BY <1>7, <1>8, <2>1, <2>3 DEF RefuseCsv
  <2> QED  BY <2>2, <2>3
<1>9. CASE ReadGuests(i)
  <2>1. PICK S \in IF InForce = {} THEN {{}} ELSE {GuestsOf[f] : f \in InForce} :
          import' = [import EXCEPT ![i].step = "open", ![i].known = S]
    BY <1>9 DEF ReadGuests
  <2>2. S \in SUBSET Guest
    BY <2>1, GuestListAssumption DEF InForce
  <2>3. import' = [import EXCEPT ![i] = [import[i] EXCEPT !.step = "open", !.known = S]]
    BY <2>1 DEF GuestsTyped
  <2> QED  BY <1>5, <1>9, <2>2, <2>3 DEF ReadGuests, ImportSteps
<1>10. CASE AbortImport(i)
  <2>1. import' = [import EXCEPT ![i] = [import[i] EXCEPT !.step = "undo", !.held = {}]]
    BY <1>10 DEF AbortImport, GuestsTyped
  <2>2. {} \in SUBSET Guest
    OBVIOUS
  <2> QED  BY <1>5, <1>10, <2>1, <2>2 DEF AbortImport, ImportSteps
<1>11. CASE OpenImport(i)
  <2>1. /\ import[i].step = "open" /\ \A j \in Import : Open(j) => import[j].file # import[i].file
        /\ UNCHANGED <<version, outbox, csvs, clear, invited, history>>
    BY <1>11 DEF OpenImport
  <2>2. CASE GoOnImport(i, "undo") /\ UNCHANGED batch
    <3>1. {} \in SUBSET Guest
      OBVIOUS
    <3> QED  BY <1>5, <2>1, <2>2, <3>1 DEF ImportSteps, tableVars
  <2>3. CASE NewBatch(import[i].file) /\ HasInvalidRows(i)
               /\ batch' = [batch EXCEPT ![import[i].file] = "validation_failed"] /\ EndImport(i)
    BY <1>7, <2>1, <2>3
  <2>4. CASE /\ NewBatch(import[i].file) /\ UNCHANGED batch
             /\ import' = [import EXCEPT ![i].step = "deactivate", ![i].no = NextVersionNo(i)]
    <3>1. PICK e \in ImportRow : e = import[i] /\ e # NoImport
      BY <1>4, <2>1 DEF ImportSteps
    <3>2. PICK n \in Nat : n = NextVersionNo(i)
      BY NextIsNext
    <3>3. PICK q1 : q1 = [e EXCEPT !.step = "deactivate"]
      OBVIOUS
    <3>4. q1 \in ImportRow /\ q1.step = "deactivate" /\ q1.file = e.file
      BY <3>3, Zenon DEF ImportRow, ImportSteps
    <3>5. PICK q : q = [q1 EXCEPT !.no = n]
      OBVIOUS
    <3>6. q \in ImportRow /\ q.step = "deactivate" /\ q.file = e.file /\ q.no = n
      BY <3>4, <3>5, Zenon DEF ImportRow
    <3>7. q = [e EXCEPT !.step = "deactivate", !.no = n]
      BY <3>3, <3>5, Zenon
    <3>8. import' = [import EXCEPT ![i] = [e EXCEPT !.step = "deactivate", !.no = n]]
      BY <2>4, <3>1, <3>2 DEF GuestsTyped
    <3>9. import' = [import EXCEPT ![i] = q]
      BY <3>7, <3>8, Zenon
    <3>10. batch[q.file] = "none" /\ q.file = import[i].file
      BY <2>4, <3>1, <3>6 DEF NewBatch
    <3>11. \A j \in Import : Open(j) => import[j].file # q.file
      BY <2>1, <3>10
    <3>12. UNCHANGED <<tableVars, csvs, clear, invited, history>>
      BY <2>1, <2>4 DEF tableVars
    <3>13. import[i].step = "open" /\ q.no = NextVersionNo(i) /\ import[i] # NoImport
      BY <2>1, <3>1, <3>2, <3>6
    <3> QED
      BY <3>6, <3>9, <3>10, <3>11, <3>12, <3>13, OpenKeepsGuests
  <2> QED  BY <1>11, <2>2, <2>3, <2>4 DEF OpenImport
<1>12. CASE DeactivateOld(i)
  <2>1. PICK e \in ImportRow : e = import[i] /\ e # NoImport /\ e.step = "deactivate"
    BY <1>4, <1>12 DEF DeactivateOld, ImportSteps
  <2>2. PICK O, H \in SUBSET Csv : O = InForce /\ H = InForce \ HeldByOthers(i)
    BY DEF InForce
  <2>3. PICK q1 : q1 = [e EXCEPT !.step = "publish"]
    OBVIOUS
  <2>4. q1 \in ImportRow /\ q1.step = "publish" /\ q1.file = e.file /\ q1.no = e.no
    BY <2>3, Zenon DEF ImportRow, ImportSteps
  <2>5. PICK q2 : q2 = [q1 EXCEPT !.old = O]
    OBVIOUS
  <2>6. /\ q2 \in ImportRow /\ q2.step = "publish" /\ q2.file = e.file /\ q2.no = e.no
        /\ q2.old = O
    BY <2>4, <2>5, Zenon DEF ImportRow
  <2>7. PICK q : q = [q2 EXCEPT !.held = H]
    OBVIOUS
  <2>8. /\ q \in ImportRow /\ q.step = "publish" /\ q.file = e.file /\ q.no = e.no
        /\ q.old = O
    BY <2>6, <2>7, Zenon DEF ImportRow
  <2>9. q = [e EXCEPT !.step = "publish", !.old = O, !.held = H]
    BY <2>3, <2>5, <2>7, Zenon
  <2>10. import' = [import EXCEPT ![i] = [e EXCEPT !.step = "publish", !.old = O, !.held = H]]
    BY <1>12, <2>1, <2>2 DEF DeactivateOld, GuestsTyped
  <2>11. import' = [import EXCEPT ![i] = q]
    BY <2>9, <2>10, Zenon
  <2> QED
    BY <1>12, <2>1, <2>2, <2>8, <2>11, OpenKeepsGuests DEF DeactivateOld
<1> QED
  BY <1>1, <1>2, <1>3, <1>6, <1>8, <1>9, <1>10, <1>11, <1>12 DEF ImportStep, SaveCsv

LEMMA GuestsAreKept == GuestsInv /\ [GuestNext]_guestVars => GuestsInv'
<1> SUFFICES ASSUME GuestsInv, [GuestNext]_guestVars PROVE GuestsInv'
  OBVIOUS
<1>1. CASE UNCHANGED guestVars
  <2>1. UNCHANGED <<tableVars, csvs, import, clear, invited, history>>
    BY <1>1 DEF guestVars
  <2> QED  BY <2>1, ReadActiveKeepsGuests DEF GuestsInv, GuestsTyped
<1>2. ASSUME NEW d \in Clear, ReadActive(d)
      PROVE  GuestsInv'
  <2>1. clear' \in [Clear -> Csv \cup {NoClear}]
    BY <1>2 DEF ReadActive, GuestsInv, GuestsTyped, InForce
  <2> QED  BY <1>2, <2>1, ReadActiveKeepsGuests DEF ReadActive
<1> QED
  BY <1>1, <1>2, ImportKeepsGuests, DeleteKeepsGuests DEF GuestNext

\* The event that was written last tells the version in force, whichever imports
\* overlap, fail or die, and as long as no deletion has crossed an import.
THEOREM EventsAlwaysTellTheActive == GuestSpec => []EventsTellTheActive
<1>1. GuestsInv => EventsTellTheActive
  BY DEF GuestsInv
<1> QED
  BY <1>1, GuestsInitially, GuestsAreKept, PTL DEF GuestSpec

\* A file is published once and its guests are invited once, whatever is
\* repeated; and the file of a batch is kept but for two imports of it at once.
THEOREM BatchesStaySound == GuestSpec => []BatchesAreSound
<1>1. ASSUME GuestsInv, NEW f \in Csv
      PROVE  Cardinality({n \in 1..Len(outbox) : outbox[n] = f}) <= 1
  <2>1. PICK S : S = {n \in 1..Len(outbox) : outbox[n] = f}
    OBVIOUS
  <2>2. \A m, n \in S : m = n
    BY <1>1, <2>1 DEF GuestsInv, ToldOnce
  <2>3. S = {} \/ \E m \in S : S = {m}
    BY <2>2
  <2>4. Cardinality(S) \in {0, 1}
    <3>1. CASE S = {}
      BY <3>1, FS_EmptySet, Zenon
    <3>2. CASE \E m \in S : S = {m}
      BY <3>2, FS_Singleton, Zenon
    <3> QED  BY <2>3, <3>1, <3>2
  <2> QED  BY <2>1, <2>4
<1>2. GuestsInv => BatchesAreSound
  BY <1>1 DEF GuestsInv, InvitedOnce, BatchesAreSound, FilesAreImportedOnce
<1> QED
  BY <1>2, GuestsInitially, GuestsAreKept, PTL DEF GuestSpec

-----------------------------------------------------------------------------
(* Guest files                                                             *)

\* A list is numbered from one on, and is not read again once it was judged.
RowsAreNumbered ==
  parsed.step = "rows" => \A n \in DOMAIN parsed.rows : n \in Nat /\ 1 <= n
JudgedAsRead ==
  judged # NotYet =>
    /\ parsed.step = "rows"
    /\ judged.valid = [n \in DOMAIN parsed.rows |-> IsValidRow(parsed.rows, n, judged.known)]
CsvInv == RowsAreNumbered /\ JudgedAsRead

\* However a text is taken apart, its rows get the numbers from one on.
LEMMA ParsedIsNumbered ==
  ASSUME NEW text, ParseGuestListCsv(text).step = "rows"
  PROVE  \A n \in DOMAIN ParseGuestListCsv(text).rows : n \in Nat /\ 1 <= n
<1> DEFINE end == ParseDelimited(text, DetectDelimiter(FirstLine(text)))
           all == EndRow(end).rows
           trimmed == [n \in DOMAIN all |-> [p \in DOMAIN all[n] |-> Trimmed(all[n][p])]]
           records == SelectSeq(trimmed, LAMBDA r : ~IsBlankRow(r))
           heads == [n \in DOMAIN records[1] |-> NormalizeHeader(records[1][n])]
           list == [n \in 1 .. Len(records) - 1 |->
                      [number |-> n + 1, values |-> ValuesOf(heads, records[n + 1])]]
<1>1. ParseGuestListCsv(text) =
        IF end.quoted \/ Len(records) < 2 \/ ~SoundHeads(heads) THEN Refused
        ELSE [step |-> "rows", rows |-> list]
  BY DEF ParseGuestListCsv
<1>2. DOMAIN list = 1 .. Len(records) - 1
  OBVIOUS
<1> HIDE DEF list, end, heads, records
<1>3. ParseGuestListCsv(text).rows = list
  BY <1>1 DEF Refused
<1>4. PICK x : DOMAIN list = 1 .. x
  BY <1>2
<1> QED  BY <1>3, <1>4

\* Of two rows with the same key, the later one is refused.
LEMMA JudgedIsUnique == CsvInv => PassedListsAreUnique
<1> SUFFICES ASSUME CsvInv, judged # NotYet, \A n \in DOMAIN judged.valid : judged.valid[n]
             PROVE  LET keys == [n \in DOMAIN parsed.rows |-> IdentityKey(parsed.rows[n])]
                    IN IsInjective(keys) /\ ToSet(keys) \cap (judged.known \cup {NoIdentity}) = {}
  BY DEF PassedListsAreUnique
<1> DEFINE rows == parsed.rows
           keys == [n \in DOMAIN rows |-> IdentityKey(rows[n])]
<1>1. \A n \in DOMAIN rows : n \in Nat /\ 1 <= n
  BY DEF CsvInv, RowsAreNumbered, JudgedAsRead
<1>2. \A n \in DOMAIN rows : IsValidRow(rows, n, judged.known)
  BY DEF CsvInv, JudgedAsRead
<1>3. \A n \in DOMAIN rows : /\ keys[n] \notin judged.known /\ keys[n] # NoIdentity
                             /\ \A k \in 1 .. n - 1 : keys[n] # IdentityKey(rows[k])
  BY <1>2 DEF IsValidRow, WellFormed
<1>4. ASSUME NEW k \in DOMAIN rows, NEW n \in DOMAIN rows, k < n
      PROVE  keys[k] # keys[n]
  <2>1. k \in 1 .. n - 1
    BY <1>1, <1>4
  <2>2. keys[n] # IdentityKey(rows[k])
    BY <1>3, <2>1
  <2> QED  BY <2>2
<1>5. IsInjective(keys)
  BY <1>1, <1>4 DEF IsInjective
<1>6. ToSet(keys) \cap (judged.known \cup {NoIdentity}) = {}
  BY <1>3 DEF ToSet
<1> QED  BY <1>5, <1>6

\* Nothing is parsed at first, and a verdict stays with what it was passed on.
LEMMA CsvInitially == CsvInit => CsvInv
  BY DEF CsvInit, CsvInv, RowsAreNumbered, JudgedAsRead, NotYet

LEMMA CsvIsKept == CsvInv /\ [CsvNext]_csvVars => CsvInv'
<1> SUFFICES ASSUME CsvInv, [CsvNext]_csvVars PROVE CsvInv'
  OBVIOUS
<1>1. CASE UNCHANGED csvVars
  BY <1>1 DEF csvVars, CsvInv, RowsAreNumbered, JudgedAsRead
<1>2. ASSUME NEW table \in Table, NEW style \in Style, WriteSheet(table, style)
      PROVE  CsvInv'
  BY <1>2 DEF WriteSheet, CsvInv, RowsAreNumbered, JudgedAsRead
<1>3. CASE ParseSheet
  <2>1. judged = NotYet
    BY <1>3 DEF ParseSheet, CsvInv, JudgedAsRead, NotYet
  <2>2. PICK text : parsed' = ParseGuestListCsv(text)
    BY <1>3 DEF ParseSheet
  <2> QED  BY <1>3, <2>1, <2>2, ParsedIsNumbered DEF ParseSheet, CsvInv, RowsAreNumbered, JudgedAsRead
<1>4. ASSUME NEW known \in KnownKeys, ValidateSheet(known)
      PROVE  CsvInv'
  BY <1>4 DEF ValidateSheet, CsvInv, RowsAreNumbered, JudgedAsRead
<1> QED  BY <1>1, <1>2, <1>3, <1>4 DEF CsvNext

\* A list that passes has a key for every guest, no key twice and none that is
\* known, for whatever tables, dialects and headings.
THEOREM PassedListsStayUnique == CsvSpec => []PassedListsAreUnique
  BY CsvInitially, CsvIsKept, JudgedIsUnique, PTL DEF CsvSpec

\* The lists of guests fit together, file by file and version by version; that
\* a file is read as the table it was written from is a matter of its text
\* alone, which TLC checks.
COROLLARY GuestListsAreSoundAsFarAsRead ==
  GuestSpec /\ CsvSpec => [](SheetsAreReadBack => GuestListsAreSound)
<1>1. EventsTellTheActive /\ BatchesAreSound /\ PassedListsAreUnique =>
        (SheetsAreReadBack => GuestListsAreSound)
  BY DEF GuestListsAreSound, FilesAreReadRight
<1> QED
  BY <1>1, EventsAlwaysTellTheActive, BatchesStaySound, PassedListsStayUnique, PTL

-----------------------------------------------------------------------------
(* Biographies                                                             *)

JobStatus == {"none", "queued", "processing", "draft_ready", "failed"}
DraftState == {"none", "unread", "read"}
JobRecords == [status : JobStatus, attempts : Nat]
AskRecords ==
  [step : {"save", "create", "undo", "retry", "read", "publish"}, file : Pdf, read : DraftState]
WorkRecords == [step : {"claim", "run", "ready", "reschedule"}, file : Pdf, attempts : Nat]

BioTyped ==
  /\ bioJob \in [Pdf -> JobRecords] /\ pdfs \subseteq Pdf
  /\ draft \in [Pdf -> DraftState] /\ published \in DraftState
  /\ ask \in [Organizer -> {NoAsk} \cup AskRecords]
  /\ bioWork \in [BioWorker -> {NoWork} \cup WorkRecords]
  /\ calls \in [Pdf -> Nat] /\ retries \in [Pdf -> Nat]
  /\ overtaken \subseteq Pdf /\ doubled \subseteq Pdf

Filed(f) == bioJob[f].status # "none"
AtRun(w, f) == bioWork[w].step = "run" /\ bioWork[w].file = f

\* The model's bill for all attempts that were made before the last retry.
Billed(f) == MaxAttempts * retries[f]

\* A worker has a job that has been filed; unless a retry has taken it away, it
\* is its only worker, and knows how often it has been tried.
WorkFits(w) ==
  /\ bioWork[w] # NoWork => Filed(bioWork[w].file)
  /\ \A f \in Pdf \ overtaken : Running(w, f) =>
       /\ bioJob[f].status = "processing" /\ bioWork[w].attempts = bioJob[f].attempts
       /\ \A v \in BioWorker : Running(v, f) => v = w

\* Each attempt pays for one call; the one that runs has not called yet.
JobIsPaid(f) ==
  f \notin overtaken =>
    /\ bioJob[f].attempts <= MaxAttempts
    /\ bioJob[f].status = "queued" => bioJob[f].attempts < MaxAttempts
    /\ calls[f] <= Billed(f) + bioJob[f].attempts
    /\ \A w \in BioWorker : AtRun(w, f) => calls[f] + 1 <= Billed(f) + bioJob[f].attempts

\* Without a retry, a job that has a draft keeps it.
DraftFits(f) ==
  /\ draft[f] # "none" => retries[f] > 0 \/ bioJob[f].status = "draft_ready"
  /\ f \in overtaken => retries[f] > 0
  /\ ~Filed(f) => bioJob[f].attempts = 0
  /\ Filed(f) => f \in pdfs \cup doubled

\* An upload that is alone has its file until the job is made; what is about to
\* be published had been reviewed, unless the job was retried since.
AskFits(r) ==
  /\ ask[r].step = "retry" => Filed(ask[r].file)
  /\ ask[r].step = "read" => draft[ask[r].file] = "read" \/ retries[ask[r].file] > 0
  /\ ask[r].step = "publish" => ask[r].read # "unread" \/ retries[ask[r].file] > 0
  /\ \A f \in Pdf \ doubled : Uploading(r, f) =>
       /\ ~Filed(f)
       /\ ask[r].step = "create" => f \in pdfs
       /\ \A q \in Organizer : Uploading(q, f) => q = r

BioInv ==
  /\ BioTyped /\ PublishedWasReviewed
  /\ \A w \in BioWorker : WorkFits(w)
  /\ \A f \in Pdf : JobIsPaid(f) /\ DraftFits(f)
  /\ \A r \in Organizer : AskFits(r)

LEMMA BillGrows ==
  /\ \A n \in Nat : MaxAttempts * n \in Nat /\ MaxAttempts * (n + 1) = MaxAttempts * n + MaxAttempts
  /\ MaxAttempts * 0 = 0 /\ MaxAttempts \in Nat /\ MaxAttempts > 0
  BY BioAssumption

LEMMA BioStarts == BioInit => BioInv
<1> SUFFICES ASSUME BioInit PROVE BioInv
  OBVIOUS
<1>0. /\ NoAsk.step = "idle" /\ NoWork.step = "idle" /\ NotFiled \in JobRecords
      /\ NotFiled.status = "none" /\ NotFiled.attempts = 0
  BY DEF NoAsk, NoWork, NotFiled, JobRecords, JobStatus
<1>1. BioTyped
  BY <1>0 DEF BioInit, BioTyped, DraftState
<1>2. ASSUME NEW w \in BioWorker PROVE WorkFits(w)
  BY <1>0 DEF BioInit, WorkFits, Running
<1>3. ASSUME NEW f \in Pdf PROVE JobIsPaid(f) /\ DraftFits(f)
  BY <1>0, BillGrows DEF BioInit, JobIsPaid, DraftFits, AtRun, Billed, Filed
<1>4. ASSUME NEW r \in Organizer PROVE AskFits(r)
  BY <1>0 DEF BioInit, AskFits, Uploading
<1> QED  BY <1>1, <1>2, <1>3, <1>4 DEF BioInv, PublishedWasReviewed, BioInit

LEMMA AskTypes ==
  /\ NoAsk.step = "idle" /\ NoWork.step = "idle"
  /\ NoAsk \notin AskRecords /\ NoWork \notin WorkRecords
<1>1. NoAsk.step = "idle" /\ NoWork.step = "idle"
  BY DEF NoAsk, NoWork
<1>2. \A a \in AskRecords : a.step # "idle"
  BY DEF AskRecords
<1>3. \A a \in WorkRecords : a.step # "idle"
  BY DEF WorkRecords
<1> QED  BY <1>1, <1>2, <1>3

\* What is said of the workers and of the bill stays true when neither changes.
LEMMA JobsStand ==
  ASSUME BioInv, bioJob' = bioJob, bioWork' = bioWork, calls' = calls, retries' = retries,
         overtaken' = overtaken
  PROVE  /\ \A w \in BioWorker : WorkFits(w)'
         /\ \A f \in Pdf : JobIsPaid(f)'
<1>1. ASSUME NEW w \in BioWorker PROVE WorkFits(w)'
  BY <1>1 DEF BioInv, WorkFits, Running, Filed
<1>2. ASSUME NEW f \in Pdf PROVE JobIsPaid(f)'
  BY <1>2 DEF BioInv, JobIsPaid, AtRun, Billed
<1> QED  BY <1>1, <1>2

\* A request that goes on to a step.
LEMMA AskGoesTo ==
  ASSUME BioInv, NEW r \in Organizer, ask[r] # NoAsk,
         NEW s \in {"save", "create", "undo", "retry", "read", "publish"},
         NEW d \in DraftState, ask' = [ask EXCEPT ![r].step = s, ![r].read = d]
  PROVE  /\ ask' \in [Organizer -> {NoAsk} \cup AskRecords]
         /\ ask'[r].step = s /\ ask'[r].read = d /\ ask'[r].file = ask[r].file
         /\ \A q \in Organizer : q # r => ask'[q] = ask[q]
<1>1. ask[r] \in AskRecords
  BY DEF BioInv, BioTyped
<1>2. PICK k \in AskRecords : k = [ask[r] EXCEPT !.step = s, !.read = d]
  BY <1>1 DEF AskRecords
<1>3. k.step = s /\ k.read = d /\ k.file = ask[r].file
  BY <1>1, <1>2 DEF AskRecords
<1>4. ask' = [ask EXCEPT ![r] = k]
  BY <1>1, <1>2 DEF BioInv, BioTyped, AskRecords
<1> QED  BY <1>2, <1>3, <1>4 DEF BioInv, BioTyped

LEMMA AskKeepsDraft ==
  ASSUME BioInv, NEW r \in Organizer, ask[r] # NoAsk, NEW s, GoTo(r, s)
  PROVE  /\ ask[r].read \in DraftState /\ ask[r].file \in Pdf
         /\ ask' = [ask EXCEPT ![r].step = s, ![r].read = ask[r].read]
<1>1. ask[r] \in AskRecords
  BY DEF BioInv, BioTyped
<1>2. [ask[r] EXCEPT !.step = s] = [ask[r] EXCEPT !.step = s, !.read = ask[r].read]
  BY <1>1 DEF AskRecords
<1> QED  BY <1>1, <1>2 DEF BioInv, BioTyped, AskRecords, GoTo

\* A request begins, with nothing else changed than what is known of uploads.
LEMMA AskBegins ==
  ASSUME BioInv, NEW r \in Organizer, NEW f \in Pdf,
         NEW s \in {"save", "create", "undo", "retry", "read", "publish"}, AskFor(r, f, s)
  PROVE  /\ ask[r] = NoAsk /\ ask' \in [Organizer -> {NoAsk} \cup AskRecords]
         /\ ask'[r].step = s /\ ask'[r].file = f
         /\ \A q \in Organizer : q # r => ask'[q] = ask[q]
<1>1. PICK k \in AskRecords : k = [step |-> s, file |-> f, read |-> "none"]
  BY DEF AskRecords, DraftState
<1>2. k.step = s /\ k.file = f
  BY <1>1
<1> QED  BY <1>1, <1>2 DEF AskFor, BioInv, BioTyped

LEMMA AskEnds ==
  ASSUME BioInv, NEW r \in Organizer, EndAsk(r)
  PROVE  /\ ask' \in [Organizer -> {NoAsk} \cup AskRecords] /\ ask'[r] = NoAsk
         /\ ask'[r].step = "idle"
         /\ \A q \in Organizer : q # r => ask'[q] = ask[q]
  BY AskTypes DEF EndAsk, BioInv, BioTyped

LEMMA UploadBegins ==
  ASSUME BioInv, NEW r \in Organizer, NEW f \in Pdf, UploadPdf(r, f)
  PROVE  BioInv'
<1>0. /\ bioJob' = bioJob /\ bioWork' = bioWork /\ calls' = calls /\ retries' = retries
      /\ overtaken' = overtaken /\ draft' = draft /\ pdfs' = pdfs /\ published' = published
      /\ bioJob[f].status = "none" /\ AskFor(r, f, "save")
      /\ doubled \subseteq doubled' /\ doubled' \subseteq doubled \cup {f}
      /\ \A q \in Organizer : Uploading(q, f) => f \in doubled'
  BY DEF UploadPdf, jobVars, NotFiled
<1>1. /\ ask[r] = NoAsk /\ ask' \in [Organizer -> {NoAsk} \cup AskRecords]
      /\ ask'[r].step = "save" /\ ask'[r].file = f
      /\ \A q \in Organizer : q # r => ask'[q] = ask[q]
  BY <1>0, AskBegins
<1>2. BioTyped'
  BY <1>0, <1>1 DEF BioInv, BioTyped
<1>3. ASSUME NEW g \in Pdf PROVE DraftFits(g)'
  BY <1>0 DEF BioInv, DraftFits, Filed
<1>4. ASSUME NEW q \in Organizer PROVE AskFits(q)'
  <2>1. /\ ask'[q].step = "retry" => bioJob'[ask'[q].file].status # "none"
        /\ ask'[q].step = "read" => draft'[ask'[q].file] = "read" \/ retries'[ask'[q].file] > 0
        /\ ask'[q].step = "publish" => ask'[q].read # "unread" \/ retries'[ask'[q].file] > 0
    <3>1. q # r => AskFits(q) /\ ask'[q] = ask[q]
      BY <1>1 DEF BioInv
    <3> QED  BY <1>0, <1>1, <3>1 DEF AskFits, Filed
  <2>2. ASSUME NEW g \in Pdf \ doubled', Uploading(q, g)'
        PROVE  ~Filed(g)' /\ (ask'[q].step = "create" => g \in pdfs')
    <3>1. CASE q = r
      BY <3>1, <1>0, <1>1, <2>2 DEF Uploading, Filed
    <3>2. CASE q # r
      <4>1. AskFits(q) /\ Uploading(q, g) /\ g \in Pdf \ doubled
        BY <3>2, <1>0, <1>1, <2>2 DEF BioInv, Uploading
      <4> QED  BY <4>1, <3>2, <1>0, <1>1 DEF AskFits, Filed
    <3> QED  BY <3>1, <3>2
  <2>3. ASSUME NEW g \in Pdf \ doubled', Uploading(q, g)', NEW p \in Organizer, Uploading(p, g)'
        PROVE  p = q
    <3>1. CASE p # r /\ q # r
      BY <3>1, <1>0, <1>1, <2>3 DEF BioInv, AskFits, Uploading
    <3>2. CASE (p = r) # (q = r)
      BY <3>2, <1>0, <1>1, <2>3 DEF Uploading
    <3> QED  BY <3>1, <3>2
  <2> QED  BY <2>1, <2>2, <2>3 DEF AskFits, Filed
<1>5. PublishedWasReviewed'
  BY <1>0 DEF BioInv, PublishedWasReviewed
<1> QED  BY <1>0, <1>2, <1>3, <1>4, <1>5, JobsStand DEF BioInv

\* An upload goes on or ends: no other one gets further by that.
LEMMA UploadsStand ==
  ASSUME BioInv, NEW r \in Organizer, NEW f \in Pdf, Uploading(r, f),
         \A q \in Organizer : q # r => ask'[q] = ask[q],
         ask'[r].step \in {"idle", "create", "undo"},
         ask'[r].step # "idle" => ask'[r].file = f,
         doubled' = doubled, retries' = retries, draft' = draft,
         \A g \in Pdf : g # f => bioJob'[g] = bioJob[g] /\ (g \in pdfs => g \in pdfs'),
         Filed(f) => bioJob'[f].status # "none",
         f \notin doubled /\ ask'[r].step # "idle" =>
           bioJob'[f].status = "none" /\ (ask'[r].step = "create" => f \in pdfs')
  PROVE  \A q \in Organizer : AskFits(q)'
<1> SUFFICES ASSUME NEW q \in Organizer PROVE AskFits(q)'
  OBVIOUS
<1>1. /\ ask'[q].step = "retry" => bioJob'[ask'[q].file].status # "none"
      /\ ask'[q].step = "read" => draft'[ask'[q].file] = "read" \/ retries'[ask'[q].file] > 0
      /\ ask'[q].step = "publish" => ask'[q].read # "unread" \/ retries'[ask'[q].file] > 0
  <2>1. CASE q = r
    BY <2>1
  <2>2. CASE q # r
    <3>1. ask'[q] = ask[q] /\ AskFits(q) /\ ask[q] \in {NoAsk} \cup AskRecords
      BY <2>2 DEF BioInv, BioTyped
    <3>2. ask[q].step = "retry" => ask[q].file \in Pdf
      BY <3>1, AskTypes DEF AskRecords
    <3>3. \A g \in Pdf : Filed(g) => bioJob'[g].status # "none"
      BY DEF Filed
    <3> QED  BY <3>1, <3>2, <3>3 DEF AskFits, Filed
  <2> QED  BY <2>1, <2>2
<1>2. ASSUME NEW g \in Pdf \ doubled, Uploading(q, g)'
      PROVE  /\ ~Filed(g)' /\ (ask'[q].step = "create" => g \in pdfs')
             /\ \A p \in Organizer : Uploading(p, g)' => p = q
  <2>1. \A p \in Organizer : Uploading(p, g)' => Uploading(p, g)
    BY DEF Uploading
  <2>2. \A p \in Organizer : Uploading(p, g)' => p = q
    <3>1. Uploading(q, g) /\ AskFits(q)
      BY <2>1, <1>2 DEF BioInv
    <3> QED  BY <2>1, <3>1, <1>2 DEF AskFits
  <2>3. CASE q = r
    BY <2>2, <2>3, <1>2 DEF Uploading, Filed
  <2>4. CASE q # r
    <3>1. Uploading(q, g) /\ AskFits(q) /\ ask'[q] = ask[q]
      BY <2>1, <2>4, <1>2 DEF BioInv
    <3>2. g # f
      BY <3>1, <2>4, <1>2 DEF AskFits
    <3> QED  BY <2>2, <3>1, <3>2, <1>2 DEF AskFits, Filed
  <2> QED  BY <2>2, <2>3, <2>4
<1> QED  BY <1>1, <1>2 DEF AskFits, Filed

LEMMA PdfIsSaved ==
  ASSUME BioInv, NEW r \in Organizer, SavePdf(r)
  PROVE  BioInv'
<1>0. /\ bioJob' = bioJob /\ bioWork' = bioWork /\ calls' = calls /\ retries' = retries
      /\ overtaken' = overtaken /\ draft' = draft /\ published' = published
      /\ doubled' = doubled /\ ask[r].step = "save"
  BY DEF SavePdf, bioHistory
<1>1. /\ ask[r] # NoAsk /\ ask[r] \in AskRecords /\ ask[r].file \in Pdf
      /\ ask[r].read \in DraftState
  BY <1>0, AskTypes DEF BioInv, BioTyped, AskRecords
<1>2. PICK f \in Pdf : f = ask[r].file
  BY <1>1
<1>3. /\ ask' \in [Organizer -> {NoAsk} \cup AskRecords]
      /\ \A q \in Organizer : q # r => ask'[q] = ask[q]
      /\ pdfs' \subseteq pdfs \cup {f} /\ pdfs \subseteq pdfs'
      /\ \/ ask'[r].step = "create" /\ ask'[r].file = f /\ f \in pdfs'
         \/ ask'[r].step = "idle"
  <2>1. CASE pdfs' = pdfs \cup {f} /\ GoTo(r, "create")
    <3>1. ask' = [ask EXCEPT ![r].step = "create", ![r].read = ask[r].read]
      BY <1>1, <2>1, AskKeepsDraft
    <3> QED  BY <1>1, <1>2, <2>1, <3>1, AskGoesTo
  <2>2. CASE EndAsk(r) /\ pdfs' = pdfs
    BY <2>2, AskEnds
  <2> QED  BY <1>2, <2>1, <2>2 DEF SavePdf
<1>4. BioTyped'
  BY <1>0, <1>3 DEF BioInv, BioTyped
<1>5. ASSUME NEW g \in Pdf PROVE DraftFits(g)'
  BY <1>0, <1>3 DEF BioInv, DraftFits, Filed
<1>6. Uploading(r, f) /\ (f \notin doubled => ~Filed(f))
  BY <1>0, <1>2 DEF Uploading, BioInv, AskFits
<1>7. \A q \in Organizer : AskFits(q)'
  BY <1>0, <1>3, <1>6, UploadsStand DEF Filed
<1>8. PublishedWasReviewed'
  BY <1>0 DEF BioInv, PublishedWasReviewed
<1> QED  BY <1>0, <1>4, <1>5, <1>7, <1>8, JobsStand DEF BioInv

LEMMA UploadIsUndone ==
  ASSUME BioInv, NEW r \in Organizer, UndoUpload(r)
  PROVE  BioInv'
<1>0. /\ bioJob' = bioJob /\ bioWork' = bioWork /\ calls' = calls /\ retries' = retries
      /\ overtaken' = overtaken /\ draft' = draft /\ published' = published
      /\ doubled' = doubled /\ ask[r].step = "undo" /\ EndAsk(r)
      /\ pdfs' = pdfs \ {ask[r].file}
  BY DEF UndoUpload, bioHistory
<1>1. ask[r] \in AskRecords /\ ask[r].file \in Pdf
  BY <1>0, AskTypes DEF BioInv, BioTyped, AskRecords
<1>2. PICK f \in Pdf : f = ask[r].file
  BY <1>1
<1>3. /\ ask' \in [Organizer -> {NoAsk} \cup AskRecords] /\ ask'[r].step = "idle"
      /\ \A q \in Organizer : q # r => ask'[q] = ask[q]
  BY <1>0, AskEnds
<1>4. BioTyped'
  BY <1>0, <1>3 DEF BioInv, BioTyped
<1>6. Uploading(r, f) /\ (f \notin doubled => ~Filed(f))
  BY <1>0, <1>2 DEF Uploading, BioInv, AskFits
<1>5. ASSUME NEW g \in Pdf PROVE DraftFits(g)'
  BY <1>0, <1>2, <1>6 DEF BioInv, DraftFits, Filed
<1>7. \A q \in Organizer : AskFits(q)'
  BY <1>0, <1>2, <1>3, <1>6, UploadsStand DEF Filed
<1>8. PublishedWasReviewed'
  BY <1>0 DEF BioInv, PublishedWasReviewed
<1> QED  BY <1>0, <1>4, <1>5, <1>7, <1>8, JobsStand DEF BioInv

\* A job is filed: no worker has it, and no call was made for it.
LEMMA JobIsCreated ==
  ASSUME BioInv, NEW r \in Organizer, CreateJob(r)
  PROVE  BioInv'
<1>0. /\ bioWork' = bioWork /\ calls' = calls /\ retries' = retries
      /\ overtaken' = overtaken /\ draft' = draft /\ published' = published
      /\ doubled' = doubled /\ pdfs' = pdfs /\ ask[r].step = "create"
  BY DEF CreateJob, bioHistory
<1>1. /\ ask[r] # NoAsk /\ ask[r] \in AskRecords /\ ask[r].file \in Pdf
      /\ ask[r].read \in DraftState
  BY <1>0, AskTypes DEF BioInv, BioTyped, AskRecords
<1>2. PICK f \in Pdf : f = ask[r].file
  BY <1>1
<1>6. /\ Uploading(r, f) /\ (f \notin doubled => ~Filed(f) /\ f \in pdfs)
      /\ DraftFits(f) /\ JobIsPaid(f)
  BY <1>0, <1>2 DEF Uploading, BioInv, AskFits
<1>3. CASE /\ bioJob[f] = NotFiled
           /\ bioJob' = [bioJob EXCEPT ![f].status = "queued"]
           /\ EndAsk(r)
  <2>1. /\ ask' \in [Organizer -> {NoAsk} \cup AskRecords] /\ ask'[r].step = "idle"
        /\ \A q \in Organizer : q # r => ask'[q] = ask[q]
    BY <1>3, AskEnds
  <2>2. bioJob[f] = [status |-> "none", attempts |-> 0] /\ ~Filed(f)
    BY <1>3 DEF NotFiled, Filed
  <2>3. PICK k \in JobRecords : k = [status |-> "queued", attempts |-> 0]
    BY DEF JobRecords, JobStatus
  <2>4. k.status = "queued" /\ k.attempts = 0
    BY <2>3
  <2>5. bioJob' = [bioJob EXCEPT ![f] = k]
    <3>1. k = [bioJob[f] EXCEPT !.status = "queued"]
      BY <2>2, <2>3
    <3> QED  BY <1>3, <3>1 DEF BioInv, BioTyped
  <2>6. /\ bioJob' \in [Pdf -> JobRecords] /\ bioJob'[f].status = "queued"
        /\ bioJob'[f].attempts = 0 /\ \A g \in Pdf : g # f => bioJob'[g] = bioJob[g]
    BY <2>3, <2>4, <2>5 DEF BioInv, BioTyped
  <2>7. BioTyped'
    BY <1>0, <2>1, <2>6 DEF BioInv, BioTyped
  <2>8. ASSUME NEW w \in BioWorker PROVE WorkFits(w)' /\ ~Running(w, f) /\ ~AtRun(w, f)
    <3>1. WorkFits(w) /\ bioWork[w] \in {NoWork} \cup WorkRecords
      BY DEF BioInv, BioTyped
    <3>2. bioWork[w] # NoWork => bioWork[w].file \in Pdf /\ bioWork[w].file # f
      BY <3>1, <2>2 DEF WorkFits, WorkRecords
    <3>3. ~Running(w, f) /\ ~AtRun(w, f)
      BY <3>2, AskTypes DEF Running, AtRun
    <3>4. bioWork'[w] # NoWork => Filed(bioWork[w].file) /\ bioJob'[bioWork[w].file] = bioJob[bioWork[w].file]
      BY <1>0, <2>6, <3>1, <3>2 DEF WorkFits
    <3>5. ASSUME NEW g \in Pdf \ overtaken, Running(w, g)
          PROVE  /\ bioJob'[g].status = "processing" /\ bioWork[w].attempts = bioJob'[g].attempts
                 /\ \A v \in BioWorker : Running(v, g) => v = w
      <4>1. g # f
        BY <3>3, <3>5
      <4> QED  BY <2>6, <3>1, <3>5, <4>1 DEF WorkFits
    <3> QED  BY <1>0, <3>3, <3>4, <3>5 DEF WorkFits, Running, Filed
  <2>9. ASSUME NEW g \in Pdf PROVE JobIsPaid(g)'
    <3>1. CASE g = f
      <4>1. f \notin overtaken => calls[f] <= Billed(f) + 0
        BY <1>6, <2>2 DEF JobIsPaid
      <4>2. 0 <= MaxAttempts /\ 0 < MaxAttempts
        BY BillGrows
      <4>3. \A w \in BioWorker : ~(AtRun(w, f)')
        BY <1>0, <2>8 DEF AtRun
      <4> QED  BY <1>0, <2>6, <3>1, <4>1, <4>2, <4>3 DEF JobIsPaid, Billed
    <3>2. CASE g # f
      BY <1>0, <2>6, <3>2 DEF BioInv, JobIsPaid, AtRun, Billed
    <3> QED  BY <3>1, <3>2
  <2>10. ASSUME NEW g \in Pdf PROVE DraftFits(g)'
    <3>1. CASE g = f
      BY <1>0, <1>6, <2>2, <2>6, <3>1 DEF DraftFits, Filed
    <3>2. CASE g # f
      BY <1>0, <2>6, <3>2 DEF BioInv, DraftFits, Filed
    <3> QED  BY <3>1, <3>2
  <2>11. \A q \in Organizer : AskFits(q)'
    BY <1>0, <1>6, <2>1, <2>6, UploadsStand
  <2>12. PublishedWasReviewed'
    BY <1>0 DEF BioInv, PublishedWasReviewed
  <2> QED  BY <2>7, <2>8, <2>9, <2>10, <2>11, <2>12 DEF BioInv
<1>4. CASE bioJob' = bioJob /\ GoTo(r, "undo")
  <2>1. ask' = [ask EXCEPT ![r].step = "undo", ![r].read = ask[r].read]
    BY <1>1, <1>4, AskKeepsDraft
  <2>2. /\ ask' \in [Organizer -> {NoAsk} \cup AskRecords]
        /\ ask'[r].step = "undo" /\ ask'[r].file = f
        /\ \A q \in Organizer : q # r => ask'[q] = ask[q]
    BY <1>1, <1>2, <2>1, AskGoesTo
  <2>3. BioTyped'
    BY <1>0, <1>4, <2>2 DEF BioInv, BioTyped
  <2>4. ASSUME NEW g \in Pdf PROVE DraftFits(g)'
    BY <1>0, <1>4 DEF BioInv, DraftFits, Filed
  <2>5. \A q \in Organizer : AskFits(q)'
    BY <1>0, <1>4, <1>6, <2>2, UploadsStand DEF Filed
  <2>6. PublishedWasReviewed'
    BY <1>0 DEF BioInv, PublishedWasReviewed
  <2> QED  BY <1>0, <1>4, <2>3, <2>4, <2>5, <2>6, JobsStand DEF BioInv
<1> QED  BY <1>2, <1>3, <1>4 DEF CreateJob

\* A retry makes the job's past a closed account.
LEMMA JobIsRetried ==
  ASSUME BioInv, NEW r \in Organizer, RetryJob(r)
  PROVE  BioInv'
<1>0. /\ bioWork' = bioWork /\ calls' = calls /\ draft' = draft /\ published' = published
      /\ doubled' = doubled /\ pdfs' = pdfs /\ ask[r].step = "retry" /\ EndAsk(r)
  BY DEF RetryJob
<1>1. ask[r] \in AskRecords /\ ask[r].file \in Pdf
  BY <1>0, AskTypes DEF BioInv, BioTyped, AskRecords
<1>2. PICK f \in Pdf : f = ask[r].file
  BY <1>1
<1>3. PICK k \in JobRecords : k = [status |-> "queued", attempts |-> 0]
  BY DEF JobRecords, JobStatus
<1>4. /\ bioJob' \in [Pdf -> JobRecords] /\ bioJob'[f].status = "queued"
      /\ bioJob'[f].attempts = 0 /\ \A g \in Pdf : g # f => bioJob'[g] = bioJob[g]
  BY <1>2, <1>3 DEF RetryJob, BioInv, BioTyped
<1>5. /\ retries' \in [Pdf -> Nat] /\ retries'[f] = retries[f] + 1
      /\ \A g \in Pdf : g # f => retries'[g] = retries[g]
      /\ \A g \in Pdf : retries[g] \in Nat /\ retries'[g] \in Nat
      /\ \A g \in Pdf : retries[g] > 0 => retries'[g] > 0
  BY <1>2 DEF RetryJob, BioInv, BioTyped
<1>6. /\ overtaken' \subseteq overtaken \cup {f} /\ overtaken \subseteq overtaken'
      /\ f \notin overtaken' => Retriable(f)
  BY <1>2 DEF RetryJob
<1>7. /\ ask' \in [Organizer -> {NoAsk} \cup AskRecords] /\ ask'[r].step = "idle"
      /\ \A q \in Organizer : q # r => ask'[q] = ask[q]
  BY <1>0, AskEnds
<1>8. Filed(f)
  BY <1>0, <1>2 DEF BioInv, AskFits
<1>9. BioTyped'
  BY <1>0, <1>2, <1>4, <1>5, <1>6, <1>7 DEF BioInv, BioTyped
<1>10. ASSUME NEW w \in BioWorker
       PROVE  WorkFits(w)' /\ (f \notin overtaken' => ~Running(w, f))
  <2>1. WorkFits(w) /\ bioWork[w] \in {NoWork} \cup WorkRecords
    BY DEF BioInv, BioTyped
  <2>2. f \notin overtaken' => ~Running(w, f)
    BY <2>1, <1>6 DEF WorkFits, Retriable
  <2>3. bioWork[w] # NoWork => bioWork[w].file \in Pdf
    BY <2>1 DEF WorkRecords
  <2>4. bioWork'[w] # NoWork => Filed(bioWork[w].file) /\ bioJob'[bioWork[w].file].status # "none"
    BY <1>0, <1>4, <2>1, <2>3 DEF WorkFits, Filed
  <2>5. ASSUME NEW g \in Pdf \ overtaken', Running(w, g)
        PROVE  /\ bioJob'[g].status = "processing" /\ bioWork[w].attempts = bioJob'[g].attempts
               /\ \A v \in BioWorker : Running(v, g) => v = w
    <3>1. g # f
      BY <2>2, <2>5
    <3> QED  BY <1>4, <1>6, <2>1, <2>5, <3>1 DEF WorkFits
  <2> QED  BY <1>0, <2>2, <2>4, <2>5 DEF WorkFits, Running, Filed
<1>11. ASSUME NEW g \in Pdf PROVE JobIsPaid(g)'
  <2>1. CASE g = f
    <3>1. SUFFICES ASSUME f \notin overtaken' PROVE JobIsPaid(f)'
      BY <2>1 DEF JobIsPaid
    <3>2. /\ calls[f] <= Billed(f) + bioJob[f].attempts /\ bioJob[f].attempts <= MaxAttempts
      BY <1>6, <3>1 DEF BioInv, JobIsPaid
    <3>3. MaxAttempts * retries'[f] = Billed(f) + MaxAttempts /\ Billed(f) \in Nat
      BY <1>5, BillGrows DEF Billed
    <3>4. calls[f] \in Nat /\ bioJob[f].attempts \in Nat /\ MaxAttempts \in Nat /\ MaxAttempts > 0
      BY BillGrows DEF BioInv, BioTyped, JobRecords
    <3>5. calls'[f] <= MaxAttempts * retries'[f] + bioJob'[f].attempts
      BY <1>0, <1>4, <3>2, <3>3, <3>4
    <3>6. \A w \in BioWorker : ~(AtRun(w, f)')
      BY <1>0, <1>10, <3>1 DEF AtRun, Running
    <3> QED  BY <1>4, <3>4, <3>5, <3>6 DEF JobIsPaid, Billed
  <2>2. CASE g # f
    BY <1>0, <1>4, <1>5, <1>6, <2>2 DEF BioInv, JobIsPaid, AtRun, Billed
  <2> QED  BY <2>1, <2>2
<1>12. ASSUME NEW g \in Pdf PROVE DraftFits(g)'
  <2>1. CASE g = f
    BY <1>0, <1>4, <1>5, <1>8, <2>1 DEF BioInv, DraftFits, Filed
  <2>2. CASE g # f
    BY <1>0, <1>4, <1>5, <1>6, <2>2 DEF BioInv, DraftFits, Filed
  <2> QED  BY <2>1, <2>2
<1>13. ASSUME NEW q \in Organizer PROVE AskFits(q)'
  <2>1. CASE q = r
    BY <1>7, <2>1 DEF AskFits, Uploading
  <2>2. CASE q # r
    <3>1. ask'[q] = ask[q] /\ AskFits(q) /\ ask[q] \in {NoAsk} \cup AskRecords
      BY <1>7, <2>2 DEF BioInv, BioTyped
    <3>2. ask[q].step \in {"retry", "read", "publish"} => ask[q].file \in Pdf
      BY <3>1, AskTypes DEF AskRecords
    <3>3. /\ ask'[q].step = "retry" => bioJob'[ask'[q].file].status # "none"
          /\ ask'[q].step = "read" => draft'[ask'[q].file] = "read" \/ retries'[ask'[q].file] > 0
          /\ ask'[q].step = "publish" => ask'[q].read # "unread" \/ retries'[ask'[q].file] > 0
      BY <1>0, <1>4, <1>5, <3>1, <3>2 DEF AskFits, Filed
    <3>4. ASSUME NEW g \in Pdf \ doubled', Uploading(q, g)'
          PROVE  /\ ~Filed(g)' /\ (ask'[q].step = "create" => g \in pdfs')
                 /\ \A p \in Organizer : Uploading(p, g)' => p = q
      <4>1. \A p \in Organizer : Uploading(p, g)' => Uploading(p, g)
        BY <1>7 DEF Uploading
      <4>2. Uploading(q, g) /\ g \in Pdf \ doubled
        BY <1>0, <3>4, <4>1
      <4>3. ~Filed(g) /\ g # f
        BY <1>8, <3>1, <4>2 DEF AskFits
      <4> QED  BY <1>0, <1>4, <3>1, <4>1, <4>2, <4>3 DEF AskFits, Filed
    <3> QED  BY <3>3, <3>4 DEF AskFits, Filed
  <2> QED  BY <2>1, <2>2
<1>14. PublishedWasReviewed'
  BY <1>0, <1>5 DEF BioInv, PublishedWasReviewed
<1> QED  BY <1>9, <1>10, <1>11, <1>12, <1>13, <1>14 DEF BioInv

\* What is said of uploads, when only requests of another kind move.
LEMMA OthersAsk ==
  ASSUME BioInv, NEW r \in Organizer, bioJob' = bioJob, pdfs' = pdfs, retries' = retries,
         bioWork' = bioWork, calls' = calls, overtaken' = overtaken, doubled' = doubled,
         draft' = draft, published' \in DraftState, PublishedWasReviewed',
         ask' \in [Organizer -> {NoAsk} \cup AskRecords],
         \A q \in Organizer : q # r => ask'[q] = ask[q],
         ask'[r].step \notin {"save", "create", "undo"},
         ask'[r].step = "retry" => bioJob[ask'[r].file].status # "none",
         ask'[r].step = "read" => draft[ask'[r].file] = "read" \/ retries[ask'[r].file] > 0,
         ask'[r].step = "publish" => ask'[r].read # "unread" \/ retries[ask'[r].file] > 0
  PROVE  BioInv'
<1>1. BioTyped'
  BY DEF BioInv, BioTyped
<1>2. ASSUME NEW g \in Pdf PROVE DraftFits(g)'
  BY DEF BioInv, DraftFits, Filed
<1>3. ASSUME NEW q \in Organizer PROVE AskFits(q)'
  <2>1. /\ ask'[q].step = "retry" => bioJob'[ask'[q].file].status # "none"
        /\ ask'[q].step = "read" => draft'[ask'[q].file] = "read" \/ retries'[ask'[q].file] > 0
        /\ ask'[q].step = "publish" => ask'[q].read # "unread" \/ retries'[ask'[q].file] > 0
    <3>1. q # r => AskFits(q) /\ ask'[q] = ask[q]
      BY DEF BioInv
    <3> QED  BY <3>1 DEF AskFits, Filed
  <2>2. ASSUME NEW g \in Pdf \ doubled', Uploading(q, g)'
        PROVE  /\ ~Filed(g)' /\ (ask'[q].step = "create" => g \in pdfs')
               /\ \A p \in Organizer : Uploading(p, g)' => p = q
    <3>1. \A p \in Organizer : Uploading(p, g)' => p # r /\ Uploading(p, g)
      BY DEF Uploading
    <3>2. Uploading(q, g) /\ AskFits(q) /\ ask'[q] = ask[q]
      BY <2>2, <3>1 DEF BioInv
    <3> QED  BY <3>1, <3>2, <2>2 DEF AskFits, Filed
  <2> QED  BY <2>1, <2>2 DEF AskFits, Filed
<1> QED  BY <1>1, <1>2, <1>3, JobsStand DEF BioInv

LEMMA RetryBegins ==
  ASSUME BioInv, NEW r \in Organizer, NEW f \in Pdf, RetryBegin(r, f)
  PROVE  BioInv'
<1>1. /\ bioJob' = bioJob /\ bioWork' = bioWork /\ calls' = calls /\ retries' = retries
      /\ overtaken' = overtaken /\ draft' = draft /\ pdfs' = pdfs /\ published' = published
      /\ doubled' = doubled /\ Retriable(f) /\ AskFor(r, f, "retry")
  BY DEF RetryBegin, jobVars, bioHistory
<1>2. /\ ask' \in [Organizer -> {NoAsk} \cup AskRecords]
      /\ ask'[r].step = "retry" /\ ask'[r].file = f
      /\ \A q \in Organizer : q # r => ask'[q] = ask[q]
  BY <1>1, AskBegins
<1>3. published' \in DraftState /\ PublishedWasReviewed'
  BY <1>1 DEF BioInv, BioTyped, PublishedWasReviewed
<1> QED  BY <1>1, <1>2, <1>3, OthersAsk DEF Retriable

LEMMA PublishingBegins ==
  ASSUME BioInv, NEW r \in Organizer, NEW f \in Pdf, PublishBegins(r, f)
  PROVE  BioInv'
<1>1. /\ bioJob' = bioJob /\ bioWork' = bioWork /\ calls' = calls /\ retries' = retries
      /\ overtaken' = overtaken /\ draft' = draft /\ pdfs' = pdfs /\ published' = published
      /\ doubled' = doubled /\ draft[f] = "read" /\ AskFor(r, f, "read")
  BY DEF PublishBegins, jobVars, bioHistory
<1>2. /\ ask' \in [Organizer -> {NoAsk} \cup AskRecords]
      /\ ask'[r].step = "read" /\ ask'[r].file = f
      /\ \A q \in Organizer : q # r => ask'[q] = ask[q]
  BY <1>1, AskBegins
<1>3. published' \in DraftState /\ PublishedWasReviewed'
  BY <1>1 DEF BioInv, BioTyped, PublishedWasReviewed
<1> QED  BY <1>1, <1>2, <1>3, OthersAsk

LEMMA PublishingReads ==
  ASSUME BioInv, NEW r \in Organizer, PublishReads(r)
  PROVE  BioInv'
<1>1. /\ bioJob' = bioJob /\ bioWork' = bioWork /\ calls' = calls /\ retries' = retries
      /\ overtaken' = overtaken /\ draft' = draft /\ pdfs' = pdfs /\ published' = published
      /\ doubled' = doubled /\ ask[r].step = "read"
      /\ ask' = [ask EXCEPT ![r].step = "publish", ![r].read = draft[ask[r].file]]
  BY DEF PublishReads, jobVars, bioHistory
<1>2. /\ ask[r] # NoAsk /\ ask[r].file \in Pdf /\ draft[ask[r].file] \in DraftState
  BY <1>1, AskTypes DEF BioInv, BioTyped, AskRecords
<1>3. PICK d \in DraftState : d = draft[ask[r].file]
  BY <1>2
<1>4. /\ ask' \in [Organizer -> {NoAsk} \cup AskRecords]
      /\ ask'[r].step = "publish" /\ ask'[r].read = d /\ ask'[r].file = ask[r].file
      /\ \A q \in Organizer : q # r => ask'[q] = ask[q]
  BY <1>1, <1>2, <1>3, AskGoesTo
<1>5. published' \in DraftState /\ PublishedWasReviewed'
  BY <1>1 DEF BioInv, BioTyped, PublishedWasReviewed
<1>6. d = "read" \/ retries[ask[r].file] > 0
  BY <1>1, <1>3 DEF BioInv, AskFits
<1> QED  BY <1>1, <1>4, <1>5, <1>6, OthersAsk

LEMMA DraftIsPublished ==
  ASSUME BioInv, NEW r \in Organizer, PublishDraft(r)
  PROVE  BioInv'
<1>1. /\ bioJob' = bioJob /\ bioWork' = bioWork /\ calls' = calls /\ retries' = retries
      /\ overtaken' = overtaken /\ draft' = draft /\ pdfs' = pdfs /\ doubled' = doubled
      /\ published' = ask[r].read /\ ask[r].step = "publish" /\ EndAsk(r)
  BY DEF PublishDraft, bioHistory
<1>2. ask[r].file \in Pdf /\ ask[r].read \in DraftState
  BY <1>1, AskTypes DEF BioInv, BioTyped, AskRecords
<1>3. /\ ask' \in [Organizer -> {NoAsk} \cup AskRecords] /\ ask'[r].step = "idle"
      /\ \A q \in Organizer : q # r => ask'[q] = ask[q]
  BY <1>1, AskEnds
<1>4. ask[r].read = "unread" => retries[ask[r].file] > 0
  BY <1>1 DEF BioInv, AskFits
<1>5. PublishedWasReviewed'
  BY <1>1, <1>2, <1>4 DEF PublishedWasReviewed
<1> QED  BY <1>1, <1>2, <1>3, <1>5, OthersAsk

LEMMA DraftIsReviewed ==
  ASSUME BioInv, NEW f \in Pdf, ReviewDraft(f)
  PROVE  BioInv'
<1>0. /\ bioJob' = bioJob /\ bioWork' = bioWork /\ calls' = calls /\ retries' = retries
      /\ overtaken' = overtaken /\ ask' = ask /\ pdfs' = pdfs /\ published' = published
      /\ doubled' = doubled /\ draft[f] = "unread" /\ draft' = [draft EXCEPT ![f] = "read"]
  BY DEF ReviewDraft, bioHistory
<1>1. BioTyped'
  BY <1>0 DEF BioInv, BioTyped, DraftState
<1>2. /\ \A g \in Pdf : draft'[g] # "none" => draft[g] # "none"
      /\ \A g \in Pdf : draft[g] = "read" => draft'[g] = "read"
  BY <1>0 DEF BioInv, BioTyped
<1>3. ASSUME NEW g \in Pdf PROVE DraftFits(g)'
  BY <1>0, <1>2 DEF BioInv, DraftFits, Filed
<1>4. ASSUME NEW q \in Organizer PROVE AskFits(q)'
  <2>1. AskFits(q) /\ (ask[q].step = "read" => ask[q].file \in Pdf)
    BY AskTypes DEF BioInv, BioTyped, AskRecords
  <2> QED  BY <1>0, <1>2, <2>1 DEF AskFits, Filed, Uploading
<1>5. PublishedWasReviewed'
  BY <1>0 DEF BioInv, PublishedWasReviewed
<1> QED  BY <1>0, <1>1, <1>3, <1>4, <1>5, JobsStand DEF BioInv

\* What a step of one worker with one job may change.
LEMMA WorkerMoves ==
  ASSUME BioInv, NEW w \in BioWorker, NEW f \in Pdf, BioTyped',
         ask' = ask, pdfs' = pdfs, published' = published, retries' = retries,
         overtaken' = overtaken, doubled' = doubled,
         \A v \in BioWorker : v # w => bioWork'[v] = bioWork[v],
         \A g \in Pdf : g # f =>
           bioJob'[g] = bioJob[g] /\ draft'[g] = draft[g] /\ calls'[g] = calls[g],
         bioWork'[w].step = "idle" \/ bioWork'[w].file = f,
         Filed(f), bioJob'[f].status # "none",
         f \notin overtaken /\ Running(w, f)' =>
           bioJob'[f].status = "processing" /\ bioWork'[w].attempts = bioJob'[f].attempts,
         \A v \in BioWorker : f \notin overtaken /\ v # w /\ Running(v, f) =>
           bioJob'[f] = bioJob[f] /\ ~(Running(w, f)'),
         JobIsPaid(f)', DraftFits(f)',
         draft[f] = "read" => draft'[f] = "read" \/ retries[f] > 0
  PROVE  BioInv'
<1>1. ASSUME NEW v \in BioWorker PROVE WorkFits(v)'
  <2>1. WorkFits(v) /\ bioWork[v] \in {NoWork} \cup WorkRecords
    BY DEF BioInv, BioTyped
  <2>2. bioWork'[v] # NoWork => bioJob'[bioWork'[v].file].status # "none"
    <3>1. CASE v = w
      <4>1. bioWork'[w] \in {NoWork} \cup WorkRecords
        BY DEF BioTyped
      <4>2. \A k \in WorkRecords : k.step # "idle"
        BY DEF WorkRecords
      <4> QED  BY <3>1, <4>1, <4>2
    <3>2. CASE v # w
      <4>1. bioWork[v] # NoWork => Filed(bioWork[v].file) /\ bioWork[v].file \in Pdf
        BY <2>1 DEF WorkFits, WorkRecords
      <4> QED  BY <3>2, <4>1 DEF Filed
    <3> QED  BY <3>1, <3>2
  <2>3. ASSUME NEW g \in Pdf \ overtaken, Running(v, g)'
        PROVE  /\ bioJob'[g].status = "processing" /\ bioWork'[v].attempts = bioJob'[g].attempts
               /\ \A u \in BioWorker : Running(u, g)' => u = v
    <3>1. \A u \in BioWorker : u # w /\ Running(u, g)' => Running(u, g)
      BY DEF Running
    <3>2. Running(w, g)' => g = f
      BY DEF Running
    <3>3. CASE v = w
      <4>1. g = f
        BY <3>2, <3>3, <2>3
      <4>2. ASSUME NEW u \in BioWorker, Running(u, g)', u # w PROVE FALSE
        BY <4>1, <4>2, <3>1, <3>3, <2>3
      <4> QED  BY <4>1, <4>2, <3>3, <2>3
    <3>4. CASE v # w
      <4>1. Running(v, g)
        BY <3>1, <3>4, <2>3
      <4>2. bioJob'[g] = bioJob[g] /\ ~(Running(w, g)')
        BY <3>2, <3>4, <4>1
      <4>3. \A u \in BioWorker : Running(u, g)' => u = v
        BY <2>1, <3>1, <4>1, <4>2 DEF WorkFits
      <4>4. bioWork'[v] = bioWork[v]
        BY <3>4
      <4> QED  BY <2>1, <4>1, <4>2, <4>3, <4>4 DEF WorkFits
    <3> QED  BY <3>3, <3>4
  <2> QED  BY <2>2, <2>3 DEF WorkFits, Filed
<1>2. ASSUME NEW g \in Pdf PROVE JobIsPaid(g)' /\ DraftFits(g)'
  <2>1. CASE g = f
    BY <2>1
  <2>2. CASE g # f
    <3>1. \A v \in BioWorker : AtRun(v, g)' => AtRun(v, g)
      BY <2>2 DEF AtRun
    <3>2. JobIsPaid(g)'
      BY <2>2, <3>1 DEF BioInv, JobIsPaid, Billed
    <3>3. DraftFits(g)'
      BY <2>2 DEF BioInv, DraftFits, Filed
    <3> QED  BY <3>2, <3>3
  <2> QED  BY <2>1, <2>2
<1>3. ASSUME NEW q \in Organizer PROVE AskFits(q)'
  <2>1. AskFits(q) /\ (ask[q].step \in {"retry", "read"} => ask[q].file \in Pdf)
    BY AskTypes DEF BioInv, BioTyped, AskRecords
  <2>2. \A g \in Pdf : Filed(g)' <=> Filed(g)
    BY DEF Filed
  <2>3. \A g \in Pdf : draft[g] = "read" => draft'[g] = "read" \/ retries[g] > 0
    OBVIOUS
  <2>4. \A p \in Organizer, g \in Pdf : Uploading(p, g)' <=> Uploading(p, g)
    BY DEF Uploading
  <2>5. ask[q].step = "retry" => bioJob'[ask[q].file].status # "none"
    BY <2>1 DEF AskFits, Filed
  <2> QED  BY <2>1, <2>2, <2>3, <2>4, <2>5 DEF AskFits, Filed
<1>4. PublishedWasReviewed'
  BY DEF BioInv, PublishedWasReviewed
<1> QED  BY <1>1, <1>2, <1>3, <1>4 DEF BioInv

LEMMA WorkChanges ==
  ASSUME BioInv, NEW w \in BioWorker, bioWork[w] # NoWork, NEW f, f = bioWork[w].file
  PROVE  /\ bioWork[w] \in WorkRecords /\ f \in Pdf /\ Filed(f)
         /\ StopWork(w) => /\ bioWork' \in [BioWorker -> {NoWork} \cup WorkRecords]
                           /\ bioWork'[w] = NoWork /\ bioWork'[w].step = "idle"
                           /\ \A v \in BioWorker : v # w => bioWork'[v] = bioWork[v]
         /\ \A s \in {"claim", "run", "ready", "reschedule"}, n \in Nat :
              bioWork' = [bioWork EXCEPT ![w].step = s, ![w].attempts = n] =>
                /\ bioWork' \in [BioWorker -> {NoWork} \cup WorkRecords]
                /\ bioWork'[w].step = s /\ bioWork'[w].file = f /\ bioWork'[w].attempts = n
                /\ \A v \in BioWorker : v # w => bioWork'[v] = bioWork[v]
<1>1. bioWork[w] \in WorkRecords /\ f \in Pdf /\ Filed(f)
  BY DEF BioInv, BioTyped, WorkFits, WorkRecords
<1>2. ASSUME NEW s \in {"claim", "run", "ready", "reschedule"}, NEW n \in Nat,
             bioWork' = [bioWork EXCEPT ![w].step = s, ![w].attempts = n]
      PROVE  /\ bioWork' \in [BioWorker -> {NoWork} \cup WorkRecords]
             /\ bioWork'[w].step = s /\ bioWork'[w].file = f /\ bioWork'[w].attempts = n
             /\ \A v \in BioWorker : v # w => bioWork'[v] = bioWork[v]
  <2>1. PICK k \in WorkRecords : k = [bioWork[w] EXCEPT !.step = s, !.attempts = n]
    BY <1>1 DEF WorkRecords
  <2>2. k.step = s /\ k.file = f /\ k.attempts = n
    BY <1>1, <2>1 DEF WorkRecords
  <2>3. bioWork' = [bioWork EXCEPT ![w] = k]
    BY <1>2, <2>1 DEF BioInv, BioTyped
  <2> QED  BY <2>1, <2>2, <2>3 DEF BioInv, BioTyped
<1>3. StopWork(w) => /\ bioWork' \in [BioWorker -> {NoWork} \cup WorkRecords]
                     /\ bioWork'[w] = NoWork /\ bioWork'[w].step = "idle"
                     /\ \A v \in BioWorker : v # w => bioWork'[v] = bioWork[v]
  BY AskTypes DEF BioInv, BioTyped, StopWork
<1> QED  BY <1>1, <1>2, <1>3

LEMMA WorkGoesOn ==
  ASSUME BioInv, NEW w \in BioWorker, bioWork[w] # NoWork,
         NEW s \in {"claim", "run", "ready", "reschedule"}, Work(w, s)
  PROVE  /\ bioWork' \in [BioWorker -> {NoWork} \cup WorkRecords]
         /\ bioWork'[w].step = s /\ bioWork'[w].file = bioWork[w].file
         /\ bioWork'[w].attempts = bioWork[w].attempts
         /\ \A v \in BioWorker : v # w => bioWork'[v] = bioWork[v]
<1>1. bioWork[w] \in WorkRecords /\ bioWork[w].attempts \in Nat
  BY DEF BioInv, BioTyped, WorkRecords
<1>2. [bioWork[w] EXCEPT !.step = s] = [bioWork[w] EXCEPT !.step = s, !.attempts = bioWork[w].attempts]
  BY <1>1 DEF WorkRecords
<1>3. bioWork' = [bioWork EXCEPT ![w].step = s, ![w].attempts = bioWork[w].attempts]
  BY <1>1, <1>2 DEF Work, BioInv, BioTyped, WorkRecords
<1> QED  BY <1>1, <1>3, WorkChanges

LEMMA JobIsFound ==
  ASSUME BioInv, NEW w \in BioWorker, NEW f \in Pdf, FindJob(w, f)
  PROVE  BioInv'
<1>0. /\ bioJob' = bioJob /\ draft' = draft /\ calls' = calls
      /\ ask' = ask /\ pdfs' = pdfs /\ published' = published /\ retries' = retries
      /\ overtaken' = overtaken /\ doubled' = doubled /\ bioJob[f].status = "queued"
      /\ bioWork[w] = NoWork
  BY DEF FindJob, jobVars, bioHistory
<1>1. PICK k \in WorkRecords : k = [step |-> "claim", file |-> f, attempts |-> 0]
  BY DEF WorkRecords
<1>2. k.step = "claim" /\ k.file = f /\ bioWork' = [bioWork EXCEPT ![w] = k]
  BY <1>1 DEF FindJob
<1>3. /\ bioWork' \in [BioWorker -> {NoWork} \cup WorkRecords] /\ bioWork'[w].step = "claim"
      /\ bioWork'[w].file = f /\ \A v \in BioWorker : v # w => bioWork'[v] = bioWork[v]
  BY <1>1, <1>2 DEF BioInv, BioTyped
<1>4. BioTyped'
  BY <1>0, <1>3 DEF BioInv, BioTyped
<1>5. ~(Running(w, f)')
  BY <1>3 DEF Running
<1>6. JobIsPaid(f)'
  <2>1. \A v \in BioWorker : AtRun(v, f)' => AtRun(v, f)
    BY <1>3 DEF AtRun
  <2> QED  BY <1>0, <2>1 DEF BioInv, JobIsPaid, Billed
<1>7. DraftFits(f)'
  BY <1>0 DEF BioInv, DraftFits, Filed
<1> QED  BY <1>0, <1>3, <1>4, <1>5, <1>6, <1>7, WorkerMoves DEF Filed

\* A claim finds the job waiting, and thus without a worker.
LEMMA JobIsClaimed ==
  ASSUME BioInv, NEW w \in BioWorker, ClaimJob(w)
  PROVE  BioInv'
<1>0. /\ draft' = draft /\ calls' = calls
      /\ ask' = ask /\ pdfs' = pdfs /\ published' = published /\ retries' = retries
      /\ overtaken' = overtaken /\ doubled' = doubled /\ bioWork[w].step = "claim"
  BY DEF ClaimJob, bioHistory
<1>1. PICK f : f = bioWork[w].file
  OBVIOUS
<1>2. bioWork[w] # NoWork /\ bioWork[w] \in WorkRecords /\ f \in Pdf /\ Filed(f)
  BY <1>0, <1>1, AskTypes, WorkChanges
<1>3. bioJob[f] \in JobRecords /\ bioJob[f].attempts \in Nat /\ DraftFits(f) /\ JobIsPaid(f)
  BY <1>2 DEF BioInv, BioTyped, JobRecords
<1>4. CASE ~Claimable(f)
  <2>1. bioJob' = bioJob /\ StopWork(w)
    BY <1>1, <1>4 DEF ClaimJob
  <2>2. /\ bioWork' \in [BioWorker -> {NoWork} \cup WorkRecords] /\ bioWork'[w].step = "idle"
        /\ \A v \in BioWorker : v # w => bioWork'[v] = bioWork[v]
    BY <1>1, <1>2, <2>1, WorkChanges
  <2>3. BioTyped'
    BY <1>0, <2>1, <2>2 DEF BioInv, BioTyped
  <2>4. ~(Running(w, f)')
    BY <2>2 DEF Running
  <2>5. JobIsPaid(f)'
    <3>1. \A v \in BioWorker : AtRun(v, f)' => AtRun(v, f)
      BY <2>2 DEF AtRun
    <3> QED  BY <1>0, <1>3, <2>1, <3>1 DEF JobIsPaid, Billed
  <2>6. DraftFits(f)'
    BY <1>0, <1>3, <2>1 DEF DraftFits, Filed
  <2> QED  BY <1>0, <1>2, <2>1, <2>2, <2>3, <2>4, <2>5, <2>6, WorkerMoves DEF Filed
<1>5. CASE Claimable(f)
  <2>1. PICK n \in Nat : n = bioJob[f].attempts + 1
    BY <1>3
  <2>2. /\ bioJob' = [bioJob EXCEPT ![f] = [status |-> "processing", attempts |-> n]]
        /\ bioWork' = [bioWork EXCEPT ![w].step = "run", ![w].attempts = n]
    BY <1>1, <1>5, <2>1 DEF ClaimJob, NextAttempt
  <2>3. PICK k \in JobRecords : k = [status |-> "processing", attempts |-> n]
    BY DEF JobRecords, JobStatus
  <2>4. /\ bioJob' \in [Pdf -> JobRecords] /\ bioJob'[f].status = "processing"
        /\ bioJob'[f].attempts = n /\ \A g \in Pdf : g # f => bioJob'[g] = bioJob[g]
    BY <1>2, <2>2, <2>3 DEF BioInv, BioTyped
  <2>5. /\ bioWork' \in [BioWorker -> {NoWork} \cup WorkRecords]
        /\ bioWork'[w].step = "run" /\ bioWork'[w].file = f /\ bioWork'[w].attempts = n
        /\ \A v \in BioWorker : v # w => bioWork'[v] = bioWork[v]
    BY <1>1, <1>2, <2>2, WorkChanges
  <2>6. BioTyped'
    BY <1>0, <2>4, <2>5 DEF BioInv, BioTyped
  <2>7. bioJob[f].status = "queued"
    BY <1>5 DEF Claimable
  <2>8. \A v \in BioWorker : f \notin overtaken => ~Running(v, f)
    BY <1>2, <2>7 DEF BioInv, WorkFits
  <2>9. JobIsPaid(f)'
    <3>1. SUFFICES ASSUME f \notin overtaken PROVE JobIsPaid(f)'
      BY <1>0 DEF JobIsPaid
    <3>2. /\ bioJob[f].attempts < MaxAttempts
          /\ calls[f] <= Billed(f) + bioJob[f].attempts
      BY <1>3, <2>7, <3>1 DEF JobIsPaid
    <3>3. calls[f] \in Nat /\ MaxAttempts \in Nat /\ Billed(f) \in Nat
      BY <1>2, BillGrows DEF BioInv, BioTyped, Billed
    <3>4. /\ n <= MaxAttempts /\ calls[f] <= Billed(f) + n /\ calls[f] + 1 <= Billed(f) + n
      BY <1>3, <2>1, <3>2, <3>3
    <3> QED  BY <1>0, <2>4, <3>4 DEF JobIsPaid, Billed
  <2>10. DraftFits(f)'
    BY <1>0, <1>2, <1>3, <2>4, <2>7 DEF DraftFits, Filed
  <2> QED  BY <1>0, <1>2, <2>4, <2>5, <2>6, <2>8, <2>9, <2>10, WorkerMoves
<1> QED  BY <1>4, <1>5

\* The call that the attempt has paid for.
LEMMA JobRuns ==
  ASSUME BioInv, NEW w \in BioWorker, RunJob(w)
  PROVE  BioInv'
<1>0. /\ draft' = draft /\ bioJob' = bioJob
      /\ ask' = ask /\ pdfs' = pdfs /\ published' = published /\ retries' = retries
      /\ overtaken' = overtaken /\ doubled' = doubled /\ bioWork[w].step = "run"
  BY DEF RunJob, jobVars
<1>1. PICK f : f = bioWork[w].file
  OBVIOUS
<1>2. bioWork[w] # NoWork /\ f \in Pdf /\ Filed(f)
  BY <1>0, <1>1, AskTypes, WorkChanges
<1>3. calls[f] \in Nat /\ DraftFits(f) /\ JobIsPaid(f) /\ WorkFits(w) /\ Running(w, f) /\ AtRun(w, f)
  BY <1>0, <1>1, <1>2 DEF BioInv, BioTyped, Running, AtRun
<1>4. /\ calls' \in [Pdf -> Nat] /\ \A g \in Pdf : g # f => calls'[g] = calls[g]
      /\ calls'[f] \in {calls[f], calls[f] + 1}
  BY <1>1, <1>2 DEF RunJob, BioInv, BioTyped
<1>5. PICK s \in {"ready", "reschedule"} : Work(w, s)
  BY DEF RunJob
<1>6. /\ bioWork' \in [BioWorker -> {NoWork} \cup WorkRecords]
      /\ bioWork'[w].step = s /\ bioWork'[w].file = f
      /\ bioWork'[w].attempts = bioWork[w].attempts
      /\ \A v \in BioWorker : v # w => bioWork'[v] = bioWork[v]
  BY <1>1, <1>2, <1>5, WorkGoesOn
<1>7. BioTyped'
  BY <1>0, <1>4, <1>6 DEF BioInv, BioTyped
<1>8. f \notin overtaken =>
        /\ bioJob[f].status = "processing" /\ bioWork[w].attempts = bioJob[f].attempts
        /\ \A v \in BioWorker : Running(v, f) => v = w
  BY <1>2, <1>3 DEF WorkFits
<1>9. JobIsPaid(f)'
  <2>1. SUFFICES ASSUME f \notin overtaken PROVE JobIsPaid(f)'
    BY <1>0 DEF JobIsPaid
  <2>2. \A v \in BioWorker : ~(AtRun(v, f)')
    BY <1>6, <1>8, <2>1 DEF AtRun, Running
  <2>3. calls[f] + 1 <= Billed(f) + bioJob[f].attempts
    BY <1>3, <2>1 DEF JobIsPaid
  <2>4. calls'[f] <= Billed(f) + bioJob[f].attempts
    BY <1>3, <1>4, <2>1, <2>3 DEF JobIsPaid
  <2> QED  BY <1>0, <1>3, <2>1, <2>2, <2>4 DEF JobIsPaid, Billed
<1>10. DraftFits(f)'
  BY <1>0, <1>3 DEF DraftFits, Filed
<1> QED  BY <1>0, <1>2, <1>4, <1>6, <1>7, <1>8, <1>9, <1>10, WorkerMoves DEF Filed

\* The end of an attempt: a draft, another attempt, or none any more.
LEMMA AttemptEnds ==
  ASSUME BioInv, NEW w \in BioWorker, NEW s \in {"draft_ready", "queued", "failed"},
         bioWork[w].step \in {"ready", "reschedule"}, NEW f, f = bioWork[w].file,
         StopWork(w), bioJob' = [bioJob EXCEPT ![f].status = s],
         s = "queued" => bioWork[w].attempts < MaxAttempts,
         draft' = [draft EXCEPT ![f] = IF s = "draft_ready" THEN "unread" ELSE draft[f]],
         calls' = calls, ask' = ask, pdfs' = pdfs, published' = published, retries' = retries,
         overtaken' = overtaken, doubled' = doubled
  PROVE  BioInv'
<1>2. bioWork[w] # NoWork /\ f \in Pdf /\ Filed(f)
  BY AskTypes, WorkChanges
<1>3. /\ bioJob[f] \in JobRecords /\ bioJob[f].attempts \in Nat /\ draft[f] \in DraftState
      /\ DraftFits(f) /\ JobIsPaid(f) /\ WorkFits(w) /\ Running(w, f)
  BY <1>2 DEF BioInv, BioTyped, Running, JobRecords
<1>4. PICK k \in JobRecords : k = [status |-> s, attempts |-> bioJob[f].attempts]
  BY <1>3 DEF JobRecords, JobStatus
<1>5. k.status = s /\ k.attempts = bioJob[f].attempts /\ k = [bioJob[f] EXCEPT !.status = s]
  BY <1>3, <1>4 DEF JobRecords
<1>6. /\ bioJob' \in [Pdf -> JobRecords] /\ bioJob'[f].status = s
      /\ bioJob'[f].attempts = bioJob[f].attempts
      /\ \A g \in Pdf : g # f => bioJob'[g] = bioJob[g]
  <2>1. bioJob' = [bioJob EXCEPT ![f] = k]
    BY <1>5 DEF BioInv, BioTyped
  <2> QED  BY <1>2, <1>4, <1>5, <2>1 DEF BioInv, BioTyped
<1>7. /\ draft' \in [Pdf -> DraftState] /\ (s # "draft_ready" => draft'[f] = draft[f])
      /\ \A g \in Pdf : g # f => draft'[g] = draft[g]
  BY <1>2, <1>3 DEF BioInv, BioTyped, DraftState
<1>8. /\ bioWork' \in [BioWorker -> {NoWork} \cup WorkRecords] /\ bioWork'[w].step = "idle"
      /\ \A v \in BioWorker : v # w => bioWork'[v] = bioWork[v]
  BY <1>2, WorkChanges
<1>9. BioTyped'
  BY <1>6, <1>7, <1>8 DEF BioInv, BioTyped
<1>10. f \notin overtaken =>
        /\ bioJob[f].status = "processing" /\ bioWork[w].attempts = bioJob[f].attempts
        /\ \A v \in BioWorker : Running(v, f) => v = w
  BY <1>2, <1>3 DEF WorkFits
<1>11. JobIsPaid(f)'
  <2>1. \A v \in BioWorker : AtRun(v, f)' => AtRun(v, f)
    BY <1>8 DEF AtRun
  <2> QED  BY <1>3, <1>6, <1>10, <2>1 DEF JobIsPaid, Billed
<1>12. draft[f] # "none" => retries[f] > 0
  BY <1>3, <1>10 DEF DraftFits
<1>13. DraftFits(f)'
  BY <1>2, <1>3, <1>6, <1>7, <1>12 DEF DraftFits, Filed
<1>14. ~(Running(w, f)')
  BY <1>8 DEF Running
<1> QED
  BY <1>2, <1>6, <1>7, <1>8, <1>9, <1>10, <1>11, <1>12, <1>13, <1>14, WorkerMoves

LEMMA DraftIsReady ==
  ASSUME BioInv, NEW w \in BioWorker, MarkDraftReady(w)
  PROVE  BioInv'
<1>1. /\ bioWork[w].step = "ready" /\ StopWork(w)
      /\ calls' = calls /\ ask' = ask /\ pdfs' = pdfs /\ published' = published
      /\ retries' = retries /\ overtaken' = overtaken /\ doubled' = doubled
  BY DEF MarkDraftReady, bioHistory
<1>2. PICK f : f = bioWork[w].file
  OBVIOUS
<1>3. /\ bioJob' = [bioJob EXCEPT ![f].status = "draft_ready"]
      /\ draft' = [draft EXCEPT ![f] = IF "draft_ready" = "draft_ready" THEN "unread" ELSE draft[f]]
  BY <1>2 DEF MarkDraftReady
<1> QED  BY <1>1, <1>2, <1>3, AttemptEnds

LEMMA AttemptFails ==
  ASSUME BioInv, NEW w \in BioWorker, RescheduleFailedAttempt(w)
  PROVE  BioInv'
<1>1. /\ bioWork[w].step = "reschedule" /\ StopWork(w) /\ draft' = draft
      /\ calls' = calls /\ ask' = ask /\ pdfs' = pdfs /\ published' = published
      /\ retries' = retries /\ overtaken' = overtaken /\ doubled' = doubled
  BY DEF RescheduleFailedAttempt, bioHistory
<1>2. PICK f : f = bioWork[w].file
  OBVIOUS
<1>3. bioWork[w] # NoWork /\ bioWork[w] \in WorkRecords /\ bioWork[w].attempts \in Nat
  BY <1>1, AskTypes, WorkChanges DEF WorkRecords
<1>4. PICK s \in {"queued", "failed"} :
        /\ s = IF Exhausted(bioWork[w].attempts) THEN "failed" ELSE "queued"
        /\ bioJob' = [bioJob EXCEPT ![f].status = s]
  BY <1>2 DEF RescheduleFailedAttempt
<1>5. s = "queued" => bioWork[w].attempts < MaxAttempts
  BY <1>3, <1>4, BillGrows DEF Exhausted
<1>6. draft' = [draft EXCEPT ![f] = IF s = "draft_ready" THEN "unread" ELSE draft[f]]
  BY <1>1, <1>4 DEF BioInv, BioTyped
<1> QED  BY <1>1, <1>2, <1>4, <1>5, <1>6, AttemptEnds

LEMMA WorkIsCutShort ==
  ASSUME BioInv, NEW w \in BioWorker, WriteFails(w)
  PROVE  BioInv'
<1>0. /\ draft' = draft /\ bioJob' = bioJob /\ calls' = calls
      /\ ask' = ask /\ pdfs' = pdfs /\ published' = published /\ retries' = retries
      /\ overtaken' = overtaken /\ doubled' = doubled
  BY DEF WriteFails, jobVars
<1>1. PICK f : f = bioWork[w].file
  OBVIOUS
<1>2. bioWork[w] # NoWork /\ f \in Pdf /\ Filed(f) /\ bioWork[w] \in WorkRecords
  BY <1>1, AskTypes, WorkChanges DEF WriteFails
<1>3. DraftFits(f) /\ JobIsPaid(f) /\ WorkFits(w)
  BY <1>2 DEF BioInv
<1>4. /\ bioWork' \in [BioWorker -> {NoWork} \cup WorkRecords]
      /\ bioWork'[w].step = "idle" \/ bioWork'[w].file = f
      /\ ~(AtRun(w, f)')
      /\ Running(w, f)' => Running(w, f) /\ bioWork'[w].attempts = bioWork[w].attempts
      /\ \A v \in BioWorker : v # w => bioWork'[v] = bioWork[v]
  <2>1. CASE bioWork[w].step = "ready" /\ Work(w, "reschedule")
    <3>1. /\ bioWork' \in [BioWorker -> {NoWork} \cup WorkRecords]
          /\ bioWork'[w].step = "reschedule" /\ bioWork'[w].file = f
          /\ bioWork'[w].attempts = bioWork[w].attempts
          /\ \A v \in BioWorker : v # w => bioWork'[v] = bioWork[v]
      BY <1>1, <1>2, <2>1, WorkGoesOn
    <3> QED  BY <1>1, <2>1, <3>1 DEF Running, AtRun
  <2>2. CASE bioWork' = [bioWork EXCEPT ![w] = NoWork]
    <3>1. StopWork(w)
      BY <2>2 DEF StopWork
    <3>2. /\ bioWork' \in [BioWorker -> {NoWork} \cup WorkRecords] /\ bioWork'[w].step = "idle"
          /\ \A v \in BioWorker : v # w => bioWork'[v] = bioWork[v]
      BY <1>1, <1>2, <3>1, WorkChanges
    <3> QED  BY <3>2 DEF Running, AtRun
  <2> QED  BY <2>1, <2>2 DEF WriteFails
<1>5. BioTyped'
  BY <1>0, <1>4 DEF BioInv, BioTyped
<1>6. JobIsPaid(f)'
  <2>1. \A v \in BioWorker : AtRun(v, f)' => AtRun(v, f)
    BY <1>4 DEF AtRun
  <2> QED  BY <1>0, <1>3, <2>1 DEF JobIsPaid, Billed
<1>7. DraftFits(f)'
  BY <1>0, <1>3 DEF DraftFits, Filed
<1>8. f \notin overtaken /\ Running(w, f) =>
        /\ bioJob[f].status = "processing" /\ bioWork[w].attempts = bioJob[f].attempts
        /\ \A v \in BioWorker : Running(v, f) => v = w
  BY <1>2, <1>3 DEF WorkFits
<1> QED  BY <1>0, <1>2, <1>4, <1>5, <1>6, <1>7, <1>8, WorkerMoves DEF Filed

LEMMA BioKeeps == BioInv /\ [BioNext]_bioVars => BioInv'
<1> SUFFICES ASSUME BioInv, [BioNext]_bioVars PROVE BioInv'
  OBVIOUS
<1>1. ASSUME NEW r \in Organizer, AskStep(r) PROVE BioInv'
  <2>1. ASSUME NEW f \in Pdf, UploadPdf(r, f) \/ RetryBegin(r, f) \/ PublishBegins(r, f)
        PROVE  BioInv'
    BY <1>1, <2>1, UploadBegins, RetryBegins, PublishingBegins
  <2> QED
    BY <1>1, <2>1, PdfIsSaved, JobIsCreated, UploadIsUndone, JobIsRetried, PublishingReads,
       DraftIsPublished DEF AskStep
<1>2. ASSUME NEW w \in BioWorker, BioStep(w) PROVE BioInv'
  BY <1>2, JobIsFound, JobIsClaimed, JobRuns, DraftIsReady, AttemptFails DEF BioStep
<1>3. CASE UNCHANGED bioVars
  <2>1. /\ bioJob' = bioJob /\ bioWork' = bioWork /\ calls' = calls /\ retries' = retries
        /\ overtaken' = overtaken /\ ask' = ask /\ pdfs' = pdfs /\ published' = published
        /\ doubled' = doubled /\ draft' = draft
    BY <1>3 DEF bioVars, jobVars, bioHistory
  <2>2. BioTyped' /\ PublishedWasReviewed'
    BY <2>1 DEF BioInv, BioTyped, PublishedWasReviewed
  <2>3. ASSUME NEW g \in Pdf PROVE DraftFits(g)'
    BY <2>1 DEF BioInv, DraftFits, Filed
  <2>4. ASSUME NEW q \in Organizer PROVE AskFits(q)'
    BY <2>1 DEF BioInv, AskFits, Filed, Uploading
  <2> QED  BY <2>1, <2>2, <2>3, <2>4, JobsStand DEF BioInv
<1> QED  BY <1>1, <1>2, <1>3, DraftIsReviewed, WorkIsCutShort DEF BioNext

\* In every state the work on a job, the calls of the model it has cost, its
\* draft and its file fit together (the inductive invariant).
THEOREM JobsAddUp == BioSpec => []BioInv
  BY BioStarts, BioKeeps, PTL DEF BioSpec

LEMMA BioHolds ==
  BioInv => OneWorkerPerJob /\ CallsAreBounded /\ PublishedWasReviewed /\ JobsHaveTheirFile
<1> SUFFICES ASSUME BioInv
             PROVE  OneWorkerPerJob /\ CallsAreBounded /\ PublishedWasReviewed /\ JobsHaveTheirFile
  OBVIOUS
<1>1. ASSUME NEW f \in Pdf \ overtaken, NEW S, S = {w \in BioWorker : Running(w, f)}
      PROVE  Cardinality(S) <= 1 /\ (S # {} => bioJob[f].status = "processing")
  <2>1. CASE S = {}
    BY <2>1, FS_EmptySet
  <2>2. CASE S # {}
    <3>1. PICK w \in BioWorker : Running(w, f)
      BY <1>1, <2>2
    <3>2. S = {w} /\ bioJob[f].status = "processing"
      BY <1>1, <3>1 DEF BioInv, WorkFits
    <3>3. Cardinality({w}) = 1
      BY FS_Singleton
    <3> QED  BY <3>2, <3>3
  <2> QED  BY <2>1, <2>2
<1>2. ASSUME NEW f \in Pdf \ overtaken
      PROVE  calls[f] <= MaxAttempts * (1 + retries[f])
  <2>1. /\ calls[f] <= Billed(f) + bioJob[f].attempts /\ bioJob[f].attempts <= MaxAttempts
        /\ calls[f] \in Nat /\ bioJob[f].attempts \in Nat /\ retries[f] \in Nat
    BY DEF BioInv, JobIsPaid, BioTyped, JobRecords
  <2>2. /\ MaxAttempts * (retries[f] + 1) = Billed(f) + MaxAttempts /\ Billed(f) \in Nat
        /\ MaxAttempts \in Nat
    BY <2>1, BillGrows DEF Billed
  <2>3. calls[f] <= MaxAttempts * (retries[f] + 1)
    BY <2>1, <2>2
  <2>4. retries[f] + 1 = 1 + retries[f]
    BY <2>1
  <2> QED  BY <2>3, <2>4
<1>3. ASSUME NEW f \in Pdf, bioJob[f] # NotFiled
      PROVE  f \in pdfs \cup doubled
  <2>1. bioJob[f] \in JobRecords /\ DraftFits(f)
    BY DEF BioInv, BioTyped
  <2>2. \A j \in JobRecords : j.status = "none" /\ j.attempts = 0 => j = NotFiled
    BY DEF JobRecords, NotFiled
  <2> QED  BY <1>3, <2>1, <2>2 DEF DraftFits, Filed
<1> QED  BY <1>1, <1>2, <1>3 DEF BioInv, OneWorkerPerJob, CallsAreBounded, JobsHaveTheirFile

\* Unless a retry resets a job that is running, a job has one worker at a time,
\* and the model is called at most MaxAttempts times for it and for each of its
\* retries, whatever becomes of workers and writes.
THEOREM OneWorkerPerJobHolds == BioSpec => [](OneWorkerPerJob /\ CallsAreBounded)
<1>1. BioInv => OneWorkerPerJob /\ CallsAreBounded
  BY BioHolds
<1> QED  BY <1>1, JobsAddUp, PTL

\* The concert shows a text that an organizer has seen, unless its job was
\* retried, and a job has its file, unless two uploads of it were under way.
THEOREM PublishedWasReviewedHolds == BioSpec => [](PublishedWasReviewed /\ JobsHaveTheirFile)
<1>1. BioInv => PublishedWasReviewed /\ JobsHaveTheirFile
  BY BioHolds
<1> QED  BY <1>1, JobsAddUp, PTL

\* The queue keeps its promises; that its drafts also say what the model said
\* is a matter of the texts alone, which TLC checks.
COROLLARY JobsAreSoundAsFarAsRead == BioSpec => [](DraftsAreReadRight => JobsAreSound)
<1>1. BioInv => (DraftsAreReadRight => JobsAreSound)
  BY BioHolds DEF JobsAreSound
<1> QED  BY <1>1, JobsAddUp, PTL

-----------------------------------------------------------------------------
(* Pages                                                                   *)

ConcertRow == [published : BOOLEAN, text : Nat]
PageValue == [view : ConcertRow, stock : Int]
Querying == [step : {"query"}]
Filling == [step : {"summary", "store"}, value : PageValue]
Storing == [step : {"store"}, value : PageValue]

CachedValues == row \in ConcertRow /\ stock \in Int /\ cache \in [Entry -> PageValue]
LoadsGoOn ==
  /\ load \in [Entry -> {NoLoad} \cup Querying \cup Filling]
  /\ load["summary"] \in {NoLoad} \cup Storing
KeysToDelete == op \in [Publisher -> SUBSET Entry] /\ excused \subseteq Entry

\* A miss is counted for each page that is being loaded.
Loads(e) == IF load[e] = NoLoad THEN 0 ELSE 1
MissesAreLoads == misses = Loads("list") + Loads("detail")

PagesInv ==
  CachedValues /\ LoadsGoOn /\ KeysToDelete /\ MissesAreLoads /\ StalenessIsExplained

LEMMA PagesStart == PagesInit => PagesInv
<1> SUFFICES ASSUME PagesInit PROVE PagesInv  OBVIOUS
<1>1. Gone \in ConcertRow /\ NoValue \in PageValue
  BY DEF Gone, NoValue, ConcertRow, PageValue
<1>2. row \in ConcertRow /\ stock \in Int
  BY PagesAssumption DEF PagesInit, ConcertRow
<1>3. CachedValues
  BY <1>1, <1>2 DEF PagesInit, CachedValues
<1>4. LoadsGoOn /\ MissesAreLoads
  BY DEF PagesInit, LoadsGoOn, MissesAreLoads, Loads, Entry, Page
<1>5. KeysToDelete
  BY DEF PagesInit, KeysToDelete
<1>6. StalenessIsExplained
  BY DEF PagesInit, StalenessIsExplained, Stale
<1> QED  BY <1>3, <1>4, <1>5, <1>6 DEF PagesInv

\* A load is under way if it is not idle.
LEMMA LoadSteps ==
  ASSUME LoadsGoOn, NEW e \in Entry
  PROVE  /\ load[e] = NoLoad \/ load[e] \in Querying \/ load[e] \in Filling
         /\ load[e] = NoLoad <=> load[e].step = "idle"
         /\ load[e].step = "query" => load[e] \in Querying /\ e \in Page
         /\ load[e].step \in {"summary", "store"} => load[e] \in Filling
         /\ load[e].step = "summary" => e \in Page
         /\ load[e].step # "refused"
  BY DEF LoadsGoOn, NoLoad, Querying, Filling, Storing, Entry, Page

\* One page begins to be loaded or ends.
LEMMA OneLoadChanges ==
  ASSUME LoadsGoOn, MissesAreLoads, NEW e \in Entry, NEW l,
         load' = [load EXCEPT ![e] = l],
         misses' = IF e \in Page
                   THEN misses - Loads(e) + (IF l = NoLoad THEN 0 ELSE 1)
                   ELSE misses
  PROVE  MissesAreLoads'
  BY DEF LoadsGoOn, MissesAreLoads, Loads, Entry, Page

\* A step that leaves the values in Redis and what they are compared with.
LEMMA CacheRests ==
  ASSUME PagesInv, row' = row, stock' = stock, cache' = cache, op' = op, excused' = excused
  PROVE  CachedValues' /\ KeysToDelete' /\ StalenessIsExplained'
  BY DEF PagesInv, CachedValues, KeysToDelete, StalenessIsExplained, Stale, SameView, View

\* A step that leaves the loads.
LEMMA LoadsRest ==
  ASSUME PagesInv, load' = load, misses' = misses
  PROVE  LoadsGoOn' /\ MissesAreLoads'
  BY DEF PagesInv, LoadsGoOn, MissesAreLoads, Loads

\* Deleting keys leaves them empty or excused.
LEMMA DeletedOrExcused ==
  ASSUME cache \in [Entry -> PageValue], excused \subseteq Entry, NEW S \in SUBSET Entry, DeleteKeys(S)
  PROVE  /\ cache' \in [Entry -> PageValue] /\ excused' \subseteq Entry
         /\ \A e \in S : cache'[e] = NoValue \/ e \in excused'
         /\ \A e \in Entry \ S : cache'[e] = cache[e] /\ (e \in excused => e \in excused')
<1>1. NoValue \in PageValue
  BY DEF Gone, NoValue, ConcertRow, PageValue
<1>2. PICK failed \in SUBSET S :
         /\ cache' = [e \in Entry |-> IF e \in S \ failed THEN NoValue ELSE cache[e]]
         /\ excused' = (excused \ (S \ failed)) \cup failed
  BY DEF DeleteKeys
<1> QED  BY <1>1, <1>2

LEMMA LoadPageKeeps ==
  ASSUME PagesInv, NEW e \in Entry, LoadPage(e) PROVE PagesInv'
<1>1. CachedValues' /\ KeysToDelete' /\ StalenessIsExplained'
  BY CacheRests DEF LoadPage, rowVars
<1>2. e \in Page /\ load[e] = NoLoad /\ load' = [load EXCEPT ![e] = [step |-> "query"]]
      /\ misses' = misses + 1
  BY DEF LoadPage, Budgeted
<1>3. [step |-> "query"] \in Querying /\ [step |-> "query"] # NoLoad
  BY DEF Querying, NoLoad
<1>4. LoadsGoOn'
  BY <1>2, <1>3 DEF PagesInv, LoadsGoOn, Entry, Page
<1>5. misses \in Int
  BY DEF PagesInv, MissesAreLoads, Loads
<1>6. misses' = misses - Loads(e) + 1
  BY <1>2, <1>5 DEF Loads
<1>7. MissesAreLoads'
  BY <1>2, <1>3, <1>6, OneLoadChanges DEF PagesInv
<1> QED  BY <1>1, <1>4, <1>7 DEF PagesInv

LEMMA LoadQueryKeeps ==
  ASSUME PagesInv, NEW e \in Entry, LoadQuery(e) PROVE PagesInv'
<1>1. CachedValues' /\ KeysToDelete' /\ StalenessIsExplained'
  BY CacheRests DEF LoadQuery, rowVars
<1>2. PICK l : /\ l = [step |-> IF row.published THEN "summary" ELSE "store", value |-> Current(e)]
               /\ load' = [load EXCEPT ![e] = l]
               /\ misses' = misses
  BY DEF LoadQuery
<1>3. load[e].step = "query" /\ e \in Page
  BY LoadSteps DEF LoadQuery, PagesInv
<1>4. Current(e) \in PageValue
  <2>1. View(row) \in ConcertRow /\ Gone \in ConcertRow
    BY DEF PagesInv, CachedValues, View, Gone, ConcertRow
  <2> QED  BY <2>1 DEF PagesInv, CachedValues, Current, PageValue
<1>5. l \in Filling /\ l # NoLoad
  BY <1>2, <1>4 DEF Filling, NoLoad
<1>6. LoadsGoOn'
  BY <1>2, <1>3, <1>5 DEF PagesInv, LoadsGoOn, Entry, Page
<1>7. load[e] # NoLoad /\ misses \in Int
  BY <1>3 DEF PagesInv, MissesAreLoads, Loads, NoLoad
<1>8. misses' = misses - Loads(e) + 1
  BY <1>2, <1>7 DEF Loads
<1>9. MissesAreLoads'
  BY <1>2, <1>3, <1>5, <1>8, OneLoadChanges DEF PagesInv
<1> QED  BY <1>1, <1>6, <1>9 DEF PagesInv

\* The summary is not counted, so that the page is never refused on its way.
LEMMA LoadSummaryKeeps ==
  ASSUME PagesInv, NEW e \in Entry, LoadSummary(e) PROVE PagesInv'
<1>1. CachedValues' /\ KeysToDelete' /\ StalenessIsExplained'
  BY CacheRests DEF LoadSummary, rowVars
<1>2. e \in Page /\ load[e] \in Filling /\ load[e] # NoLoad /\ misses \in Int
  <2>1. load[e].step = "summary" /\ misses \in Int
    BY DEF LoadSummary, PagesInv, MissesAreLoads, Loads
  <2> QED  BY <2>1, LoadSteps DEF PagesInv, NoLoad
<1>3. "summary" \notin Budgeted
  BY DEF Budgeted, Page
<1>4. \A s \in Int : Filled(load[e], s) \in Filling /\ Filled(load[e], s) # NoLoad
  <2>1. load[e].value.view \in ConcertRow
    BY <1>2 DEF Filling, PageValue
  <2> QED  BY <2>1 DEF Filled, Filling, PageValue, NoLoad
<1>5. /\ misses' = misses
      /\ \/ /\ cache["summary"] # NoValue
            /\ load' = [load EXCEPT ![e] = Filled(load[e], cache["summary"].stock)]
         \/ /\ load["summary"] # NoLoad
            /\ load' = [load EXCEPT ![e] = Filled(load[e], load["summary"].value.stock)]
         \/ /\ load["summary"] = NoLoad
            /\ load' = [load EXCEPT ![e] = Filled(load[e], load[e].value.stock),
                  !["summary"] = [step |-> "store",
                    value |-> [view |-> Gone, stock |-> load[e].value.stock]]]
  BY <1>2, <1>3 DEF LoadSummary
<1>6. cache["summary"].stock \in Int
  BY DEF PagesInv, CachedValues, PageValue, Entry
<1>7. load["summary"] # NoLoad => load["summary"].value.stock \in Int
  BY DEF PagesInv, LoadsGoOn, Storing, PageValue
<1>8. ASSUME NEW s \in Int, load' = [load EXCEPT ![e] = Filled(load[e], s)], misses' = misses
      PROVE  LoadsGoOn' /\ MissesAreLoads'
  <2>1. PICK l \in Filling : l = Filled(load[e], s) /\ l # NoLoad
    BY <1>4
  <2>2. load' = [load EXCEPT ![e] = l]
    BY <1>8, <2>1
  <2>3. LoadsGoOn'
    BY <1>2, <2>1, <2>2 DEF PagesInv, LoadsGoOn, Entry, Page
  <2>4. misses' = misses - Loads(e) + 1
    BY <1>2, <1>8 DEF Loads
  <2>5. MissesAreLoads'
    BY <1>2, <2>1, <2>2, <2>4, OneLoadChanges DEF PagesInv
  <2> QED  BY <2>3, <2>5
<1>9. ASSUME misses' = misses,
             load' = [load EXCEPT ![e] = Filled(load[e], load[e].value.stock),
                  !["summary"] = [step |-> "store",
                    value |-> [view |-> Gone, stock |-> load[e].value.stock]]]
      PROVE  LoadsGoOn' /\ MissesAreLoads'
  <2>1. load[e].value.stock \in Int
    BY <1>2 DEF Filling, PageValue
  <2>2. PICK l \in Filling : l = Filled(load[e], load[e].value.stock) /\ l # NoLoad
    BY <1>4, <2>1
  <2>3. PICK k \in Storing :
          k = [step |-> "store", value |-> [view |-> Gone, stock |-> load[e].value.stock]]
    BY <2>1 DEF Storing, PageValue, ConcertRow, Gone
  <2>4. e # "summary" /\ e \in Entry
    BY <1>2 DEF Page, Entry
  <2>5. load' = [load EXCEPT ![e] = l, !["summary"] = k]
    BY <1>9, <2>2, <2>3
  <2>6. k \in Filling
    BY <2>3 DEF Storing, Filling
  <2>7. LoadsGoOn'
    BY <2>2, <2>3, <2>4, <2>5, <2>6 DEF PagesInv, LoadsGoOn, Entry
  <2>8. \A p \in Page : load'[p] = NoLoad <=> load[p] = NoLoad
    BY <1>2, <2>2, <2>4, <2>5 DEF PagesInv, LoadsGoOn, Entry, Page
  <2>9. MissesAreLoads'
    BY <1>9, <2>8 DEF PagesInv, MissesAreLoads, Loads, Page
  <2> QED  BY <2>7, <2>9
<1>10. LoadsGoOn' /\ MissesAreLoads'
  <2>1. load[e].value.stock \in Int
    BY <1>2 DEF Filling, PageValue
  <2> QED  BY <1>5, <1>6, <1>7, <1>8, <1>9, <2>1
<1> QED  BY <1>1, <1>10 DEF PagesInv

\* A load that ends gives its miss back.
LEMMA EndedLoad ==
  ASSUME PagesInv, NEW e \in Entry, load[e] # NoLoad, EndLoad(e)
  PROVE  LoadsGoOn' /\ MissesAreLoads'
<1>1. load' = [load EXCEPT ![e] = NoLoad] /\ misses \in Int
  BY DEF EndLoad, PagesInv, MissesAreLoads, Loads
<1>2. misses' = IF e \in Page THEN misses - Loads(e) + 0 ELSE misses
  BY <1>1 DEF EndLoad, Budgeted, Loads
<1>3. MissesAreLoads'
  BY <1>1, <1>2, OneLoadChanges DEF PagesInv
<1>4. LoadsGoOn'
  BY <1>1 DEF PagesInv, LoadsGoOn, Entry
<1> QED  BY <1>3, <1>4

\* What a late load stores is excused if it is old.
LEMMA LoadStoreKeeps ==
  ASSUME PagesInv, NEW e \in Entry, LoadStore(e) PROVE PagesInv'
<1>1. load[e] \in Filling /\ load[e] # NoLoad
  BY LoadSteps DEF LoadStore, PagesInv, NoLoad
<1>2. LoadsGoOn' /\ MissesAreLoads'
  BY <1>1, EndedLoad DEF LoadStore
<1>3. row' = row /\ stock' = stock /\ op' = op
  BY DEF LoadStore, rowVars
<1>4. CASE cache' = cache /\ excused' = excused
  BY <1>2, <1>3, <1>4, CacheRests DEF PagesInv
<1>5. ASSUME NEW v, v = load[e].value,
             cache' = [cache EXCEPT ![e] =
               IF e = "detail" /\ v.view = Gone THEN NoValue ELSE v],
             excused' = IF SameView(e, v) THEN excused \ {e} ELSE excused \cup {e}
      PROVE  PagesInv'
  <2>1. v \in PageValue /\ NoValue \in PageValue
    BY <1>1, <1>5 DEF Filling, PageValue, NoValue, Gone, ConcertRow
  <2>2. CachedValues' /\ KeysToDelete'
    BY <1>3, <1>5, <2>1 DEF PagesInv, CachedValues, KeysToDelete
  <2>3. \A d \in Entry \ {e} : cache'[d] = cache[d] /\ (d \in excused => d \in excused')
    BY <1>5 DEF PagesInv, CachedValues
  <2>4. cache'[e] = NoValue \/ cache'[e] = v
    BY <1>5 DEF PagesInv, CachedValues
  <2>5. ASSUME NEW d \in Entry, Stale(d)' PROVE d \in excused' \/ \E m \in Publisher : d \in op'[m]
    <3>1. CASE d # e
      <4>1. Stale(d)
        BY <1>3, <2>3, <2>5, <3>1 DEF Stale, SameView, View
      <4> QED  BY <1>3, <2>3, <3>1, <4>1 DEF PagesInv, StalenessIsExplained
    <3>2. CASE d = e
      <4>1. ~SameView(e, v)
        BY <1>3, <2>4, <2>5, <3>2 DEF Stale, SameView, View
      <4> QED  BY <1>5, <3>2, <4>1
    <3> QED  BY <3>1, <3>2
  <2>6. StalenessIsExplained'
    BY <2>5 DEF StalenessIsExplained
  <2> QED  BY <1>2, <2>2, <2>6 DEF PagesInv
<1> QED  BY <1>4, <1>5 DEF LoadStore

LEMMA LoadFailsKeeps ==
  ASSUME PagesInv, NEW e \in Entry, LoadFails(e) PROVE PagesInv'
<1>1. load[e] # NoLoad
  BY DEF LoadFails, NoLoad
<1>2. LoadsGoOn' /\ MissesAreLoads'
  BY <1>1, EndedLoad DEF LoadFails
<1> QED  BY <1>2, CacheRests DEF LoadFails, rowVars, PagesInv

LEMMA ExpireKeeps ==
  ASSUME PagesInv, NEW e \in Entry, Expire(e) PROVE PagesInv'
<1>1. row' = row /\ stock' = stock /\ op' = op /\ load' = load /\ misses' = misses
      /\ cache' = [cache EXCEPT ![e] = NoValue] /\ excused' = excused \ {e}
  BY DEF Expire, rowVars
<1>2. LoadsGoOn' /\ MissesAreLoads'
  BY <1>1, LoadsRest
<1>3. CachedValues' /\ KeysToDelete'
  BY <1>1 DEF PagesInv, CachedValues, KeysToDelete, PageValue, NoValue, Gone, ConcertRow
<1>4. \A d \in Entry : Stale(d)' => Stale(d) /\ d # e
  BY <1>1 DEF PagesInv, CachedValues, Stale, SameView, View
<1>5. StalenessIsExplained'
  BY <1>1, <1>4 DEF PagesInv, StalenessIsExplained
<1> QED  BY <1>2, <1>3, <1>5 DEF PagesInv

\* A sale makes the summary old and no page, and deletes the summary.
LEMMA SellKeeps == ASSUME PagesInv, Sell PROVE PagesInv'
<1>1. row' = row /\ stock' = stock - 1 /\ op' = op /\ load' = load /\ misses' = misses
      /\ DeleteKeys({"summary", "list"})
  BY DEF Sell
<1>2. LoadsGoOn' /\ MissesAreLoads'
  BY <1>1, LoadsRest
<1>3. /\ cache' \in [Entry -> PageValue] /\ excused' \subseteq Entry
      /\ \A e \in {"summary", "list"} : cache'[e] = NoValue \/ e \in excused'
      /\ \A e \in Entry \ {"summary", "list"} :
           cache'[e] = cache[e] /\ (e \in excused => e \in excused')
  BY <1>1, DeletedOrExcused DEF PagesInv, CachedValues, KeysToDelete, Entry, Page
<1>4. CachedValues' /\ KeysToDelete'
  BY <1>1, <1>3 DEF PagesInv, CachedValues, KeysToDelete
<1>5. \A e \in Entry \ {"summary", "list"} : Stale(e)' => Stale(e)
  BY <1>1, <1>3 DEF Stale, SameView, View
<1>6. StalenessIsExplained'
  BY <1>1, <1>3, <1>5 DEF PagesInv, StalenessIsExplained, Stale
<1> QED  BY <1>2, <1>4, <1>6 DEF PagesInv

LEMMA ShowNewBioKeeps == ASSUME PagesInv, ShowNewBio PROVE PagesInv'
<1>1. row' = [row EXCEPT !.text = @ + 1] /\ excused' = excused \cup Page
      /\ stock' = stock /\ op' = op /\ cache' = cache /\ load' = load /\ misses' = misses
  BY DEF ShowNewBio
<1>2. LoadsGoOn' /\ MissesAreLoads'
  BY <1>1, LoadsRest
<1>3. CachedValues' /\ KeysToDelete'
  BY <1>1 DEF PagesInv, CachedValues, KeysToDelete, ConcertRow, Entry
<1>4. Stale("summary")' => Stale("summary")
  BY <1>1 DEF Stale, SameView
<1>5. StalenessIsExplained'
  BY <1>1, <1>4 DEF PagesInv, StalenessIsExplained, Entry
<1> QED  BY <1>2, <1>3, <1>5 DEF PagesInv

\* Whoever writes the row has both pages to delete.
LEMMA WriteRowKeeps == ASSUME PagesInv, NEW m \in Publisher, WriteRow(m) PROVE PagesInv'
<1>1. op[m] = {} /\ stock' = stock /\ cache' = cache /\ load' = load /\ misses' = misses
      /\ excused' = excused
  BY DEF WriteRow
<1>2. PICK shown \in BOOLEAN : row' = [published |-> shown, text |-> row.text + 1]
  BY DEF WriteRow
<1>3. PICK keys \in {Page, Entry} : op' = [op EXCEPT ![m] = keys]
  BY DEF WriteRow
<1>4. LoadsGoOn' /\ MissesAreLoads'
  BY <1>1, LoadsRest
<1>5. CachedValues' /\ KeysToDelete'
  BY <1>1, <1>2, <1>3 DEF PagesInv, CachedValues, KeysToDelete, ConcertRow, Entry
<1>6. \A e \in Page : e \in op'[m]
  BY <1>3 DEF PagesInv, KeysToDelete, Entry
<1>7. Stale("summary")' => Stale("summary")
  BY <1>1 DEF Stale, SameView
<1>8. \A e \in Entry, n \in Publisher : e \in op[n] => e \in op'[n]
  BY <1>1, <1>3 DEF PagesInv, KeysToDelete
<1>9. StalenessIsExplained'
  BY <1>1, <1>6, <1>7, <1>8 DEF PagesInv, StalenessIsExplained, Entry
<1> QED  BY <1>4, <1>5, <1>9 DEF PagesInv

LEMMA InvalidateKeeps == ASSUME PagesInv, NEW m \in Publisher, Invalidate(m) PROVE PagesInv'
<1>1. DeleteKeys(op[m]) /\ op' = [op EXCEPT ![m] = {}] /\ row' = row /\ stock' = stock
      /\ load' = load /\ misses' = misses
  BY DEF Invalidate, Invalidated, rowVars
<1>2. LoadsGoOn' /\ MissesAreLoads'
  BY <1>1, LoadsRest
<1>3. op[m] \in SUBSET Entry
  BY DEF PagesInv, KeysToDelete
<1>4. /\ cache' \in [Entry -> PageValue] /\ excused' \subseteq Entry
      /\ \A e \in op[m] : cache'[e] = NoValue \/ e \in excused'
      /\ \A e \in Entry \ op[m] : cache'[e] = cache[e] /\ (e \in excused => e \in excused')
  BY <1>1, <1>3, DeletedOrExcused DEF PagesInv, CachedValues, KeysToDelete
<1>5. CachedValues' /\ KeysToDelete'
  BY <1>1, <1>4 DEF PagesInv, CachedValues, KeysToDelete
<1>6. ASSUME NEW e \in Entry, Stale(e)' PROVE e \in excused' \/ \E n \in Publisher : e \in op'[n]
  <2>1. CASE e \in op[m]
    BY <1>4, <1>6, <2>1 DEF Stale
  <2>2. CASE e \notin op[m]
    <3>1. Stale(e)
      BY <1>1, <1>4, <1>6, <2>2 DEF Stale, SameView, View
    <3>2. CASE e \in excused
      BY <1>4, <2>2, <3>2
    <3>3. CASE e \notin excused
      <4>1. PICK n \in Publisher : e \in op[n]
        BY <3>1, <3>3 DEF PagesInv, StalenessIsExplained
      <4>2. e \in op'[n]
        BY <1>1, <2>2, <4>1 DEF PagesInv, KeysToDelete
      <4> QED  BY <4>2
    <3> QED  BY <3>2, <3>3
  <2> QED  BY <2>1, <2>2
<1>7. StalenessIsExplained'
  BY <1>6 DEF StalenessIsExplained
<1> QED  BY <1>2, <1>5, <1>7 DEF PagesInv

LEMMA CacheCrashKeeps == ASSUME PagesInv, CacheCrash PROVE PagesInv'
<1>1. op' = [m \in Publisher |-> {}] /\ load' = [e \in Entry |-> NoLoad] /\ misses' = 0
      /\ excused' = excused \cup UNION {op[m] : m \in Publisher}
      /\ row' = row /\ stock' = stock /\ cache' = cache
  BY DEF CacheCrash, rowVars
<1>2. LoadsGoOn' /\ MissesAreLoads'
  BY <1>1 DEF LoadsGoOn, MissesAreLoads, Loads, Entry, Page
<1>3. CachedValues' /\ KeysToDelete'
  BY <1>1 DEF PagesInv, CachedValues, KeysToDelete
<1>4. ASSUME NEW e \in Entry, Stale(e)' PROVE e \in excused'
  <2>1. Stale(e)
    BY <1>1, <1>4 DEF Stale, SameView, View
  <2> QED  BY <1>1, <2>1 DEF PagesInv, StalenessIsExplained
<1>5. StalenessIsExplained'
  BY <1>4 DEF StalenessIsExplained
<1> QED  BY <1>2, <1>3, <1>5 DEF PagesInv

LEMMA PagesKeep == PagesInv /\ [PagesNext]_pageVars => PagesInv'
<1> SUFFICES ASSUME PagesInv, [PagesNext]_pageVars PROVE PagesInv'  OBVIOUS
<1>1. CASE PagesNext
  BY <1>1, LoadPageKeeps, LoadQueryKeeps, LoadSummaryKeeps, LoadStoreKeeps, LoadFailsKeeps,
     ExpireKeeps, SellKeeps, ShowNewBioKeeps, WriteRowKeeps, InvalidateKeeps, CacheCrashKeeps
     DEF PagesNext, LoadStep
<1>2. CASE UNCHANGED pageVars
  BY <1>2, CacheRests, LoadsRest DEF pageVars, rowVars, PagesInv
<1> QED  BY <1>1, <1>2

LEMMA PagesHold == PagesInv => PagesAreServedFairly
<1> SUFFICES ASSUME PagesInv PROVE PagesAreServedFairly  OBVIOUS
<1>1. AdmittedLoadsAreServed
  BY LoadSteps DEF PagesInv, AdmittedLoadsAreServed
<1>2. BudgetIsNotLeaked
  BY DEF PagesInv, BudgetIsNotLeaked, MissesAreLoads, Loads, Entry, Page
<1> QED  BY <1>1, <1>2 DEF PagesInv, PagesAreServedFairly, BudgetIsFair

\* PublicPages: a page is older than its row only where a request has yet to
\* delete it, Redis has failed or a late load has stored what it had read; and
\* whoever is let in by the budget is served, for any number of organizers.
THEOREM PagesStayFair == PagesSpec => []PagesAreServedFairly
<1>1. PagesSpec => []PagesInv
  BY PagesStart, PagesKeep, PTL DEF PagesSpec
<1> QED  BY <1>1, PagesHold, PTL
=============================================================================
