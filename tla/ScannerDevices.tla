--------------------------- MODULE ScannerDevices ---------------------------
(***************************************************************************)
(* What the administration does to one scanner device: provisioning it,    *)
(* assigning it to a gate, revoking it.  AdminScannerService has no        *)
(* transactions; every statement stands for itself, and a process may die  *)
(* between two of them.  The backend serves a device only while it has one *)
(* active assignment.                                                      *)
(***************************************************************************)
EXTENDS Integers, Sequences, FiniteSets

CONSTANTS
  Officer,         \* requests of administrators in flight
  Gate,            \* concert, gate and zone of an assignment
  MaxAssignments   \* bound

ASSUME DevicesAssumption == MaxAssignments \in Nat

VARIABLES
  account,         \* the user made for the device
  device,          \* its row
  assignment,      \* the rows of its assignments, the oldest first
  task,            \* the administrators' requests
  settled          \* history: the assignment that a request running alone made last

deviceVars == <<account, device, assignment, task, settled>>

NoTask == [step |-> "idle"]
Nothing == 0

DevicesInit ==
  /\ account = "none" /\ device = "none"
  /\ assignment = <<>>
  /\ task = [a \in Officer |-> NoTask]
  /\ settled = Nothing

Underway == {a \in Officer : task[a] # NoTask}
ActiveIds == {i \in DOMAIN assignment : assignment[i].status = "active"}

\* A request begins.  It runs alone if no other runs before it has ended.
Receive(a, t) ==
  /\ task[a] = NoTask
  /\ task' = [b \in Officer |->
       IF b = a THEN [t EXCEPT !.alone = Underway = {}]
       ELSE IF b \in Underway THEN [task[b] EXCEPT !.alone = FALSE] ELSE task[b]]
  /\ settled' = Nothing

Step(a, step) == task' = [task EXCEPT ![a].step = step]
Ends(a) == task' = [task EXCEPT ![a] = NoTask]

-----------------------------------------------------------------------------
(* provisionDevice: the account, whose address is unique, then the device  *)

Provision(a) ==
  /\ account = "none" /\ account' = "active"
  /\ Receive(a, [step |-> "device", alone |-> FALSE])
  /\ UNCHANGED <<device, assignment>>

CreateDevice(a) ==
  /\ task[a].step = "device"
  /\ device' = "active"
  /\ Ends(a)
  /\ UNCHANGED <<account, assignment, settled>>

-----------------------------------------------------------------------------
(* assignDevice, for a device in whatever state                            *)

AssignBegin(a, g) ==
  /\ device # "none" /\ Len(assignment) + Cardinality(Underway) < MaxAssignments
  /\ Receive(a, [step |-> "deactivate", alone |-> FALSE, gate |-> g, id |-> Nothing])
  /\ UNCHANGED <<account, device, assignment>>

\* Faulty variant: only the latest active assignment is closed.
LatestActive == {i \in ActiveIds : \A j \in ActiveIds : j <= i}
\* updateMany.
Closed == ActiveIds

SetDevices(ids, status) ==
  assignment' = [i \in DOMAIN assignment |->
    IF i \in ids THEN [assignment[i] EXCEPT !.status = status] ELSE assignment[i]]

Deactivate(a) ==
  /\ task[a].step = "deactivate"
  /\ SetDevices(Closed, "inactive")
  /\ Step(a, "create")
  /\ UNCHANGED <<account, device, settled>>

CreateAssignment(a) ==
  /\ task[a].step = "create"
  /\ assignment' = Append(assignment,
       [status |-> "active", gate |-> task[a].gate, manifest |-> FALSE])
  /\ task' = [task EXCEPT ![a].step = "refresh", ![a].id = Len(assignment')]
  /\ UNCHANGED <<account, device, settled>>

\* refreshAssignment makes the manifest of the new assignment, in a transaction.
RefreshNew(a) ==
  /\ task[a].step = "refresh"
  /\ assignment' = [assignment EXCEPT ![task[a].id].manifest = TRUE]
  /\ settled' = IF task[a].alone THEN task[a].id ELSE settled
  /\ Ends(a)
  /\ UNCHANGED <<account, device>>

-----------------------------------------------------------------------------
(* revokeDevice                                                            *)

RevokeBegin(a) ==
  /\ device # "none"
  /\ Receive(a, [step |-> "assignments", alone |-> FALSE])
  /\ UNCHANGED <<account, device, assignment>>

RevokeAssignments(a) ==
  /\ task[a].step = "assignments"
  /\ SetDevices(ActiveIds, "revoked")
  /\ Step(a, "revoke")
  /\ UNCHANGED <<account, device, settled>>

RevokeDevice(a) ==
  /\ task[a].step = "revoke"
  /\ device' = "revoked"
  /\ Step(a, "disable")
  /\ UNCHANGED <<account, assignment, settled>>

DisableAccount(a) ==
  /\ task[a].step = "disable"
  /\ account' = "disabled"
  /\ Ends(a)
  /\ UNCHANGED <<device, assignment, settled>>

OfficerDies(a) ==
  /\ task[a] # NoTask
  /\ Ends(a)
  /\ UNCHANGED <<account, device, assignment, settled>>

DevicesNext ==
  \E a \in Officer :
    \/ Provision(a) \/ CreateDevice(a)
    \/ \E g \in Gate : AssignBegin(a, g)
    \/ Deactivate(a) \/ CreateAssignment(a) \/ RefreshNew(a)
    \/ RevokeBegin(a) \/ RevokeAssignments(a) \/ RevokeDevice(a) \/ DisableAccount(a)
    \/ OfficerDies(a)

DevicesSpec == DevicesInit /\ [][DevicesNext]_deviceVars

-----------------------------------------------------------------------------
(* Properties                                                              *)

\* getAuthorizedActiveAssignment: what the backend answers the device.
Authorized ==
  CASE device = "none" -> "scanner_device_not_found"
    [] device = "revoked" -> "scanner_device_inactive"
    [] device = "active" /\ ActiveIds = {} -> "scanner_assignment_not_found"
    [] device = "active" /\ Cardinality(ActiveIds) > 1 -> "scanner_assignment_inconsistent"
    [] OTHER -> "ok"

\* Requests that overlap or die may leave a device with several assignments or
\* none, and unusable.  The next assignment that runs alone makes up for it: from
\* its end on, the device works at that gate and at no other, unless it has been
\* revoked.
LastAssignmentHolds ==
  settled # Nothing =>
    /\ ActiveIds = {settled} /\ assignment[settled].manifest
    /\ device = "active" => Authorized = "ok"
=============================================================================
