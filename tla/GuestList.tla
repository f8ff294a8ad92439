----------------------------- MODULE GuestList -----------------------------
(***************************************************************************)
(* The guest list of one concert: CSV files the organizer imports, the     *)
(* versions they are published as, and the deletion of the active one.     *)
(*                                                                         *)
(* An import saves the file, reads the guests of the active version, and   *)
(* publishes in a transaction at READ COMMITTED: a statement sees what has *)
(* been committed before it begins, an update waits for rows that another  *)
(* transaction has updated, and unique keys wait for and then refuse what  *)
(* another has inserted.  A version is known by the file it was made of,   *)
(* as its batch is unique to the file.  How a file is read is GuestCsv:    *)
(* here it is one the parser refuses, one with an invalid row, or neither. *)
(***************************************************************************)
EXTENDS Naturals, FiniteSets, Sequences, SequencesExt, FiniteSetsExt, GuestCsv

CONSTANTS
  Csv,           \* the files, one per checksum
  Unparsable,    \* files the parser refuses
  Invalid,       \* files with a row that is wrong by itself
  Guest,
  GuestsOf,      \* the identity keys in each file
  Import,        \* requests in flight
  Clear,         \* requests to delete the active list
  MaxClears      \* bound: lists that are deleted

ASSUME GuestListAssumption ==
  /\ Unparsable \subseteq Csv /\ Invalid \subseteq Csv
  /\ GuestsOf \in [Csv -> SUBSET Guest] /\ MaxClears \in Nat
  /\ Csv \cap {"cleared", "idle"} = {}

VARIABLES
  batch,         \* status of the batch of each file, "none" when there is none
  version,       \* GuestListVersion of each file; number 0 when there is none
  csvs,          \* the files in storage
  outbox,        \* GuestListUpdated: the file of the version, or "cleared"
  import,        \* the requests
  clear,         \* the version each request to delete has read
  invited,       \* how often the guests of each file have been sent invitations
  crossed,       \* history: a deletion has met an open import or a stale version
  doubledCsv     \* history: files with two imports at once

tableVars == <<batch, version, outbox>>
history == <<crossed, doubledCsv>>
guestVars == <<tableVars, csvs, import, clear, invited, history>>

NoVersion == [no |-> 0, active |-> FALSE]
NoImport == [step |-> "idle"]
NoClear == "idle"

GuestInit ==
  /\ batch = [f \in Csv |-> "none"]
  /\ version = [f \in Csv |-> NoVersion]
  /\ csvs = {} /\ outbox = <<>> /\ doubledCsv = {}
  /\ import = [i \in Import |-> NoImport]
  /\ clear = [d \in Clear |-> NoClear]
  /\ invited = [f \in Csv |-> 0]
  /\ crossed = FALSE

InForce == {f \in Csv : version[f].active}
Versions == {f \in Csv : version[f].no > 0}

GoOnImport(i, step) == import' = [import EXCEPT ![i].step = step]
EndImport(i) == import' = [import EXCEPT ![i] = NoImport]

-----------------------------------------------------------------------------
(* importCsv                                                               *)

Importing(i, f) == import[i].step \notin {"idle", "invite"} /\ import[i].file = f
Begun(i, f) ==
  /\ import[i] = NoImport
  /\ import' = [import EXCEPT ![i] =
       [step |-> "save", file |-> f, known |-> {}, no |-> 0, old |-> {}, held |-> {}]]
  /\ doubledCsv' = IF \E j \in Import : Importing(j, f) THEN doubledCsv \cup {f} ELSE doubledCsv
  /\ UNCHANGED <<tableVars, csvs, clear, invited, crossed>>

\* A file that has a batch is answered with it.
ImportBegin(i, f) == batch[f] = "none" /\ Begun(i, f)

SaveCsv(i) ==
  /\ import[i].step = "save"
  /\ \/ /\ csvs' = csvs \cup {import[i].file}
        /\ GoOnImport(i, IF import[i].file \in Unparsable THEN "refuse" ELSE "guests")
     \/ EndImport(i) /\ UNCHANGED csvs
  /\ UNCHANGED <<tableVars, clear, invited, history>>

\* The unique key of the batches.
NewBatch(f) == batch[f] = "none"

\* The file does not parse: it keeps a batch that says so.
RefuseCsv(i) ==
  LET f == import[i].file
  IN /\ import[i].step = "refuse"
     /\ \/ NewBatch(f) /\ batch' = [batch EXCEPT ![f] = "failed"] /\ EndImport(i)
        \/ GoOnImport(i, "undo") /\ UNCHANGED batch
     /\ UNCHANGED <<version, outbox, csvs, clear, invited, history>>

\* getActiveIdentityKeys, outside of the transaction: the guests of the first
\* active version it finds.
ReadGuests(i) ==
  /\ import[i].step = "guests"
  /\ \E S \in IF InForce = {} THEN {{}} ELSE {GuestsOf[f] : f \in InForce} :
       import' = [import EXCEPT ![i].step = "open", ![i].known = S]
  /\ UNCHANGED <<tableVars, csvs, clear, invited, history>>

\* validateRows: a guest of the active list makes a row invalid, too.
HasInvalidRows(i) ==
  import[i].file \in Invalid \/ GuestsOf[import[i].file] \cap import[i].known # {}

\* The transaction has inserted a batch and not ended.
Open(i) == import[i].step \in {"deactivate", "publish"}

NextVersionNo(i) == 1 + Max({0} \cup {version[f].no : f \in Versions})

\* The batch is inserted, which waits for another import of the file; with
\* invalid rows that is all, and without them the next number is read.
OpenImport(i) ==
  LET f == import[i].file
  IN /\ import[i].step = "open"
     /\ \A j \in Import : Open(j) => import[j].file # f
     /\ \/ /\ NewBatch(f)
           /\ IF HasInvalidRows(i)
              THEN batch' = [batch EXCEPT ![f] = "validation_failed"] /\ EndImport(i)
              ELSE /\ import' = [import EXCEPT ![i].step = "deactivate",
                                               ![i].no = NextVersionNo(i)]
                   /\ UNCHANGED batch
        \/ GoOnImport(i, "undo") /\ UNCHANGED batch
     /\ UNCHANGED <<version, outbox, csvs, clear, invited, history>>

\* updateMany of the active versions: it takes the rows nobody else holds, and
\* waits in the next step for the others.
HeldByOthers(i) == UNION {import[j].held : j \in {k \in Import \ {i} : import[k].step = "publish"}}

DeactivateOld(i) ==
  /\ import[i].step = "deactivate"
  /\ import' = [import EXCEPT ![i].step = "publish", ![i].old = InForce,
                              ![i].held = InForce \ HeldByOthers(i)]
  /\ UNCHANGED <<tableVars, csvs, clear, invited, history>>

\* The version and its entries, the batch's status, the event, and the commit.
\* A row that it has waited for stays inactive if it has become so.
PublishVersion(i) ==
  LET f == import[i].file
  IN /\ import[i].step = "publish"
     /\ import[i].old \cap HeldByOthers(i) = {}
     /\ \A g \in Versions : version[g].no # import[i].no
     /\ version' = [g \in Csv |->
          IF g = f THEN [no |-> import[i].no, active |-> TRUE]
          ELSE [version[g] EXCEPT !.active = @ /\ g \notin import[i].old]]
     /\ batch' = [batch EXCEPT ![f] = "published"]
     /\ outbox' = Append(outbox, f)
     /\ GoOnImport(i, "invite")
     /\ UNCHANGED <<csvs, clear, invited, history>>

\* The number is taken, or a statement fails: nothing of the transaction stays.
AbortImport(i) ==
  /\ import[i].step \in {"deactivate", "publish"}
  /\ import' = [import EXCEPT ![i].step = "undo", ![i].held = {}]
  /\ UNCHANGED <<tableVars, csvs, clear, invited, history>>

\* The file is deleted, though another import may have saved it as well, under
\* the same key.
UndoImport(i) ==
  /\ import[i].step = "undo"
  /\ csvs' = csvs \ {import[i].file}
  /\ EndImport(i)
  /\ UNCHANGED <<tableVars, clear, invited, history>>

\* sendPublishedGuestInvitations, if the version is still there; an error of it
\* is only logged.
Invite(i) ==
  LET f == import[i].file
  IN /\ import[i].step = "invite"
     /\ \/ version[f] # NoVersion /\ invited' = [invited EXCEPT ![f] = @ + 1]
        \/ UNCHANGED invited
     /\ EndImport(i)
     /\ UNCHANGED <<tableVars, csvs, clear, history>>

\* The process dies, and the database rolls its transaction back.
ImportDies(i) ==
  /\ import[i] # NoImport
  /\ EndImport(i)
  /\ UNCHANGED <<tableVars, csvs, clear, invited, history>>

ImportStep(i) ==
  \/ \E f \in Csv : ImportBegin(i, f)
  \/ SaveCsv(i) \/ RefuseCsv(i) \/ ReadGuests(i)
  \/ OpenImport(i) \/ DeactivateOld(i) \/ PublishVersion(i) \/ AbortImport(i)
  \/ UndoImport(i) \/ Invite(i) \/ ImportDies(i)

-----------------------------------------------------------------------------
(* deleteActiveGuestList                                                   *)

Clears == {n \in 1 .. Len(outbox) : outbox[n] = "cleared"}

ReadActive(d) ==
  /\ clear[d] = NoClear /\ Cardinality(Clears) < MaxClears
  /\ \E f \in InForce : clear' = [clear EXCEPT ![d] = f]
  /\ UNCHANGED <<tableVars, csvs, import, invited, history>>

\* Faulty variant: the deletion is not told.
DeleteSilently(d) ==
  LET f == clear[d]
  IN /\ f # NoClear
     /\ f \notin UNION {import[j].held : j \in {k \in Import : Open(k)}}
     /\ version' = [version EXCEPT ![f] = NoVersion]
     /\ clear' = [clear EXCEPT ![d] = NoClear]
     /\ UNCHANGED <<batch, outbox, csvs, import, invited, history>>

\* The version that was read is deleted with its entries, active or not.
DeleteVersion(d) ==
  LET f == clear[d]
  IN /\ f # NoClear /\ Cardinality(Clears) < MaxClears
     /\ f \notin UNION {import[j].held : j \in {k \in Import : Open(k)}}
     /\ IF version[f] = NoVersion THEN UNCHANGED <<version, outbox, crossed>>
        ELSE /\ version' = [version EXCEPT ![f] = NoVersion]
             /\ outbox' = Append(outbox, "cleared")
             /\ crossed' = (crossed \/ ~version[f].active \/ \E i \in Import : Open(i))
     /\ clear' = [clear EXCEPT ![d] = NoClear]
     /\ UNCHANGED <<batch, csvs, import, invited, doubledCsv>>

GuestNext ==
  \/ \E i \in Import : ImportStep(i)
  \/ \E d \in Clear : ReadActive(d) \/ DeleteVersion(d)

GuestSpec == GuestInit /\ [][GuestNext]_guestVars

-----------------------------------------------------------------------------
(* Properties                                                              *)

\* blueprint/04-database-design.md:251: one version at most is active.  Two
\* imports at once and a deletion between them break it (not checked in the
\* run of the imports, see the README).
OneActiveVersion == Cardinality(InForce) <= 1

\* blueprint/specs/guest-list-import.md:47: who follows the events knows the one
\* active version: the last event tells it.  The unique version number makes the
\* loser of two imports at once fail; only a deletion that has crossed an import
\* breaks it.
ToldBy(events) == IF events = <<>> \/ Last(events) = "cleared" THEN {} ELSE {Last(events)}
EventsTellTheActive == ~crossed => InForce = ToldBy(outbox)

\* blueprint/specs/guest-list-import.md:58: whatever is repeated, a file is
\* published once and its guests are invited once.
FilesAreImportedOnce ==
  \A f \in Csv : invited[f] <= 1 /\ Cardinality({n \in 1 .. Len(outbox) : outbox[n] = f}) <= 1

\* blueprint/05-business-flows.md:125: the file of a batch is kept, unless two
\* imports of the same file were in flight at once: the loser deletes it.
BatchesHaveTheirFile == \A f \in Csv : batch[f] # "none" => f \in csvs \cup doubledCsv

\* Repeated and overlapping imports leave no batch without its file, and none
\* that is published twice.
BatchesAreSound == FilesAreImportedOnce /\ BatchesHaveTheirFile

\* Files are read right, and batches, files, versions and events of the guest
\* lists fit together.
GuestListsAreSound == EventsTellTheActive /\ BatchesAreSound /\ FilesAreReadRight
=============================================================================
