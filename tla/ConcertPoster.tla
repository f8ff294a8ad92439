--------------------------- MODULE ConcertPoster ---------------------------
(***************************************************************************)
(* The poster of one concert: a file in local storage, and the key in the  *)
(* concert's row that names it.                                            *)
(*                                                                         *)
(* AdminService reads the row once per request and works with what it has  *)
(* read.  A new poster is saved under a key of its own before the row is   *)
(* made to name it, on the condition that the row still names the one that *)
(* was read; then the old file is deleted, without waiting for it.  There  *)
(* is one backend process, as the storage supports a single writer.  The   *)
(* cached pages that the requests invalidate are those of PublicPages, and *)
(* cancelConcert is that of ConcertCancellation.                           *)
(***************************************************************************)
EXTENDS Naturals

CONSTANTS
  Editor,        \* requests of the organization's staff in flight
  MaxPosters,    \* bound: posters that are saved
  LostReplies    \* a write of the database may be done though it reports an error

ASSUME PosterAssumption == MaxPosters \in Nat /\ LostReplies \in BOOLEAN

VARIABLES
  concertRow,    \* status and posterObjectKey
  posters,       \* the keys of the files in storage
  saved,         \* how many have been saved, which makes their keys unique
  edit,          \* the requests
  left           \* history: files that a failure or a race left behind

posterVars == <<concertRow, posters, saved, edit, left>>

NoKey == [version |-> 0, token |-> 0]
NoConcert == [status |-> "gone", poster |-> NoKey]
NoEdit == [step |-> "idle"]

PosterInit ==
  /\ concertRow = [status |-> "draft", poster |-> NoKey]
  /\ posters = {} /\ saved = 0 /\ left = {}
  /\ edit = [m \in Editor |-> NoEdit]

\* findOwnedConcert: the row is read here and never again.
BeginEdit(m, step) ==
  /\ edit[m] = NoEdit /\ concertRow.status # "gone"
  /\ edit' = [edit EXCEPT ![m] = [step |-> step, was |-> concertRow, key |-> NoKey]]
  /\ UNCHANGED <<concertRow, posters, saved, left>>

EndEdit(m) == edit' = [edit EXCEPT ![m] = NoEdit]

\* updateConcert with a new status; without one it leaves status and poster alone.
WithdrawBegin(m) == BeginEdit(m, "withdraw")
PublishBegin(m) == BeginEdit(m, "check")

\* Publishing needs the poster of the row that was read to be in storage.
AssertPosterAvailable(m) ==
  /\ edit[m].step = "check"
  /\ IF edit[m].was.poster # NoKey /\ edit[m].was.poster \in posters
     THEN edit' = [edit EXCEPT ![m].step = "publish"]
     ELSE EndEdit(m)
  /\ UNCHANGED <<concertRow, posters, saved, left>>

UpdateConcert(m) ==
  /\ edit[m].step \in {"withdraw", "publish"}
  /\ concertRow' = IF concertRow.status = "gone" THEN concertRow
                   ELSE [concertRow EXCEPT !.status =
                           IF edit[m].step = "publish" THEN "published" ELSE "draft"]
  /\ EndEdit(m)
  /\ UNCHANGED <<posters, saved, left>>

CancelRow ==
  /\ concertRow.status \in {"draft", "published"}
  /\ concertRow' = [concertRow EXCEPT !.status = "canceled"]
  /\ UNCHANGED <<posters, saved, edit, left>>

\* deleteConcert, which the database may refuse because of sales.  The file it
\* deletes is that of the row it has read.
DeleteBegin(m) == BeginEdit(m, "delete")
DeleteConcert(m) ==
  /\ edit[m].step = "delete"
  /\ \/ EndEdit(m) /\ UNCHANGED <<concertRow, left>>
     \/ /\ concertRow.status # "gone"
        /\ concertRow' = NoConcert
        /\ left' = left \cup ({concertRow.poster} \ {edit[m].was.poster, NoKey})
        /\ IF edit[m].was.poster = NoKey THEN EndEdit(m)
           ELSE edit' = [edit EXCEPT ![m].step = "cleanup", ![m].key = edit[m].was.poster]
  /\ UNCHANGED <<posters, saved>>

-----------------------------------------------------------------------------
(* uploadPoster                                                            *)

UploadBegin(m) == saved < MaxPosters /\ BeginEdit(m, "save")

\* Faulty variant: an object key of the concert and the version alone.
KeyOfVersion(version, token) == [version |-> version, token |-> 0]

ObjectKey(version, token) == [version |-> version, token |-> token]

SavePoster(m) ==
  /\ edit[m].step = "save" /\ saved < MaxPosters
  /\ LET key == ObjectKey(edit[m].was.poster.version + 1, saved + 1)
     IN /\ posters' = posters \cup {key}
        /\ edit' = [edit EXCEPT ![m].step = "swap", ![m].key = key]
  /\ saved' = saved + 1
  /\ UNCHANGED <<concertRow, left>>

\* The file is refused or cannot be written.
SaveFails(m) ==
  /\ edit[m].step = "save"
  /\ EndEdit(m)
  /\ UNCHANGED <<concertRow, posters, saved, left>>

Undo(m) == edit' = [edit EXCEPT ![m].step = "cleanup"]

\* updateMany where the row still names the poster that was read: the new key
\* is in place, another request was first, or the database reports an error.
SwapPoster(m) ==
  LET old == edit[m].was.poster
      fits == concertRow.status # "gone" /\ concertRow.poster = old
      swapped == concertRow' = [concertRow EXCEPT !.poster = edit[m].key]
  IN /\ edit[m].step = "swap"
     /\ \/ /\ fits /\ swapped
           /\ IF old = NoKey THEN EndEdit(m)
              ELSE edit' = [edit EXCEPT ![m].step = "cleanup", ![m].key = old]
        \/ ~fits /\ UNCHANGED concertRow /\ Undo(m)
        \/ UNCHANGED concertRow /\ Undo(m)
        \/ LostReplies /\ fits /\ swapped /\ Undo(m)
     /\ UNCHANGED <<posters, saved, left>>

\* A file is deleted, or cannot be: the request's own after a lost race or an
\* error, the one it has replaced, or that of a deleted concert.
CleanUp(m) ==
  /\ edit[m].step = "cleanup"
  /\ \/ posters' = posters \ {edit[m].key} /\ UNCHANGED left
     \/ left' = left \cup {edit[m].key} /\ UNCHANGED posters
  /\ EndEdit(m)
  /\ UNCHANGED <<concertRow, saved>>

\* The process dies with its requests.
PosterCrash ==
  /\ \E m \in Editor : edit[m] # NoEdit
  /\ edit' = [m \in Editor |-> NoEdit]
  /\ left' = left \cup {edit[m].key : m \in {n \in Editor : edit[n] # NoEdit}}
  /\ UNCHANGED <<concertRow, posters, saved>>

EditStep(m) ==
  \/ WithdrawBegin(m) \/ PublishBegin(m) \/ AssertPosterAvailable(m) \/ UpdateConcert(m)
  \/ DeleteBegin(m) \/ DeleteConcert(m)
  \/ UploadBegin(m) \/ SavePoster(m) \/ SaveFails(m) \/ SwapPoster(m) \/ CleanUp(m)

PosterNext == (\E m \in Editor : EditStep(m)) \/ CancelRow \/ PosterCrash

PosterSpec == PosterInit /\ [][PosterNext]_posterVars

-----------------------------------------------------------------------------
(* Properties                                                              *)

\* src/backend-api/README.md:30: the poster of a published concert is there,
\* with uploads, updates and failures side by side: whoever loses a race or
\* meets an error deletes a file that no row names.
PublishedHasPoster == concertRow.status = "published" => concertRow.poster \in posters

\* No file is left over but by a failed deletion, a crash, or an upload that a
\* deletion of the concert did not know of: a file is named by the row, or a
\* request is about to make the row name it or to delete it.
FilesAreAccountedFor ==
  posters \subseteq {concertRow.poster} \cup left
                      \cup {edit[m].key : m \in {n \in Editor : edit[n] # NoEdit}}

\* Rows and files of posters fit together.
PostersFitTheirRows == PublishedHasPoster /\ FilesAreAccountedFor
=============================================================================
