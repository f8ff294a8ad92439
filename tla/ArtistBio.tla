----------------------------- MODULE ArtistBio -----------------------------
(***************************************************************************)
(* The biography of a concert's artist: PDF files the organizer uploads, a *)
(* job for each of them that a worker has a model write a draft for, and   *)
(* the draft's review and publication.                                     *)
(*                                                                         *)
(* A job is created once per file.  The workers poll the table; a claim is *)
(* a read and a conditional update.  What a worker does with a job then is *)
(* not conditional any more, and neither is the organizer's retry.  The    *)
(* time a job waits for its next attempt is left out: a queued job may be  *)
(* claimed at any time.                                                    *)
(***************************************************************************)
EXTENDS BioText

CONSTANTS
  Pdf,           \* the files, one per checksum
  Organizer,     \* requests of organizers in flight
  BioWorker,     \* the workers of the backend processes
  MaxAttempts,   \* ARTIST_BIO_MAX_ATTEMPTS
  MaxRetries,    \* bound: no retry is asked for after so many of a job
  MaxBioFaults   \* bound: deaths of a worker and failed writes of its result

ASSUME BioAssumption ==
  /\ MaxAttempts \in Nat \ {0} /\ MaxRetries \in Nat /\ MaxBioFaults \in Nat

VARIABLES
  bioJob,        \* ArtistBioJob of each file: status, attemptCount
  pdfs,          \* the files in storage
  draft,         \* of each job: "none", "unread", or "read" by an organizer
  published,     \* what became of the draft the concert shows
  ask,           \* the organizers' requests
  bioWork,       \* the workers
  calls,         \* history: calls of the model for each job
  retries,       \* history: retries of each job
  overtaken,     \* history: jobs that a retry reset when they were running
  doubled,       \* history: files with two uploads at once
  bioFaults

jobVars == <<bioJob, pdfs, draft, published>>
bioHistory == <<calls, retries, overtaken, doubled, bioFaults>>
bioVars == <<jobVars, ask, bioWork, bioHistory>>

NotFiled == [status |-> "none", attempts |-> 0]
NoAsk == [step |-> "idle"]
NoWork == [step |-> "idle"]

BioInit ==
  /\ bioJob = [f \in Pdf |-> NotFiled]
  /\ pdfs = {} /\ published = "none"
  /\ draft = [f \in Pdf |-> "none"]
  /\ ask = [r \in Organizer |-> NoAsk]
  /\ bioWork = [w \in BioWorker |-> NoWork]
  /\ calls = [f \in Pdf |-> 0] /\ retries = [f \in Pdf |-> 0]
  /\ overtaken = {} /\ doubled = {} /\ bioFaults = 0

-----------------------------------------------------------------------------
(* Requests                                                                *)

AskFor(r, f, step) ==
  /\ ask[r] = NoAsk
  /\ ask' = [ask EXCEPT ![r] = [step |-> step, file |-> f, read |-> "none"]]

GoTo(r, step) == ask' = [ask EXCEPT ![r].step = step]
EndAsk(r) == ask' = [ask EXCEPT ![r] = NoAsk]

Uploading(r, f) == ask[r].step \in {"save", "create", "undo"} /\ ask[r].file = f

\* createJob; a file that has a job is answered with it.
UploadPdf(r, f) ==
  /\ bioJob[f] = NotFiled
  /\ AskFor(r, f, "save")
  /\ doubled' = IF \E q \in Organizer : Uploading(q, f) THEN doubled \cup {f} ELSE doubled
  /\ UNCHANGED <<jobVars, bioWork, calls, retries, overtaken, bioFaults>>

SavePdf(r) ==
  /\ ask[r].step = "save"
  /\ \/ pdfs' = pdfs \cup {ask[r].file} /\ GoTo(r, "create")
     \/ EndAsk(r) /\ UNCHANGED pdfs
  /\ UNCHANGED <<bioJob, draft, published, bioWork, bioHistory>>

\* The unique key lets one request create the job; any error leads to the
\* deletion of the file.
CreateJob(r) ==
  LET f == ask[r].file
  IN /\ ask[r].step = "create"
     /\ \/ /\ bioJob[f] = NotFiled
           /\ bioJob' = [bioJob EXCEPT ![f].status = "queued"]
           /\ EndAsk(r)
        \/ UNCHANGED bioJob /\ GoTo(r, "undo")
     /\ UNCHANGED <<pdfs, draft, published, bioWork, bioHistory>>

\* The key is that of the checksum: a file that another request has saved too
\* is deleted with it.
UndoUpload(r) ==
  /\ ask[r].step = "undo"
  /\ pdfs' = pdfs \ {ask[r].file}
  /\ EndAsk(r)
  /\ UNCHANGED <<bioJob, draft, published, bioWork, bioHistory>>

\* retryJob: the status is read, and the job is then reset whatever it has become.
Retriable(f) == bioJob[f].status \in {"failed", "draft_ready"}

RetryBegin(r, f) ==
  /\ Retriable(f) /\ retries[f] < MaxRetries
  /\ AskFor(r, f, "retry")
  /\ UNCHANGED <<jobVars, bioWork, bioHistory>>

RetryJob(r) ==
  LET f == ask[r].file
  IN /\ ask[r].step = "retry"
     /\ bioJob' = [bioJob EXCEPT ![f] = [status |-> "queued", attempts |-> 0]]
     /\ retries' = [retries EXCEPT ![f] = @ + 1]
     /\ overtaken' = IF Retriable(f) THEN overtaken ELSE overtaken \cup {f}
     /\ EndAsk(r)
     /\ UNCHANGED <<pdfs, draft, published, bioWork, calls, doubled, bioFaults>>

\* getReviewState shows the draft; updateDraft writes one the organizer has seen.
ReviewDraft(f) ==
  /\ draft[f] = "unread"
  /\ draft' = [draft EXCEPT ![f] = "read"]
  /\ UNCHANGED <<bioJob, pdfs, published, ask, bioWork, bioHistory>>

\* An organizer who has reviewed a draft publishes it.  publishDraft reads the
\* draft again, and writes what it has read.
PublishBegins(r, f) ==
  /\ draft[f] = "read"
  /\ AskFor(r, f, "read")
  /\ UNCHANGED <<jobVars, bioWork, bioHistory>>

PublishReads(r) ==
  /\ ask[r].step = "read"
  /\ ask' = [ask EXCEPT ![r].step = "publish", ![r].read = draft[ask[r].file]]
  /\ UNCHANGED <<jobVars, bioWork, bioHistory>>

PublishDraft(r) ==
  /\ ask[r].step = "publish"
  /\ published' = ask[r].read
  /\ EndAsk(r)
  /\ UNCHANGED <<bioJob, pdfs, draft, bioWork, bioHistory>>

AskStep(r) ==
  \/ \E f \in Pdf : UploadPdf(r, f) \/ RetryBegin(r, f) \/ PublishBegins(r, f)
  \/ SavePdf(r) \/ CreateJob(r) \/ UndoUpload(r) \/ RetryJob(r)
  \/ PublishReads(r) \/ PublishDraft(r)

-----------------------------------------------------------------------------
(* The worker                                                              *)

Work(w, step) == bioWork' = [bioWork EXCEPT ![w].step = step]

\* Faulty variant: the running flag is not reset in a finally block.
StayBusy(w) == Work(w, "over")

StopWork(w) == bioWork' = [bioWork EXCEPT ![w] = NoWork]

\* A tick of a worker that is not running finds a candidate.
FindJob(w, f) ==
  /\ bioWork[w] = NoWork /\ bioJob[f].status = "queued"
  /\ bioWork' = [bioWork EXCEPT ![w] = [step |-> "claim", file |-> f, attempts |-> 0]]
  /\ UNCHANGED <<jobVars, ask, bioHistory>>

\* Faulty variant: the update of the claim is for the job's id alone.
ClaimById(f) == TRUE
\* The lease that the update compares as well is null in every queued job.
Claimable(f) == bioJob[f].status = "queued"

NextAttempt(n) == n + 1

\* updateMany, and the read of the job that follows it.
ClaimJob(w) ==
  LET f == bioWork[w].file
      n == NextAttempt(bioJob[f].attempts)
  IN /\ bioWork[w].step = "claim"
     /\ IF Claimable(f)
        THEN /\ bioJob' = [bioJob EXCEPT ![f] = [status |-> "processing", attempts |-> n]]
             /\ bioWork' = [bioWork EXCEPT ![w].step = "run", ![w].attempts = n]
        ELSE StopWork(w) /\ UNCHANGED bioJob
     /\ UNCHANGED <<pdfs, draft, published, ask, bioHistory>>

\* The file is read, its text extracted, and the model called, unless one of
\* them fails before.  What becomes of its answer is BioText's subject: here it
\* is a draft or a failed attempt.
RunJob(w) ==
  LET f == bioWork[w].file
  IN /\ bioWork[w].step = "run"
     /\ \/ /\ f \in pdfs
           /\ calls' = [calls EXCEPT ![f] = @ + 1]
           /\ \E step \in {"ready", "reschedule"} : Work(w, step)
        \/ Work(w, "reschedule") /\ UNCHANGED calls
     /\ UNCHANGED <<jobVars, ask, retries, overtaken, doubled, bioFaults>>

MarkDraftReady(w) ==
  LET f == bioWork[w].file
  IN /\ bioWork[w].step = "ready"
     /\ bioJob' = [bioJob EXCEPT ![f].status = "draft_ready"]
     /\ draft' = [draft EXCEPT ![f] = "unread"]
     /\ StopWork(w)
     /\ UNCHANGED <<pdfs, published, ask, bioHistory>>

\* The count is the one that was read with the claim.
Exhausted(attempts) == attempts >= MaxAttempts

RescheduleFailedAttempt(w) ==
  /\ bioWork[w].step = "reschedule"
  /\ bioJob' = [bioJob EXCEPT ![bioWork[w].file].status =
       IF Exhausted(bioWork[w].attempts) THEN "failed" ELSE "queued"]
  /\ StopWork(w)
  /\ UNCHANGED <<pdfs, draft, published, ask, bioHistory>>

\* The draft cannot be written, which is handled like a failed attempt; or that
\* cannot be written either, or the process dies.
WriteFails(w) ==
  /\ bioFaults < MaxBioFaults
  /\ bioFaults' = bioFaults + 1
  /\ \/ bioWork[w].step = "ready" /\ Work(w, "reschedule")
     \/ bioWork[w] # NoWork /\ bioWork' = [bioWork EXCEPT ![w] = NoWork]
  /\ UNCHANGED <<jobVars, ask, calls, retries, overtaken, doubled>>

BioStep(w) ==
  \/ \E f \in Pdf : FindJob(w, f)
  \/ ClaimJob(w) \/ RunJob(w) \/ MarkDraftReady(w) \/ RescheduleFailedAttempt(w)

BioNext ==
  \/ \E r \in Organizer : AskStep(r)
  \/ \E f \in Pdf : ReviewDraft(f)
  \/ \E w \in BioWorker : BioStep(w) \/ WriteFails(w)

\* The workers' intervals fire again and again, and every call they make returns,
\* the model's after ten seconds at the latest: as long as one of them can go on,
\* one of them does.
BioFairness == WF_bioVars(\E w \in BioWorker : BioStep(w))

BioSpec == BioInit /\ [][BioNext]_bioVars /\ BioFairness

-----------------------------------------------------------------------------
(* Properties                                                              *)

Running(w, f) == bioWork[w].step \in {"run", "ready", "reschedule"} /\ bioWork[w].file = f

\* blueprint/05-business-flows.md:193: the workers of several processes do not
\* work for the same job, and none works for a job that has its draft, unless
\* a second retry has reset a job that was running.
OneWorkerPerJob ==
  \A f \in Pdf \ overtaken :
    LET S == {w \in BioWorker : Running(w, f)}
    IN Cardinality(S) <= 1 /\ (S # {} => bioJob[f].status = "processing")

\* blueprint/specs/ai-artist-bio.md:34 and 58: the model is called at most
\* MaxAttempts times for a job, and again as often for each of its retries.
CallsAreBounded ==
  \A f \in Pdf \ overtaken : calls[f] <= MaxAttempts * (1 + retries[f])

\* blueprint/specs/ai-artist-bio.md:44 and 56: what the concert shows has been
\* reviewed, unless the job was retried behind the organizer who published it.
PublishedWasReviewed == published = "unread" => \E f \in Pdf : retries[f] > 0

\* blueprint/specs/ai-artist-bio.md:17: a job has its file, unless two uploads of
\* the same file were in flight at once: the loser deletes the file of both.
JobsHaveTheirFile == \A f \in Pdf : bioJob[f] # NotFiled => f \in pdfs \cup doubled

\* What the queue of biography jobs promises in every state: one worker for a job,
\* a bounded bill of the model, reviewed texts on the page, no job without its
\* file, and drafts that say what the model said.
JobsAreSound ==
  /\ OneWorkerPerJob /\ CallsAreBounded /\ PublishedWasReviewed /\ JobsHaveTheirFile
  /\ DraftsAreReadRight

\* blueprint/specs/ai-artist-bio.md:59: a job in the queue gets its draft or
\* fails for good, unless its worker dies, and then it stays "processing":
\* nothing claims a job whose lease has expired.
Abandoned(f) == bioJob[f].status = "processing" /\ \A w \in BioWorker : ~Running(w, f)
JobsEnd ==
  \A f \in Pdf : bioJob[f].status = "queued" ~> (Retriable(f) \/ Abandoned(f))
=============================================================================
