---------------------------- MODULE AdminConsole ----------------------------
(* The admin site in the browsers of organizers.  The concert form makes or *)
(* changes a concert in up to three requests (create, poster, update); what *)
(* it sends back it read when it was opened, while other organizers cancel, *)
(* delete or publish a biography.  The panels of biography and guest list   *)
(* run an operation, read the state again and then tell the result; several *)
(* of their buttons may be at work at a time, and any answer may be late or *)
(* lost.                                                                    *)
EXTENDS Naturals, Sequences

CONSTANTS
  Manager,       \* organizers with a concert form
  Button,        \* the buttons of a panel, each busy with one operation at most
  MaxConcerts,   \* bound on the concerts made
  MaxBios,       \* bound on the biographies published
  MaxVersion     \* bound on the changes of what a panel shows

ASSUME ConsoleAssumption ==
  {MaxConcerts, MaxBios, MaxVersion} \subseteq Nat \ {0}

VARIABLES
  concerts,      \* the saved concerts: status, poster, version of the biography
  form,          \* each organizer's form
  server,        \* the version of the state behind a panel
  shown,         \* the version that the panel shows
  busy           \* what each button of the panel is doing

formVars == <<concerts, form>>
panelVars == <<server, shown, busy>>
consoleVars == <<concerts, form, server, shown, busy>>

Draft == [status |-> "draft", poster |-> FALSE, bio |-> 0]
Id == DOMAIN concerts
Kept(c) == concerts[c].status # "deleted"

\* at: the concert, 0 when it has yet to be made; seen: what the page was
\* rendered with; offered: the concert that an error message leads to.
Closed == [step |-> "closed", new |-> FALSE, at |-> 0, seen |-> Draft,
           status |-> "draft", file |-> FALSE, offered |-> 0]

\* did: the version its operation left; behind: another button has told its
\* result since this one has read; hidden: such an answer was shown since this
\* one has told its own.
AtRest == [step |-> "idle", did |-> 0, read |-> 0, behind |-> FALSE, hidden |-> FALSE]

ConsoleInit ==
  /\ concerts = <<Draft>>
  /\ form = [o \in Manager |-> Closed]
  /\ server = 0 /\ shown = 0
  /\ busy = [b \in Button |-> AtRest]

Filled(o, r) == form' = [form EXCEPT ![o] = r]

-----------------------------------------------------------------------------
(* The concert form.                                                       *)

OpenNew(o) ==
  /\ form[o].step \in {"closed", "saved", "failed"}
  /\ Filled(o, [Closed EXCEPT !.step = "open", !.new = TRUE])
  /\ UNCHANGED concerts

OpenEdit(o, c) ==
  /\ form[o].step \in {"closed", "saved", "failed"}
  /\ Kept(c)
  /\ Filled(o, [Closed EXCEPT !.step = "open", !.at = c, !.seen = concerts[c]])
  /\ UNCHANGED concerts

\* Nothing is published without a poster.  The form of a canceled concert has
\* no choice of status: it stands at published.
SubmitForm(o, status, file) ==
  LET f == form[o]
      first == IF f.new THEN "create" ELSE IF file THEN "upload" ELSE "update"
  IN /\ f.step \in {"open", "failed"}
     /\ f.seen.status = "canceled" => status = "published"
     /\ status = "published" => file \/ f.seen.poster
     /\ Filled(o, [f EXCEPT !.step = first, !.status = status, !.file = file,
                            !.at = IF f.new THEN 0 ELSE f.at,
                            !.offered = 0])
     /\ UNCHANGED concerts

\* The request after the one that was answered.
After(f, step) ==
  IF step = "create" /\ f.file THEN "upload"
  ELSE IF step # "update" /\ (~f.new \/ f.status # "draft") THEN "update"
  ELSE "saved"

\* An error leads to the concert that the form has made, if it knows of one.
Error(f) ==
  [f EXCEPT !.step = "failed", !.offered = IF f.new THEN f.at ELSE 0]

\* The answer to a request that was carried out comes, or gets lost.
GotAnswer(o, f) ==
  \/ Filled(o, [f EXCEPT !.step = After(f, f.step)])
  \/ Filled(o, Error(IF f.step = "create" THEN [f EXCEPT !.at = 0] ELSE f))

\* A faulty form that goes on when the upload fails.
GotRefusalUnlessUpload(o, f) ==
  Filled(o, IF f.step = "upload" THEN [f EXCEPT !.step = After(f, "upload")] ELSE Error(f))

GotRefusal(o, f) == Filled(o, Error(f))

CreateConcert(o) ==
  /\ form[o].step = "create"
  /\ \/ /\ Len(concerts) < MaxConcerts
        /\ concerts' = Append(concerts, Draft)
        /\ GotAnswer(o, [form[o] EXCEPT !.at = Len(concerts')])
     \/ GotRefusal(o, form[o]) /\ UNCHANGED concerts

UploadPoster(o) ==
  LET c == form[o].at
  IN /\ form[o].step = "upload"
     /\ \/ /\ Kept(c)
           /\ concerts' = [concerts EXCEPT ![c].poster = TRUE]
           /\ GotAnswer(o, form[o])
        \/ GotRefusal(o, form[o]) /\ UNCHANGED concerts

\* A faulty payload with the status of a canceled concert left in.
StatusAlways(f) == f.status

\* The status that the update asks for: none when the concert was canceled as
\* the form was opened.
StatusSent(f) == IF f.seen.status = "canceled" THEN "unchanged" ELSE f.status

\* The update carries the biography back that the form was opened with; after
\* a creation it carries the status only.
UpdateConcert(o) ==
  LET f == form[o]
      c == f.at
      status == StatusSent(f)
      bio == IF f.new THEN concerts[c].bio ELSE f.seen.bio
  IN /\ f.step = "update"
     /\ \/ /\ Kept(c)
           /\ status = "published" => concerts[c].poster
           /\ concerts' = [concerts EXCEPT ![c].bio = bio,
                             ![c].status = IF status = "unchanged" THEN @ ELSE status]
           /\ GotAnswer(o, f)
        \/ GotRefusal(o, f) /\ UNCHANGED concerts

-----------------------------------------------------------------------------
(* What other pages do to a concert.                                       *)

Cancel(c) ==
  /\ concerts[c].status \in {"draft", "published"}
  /\ concerts' = [concerts EXCEPT ![c].status = "canceled"]
  /\ UNCHANGED form

PublishBio(c) ==
  /\ Kept(c) /\ concerts[c].bio < MaxBios
  /\ concerts' = [concerts EXCEPT ![c].bio = @ + 1]
  /\ UNCHANGED form

DeleteConcert(c) ==
  /\ Kept(c)
  /\ concerts' = [concerts EXCEPT ![c].status = "deleted"]
  /\ UNCHANGED form

FormStep(o) ==
  \/ OpenNew(o)
  \/ \E c \in Id : OpenEdit(o, c)
  \/ \E status \in {"draft", "published"}, file \in BOOLEAN : SubmitForm(o, status, file)
  \/ CreateConcert(o)
  \/ UploadPoster(o)
  \/ UpdateConcert(o)

FormNext ==
  /\ \/ \E o \in Manager : FormStep(o)
     \/ \E c \in Id : Cancel(c) \/ PublishBio(c) \/ DeleteConcert(c)
  /\ UNCHANGED panelVars

-----------------------------------------------------------------------------
(* A panel: operation, reading again, message.                             *)

Do(b, r) == busy' = [busy EXCEPT ![b] = r]

Press(b) ==
  /\ busy[b].step \in {"idle", "told", "failed"}
  /\ Do(b, [AtRest EXCEPT !.step = "operate"])
  /\ UNCHANGED <<server, shown>>

\* The server carries the operation out; also one that changes nothing is
\* answered with the state as it is.
Operate(b) ==
  /\ busy[b].step = "operate"
  /\ server' \in {server} \cup ({server + 1} \cap 0 .. MaxVersion)
  /\ Do(b, [busy[b] EXCEPT !.step = "operated", !.did = server'])
  /\ UNCHANGED shown

Refresh(b) ==
  /\ busy[b].step = "operated"
  /\ Do(b, [busy[b] EXCEPT !.step = "read", !.read = server])
  /\ UNCHANGED <<server, shown>>

\* What was read replaces what is shown, even something newer; the message
\* follows.
Show(b) ==
  /\ busy[b].step = "read"
  /\ shown' = busy[b].read
  /\ busy' = [x \in Button |->
                CASE x = b -> [busy[b] EXCEPT !.step = "told"]
                  [] x # b /\ busy[x].step = "read" -> [busy[x] EXCEPT !.behind = TRUE]
                  [] x # b /\ busy[x].step = "told" -> [busy[x] EXCEPT !.hidden = @ \/ busy[b].behind]
                  [] OTHER -> busy[x]]
  /\ UNCHANGED server

\* The operation or the reading fails: an error is told, also of an operation
\* that was carried out.
GoesWrong(b) ==
  /\ busy[b].step \in {"operate", "operated", "read"}
  /\ Do(b, [AtRest EXCEPT !.step = "failed"])
  /\ UNCHANGED <<server, shown>>

\* Another organizer, or a worker, changes what the panel shows.
Elsewhere ==
  /\ server < MaxVersion
  /\ server' = server + 1
  /\ UNCHANGED <<shown, busy>>

PanelNext ==
  /\ \/ \E b \in Button : Press(b) \/ Operate(b) \/ Refresh(b) \/ Show(b) \/ GoesWrong(b)
     \/ Elsewhere
  /\ UNCHANGED formVars

ConsoleNext == FormNext \/ PanelNext

ConsoleSpec == ConsoleInit /\ [][ConsoleNext]_consoleVars

-----------------------------------------------------------------------------
(* Properties.                                                             *)

\* What a form did not see it cannot respect: a canceled concert is taken
\* back, or an older biography is put back over a newer one, only by a form
\* that was opened before; a form opened since leaves both as they are.
OnlyOldFormsTakeBack ==
  [][\A c \in Id :
       /\ concerts[c].status = "canceled" /\ concerts'[c].status # "canceled" =>
            \/ concerts'[c].status = "deleted"
            \/ \E o \in Manager : /\ form[o].step = "update" /\ form[o].at = c
                                  /\ form[o].seen.status # "canceled"
       /\ concerts'[c].bio < concerts[c].bio =>
            \E o \in Manager : /\ form[o].step = "update" /\ form[o].at = c
                              /\ form[o].seen.bio < concerts[c].bio]_consoleVars

\* A form that says it has saved has: the concert has the chosen poster,
\* although the poster goes in a request of its own, which may fail between
\* the two others.
SavedWithItsPoster ==
  \A o \in Manager :
    form[o].step = "saved" /\ form[o].file => concerts[form[o].at].poster

\* The message of an operation comes with its result: what the panel shows
\* since is never older, until another button that had read before shows what
\* it has read.
PanelShowsTheResult ==
  \A b \in Button :
    busy[b].step = "told" /\ ~busy[b].hidden => shown >= busy[b].did

\* What forms and panels tell an organizer is so.
ConsoleTellsTheTruth == SavedWithItsPoster /\ PanelShowsTheResult
=============================================================================
