------------------------------ MODULE Sessions ------------------------------
(* Who a tab of the audience site acts for.  The tabs of a browser share    *)
(* one cookie with the access token; each page shows the account its server *)
(* rendered it for, or the one that has signed in on it since.  A request   *)
(* carries the cookie of the moment it is sent; its response may set or     *)
(* clear the cookie when it arrives, also when the tab has gone on to       *)
(* another page.  A token is the account it was signed for; its end comes   *)
(* by the browser's clock for the cookie, by the backend's for a request.   *)
EXTENDS Naturals, FiniteSets

CONSTANTS
  Account,       \* who can sign in with the backend
  Audience,      \* the accounts of role audience
  Nobody,
  Tab,
  Keep,          \* what a response without Set-Cookie does to the cookie
  MaxStrays      \* bound on the requests under way of pages that were left

ASSUME SessionsAssumption ==
  /\ Audience \subseteq Account
  /\ Nobody \notin Account /\ Keep \notin Account /\ Keep # Nobody
  /\ MaxStrays \in Nat

VARIABLES
  cookie,        \* the account of the token that the browser keeps
  shows,         \* the account that each tab's page shows
  asked,         \* the requests under way
  swapped        \* tabs whose cookie another page has set since they were asked for

sessionVars == <<cookie, shows, asked, swapped>>

\* sets: the cookie that the response leaves; own: the page that asked is
\* still there.
Sent(t, kind, who) ==
  [tab |-> t, kind |-> kind, who |-> who, token |-> cookie,
   stage |-> "sent", granted |-> FALSE, sets |-> Keep, own |-> TRUE]

SessionsInit ==
  /\ cookie = Nobody
  /\ shows = [t \in Tab |-> Nobody]
  /\ asked = {} /\ swapped = {}

Waiting(t) == {q \in asked : q.tab = t /\ q.own}

Change(q, r) == asked' = (asked \ {q}) \cup {r}

-----------------------------------------------------------------------------
(* The pages.                                                              *)

\* A response that may still change the cookie.
MayChange(q) ==
  q.stage = "answered" \/ (q.stage = "sent" /\ q.kind # "visit")

\* A tab goes to a page: what the old one waits for is answered to no one.
Leave(t) ==
  LET strays == {[q EXCEPT !.own = FALSE] : q \in {p \in Waiting(t) : MayChange(p)}}
  IN /\ asked' = (asked \ Waiting(t)) \cup strays \cup {Sent(t, "visit", Nobody)}
     /\ swapped' = swapped \ {t}

Visit(t) ==
  /\ \A q \in Waiting(t) : q.kind # "visit"
  /\ Leave(t)
  /\ Cardinality({q \in asked' : ~q.own}) <= MaxStrays
  /\ UNCHANGED <<cookie, shows>>

\* The login or registration form, the logout button, a call to the backend.
SendRequest(t, kind, who) ==
  /\ Waiting(t) = {}
  /\ asked' = asked \cup {Sent(t, kind, who)}
  /\ UNCHANGED <<cookie, shows, swapped>>

-----------------------------------------------------------------------------
(* The servers: the site's own routes, and the backend behind them.        *)

\* A response without Set-Cookie is with the page, if that is still there, as
\* soon as it is given: nothing else can tell when.
AnswerWith(q, granted, sets) ==
  IF sets = Keep /\ ~q.own THEN asked' = asked \ {q}
  ELSE Change(q, [q EXCEPT !.stage = IF sets = Keep THEN "arrived" ELSE "answered",
                           !.token = Nobody, !.granted = granted, !.sets = sets])

\* A faulty site that keeps the token before it looks at the role.
WelcomeAnyone(q) == AnswerWith(q, q.who \in Audience, q.who)

\* The backend signs a token for any active account that gives its password;
\* the site keeps that of an account of the audience only.
Welcome(q) ==
  IF q.who \in Audience THEN AnswerWith(q, TRUE, q.who) ELSE AnswerWith(q, FALSE, Keep)

\* The page is rendered for the account of the token; without an answer from
\* the backend, or with a token that has ended, for nobody.
Render(q) ==
  \E who \in {q.token, Nobody} :
    Change(q, [q EXCEPT !.stage = "arrived", !.token = Nobody, !.who = who])

\* Without a cookie the site answers alone.  The backend refuses a token that
\* has ended, and the site then clears the cookie, whatever it holds by now.
Serve(q) ==
  \/ q.token # Nobody /\ AnswerWith(q, TRUE, Keep)
  \/ AnswerWith(q, FALSE, IF q.token = Nobody THEN Keep ELSE Nobody)

Answer(q) ==
  /\ q \in asked /\ q.stage = "sent"
  /\ \/ q.kind = "sign in" /\ Welcome(q)
     \/ q.kind = "visit" /\ Render(q)
     \/ q.kind = "sign out" /\ AnswerWith(q, TRUE, Nobody)
     \/ q.kind = "call" /\ Serve(q)
  /\ UNCHANGED <<cookie, shows, swapped>>

-----------------------------------------------------------------------------
(* The browser.                                                            *)

\* The response arrives: the cookie changes, for every tab.
Receive(q) ==
  /\ q \in asked /\ q.stage = "answered"
  /\ cookie' = q.sets
  /\ swapped' = IF q.sets = Nobody THEN swapped
                  ELSE IF q.own THEN Tab \ {q.tab} ELSE Tab
  /\ IF q.own THEN Change(q, [q EXCEPT !.stage = "arrived"])
     ELSE asked' = asked \ {q}
  /\ UNCHANGED shows

\* The page goes on with the answer: what it shows changes, or a call that
\* was refused takes the tab to the login page.
PageGoesOn(q) ==
  /\ q \in asked /\ q.stage = "arrived"
  /\ \/ /\ q.kind # "call"
        /\ shows' = IF q.kind = "visit" \/ q.granted
                    THEN [shows EXCEPT ![q.tab] = q.who] ELSE shows
        /\ asked' = asked \ {q}
        /\ UNCHANGED swapped
     \/ /\ q.kind = "call"
        /\ IF q.granted THEN asked' = asked \ {q} /\ UNCHANGED swapped
           ELSE Leave(q.tab)
        /\ UNCHANGED shows
  /\ UNCHANGED cookie

\* A request or its response gets lost, or an error answers it.
GetsLost(q) ==
  /\ q \in asked /\ q.kind # "visit" /\ q.stage # "arrived"
  /\ asked' = asked \ {q}
  /\ UNCHANGED <<cookie, shows, swapped>>

\* The cookie ends when its token does.
CookieEnds ==
  /\ cookie # Nobody
  /\ cookie' = Nobody
  /\ UNCHANGED <<shows, asked, swapped>>

SessionsNext ==
  \/ \E t \in Tab :
       \/ Visit(t)
       \/ \E who \in Account : SendRequest(t, "sign in", who)
       \/ \E kind \in {"sign out", "call"} : SendRequest(t, kind, Nobody)
  \/ \E q \in asked : Answer(q) \/ Receive(q) \/ PageGoesOn(q) \/ GetsLost(q)
  \/ CookieEnds

SessionsSpec == SessionsInit /\ [][SessionsNext]_sessionVars

-----------------------------------------------------------------------------
(* Properties.                                                             *)

\* A page acts for the account that it shows: unless another page has set the
\* cookie since this one was asked for, a call that it makes speaks for that
\* account or is refused, although answers to pages that were left, to tokens
\* that have ended and to accounts of other roles still arrive (a page that
\* shows nobody, as its server got no answer from the backend, claims
\* nothing).
ActsForTheShown ==
  \A t \in Tab \ swapped :
    Waiting(t) = {} /\ shows[t] # Nobody => cookie \in {shows[t], Nobody}
=============================================================================
