--------------------------- MODULE RequestLimits ---------------------------
(***************************************************************************)
(* What stands before POST /reservations: the rate limit, which counts in  *)
(* Redis or, when Redis does not answer, in the memory of the process; the *)
(* authentication; and the check for suspicious requests.  The counters of *)
(* a rule are per identifier and fixed window.  Redis commands are three,  *)
(* each with a connection of its own: other requests run in between, and   *)
(* any of them can time out, executed or not.                              *)
(***************************************************************************)
EXTENDS Integers, Sequences, FiniteSets

CONSTANTS
  Visit, Caller, Backend,
  Rules,             \* the scopes of the rules, in their order
  Allowed,             \* [scope -> requests in a window]
  Identifier,        \* [scope -> [Caller -> identifier]]
  NoIdentifier,      \* the request does not carry one
  BadToken,          \* the token does not verify
  BaseScore,         \* [Caller -> reasons other than repetition]
  Redis,
  Window, RiskWindow, RiskRetry, RiskAttempts,
  MaxTime, MaxOutages  \* bounds

ASSUME LimitsAssumption ==
  /\ {Window, RiskWindow, RiskRetry, RiskAttempts} \subseteq Nat \ {0}
  /\ RiskRetry > RiskWindow /\ Redis \notin Backend
  /\ IsFiniteSet(Visit) /\ MaxTime \in Nat
  /\ Allowed \in [DOMAIN Allowed -> Nat] /\ Rules \in Seq(DOMAIN Allowed)
  /\ BaseScore \in [Caller -> Nat]

VARIABLES
  now,
  hits,              \* [Backend or Redis -> [key -> count and end]]
  attempts,          \* [Backend -> [Caller -> [requests -> moments]]]
  visit,             \* where each request is, and the counters that passed it
  outages

limitVars == <<now, hits, attempts, visit, outages>>

Scope == {Rules[i] : i \in DOMAIN Rules}
Counter == Backend \cup {Redis}
Never == -1

\* rate:<scope>:<identifier>:<endpoint>:<window>
RateKey == [scope : Scope,
        id : UNION {{Identifier[s][c] : c \in Caller} : s \in Scope},
        window : 0 .. MaxTime \div Window]
NoCount == [count |-> 0, expires |-> Never]
Empty == [k \in RateKey |-> NoCount]
NoAttempts == [c \in Caller |-> [r \in {} |-> 0]]
NewRequest == [step |-> "new", passed |-> {}]

LimitsInit ==
  /\ now = 0 /\ outages = 0
  /\ hits = [c \in Counter |-> Empty]
  /\ attempts = [p \in Backend |-> NoAttempts]
  /\ visit = [r \in Visit |-> NewRequest]

-----------------------------------------------------------------------------
(* The check for suspicious requests, kept per process                     *)

Recent(p, c) == {r \in DOMAIN attempts[p][c] : attempts[p][c][r] >= now - RiskWindow}

Score(c, n) == BaseScore[c] + (IF n >= RiskAttempts THEN 2 ELSE 0)

\* The attempt counts whether or not it is let through.
RiskGuard(r, p, c, passed) ==
  LET recorded == Recent(p, c) \cup {r}
  IN /\ attempts' = [attempts EXCEPT ![p] = [@ EXCEPT ![c] =
          [q \in recorded |-> IF q = r THEN now ELSE attempts[p][c][q]]]]
     /\ visit' = [visit EXCEPT ![r] =
          IF Score(c, Cardinality(recorded)) < 3
          THEN [step |-> "handled", process |-> p, client |-> c, at |-> now, passed |-> passed]
          ELSE [step |-> "suspected", retryAt |-> now + RiskRetry, passed |-> passed]]

-----------------------------------------------------------------------------
(* The rules, one after the other                                          *)

Applies(c, i) == Identifier[Rules[i]][c] # NoIdentifier
KeyFor(c, i) ==
  [scope |-> Rules[i], id |-> Identifier[Rules[i]][c], window |-> now \div Window]

Unauthorized(r, passed) ==
  /\ visit' = [visit EXCEPT ![r] = [step |-> "unauthorized", passed |-> passed]]
  /\ UNCHANGED attempts

\* The rules from the i-th on, up to the next that needs a count; after the
\* last, AuthGuard and the check for suspicious requests.
CheckRules(r, p, c, i, passed) ==
  LET left == {j \in i .. Len(Rules) : Applies(c, j)}
  IN \/ /\ left = {}
        /\ IF Identifier["user"][c] = NoIdentifier THEN Unauthorized(r, passed)
           ELSE RiskGuard(r, p, c, passed)
     \/ \E j \in left :
          /\ \A k \in left : j <= k
          /\ IF Identifier[Rules[j]][c] = BadToken THEN Unauthorized(r, passed)
             ELSE /\ visit' = [visit EXCEPT ![r] =
                       [step |-> "incr", process |-> p, client |-> c, rule |-> j,
                        key |-> KeyFor(c, j), count |-> 0, passed |-> passed]]
                  /\ UNCHANGED attempts

ServedBy(r, p) ==
  visit[r].step \in {"incr", "expire", "ttl", "handled"} /\ visit[r].process = p

Arrive(r, p, c) ==
  /\ visit[r].step = "new"
  /\ CheckRules(r, p, c, 1, {})
  /\ UNCHANGED <<now, hits, outages>>

\* The rule's verdict.  A request that is let through while the window lasts
\* is recorded with the counter that passed it.
OverLimit(scope, n) == n > Allowed[scope]

Decide(r, by, n, retryAfter) ==
  LET q == visit[r]
  IN IF OverLimit(q.key.scope, n)
     THEN /\ visit' = [visit EXCEPT ![r] =
               [step |-> "limited", key |-> q.key, retryAt |-> now + retryAfter,
                passed |-> q.passed]]
          /\ UNCHANGED attempts
     ELSE CheckRules(r, q.process, q.client, q.rule + 1,
               IF now \div Window = q.key.window
               THEN q.passed \cup {[key |-> q.key, by |-> by]} ELSE q.passed)

-----------------------------------------------------------------------------
(* The counters                                                            *)

Current(c, k) ==
  hits[c][k].count > 0 /\ (hits[c][k].expires = Never \/ hits[c][k].expires > now)
CountIn(c, k) == IF Current(c, k) THEN hits[c][k].count ELSE 0

Counts(known, c, k, v) == [known EXCEPT ![c] = [@ EXCEPT ![k] = v]]

\* The effect in Redis of the command that r is waiting for.
Incremented(k) ==
  IF Current(Redis, k) THEN Counts(hits, Redis, k, [hits[Redis][k] EXCEPT !.count = @ + 1])
  ELSE Counts(hits, Redis, k, [count |-> 1, expires |-> Never])
Executed(r) ==
  LET k == visit[r].key
  IN CASE visit[r].step = "incr" -> Incremented(k)
       [] visit[r].step = "expire" /\ Current(Redis, k) ->
            Counts(hits, Redis, k, [hits[Redis][k] EXCEPT !.expires = now + Window])
       [] OTHER -> hits

Incr(r) ==
  /\ visit[r].step = "incr"
  /\ hits' = Executed(r)
  /\ LET n == CountIn(Redis, visit[r].key) + 1
     IN visit' = [visit EXCEPT ![r] =
          [@ EXCEPT !.count = n, !.step = IF n = 1 THEN "expire" ELSE "ttl"]]
  /\ UNCHANGED <<now, attempts, outages>>

Expire(r) ==
  /\ visit[r].step = "expire"
  /\ hits' = Executed(r)
  /\ visit' = [visit EXCEPT ![r] = [@ EXCEPT !.step = "ttl"]]
  /\ UNCHANGED <<now, attempts, outages>>

\* The end of the counter, or a whole window if it has none.
RetryAfter(k) == IF Current(Redis, k) /\ hits[Redis][k].expires # Never
                 THEN hits[Redis][k].expires - now ELSE Window

Ttl(r) ==
  /\ visit[r].step = "ttl"
  /\ Decide(r, Redis, visit[r].count, RetryAfter(visit[r].key))
  /\ UNCHANGED <<now, hits, outages>>

\* Faulty variant: the answer of the cache is used as it is.
NoLocalCount(r, known) ==
  /\ hits' = known
  /\ Decide(r, visit[r].process, -1, Window)

\* The process counts for itself.
CountLocally(r, known) ==
  LET p == visit[r].process
      k == visit[r].key
  IN IF Current(p, k)
     THEN /\ hits' = Counts(known, p, k, [hits[p][k] EXCEPT !.count = @ + 1])
          /\ Decide(r, p, hits[p][k].count + 1, hits[p][k].expires - now)
     ELSE /\ hits' = Counts(known, p, k, [count |-> 1, expires |-> now + Window])
          /\ Decide(r, p, 1, Window)

\* A command fails, before or after Redis has executed it.
CommandFails(r) ==
  /\ visit[r].step \in {"incr", "expire", "ttl"}
  /\ outages < MaxOutages /\ outages' = outages + 1
  /\ \E known \in {hits, Executed(r)} : CountLocally(r, known)
  /\ UNCHANGED now

\* A process restarts: its counters and the requests it was serving are lost.
Restart(p) ==
  /\ outages < MaxOutages /\ outages' = outages + 1
  /\ hits' = [hits EXCEPT ![p] = Empty]
  /\ attempts' = [attempts EXCEPT ![p] = NoAttempts]
  /\ visit' = [r \in Visit |->
       LET kept == {e \in visit[r].passed : e.by # p}
       IN IF ServedBy(r, p) THEN [step |-> "over", passed |-> kept]
          ELSE [visit[r] EXCEPT !.passed = kept]]
  /\ UNCHANGED now

Tick ==
  /\ now < MaxTime /\ now' = now + 1
  /\ UNCHANGED <<hits, attempts, visit, outages>>

LimitsNext ==
  \/ \E r \in Visit :
       \/ \E p \in Backend, c \in Caller : Arrive(r, p, c)
       \/ Incr(r) \/ Expire(r) \/ Ttl(r) \/ CommandFails(r)
  \/ \E p \in Backend : Restart(p)
  \/ Tick

LimitsSpec == LimitsInit /\ [][LimitsNext]_limitVars

-----------------------------------------------------------------------------
(* Properties                                                              *)

\* In a window, no counter lets more requests of an identifier through than
\* the rule allows, while it keeps what it has counted.  So the limit is met
\* with Redis, and at most multiplied by one more per process without it.
LimitsHold ==
  \A k \in RateKey, c \in Counter :
    Cardinality({r \in Visit : [key |-> k, by |-> c] \in visit[r].passed})
      <= Allowed[k.scope]

\* Who is turned away is told to come back when the window that was full is
\* over, whichever counter answered and whatever it knew of its own end.
RetryMeetsNewWindow ==
  \A r \in Visit :
    visit[r].step = "limited" => visit[r].retryAt >= (visit[r].key.window + 1) * Window

\* A process lets a client that is suspicious for another reason through less
\* than RiskAttempts times in any span of RiskWindow.
SuspectsAreSlowed ==
  \A p \in Backend, c \in Caller, t \in 0 .. MaxTime :
    BaseScore[c] > 0 =>
      Cardinality({r \in Visit :
        /\ visit[r].step = "handled" /\ visit[r].client = c
        /\ visit[r].process = p /\ visit[r].at \in t .. t + RiskWindow}) < RiskAttempts

\* Nobody is let through too often, and nobody is sent back too early.
LimitsAreKept == LimitsHold /\ RetryMeetsNewWindow /\ SuspectsAreSlowed
=============================================================================
