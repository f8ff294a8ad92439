---------------------------- MODULE ProviderGuard ----------------------------
(***************************************************************************)
(* What stands between this server and the payment provider: the circuit   *)
(* breaker and the bulkhead, as ResilientPaymentProvider.run uses them.    *)
(*                                                                         *)
(* Node runs one callback at a time, so beforeCall and the entry into the  *)
(* bulkhead are one step.  The provider's answer frees the bulkhead, and   *)
(* the circuit hears of the outcome in a later callback: between the two,  *)
(* and while the call is on its way, other calls begin and end.            *)
(***************************************************************************)
EXTENDS Integers, FiniteSets

CONSTANTS Call,        \* calls of createIntent and queryIntent
          Threshold,   \* PAYMENT_CIRCUIT_FAILURE_THRESHOLD
          Limit        \* PAYMENT_PROVIDER_MAX_CONCURRENCY

ASSUME GuardAssumption ==
  /\ IsFiniteSet(Call)
  /\ Threshold \in Nat \ {0} /\ Limit \in Nat \ {0}

VARIABLES
  circuit,        \* state of PaymentCircuitBreakerService,
  failures,       \* failures since the last success, counted up to Threshold,
  probeInFlight,
  cooled,         \* and whether cooldownMs has passed since openedAt
  active,         \* calls PaymentBulkheadService counts
  stage,          \* where each call is
  healthy         \* whether the provider is well

guardVars == <<circuit, failures, probeInFlight, cooled, active, stage, healthy>>

\* An answer, an error worth trying again (a timeout, an unexpected error),
\* and one that is not; the bulkhead's refusal is of the last kind.
Outcome == {"ok", "retryable", "final"}
Stage == {"idle", "calling"} \cup Outcome

GuardInit ==
  /\ circuit = "closed" /\ failures = 0 /\ probeInFlight = FALSE /\ cooled = FALSE
  /\ active = 0
  /\ stage = [c \in Call |-> "idle"]
  /\ healthy = TRUE

\* beforeCall: the state the circuit is in once it has looked at the time.
Looked == IF circuit = "open" /\ cooled THEN "half_open" ELSE circuit
LetsThrough ==
  \/ Looked = "closed"
  \/ Looked = "half_open" /\ ~probeInFlight

\* The bulkhead counts the call it takes.
Enter(c) ==
  /\ active' = IF active < Limit THEN active + 1 ELSE active
  /\ stage' = [stage EXCEPT ![c] = IF active < Limit THEN "calling" ELSE "final"]

\* A call that the circuit refuses leaves everything as it is.
Start(c) ==
  /\ stage[c] = "idle"
  /\ LetsThrough
  /\ circuit' = Looked
  /\ probeInFlight' = (Looked = "half_open")
  /\ Enter(c)
  /\ UNCHANGED <<failures, cooled, healthy>>

\* Faulty variant: the slot is not given back when the call fails.
AnswerAndKeepSlot(c) ==
  /\ stage[c] = "calling"
  /\ \E o \in Outcome : (healthy => o = "ok") /\ stage' = [stage EXCEPT ![c] = o]
  /\ active' = IF stage'[c] = "ok" THEN active - 1 ELSE active
  /\ UNCHANGED <<circuit, failures, probeInFlight, cooled, healthy>>

\* The provider answers, or the call is aborted after timeoutMs.
Answer(c) ==
  /\ stage[c] = "calling"
  /\ \E o \in Outcome : (healthy => o = "ok") /\ stage' = [stage EXCEPT ![c] = o]
  /\ active' = active - 1
  /\ UNCHANGED <<circuit, failures, probeInFlight, cooled, healthy>>

Success(c) ==
  /\ stage[c] = "ok"
  /\ stage' = [stage EXCEPT ![c] = "idle"]
  /\ failures' = 0 /\ probeInFlight' = FALSE /\ circuit' = "closed"
  /\ UNCHANGED <<cooled, active, healthy>>

\* Faulty variant: an error that is not retryable returns too early.
FinalKeepsProbe(c) ==
  /\ stage[c] = "final"
  /\ stage' = [stage EXCEPT ![c] = "idle"]
  /\ UNCHANGED <<circuit, failures, probeInFlight, cooled, active, healthy>>

\* failure(false)
FinalFailure(c) ==
  /\ stage[c] = "final"
  /\ stage' = [stage EXCEPT ![c] = "idle"]
  /\ probeInFlight' = FALSE
  /\ UNCHANGED <<circuit, failures, cooled, active, healthy>>

CountedUp == IF failures < Threshold THEN failures + 1 ELSE failures

\* failure(true): the failed probe, or one failure too many, opens the circuit.
RetryableFailure(c) ==
  /\ stage[c] = "retryable"
  /\ stage' = [stage EXCEPT ![c] = "idle"]
  /\ probeInFlight' = FALSE
  /\ failures' = CountedUp
  /\ IF circuit = "half_open" \/ CountedUp >= Threshold
     THEN circuit' = "open" /\ cooled' = FALSE
     ELSE UNCHANGED <<circuit, cooled>>
  /\ UNCHANGED <<active, healthy>>

CoolDown ==
  /\ circuit = "open" /\ ~cooled
  /\ cooled' = TRUE
  /\ UNCHANGED <<circuit, failures, probeInFlight, active, stage, healthy>>

ProviderChanges ==
  /\ healthy' = ~healthy
  /\ UNCHANGED <<circuit, failures, probeInFlight, cooled, active, stage>>

Report(c) == Success(c) \/ FinalFailure(c) \/ RetryableFailure(c)

GuardNext ==
  \/ \E c \in Call : Start(c) \/ Answer(c) \/ Report(c)
  \/ CoolDown \/ ProviderChanges

\* Calls end, by their timeout at the latest, and the circuit hears of it; time
\* passes; the reconciliation worker keeps asking about open payments.
GuardFairness ==
  /\ WF_guardVars(CoolDown)
  /\ \A c \in Call : WF_guardVars(Start(c)) /\ WF_guardVars(Answer(c)) /\ WF_guardVars(Report(c))

GuardSpec == GuardInit /\ [][GuardNext]_guardVars /\ GuardFairness

-----------------------------------------------------------------------------
(* Properties                                                              *)

GuardTypeOK ==
  /\ circuit \in {"closed", "open", "half_open"}
  /\ failures \in 0 .. Threshold
  /\ probeInFlight \in BOOLEAN /\ cooled \in BOOLEAN /\ healthy \in BOOLEAN
  /\ active \in 0 .. Limit
  /\ stage \in [Call -> Stage]

\* The bulkhead counts exactly the calls that are with the provider, however
\* they end and whatever the circuit says: no slot is lost, none is freed twice.
SlotsAreCounted == active = Cardinality({c \in Call : stage[c] = "calling"})

\* The circuit lets calls through freely exactly as long as there were fewer
\* failures in a row than the threshold: late results of calls that began in
\* another state never leave the two out of step.
CircuitMatchesFailures == circuit = "closed" <=> failures < Threshold

\* A probe that keeps every other call out is still going to report: the
\* half-open circuit is never waiting for nobody.
ProbeIsUnderway ==
  probeInFlight => circuit = "half_open" /\ \E c \in Call : stage[c] # "idle"

\* When the provider is well for good the circuit closes for good, although
\* late failures may open it again and a probe may be refused by the bulkhead.
CircuitRecovers == <>[]healthy => <>[](circuit = "closed")
=============================================================================
