----------------------------- MODULE PaymentFlow -----------------------------
(***************************************************************************)
(* What the payment module does between an order and its settlement:       *)
(* PaymentIntentService asks the provider for a checkout page,             *)
(* IdempotencyService keeps one answer per request key, and                *)
(* PaymentReconciliationService asks the provider again for payments whose *)
(* result never came.  The callbacks, the expiry worker and the ledger are *)
(* those of Checkout.                                                      *)
(*                                                                         *)
(* None of this runs in one transaction: the payment is read, the provider *)
(* is called, and the payment is written by its id, whatever it has become *)
(* meanwhile.  Every database statement is a step of its own.  A payment   *)
(* that is pending always has a reconciliationAfter, and may be due at any *)
(* time.                                                                   *)
(***************************************************************************)
EXTENDS Checkout

CONSTANTS
  IntentKey,     \* idempotency keys of POST /payments/:id/intent
  Asker,         \* intent requests in flight, at most one per asker
  Reconciler,    \* one reconciliation batch per backend instance
  NoOwner

ASSUME ReconcilerAssumption ==
  /\ Reconciler \subseteq Handler
  /\ NoOwner \notin Reconciler
  /\ "reconciliation" \in Source

VARIABLES
  intent,        \* orders whose payment has its providerIntentId and checkoutUrl
  record,        \* IdempotencyRecord rows, by (user, key): the payment they are for
  answered,      \* those of them with status succeeded
  leaseOwner,    \* Payment.leaseOwner
  leased,        \* orders whose leaseExpiresAt is in the future
  ask,           \* intent requests in flight
  recon          \* reconciliation batches in flight

intentVars == <<intent, record, answered, ask>>
leaseVars == <<leaseOwner, leased>>
flowOnly == <<intentVars, leaseVars, recon>>
flowVars == <<checkoutVars, flowOnly>>

IntentId == User \X IntentKey
NoAsk == [step |-> "idle"]
Ask == [step : {"expire", "claim", "call", "save", "doubt", "complete"},
        order : Order, id : IntentId]

NoBatch == [step |-> "idle", todo |-> {}]
Batch == [step : {"next"}, todo : (SUBSET Order) \ {{}}]
Turn == [step : {"finalize", "finalizing", "judge", "expire", "reschedule"},
         todo : SUBSET Order, order : Order, answer : Verdict \cup {"unknown"}]

PaymentStatus(o) == payment[o].status
Reconcilable(o) == PaymentStatus(o) \in {"pending", "pending_reconciliation"}
Mutable(o) == PaymentStatus(o) = "created" \/ Reconcilable(o)

FlowInit ==
  /\ CheckoutInit
  /\ intent = {}
  /\ record = [i \in IntentId |-> NoOrderId]
  /\ answered = {}
  /\ leaseOwner = [o \in Order |-> NoOwner]
  /\ leased = {}
  /\ ask = [a \in Asker |-> NoAsk]
  /\ recon = [r \in Reconciler |-> NoBatch]

\* A single UPDATE of the payment's status.  It waits for the callback that
\* has the row locked, and looks neither at status nor at order.
SetStatus(o, st) ==
  /\ ~OrderLocked(o)
  /\ payment' = [payment EXCEPT ![o].status = st]
  /\ UNCHANGED <<inventoryVars, order, reservationOrder, tickets, log, reported, tx>>

ClearLease(o) ==
  /\ leaseOwner' = [leaseOwner EXCEPT ![o] = NoOwner]
  /\ leased' = leased \ {o}

-----------------------------------------------------------------------------
(* POST /payments/:id/intent                                               *)

\* applyStateGuard and expireIfOrderExpired look at the same three things.
OrderRanOut(o, r) == order[o].status = "expired" \/ Status(r) = "expired" \/ r \in lapsed

\* What create() does with the payment it has read.
IntentStep(o, r) ==
  IF Mutable(o) /\ OrderRanOut(o, r) THEN "expire"
  ELSE IF Mutable(o) /\ Pending(o) /\ Active(r) /\ o \notin intent THEN "claim"
  ELSE "reply"

\* Requests that are answered at once change nothing and are left out.
IntentLoad(a) ==
  /\ ask[a] = NoAsk
  /\ \E o \in Order, k \in IntentKey : \E r \in Linked(o) :
       /\ IntentStep(o, r) # "reply"
       /\ ask' = [ask EXCEPT ![a] =
            [step |-> IntentStep(o, r), order |-> o, id |-> <<o[1], k>>]]
  /\ UNCHANGED <<checkoutVars, intent, record, answered, leaseVars, recon>>

\* applyStateGuard: the write that follows the read.
IntentExpire(a) ==
  /\ ask[a].step = "expire"
  /\ SetStatus(ask[a].order, "expired")
  /\ ClearLease(ask[a].order)
  /\ ask' = [ask EXCEPT ![a] = NoAsk]
  /\ UNCHANGED <<intent, record, answered, recon>>

\* Faulty variant: a record whose request is still in progress is taken over.
ClaimAgain(a) ==
  /\ ask[a].step = "claim"
  /\ IF ask[a].id \in answered
     THEN /\ ask' = [ask EXCEPT ![a] = NoAsk]
          /\ UNCHANGED record
     ELSE /\ record' = [record EXCEPT ![ask[a].id] = ask[a].order]
          /\ ask' = [ask EXCEPT ![a].step = "call"]
  /\ UNCHANGED <<checkoutVars, intent, answered, leaseVars, recon>>

\* IdempotencyService.claim finds a record of the key.
KeyTaken(id) == record[id] # NoOrderId

\* Whoever finds a record is answered: with the stored reply, with 202 while it
\* is processing, or with a conflict.
IntentClaim(a) ==
  /\ ask[a].step = "claim"
  /\ IF KeyTaken(ask[a].id)
     THEN /\ ask' = [ask EXCEPT ![a] = NoAsk]
          /\ UNCHANGED record
     ELSE /\ record' = [record EXCEPT ![ask[a].id] = ask[a].order]
          /\ ask' = [ask EXCEPT ![a].step = "call"]
  /\ UNCHANGED <<checkoutVars, intent, answered, leaseVars, recon>>

\* The call to the provider, with its three ends: a checkout page, a doubt (a
\* timeout or an error), or no call at all (circuit open, bulkhead full), which
\* gives the key back.
IntentCall(a) ==
  /\ ask[a].step = "call"
  /\ \/ /\ \E st \in {"save", "doubt"} : ask' = [ask EXCEPT ![a].step = st]
        /\ UNCHANGED record
     \/ /\ record' = [record EXCEPT ![ask[a].id] = NoOrderId]
        /\ ask' = [ask EXCEPT ![a] = NoAsk]
  /\ UNCHANGED <<checkoutVars, intent, answered, leaseVars, recon>>

IntentSave(a) ==
  /\ ask[a].step = "save"
  /\ SetStatus(ask[a].order, "pending")
  /\ intent' = intent \cup {ask[a].order}
  /\ ask' = [ask EXCEPT ![a].step = "complete"]
  /\ UNCHANGED <<record, answered, leaseVars, recon>>

\* handleProviderError
IntentDoubt(a) ==
  /\ ask[a].step = "doubt"
  /\ SetStatus(ask[a].order, "pending_reconciliation")
  /\ ask' = [ask EXCEPT ![a].step = "complete"]
  /\ UNCHANGED <<intent, record, answered, leaseVars, recon>>

\* IdempotencyService.complete, and the reply.
IntentComplete(a) ==
  /\ ask[a].step = "complete"
  /\ answered' = answered \cup {ask[a].id}
  /\ ask' = [ask EXCEPT ![a] = NoAsk]
  /\ UNCHANGED <<checkoutVars, intent, record, leaseVars, recon>>

\* The write after a successful call throws: the service takes it for an error
\* of the provider.
IntentStumbles(a) ==
  /\ ask[a].step = "save"
  /\ ask' = [ask EXCEPT ![a].step = "doubt"]
  /\ UNCHANGED <<checkoutVars, intent, record, answered, leaseVars, recon>>

\* The backend goes down with the request in progress.
IntentCrash(a) ==
  /\ ask[a] # NoAsk
  /\ ask' = [ask EXCEPT ![a] = NoAsk]
  /\ UNCHANGED <<checkoutVars, intent, record, answered, leaseVars, recon>>

-----------------------------------------------------------------------------
(* Reconciliation                                                          *)

\* claimDue: one UPDATE over rows selected FOR UPDATE SKIP LOCKED.  The batch
\* size is not a limit here.
Due == {o \in Order : Reconcilable(o) /\ o \notin leased /\ ~OrderLocked(o)}

ReconcileClaim(r) ==
  /\ recon[r] = NoBatch
  /\ Due # {}
  /\ recon' = [recon EXCEPT ![r] = [step |-> "next", todo |-> Due]]
  /\ leaseOwner' = [o \in Order |-> IF o \in Due THEN r ELSE leaseOwner[o]]
  /\ leased' = leased \cup Due
  /\ UNCHANGED <<checkoutVars, intentVars>>

LeaseRunsOut(o) ==
  /\ o \in leased
  /\ leased' = leased \ {o}
  /\ UNCHANGED <<checkoutVars, intentVars, leaseOwner, recon>>

\* The batch goes on with its next payment, or ends.
NextTurn(r, todo) ==
  recon' = [recon EXCEPT ![r] =
    IF todo = {} THEN NoBatch ELSE [step |-> "next", todo |-> todo]]

\* Faulty variant: no news is good news.
QueryOptimist(r) ==
  /\ recon[r].step = "next"
  /\ \E o \in recon[r].todo, v \in Verdict :
       recon' = [recon EXCEPT ![r] =
         [step |-> "finalize", todo |-> recon[r].todo \ {o}, order |-> o, answer |-> v]]
  /\ UNCHANGED <<checkoutVars, intentVars, leaseVars>>

\* queryIntent.  A timeout, an open circuit, an error, pending and not_found
\* are one answer, and it may be given at any time.
ReconcileQuery(r) ==
  /\ recon[r].step = "next"
  /\ \E o \in recon[r].todo, v \in Verdict \cup {"unknown"} :
       /\ v # "unknown" => <<o, v>> \in reported
       /\ recon' = [recon EXCEPT ![r] =
            [step |-> IF v = "unknown" THEN "judge" ELSE "finalize",
             todo |-> recon[r].todo \ {o}, order |-> o, answer |-> v]]
  /\ UNCHANGED <<checkoutVars, intentVars, leaseVars>>

AnswerEvent(r) == <<recon[r].order, "reconciliation", recon[r].answer>>

\* A definite answer goes through processWebhook like any callback; when that
\* throws, at its checks or when the database rolls it back, the answer is lost.
ReconcileFinalize(r) ==
  /\ recon[r].step = "finalize"
  /\ WebhookReads(r, AnswerEvent(r), TRUE)
  /\ recon' = [recon EXCEPT ![r].step = "finalizing"]
  /\ UNCHANGED <<intentVars, leaseVars>>

ReconcileRefused(r) ==
  /\ recon[r].step = "finalize"
  /\ ~OrderLocked(recon[r].order)
  /\ \E x \in Linked(recon[r].order) : WebhookOutcome(AnswerEvent(r), x, TRUE) = "refused"
  /\ recon' = [recon EXCEPT ![r].step = "judge"]
  /\ UNCHANGED <<checkoutVars, intentVars, leaseVars>>

ReconcileFinalized(r) ==
  /\ recon[r].step = "finalizing"
  /\ WebhookCommit(r)
  /\ NextTurn(r, recon[r].todo)
  /\ UNCHANGED <<intentVars, leaseVars>>

ReconcileRolledBack(r) ==
  /\ recon[r].step = "finalizing"
  /\ CheckoutAbort(r)
  /\ recon' = [recon EXCEPT ![r].step = "judge"]
  /\ UNCHANGED <<intentVars, leaseVars>>

\* Faulty variant: an open payment is asked about again whatever its order is.
AlwaysReschedule(r) ==
  /\ recon[r].step = "judge"
  /\ recon' = [recon EXCEPT ![r].step = "reschedule"]
  /\ UNCHANGED <<checkoutVars, intentVars, leaseVars>>

\* expireIfOrderExpired reads the order, and reschedule is what is left.
ReconcileJudge(r) ==
  /\ recon[r].step = "judge"
  /\ \E x \in Linked(recon[r].order) :
       recon' = [recon EXCEPT ![r].step =
         IF OrderRanOut(recon[r].order, x) THEN "expire" ELSE "reschedule"]
  /\ UNCHANGED <<checkoutVars, intentVars, leaseVars>>

\* Their UPDATE, conditional on the lease and on nothing else.
ReconcileWrite(r) ==
  LET o == recon[r].order
  IN /\ recon[r].step \in {"expire", "reschedule"}
     /\ IF leaseOwner[o] = r
        THEN /\ SetStatus(o, IF recon[r].step = "expire" THEN "expired"
                             ELSE "pending_reconciliation")
             /\ ClearLease(o)
        ELSE UNCHANGED <<checkoutVars, leaseVars>>
     /\ NextTurn(r, recon[r].todo)
     /\ UNCHANGED intentVars

\* The backend goes down in the middle of a batch.
ReconcileCrash(r) ==
  /\ recon[r] # NoBatch
  /\ recon' = [recon EXCEPT ![r] = NoBatch]
  /\ tx' = [tx EXCEPT ![r] = Idle]
  /\ UNCHANGED <<inventoryVars, order, reservationOrder, paymentVars, reported,
                 intentVars, leaseVars>>

-----------------------------------------------------------------------------
\* Callbacks and orders run in handlers of their own, and the provider decides
\* on payments whose checkout page the buyer was given.
CheckoutStep ==
  /\ \/ InventoryStep
     \/ \E w \in Worker : ExpireWithOrders(w)
     \/ \E o \in intent, v \in Verdict : ProviderReports(o, v)
     \/ \E h \in Handler \ Reconciler :
          \/ OrderLookup(h) \/ OrderCheck(h) \/ OrderWrite(h) \/ OrderReturn(h)
          \/ \E e \in Event, sound \in Soundness :
               e[2] # "reconciliation" /\ Deliver(h, e, sound)
          \/ WebhookCommit(h) \/ CheckoutAbort(h)
  /\ UNCHANGED flowOnly

AskStep(a) ==
  \/ IntentLoad(a) \/ IntentExpire(a) \/ IntentClaim(a) \/ IntentCall(a) \/ IntentSave(a)
  \/ IntentDoubt(a) \/ IntentComplete(a) \/ IntentStumbles(a) \/ IntentCrash(a)

ReconcileTurn(r) ==
  \/ ReconcileQuery(r) \/ ReconcileFinalize(r) \/ ReconcileRefused(r)
  \/ ReconcileFinalized(r) \/ ReconcileJudge(r) \/ ReconcileWrite(r)
ReconcileStep(r) ==
  ReconcileClaim(r) \/ ReconcileTurn(r) \/ ReconcileRolledBack(r) \/ ReconcileCrash(r)

FlowNext ==
  \/ CheckoutStep
  \/ \E a \in Asker : AskStep(a)
  \/ \E r \in Reconciler : ReconcileStep(r)
  \/ \E o \in Order : LeaseRunsOut(o)

FlowSpec == FlowInit /\ [][FlowNext]_flowVars

(* Fairness: reconciliation and the expiry worker run every few seconds and  *)
(* go on with what they began, a lease of 30 seconds runs out, and the       *)
(* database lets transactions end and resolves deadlocks.  The backend may   *)
(* crash in any batch, but not for ever.                                     *)
FlowFairness ==
  /\ \A h \in Handler \ Reconciler :
       SF_flowVars((WebhookCommit(h) \/ CheckoutAbort(h)) /\ UNCHANGED flowOnly)
  /\ \A r \in Reconciler : SF_flowVars(ReconcileClaim(r)) /\ SF_flowVars(ReconcileTurn(r))
  /\ \A w \in Worker :
       WF_flowVars(ExpireSelect(w) /\ UNCHANGED <<checkoutOnly, flowOnly>>)
         /\ SF_flowVars(ExpireWithOrders(w) /\ UNCHANGED flowOnly)
  /\ \A w \in Worker :
       WF_flowVars(\/ \E h \in Handler \ Reconciler : BreakDeadlock(h, w) /\ UNCHANGED flowOnly
                   \/ \E r \in Reconciler : Deadlocked(r, w) /\ ReconcileRolledBack(r))
  /\ \A o \in Order : WF_flowVars(LeaseRunsOut(o))
  /\ <>[][\A r \in Reconciler : ~ReconcileCrash(r)]_flowVars

FairFlowSpec == FlowSpec /\ FlowFairness

-----------------------------------------------------------------------------
(* Properties                                                              *)

FlowTypeOK ==
  /\ payment \in [Order -> [status : {"none", "created", "pending", "pending_reconciliation",
                                      "succeeded", "failed", "expired"},
                            hash : Event \cup {NoHash}]]
  /\ intent \subseteq Order
  /\ record \in [IntentId -> Order \cup {NoOrderId}]
  /\ answered \subseteq IntentId
  /\ leaseOwner \in [Order -> Reconciler \cup {NoOwner}]
  /\ leased \subseteq Order
  /\ ask \in [Asker -> {NoAsk} \cup Ask]
  /\ recon \in [Reconciler -> {NoBatch} \cup Batch \cup Turn]

\* Payments are overwritten by their id at any time, so the status cannot be
\* trusted; what protects the buyer is that tickets are issued against the
\* reservation.  Tickets exist only for captured money and confirmed seats, all
\* of them, and no other order has tickets for the same seats.
TicketsArePaidFor ==
  \A o \in Order : tickets[o] > 0 =>
    /\ <<o, "succeeded">> \in reported
    /\ Status(order[o].reservation) = "confirmed"
    /\ tickets[o] = reservation[order[o].reservation].quantity
    /\ \A p \in Order : p # o /\ tickets[p] > 0 => order[p].reservation # order[o].reservation

\* blueprint/07-protection-mechanisms.md:154: of the requests that use one key,
\* at most one is past the claim, and none once the key has its answer.
KeyHasOneOwner ==
  \A a, b \in Asker :
    LET past == {"call", "save", "doubt", "complete"}
    IN (ask[a].step \in past /\ ask[b].step \in past /\ ask[a].id = ask[b].id) =>
         a = b /\ ask[a].id \notin answered

\* A payment whose result never came does not stay open after the reservation
\* has run out, although batches crash and answers stay out.
OpenPaymentsEnd ==
  \A o \in Order :
    (Reconcilable(o) /\ order[o].reservation \in lapsed)
      ~> PaymentStatus(o) \in {"succeeded", "failed", "expired"}

-----------------------------------------------------------------------------
(* What the code's own table says, and the code does not keep.             *)

\* common/constants/state-transitions.ts:28, OrderStatus.ISSUED has no successor.
IssuedOrdersStay ==
  [][\A o \in Order : order[o].status = "issued" => order'[o].status = "issued"]_flowVars
=============================================================================
