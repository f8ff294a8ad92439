---------------------------- MODULE WebCheckout ----------------------------
(***************************************************************************)
(* The checkout form and the order page of the web shop, in one tab of a   *)
(* buyer's browser, over a network that loses answers and delays requests. *)
(*                                                                         *)
(* The form keeps an intent in sessionStorage: three idempotency keys for  *)
(* what is bought and for whom, which every submit of the same form uses   *)
(* again until the order is known.  An intent is one number here and       *)
(* stands for its three keys.  The backend is what it answers a key with;  *)
(* Inventory, Checkout and PaymentFlow model how it gets there.            *)
(***************************************************************************)
EXTENDS Integers, Sequences, FiniteSets

CONSTANTS
  Form,          \* quantity and e-mail address: the signature of an intent
  Method,        \* payment methods, which are not part of the signature
  MaxIntents,    \* bound: intents made in the tab
  MaxLate,       \* bound: requests that are late at the same time
  MaxLoads       \* bound: answers on their way to the order page

ASSUME WebAssumption == MaxIntents \in Nat /\ MaxLate \in Nat /\ MaxLoads \in Nat

Key == 1..MaxIntents
None == 0

VARIABLES
  intent,        \* sessionStorage: the intent of each form
  madeFor,       \* the forms of the intents made so far
  tab,           \* submit(): how far it is, for which intent and method
  locked,        \* retryLockout
  late,          \* requests the tab has given up and the backend may yet get
  hold,          \* the reservations, by their key
  order,         \* the orders, by their key: status and method
  page,          \* the order page, and the status it shows
  loads          \* answers to getOrder on their way to the page

browserVars == <<intent, madeFor, tab, locked>>
serverVars == <<hold, order>>
orderPageVars == <<page, loads>>
webVars == <<browserVars, late, serverVars, orderPageVars>>

Idle == [step |-> "form"]
NoOrder == [status |-> "none"]
NoPage == [of |-> None, shown |-> "loading", loading |-> FALSE]

WebInit ==
  /\ intent = [f \in Form |-> None]
  /\ madeFor = <<>>
  /\ tab = Idle /\ locked = FALSE
  /\ late = {}
  /\ hold = [k \in Key |-> "none"]
  /\ order = [k \in Key |-> NoOrder]
  /\ page = NoPage /\ loads = {}

-----------------------------------------------------------------------------
(* The backend                                                             *)

\* POST /reservations, answered with r.  A key that has a reservation is
\* answered with it, whatever has become of it; only while another request
\* with the key runs may it be found sold out.
Reserve(k, r) ==
  /\ \/ r = "ok" /\ hold[k] = "none" /\ hold' = [hold EXCEPT ![k] = "active"]
     \/ r = "ok" /\ hold[k] # "none" /\ UNCHANGED hold
     \/ /\ r = "refused" /\ UNCHANGED hold
        /\ hold[k] = "none" \/ \E q \in late : q.kind = "reserve" /\ q.key = k
     \/ r = "later" /\ UNCHANGED hold
  /\ UNCHANGED order

\* POST /orders.
PlaceOrder(k, m, r) ==
  /\ \/ /\ r = "ok" /\ order[k] = NoOrder /\ hold[k] = "active"
        /\ order' = [order EXCEPT ![k] = [status |-> "pending", method |-> m]]
     \/ /\ order[k] # NoOrder /\ UNCHANGED order
        /\ r = IF order[k].method = m THEN "ok" ELSE "refused"
     \/ r = "refused" /\ order[k] = NoOrder /\ hold[k] # "active" /\ UNCHANGED order
     \/ r = "later" /\ UNCHANGED order
  /\ UNCHANGED hold

\* POST /payments/:id/intent: with a checkoutUrl or, while the provider is in
\* doubt, without, or an error.
OpenPayment(k, r) ==
  /\ \/ /\ r = "ok" /\ order[k].status \in {"pending", "checking"}
        /\ order' \in {order, [order EXCEPT ![k].status = "checking"]}
     \/ r \in {"refused", "later"} /\ UNCHANGED order
  /\ UNCHANGED hold

Handle(q, r) ==
  \/ q.kind = "reserve" /\ Reserve(q.key, r)
  \/ q.kind = "order" /\ PlaceOrder(q.key, q.method, r)
  \/ q.kind = "pay" /\ OpenPayment(q.key, r)

\* The reservation's time is over, and the order's with it.
HoldLapses(k) ==
  /\ hold[k] = "active" /\ order[k].status # "issued"
  /\ hold' = [hold EXCEPT ![k] = "expired"]
  /\ order' = IF order[k].status \in {"pending", "checking"}
              THEN [order EXCEPT ![k].status = "expired"] ELSE order
  /\ UNCHANGED <<browserVars, late, orderPageVars>>

\* Order and payment as mapOrderAndPaymentStatus sums them up; "refund" is
\* refund_required, which the page shows like "checking".
OrderStatus == {"pending", "checking", "issued", "failed", "expired", "refund"}

\* What callbacks and reconciliation make of the order.
OrderMoves(k) ==
  /\ \E to \in OrderStatus \ {"expired"} :
       /\ \/ order[k].status \in {"pending", "checking"}
          \/ order[k].status = "expired" /\ to \in {"refund", "failed"}
       /\ order[k].status # to
       /\ order' = [order EXCEPT ![k].status = to]
  /\ UNCHANGED <<browserVars, late, hold, orderPageVars>>

-----------------------------------------------------------------------------
(* The checkout form                                                       *)

\* Faulty variant: an intent is never read back.
NeverStored(f) == None
Stored(f) == intent[f]

\* getCheckoutIntent, and the first request of submit().
Submit(f, m) ==
  /\ tab = Idle /\ page = NoPage /\ ~locked
  /\ IF Stored(f) # None
     THEN UNCHANGED <<intent, madeFor>>
     ELSE /\ Len(madeFor) < MaxIntents
          /\ madeFor' = Append(madeFor, f)
          /\ intent' = [intent EXCEPT ![f] = Len(madeFor')]
  /\ tab' = [step |-> "reserve", form |-> f, method |-> m, key |-> intent'[f]]
  /\ UNCHANGED <<locked, late, serverVars, orderPageVars>>

Request(t) == [kind |-> t.step, key |-> t.key, method |-> t.method]

\* Faulty variant: the intent is cleared as soon as the seats are held.
ClearedAt(step) == step = "reserve"
\* clearCheckoutIntent, once the order has been answered.
Clears(step) == step = "order"

OpenPage(k) == page' = [of |-> k, shown |-> "loading", loading |-> TRUE] /\ loads' = {}

\* The answer to the request of the tab: the next request, or the order page.
Answered ==
  /\ tab # Idle
  /\ Handle(Request(tab), "ok")
  /\ intent' = IF Clears(tab.step) THEN [intent EXCEPT ![tab.form] = None] ELSE intent
  /\ \/ tab.step = "reserve" /\ tab' = [tab EXCEPT !.step = "order"] /\ UNCHANGED orderPageVars
     \/ tab.step = "order" /\ tab' = [tab EXCEPT !.step = "pay"] /\ UNCHANGED orderPageVars
     \/ tab.step = "pay" /\ tab' = Idle /\ OpenPage(tab.key)
  /\ UNCHANGED <<madeFor, locked, late>>

\* An error before the order is known shows the form again, and locks it for
\* Retry-After after 429 and 503; afterwards it leads to the order page.
Failed(r) ==
  /\ tab' = Idle
  /\ IF tab.step = "pay"
     THEN OpenPage(tab.key) /\ UNCHANGED locked
     ELSE locked' = (r = "later") /\ UNCHANGED orderPageVars
  /\ UNCHANGED <<intent, madeFor>>

Refused ==
  /\ tab # Idle
  /\ \E r \in {"refused", "later"} : Handle(Request(tab), r) /\ Failed(r)
  /\ UNCHANGED late

\* The answer gets lost, or the connection breaks before the backend has the
\* request, which may still get there.
AnswerLost ==
  /\ tab # Idle
  /\ \/ \E r \in {"ok", "refused"} : Handle(Request(tab), r) /\ UNCHANGED late
     \/ /\ Cardinality(late) < MaxLate
        /\ late' = late \cup {Request(tab)} /\ UNCHANGED serverVars
     \/ UNCHANGED <<late, serverVars>>
  /\ Failed("lost")

\* A request arrives that the tab gave up, as often as it was sent.
ArrivesLate(q) ==
  /\ \E r \in {"ok", "refused", "later"} : Handle(q, r)
  /\ late' \in {late, late \ {q}}
  /\ UNCHANGED <<browserVars, orderPageVars>>

Unlock ==
  /\ locked /\ locked' = FALSE
  /\ UNCHANGED <<intent, madeFor, tab, late, serverVars, orderPageVars>>

-----------------------------------------------------------------------------
(* The order page                                                          *)

\* mapOrderAndPaymentStatus and getPaymentStatusDisplay: how often a page that
\* shows the status asks again.
PollMode(shown) ==
  CASE shown \in {"loading", "pending"} -> "fast"
    [] shown \in {"checking", "refund"} -> "slow"
    [] OTHER -> "stopped"

\* load(): once when the effect runs, then every few seconds.
PageLoads ==
  /\ page.of # None
  /\ page.loading \/ PollMode(page.shown) # "stopped"
  /\ page' = [page EXCEPT !.loading = FALSE]
  /\ \/ /\ Cardinality(loads) < MaxLoads
        /\ loads' = loads \cup {order[page.of].status}
     \/ UNCHANGED loads
  /\ UNCHANGED <<browserVars, late, serverVars>>

\* The effect depends on the poll mode: when it changes, answers to earlier
\* loads are ignored, and a load begins.
StillActive(shown, r) == IF PollMode(r) = PollMode(shown) THEN loads ELSE {}

PageShows(r) ==
  /\ r \in loads
  /\ page' = [page EXCEPT !.shown = r,
                          !.loading = @ \/ PollMode(r) # PollMode(page.shown)]
  /\ LET answers == StillActive(page.shown, r) IN loads' \in {answers, answers \ {r}}
  /\ UNCHANGED <<browserVars, late, serverVars>>

LeavePage ==
  /\ page.of # None
  /\ page' = NoPage /\ loads' = {}
  /\ UNCHANGED <<browserVars, late, serverVars>>

WebNext ==
  \/ \E f \in Form, m \in Method : Submit(f, m)
  \/ Answered \/ Refused \/ AnswerLost \/ Unlock
  \/ \E q \in late : ArrivesLate(q)
  \/ \E k \in Key : HoldLapses(k) \/ OrderMoves(k)
  \/ PageLoads \/ LeavePage
  \/ \E r \in loads : PageShows(r)

WebSpec == WebInit /\ [][WebNext]_webVars

-----------------------------------------------------------------------------
(* Properties                                                              *)

Made == 1..Len(madeFor)

\* blueprint/07-protection-mechanisms.md:65: however often a buyer submits a
\* form after lost answers, and whenever a request arrives, the form holds
\* seats once: all its reservations but one have become orders or have lapsed.
OneHoldPerForm ==
  \A f \in Form :
    Cardinality({k \in Made : madeFor[k] = f /\ hold[k] = "active" /\ order[k] = NoOrder}) <= 1

\* An order whose page the buyer has not been sent to is found again: the form
\* still has its keys, and a submit is answered with it.
NoOrderIsLost ==
  [][\A k \in Made :
       LET Kept == intent[madeFor[k]] = k \/ (tab # Idle /\ tab.key = k)
       IN
           Kept => \/ Kept' \/ page'.of = k
                   \/ order'[k] = NoOrder /\ hold'[k] # "active"]_webVars

\* A page that has shown how an order ended does not show it as pending again,
\* although answers to earlier loads are still under way.
PageKeepsTheEnd ==
  [][page.of = page'.of /\ PollMode(page.shown) = "stopped"
       => page'.shown \notin {"pending", "checking"}]_webVars

\* The browser keeps hold of an order until the buyer has seen how it ended.
BrowserKeepsTheOrder == NoOrderIsLost /\ PageKeepsTheEnd
=============================================================================
