---------------------------- MODULE VnpayResults ----------------------------
(***************************************************************************)
(* How the result of one VNPAY payment comes in: by IPN, which the gateway *)
(* repeats until it is acknowledged with "00"; by the browser's return; by *)
(* QueryDR, which reconciliation sends.  All three end in processWebhook,  *)
(* a transaction that Checkout has in detail and that is one step here;    *)
(* what comes before and after it is outside of it, and may fail alone.    *)
(***************************************************************************)
EXTENDS Integers, FiniteSets

CONSTANTS
  Handler,        \* calls of the backend in flight
  Defect,         \* what may be wrong with a callback, besides "none"
  Unfinished,     \* what QueryDR says of a page that is not paid yet
  MaxBroken       \* bound: rolled back, failed and crashed calls

\* A payment that nobody has made is not told as paid.
ASSUME UnfinishedAssumption == <<"00", "00">> \notin Unfinished

VARIABLES
  gateway,        \* VNPAY's record of the payment
  paymentUrl,     \* the intent: from its making until the buyer has its URL
  row,            \* Payment: its reference, status and last event; its order
  lapsed,         \* the reservation's time is over
  log,            \* events processed
  call,           \* the calls in flight
  acknowledged,   \* IPNs that were answered "00"
  announced,      \* times the tickets were announced
  excused,        \* history: a crash or an error after the commit
  broken

vnpayVars ==
  <<gateway, paymentUrl, row, lapsed, log, call, acknowledged, announced, excused, broken>>

NoCall == [step |-> "idle"]
NoEvent == <<"none", <<"", "">>>>

VnpayInit ==
  /\ gateway = "none" /\ paymentUrl = "none"
  /\ row = [ref |-> FALSE, status |-> "open", order |-> "pending", hash |-> NoEvent]
  /\ lapsed = FALSE /\ log = {}
  /\ call = [h \in Handler |-> NoCall]
  /\ acknowledged = {} /\ announced = 0 /\ excused = FALSE /\ broken = 0

-----------------------------------------------------------------------------
(* The intent.  createIntent only builds the URL; it reaches the buyer      *)
(* after the row has its reference.                                         *)

CreateIntent ==
  /\ paymentUrl = "none" /\ paymentUrl' = "built"
  /\ UNCHANGED <<gateway, row, lapsed, log, call, acknowledged, announced, excused, broken>>

SaveIntent ==
  /\ paymentUrl = "built"
  /\ \/ paymentUrl' = "given" /\ row' = [row EXCEPT !.ref = TRUE]
     \/ paymentUrl' = "none" /\ UNCHANGED row
  /\ UNCHANGED <<gateway, lapsed, log, call, acknowledged, announced, excused, broken>>

\* The buyer opens the page, and pays or gives up.
GatewayDecides ==
  /\ \/ paymentUrl = "given" /\ gateway = "none" /\ gateway' = "unfinished"
     \/ gateway = "unfinished" /\ gateway' \in {"paid", "declined"}
  /\ UNCHANGED <<paymentUrl, row, lapsed, log, call, acknowledged, announced, excused, broken>>

TimePasses ==
  /\ ~lapsed /\ lapsed' = TRUE
  /\ UNCHANGED <<gateway, paymentUrl, row, log, call, acknowledged, announced, excused, broken>>

\* The expiry worker.
ExpireOrder ==
  /\ lapsed /\ row.order = "pending"
  /\ row' = [row EXCEPT !.order = "expired"]
  /\ UNCHANGED <<gateway, paymentUrl, lapsed, log, call, acknowledged, announced, excused, broken>>

-----------------------------------------------------------------------------
(* The codes: vnp_ResponseCode and vnp_TransactionStatus                   *)

Paid == <<"00", "00">>

\* What a callback carries once the buyer is done.
CallbackSays ==
  CASE gateway = "paid" -> {Paid}
    [] gateway = "declined" -> {<<"24", "02">>}
    [] OTHER -> {}

\* What QueryDR acknowledged: the response code is about the query.
QuerySays == {<<"94", "">>} \cup
  CASE gateway = "paid" -> {Paid}
    [] gateway = "declined" -> {<<"00", "02">>}
    [] gateway = "unfinished" -> Unfinished
    [] OTHER -> {<<"91", "">>}

\* processVnpayResult
CallbackStatus(code) == IF code = Paid THEN "succeeded" ELSE "failed"

\* Faulty variant: the code of the response is taken for that of the payment.
QueryCodeOnly(code) ==
  IF code[1] = "00" THEN "succeeded"
  ELSE IF code[1] \in {"91", "94"} THEN "pending"
  ELSE "failed"

\* mapQueryDrStatus
QueryStatus(code) ==
  IF code = Paid THEN "succeeded"
  ELSE IF code[1] \in {"91", "94"} THEN "pending"
  ELSE IF code[2] \in {"01", "02"} \/ code[1] \in {"01", "02", "24"} THEN "failed"
  ELSE "pending"

-----------------------------------------------------------------------------
(* Calls                                                                   *)

Step(h, step) == call' = [call EXCEPT ![h].step = step]

\* The call ends; an IPN has its answer.
Reply(h, c, rsp) ==
  /\ call' = [call EXCEPT ![h] = NoCall]
  /\ acknowledged' = IF c.source = "ipn" /\ rsp = "00"
                     THEN acknowledged \cup {[code |-> c.code, defect |-> c.defect]}
                     ELSE acknowledged

\* normalizeVnpayQuery and verifyVnpaySignature need no database.
Unreadable(defect) == defect \in {"signature", "terminal"}
RspOf(defect) ==
  CASE defect = "signature" -> "97" [] defect = "reference" -> "01"
    [] defect = "amount" -> "04" [] OTHER -> "99"

Receive(h, c) ==
  /\ call[h] = NoCall
  /\ IF Unreadable(c.defect)
     THEN Reply(h, c, RspOf(c.defect))
     ELSE /\ call' = [call EXCEPT ![h] = c]
          /\ UNCHANGED acknowledged
  /\ UNCHANGED <<gateway, paymentUrl, row, lapsed, log, announced, excused, broken>>

Ipn(code, defect) ==
  [step |-> "find", source |-> "ipn", code |-> code, defect |-> defect]

ReceiveIpn(h) ==
  \E code \in CallbackSays, d \in Defect \cup {"none"} :
    Receive(h, Ipn(code, d))

\* An error of the return is shown to the browser, and that is all.
ReceiveReturn(h) ==
  \E code \in CallbackSays :
    Receive(h, [step |-> "find", source |-> "return", code |-> code, defect |-> "none"])

\* Reconciliation asks by queryIntent, to which an answer without VNPAY's
\* signature is an error, and goes on with a definite answer.
ReceiveQuery(h) ==
  /\ row.ref
  /\ \E code \in QuerySays :
       /\ QueryStatus(code) # "pending"
       /\ Receive(h, [step |-> "apply", source |-> "reconciliation",
                      code |-> <<QueryStatus(code), "">>, defect |-> "none"])

\* The row is looked up by its reference, and its order's amount compared.
Find(h) ==
  LET c == call[h]
      wrong == IF ~row.ref THEN "reference" ELSE c.defect
  IN /\ c.step = "find"
     /\ IF wrong = "none"
        THEN Step(h, "apply") /\ UNCHANGED acknowledged
        ELSE Reply(h, c, RspOf(wrong))
     /\ UNCHANGED <<gateway, paymentUrl, row, lapsed, log, announced, excused, broken>>

StatusOf(c) ==
  IF c.source = "reconciliation" THEN c.code[1] ELSE CallbackStatus(c.code)
EventOf(c) == <<c.source, c.code>>

\* Faulty variant: a success that comes late is refused.
VerdictInTime(c) ==
  IF row.hash = EventOf(c) THEN "replay"
  ELSE IF StatusOf(c) = "failed"
  THEN IF row.status = "succeeded" THEN "refused" ELSE "fail"
  ELSE IF row.status = "succeeded" THEN "replay"
  ELSE IF row.order = "pending" /\ ~lapsed THEN "confirm"
  ELSE "refused"

\* processWebhook
Verdict(c) ==
  IF row.hash = EventOf(c) THEN "replay"
  ELSE IF StatusOf(c) = "failed"
  THEN IF row.status = "succeeded" THEN "refused" ELSE "fail"
  ELSE IF row.status = "succeeded"
  THEN IF row.order \in {"issued", "refund_required"} THEN "replay" ELSE "refused"
  ELSE IF row.status = "failed" THEN "refused"
  ELSE IF row.order = "expired" \/ lapsed THEN "refund"
  ELSE IF row.order = "pending" THEN "confirm"
  ELSE "refused"

Settle(c, status, order) ==
  row' = [row EXCEPT !.status = status, !.order = order, !.hash = EventOf(c)]

\* The transaction commits; the caches are refreshed next, except by
\* reconciliation, which goes on to the message.
Apply(h) ==
  LET c == call[h]
      out == Verdict(c)
  IN /\ c.step = "apply" /\ out # "refused"
     /\ CASE out = "confirm" -> Settle(c, "succeeded", "issued")
          [] out = "refund" -> Settle(c, "succeeded", "refund_required")
          [] out = "fail" -> Settle(c, "failed", "failed")
          [] OTHER -> UNCHANGED row
     /\ log' = log \cup {EventOf(c)}
     /\ call' = [call EXCEPT ![h] =
          [step |-> IF c.source = "reconciliation" THEN "notify" ELSE "refresh",
           source |-> c.source, code |-> c.code, defect |-> c.defect,
           issued |-> out = "confirm"]]
     /\ UNCHANGED <<gateway, paymentUrl, lapsed, acknowledged, announced, excused, broken>>

\* It is refused, and leaves nothing.
Refuse(h) ==
  /\ call[h].step = "apply" /\ Verdict(call[h]) = "refused" /\ Reply(h, call[h], "99")
  /\ UNCHANGED <<gateway, paymentUrl, row, lapsed, log, announced, excused, broken>>

\* invalidateInventorySummaryForOrder.
Refresh(h) ==
  /\ call[h].step = "refresh" /\ Step(h, "notify")
  /\ UNCHANGED <<gateway, paymentUrl, row, lapsed, log, acknowledged, announced, excused, broken>>

\* notifyIssuedTicketsIfNeeded, then the answer.
Notify(h) ==
  /\ call[h].step = "notify"
  /\ announced' = IF call[h].issued THEN announced + 1 ELSE announced
  /\ Reply(h, call[h], "00")
  /\ UNCHANGED <<gateway, paymentUrl, row, lapsed, log, excused, broken>>

\* The database fails a transaction, or a read of the refresh: an IPN hears
\* "99".  Or the process dies, and it hears nothing, which is the same to it.
CallFails(h) ==
  /\ call[h] # NoCall
  /\ broken < MaxBroken /\ broken' = broken + 1
  /\ Reply(h, call[h], "99")
  /\ excused' = (excused \/ (call[h].step \in {"refresh", "notify"} /\ call[h].issued))
  /\ UNCHANGED <<gateway, paymentUrl, row, lapsed, log, announced>>

GoesOn(h) == Find(h) \/ Apply(h) \/ Refuse(h) \/ Refresh(h) \/ Notify(h)

VnpayNext ==
  \/ CreateIntent \/ SaveIntent \/ GatewayDecides \/ TimePasses \/ ExpireOrder
  \/ \E h \in Handler : ReceiveIpn(h) \/ ReceiveReturn(h) \/ ReceiveQuery(h) \/ GoesOn(h)
                         \/ CallFails(h)

(* Every call goes on, and the gateway repeats a sound IPN.                 *)
SoundIpn(h) == \E code \in CallbackSays : Receive(h, Ipn(code, "none"))

VnpayFairness ==
  /\ \A h \in Handler : WF_vnpayVars(GoesOn(h))
  /\ SF_vnpayVars(\E h \in Handler : SoundIpn(h))

VnpaySpec == VnpayInit /\ [][VnpayNext]_vnpayVars /\ VnpayFairness

-----------------------------------------------------------------------------
(* Properties                                                              *)

\* The gateway is told "00" for sound messages only, and only when what they
\* say is on record; a payment succeeded only if the gateway was paid; and
\* whoever can pay at the gateway has a row that the callbacks find.
RecordsAgree ==
  /\ \A a \in acknowledged : a.defect = "none" /\ <<"ipn", a.code>> \in log
  /\ row.status = "succeeded" => gateway = "paid"
  /\ gateway # "none" => row.ref

\* Of all the calls that bring the same result, one announces the tickets,
\* unless it breaks off after the commit.
AnnouncedOnce ==
  /\ announced <= 1
  /\ row.order = "issued" /\ announced = 0 => excused \/ \E h \in Handler :
       call[h].step \in {"refresh", "notify"} /\ call[h].issued

\* The gateway, the rows and what the buyer is told of a result agree.
ResultsAgree == RecordsAgree /\ AnnouncedOnce

\* The gateway stops to repeat the news of a payment it has captured.
PaidIsAcknowledged == gateway = "paid" ~> [code |-> Paid, defect |-> "none"] \in acknowledged
=============================================================================
