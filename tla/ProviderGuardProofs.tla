------------------------- MODULE ProviderGuardProofs -------------------------
(***************************************************************************)
(* The safety properties of ProviderGuard, for any number of calls, any    *)
(* threshold and any limit.  That the count of the bulkhead never goes     *)
(* below zero rests on what it counts, and the four invariants together    *)
(* are inductive.  What guards the other ways in follows: the results that *)
(* a provider sends (VnpayResults) and the limits before a reservation     *)
(* (RequestLimits).                                                        *)
(***************************************************************************)
EXTENDS ProviderGuard, VnpayResults, RequestLimits, FiniteSetTheorems, TLAPS

Calling == {c \in Call : stage[c] = "calling"}

GuardInv ==
  /\ GuardTypeOK
  /\ SlotsAreCounted
  /\ CircuitMatchesFailures
  /\ ProbeIsUnderway

\* Whatever the calls do, those with the provider are a finite set.
LEMMA CallingFinite == IsFiniteSet(Calling) /\ Cardinality(Calling) \in Nat
<1>1. Calling \subseteq Call  BY DEF Calling
<1>2. IsFiniteSet(Calling)  BY <1>1, GuardAssumption, FS_Subset
<1> QED  BY <1>2, FS_CardinalityType

\* The server starts with no call and a closed circuit.
LEMMA GuardInitInv == GuardInit => GuardInv
<1> SUFFICES ASSUME GuardInit PROVE GuardInv  OBVIOUS
<1>1. GuardTypeOK
  <2>1. stage \in [Call -> Stage]  BY DEF GuardInit, Stage
  <2>2. failures \in 0 .. Threshold /\ active \in 0 .. Limit
    BY GuardAssumption DEF GuardInit
  <2> QED  BY <2>1, <2>2 DEF GuardInit, GuardTypeOK
<1>2. SlotsAreCounted
  <2>1. {c \in Call : stage[c] = "calling"} = {}  BY DEF GuardInit
  <2> QED  BY <2>1, FS_EmptySet DEF SlotsAreCounted, GuardInit
<1>3. CircuitMatchesFailures /\ ProbeIsUnderway
  BY GuardAssumption DEF GuardInit, CircuitMatchesFailures, ProbeIsUnderway
<1> QED  BY <1>1, <1>2, <1>3 DEF GuardInv

\* A call that the bulkhead takes is one more, one that it refuses is none.
LEMMA StartInv ==
  ASSUME GuardInv, NEW c \in Call, Start(c)
  PROVE  GuardInv'
<1> USE GuardAssumption
<1>0. GuardTypeOK /\ SlotsAreCounted /\ CircuitMatchesFailures  BY DEF GuardInv
<1>1. GuardTypeOK'
  BY <1>0 DEF GuardTypeOK, Start, Enter, Looked, LetsThrough, Stage, Outcome
<1>2. SlotsAreCounted'
  <2>1. CASE active < Limit
    <3>1. Calling' = Calling \cup {c} /\ c \notin Calling
      BY <1>0, <2>1 DEF Start, Enter, Calling, GuardTypeOK
    <3>2. Cardinality(Calling') = Cardinality(Calling) + 1
      BY <3>1, CallingFinite, FS_AddElement
    <3>3. active' = active + 1  BY <2>1 DEF Start, Enter
    <3> QED  BY <1>0, <3>2, <3>3 DEF SlotsAreCounted, Calling
  <2>2. CASE ~(active < Limit)
    <3>1. Calling' = Calling
      BY <1>0, <2>2 DEF Start, Enter, Calling, GuardTypeOK
    <3>2. active' = active  BY <2>2 DEF Start, Enter
    <3> QED  BY <1>0, <3>1, <3>2 DEF SlotsAreCounted, Calling
  <2> QED  BY <2>1, <2>2
<1>3. CircuitMatchesFailures'
  BY <1>0 DEF CircuitMatchesFailures, Start, Looked, GuardTypeOK
<1>4. ProbeIsUnderway'
  <2>1. stage'[c] # "idle"  BY <1>0 DEF Start, Enter, GuardTypeOK
  <2>2. probeInFlight' => circuit' = "half_open"  BY DEF Start, Looked
  <2> QED  BY <2>1, <2>2 DEF ProbeIsUnderway
<1> QED  BY <1>1, <1>2, <1>3, <1>4 DEF GuardInv

\* An answer gives back a slot that was counted.
LEMMA AnswerInv ==
  ASSUME GuardInv, NEW c \in Call, Answer(c)
  PROVE  GuardInv'
<1> USE GuardAssumption
<1>0. GuardTypeOK /\ SlotsAreCounted /\ CircuitMatchesFailures /\ ProbeIsUnderway
  BY DEF GuardInv
<1>1. c \in Calling  BY DEF Answer, Calling
<1>2. Cardinality(Calling \ {c}) = Cardinality(Calling) - 1 /\ Cardinality(Calling \ {c}) \in Nat
  <2>1. IsFiniteSet(Calling \ {c})  BY CallingFinite, FS_Subset
  <2>2. Cardinality(Calling \ {c}) = Cardinality(Calling) - 1
    BY <1>1, CallingFinite, FS_RemoveElement
  <2> QED  BY <2>1, <2>2, FS_CardinalityType
<1>3. PICK o \in Outcome : stage' = [stage EXCEPT ![c] = o]  BY DEF Answer
<1>4. Calling' = Calling \ {c}
  BY <1>0, <1>3 DEF Calling, GuardTypeOK, Outcome
<1>5. SlotsAreCounted'
  BY <1>0, <1>2, <1>4 DEF SlotsAreCounted, Calling, Answer
<1>6. GuardTypeOK'
  <2>1. active' \in 0 .. Limit
    BY <1>0, <1>2 DEF GuardTypeOK, SlotsAreCounted, Calling, Answer
  <2>2. stage' \in [Call -> Stage]  BY <1>0, <1>3 DEF GuardTypeOK, Stage
  <2> QED  BY <1>0, <2>1, <2>2 DEF GuardTypeOK, Answer
<1>7. CircuitMatchesFailures'  BY <1>0 DEF CircuitMatchesFailures, Answer
<1>8. ProbeIsUnderway'
  <2>1. stage'[c] # "idle"  BY <1>0, <1>3 DEF GuardTypeOK, Outcome
  <2> QED  BY <1>0, <2>1 DEF ProbeIsUnderway, Answer
<1> QED  BY <1>5, <1>6, <1>7, <1>8 DEF GuardInv

\* A report concerns the circuit only, and takes the probe's flag away.
LEMMA ReportInv ==
  ASSUME GuardInv, NEW c \in Call, Report(c)
  PROVE  GuardInv'
<1> USE GuardAssumption
<1>0. GuardTypeOK /\ SlotsAreCounted /\ CircuitMatchesFailures  BY DEF GuardInv
<1>1. stage[c] \in Outcome /\ stage' = [stage EXCEPT ![c] = "idle"]
  BY DEF Report, Success, FinalFailure, RetryableFailure, Outcome
<1>2. active' = active /\ probeInFlight' = FALSE
  BY DEF Report, Success, FinalFailure, RetryableFailure
<1>3. Calling' = Calling  BY <1>0, <1>1 DEF Calling, GuardTypeOK, Outcome
<1>4. SlotsAreCounted'  BY <1>0, <1>2, <1>3 DEF SlotsAreCounted, Calling
<1>5. ProbeIsUnderway'  BY <1>2 DEF ProbeIsUnderway
<1>6. GuardTypeOK'
  <2>1. stage' \in [Call -> Stage]  BY <1>0, <1>1 DEF GuardTypeOK, Stage
  <2>2. failures' \in 0 .. Threshold
    BY <1>0 DEF GuardTypeOK, Report, Success, FinalFailure, RetryableFailure, CountedUp
  <2>3. circuit' \in {"closed", "open", "half_open"} /\ cooled' \in BOOLEAN
    BY <1>0, Zenon DEF GuardTypeOK, Report, Success, FinalFailure, RetryableFailure
  <2>4. healthy' = healthy  BY DEF Report, Success, FinalFailure, RetryableFailure
  <2> QED  BY <1>0, <1>2, <2>1, <2>2, <2>3, <2>4 DEF GuardTypeOK
<1>7. CircuitMatchesFailures'
  <2>1. CASE Success(c)  BY <2>1 DEF Success, CircuitMatchesFailures
  <2>2. CASE FinalFailure(c)  BY <1>0, <2>2 DEF FinalFailure, CircuitMatchesFailures
  <2>3. CASE RetryableFailure(c)
    BY <1>0, <2>3 DEF RetryableFailure, CircuitMatchesFailures, CountedUp, GuardTypeOK
  <2> QED  BY <2>1, <2>2, <2>3 DEF Report
<1> QED  BY <1>4, <1>5, <1>6, <1>7 DEF GuardInv

\* Every step keeps the four together.
LEMMA GuardStepInv == GuardInv /\ [GuardNext]_guardVars => GuardInv'
<1> SUFFICES ASSUME GuardInv, [GuardNext]_guardVars PROVE GuardInv'  OBVIOUS
<1>1. ASSUME NEW c \in Call, Start(c) PROVE GuardInv'  BY <1>1, StartInv
<1>2. ASSUME NEW c \in Call, Answer(c) PROVE GuardInv'  BY <1>2, AnswerInv
<1>3. ASSUME NEW c \in Call, Report(c) PROVE GuardInv'  BY <1>3, ReportInv
<1>4. CASE CoolDown
  BY <1>4 DEF CoolDown, GuardInv, GuardTypeOK, SlotsAreCounted, CircuitMatchesFailures,
              ProbeIsUnderway
<1>5. CASE ProviderChanges
  BY <1>5 DEF ProviderChanges, GuardInv, GuardTypeOK, SlotsAreCounted,
              CircuitMatchesFailures, ProbeIsUnderway
<1>6. CASE UNCHANGED guardVars
  BY <1>6 DEF guardVars, GuardInv, GuardTypeOK, SlotsAreCounted, CircuitMatchesFailures,
              ProbeIsUnderway
<1> QED  BY <1>1, <1>2, <1>3, <1>4, <1>5, <1>6 DEF GuardNext

\* All four hold always.
LEMMA GuardInvariant == GuardSpec => []GuardInv
<1> QED  BY GuardInitInv, GuardStepInv, PTL DEF GuardSpec

\* The bulkhead never counts more calls than its limit, nor fewer than none.
THEOREM GuardTyped == GuardSpec => []GuardTypeOK
<1>1. GuardInv => GuardTypeOK  BY DEF GuardInv
<1> QED  BY <1>1, GuardInvariant, PTL

\* PaymentBulkheadService counts exactly the calls that are with the provider.
THEOREM NoSlotLeaks == GuardSpec => []SlotsAreCounted
<1>1. GuardInv => SlotsAreCounted  BY DEF GuardInv
<1> QED  BY <1>1, GuardInvariant, PTL

\* PaymentCircuitBreakerService is closed exactly below the threshold.
THEOREM CircuitAgrees == GuardSpec => []CircuitMatchesFailures
<1>1. GuardInv => CircuitMatchesFailures  BY DEF GuardInv
<1> QED  BY <1>1, GuardInvariant, PTL

\* The probe that keeps the others out of a half-open circuit is under way.
THEOREM ProbeReports == GuardSpec => []ProbeIsUnderway
<1>1. GuardInv => ProbeIsUnderway  BY DEF GuardInv
<1> QED  BY <1>1, GuardInvariant, PTL

-----------------------------------------------------------------------------
(* Results                                                                 *)

CodePart == {"", "00", "02", "24", "succeeded", "failed"}
Code == CodePart \X CodePart
Source == {"ipn", "return", "reconciliation"}
PaymentRow ==
  [ref : BOOLEAN, status : {"open", "succeeded", "failed"},
   order : {"pending", "issued", "expired", "refund_required", "failed"},
   hash : (Source \X Code) \cup {NoEvent}]
Undecided ==
  [step : {"find", "apply"}, source : Source, code : Code, defect : Defect \cup {"none"}]
Decided ==
  [step : {"refresh", "notify"}, source : Source, code : Code,
   defect : Defect \cup {"none"}, issued : BOOLEAN]

CallsTyped ==
  /\ row \in PaymentRow
  /\ call \in [Handler -> {NoCall} \cup Undecided \cup Decided]

\* Who can pay has the URL, and who has the URL has a row.
GatewayFits ==
  /\ gateway # "none" => paymentUrl = "given"
  /\ paymentUrl = "given" => row.ref = TRUE
  /\ row.status = "succeeded" => gateway = "paid"

\* What a call is about to do rests on what the gateway has decided.
CallFits(c) ==
  /\ c.step \in {"find", "apply"} => \/ StatusOf(c) = "failed"
                                    \/ (StatusOf(c) = "succeeded" /\ gateway = "paid")
  /\ c.step \in {"apply", "refresh", "notify"} => c.defect = "none"
  /\ c.step \in {"refresh", "notify"} => EventOf(c) \in log
CallsFit == \A h \in Handler : CallFits(call[h])

AnswersFit == \A a \in acknowledged : a.defect = "none" /\ <<"ipn", a.code>> \in log

\* A call that has the tickets to announce.
Due(h) == call[h].step \in {"refresh", "notify"} /\ call[h].issued = TRUE

\* While nobody has paid there is nothing to announce, and later at most once.
AnnouncesFit ==
  /\ announced \in {0, 1}
  /\ row.order = "pending" => announced = 0 /\ \A h \in Handler : ~Due(h)
  /\ \A h \in Handler : Due(h) => announced = 0 /\ \A g \in Handler \ {h} : ~Due(g)
  /\ row.order = "issued" /\ announced = 0 => excused = TRUE \/ \E h \in Handler : Due(h)

VnpayInv == CallsTyped /\ GatewayFits /\ CallsFit /\ AnswersFit /\ AnnouncesFit /\ excused \in BOOLEAN

LEMMA VnpayStarts == VnpayInit => VnpayInv
<1> SUFFICES ASSUME VnpayInit PROVE VnpayInv  OBVIOUS
<1>1. CallsTyped
  BY DEF VnpayInit, CallsTyped, PaymentRow
<1>2. GatewayFits /\ AnswersFit
  BY DEF VnpayInit, GatewayFits, AnswersFit
<1>3. CallsFit
  BY DEF VnpayInit, CallsFit, CallFits, NoCall
<1>4. AnnouncesFit
  BY DEF VnpayInit, AnnouncesFit, Due, NoCall
<1> QED  BY <1>1, <1>2, <1>3, <1>4 DEF VnpayInit, VnpayInv

\* What the steps leave: the calls, and what is told of them.
LEMMA CallsRest ==
  ASSUME VnpayInv, call' = call, log' = log, acknowledged' = acknowledged,
         gateway = "paid" => gateway' = "paid"
  PROVE  CallsFit' /\ AnswersFit' /\ \A h \in Handler : Due(h)' <=> Due(h)
<1>1. CallsFit'
  BY DEF VnpayInv, CallsFit, CallFits, StatusOf, EventOf, CallbackStatus, Paid
<1>2. AnswersFit'
  BY DEF VnpayInv, AnswersFit
<1> QED  BY <1>1, <1>2 DEF Due

\* Announcing goes on where the order and those who announce stay.
LEMMA AnnouncesRest ==
  ASSUME AnnouncesFit, announced' = announced, excused = TRUE => excused' = TRUE,
         \A h \in Handler : Due(h)' <=> Due(h),
         row'.order = row.order \/ row'.order \notin {"pending", "issued"}
  PROVE  AnnouncesFit'
  BY DEF AnnouncesFit

LEMMA GatewaySteps ==
  ASSUME VnpayInv, CreateIntent \/ SaveIntent \/ GatewayDecides \/ TimePasses \/ ExpireOrder
  PROVE  VnpayInv'
<1>1. call' = call /\ log' = log /\ acknowledged' = acknowledged
      /\ announced' = announced /\ excused' = excused
  BY DEF CreateIntent, SaveIntent, GatewayDecides, TimePasses, ExpireOrder
<1>2. gateway = "paid" => gateway' = "paid"
  BY DEF CreateIntent, SaveIntent, GatewayDecides, TimePasses, ExpireOrder
<1>3. \/ row' = row
      \/ row' = [row EXCEPT !.ref = TRUE]
      \/ row' = [row EXCEPT !.order = "expired"]
  BY DEF CreateIntent, SaveIntent, GatewayDecides, TimePasses, ExpireOrder
<1>4. row' \in PaymentRow /\ row'.status = row.status /\ (row.ref = TRUE => row'.ref = TRUE)
      /\ (row'.order = row.order \/ row'.order = "expired")
  BY <1>3 DEF VnpayInv, CallsTyped, PaymentRow
<1>5. CallsTyped'
  BY <1>1, <1>4 DEF VnpayInv, CallsTyped
<1>6. GatewayFits'
  <2>1. CASE CreateIntent
    BY <2>1 DEF CreateIntent, VnpayInv, GatewayFits
  <2>2. CASE SaveIntent
    BY <2>2 DEF SaveIntent, VnpayInv, GatewayFits, CallsTyped, PaymentRow
  <2>3. CASE GatewayDecides
    BY <2>3 DEF GatewayDecides, VnpayInv, GatewayFits
  <2>4. CASE TimePasses \/ ExpireOrder
    BY <1>4, <2>4 DEF TimePasses, ExpireOrder, VnpayInv, GatewayFits
  <2> QED  BY <2>1, <2>2, <2>3, <2>4
<1>7. CallsFit' /\ AnswersFit' /\ \A h \in Handler : Due(h)' <=> Due(h)
  BY <1>1, <1>2, CallsRest
<1>8. AnnouncesFit'
  BY <1>1, <1>4, <1>7, AnnouncesRest DEF VnpayInv
<1> QED  BY <1>1, <1>5, <1>6, <1>7, <1>8 DEF VnpayInv

\* A call that has nothing to announce ends without an acknowledgement.
LEMMA CallEnds ==
  ASSUME VnpayInv, NEW h \in Handler, NEW c, NEW rsp, rsp # "00", Reply(h, c, rsp),
         gateway' = gateway, paymentUrl' = paymentUrl, row' = row, log' = log,
         announced' = announced, excused' \in BOOLEAN, excused = TRUE => excused' = TRUE,
         Due(h) => excused' = TRUE
  PROVE  VnpayInv'
<1>1. call' = [call EXCEPT ![h] = NoCall] /\ acknowledged' = acknowledged
  BY DEF Reply
<1>2. CallsTyped'
  BY <1>1 DEF VnpayInv, CallsTyped
<1>3. GatewayFits' /\ AnswersFit'
  BY <1>1 DEF VnpayInv, GatewayFits, AnswersFit
<1>4. CallsFit'
  <2>1. CallFits(NoCall)'
    BY DEF CallFits, NoCall
  <2>2. \A g \in Handler : call'[g] = NoCall \/ call'[g] = call[g]
    BY <1>1 DEF VnpayInv, CallsTyped
  <2>3. ASSUME NEW g \in Handler PROVE CallFits(call[g])'
    <3>1. CASE call'[g] = NoCall
      BY <3>1 DEF CallFits, NoCall
    <3>2. CASE call'[g] = call[g]
      BY <3>2 DEF VnpayInv, CallsFit, CallFits, StatusOf, EventOf, CallbackStatus, Paid
    <3> QED  BY <2>2, <3>1, <3>2
  <2> QED  BY <2>3 DEF CallsFit
<1>5. AnnouncesFit'
  <2>1. ~Due(h)' /\ \A g \in Handler \ {h} : Due(g)' <=> Due(g)
    BY <1>1 DEF VnpayInv, CallsTyped, Due, NoCall
  <2> QED  BY <2>1 DEF VnpayInv, AnnouncesFit
<1> QED  BY <1>2, <1>3, <1>4, <1>5 DEF VnpayInv

\* A call comes in, or goes on before the transaction.
LEMMA CallGoesOn ==
  ASSUME VnpayInv, NEW h \in Handler, NEW c \in Undecided, CallFits(c), ~Due(h),
         call' = [call EXCEPT ![h] = c], acknowledged' = acknowledged,
         gateway' = gateway, paymentUrl' = paymentUrl, row' = row, log' = log,
         announced' = announced, excused' = excused
  PROVE  VnpayInv'
<1>1. CallsTyped'
  BY DEF VnpayInv, CallsTyped
<1>2. GatewayFits' /\ AnswersFit'
  BY DEF VnpayInv, GatewayFits, AnswersFit
<1>3. CallsFit'
  <2>1. \A g \in Handler : call'[g] = c \/ call'[g] = call[g]
    BY DEF VnpayInv, CallsTyped
  <2>2. ASSUME NEW g \in Handler PROVE CallFits(call[g])'
    <3>1. CASE call'[g] = c
      BY <3>1 DEF CallFits, StatusOf, EventOf, CallbackStatus, Paid
    <3>2. CASE call'[g] = call[g]
      BY <3>2 DEF VnpayInv, CallsFit, CallFits, StatusOf, EventOf, CallbackStatus, Paid
    <3> QED  BY <2>1, <3>1, <3>2
  <2> QED  BY <2>2 DEF CallsFit
<1>4. \A g \in Handler : Due(g)' <=> Due(g)
  <2>1. call'[h] = c /\ c.step \in {"find", "apply"}
    BY DEF VnpayInv, CallsTyped, Undecided
  <2>2. \A g \in Handler \ {h} : call'[g] = call[g]
    BY DEF VnpayInv, CallsTyped
  <2> QED  BY <2>1, <2>2 DEF Due
<1>5. AnnouncesFit'
  BY <1>4, AnnouncesRest DEF VnpayInv
<1> QED  BY <1>1, <1>2, <1>3, <1>5 DEF VnpayInv

\* What is wrong with a call is never acknowledged.
LEMMA NotAcknowledged == \A d : RspOf(d) # "00"
  BY DEF RspOf

LEMMA ReceiveKeeps ==
  ASSUME VnpayInv, NEW h \in Handler, NEW c \in Undecided, CallFits(c), Receive(h, c)
  PROVE  VnpayInv'
<1>1. call[h] = NoCall /\ gateway' = gateway /\ paymentUrl' = paymentUrl /\ row' = row
      /\ log' = log /\ announced' = announced /\ excused' = excused
  BY DEF Receive
<1>2. ~Due(h)
  BY <1>1 DEF Due, NoCall
<1>3. CASE Unreadable(c.defect)
  <2>1. Reply(h, c, RspOf(c.defect))
    BY <1>3 DEF Receive
  <2> QED  BY <1>1, <1>2, <2>1, CallEnds, NotAcknowledged DEF VnpayInv
<1>4. CASE ~Unreadable(c.defect)
  <2>1. call' = [call EXCEPT ![h] = c] /\ acknowledged' = acknowledged
    BY <1>4 DEF Receive
  <2> QED  BY <1>1, <1>2, <2>1, CallGoesOn
<1> QED  BY <1>3, <1>4

LEMMA CallbackFits ==
  ASSUME NEW code \in CallbackSays PROVE code \in Code /\ (code = Paid => gateway = "paid")
<1>1. CASE gateway = "paid"
  <2>1. CallbackSays = {Paid}
    BY <1>1 DEF CallbackSays
  <2>2. Paid \in Code
    BY DEF Paid, Code, CodePart
  <2> QED  BY <1>1, <2>1, <2>2
<1>2. CASE gateway = "declined"
  <2>1. CallbackSays = {<<"24", "02">>}
    BY <1>2 DEF CallbackSays
  <2>2. <<"24", "02">> \in Code /\ <<"24", "02">> # Paid
    BY DEF Paid, Code, CodePart
  <2> QED  BY <2>1, <2>2
<1>3. CASE gateway \notin {"paid", "declined"}
  BY <1>3 DEF CallbackSays
<1> QED  BY <1>1, <1>2, <1>3

\* The gateway tells that it was paid only when it was.
LEMMA QueryFits ==
  ASSUME NEW code \in QuerySays, QueryStatus(code) # "pending"
  PROVE  QueryStatus(code) = "failed" \/ (QueryStatus(code) = "succeeded" /\ gateway = "paid")
<1> SUFFICES ASSUME QueryStatus(code) # "failed" PROVE QueryStatus(code) = "succeeded" /\ gateway = "paid"
  OBVIOUS
<1>1. code = Paid /\ QueryStatus(code) = "succeeded"
  BY DEF QueryStatus
<1>2. Paid # <<"94", "">> /\ Paid # <<"00", "02">> /\ Paid # <<"91", "">> /\ Paid \notin Unfinished
  BY UnfinishedAssumption DEF Paid
<1> QED  BY <1>1, <1>2 DEF QuerySays

LEMMA ReceivesKeep ==
  ASSUME VnpayInv, NEW h \in Handler, ReceiveIpn(h) \/ ReceiveReturn(h) \/ ReceiveQuery(h)
  PROVE  VnpayInv'
<1>1. CASE ReceiveIpn(h)
  <2>1. PICK code \in CallbackSays, d \in Defect \cup {"none"} : Receive(h, Ipn(code, d))
    BY <1>1 DEF ReceiveIpn
  <2>2. PICK c \in Undecided : c = Ipn(code, d)
    BY CallbackFits DEF Ipn, Undecided, Source
  <2>3. CallFits(c)
    BY <2>2, CallbackFits DEF Ipn, CallFits, StatusOf, CallbackStatus
  <2> QED  BY <2>1, <2>2, <2>3, ReceiveKeeps
<1>2. CASE ReceiveReturn(h)
  <2>1. PICK code \in CallbackSays :
          Receive(h, [step |-> "find", source |-> "return", code |-> code, defect |-> "none"])
    BY <1>2 DEF ReceiveReturn
  <2>2. PICK c \in Undecided :
          c = [step |-> "find", source |-> "return", code |-> code, defect |-> "none"]
    BY CallbackFits DEF Undecided, Source
  <2>3. CallFits(c)
    BY <2>2, CallbackFits DEF CallFits, StatusOf, CallbackStatus
  <2> QED  BY <2>1, <2>2, <2>3, ReceiveKeeps
<1>3. CASE ReceiveQuery(h)
  <2>1. PICK code \in QuerySays :
          /\ QueryStatus(code) # "pending"
          /\ Receive(h, [step |-> "apply", source |-> "reconciliation",
                         code |-> <<QueryStatus(code), "">>, defect |-> "none"])
    BY <1>3 DEF ReceiveQuery
  <2>2. QueryStatus(code) \in {"succeeded", "failed"}
    BY <2>1, QueryFits
  <2>3. PICK c \in Undecided :
          c = [step |-> "apply", source |-> "reconciliation",
               code |-> <<QueryStatus(code), "">>, defect |-> "none"]
    BY <2>2 DEF Undecided, Code, CodePart, Source
  <2>4. CallFits(c)
    BY <2>1, <2>3, QueryFits DEF CallFits, StatusOf
  <2> QED  BY <2>1, <2>3, <2>4, ReceiveKeeps
<1> QED  BY <1>1, <1>2, <1>3

LEMMA FindKeeps == ASSUME VnpayInv, NEW h \in Handler, Find(h) PROVE VnpayInv'
<1>1. call[h].step = "find" /\ call[h] \in Undecided /\ CallFits(call[h])
  BY DEF Find, VnpayInv, CallsTyped, CallsFit, NoCall, Decided
<1>2. gateway' = gateway /\ paymentUrl' = paymentUrl /\ row' = row
      /\ log' = log /\ announced' = announced /\ excused' = excused /\ ~Due(h)
  BY <1>1 DEF Find, Due
<1>3. PICK wrong : /\ wrong = IF ~row.ref THEN "reference" ELSE call[h].defect
                   /\ IF wrong = "none"
                      THEN Step(h, "apply") /\ acknowledged' = acknowledged
                      ELSE Reply(h, call[h], RspOf(wrong))
  BY DEF Find
<1>4. CASE wrong = "none"
  <2>1. call[h].defect = "none"
    BY <1>3, <1>4
  <2>2. PICK c \in Undecided : c = [call[h] EXCEPT !.step = "apply"]
    BY <1>1 DEF Undecided
  <2>3. c.step = "apply" /\ c.source = call[h].source /\ c.code = call[h].code /\ c.defect = "none"
    BY <1>1, <2>1, <2>2 DEF Undecided
  <2>4. CallFits(c)
    BY <1>1, <2>3 DEF CallFits, StatusOf
  <2>5. call' = [call EXCEPT ![h] = c] /\ acknowledged' = acknowledged
    BY <1>3, <1>4, <2>2 DEF Step
  <2> QED  BY <1>2, <2>4, <2>5, CallGoesOn
<1>5. CASE wrong # "none"
  BY <1>2, <1>3, <1>5, CallEnds, NotAcknowledged DEF VnpayInv
<1> QED  BY <1>4, <1>5

\* One of all the calls finds the order pending.
LEMMA ApplyKeeps == ASSUME VnpayInv, NEW h \in Handler, Apply(h) PROVE VnpayInv'
<1>1. PICK c \in Undecided : c = call[h] /\ c.step = "apply" /\ CallFits(c)
  BY DEF Apply, VnpayInv, CallsTyped, CallsFit, NoCall, Decided
<1>2. PICK out : out = Verdict(c)
  OBVIOUS
<1>3. PICK d : d = [step |-> IF c.source = "reconciliation" THEN "notify" ELSE "refresh",
                    source |-> c.source, code |-> c.code, defect |-> c.defect,
                    issued |-> out = "confirm"]
  OBVIOUS
<1>4. /\ gateway' = gateway /\ paymentUrl' = paymentUrl /\ acknowledged' = acknowledged
      /\ announced' = announced /\ excused' = excused /\ log' = log \cup {EventOf(c)}
      /\ call' = [call EXCEPT ![h] = d]
  BY <1>1, <1>2, <1>3 DEF Apply
<1>5. /\ out = "confirm" => Settle(c, "succeeded", "issued")
      /\ out = "refund" => Settle(c, "succeeded", "refund_required")
      /\ out = "fail" => Settle(c, "failed", "failed")
      /\ out \notin {"confirm", "refund", "fail"} => row' = row
  BY <1>1, <1>2 DEF Apply
<1>6. d \in Decided /\ d.defect = "none" /\ d.source = c.source /\ d.code = c.code
      /\ (d.issued = TRUE <=> out = "confirm")
  BY <1>1, <1>3 DEF Undecided, Decided, CallFits
<1>7. out \in {"confirm", "refund"} => gateway = "paid"
  <2>1. out \in {"confirm", "refund"} => StatusOf(c) = "succeeded"
    BY <1>1, <1>2 DEF Verdict, StatusOf, CallbackStatus, CallFits
  <2> QED  BY <1>1, <2>1 DEF CallFits
<1>8. out = "confirm" => row.order = "pending"
  BY <1>2 DEF Verdict
<1>9. EventOf(c) \in Source \X Code
  BY <1>1 DEF EventOf, Undecided
<1>10. /\ row' \in PaymentRow /\ row'.ref = row.ref
       /\ row'.status = "succeeded" => row.status = "succeeded" \/ out \in {"confirm", "refund"}
       /\ \/ row'.order = row.order /\ out # "confirm"
          \/ row'.order \in {"refund_required", "failed"} /\ out # "confirm"
          \/ row'.order = "issued" /\ out = "confirm"
  <2>1. CASE out = "confirm"
    BY <1>5, <1>9, <2>1 DEF Settle, VnpayInv, CallsTyped, PaymentRow
  <2>2. CASE out = "refund"
    BY <1>5, <1>9, <2>2 DEF Settle, VnpayInv, CallsTyped, PaymentRow
  <2>3. CASE out = "fail"
    BY <1>5, <1>9, <2>3 DEF Settle, VnpayInv, CallsTyped, PaymentRow
  <2>4. CASE out \notin {"confirm", "refund", "fail"}
    BY <1>5, <2>4 DEF VnpayInv, CallsTyped
  <2> QED  BY <2>1, <2>2, <2>3, <2>4
<1>11. CallsTyped'
  BY <1>4, <1>6, <1>10 DEF VnpayInv, CallsTyped
<1>12. GatewayFits'
  BY <1>4, <1>7, <1>10 DEF VnpayInv, GatewayFits
<1>13. AnswersFit'
  BY <1>4 DEF VnpayInv, AnswersFit
<1>14. CallsFit'
  <2>1. \A g \in Handler : call'[g] = d \/ call'[g] = call[g]
    BY <1>4 DEF VnpayInv, CallsTyped
  <2>2. ASSUME NEW g \in Handler PROVE CallFits(call[g])'
    <3>1. CASE call'[g] = d
      <4>1. EventOf(d) = EventOf(c) /\ d.step \in {"refresh", "notify"}
        BY <1>6 DEF EventOf, Decided
      <4> QED  BY <1>4, <1>6, <3>1, <4>1 DEF CallFits, EventOf
    <3>2. CASE call'[g] = call[g]
      BY <1>4, <3>2 DEF VnpayInv, CallsFit, CallFits, StatusOf, EventOf, CallbackStatus, Paid
    <3> QED  BY <2>1, <3>1, <3>2
  <2> QED  BY <2>2 DEF CallsFit
<1>15. AnnouncesFit'
  <2>1. \A g \in Handler \ {h} : Due(g)' <=> Due(g)
    BY <1>4 DEF VnpayInv, CallsTyped, Due
  <2>2. Due(h)' <=> out = "confirm"
    BY <1>4, <1>6 DEF VnpayInv, CallsTyped, Due, Decided
  <2>3. ~Due(h)
    BY <1>1 DEF Due
  <2>4. CASE out = "confirm"
    <3>1. announced = 0 /\ \A g \in Handler : ~Due(g)
      BY <1>8, <2>4 DEF VnpayInv, AnnouncesFit
    <3>2. row'.order = "issued" /\ announced' = 0
      BY <1>4, <1>10, <2>4, <3>1
    <3> QED  BY <2>1, <2>2, <2>4, <3>1, <3>2 DEF AnnouncesFit
  <2>5. CASE out # "confirm"
    <3>1. \A g \in Handler : Due(g)' <=> Due(g)
      BY <2>1, <2>2, <2>3, <2>5
    <3>2. row'.order = row.order \/ row'.order \notin {"pending", "issued"}
      BY <1>10, <2>5
    <3> QED  BY <1>4, <3>1, <3>2, AnnouncesRest DEF VnpayInv
  <2> QED  BY <2>4, <2>5
<1> QED  BY <1>4, <1>11, <1>12, <1>13, <1>14, <1>15 DEF VnpayInv

LEMMA RefreshKeeps == ASSUME VnpayInv, NEW h \in Handler, Refresh(h) PROVE VnpayInv'
<1>1. PICK c \in Decided : c = call[h] /\ CallFits(c) /\ c.step = "refresh"
  BY DEF Refresh, VnpayInv, CallsTyped, CallsFit, NoCall, Undecided
<1>2. PICK d \in Decided : d = [c EXCEPT !.step = "notify"]
  BY <1>1 DEF Decided
<1>3. d.step = "notify" /\ d.source = c.source /\ d.code = c.code /\ d.defect = c.defect
      /\ d.issued = c.issued
  BY <1>2 DEF Decided
<1>4. call' = [call EXCEPT ![h] = d]
  BY <1>1, <1>2 DEF Refresh, Step
<1>5. gateway' = gateway /\ paymentUrl' = paymentUrl /\ acknowledged' = acknowledged /\ row' = row
      /\ announced' = announced /\ excused' = excused /\ log' = log
  BY DEF Refresh
<1>6. CallsTyped'
  BY <1>4, <1>5 DEF VnpayInv, CallsTyped
<1>7. GatewayFits' /\ AnswersFit'
  BY <1>5 DEF VnpayInv, GatewayFits, AnswersFit
<1>8. CallFits(d)
  BY <1>1, <1>3 DEF CallFits, EventOf
<1>9. CallsFit'
  <2>1. \A g \in Handler : call'[g] = d \/ call'[g] = call[g]
    BY <1>4 DEF VnpayInv, CallsTyped
  <2>2. ASSUME NEW g \in Handler PROVE CallFits(call[g])'
    <3>1. CASE call'[g] = d
      BY <1>5, <1>8, <3>1 DEF CallFits, StatusOf, EventOf, CallbackStatus, Paid
    <3>2. CASE call'[g] = call[g]
      BY <1>5, <3>2 DEF VnpayInv, CallsFit, CallFits, StatusOf, EventOf, CallbackStatus, Paid
    <3> QED  BY <2>1, <3>1, <3>2
  <2> QED  BY <2>2 DEF CallsFit
<1>10. \A g \in Handler : Due(g)' <=> Due(g)
  <2>1. \A g \in Handler \ {h} : call'[g] = call[g]
    BY <1>4 DEF VnpayInv, CallsTyped
  <2>2. call'[h] = d
    BY <1>4 DEF VnpayInv, CallsTyped
  <2> QED  BY <1>1, <1>3, <2>1, <2>2 DEF Due
<1>11. AnnouncesFit'
  BY <1>5, <1>10, AnnouncesRest DEF VnpayInv
<1> QED  BY <1>5, <1>6, <1>7, <1>9, <1>11 DEF VnpayInv

LEMMA NotifyKeeps == ASSUME VnpayInv, NEW h \in Handler, Notify(h) PROVE VnpayInv'
<1>1. PICK c \in Decided : c = call[h] /\ CallFits(c) /\ c.step = "notify"
  BY DEF Notify, VnpayInv, CallsTyped, CallsFit, NoCall, Undecided
<1>2. /\ gateway' = gateway /\ paymentUrl' = paymentUrl /\ row' = row /\ log' = log
      /\ excused' = excused /\ call' = [call EXCEPT ![h] = NoCall]
      /\ announced' = IF c.issued = TRUE THEN announced + 1 ELSE announced
  BY <1>1 DEF Notify, Reply, Decided
<1>3. \/ acknowledged' = acknowledged
      \/ /\ c.source = "ipn"
         /\ acknowledged' = acknowledged \cup {[code |-> c.code, defect |-> c.defect]}
  BY <1>1 DEF Notify, Reply
<1>4. CallsTyped'
  BY <1>2 DEF VnpayInv, CallsTyped
<1>5. GatewayFits'
  BY <1>2 DEF VnpayInv, GatewayFits
<1>6. AnswersFit'
  <2>1. c.defect = "none" /\ <<c.source, c.code>> \in log
    BY <1>1 DEF CallFits, EventOf
  <2>2. \A a \in acknowledged : a.defect = "none" /\ <<"ipn", a.code>> \in log
    BY DEF VnpayInv, AnswersFit
  <2>3. PICK n : n = [code |-> c.code, defect |-> c.defect]
    OBVIOUS
  <2>4. c.source = "ipn" => n.defect = "none" /\ <<"ipn", n.code>> \in log
    BY <2>1, <2>3
  <2>5. acknowledged' = acknowledged
      \/ (c.source = "ipn" /\ acknowledged' = acknowledged \cup {n})
    BY <1>3, <2>3
  <2> QED  BY <1>2, <2>2, <2>4, <2>5 DEF AnswersFit
<1>7. CallsFit'
  <2>1. \A g \in Handler : call'[g] = NoCall \/ call'[g] = call[g]
    BY <1>2 DEF VnpayInv, CallsTyped
  <2>2. ASSUME NEW g \in Handler PROVE CallFits(call[g])'
    <3>1. CASE call'[g] = NoCall
      BY <3>1 DEF CallFits, NoCall
    <3>2. CASE call'[g] = call[g]
      BY <1>2, <3>2 DEF VnpayInv, CallsFit, CallFits, StatusOf, EventOf, CallbackStatus, Paid
    <3> QED  BY <2>1, <3>1, <3>2
  <2> QED  BY <2>2 DEF CallsFit
<1>8. AnnouncesFit'
  <2>1. ~Due(h)' /\ \A g \in Handler \ {h} : Due(g)' <=> Due(g)
    BY <1>2 DEF VnpayInv, CallsTyped, Due, NoCall
  <2>2. Due(h) <=> c.issued = TRUE
    BY <1>1 DEF Due
  <2>3. CASE Due(h)
    <3>1. announced = 0 /\ announced' = 1 /\ row.order # "pending"
          /\ \A g \in Handler \ {h} : ~Due(g)
      BY <1>2, <2>2, <2>3 DEF VnpayInv, AnnouncesFit
    <3> QED  BY <1>2, <2>1, <3>1 DEF AnnouncesFit
  <2>4. CASE ~Due(h)
    <3>1. announced' = announced
      BY <1>2, <2>2, <2>4
    <3> QED  BY <1>2, <2>1, <2>4, <3>1, AnnouncesRest DEF VnpayInv
  <2> QED  BY <2>3, <2>4
<1> QED  BY <1>2, <1>4, <1>5, <1>6, <1>7, <1>8 DEF VnpayInv

LEMMA RefuseKeeps == ASSUME VnpayInv, NEW h \in Handler, Refuse(h) PROVE VnpayInv'
<1>1. ~Due(h)
  BY DEF Refuse, Due
<1> QED  BY <1>1, CallEnds DEF Refuse, VnpayInv

LEMMA CallFailsKeeps == ASSUME VnpayInv, NEW h \in Handler, CallFails(h) PROVE VnpayInv'
<1>1. Due(h) => call[h].step \in {"refresh", "notify"} /\ call[h].issued
  BY DEF Due
<1>2. excused' = (excused \/ (call[h].step \in {"refresh", "notify"} /\ call[h].issued))
  BY DEF CallFails
<1>3. excused' \in BOOLEAN /\ (excused = TRUE => excused' = TRUE) /\ (Due(h) => excused' = TRUE)
  BY <1>1, <1>2 DEF VnpayInv
<1> QED  BY <1>3, CallEnds DEF CallFails

LEMMA VnpayKeeps == VnpayInv /\ [VnpayNext]_vnpayVars => VnpayInv'
<1> SUFFICES ASSUME VnpayInv, [VnpayNext]_vnpayVars PROVE VnpayInv'  OBVIOUS
<1>1. CASE CreateIntent \/ SaveIntent \/ GatewayDecides \/ TimePasses \/ ExpireOrder
  BY <1>1, GatewaySteps
<1>2. ASSUME NEW h \in Handler,
             ReceiveIpn(h) \/ ReceiveReturn(h) \/ ReceiveQuery(h) \/ GoesOn(h) \/ CallFails(h)
      PROVE  VnpayInv'
  BY <1>2, ReceivesKeep, FindKeeps, ApplyKeeps, RefuseKeeps, RefreshKeeps, NotifyKeeps,
     CallFailsKeeps DEF GoesOn
<1>3. CASE UNCHANGED vnpayVars
  <2>1. gateway' = gateway /\ paymentUrl' = paymentUrl /\ row' = row /\ call' = call /\ log' = log
        /\ acknowledged' = acknowledged /\ announced' = announced /\ excused' = excused
    BY <1>3 DEF vnpayVars
  <2>2. CallsFit' /\ AnswersFit' /\ \A h \in Handler : Due(h)' <=> Due(h)
    BY <2>1, CallsRest
  <2>3. AnnouncesFit'
    BY <2>1, <2>2, AnnouncesRest DEF VnpayInv
  <2> QED  BY <2>1, <2>2, <2>3 DEF VnpayInv, CallsTyped, GatewayFits
<1> QED  BY <1>1, <1>2, <1>3 DEF VnpayNext

LEMMA ResultsHold == VnpayInv => ResultsAgree
<1> SUFFICES ASSUME VnpayInv PROVE ResultsAgree  OBVIOUS
<1>1. RecordsAgree
  BY DEF VnpayInv, RecordsAgree, AnswersFit, GatewayFits
<1>2. \A h \in Handler : Due(h) => call[h].step \in {"refresh", "notify"} /\ call[h].issued
  BY DEF Due
<1>3. AnnouncedOnce
  BY <1>2 DEF VnpayInv, AnnouncesFit, AnnouncedOnce
<1> QED  BY <1>1, <1>3 DEF ResultsAgree

\* VnpayResults: the gateway is told "00" for what is on record, a payment has
\* succeeded only if the gateway was paid, and the tickets are announced once
\* unless a call breaks off after its commit, for any number of callbacks.
THEOREM ResultsAlwaysAgree == VnpaySpec => []ResultsAgree
<1>1. VnpaySpec => []VnpayInv
  BY VnpayStarts, VnpayKeeps, PTL DEF VnpaySpec
<1> QED  BY <1>1, ResultsHold, PTL

-----------------------------------------------------------------------------
(* Limits                                                                  *)

Mark == [key : RateKey, by : Counter]
Counting ==
  [step : {"incr", "expire", "ttl"}, process : Backend, client : Caller, rule : Nat,
   key : RateKey, count : Nat, passed : SUBSET Mark]
HandledRow ==
  [step : {"handled"}, process : Backend, client : Caller, at : Nat, passed : SUBSET Mark]
SuspectedRow == [step : {"suspected"}, retryAt : Nat, passed : SUBSET Mark]
LimitedRow == [step : {"limited"}, key : RateKey, retryAt : Int, passed : SUBSET Mark]
OtherRow == [step : {"new", "unauthorized", "over"}, passed : SUBSET Mark]
VisitRow == Counting \cup HandledRow \cup SuspectedRow \cup LimitedRow \cup OtherRow

Count == [count : Nat, expires : Int]
Moments == UNION {[S -> Nat] : S \in SUBSET Visit}

LimitsTyped ==
  /\ now \in 0 .. MaxTime
  /\ hits \in [Counter -> [RateKey -> Count]]
  /\ attempts \in [Backend -> [Caller -> Moments]]
  /\ visit \in [Visit -> VisitRow]

\* The end of the window of a key, and whether it lasts or is yet to come.
EndOf(k) == (k.window + 1) * Window
Live(k) == now \div Window <= k.window

\* A counter outlasts the window of its key.
CountersLast ==
  \A c \in Counter, k \in RateKey : hits[c][k].count > 0 =>
    \/ hits[c][k].expires >= EndOf(k)
    \/ (c = Redis /\ hits[c][k].expires = Never)

\* A request counts for the window in which it asked to, or an older one.
KeysAreOld ==
  \A r \in Visit : visit[r].step \in {"incr", "expire", "ttl"} =>
    visit[r].key.window <= now \div Window

\* While its time is not over, an attempt that was let through is remembered.
AttemptsAreKept ==
  \A r \in Visit : visit[r].step = "handled" =>
    LET old == attempts[visit[r].process][visit[r].client]
    IN /\ visit[r].at <= now
       /\ visit[r].at >= now - RiskWindow => r \in DOMAIN old /\ old[r] = visit[r].at

\* Who was let through by a counter, and who knows from Redis that it will be.
Passed(k, c) == {r \in Visit : [key |-> k, by |-> c] \in visit[r].passed}
Counted(k) ==
  {r \in Visit : /\ visit[r].step \in {"expire", "ttl"} /\ visit[r].key = k
                 /\ visit[r].count <= Allowed[k.scope]}
Holders(k, c) == IF c = Redis THEN Passed(k, c) \cup Counted(k) ELSE Passed(k, c)

\* They are no more than the rule allows, and no more than were counted.
PassFits(k, c) ==
  /\ Cardinality(Passed(k, c)) <= Allowed[k.scope]
  /\ Live(k) => /\ Cardinality(Holders(k, c)) <= Allowed[k.scope]
                /\ Cardinality(Holders(k, c)) <= hits[c][k].count
PassesFit == \A k \in RateKey, c \in Counter : PassFits(k, c)

LimitsInv ==
  /\ LimitsTyped /\ CountersLast /\ KeysAreOld /\ AttemptsAreKept /\ PassesFit
  /\ RetryMeetsNewWindow /\ SuspectsAreSlowed

-----------------------------------------------------------------------------
(* Windows                                                                 *)

LEMMA Division ==
  ASSUME NEW n \in Nat, NEW w \in Nat \ {0}
  PROVE  n \div w \in Nat /\ (n \div w) * w <= n /\ n < (n \div w + 1) * w
  OBVIOUS

LEMMA TimesOrdered ==
  ASSUME NEW q \in Nat, NEW m \in Nat, NEW w \in Nat \ {0}, q <= m
  PROVE  q * w <= m * w
  BY SMTT(30)

LEMMA DivisionOrdered ==
  ASSUME NEW n \in Nat, NEW m \in Nat, NEW w \in Nat \ {0}, n <= m
  PROVE  n \div w <= m \div w
<1>1. PICK q \in Nat : q = n \div w /\ q * w <= n
  BY Division
<1>2. PICK p \in Nat : p = m \div w /\ m < (p + 1) * w
  BY Division
<1>3. SUFFICES ASSUME p < q PROVE FALSE
  BY <1>1, <1>2
<1>4. p + 1 <= q
  BY <1>3
<1>5. (p + 1) * w <= q * w
  BY <1>4, TimesOrdered
<1> QED  BY <1>1, <1>2, <1>5, TimesOrdered

\* A window ends after now if it lasts, and at most one window from now if it
\* has begun.
LEMMA Ends ==
  ASSUME now \in Nat, NEW k \in RateKey
  PROVE  /\ EndOf(k) \in Nat
         /\ Live(k) => EndOf(k) > now
         /\ k.window <= now \div Window => EndOf(k) <= now + Window
<1>1. k.window \in Nat /\ Window \in Nat \ {0}
  <2>1. MaxTime \div Window \in Nat
    BY LimitsAssumption, Division
  <2> QED  BY <2>1, LimitsAssumption DEF RateKey
<1>2. PICK q \in Nat : q = now \div Window /\ q * Window <= now /\ now < (q + 1) * Window
  BY <1>1, Division
<1>3. EndOf(k) \in Nat
  BY <1>1 DEF EndOf
<1>4. ASSUME Live(k) PROVE EndOf(k) > now
  <2>1. q + 1 <= k.window + 1
    BY <1>1, <1>2, <1>4 DEF Live
  <2>2. (q + 1) * Window <= (k.window + 1) * Window
    BY <1>1, <2>1, TimesOrdered
  <2> QED  BY <1>1, <1>2, <2>2 DEF EndOf
<1>5. ASSUME k.window <= now \div Window PROVE EndOf(k) <= now + Window
  <2>1. k.window * Window <= q * Window
    BY <1>1, <1>2, <1>5, TimesOrdered
  <2>2. EndOf(k) = k.window * Window + Window
    BY <1>1 DEF EndOf
  <2>3. k.window * Window \in Nat /\ q * Window \in Nat
    BY <1>1
  <2> QED  BY <1>1, <1>2, <2>1, <2>2, <2>3
<1> QED  BY <1>3, <1>4, <1>5

LEMMA LimitTypes ==
  /\ \A k \in RateKey : Allowed[k.scope] \in Nat
  /\ Window \in Nat \ {0} /\ RiskWindow \in Nat /\ RiskAttempts \in Nat \ {0} /\ RiskRetry \in Nat
  /\ MaxTime \in Nat
<1>1. \A k \in RateKey : k.scope \in DOMAIN Allowed
  BY LimitsAssumption DEF RateKey, Scope
<1> QED  BY <1>1, LimitsAssumption

LEMMA VisitsFinite ==
  ASSUME NEW S, S \subseteq Visit
  PROVE  IsFiniteSet(S) /\ Cardinality(S) \in Nat
  BY LimitsAssumption, FS_Subset, FS_CardinalityType

\* A set of requests in another is no larger, and one more is at most one more.
LEMMA AtMost ==
  ASSUME NEW S, NEW T, S \subseteq T, T \subseteq Visit
  PROVE  Cardinality(S) <= Cardinality(T) /\ Cardinality(S) \in Nat /\ Cardinality(T) \in Nat
<1>1. IsFiniteSet(T) /\ Cardinality(T) \in Nat /\ Cardinality(S) \in Nat
  BY VisitsFinite
<1> QED  BY <1>1, FS_Subset

LEMMA OneMore ==
  ASSUME NEW S, NEW T, NEW r \in Visit, S \subseteq T \cup {r}, T \subseteq Visit
  PROVE  Cardinality(S) <= Cardinality(T) + 1 /\ Cardinality(S) \in Nat /\ Cardinality(T) \in Nat
<1>1. IsFiniteSet(T) /\ Cardinality(T) \in Nat
  BY VisitsFinite
<1>2. Cardinality(T \cup {r}) <= Cardinality(T) + 1
  <2>1. Cardinality(T \cup {r}) = IF r \in T THEN Cardinality(T) ELSE Cardinality(T) + 1
    BY <1>1, FS_AddElement
  <2> QED  BY <1>1, <2>1
<1>3. Cardinality(S) <= Cardinality(T \cup {r}) /\ Cardinality(S) \in Nat
      /\ Cardinality(T \cup {r}) \in Nat
  <2>1. T \cup {r} \subseteq Visit
    OBVIOUS
  <2> QED  BY <2>1, AtMost
<1> QED  BY <1>1, <1>2, <1>3

LEMMA HoldersAreVisits ==
  \A k, c : Passed(k, c) \subseteq Holders(k, c) /\ Holders(k, c) \subseteq Visit
  BY DEF Passed, Holders, Counted

LEMMA LimitsStart == LimitsInit => LimitsInv
<1> SUFFICES ASSUME LimitsInit PROVE LimitsInv  OBVIOUS
<1>1. LimitsTyped
  <2>1. now \in 0 .. MaxTime
    BY LimitTypes DEF LimitsInit
  <2>2. NoCount \in Count
    BY DEF NoCount, Count, Never
  <2>3. hits \in [Counter -> [RateKey -> Count]]
    BY <2>2 DEF LimitsInit, Empty
  <2>4. [r \in {} |-> 0] \in Moments
    <3>1. [r \in {} |-> 0] \in [{} -> Nat]
      OBVIOUS
    <3> QED  BY <3>1 DEF Moments
  <2>5. attempts \in [Backend -> [Caller -> Moments]]
    BY <2>4 DEF LimitsInit, NoAttempts
  <2>6. visit \in [Visit -> VisitRow]
    BY DEF LimitsInit, NewRequest, VisitRow, OtherRow
  <2> QED  BY <2>1, <2>3, <2>5, <2>6 DEF LimitsTyped
<1>2. CountersLast
  BY DEF LimitsInit, CountersLast, Empty, NoCount
<1>3. KeysAreOld /\ AttemptsAreKept /\ RetryMeetsNewWindow
  BY DEF LimitsInit, KeysAreOld, AttemptsAreKept, RetryMeetsNewWindow, NewRequest
<1>4. PassesFit
  <2>1. ASSUME NEW k \in RateKey, NEW c \in Counter PROVE PassFits(k, c)
    <3>1. Passed(k, c) = {} /\ Holders(k, c) = {}
      BY DEF LimitsInit, Passed, Holders, Counted, NewRequest
    <3>2. hits[c][k].count = 0
      BY DEF LimitsInit, Empty, NoCount
    <3>3. Cardinality({}) = 0
      BY FS_EmptySet
    <3> QED  BY <3>1, <3>2, <3>3, LimitTypes DEF PassFits
  <2> QED  BY <2>1 DEF PassesFit
<1>5. SuspectsAreSlowed
  <2>1. ASSUME NEW p \in Backend, NEW c \in Caller, NEW t \in 0 .. MaxTime
        PROVE  {r \in Visit : /\ visit[r].step = "handled" /\ visit[r].client = c
                              /\ visit[r].process = p /\ visit[r].at \in t .. t + RiskWindow} = {}
    BY DEF LimitsInit, NewRequest
  <2>2. Cardinality({}) < RiskAttempts
    BY FS_EmptySet, LimitTypes
  <2> QED  BY <2>1, <2>2 DEF SuspectsAreSlowed
<1> QED  BY <1>1, <1>2, <1>3, <1>4, <1>5 DEF LimitsInv

-----------------------------------------------------------------------------
(* What a step does to the counts                                          *)

\* Nobody new holds a place, and nothing that was counted is forgotten.
LEMMA PlacesKept ==
  ASSUME NEW k \in RateKey, NEW c \in Counter, PassFits(k, c), Live(k)' => Live(k),
         hits[c][k].count \in Nat, hits'[c][k].count \in Nat,
         Passed(k, c)' \subseteq Passed(k, c) \cup (IF Live(k) THEN Holders(k, c) ELSE {}),
         Live(k) => Holders(k, c)' \subseteq Holders(k, c) /\ hits'[c][k].count >= hits[c][k].count
  PROVE  PassFits(k, c)'
<1>1. Allowed[k.scope] \in Nat
  BY LimitTypes
<1>2. Cardinality(Passed(k, c)') <= Allowed[k.scope]
  <2>1. CASE Live(k)
    <3>1. Passed(k, c)' \subseteq Holders(k, c)
      BY <2>1, HoldersAreVisits
    <3>2. Cardinality(Passed(k, c)') <= Cardinality(Holders(k, c))
          /\ Cardinality(Passed(k, c)') \in Nat /\ Cardinality(Holders(k, c)) \in Nat
      BY <3>1, HoldersAreVisits, AtMost
    <3> QED  BY <1>1, <2>1, <3>2 DEF PassFits
  <2>2. CASE ~Live(k)
    <3>1. Passed(k, c)' \subseteq Passed(k, c) /\ Passed(k, c) \subseteq Visit
      BY <2>2, HoldersAreVisits
    <3>2. Cardinality(Passed(k, c)') <= Cardinality(Passed(k, c))
          /\ Cardinality(Passed(k, c)') \in Nat /\ Cardinality(Passed(k, c)) \in Nat
      BY <3>1, AtMost
    <3> QED  BY <1>1, <3>2 DEF PassFits
  <2> QED  BY <2>1, <2>2
<1>3. ASSUME Live(k)
      PROVE  Cardinality(Holders(k, c)') <= Allowed[k.scope]
             /\ Cardinality(Holders(k, c)') <= hits'[c][k].count
  <2>1. Holders(k, c)' \subseteq Holders(k, c) /\ Holders(k, c) \subseteq Visit
    BY <1>3, HoldersAreVisits
  <2>2. Cardinality(Holders(k, c)') <= Cardinality(Holders(k, c))
        /\ Cardinality(Holders(k, c)') \in Nat /\ Cardinality(Holders(k, c)) \in Nat
    BY <2>1, AtMost
  <2> QED  BY <1>1, <1>3, <2>2 DEF PassFits
<1> QED  BY <1>2, <1>3 DEF PassFits

\* One request more holds a place, and is counted.
LEMMA PlaceTaken ==
  ASSUME NEW k \in RateKey, NEW c \in Counter, NEW r \in Visit, PassFits(k, c), Live(k),
         hits[c][k].count \in Nat, hits'[c][k].count = hits[c][k].count + 1,
         hits[c][k].count + 1 <= Allowed[k.scope],
         Passed(k, c)' \subseteq Holders(k, c) \cup {r},
         Holders(k, c)' \subseteq Holders(k, c) \cup {r}
  PROVE  PassFits(k, c)'
<1>1. Allowed[k.scope] \in Nat
  BY LimitTypes
<1>2. Cardinality(Holders(k, c)') <= Cardinality(Holders(k, c)) + 1
      /\ Cardinality(Holders(k, c)') \in Nat /\ Cardinality(Holders(k, c)) \in Nat
  BY HoldersAreVisits, OneMore
<1>3. Cardinality(Passed(k, c)') <= Cardinality(Holders(k, c)) + 1
      /\ Cardinality(Passed(k, c)') \in Nat
  BY HoldersAreVisits, OneMore
<1>4. Cardinality(Holders(k, c)) <= hits[c][k].count
  BY DEF PassFits
<1> QED  BY <1>1, <1>2, <1>3, <1>4 DEF PassFits

-----------------------------------------------------------------------------
(* The rules, one after the other                                          *)

LEMMA KeysForNow ==
  ASSUME LimitsTyped, NEW c \in Caller, NEW i \in DOMAIN Rules
  PROVE  KeyFor(c, i) \in RateKey /\ KeyFor(c, i).window = now \div Window
<1>1. now \in Nat /\ now <= MaxTime
  BY LimitTypes DEF LimitsTyped
<1>2. now \div Window \in 0 .. MaxTime \div Window
  <2>1. now \div Window \in Nat /\ MaxTime \div Window \in Nat
    BY <1>1, LimitTypes, Division
  <2>2. now \div Window <= MaxTime \div Window
    BY <1>1, LimitTypes, DivisionOrdered
  <2> QED  BY <2>1, <2>2
<1>3. Rules[i] \in Scope
  BY DEF Scope
<1>4. Identifier[Rules[i]][c] \in UNION {{Identifier[s][d] : d \in Caller} : s \in Scope}
  BY <1>3
<1> QED  BY <1>2, <1>3, <1>4 DEF KeyFor, RateKey

\* Where a request goes that the counters have let through so far.
Goes(r, v, passed) ==
  /\ v \in VisitRow /\ visit' = [visit EXCEPT ![r] = v] /\ v.passed = passed
  /\ v.step \in {"unauthorized", "incr", "handled", "suspected"}
  /\ v.step = "incr" => v.key.window = now \div Window

Attempt(r, p, c) ==
  attempts' = [attempts EXCEPT ![p] = [@ EXCEPT ![c] =
    [q \in Recent(p, c) \cup {r} |-> IF q = r THEN now ELSE attempts[p][c][q]]]]

\* It leaves the attempts alone, or adds its own.
Tries(r, v, p, c) ==
  \/ attempts' = attempts /\ v.step # "handled"
  \/ /\ Attempt(r, p, c)
     /\ v.step = "handled" =>
          /\ v.process = p /\ v.client = c /\ v.at = now
          /\ Score(c, Cardinality(Recent(p, c) \cup {r})) < 3

LEMMA CheckedRules ==
  ASSUME LimitsTyped, NEW r \in Visit, NEW p \in Backend, NEW c \in Caller, NEW i \in Nat, i >= 1,
         NEW passed \in SUBSET Mark, CheckRules(r, p, c, i, passed)
  PROVE  \E v : Goes(r, v, passed) /\ Tries(r, v, p, c)
<1>1. now \in Nat
  BY LimitTypes DEF LimitsTyped
<1>2. CASE Unauthorized(r, passed)
  <2>1. PICK v : v = [step |-> "unauthorized", passed |-> passed]
    OBVIOUS
  <2>2. v \in VisitRow /\ v.step = "unauthorized" /\ v.passed = passed
    BY <2>1 DEF VisitRow, OtherRow
  <2> QED  BY <1>2, <2>1, <2>2 DEF Unauthorized, Goes, Tries
<1>3. CASE RiskGuard(r, p, c, passed)
  <2>1. Attempt(r, p, c)
    BY <1>3 DEF RiskGuard, Attempt
  <2>2. CASE Score(c, Cardinality(Recent(p, c) \cup {r})) < 3
    <3>1. PICK v : v = [step |-> "handled", process |-> p, client |-> c, at |-> now,
                        passed |-> passed]
      OBVIOUS
    <3>2. v \in HandledRow /\ v.step = "handled" /\ v.passed = passed
          /\ v.process = p /\ v.client = c /\ v.at = now
      BY <1>1, <3>1 DEF HandledRow
    <3>3. visit' = [visit EXCEPT ![r] = v]
      BY <1>3, <2>2, <3>1 DEF RiskGuard
    <3>4. Goes(r, v, passed)
      BY <3>2, <3>3 DEF Goes, VisitRow
    <3>5. Tries(r, v, p, c)
      BY <2>1, <2>2, <3>2 DEF Tries
    <3> QED  BY <3>4, <3>5
  <2>3. CASE ~(Score(c, Cardinality(Recent(p, c) \cup {r})) < 3)
    <3>1. PICK v : v = [step |-> "suspected", retryAt |-> now + RiskRetry, passed |-> passed]
      OBVIOUS
    <3>2. v \in SuspectedRow /\ v.step = "suspected" /\ v.passed = passed
      BY <1>1, <3>1, LimitTypes DEF SuspectedRow
    <3>3. visit' = [visit EXCEPT ![r] = v]
      BY <1>3, <2>3, <3>1 DEF RiskGuard
    <3>4. Goes(r, v, passed)
      BY <3>2, <3>3 DEF Goes, VisitRow
    <3>5. Tries(r, v, p, c)
      BY <2>1, <3>2 DEF Tries
    <3> QED  BY <3>4, <3>5
  <2> QED  BY <2>2, <2>3
<1>4. ASSUME NEW j \in i .. Len(Rules), attempts' = attempts,
             visit' = [visit EXCEPT ![r] =
               [step |-> "incr", process |-> p, client |-> c, rule |-> j,
                key |-> KeyFor(c, j), count |-> 0, passed |-> passed]]
      PROVE  \E v : Goes(r, v, passed) /\ Tries(r, v, p, c)
  <2>1. PICK v : v = [step |-> "incr", process |-> p, client |-> c, rule |-> j,
                      key |-> KeyFor(c, j), count |-> 0, passed |-> passed]
    OBVIOUS
  <2>2. j \in DOMAIN Rules /\ j \in Nat
    BY LimitsAssumption
  <2>3. KeyFor(c, j) \in RateKey /\ KeyFor(c, j).window = now \div Window
    BY <2>2, KeysForNow
  <2>4. v \in Counting /\ v.step = "incr" /\ v.passed = passed /\ v.key = KeyFor(c, j)
    BY <2>1, <2>2, <2>3 DEF Counting
  <2>5. Goes(r, v, passed)
    BY <1>4, <2>1, <2>3, <2>4 DEF Goes, VisitRow
  <2>6. Tries(r, v, p, c)
    BY <1>4, <2>4 DEF Tries
  <2> QED  BY <2>5, <2>6
<1>5. \/ Unauthorized(r, passed)
      \/ RiskGuard(r, p, c, passed)
      \/ \E j \in i .. Len(Rules) :
           /\ attempts' = attempts
           /\ visit' = [visit EXCEPT ![r] =
                [step |-> "incr", process |-> p, client |-> c, rule |-> j,
                 key |-> KeyFor(c, j), count |-> 0, passed |-> passed]]
  BY DEF CheckRules
<1> QED  BY <1>2, <1>3, <1>4, <1>5

\* The verdict of a rule.
LEMMA RuleDecides ==
  ASSUME LimitsTyped, NEW r \in Visit, visit[r] \in Counting, NEW by \in Counter, NEW n \in Nat,
         NEW retryAfter \in Int, Decide(r, by, n, retryAfter)
  PROVE  LET q == visit[r]
         IN \E v :
              \/ /\ n > Allowed[q.key.scope] /\ attempts' = attempts
                 /\ v \in VisitRow /\ visit' = [visit EXCEPT ![r] = v] /\ v.passed = q.passed
                 /\ v.step = "limited" /\ v.key = q.key /\ v.retryAt = now + retryAfter
              \/ /\ n <= Allowed[q.key.scope]
                 /\ Goes(r, v, IF now \div Window = q.key.window
                               THEN q.passed \cup {[key |-> q.key, by |-> by]} ELSE q.passed)
                 /\ Tries(r, v, q.process, q.client)
<1>1. PICK q \in Counting : q = visit[r]
  OBVIOUS
<1>2. q.key \in RateKey /\ q.process \in Backend /\ q.client \in Caller /\ q.rule \in Nat
      /\ q.passed \in SUBSET Mark
  BY <1>1 DEF Counting
<1>3. now \in Nat /\ Allowed[q.key.scope] \in Nat
  BY <1>2, LimitTypes DEF LimitsTyped
<1>4. CASE OverLimit(q.key.scope, n)
  <2>1. PICK v : v = [step |-> "limited", key |-> q.key, retryAt |-> now + retryAfter,
                      passed |-> q.passed]
    OBVIOUS
  <2>2. v \in LimitedRow /\ v.step = "limited" /\ v.key = q.key /\ v.passed = q.passed
        /\ v.retryAt = now + retryAfter
    BY <1>2, <1>3, <2>1 DEF LimitedRow
  <2>3. visit' = [visit EXCEPT ![r] = v] /\ attempts' = attempts
    BY <1>1, <1>4, <2>1 DEF Decide
  <2> QED  BY <1>1, <1>4, <2>2, <2>3 DEF OverLimit, VisitRow
<1>5. CASE ~OverLimit(q.key.scope, n)
  <2>1. PICK passed : passed = IF now \div Window = q.key.window
                               THEN q.passed \cup {[key |-> q.key, by |-> by]} ELSE q.passed
    OBVIOUS
  <2>2. CheckRules(r, q.process, q.client, q.rule + 1, passed)
    BY <1>1, <1>5, <2>1 DEF Decide
  <2>3. [key |-> q.key, by |-> by] \in Mark
    BY <1>2 DEF Mark
  <2>4. passed \in SUBSET Mark
    BY <1>2, <2>1, <2>3
  <2>5. \E v : Goes(r, v, passed) /\ Tries(r, v, q.process, q.client)
    BY <1>2, <2>2, <2>4, CheckedRules
  <2>6. n <= Allowed[q.key.scope]
    BY <1>3, <1>5 DEF OverLimit
  <2> QED  BY <1>1, <2>1, <2>5, <2>6
<1> QED  BY <1>4, <1>5

-----------------------------------------------------------------------------
(* Attempts                                                                *)

LEMMA AttemptAdded ==
  ASSUME LimitsTyped, NEW r \in Visit, NEW p \in Backend, NEW c \in Caller, Attempt(r, p, c)
  PROVE  /\ attempts' \in [Backend -> [Caller -> Moments]]
         /\ r \in DOMAIN attempts'[p][c] /\ attempts'[p][c][r] = now
         /\ \A q \in Recent(p, c) \ {r} :
              q \in DOMAIN attempts'[p][c] /\ attempts'[p][c][q] = attempts[p][c][q]
         /\ \A b \in Backend, d \in Caller :
              <<b, d>> # <<p, c>> => attempts'[b][d] = attempts[b][d]
         /\ Recent(p, c) \subseteq Visit
<1>1. PICK S \in SUBSET Visit : attempts[p][c] \in [S -> Nat]
  <2>1. attempts[p][c] \in Moments
    BY DEF LimitsTyped
  <2>2. \A m \in Moments : \E S \in SUBSET Visit : m \in [S -> Nat]
    BY DEF Moments
  <2> QED  BY <2>1, <2>2
<1>2. Recent(p, c) \subseteq S
  BY <1>1 DEF Recent
<1>3. PICK new : new = [q \in Recent(p, c) \cup {r} |-> IF q = r THEN now ELSE attempts[p][c][q]]
  OBVIOUS
<1>4. now \in Nat
  BY LimitTypes DEF LimitsTyped
<1>5. new \in [Recent(p, c) \cup {r} -> Nat]
  BY <1>1, <1>2, <1>3, <1>4
<1>6. new \in Moments
  <2>1. Recent(p, c) \cup {r} \in SUBSET Visit
    BY <1>2
  <2> QED  BY <1>5, <2>1 DEF Moments
<1>7. attempts' = [attempts EXCEPT ![p] = [@ EXCEPT ![c] = new]]
  BY <1>3 DEF Attempt
<1>8. attempts' \in [Backend -> [Caller -> Moments]] /\ attempts'[p][c] = new
      /\ \A b \in Backend, d \in Caller :
           <<b, d>> # <<p, c>> => attempts'[b][d] = attempts[b][d]
  BY <1>6, <1>7 DEF LimitsTyped
<1> QED  BY <1>2, <1>3, <1>8

\* The attempts of a client that a process let through in a span of time.
Through(b, d, t) ==
  {q \in Visit : /\ visit[q].step = "handled" /\ visit[q].client = d
                 /\ visit[q].process = b /\ visit[q].at \in t .. t + RiskWindow}

LEMMA FewerThrough ==
  ASSUME LimitsInv, NEW b \in Backend, NEW d \in Caller, NEW t \in 0 .. MaxTime, BaseScore[d] > 0,
         Through(b, d, t)' \subseteq Through(b, d, t)
  PROVE  Cardinality(Through(b, d, t)') < RiskAttempts
<1>1. Through(b, d, t) \subseteq Visit
  BY DEF Through
<1>2. Cardinality(Through(b, d, t)') <= Cardinality(Through(b, d, t))
      /\ Cardinality(Through(b, d, t)') \in Nat /\ Cardinality(Through(b, d, t)) \in Nat
  BY <1>1, AtMost
<1>3. Cardinality(Through(b, d, t)) < RiskAttempts
  BY DEF LimitsInv, SuspectsAreSlowed, Through
<1> QED  BY <1>2, <1>3, LimitTypes

LEMMA SlowedByThrough ==
  ASSUME \A b \in Backend, d \in Caller, t \in 0 .. MaxTime :
           BaseScore[d] > 0 => Cardinality(Through(b, d, t)') < RiskAttempts
  PROVE  SuspectsAreSlowed'
  BY DEF SuspectsAreSlowed, Through

\* A suspicious client is let through only if it has few attempts on record,
\* and those it was let through with are among them.
LEMMA TriesKeep ==
  ASSUME LimitsInv, NEW r \in Visit, NEW p \in Backend, NEW c \in Caller, NEW v \in VisitRow,
         visit' = [visit EXCEPT ![r] = v], Tries(r, v, p, c), now' = now
  PROVE  attempts' \in [Backend -> [Caller -> Moments]] /\ AttemptsAreKept' /\ SuspectsAreSlowed'
<1>1. now \in Nat /\ RiskWindow \in Nat /\ RiskAttempts \in Nat
  BY LimitTypes DEF LimitsInv, LimitsTyped
<1>2. visit'[r] = v /\ (\A q \in Visit \ {r} : visit'[q] = visit[q])
  BY DEF LimitsInv, LimitsTyped
<1>3. \A q \in Visit : visit[q].step = "handled" =>
         visit[q].process \in Backend /\ visit[q].client \in Caller /\ visit[q].at \in Nat
  BY DEF LimitsInv, LimitsTyped, VisitRow, Counting, HandledRow, SuspectedRow, LimitedRow, OtherRow
<1>6. CASE attempts' = attempts /\ v.step # "handled"
  <2>1. AttemptsAreKept'
    BY <1>2, <1>6 DEF LimitsInv, AttemptsAreKept
  <2>3. SuspectsAreSlowed'
    <3>1. ASSUME NEW b \in Backend, NEW d \in Caller, NEW t \in 0 .. MaxTime, BaseScore[d] > 0
          PROVE  Cardinality(Through(b, d, t)') < RiskAttempts
      <4>1. Through(b, d, t)' \subseteq Through(b, d, t)
        BY <1>2, <1>6 DEF Through
      <4> QED  BY <3>1, <4>1, FewerThrough
    <3> QED  BY <3>1, SlowedByThrough
  <2> QED  BY <1>6, <2>1, <2>3 DEF LimitsInv, LimitsTyped
<1>7. CASE /\ Attempt(r, p, c)
           /\ v.step = "handled" =>
                /\ v.process = p /\ v.client = c /\ v.at = now
                /\ Score(c, Cardinality(Recent(p, c) \cup {r})) < 3
  <2>1. /\ attempts' \in [Backend -> [Caller -> Moments]]
        /\ r \in DOMAIN attempts'[p][c] /\ attempts'[p][c][r] = now
        /\ \A q \in Recent(p, c) \ {r} :
             q \in DOMAIN attempts'[p][c] /\ attempts'[p][c][q] = attempts[p][c][q]
        /\ \A b \in Backend, d \in Caller :
             <<b, d>> # <<p, c>> => attempts'[b][d] = attempts[b][d]
        /\ Recent(p, c) \subseteq Visit
    BY <1>7, AttemptAdded DEF LimitsInv
  <2>2. \A q \in Visit : /\ visit[q].step = "handled" /\ visit[q].process = p /\ visit[q].client = c
                          /\ visit[q].at >= now - RiskWindow
          => q \in Recent(p, c) /\ attempts[p][c][q] = visit[q].at
    BY DEF LimitsInv, AttemptsAreKept, Recent
  <2>3. AttemptsAreKept'
    <3>1. ASSUME NEW q \in Visit, visit'[q].step = "handled"
          PROVE  /\ visit'[q].at <= now
                 /\ visit'[q].at >= now - RiskWindow =>
                      /\ q \in DOMAIN attempts'[visit'[q].process][visit'[q].client]
                      /\ attempts'[visit'[q].process][visit'[q].client][q] = visit'[q].at
      <4>1. CASE q = r
        BY <1>1, <1>2, <1>7, <2>1, <3>1, <4>1
      <4>2. CASE q # r
        <5>1. visit'[q] = visit[q] /\ visit[q].step = "handled"
          BY <1>2, <3>1, <4>2
        <5>2. PICK b \in Backend, d \in Caller : b = visit[q].process /\ d = visit[q].client
          BY <1>3, <5>1
        <5>3. visit[q].at <= now
          BY <5>1 DEF LimitsInv, AttemptsAreKept
        <5>4. visit[q].at >= now - RiskWindow =>
                q \in DOMAIN attempts[b][d] /\ attempts[b][d][q] = visit[q].at
          BY <5>1, <5>2 DEF LimitsInv, AttemptsAreKept
        <5>5. CASE b = p /\ d = c
          <6>1. CASE ~(visit[q].at >= now - RiskWindow)
            BY <5>1, <5>3, <6>1
          <6>2. CASE visit[q].at >= now - RiskWindow
            <7>1. q \in Recent(p, c) /\ attempts[p][c][q] = visit[q].at
              BY <2>2, <5>1, <5>2, <5>5, <6>2
            <7>2. q \in DOMAIN attempts'[p][c] /\ attempts'[p][c][q] = visit[q].at
              BY <2>1, <4>2, <7>1
            <7> QED  BY <5>1, <5>2, <5>3, <5>5, <7>2
          <6> QED  BY <6>1, <6>2
        <5>6. CASE ~(b = p /\ d = c)
          <6>1. attempts'[b][d] = attempts[b][d]
            BY <2>1, <5>6
          <6> QED  BY <5>1, <5>2, <5>3, <5>4, <6>1
        <5> QED  BY <5>5, <5>6
      <4> QED  BY <4>1, <4>2
    <3> QED  BY <3>1 DEF AttemptsAreKept
  <2>4. ASSUME NEW b \in Backend, NEW d \in Caller, NEW t \in 0 .. MaxTime, BaseScore[d] > 0
        PROVE  Cardinality(Through(b, d, t)') < RiskAttempts
    <3>1. CASE r \in Through(b, d, t)'
      <4>1. v.step = "handled" /\ b = p /\ d = c /\ now \in t .. t + RiskWindow
        BY <1>2, <1>7, <3>1 DEF Through
      <4>2. \A q \in Through(b, d, t)' \ {r} : q \in Recent(p, c)
        <5>1. \A q \in Through(b, d, t)' \ {r} :
                /\ q \in Visit /\ visit[q].step = "handled" /\ visit[q].process = p
                /\ visit[q].client = c /\ visit[q].at \in t .. t + RiskWindow
          BY <1>2, <4>1 DEF Through
        <5>2. \A n \in t .. t + RiskWindow : n >= now - RiskWindow
          BY <1>1, <4>1
        <5> QED  BY <2>2, <5>1, <5>2
      <4>3. Cardinality(Recent(p, c) \cup {r}) < RiskAttempts
        <5>1. Cardinality(Recent(p, c) \cup {r}) \in Nat
          <6>1. Recent(p, c) \cup {r} \subseteq Visit
            BY <2>1
          <6> QED  BY <6>1, VisitsFinite
        <5>2. PICK n \in Nat : n = Cardinality(Recent(p, c) \cup {r})
          BY <5>1
        <5>3. Score(c, n) < 3 /\ BaseScore[c] > 0 /\ BaseScore[c] \in Nat
          BY <1>7, <2>4, <4>1, <5>2, LimitsAssumption
        <5>4. n < RiskAttempts
          BY <1>1, <5>3 DEF Score
        <5> QED  BY <5>2, <5>4
      <4>4. Cardinality(Through(b, d, t)') <= Cardinality(Recent(p, c) \cup {r})
            /\ Cardinality(Through(b, d, t)') \in Nat
            /\ Cardinality(Recent(p, c) \cup {r}) \in Nat
        <5>1. Through(b, d, t)' \subseteq Recent(p, c) \cup {r}
          BY <4>2
        <5>2. Recent(p, c) \cup {r} \subseteq Visit
          BY <2>1
        <5> QED  BY <5>1, <5>2, AtMost
      <4> QED  BY <1>1, <4>3, <4>4
    <3>2. CASE r \notin Through(b, d, t)'
      <4>1. Through(b, d, t)' \subseteq Through(b, d, t)
        BY <1>2, <3>2 DEF Through
      <4> QED  BY <2>4, <4>1, FewerThrough
    <3> QED  BY <3>1, <3>2
  <2>5. SuspectsAreSlowed'
    BY <2>4, SlowedByThrough
  <2> QED  BY <2>1, <2>3, <2>5
<1> QED  BY <1>6, <1>7 DEF Tries

-----------------------------------------------------------------------------
(* Steps                                                                   *)

\* All but the counters, for a step of one request.
OthersKept ==
  /\ now' \in 0 .. MaxTime /\ attempts' \in [Backend -> [Caller -> Moments]]
  /\ visit' \in [Visit -> VisitRow]
  /\ KeysAreOld' /\ AttemptsAreKept' /\ RetryMeetsNewWindow' /\ SuspectsAreSlowed'

LEMMA VisitPart ==
  ASSUME LimitsInv, NEW r \in Visit, NEW p \in Backend, NEW c \in Caller, NEW v \in VisitRow,
         visit' = [visit EXCEPT ![r] = v], Tries(r, v, p, c), now' = now,
         v.step \in {"incr", "expire", "ttl"} => v.key.window <= now \div Window,
         v.step = "limited" => v.retryAt >= EndOf(v.key)
  PROVE  OthersKept
<1>1. /\ attempts' \in [Backend -> [Caller -> Moments]] /\ AttemptsAreKept' /\ SuspectsAreSlowed'
  BY TriesKeep
<1>2. visit' \in [Visit -> VisitRow] /\ visit'[r] = v /\ (\A q \in Visit \ {r} : visit'[q] = visit[q])
  BY DEF LimitsInv, LimitsTyped
<1>3. KeysAreOld'
  BY <1>2 DEF LimitsInv, KeysAreOld
<1>4. RetryMeetsNewWindow'
  BY <1>2 DEF LimitsInv, RetryMeetsNewWindow, EndOf
<1> QED  BY <1>1, <1>2, <1>3, <1>4 DEF LimitsInv, LimitsTyped, OthersKept

\* A request that leaves its counter takes along what it has passed.
LEMMA LeavesCounter ==
  ASSUME LimitsInv, NEW r \in Visit, NEW v \in VisitRow, visit' = [visit EXCEPT ![r] = v],
         v.step \notin {"expire", "ttl"}, NEW M, v.passed \subseteq visit[r].passed \cup M,
         NEW k, NEW c
  PROVE  /\ Counted(k)' \subseteq Counted(k)
         /\ Passed(k, c)' \subseteq Passed(k, c) \cup {r}
         /\ [key |-> k, by |-> c] \notin M => Passed(k, c)' \subseteq Passed(k, c)
<1>1. Passed(k, c)' = {q \in Visit : IF q = r THEN [key |-> k, by |-> c] \in v.passed
                                      ELSE q \in Passed(k, c)}
  <2>1. visit'[r] = v /\ \A q \in Visit \ {r} : visit'[q] = visit[q]
    BY DEF LimitsInv, LimitsTyped
  <2> QED  BY <2>1 DEF Passed
<1>2. \A q \in Visit \ {r} : q \in Counted(k)' <=> q \in Counted(k)
  <2>1. \A q \in Visit \ {r} : visit'[q] = visit[q]
    BY DEF LimitsInv, LimitsTyped
  <2> QED  BY <2>1 DEF Counted
<1>3. r \notin Counted(k)'
  <2>1. visit'[r] = v
    BY DEF LimitsInv, LimitsTyped
  <2> QED  BY <2>1 DEF Counted
<1>4. Counted(k)' \subseteq Visit
  BY DEF Counted
<1>5. Counted(k)' \subseteq Counted(k)
  BY <1>2, <1>3, <1>4
<1>6. Passed(k, c)' \subseteq Passed(k, c) \cup {r}
  BY <1>1
<1>7. ASSUME [key |-> k, by |-> c] \notin M PROVE Passed(k, c)' \subseteq Passed(k, c)
  <2>1. [key |-> k, by |-> c] \in v.passed => r \in Passed(k, c)
    BY <1>7 DEF Passed
  <2> QED  BY <1>1, <2>1
<1> QED  BY <1>5, <1>6, <1>7

LEMMA LiveIsCurrent ==
  ASSUME LimitsInv, NEW c \in Counter, NEW k \in RateKey, Live(k), hits[c][k].count > 0
  PROVE  Current(c, k)
<1>1. EndOf(k) \in Nat /\ EndOf(k) > now /\ now \in Nat
  BY Ends, LimitTypes DEF LimitsInv, LimitsTyped
<1>2. hits[c][k].expires \in Int
  BY DEF LimitsInv, LimitsTyped, Count
<1> QED  BY <1>1, <1>2 DEF LimitsInv, CountersLast, Current

LEMMA CountTypes ==
  ASSUME LimitsInv, NEW c \in Counter, NEW k \in RateKey
  PROVE  hits[c][k] \in Count /\ hits[c][k].count \in Nat /\ hits[c][k].expires \in Int
  BY DEF LimitsInv, LimitsTyped, Count

LEMMA Waiting ==
  ASSUME LimitsInv, NEW r \in Visit, visit[r].step \in {"incr", "expire", "ttl"}
  PROVE  /\ visit[r] \in Counting
         /\ visit[r].key \in RateKey /\ visit[r].key.window <= now \div Window
         /\ visit[r].process \in Backend /\ visit[r].client \in Caller /\ visit[r].count \in Nat
         /\ visit[r].passed \in SUBSET Mark
<1>1. visit[r] \in Counting
  BY DEF LimitsInv, LimitsTyped, VisitRow, Counting, HandledRow, SuspectedRow, LimitedRow, OtherRow
<1>2. visit[r].key.window <= now \div Window
  BY DEF LimitsInv, KeysAreOld
<1> QED  BY <1>1, <1>2 DEF Counting

LEMMA ArriveKeeps ==
  ASSUME LimitsInv, NEW r \in Visit, NEW p \in Backend, NEW c \in Caller, Arrive(r, p, c)
  PROVE  LimitsInv'
<1>1. now' = now /\ hits' = hits
  BY DEF Arrive
<1>2. PICK v : Goes(r, v, {}) /\ Tries(r, v, p, c)
  BY CheckedRules DEF Arrive, LimitsInv
<1>3. OthersKept
  <2>1. now \div Window \in Nat
    <3>1. now \in Nat
      BY LimitTypes DEF LimitsInv, LimitsTyped
    <3> QED  BY <3>1, LimitTypes, Division
  <2>2. v \in VisitRow /\ visit' = [visit EXCEPT ![r] = v] /\ v.step \notin {"expire", "ttl", "limited"}
        /\ (v.step = "incr" => v.key.window <= now \div Window)
    BY <1>2, <2>1 DEF Goes
  <2> QED  BY <1>1, <1>2, <2>2, VisitPart
<1>4. CountersLast'
  BY <1>1 DEF LimitsInv, CountersLast
<1>5. PassesFit'
  <2>1. ASSUME NEW k \in RateKey, NEW d \in Counter PROVE PassFits(k, d)'
    <3>1. Counted(k)' \subseteq Counted(k) /\ Passed(k, d)' \subseteq Passed(k, d)
      BY <1>2, LeavesCounter DEF Goes
    <3>2. Holders(k, d)' \subseteq Holders(k, d)
      BY <3>1 DEF Holders
    <3>3. PassFits(k, d) /\ (Live(k)' => Live(k))
      BY <1>1 DEF LimitsInv, PassesFit, Live
    <3> QED  BY <1>1, <3>1, <3>2, <3>3, CountTypes, PlacesKept
  <2> QED  BY <2>1 DEF PassesFit
<1> QED  BY <1>1, <1>3, <1>4, <1>5 DEF LimitsInv, LimitsTyped, OthersKept

\* What Redis has counted after executing the command that a request waits for.
LEMMA CommandCounts ==
  ASSUME LimitsInv, NEW r \in Visit, visit[r].step \in {"incr", "expire", "ttl"},
         NEW known \in {hits, Executed(r)}
  PROVE  /\ known \in [Counter -> [RateKey -> Count]]
         /\ \A c \in Counter, k \in RateKey :
              /\ known[c][k].count > 0 =>
                   \/ known[c][k].expires >= EndOf(k)
                   \/ (c = Redis /\ known[c][k].expires = Never)
              /\ Live(k) => known[c][k].count >= hits[c][k].count
         /\ \A c \in Backend : known[c] = hits[c]
         /\ known = Executed(r) /\ visit[r].step = "incr" =>
              known[Redis][visit[r].key].count = CountIn(Redis, visit[r].key) + 1
<1>1. PICK k \in RateKey : k = visit[r].key /\ k.window <= now \div Window
  BY Waiting
<1>2. Redis \in Counter /\ Redis \notin Backend /\ Backend \subseteq Counter
  BY LimitsAssumption DEF Counter
<1>3. hits \in [Counter -> [RateKey -> Count]] /\ now \in Nat
  BY LimitTypes DEF LimitsInv, LimitsTyped
<1>4. PICK h \in Count : h = hits[Redis][k]
  BY <1>2, CountTypes
<1>5. h.count \in Nat /\ h.expires \in Int
  BY DEF Count
<1>6. ASSUME NEW e \in Count, e.count > 0,
             e.expires >= EndOf(k) \/ e.expires = Never,
             Live(k) => e.count >= h.count,
             known = Counts(hits, Redis, k, e),
             visit[r].step = "incr" => e.count = CountIn(Redis, k) + 1
      PROVE  /\ known \in [Counter -> [RateKey -> Count]]
             /\ \A c \in Counter, j \in RateKey :
                  /\ known[c][j].count > 0 =>
                       \/ known[c][j].expires >= EndOf(j)
                       \/ (c = Redis /\ known[c][j].expires = Never)
                  /\ Live(j) => known[c][j].count >= hits[c][j].count
             /\ \A c \in Backend : known[c] = hits[c]
             /\ visit[r].step = "incr" => known[Redis][k].count = CountIn(Redis, k) + 1
  <2>1. known \in [Counter -> [RateKey -> Count]]
        /\ (\A c \in Counter, j \in RateKey :
               known[c][j] = IF c = Redis /\ j = k THEN e ELSE hits[c][j])
    BY <1>2, <1>3, <1>6 DEF Counts
  <2>2. \A c \in Backend : known[c] = hits[c]
    BY <1>2, <1>3, <1>6 DEF Counts
  <2>3. known[Redis][k] = e
    BY <1>2, <2>1
  <2>4. ASSUME NEW c \in Counter, NEW j \in RateKey
        PROVE  /\ known[c][j].count > 0 =>
                    \/ known[c][j].expires >= EndOf(j)
                    \/ (c = Redis /\ known[c][j].expires = Never)
               /\ Live(j) => known[c][j].count >= hits[c][j].count
    <3>1. CASE c = Redis /\ j = k
      BY <1>4, <1>6, <2>1, <3>1
    <3>2. CASE ~(c = Redis /\ j = k)
      <4>1. known[c][j] = hits[c][j] /\ hits[c][j].count \in Nat
        BY <2>1, <3>2, CountTypes
      <4> QED  BY <4>1 DEF LimitsInv, CountersLast
    <3> QED  BY <3>1, <3>2
  <2> QED  BY <1>6, <2>1, <2>2, <2>3, <2>4
<1>7. Current(Redis, k) <=> h.count > 0 /\ (h.expires = Never \/ h.expires > now)
  BY <1>4 DEF Current
<1>8. CountIn(Redis, k) = IF Current(Redis, k) THEN h.count ELSE 0
  BY <1>4 DEF CountIn
<1>9. CASE known = hits /\ ~(known = Executed(r) /\ visit[r].step = "incr")
  <2>1. ASSUME NEW c \in Counter, NEW j \in RateKey
        PROVE  /\ known[c][j].count > 0 =>
                    \/ known[c][j].expires >= EndOf(j)
                    \/ (c = Redis /\ known[c][j].expires = Never)
               /\ Live(j) => known[c][j].count >= hits[c][j].count
    BY <1>9, CountTypes DEF LimitsInv, CountersLast
  <2> QED  BY <1>3, <1>9, <2>1
<1>10. CASE visit[r].step = "incr" /\ known = Executed(r)
  <2>1. known = IF Current(Redis, k) THEN Counts(hits, Redis, k, [h EXCEPT !.count = @ + 1])
                ELSE Counts(hits, Redis, k, [count |-> 1, expires |-> Never])
    BY <1>1, <1>4, <1>10 DEF Executed, Incremented
  <2>2. CASE Current(Redis, k)
    <3>1. PICK e \in Count : e = [h EXCEPT !.count = @ + 1]
                             /\ e.count = h.count + 1 /\ e.expires = h.expires
      <4>1. PICK e : e = [h EXCEPT !.count = @ + 1]
        OBVIOUS
      <4>2. e \in Count /\ e.count = h.count + 1 /\ e.expires = h.expires
        BY <1>5, <4>1 DEF Count
      <4> QED  BY <4>1, <4>2
    <3>2. e.expires >= EndOf(k) \/ e.expires = Never
      BY <1>2, <1>4, <1>7, <2>2, <3>1 DEF LimitsInv, CountersLast
    <3>3. known = Counts(hits, Redis, k, e)
      BY <2>1, <2>2, <3>1
    <3>4. e.count = CountIn(Redis, k) + 1
      BY <1>8, <2>2, <3>1
    <3>5. e.count > 0 /\ e.count >= h.count
      BY <1>5, <3>1
    <3> QED  BY <1>1, <1>6, <3>2, <3>3, <3>4, <3>5
  <2>3. CASE ~Current(Redis, k)
    <3>1. PICK e \in Count : e = [count |-> 1, expires |-> Never]
                             /\ e.count = 1 /\ e.expires = Never
      <4>1. PICK e : e = [count |-> 1, expires |-> Never]
        OBVIOUS
      <4>2. e \in Count /\ e.count = 1 /\ e.expires = Never
        BY <4>1 DEF Count, Never
      <4> QED  BY <4>1, <4>2
    <3>2. known = Counts(hits, Redis, k, e)
      BY <2>1, <2>3, <3>1
    <3>3. Live(k) => h.count = 0
      BY <1>2, <1>4, <1>5, <2>3, LiveIsCurrent
    <3>4. Live(k) => e.count >= h.count
      BY <3>1, <3>3
    <3>5. e.count = CountIn(Redis, k) + 1
      BY <1>8, <2>3, <3>1
    <3>6. e.count > 0
      BY <3>1
    <3> QED  BY <1>1, <1>6, <3>1, <3>2, <3>4, <3>5, <3>6
  <2> QED  BY <2>2, <2>3
<1>11. CASE visit[r].step # "incr" /\ known = Executed(r)
  <2>1. CASE visit[r].step = "expire" /\ Current(Redis, k)
    <3>1. known = Counts(hits, Redis, k, [h EXCEPT !.expires = now + Window])
      BY <1>1, <1>4, <1>11, <2>1 DEF Executed
    <3>2. PICK e \in Count : e = [h EXCEPT !.expires = now + Window]
                             /\ e.count = h.count /\ e.expires = now + Window
      <4>1. PICK e : e = [h EXCEPT !.expires = now + Window]
        OBVIOUS
      <4>2. e \in Count /\ e.count = h.count /\ e.expires = now + Window
        BY <1>3, <1>5, LimitTypes, <4>1 DEF Count
      <4> QED  BY <4>1, <4>2
    <3>3. e.expires >= EndOf(k)
      BY <1>1, <1>3, <3>2, Ends, LimitTypes
    <3>4. e.count > 0 /\ e.count >= h.count
      BY <1>5, <1>7, <2>1, <3>2
    <3>5. known = Counts(hits, Redis, k, e)
      BY <3>1, <3>2
    <3> QED  BY <1>6, <1>11, <3>3, <3>4, <3>5
  <2>2. CASE ~(visit[r].step = "expire" /\ Current(Redis, k))
    <3>1. known = hits
      BY <1>1, <1>11, <2>2 DEF Executed
    <3> QED  BY <1>9, <1>11, <3>1
  <2> QED  BY <2>1, <2>2
<1>12. known = hits \/ known = Executed(r)
  OBVIOUS
<1> QED  BY <1>9, <1>10, <1>11, <1>12

\* A request that has been counted goes on: the attempts stay.
LEMMA Continues ==
  ASSUME LimitsInv, NEW r \in Visit, visit[r].step \in {"incr", "expire"}, NEW n \in Nat,
         NEW step \in {"expire", "ttl"},
         visit' = [visit EXCEPT ![r] = [@ EXCEPT !.count = n, !.step = step]],
         attempts' = attempts, now' = now
  PROVE  /\ OthersKept
         /\ \A k, c : Passed(k, c)' = Passed(k, c)
         /\ \A k : Counted(k)' \subseteq Counted(k) \cup {r}
         /\ \A k : r \in Counted(k)' <=> (k = visit[r].key /\ n <= Allowed[k.scope])
<1>1. PICK q \in Counting : q = visit[r]
  BY Waiting
<1>2. PICK v \in Counting : v = [q EXCEPT !.count = n, !.step = step]
                            /\ v.step = step /\ v.count = n
                            /\ v.key = q.key /\ v.passed = q.passed
                            /\ v.process = q.process /\ v.client = q.client
  <2>1. PICK v : v = [q EXCEPT !.count = n, !.step = step]
    OBVIOUS
  <2>2. v \in Counting /\ v.step = step /\ v.count = n
        /\ v.key = q.key /\ v.passed = q.passed /\ v.process = q.process
        /\ v.client = q.client
    BY <2>1 DEF Counting
  <2> QED  BY <2>1, <2>2
<1>3. visit' = [visit EXCEPT ![r] = v]
  BY <1>1, <1>2
<1>4. v \in VisitRow /\ v.process \in Backend /\ v.client \in Caller
  BY <1>2 DEF VisitRow, Counting
<1>5. v.key.window <= now \div Window
  BY <1>1, <1>2, Waiting
<1>6. Tries(r, v, v.process, v.client)
  BY <1>2 DEF Tries
<1>7. OthersKept
  BY <1>2, <1>3, <1>4, <1>5, <1>6, VisitPart
<1>8. visit'[r] = v /\ (\A p \in Visit \ {r} : visit'[p] = visit[p])
  BY <1>3 DEF LimitsInv, LimitsTyped
<1>9. \A k, c : Passed(k, c)' = Passed(k, c)
  BY <1>1, <1>2, <1>8 DEF Passed
<1>10. \A k : Counted(k)' \subseteq Counted(k) \cup {r}
  BY <1>8 DEF Counted
<1>11. \A k : r \in Counted(k)' <=> (k = visit[r].key /\ n <= Allowed[k.scope])
  BY <1>1, <1>2, <1>8 DEF Counted
<1> QED  BY <1>7, <1>9, <1>10, <1>11

LEMMA IncrKeeps ==
  ASSUME LimitsInv, NEW r \in Visit, Incr(r)
  PROVE  LimitsInv'
<1>1. now' = now /\ attempts' = attempts /\ visit[r].step = "incr" /\ hits' = Executed(r)
  BY DEF Incr
<1>2. PICK k \in RateKey : k = visit[r].key
  BY <1>1, Waiting
<1>3. Redis \in Counter
  BY DEF Counter
<1>4. CountIn(Redis, k) \in Nat
  BY <1>3, CountTypes DEF CountIn
<1>5. PICK n \in Nat : n = CountIn(Redis, k) + 1
  BY <1>4
<1>6. PICK step \in {"expire", "ttl"} : step = IF n = 1 THEN "expire" ELSE "ttl"
  OBVIOUS
<1>7. visit' = [visit EXCEPT ![r] = [@ EXCEPT !.count = n, !.step = step]]
  BY <1>2, <1>5, <1>6 DEF Incr
<1>8. /\ OthersKept
      /\ \A j, c : Passed(j, c)' = Passed(j, c)
      /\ \A j : Counted(j)' \subseteq Counted(j) \cup {r}
      /\ \A j : r \in Counted(j)' <=> (j = k /\ n <= Allowed[j.scope])
  BY <1>1, <1>2, <1>7, Continues
<1>9. /\ hits' \in [Counter -> [RateKey -> Count]]
      /\ \A c \in Counter, j \in RateKey :
           /\ hits'[c][j].count > 0 =>
                \/ hits'[c][j].expires >= EndOf(j)
                \/ (c = Redis /\ hits'[c][j].expires = Never)
           /\ Live(j) => hits'[c][j].count >= hits[c][j].count
      /\ hits'[Redis][k].count = n
  BY <1>1, <1>2, <1>5, CommandCounts
<1>10. CountersLast'
  BY <1>9 DEF CountersLast, EndOf
<1>11. PassesFit'
  <2>1. ASSUME NEW j \in RateKey, NEW c \in Counter PROVE PassFits(j, c)'
    <3>1. PassFits(j, c) /\ (Live(j)' <=> Live(j))
      BY <1>1 DEF LimitsInv, PassesFit, Live
    <3>2. hits[c][j].count \in Nat /\ hits'[c][j].count \in Nat
      BY <1>9, CountTypes DEF Count
    <3>3. CASE j = k /\ c = Redis /\ n <= Allowed[k.scope] /\ Live(k)
      <4>1. Holders(j, c)' \subseteq Holders(j, c) \cup {r}
            /\ Passed(j, c)' \subseteq Holders(j, c) \cup {r}
        BY <1>8, <3>3 DEF Holders
      <4>2. n = hits[Redis][k].count + 1
        <5>1. hits[Redis][k].count > 0 => Current(Redis, k)
          BY <1>3, <3>3, LiveIsCurrent
        <5>2. CountIn(Redis, k) = hits[Redis][k].count
          BY <3>2, <3>3, <5>1 DEF CountIn
        <5> QED  BY <1>5, <5>2
      <4> QED  BY <1>9, <3>1, <3>2, <3>3, <4>1, <4>2, PlaceTaken
    <3>4. CASE ~(j = k /\ c = Redis /\ n <= Allowed[k.scope] /\ Live(k))
      <4>1. Passed(j, c)' = Passed(j, c)
        BY <1>8
      <4>2. Live(j) => Holders(j, c)' \subseteq Holders(j, c)
        BY <1>8, <3>4 DEF Holders
      <4> QED  BY <1>9, <3>1, <3>2, <4>1, <4>2, PlacesKept
    <3> QED  BY <3>3, <3>4
  <2> QED  BY <2>1 DEF PassesFit
<1> QED  BY <1>8, <1>9, <1>10, <1>11 DEF LimitsInv, LimitsTyped, OthersKept

LEMMA ExpireKeeps ==
  ASSUME LimitsInv, NEW r \in Visit, Expire(r)
  PROVE  LimitsInv'
<1>1. now' = now /\ attempts' = attempts /\ visit[r].step = "expire" /\ hits' = Executed(r)
  BY DEF Expire
<1>2. PICK q \in Counting : q = visit[r]
  BY <1>1, Waiting
<1>3. PICK n \in Nat : n = q.count
  BY <1>2 DEF Counting
<1>4. visit' = [visit EXCEPT ![r] = [@ EXCEPT !.count = n, !.step = "ttl"]]
  <2>1. [q EXCEPT !.step = "ttl"] = [q EXCEPT !.count = n, !.step = "ttl"]
    BY <1>2, <1>3 DEF Counting
  <2> QED  BY <1>2, <2>1 DEF Expire
<1>5. /\ OthersKept
      /\ \A j, c : Passed(j, c)' = Passed(j, c)
      /\ \A j : Counted(j)' \subseteq Counted(j) \cup {r}
      /\ \A j : r \in Counted(j)' <=> (j = visit[r].key /\ n <= Allowed[j.scope])
  BY <1>1, <1>4, Continues
<1>6. \A j : Counted(j)' \subseteq Counted(j)
  <2>1. \A j : r \in Counted(j) <=> (j = visit[r].key /\ n <= Allowed[j.scope])
    BY <1>1, <1>2, <1>3 DEF Counted
  <2> QED  BY <1>5, <2>1
<1>7. /\ hits' \in [Counter -> [RateKey -> Count]]
      /\ \A c \in Counter, j \in RateKey :
           /\ hits'[c][j].count > 0 =>
                \/ hits'[c][j].expires >= EndOf(j)
                \/ (c = Redis /\ hits'[c][j].expires = Never)
           /\ Live(j) => hits'[c][j].count >= hits[c][j].count
  BY <1>1, CommandCounts
<1>8. CountersLast'
  BY <1>7 DEF CountersLast, EndOf
<1>9. PassesFit'
  <2>1. ASSUME NEW j \in RateKey, NEW c \in Counter PROVE PassFits(j, c)'
    <3>1. PassFits(j, c) /\ (Live(j)' <=> Live(j))
      BY <1>1 DEF LimitsInv, PassesFit, Live
    <3>2. hits[c][j].count \in Nat /\ hits'[c][j].count \in Nat
      BY <1>7, CountTypes DEF Count
    <3>3. Passed(j, c)' = Passed(j, c) /\ Holders(j, c)' \subseteq Holders(j, c)
      BY <1>5, <1>6 DEF Holders
    <3> QED  BY <1>7, <3>1, <3>2, <3>3, PlacesKept
  <2> QED  BY <2>1 DEF PassesFit
<1> QED  BY <1>5, <1>7, <1>8, <1>9 DEF LimitsInv, LimitsTyped, OthersKept

\* The verdict of a rule: only its counter lets the request through.
LEMMA VerdictPart ==
  ASSUME LimitsInv, NEW r \in Visit, visit[r].step \in {"incr", "expire", "ttl"},
         NEW by \in Counter, NEW n \in Nat, NEW retryAfter \in Int,
         now + retryAfter >= EndOf(visit[r].key), Decide(r, by, n, retryAfter), now' = now
  PROVE  /\ OthersKept
         /\ \A k : Counted(k)' \subseteq Counted(k)
         /\ \A k, c :
              /\ Passed(k, c)' \subseteq Passed(k, c) \cup {r}
              /\ \/ Passed(k, c)' \subseteq Passed(k, c)
                 \/ k = visit[r].key /\ c = by /\ Live(k) /\ n <= Allowed[k.scope]
<1>1. PICK q \in Counting : q = visit[r]
  BY Waiting
<1>2. q.key \in RateKey /\ q.process \in Backend /\ q.client \in Caller
      /\ q.key.window <= now \div Window
  BY <1>1, Waiting
<1>3. now \div Window \in Nat
  <2>1. now \in Nat
    BY LimitTypes DEF LimitsInv, LimitsTyped
  <2> QED  BY <2>1, LimitTypes, Division
<1>4. \E v : \/ /\ n > Allowed[q.key.scope] /\ attempts' = attempts
                 /\ v \in VisitRow /\ visit' = [visit EXCEPT ![r] = v] /\ v.passed = q.passed
                 /\ v.step = "limited" /\ v.key = q.key /\ v.retryAt = now + retryAfter
              \/ /\ n <= Allowed[q.key.scope]
                 /\ Goes(r, v, IF now \div Window = q.key.window
                               THEN q.passed \cup {[key |-> q.key, by |-> by]} ELSE q.passed)
                 /\ Tries(r, v, q.process, q.client)
  BY <1>1, RuleDecides DEF LimitsInv
<1>5. CASE \E v : /\ attempts' = attempts
                  /\ v \in VisitRow /\ visit' = [visit EXCEPT ![r] = v] /\ v.passed = q.passed
                  /\ v.step = "limited" /\ v.key = q.key /\ v.retryAt = now + retryAfter
  <2>1. PICK v : /\ attempts' = attempts
                 /\ v \in VisitRow /\ visit' = [visit EXCEPT ![r] = v] /\ v.passed = q.passed
                 /\ v.step = "limited" /\ v.key = q.key /\ v.retryAt = now + retryAfter
    BY <1>5
  <2>2. Tries(r, v, q.process, q.client)
    BY <2>1 DEF Tries
  <2>3. v.retryAt >= EndOf(v.key)
    BY <1>1, <2>1
  <2>4. OthersKept
    BY <1>2, <2>1, <2>2, <2>3, VisitPart
  <2>5. PICK M : M = {} /\ v.passed \subseteq visit[r].passed \cup M
    BY <1>1, <2>1
  <2>6. ASSUME NEW k, NEW c
        PROVE  /\ Counted(k)' \subseteq Counted(k)
               /\ Passed(k, c)' \subseteq Passed(k, c) \cup {r}
               /\ Passed(k, c)' \subseteq Passed(k, c)
    <3>1. v \in VisitRow /\ visit' = [visit EXCEPT ![r] = v] /\ v.step \notin {"expire", "ttl"}
      BY <2>1
    <3>2. /\ Counted(k)' \subseteq Counted(k)
          /\ Passed(k, c)' \subseteq Passed(k, c) \cup {r}
          /\ [key |-> k, by |-> c] \notin M => Passed(k, c)' \subseteq Passed(k, c)
      BY <2>5, <3>1, LeavesCounter
    <3> QED  BY <2>5, <3>2
  <2> QED  BY <2>4, <2>6
<1>6. CASE n <= Allowed[q.key.scope] /\
           \E v : /\ Goes(r, v, IF now \div Window = q.key.window
                                THEN q.passed \cup {[key |-> q.key, by |-> by]} ELSE q.passed)
                  /\ Tries(r, v, q.process, q.client)
  <2>1. PICK M : M = IF now \div Window = q.key.window THEN {[key |-> q.key, by |-> by]} ELSE {}
    OBVIOUS
  <2>2. PICK v : /\ Goes(r, v, IF now \div Window = q.key.window
                               THEN q.passed \cup {[key |-> q.key, by |-> by]} ELSE q.passed)
                 /\ Tries(r, v, q.process, q.client)
    BY <1>6
  <2>3. /\ v \in VisitRow /\ visit' = [visit EXCEPT ![r] = v]
        /\ v.step \notin {"expire", "ttl", "limited"}
        /\ (v.step = "incr" => v.key.window <= now \div Window)
        /\ v.passed \subseteq visit[r].passed \cup M
    BY <1>1, <1>3, <2>1, <2>2 DEF Goes
  <2>4. OthersKept
    BY <1>2, <2>2, <2>3, VisitPart
  <2>5. ASSUME NEW k, NEW c
        PROVE  /\ Counted(k)' \subseteq Counted(k)
               /\ Passed(k, c)' \subseteq Passed(k, c) \cup {r}
               /\ [key |-> k, by |-> c] \notin M => Passed(k, c)' \subseteq Passed(k, c)
    <3>1. v \in VisitRow /\ visit' = [visit EXCEPT ![r] = v] /\ v.step \notin {"expire", "ttl"}
      BY <2>3
    <3>2. v.passed \subseteq visit[r].passed \cup M
      BY <2>3
    <3>3. Counted(k)' \subseteq Counted(k) /\ Passed(k, c)' \subseteq Passed(k, c) \cup {r}
      BY <3>1, <3>2, LeavesCounter
    <3>4. [key |-> k, by |-> c] \notin M => Passed(k, c)' \subseteq Passed(k, c)
      <4>1. visit'[r] = v /\ \A p \in Visit \ {r} : visit'[p] = visit[p]
        BY <3>1 DEF LimitsInv, LimitsTyped
      <4> QED  BY <3>2, <4>1 DEF Passed
    <3> QED  BY <3>3, <3>4
  <2>6. ASSUME NEW k, NEW c, [key |-> k, by |-> c] \in M
        PROVE  k = visit[r].key /\ c = by /\ Live(k) /\ n <= Allowed[k.scope]
    <3>1. [key |-> k, by |-> c] = [key |-> q.key, by |-> by] /\ now \div Window = q.key.window
      BY <2>1, <2>6
    <3>2. k = q.key /\ c = by
      BY <3>1
    <3> QED  BY <1>1, <1>3, <1>6, <3>1, <3>2 DEF Live
  <2> QED  BY <2>4, <2>5, <2>6
<1> QED  BY <1>4, <1>5, <1>6

LEMMA TtlKeeps ==
  ASSUME LimitsInv, NEW r \in Visit, Ttl(r)
  PROVE  LimitsInv'
<1>1. now' = now /\ hits' = hits /\ visit[r].step = "ttl"
  BY DEF Ttl
<1>2. PICK k \in RateKey : k = visit[r].key /\ k.window <= now \div Window
  BY <1>1, Waiting
<1>3. PICK n \in Nat : n = visit[r].count
  BY <1>1, Waiting
<1>4. Redis \in Counter
  BY DEF Counter
<1>5. now \in Nat
  BY LimitTypes DEF LimitsInv, LimitsTyped
<1>6. PICK after \in Int : after = RetryAfter(k) /\ now + after >= EndOf(k)
  <2>1. hits[Redis][k].expires \in Int /\ Window \in Nat
    BY <1>4, CountTypes, LimitTypes
  <2>2. CASE Current(Redis, k) /\ hits[Redis][k].expires # Never
    <3>1. hits[Redis][k].expires >= EndOf(k)
      BY <1>4, <2>2 DEF LimitsInv, CountersLast, Current
    <3> QED  BY <1>5, <2>1, <2>2, <3>1 DEF RetryAfter
  <2>3. CASE ~(Current(Redis, k) /\ hits[Redis][k].expires # Never)
    <3>1. EndOf(k) <= now + Window
      BY <1>2, <1>5, Ends
    <3> QED  BY <2>1, <2>3, <3>1 DEF RetryAfter
  <2> QED  BY <2>2, <2>3
<1>7. Decide(r, Redis, n, after)
  BY <1>2, <1>3, <1>6 DEF Ttl
<1>8. /\ OthersKept
      /\ \A j : Counted(j)' \subseteq Counted(j)
      /\ \A j, c :
           /\ Passed(j, c)' \subseteq Passed(j, c) \cup {r}
           /\ \/ Passed(j, c)' \subseteq Passed(j, c)
              \/ j = k /\ c = Redis /\ Live(j) /\ n <= Allowed[j.scope]
  BY <1>1, <1>2, <1>4, <1>6, <1>7, VerdictPart
<1>9. CountersLast'
  BY <1>1 DEF LimitsInv, CountersLast, EndOf
<1>10. PassesFit'
  <2>1. ASSUME NEW j \in RateKey, NEW c \in Counter PROVE PassFits(j, c)'
    <3>1. PassFits(j, c) /\ (Live(j)' <=> Live(j))
      BY <1>1 DEF LimitsInv, PassesFit, Live
    <3>2. hits[c][j].count \in Nat /\ hits'[c][j].count = hits[c][j].count
      BY <1>1, CountTypes
    <3>3. CASE Passed(j, c)' \subseteq Passed(j, c)
      <4>1. Holders(j, c)' \subseteq Holders(j, c)
        BY <1>8, <3>3 DEF Holders
      <4> QED  BY <3>1, <3>2, <3>3, <4>1, PlacesKept
    <3>4. CASE j = k /\ c = Redis /\ Live(j) /\ n <= Allowed[j.scope]
      <4>1. r \in Counted(j)
        BY <1>1, <1>2, <1>3, <3>4 DEF Counted
      <4>2. Passed(j, c)' \subseteq Holders(j, c) /\ Holders(j, c)' \subseteq Holders(j, c)
        BY <1>8, <3>4, <4>1 DEF Holders
      <4> QED  BY <3>1, <3>2, <3>4, <4>2, PlacesKept
    <3> QED  BY <1>8, <3>3, <3>4
  <2> QED  BY <2>1 DEF PassesFit
<1> QED  BY <1>1, <1>8, <1>9, <1>10 DEF LimitsInv, LimitsTyped, OthersKept

\* The process counts for itself: one more, or the first of a new counter.
LEMMA LocalCounts ==
  ASSUME LimitsInv, NEW r \in Visit, visit[r].step \in {"incr", "expire", "ttl"},
         NEW known \in {hits, Executed(r)}, CountLocally(r, known)
  PROVE  LET k == visit[r].key
             p == visit[r].process
         IN \E n \in Nat, after \in Int :
              /\ Decide(r, p, n, after) /\ now + after >= EndOf(k)
              /\ hits' = Counts(known, p, k, [count |-> n, expires |-> now + after])
              /\ n > 0 /\ (Live(k) => n = hits[p][k].count + 1) /\ n >= 1
<1>1. PICK k \in RateKey : k = visit[r].key /\ k.window <= now \div Window
  BY Waiting
<1>2. PICK p \in Backend : p = visit[r].process
  BY Waiting
<1>3. p \in Counter /\ p # Redis
  BY LimitsAssumption DEF Counter
<1>4. PICK h \in Count : h = hits[p][k]
  BY <1>3, CountTypes
<1>5. h.count \in Nat /\ h.expires \in Int /\ h = [count |-> h.count, expires |-> h.expires]
  BY DEF Count
<1>6. now \in Nat /\ Window \in Nat
  BY LimitTypes DEF LimitsInv, LimitsTyped
<1>7. CASE Current(p, k)
  <2>1. h.count > 0
    BY <1>4, <1>7 DEF Current
  <2>2. h.expires >= EndOf(k)
    BY <1>3, <1>4, <2>1 DEF LimitsInv, CountersLast
  <2>3. PICK n \in Nat : n = h.count + 1
    BY <1>5
  <2>4. PICK after \in Int : after = h.expires - now
    BY <1>5, <1>6
  <2>5. now + after = h.expires
    BY <1>5, <1>6, <2>4
  <2>6. [h EXCEPT !.count = @ + 1] = [count |-> n, expires |-> now + after]
    BY <1>5, <2>3, <2>5
  <2>7. Decide(r, p, n, after)
    BY <1>1, <1>2, <1>4, <1>7, <2>3, <2>4 DEF CountLocally
  <2>8. hits' = Counts(known, p, k, [count |-> n, expires |-> now + after])
    BY <1>1, <1>2, <1>4, <1>7, <2>6 DEF CountLocally
  <2>9. n > 0 /\ n >= 1 /\ n = hits[p][k].count + 1 /\ now + after >= EndOf(k)
    BY <1>4, <1>5, <2>2, <2>3, <2>5
  <2> QED  BY <1>1, <1>2, <2>7, <2>8, <2>9
<1>8. CASE ~Current(p, k)
  <2>1. Live(k) => h.count = 0
    BY <1>3, <1>4, <1>5, <1>8, LiveIsCurrent
  <2>2. now + Window >= EndOf(k)
    <3>1. EndOf(k) \in Nat /\ EndOf(k) <= now + Window
      BY <1>1, <1>6, Ends
    <3> QED  BY <1>6, <3>1
  <2>3. Decide(r, p, 1, Window)
        /\ hits' = Counts(known, p, k, [count |-> 1, expires |-> now + Window])
    BY <1>1, <1>2, <1>8 DEF CountLocally
  <2>4. Live(k) => 1 = hits[p][k].count + 1
    BY <1>4, <2>1
  <2>5. 1 \in Nat /\ Window \in Int /\ 1 > 0 /\ 1 >= 1
    BY <1>6
  <2> QED  BY <1>1, <1>2, <2>2, <2>3, <2>4, <2>5
<1> QED  BY <1>7, <1>8

LEMMA CommandFailsKeeps ==
  ASSUME LimitsInv, NEW r \in Visit, CommandFails(r)
  PROVE  LimitsInv'
<1>1. now' = now /\ visit[r].step \in {"incr", "expire", "ttl"}
  BY DEF CommandFails
<1>2. PICK known \in {hits, Executed(r)} : CountLocally(r, known)
  BY DEF CommandFails
<1>3. PICK k \in RateKey : k = visit[r].key
  BY <1>1, Waiting
<1>4. PICK p \in Backend : p = visit[r].process
  BY <1>1, Waiting
<1>5. p \in Counter /\ p # Redis
  BY LimitsAssumption DEF Counter
<1>6. PICK n \in Nat, after \in Int :
        /\ Decide(r, p, n, after) /\ now + after >= EndOf(k)
        /\ hits' = Counts(known, p, k, [count |-> n, expires |-> now + after])
        /\ n > 0 /\ (Live(k) => n = hits[p][k].count + 1)
  BY <1>1, <1>2, <1>3, <1>4, LocalCounts
<1>7. /\ OthersKept
      /\ \A j : Counted(j)' \subseteq Counted(j)
      /\ \A j, c :
           /\ Passed(j, c)' \subseteq Passed(j, c) \cup {r}
           /\ \/ Passed(j, c)' \subseteq Passed(j, c)
              \/ j = k /\ c = p /\ Live(j) /\ n <= Allowed[j.scope]
  BY <1>1, <1>3, <1>5, <1>6, VerdictPart
<1>8. /\ known \in [Counter -> [RateKey -> Count]]
      /\ \A c \in Counter, j \in RateKey :
           /\ known[c][j].count > 0 =>
                \/ known[c][j].expires >= EndOf(j)
                \/ (c = Redis /\ known[c][j].expires = Never)
           /\ Live(j) => known[c][j].count >= hits[c][j].count
  BY <1>1, CommandCounts
<1>9. PICK e \in Count : /\ e = [count |-> n, expires |-> now + after]
                         /\ e.count = n /\ e.expires = now + after
  <2>1. now \in Nat
    BY LimitTypes DEF LimitsInv, LimitsTyped
  <2>2. PICK e : e = [count |-> n, expires |-> now + after]
    OBVIOUS
  <2>3. e \in Count /\ e.count = n /\ e.expires = now + after
    BY <2>1, <2>2 DEF Count
  <2> QED  BY <2>2, <2>3
<1>10. /\ hits' \in [Counter -> [RateKey -> Count]]
       /\ \A c \in Counter, j \in RateKey :
            hits'[c][j] = IF c = p /\ j = k THEN e ELSE known[c][j]
  BY <1>5, <1>6, <1>8, <1>9 DEF Counts
<1>11. CountersLast'
  <2>1. ASSUME NEW c \in Counter, NEW j \in RateKey, hits'[c][j].count > 0
        PROVE  hits'[c][j].expires >= EndOf(j) \/ (c = Redis /\ hits'[c][j].expires = Never)
    BY <1>6, <1>8, <1>9, <1>10, <2>1
  <2> QED  BY <2>1 DEF CountersLast, EndOf
<1>12. PassesFit'
  <2>1. ASSUME NEW j \in RateKey, NEW c \in Counter PROVE PassFits(j, c)'
    <3>1. PassFits(j, c) /\ (Live(j)' <=> Live(j))
      BY <1>1 DEF LimitsInv, PassesFit, Live
    <3>2. hits[c][j].count \in Nat /\ hits'[c][j].count \in Nat
      BY <1>10, CountTypes DEF Count
    <3>3. CASE j = k /\ c = p /\ Live(j) /\ n <= Allowed[j.scope]
      <4>1. hits'[c][j].count = hits[c][j].count + 1 /\ hits[c][j].count + 1 <= Allowed[j.scope]
        BY <1>6, <1>9, <1>10, <3>3
      <4>2. Passed(j, c)' \subseteq Holders(j, c) \cup {r}
            /\ Holders(j, c)' \subseteq Holders(j, c) \cup {r}
        BY <1>5, <1>7, <3>3 DEF Holders
      <4> QED  BY <3>1, <3>2, <3>3, <4>1, <4>2, PlaceTaken
    <3>4. CASE Passed(j, c)' \subseteq Passed(j, c)
      <4>1. Holders(j, c)' \subseteq Holders(j, c)
        BY <1>7, <3>4 DEF Holders
      <4>2. Live(j) => hits'[c][j].count >= hits[c][j].count
        <5>1. CASE c = p /\ j = k
          BY <1>6, <1>9, <1>10, <3>2, <5>1
        <5>2. CASE ~(c = p /\ j = k)
          BY <1>8, <1>10, <5>2
        <5> QED  BY <5>1, <5>2
      <4> QED  BY <3>1, <3>2, <3>4, <4>1, <4>2, PlacesKept
    <3> QED  BY <1>7, <3>3, <3>4
  <2> QED  BY <2>1 DEF PassesFit
<1> QED  BY <1>7, <1>10, <1>11, <1>12 DEF LimitsInv, LimitsTyped, OthersKept

\* A request that forgets who let it through is still a request.
LEMMA RowForgets ==
  ASSUME NEW q \in VisitRow, NEW kept \in SUBSET q.passed
  PROVE  LET w == [q EXCEPT !.passed = kept]
         IN /\ w \in VisitRow /\ w.passed = kept /\ w.step = q.step
            /\ q.step \in {"incr", "expire", "ttl"} => w.key = q.key /\ w.count = q.count
            /\ q.step = "handled" => w.process = q.process /\ w.client = q.client /\ w.at = q.at
            /\ q.step = "limited" => w.key = q.key /\ w.retryAt = q.retryAt
<1>1. q.passed \in SUBSET Mark
  BY DEF VisitRow, Counting, HandledRow, SuspectedRow, LimitedRow, OtherRow
<1>2. kept \in SUBSET Mark
  BY <1>1
<1>3. CASE q \in Counting
  <2>1. PICK w \in Counting : w = [q EXCEPT !.passed = kept]
                              /\ w.passed = kept /\ w.step = q.step
                              /\ w.key = q.key /\ w.count = q.count
    <3>1. PICK w : w = [q EXCEPT !.passed = kept]
      OBVIOUS
    <3>2. w \in Counting /\ w.passed = kept /\ w.step = q.step
          /\ w.key = q.key /\ w.count = q.count
      BY <1>2, <1>3, <3>1 DEF Counting
    <3> QED  BY <3>1, <3>2
  <2>2. q.step \notin {"handled", "limited"}
    BY <1>3 DEF Counting
  <2> QED  BY <2>1, <2>2 DEF VisitRow
<1>4. CASE q \in HandledRow
  <2>1. PICK w \in HandledRow : w = [q EXCEPT !.passed = kept]
                                /\ w.passed = kept /\ w.step = q.step
                                /\ w.process = q.process /\ w.client = q.client
                                /\ w.at = q.at
    <3>1. PICK w : w = [q EXCEPT !.passed = kept]
      OBVIOUS
    <3>2. w \in HandledRow /\ w.passed = kept /\ w.step = q.step
          /\ w.process = q.process /\ w.client = q.client /\ w.at = q.at
      BY <1>2, <1>4, <3>1 DEF HandledRow
    <3> QED  BY <3>1, <3>2
  <2>2. q.step = "handled"
    BY <1>4 DEF HandledRow
  <2> QED  BY <2>1, <2>2 DEF VisitRow
<1>5. CASE q \in LimitedRow
  <2>1. PICK w \in LimitedRow : w = [q EXCEPT !.passed = kept]
                                /\ w.passed = kept /\ w.step = q.step
                                /\ w.key = q.key /\ w.retryAt = q.retryAt
    <3>1. PICK w : w = [q EXCEPT !.passed = kept]
      OBVIOUS
    <3>2. w \in LimitedRow /\ w.passed = kept /\ w.step = q.step
          /\ w.key = q.key /\ w.retryAt = q.retryAt
      BY <1>2, <1>5, <3>1 DEF LimitedRow
    <3> QED  BY <3>1, <3>2
  <2>2. q.step = "limited"
    BY <1>5 DEF LimitedRow
  <2> QED  BY <2>1, <2>2 DEF VisitRow
<1>6. CASE q \in SuspectedRow
  <2>1. PICK w \in SuspectedRow : w = [q EXCEPT !.passed = kept]
                                  /\ w.passed = kept /\ w.step = q.step
    <3>1. PICK w : w = [q EXCEPT !.passed = kept]
      OBVIOUS
    <3>2. w \in SuspectedRow /\ w.passed = kept /\ w.step = q.step
      BY <1>2, <1>6, <3>1 DEF SuspectedRow
    <3> QED  BY <3>1, <3>2
  <2>2. q.step = "suspected"
    BY <1>6 DEF SuspectedRow
  <2> QED  BY <2>1, <2>2 DEF VisitRow
<1>7. CASE q \in OtherRow
  <2>1. PICK w \in OtherRow : w = [q EXCEPT !.passed = kept]
                              /\ w.passed = kept /\ w.step = q.step
    <3>1. PICK w : w = [q EXCEPT !.passed = kept]
      OBVIOUS
    <3>2. w \in OtherRow /\ w.passed = kept /\ w.step = q.step
      BY <1>2, <1>7, <3>1 DEF OtherRow
    <3> QED  BY <3>1, <3>2
  <2>2. q.step \in {"new", "unauthorized", "over"}
    BY <1>7 DEF OtherRow
  <2> QED  BY <2>1, <2>2 DEF VisitRow
<1> QED  BY <1>3, <1>4, <1>5, <1>6, <1>7 DEF VisitRow

LEMMA RestartKeeps ==
  ASSUME LimitsInv, NEW p \in Backend, Restart(p)
  PROVE  LimitsInv'
<1> DEFINE Kept(r) == {e \in visit[r].passed : e.by # p}
<1>1. /\ now' = now /\ hits' = [hits EXCEPT ![p] = Empty]
      /\ attempts' = [attempts EXCEPT ![p] = NoAttempts]
      /\ visit' = [r \in Visit |-> IF ServedBy(r, p) THEN [step |-> "over", passed |-> Kept(r)]
                                   ELSE [visit[r] EXCEPT !.passed = Kept(r)]]
  BY DEF Restart
<1>2. p \in Counter /\ p # Redis
  BY LimitsAssumption DEF Counter
<1>3. \A r \in Visit : visit[r] \in VisitRow /\ visit[r].passed \in SUBSET Mark
  BY DEF LimitsInv, LimitsTyped, VisitRow, Counting, HandledRow, SuspectedRow, LimitedRow, OtherRow
<1>4. ASSUME NEW r \in Visit
      PROVE  /\ visit'[r] \in VisitRow /\ visit'[r].passed = Kept(r)
             /\ visit'[r].step # "over" => visit'[r].step = visit[r].step /\ ~ServedBy(r, p)
             /\ visit'[r].step \in {"incr", "expire", "ttl"} =>
                  visit'[r].key = visit[r].key /\ visit'[r].count = visit[r].count
             /\ visit'[r].step = "handled" =>
                  /\ visit'[r].process = visit[r].process /\ visit'[r].client = visit[r].client
                  /\ visit'[r].at = visit[r].at
             /\ visit'[r].step = "limited" =>
                  visit'[r].key = visit[r].key /\ visit'[r].retryAt = visit[r].retryAt
  <2>1. Kept(r) \in SUBSET visit[r].passed /\ Kept(r) \in SUBSET Mark
    BY <1>3
  <2>2. CASE ServedBy(r, p)
    <3>1. PICK w \in OtherRow : w = [step |-> "over", passed |-> Kept(r)]
                                /\ w.step = "over" /\ w.passed = Kept(r)
      <4>1. PICK w : w = [step |-> "over", passed |-> Kept(r)]
        OBVIOUS
      <4>2. w \in OtherRow /\ w.step = "over" /\ w.passed = Kept(r)
        BY <2>1, <4>1 DEF OtherRow
      <4> QED  BY <4>1, <4>2
    <3>2. visit'[r] = w
      BY <1>1, <2>2, <3>1
    <3> QED  BY <3>1, <3>2 DEF VisitRow
  <2>3. CASE ~ServedBy(r, p)
    <3>1. visit'[r] = [visit[r] EXCEPT !.passed = Kept(r)]
      BY <1>1, <2>3
    <3> HIDE DEF Kept
    <3> QED  BY <1>3, <2>1, <2>3, <3>1, RowForgets
  <2> QED  BY <2>2, <2>3
<1>5. LimitsTyped'
  <2>1. now' \in 0 .. MaxTime
    BY <1>1 DEF LimitsInv, LimitsTyped
  <2>2. Empty \in [RateKey -> Count]
    BY DEF Empty, NoCount, Count, Never
  <2>3. hits' \in [Counter -> [RateKey -> Count]]
    BY <1>1, <2>2 DEF LimitsInv, LimitsTyped
  <2>4. NoAttempts \in [Caller -> Moments]
    <3>1. [r \in {} |-> 0] \in [{} -> Nat]
      OBVIOUS
    <3>2. [r \in {} |-> 0] \in Moments
      BY <3>1 DEF Moments
    <3> QED  BY <3>2 DEF NoAttempts
  <2>5. attempts' \in [Backend -> [Caller -> Moments]]
    BY <1>1, <2>4 DEF LimitsInv, LimitsTyped
  <2>6. visit' \in [Visit -> VisitRow]
    <3>1. visit' = [r \in Visit |-> visit'[r]]
      BY <1>1
    <3> QED  BY <1>4, <3>1
  <2> QED  BY <2>1, <2>3, <2>5, <2>6 DEF LimitsTyped
<1>6. \A c \in Counter, k \in RateKey :
        hits'[c][k] = IF c = p THEN NoCount ELSE hits[c][k]
  BY <1>1, <1>2 DEF LimitsInv, LimitsTyped, Empty
<1>7. CountersLast'
  <2>1. NoCount.count = 0
    BY DEF NoCount
  <2> QED  BY <1>6, <2>1 DEF LimitsInv, CountersLast, EndOf
<1>8. KeysAreOld'
  BY <1>1, <1>4 DEF LimitsInv, KeysAreOld
<1>9. RetryMeetsNewWindow'
  BY <1>4 DEF LimitsInv, RetryMeetsNewWindow
<1>10. AttemptsAreKept'
  <2>1. ASSUME NEW r \in Visit, visit'[r].step = "handled"
        PROVE  /\ visit'[r].at <= now
               /\ visit'[r].at >= now - RiskWindow =>
                    /\ r \in DOMAIN attempts'[visit'[r].process][visit'[r].client]
                    /\ attempts'[visit'[r].process][visit'[r].client][r] = visit'[r].at
    <3>1. /\ visit[r].step = "handled" /\ ~ServedBy(r, p)
          /\ visit'[r].process = visit[r].process /\ visit'[r].client = visit[r].client
          /\ visit'[r].at = visit[r].at
      BY <1>4, <2>1
    <3>2. visit[r].process # p
      BY <3>1 DEF ServedBy
    <3>3. attempts'[visit[r].process] = attempts[visit[r].process]
      <4>1. visit[r].process \in Backend
        BY <1>3, <3>1 DEF VisitRow, Counting, HandledRow, SuspectedRow, LimitedRow, OtherRow
      <4> QED  BY <1>1, <3>2, <4>1 DEF LimitsInv, LimitsTyped
    <3> QED  BY <3>1, <3>3 DEF LimitsInv, AttemptsAreKept
  <2> QED  BY <1>1, <2>1 DEF AttemptsAreKept
<1>11. SuspectsAreSlowed'
  <2>1. ASSUME NEW b \in Backend, NEW d \in Caller, NEW t \in 0 .. MaxTime, BaseScore[d] > 0
        PROVE  Cardinality(Through(b, d, t)') < RiskAttempts
    <3>1. Through(b, d, t)' \subseteq Through(b, d, t)
      BY <1>4 DEF Through
    <3> QED  BY <2>1, <3>1, FewerThrough
  <2> QED  BY <2>1, SlowedByThrough
<1>12. PassesFit'
  <2>1. ASSUME NEW k \in RateKey, NEW c \in Counter PROVE PassFits(k, c)'
    <3>1. PassFits(k, c) /\ (Live(k)' <=> Live(k))
      BY <1>1 DEF LimitsInv, PassesFit, Live
    <3>2. \A r \in Visit : visit'[r].passed = Kept(r)
      BY <1>4
    <3>3. CASE c = p
      <4>1. Passed(k, c)' = {}
        <5>1. ASSUME NEW r \in Visit PROVE [key |-> k, by |-> p] \notin visit'[r].passed
          <6>1. [key |-> k, by |-> p].by = p
            OBVIOUS
          <6>2. [key |-> k, by |-> p] \notin Kept(r)
            BY <6>1
          <6> QED  BY <3>2, <6>2
        <5> QED  BY <3>3, <5>1 DEF Passed
      <4>2. Holders(k, c)' = {}
        BY <1>2, <3>3, <4>1 DEF Holders
      <4>3. Cardinality({}) = 0
        BY FS_EmptySet
      <4>4. hits'[c][k].count = 0
        BY <1>6, <3>3 DEF NoCount
      <4> QED  BY <4>1, <4>2, <4>3, <4>4, LimitTypes DEF PassFits
    <3>4. CASE c # p
      <4>1. hits[c][k].count \in Nat /\ hits'[c][k].count = hits[c][k].count
        BY <1>6, <3>4, CountTypes
      <4>2. Passed(k, c)' \subseteq Passed(k, c)
        <5>1. \A r \in Visit : visit'[r].passed \subseteq visit[r].passed
          BY <3>2
        <5> HIDE DEF Kept
        <5> QED  BY <5>1 DEF Passed
      <4>3. Counted(k)' \subseteq Counted(k)
        BY <1>4 DEF Counted
      <4>4. Holders(k, c)' \subseteq Holders(k, c)
        BY <4>2, <4>3 DEF Holders
      <4> QED  BY <3>1, <4>1, <4>2, <4>4, PlacesKept
    <3> QED  BY <3>3, <3>4
  <2> QED  BY <2>1 DEF PassesFit
<1> QED  BY <1>5, <1>7, <1>8, <1>9, <1>10, <1>11, <1>12 DEF LimitsInv

LEMMA TickKeeps ==
  ASSUME LimitsInv, Tick
  PROVE  LimitsInv'
<1>1. now' = now + 1 /\ hits' = hits /\ attempts' = attempts /\ visit' = visit /\ now < MaxTime
  BY DEF Tick
<1>2. now \in Nat /\ now' \in Nat /\ now <= now' /\ MaxTime \in Nat /\ RiskWindow \in Nat
  BY <1>1, LimitTypes DEF LimitsInv, LimitsTyped
<1>3. PICK a \in Nat, b \in Nat : a = now \div Window /\ b = now' \div Window /\ a <= b
  <2>1. now \div Window \in Nat /\ now' \div Window \in Nat
    BY <1>2, LimitTypes, Division
  <2>2. now \div Window <= now' \div Window
    BY <1>2, LimitTypes, DivisionOrdered
  <2> QED  BY <2>1, <2>2
<1>4. \A k \in RateKey : k.window \in Nat
  <2>1. MaxTime \div Window \in Nat
    BY LimitTypes, Division
  <2> QED  BY <2>1 DEF RateKey
<1>5. LimitsTyped'
  BY <1>1, <1>2 DEF LimitsInv, LimitsTyped
<1>6. CountersLast' /\ RetryMeetsNewWindow'
  BY <1>1 DEF LimitsInv, CountersLast, RetryMeetsNewWindow, EndOf
<1>7. KeysAreOld'
  <2>1. ASSUME NEW r \in Visit, visit[r].step \in {"incr", "expire", "ttl"}
        PROVE  visit[r].key.window <= b
    <3>1. visit[r].key \in RateKey /\ visit[r].key.window <= a
      BY <1>3, <2>1, Waiting
    <3> QED  BY <1>3, <1>4, <3>1
  <2> QED  BY <1>1, <1>3, <2>1 DEF KeysAreOld
<1>8. AttemptsAreKept'
  <2>1. \A r \in Visit : visit[r].step = "handled" => visit[r].at \in Nat
    BY DEF LimitsInv, LimitsTyped, VisitRow, Counting, HandledRow, SuspectedRow, LimitedRow, OtherRow
  <2> QED  BY <1>1, <1>2, <2>1 DEF LimitsInv, AttemptsAreKept
<1>9. SuspectsAreSlowed'
  BY <1>1 DEF LimitsInv, SuspectsAreSlowed
<1>10. PassesFit'
  <2>1. ASSUME NEW k \in RateKey, NEW c \in Counter PROVE PassFits(k, c)'
    <3>1. PassFits(k, c)
      BY DEF LimitsInv, PassesFit
    <3>2. Live(k)' => Live(k)
      BY <1>3, <1>4 DEF Live
    <3>3. hits[c][k].count \in Nat /\ hits'[c][k].count = hits[c][k].count
      BY <1>1, CountTypes
    <3>4. Passed(k, c)' = Passed(k, c) /\ Counted(k)' = Counted(k)
      BY <1>1 DEF Passed, Counted
    <3>5. Holders(k, c)' = Holders(k, c)
      BY <3>4 DEF Holders
    <3> QED  BY <3>1, <3>2, <3>3, <3>4, <3>5, PlacesKept
  <2> QED  BY <2>1 DEF PassesFit
<1> QED  BY <1>5, <1>6, <1>7, <1>8, <1>9, <1>10 DEF LimitsInv

LEMMA LimitsSame ==
  ASSUME LimitsInv, UNCHANGED limitVars
  PROVE  LimitsInv'
<1>1. now' = now /\ hits' = hits /\ attempts' = attempts /\ visit' = visit
  BY DEF limitVars
<1>2. LimitsTyped' /\ CountersLast' /\ KeysAreOld' /\ AttemptsAreKept'
  BY <1>1 DEF LimitsInv, LimitsTyped, CountersLast, KeysAreOld, AttemptsAreKept, EndOf
<1>3. RetryMeetsNewWindow' /\ SuspectsAreSlowed'
  BY <1>1 DEF LimitsInv, RetryMeetsNewWindow, SuspectsAreSlowed
<1>4. PassesFit'
  <2>1. \A k, c : Passed(k, c)' = Passed(k, c) /\ Counted(k)' = Counted(k)
    BY <1>1 DEF Passed, Counted
  <2>2. \A k, c : Holders(k, c)' = Holders(k, c) /\ Live(k)' = Live(k)
    BY <1>1, <2>1 DEF Holders, Live
  <2>3. ASSUME NEW k \in RateKey, NEW c \in Counter PROVE PassFits(k, c)'
    <3>1. PassFits(k, c)
      BY DEF LimitsInv, PassesFit
    <3> QED  BY <1>1, <2>1, <2>2, <3>1 DEF PassFits
  <2> QED  BY <2>3 DEF PassesFit
<1> QED  BY <1>2, <1>3, <1>4 DEF LimitsInv

\* No counter lets too many through, nobody is sent back too early, and a
\* suspicious client is slowed down, whatever Redis and the processes do.
THEOREM LimitsAlwaysKept == LimitsSpec => []LimitsAreKept
<1>1. LimitsInv /\ [LimitsNext]_limitVars => LimitsInv'
  <2> SUFFICES ASSUME LimitsInv, [LimitsNext]_limitVars PROVE LimitsInv'  OBVIOUS
  <2>1. CASE \E r \in Visit : \E p \in Backend, c \in Caller : Arrive(r, p, c)
    BY <2>1, ArriveKeeps
  <2>2. CASE \E r \in Visit : Incr(r)
    BY <2>2, IncrKeeps
  <2>3. CASE \E r \in Visit : Expire(r)
    BY <2>3, ExpireKeeps
  <2>4. CASE \E r \in Visit : Ttl(r)
    BY <2>4, TtlKeeps
  <2>5. CASE \E r \in Visit : CommandFails(r)
    BY <2>5, CommandFailsKeeps
  <2>6. CASE \E p \in Backend : Restart(p)
    BY <2>6, RestartKeeps
  <2>7. CASE Tick
    BY <2>7, TickKeeps
  <2>8. CASE UNCHANGED limitVars
    BY <2>8, LimitsSame
  <2> QED  BY <2>1, <2>2, <2>3, <2>4, <2>5, <2>6, <2>7, <2>8 DEF LimitsNext
<1>2. LimitsInv => LimitsAreKept
  <2> SUFFICES ASSUME LimitsInv PROVE LimitsAreKept  OBVIOUS
  <2>1. LimitsHold
    BY DEF LimitsInv, PassesFit, PassFits, Passed, LimitsHold
  <2> QED  BY <2>1 DEF LimitsInv, LimitsAreKept
<1> QED  BY <1>1, <1>2, LimitsStart, PTL DEF LimitsSpec
=============================================================================
