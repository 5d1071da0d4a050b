---------------------------- MODULE VerifyProofs ----------------------------
(***************************************************************************)
(* Proofs about Verify, for any finite set of requests and any keys,        *)
(* surfaces and payment settings. Money, receipts and the audit trail are   *)
(* settled request by request: no step of another request, and no restart,  *)
(* can undo what Facts says of one.                                         *)
(***************************************************************************)
EXTENDS Verify, FiniteSetTheorems, TLAPS

USE VerifyAssumption
USE DEF tables

-----------------------------------------------------------------------------
(* Typing.                                                                   *)

LEMMA TypeInit == Init => TypeOK
BY DEF Init, TypeOK, Stages, Working, Results, Statuses

LEMMA TypeNext == TypeOK /\ [Next]_vars => TypeOK'
<1> SUFFICES ASSUME TypeOK, [Next]_vars PROVE TypeOK'
  OBVIOUS
<1> USE DEF TypeOK, Stages, Working, Results, Statuses, Goto, Answer
<1>1. ASSUME NEW r \in Requests, InvalidBody(r) \/ Authenticate(r) \/ Arrive(r) PROVE TypeOK'
  BY <1>1 DEF InvalidBody, Authenticate, Arrive
<1>2. ASSUME NEW r \in Requests, RateLimit(r) \/ CheckPayment(r) PROVE TypeOK'
  BY <1>2 DEF RateLimit, CheckPayment
<1>3. ASSUME NEW r \in Requests, Score(r) \/ CannotScore(r) \/ Subscribe(r) PROVE TypeOK'
  BY <1>3 DEF Score, CannotScore, Subscribe, AfterWork, AfterError
<1>4. ASSUME NEW r \in Requests, Settle(r) \/ SettleRaises(r) PROVE TypeOK'
  <2>1. CASE Settle(r)
    <3>1. charged' = charged \/ charged' = [charged EXCEPT ![r] = TRUE]
      BY <2>1 DEF Settle
    <3>2. [charged EXCEPT ![r] = TRUE] \in [Requests -> BOOLEAN]
      OBVIOUS
    <3>3. charged' \in [Requests -> BOOLEAN]
      BY <3>1, <3>2, ZenonT(60)
    <3>4. QED
      BY <2>1, <3>3 DEF Settle
  <2>2. CASE SettleRaises(r)
    <3>1. PICK moved \in BOOLEAN : charged' = [charged EXCEPT ![r] = moved]
      BY <2>2, ZenonT(60) DEF SettleRaises
    <3>2. charged' \in [Requests -> BOOLEAN]
      BY <3>1, Zenon
    <3>3. QED
      BY <2>2, <3>2 DEF SettleRaises
  <2>3. QED
    BY <1>4, <2>1, <2>2
<1>5. ASSUME NEW r \in Requests, Receipt(r) \/ Meter(r) PROVE TypeOK'
  BY <1>5 DEF Receipt, ReceiptStatus, Meter, Usage
<1>6. ASSUME NEW r \in Requests, LogSuccess(r) \/ LogError(r) PROVE TypeOK'
  BY <1>6 DEF LogSuccess, LogError, ErrorRow
<1>7. ASSUME NEW r \in Requests, Publish(r) \/ Fails(r) PROVE TypeOK'
  BY <1>7 DEF Publish, Fails
<1>8. CASE Restart
  BY <1>8 DEF Restart
<1>9. CASE UNCHANGED vars
  BY <1>9 DEF vars
<1>10. QED
  BY <1>1, <1>2, <1>3, <1>4, <1>5, <1>6, <1>7, <1>8, <1>9 DEF Next, Handle

\* The state of the handlers and of the tables has its type, for any requests, keys
\* and settings.
THEOREM Typing == Spec => []TypeOK
<1>1. QED
  BY TypeInit, TypeNext, PTL DEF Spec

-----------------------------------------------------------------------------
(* What holds of a request at each stage of its handler. The properties speak *)
(* of requests that have ended, so each part has to hold from the stage where *)
(* it is established to the end, whichever way the request ends.              *)

BeforeSettling == {"new", "limit", "payment", "resolve", "subscribe", "settle"}
AfterScoring == {"subscribe", "settle", "settled", "unsettled", "meter", "log", "publish"}
Paying == {"settle", "settled", "unsettled"}

\* Only a scored request reaches the settlement, and only a REST request pays.
Money(r) ==
  /\ stage[r] \in AfterScoring => result[r] = "scored"
  /\ stage[r] \in Paying => Rest(r) /\ Paid
  /\ stage[r] \in BeforeSettling \cup {"unsettled", "meterError", "logError"} => ~charged[r]
  /\ stage[r] = "settled" => charged[r]
  /\ charged[r] => result[r] = "scored" /\ Rest(r)

\* The receipt follows the settlement and precedes the metering.
Receipts(r) ==
  /\ stage[r] \in BeforeSettling \cup Paying => receipts[r] = "none"
  /\ stage[r] \in {"meter", "log", "publish"} /\ Paid /\ Rest(r) => receipts[r] # "none"
  /\ receipts[r] = "settled" => charged[r]
  /\ receipts[r] = "failed" => ~charged[r]
  /\ charged[r] /\ receipts[r] = "none"
       => stage[r] \in {"settled", "lost"} \/ response[r] = 500
  /\ logs[r] = "ok" /\ Paid /\ Rest(r) => receipts[r] # "none"

\* The row follows the metering, and the answer and the feed follow the row.
Trail(r) ==
  /\ stage[r] \in Working \cup {"new"} => response[r] = 0
  /\ stage[r] \in (Working \ {"publish"}) \cup {"new"} => logs[r] = "none"
  /\ stage[r] = "publish" => logs[r] = "ok"
  /\ stage[r] \in {"log", "logError"} /\ Rest(r) => r \in touched
  /\ response[r] = 200 => logs[r] = "ok"
  /\ response[r] \in {400, 422} /\ Rest(r) /\ result[r] # "none" => logs[r] = "error"
  /\ stage[r] \in {"new", "limit", "payment", "resolve"} => result[r] = "none"
  /\ stage[r] \in {"meterError", "logError"} => result[r] \in {"unsupported", "parseFailed"}
  /\ logs[r] = "ok" => result[r] = "scored"
  /\ logs[r] = "error" => result[r] \in {"unsupported", "parseFailed"}
  /\ Rest(r) /\ logs[r] # "none" => r \in touched
  /\ r \in touched => Rest(r) /\ result[r] # "none"
  /\ r \in feed => logs[r] = "ok"

Facts == \A r \in Requests : Money(r) /\ Receipts(r) /\ Trail(r)

\* An agent is never in the part of the handler that REST alone goes through.
Lanes == \A r \in Requests :
  ~Rest(r) => stage[r] \notin Paying \cup {"payment", "meter", "meterError", "logError"}

IInv == TypeOK /\ Lanes /\ Facts

LEMMA FactsInit == Init => IInv
BY TypeInit DEF Init, IInv, Lanes, Facts, Money, Receipts, Trail, BeforeSettling,
   AfterScoring, Paying, Working

LEMMA LanesNext == TypeOK /\ Lanes /\ [Next]_vars => Lanes'
<1> SUFFICES ASSUME TypeOK, Lanes, [Next]_vars PROVE Lanes'
  OBVIOUS
<1> USE DEF TypeOK, Lanes, Rest, Paying, Goto, Answer
<1>1. ASSUME NEW r \in Requests,
             InvalidBody(r) \/ Authenticate(r) \/ Arrive(r) \/ RateLimit(r)
      PROVE  Lanes'
  BY <1>1 DEF InvalidBody, Authenticate, Arrive, RateLimit
<1>2. ASSUME NEW r \in Requests, CheckPayment(r) \/ Score(r) \/ CannotScore(r) PROVE Lanes'
  BY <1>2 DEF CheckPayment, Score, CannotScore, AfterWork, AfterError
<1>3. ASSUME NEW r \in Requests, Subscribe(r) \/ Settle(r) \/ SettleRaises(r) PROVE Lanes'
  BY <1>3 DEF Subscribe, Settle, SettleRaises, AfterWork
<1>4. ASSUME NEW r \in Requests, Receipt(r) \/ Meter(r) \/ LogSuccess(r) PROVE Lanes'
  BY <1>4 DEF Receipt, Meter, LogSuccess
<1>5. ASSUME NEW r \in Requests, LogError(r) \/ Publish(r) \/ Fails(r) PROVE Lanes'
  BY <1>5 DEF LogError, Publish, Fails
<1>6. CASE Restart
  BY <1>6 DEF Restart, Working
<1>7. CASE UNCHANGED vars
  BY <1>7 DEF vars
<1>8. QED
  BY <1>1, <1>2, <1>3, <1>4, <1>5, <1>6, <1>7 DEF Next, Handle

\* A step of r keeps the facts of every request q, r among them.
LEMMA StepFacts ==
  ASSUME IInv, NEW r \in Requests, Handle(r), NEW q \in Requests
  PROVE  Money(q)' /\ Receipts(q)' /\ Trail(q)'
<1> USE DEF IInv, TypeOK, Facts, Money, Receipts, Trail, Rest, BeforeSettling, AfterScoring,
            Paying, Working, Goto, Answer
<1>1. CASE InvalidBody(r) \/ Authenticate(r) \/ Arrive(r)
  BY <1>1 DEF InvalidBody, Authenticate, Arrive
<1>2. CASE RateLimit(r) \/ CheckPayment(r)
  BY <1>2 DEF RateLimit, CheckPayment
<1>3. CASE Score(r)
  BY <1>3 DEF Score, AfterWork
<1>4. CASE CannotScore(r)
  BY <1>4 DEF CannotScore, AfterError
<1>5. CASE Subscribe(r)
  BY <1>5 DEF Subscribe, AfterWork
<1>6. CASE Settle(r)
  BY <1>6 DEF Settle
<1>7. CASE SettleRaises(r)
  BY <1>7 DEF SettleRaises
<1>8. CASE Receipt(r)
  BY <1>8 DEF Receipt, ReceiptStatus
<1>9. CASE Meter(r)
  BY <1>9 DEF Meter, Lanes
<1>10. CASE LogSuccess(r)
  BY <1>10 DEF LogSuccess
<1>11. CASE LogError(r)
  BY <1>11 DEF LogError, ErrorRow
<1>12. CASE Publish(r)
  BY <1>12 DEF Publish
<1>13. CASE Fails(r)
  BY <1>13 DEF Fails
<1>14. QED
  BY <1>1, <1>2, <1>3, <1>4, <1>5, <1>6, <1>7, <1>8, <1>9, <1>10, <1>11, <1>12, <1>13 DEF Handle

LEMMA FactsNext == IInv /\ [Next]_vars => IInv'
<1> SUFFICES ASSUME IInv, [Next]_vars PROVE IInv'
  OBVIOUS
<1>1. TypeOK' /\ Lanes'
  BY TypeNext, LanesNext DEF IInv
<1>2. Facts'
  <2>1. ASSUME NEW r \in Requests, Handle(r) PROVE Facts'
    BY <2>1, StepFacts DEF Facts
  <2>2. CASE Restart
    BY <2>2 DEF Restart, IInv, TypeOK, Facts, Money, Receipts, Trail, Rest, BeforeSettling,
                AfterScoring, Paying, Working
  <2>3. CASE UNCHANGED vars
    BY <2>3 DEF vars, IInv, Facts, Money, Receipts, Trail, Rest
  <2>4. QED
    BY <2>1, <2>2, <2>3 DEF Next
<1>3. QED
  BY <1>1, <1>2 DEF IInv

\* Money, receipts and trail agree with the stage of every request, whatever the other
\* requests do and wherever the process stops.
THEOREM RequestsSettled == Spec => []IInv
<1>1. QED
  BY FactsInit, FactsNext, PTL DEF Spec

\* "no result, no charge" (gate.py:11), for any requests and settings.
THEOREM Charges == Spec => []NoResultNoCharge
<1>1. IInv => NoResultNoCharge
  BY DEF IInv, Facts, Money, NoResultNoCharge
<1>2. QED
  BY <1>1, RequestsSettled, PTL

\* Receipts tell what happened to the money (_settle, record_settlement).
THEOREM ReceiptsTellTruth == Spec => []ReceiptsHonest
<1>1. IInv => ReceiptsHonest
  BY DEF IInv, Facts, Receipts, ReceiptsHonest
<1>2. QED
  BY <1>1, RequestsSettled, PTL

\* An answer of the handler follows its metering and its audit row (record_success,
\* record_error); the ones FastAPI gives for a body have neither.
THEOREM Audited == Spec => []AnswersAudited
<1>1. IInv => AnswersAudited
  BY DEF IInv, Facts, Trail, AnswersAudited
<1>2. QED
  BY <1>1, RequestsSettled, PTL

-----------------------------------------------------------------------------
(* Metering. touch_usage writes what auth loaded, plus one. What was loaded   *)
(* never exceeds the number of calls metered on the key by now, because that  *)
(* number only grows and the handler has not metered its own call yet.        *)

Metered(k) == {r \in touched : KeyOf[r] = k}

ToMeter == {"new", "limit", "payment", "resolve", "subscribe", "settle", "settled",
            "unsettled", "meter", "meterError"}

Unmetered == \A r \in Requests : stage[r] \in ToMeter => r \notin touched

Covered ==
  /\ \A k \in Keys : count[k] <= Cardinality(Metered(k))
  /\ \A r \in Requests : loaded[r] <= Cardinality(Metered(KeyOf[r]))

MInv == TypeOK /\ Unmetered /\ Covered

LEMMA MeteredFinite ==
  ASSUME TypeOK, NEW k
  PROVE  IsFiniteSet(Metered(k)) /\ Cardinality(Metered(k)) \in Nat
<1>1. Metered(k) \subseteq Requests
  BY DEF TypeOK, Metered
<1>2. QED
  BY <1>1, FS_Subset, FS_CardinalityType

LEMMA MeterInit == Init => MInv
<1> SUFFICES ASSUME Init PROVE MInv
  OBVIOUS
<1>1. TypeOK /\ Unmetered
  BY TypeInit DEF Init, Unmetered
<1>2. \A k : Cardinality(Metered(k)) \in Nat
  BY <1>1, MeteredFinite
<1>3. Covered
  BY <1>2 DEF Init, Covered
<1>4. QED
  BY <1>1, <1>3 DEF MInv

LEMMA UnmeteredNext == MInv /\ [Next]_vars => Unmetered'
<1> SUFFICES ASSUME MInv, [Next]_vars PROVE Unmetered'
  OBVIOUS
<1> USE DEF MInv, TypeOK, Unmetered, ToMeter, Goto, Answer
<1>1. ASSUME NEW r \in Requests,
             InvalidBody(r) \/ Authenticate(r) \/ Arrive(r) \/ RateLimit(r)
      PROVE  Unmetered'
  BY <1>1 DEF InvalidBody, Authenticate, Arrive, RateLimit
<1>2. ASSUME NEW r \in Requests, CheckPayment(r) \/ Score(r) \/ CannotScore(r)
      PROVE  Unmetered'
  BY <1>2 DEF CheckPayment, Score, CannotScore, AfterWork, AfterError
<1>3. ASSUME NEW r \in Requests, Subscribe(r) \/ Settle(r) \/ SettleRaises(r)
      PROVE  Unmetered'
  BY <1>3 DEF Subscribe, Settle, SettleRaises, AfterWork
<1>4. ASSUME NEW r \in Requests, Receipt(r) \/ Meter(r) \/ LogSuccess(r)
      PROVE  Unmetered'
  BY <1>4 DEF Receipt, Meter, LogSuccess
<1>5. ASSUME NEW r \in Requests, LogError(r) \/ Publish(r) \/ Fails(r)
      PROVE  Unmetered'
  BY <1>5 DEF LogError, Publish, Fails
<1>6. CASE Restart
  BY <1>6 DEF Restart, Working
<1>7. CASE UNCHANGED vars
  BY <1>7 DEF vars
<1>8. QED
  BY <1>1, <1>2, <1>3, <1>4, <1>5, <1>6, <1>7 DEF Next, Handle

\* Only Authenticate loads a counter, and only Meter writes one.
LEMMA CounterSteps ==
  ASSUME [Next]_vars
  PROVE  \/ UNCHANGED <<loaded, count, touched>>
         \/ \E r \in Requests : Meter(r)
         \/ /\ UNCHANGED <<count, touched>>
            /\ \E r \in Requests : loaded' = [loaded EXCEPT ![r] = count[KeyOf[r]]]
<1>1. ASSUME NEW r \in Requests, Handle(r), ~Meter(r), ~Authenticate(r)
      PROVE  UNCHANGED <<loaded, count, touched>>
  BY <1>1 DEF Handle, InvalidBody, Arrive, RateLimit, CheckPayment, Score, CannotScore, Subscribe, Settle,
              SettleRaises, Receipt, LogSuccess, LogError, Publish, Fails
<1>2. ASSUME NEW r \in Requests, Authenticate(r)
      PROVE  /\ UNCHANGED <<count, touched>>
             /\ \/ UNCHANGED loaded
                \/ loaded' = [loaded EXCEPT ![r] = count[KeyOf[r]]]
  BY <1>2 DEF Authenticate
<1>3. CASE Restart
  BY <1>3 DEF Restart
<1>4. QED
  BY <1>1, <1>2, <1>3 DEF Next, vars

LEMMA CoveredMeter ==
  ASSUME MInv, TypeOK', NEW r \in Requests, Meter(r)
  PROVE  Covered'
<1>1. r \notin touched /\ touched' = touched \cup {r} /\ UNCHANGED loaded
      /\ count' = [count EXCEPT ![KeyOf[r]] = loaded[r] + 1]
  BY DEF MInv, Unmetered, ToMeter, Meter, Usage
<1>2. Metered(KeyOf[r])' = Metered(KeyOf[r]) \cup {r} /\ r \notin Metered(KeyOf[r])
  BY <1>1 DEF Metered
<1>3. Cardinality(Metered(KeyOf[r])') = Cardinality(Metered(KeyOf[r])) + 1
  BY <1>2, MeteredFinite, FS_AddElement DEF MInv
<1>4. ASSUME NEW k, k # KeyOf[r] PROVE Metered(k)' = Metered(k)
  BY <1>1, <1>4 DEF Metered
<1>5. \A k : Cardinality(Metered(k)) \in Nat
  BY MeteredFinite DEF MInv
<1>6. count'[KeyOf[r]] <= Cardinality(Metered(KeyOf[r])')
  BY <1>1, <1>3, <1>5 DEF MInv, TypeOK, Covered
<1>7. ASSUME NEW k \in Keys, k # KeyOf[r] PROVE count'[k] <= Cardinality(Metered(k)')
  BY <1>1, <1>4, <1>7 DEF MInv, TypeOK, Covered
<1>8. \A q \in Requests : loaded'[q] <= Cardinality(Metered(KeyOf[q])')
  BY <1>1, <1>3, <1>4, <1>5 DEF MInv, TypeOK, Covered
<1>9. QED
  <2>1. \A k \in Keys : count'[k] <= Cardinality(Metered(k)')
    BY <1>6, <1>7
  <2>2. QED
    BY <2>1, <1>8 DEF Covered, Metered

LEMMA MeterNext == MInv /\ [Next]_vars => MInv'
<1> SUFFICES ASSUME MInv, [Next]_vars PROVE MInv'
  OBVIOUS
<1>1. TypeOK' /\ Unmetered'
  BY TypeNext, UnmeteredNext DEF MInv
<1>2. CASE UNCHANGED <<loaded, count, touched>>
  BY <1>1, <1>2 DEF MInv, Covered, Metered
<1>3. ASSUME NEW r \in Requests, Meter(r) PROVE MInv'
  BY <1>1, <1>3, CoveredMeter DEF MInv
<1>4. ASSUME UNCHANGED <<count, touched>>, NEW r \in Requests,
             loaded' = [loaded EXCEPT ![r] = count[KeyOf[r]]]
      PROVE  MInv'
  <2>1. Covered'
    BY <1>4 DEF MInv, TypeOK, Covered, Metered
  <2>2. QED
    BY <1>1, <2>1 DEF MInv
<1>5. QED
  BY <1>2, <1>3, <1>4, CounterSteps

\* A key's counter never exceeds the calls metered on it (touch_usage), however many
\* requests overlap on it.
THEOREM MeteringNeverOvercounts == Spec => []NeverOvercounts
<1>1. MInv => NeverOvercounts
  BY DEF MInv, Covered, Metered, NeverOvercounts
<1>2. QED
  BY <1>1, MeterInit, MeterNext, PTL DEF Spec
=============================================================================
