------------------------------- MODULE Verify -------------------------------
(***************************************************************************)
(* One audit request end to end: POST /verify-resolution-rules of          *)
(* app/main.py, and the MCP tool and the bot's plain message, which share   *)
(* its core without a key, a payment or metering.                          *)
(*                                                                         *)
(*   auth -> rate limit -> payment check -> resolve and score ->           *)
(*   subscribe -> settle -> receipt -> meter -> audit row -> live feed     *)
(*                                                                         *)
(* Each arrow is an await: the handler of another request, or the end of   *)
(* the process, may come between. Every write is committed where it is      *)
(* made, so what a request has done stays done when it fails later. The    *)
(* ApiKey row is loaded by auth and written back at the end of the request. *)
(***************************************************************************)
EXTENDS Naturals, FiniteSets

CONSTANTS
  Requests,     \* the requests made
  Keys,         \* the API keys issued
  KeyOf,        \* KeyOf[r]: the key r presents
  Surface,      \* Surface[r]: "rest", or "agent" for MCP and the bot
  Subscribes,   \* the requests with subscribe_monitor
  Paid,         \* x402_enabled
  Live          \* x402_mode = "live": a facilitator is called

ASSUME VerifyAssumption ==
  /\ KeyOf \in [Requests -> Keys]
  /\ Surface \in [Requests -> {"rest", "agent"}]
  /\ Subscribes \subseteq Requests
  /\ Paid \in BOOLEAN /\ Live \in BOOLEAN
  /\ IsFiniteSet(Requests)

VARIABLES
  stage,      \* stage[r]: the step r's handler takes next
  loaded,     \* loaded[r]: call_count of the ApiKey object r's session holds
  result,     \* result[r]: what resolving and scoring came to
  response,   \* response[r]: the HTTP status the caller was given
  charged,    \* charged[r]: the facilitator moved r's payment (outside)
  count,      \* api_keys.call_count
  touched,    \* the requests that ran touch_usage (observed, not stored)
  receipts,   \* the table settlements, by request
  logs,       \* the table call_logs, by request
  watches,    \* the requests with a row in monitor_subscriptions
  feed        \* the requests published to the live feed

vars == <<stage, loaded, result, response, charged, count, touched, receipts,
          logs, watches, feed>>

-----------------------------------------------------------------------------

Working == {"limit", "payment", "resolve", "subscribe", "settle", "settled",
            "unsettled", "meter", "log", "publish", "meterError", "logError"}
Stages == Working \cup {"new", "done", "lost"}

Results == {"none", "scored", "unsupported", "parseFailed"}

\* 500 stands for any exception the handler does not catch.
Statuses == {0, 200, 400, 401, 402, 422, 429, 500}

\* The types of the handlers' state and of the tables (app/models.py).
TypeOK ==
  /\ stage \in [Requests -> Stages]
  /\ loaded \in [Requests -> Nat]
  /\ result \in [Requests -> Results]
  /\ response \in [Requests -> Statuses]
  /\ charged \in [Requests -> BOOLEAN]
  /\ count \in [Keys -> Nat]
  /\ touched \subseteq Requests
  /\ receipts \in [Requests -> {"none", "settled", "failed"}]
  /\ logs \in [Requests -> {"none", "ok", "error"}]
  /\ watches \subseteq Requests
  /\ feed \subseteq Requests

Init ==
  /\ stage = [r \in Requests |-> "new"]
  /\ loaded = [r \in Requests |-> 0]
  /\ result = [r \in Requests |-> "none"]
  /\ response = [r \in Requests |-> 0]
  /\ charged = [r \in Requests |-> FALSE]
  /\ count = [k \in Keys |-> 0]
  /\ touched = {}
  /\ receipts = [r \in Requests |-> "none"]
  /\ logs = [r \in Requests |-> "none"]
  /\ watches = {}
  /\ feed = {}

tables == <<count, touched, receipts, logs, watches, feed>>

\* r's handler goes on to the stage to, or answers.
Goto(r, to) == stage' = [stage EXCEPT ![r] = to] /\ UNCHANGED response
Answer(r, status) ==
  /\ stage' = [stage EXCEPT ![r] = "done"]
  /\ response' = [response EXCEPT ![r] = status]

-----------------------------------------------------------------------------
(* Before the work: identity, rate, money.                                   *)

\* FastAPI answers for a body it cannot read before the dependencies run, and for one
\* that is no VerifyRequest after them: the handler is never called.
InvalidBody(r) ==
  /\ Surface[r] = "rest"
  /\ \/ stage[r] = "new" /\ \E status \in {400, 422} : Answer(r, status)
     \/ stage[r] = "resolve" /\ Answer(r, 422)
  /\ UNCHANGED <<loaded, result, charged, tables>>

\* require_api_key. An unknown key is 401; a known one is loaded.
Authenticate(r) ==
  /\ stage[r] = "new"
  /\ Surface[r] = "rest"
  /\ \/ Answer(r, 401) /\ UNCHANGED loaded
     \/ Goto(r, "limit") /\ loaded' = [loaded EXCEPT ![r] = count[KeyOf[r]]]
  /\ UNCHANGED <<result, charged, tables>>

\* The MCP tool and the bot have no key: only their own rate limit.
Arrive(r) ==
  /\ stage[r] = "new"
  /\ Surface[r] = "agent"
  /\ Goto(r, "limit")
  /\ UNCHANGED <<loaded, result, charged, tables>>

\* enforce_rate_limit, and the agents' own limits, whose refusals are messages and
\* not statuses. The counter's value is not kept here: either verdict may come.
RateLimit(r) ==
  /\ stage[r] = "limit"
  /\ \/ Answer(r, 429)
     \/ Goto(r, IF Surface[r] = "rest" THEN "payment" ELSE "resolve")
  /\ UNCHANGED <<loaded, result, charged, tables>>

\* require_payment: free, challenged or refused with 402, or verified. Verifying
\* moves no funds.
CheckPayment(r) ==
  /\ stage[r] = "payment"
  /\ \/ Paid /\ Answer(r, 402)
     \/ Goto(r, "resolve")
  /\ UNCHANGED <<loaded, result, charged, tables>>

-----------------------------------------------------------------------------
(* The work: _resolve_score_monitor.                                         *)

\* _settle is for a verified payment; agents are not metered.
AfterWork(r) ==
  IF Surface[r] = "agent" THEN "log" ELSE IF Paid THEN "settle" ELSE "meter"

\* Variant: an error settles like a result.
AfterErrorSettles(r) == AfterWork(r)

\* _error meters and logs, and does not settle.
AfterError(r) == "meterError"

\* resolve_cached, analyze_cached (whose exceptions only cost the model's opinion)
\* and score_market.
Score(r) ==
  /\ stage[r] = "resolve"
  /\ result' = [result EXCEPT ![r] = "scored"]
  /\ Goto(r, IF r \in Subscribes THEN "subscribe" ELSE AfterWork(r))
  /\ UNCHANGED <<loaded, charged, tables>>

\* UnsupportedPlatformError or ResolverError. An agent is answered at once, with
\* the error inside a 200 envelope that the model does not tell from a 422.
CannotScore(r) ==
  /\ stage[r] = "resolve"
  /\ \E e \in {"unsupported", "parseFailed"} : result' = [result EXCEPT ![r] = e]
  /\ IF Surface[r] = "agent" THEN Answer(r, 422) ELSE Goto(r, AfterError(r))
  /\ UNCHANGED <<loaded, charged, tables>>

\* create_subscription.
Subscribe(r) ==
  /\ stage[r] = "subscribe"
  /\ watches' = watches \cup {r}
  /\ Goto(r, AfterWork(r))
  /\ UNCHANGED <<loaded, result, charged, count, touched, receipts, logs, feed>>

-----------------------------------------------------------------------------
(* After the work: money, metering, the trail.                               *)

\* facilitator.settle. Simulated, it always succeeds. Live, its answer says whether
\* the payment moved; success = false is not an error of the request.
Settle(r) ==
  /\ stage[r] = "settle"
  /\ \/ charged' = [charged EXCEPT ![r] = TRUE] /\ Goto(r, "settled")
     \/ Live /\ UNCHANGED charged /\ Goto(r, "unsettled")
  /\ UNCHANGED <<loaded, result, tables>>

\* The call to the facilitator raises: a timeout, a lost answer or an HTTP error
\* status, after the payment moved or before.
SettleRaises(r) ==
  /\ stage[r] = "settle"
  /\ Live
  /\ \E moved \in BOOLEAN : charged' = [charged EXCEPT ![r] = moved]
  /\ Answer(r, 500)
  /\ UNCHANGED <<loaded, result, tables>>

\* Variant: every settlement is receipted as settled.
ReceiptAlwaysSettled(r) == "settled"

ReceiptStatus(r) == IF stage[r] = "settled" THEN "settled" ELSE "failed"

\* record_settlement.
Receipt(r) ==
  /\ stage[r] \in {"settled", "unsettled"}
  /\ receipts' = [receipts EXCEPT ![r] = ReceiptStatus(r)]
  /\ Goto(r, "meter")
  /\ UNCHANGED <<loaded, result, charged, count, touched, logs, watches, feed>>

\* Variant: the counter is read again, and an error counts twice.
UsageTwiceOnError(r) == count[KeyOf[r]] + (IF stage[r] = "meterError" THEN 2 ELSE 1)

\* key.call_count += 1, on the object auth loaded.
Usage(r) == loaded[r] + 1

\* touch_usage.
Meter(r) ==
  /\ stage[r] \in {"meter", "meterError"}
  /\ count' = [count EXCEPT ![KeyOf[r]] = Usage(r)]
  /\ touched' = touched \cup {r}
  /\ Goto(r, IF stage[r] = "meter" THEN "log" ELSE "logError")
  /\ UNCHANGED <<loaded, result, charged, receipts, logs, watches, feed>>

\* record_success; the live feed is next.
LogSuccess(r) ==
  /\ stage[r] = "log"
  /\ logs' = [logs EXCEPT ![r] = "ok"]
  /\ Goto(r, "publish")
  /\ UNCHANGED <<loaded, result, charged, count, touched, receipts, watches, feed>>

\* Variant: the error row is not written.
ErrorRowForgotten(r) == logs[r]

\* Variant: the row's status is in the words of the settlements table.
ErrorRowFailed(r) == "failed"

ErrorRow(r) == "error"

\* record_error, and the error's status, or 500 when the refresh after the commit
\* fails.
LogError(r) ==
  /\ stage[r] = "logError"
  /\ logs' = [logs EXCEPT ![r] = ErrorRow(r)]
  /\ \/ Answer(r, IF result[r] = "unsupported" THEN 400 ELSE 422)
     \/ Answer(r, 500)
  /\ UNCHANGED <<loaded, result, charged, count, touched, receipts, watches, feed>>

\* redis_client.publish never raises; without Redis nothing is published.
Publish(r) ==
  /\ stage[r] = "publish"
  /\ feed' \in {feed, feed \cup {r}}
  /\ Answer(r, 200)
  /\ UNCHANGED <<loaded, result, charged, count, touched, receipts, logs, watches>>

\* Any other exception, of the resolver, of the payment check, of a commit or of the
\* refresh that follows it: what was committed before stays. The rate limit swallows
\* its own.
Fails(r) ==
  /\ stage[r] \in Working \ {"limit"}
  /\ stage[r] = "payment" => Paid
  /\ Answer(r, 500)
  /\ UNCHANGED <<loaded, result, charged, tables>>

\* The process stops: nothing more happens to the requests it was serving.
Restart ==
  /\ \E r \in Requests : stage[r] \in Working
  /\ stage' = [r \in Requests |-> IF stage[r] \in Working THEN "lost" ELSE stage[r]]
  /\ UNCHANGED <<loaded, result, response, charged, tables>>

-----------------------------------------------------------------------------

Handle(r) ==
  \/ InvalidBody(r) \/ Authenticate(r) \/ Arrive(r) \/ RateLimit(r) \/ CheckPayment(r)
  \/ Score(r) \/ CannotScore(r) \/ Subscribe(r)
  \/ Settle(r) \/ SettleRaises(r) \/ Receipt(r)
  \/ Meter(r) \/ LogSuccess(r) \/ LogError(r) \/ Publish(r) \/ Fails(r)

Next == (\E r \in Requests : Handle(r)) \/ Restart

Spec == Init /\ [][Next]_vars

-----------------------------------------------------------------------------
(* Safety.                                                                   *)

Rest(r) == Surface[r] = "rest"

\* gate.py:11 "no result, no charge": a payment moves only for a request whose
\* market was resolved and scored, and never for an agent's, whatever failed.
NoResultNoCharge == \A r \in Requests : charged[r] => result[r] = "scored" /\ Rest(r)

\* The receipts say what happened to the money. A request that was answered with its
\* result while payment is on has one, and money that moved without a receipt is never
\* followed by an answer that hides it: the caller gets a 500, or none when the
\* process stops (_settle, facilitator.settle, record_settlement).
ReceiptsHonest ==
  \A r \in Requests :
    /\ receipts[r] = "settled" => charged[r]
    /\ receipts[r] = "failed" => ~charged[r]
    /\ charged[r] /\ receipts[r] = "none"
         => stage[r] \in {"settled", "lost"} \/ response[r] = 500
    /\ Paid /\ Rest(r) /\ logs[r] = "ok" => receipts[r] # "none"

\* An answer of the handler was metered and audited first, with the row that says
\* whether the market was scored; whoever saw it on the live feed can find its row.
\* The 400 and 422 that FastAPI gives for a body have no result, so that they are
\* neither metered nor logged.
AnswersAudited ==
  \A r \in Requests :
    /\ response[r] = 200 => logs[r] = "ok"
    /\ response[r] \in {400, 422} /\ Rest(r) /\ result[r] # "none" => logs[r] = "error"
    /\ logs[r] = "ok" => result[r] = "scored"
    /\ logs[r] = "error" => result[r] \in {"unsupported", "parseFailed"}
    /\ Rest(r) /\ logs[r] # "none" => r \in touched
    /\ r \in touched => Rest(r) /\ result[r] # "none"
    /\ r \in feed => logs[r] = "ok"

\* A key is never billed for more calls than were metered on it, however requests
\* overlap (touch_usage).
NeverOvercounts ==
  \A k \in Keys : count[k] <= Cardinality({r \in touched : KeyOf[r] = k})

(* What the repository says and the code does not do.                        *)

\* README.md:50 "every call (success or error) is logged and metered".
EveryCallMetered ==
  \A k \in Keys :
    count[k] >= Cardinality({r \in Requests : Rest(r) /\ KeyOf[r] = k /\ logs[r] # "none"})
=============================================================================
