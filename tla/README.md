# BetAudit: a TLA+ model

BetAudit audits prediction markets. A caller sends a market's URL; the service resolves
the market, reads its rules with a language model, scores the risk that the resolution
differs from the headline, and on request watches the market's oracle afterwards.
This directory holds TLA+ modules of its core, TLC configurations that check
them on small instances, and TLAPS proofs for instances of any size.

`PROJECT.json` lists the components, the runs, the source lines each definition stands
for, the mutants that show each property can fail, the hazards of the code and the
findings.

## The system

One Python process: FastAPI handlers and one background task on one event loop, over a
SQL database, an optional Redis, and outside services (Gamma, the language
model, an x402 facilitator, Telegram, webhooks). Everything interleaves at `await`s.

| Component | State it keeps | Operations | What is hard, and what makes it correct |
|---|---|---|---|
| Oracle monitor (`services/monitor.py`, routes and lifespan of `main.py`) | `monitor_subscriptions`, `monitor_events`; each poller's session with its copies of rows | subscribe, set webhook, unsubscribe, `/unwatch`, the loop's cycle, `POST /check`, delivery | Pollers work on stale copies across awaits; failures and restarts cut a poll in two. Alerts follow the oracle, what an owner stopped stays stopped, flags tell the truth, the loop catches up |
| Verify pipeline (`main.py`, `security.py`, `payments/`, `services/keys.py`, `audit.py`, `payments.py`) | `api_keys`, `settlements`, `call_logs`; the handlers' progress | authenticate, limit, check payment, score, subscribe, settle, receipt, meter, log, publish | Five commits in one request, any of which may be the last. Money moves only for results, receipts are honest, answers are audited |
| Risk engine (`engine.py`, `risk_factors.py`, `llm/parser.py`) | none | score a market in one of two modes | Weights and thresholds interact; the vocabulary filters the model's reply |
| Market resolver (`resolvers/`) | none | fetch and normalise a market | An oracle state out of Gamma's fields |
| Cache layer (`services/cache_layer.py`, `redis_client.py`) | `cache:market:*`, `cache:eval:*` with TTLs | get, fill | Concurrent fills, stale values, Redis failing open |
| Rate limiting (`services/ratelimit.py`, `/demo/key`, MCP, bot) | `rate:*` counters | count and refuse | Stamp, `INCR` and `EXPIRE` are three awaits, and Redis fails open at each. No counter admits more than the limit, and nobody is refused for what others did |
| Telegram bot (`main.py`, `telegram.py`) | the list of message ids per chat; the chat's subscriptions | `/start`, `/clear`, `/watch`, `/watching`, `/unwatch`, a plain URL | Updates delivered twice or concurrently; `LRANGE` and `DEL` apart. `/clear` loses and counts nothing twice, `/unwatch` stops what it was asked to stop |
| MCP endpoint (`main.py`, `mcp_server.py`) | none | `tools/call` | The same pipeline without a key |
| Live feed (`ws_audits`, `LiveAuditFeed` of `web/src/App.tsx`) | a Redis subscription and a forwarder per socket; the page's list and timer | connect, forward, show, tear down, connect again | Handlers of old sockets beside the new one; a forwarder that dies alone. The feed is in order and whole while nothing is lost, and every end is cleaned up |
| Web client (the rest of `web/src`) | a cached key and its promise | mint a key, verify | A rejected promise that is kept |
| Database, configuration, schemas | the tables above | | |

The monitor and the pipeline meet in `create_subscription`: the pipeline inserts the row
with the state of *its* resolution, which may come from the cache, and the monitor polls
it from there. `Monitor.Create` takes as baseline any state the market has been in.

## Modules

| Module | What it models |
|---|---|
| `Monitor` | Subscriptions, pollers, alerts and their delivery, the oracle as environment |
| `AlertPromise` | What a subscription promises its owner, without pollers, copies or failures |
| `MCMonitor` | One market, with a key's subscription, a chat's, or a chat's and one made through MCP |
| `MonitorProofs`, `MonitorHistory` | Typing and safety of `Monitor` for all constants: rows and flags, then what the alerts tell and the refinement of `AlertPromise` |
| `Verify` | One audit request from authentication to the live feed, many at once |
| `MCVerify` | Two requests on one key, and an agent's |
| `VerifyProofs` | Typing, money, receipts, audit trail and metering for all constants |
| `Engine` | The score, the action and the breakdown as operators, checked input by input |
| `MCEngine` | Every market, and every reply of up to three codes |
| `EngineProofs` | The score's properties for replies of any length and any codes and windows |
| `BoundedStaleness` | What the market cache promises, without saying how |
| `Cache` | Both caches over a Redis that may fail, under the pipeline's requests |
| `MCCache` | Two requests about either side of one market, whose outcomes are edited and then its rules |
| `CacheProofs` | Typing, the refinement, and what analyses are of and how old, for all constants |
| `RateLimit` | The counter of each caller and minute, at the four entry points that count |
| `MCRateLimit` | Three calls of one caller and one of another, over the end of a minute |
| `RateLimitProofs` | The limit, the refusals and the counters' expiry for all constants |
| `TelegramBot` | The bot's tasks in one chat, the list of message ids and the chat's watches |
| `MCTelegramBot` | Three updates of any kind |
| `TelegramBotProofs` | The message list, `/clear` and `/unwatch` for all constants |
| `LiveFeed` | One page of the live feed, its sockets, their handlers and forwarders, the channel |
| `MCLiveFeed` | One page with two sockets at a time |
| `LiveFeedProofs` | Order, completeness and the page's end for all constants |

`Monitor`, `Verify`, `Cache`, `RateLimit`, `TelegramBot` and `LiveFeed` are modules of their
own because they meet in few places, and each names the choice it makes there:
`Verify` takes either verdict of a rate limit and hides the cache; the bot's audit is an
agent's request of `Verify`; the bot's alerts are those `Monitor` sends to a chat
(`TelegramBot.Alert`, `Resolved`); what the feed shows is what `Verify.Publish` publishes.

### Monitor

`subs[s]` is the row of a subscription (`last`, `active`, whether a webhook is set) and
`events[s]` its alerts in id order. `Pollers` are the loop and the checks in flight.
A poller's work on a subscription goes through the awaits of `poll_subscription` and
`_deliver`:

    out --Load--> todo --Resolve--> answered --CommitEvent--> telegram --> webhook --> record --> out
                    \--ResolveFails--> out  \--NoChange--> out

* `copy[p][s]` is the row as the poller loaded it. Sessions are opened with
  `expire_on_commit=False`, so the copy is never refreshed, and an UPDATE writes only the
  attributes the poller changed: `Flush` sets `last`, and `active` when the state is
  terminal, on the row as it is by then.
* `CommitEvent` is one transaction (the event's INSERT and the row's UPDATE);
  `RecordDelivery` is another.
* `SendTelegram` never learns of a refusal: `send_message` returns `None` then.
* `Abort` is any exception but `ResolverError`: it ends the cycle for every subscription
  left in it. `Restart` ends all sessions. The tables survive both.
* `received` observes what the receivers took; no code reads it.
* The oracle's actions are the environment. `UNKNOWN` is what a paused market
  reads as. `UNDISPUTED` exists in the schema and no resolver returns it.
* `Owner[s]` is how a subscription was made: with a key, by the bot, or through
  MCP, which stores neither a key nor a chat.
* `SetWebhook` sets the webhook or clears it: the route stores any string, and `_deliver`
  takes an empty one for none.

`MaxAlerts` bounds the alerts of one subscription, in `CommitEvent`'s guard.

`AlertPromise` is the abstract specification: `Show` brings a market to a state no earlier in its
life, `Watch` takes a state it has been in for baseline, `Tell` adds an alert from the state last
told to another the market has been in, and `Stop` is owners stopping. A subscription stopped with an
alert under way is `"stopping"`: it may be told once more, or never. `Monitor!Promise` gives the
mapping: `wish` comes from the row's existence and `active` and from the loop being between loading
the row and committing (`UnderWay`), `known` is the row's `last`, `told` the events without their
delivery. Deliveries, failed polls, aborts and restarts are steps of `Stop` that end what was under
way, or stutter.

### Verify

`stage[r]` is the await request `r`'s handler is at. `loaded[r]` is `call_count` as
authentication read it; `Meter` writes it back plus one, as `touch_usage` does.
`charged[r]` is what the facilitator did, whether or not its answer arrived; `receipts`,
`logs`, `watches` and `count` are tables. `Fails` is an exception no handler catches,
`Restart` the end of the process: both leave what was committed. An agent's request
(MCP, the bot) goes from the limit straight to the work and from the work to the log.
`InvalidBody` is FastAPI's own answer: it reads the body before the dependencies run and
validates it after them, so a body it refuses is answered 400 or 422 without the handler
being called, before authentication or after limit and payment, with no row and no metering.
`AnswersAudited` is about the answers of the handler, and `result[r] = "none"` tells the others.
The rate limit's counter is nondeterministic here, and `Score` hides the cache, which
`Cache` models apart.

### Engine

The inputs are Gamma's fields that the score reads and the tool call's arguments; the
rest is translated operator by operator. Weights are those of the source. `Audit`
computes one verdict; the monotonicity property compares it with the verdict on a
neighbouring market.

### Cache

One market, `version` counting its edits and oracle moves, cached under each URL that
names it. A request goes through the awaits of `resolve_cached` and `analyze_cached`:

    get --MarketHit--------------------------> eval --AnalysisHit / NoParser---------> done
      \--MarketMiss--> fetch --Fetched--> fill --^ \--AnalysisMiss--> parse --> store --^

* Time is a countdown: an entry carries the ticks it has left, `gone[v]` counts the
  ticks since version `v` was replaced, up to `AnalysisHorizon`. No clock grows without bound.
* Every helper of `redis_client.py` may fail: a read is then a miss, a write is lost.
  `Evict` is Redis dropping entries, `setup` whether it is configured at all.
* An analysis is the prompt it was made of: side, rules and outcomes (`RulesOf` and `OutcomesOf`
  a version), so that serving somebody else's shows. `EvalKey` is what `_eval_key` hashes, side and
  rules; the outcomes are not in it, so an analysis may be given for a market with other outcomes.
  `AnalysisAnswers` says that side and rules agree all the same, and `OutcomesFresh` that the outcomes
  are those of a version that was current less than `AnalysisHorizon` ticks before. The
  model's name is configuration.
* `FetchTime` is an assumption about the environment: the ticks between Gamma's answer
  and the landing of the write. The code sets HTTP timeouts per phase and no timeout on
  Redis sockets, so no constant of the code is that bound. `WorkTime` is the same for the rest of a
  request, with its calls of Redis and of the model, whose client has its own timeout and retries.
  `AnalysisHorizon` is made of both: a market is given out before `Horizon`, its analysis is
  stored at most `WorkTime` later and lives for `EvalTTL`.
* `BoundedStaleness` is the abstract specification: whoever asks is given a version the
  source served less than `Bound` ticks ago. `Cache` implements it with
  `Bound = MarketTTL + FetchTime`, `seen` being the market a request holds.

`LastVersion` bounds the source's updates.

### RateLimit

A call of `enforce_rate_limit`, of `POST /demo/key`, of the MCP tool or of the bot's plain
message goes through the awaits of `incr_with_expiry`:

    new --Stamp--> stamped --Incr--> [first --Expire-->] passed or refused

* `Stamp` works out the minute and `Incr` counts in it, so a call stamped late in a
  minute may count in the next one; `Lag` bounds how late. Like `Cache.FetchTime` it is an
  assumption about the environment: no code sets it.
* `counters[c][m]` is the Redis key: its number, and its remaining life once `EXPIRE` has
  been called. `IncrRaises`, `IncrAnswerLost` and `ExpireRaises` are the failures at each
  await, applied or not; each lets the call pass. `Drop` is eviction, `Restart` the end of the
  process between two awaits.
* `setup` is the entry point and its switch; the entry points share no counter.
* `number[r]`, `counted`, `dropped` and `orphaned` are observations.

`LastMinute` bounds time.

### TelegramBot

`telegram_webhook` answers at once and starts a task per update; `task[u]` is the await the
task of `u` is at. `tracked` is the Redis list `tg:msgs:{chat}`, `rows` and `active` are the
chat's subscriptions (one `/watch` inserts one row, named by its update), `shown` is what the
chat shows.

* `list_pop_all` is `Range`, then `Del`, with pushes of other tasks in between; `list_push` is
  `Push`, then `Trim`. Each may raise, having been applied or not.
* `Erase` is one turn of `/clear`'s loop: Telegram deletes or refuses, and its answer
  may be lost.
* `deactivate_by_chat` is `Select`, then `Deactivate` of the rows selected.
* Nothing dedupes updates, so one that Telegram delivers twice is two.
* `forgotten` collects the messages no `/clear` will find again, at each of the failures that
  lose one; `asked` and `stopped` observe `/unwatch`.

`LastId` bounds the messages sent to the chat.

### LiveFeed

The page's end of a socket (`browser`), the handler and its forwarder (`handler`, `forwarder`),
the frames between them (`wire`) and what Redis pushed to the forwarder (`buffer`). The two ends
learn of a socket's end apart, so that the old handler is still tearing down while the page
connects again.

* `Subscribe` writes SUBSCRIBE without waiting; `Subscribed` is Redis receiving it.
* `Lost` is the connection to Redis breaking: the client subscribes again, or `listen`
  raises and the forwarder ends with the socket open and silent.
* `Closed` and `Unmount` are the page's `onclose` and cleanup, `Restart` the end of the
  process.
* `heard`, `lossy` and `leaked` are observations. Sockets are used again when both ends are
  through with them.

`LastAudit` bounds the audits published.

## Runs

| Run | Instance | Distinct states | Shows |
|---|---|---|---|
| `monitor_loop` | a chat's subscription of one market and one made through MCP, loop only, 4 alerts each | 774,642 | `Chained`, `Lifecycle`, `KeepsPromise` |
| `monitor_concurrent` | one key's subscription, loop and one check, 2 alerts | 1,919,490 | `TypeOK`, `ResolvedStops`, `WebhookDeliveredMeansTaken`, `OwnerWritesStick` |
| `monitor_live` | one chat's subscription, loop only, 4 alerts, with fairness | 15,731 | `Converges` |
| `verify` | two requests on one key and an agent's, live payments | 109,782 | `TypeOK`, `NoResultNoCharge`, `ReceiptsHonest`, `AnswersAudited`, `NeverOvercounts` |
| `engine` | 96 markets, 801 replies | 76,896 | `TypeOK`, `BagDetermined`, `MismatchRegisters`, `FallbackAborts`, `MetadataNeverBlocks`, `EscalationNeverLowers` |
| `cache` | two requests, one URL, an edit of the outcomes and one of the rules, lifetimes of 2 and 1 ticks, flight and work of 1 | 2,156,537 | `TypeOK`, `AnalysisAnswers`, `OutcomesFresh`, `Implements` |
| `rate_limit` | three calls of a caller with limit 2, one of a caller with limit 1; two minutes of 2 ticks, expiry after 3, calls up to 1 late | 1,466,929 | `TypeOK`, `AtMostLimit`, `RefusalEarned`, `CountersEnd` |
| `telegram_bot` | three updates, a list of at most 2 ids, 4 messages | 1,386,457 | `TypeOK`, `Accounted`, `CountedOnce`, `UnwatchComplete` |
| `live_feed` | one page, two sockets, 3 audits of which the page keeps 2, with fairness | 103,111 | `TypeOK`, `NewestFirst`, `Stream`, `QuietOnceUnmounted`, `Reconnects`, `TornDown`, `Arrives` |
| `monitor_duplicate`, `monitor_unwatch`, `verify_metering` | the smallest that show it | | each finds one statement of the repository violated (see Findings) |

**Why the bounds are enough.** An oracle moves at most PROPOSED, DISPUTED, RESOLVED,
and may be seen UNRESOLVED once when the baseline was UNKNOWN, so a lone loop records at
most four alerts: `MaxAlerts = 4` never binds in `monitor_loop` and `monitor_live`. Two
pollers may repeat transitions without end; two alerts are enough for one to be
recorded while the other is delivered, which is what the properties of
`monitor_concurrent` are about. One market
suffices because pollers relate subscriptions only through the order of a cycle. Two
requests on a key are the least that overlap; the properties about money and trail are
per request. Three codes with the heaviest oracle facts pass 100.
In `monitor_loop`, the subscription made through MCP has neither a channel nor an owner's requests:
it is there for the order of the cycle. A key's channel and requests are in `monitor_concurrent`, and
the theorems about the properties of `monitor_loop` hold for any subscriptions.
In `cache`, two requests and one edit are enough for a fill to land after the edit, on
what the other wrote, and each request runs again and again; the first edit changes what the key
omits, the second what it holds; a request's work may take as long as an analysis lives. Requests are
interchangeable (`SYMMETRY`), and entries of other URLs would be aged and written the same.
In `rate_limit`, three calls are one more than the limit, one of them may be late by the whole
lag, and a counter may expire, be dropped or be orphaned while the others are under way; two minutes let a late
call and the next minute's counter coexist; the second caller is there to be confused with
the first. In `telegram_bot`, three updates allow two commands to overlap and a third to be
between their steps, and four messages overflow a list of two. In `live_feed`, two sockets are an
old one being torn down and its successor, and identities are used again without end; three
audits overflow a feed of two.

**Deadlock** is checked where the system cannot stop (`monitor_concurrent`, `engine`,
`cache`). The other runs leave it out because everything may come to rest: in `monitor_loop` and
`monitor_live` once the market is resolved and every subscription stopped, and so in the violation
runs; in `verify` every request comes to an end, in `rate_limit` every call and in `telegram_bot`
every task, and in `live_feed` an unmounted page stops.

**Fairness** (`Monitor.FairSpec`). The loop sleeps and starts again (`WF` on
`StartCycle`); a delivery attempt ends because both channels have timeouts (`WF`); a
resolution and the commit after it succeed again and again if tried again and again
(`SF`), which says that failures of Gamma and of the database are transient. Strong
fairness is needed because a cycle can be aborted before it reaches a subscription.
Nothing is assumed of the oracle, owners or checks, and crashes are never excluded. A
market that makes the resolver raise for ever, before others in the
unordered SELECT, breaks this assumption: `Converges` does not cover that starvation.

`LiveFeed.FairSpec`: timers fire, tasks of the event loop that can go on do, what was sent to an
open socket arrives (`WF`). SUBSCRIBE and UNSUBSCRIBE are written and not answered, so
those steps end, one way or the other. A connection that is tried again and again is accepted
and opened some time (`SF` on `Accept` and `Opened`), since every attempt may fail before. Nothing
makes the network, Redis or the process stay up, and nobody has to publish or close a page.

**Mutants.** Each property of a passing run is paired in `PROJECT.json` with a variant of
one definition (marked "Variant" in the module) that a plausible bug would produce: an
UPDATE of the whole row, a dropped filter, a settlement on errors. TLC finds the property
violated under the variant.

## Proofs

| Theorem | Statement |
|---|---|
| `MonitorProofs!Typing`, `TypeCorrect` | `Spec => []TypeInv`, `Spec => []TypeOK` |
| `MonitorProofs!OwnersWritesStick` | `Spec => OwnerWritesStick` |
| `MonitorProofs!ResolvedAlertStops` | `Spec => []ResolvedStops` |
| `MonitorProofs!LoopAlertsChain` | `Checks = {} => (Spec => []Chained)` |
| `MonitorHistory!DeliveredWasTaken` | `Spec => []WebhookDeliveredMeansTaken` |
| `MonitorHistory!AlertsFollowOracle` | `Checks = {} => (Spec => []Lifecycle)` |
| `MonitorHistory!LoopKeepsPromise` | `Checks = {} => (Spec => KeepsPromise)`: `Monitor` refines `AlertPromise` |
| `VerifyProofs!Typing`, `RequestsSettled` | `Spec => []TypeOK`, `Spec => []IInv` |
| `VerifyProofs!Charges`, `ReceiptsTellTruth`, `Audited` | `NoResultNoCharge`, `ReceiptsHonest`, `AnswersAudited` |
| `VerifyProofs!MeteringNeverOvercounts` | `Spec => []NeverOvercounts` |
| `EngineProofs!TypeOKHolds`, `BagDeterminedHolds` | `Spec => []TypeOK`, `Spec => []BagDetermined` |
| `EngineProofs!MismatchRegistersHolds`, `FallbackAbortsHolds` | `MismatchRegisters`, `FallbackAborts` |
| `EngineProofs!MetadataNeverBlocksHolds`, `EscalationNeverLowersHolds` | `MetadataNeverBlocks`, `EscalationNeverLowers` |
| `CacheProofs!Typing` | `Spec => [](TypeOK /\ Held)` |
| `CacheProofs!KeepsPromise` | `Spec => Implements`: `Cache` refines `BoundedStaleness` |
| `CacheProofs!AnalysesKept` | `Spec => []AInv` |
| `CacheProofs!Answers`, `Fresh` | `AnalysisAnswers`, `OutcomesFresh` |
| `RateLimitProofs!Typing`, `Inductive` | `Spec => []TypeOK`, `Spec => []IInv` |
| `RateLimitProofs!LimitHolds`, `RefusalsEarned`, `NoCounterForgotten` | `AtMostLimit`, `RefusalEarned`, `CountersEnd` |
| `TelegramBotProofs!Typing` | `Spec => []TypeOK` |
| `TelegramBotProofs!UnwatchStops`, `ClearCounts`, `NothingElseLost` | `UnwatchComplete`, `CountedOnce`, `Accounted` |
| `LiveFeedProofs!Typing`, `Unmounted` | `Spec => []TypeOK`, `Spec => []QuietOnceUnmounted` |
| `LiveFeedProofs!FeedFalls`, `StreamWhole` | `NewestFirst`, `Stream` |

They hold for any sets of subscriptions, markets, checks, requests (finite) and keys,
for any URLs, lifetimes and history of the source, any calls (finite), callers and limits, any
updates, any sockets, and replies with any codes, of any length, about markets with any windows,
under `MonitorAssumption`, `VerifyAssumption`, `CacheAssumption`, `BotAssumption` and
`FeedAssumption`, which only type the constants; `EngineAssumption`, which also says that
`customLiveness` may be absent (`0 \in Liveness`); and `RateAssumption`, which also says `Minute + Lag <= TTL`: a counter outlives its minute by at least
the lag. That is what `ttl=70` gives for calls that count within ten seconds of their
stamp; it is the assumption the limit rests on, and a later call starts a second count.

* `TypeOK` of `Monitor` is not inductive: that an event's states are states needs what a
  poller's copy and answer are at each stage. `TypeInv` adds `Sessions` (a loaded copy
  comes from a created row, an answer is a state until committed, one subscription is
  under way at a time) and `ActiveExist`.
* `OwnerWritesStick` follows from the shape of `Flush`: no step writes `active` to true on a row
  that exists, and none but `SetWebhook` writes `webhook`. `ResolvedStops` is the same argument on
  states. Both hold with any number of checks.
* `Chained` needs one poller: the strengthening says that the loop's copy of a subscription
  under way agrees with the row's `last`.
* In `Verify`, `Facts` says of each stage what has been charged, receipted, metered and
  logged by then. The properties speak of requests that have ended, and a request can end at
  every stage, so each part holds from where it is established onwards. `Lanes` keeps
  agents out of the REST part of the handler.
* `NeverOvercounts`: what a request loaded is at most the number of requests metered on
  its key by now, and it has not been metered itself, so its write is covered by itself.
* `KeepsPromise` rests on `Young`: a version waiting to be written has been gone no longer
  than its flight, so an entry's age and remaining lifetime add up to at most `Horizon`, however
  late the fill and whatever it overwrote. `Held` (what is held has been served) carries the
  typing.
* `Answers` and `Fresh` rest on `Stored`: every live analysis was made of some version with the
  rules of its key, and that version's age and the entry's remaining lifetime add up to at most
  `AnalysisHorizon`. `StoredStore` is where it is established, from `Young`, which bounds the age of a
  market in use by `Horizon` and the time since it was given; `StoredTick` takes from the lifetime
  what it adds to the age. `Endings` says that only a hit or a store ends a request with an analysis.

* `DeliveredWasTaken`: a poller that is between the POST and the commit of its outcome has, for
  the event its `alert` points to, an outcome that is what the webhook took (`Deliveries`); events
  are only appended, so the index stays that of the same event.
* `AlertsFollowOracle` needs `Chained` and two bounds: what a market has shown is no later in
  its life than what it is (`Behind`), and an answer under way lies between the row and the market
  (`Between`). A committed answer differs from the row and is not UNKNOWN, and two states of the
  same rank that are not UNKNOWN are equal, so each alert ranks above all before it. `NeverUnknown`
  makes the order strict.
* `LimitHolds`: the calls let through a counter hold distinct numbers up to its count
  (`Numbers`), and the count does not fall while a call stamped in its minute can come
  (`Timing`, from the assumption above): a counter that Redis dropped is excepted. Distinct
  numbers up to the limit are at most as many as the limit. `RefusalsEarned` rests on `Counting`: a
  counter, and a number read from it, never exceed the calls that Redis counted for its caller
  and minute, so a number above the limit takes the limit's number of other calls.
* In `TelegramBotProofs`, `Watches` says that an `/unwatch` about to update holds every row that was
  active when it asked and still is, and that a row's `/watch` is past its insert, so no row becomes
  active twice. `Counted` bounds what a `/clear` counted by `sent`, so that a new message is
  none of it. `Held` says at which await a task holds an id to push or ids to delete.
* In `LiveFeedProofs`, `OneSocket` says that the page has one socket at a time or a timer
  (connecting twice would break the order), `Stages` what a forwarder and a subscription can be at
  each await of the handler, `Ordered` that feed, wire and buffer form one rising line, and
  `Dense` that it has no hole while nothing was lost.

* `LoopKeepsPromise` adds `Witnessed` (what the loop was answered is a state the market has been
  in) to the invariant of `AlertsFollowOracle`. `PromiseShow`, `PromiseWatch` and `PromiseTell` map
  the oracle's steps, `Create` and `CommitEvent` to the promise's, and `QuietStops` all others to
  `Stop`: they tell nothing, revive no row and load none that is stopped, and so an owner who stops
  hears once more at most, from the cycle that had loaded the row. With a check in flight the
  promise does not hold, as `monitor_duplicate` shows.
* In `EngineProofs` the score is a fold over a sequence. The library's induction theorems cannot be
  instantiated here, so `Induct` derives induction from the least number of a set of numbers, and a
  fold is described by the list of its partial results (`Folds`, `Sums`, `Kept`), which `FoldExists`
  shows to exist and `SumsUnique` to be the only one. `WeightOfConcat` then splits a breakdown,
  `WeightOfKept` says that the codes of a list weigh the sum, over the vocabulary, of each weight times
  its count (`Times`, `Total`), codes outside it nothing, and `VerdictOf` reduces each property to
  arithmetic on the source's weights: 8 for a short window, the state's, the clauses'.
  `EscalationNeverLowers` compares verdicts of two markets that differ in the state alone.

Only model-checked: liveness (`Converges`, `Reconnects`, `TornDown`, `Arrives`), which is out of the
prover's reach together with ENABLED. Every invariant, action property and refinement that a passing
run checks is also a theorem.

## Findings

| Run | Source | What the code does | What the repository says |
|---|---|---|---|
| `monitor_duplicate` | `monitor.py:150` | two pollers with copies of the same row both record the transition | `tests/test_monitor.py:91` "Same state again -> no new alert." |
| `monitor_unwatch` | `monitor.py:179` | a cycle alerts a subscription stopped since it was loaded | `telegram.py:33` "/unwatch — stop all alerts" |
| `verify_metering` | `keys.py:63` | overlapping requests lose updates of `call_count` | `README.md:50` "every call (success or error) is logged and metered" |

Not runs, since they take one step to see or are known costs of failing open; the modules contain
them all:

* a subscription created on a market that is already RESOLVED stays active and is polled for
  ever (`monitor.py:62`), although `monitor.py:29` calls RESOLVED the end of a subscription's useful life;
* an alert Telegram refused is recorded as delivered (`monitor.py:206`; `monitor.py:191`: "Failures are
  recorded, never raised");
* a settlement whose answer is lost leaves no receipt (`main.py:708`; `models.py:74`: "one row per settled
  (or simulated) paid call");
* a request can get an older market than one that ended before it began (`cache_layer.py:72`), which
  it could not without Redis (`redis_client.py:5`: "behaves identically with or without Redis");
* a first call whose `EXPIRE` fails leaves its counter for ever (`redis_client.py:87`): `orphaned`;
* a body that FastAPI refuses is answered 400 or 422 with neither metering nor a row
  (`main.py:113`), against the same `README.md:50`: `InvalidBody`;
* an analysis may be of other outcomes than the market it is scored with (`cache_layer.py:84` against
  `llm/parser.py:169`): `OutcomesFresh` bounds for how long;
* a message pushed between `LRANGE` and `DEL` is forgotten by `/clear` (`redis_client.py:113`):
  `forgotten`;
* a forwarder that ends on an error leaves its socket open and silent (`main.py:353`): the exception
  of `Arrives`.

## Plan

1. Done: `Monitor`, `Verify`, `Engine`, with the proofs of the first two.
2. Done: `Cache`, its abstract specification, the refinement and its proof.
3. Done: `RateLimit`, `TelegramBot`, `LiveFeed`, with the proofs of all their safety properties;
   `MonitorHistory`, which proves the rest of `Monitor`'s.
4. Done: `AlertPromise`, which `Monitor` with the loop alone refines, and `EngineProofs`.
5. Left: the slug lookup of the resolvers, if it gets retries or state.

## Not modelled

Issuing and hashing keys, the listings and the JSON-RPC envelope have no behaviour between steps.
The web client's key promise is one: it is kept when it is rejected (`api.ts:63`), which a
reader sees in its lines; there is no interleaving to check. Slug lookup and HTTP fail or answer
and keep nothing, so their outcomes are choices of `Monitor`, `Cache` and `Verify`. Wording, layout, the
web pages, migrations and deployment are presentation or build.
