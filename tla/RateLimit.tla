------------------------------ MODULE RateLimit ------------------------------
(***************************************************************************)
(* Fixed-window rate limiting: app/services/ratelimit.py and the three     *)
(* other callers of redis_client.incr_with_expiry in app/main.py (demo     *)
(* keys, the MCP tool, the bot's plain message).                           *)
(*                                                                         *)
(* A call works out the current minute, INCRs the counter of its caller    *)
(* and that minute, and, when it is the first, sets the counter's expiry.  *)
(* Each is an await, so that a call stamped at the end of a minute may      *)
(* count in the next one, and the first may never get to set the expiry.   *)
(* Any failure of Redis lets the call through uncounted.                   *)
(***************************************************************************)
EXTENDS Naturals, FiniteSets

CONSTANTS
  Calls,       \* the calls made
  Callers,     \* who has a counter: an API key, an address, a chat
  CallerOf,    \* CallerOf[r]: who makes call r
  Limit,       \* Limit[c]: rate_limit_per_minute or demo_key_per_minute
  Minute,      \* ticks in a minute
  TTL,         \* ticks a counter lives once its expiry is set (ttl=70)
  Lag,         \* ticks from a call's stamp to its INCR, at most (environment)
  LastMinute   \* bound on time

\* The entry points: an API key's call, POST /demo/key, the MCP tool, the bot.
Surfaces == {"key", "demo", "mcp", "bot"}

\* The last conjunct is what ttl=70 buys: a call may be 10 s late.
ASSUME RateAssumption ==
  /\ CallerOf \in [Calls -> Callers]
  /\ Limit \in [Callers -> Nat]
  /\ IsFiniteSet(Calls)
  /\ Minute \in Nat \ {0} /\ TTL \in Nat /\ Lag \in Nat /\ LastMinute \in Nat
  /\ Minute + Lag <= TTL

VARIABLES
  setup,      \* the entry point the calls are made at (no two share a counter) and
              \* its switch, rate_limit_enabled or demo_key_enabled
  minute,     \* the current minute
  second,     \* ticks into it
  counters,   \* counters[c][m]: the key rate:...:c:m in Redis
  stage,      \* stage[r]: how far call r is
  stamp,      \* stamp[r]: the minute r worked out
  wait,       \* wait[r]: ticks since then, until r counts
  number,     \* number[r]: what incr_with_expiry returned, 0 for None
  counted,    \* the calls whose INCR Redis applied (observed)
  dropped,    \* the counters Redis lost before their time (observed)
  orphaned    \* the counters whose first call never got to EXPIRE (observed)

clock == <<minute, second>>
seen == <<counted, dropped, orphaned>>
vars == <<setup, clock, counters, stage, stamp, wait, number, seen>>

-----------------------------------------------------------------------------

Minutes == 0 .. LastMinute

\* n = 0: there is no such key. expires: it has a time to live, left.
Counter == [n : Nat, expires : BOOLEAN, left : 0 .. TTL]
NoCounter == [n |-> 0, expires |-> FALSE, left |-> 0]

Pair(r) == <<CallerOf[r], stamp[r]>>

\* "stamped": before INCR.  "first": before EXPIRE.
Waiting == {"stamped", "first"}
Stages == Waiting \cup {"new", "passed", "refused", "answered", "lost"}

Setup == [surface : Surfaces, on : BOOLEAN]

\* The types of the counters and of what the handlers hold.
TypeOK ==
  /\ setup \in Setup
  /\ minute \in Minutes /\ second \in 0 .. Minute - 1
  /\ counters \in [Callers -> [Minutes -> Counter]]
  /\ stage \in [Calls -> Stages]
  /\ stamp \in [Calls -> Minutes]
  /\ wait \in [Calls -> 0 .. Lag]
  /\ number \in [Calls -> Nat]
  /\ counted \subseteq Calls
  /\ dropped \subseteq Callers \X Minutes
  /\ orphaned \subseteq Callers \X Minutes

Init ==
  /\ setup \in {s \in Setup : s.surface \in {"mcp", "bot"} => s.on}
  /\ minute = 0 /\ second = 0
  /\ counters = [c \in Callers |-> [m \in Minutes |-> NoCounter]]
  /\ stage = [r \in Calls |-> "new"]
  /\ stamp = [r \in Calls |-> 0]
  /\ wait = [r \in Calls |-> 0]
  /\ number = [r \in Calls |-> 0]
  /\ counted = {} /\ dropped = {} /\ orphaned = {}

Goto(r, to) == stage' = [stage EXCEPT ![r] = to]
Entered(r, s) == stage[r] = "new" /\ setup.surface = s
Kept == UNCHANGED <<setup, clock, counters, stamp, wait, number, seen>>

-----------------------------------------------------------------------------
(* Before the counter.                                                       *)

\* require_api_key: a missing, malformed, unknown or inactive key is 401.
Unauthorized(r) == Entered(r, "key") /\ Goto(r, "answered") /\ Kept

\* enforce_rate_limit with the limit switched off. No other surface asks.
Unlimited(r) ==
  Entered(r, "key") /\ ~setup.on /\ Goto(r, "passed") /\ Kept

\* create_demo_key, switched off: 404.
DemoDisabled(r) ==
  Entered(r, "demo") /\ ~setup.on /\ Goto(r, "answered") /\ Kept

\* mcp_endpoint: an unreadable body, a notification, initialize, ping, tools/list,
\* an unknown method or tool, and a call without a URL are answered at once.
McpAnswers(r) == Entered(r, "mcp") /\ Goto(r, "answered") /\ Kept

\* handle_telegram_update: commands, and messages without a URL.
BotAnswers(r) == Entered(r, "bot") /\ Goto(r, "answered") /\ Kept

\* The call gets to the counter, and works out its key.
Stamp(r) ==
  /\ stage[r] = "new"
  /\ setup.on
  /\ Goto(r, "stamped")
  /\ stamp' = [stamp EXCEPT ![r] = minute]
  /\ wait' = [wait EXCEPT ![r] = 0]
  /\ UNCHANGED <<setup, clock, counters, number, seen>>

-----------------------------------------------------------------------------
(* incr_with_expiry and the verdict.                                         *)

At(r) == counters[CallerOf[r]][stamp[r]]
Put(r, counter) == counters' = [counters EXCEPT ![CallerOf[r]][stamp[r]] = counter]

\* Variant: the last call within the limit is refused.
VerdictAtLimit(r, n) == IF n >= Limit[CallerOf[r]] THEN "refused" ELSE "passed"

\* Variant: the limit is the number after which calls are refused.
VerdictLate(r, n) == IF n > Limit[CallerOf[r]] + 1 THEN "refused" ELSE "passed"

Verdict(r, n) == IF n > Limit[CallerOf[r]] THEN "refused" ELSE "passed"

\* Variant: the expiry is set by the call that reaches the limit.
ExpiryAtLimit(r, n) == n = Limit[CallerOf[r]]

SetsExpiry(r, n) == n = 1

Counted(r) ==
  /\ Put(r, [At(r) EXCEPT !.n = @ + 1])
  /\ wait' = [wait EXCEPT ![r] = 0]
  /\ counted' = counted \cup {r}

Incr(r) ==
  /\ stage[r] = "stamped"
  /\ LET n == At(r).n + 1 IN
       /\ Counted(r)
       /\ number' = [number EXCEPT ![r] = n]
       /\ Goto(r, IF SetsExpiry(r, n) THEN "first" ELSE Verdict(r, n))
  /\ UNCHANGED <<setup, clock, stamp, dropped, orphaned>>

\* Variant: a counter lives as long as the minute it counts.
LifeOfMinute == Minute - 1

\* Variant: it lives that long from the end of the minute.
LifeFromEnd == TTL + (Minute - second)

Life == TTL

\* EXPIRE does nothing to a key that is gone.
Expired(counter) ==
  IF counter.n = 0 THEN counter ELSE [counter EXCEPT !.expires = TRUE, !.left = Life]

Expire(r) ==
  /\ stage[r] = "first"
  /\ Put(r, Expired(At(r)))
  /\ Goto(r, Verdict(r, number[r]))
  /\ UNCHANGED <<setup, clock, stamp, wait, number, seen>>

\* Redis is not configured, or raises before it counts.
IncrRaises(r) ==
  /\ stage[r] = "stamped"
  /\ wait' = [wait EXCEPT ![r] = 0]
  /\ Goto(r, "passed")
  /\ UNCHANGED <<setup, clock, counters, stamp, number, seen>>

\* Redis counts and its answer is lost: when it was the first, nobody will set the
\* expiry.
IncrAnswerLost(r) ==
  /\ stage[r] = "stamped"
  /\ Counted(r)
  /\ orphaned' = IF At(r).n = 0 THEN orphaned \cup {Pair(r)} ELSE orphaned
  /\ Goto(r, "passed")
  /\ UNCHANGED <<setup, clock, stamp, number, dropped>>

\* EXPIRE raises, applied or not: None, so the call passes whatever its number.
ExpireRaises(r) ==
  /\ stage[r] = "first"
  /\ \/ Put(r, Expired(At(r))) /\ UNCHANGED orphaned
     \/ UNCHANGED counters /\ orphaned' = orphaned \cup {Pair(r)}
  /\ number' = [number EXCEPT ![r] = 0]
  /\ Goto(r, "passed")
  /\ UNCHANGED <<setup, clock, stamp, wait, counted, dropped>>

-----------------------------------------------------------------------------
(* The environment.                                                          *)

\* One tick less to live.
Aged(counter) ==
  CASE ~counter.expires -> counter
    [] counter.expires /\ counter.left <= 1 -> NoCounter
    [] OTHER -> [counter EXCEPT !.left = @ - 1]

\* Time. No call lingers over its INCR for longer than Lag.
Tick ==
  /\ \A r \in Calls : stage[r] = "stamped" => wait[r] < Lag
  /\ IF second + 1 < Minute
     THEN second' = second + 1 /\ UNCHANGED minute
     ELSE minute < LastMinute /\ second' = 0 /\ minute' = minute + 1
  /\ wait' = [r \in Calls |-> IF stage[r] = "stamped" THEN wait[r] + 1 ELSE wait[r]]
  /\ counters' = [c \in Callers |-> [m \in Minutes |-> Aged(counters[c][m])]]
  /\ UNCHANGED <<setup, stage, stamp, number, seen>>

\* Redis loses a counter: allkeys-lru, or its own restart.
Drop(c, m) ==
  /\ counters[c][m].n > 0
  /\ counters' = [counters EXCEPT ![c][m] = NoCounter]
  /\ dropped' = dropped \cup {<<c, m>>}
  /\ UNCHANGED <<setup, clock, stage, stamp, wait, number, counted, orphaned>>

\* The process stops, with the calls it was serving.
Restart ==
  /\ \E r \in Calls : stage[r] \in Waiting
  /\ stage' = [r \in Calls |-> IF stage[r] \in Waiting THEN "lost" ELSE stage[r]]
  /\ wait' = [r \in Calls |-> 0]
  /\ orphaned' = orphaned \cup {Pair(r) : r \in {q \in Calls : stage[q] = "first"}}
  /\ UNCHANGED <<setup, clock, counters, stamp, number, counted, dropped>>

Limiting(r) ==
  \/ Unauthorized(r) \/ Unlimited(r) \/ DemoDisabled(r) \/ McpAnswers(r) \/ BotAnswers(r)
  \/ Stamp(r) \/ Incr(r) \/ Expire(r)
  \/ IncrRaises(r) \/ IncrAnswerLost(r) \/ ExpireRaises(r)

Next ==
  \/ \E r \in Calls : Limiting(r)
  \/ Tick
  \/ \E c \in Callers, m \in Minutes : Drop(c, m)
  \/ Restart

Spec == Init /\ [][Next]_vars

-----------------------------------------------------------------------------
(* Safety.                                                                   *)

\* The calls of one caller that were let through on the word of the counter of m.
Admitted(c, m) ==
  {r \in Calls : Pair(r) = <<c, m>> /\ stage[r] = "passed" /\ number[r] > 0}

\* No more than the limit of calls pass a counter, late calls, failures and restarts
\* of the process included, unless Redis lost it (enforce_rate_limit: count > limit).
AtMostLimit ==
  \A c \in Callers, m \in Minutes :
    <<c, m>> \notin dropped => Cardinality(Admitted(c, m)) <= Limit[c]

\* Whoever is refused was preceded by the limit's number of other calls of its own,
\* stamped in the same minute: nothing of an earlier minute, of another caller or
\* of a failure of Redis is held against it (the key names caller and minute).
RefusalEarned ==
  \A r \in Calls : stage[r] = "refused" =>
    Cardinality({q \in counted : q # r /\ CallerOf[q] = CallerOf[r] /\ stamp[q] = stamp[r]})
      >= Limit[CallerOf[r]]

\* A counter without an expiry is about to get one, or its first call died or lost
\* Redis on the way: nothing else leaves a counter behind (incr_with_expiry).
CountersEnd ==
  \A c \in Callers, m \in Minutes :
    counters[c][m].n > 0 /\ ~counters[c][m].expires =>
      \/ \E r \in Calls : stage[r] = "first" /\ Pair(r) = <<c, m>>
      \/ <<c, m>> \in orphaned
=============================================================================
