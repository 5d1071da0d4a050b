-------------------------------- MODULE Cache --------------------------------
(***************************************************************************)
(* The cache-aside layer of the verify pipeline: services/cache_layer.py    *)
(* over the fail-open helpers of redis_client.py, as _resolve_score_monitor *)
(* calls it. One market, whose URLs are cached apart; the source replaces   *)
(* its version as it is edited and as its oracle moves.                     *)
(*                                                                         *)
(* Time is counted in ticks. An entry is its value and the ticks it has     *)
(* left. Each await is a step of its own.                                   *)
(***************************************************************************)
EXTENDS Integers

CONSTANTS
  Requests,      \* verify calls, each run again and again
  Urls,          \* the URLs that name the market
  Queried,       \* the values of queried_side, None among them
  LastVersion,   \* bound on the source's updates
  RulesOf,       \* the question, criteria and source each version carries
  OutcomesOf,    \* and its outcomes
  MarketTTL, EvalTTL,
  FetchTime,     \* ticks from the source's answer to the write of it, at most
  WorkTime,      \* ticks from a request having its market to its end, at most
  None

Versions == 0 .. LastVersion
Sides == (Queried \ {None}) \cup {"YES"}
Rules == {RulesOf[v] : v \in Versions}
Keys == [side : Sides, rules : Rules]
Prompts == [side : Sides, rules : Rules, outcomes : {OutcomesOf[v] : v \in Versions}]

ASSUME CacheAssumption ==
  /\ LastVersion \in Nat
  /\ DOMAIN RulesOf = Versions /\ DOMAIN OutcomesOf = Versions
  /\ MarketTTL \in Nat \ {0}
  /\ EvalTTL \in Nat \ {0}
  /\ FetchTime \in Nat
  /\ WorkTime \in Nat
  /\ None \notin Nat \cup Sides \cup Prompts

\* Ticks after which a replaced version has left the market cache.
Horizon == MarketTTL + FetchTime

\* And ticks after which no analysis of it is left: it was made of a market given out
\* before Horizon and lives for EvalTTL.
AnalysisHorizon == Horizon - 1 + WorkTime + EvalTTL

VARIABLES
  setup,      \* whether Redis and the parser are configured
  version,    \* what the source serves now
  markets,    \* cache:market:*, by URL
  analyses,   \* cache:eval:*, by key
  stage,      \* the await each request is at
  query,      \* its URL and queried_side
  market,     \* the version it resolved
  analysis,   \* the prompt the analysis it holds was made of
  elapsed,    \* ticks since the source answered it, then since it has its market
  gone        \* ticks since a version was replaced, up to AnalysisHorizon (observed)

redis == <<markets, analyses>>
asked == <<setup, query>>
vars == <<setup, version, markets, analyses, stage, query, market, analysis,
          elapsed, gone>>

Working == {"eval", "parse", "store"}
Timed == {"fill"} \cup Working
Stages == {"get", "fetch", "done"} \cup Timed

Allowed(s) == CASE s = "fill" -> FetchTime [] s \in Working -> WorkTime [] OTHER -> 0

\* The type of the state.
TypeOK ==
  /\ setup \in [redis : BOOLEAN, parser : BOOLEAN]
  /\ version \in Versions
  /\ markets \in [Urls -> [value : Versions \cup {None}, left : 0 .. MarketTTL]]
  /\ analyses \in [Keys -> [value : Prompts \cup {None}, left : 0 .. EvalTTL]]
  /\ stage \in [Requests -> Stages]
  /\ query \in [Requests -> [url : Urls, side : Queried]]
  /\ market \in [Requests -> Versions \cup {None}]
  /\ analysis \in [Requests -> Prompts \cup {None}]
  /\ elapsed \in [Requests -> Nat] /\ \A r \in Requests : elapsed[r] <= Allowed(stage[r])
  /\ gone \in [Versions -> 0 .. AnalysisHorizon]

-----------------------------------------------------------------------------
(* Keys and entries.                                                         *)

\* queried_side or "YES", in the key as in the prompt.
SideOf(q) == IF q.side = None THEN "YES" ELSE q.side

\* Variant: the key leaves the side out.
EvalKeySideless(v, q) == [side |-> "YES", rules |-> RulesOf[v]]

\* _eval_key. The model is configuration, and the outcomes are not in it.
EvalKey(v, q) == [side |-> SideOf(q), rules |-> RulesOf[v]]

\* What _build_prompt asks about: the key's parts, and the outcomes.
Prompt(v, q) == [side |-> SideOf(q), rules |-> RulesOf[v], outcomes |-> OutcomesOf[v]]

Absent == [value |-> None, left |-> 0]

Live(entry) == entry.left > 0

Expiring(entry) == IF entry.left > 1 THEN [entry EXCEPT !.left = @ - 1] ELSE Absent

-----------------------------------------------------------------------------
(* The steps of a request.                                                   *)

Goto(r, s) == stage' = [stage EXCEPT ![r] = s]

\* The call returns, to be scored with what it holds.
Finish(r) ==
  /\ Goto(r, "done")
  /\ elapsed' = [elapsed EXCEPT ![r] = 0]

Begin(r) ==
  /\ stage[r] = "done"
  /\ Goto(r, "get")
  /\ \E q \in [url : Urls, side : Queried] : query' = [query EXCEPT ![r] = q]
  /\ market' = [market EXCEPT ![r] = None]
  /\ analysis' = [analysis EXCEPT ![r] = None]
  /\ UNCHANGED <<setup, version, redis, elapsed, gone>>

\* Variant: a hit prolongs the entry.
MarketHitSliding(r) ==
  LET u == query[r].url IN
  /\ stage[r] = "get" /\ setup.redis /\ Live(markets[u])
  /\ market' = [market EXCEPT ![r] = markets[u].value]
  /\ markets' = [markets EXCEPT ![u].left = MarketTTL]
  /\ Goto(r, "eval")
  /\ UNCHANGED <<asked, version, analyses, analysis, elapsed, gone>>

\* cache_get_json finds an entry.
MarketHit(r) ==
  LET u == query[r].url IN
  /\ stage[r] = "get" /\ setup.redis /\ Live(markets[u])
  /\ market' = [market EXCEPT ![r] = markets[u].value]
  /\ Goto(r, "eval")
  /\ UNCHANGED <<asked, version, redis, analysis, elapsed, gone>>

\* cache_get_json answers None: no Redis, no entry, or Redis fails.
MarketMiss(r) ==
  /\ stage[r] = "get"
  /\ Goto(r, "fetch")
  /\ UNCHANGED <<asked, version, redis, market, analysis, elapsed, gone>>

\* The resolver raises; nothing is cached.
FetchFails(r) ==
  /\ stage[r] = "fetch"
  /\ Goto(r, "done")
  /\ UNCHANGED <<asked, version, redis, market, analysis, elapsed, gone>>

\* The source answers with what it serves at that moment.
Fetched(r) ==
  /\ stage[r] = "fetch"
  /\ market' = [market EXCEPT ![r] = version]
  /\ Goto(r, "fill")
  /\ UNCHANGED <<asked, version, redis, analysis, elapsed, gone>>

\* cache_set_json: it replaces the entry, and does nothing when Redis is off or fails.
Fill(r) ==
  /\ stage[r] = "fill"
  /\ \/ /\ setup.redis
        /\ markets' = [markets EXCEPT ![query[r].url] =
                         [value |-> market[r], left |-> MarketTTL]]
     \/ UNCHANGED markets
  /\ elapsed' = [elapsed EXCEPT ![r] = 0]
  /\ Goto(r, "eval")
  /\ UNCHANGED <<asked, version, analyses, market, analysis, gone>>

NoParser(r) ==
  /\ stage[r] = "eval" /\ ~setup.parser
  /\ Finish(r)
  /\ UNCHANGED <<asked, version, redis, market, analysis, gone>>

AnalysisHit(r) ==
  LET entry == analyses[EvalKey(market[r], query[r])] IN
  /\ stage[r] = "eval" /\ setup.parser /\ setup.redis /\ Live(entry)
  /\ analysis' = [analysis EXCEPT ![r] = entry.value]
  /\ Finish(r)
  /\ UNCHANGED <<asked, version, redis, market, gone>>

AnalysisMiss(r) ==
  /\ stage[r] = "eval" /\ setup.parser
  /\ Goto(r, "parse")
  /\ UNCHANGED <<asked, version, redis, market, analysis, elapsed, gone>>

\* The parser raises or answers None: the caller scores without it, nothing is cached.
ParseFails(r) ==
  /\ stage[r] = "parse"
  /\ Finish(r)
  /\ UNCHANGED <<asked, version, redis, market, analysis, gone>>

Parsed(r) ==
  /\ stage[r] = "parse"
  /\ analysis' = [analysis EXCEPT ![r] = Prompt(market[r], query[r])]
  /\ Goto(r, "store")
  /\ UNCHANGED <<asked, version, redis, market, elapsed, gone>>

\* Variant: analyses are kept for as long as markets.
StoreForMarketTTL(r) ==
  /\ stage[r] = "store"
  /\ \/ /\ setup.redis
        /\ analyses' = [analyses EXCEPT ![EvalKey(market[r], query[r])] =
                          [value |-> analysis[r], left |-> MarketTTL]]
     \/ UNCHANGED analyses
  /\ Finish(r)
  /\ UNCHANGED <<asked, version, markets, market, analysis, gone>>

\* cache_set_json, again with nothing but the write to lose.
Store(r) ==
  /\ stage[r] = "store"
  /\ \/ /\ setup.redis
        /\ analyses' = [analyses EXCEPT ![EvalKey(market[r], query[r])] =
                          [value |-> analysis[r], left |-> EvalTTL]]
     \/ UNCHANGED analyses
  /\ Finish(r)
  /\ UNCHANGED <<asked, version, markets, market, analysis, gone>>

-----------------------------------------------------------------------------
(* The world around them.                                                    *)

\* The market is edited, or its oracle moves.
Update ==
  /\ version < LastVersion
  /\ version' = version + 1
  /\ UNCHANGED <<asked, redis, stage, market, analysis, elapsed, gone>>

Aged(v) == IF v < version /\ gone[v] < AnalysisHorizon THEN gone[v] + 1 ELSE gone[v]

Tick ==
  /\ \A r \in Requests : stage[r] \in Timed => elapsed[r] < Allowed(stage[r])
  /\ elapsed' = [r \in Requests |-> elapsed[r] + (IF stage[r] \in Timed THEN 1 ELSE 0)]
  /\ gone' = [v \in Versions |-> Aged(v)]
  /\ markets' = [u \in Urls |-> Expiring(markets[u])]
  /\ analyses' = [k \in Keys |-> Expiring(analyses[k])]
  /\ UNCHANGED <<asked, version, stage, market, analysis>>

\* Redis evicts a market entry, or all it holds when it restarts.
Evict ==
  /\ \E U \in SUBSET Urls :
       markets' = [u \in Urls |-> IF u \in U THEN Absent ELSE markets[u]]
  /\ \E K \in {{}, Keys} :
       analyses' = [k \in Keys |-> IF k \in K THEN Absent ELSE analyses[k]]
  /\ UNCHANGED <<asked, version, stage, market, analysis, elapsed, gone>>

\* The service restarts: its requests are gone, Redis keeps what it has.
Restart ==
  /\ stage' = [r \in Requests |-> "done"]
  /\ market' = [r \in Requests |-> None]
  /\ analysis' = [r \in Requests |-> None]
  /\ elapsed' = [r \in Requests |-> 0]
  /\ UNCHANGED <<asked, version, redis, gone>>

Step(r) ==
  \/ MarketHit(r) \/ MarketMiss(r) \/ FetchFails(r) \/ Fetched(r) \/ Fill(r)
  \/ NoParser(r) \/ AnalysisHit(r) \/ AnalysisMiss(r) \/ ParseFails(r) \/ Parsed(r) \/ Store(r)

Next ==
  \/ Update \/ Tick \/ Evict \/ Restart
  \/ \E r \in Requests : Begin(r) \/ Step(r)

Init ==
  /\ setup \in [redis : BOOLEAN, parser : BOOLEAN]
  /\ version = 0
  /\ markets = [u \in Urls |-> Absent]
  /\ analyses = [k \in Keys |-> Absent]
  /\ stage = [r \in Requests |-> "done"]
  /\ \E q \in [url : Urls, side : Queried] : query = [r \in Requests |-> q]
  /\ market = [r \in Requests |-> None]
  /\ analysis = [r \in Requests |-> None]
  /\ elapsed = [r \in Requests |-> 0]
  /\ gone = [v \in Versions |-> 0]

Spec == Init /\ [][Next]_vars

-----------------------------------------------------------------------------
(* Properties.                                                               *)

\* The cache promises bounded staleness: whatever a request is given, from the
\* cache or from the source, was current less than Horizon ticks before, through
\* late fills that overwrite newer ones, evictions, failures and restarts.
Promise == INSTANCE BoundedStaleness WITH
  Bound <- Horizon,
  seen <- market,
  gone <- [v \in Versions |-> IF gone[v] < Horizon THEN gone[v] ELSE Horizon]

Implements == Promise!Spec

\* An analysis answers the question it is used for: whoever asked first, and of
\* whichever version, it is of this request's side and of the rules of the market
\* that it is scored with (_eval_key holds both).
AnalysisAnswers ==
  \A r \in Requests :
    stage[r] = "done" /\ analysis[r] # None =>
      /\ analysis[r].side = SideOf(query[r])
      /\ analysis[r].rules = RulesOf[market[r]]

\* The outcomes an analysis was told may be others than its market's, since the key
\* omits them, but not for long: they are those of a version with the same rules
\* that was current less than AnalysisHorizon ticks before the analysis is given,
\* although each use of a cached market may store a new one (_build_prompt against
\* _eval_key, the lifetimes of analyze_cached and resolve_cached).
OutcomesFresh ==
  [][\A r \in Requests :
       stage[r] # "done" /\ stage'[r] = "done" /\ analysis'[r] # None =>
         \E v \in 0 .. version :
           analysis'[r] = Prompt(v, query[r]) /\ gone[v] < AnalysisHorizon]_vars
=============================================================================
