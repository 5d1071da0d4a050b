----------------------------- MODULE CacheProofs -----------------------------
(***************************************************************************)
(* Proofs about Cache, for any requests, URLs, lifetimes and history of the *)
(* source: that Cache keeps the promise of BoundedStaleness, and what its   *)
(* analyses were made of.                                                   *)
(***************************************************************************)
EXTENDS Cache, TLAPS

USE CacheAssumption
USE DEF redis, asked

-----------------------------------------------------------------------------
(* Typing. A request that got past the resolver holds a version that the      *)
(* source has served, and so does a live entry.                              *)

Held ==
  /\ \A r \in Requests : stage[r] \in Timed => market[r] \in 0 .. version
  /\ \A r \in Requests : stage[r] = "store" => analysis[r] \in Prompts
  /\ \A u \in Urls : Live(markets[u]) => markets[u].value \in 0 .. version

Market == [value : Versions \cup {None}, left : 0 .. MarketTTL]
Analysis == [value : Prompts \cup {None}, left : 0 .. EvalTTL]

LEMMA KeyType ==
  ASSUME NEW v \in Versions, NEW q \in [url : Urls, side : Queried]
  PROVE  EvalKey(v, q) \in Keys /\ Prompt(v, q) \in Prompts
<1>1. SideOf(q) \in Sides
  BY DEF SideOf, Sides
<1>2. RulesOf[v] \in Rules /\ OutcomesOf[v] \in {OutcomesOf[w] : w \in Versions}
  BY DEF Rules
<1>3. EvalKey(v, q) \in Keys
  BY <1>1, <1>2 DEF EvalKey, Keys
<1>4. Prompt(v, q) \in Prompts
  BY <1>1, <1>2 DEF Prompt, Prompts
<1>5. QED
  BY <1>3, <1>4

\* The time a request may take, by its stage.
LEMMA AllowedTimes ==
  /\ Allowed("fill") = FetchTime
  /\ \A s \in Working : Allowed(s) = WorkTime
  /\ \A s \in {"get", "fetch", "done"} : Allowed(s) = 0
  /\ \A s \in Stages : Allowed(s) \in Nat
BY DEF Allowed, Working, Stages, Timed

\* What a tick does to an entry.
LEMMA AnalysisExpires ==
  \A x \in Analysis :
    /\ Expiring(x) \in Analysis
    /\ Live(Expiring(x)) => /\ Live(x)
                            /\ Expiring(x).value = x.value
                            /\ Expiring(x).left = x.left - 1
BY DEF Expiring, Live, Absent, Analysis

LEMMA MarketExpires ==
  \A x \in Market :
    /\ Expiring(x) \in Market
    /\ Live(Expiring(x)) => /\ Live(x)
                            /\ Expiring(x).value = x.value
                            /\ Expiring(x).left = x.left - 1
BY DEF Expiring, Live, Absent, Market

LEMMA AbsentType == Absent \in Market /\ Absent \in Analysis /\ ~Live(Absent)
BY DEF Absent, Market, Analysis, Live

LEMMA TypeInit == Init => TypeOK /\ Held
<1> SUFFICES ASSUME Init PROVE TypeOK /\ Held
  OBVIOUS
<1>1. TypeOK
  <2>1. 0 \in Versions /\ 0 \in 0 .. AnalysisHorizon
    BY DEF Versions, Horizon, AnalysisHorizon
  <2>2. query \in [Requests -> [url : Urls, side : Queried]]
    BY DEF Init
  <2>3. analyses \in [Keys -> Analysis] /\ markets \in [Urls -> Market]
    BY AbsentType DEF Init
  <2>4. \A r \in Requests : elapsed[r] <= Allowed(stage[r])
    <3> SUFFICES ASSUME NEW r \in Requests PROVE elapsed[r] <= Allowed(stage[r])
      OBVIOUS
    <3>1. elapsed[r] = 0 /\ stage[r] = "done"
      BY DEF Init
    <3>2. Allowed(stage[r]) = 0
      BY <3>1, AllowedTimes
    <3>3. QED
      BY <3>1, <3>2
  <2>5. QED
    BY <2>1, <2>2, <2>3, <2>4 DEF Init, TypeOK, Stages, Market, Analysis
<1>2. Held
  BY AbsentType DEF Init, Held, Timed, Working
<1>3. QED
  BY <1>1, <1>2

LEMMA TypeNext == TypeOK /\ Held /\ [Next]_vars => TypeOK' /\ Held'
<1> SUFFICES ASSUME TypeOK, Held, [Next]_vars PROVE TypeOK' /\ Held'
  OBVIOUS
<1> USE AllowedTimes DEF TypeOK, Stages, Timed, Working, Held, Goto
<1>1. ASSUME NEW r \in Requests, Begin(r) PROVE TypeOK' /\ Held'
  BY <1>1 DEF Begin
<1>2. ASSUME NEW r \in Requests, MarketHit(r) PROVE TypeOK' /\ Held'
  <2>1. query[r].url \in Urls
    OBVIOUS
  <2>2. markets[query[r].url].value \in 0 .. version
    BY <1>2, <2>1 DEF MarketHit
  <2>3. market' = [market EXCEPT ![r] = markets[query[r].url].value] /\ UNCHANGED version
    BY <1>2 DEF MarketHit
  <2>4. market'[r] \in 0 .. version' /\ market' \in [Requests -> Versions \cup {None}]
    BY <2>2, <2>3 DEF Versions
  <2>5. Held'
    BY <1>2, <2>3, <2>4 DEF MarketHit
  <2>6. TypeOK'
    BY <1>2, <2>4 DEF MarketHit
  <2>7. QED
    BY <2>5, <2>6
<1>3. ASSUME NEW r \in Requests, MarketMiss(r) \/ FetchFails(r) \/ Fetched(r)
      PROVE  TypeOK' /\ Held'
  <2>1. CASE MarketMiss(r)
    BY <2>1 DEF MarketMiss
  <2>2. CASE FetchFails(r)
    BY <2>2 DEF FetchFails
  <2>3. CASE Fetched(r)
    <3>1. version \in 0 .. version /\ market' = [market EXCEPT ![r] = version]
      BY <2>3 DEF Fetched, Versions
    <3>2. QED
      BY <2>3, <3>1 DEF Fetched
  <2>4. QED
    BY <1>3, <2>1, <2>2, <2>3
<1>4. ASSUME NEW r \in Requests, Fill(r) PROVE TypeOK' /\ Held'
  <2>1. market[r] \in 0 .. version /\ market[r] \in Versions
    BY <1>4 DEF Fill, Versions
  <2>2. [value |-> market[r], left |-> MarketTTL] \in Market
    BY <2>1 DEF Market
  <2>3. markets' \in [Urls -> Market]
    BY <1>4, <2>2 DEF Fill, Market
  <2>4. \A u \in Urls : Live(markets'[u]) => markets'[u].value \in 0 .. version
    <3>1. CASE UNCHANGED markets
      BY <3>1
    <3>2. CASE markets' = [markets EXCEPT ![query[r].url] =
                             [value |-> market[r], left |-> MarketTTL]]
      BY <2>1, <3>2
    <3>3. QED
      BY <1>4, <3>1, <3>2 DEF Fill
  <2>5. QED
    BY <1>4, <2>3, <2>4 DEF Fill, Market
<1>5. ASSUME NEW r \in Requests, stage[r] \in Timed
      PROVE  /\ EvalKey(market[r], query[r]) \in Keys
             /\ Prompt(market[r], query[r]) \in Prompts
  BY <1>5, KeyType DEF Versions
<1>6. ASSUME NEW r \in Requests, NoParser(r) \/ ParseFails(r) PROVE TypeOK' /\ Held'
  <2>1. CASE NoParser(r)
    BY <2>1 DEF NoParser, Finish
  <2>2. CASE ParseFails(r)
    BY <2>2 DEF ParseFails, Finish
  <2>3. QED
    BY <1>6, <2>1, <2>2
<1>7. ASSUME NEW r \in Requests, AnalysisHit(r) PROVE TypeOK' /\ Held'
  <2>1. analyses[EvalKey(market[r], query[r])].value \in Prompts \cup {None}
    BY <1>5, <1>7 DEF AnalysisHit
  <2>2. QED
    BY <1>7, <2>1 DEF AnalysisHit, Finish
<1>8. ASSUME NEW r \in Requests, AnalysisMiss(r) \/ Parsed(r) PROVE TypeOK' /\ Held'
  <2>1. CASE AnalysisMiss(r)
    BY <2>1 DEF AnalysisMiss
  <2>2. CASE Parsed(r)
    BY <1>5, <2>2 DEF Parsed
  <2>3. QED
    BY <1>8, <2>1, <2>2
<1>9. ASSUME NEW r \in Requests, Store(r) PROVE TypeOK' /\ Held'
  <2>1. [value |-> analysis[r], left |-> EvalTTL] \in Analysis
    BY <1>9 DEF Store, Analysis
  <2>2. analyses' \in [Keys -> Analysis]
    BY <1>9, <2>1 DEF Store, Analysis
  <2>3. QED
    BY <1>9, <2>2 DEF Store, Finish, Analysis
<1>10. CASE Update
  BY <1>10, SMTT(30) DEF Update, Versions
<1>11. CASE Tick
  <2>1. elapsed' \in [Requests -> Nat] /\ \A r \in Requests : elapsed'[r] <= Allowed(stage'[r])
    BY <1>11 DEF Tick
  <2>2. gone' \in [Versions -> 0 .. AnalysisHorizon]
    BY <1>11 DEF Tick, Aged, Horizon, AnalysisHorizon
  <2>3. markets' \in [Urls -> Market] /\ analyses' \in [Keys -> Analysis]
    BY <1>11, MarketExpires, AnalysisExpires DEF Tick, Market, Analysis
  <2>4. \A u \in Urls : Live(markets'[u]) => markets'[u].value \in 0 .. version
    <3>1. \A u \in Urls : markets[u] \in Market /\ markets'[u] = Expiring(markets[u])
      BY <1>11 DEF Tick, Market
    <3>2. QED
      BY <3>1, MarketExpires
  <2>5. QED
    BY <1>11, <2>1, <2>2, <2>3, <2>4 DEF Tick, Market, Analysis
<1>12. CASE Evict
  <2>1. markets' \in [Urls -> Market] /\ analyses' \in [Keys -> Analysis]
    BY <1>12, AbsentType DEF Evict, Market, Analysis
  <2>2. \A u \in Urls : Live(markets'[u]) => markets'[u].value \in 0 .. version
    BY <1>12, AbsentType DEF Evict
  <2>3. QED
    BY <1>12, <2>1, <2>2 DEF Evict, Market, Analysis
<1>13. CASE Restart
  BY <1>13 DEF Restart
<1>14. CASE UNCHANGED vars
  BY <1>14 DEF vars
<1>15. QED
  BY <1>1, <1>2, <1>3, <1>4, <1>6, <1>7, <1>8, <1>9, <1>10, <1>11, <1>12, <1>13, <1>14
  DEF Next, Step

\* The state of the requests and of Redis has its type, for any requests and URLs, any
\* lifetimes and any history of the source.
THEOREM Typing == Spec => [](TypeOK /\ Held)
<1>1. QED
  BY TypeInit, TypeNext, PTL DEF Spec

-----------------------------------------------------------------------------
(* Staleness. An entry was current when its fill was fetched, at most         *)
(* FetchTime ticks before it was written, and its lifetime counts from there. *)
(* A request that has its market works on it for WorkTime at most.            *)

\* Nobody replaced the current version yet, nor those to come.
Current == \A v \in Versions : v >= version => gone[v] = 0

Flights ==
  \A r \in Requests :
    /\ stage[r] = "fill" => gone[market[r]] <= elapsed[r]
    /\ stage[r] \in Working => gone[market[r]] <= Horizon - 1 + elapsed[r]

Entries ==
  \A u \in Urls :
    Live(markets[u]) => gone[markets[u].value] + markets[u].left <= Horizon

Young == Current /\ Flights /\ Entries

LEMMA YoungInit == Init => Young
BY DEF Init, Young, Current, Flights, Entries, Live, Absent, Working

\* Horizons are numbers, and the analyses' is the later one.
LEMMA Horizons ==
  /\ Horizon \in Nat \ {0} /\ AnalysisHorizon \in Nat
  /\ FetchTime <= Horizon - 1 /\ Horizon <= AnalysisHorizon
BY DEF Horizon, AnalysisHorizon

\* A request's market is a version, and its age a number.
LEMMA MarketAge ==
  ASSUME TypeOK, Held, NEW r \in Requests, stage[r] \in Timed
  PROVE  market[r] \in Versions /\ gone[market[r]] \in Nat /\ elapsed[r] \in Nat
BY DEF TypeOK, Held, Versions

LEMMA YoungNext == TypeOK /\ Held /\ Young /\ [Next]_vars => Young'
<1> SUFFICES ASSUME TypeOK, Held, Young, [Next]_vars PROVE Young'
  OBVIOUS
<1> USE DEF Young, Current, Flights, Entries, Live
<1>1. ASSUME NEW r \in Requests,
             Begin(r) \/ MarketMiss(r) \/ FetchFails(r) \/ NoParser(r)
      PROVE  Young'
  BY <1>1 DEF TypeOK, Begin, MarketMiss, FetchFails, NoParser, Finish, Goto, Working
<1>2. ASSUME NEW r \in Requests,
             AnalysisHit(r) \/ AnalysisMiss(r) \/ ParseFails(r) \/ Parsed(r) \/ Store(r)
      PROVE  Young'
  BY <1>2 DEF TypeOK, AnalysisHit, AnalysisMiss, ParseFails, Parsed, Store, Finish, Goto,
              Working
<1>3. ASSUME NEW r \in Requests, MarketHit(r) PROVE Young'
  <2>1. elapsed[r] = 0
    BY <1>3, AllowedTimes DEF MarketHit, TypeOK
  <2>2. Live(markets[query[r].url]) /\ query[r].url \in Urls
    BY <1>3 DEF MarketHit, TypeOK
  <2>3. gone[markets[query[r].url].value] <= Horizon - 1
    <3>1. gone[markets[query[r].url].value] \in Nat
      BY <2>2 DEF TypeOK, Held, Versions
    <3>2. QED
      BY <2>2, <3>1, Horizons DEF TypeOK
  <2>4. Flights'
    BY <1>3, <2>1, <2>3, Horizons DEF MarketHit, TypeOK, Goto, Working
  <2>5. QED
    BY <1>3, <2>4 DEF MarketHit
<1>4. ASSUME NEW r \in Requests, Fetched(r) PROVE Young'
  <2>1. gone[version] = 0 /\ elapsed[r] \in Nat
    BY DEF TypeOK, Versions
  <2>2. Flights'
    BY <1>4, <2>1 DEF TypeOK, Fetched, Goto, Working
  <2>3. QED
    BY <1>4, <2>2 DEF Fetched
<1>5. ASSUME NEW r \in Requests, Fill(r) PROVE Young'
  <2>1. gone[market[r]] <= elapsed[r] /\ elapsed[r] <= FetchTime
    BY <1>5, AllowedTimes DEF Fill, TypeOK
  <2>2. gone[market[r]] \in Nat /\ elapsed[r] \in Nat
    BY <1>5, MarketAge DEF Fill, Timed
  <2>3. gone[market[r]] + MarketTTL <= Horizon /\ gone[market[r]] <= Horizon - 1
    BY <2>1, <2>2, Horizons DEF Horizon
  <2>4. Entries'
    <3>1. CASE UNCHANGED markets
      BY <1>5, <3>1 DEF Fill
    <3>2. CASE markets' = [markets EXCEPT ![query[r].url] =
                             [value |-> market[r], left |-> MarketTTL]]
      BY <1>5, <2>3, <3>2 DEF Fill, TypeOK
    <3>3. QED
      BY <1>5, <3>1, <3>2 DEF Fill
  <2>5. Flights'
    BY <1>5, <2>2, <2>3, Horizons DEF Fill, TypeOK, Goto, Working
  <2>6. QED
    BY <1>5, <2>4, <2>5 DEF Fill
<1>6. CASE Update
  BY <1>6 DEF Update, TypeOK, Versions
<1>7. CASE Tick
  <2>1. \A v \in Versions : gone'[v] \in Nat /\ gone'[v] <= gone[v] + 1
    BY <1>7, Horizons DEF Tick, Aged, TypeOK
  <2>2. Current'
    BY <1>7 DEF Tick, Aged, TypeOK, Versions
  <2>3. ASSUME NEW r \in Requests, stage[r] \in Timed
        PROVE  /\ elapsed'[r] = elapsed[r] + 1 /\ elapsed[r] \in Nat
               /\ gone[market[r]] \in Nat
               /\ gone'[market[r]] \in Nat /\ gone'[market[r]] <= gone[market[r]] + 1
    <3>1. elapsed'[r] = elapsed[r] + 1
      BY <1>7, <2>3 DEF Tick
    <3>2. QED
      BY <2>1, <2>3, <3>1, MarketAge
  <2>4. Flights'
    <3>1. ASSUME NEW r \in Requests, stage[r] = "fill" PROVE gone'[market[r]] <= elapsed'[r]
      BY <2>3, <3>1 DEF Timed
    <3>2. ASSUME NEW r \in Requests, stage[r] \in Working
          PROVE  gone'[market[r]] <= Horizon - 1 + elapsed'[r]
      BY <2>3, <3>2, Horizons DEF Timed
    <3>3. QED
      BY <1>7, <3>1, <3>2 DEF Tick
  <2>5. ASSUME NEW u \in Urls, Live(markets'[u])
        PROVE  gone'[markets'[u].value] + markets'[u].left <= Horizon
    <3>1. /\ Live(markets[u])
          /\ markets'[u].value = markets[u].value
          /\ markets'[u].left = markets[u].left - 1
      <4>1. markets[u] \in Market
        BY DEF TypeOK, Market
      <4>2. markets'[u] = Expiring(markets[u])
        BY <1>7 DEF Tick
      <4>3. QED
        BY <2>5, <4>1, <4>2, MarketExpires
    <3>2. markets[u].value \in Versions /\ markets[u].left \in Nat
      BY <3>1 DEF TypeOK, Held, Versions
    <3>3. gone[markets[u].value] \in Nat /\ gone[markets[u].value] + markets[u].left <= Horizon
      BY <3>1, <3>2 DEF TypeOK
    <3>4. QED
      BY <2>1, <3>1, <3>2, <3>3, Horizons
  <2>6. QED
    BY <2>2, <2>4, <2>5
<1>8. CASE Evict
  <2>1. \A u \in Urls : markets'[u] = markets[u] \/ ~Live(markets'[u])
    BY <1>8, AbsentType DEF Evict
  <2>2. QED
    BY <1>8, <2>1 DEF Evict
<1>9. CASE Restart
  BY <1>9 DEF Restart, Working
<1>10. CASE UNCHANGED vars
  BY <1>10 DEF vars
<1>11. QED
  BY <1>1, <1>2, <1>3, <1>4, <1>5, <1>6, <1>7, <1>8, <1>9, <1>10 DEF Next, Step

-----------------------------------------------------------------------------
(* The promise, kept: every step is a step of BoundedStaleness or stutters.   *)

LEMMA PromiseInit == Init => Promise!Init
BY Horizons DEF Init, Promise!Init, Versions, Promise!Versions

LEMMA PromiseNext ==
  TypeOK /\ Held /\ Young /\ [Next]_vars => [Promise!Next]_(Promise!vars)
<1> SUFFICES ASSUME TypeOK, Held, Young, [Next]_vars
             PROVE  Promise!Next \/ UNCHANGED Promise!vars
  BY DEF Promise!vars
<1> USE DEF Promise!Next, Promise!vars
<1>1. Horizon \in Nat \ {0} /\ \A v \in Versions : gone[v] \in Nat
  BY Horizons DEF TypeOK
<1>2. ASSUME NEW r \in Requests, Begin(r) PROVE Promise!Forget
  <2>1. market' = [q \in Requests |-> IF q \in {r} THEN None ELSE market[q]]
    BY <1>2 DEF Begin, TypeOK
  <2>2. UNCHANGED <<version, gone>>
    BY <1>2 DEF Begin
  <2>3. {r} \in SUBSET Requests
    OBVIOUS
  <2>4. QED
    BY <2>1, <2>2, <2>3 DEF Promise!Forget
<1>3. ASSUME NEW r \in Requests, MarketHit(r) PROVE Promise!Read(r)
  <2>1. /\ markets[query[r].url].value \in 0 .. version
        /\ markets[query[r].url].value \in Versions
        /\ markets[query[r].url].left \in Nat
    BY <1>3 DEF MarketHit, TypeOK, Held, Versions
  <2>2. gone[markets[query[r].url].value] < Horizon
    BY <1>1, <1>3, <2>1 DEF MarketHit, Young, Entries, Live, TypeOK
  <2>3. QED
    BY <1>3, <2>1, <2>2 DEF MarketHit, Promise!Read, Versions
<1>4. ASSUME NEW r \in Requests, Fetched(r) PROVE Promise!Read(r)
  <2>1. gone[version] = 0 /\ version \in 0 .. version
    BY DEF Young, Current, TypeOK, Versions
  <2>2. gone[version] < Horizon
    BY <1>1, <2>1
  <2>3. market' = [market EXCEPT ![r] = version] /\ UNCHANGED <<version, gone>>
    BY <1>4 DEF Fetched
  <2>4. QED
    BY <2>1, <2>2, <2>3 DEF Promise!Read, TypeOK, Versions
<1>5. CASE Update
  BY <1>5 DEF Update, Promise!Update
<1>6. CASE Tick
  BY <1>1, <1>6, Horizons
  DEF Tick, Aged, Versions, TypeOK, Promise!Tick, Promise!Aged, Promise!Versions
<1>7. CASE Restart
  <2>1. market' = [q \in Requests |-> IF q \in Requests THEN None ELSE market[q]]
    BY <1>7 DEF Restart
  <2>2. QED
    BY <1>7, <2>1 DEF Restart, Promise!Forget
<1>8. ASSUME NEW r \in Requests, Step(r), ~MarketHit(r), ~Fetched(r)
      PROVE  UNCHANGED Promise!vars
  BY <1>8 DEF Step, MarketMiss, FetchFails, Fill, NoParser, AnalysisHit, AnalysisMiss,
     ParseFails, Parsed, Store
<1>9. CASE Evict
  BY <1>9 DEF Evict
<1>10. CASE UNCHANGED vars
  BY <1>10 DEF vars
<1>11. QED
  BY <1>2, <1>3, <1>4, <1>5, <1>6, <1>7, <1>8, <1>9, <1>10 DEF Next

\* Cache implements BoundedStaleness with Horizon for bound: no request is given what
\* the source replaced MarketTTL + FetchTime ticks ago or more.
THEOREM KeepsPromise == Spec => Implements
<1>1. TypeOK /\ Held /\ Young /\ [Next]_vars => (TypeOK /\ Held /\ Young)'
  BY TypeNext, YoungNext
<1>2. QED
  BY <1>1, TypeInit, YoungInit, PromiseInit, PromiseNext, PTL
  DEF Spec, Implements, Promise!Spec

-----------------------------------------------------------------------------
(* Analyses. The key holds the side and the rules of the prompt, and not the  *)
(* outcomes: an entry was made of some version with the key's rules, and its  *)
(* age and remaining lifetime add up to at most AnalysisHorizon.              *)

\* The entry of key k was made of version v.
Made(k, v) ==
  /\ RulesOf[v] = k.rules
  /\ analyses[k].value = [side |-> k.side, rules |-> k.rules, outcomes |-> OutcomesOf[v]]

Stored ==
  \A k \in Keys : Live(analyses[k]) =>
    \E v \in 0 .. version : Made(k, v) /\ gone[v] + analyses[k].left <= AnalysisHorizon

\* No analysis before it is made; then that of the request's own prompt, or one of its
\* side and rules.
Answering ==
  \A r \in Requests :
    /\ stage[r] \in {"get", "fetch", "fill", "eval", "parse"} => analysis[r] = None
    /\ stage[r] = "store" => analysis[r] = Prompt(market[r], query[r])
    /\ stage[r] = "done" /\ analysis[r] # None =>
         /\ analysis[r].side = SideOf(query[r])
         /\ analysis[r].rules = RulesOf[market[r]]

LEMMA AnalysisInit == Init => Stored /\ Answering
BY AbsentType DEF Init, Stored, Answering

\* Steps that write no analysis and let no time pass.
LEMMA StoredKept ==
  ASSUME TypeOK, Stored, UNCHANGED <<analyses, gone>>, version' \in Nat, version <= version'
  PROVE  Stored'
<1> SUFFICES ASSUME NEW k \in Keys, Live(analyses[k])
             PROVE  \E v \in 0 .. version' :
                      Made(k, v)' /\ gone'[v] + analyses'[k].left <= AnalysisHorizon
  BY DEF Stored
<1>1. PICK v \in 0 .. version : Made(k, v) /\ gone[v] + analyses[k].left <= AnalysisHorizon
  BY DEF Stored
<1>2. v \in 0 .. version'
  BY DEF TypeOK, Versions
<1>3. QED
  BY <1>1, <1>2 DEF Made

\* What is stored was made of a market that was given out less than Horizon ticks after
\* its replacement, WorkTime ticks ago at most.
LEMMA StoredStore ==
  ASSUME TypeOK, Held, Young, Stored, Answering, NEW r \in Requests, Store(r)
  PROVE  Stored'
<1> DEFINE key == EvalKey(market[r], query[r])
<1>1. market[r] \in Versions /\ market[r] \in 0 .. version /\ gone[market[r]] \in Nat
      /\ elapsed[r] \in Nat /\ stage[r] \in Working
  BY MarketAge DEF Store, Timed, Working, Held
<1>2. analysis[r] = Prompt(market[r], query[r])
  BY DEF Store, Answering
<1>3. gone[market[r]] + EvalTTL <= AnalysisHorizon
  <2>1. elapsed[r] <= WorkTime
    BY <1>1, AllowedTimes DEF TypeOK
  <2>2. gone[market[r]] <= Horizon - 1 + elapsed[r]
    BY <1>1 DEF Young, Flights
  <2>3. QED
    BY <1>1, <2>1, <2>2, Horizons DEF AnalysisHorizon
<1>4. UNCHANGED <<version, gone>>
  BY DEF Store
<1>5. CASE UNCHANGED analyses
  <2>1. version' \in Nat /\ version <= version'
    BY <1>4 DEF TypeOK, Versions
  <2>2. QED
    BY <1>4, <1>5, <2>1, StoredKept
<1>6. CASE analyses' = [analyses EXCEPT ![key] = [value |-> analysis[r], left |-> EvalTTL]]
  <2> SUFFICES ASSUME NEW k \in Keys, Live(analyses'[k])
               PROVE  \E v \in 0 .. version :
                        Made(k, v)' /\ gone[v] + analyses'[k].left <= AnalysisHorizon
    BY <1>4 DEF Stored
  <2>1. CASE k = key
    <3>1. analyses'[k] = [value |-> analysis[r], left |-> EvalTTL]
      BY <1>6, <2>1 DEF TypeOK
    <3>2. ASSUME NEW v, v = market[r] PROVE Made(k, v)'
      <4>1. RulesOf[market[r]] = k.rules
        BY <2>1 DEF EvalKey
      <4>2. analysis[r] = [side |-> k.side, rules |-> k.rules,
                           outcomes |-> OutcomesOf[market[r]]]
        BY <1>2, <2>1 DEF Prompt, EvalKey
      <4>3. QED
        BY <3>1, <3>2, <4>1, <4>2 DEF Made
    <3>3. QED
      BY <1>1, <1>3, <3>1, <3>2
  <2>2. CASE k # key
    <3>1. analyses'[k] = analyses[k]
      BY <1>6, <2>2 DEF TypeOK
    <3>2. PICK v \in 0 .. version : Made(k, v) /\ gone[v] + analyses[k].left <= AnalysisHorizon
      BY <3>1 DEF Stored
    <3>3. QED
      BY <3>1, <3>2 DEF Made
  <2>3. QED
    BY <2>1, <2>2
<1>7. QED
  BY <1>5, <1>6 DEF Store

\* A tick takes from the lifetime what it adds to the age.
LEMMA StoredTick ==
  ASSUME TypeOK, Stored, Tick
  PROVE  Stored'
<1> SUFFICES ASSUME NEW k \in Keys, Live(analyses'[k])
             PROVE  \E v \in 0 .. version :
                      Made(k, v)' /\ gone'[v] + analyses'[k].left <= AnalysisHorizon
  BY DEF Stored, Tick
<1>1. analyses[k] \in Analysis /\ analyses'[k] = Expiring(analyses[k])
  BY DEF TypeOK, Analysis, Tick
<1>2. /\ Live(analyses[k])
      /\ analyses'[k].value = analyses[k].value
      /\ analyses'[k].left = analyses[k].left - 1
  BY <1>1, AnalysisExpires
<1>3. PICK v \in 0 .. version : Made(k, v) /\ gone[v] + analyses[k].left <= AnalysisHorizon
  BY <1>2 DEF Stored
<1>4. v \in Versions /\ gone[v] \in Nat
  BY DEF TypeOK, Versions
<1>5. gone'[v] \in Nat /\ gone'[v] <= gone[v] + 1
  BY <1>4, Horizons DEF Tick, Aged
<1>6. analyses[k].left \in Nat
  BY <1>1 DEF Analysis
<1>7. gone'[v] + analyses'[k].left <= AnalysisHorizon
  BY <1>2, <1>3, <1>4, <1>5, <1>6, Horizons
<1>8. QED
  BY <1>2, <1>3, <1>7 DEF Made

LEMMA StoredEvict ==
  ASSUME TypeOK, Stored, Evict
  PROVE  Stored'
<1> SUFFICES ASSUME NEW k \in Keys, Live(analyses'[k])
             PROVE  \E v \in 0 .. version :
                      Made(k, v)' /\ gone[v] + analyses'[k].left <= AnalysisHorizon
  BY DEF Stored, Evict
<1>1. analyses'[k] = analyses[k]
  BY AbsentType DEF Evict
<1>2. PICK v \in 0 .. version : Made(k, v) /\ gone[v] + analyses[k].left <= AnalysisHorizon
  BY <1>1 DEF Stored
<1>3. QED
  BY <1>1, <1>2 DEF Made

\* What a hit gives: an analysis of the request's side and rules, made of a version
\* that was current less than AnalysisHorizon ticks ago.
LEMMA HitAnswers ==
  ASSUME TypeOK, Held, Stored, NEW r \in Requests, AnalysisHit(r)
  PROVE  /\ analysis'[r].side = SideOf(query[r])
         /\ analysis'[r].rules = RulesOf[market[r]]
         /\ \E v \in 0 .. version :
              analysis'[r] = Prompt(v, query[r]) /\ gone[v] < AnalysisHorizon
<1> DEFINE key == EvalKey(market[r], query[r])
<1>1. key \in Keys
  <2>1. market[r] \in Versions /\ query[r] \in [url : Urls, side : Queried]
    BY MarketAge DEF AnalysisHit, Timed, Working, TypeOK
  <2>2. QED
    BY <2>1, KeyType
<1>2. Live(analyses[key]) /\ analysis'[r] = analyses[key].value
  BY DEF AnalysisHit, TypeOK
<1>3. PICK v \in 0 .. version :
        Made(key, v) /\ gone[v] + analyses[key].left <= AnalysisHorizon
  BY <1>1, <1>2 DEF Stored
<1>4. key.side = SideOf(query[r]) /\ key.rules = RulesOf[market[r]]
  BY DEF EvalKey
<1>5. analysis'[r] = Prompt(v, query[r])
  BY <1>2, <1>3, <1>4 DEF Made, Prompt
<1>6. gone[v] < AnalysisHorizon
  <2>1. gone[v] \in Nat /\ analyses[key].left \in Nat /\ analyses[key].left > 0
    BY <1>1, <1>2 DEF TypeOK, Versions, Live
  <2>2. QED
    BY <1>3, <2>1, Horizons
<1>7. RulesOf[v] = RulesOf[market[r]]
  BY <1>3, <1>4 DEF Made
<1>8. QED
  BY <1>5, <1>6, <1>7 DEF Prompt

LEMMA AnsweringNext ==
  TypeOK /\ Held /\ Stored /\ Answering /\ [Next]_vars => Answering'
<1> SUFFICES ASSUME TypeOK, Held, Stored, Answering, [Next]_vars PROVE Answering'
  OBVIOUS
<1> USE DEF Answering, Goto, Finish
<1>1. ASSUME NEW r \in Requests,
             Begin(r) \/ MarketHit(r) \/ MarketMiss(r) \/ FetchFails(r) \/ Fetched(r)
      PROVE  Answering'
  BY <1>1 DEF TypeOK, Begin, MarketHit, MarketMiss, FetchFails, Fetched
<1>2. ASSUME NEW r \in Requests,
             Fill(r) \/ NoParser(r) \/ AnalysisMiss(r) \/ ParseFails(r) \/ Parsed(r)
      PROVE  Answering'
  BY <1>2 DEF TypeOK, Fill, NoParser, AnalysisMiss, ParseFails, Parsed
<1>3. ASSUME NEW r \in Requests, AnalysisHit(r) PROVE Answering'
  <2>1. analysis'[r].side = SideOf(query[r]) /\ analysis'[r].rules = RulesOf[market[r]]
    BY <1>3, HitAnswers
  <2>2. stage'[r] = "done" /\ UNCHANGED <<market, query>>
        /\ \A q \in Requests \ {r} : stage'[q] = stage[q] /\ analysis'[q] = analysis[q]
    BY <1>3 DEF TypeOK, AnalysisHit
  <2>3. QED
    BY <2>1, <2>2
<1>4. ASSUME NEW r \in Requests, Store(r) PROVE Answering'
  <2>1. analysis[r].side = SideOf(query[r]) /\ analysis[r].rules = RulesOf[market[r]]
    <3>1. analysis[r] = Prompt(market[r], query[r])
      BY <1>4 DEF Store
    <3>2. QED
      BY <3>1 DEF Prompt
  <2>2. QED
    BY <1>4, <2>1 DEF TypeOK, Store
<1>5. CASE Update \/ Tick \/ Evict \/ Restart
  BY <1>5 DEF TypeOK, Update, Tick, Evict, Restart
<1>6. CASE UNCHANGED vars
  BY <1>6 DEF vars
<1>7. QED
  BY <1>1, <1>2, <1>3, <1>4, <1>5, <1>6 DEF Next, Step

AInv == TypeOK /\ Held /\ Young /\ Stored /\ Answering

LEMMA AnalysisNext == AInv /\ [Next]_vars => AInv'
<1> SUFFICES ASSUME AInv, [Next]_vars PROVE AInv'
  OBVIOUS
<1>1. TypeOK' /\ Held' /\ Young' /\ Answering'
  BY TypeNext, YoungNext, AnsweringNext DEF AInv
<1>2. version \in Nat
  BY DEF AInv, TypeOK, Versions
<1>3. ASSUME NEW r \in Requests, Begin(r) \/ Step(r), ~Store(r) PROVE Stored'
  <2>1. UNCHANGED <<analyses, gone, version>>
    BY <1>3 DEF Begin, Step, MarketHit, MarketMiss, FetchFails, Fetched, Fill, NoParser,
                AnalysisHit, AnalysisMiss, ParseFails, Parsed
  <2>2. QED
    BY <1>2, <2>1, StoredKept DEF AInv
<1>4. ASSUME NEW r \in Requests, Store(r) PROVE Stored'
  BY <1>4, StoredStore DEF AInv
<1>5. ASSUME Update PROVE Stored'
  BY <1>2, <1>5, StoredKept DEF Update, AInv
<1>6. ASSUME Tick \/ Evict PROVE Stored'
  BY <1>6, StoredTick, StoredEvict DEF AInv
<1>7. ASSUME Restart \/ UNCHANGED vars PROVE Stored'
  BY <1>2, <1>7, StoredKept DEF Restart, vars, AInv
<1>8. Stored'
  BY <1>3, <1>4, <1>5, <1>6, <1>7 DEF Next
<1>9. QED
  BY <1>1, <1>8 DEF AInv

\* Every live entry of the analysis cache was made of a version with its key's rules that
\* is young enough, and no request holds an analysis of another side or other rules.
THEOREM AnalysesKept == Spec => []AInv
<1>1. Init => AInv
  BY TypeInit, YoungInit, AnalysisInit DEF AInv
<1>2. QED
  BY <1>1, AnalysisNext, PTL DEF Spec

\* Nobody is scored with an analysis of another side or of other rules.
THEOREM Answers == Spec => []AnalysisAnswers
<1>1. AInv => AnalysisAnswers
  BY DEF AInv, Answering, AnalysisAnswers
<1>2. QED
  BY <1>1, AnalysesKept, PTL

\* A request ends with an analysis by taking one from the cache or by storing its own.
LEMMA Endings ==
  ASSUME TypeOK, Answering, [Next]_vars, NEW r \in Requests,
         stage[r] # "done", stage'[r] = "done", analysis'[r] # None
  PROVE  AnalysisHit(r) \/ Store(r)
<1> USE DEF Answering, Goto, Finish
<1>1. ASSUME NEW q \in Requests, Begin(q) \/ Step(q) PROVE q = r /\ ~Begin(q)
  BY <1>1 DEF TypeOK, Begin, Step, MarketHit, MarketMiss, FetchFails, Fetched, Fill,
              NoParser, AnalysisHit, AnalysisMiss, ParseFails, Parsed, Store
<1>2. ASSUME Step(r), ~AnalysisHit(r), ~Store(r) PROVE FALSE
  BY <1>2 DEF TypeOK, Step, MarketHit, MarketMiss, FetchFails, Fetched, Fill, NoParser,
              AnalysisMiss, ParseFails, Parsed
<1>3. CASE Update \/ Tick \/ Evict \/ Restart
  BY <1>3 DEF Update, Tick, Evict, Restart
<1>4. CASE UNCHANGED vars
  BY <1>4 DEF vars
<1>5. QED
  BY <1>1, <1>2, <1>3, <1>4 DEF Next

\* The outcomes an analysis was told were current less than AnalysisHorizon ticks before
\* it is given, although they are not in its key.
THEOREM Fresh == Spec => OutcomesFresh
<1>1. ASSUME AInv, [Next]_vars, NEW r \in Requests,
             stage[r] # "done", stage'[r] = "done", analysis'[r] # None
      PROVE  \E v \in 0 .. version :
               analysis'[r] = Prompt(v, query[r]) /\ gone[v] < AnalysisHorizon
  <2>1. CASE AnalysisHit(r)
    BY <1>1, <2>1, HitAnswers DEF AInv
  <2>2. CASE Store(r)
    <3>1. stage[r] = "store" /\ stage[r] \in Working /\ stage[r] \in Timed
          /\ analysis'[r] = analysis[r]
      BY <2>2 DEF Store, Working, Timed
    <3>2. analysis[r] = Prompt(market[r], query[r]) /\ market[r] \in 0 .. version
      BY <1>1, <3>1 DEF AInv, Answering, Held
    <3>3. gone[market[r]] \in Nat /\ elapsed[r] \in Nat /\ elapsed[r] <= WorkTime
          /\ gone[market[r]] <= Horizon - 1 + elapsed[r]
      BY <1>1, <3>1, MarketAge, AllowedTimes DEF AInv, TypeOK, Young, Flights
    <3>4. gone[market[r]] < AnalysisHorizon
      BY <3>3, Horizons DEF AnalysisHorizon
    <3>5. QED
      BY <3>1, <3>2, <3>4
  <2>3. QED
    BY <1>1, <2>1, <2>2, Endings DEF AInv
<1>2. AInv /\ [Next]_vars =>
        [\A r \in Requests :
           stage[r] # "done" /\ stage'[r] = "done" /\ analysis'[r] # None =>
             \E v \in 0 .. version :
               analysis'[r] = Prompt(v, query[r]) /\ gone[v] < AnalysisHorizon]_vars
  BY <1>1
<1>3. QED
  BY <1>2, AnalysesKept, PTL DEF Spec, OutcomesFresh
=============================================================================
