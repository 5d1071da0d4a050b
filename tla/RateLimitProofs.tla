--------------------------- MODULE RateLimitProofs ---------------------------
(***************************************************************************)
(* Proofs about RateLimit, for any calls, callers, limits and lengths of   *)
(* the minute, when a counter outlives its minute by as long as a call may *)
(* be late (RateAssumption).                                               *)
(***************************************************************************)
EXTENDS RateLimit, FiniteSetTheorems, TLAPS

USE RateAssumption

-----------------------------------------------------------------------------
(* Typing.                                                                   *)

\* What the steps do to one counter.
LEMMA CounterSteps ==
  \A x \in Counter :
    /\ [x EXCEPT !.n = @ + 1] \in Counter
    /\ [x EXCEPT !.n = @ + 1].n = x.n + 1
    /\ [x EXCEPT !.n = @ + 1].expires = x.expires
    /\ [x EXCEPT !.n = @ + 1].left = x.left
    /\ Expired(x) \in Counter
    /\ Expired(x).n = x.n
    /\ x.n = 0 => Expired(x) = x
    /\ x.n # 0 => Expired(x).expires /\ Expired(x).left = TTL
<1> SUFFICES ASSUME NEW x \in Counter
             PROVE  /\ [x EXCEPT !.n = @ + 1] \in Counter
                    /\ [x EXCEPT !.n = @ + 1].n = x.n + 1
                    /\ [x EXCEPT !.n = @ + 1].expires = x.expires
                    /\ [x EXCEPT !.n = @ + 1].left = x.left
                    /\ Expired(x) \in Counter
                    /\ Expired(x).n = x.n
                    /\ x.n = 0 => Expired(x) = x
                    /\ x.n # 0 => Expired(x).expires /\ Expired(x).left = TTL
  OBVIOUS
<1>1. TTL \in 0 .. TTL /\ x.n + 1 \in Nat
  BY DEF Counter
<1>2. CASE x.n = 0
  BY <1>1, <1>2 DEF Counter, Expired
<1>3. CASE x.n # 0
  <2>1. Expired(x) = [x EXCEPT !.expires = TRUE, !.left = TTL]
    BY <1>3 DEF Expired, Life
  <2>2. QED
    BY <1>1, <1>3, <2>1 DEF Counter
<1>4. QED
  BY <1>2, <1>3

LEMMA CounterAges ==
  \A x \in Counter :
    /\ Aged(x) \in Counter
    /\ Aged(x) = NoCounter \/ Aged(x).n = x.n
    /\ Aged(x).expires => x.expires /\ x.left >= 2 /\ Aged(x).left = x.left - 1
    /\ ~x.expires => Aged(x) = x
    /\ x.expires /\ x.left >= 2 => Aged(x).expires /\ Aged(x).n = x.n
    /\ x.expires /\ ~(x.left >= 2) => Aged(x) = NoCounter
    /\ x = NoCounter => Aged(x) = NoCounter
<1> SUFFICES ASSUME NEW x \in Counter
             PROVE  /\ Aged(x) \in Counter
                    /\ Aged(x) = NoCounter \/ Aged(x).n = x.n
                    /\ Aged(x).expires =>
                         x.expires /\ x.left >= 2 /\ Aged(x).left = x.left - 1
                    /\ ~x.expires => Aged(x) = x
                    /\ x.expires /\ x.left >= 2 => Aged(x).expires /\ Aged(x).n = x.n
                    /\ x.expires /\ ~(x.left >= 2) => Aged(x) = NoCounter
                    /\ x = NoCounter => Aged(x) = NoCounter
  OBVIOUS
<1>1. x.left \in 0 .. TTL /\ x.expires \in BOOLEAN
  BY DEF Counter
<1>2. CASE ~x.expires
  <2>1. Aged(x) = x
    BY <1>2 DEF Aged
  <2>2. QED
    BY <1>2, <2>1
<1>3. CASE x.expires /\ x.left <= 1
  <2>1. Aged(x) = NoCounter /\ NoCounter \in Counter /\ ~NoCounter.expires
    BY <1>3 DEF Aged, NoCounter, Counter
  <2>2. ~(x.left >= 2)
    BY <1>1, <1>3
  <2>3. QED
    BY <1>3, <2>1, <2>2
<1>4. CASE x.expires /\ ~(x.left <= 1)
  <2>1. Aged(x) = [x EXCEPT !.left = @ - 1] /\ x.left - 1 \in 0 .. TTL
    BY <1>1, <1>4 DEF Aged
  <2>2. x # NoCounter /\ x.left >= 2
    BY <1>1, <1>4 DEF NoCounter
  <2>3. QED
    BY <1>4, <2>1, <2>2 DEF Counter
<1>5. QED
  BY <1>1, <1>2, <1>3, <1>4

\* The counter a step writes, and those it leaves alone.
LEMMA PutOne ==
  ASSUME TypeOK, NEW r \in Calls, NEW x \in Counter, Put(r, x)
  PROVE  /\ counters' \in [Callers -> [Minutes -> Counter]]
         /\ counters'[CallerOf[r]][stamp[r]] = x
         /\ \A c \in Callers, m \in Minutes :
              <<c, m>> # Pair(r) => counters'[c][m] = counters[c][m]
BY DEF TypeOK, Put, Pair

LEMMA TypeInit == Init => TypeOK
<1> SUFFICES ASSUME Init PROVE TypeOK
  OBVIOUS
<1>1. NoCounter \in Counter /\ 0 \in Minutes /\ 0 \in 0 .. Minute - 1 /\ 0 \in 0 .. Lag
  BY DEF NoCounter, Counter, Minutes
<1>2. TypeOK
  BY <1>1 DEF Init, TypeOK, Stages, Setup
<1>3. QED
  BY <1>2

\* The steps that change no counter.
LEMMA TypeStay ==
  ASSUME TypeOK, NEW r \in Calls,
         \/ Unauthorized(r) \/ Unlimited(r) \/ DemoDisabled(r) \/ McpAnswers(r)
         \/ BotAnswers(r) \/ Stamp(r) \/ IncrRaises(r)
  PROVE  TypeOK'
<1>1. CASE Stamp(r)
  <2>1. 0 \in 0 .. Lag
    OBVIOUS
  <2>2. QED
    BY <1>1, <2>1 DEF TypeOK, Stamp, Goto, Stages, Waiting, clock, seen
<1>2. CASE IncrRaises(r)
  <2>1. 0 \in 0 .. Lag
    OBVIOUS
  <2>2. QED
    BY <1>2, <2>1 DEF TypeOK, IncrRaises, Goto, Stages, Waiting, clock, seen
<1>3. CASE \/ Unauthorized(r) \/ Unlimited(r) \/ DemoDisabled(r) \/ McpAnswers(r)
           \/ BotAnswers(r)
  BY <1>3 DEF TypeOK, Unauthorized, Unlimited, DemoDisabled, McpAnswers, BotAnswers,
    Goto, Kept, Stages, Waiting, clock, seen
<1>4. QED
  BY <1>1, <1>2, <1>3

LEMMA PairType ==
  ASSUME TypeOK, NEW r \in Calls
  PROVE  /\ CallerOf[r] \in Callers /\ stamp[r] \in Minutes
         /\ Pair(r) \in Callers \X Minutes
         /\ At(r) \in Counter
BY DEF TypeOK, Pair, At

LEMMA TypePut ==
  ASSUME TypeOK, NEW r \in Calls,
         Incr(r) \/ Expire(r) \/ IncrAnswerLost(r) \/ ExpireRaises(r)
  PROVE  TypeOK'
<1> DEFINE up == [At(r) EXCEPT !.n = @ + 1]
<1>1. At(r) \in Counter /\ up \in Counter /\ Expired(At(r)) \in Counter
      /\ Pair(r) \in Callers \X Minutes /\ At(r).n \in Nat
  BY PairType, CounterSteps DEF Counter
<1>2. counters' \in [Callers -> [Minutes -> Counter]]
  <2>1. CASE Put(r, up)
    BY <1>1, <2>1, PutOne
  <2>2. CASE Put(r, Expired(At(r)))
    BY <1>1, <2>2, PutOne
  <2>3. CASE UNCHANGED counters
    BY <2>3 DEF TypeOK
  <2>4. QED
    BY <2>1, <2>2, <2>3 DEF Incr, Expire, IncrAnswerLost, ExpireRaises, Counted
<1>3. stage' \in [Calls -> Stages]
  <2>1. \A n : Verdict(r, n) \in Stages
    BY DEF Verdict, Stages
  <2>2. QED
    BY <2>1 DEF TypeOK, Incr, Expire, IncrAnswerLost, ExpireRaises, Goto, Stages, Waiting
<1>4. wait' \in [Calls -> 0 .. Lag]
  <2>1. 0 \in 0 .. Lag
    OBVIOUS
  <2>2. QED
    BY <2>1 DEF TypeOK, Incr, Expire, IncrAnswerLost, ExpireRaises, Counted, seen
<1>5. number' \in [Calls -> Nat]
  BY <1>1 DEF TypeOK, Incr, Expire, IncrAnswerLost, ExpireRaises
<1>6. counted' \subseteq Calls /\ dropped' \subseteq Callers \X Minutes
      /\ orphaned' \subseteq Callers \X Minutes
  BY <1>1 DEF TypeOK, Incr, Expire, IncrAnswerLost, ExpireRaises, Counted, seen
<1>7. UNCHANGED <<setup, minute, second, stamp>>
  BY DEF Incr, Expire, IncrAnswerLost, ExpireRaises, clock
<1>8. QED
  BY <1>2, <1>3, <1>4, <1>5, <1>6, <1>7 DEF TypeOK

LEMMA TypeEnvironment ==
  ASSUME TypeOK,
         Tick \/ Restart \/ \E c \in Callers, m \in Minutes : Drop(c, m)
  PROVE  TypeOK'
<1>1. CASE Tick
  <2>1. minute' \in Minutes /\ second' \in 0 .. Minute - 1
    BY <1>1 DEF Tick, TypeOK, Minutes
  <2>2. counters' \in [Callers -> [Minutes -> Counter]]
    BY <1>1, CounterAges DEF Tick, TypeOK
  <2>3. wait' \in [Calls -> 0 .. Lag]
    BY <1>1 DEF Tick, TypeOK
  <2>4. QED
    BY <1>1, <2>1, <2>2, <2>3 DEF Tick, TypeOK, seen
<1>2. CASE Restart
  <2>1. wait' \in [Calls -> 0 .. Lag]
    BY <1>2 DEF Restart
  <2>2. stage' \in [Calls -> Stages]
    BY <1>2 DEF Restart, TypeOK, Stages
  <2>3. orphaned' \subseteq Callers \X Minutes
    BY <1>2, PairType DEF Restart, TypeOK
  <2>4. QED
    BY <1>2, <2>1, <2>2, <2>3 DEF Restart, TypeOK, clock
<1>3. ASSUME NEW c \in Callers, NEW m \in Minutes, Drop(c, m)
      PROVE  TypeOK'
  <2>1. NoCounter \in Counter
    BY DEF NoCounter, Counter
  <2>2. counters' \in [Callers -> [Minutes -> Counter]]
    BY <1>3, <2>1 DEF Drop, TypeOK
  <2>3. QED
    BY <1>3, <2>2 DEF Drop, TypeOK, clock
<1>4. QED
  BY <1>1, <1>2, <1>3

\* THEOREM: every reachable state is well typed.
THEOREM Typing == Spec => []TypeOK
<1>1. Init => TypeOK
  BY TypeInit
<1>2. TypeOK /\ [Next]_vars => TypeOK'
  <2>1. ASSUME TypeOK, NEW r \in Calls, Limiting(r) PROVE TypeOK'
    BY <2>1, TypeStay, TypePut DEF Limiting
  <2>2. ASSUME TypeOK, UNCHANGED vars PROVE TypeOK'
    BY <2>2 DEF TypeOK, vars, clock, seen
  <2>3. QED
    BY <2>1, <2>2, TypeEnvironment DEF Next
<1>3. QED
  BY <1>1, <1>2, PTL DEF Spec

-----------------------------------------------------------------------------
(* Time. While a call has still to count, its counter, if it expires at all,  *)
(* outlives it.                                                              *)

\* In its own minute a counter was given its life no earlier than the start.
Early ==
  \A c \in Callers :
    counters[c][minute].expires => counters[c][minute].left + second >= TTL

Late ==
  \A r \in Calls :
    stage[r] = "stamped" /\ At(r).expires => At(r).left + wait[r] >= Lag + 1

Future ==
  \A c \in Callers, m \in Minutes : m > minute => counters[c][m] = NoCounter

Stamps == \A r \in Calls : stamp[r] <= minute

Timing == Early /\ Late /\ Future /\ Stamps

LEMMA TimingInit == Init => Timing
<1> SUFFICES ASSUME Init PROVE Timing
  OBVIOUS
<1>1. \A c \in Callers, m \in Minutes : counters[c][m] = NoCounter
  BY DEF Init
<1>2. 0 \in Minutes /\ ~NoCounter.expires
  BY DEF Minutes, NoCounter
<1>3. QED
  BY <1>1, <1>2 DEF Init, Timing, Early, Late, Future, Stamps

LEMMA TimingStay ==
  ASSUME TypeOK, Timing, NEW r \in Calls,
         \/ Unauthorized(r) \/ Unlimited(r) \/ DemoDisabled(r) \/ McpAnswers(r)
         \/ BotAnswers(r) \/ Stamp(r) \/ IncrRaises(r)
  PROVE  Timing'
<1>1. UNCHANGED <<counters, minute, second>>
  BY DEF Unauthorized, Unlimited, DemoDisabled, McpAnswers, BotAnswers, Stamp,
    IncrRaises, Kept, clock
<1>2. Early' /\ Future'
  BY <1>1 DEF Timing, Early, Future
<1>3. CASE Stamp(r)
  <2>1. stamp' = [stamp EXCEPT ![r] = minute] /\ wait' = [wait EXCEPT ![r] = 0]
        /\ stage' = [stage EXCEPT ![r] = "stamped"]
    BY <1>3 DEF Stamp, Goto
  <2>2. Stamps'
    BY <1>1, <2>1 DEF TypeOK, Timing, Stamps, Minutes
  <2>3. ASSUME NEW q \in Calls, q # r, stage'[q] = "stamped", At(q)'.expires
        PROVE  At(q)'.left + wait'[q] >= Lag + 1
    BY <1>1, <2>1, <2>3 DEF TypeOK, Timing, Late, At
  <2>4. ASSUME At(r)'.expires
        PROVE  At(r)'.left + wait'[r] >= Lag + 1
    <3>1. At(r)' = counters[CallerOf[r]][minute] /\ wait'[r] = 0
      BY <1>1, <2>1 DEF TypeOK, At
    <3>2. At(r)'.left + second >= TTL
      BY <2>4, <3>1 DEF Timing, Early
    <3>3. second <= Minute - 1 /\ second \in Nat /\ At(r)'.left \in Nat
      <4>1. At(r)' \in Counter
        BY <3>1 DEF TypeOK
      <4>2. QED
        BY <4>1 DEF TypeOK, Counter
    <3>4. QED
      BY <3>1, <3>2, <3>3
  <2>5. QED
    BY <1>2, <2>2, <2>3, <2>4 DEF Timing, Late
<1>4. CASE \/ Unauthorized(r) \/ Unlimited(r) \/ DemoDisabled(r) \/ McpAnswers(r)
           \/ BotAnswers(r) \/ IncrRaises(r)
  <2>1. stamp' = stamp /\ \A q \in Calls : stage'[q] = "stamped" =>
          stage[q] = "stamped" /\ wait'[q] = wait[q]
    BY <1>4 DEF Unauthorized, Unlimited, DemoDisabled, McpAnswers, BotAnswers,
      IncrRaises, Kept, Goto, TypeOK
  <2>2. Late' /\ Stamps'
    BY <1>1, <2>1 DEF Timing, Late, Stamps, At
  <2>3. QED
    BY <1>2, <2>2 DEF Timing
<1>5. QED
  BY <1>3, <1>4

\* What the steps at a counter do to the counters.
LEMMA PutEffect ==
  ASSUME TypeOK, NEW r \in Calls,
         Incr(r) \/ Expire(r) \/ IncrAnswerLost(r) \/ ExpireRaises(r)
  PROVE  /\ \A c \in Callers, m \in Minutes :
              \/ counters'[c][m] = counters[c][m]
              \/ /\ <<c, m>> = Pair(r)
                 /\ counters'[c][m] \in Counter
                 /\ \/ counters'[c][m] = [At(r) EXCEPT !.n = @ + 1]
                    \/ counters'[c][m] = Expired(At(r)) /\ stage[r] = "first"
         /\ stage[r] = "stamped" => At(r)' = [At(r) EXCEPT !.n = @ + 1]
         /\ UNCHANGED <<minute, second, stamp>>
         /\ stage'[r] # "stamped"
         /\ \A q \in Calls : q # r => stage'[q] = stage[q] /\ wait'[q] = wait[q]
<1> DEFINE up == [At(r) EXCEPT !.n = @ + 1]
<1>1. At(r) \in Counter /\ up \in Counter /\ Expired(At(r)) \in Counter
  BY PairType, CounterSteps
<1>2. UNCHANGED <<minute, second, stamp>>
  BY DEF Incr, Expire, IncrAnswerLost, ExpireRaises, clock
<1>3. \A n : Verdict(r, n) # "stamped"
  BY DEF Verdict
<1>4. stage'[r] # "stamped"
      /\ \A q \in Calls : q # r => stage'[q] = stage[q] /\ wait'[q] = wait[q]
  BY <1>3 DEF TypeOK, Incr, Expire, IncrAnswerLost, ExpireRaises, Goto, Counted
<1>5. \/ Put(r, up) /\ stage[r] = "stamped"
      \/ Put(r, Expired(At(r))) /\ stage[r] = "first"
      \/ UNCHANGED counters /\ stage[r] = "first"
  BY DEF Incr, Expire, IncrAnswerLost, ExpireRaises, Counted
<1>6. CASE Put(r, up) /\ stage[r] = "stamped"
  <2>1. At(r)' = up
    BY <1>1, <1>2, <1>6, PutOne DEF At
  <2>2. \A c \in Callers, m \in Minutes :
          \/ counters'[c][m] = counters[c][m]
          \/ <<c, m>> = Pair(r) /\ counters'[c][m] = up
    BY <1>1, <1>6, PutOne DEF Pair
  <2>3. QED
    BY <1>1, <1>2, <1>4, <2>1, <2>2
<1>7. CASE Put(r, Expired(At(r))) /\ stage[r] = "first"
  <2>1. \A c \in Callers, m \in Minutes :
          \/ counters'[c][m] = counters[c][m]
          \/ <<c, m>> = Pair(r) /\ counters'[c][m] = Expired(At(r))
    BY <1>1, <1>7, PutOne DEF Pair
  <2>2. QED
    BY <1>1, <1>2, <1>4, <1>7, <2>1
<1>8. CASE UNCHANGED counters /\ stage[r] = "first"
  BY <1>2, <1>4, <1>8
<1>9. QED
  BY <1>5, <1>6, <1>7, <1>8

\* So a counter is as it was, or has its life of before, or a whole one.
LEMMA LifeKept ==
  ASSUME TypeOK, Timing, NEW r \in Calls,
         Incr(r) \/ Expire(r) \/ IncrAnswerLost(r) \/ ExpireRaises(r),
         NEW c \in Callers, NEW m \in Minutes
  PROVE  \/ counters'[c][m] = counters[c][m]
         \/ /\ m <= minute
            /\ counters'[c][m].expires =>
                 \/ counters'[c][m].left = TTL
                 \/ counters[c][m].expires /\ counters'[c][m].left = counters[c][m].left
<1>1. CASE counters'[c][m] = counters[c][m]
  BY <1>1
<1>2. CASE /\ <<c, m>> = Pair(r)
           /\ counters'[c][m] \in Counter
           /\ \/ counters'[c][m] = [At(r) EXCEPT !.n = @ + 1]
              \/ counters'[c][m] = Expired(At(r)) /\ stage[r] = "first"
  <2>1. c = CallerOf[r] /\ m = stamp[r] /\ m <= minute /\ counters[c][m] = At(r)
    BY <1>2 DEF Pair, At, Timing, Stamps
  <2>2. At(r) \in Counter
    BY PairType
  <2>3. CASE counters'[c][m] = [At(r) EXCEPT !.n = @ + 1]
    <3>1. /\ counters'[c][m].expires = At(r).expires
          /\ counters'[c][m].left = At(r).left
      BY <2>2, <2>3, CounterSteps
    <3>2. QED
      BY <2>1, <3>1
  <2>4. CASE counters'[c][m] = Expired(At(r))
    <3>1. CASE At(r).n = 0
      BY <2>1, <2>2, <2>4, <3>1, CounterSteps
    <3>2. CASE At(r).n # 0
      <4>1. Expired(At(r)).left = TTL
        BY <2>2, <3>2, CounterSteps
      <4>2. QED
        BY <2>1, <2>4, <4>1
    <3>3. QED
      BY <3>1, <3>2
  <2>5. QED
    BY <1>2, <2>3, <2>4
<1>3. QED
  BY <1>1, <1>2, PutEffect

LEMMA TimingPut ==
  ASSUME TypeOK, Timing, NEW r \in Calls,
         Incr(r) \/ Expire(r) \/ IncrAnswerLost(r) \/ ExpireRaises(r)
  PROVE  Timing'
<1>1. UNCHANGED <<minute, second, stamp>>
      /\ stage'[r] # "stamped"
      /\ \A q \in Calls : q # r => stage'[q] = stage[q] /\ wait'[q] = wait[q]
  BY PutEffect
<1>2. Early'
  <2> SUFFICES ASSUME NEW c \in Callers, counters'[c][minute].expires
               PROVE  counters'[c][minute].left + second >= TTL
    BY <1>1 DEF Early
  <2>1. minute \in Minutes /\ second \in Nat
    BY DEF TypeOK
  <2>2. QED
    BY <2>1, LifeKept DEF Timing, Early
<1>3. Late'
  <2> SUFFICES ASSUME NEW q \in Calls, stage'[q] = "stamped", At(q)'.expires
               PROVE  At(q)'.left + wait'[q] >= Lag + 1
    BY DEF Late
  <2>1. q # r /\ stage[q] = "stamped" /\ wait'[q] = wait[q] /\ wait[q] \in Nat
    BY <1>1 DEF TypeOK
  <2>2. At(q)' = counters'[CallerOf[q]][stamp[q]]
        /\ CallerOf[q] \in Callers /\ stamp[q] \in Minutes
    BY <1>1 DEF At, TypeOK
  <2>3. QED
    BY <2>1, <2>2, LifeKept DEF Timing, Late, At
<1>4. Future'
  <2> SUFFICES ASSUME NEW c \in Callers, NEW m \in Minutes, m > minute
               PROVE  counters'[c][m] = NoCounter
    BY <1>1 DEF Future
  <2>1. m \in Nat /\ minute \in Nat /\ ~(m <= minute)
    BY DEF TypeOK, Minutes
  <2>2. counters'[c][m] = counters[c][m]
    BY <2>1, LifeKept
  <2>3. QED
    BY <2>2 DEF Timing, Future
<1>5. QED
  BY <1>1, <1>2, <1>3, <1>4 DEF Timing, Stamps

LEMMA TimingTick ==
  ASSUME TypeOK, Timing, Tick
  PROVE  Timing'
<1>1. \A c \in Callers, m \in Minutes :
        counters[c][m] \in Counter /\ counters'[c][m] = Aged(counters[c][m])
  BY DEF Tick, TypeOK
<1>2. \/ minute' = minute /\ second' = second + 1
      \/ minute' = minute + 1 /\ second' = 0
  BY DEF Tick
<1>3. minute \in Nat /\ second \in Nat /\ minute \in Minutes /\ minute' \in Minutes
  BY DEF Tick, TypeOK, Minutes
<1>4. UNCHANGED <<stage, stamp>>
  BY DEF Tick
<1>5. Future'
  BY <1>1, <1>2, <1>3, CounterAges DEF Timing, Future, Minutes
<1>6. Stamps'
  BY <1>2, <1>3, <1>4 DEF Timing, Stamps, TypeOK, Minutes
<1>7. Early'
  <2> SUFFICES ASSUME NEW c \in Callers, counters'[c][minute'].expires
               PROVE  counters'[c][minute'].left + second' >= TTL
    BY DEF Early
  <2>1. CASE minute' = minute /\ second' = second + 1
    <3>1. counters[c][minute] \in Counter
          /\ counters'[c][minute] = Aged(counters[c][minute])
      BY <1>1, <1>3
    <3>2. counters[c][minute].expires
          /\ counters'[c][minute].left = counters[c][minute].left - 1
      BY <2>1, <3>1, CounterAges
    <3>3. counters[c][minute].left + second >= TTL /\ counters[c][minute].left \in Nat
      BY <3>1, <3>2 DEF Timing, Early, Counter
    <3>4. QED
      BY <1>3, <2>1, <3>2, <3>3
  <2>2. CASE minute' = minute + 1 /\ second' = 0
    <3>1. counters[c][minute'] = NoCounter
      BY <1>3, <2>2 DEF Timing, Future
    <3>2. counters'[c][minute'] = NoCounter
      BY <1>1, <1>3, <3>1, CounterAges
    <3>3. QED
      BY <3>2 DEF NoCounter
  <2>3. QED
    BY <1>2, <2>1, <2>2
<1>8. Late'
  <2> SUFFICES ASSUME NEW q \in Calls, stage'[q] = "stamped", At(q)'.expires
               PROVE  At(q)'.left + wait'[q] >= Lag + 1
    BY DEF Late
  <2>1. stage[q] = "stamped" /\ wait'[q] = wait[q] + 1 /\ wait[q] \in Nat
    BY <1>4 DEF Tick, TypeOK
  <2>2. At(q) \in Counter /\ At(q)' = Aged(At(q))
    BY <1>1, <1>4, PairType DEF At
  <2>3. At(q).expires /\ At(q)'.left = At(q).left - 1 /\ At(q).left \in Nat
    <3>1. At(q).left \in Nat
      BY <2>2 DEF Counter
    <3>2. QED
      BY <2>2, <3>1, CounterAges
  <2>4. At(q).left + wait[q] >= Lag + 1
    BY <2>1, <2>3 DEF Timing, Late
  <2>5. QED
    BY <2>1, <2>3, <2>4
<1>9. QED
  BY <1>5, <1>6, <1>7, <1>8 DEF Timing

LEMMA TimingOther ==
  ASSUME TypeOK, Timing,
         Restart \/ \E c \in Callers, m \in Minutes : Drop(c, m)
  PROVE  Timing'
<1>1. UNCHANGED <<minute, second, stamp>>
  BY DEF Restart, Drop, clock
<1>2. CASE Restart
  <2>1. UNCHANGED counters /\ \A r \in Calls : stage'[r] # "stamped"
    BY <1>2 DEF Restart, Waiting, TypeOK
  <2>2. QED
    BY <1>1, <2>1 DEF Timing, Early, Late, Future, Stamps
<1>3. ASSUME NEW c \in Callers, NEW m \in Minutes, Drop(c, m)
      PROVE  Timing'
  <2>1. UNCHANGED <<stage, wait>>
    BY <1>3 DEF Drop
  <2>2. ~NoCounter.expires
    BY DEF NoCounter
  <2>3. \A b \in Callers, l \in Minutes :
          counters'[b][l] = NoCounter \/ counters'[b][l] = counters[b][l]
    BY <1>3 DEF Drop, TypeOK
  <2>4. Early' /\ Future' /\ Stamps'
    BY <1>1, <2>2, <2>3, ZenonT(60) DEF Timing, Early, Future, Stamps, TypeOK
  <2>5. Late'
    BY <1>1, <2>1, <2>2, <2>3, PairType DEF Timing, Late, At
  <2>6. QED
    BY <2>4, <2>5 DEF Timing
<1>4. QED
  BY <1>2, <1>3

-----------------------------------------------------------------------------
(* Counting. A counter, and a number read from it, are at most the number of  *)
(* calls counted for that caller and minute.                                 *)

CountedOf(c, m) == {q \in counted : Pair(q) = <<c, m>>}

Counting ==
  /\ \A r \in Calls : r \in counted => stage[r] \notin {"new", "stamped"}
  /\ \A c \in Callers, m \in Minutes :
       counters[c][m].n <= Cardinality(CountedOf(c, m))
  /\ \A r \in Calls : number[r] > 0 =>
       /\ r \in counted
       /\ \A c \in Callers, m \in Minutes :
            Pair(r) = <<c, m>> => number[r] <= Cardinality(CountedOf(c, m))
  /\ \A r \in Calls :
       /\ stage[r] = "refused" => number[r] > Limit[CallerOf[r]]
       /\ stage[r] = "passed" => number[r] <= Limit[CallerOf[r]]

LEMMA CountedFinite ==
  ASSUME TypeOK, NEW c \in Callers, NEW m \in Minutes
  PROVE  IsFiniteSet(CountedOf(c, m)) /\ Cardinality(CountedOf(c, m)) \in Nat
<1>1. CountedOf(c, m) \in SUBSET Calls
  BY DEF CountedOf, TypeOK
<1>2. IsFiniteSet(CountedOf(c, m))
  BY <1>1, FS_Subset
<1>3. QED
  BY <1>2, FS_CardinalityType

LEMMA CountingInit == Init => Counting
<1> SUFFICES ASSUME Init PROVE Counting
  OBVIOUS
<1>1. TypeOK
  BY TypeInit
<1>2. \A c \in Callers, m \in Minutes : Cardinality(CountedOf(c, m)) \in Nat
  BY <1>1, CountedFinite
<1>3. \A c \in Callers, m \in Minutes : counters[c][m].n = 0
  BY DEF Init, NoCounter
<1>4. QED
  BY <1>2, <1>3 DEF Init, Counting

\* A step that counts nobody and moves no stamp of a counted call.
LEMMA CountedSame ==
  ASSUME counted' = counted, \A q \in counted : Pair(q)' = Pair(q),
         NEW c \in Callers, NEW m \in Minutes
  PROVE  CountedOf(c, m)' = CountedOf(c, m)
BY DEF CountedOf

\* A step that counts r.
LEMMA CountedMore ==
  ASSUME TypeOK, NEW r \in Calls, r \notin counted, counted' = counted \cup {r},
         stamp' = stamp, NEW c \in Callers, NEW m \in Minutes
  PROVE  /\ Pair(r) = <<c, m>> =>
              Cardinality(CountedOf(c, m)') = Cardinality(CountedOf(c, m)) + 1
         /\ Pair(r) # <<c, m>> => CountedOf(c, m)' = CountedOf(c, m)
<1>1. CASE Pair(r) = <<c, m>>
  <2>1. CountedOf(c, m)' = CountedOf(c, m) \cup {r} /\ r \notin CountedOf(c, m)
    BY <1>1 DEF CountedOf, Pair
  <2>2. IsFiniteSet(CountedOf(c, m))
    BY CountedFinite
  <2>3. QED
    BY <1>1, <2>1, <2>2, FS_AddElement
<1>2. CASE Pair(r) # <<c, m>>
  BY <1>2 DEF CountedOf, Pair
<1>3. QED
  BY <1>1, <1>2

LEMMA CountingStay ==
  ASSUME TypeOK, Counting, NEW r \in Calls,
         \/ Unauthorized(r) \/ Unlimited(r) \/ DemoDisabled(r) \/ McpAnswers(r)
         \/ BotAnswers(r) \/ Stamp(r) \/ IncrRaises(r)
  PROVE  Counting'
<1>1. /\ UNCHANGED <<counters, number, counted>>
      /\ stage[r] \in {"new", "stamped"}
      /\ stage'[r] \in {"answered", "passed", "stamped"}
      /\ stage'[r] = "stamped" => stage[r] = "new"
      /\ \A q \in Calls : q # r => stage'[q] = stage[q] /\ stamp'[q] = stamp[q]
  BY DEF TypeOK, Unauthorized, Unlimited, DemoDisabled, McpAnswers, BotAnswers, Entered,
    Stamp, IncrRaises, Kept, Goto, seen
<1>2. r \notin counted /\ number[r] = 0
  BY <1>1 DEF Counting, TypeOK
<1>3. \A q \in counted : Pair(q)' = Pair(q) /\ stamp'[q] = stamp[q]
  BY <1>1, <1>2 DEF Pair, TypeOK
<1>4. \A c \in Callers, m \in Minutes : CountedOf(c, m)' = CountedOf(c, m)
  BY <1>1, <1>3, CountedSame
<1>5. \A q \in Calls : q \in counted' => stage'[q] \notin {"new", "stamped"}
  BY <1>1, <1>2 DEF Counting
<1>6. \A c \in Callers, m \in Minutes :
        counters'[c][m].n <= Cardinality(CountedOf(c, m)')
  BY <1>1, <1>4 DEF Counting
<1>7. \A q \in Calls : number'[q] > 0 =>
        /\ q \in counted'
        /\ \A c \in Callers, m \in Minutes :
             Pair(q)' = <<c, m>> => number'[q] <= Cardinality(CountedOf(c, m)')
  BY <1>1, <1>3, <1>4 DEF Counting
<1>8. \A q \in Calls :
        /\ stage'[q] = "refused" => number'[q] > Limit[CallerOf[q]]
        /\ stage'[q] = "passed" => number'[q] <= Limit[CallerOf[q]]
  <2>1. CallerOf[r] \in Callers /\ Limit[CallerOf[r]] \in Nat
    OBVIOUS
  <2>2. QED
    BY <1>1, <1>2, <2>1 DEF Counting
<1>9. QED
  BY <1>5, <1>6, <1>7, <1>8 DEF Counting

\* What the steps at a counter do to the numbers and to the counted.
LEMMA NumberEffect ==
  ASSUME TypeOK, NEW r \in Calls,
         Incr(r) \/ Expire(r) \/ IncrAnswerLost(r) \/ ExpireRaises(r)
  PROVE  /\ UNCHANGED <<stamp, dropped>>
         /\ stage[r] = "stamped" \/ stage[r] = "first"
         /\ stage[r] = "stamped" =>
              /\ counted' = counted \cup {r}
              /\ number'[r] = At(r).n + 1 \/ number'[r] = number[r]
         /\ stage[r] = "first" =>
              counted' = counted /\ (number'[r] = number[r] \/ number'[r] = 0)
         /\ \A q \in Calls : q # r => number'[q] = number[q] /\ stage'[q] = stage[q]
         /\ stage'[r] \notin {"new", "stamped"}
         /\ stage'[r] = "refused" => number'[r] > Limit[CallerOf[r]]
         /\ stage'[r] = "passed" =>
              \/ number'[r] <= Limit[CallerOf[r]]
              \/ number'[r] = 0
              \/ number'[r] = number[r] /\ stage[r] = "stamped"
<1>1. CallerOf[r] \in Callers /\ Limit[CallerOf[r]] \in Nat
  OBVIOUS
<1>2. At(r).n + 1 \in Nat /\ number[r] \in Nat
  BY PairType DEF Counter, TypeOK
<1>3. CASE Incr(r)
  <2>1. /\ number'[r] = At(r).n + 1 /\ stage[r] = "stamped"
        /\ stage'[r] = "first" \/ stage'[r] = Verdict(r, At(r).n + 1)
        /\ \A q \in Calls : q # r => number'[q] = number[q] /\ stage'[q] = stage[q]
        /\ UNCHANGED <<stamp, dropped>> /\ counted' = counted \cup {r}
    BY <1>3 DEF Incr, Counted, Goto, TypeOK
  <2>2. /\ Verdict(r, At(r).n + 1) \in {"refused", "passed"}
        /\ Verdict(r, At(r).n + 1) = "refused" => At(r).n + 1 > Limit[CallerOf[r]]
        /\ Verdict(r, At(r).n + 1) = "passed" => At(r).n + 1 <= Limit[CallerOf[r]]
    BY <1>1, <1>2 DEF Verdict
  <2>3. /\ stage'[r] \notin {"new", "stamped"}
        /\ stage'[r] = "refused" => number'[r] > Limit[CallerOf[r]]
        /\ stage'[r] = "passed" => number'[r] <= Limit[CallerOf[r]]
    BY <2>1, <2>2
  <2>4. QED
    BY <2>1, <2>3
<1>4. CASE Expire(r)
  <2>1. /\ UNCHANGED <<number, stamp, dropped, counted>> /\ stage[r] = "first"
        /\ stage'[r] = Verdict(r, number[r])
        /\ \A q \in Calls : q # r => stage'[q] = stage[q]
    BY <1>4 DEF Expire, Goto, TypeOK, seen
  <2>2. /\ Verdict(r, number[r]) \in {"refused", "passed"}
        /\ Verdict(r, number[r]) = "refused" => number[r] > Limit[CallerOf[r]]
        /\ Verdict(r, number[r]) = "passed" => number[r] <= Limit[CallerOf[r]]
    BY <1>1, <1>2 DEF Verdict
  <2>3. /\ stage'[r] \notin {"new", "stamped"}
        /\ stage'[r] = "refused" => number'[r] > Limit[CallerOf[r]]
        /\ stage'[r] = "passed" => number'[r] <= Limit[CallerOf[r]]
    BY <2>1, <2>2
  <2>4. QED
    BY <2>1, <2>3
<1>5. CASE IncrAnswerLost(r)
  BY <1>5 DEF IncrAnswerLost, Counted, Goto, TypeOK
<1>6. CASE ExpireRaises(r)
  BY <1>6 DEF ExpireRaises, Goto, TypeOK
<1>7. QED
  BY <1>3, <1>4, <1>5, <1>6

\* What the steps at a counter do to its value.
LEMMA ValueEffect ==
  ASSUME TypeOK, NEW r \in Calls,
         Incr(r) \/ Expire(r) \/ IncrAnswerLost(r) \/ ExpireRaises(r),
         NEW c \in Callers, NEW m \in Minutes
  PROVE  /\ stage[r] = "stamped" /\ Pair(r) = <<c, m>> =>
              counters'[c][m].n = counters[c][m].n + 1
         /\ ~(stage[r] = "stamped" /\ Pair(r) = <<c, m>>) =>
              counters'[c][m].n = counters[c][m].n
<1>1. UNCHANGED stamp
  BY NumberEffect
<1>2. At(r) \in Counter /\ Expired(At(r)).n = At(r).n /\ Expired(At(r)) \in Counter
      /\ [At(r) EXCEPT !.n = @ + 1].n = At(r).n + 1
  BY PairType, CounterSteps
<1>3. CASE Pair(r) # <<c, m>>
  BY <1>3, PutEffect
<1>4. CASE Pair(r) = <<c, m>>
  <2>1. counters[c][m] = At(r) /\ counters'[c][m] = At(r)'
    BY <1>1, <1>4 DEF Pair, At
  <2>2. CASE stage[r] = "stamped"
    BY <1>2, <1>4, <2>1, <2>2, PutEffect
  <2>3. CASE stage[r] # "stamped"
    <3>1. CASE Put(r, Expired(At(r)))
      <4>1. At(r)' = Expired(At(r))
        BY <1>1, <1>2, <3>1, PutOne DEF At
      <4>2. QED
        BY <1>2, <2>1, <2>3, <4>1
    <3>2. CASE UNCHANGED counters
      BY <2>3, <3>2
    <3>3. QED
      BY <2>3, <3>1, <3>2 DEF Incr, Expire, IncrAnswerLost, ExpireRaises
  <2>4. QED
    BY <2>2, <2>3
<1>5. QED
  BY <1>3, <1>4

LEMMA CountingPut ==
  ASSUME TypeOK, Counting, NEW r \in Calls,
         Incr(r) \/ Expire(r) \/ IncrAnswerLost(r) \/ ExpireRaises(r)
  PROVE  Counting'
<1>1. UNCHANGED <<stamp, dropped>> /\ \A q \in Calls : Pair(q)' = Pair(q)
  BY NumberEffect DEF Pair
<1>2. \A c \in Callers, m \in Minutes :
        /\ Cardinality(CountedOf(c, m)) \in Nat
        /\ counters[c][m] \in Counter /\ counters[c][m].n \in Nat
  BY CountedFinite DEF TypeOK, Counter
<1>3. stage[r] = "stamped" => r \notin counted /\ number[r] = 0
  BY DEF Counting, TypeOK
<1>4. \A c \in Callers, m \in Minutes :
        /\ stage[r] = "stamped" /\ Pair(r) = <<c, m>> =>
             Cardinality(CountedOf(c, m)') = Cardinality(CountedOf(c, m)) + 1
        /\ ~(stage[r] = "stamped" /\ Pair(r) = <<c, m>>) =>
             CountedOf(c, m)' = CountedOf(c, m)
  <2>1. CASE stage[r] = "stamped"
    BY <1>1, <1>3, <2>1, CountedMore, NumberEffect
  <2>2. CASE stage[r] # "stamped"
    <3>1. counted' = counted /\ \A q \in counted : Pair(q)' = Pair(q)
      BY <1>1, <2>2, NumberEffect DEF TypeOK
    <3>2. QED
      BY <2>2, <3>1, CountedSame
  <2>3. QED
    BY <2>1, <2>2
<1>5. \A c \in Callers, m \in Minutes :
        /\ ~(stage[r] = "stamped" /\ Pair(r) = <<c, m>>) => counters'[c][m].n = counters[c][m].n
        /\ stage[r] = "stamped" /\ Pair(r) = <<c, m>> => counters'[c][m].n = counters[c][m].n + 1
  BY ValueEffect
<1>6. \A c \in Callers, m \in Minutes :
        counters'[c][m].n <= Cardinality(CountedOf(c, m)')
  BY <1>2, <1>4, <1>5 DEF Counting
<1>7. \A q \in Calls : q \in counted' => stage'[q] \notin {"new", "stamped"}
  BY NumberEffect DEF Counting
<1>8. \A q \in Calls : number'[q] > 0 =>
        /\ q \in counted'
        /\ \A c \in Callers, m \in Minutes :
             Pair(q)' = <<c, m>> => number'[q] <= Cardinality(CountedOf(c, m)')
  <2> SUFFICES ASSUME NEW q \in Calls, number'[q] > 0
               PROVE  /\ q \in counted'
                      /\ \A c \in Callers, m \in Minutes :
                           Pair(q) = <<c, m>> => number'[q] <= Cardinality(CountedOf(c, m)')
    BY <1>1
  <2>1. CASE number'[q] = number[q]
    <3>1. q \in counted'
      BY <2>1, NumberEffect DEF Counting
    <3>2. ASSUME NEW c \in Callers, NEW m \in Minutes, Pair(q) = <<c, m>>
          PROVE  number'[q] <= Cardinality(CountedOf(c, m)')
      <4>1. number[q] <= Cardinality(CountedOf(c, m)) /\ number[q] \in Nat
        BY <2>1, <3>2 DEF Counting, TypeOK
      <4>2. QED
        BY <1>2, <1>4, <2>1, <4>1
    <3>3. QED
      BY <3>1, <3>2
  <2>2. CASE number'[q] # number[q]
    <3>1. q = r /\ stage[r] = "stamped" /\ number'[r] = At(r).n + 1 /\ r \in counted'
      BY <2>2, NumberEffect
    <3>2. ASSUME NEW c \in Callers, NEW m \in Minutes, Pair(r) = <<c, m>>
          PROVE  number'[r] <= Cardinality(CountedOf(c, m)')
      <4>1. At(r) = counters[c][m]
        BY <3>2 DEF Pair, At
      <4>2. QED
        BY <1>2, <1>4, <3>1, <3>2, <4>1 DEF Counting
    <3>3. QED
      BY <3>1, <3>2
  <2>3. QED
    BY <2>1, <2>2
<1>9. \A q \in Calls :
        /\ stage'[q] = "refused" => number'[q] > Limit[CallerOf[q]]
        /\ stage'[q] = "passed" => number'[q] <= Limit[CallerOf[q]]
  <2>1. CallerOf[r] \in Callers /\ Limit[CallerOf[r]] \in Nat
    OBVIOUS
  <2>2. QED
    BY <1>3, <2>1, NumberEffect DEF Counting
<1>10. QED
  BY <1>6, <1>7, <1>8, <1>9 DEF Counting

LEMMA CountingEnvironment ==
  ASSUME TypeOK, Counting,
         Tick \/ Restart \/ \E c \in Callers, m \in Minutes : Drop(c, m)
  PROVE  Counting'
<1>1. UNCHANGED <<stamp, number, counted>> /\ \A q \in Calls : Pair(q)' = Pair(q)
  BY DEF Tick, Restart, Drop, seen, Pair
<1>2. \A c \in Callers, m \in Minutes : CountedOf(c, m)' = CountedOf(c, m)
  BY <1>1, CountedSame DEF TypeOK
<1>3. \A c \in Callers, m \in Minutes :
        counters'[c][m].n = counters[c][m].n \/ counters'[c][m].n = 0
  <2>1. NoCounter.n = 0
    BY DEF NoCounter
  <2>2. CASE Tick
    BY <2>1, <2>2, CounterAges DEF Tick, TypeOK
  <2>3. CASE Restart
    BY <2>3 DEF Restart
  <2>4. ASSUME NEW c \in Callers, NEW m \in Minutes, Drop(c, m)
        PROVE  \A b \in Callers, l \in Minutes :
                 counters'[b][l].n = counters[b][l].n \/ counters'[b][l].n = 0
    BY <2>1, <2>4 DEF Drop, TypeOK
  <2>5. QED
    BY <2>2, <2>3, <2>4
<1>4. \A r \in Calls : stage'[r] = stage[r] \/ stage'[r] = "lost"
  BY DEF Tick, Restart, Drop, TypeOK
<1>5. \A c \in Callers, m \in Minutes : Cardinality(CountedOf(c, m)) \in Nat
  BY CountedFinite
<1>6. \A c \in Callers, m \in Minutes :
        counters'[c][m].n <= Cardinality(CountedOf(c, m)')
  BY <1>2, <1>3, <1>5 DEF Counting
<1>7. \A q \in Calls : q \in counted' => stage'[q] \notin {"new", "stamped"}
  BY <1>1, <1>4 DEF Counting
<1>8. \A q \in Calls : number'[q] > 0 =>
        /\ q \in counted'
        /\ \A c \in Callers, m \in Minutes :
             Pair(q)' = <<c, m>> => number'[q] <= Cardinality(CountedOf(c, m)')
  BY <1>1, <1>2 DEF Counting
<1>9. \A q \in Calls :
        /\ stage'[q] = "refused" => number'[q] > Limit[CallerOf[q]]
        /\ stage'[q] = "passed" => number'[q] <= Limit[CallerOf[q]]
  BY <1>1, <1>4 DEF Counting
<1>10. QED
  BY <1>6, <1>7, <1>8, <1>9 DEF Counting

-----------------------------------------------------------------------------
(* Numbers. While Redis keeps a counter, no number is given out twice: the    *)
(* counter is at least as high as any, or it expired, and then its minute is  *)
(* over and nobody is left to count in it.                                   *)

Over(c, m) ==
  /\ counters[c][m].n = 0 /\ m < minute
  /\ \A q \in Calls : stage[q] = "stamped" => Pair(q) # <<c, m>>

Highest ==
  \A r \in Calls : number[r] > 0 /\ Pair(r) \notin dropped =>
    number[r] <= At(r).n \/ Over(CallerOf[r], stamp[r])

Distinct ==
  \A r, q \in Calls :
    r # q /\ Pair(r) = Pair(q) /\ Pair(r) \notin dropped /\ number[r] > 0 =>
      number[q] # number[r]

Numbers == Highest /\ Distinct

LEMMA NumbersInit == Init => Numbers
BY DEF Init, Numbers, Highest, Distinct

LEMMA NumbersStay ==
  ASSUME TypeOK, Timing, Counting, Numbers, NEW r \in Calls,
         \/ Unauthorized(r) \/ Unlimited(r) \/ DemoDisabled(r) \/ McpAnswers(r)
         \/ BotAnswers(r) \/ Stamp(r) \/ IncrRaises(r)
  PROVE  Numbers'
<1>1. /\ UNCHANGED <<counters, number, dropped, minute>>
      /\ stage[r] \in {"new", "stamped"}
      /\ stage'[r] = "stamped" => stamp'[r] = minute
      /\ \A q \in Calls : q # r => stage'[q] = stage[q] /\ stamp'[q] = stamp[q]
  BY DEF TypeOK, Unauthorized, Unlimited, DemoDisabled, McpAnswers, BotAnswers, Entered,
    Stamp, IncrRaises, Kept, Goto, seen, clock
<1>2. number[r] = 0
  BY <1>1 DEF Counting, TypeOK
<1>3. \A q \in Calls : q # r =>
        Pair(q)' = Pair(q) /\ At(q)' = At(q) /\ stamp'[q] = stamp[q]
  BY <1>1 DEF Pair, At
<1>4. Distinct'
  BY <1>1, <1>2, <1>3 DEF Numbers, Distinct
<1>5. Highest'
  <2> SUFFICES ASSUME NEW q \in Calls, number[q] > 0, Pair(q) \notin dropped, q # r
               PROVE  number[q] <= At(q).n \/ Over(CallerOf[q], stamp[q])'
    BY <1>1, <1>2, <1>3 DEF Highest, Over
  <2>1. CASE number[q] <= At(q).n
    BY <2>1
  <2>2. CASE Over(CallerOf[q], stamp[q])
    <3>1. counters'[CallerOf[q]][stamp'[q]].n = 0 /\ stamp'[q] < minute'
      BY <1>1, <1>3, <2>2 DEF Over
    <3>2. \A x \in Calls : stage'[x] = "stamped" => Pair(x)' # <<CallerOf[q], stamp'[q]>>
      <4>1. ASSUME NEW x \in Calls, stage'[x] = "stamped", x # r
            PROVE  Pair(x)' # <<CallerOf[q], stamp'[q]>>
        BY <1>1, <1>3, <2>2, <4>1 DEF Over
      <4>2. ASSUME stage'[r] = "stamped"
            PROVE  Pair(r)' # <<CallerOf[q], stamp'[q]>>
        <5>1. stamp'[r] = minute /\ stamp'[q] < minute /\ minute \in Nat
          BY <1>1, <3>1, <4>2 DEF TypeOK, Minutes
        <5>2. stamp'[r] # stamp'[q]
          BY <5>1
        <5>3. QED
          BY <5>2 DEF Pair
      <4>3. QED
        BY <4>1, <4>2
    <3>3. QED
      BY <3>1, <3>2 DEF Over
  <2>3. QED
    BY <2>1, <2>2 DEF Numbers, Highest
<1>6. QED
  BY <1>4, <1>5 DEF Numbers

LEMMA NumbersPut ==
  ASSUME TypeOK, Timing, Counting, Numbers, NEW r \in Calls,
         Incr(r) \/ Expire(r) \/ IncrAnswerLost(r) \/ ExpireRaises(r)
  PROVE  Numbers'
<1>1. /\ UNCHANGED <<stamp, dropped, minute>>
      /\ \A q \in Calls : Pair(q)' = Pair(q)
      /\ stage'[r] # "stamped"
      /\ \A q \in Calls : q # r => number'[q] = number[q] /\ stage'[q] = stage[q]
  BY NumberEffect, PutEffect DEF Pair
<1>2. \A q \in Calls : /\ At(q) = counters[CallerOf[q]][stamp[q]]
                      /\ At(q)' = counters'[CallerOf[q]][stamp[q]]
                      /\ CallerOf[q] \in Callers /\ stamp[q] \in Minutes
                      /\ Pair(q) = <<CallerOf[q], stamp[q]>>
                      /\ At(q).n \in Nat /\ number[q] \in Nat
  BY <1>1, PairType DEF At, Pair, Counter, TypeOK
<1>3. \A q \in Calls :
        /\ stage[r] = "stamped" /\ Pair(q) = Pair(r) => At(q)'.n = At(q).n + 1
        /\ ~(stage[r] = "stamped" /\ Pair(q) = Pair(r)) => At(q)'.n = At(q).n
  <2> SUFFICES ASSUME NEW q \in Calls
               PROVE  /\ stage[r] = "stamped" /\ Pair(q) = Pair(r) => At(q)'.n = At(q).n + 1
                      /\ ~(stage[r] = "stamped" /\ Pair(q) = Pair(r)) => At(q)'.n = At(q).n
    OBVIOUS
  <2>1. CallerOf[q] \in Callers /\ stamp[q] \in Minutes
    BY <1>2
  <2>2. /\ stage[r] = "stamped" /\ Pair(r) = <<CallerOf[q], stamp[q]>> =>
             counters'[CallerOf[q]][stamp[q]].n = counters[CallerOf[q]][stamp[q]].n + 1
        /\ ~(stage[r] = "stamped" /\ Pair(r) = <<CallerOf[q], stamp[q]>>) =>
             counters'[CallerOf[q]][stamp[q]].n = counters[CallerOf[q]][stamp[q]].n
    BY <2>1, ValueEffect
  <2>3. QED
    BY <1>2, <2>2
<1>4. \/ stage[r] = "stamped" /\ number[r] = 0 /\ number'[r] = At(r).n + 1
      \/ number'[r] = number[r]
      \/ number'[r] = 0
  BY NumberEffect DEF Counting, TypeOK
\* Nobody with r's pair has an expired counter while r has still to count.
<1>5. \A q \in Calls :
        stage[r] = "stamped" /\ Pair(q) = Pair(r) => ~Over(CallerOf[q], stamp[q])
  BY <1>2 DEF Over
<1>6. Highest'
  <2> SUFFICES ASSUME NEW q \in Calls, number'[q] > 0, Pair(q) \notin dropped
               PROVE  number'[q] <= At(q)'.n \/ Over(CallerOf[q], stamp[q])'
    BY <1>1 DEF Highest, Over
  <2>1. CASE number'[q] # number[q]
    <3>1. q = r /\ number'[r] = At(r).n + 1 /\ At(r)'.n = At(r).n + 1
      BY <1>1, <1>3, <1>4, <2>1, NumberEffect
    <3>2. QED
      BY <1>2, <3>1
  <2>2. CASE number'[q] = number[q] /\ number[q] <= At(q).n
    BY <1>2, <1>3, <2>2
  <2>3. CASE number'[q] = number[q] /\ Over(CallerOf[q], stamp[q])
    <3>1. ~(stage[r] = "stamped" /\ Pair(q) = Pair(r))
      BY <1>5, <2>3
    <3>2. counters'[CallerOf[q]][stamp[q]].n = 0
      BY <1>2, <1>3, <2>3, <3>1 DEF Over
    <3>3. \A x \in Calls : stage'[x] = "stamped" => Pair(x)' # <<CallerOf[q], stamp[q]>>
      BY <1>1, <2>3 DEF Over
    <3>4. QED
      BY <1>1, <2>3, <3>2, <3>3 DEF Over
  <2>4. QED
    BY <2>1, <2>2, <2>3 DEF Numbers, Highest
<1>7. Distinct'
  <2> SUFFICES ASSUME NEW p \in Calls, NEW q \in Calls, p # q, Pair(p) = Pair(q),
                      Pair(p) \notin dropped, number'[p] > 0
               PROVE  number'[q] # number'[p]
    BY <1>1 DEF Distinct
  <2>1. CASE number'[p] = number[p] /\ number'[q] = number[q]
    BY <2>1 DEF Numbers, Distinct
  <2>2. ASSUME NEW x \in Calls, x # r, Pair(x) = Pair(r), Pair(r) \notin dropped,
               number'[x] > 0, number'[r] # number[r], number'[r] > 0
        PROVE  number'[x] < number'[r]
    <3>1. number'[x] = number[x] /\ stage[r] = "stamped" /\ number'[r] = At(r).n + 1
      BY <1>1, <1>4, <2>2, NumberEffect
    <3>2. number[x] <= At(x).n /\ At(x) = At(r)
      BY <1>2, <1>5, <2>2, <3>1 DEF Numbers, Highest
    <3>3. QED
      BY <1>2, <3>1, <3>2
  <2>3. CASE p = r /\ number'[r] # number[r]
    BY <1>1, <1>2, <2>2, <2>3
  <2>4. CASE q = r /\ number'[r] # number[r]
    <3>1. CASE number'[r] > 0
      <4>1. number'[p] < number'[r] /\ number'[p] = number[p] /\ number[p] \in Nat
        BY <1>1, <1>2, <2>2, <2>4, <3>1
      <4>2. QED
        BY <2>4, <4>1
    <3>2. CASE number'[r] = 0
      BY <2>4, <3>2
    <3>3. QED
      BY <1>2, <1>4, <2>4, <3>1, <3>2
  <2>5. QED
    BY <1>1, <2>1, <2>3, <2>4
<1>8. QED
  BY <1>6, <1>7 DEF Numbers

\* A step that changes no number, keeps the pairs of numbered calls and starts
\* nobody counting keeps both facts, if the counters it ends are over.
LEMMA NumbersKept ==
  ASSUME TypeOK, Numbers, UNCHANGED <<stamp, number>>, dropped \subseteq dropped',
         minute' \in Nat, minute' >= minute,
         \A q \in Calls : stage'[q] = "stamped" => stage[q] = "stamped",
         \A c \in Callers, m \in Minutes :
           <<c, m>> \notin dropped' =>
             counters'[c][m].n = counters[c][m].n \/ Over(c, m)'
  PROVE  Numbers'
<1>1. \A q \in Calls : /\ Pair(q)' = Pair(q)
                      /\ At(q) = counters[CallerOf[q]][stamp[q]]
                      /\ At(q)' = counters'[CallerOf[q]][stamp[q]]
                      /\ CallerOf[q] \in Callers /\ stamp[q] \in Minutes
                      /\ Pair(q) = <<CallerOf[q], stamp[q]>>
  BY PairType DEF At, Pair
<1>2. Distinct'
  BY <1>1 DEF Numbers, Distinct
<1>3. Highest'
  <2> SUFFICES ASSUME NEW q \in Calls, number[q] > 0, Pair(q) \notin dropped'
               PROVE  number[q] <= At(q)'.n \/ Over(CallerOf[q], stamp[q])'
    BY <1>1 DEF Highest, Over
  <2>1. CASE Over(CallerOf[q], stamp[q])'
    BY <2>1
  <2>2. CASE At(q)'.n = At(q).n
    <3>1. CASE number[q] <= At(q).n
      BY <2>2, <3>1
    <3>2. CASE Over(CallerOf[q], stamp[q])
      <4>1. stamp[q] < minute' /\ counters'[CallerOf[q]][stamp[q]].n = 0
        <5>1. stamp[q] \in Nat /\ minute \in Nat
          BY DEF TypeOK, Minutes
        <5>2. QED
          BY <1>1, <2>2, <3>2, <5>1 DEF Over
      <4>2. \A x \in Calls : stage'[x] = "stamped" => Pair(x)' # <<CallerOf[q], stamp[q]>>
        BY <1>1, <3>2 DEF Over
      <4>3. QED
        BY <4>1, <4>2 DEF Over
    <3>3. QED
      BY <3>1, <3>2 DEF Numbers, Highest
  <2>3. QED
    BY <1>1, <2>1, <2>2
<1>4. QED
  BY <1>2, <1>3 DEF Numbers

LEMMA NumbersEnvironment ==
  ASSUME TypeOK, Timing, Numbers,
         Tick \/ Restart \/ \E c \in Callers, m \in Minutes : Drop(c, m)
  PROVE  Numbers'
<1>1. minute \in Nat /\ second \in Nat
  BY DEF TypeOK, Minutes
<1>2. CASE Tick
  <2>1. /\ UNCHANGED <<stamp, number, dropped, stage>>
        /\ minute' \in Nat /\ minute' >= minute
        /\ second + 1 < Minute \/ minute' = minute + 1
    BY <1>1, <1>2 DEF Tick, seen
  <2>2. ASSUME NEW c \in Callers, NEW m \in Minutes,
               counters'[c][m].n # counters[c][m].n
        PROVE  Over(c, m)'
    <3>1. counters[c][m] \in Counter /\ counters'[c][m] = Aged(counters[c][m])
      BY <1>2 DEF Tick, TypeOK
    <3>2. /\ counters'[c][m] = NoCounter
          /\ counters[c][m].expires /\ ~(counters[c][m].left >= 2)
          /\ counters[c][m].left \in Nat
      BY <2>2, <3>1, CounterAges DEF Counter
    <3>3. counters[c][m] # NoCounter
      BY <3>2 DEF NoCounter
    <3>4. m < minute'
      <4>1. CASE m = minute
        <5>1. counters[c][m].left + second >= TTL
          BY <3>2, <4>1 DEF Timing, Early
        <5>2. QED
          BY <1>1, <2>1, <3>2, <4>1, <5>1
      <4>2. CASE m > minute
        BY <3>3, <4>2 DEF Timing, Future
      <4>3. QED
        BY <1>1, <2>1, <4>1, <4>2 DEF Minutes
    <3>5. ASSUME NEW q \in Calls, stage[q] = "stamped", Pair(q) = <<c, m>>
          PROVE  FALSE
      <4>1. At(q) = counters[c][m]
        BY <3>5 DEF At, Pair
      <4>2. counters[c][m].left + wait[q] >= Lag + 1
        BY <3>2, <3>5, <4>1 DEF Timing, Late
      <4>3. wait[q] < Lag /\ wait[q] \in Nat
        BY <1>2, <3>5 DEF Tick, TypeOK
      <4>4. QED
        BY <3>2, <4>2, <4>3
    <3>6. \A q \in Calls : stage'[q] = "stamped" => Pair(q)' # <<c, m>>
      BY <2>1, <3>5 DEF Pair
    <3>7. QED
      BY <3>2, <3>4, <3>6 DEF Over, NoCounter
  <2>3. QED
    BY <2>1, <2>2, NumbersKept
<1>3. CASE Restart
  <2>1. /\ UNCHANGED <<stamp, number, dropped, minute, counters>>
        /\ \A q \in Calls : stage'[q] # "stamped"
    BY <1>3 DEF Restart, Waiting, clock, TypeOK
  <2>2. QED
    BY <1>1, <2>1, NumbersKept
<1>4. ASSUME NEW c \in Callers, NEW m \in Minutes, Drop(c, m)
      PROVE  Numbers'
  <2>1. /\ UNCHANGED <<stamp, number, minute, stage>>
        /\ dropped' = dropped \cup {<<c, m>>}
        /\ \A b \in Callers, l \in Minutes :
             <<b, l>> # <<c, m>> => counters'[b][l] = counters[b][l]
    BY <1>4 DEF Drop, clock, TypeOK
  <2>2. QED
    BY <1>1, <2>1, NumbersKept
<1>5. QED
  BY <1>2, <1>3, <1>4

-----------------------------------------------------------------------------
(* Counters without an expiry.                                               *)

LEMMA EndsPut ==
  ASSUME TypeOK, CountersEnd, NEW r \in Calls,
         Incr(r) \/ Expire(r) \/ IncrAnswerLost(r) \/ ExpireRaises(r)
  PROVE  CountersEnd'
<1> SUFFICES ASSUME NEW c \in Callers, NEW m \in Minutes,
                    counters'[c][m].n > 0, ~counters'[c][m].expires
             PROVE  \/ \E q \in Calls : stage'[q] = "first" /\ Pair(q)' = <<c, m>>
                    \/ <<c, m>> \in orphaned'
  BY DEF CountersEnd
<1>1. /\ \A q \in Calls : Pair(q)' = Pair(q)
      /\ \A q \in Calls : q # r => stage'[q] = stage[q]
      /\ stage[r] \in {"stamped", "first"} /\ stamp' = stamp
  BY NumberEffect DEF Pair
<1>2. orphaned \subseteq orphaned'
  BY DEF Incr, Expire, IncrAnswerLost, ExpireRaises, seen
<1>3. At(r) \in Counter /\ At(r).n \in Nat
  BY PairType DEF Counter
<1>4. CASE Pair(r) # <<c, m>>
  <2>1. counters'[c][m] = counters[c][m]
    BY <1>4, PutEffect
  <2>2. QED
    BY <1>1, <1>2, <1>4, <2>1 DEF CountersEnd
<1>5. CASE Pair(r) = <<c, m>>
  <2>1. counters[c][m] = At(r) /\ counters'[c][m] = At(r)'
    BY <1>1, <1>5 DEF Pair, At
  <2>2. CASE Incr(r) \/ IncrAnswerLost(r)
    <3>1. stage[r] = "stamped" /\ At(r)' = [At(r) EXCEPT !.n = @ + 1]
      BY <2>2, PutEffect DEF Incr, IncrAnswerLost
    <3>2. ~At(r).expires
      BY <1>3, <2>1, <3>1, CounterSteps
    <3>3. CASE At(r).n = 0
      <4>1. CASE Incr(r)
        <5>1. SetsExpiry(r, At(r).n + 1)
          BY <3>3 DEF SetsExpiry
        <5>2. stage'[r] = "first"
          BY <4>1, <5>1 DEF Incr, Goto, TypeOK
        <5>3. QED
          BY <1>1, <1>5, <5>2
      <4>2. CASE IncrAnswerLost(r)
        BY <1>5, <3>3, <4>2 DEF IncrAnswerLost
      <4>3. QED
        BY <2>2, <4>1, <4>2
    <3>4. CASE At(r).n # 0
      <4>1. \/ \E q \in Calls : stage[q] = "first" /\ Pair(q) = <<c, m>>
            \/ <<c, m>> \in orphaned
        BY <1>3, <2>1, <3>2, <3>4 DEF CountersEnd
      <4>2. QED
        BY <1>1, <1>2, <3>1, <4>1
    <3>5. QED
      BY <3>3, <3>4
  <2>3. CASE Put(r, Expired(At(r)))
    <3>1. Expired(At(r)) \in Counter
      BY <1>3, CounterSteps
    <3>2. At(r)' = Expired(At(r))
      BY <1>1, <2>3, <3>1, PutOne DEF At
    <3>3. /\ Expired(At(r)).n = At(r).n
          /\ At(r).n # 0 => Expired(At(r)).expires
      BY <1>3, CounterSteps
    <3>4. QED
      BY <1>3, <2>1, <3>2, <3>3
  <2>4. CASE ExpireRaises(r) /\ orphaned' = orphaned \cup {Pair(r)}
    BY <1>5, <2>4
  <2>5. QED
    BY <2>2, <2>3, <2>4 DEF Expire, ExpireRaises
<1>6. QED
  BY <1>4, <1>5

LEMMA EndsOther ==
  ASSUME TypeOK, CountersEnd,
         \/ Tick \/ Restart \/ \E c \in Callers, m \in Minutes : Drop(c, m)
         \/ \E r \in Calls :
              \/ Unauthorized(r) \/ Unlimited(r) \/ DemoDisabled(r) \/ McpAnswers(r)
              \/ BotAnswers(r) \/ Stamp(r) \/ IncrRaises(r)
  PROVE  CountersEnd'
<1>1. CASE Tick
  <2>1. UNCHANGED <<stage, stamp, orphaned>>
    BY <1>1 DEF Tick, seen
  <2>2. \A c \in Callers, m \in Minutes :
          counters'[c][m].n > 0 /\ ~counters'[c][m].expires =>
            counters[c][m].n > 0 /\ ~counters[c][m].expires
    <3>1. NoCounter.n = 0
      BY DEF NoCounter
    <3>2. \A c \in Callers, m \in Minutes :
            counters[c][m] \in Counter /\ counters'[c][m] = Aged(counters[c][m])
      BY <1>1 DEF Tick, TypeOK
    <3>3. QED
      BY <3>1, <3>2, CounterAges
  <2>3. QED
    BY <2>1, <2>2 DEF CountersEnd, Pair
<1>2. CASE Restart
  <2>1. UNCHANGED <<counters, stamp>>
        /\ orphaned' = orphaned \cup {Pair(r) : r \in {q \in Calls : stage[q] = "first"}}
    BY <1>2 DEF Restart
  <2>2. QED
    BY <2>1 DEF CountersEnd, Pair
<1>3. ASSUME NEW c \in Callers, NEW m \in Minutes, Drop(c, m)
      PROVE  CountersEnd'
  <2>1. NoCounter.n = 0
    BY DEF NoCounter
  <2>2. \A b \in Callers, l \in Minutes :
          counters'[b][l] = NoCounter \/ counters'[b][l] = counters[b][l]
    BY <1>3 DEF Drop, TypeOK
  <2>3. QED
    BY <1>3, <2>1, <2>2 DEF Drop, CountersEnd, Pair
<1>4. ASSUME NEW r \in Calls,
             \/ Unauthorized(r) \/ Unlimited(r) \/ DemoDisabled(r) \/ McpAnswers(r)
             \/ BotAnswers(r) \/ Stamp(r) \/ IncrRaises(r)
      PROVE  CountersEnd'
  <2>1. /\ UNCHANGED <<counters, orphaned>> /\ stage[r] # "first"
        /\ \A q \in Calls : q # r => stage'[q] = stage[q] /\ stamp'[q] = stamp[q]
    BY <1>4 DEF TypeOK, Unauthorized, Unlimited, DemoDisabled, McpAnswers, BotAnswers,
      Entered, Stamp, IncrRaises, Kept, Goto, seen
  <2>2. QED
    BY <2>1 DEF CountersEnd, Pair
<1>5. QED
  BY <1>1, <1>2, <1>3, <1>4

-----------------------------------------------------------------------------
(* The theorems.                                                             *)

IInv == TypeOK /\ Timing /\ Counting /\ Numbers /\ CountersEnd

\* THEOREM: IInv is inductive.
THEOREM Inductive == Spec => []IInv
<1>1. Init => IInv
  <2>1. Init => CountersEnd
    BY DEF Init, CountersEnd, NoCounter
  <2>2. QED
    BY <2>1, TypeInit, TimingInit, CountingInit, NumbersInit DEF IInv
<1>2. IInv /\ [Next]_vars => IInv'
  <2> SUFFICES ASSUME IInv, [Next]_vars PROVE IInv'
    OBVIOUS
  <2>1. TypeOK /\ Timing /\ Counting /\ Numbers /\ CountersEnd
    BY DEF IInv
  <2>2. ASSUME NEW r \in Calls, Limiting(r) PROVE IInv'
    <3>1. CASE Incr(r) \/ Expire(r) \/ IncrAnswerLost(r) \/ ExpireRaises(r)
      BY <2>1, <3>1, TypePut, TimingPut, CountingPut, NumbersPut, EndsPut DEF IInv
    <3>2. CASE \/ Unauthorized(r) \/ Unlimited(r) \/ DemoDisabled(r) \/ McpAnswers(r)
               \/ BotAnswers(r) \/ Stamp(r) \/ IncrRaises(r)
      BY <2>1, <3>2, TypeStay, TimingStay, CountingStay, NumbersStay, EndsOther DEF IInv
    <3>3. QED
      BY <2>2, <3>1, <3>2 DEF Limiting
  <2>3. CASE Tick
    BY <2>1, <2>3, TypeEnvironment, TimingTick, CountingEnvironment, NumbersEnvironment,
      EndsOther DEF IInv
  <2>4. CASE Restart \/ \E c \in Callers, m \in Minutes : Drop(c, m)
    BY <2>1, <2>4, TypeEnvironment, TimingOther, CountingEnvironment, NumbersEnvironment,
      EndsOther DEF IInv
  <2>5. CASE UNCHANGED vars
    BY <2>1, <2>5 DEF IInv, vars, clock, seen, TypeOK, Timing, Early, Late, Future, Stamps,
      At, Counting, CountedOf, Pair, Numbers, Highest, Distinct, Over, CountersEnd
  <2>6. QED
    BY <2>2, <2>3, <2>4, <2>5 DEF Next
<1>3. QED
  BY <1>1, <1>2, PTL DEF Spec

\* THEOREM: no more calls pass a counter than its limit, unless Redis lost it.
THEOREM LimitHolds == Spec => []AtMostLimit
<1>1. IInv => AtMostLimit
  <2> SUFFICES ASSUME IInv, NEW c \in Callers, NEW m \in Minutes, <<c, m>> \notin dropped
               PROVE  Cardinality(Admitted(c, m)) <= Limit[c]
    BY DEF AtMostLimit
  <2> DEFINE f == [r \in Admitted(c, m) |-> number[r]]
  <2>1. Limit[c] \in Nat
    OBVIOUS
  <2>2. \A r \in Admitted(c, m) :
          r \in Calls /\ Pair(r) = <<c, m>> /\ number[r] \in 1 .. Limit[c]
    BY DEF Admitted, IInv, Counting, TypeOK, Pair
  <2>3. \A r, q \in Admitted(c, m) : r # q => number[r] # number[q]
    BY <2>2 DEF IInv, Numbers, Distinct
  <2>4. f \in Injection(Admitted(c, m), 1 .. Limit[c])
    BY <2>2, <2>3 DEF Injection, IsInjective
  <2>5. IsFiniteSet(1 .. Limit[c]) /\ Cardinality(1 .. Limit[c]) = Limit[c]
    BY <2>1, FS_Interval
  <2>6. QED
    BY <2>4, <2>5, FS_Injection
<1>2. QED
  BY <1>1, Inductive, PTL

\* THEOREM: a refusal is earned by the caller's own calls of that minute.
THEOREM RefusalsEarned == Spec => []RefusalEarned
<1>1. IInv => RefusalEarned
  <2> SUFFICES ASSUME IInv, NEW r \in Calls, stage[r] = "refused"
               PROVE  Cardinality({q \in counted : q # r /\ CallerOf[q] = CallerOf[r]
                                                     /\ stamp[q] = stamp[r]})
                        >= Limit[CallerOf[r]]
    BY DEF RefusalEarned
  <2> DEFINE S == CountedOf(CallerOf[r], stamp[r])
  <2>1. CallerOf[r] \in Callers /\ stamp[r] \in Minutes /\ Limit[CallerOf[r]] \in Nat
    BY DEF IInv, TypeOK
  <2>2. number[r] \in Nat /\ number[r] > Limit[CallerOf[r]]
    BY DEF IInv, Counting, TypeOK
  <2>3. r \in S /\ number[r] <= Cardinality(S)
    BY <2>1, <2>2 DEF IInv, Counting, CountedOf, Pair
  <2>4. IsFiniteSet(S) /\ Cardinality(S) \in Nat
    BY <2>1, CountedFinite DEF IInv
  <2>5. Cardinality(S \ {r}) = Cardinality(S) - 1
    BY <2>3, <2>4, FS_RemoveElement
  <2>6. {q \in counted : q # r /\ CallerOf[q] = CallerOf[r] /\ stamp[q] = stamp[r]}
          = S \ {r}
    BY DEF CountedOf, Pair
  <2>7. QED
    BY <2>1, <2>2, <2>3, <2>4, <2>5, <2>6
<1>2. QED
  BY <1>1, Inductive, PTL

\* THEOREM: only a failure leaves a counter without an expiry.
THEOREM NoCounterForgotten == Spec => []CountersEnd
<1>1. IInv => CountersEnd
  BY DEF IInv
<1>2. QED
  BY <1>1, Inductive, PTL
=============================================================================
