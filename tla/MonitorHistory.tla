--------------------------- MODULE MonitorHistory ---------------------------
(***************************************************************************)
(* What alerts say of their delivery and of the oracle, proved for any     *)
(* subscriptions, markets and owners.                                      *)
(***************************************************************************)
EXTENDS MonitorProofs

USE DEF oracle, table, session

-----------------------------------------------------------------------------
(* Delivery.                                                                 *)

\* What a poller holds of the alert it is delivering: only a chat's goes to Telegram,
\* and the attempt of a key's succeeded only if its webhook took the event.
DeliveryOf(p, s) ==
  /\ work[p][s] = "telegram" => Owner[s] = "chat"
  /\ work[p][s] \in Delivering /\ Owner[s] = "key" /\ alert[p].ok
       => <<s, alert[p].index, "webhook">> \in received

Deliveries == \A p \in Pollers, s \in Subs : DeliveryOf(p, s)

\* A poller that delivers one subscription's alert delivers no other's.
LEMMA OneDelivery ==
  ASSUME TypeInv, NEW p \in Pollers, NEW s \in Subs, NEW t \in Subs, t # s,
         work[p][s] \in Started
  PROVE  work[p][t] \notin Delivering
BY DEF TypeInv, Sessions, Session, Started

\* Pollers and subscriptions a step does not touch.
LEMMA DeliveryKept ==
  ASSUME NEW p \in Pollers, NEW s \in Subs, DeliveryOf(p, s),
         work'[p][s] = work[p][s], alert'[p] = alert[p], received \subseteq received'
  PROVE  DeliveryOf(p, s)'
BY DEF DeliveryOf

LEMMA NotDelivering ==
  ASSUME NEW p \in Pollers, NEW s \in Subs, work'[p][s] \notin Delivering
  PROVE  DeliveryOf(p, s)'
BY DEF DeliveryOf, Delivering

LEMMA DeliveryLeave ==
  ASSUME TypeInv, Deliveries, NEW p \in Pollers, NEW s \in Subs, Leave(p, s),
         work[p][s] \in Started \/ ~Busy(p), received' = received
  PROVE  Deliveries'
<1> SUFFICES ASSUME NEW q \in Pollers, NEW t \in Subs PROVE DeliveryOf(q, t)'
  BY DEF Deliveries
<1>1. CASE q # p
  BY <1>1, DeliveryKept DEF Leave, TypeInv, TypeOK, Deliveries
<1>2. CASE q = p
  <2>1. CASE t = s
    BY <1>2, <2>1, NotDelivering DEF Leave, TypeInv, TypeOK, Delivering
  <2>2. CASE t # s
    <3>1. work[p][t] \notin Delivering
      BY <2>2, OneDelivery DEF Busy, Started
    <3>2. work'[p][t] = work[p][t]
      BY <2>2 DEF Leave, TypeInv, TypeOK
    <3>3. QED
      BY <1>2, <3>1, <3>2, NotDelivering
  <2>3. QED
    BY <2>1, <2>2
<1>3. QED
  BY <1>1, <1>2

LEMMA DeliveryDrop ==
  ASSUME TypeInv, Deliveries, NEW P \in SUBSET Pollers, Drop(P)
  PROVE  Deliveries'
<1> SUFFICES ASSUME NEW q \in Pollers, NEW t \in Subs PROVE DeliveryOf(q, t)'
  BY DEF Deliveries
<1>1. CASE q \in P
  BY <1>1, NotDelivering DEF Drop, Delivering
<1>2. CASE q \notin P
  BY <1>2, DeliveryKept DEF Drop, Deliveries
<1>3. QED
  BY <1>1, <1>2

LEMMA DeliveryLoad ==
  ASSUME TypeInv, Deliveries, NEW p \in Pollers, NEW S, Load(p, S)
  PROVE  Deliveries'
<1> SUFFICES ASSUME NEW q \in Pollers, NEW t \in Subs PROVE DeliveryOf(q, t)'
  BY DEF Deliveries
<1>1. CASE q = p
  <2>1. work'[p][t] \in {"todo", "out"}
    BY DEF Load, TypeInv, TypeOK
  <2>2. QED
    BY <1>1, <2>1, NotDelivering DEF Delivering
<1>2. CASE q # p
  BY <1>2, DeliveryKept DEF Load, TypeInv, TypeOK, Deliveries
<1>3. QED
  BY <1>1, <1>2

\* The stages p goes through with s.
LEMMA DeliveryMove ==
  ASSUME TypeInv, Deliveries, NEW p \in Pollers, NEW s \in Subs, NEW stage \in Stages,
         work' = [work EXCEPT ![p][s] = stage],
         work[p][s] \in Started \/ ~Busy(p),
         \A q \in Pollers : q # p => alert'[q] = alert[q],
         received \subseteq received',
         DeliveryOf(p, s)'
  PROVE  Deliveries'
<1> SUFFICES ASSUME NEW q \in Pollers, NEW t \in Subs PROVE DeliveryOf(q, t)'
  BY DEF Deliveries
<1>1. CASE q # p
  BY <1>1, DeliveryKept DEF TypeInv, TypeOK, Deliveries
<1>2. CASE q = p /\ t # s
  <2>1. work[p][t] \notin Delivering
    BY <1>2, OneDelivery DEF Busy, Started
  <2>2. work'[p][t] = work[p][t]
    BY <1>2 DEF TypeInv, TypeOK
  <2>3. QED
    BY <1>2, <2>1, <2>2, NotDelivering
<1>3. CASE q = p /\ t = s
  BY <1>3
<1>4. QED
  BY <1>1, <1>2, <1>3

LEMMA DeliverySend ==
  ASSUME TypeInv, Deliveries, NEW p \in Pollers, NEW s \in Subs, SendTelegram(p, s)
  PROVE  Deliveries'
<1>1. AfterTelegram(copy[p][s]) \in {"webhook", "record"}
  BY DEF AfterTelegram
<1>2. work[p][s] = "telegram" /\ work[p][s] \in Started /\ Owner[s] = "chat"
  BY DEF SendTelegram, Started, Delivering, Deliveries, DeliveryOf
<1>3. received \subseteq received' /\ \A q \in Pollers : q # p => alert'[q] = alert[q]
  BY DEF SendTelegram, Take, Attempted, TypeInv, TypeOK
<1>4. work' = [work EXCEPT ![p][s] = AfterTelegram(copy[p][s])]
  BY DEF SendTelegram
<1>5. work'[p][s] = AfterTelegram(copy[p][s])
  BY <1>4 DEF TypeInv, TypeOK
<1>6. DeliveryOf(p, s)'
  BY <1>1, <1>2, <1>5 DEF DeliveryOf
<1>7. AfterTelegram(copy[p][s]) \in Stages
  BY <1>1 DEF Stages, Started, Delivering
<1>8. QED
  BY <1>2, <1>3, <1>4, <1>6, <1>7, DeliveryMove

LEMMA DeliveryPost ==
  ASSUME TypeInv, Deliveries, NEW p \in Pollers, NEW s \in Subs, PostWebhook(p, s)
  PROVE  Deliveries'
<1>1. work[p][s] = "webhook" /\ work[p][s] \in Started /\ work[p][s] \in Delivering
  BY DEF PostWebhook, Started, Delivering
<1>2. PICK taken \in BOOLEAN, raised \in BOOLEAN :
        /\ taken \/ raised
        /\ Take(taken, p, s, "webhook")
        /\ IF raised THEN Attempted(p, s, alert[p].ok, "webhook")
                     ELSE Attempted(p, s, TRUE, alert[p].error)
  BY DEF PostWebhook
<1>3. alert \in [Pollers -> Alert] /\ alert[p] \in Alert
  BY DEF TypeInv, TypeOK
<1>4. \A q \in Pollers : q # p => alert'[q] = alert[q]
  BY <1>2, <1>3 DEF Attempted
<1>5. received \subseteq received' /\ (taken => <<s, alert[p].index, "webhook">> \in received')
  BY <1>2 DEF Take
<1>6. alert'[p].index = alert[p].index /\ (alert'[p].ok => taken \/ alert[p].ok)
  BY <1>2, <1>3 DEF Attempted, Alert
<1>7. Owner[s] = "key" /\ alert[p].ok => <<s, alert[p].index, "webhook">> \in received
  BY <1>1 DEF Deliveries, DeliveryOf
<1>8. work' = [work EXCEPT ![p][s] = "record"]
  BY DEF PostWebhook
<1>9. work'[p][s] = "record"
  BY <1>8 DEF TypeInv, TypeOK
<1>10. DeliveryOf(p, s)'
  BY <1>5, <1>6, <1>7, <1>9 DEF DeliveryOf
<1>11. "record" \in Stages
  BY DEF Stages, Started, Delivering
<1>12. QED
  BY <1>1, <1>4, <1>5, <1>8, <1>10, <1>11, DeliveryMove

LEMMA DeliveryCommit ==
  ASSUME TypeInv, Deliveries, NEW p \in Pollers, NEW s \in Subs, CommitEvent(p, s)
  PROVE  Deliveries'
<1>1. FirstAttempt(s, copy[p][s]) \in {"telegram", "webhook", "record"}
      /\ (FirstAttempt(s, copy[p][s]) = "telegram" => Owner[s] = "chat")
  BY DEF FirstAttempt, AfterTelegram
<1>2. work' = [work EXCEPT ![p][s] = FirstAttempt(s, copy[p][s])] /\ received' = received
  BY DEF CommitEvent
<1>3. work'[p][s] = FirstAttempt(s, copy[p][s])
  BY <1>2 DEF TypeInv, TypeOK
<1>4. /\ \A q \in Pollers : q # p => alert'[q] = alert[q]
      /\ ~alert'[p].ok
  BY DEF CommitEvent, TypeInv, TypeOK, NoAlert
<1>5. DeliveryOf(p, s)'
  BY <1>1, <1>3, <1>4 DEF DeliveryOf
<1>6. FirstAttempt(s, copy[p][s]) \in Stages /\ work[p][s] \in Started
  BY <1>1 DEF Stages, Started, Delivering, CommitEvent
<1>7. QED
  BY <1>2, <1>4, <1>5, <1>6, DeliveryMove

LEMMA DeliveryResolve ==
  ASSUME TypeInv, Deliveries, NEW p \in Pollers, NEW s \in Subs, Resolve(p, s)
  PROVE  Deliveries'
<1>1. work' = [work EXCEPT ![p][s] = "answered"] /\ "answered" \in Stages
      /\ alert' = alert /\ received' = received /\ ~Busy(p)
  BY DEF Resolve, Stages, Started
<1>2. DeliveryOf(p, s)'
  <2>1. work'[p][s] \notin Delivering
    BY <1>1 DEF TypeInv, TypeOK, Delivering
  <2>2. QED
    BY <2>1, NotDelivering
<1>3. QED
  BY <1>1, <1>2, DeliveryMove

LEMMA DeliveriesNext == TypeInv /\ Deliveries /\ [Next]_vars => Deliveries'
<1> SUFFICES ASSUME TypeInv, Deliveries, [Next]_vars PROVE Deliveries'
  OBVIOUS
<1>1. CASE OracleStep
  BY <1>1 DEF OracleStep, Propose, Dispute, Close, Pause, Resume, OracleMoves, Deliveries,
              DeliveryOf
<1>2. CASE OwnerStep
  BY <1>2 DEF OwnerStep, Create, SetWebhook, Unsubscribe, Unwatch, Deliveries, DeliveryOf
<1>3. CASE StartCycle
  BY <1>3, DeliveryLoad DEF StartCycle, Pollers
<1>4. ASSUME NEW c \in Checks, NEW s \in Subs, StartCheck(c, s) PROVE Deliveries'
  BY <1>4, DeliveryLoad DEF StartCheck, Pollers
<1>5. ASSUME NEW p \in Pollers, NEW s \in Subs,
             ResolveFails(p, s) \/ NoChange(p, s) \/ RecordDelivery(p, s)
      PROVE  Deliveries'
  <2>1. Leave(p, s) /\ received' = received /\ (work[p][s] \in Started \/ ~Busy(p))
    BY <1>5 DEF ResolveFails, NoChange, RecordDelivery, Started, Delivering
  <2>2. QED
    BY <2>1, DeliveryLeave
<1>6. ASSUME NEW p \in Pollers, Abort(p) PROVE Deliveries'
  BY <1>6, DeliveryDrop DEF Abort
<1>7. CASE Restart
  BY <1>7, DeliveryDrop DEF Restart
<1>8. ASSUME NEW p \in Pollers, PollStep(p) PROVE Deliveries'
  BY <1>5, <1>6, <1>8, DeliveryResolve, DeliveryCommit, DeliverySend, DeliveryPost
  DEF PollStep
<1>9. CASE UNCHANGED vars
  BY <1>9 DEF vars, Deliveries, DeliveryOf
<1>10. QED
  BY <1>1, <1>2, <1>3, <1>4, <1>7, <1>8, <1>9 DEF Next

\* Recording writes the outcome of the event that was delivered, and of no other.
LEMMA RecordOutcome ==
  ASSUME TypeInv, NEW p \in Pollers, NEW s \in Subs, RecordDelivery(p, s),
         NEW t \in Subs, NEW i \in 1 .. Len(events[t])
  PROVE  events'[t][i].delivered
           = IF t = s /\ i = alert[p].index THEN alert[p].ok ELSE events[t][i].delivered
<1> DEFINE j == alert[p].index
           e == [events[s][j] EXCEPT !.delivered = alert[p].ok, !.error = alert[p].error]
<1>1. events \in [Subs -> Seq(Event)] /\ events[s] \in Seq(Event) /\ events[t] \in Seq(Event)
  BY DEF TypeInv, TypeOK
<1>2. events' = [events EXCEPT ![s] = [events[s] EXCEPT ![j] = e]]
  BY <1>1 DEF RecordDelivery, OwnIndex
<1>3. CASE t # s
  BY <1>1, <1>2, <1>3
<1>4. CASE t = s
  <2>1. events'[s] = [events[s] EXCEPT ![j] = e]
    BY <1>1, <1>2
  <2>2. events'[s][i] = IF i = j THEN e ELSE events[s][i]
    BY <1>1, <1>4, <2>1
  <2>3. CASE i = j
    <3>1. events[s][j] \in Event
      BY <1>1, <1>4, <2>3
    <3>2. e.delivered = alert[p].ok
      BY <3>1 DEF Event
    <3>3. QED
      BY <1>4, <2>2, <2>3, <3>2
  <2>4. CASE i # j
    BY <1>4, <2>2, <2>4
  <2>5. QED
    BY <2>3, <2>4
<1>5. QED
  BY <1>3, <1>4

LEMMA CommitUndelivered ==
  ASSUME TypeInv, NEW p \in Pollers, NEW s \in Subs, CommitEvent(p, s)
  PROVE  ~events'[s][Len(events[s]) + 1].delivered
<1>1. events \in [Subs -> Seq(Event)] /\ events[s] \in Seq(Event)
  BY DEF TypeInv, TypeOK
<1>2. events'[s] = Append(events[s], [old |-> copy[p][s].last, new |-> answer[p],
                                      delivered |-> FALSE, error |-> "none"])
  BY <1>1 DEF CommitEvent
<1> DEFINE e == [old |-> copy[p][s].last, new |-> answer[p],
                 delivered |-> FALSE, error |-> "none"]
<1>3. ~e.delivered
  OBVIOUS
<1> HIDE DEF e
<1>4. Append(events[s], e)[Len(events[s]) + 1] = e
  BY <1>1
<1>5. events'[s] = Append(events[s], e)
  BY <1>2 DEF e
<1>6. QED
  BY <1>3, <1>4, <1>5

DeliveredInv == TypeInv /\ Deliveries /\ WebhookDeliveredMeansTaken

LEMMA DeliveredNext == DeliveredInv /\ [Next]_vars => DeliveredInv'
<1> SUFFICES ASSUME DeliveredInv, [Next]_vars PROVE DeliveredInv'
  BY SMTT(30)
<1>1. TypeInv /\ TypeInv' /\ Deliveries' /\ Deliveries
  BY TypeNext, DeliveriesNext DEF DeliveredInv
<1>2. received \subseteq received'
  <2>1. ASSUME NEW p \in Pollers, NEW s \in Subs,
               SendTelegram(p, s) \/ PostWebhook(p, s)
        PROVE  received \subseteq received'
    BY <2>1 DEF SendTelegram, PostWebhook, Take
  <2>2. CASE \E p \in Pollers : PollStep(p)
    <3>1. ASSUME NEW p \in Pollers, NEW s \in Subs,
                 \/ Resolve(p, s) \/ ResolveFails(p, s) \/ NoChange(p, s)
                 \/ CommitEvent(p, s) \/ RecordDelivery(p, s)
          PROVE  received \subseteq received'
      BY <3>1 DEF Resolve, ResolveFails, NoChange, CommitEvent, RecordDelivery
    <3>2. ASSUME NEW p \in Pollers, Abort(p) PROVE received \subseteq received'
      BY <3>2 DEF Abort, Drop
    <3>3. QED
      BY <2>1, <2>2, <3>1, <3>2 DEF PollStep
  <2>3. CASE OracleStep \/ OwnerStep \/ StartCycle \/ Restart \/ UNCHANGED vars
             \/ \E c \in Checks, s \in Subs : StartCheck(c, s)
    BY <2>3 DEF OracleStep, Propose, Dispute, Close, Pause, Resume, OracleMoves,
                OwnerStep, Create, SetWebhook, Unsubscribe, Unwatch,
                StartCycle, StartCheck, Load, Restart, Drop, vars
  <2>4. QED
    BY <2>2, <2>3 DEF Next
<1>3. ASSUME NEW s \in Subs, NEW i \in 1 .. Len(events'[s]), Owner[s] = "key",
             events'[s][i].delivered
      PROVE  <<s, i, "webhook">> \in received'
  <2>1. events[s] \in Seq(Event) /\ events'[s] \in Seq(Event)
    BY <1>1 DEF TypeInv, TypeOK
  <2>2. CASE i \in 1 .. Len(events[s]) /\ events[s][i].delivered
    BY <1>2, <1>3, <2>2 DEF DeliveredInv, WebhookDeliveredMeansTaken
  <2>3. CASE ~(i \in 1 .. Len(events[s]) /\ events[s][i].delivered)
    <3>1. ASSUME NEW p \in Pollers, NEW t \in Subs, CommitEvent(p, t) PROVE FALSE
      <4>1. CASE t = s
        BY <1>1, <1>3, <2>1, <2>3, <3>1, <4>1, CommitAppends, CommitUndelivered
      <4>2. CASE t # s
        BY <1>1, <1>3, <2>3, <3>1, <4>2, CommitAppends
      <4>3. QED
        BY <4>1, <4>2
    <3>2. ASSUME NEW p \in Pollers, NEW t \in Subs, RecordDelivery(p, t)
          PROVE  <<s, i, "webhook">> \in received'
      <4>1. i \in 1 .. Len(events[s])
        BY <1>1, <1>3, <3>2, RecordKeeps
      <4>2. t = s /\ i = alert[p].index /\ alert[p].ok
        BY <1>1, <1>3, <2>3, <3>2, <4>1, RecordOutcome
      <4>3. work[p][s] \in Delivering
        BY <3>2, <4>2 DEF RecordDelivery, Delivering
      <4>4. <<s, i, "webhook">> \in received
        BY <1>1, <1>3, <4>2, <4>3 DEF Deliveries, DeliveryOf
      <4>5. QED
        BY <1>2, <4>4
    <3>3. CASE events' = events
      BY <1>3, <2>3, <3>3
    <3>4. QED
      BY <3>1, <3>2, <3>3, TableSteps
      DEF TableStep, Create, SetWebhook, Unsubscribe, Unwatch
  <2>4. QED
    BY <2>2, <2>3
<1>4. QED
  BY <1>1, <1>3 DEF DeliveredInv, WebhookDeliveredMeansTaken

\* An alert of a key that is marked delivered was taken by its webhook, whatever pollers
\* append or record meanwhile.
THEOREM DeliveredWasTaken == Spec => []WebhookDeliveredMeansTaken
<1>1. Init => DeliveredInv
  BY TypeInit DEF Init, DeliveredInv, Deliveries, DeliveryOf, Delivering,
                  WebhookDeliveredMeansTaken
<1>2. DeliveredInv => WebhookDeliveredMeansTaken
  BY DEF DeliveredInv
<1>3. QED
  BY <1>1, <1>2, DeliveredNext, PTL DEF Spec

-----------------------------------------------------------------------------
(* The oracle's life, with the background loop as the only poller.           *)

LEMMA RankOf ==
  /\ \A x \in States : Rank[x] \in 0 .. 3
  /\ \A x, y \in States \ {"UNKNOWN"} : x # y => Rank[x] # Rank[y]
BY DEF Rank, States

\* The oracle's state of m only rises, whether m is paused or not.
Now(m) == Rank[OracleState(market[m])]

LEMMA NowTyped ==
  ASSUME TypeInv, NEW m \in Markets
  PROVE  Now(m) \in Nat /\ OracleState(market[m]) \in States
<1>1. market[m] \in GammaMarket
  BY DEF TypeInv, TypeOK
<1>2. QED
  BY <1>1, OracleStateTyped, RankOf DEF Now

\* Whatever the market has shown is no later in its life than what it is now.
Behind == \A m \in Markets : \A x \in shown[m] : Rank[x] <= Now(m)

LEMMA OracleRises ==
  ASSUME TypeInv, NEW m \in Markets,
         Propose(m) \/ Dispute(m) \/ Close(m) \/ Pause(m) \/ Resume(m)
  PROVE  /\ \A l \in Markets : Now(l) <= Now(l)' /\ Now(l) \in Nat /\ Now(l)' \in Nat
         /\ shown' = [shown EXCEPT ![m] = @ \cup {OracleState(market'[m])}]
<1>1. /\ market \in [Markets -> GammaMarket] /\ market[m] \in GammaMarket
      /\ TypeInv'
  BY TypeNext DEF TypeInv, TypeOK, Next, OracleStep
<1>2. /\ market' \in [Markets -> GammaMarket]
      /\ \A l \in Markets : l # m => market'[l] = market[l]
      /\ shown' = [shown EXCEPT ![m] = @ \cup {OracleState(market'[m])}]
  BY <1>1 DEF TypeInv, TypeOK, Propose, Dispute, Close, Pause, Resume, OracleMoves
<1>3. Now(m) <= Now(m)'
  <2>1. CASE Propose(m)
    <3>1. market'[m] = [market[m] EXCEPT !.statuses = {"proposed"}]
      BY <1>1, <2>1 DEF Propose, OracleMoves
    <3>2. OracleState(market[m]) = "UNRESOLVED" /\ OracleState(market'[m]) = "PROPOSED"
      BY <1>1, <2>1, <3>1 DEF Propose, OracleState, GammaMarket
    <3>3. QED
      BY <3>2 DEF Now, Rank
  <2>2. CASE Dispute(m)
    <3>1. market'[m] = [market[m] EXCEPT !.statuses = Statuses]
      BY <1>1, <2>2 DEF Dispute, OracleMoves
    <3>2. OracleState(market[m]) = "PROPOSED" /\ OracleState(market'[m]) = "DISPUTED"
      BY <1>1, <2>2, <3>1 DEF Dispute, OracleState, GammaMarket, Statuses
    <3>3. QED
      BY <3>2 DEF Now, Rank
  <2>3. CASE Close(m)
    <3>1. market'[m] = [market[m] EXCEPT !.closed = TRUE]
      BY <1>1, <2>3 DEF Close, OracleMoves
    <3>2. OracleState(market'[m]) = "RESOLVED" /\ OracleState(market[m]) \in States
      BY <1>1, <3>1, OracleStateTyped DEF OracleState, GammaMarket
    <3>3. QED
      BY <3>2, RankOf DEF Now, Rank
  <2>4. CASE Pause(m)
    <3>1. market'[m] = [market[m] EXCEPT !.active = FALSE]
      BY <1>1, <2>4 DEF Pause, OracleMoves
    <3>2. OracleState(market[m]) = "UNRESOLVED" /\ OracleState(market'[m]) = "UNKNOWN"
      BY <1>1, <2>4, <3>1 DEF Pause, OracleState, GammaMarket
    <3>3. QED
      BY <3>2 DEF Now, Rank
  <2>5. CASE Resume(m)
    <3>1. market'[m] = [market[m] EXCEPT !.active = TRUE]
      BY <1>1, <2>5 DEF Resume, OracleMoves
    <3>2. \/ OracleState(market'[m]) = OracleState(market[m])
          \/ OracleState(market[m]) = "UNKNOWN" /\ OracleState(market'[m]) = "UNRESOLVED"
      BY <1>1, <2>5, <3>1 DEF Resume, OracleState, GammaMarket, Statuses
    <3>3. OracleState(market[m]) \in States
      BY <1>1, OracleStateTyped
    <3>4. QED
      BY <3>2, <3>3, RankOf DEF Now, Rank
  <2>6. QED
    BY <2>1, <2>2, <2>3, <2>4, <2>5
<1>4. \A l \in Markets : Now(l) \in Nat /\ Now(l)' \in Nat
  <2> SUFFICES ASSUME NEW l \in Markets PROVE Now(l) \in Nat /\ Now(l)' \in Nat
    OBVIOUS
  <2>1. OracleState(market[l]) \in States /\ OracleState(market'[l]) \in States
    BY <1>1, <1>2, OracleStateTyped
  <2>2. QED
    BY <2>1, RankOf DEF Now
<1>5. \A l \in Markets : l # m => Now(l)' = Now(l)
  BY <1>2 DEF Now
<1>6. QED
  BY <1>2, <1>3, <1>4, <1>5

\* A row is no later than its market, and an answer of the loop lies between the two.
Between ==
  \A s \in Subs :
    /\ Exists(s) => Rank[subs[s].last] <= Now(MarketOf[s])
    /\ work[Loop][s] = "answered" =>
         Rank[subs[s].last] <= Rank[answer[Loop]] /\ Rank[answer[Loop]] <= Now(MarketOf[s])

\* No alert reports a lost signal.
NeverUnknown == \A s \in Subs : \A i \in 1 .. Len(events[s]) : events[s][i].new # "UNKNOWN"

LEMMA LoopRow ==
  ASSUME TypeInv, LoopCurrent, NEW s \in Subs, work[Loop][s] \in {"todo", "answered"}
  PROVE  Exists(s) /\ subs[s].last \in States /\ copy[Loop][s].last = subs[s].last
<1>1. Loop \in Pollers
  BY DEF Pollers
<1>2. copy[Loop][s].last \in States
  BY <1>1 DEF TypeInv, Sessions, Session
<1>3. QED
  BY <1>2 DEF LoopCurrent, Exists, States

LEMMA BehindNext ==
  ASSUME TypeInv, Behind, [Next]_vars
  PROVE  Behind'
<1>1. ASSUME NEW m \in Markets,
             Propose(m) \/ Dispute(m) \/ Close(m) \/ Pause(m) \/ Resume(m)
      PROVE  Behind'
  <2> SUFFICES ASSUME NEW l \in Markets, NEW x \in shown'[l] PROVE Rank[x] <= Now(l)'
    BY DEF Behind
  <2>1. Now(l) <= Now(l)' /\ Now(l) \in Nat /\ Now(l)' \in Nat
        /\ shown' = [shown EXCEPT ![m] = @ \cup {OracleState(market'[m])}]
    BY <1>1, OracleRises
  <2>2. shown \in [Markets -> SUBSET States]
    BY DEF TypeInv, TypeOK
  <2>3. CASE x \in shown[l]
    BY <2>1, <2>2, <2>3, RankOf DEF Behind
  <2>4. CASE x \notin shown[l]
    <3>1. x = OracleState(market[l])'
      BY <2>1, <2>2, <2>4
    <3>2. QED
      BY <2>1, <3>1 DEF Now
  <2>5. QED
    BY <2>3, <2>4
<1>2. CASE UNCHANGED oracle
  BY <1>2 DEF Behind, Now
<1>3. OracleStep \/ UNCHANGED oracle
  <2>1. ASSUME NEW p \in Pollers, PollStep(p) PROVE UNCHANGED oracle
    BY <2>1 DEF PollStep, Resolve, ResolveFails, NoChange, CommitEvent, SendTelegram,
                PostWebhook, RecordDelivery, Abort, Drop
  <2>2. CASE OwnerStep
    BY <2>2 DEF OwnerStep, Create, SetWebhook, Unsubscribe, Unwatch
  <2>3. CASE StartCycle \/ (\E c \in Checks, s \in Subs : StartCheck(c, s)) \/ Restart
             \/ UNCHANGED vars
    BY <2>3 DEF StartCycle, StartCheck, Load, Restart, Drop, vars
  <2>4. QED
    BY <2>1, <2>2, <2>3 DEF Next
<1>4. QED
  BY <1>1, <1>2, <1>3 DEF OracleStep

LEMMA BetweenNext ==
  ASSUME Checks = {}, TypeInv, LoopCurrent, Behind, Between, [Next]_vars
  PROVE  Between'
<1> SUFFICES ASSUME NEW s \in Subs
             PROVE  /\ Exists(s)' => Rank[subs'[s].last] <= Now(MarketOf[s])'
                    /\ work'[Loop][s] = "answered" =>
                         /\ Rank[subs'[s].last] <= Rank[answer'[Loop]]
                         /\ Rank[answer'[Loop]] <= Now(MarketOf[s])'
  BY DEF Between
<1>1. /\ Pollers = {Loop} /\ MarketOf[s] \in Markets
      /\ subs \in [Subs -> Row] /\ subs[s] \in Row
      /\ work \in [{Loop} -> [Subs -> Stages]]
      /\ Exists(s) => subs[s].last \in States
      /\ work[Loop][s] = "answered" => answer[Loop] \in States /\ Exists(s)
      /\ Now(MarketOf[s]) \in Nat
  <2>1. /\ Pollers = {Loop} /\ MarketOf[s] \in Markets
        /\ subs \in [Subs -> Row] /\ subs[s] \in Row
        /\ work \in [{Loop} -> [Subs -> Stages]]
    <3>1. Pollers = {Loop}
      BY DEF Pollers
    <3>2. /\ subs \in [Subs -> Row] /\ work \in [Pollers -> [Subs -> Stages]]
      BY DEF TypeInv, TypeOK
    <3>3. MarketOf[s] \in Markets
      BY MonitorAssumption
    <3>4. QED
      BY <3>1, <3>2, <3>3
  <2>2. Now(MarketOf[s]) \in Nat
    BY <2>1, NowTyped
  <2>3. Exists(s) => subs[s].last \in States
    BY <2>1 DEF Exists, Row
  <2>4. work[Loop][s] = "answered" => answer[Loop] \in States /\ Exists(s)
    BY <2>1, LoopRow DEF TypeInv, Sessions, Session
  <2>5. QED
    BY <2>1, <2>2, <2>3, <2>4
<1>2. /\ Exists(s) => Rank[subs[s].last] <= Now(MarketOf[s])
      /\ work[Loop][s] = "answered" =>
           Rank[subs[s].last] <= Rank[answer[Loop]] /\ Rank[answer[Loop]] <= Now(MarketOf[s])
  BY DEF Between
<1> DEFINE Goal == /\ Exists(s)' => Rank[subs'[s].last] <= Now(MarketOf[s])'
                   /\ work'[Loop][s] = "answered" =>
                        /\ Rank[subs'[s].last] <= Rank[answer'[Loop]]
                        /\ Rank[answer'[Loop]] <= Now(MarketOf[s])'
<1>3. ASSUME NEW m \in Markets,
             Propose(m) \/ Dispute(m) \/ Close(m) \/ Pause(m) \/ Resume(m)
      PROVE  Goal
  <2>1. subs' = subs /\ work' = work /\ answer' = answer
    BY <1>3 DEF Propose, Dispute, Close, Pause, Resume, OracleMoves
  <2>2. Now(MarketOf[s]) <= Now(MarketOf[s])' /\ Now(MarketOf[s])' \in Nat
    BY <1>1, <1>3, OracleRises
  <2>3. Exists(s)' <=> Exists(s)
    BY <2>1 DEF Exists
  <2>4. /\ Exists(s) => Rank[subs[s].last] \in Nat
        /\ work[Loop][s] = "answered" => Rank[answer[Loop]] \in Nat
    BY <1>1, RankOf
  <2>5. QED
    BY <1>1, <1>2, <2>1, <2>2, <2>3, <2>4
<1>4. ASSUME OwnerStep PROVE Goal
  <2>1. work' = work /\ answer' = answer /\ market' = market
    BY <1>4 DEF OwnerStep, Create, SetWebhook, Unsubscribe, Unwatch
  <2>2. Now(MarketOf[s])' = Now(MarketOf[s])
    BY <2>1 DEF Now
  <2>3. CASE Exists(s)
    <3>1. subs'[s].last = subs[s].last
      BY <1>1, <1>4, <2>3
      DEF OwnerStep, Create, SetWebhook, Unsubscribe, Unwatch, Row, Exists
    <3>2. QED
      BY <1>2, <2>1, <2>2, <2>3, <3>1
  <2>4. CASE ~Exists(s)
    <3>1. work'[Loop][s] # "answered"
      BY <1>1, <2>1, <2>4
    <3>2. ASSUME Exists(s)' PROVE subs'[s].last \in shown[MarketOf[s]]
      BY <1>1, <1>4, <2>4, <3>2
      DEF OwnerStep, Create, SetWebhook, Unsubscribe, Unwatch, Row, Exists
    <3>3. ASSUME Exists(s)' PROVE Rank[subs'[s].last] <= Now(MarketOf[s])'
      BY <1>1, <2>2, <3>2, <3>3 DEF Behind
    <3>4. QED
      BY <3>1, <3>3
  <2>5. QED
    BY <2>3, <2>4
<1>5. ASSUME subs' = subs, market' = market, work'[Loop][s] # "answered" PROVE Goal
  <2>1. Now(MarketOf[s])' = Now(MarketOf[s]) /\ (Exists(s)' <=> Exists(s))
    BY <1>5 DEF Now, Exists
  <2>2. QED
    BY <1>2, <1>5, <2>1
<1>6. ASSUME NEW t \in Subs, Leave(Loop, t), work[Loop][t] \in Started \/ ~Busy(Loop)
      PROVE  work'[Loop][s] # "answered"
  <2>1. t # s => work[Loop][s] # "answered"
    BY <1>1, <1>6 DEF TypeInv, Sessions, Session, Busy, Started
  <2>2. QED
    BY <1>1, <1>6, <2>1 DEF Leave
<1>7. ASSUME NEW t \in Subs, ResolveFails(Loop, t) \/ NoChange(Loop, t) \/ RecordDelivery(Loop, t)
      PROVE  Goal
  <2>1. Leave(Loop, t) /\ subs' = subs /\ market' = market
        /\ (work[Loop][t] \in Started \/ ~Busy(Loop))
    BY <1>7 DEF ResolveFails, NoChange, RecordDelivery, Started, Delivering
  <2>2. QED
    BY <1>5, <1>6, <2>1
<1>8. ASSUME NEW t \in Subs, Resolve(Loop, t) PROVE Goal
  <2>1. subs' = subs /\ market' = market /\ work[Loop][t] = "todo" /\ ~Busy(Loop)
    BY <1>8 DEF Resolve
  <2>2. CASE t = s
    <3>1. Exists(s) /\ Rank[subs[s].last] <= Now(MarketOf[s])
      BY <1>2, <2>1, <2>2, LoopRow
    <3>2. Rank[answer'[Loop]] = Now(MarketOf[s])
      BY <1>1, <1>8, <2>2 DEF Resolve, Now, TypeInv, TypeOK
    <3>3. Now(MarketOf[s])' = Now(MarketOf[s])
      BY <2>1 DEF Now
    <3>4. QED
      BY <1>1, <2>1, <3>1, <3>2, <3>3
  <2>3. CASE t # s
    <3>1. work'[Loop][s] # "answered"
      BY <1>1, <1>8, <2>3 DEF Resolve, Busy, Started
    <3>2. QED
      BY <1>5, <2>1, <3>1
  <2>4. QED
    BY <2>2, <2>3
<1>9. ASSUME NEW t \in Subs, CommitEvent(Loop, t) PROVE Goal
  <2>1. /\ FirstAttempt(t, copy[Loop][t]) \in Delivering /\ market' = market
        /\ work[Loop][t] = "answered" /\ work[Loop][t] \in Started
    BY <1>1, <1>9, StagesTyped DEF CommitEvent, Started, TypeInv, TypeOK
  <2>2. work'[Loop][s] # "answered"
    <3>1. t # s => work[Loop][s] # "answered"
      BY <1>1, <2>1 DEF TypeInv, Sessions, Session, Started
    <3>2. QED
      BY <1>1, <1>9, <2>1, <3>1 DEF CommitEvent, Delivering
  <2>3. Now(MarketOf[s])' = Now(MarketOf[s])
    BY <2>1 DEF Now
  <2>4. CASE t = s
    <3>1. subs'[s] = Flush(subs[s], copy[Loop][s], answer[Loop])
      BY <1>1, <1>9, <2>4, CommitAppends
    <3>2. subs'[s].last = answer[Loop]
      BY <1>1, <3>1 DEF Flush, Row
    <3>3. QED
      BY <1>2, <2>1, <2>2, <2>3, <2>4, <3>2
  <2>5. CASE t # s
    <3>1. subs'[s] = subs[s]
      BY <1>1, <1>9, <2>5, CommitAppends
    <3>2. QED
      BY <1>2, <2>2, <2>3, <3>1 DEF Exists
  <2>6. QED
    BY <2>4, <2>5
<1>10. ASSUME NEW t \in Subs, SendTelegram(Loop, t) \/ PostWebhook(Loop, t) PROVE Goal
  <2>1. subs' = subs /\ market' = market /\ work[Loop][t] \in Started
    BY <1>10 DEF SendTelegram, PostWebhook, Started, Delivering
  <2>2. work'[Loop][s] # "answered"
    <3>1. t # s => work[Loop][s] # "answered"
      BY <1>1, <2>1 DEF TypeInv, Sessions, Session, Started
    <3>2. PICK to \in {"webhook", "record"} : work' = [work EXCEPT ![Loop][t] = to]
      BY <1>10 DEF SendTelegram, PostWebhook, AfterTelegram
    <3>3. QED
      BY <1>1, <3>1, <3>2
  <2>3. QED
    BY <1>5, <2>1, <2>2
<1>11. ASSUME StartCycle \/ Abort(Loop) \/ Restart PROVE Goal
  <2>1. subs' = subs /\ market' = market
    BY <1>11 DEF StartCycle, Load, Abort, Restart, Drop
  <2>2. work'[Loop][s] # "answered"
    BY <1>1, <1>11 DEF StartCycle, Load, Abort, Restart, Drop
  <2>3. QED
    BY <1>5, <2>1, <2>2
<1>12. ASSUME UNCHANGED vars PROVE Goal
  BY <1>2, <1>12 DEF vars, Now, Exists
<1>13. ASSUME PollStep(Loop) PROVE Goal
  BY <1>7, <1>8, <1>9, <1>10, <1>11, <1>13, Zenon DEF PollStep
<1>14. OracleStep => Goal
  BY <1>3, Zenon DEF OracleStep
<1> HIDE DEF Goal
<1>15. OracleStep \/ OwnerStep \/ StartCycle \/ PollStep(Loop) \/ Restart \/ UNCHANGED vars
  BY <1>1 DEF Next
<1>16. Goal
  BY <1>4, <1>11, <1>12, <1>13, <1>14, <1>15, Zenon
<1>17. QED
  BY <1>16 DEF Goal

LifeInv == ChainInv /\ Behind /\ Between /\ NeverUnknown /\ Lifecycle

\* A commit of the loop adds an alert that is later than all before it.
LEMMA LifeCommit ==
  ASSUME Checks = {}, LifeInv, NEW p \in Pollers, NEW s \in Subs, CommitEvent(p, s)
  PROVE  /\ answer[p] \in States \ {"UNKNOWN"}
         /\ \A i \in 1 .. Len(events[s]) : Rank[events[s][i].new] < Rank[answer[p]]
<1>1. p = Loop /\ TypeInv /\ LoopCurrent
  BY DEF Pollers, LifeInv, ChainInv
<1>2. /\ answer[p] \in States \ {"UNKNOWN"} /\ answer[p] # copy[p][s].last
      /\ work[Loop][s] = "answered"
  BY <1>1, CommitAppends DEF CommitEvent, Changed
<1>3. /\ subs[s].last \in States /\ copy[p][s].last = subs[s].last
      /\ Rank[subs[s].last] <= Rank[answer[p]]
  BY <1>1, <1>2, LoopRow DEF LifeInv, Between
<1>4. events[s] \in Seq(Event) /\ Len(events[s]) \in Nat
  BY <1>1 DEF TypeInv, TypeOK
<1>5. ASSUME NEW i \in 1 .. Len(events[s])
      PROVE  Rank[events[s][i].new] < Rank[answer[p]]
  <2> DEFINE n == Len(events[s])
  <2>1. n \in 1 .. n /\ n \in Nat /\ i \in Nat /\ i <= n
    BY <1>4
  <2>2. events[s][n].new = subs[s].last /\ events[s][n].new # "UNKNOWN"
    BY <1>4, <2>1 DEF LifeInv, ChainInv, Chained, NeverUnknown
  <2>3. Rank[subs[s].last] < Rank[answer[p]]
    BY <1>2, <1>3, <2>2, RankOf
  <2>4. events[s][i].new \in States
    <3>1. events[s][i] \in Event
      BY <1>4
    <3>2. QED
      BY <3>1 DEF Event
  <2>5. i = n \/ Rank[events[s][i].new] < Rank[events[s][n].new]
    BY <2>1 DEF LifeInv, Lifecycle
  <2>6. \A x \in States : Rank[x] \in Nat
    BY RankOf
  <2>7. /\ Rank[events[s][i].new] \in Nat /\ Rank[subs[s].last] \in Nat
        /\ Rank[answer[p]] \in Nat
    BY <1>2, <1>3, <2>4, <2>6
  <2>8. i = n \/ Rank[events[s][i].new] < Rank[subs[s].last]
    BY <2>2, <2>5
  <2>9. CASE i = n
    BY <2>2, <2>3, <2>9
  <2>10. CASE Rank[events[s][i].new] < Rank[subs[s].last]
    BY <2>3, <2>7, <2>10
  <2>11. QED
    BY <2>8, <2>9, <2>10
<1>6. QED
  BY <1>2, <1>5

LEMMA LifeNext == Checks = {} /\ LifeInv /\ [Next]_vars => LifeInv'
<1> SUFFICES ASSUME Checks = {}, LifeInv, [Next]_vars PROVE LifeInv'
  OBVIOUS
<1>1. ChainInv' /\ Behind' /\ Between' /\ TypeInv
  BY ChainNext, BehindNext, BetweenNext DEF LifeInv, ChainInv
<1>2. ASSUME NEW s \in Subs
      PROVE  /\ \A i \in 1 .. Len(events'[s]) : events'[s][i].new # "UNKNOWN"
             /\ \A i, j \in 1 .. Len(events'[s]) :
                  i < j => Rank[events'[s][i].new] < Rank[events'[s][j].new]
  <2>1. events[s] \in Seq(Event) /\ Len(events[s]) \in Nat
    BY <1>1 DEF TypeInv, TypeOK
  <2>2. /\ \A i \in 1 .. Len(events[s]) : events[s][i].new # "UNKNOWN"
        /\ \A i, j \in 1 .. Len(events[s]) :
             i < j => Rank[events[s][i].new] < Rank[events[s][j].new]
    BY DEF LifeInv, NeverUnknown, Lifecycle
  <2> DEFINE Goal == /\ \A i \in 1 .. Len(events'[s]) : events'[s][i].new # "UNKNOWN"
                     /\ \A i, j \in 1 .. Len(events'[s]) :
                          i < j => Rank[events'[s][i].new] < Rank[events'[s][j].new]
  <2>3. ASSUME Len(events'[s]) = Len(events[s]),
               \A i \in 1 .. Len(events[s]) : events'[s][i].new = events[s][i].new
        PROVE  Goal
    BY <2>2, <2>3
  <2>4. ASSUME NEW p \in Pollers, NEW t \in Subs, CommitEvent(p, t) PROVE Goal
    <3>1. CASE t = s
      <4> DEFINE n == Len(events[s])
      <4>1. /\ answer[p] # "UNKNOWN"
            /\ \A i \in 1 .. n : Rank[events[s][i].new] < Rank[answer[p]]
        BY <2>4, <3>1, LifeCommit
      <4>2. /\ Len(events'[s]) = n + 1 /\ events'[s][n + 1].new = answer[p]
            /\ \A i \in 1 .. n : events'[s][i] = events[s][i]
        BY <1>1, <2>4, <3>1, CommitAppends
      <4>3. n \in Nat
        BY <2>1
      <4> HIDE DEF n
      <4>4. \A i \in 1 .. n + 1 : i \in 1 .. n \/ i = n + 1
        BY <4>3
      <4>5. \A i \in 1 .. n + 1 : events'[s][i].new # "UNKNOWN"
        BY <2>2, <4>1, <4>2, <4>4 DEF n
      <4>6. ASSUME NEW i \in 1 .. n + 1, NEW j \in 1 .. n + 1, i < j
            PROVE  Rank[events'[s][i].new] < Rank[events'[s][j].new]
        <5>1. i \in 1 .. n
          BY <4>3, <4>6
        <5>2. CASE j \in 1 .. n
          <6>1. Rank[events[s][i].new] < Rank[events[s][j].new]
            BY <2>2, <4>6, <5>1, <5>2 DEF n
          <6>2. QED
            BY <4>2, <5>1, <5>2, <6>1
        <5>3. CASE j = n + 1
          BY <4>1, <4>2, <5>1, <5>3
        <5>4. QED
          BY <4>4, <5>2, <5>3
      <4>7. QED
        BY <4>2, <4>5, <4>6
    <3>2. CASE t # s
      <4>1. events'[s] = events[s]
        BY <1>1, <2>4, <3>2, CommitAppends
      <4>2. QED
        BY <2>3, <4>1
    <3>3. QED
      BY <3>1, <3>2
  <2>5. ASSUME NEW p \in Pollers, NEW t \in Subs, RecordDelivery(p, t) PROVE Goal
    BY <1>1, <2>3, <2>5, RecordKeeps
  <2>6. ASSUME events' = events PROVE Goal
    BY <2>3, <2>6
  <2> HIDE DEF Goal
  <2>7. TableStep => Goal
    <3>1. ASSUME NEW t \in Subs, \/ \E b \in States : Create(t, b)
                                 \/ SetWebhook(t) \/ Unsubscribe(t)
          PROVE  Goal
      BY <2>6, <3>1 DEF Create, SetWebhook, Unsubscribe
    <3>2. CASE Unwatch
      BY <2>6, <3>2 DEF Unwatch
    <3>3. QED
      BY <2>4, <2>5, <3>1, <3>2, Zenon DEF TableStep
  <2>8. UNCHANGED table => Goal
    BY <2>6
  <2>9. Goal
    BY <2>7, <2>8, TableSteps
  <2>10. QED
    BY <2>9 DEF Goal
<1>3. NeverUnknown' /\ Lifecycle'
  BY <1>2 DEF NeverUnknown, Lifecycle
<1>4. QED
  BY <1>1, <1>3 DEF LifeInv

LEMMA LifeInit == Init => LifeInv
<1> SUFFICES ASSUME Init PROVE LifeInv
  OBVIOUS
<1>1. ChainInv
  BY TypeInit DEF Init, ChainInv, AlertsExist, LoopCurrent, Chained, Pollers
<1>2. Behind
  BY RankOf DEF Init, Behind, Now, Fresh, OracleState, States, Statuses
<1>3. Between
  BY DEF Init, Between, Exists, NoRow, Pollers
<1>4. NeverUnknown /\ Lifecycle
  BY DEF Init, NeverUnknown, Lifecycle
<1>5. QED
  BY <1>1, <1>2, <1>3, <1>4 DEF LifeInv

\* With the loop as the only poller, alerts follow the oracle's life: none repeats or goes
\* back, whatever baseline a subscription began with and however often it is paused.
THEOREM AlertsFollowOracle == Checks = {} => (Spec => []Lifecycle)
<1> SUFFICES ASSUME Checks = {} PROVE Spec => []Lifecycle
  OBVIOUS
<1>1. LifeInv => Lifecycle
  BY DEF LifeInv
<1>2. QED
  BY LifeInit, LifeNext, <1>1, PTL DEF Spec

-----------------------------------------------------------------------------
(* One promise, with the background loop as the only poller.                 *)

\* What the loop was answered is a state the market has shown.
Witnessed ==
  /\ \A m \in Markets : OracleState(market[m]) \in shown[m]
  /\ \A s \in Subs : work[Loop][s] = "answered" => answer[Loop] \in shown[MarketOf[s]]

LEMMA WitnessedNext ==
  ASSUME Checks = {}, TypeInv, Witnessed, [Next]_vars
  PROVE  Witnessed'
<1>1. Pollers = {Loop} /\ Loop \in Pollers /\ \A s \in Subs : MarketOf[s] \in Markets
  BY MonitorAssumption DEF Pollers
<1>2. /\ market \in [Markets -> GammaMarket] /\ shown \in [Markets -> SUBSET States]
      /\ work \in [Pollers -> [Subs -> Stages]]
      /\ answer \in [Pollers -> States \cup {"none"}]
  BY DEF TypeInv, TypeOK
<1>3. ASSUME NEW m \in Markets,
             Propose(m) \/ Dispute(m) \/ Close(m) \/ Pause(m) \/ Resume(m)
      PROVE  Witnessed'
  <2>1. shown' = [shown EXCEPT ![m] = @ \cup {OracleState(market'[m])}]
    BY <1>3, OracleRises
  <2>2. /\ UNCHANGED session
        /\ \A l \in Markets : l # m => market'[l] = market[l]
    BY <1>2, <1>3 DEF Propose, Dispute, Close, Pause, Resume, OracleMoves
  <2>3. \A l \in Markets : OracleState(market'[l]) \in shown'[l] /\ shown[l] \subseteq shown'[l]
    BY <1>2, <2>1, <2>2 DEF Witnessed
  <2>4. QED
    BY <1>1, <2>2, <2>3 DEF Witnessed
<1>4. CASE OwnerStep \/ UNCHANGED vars
  BY <1>4 DEF Witnessed, OwnerStep, Create, SetWebhook, Unsubscribe, Unwatch, vars
<1>5. CASE StartCycle
  BY <1>1, <1>2, <1>5 DEF Witnessed, StartCycle, Load
<1>6. CASE Restart \/ Abort(Loop)
  BY <1>1, <1>6 DEF Witnessed, Restart, Abort, Drop
<1>7. ASSUME NEW s \in Subs, Resolve(Loop, s) PROVE Witnessed'
  <2>1. /\ UNCHANGED oracle /\ answer'[Loop] = OracleState(market[MarketOf[s]])
        /\ \A t \in Subs : work'[Loop][t] = IF t = s THEN "answered" ELSE work[Loop][t]
    BY <1>1, <1>2, <1>7 DEF Resolve
  <2>2. \A t \in Subs : t # s => work[Loop][t] # "answered"
    BY <1>7 DEF Resolve, Busy, Started
  <2>3. QED
    BY <1>1, <2>1, <2>2 DEF Witnessed
<1>8. ASSUME NEW s \in Subs, ResolveFails(Loop, s) \/ NoChange(Loop, s) \/ RecordDelivery(Loop, s)
      PROVE  Witnessed'
  <2>1. /\ UNCHANGED oracle
        /\ \A t \in Subs : work'[Loop][t] = IF t = s THEN "out" ELSE work[Loop][t]
    BY <1>1, <1>2, <1>8 DEF ResolveFails, NoChange, RecordDelivery, Leave
  <2>2. \A t \in Subs : work'[Loop][t] = "answered" => FALSE
    <3>1. CASE ResolveFails(Loop, s)
      BY <1>1, <1>2, <2>1, <3>1 DEF ResolveFails, Busy, Started
    <3>2. CASE NoChange(Loop, s) \/ RecordDelivery(Loop, s)
      BY <1>1, <1>2, <2>1, <3>2
      DEF NoChange, RecordDelivery, TypeInv, Sessions, Session, Started, Delivering
    <3>3. QED
      BY <1>8, <3>1, <3>2
  <2>3. QED
    BY <2>1, <2>2 DEF Witnessed
<1>9. ASSUME NEW s \in Subs, CommitEvent(Loop, s) \/ SendTelegram(Loop, s) \/ PostWebhook(Loop, s)
      PROVE  Witnessed'
  <2>1. UNCHANGED oracle /\ answer' = answer
    BY <1>9 DEF CommitEvent, SendTelegram, PostWebhook
  <2>2. \E x \in Delivering : work' = [work EXCEPT ![Loop][s] = x]
    BY <1>9 DEF CommitEvent, SendTelegram, PostWebhook, FirstAttempt, AfterTelegram, Delivering
  <2>3. \A t \in Subs : work'[Loop][t] = "answered" => work[Loop][t] = "answered"
    BY <1>1, <1>2, <2>2 DEF Delivering
  <2>4. QED
    BY <2>1, <2>3 DEF Witnessed
<1>10. QED
  BY <1>1, <1>3, <1>4, <1>5, <1>6, <1>7, <1>8, <1>9 DEF Next, OracleStep, PollStep

PromiseInv == LifeInv /\ Witnessed

\* A step that adds no alert, creates no row and neither revives one nor loads one
\* that is stopped is a step of the promise in which owners stop their alerts or nothing moves.
LEMMA QuietStops ==
  ASSUME shown' = shown,
         \A s \in Subs : /\ subs'[s].last = subs[s].last
                         /\ Told(s)' = Told(s)
                         /\ subs'[s].active => subs[s].active
                         /\ UnderWay(s)' => UnderWay(s) \/ subs[s].active
  PROVE  Promise!Stop
<1>1. ASSUME NEW s \in Subs
      PROVE  /\ Wish(s)' \in DOMAIN Promise!MayBecome
             /\ Wish(s)' \in Promise!MayBecome[Wish(s)]
  BY DEF Promise!MayBecome, Wish, Exists
<1>2. QED
  BY <1>1 DEF Promise!Stop

LEMMA ToldKept == events' = events => \A s \in Subs : Told(s)' = Told(s)
BY DEF Told

LEMMA PromiseShow ==
  ASSUME PromiseInv, PromiseInv', NEW m \in Markets,
         Propose(m) \/ Dispute(m) \/ Close(m) \/ Pause(m) \/ Resume(m)
  PROVE  \E x \in States : Promise!Show(m, x)
<1> DEFINE x == OracleState(market'[m])
<1>1. TypeInv /\ TypeInv'
  BY DEF PromiseInv, LifeInv, ChainInv
<1>2. /\ shown' = [shown EXCEPT ![m] = @ \cup {x}]
      /\ UNCHANGED <<table, session>>
  BY <1>1, OracleRises DEF Propose, Dispute, Close, Pause, Resume, OracleMoves
<1>3. x \in States
  BY <1>1, OracleStateTyped DEF TypeInv, TypeOK
<1>4. \A y \in shown[m] : Rank[y] <= Rank[x]
  <2>1. \A y \in shown'[m] : Rank[y] <= Rank[x]
    BY DEF PromiseInv, LifeInv, Behind, Now
  <2>2. shown[m] \subseteq shown'[m]
    BY <1>1, <1>2 DEF TypeInv, TypeOK
  <2>3. QED
    BY <2>1, <2>2
<1>5. UNCHANGED <<[s \in Subs |-> Wish(s)], [s \in Subs |-> subs[s].last], [s \in Subs |-> Told(s)]>>
  BY <1>2 DEF Wish, Exists, UnderWay, Told
<1> HIDE DEF x
<1>6. Promise!Show(m, x)
  BY <1>2, <1>4, <1>5 DEF Promise!Show
<1>7. QED
  BY <1>3, <1>6

LEMMA PromiseWatch ==
  ASSUME PromiseInv, NEW s \in Subs, NEW b \in States, Create(s, b)
  PROVE  Promise!Watch(s, b)
<1>1. subs \in [Subs -> Row]
  BY DEF PromiseInv, LifeInv, ChainInv, TypeInv, TypeOK
<1>2. /\ ~Exists(s) /\ b \in shown[MarketOf[s]] /\ UNCHANGED <<oracle, events, session>>
      /\ subs' = [subs EXCEPT ![s] = [last |-> b, active |-> TRUE, webhook |-> FALSE]]
  BY DEF Create
<1>3. Wish(s) = "none" /\ Wish(s)' = "watching"
  BY <1>1, <1>2 DEF Wish, Exists, States
<1>4. \A t \in Subs : t # s => Wish(t)' = Wish(t) /\ subs'[t] = subs[t]
  BY <1>1, <1>2 DEF Wish, Exists, UnderWay
<1>5. [t \in Subs |-> Wish(t)]' = [[t \in Subs |-> Wish(t)] EXCEPT ![s] = "watching"]
  BY <1>3, <1>4
<1>6. [t \in Subs |-> subs[t].last]' = [[t \in Subs |-> subs[t].last] EXCEPT ![s] = b]
  BY <1>1, <1>2
<1>7. [t \in Subs |-> Told(t)]' = [t \in Subs |-> Told(t)]
  BY <1>2, ToldKept
<1>8. QED
  BY <1>2, <1>3, <1>5, <1>6, <1>7 DEF Promise!Watch

LEMMA AnswerCommitted ==
  ASSUME PromiseInv, NEW s \in Subs, CommitEvent(Loop, s)
  PROVE  answer[Loop] \in States
<1>1. Loop \in Pollers /\ TypeInv
  BY DEF Pollers, PromiseInv, LifeInv, ChainInv
<1>2. QED
  BY <1>1, CommitAppends

LEMMA PromiseTell ==
  ASSUME Checks = {}, PromiseInv, NEW s \in Subs, CommitEvent(Loop, s),
         NEW x \in States, x = answer[Loop]
  PROVE  Promise!Tell(s, x)
<1>1. Loop \in Pollers /\ TypeInv /\ LoopCurrent
  BY DEF Pollers, PromiseInv, LifeInv, ChainInv
<1>2. /\ subs \in [Subs -> Row] /\ subs[s] \in Row
      /\ events[s] \in Seq(Event) /\ work \in [Pollers -> [Subs -> Stages]]
  BY <1>1 DEF TypeInv, TypeOK
<1>3. /\ work[Loop][s] = "answered" /\ x \in States
      /\ x \notin {copy[Loop][s].last, "UNKNOWN"}
      /\ shown' = shown
  BY <1>1, CommitAppends DEF CommitEvent, Changed
<1>4. Exists(s) /\ copy[Loop][s].last = subs[s].last
  BY <1>1, <1>3, LoopRow
<1>5. x \in shown[MarketOf[s]] /\ Rank[subs[s].last] <= Rank[x]
  BY <1>3 DEF PromiseInv, Witnessed, LifeInv, Between
<1>6. /\ subs'[s] = [subs[s] EXCEPT !.last = x, !.active = @ /\ x \notin Terminal]
      /\ \A t \in Subs \ {s} : subs'[t] = subs[t] /\ events'[t] = events[t]
  <2>1. subs'[s] = Flush(subs[s], copy[Loop][s], answer[Loop])
    BY <1>1, CommitAppends
  <2>2. \A t \in Subs \ {s} : subs'[t] = subs[t] /\ events'[t] = events[t]
    BY <1>1, CommitAppends
  <2>3. QED
    BY <2>1, <2>2 DEF Flush
<1>7. subs'[s].last = x /\ subs'[s].active = (subs[s].active /\ x \notin Terminal)
  BY <1>2, <1>6 DEF Row
<1>8. /\ ~UnderWay(s)'
      /\ \A t \in Subs \ {s} : UnderWay(t)' = UnderWay(t)
  <2>1. PICK y \in Delivering : work' = [work EXCEPT ![Loop][s] = y]
    BY DEF CommitEvent, FirstAttempt, AfterTelegram, Delivering
  <2>2. work'[Loop][s] = y /\ \A t \in Subs \ {s} : work'[Loop][t] = work[Loop][t]
    BY <1>1, <1>2, <2>1
  <2>3. QED
    BY <2>2 DEF UnderWay, Delivering
<1>9. /\ Wish(s) = IF subs[s].active THEN "watching" ELSE "stopping"
      /\ Wish(s)' = IF Wish(s) = "stopping" \/ x \in Terminal THEN "stopped" ELSE "watching"
  <2>1. UnderWay(s)
    BY <1>3 DEF UnderWay
  <2>2. Exists(s)'
    BY <1>3, <1>7 DEF Exists, States
  <2>3. subs[s].active \in BOOLEAN
    BY <1>2 DEF Row
  <2>4. QED
    BY <1>4, <1>7, <1>8, <2>1, <2>2, <2>3 DEF Wish
<1>10. \A t \in Subs \ {s} : Wish(t)' = Wish(t) /\ Told(t)' = Told(t)
  BY <1>6, <1>8 DEF Wish, Exists, Told
<1>11. Told(s)' = Append(Told(s), [old |-> subs[s].last, new |-> x])
  <2> DEFINE n == Len(events[s])
             f(i) == [old |-> events[s][i].old, new |-> events[s][i].new]
             e == [old |-> subs[s].last, new |-> x]
  <2>1. n \in Nat /\ Len(Told(s)) = n /\ \A i \in 1 .. n : Told(s)[i] = f(i)
    BY <1>2 DEF Told
  <2>2. /\ Len(events'[s]) = n + 1
        /\ events'[s][n + 1].old = subs[s].last /\ events'[s][n + 1].new = x
        /\ \A i \in 1 .. n : events'[s][i] = events[s][i]
    BY <1>1, <1>4, CommitAppends
  <2>3. Told(s)' = [i \in 1 .. n + 1 |-> IF i = n + 1 THEN e ELSE f(i)]
    <3>1. Told(s)' = [i \in 1 .. n + 1 |-> [old |-> events'[s][i].old, new |-> events'[s][i].new]]
      BY <2>2 DEF Told
    <3>2. \A i \in 1 .. n + 1 : i = n + 1 \/ i \in 1 .. n
      BY <2>1
    <3>3. \A i \in 1 .. n + 1 :
            [old |-> events'[s][i].old, new |-> events'[s][i].new] =
              IF i = n + 1 THEN e ELSE f(i)
      BY <2>1, <2>2, <3>2
    <3> HIDE DEF n, e, f
    <3>4. QED
      BY <3>1, <3>3
  <2>4. Append(Told(s), e) = [i \in 1 .. n + 1 |-> IF i = n + 1 THEN e ELSE f(i)]
    <3>1. Told(s) = [i \in 1 .. n |-> f(i)]
      BY DEF Told
    <3> HIDE DEF f, e, n
    <3>2. [i \in 1 .. n |-> f(i)] \in Seq({f(i) : i \in 1 .. n})
      BY <2>1
    <3>3. QED
      BY <2>1, <3>1, <3>2
  <2>5. QED
    BY <2>3, <2>4
<1>12. [t \in Subs |-> Wish(t)]' =
         [[t \in Subs |-> Wish(t)] EXCEPT ![s] =
            IF @ = "stopping" \/ x \in Terminal THEN "stopped" ELSE "watching"]
  BY <1>9, <1>10
<1>13. [t \in Subs |-> subs[t].last]' = [[t \in Subs |-> subs[t].last] EXCEPT ![s] = x]
  BY <1>6, <1>7
<1>14. [t \in Subs |-> Told(t)]' =
         [[t \in Subs |-> Told(t)] EXCEPT ![s] =
            Append(@, [old |-> [t \in Subs |-> subs[t].last][s], new |-> x])]
  BY <1>10, <1>11
<1>15. QED
  BY <1>3, <1>4, <1>5, <1>9, <1>12, <1>13, <1>14 DEF Promise!Tell

LEMMA PromiseInit == Init => PromiseInv /\ Promise!Init
<1> SUFFICES ASSUME Init PROVE PromiseInv /\ Promise!Init
  OBVIOUS
<1>1. Witnessed
  BY DEF Init, Witnessed, Fresh, OracleState, Pollers
<1>2. ASSUME NEW s \in Subs
      PROVE  Wish(s) = "none" /\ subs[s].last = "none" /\ Told(s) = << >>
  <2>1. subs[s].last = "none" /\ events[s] = << >>
    BY DEF Init, NoRow
  <2>2. 1 .. Len(events[s]) = {}
    BY <2>1
  <2>3. Told(s) = << >>
    BY <2>2 DEF Told
  <2>4. QED
    BY <2>1, <2>3 DEF Wish, Exists
<1>3. shown = [m \in Markets |-> {"UNRESOLVED"}]
  BY DEF Init
<1>4. QED
  BY LifeInit, <1>1, <1>2, <1>3 DEF PromiseInv, Promise!Init

LEMMA PromiseInvNext == Checks = {} /\ PromiseInv /\ [Next]_vars => PromiseInv'
BY LifeNext, WitnessedNext DEF PromiseInv, LifeInv, ChainInv

\* A step of the loop that commits nothing ends the way of an alert or leaves it.
LEMMA QuietPoll ==
  ASSUME Checks = {}, TypeInv, PollStep(Loop), ~ \E s \in Subs : CommitEvent(Loop, s)
  PROVE  Promise!Stop
<1>1. Loop \in Pollers /\ work \in [Pollers -> [Subs -> Stages]]
  BY DEF Pollers, TypeInv, TypeOK
<1>2. ASSUME NEW s \in Subs, Resolve(Loop, s) PROVE Promise!Stop
  <2>1. UNCHANGED <<shown, table>> /\ \A t \in Subs : UnderWay(t)' => UnderWay(t)
    BY <1>1, <1>2 DEF Resolve, UnderWay, oracle
  <2>2. QED
    BY <2>1, ToldKept, QuietStops DEF table
<1>3. ASSUME NEW s \in Subs, ResolveFails(Loop, s) \/ NoChange(Loop, s) PROVE Promise!Stop
  <2>1. UNCHANGED <<shown, table>> /\ work' = [work EXCEPT ![Loop][s] = "out"]
    BY <1>3 DEF ResolveFails, NoChange, Leave
  <2>2. \A t \in Subs : UnderWay(t)' => UnderWay(t)
    BY <1>1, <2>1 DEF UnderWay
  <2>3. QED
    BY <2>1, <2>2, ToldKept, QuietStops
<1>4. ASSUME NEW s \in Subs, SendTelegram(Loop, s) \/ PostWebhook(Loop, s) PROVE Promise!Stop
  <2>1. UNCHANGED <<shown, table>>
    BY <1>4 DEF SendTelegram, PostWebhook
  <2>2. \E y \in Delivering : work' = [work EXCEPT ![Loop][s] = y]
    BY <1>4 DEF SendTelegram, PostWebhook, AfterTelegram, Delivering
  <2>3. \A t \in Subs : UnderWay(t)' => UnderWay(t)
    BY <1>1, <2>2 DEF UnderWay, Delivering
  <2>4. QED
    BY <2>1, <2>3, ToldKept, QuietStops
<1>5. ASSUME NEW s \in Subs, RecordDelivery(Loop, s) PROVE Promise!Stop
  <2>1. UNCHANGED <<shown, subs>> /\ \A t \in Subs : UnderWay(t)' => UnderWay(t)
    BY <1>1, <1>5 DEF RecordDelivery, Leave, UnderWay, oracle
  <2>2. \A t \in Subs : Told(t)' = Told(t)
    BY <1>1, <1>5, RecordKeeps DEF Told
  <2>3. QED
    BY <2>1, <2>2, QuietStops
<1>6. CASE Abort(Loop)
  <2>1. UNCHANGED <<shown, table>> /\ \A t \in Subs : UnderWay(t)' => UnderWay(t)
    BY <1>1, <1>6 DEF Abort, Drop, UnderWay, oracle
  <2>2. QED
    BY <2>1, ToldKept, QuietStops DEF table
<1>7. QED
  BY <1>2, <1>3, <1>4, <1>5, <1>6 DEF PollStep

\* What an owner does to a row that exists, and what the loop does to its own copies.
LEMMA QuietOthers ==
  ASSUME TypeInv,
         \/ \E s \in Subs : SetWebhook(s) \/ Unsubscribe(s)
         \/ Unwatch \/ StartCycle \/ Restart \/ UNCHANGED vars
  PROVE  Promise!Stop
<1>1. /\ Loop \in Pollers /\ work \in [Pollers -> [Subs -> Stages]]
      /\ subs \in [Subs -> Row]
  BY DEF Pollers, TypeInv, TypeOK
<1>2. ASSUME NEW s \in Subs, SetWebhook(s) \/ Unsubscribe(s) PROVE Promise!Stop
  <2>1. UNCHANGED <<shown, events, work>>
    BY <1>2 DEF SetWebhook, Unsubscribe, oracle, session
  <2>2. PICK r : subs' = [subs EXCEPT ![s] = r] /\ r.last = subs[s].last
                 /\ (r.active => subs[s].active)
    BY <1>1, <1>2 DEF SetWebhook, Unsubscribe, Row
  <2>3. \A t \in Subs : subs'[t].last = subs[t].last /\ (subs'[t].active => subs[t].active)
    BY <1>1, <2>2
  <2>4. QED
    BY <2>1, <2>3, ToldKept, QuietStops DEF UnderWay
<1>3. CASE Unwatch
  <2>1. UNCHANGED <<shown, events, work>>
    BY <1>3 DEF Unwatch, oracle, session
  <2>2. \A t \in Subs : subs'[t].last = subs[t].last /\ (subs'[t].active => subs[t].active)
    BY <1>1, <1>3 DEF Unwatch, Row
  <2>3. QED
    BY <2>1, <2>2, ToldKept, QuietStops DEF UnderWay
<1>4. CASE StartCycle
  <2>1. UNCHANGED <<shown, table>> /\ \A t \in Subs : UnderWay(t)' => subs[t].active
    BY <1>1, <1>4 DEF StartCycle, Load, Active, UnderWay, oracle
  <2>2. QED
    BY <2>1, ToldKept, QuietStops DEF table
<1>5. CASE Restart
  <2>1. UNCHANGED <<shown, table>> /\ \A t \in Subs : UnderWay(t)' => UnderWay(t)
    BY <1>1, <1>5 DEF Restart, Drop, UnderWay, oracle
  <2>2. QED
    BY <2>1, ToldKept, QuietStops DEF table
<1>6. CASE UNCHANGED vars
  <2>1. UNCHANGED <<shown, table>> /\ \A t \in Subs : UnderWay(t)' => UnderWay(t)
    BY <1>6 DEF vars, UnderWay, table
  <2>2. QED
    BY <2>1, ToldKept, QuietStops DEF table
<1>7. QED
  BY <1>2, <1>3, <1>4, <1>5, <1>6

LEMMA PromiseNext ==
  ASSUME Checks = {}, PromiseInv, [Next]_vars
  PROVE  Promise!Next
<1>1. PromiseInv' /\ TypeInv
  BY PromiseInvNext DEF PromiseInv, LifeInv, ChainInv
<1>2. CASE OracleStep
  BY <1>1, <1>2, PromiseShow DEF OracleStep, Promise!Next
<1>3. CASE OwnerStep
  <2>1. ASSUME NEW s \in Subs, NEW b \in States, Create(s, b) PROVE Promise!Next
    BY <2>1, PromiseWatch DEF Promise!Next
  <2>2. QED
    BY <1>1, <1>3, <2>1, QuietOthers DEF OwnerStep, Promise!Next
<1>4. CASE \E p \in Pollers : PollStep(p)
  <2>1. PollStep(Loop)
    BY <1>4 DEF Pollers
  <2>2. ASSUME NEW s \in Subs, CommitEvent(Loop, s) PROVE Promise!Next
    <3>1. PICK x \in States : x = answer[Loop]
      BY <2>2, AnswerCommitted
    <3>2. Promise!Tell(s, x)
      BY <2>2, <3>1, PromiseTell
    <3>3. QED
      BY <3>2 DEF Promise!Next
  <2>3. QED
    BY <1>1, <2>1, <2>2, QuietPoll DEF Promise!Next
<1>5. CASE StartCycle \/ Restart \/ UNCHANGED vars
  BY <1>1, <1>5, QuietOthers DEF Promise!Next
<1>6. QED
  BY <1>2, <1>3, <1>4, <1>5 DEF Next

\* With the loop as the only poller Monitor implements AlertPromise, for any number of
\* subscriptions and markets: nothing is told out of order, from the wrong state or after
\* RESOLVED, and one alert at most after the owner has stopped them.
THEOREM LoopKeepsPromise == Checks = {} => (Spec => KeepsPromise)
<1> SUFFICES ASSUME Checks = {} PROVE Spec => KeepsPromise
  OBVIOUS
<1>1. PromiseInv /\ [Next]_vars => PromiseInv' /\ [Promise!Next]_(Promise!vars)
  BY PromiseInvNext, PromiseNext
<1>2. QED
  BY PromiseInit, <1>1, PTL DEF Spec, KeepsPromise, Promise!Spec
=============================================================================
