--------------------------- MODULE MonitorProofs ---------------------------
(***************************************************************************)
(* Proofs about Monitor, for any subscriptions, markets, checks and        *)
(* owners: types, and what pollers that hold old copies cannot undo.       *)
(***************************************************************************)
EXTENDS Monitor, TLAPS

USE MonitorAssumption
USE DEF oracle, table, session

-----------------------------------------------------------------------------
(* Typing. TypeOK alone is not inductive: that an event's states are states *)
(* takes what a poller's copies and answer are at each stage of its work.    *)

\* A session: what it works on was loaded from a created row, an answer is a
\* state until it is committed, and one subscription is under way at a time.
Session(p, s) ==
  /\ work[p][s] # "out" => copy[p][s].last \in States
  /\ work[p][s] = "answered" => answer[p] \in States
  /\ work[p][s] \in Started =>
       \A t \in Subs : work[p][t] \in Started => t = s

Sessions == \A p \in Pollers, s \in Subs : Session(p, s)

ActiveExist == \A s \in Subs : subs[s].active => Exists(s)

TypeInv == TypeOK /\ Sessions /\ ActiveExist


LEMMA OracleStateTyped == \A g \in GammaMarket : OracleState(g) \in States
BY DEF OracleState, States

LEMMA TypeInit == Init => TypeInv
<1> SUFFICES ASSUME Init PROVE TypeInv
  OBVIOUS
<1>1. /\ NoRow \in Row /\ NoAlert \in Alert /\ Fresh \in GammaMarket
      /\ "out" \in Stages /\ "out" \notin Started /\ "UNRESOLVED" \in States
  BY DEF Row, NoRow, Stages, Started, Delivering, Alert, NoAlert, Errors,
         GammaMarket, Fresh, Statuses, States
<1>2. << >> \in Seq(Event)
  OBVIOUS
<1>3. TypeOK
  BY <1>1, <1>2 DEF Init, TypeOK
<1>4. Sessions /\ ActiveExist
  BY <1>1 DEF Init, Sessions, Session, ActiveExist, NoRow, Started
<1>5. QED
  BY <1>3, <1>4 DEF TypeInv

\* The market an oracle step installs is a market.
LEMMA TypeOracle ==
  ASSUME TypeInv, NEW m \in Markets, NEW g \in GammaMarket, OracleMoves(m, g)
  PROVE  TypeInv'
<1>1. OracleState(g) \in States
  BY OracleStateTyped
<1>2. TypeOK'
  BY <1>1 DEF TypeInv, TypeOK, OracleMoves
<1>3. Sessions' /\ ActiveExist'
  BY DEF TypeInv, OracleMoves, Sessions, Session, ActiveExist, Exists
<1>4. QED
  BY <1>2, <1>3 DEF TypeInv

LEMMA TypeOracleStep == TypeInv /\ OracleStep => TypeInv'
<1> SUFFICES ASSUME TypeInv, NEW m \in Markets,
                    \/ Propose(m) \/ Dispute(m) \/ Close(m) \/ Pause(m) \/ Resume(m)
             PROVE  TypeInv'
  BY DEF OracleStep
<1>1. market[m] \in GammaMarket
  BY DEF TypeInv, TypeOK
<1>2. CASE Propose(m)
  BY <1>1, <1>2, TypeOracle DEF Propose, GammaMarket, Statuses
<1>3. CASE Dispute(m)
  BY <1>1, <1>3, TypeOracle DEF Dispute, GammaMarket, Statuses
<1>4. CASE Close(m)
  BY <1>1, <1>4, TypeOracle DEF Close, GammaMarket
<1>5. CASE Pause(m)
  BY <1>1, <1>5, TypeOracle DEF Pause, GammaMarket
<1>6. CASE Resume(m)
  BY <1>1, <1>6, TypeOracle DEF Resume, GammaMarket
<1>7. QED
  BY <1>2, <1>3, <1>4, <1>5, <1>6

\* A step on the table alone leaves the sessions as they are.
LEMMA TypeOwner ==
  ASSUME TypeInv, UNCHANGED <<oracle, events, received, session>>,
         subs' \in [Subs -> Row], ActiveExist'
  PROVE  TypeInv'
BY DEF TypeInv, TypeOK, Sessions, Session

\* Rows stay rows under the owner's two writes.
LEMMA RowWrites ==
  \A row \in Row : /\ [row EXCEPT !.active = FALSE] \in Row
                   /\ \A given \in BOOLEAN : [row EXCEPT !.webhook = given] \in Row
BY DEF Row

LEMMA TypeOwnerStep == TypeInv /\ OwnerStep => TypeInv'
<1> SUFFICES ASSUME TypeInv, OwnerStep PROVE TypeInv'
  OBVIOUS
<1>1. subs \in [Subs -> Row] /\ ActiveExist
  BY DEF TypeInv, TypeOK
<1>2. ASSUME NEW s \in Subs, NEW b \in States, Create(s, b) PROVE TypeInv'
  <2>1. [last |-> b, active |-> TRUE, webhook |-> FALSE] \in Row
    BY DEF Row
  <2>2. subs' \in [Subs -> Row]
    BY <1>1, <1>2, <2>1 DEF Create
  <2>3. ActiveExist'
    BY <1>1, <1>2 DEF Create, ActiveExist, Exists, States
  <2>4. QED
    BY <1>2, <2>2, <2>3, TypeOwner DEF Create
<1>3. ASSUME NEW s \in Subs, SetWebhook(s) PROVE TypeInv'
  <2>1. PICK given \in BOOLEAN : subs' = [subs EXCEPT ![s] = [subs[s] EXCEPT !.webhook = given]]
    BY <1>3 DEF SetWebhook
  <2>2. subs' \in [Subs -> Row]
    BY <1>1, <2>1, RowWrites
  <2>3. ActiveExist'
    BY <1>1, <2>1 DEF ActiveExist, Exists, Row
  <2>4. QED
    BY <1>3, <2>2, <2>3, TypeOwner DEF SetWebhook
<1>4. ASSUME NEW s \in Subs, Unsubscribe(s) PROVE TypeInv'
  <2>1. subs' = [subs EXCEPT ![s] = [subs[s] EXCEPT !.active = FALSE]]
    BY <1>4 DEF Unsubscribe
  <2>2. subs' \in [Subs -> Row]
    BY <1>1, <2>1, RowWrites
  <2>3. ActiveExist'
    BY <1>1, <2>1 DEF ActiveExist, Exists, Row
  <2>4. QED
    BY <1>4, <2>2, <2>3, TypeOwner DEF Unsubscribe
<1>5. CASE Unwatch
  <2>1. \A s \in Subs : subs'[s] \in {subs[s], [subs[s] EXCEPT !.active = FALSE]}
    BY <1>5 DEF Unwatch
  <2>2. subs' = [s \in Subs |-> subs'[s]]
    BY <1>5 DEF Unwatch
  <2>3. \A s \in Subs : subs'[s] \in Row
    BY <1>1, <2>1, RowWrites
  <2>4. subs' \in [Subs -> Row]
    BY <2>2, <2>3
  <2>5. ActiveExist'
    BY <1>1, <2>1 DEF ActiveExist, Exists, Row
  <2>6. QED
    BY <1>5, <2>4, <2>5, TypeOwner DEF Unwatch
<1>6. QED
  BY <1>2, <1>3, <1>4, <1>5 DEF OwnerStep

LEMMA TypeLoad ==
  ASSUME TypeInv, NEW p \in Pollers, NEW S \in SUBSET Subs, \A s \in S : Exists(s),
         Load(p, S)
  PROVE  TypeInv'
<1>1. NoRow \in Row /\ {"todo", "out"} \subseteq Stages
  BY DEF NoRow, Row, States, Stages
<1>2. TypeOK'
  BY <1>1 DEF TypeInv, TypeOK, Load
<1>3. Sessions'
  <2> SUFFICES ASSUME NEW q \in Pollers, NEW s \in Subs PROVE Session(q, s)'
    BY DEF Sessions
  <2>1. CASE q = p
    BY <2>1 DEF TypeInv, TypeOK, Load, Session, Exists, Row, Started, Delivering
  <2>2. CASE q # p
    BY <2>2 DEF TypeInv, TypeOK, Load, Sessions, Session
  <2>3. QED
    BY <2>1, <2>2
<1>4. QED
  BY <1>2, <1>3 DEF TypeInv, ActiveExist, Exists, Load

\* Leaving a subscription that is under way, or before any is, keeps sessions.
LEMMA TypeLeave ==
  ASSUME TypeInv, NEW p \in Pollers, NEW s \in Subs, Leave(p, s),
         work[p][s] \in Started \/ ~Busy(p)
  PROVE  /\ work' \in [Pollers -> [Subs -> Stages]]
         /\ copy' \in [Pollers -> [Subs -> Row]]
         /\ answer' \in [Pollers -> States \cup {"none"}]
         /\ alert' \in [Pollers -> Alert]
         /\ Sessions'
<1>1. NoRow \in Row /\ NoAlert \in Alert /\ "out" \in Stages /\ "out" \notin Started
  BY DEF NoRow, Row, NoAlert, Alert, Errors, Stages, Started, Delivering
<1>2. Sessions'
  <2> SUFFICES ASSUME NEW q \in Pollers, NEW t \in Subs PROVE Session(q, t)'
    BY DEF Sessions
  <2>1. CASE q = p
    BY <1>1, <2>1 DEF TypeInv, TypeOK, Leave, Sessions, Session, Busy, Started
  <2>2. CASE q # p
    BY <2>2 DEF TypeInv, TypeOK, Leave, Sessions, Session
  <2>3. QED
    BY <2>1, <2>2
<1>3. QED
  BY <1>1, <1>2 DEF TypeInv, TypeOK, Leave

LEMMA TypeDrop ==
  ASSUME TypeInv, NEW P \in SUBSET Pollers, Drop(P)
  PROVE  TypeInv'
<1>1. NoRow \in Row /\ NoAlert \in Alert /\ "out" \in Stages /\ "out" \notin Started
  BY DEF NoRow, Row, NoAlert, Alert, Errors, Stages, Started, Delivering
<1>2. TypeOK'
  BY <1>1 DEF TypeInv, TypeOK, Drop
<1>3. Sessions'
  BY <1>1 DEF TypeInv, TypeOK, Drop, Sessions, Session, Started
<1>4. QED
  BY <1>2, <1>3 DEF TypeInv, ActiveExist, Exists, Drop

\* A step that moves s from one stage of its work to a later one.
LEMMA SessionsMove ==
  ASSUME TypeInv, NEW p \in Pollers, NEW s \in Subs, NEW stage \in Delivering,
         work[p][s] \in Started, work' = [work EXCEPT ![p][s] = stage],
         UNCHANGED <<copy, answer>>
  PROVE  Sessions' /\ work' \in [Pollers -> [Subs -> Stages]]
<1>1. stage \in Stages /\ stage \in Started /\ stage # "answered"
  BY DEF Stages, Started, Delivering
<1>2. work' \in [Pollers -> [Subs -> Stages]]
  BY <1>1 DEF TypeInv, TypeOK
<1>3. ASSUME NEW q \in Pollers, NEW t \in Subs PROVE Session(q, t)'
  <2>1. Session(q, t) /\ Session(p, s)
    BY DEF TypeInv, Sessions
  <2>2. CASE q = p /\ t = s
    BY <1>1, <2>1, <2>2 DEF TypeInv, TypeOK, Session, Started, Delivering
  <2>3. CASE q = p /\ t # s
    BY <1>1, <2>1, <2>3 DEF TypeInv, TypeOK, Session
  <2>4. CASE q # p
    BY <2>1, <2>4 DEF TypeInv, TypeOK, Session
  <2>5. QED
    BY <2>2, <2>3, <2>4
<1>4. QED
  BY <1>2, <1>3 DEF Sessions

LEMMA StagesTyped ==
  ASSUME NEW s \in Subs, NEW mem \in Row
  PROVE  AfterTelegram(mem) \in Delivering /\ FirstAttempt(s, mem) \in Delivering
BY DEF AfterTelegram, FirstAttempt, Delivering

LEMMA TypeResolve ==
  ASSUME TypeInv, NEW p \in Pollers, NEW s \in Subs, Resolve(p, s)
  PROVE  TypeInv'
<1>1. OracleState(market[MarketOf[s]]) \in States
  BY OracleStateTyped DEF TypeInv, TypeOK
<1>2. TypeOK'
  BY <1>1 DEF TypeInv, TypeOK, Resolve, Stages, Started
<1>3. ASSUME NEW q \in Pollers, NEW t \in Subs PROVE Session(q, t)'
  BY <1>1 DEF TypeInv, TypeOK, Resolve, Sessions, Session, Busy, Started
<1>4. QED
  BY <1>2, <1>3 DEF TypeInv, Sessions, ActiveExist, Exists, Resolve

LEMMA TypeCommit ==
  ASSUME TypeInv, NEW p \in Pollers, NEW s \in Subs, CommitEvent(p, s)
  PROVE  TypeInv'
<1> DEFINE e == [old |-> copy[p][s].last, new |-> answer[p],
                 delivered |-> FALSE, error |-> "none"]
<1>1. copy[p][s] \in Row /\ answer[p] \in States /\ copy[p][s].last \in States
  BY DEF TypeInv, TypeOK, Sessions, Session, CommitEvent
<1>2. e \in Event
  BY <1>1 DEF Event, Errors
<1>3. events' \in [Subs -> Seq(Event)]
  <2>1. events[s] \in Seq(Event)
    BY DEF TypeInv, TypeOK
  <2>2. Append(events[s], e) \in Seq(Event)
    BY <1>2, <2>1
  <2>3. events' = [events EXCEPT ![s] = Append(events[s], e)]
    BY DEF CommitEvent
  <2>4. QED
    BY <2>2, <2>3 DEF TypeInv, TypeOK
<1>4. subs' \in [Subs -> Row]
  BY <1>1 DEF TypeInv, TypeOK, CommitEvent, Flush, Row
<1>5. alert' \in [Pollers -> Alert]
  <2>1. Len(events[s]) + 1 \in Nat
    BY DEF TypeInv, TypeOK
  <2>2. [NoAlert EXCEPT !.index = Len(events[s]) + 1] \in Alert
    BY <2>1 DEF NoAlert, Alert, Errors
  <2>3. QED
    BY <2>2 DEF TypeInv, TypeOK, CommitEvent
<1>6. Sessions' /\ work' \in [Pollers -> [Subs -> Stages]]
  BY <1>1, StagesTyped, SessionsMove DEF CommitEvent, Started
<1>7. ActiveExist'
  BY <1>1 DEF TypeInv, TypeOK, CommitEvent, Flush, Row, ActiveExist, Exists, States
<1>8. TypeOK'
  BY <1>3, <1>4, <1>5, <1>6 DEF TypeInv, TypeOK, CommitEvent
<1>9. QED
  BY <1>6, <1>7, <1>8 DEF TypeInv

\* What a delivery attempt may change.
LEMMA TypeAttempt ==
  ASSUME TypeInv, NEW p \in Pollers, NEW s \in Subs, NEW stage \in Delivering,
         NEW taken \in BOOLEAN, NEW channel \in {"telegram", "webhook"},
         NEW ok \in BOOLEAN, NEW error \in Errors,
         work[p][s] \in Started, work' = [work EXCEPT ![p][s] = stage],
         Take(taken, p, s, channel), Attempted(p, s, ok, error),
         UNCHANGED <<oracle, table, copy, answer>>
  PROVE  TypeInv'
<1>1. received' \subseteq Subs \X Nat \X {"telegram", "webhook"}
  BY DEF TypeInv, TypeOK, Take, Alert
<1>2. alert' \in [Pollers -> Alert]
  BY ZenonT(60) DEF TypeInv, TypeOK, Attempted, Alert
<1>3. Sessions' /\ work' \in [Pollers -> [Subs -> Stages]]
  BY SessionsMove
<1>4. QED
  BY <1>1, <1>2, <1>3 DEF TypeInv, TypeOK, ActiveExist, Exists

LEMMA TypeSend ==
  ASSUME TypeInv, NEW p \in Pollers, NEW s \in Subs,
         SendTelegram(p, s) \/ PostWebhook(p, s)
  PROVE  TypeInv'
<1>1. /\ AfterTelegram(copy[p][s]) \in Delivering
      /\ "record" \in Delivering
      /\ alert[p].ok \in BOOLEAN
      /\ alert[p].error \in Errors
      /\ {"telegram", "webhook"} \subseteq Started
      /\ {"none", "telegram", "webhook"} \subseteq Errors
  BY StagesTyped DEF TypeInv, TypeOK, Alert, Delivering, Started, Errors
<1>2. CASE SendTelegram(p, s)
  <2>1. PICK taken \in BOOLEAN, raised \in BOOLEAN :
          /\ Take(taken, p, s, "telegram")
          /\ IF raised THEN Attempted(p, s, FALSE, "telegram")
                       ELSE Attempted(p, s, TRUE, "none")
    BY <1>2 DEF SendTelegram
  <2>2. PICK ok \in BOOLEAN, error \in Errors : Attempted(p, s, ok, error)
    BY <1>1, <2>1
  <2>3. QED
    BY <1>1, <1>2, <2>1, <2>2, TypeAttempt DEF SendTelegram
<1>3. CASE PostWebhook(p, s)
  <2>1. PICK taken \in BOOLEAN, raised \in BOOLEAN :
          /\ Take(taken, p, s, "webhook")
          /\ IF raised THEN Attempted(p, s, alert[p].ok, "webhook")
                       ELSE Attempted(p, s, TRUE, alert[p].error)
    BY <1>3 DEF PostWebhook
  <2>2. PICK ok \in BOOLEAN, error \in Errors : Attempted(p, s, ok, error)
    BY <1>1, <2>1
  <2>3. /\ work[p][s] \in Started
        /\ work' = [work EXCEPT ![p][s] = "record"]
        /\ UNCHANGED <<oracle, table, copy, answer>>
    BY <1>1, <1>3 DEF PostWebhook
  <2>4. QED
    BY <1>1, <2>1, <2>2, <2>3, TypeAttempt
<1>4. QED
  BY <1>2, <1>3

\* Updating a sequence outside its domain changes nothing.
LEMMA ExceptOutside ==
  ASSUME NEW S, NEW q \in Seq(S), NEW i, i \notin 1 .. Len(q), NEW e
  PROVE  [q EXCEPT ![i] = e] = q
<1>1. DOMAIN q = 1 .. Len(q) /\ q = [j \in 1 .. Len(q) |-> q[j]]
  OBVIOUS
<1>2. [q EXCEPT ![i] = e] = [j \in 1 .. Len(q) |-> q[j]]
  BY <1>1
<1>3. QED
  BY <1>1, <1>2

LEMMA TypeRecord ==
  ASSUME TypeInv, NEW p \in Pollers, NEW s \in Subs, RecordDelivery(p, s)
  PROVE  TypeInv'
<1> DEFINE i == alert[p].index
           e == [events[s][i] EXCEPT !.delivered = alert[p].ok, !.error = alert[p].error]
<1>1. events[s] \in Seq(Event) /\ alert[p] \in Alert
  BY DEF TypeInv, TypeOK
<1>2. [events[s] EXCEPT ![i] = e] \in Seq(Event)
  <2>1. CASE i \in 1 .. Len(events[s])
    <3>1. events[s][i] \in Event
      BY <1>1, <2>1
    <3>2. e \in Event
      BY <1>1, <3>1 DEF Event, Alert
    <3>3. QED
      BY <1>1, <2>1, <3>2
  <2>2. CASE i \notin 1 .. Len(events[s])
    BY <1>1, <2>2, ExceptOutside
  <2>3. QED
    BY <2>1, <2>2
<1>3. events' = [events EXCEPT ![s] = [events[s] EXCEPT ![i] = e]]
  BY DEF RecordDelivery, OwnIndex, TypeInv, TypeOK
<1>4. events' \in [Subs -> Seq(Event)]
  BY <1>2, <1>3 DEF TypeInv, TypeOK
<1>5. /\ work' \in [Pollers -> [Subs -> Stages]]
      /\ copy' \in [Pollers -> [Subs -> Row]]
      /\ answer' \in [Pollers -> States \cup {"none"}]
      /\ alert' \in [Pollers -> Alert]
      /\ Sessions'
  BY TypeLeave DEF RecordDelivery, Started, Delivering
<1>6. QED
  BY <1>4, <1>5 DEF TypeInv, TypeOK, RecordDelivery, ActiveExist, Exists

LEMMA TypePollStep ==
  ASSUME TypeInv, NEW p \in Pollers, PollStep(p)
  PROVE  TypeInv'
<1>1. ASSUME NEW s \in Subs, ResolveFails(p, s) \/ NoChange(p, s) PROVE TypeInv'
  <2>1. work[p][s] \in Started \/ ~Busy(p)
    BY <1>1 DEF ResolveFails, NoChange, Started
  <2>2. QED
    BY <1>1, <2>1, TypeLeave
    DEF TypeInv, TypeOK, ResolveFails, NoChange, ActiveExist, Exists
<1>2. CASE Abort(p)
  BY <1>2, TypeDrop DEF Abort
<1>3. QED
  BY <1>1, <1>2, TypeResolve, TypeCommit, TypeSend, TypeRecord DEF PollStep

LEMMA TypeNext == TypeInv /\ [Next]_vars => TypeInv'
<1> SUFFICES ASSUME TypeInv, [Next]_vars PROVE TypeInv'
  OBVIOUS
<1>1. CASE StartCycle
  <2>1. Load(Loop, Active) /\ Loop \in Pollers
    BY <1>1 DEF StartCycle, Pollers
  <2>2. Active \in SUBSET Subs /\ \A s \in Active : Exists(s)
    BY DEF Active, TypeInv, ActiveExist
  <2>3. QED
    BY <2>1, <2>2, TypeLoad
<1>2. ASSUME NEW c \in Checks, NEW s \in Subs, StartCheck(c, s) PROVE TypeInv'
  <2>1. c \in Pollers /\ Exists(s) /\ Load(c, {s}) /\ {s} \in SUBSET Subs
    BY <1>2 DEF StartCheck, Reachable, Pollers
  <2>2. QED
    BY <2>1, TypeLoad
<1>3. CASE Restart
  BY <1>3, TypeDrop DEF Restart
<1>4. CASE UNCHANGED vars
  BY <1>4 DEF vars, TypeInv, TypeOK, Sessions, Session, ActiveExist, Exists
<1>5. QED
  BY <1>1, <1>2, <1>3, <1>4, TypeOracleStep, TypeOwnerStep, TypePollStep DEF Next

\* The type invariant holds of every reachable state, with what each stage of a
\* poller's work says of its copies.
THEOREM Typing == Spec => []TypeInv
BY TypeInit, TypeNext, PTL DEF Spec

\* TypeOK, the invariant the runs check.
THEOREM TypeCorrect == Spec => []TypeOK
<1>1. TypeInv => TypeOK
  BY DEF TypeInv
<1>2. QED
  BY <1>1, Typing, PTL

-----------------------------------------------------------------------------
(* What a step may do to the tables.                                         *)

\* Only these steps write monitor_subscriptions or monitor_events.
TableStep ==
  \/ \E s \in Subs : \/ \E b \in States : Create(s, b)
                     \/ SetWebhook(s)
                     \/ Unsubscribe(s)
  \/ Unwatch
  \/ \E p \in Pollers, s \in Subs : CommitEvent(p, s) \/ RecordDelivery(p, s)

LEMMA TableSteps == [Next]_vars => TableStep \/ UNCHANGED table
<1> SUFFICES ASSUME [Next]_vars PROVE TableStep \/ UNCHANGED table
  OBVIOUS
<1>1. CASE OracleStep
  BY <1>1 DEF OracleStep, Propose, Dispute, Close, Pause, Resume, OracleMoves
<1>2. CASE OwnerStep
  BY <1>2 DEF OwnerStep, TableStep
<1>3. CASE StartCycle \/ \E c \in Checks, s \in Subs : StartCheck(c, s)
  BY <1>3 DEF StartCycle, StartCheck, Load
<1>4. ASSUME NEW p \in Pollers, PollStep(p) PROVE TableStep \/ UNCHANGED table
  <2>1. CASE \E s \in Subs : CommitEvent(p, s) \/ RecordDelivery(p, s)
    BY <2>1 DEF TableStep
  <2>2. CASE \E s \in Subs : \/ Resolve(p, s) \/ ResolveFails(p, s) \/ NoChange(p, s)
                             \/ SendTelegram(p, s) \/ PostWebhook(p, s)
    BY <2>2 DEF Resolve, ResolveFails, NoChange, SendTelegram, PostWebhook
  <2>3. CASE Abort(p)
    BY <2>3 DEF Abort, Drop
  <2>4. QED
    BY <1>4, <2>1, <2>2, <2>3 DEF PollStep
<1>5. CASE Restart
  BY <1>5 DEF Restart, Drop
<1>6. CASE UNCHANGED vars
  BY <1>6 DEF vars
<1>7. QED
  BY <1>1, <1>2, <1>3, <1>4, <1>5, <1>6 DEF Next

\* CommitEvent appends one event to s, whose row it advances, and touches no
\* other subscription.
LEMMA CommitAppends ==
  ASSUME TypeInv, NEW p \in Pollers, NEW s \in Subs, CommitEvent(p, s)
  PROVE  /\ answer[p] \in States
         /\ Len(events'[s]) = Len(events[s]) + 1
         /\ events'[s][Len(events[s]) + 1].old = copy[p][s].last
         /\ events'[s][Len(events[s]) + 1].new = answer[p]
         /\ \A i \in 1 .. Len(events[s]) : events'[s][i] = events[s][i]
         /\ \A t \in Subs \ {s} : events'[t] = events[t] /\ subs'[t] = subs[t]
         /\ subs'[s] = Flush(subs[s], copy[p][s], answer[p])
<1> DEFINE e == [old |-> copy[p][s].last, new |-> answer[p],
                 delivered |-> FALSE, error |-> "none"]
<1>1. answer[p] \in States /\ copy[p][s].last \in States
  BY DEF TypeInv, Sessions, Session, CommitEvent
<1>2. events \in [Subs -> Seq(Event)] /\ events[s] \in Seq(Event) /\ subs \in [Subs -> Row]
  BY DEF TypeInv, TypeOK
<1>3. e \in Event
  BY <1>1 DEF Event, Errors
<1>4. events'[s] = Append(events[s], e)
  BY <1>2 DEF CommitEvent
<1>5. /\ Len(events'[s]) = Len(events[s]) + 1
      /\ events'[s][Len(events[s]) + 1] = e
      /\ \A i \in 1 .. Len(events[s]) : events'[s][i] = events[s][i]
  BY <1>2, <1>3, <1>4
<1>6. QED
  BY <1>1, <1>2, <1>5 DEF CommitEvent

\* RecordDelivery only fills in the outcome of an event.
LEMMA RecordKeeps ==
  ASSUME TypeInv, NEW p \in Pollers, NEW s \in Subs, RecordDelivery(p, s)
  PROVE  /\ subs' = subs
         /\ \A t \in Subs :
              /\ Len(events'[t]) = Len(events[t])
              /\ \A i \in 1 .. Len(events[t]) : /\ events'[t][i].old = events[t][i].old
                                                /\ events'[t][i].new = events[t][i].new
<1> DEFINE i == alert[p].index
           e == [events[s][i] EXCEPT !.delivered = alert[p].ok, !.error = alert[p].error]
<1>1. events \in [Subs -> Seq(Event)] /\ events[s] \in Seq(Event)
  BY DEF TypeInv, TypeOK
<1>2. events' = [events EXCEPT ![s] = [events[s] EXCEPT ![i] = e]]
  BY <1>1 DEF RecordDelivery, OwnIndex
<1>3. \A t \in Subs \ {s} : events'[t] = events[t]
  BY <1>1, <1>2
<1>4. CASE i \in 1 .. Len(events[s])
  <2>1. events[s][i] \in Event
    BY <1>1, <1>4
  <2>2. e.old = events[s][i].old /\ e.new = events[s][i].new
    BY <2>1 DEF Event
  <2>3. events'[s] = [events[s] EXCEPT ![i] = e]
    BY <1>1, <1>2
  <2>4. /\ Len(events'[s]) = Len(events[s])
        /\ \A j \in 1 .. Len(events[s]) :
             events'[s][j] = IF j = i THEN e ELSE events[s][j]
    BY <1>1, <1>4, <2>3
  <2>5. QED
    BY <1>3, <2>2, <2>4 DEF RecordDelivery
<1>5. CASE i \notin 1 .. Len(events[s])
  <2>1. events'[s] = events[s]
    BY <1>1, <1>2, <1>5, ExceptOutside
  <2>2. QED
    BY <1>3, <2>1 DEF RecordDelivery
<1>6. QED
  BY <1>4, <1>5

-----------------------------------------------------------------------------
(* However pollers interleave.                                               *)

LEMMA StickStep ==
  ASSUME TypeInv, [Next]_vars, NEW s \in Subs, Exists(s)
  PROVE  /\ Exists(s)'
         /\ ~subs[s].active => ~subs'[s].active
         /\ subs'[s].webhook # subs[s].webhook => SetWebhook(s)
<1> USE DEF Exists
<1>1. subs \in [Subs -> Row] /\ subs[s] \in Row
  BY DEF TypeInv, TypeOK
<1>2. ASSUME NEW t \in Subs, NEW b \in States, Create(t, b) PROVE subs'[s] = subs[s]
  BY <1>1, <1>2 DEF Create
<1>3. ASSUME NEW t \in Subs, SetWebhook(t) \/ Unsubscribe(t)
      PROVE  /\ subs'[s].last = subs[s].last
             /\ ~subs[s].active => ~subs'[s].active
             /\ subs'[s].webhook # subs[s].webhook => SetWebhook(s)
  <2>1. CASE s = t /\ SetWebhook(t)
    <3>1. PICK given \in BOOLEAN : subs' = [subs EXCEPT ![t] = [subs[t] EXCEPT !.webhook = given]]
      BY <2>1 DEF SetWebhook
    <3>2. QED
      BY <1>1, <2>1, <3>1 DEF Row
  <2>2. CASE s # t \/ Unsubscribe(t)
    BY <1>1, <1>3, <2>2 DEF SetWebhook, Unsubscribe, Row
  <2>3. QED
    BY <1>3, <2>1, <2>2
<1>4. CASE Unwatch
  BY <1>1, <1>4 DEF Unwatch, Row
<1>5. ASSUME NEW p \in Pollers, NEW t \in Subs, CommitEvent(p, t)
      PROVE  /\ Exists(s)'
             /\ ~subs[s].active => ~subs'[s].active
             /\ subs'[s].webhook = subs[s].webhook
  <2>1. CASE s = t
    <3>1. answer[p] \in States /\ subs'[s] = Flush(subs[s], copy[p][s], answer[p])
      BY <1>5, <2>1, CommitAppends
    <3>2. QED
      BY <1>1, <3>1 DEF Flush, Row, States
  <2>2. CASE s # t
    BY <1>5, <2>2, CommitAppends
  <2>3. QED
    BY <2>1, <2>2
<1>6. ASSUME NEW p \in Pollers, NEW t \in Subs, RecordDelivery(p, t) PROVE subs' = subs
  BY <1>6, RecordKeeps
<1>7. QED
  BY <1>2, <1>3, <1>4, <1>5, <1>6, TableSteps DEF TableStep

\* Whatever its owner stopped or configured stays so until the owner's next request,
\* for any number of pollers holding copies of any age.
THEOREM OwnersWritesStick == Spec => OwnerWritesStick
<1>1. TypeInv /\ [Next]_vars =>
        [\A s \in Subs :
           Exists(s) => /\ Exists(s)'
                        /\ ~subs[s].active => ~subs'[s].active
                        /\ subs'[s].webhook # subs[s].webhook => SetWebhook(s)]_vars
  BY StickStep
<1>2. QED
  BY <1>1, Typing, PTL DEF Spec, OwnerWritesStick

\* A row that was never created has no alerts, so that Create finds none.
AlertsExist == \A s \in Subs : events[s] # << >> => Exists(s)

LEMMA AlertsExistNext == TypeInv /\ AlertsExist /\ [Next]_vars => AlertsExist'
<1> SUFFICES ASSUME TypeInv, AlertsExist, [Next]_vars,
                    NEW s \in Subs, events'[s] # << >>
             PROVE  Exists(s)'
  BY DEF AlertsExist
<1>1. events[s] \in Seq(Event) /\ subs \in [Subs -> Row]
  BY DEF TypeInv, TypeOK
<1>2. CASE Exists(s)
  BY <1>2, StickStep
<1>3. CASE ~Exists(s)
  <2>1. events[s] = << >>
    BY <1>3 DEF AlertsExist
  <2>2. ASSUME NEW t \in Subs, NEW b \in States, Create(t, b) PROVE FALSE
    BY <2>1, <2>2 DEF Create
  <2>3. ASSUME NEW t \in Subs, SetWebhook(t) \/ Unsubscribe(t) PROVE FALSE
    BY <2>1, <2>3 DEF SetWebhook, Unsubscribe
  <2>4. CASE Unwatch
    BY <2>1, <2>4 DEF Unwatch
  <2>5. ASSUME NEW p \in Pollers, NEW t \in Subs, CommitEvent(p, t) PROVE Exists(s)'
    <3>1. s = t
      BY <2>1, <2>5, CommitAppends
    <3>2. answer[p] \in States /\ subs'[s] = Flush(subs[s], copy[p][s], answer[p])
      BY <2>5, <3>1, CommitAppends
    <3>3. QED
      BY <1>1, <3>2 DEF Flush, Row, States, Exists
  <2>6. ASSUME NEW p \in Pollers, NEW t \in Subs, RecordDelivery(p, t) PROVE FALSE
    <3>1. Len(events'[s]) = 0 /\ events' \in [Subs -> Seq(Event)]
      BY <2>1, <2>6, RecordKeeps, TypeNext DEF TypeInv, TypeOK
    <3>2. QED
      BY <3>1
  <2>7. CASE UNCHANGED table
    BY <2>1, <2>7
  <2>8. QED
    BY <2>2, <2>3, <2>4, <2>5, <2>6, <2>7, TableSteps DEF TableStep
<1>4. QED
  BY <1>2, <1>3

StopsInv == TypeInv /\ AlertsExist /\ ResolvedStops

LEMMA StopsNext == StopsInv /\ [Next]_vars => StopsInv'
<1> SUFFICES ASSUME StopsInv, [Next]_vars PROVE StopsInv'
  OBVIOUS
<1>1. TypeInv' /\ AlertsExist'
  BY TypeNext, AlertsExistNext DEF StopsInv
<1>2. ASSUME NEW s \in Subs, NEW i \in 1 .. Len(events'[s]),
             events'[s][i].new \in Terminal
      PROVE  ~subs'[s].active
  <2>1. /\ subs \in [Subs -> Row] /\ subs[s] \in Row /\ events[s] \in Seq(Event)
        /\ events'[s] \in Seq(Event) /\ TypeInv
    BY <1>1 DEF StopsInv, TypeInv, TypeOK
  <2>2. CASE i \in 1 .. Len(events[s]) /\ events[s][i].new \in Terminal
    <3>1. ~subs[s].active
      BY <2>2 DEF StopsInv, ResolvedStops
    <3>2. Exists(s)
      BY <2>1, <2>2 DEF StopsInv, AlertsExist
    <3>3. QED
      BY <2>1, <3>1, <3>2, StickStep
  <2>3. CASE ~(i \in 1 .. Len(events[s]) /\ events[s][i].new \in Terminal)
    <3>1. ASSUME NEW p \in Pollers, NEW t \in Subs, CommitEvent(p, t)
          PROVE  ~subs'[s].active
      <4>1. s = t /\ i = Len(events[s]) + 1
        BY <1>2, <2>1, <2>3, <3>1, CommitAppends
      <4>2. /\ answer[p] \in Terminal
            /\ subs'[s] = Flush(subs[s], copy[p][s], answer[p])
        BY <1>2, <2>1, <3>1, <4>1, CommitAppends
      <4>3. QED
        BY <2>1, <4>2 DEF Flush, Row
    <3>2. ASSUME NEW p \in Pollers, NEW t \in Subs, RecordDelivery(p, t) PROVE FALSE
      BY <1>2, <2>1, <2>3, <3>2, RecordKeeps
    <3>3. CASE events' = events
      BY <1>2, <2>3, <3>3
    <3>4. QED
      BY <3>1, <3>2, <3>3, TableSteps
      DEF TableStep, Create, SetWebhook, Unsubscribe, Unwatch
  <2>4. QED
    BY <2>2, <2>3
<1>3. QED
  BY <1>1, <1>2 DEF StopsInv, ResolvedStops

\* A subscription that had its RESOLVED alert is inactive, however many pollers
\* hold older copies of it.
THEOREM ResolvedAlertStops == Spec => []ResolvedStops
<1>1. Init => StopsInv
  BY TypeInit DEF Init, StopsInv, AlertsExist, ResolvedStops
<1>2. StopsInv => ResolvedStops
  BY DEF StopsInv
<1>3. QED
  BY <1>1, <1>2, StopsNext, PTL DEF Spec

-----------------------------------------------------------------------------
(* With the background loop as the only poller. Its copies are old, and yet   *)
(* what they say of last_oracle_state is current until it commits: no owner's *)
(* request writes that column and no one else polls.                          *)

LoopCurrent ==
  \A s \in Subs :
    work[Loop][s] \in {"todo", "answered"} => copy[Loop][s].last = subs[s].last

LEMMA LoopCurrentNext ==
  ASSUME Checks = {}, TypeInv, LoopCurrent, [Next]_vars
  PROVE  LoopCurrent'
<1> SUFFICES ASSUME NEW s \in Subs, work'[Loop][s] \in {"todo", "answered"}
             PROVE  copy'[Loop][s].last = subs'[s].last
  BY DEF LoopCurrent
<1>1. /\ Pollers = {Loop}
      /\ subs \in [Subs -> Row] /\ subs[s] \in Row
      /\ work \in [{Loop} -> [Subs -> Stages]]
      /\ copy \in [{Loop} -> [Subs -> Row]]
  BY DEF Pollers, TypeInv, TypeOK
<1>2. CASE OracleStep
  BY <1>2 DEF OracleStep, Propose, Dispute, Close, Pause, Resume, OracleMoves, LoopCurrent
<1>3. CASE OwnerStep
  <2>1. work' = work /\ copy' = copy
    BY <1>3 DEF OwnerStep, Create, SetWebhook, Unsubscribe, Unwatch
  <2>2. Exists(s)
    BY <1>1, <2>1 DEF LoopCurrent, TypeInv, Sessions, Session, Exists, States
  <2>3. ASSUME NEW t \in Subs, NEW b \in States, Create(t, b)
        PROVE  subs'[s].last = subs[s].last
    BY <1>1, <2>2, <2>3 DEF Create, Exists
  <2>4. ASSUME NEW t \in Subs, SetWebhook(t) \/ Unsubscribe(t)
        PROVE  subs'[s].last = subs[s].last
    <3>1. CASE SetWebhook(t)
      BY <1>1, <3>1 DEF SetWebhook, Row
    <3>2. CASE Unsubscribe(t)
      BY <1>1, <3>2 DEF Unsubscribe, Row
    <3>3. QED
      BY <2>4, <3>1, <3>2
  <2>5. ASSUME Unwatch PROVE subs'[s].last = subs[s].last
    BY <1>1, <2>5 DEF Unwatch, Row
  <2>6. QED
    BY <1>3, <2>1, <2>3, <2>4, <2>5 DEF OwnerStep, LoopCurrent
<1>4. CASE StartCycle
  <2>1. s \in Active
    BY <1>1, <1>4 DEF StartCycle, Load
  <2>2. QED
    BY <1>1, <1>4, <2>1 DEF StartCycle, Load
<1>5. ASSUME PollStep(Loop) PROVE copy'[Loop][s].last = subs'[s].last
  <2>1. ASSUME NEW t \in Subs, Leave(Loop, t), subs' = subs
        PROVE  copy'[Loop][s].last = subs'[s].last
    BY <1>1, <2>1 DEF Leave, LoopCurrent
  <2>2. ASSUME NEW t \in Subs, Resolve(Loop, t)
        PROVE  copy'[Loop][s].last = subs'[s].last
    BY <1>1, <2>2 DEF Resolve, LoopCurrent
  <2>3. ASSUME NEW t \in Subs, CommitEvent(Loop, t)
        PROVE  copy'[Loop][s].last = subs'[s].last
    <3>1. FirstAttempt(t, copy[Loop][t]) \in Delivering
      BY <1>1, StagesTyped
    <3>2. s # t
      BY <1>1, <2>3, <3>1 DEF CommitEvent, Delivering
    <3>3. subs'[s] = subs[s]
      BY <1>1, <2>3, <3>2, CommitAppends
    <3>4. QED
      BY <1>1, <2>3, <3>2, <3>3 DEF CommitEvent, LoopCurrent
  <2>4. ASSUME NEW t \in Subs, SendTelegram(Loop, t) \/ PostWebhook(Loop, t)
        PROVE  copy'[Loop][s].last = subs'[s].last
    <3>1. PICK x \in Delivering : work' = [work EXCEPT ![Loop][t] = x]
      BY <2>4 DEF SendTelegram, PostWebhook, AfterTelegram, Delivering
    <3>2. work'[Loop][t] = x /\ \A u \in Subs \ {t} : work'[Loop][u] = work[Loop][u]
      BY <1>1, <3>1
    <3>3. s # t /\ work'[Loop][s] = work[Loop][s]
      BY <3>2 DEF Delivering
    <3>4. QED
      BY <2>4, <3>3 DEF SendTelegram, PostWebhook, LoopCurrent
  <2>5. CASE Abort(Loop)
    BY <1>1, <2>5 DEF Abort, Drop
  <2>6. QED
    BY <1>5, <2>1, <2>2, <2>3, <2>4, <2>5
    DEF PollStep, ResolveFails, NoChange, RecordDelivery
<1>6. CASE Restart
  BY <1>1, <1>6 DEF Restart, Drop
<1>7. CASE UNCHANGED vars
  BY <1>7 DEF vars, LoopCurrent
<1>8. QED
  BY <1>1, <1>2, <1>3, <1>4, <1>5, <1>6, <1>7 DEF Next

ChainInv == TypeInv /\ AlertsExist /\ LoopCurrent /\ Chained

LEMMA ChainNext == Checks = {} /\ ChainInv /\ [Next]_vars => ChainInv'
<1> SUFFICES ASSUME Checks = {}, ChainInv, [Next]_vars PROVE ChainInv'
  OBVIOUS
<1>1. TypeInv' /\ AlertsExist' /\ LoopCurrent'
  BY TypeNext, AlertsExistNext, LoopCurrentNext DEF ChainInv
<1>2. ASSUME NEW s \in Subs
      PROVE  /\ \A i \in 1 .. Len(events'[s]) - 1 :
                   events'[s][i + 1].old = events'[s][i].new
             /\ events'[s] # << >> => events'[s][Len(events'[s])].new = subs'[s].last
  <2>1. /\ TypeInv /\ subs \in [Subs -> Row] /\ subs[s] \in Row
        /\ events[s] \in Seq(Event) /\ events'[s] \in Seq(Event)
        /\ Len(events[s]) \in Nat
    BY <1>1 DEF ChainInv, TypeInv, TypeOK
  <2>2. /\ \A i \in 1 .. Len(events[s]) - 1 : events[s][i + 1].old = events[s][i].new
        /\ events[s] # << >> => events[s][Len(events[s])].new = subs[s].last
        /\ events[s] # << >> => Exists(s)
    BY DEF ChainInv, Chained, AlertsExist
  <2>3. ASSUME events' = events, events[s] # << >> => subs'[s].last = subs[s].last
        PROVE  /\ \A i \in 1 .. Len(events'[s]) - 1 :
                     events'[s][i + 1].old = events'[s][i].new
               /\ events'[s] # << >> => events'[s][Len(events'[s])].new = subs'[s].last
    BY <2>2, <2>3
  <2>4. ASSUME NEW p \in Pollers, NEW t \in Subs, CommitEvent(p, t)
        PROVE  /\ \A i \in 1 .. Len(events'[s]) - 1 :
                     events'[s][i + 1].old = events'[s][i].new
               /\ events'[s] # << >> => events'[s][Len(events'[s])].new = subs'[s].last
    <3>1. CASE s = t
      <4>1. p = Loop /\ work[Loop][s] = "answered"
        BY <2>4, <3>1 DEF Pollers, CommitEvent
      <4>2. copy[p][s].last = subs[s].last
        BY <4>1 DEF ChainInv, LoopCurrent
      <4>3. /\ Len(events'[s]) = Len(events[s]) + 1
            /\ events'[s][Len(events[s]) + 1].old = subs[s].last
            /\ events'[s][Len(events[s]) + 1].new = answer[p]
            /\ \A i \in 1 .. Len(events[s]) : events'[s][i] = events[s][i]
            /\ subs'[s].last = answer[p]
        <5>1. subs'[s] = Flush(subs[s], copy[p][s], answer[p])
          BY <2>1, <2>4, <3>1, CommitAppends
        <5>2. subs'[s].last = answer[p]
          BY <2>1, <5>1 DEF Flush, Row
        <5>3. QED
          BY <2>1, <2>4, <3>1, <4>2, <5>2, CommitAppends
      <4>4. ASSUME NEW i \in 1 .. Len(events[s])
            PROVE  events'[s][i + 1].old = events'[s][i].new
        <5>1. CASE i = Len(events[s])
          BY <2>1, <2>2, <4>3, <5>1
        <5>2. CASE i # Len(events[s])
          <6>1. i \in 1 .. Len(events[s]) - 1 /\ i + 1 \in 1 .. Len(events[s])
            BY <2>1, <5>2
          <6>2. events'[s][i] = events[s][i] /\ events'[s][i + 1] = events[s][i + 1]
            BY <4>3, <6>1
          <6>3. QED
            BY <2>2, <6>1, <6>2
        <5>3. QED
          BY <5>1, <5>2
      <4>5. QED
        BY <2>1, <4>3, <4>4
    <3>2. CASE s # t
      BY <2>2, <2>4, <3>2, CommitAppends, <2>1
    <3>3. QED
      BY <3>1, <3>2
  <2>5. ASSUME NEW p \in Pollers, NEW t \in Subs, RecordDelivery(p, t)
        PROVE  /\ \A i \in 1 .. Len(events'[s]) - 1 :
                     events'[s][i + 1].old = events'[s][i].new
               /\ events'[s] # << >> => events'[s][Len(events'[s])].new = subs'[s].last
    <3>1. /\ subs' = subs
          /\ Len(events'[s]) = Len(events[s])
          /\ \A i \in 1 .. Len(events[s]) : /\ events'[s][i].old = events[s][i].old
                                            /\ events'[s][i].new = events[s][i].new
      BY <2>1, <2>5, RecordKeeps
    <3>2. events'[s] # << >> => events[s] # << >> /\ Len(events[s]) \in 1 .. Len(events[s])
      BY <2>1, <3>1
    <3>3. ASSUME NEW i \in 1 .. Len(events[s]) - 1
          PROVE  events'[s][i + 1].old = events'[s][i].new
      <4>1. i \in 1 .. Len(events[s]) /\ i + 1 \in 1 .. Len(events[s])
        BY <2>1
      <4>2. QED
        BY <2>2, <3>1, <4>1
    <3>4. events'[s] # << >> => events'[s][Len(events'[s])].new = subs'[s].last
      BY <2>2, <3>1, <3>2
    <3>5. QED
      BY <3>1, <3>3, <3>4
  <2>6. ASSUME \/ \E t \in Subs : \/ \E b \in States : Create(t, b)
                                 \/ SetWebhook(t)
                                 \/ Unsubscribe(t)
               \/ Unwatch
        PROVE  events' = events /\ (Exists(s) => subs'[s].last = subs[s].last)
    BY <2>1, <2>6 DEF Create, SetWebhook, Unsubscribe, Unwatch, Exists, Row
  <2>7. QED
    BY <2>2, <2>3, <2>4, <2>5, <2>6, TableSteps DEF TableStep
<1>3. QED
  BY <1>1, <1>2 DEF ChainInv, Chained

\* With the loop as the only poller the alerts of a subscription are one unbroken
\* history that ends in the state its row holds.
THEOREM LoopAlertsChain == Checks = {} => (Spec => []Chained)
<1> SUFFICES ASSUME Checks = {} PROVE Spec => []Chained
  OBVIOUS
<1>1. Init => ChainInv
  BY TypeInit DEF Init, ChainInv, AlertsExist, LoopCurrent, Chained, Pollers
<1>2. ChainInv /\ [Next]_vars => ChainInv'
  BY ChainNext
<1>3. ChainInv => Chained
  BY DEF ChainInv
<1>4. QED
  BY <1>1, <1>2, <1>3, PTL DEF Spec
=============================================================================
