------------------------------ MODULE Monitor ------------------------------
(***************************************************************************)
(* The oracle monitor: app/services/monitor.py and the routes of           *)
(* app/main.py that call it.                                               *)
(*                                                                         *)
(* A subscription remembers the last oracle state it saw of its market.    *)
(* Two kinds of poller re-resolve it: the background loop, which SELECTs    *)
(* the active subscriptions once per cycle and then polls them one after   *)
(* the other, and POST /monitors/{id}/check, which polls the one it names. *)
(* Each poller works on its own in-memory copies of the rows (sessions are *)
(* opened with expire_on_commit=False, so a copy is never read again), and *)
(* its UPDATE writes only the columns it changed.                          *)
(*                                                                         *)
(* Every await is a point where other actions may run: between loading a   *)
(* row and the market's answer, between the answer's commit and each       *)
(* delivery attempt, and between the last attempt and recording it.        *)
(***************************************************************************)
EXTENDS Naturals, Sequences

CONSTANTS
  Subs,           \* the subscriptions that may be created
  Markets,        \* the markets they watch
  Checks,         \* requests of POST /monitors/{id}/check in flight at once
  Loop,           \* the background poller
  MarketOf,       \* MarketOf[s]: the market s watches
  Owner,          \* Owner[s]: how s was created, and so who can reach it
  TelegramToken,  \* whether telegram_bot_token is configured
  MaxAlerts       \* bound on the alerts recorded of one subscription

\* "key": /verify with an API key.  "chat": the bot's /watch.  "mcp": the MCP
\* tool, which stores neither an API key nor a chat.
Owners == {"key", "chat", "mcp"}

ASSUME MonitorAssumption ==
  /\ Loop \notin Checks
  /\ MarketOf \in [Subs -> Markets]
  /\ Owner \in [Subs -> Owners]
  /\ TelegramToken \in BOOLEAN
  /\ MaxAlerts \in Nat

Pollers == {Loop} \cup Checks

\* The states the resolver produces. OracleState also has UNDISPUTED, which no
\* resolver returns.
States == {"UNRESOLVED", "PROPOSED", "DISPUTED", "RESOLVED", "UNKNOWN"}

Terminal == {"RESOLVED"}

Statuses == {"proposed", "disputed"}

VARIABLES
  market,     \* market[m]: what Gamma serves for m
  shown,      \* shown[m]: the states m has been in, any of which a cached or
              \* in-flight resolution may still carry
  subs,       \* the table monitor_subscriptions
  events,     \* the table monitor_events, per subscription, in id order
  received,   \* <<s, i, channel>>: the channel's receiver took event i of s
  work,       \* work[p][s]: how far poller p is with subscription s
  copy,       \* copy[p][s]: the row of s as p loaded it
  answer,     \* answer[p]: the oracle state p's last resolution returned
  alert       \* alert[p]: the event p is delivering and what came of it so far

vars == <<market, shown, subs, events, received, work, copy, answer, alert>>
table == <<subs, events>>
session == <<work, copy, answer, alert>>
oracle == <<market, shown>>

-----------------------------------------------------------------------------
(* Types and initial state. *)

Row == [last : States \cup {"none"}, active : BOOLEAN, webhook : BOOLEAN]
NoRow == [last |-> "none", active |-> FALSE, webhook |-> FALSE]

Errors == {"none", "telegram", "webhook"}
Event == [old : States, new : States, delivered : BOOLEAN, error : Errors]

\* "todo": loaded, not polled yet.  "answered": resolved, not committed.
\* "telegram", "webhook": that attempt is next.  "record": the attempts are over.
Delivering == {"telegram", "webhook", "record"}
Started == {"answered"} \cup Delivering
Stages == {"out", "todo"} \cup Started

Alert == [index : Nat, ok : BOOLEAN, error : Errors]
NoAlert == [index |-> 0, ok |-> FALSE, error |-> "none"]

GammaMarket == [closed : BOOLEAN, active : BOOLEAN, statuses : SUBSET Statuses]

\* The types of the tables (app/models.py) and of what the pollers hold.
TypeOK ==
  /\ market \in [Markets -> GammaMarket]
  /\ shown \in [Markets -> SUBSET States]
  /\ subs \in [Subs -> Row]
  /\ events \in [Subs -> Seq(Event)]
  /\ received \subseteq Subs \X Nat \X {"telegram", "webhook"}
  /\ work \in [Pollers -> [Subs -> Stages]]
  /\ copy \in [Pollers -> [Subs -> Row]]
  /\ answer \in [Pollers -> States \cup {"none"}]
  /\ alert \in [Pollers -> Alert]

\* Variant: a proposal reported as UNDISPUTED, a state no poller expects.
OracleStateUndisputed(g) ==
  CASE g.closed -> "RESOLVED"
    [] ~g.closed /\ "disputed" \in g.statuses -> "DISPUTED"
    [] ~g.closed /\ g.statuses = {"proposed"} -> "UNDISPUTED"
    [] ~g.closed /\ g.statuses = {} /\ g.active -> "UNRESOLVED"
    [] OTHER -> "UNKNOWN"

\* PolymarketResolver._oracle_state: closed wins, then a dispute anywhere in the
\* status history, then a proposal, then the market being open for trading.
OracleState(g) ==
  CASE g.closed -> "RESOLVED"
    [] ~g.closed /\ "disputed" \in g.statuses -> "DISPUTED"
    [] ~g.closed /\ g.statuses = {"proposed"} -> "PROPOSED"
    [] ~g.closed /\ g.statuses = {} /\ g.active -> "UNRESOLVED"
    [] OTHER -> "UNKNOWN"

Fresh == [closed |-> FALSE, active |-> TRUE, statuses |-> {}]

Init ==
  /\ market = [m \in Markets |-> Fresh]
  /\ shown = [m \in Markets |-> {"UNRESOLVED"}]
  /\ subs = [s \in Subs |-> NoRow]
  /\ events = [s \in Subs |-> << >>]
  /\ received = {}
  /\ work = [p \in Pollers |-> [s \in Subs |-> "out"]]
  /\ copy = [p \in Pollers |-> [s \in Subs |-> NoRow]]
  /\ answer = [p \in Pollers |-> "none"]
  /\ alert = [p \in Pollers |-> NoAlert]

Exists(s) == subs[s].last # "none"

-----------------------------------------------------------------------------
(* The oracle (outside the program). A dispute follows a proposal, the      *)
(* status history only grows and a market closes once; before the proposal  *)
(* trading may be paused and resumed.                                       *)

OracleMoves(m, g) ==
  /\ market' = [market EXCEPT ![m] = g]
  /\ shown' = [shown EXCEPT ![m] = @ \cup {OracleState(g)}]
  /\ UNCHANGED <<table, received, session>>

Propose(m) ==
  /\ ~market[m].closed
  /\ market[m].active
  /\ market[m].statuses = {}
  /\ OracleMoves(m, [market[m] EXCEPT !.statuses = {"proposed"}])

Dispute(m) ==
  /\ ~market[m].closed
  /\ market[m].statuses = {"proposed"}
  /\ OracleMoves(m, [market[m] EXCEPT !.statuses = Statuses])

Close(m) ==
  /\ ~market[m].closed
  /\ OracleMoves(m, [market[m] EXCEPT !.closed = TRUE])

Pause(m) ==
  /\ ~market[m].closed
  /\ market[m].active
  /\ market[m].statuses = {}
  /\ OracleMoves(m, [market[m] EXCEPT !.active = FALSE])

Resume(m) ==
  /\ ~market[m].closed
  /\ ~market[m].active
  /\ OracleMoves(m, [market[m] EXCEPT !.active = TRUE])

-----------------------------------------------------------------------------
(* The owner's requests. Each loads the row, writes the columns it names and *)
(* commits.                                                                  *)

\* create_subscription. The baseline is what the caller's resolution returned,
\* which may be older than the market: /verify reads it from the market cache
\* and then waits for the analysis.
Create(s, baseline) ==
  /\ ~Exists(s)
  /\ baseline \in shown[MarketOf[s]]
  /\ subs' = [subs EXCEPT ![s] = [last |-> baseline, active |-> TRUE, webhook |-> FALSE]]
  /\ UNCHANGED <<oracle, events, received, session>>

\* get_subscription with the caller's key: what a key's own routes can reach.
\* No key reaches a subscription stored without one.
Reachable(s) == Exists(s) /\ Owner[s] = "key"

\* Any string is written; _deliver takes an empty one for no webhook.
SetWebhook(s) ==
  /\ Reachable(s)
  /\ \E given \in BOOLEAN : subs' = [subs EXCEPT ![s].webhook = given]
  /\ UNCHANGED <<oracle, events, received, session>>

Unsubscribe(s) ==
  /\ Reachable(s)
  /\ subs' = [subs EXCEPT ![s].active = FALSE]
  /\ UNCHANGED <<oracle, events, received, session>>

\* deactivate_by_chat, for the bot's /unwatch (the bot has one chat here).
Watched == {s \in Subs : Owner[s] = "chat" /\ subs[s].active}

Unwatch ==
  /\ Watched # {}
  /\ subs' = [s \in Subs |-> IF s \in Watched THEN [subs[s] EXCEPT !.active = FALSE]
                             ELSE subs[s]]
  /\ UNCHANGED <<oracle, events, received, session>>

-----------------------------------------------------------------------------
(* A poller. *)

Idle(p) == \A s \in Subs : work[p][s] = "out"

\* The poller is past the answer of some subscription: poll_subscription is
\* awaited before the next one starts.
Busy(p) == \E s \in Subs : work[p][s] \in Started

Load(p, S) ==
  /\ Idle(p)
  /\ work' = [work EXCEPT ![p] = [s \in Subs |-> IF s \in S THEN "todo" ELSE "out"]]
  /\ copy' = [copy EXCEPT ![p] = [s \in Subs |-> IF s \in S THEN subs[s] ELSE NoRow]]
  /\ UNCHANGED <<oracle, table, received, answer, alert>>

\* Variant: the SELECT without its filter on active.
Created == {s \in Subs : Exists(s)}

\* run_loop opens a session and poll_all_active SELECTs the active rows. A
\* cycle that finds none changes nothing.
Active == {s \in Subs : subs[s].active}

StartCycle == Active # {} /\ Load(Loop, Active)

\* check_monitor_now loads the row whether it is active or not.
StartCheck(c, s) == Reachable(s) /\ Load(c, {s})

\* poll_subscription returned: nothing of s is kept.
Leave(p, s) ==
  /\ work' = [work EXCEPT ![p][s] = "out"]
  /\ copy' = [copy EXCEPT ![p][s] = NoRow]
  /\ answer' = [answer EXCEPT ![p] = "none"]
  /\ alert' = [alert EXCEPT ![p] = NoAlert]

\* await resolve(...): the answer is the state at the moment Gamma served it.
\* The order of a cycle is the SELECT's, which names none.
Resolve(p, s) ==
  /\ work[p][s] = "todo"
  /\ ~Busy(p)
  /\ work' = [work EXCEPT ![p][s] = "answered"]
  /\ answer' = [answer EXCEPT ![p] = OracleState(market[MarketOf[s]])]
  /\ UNCHANGED <<oracle, table, received, copy, alert>>

\* ResolverError: only last_checked_at is written.
ResolveFails(p, s) ==
  /\ work[p][s] = "todo"
  /\ ~Busy(p)
  /\ Leave(p, s)
  /\ UNCHANGED <<oracle, table, received>>

\* Variant: a lost signal counts as a change.
ChangedAlsoToUnknown(p, s) == answer[p] # copy[p][s].last

\* Variant: only the two high-severity states count as a change.
ChangedToHigh(p, s) == answer[p] \in {"DISPUTED", "RESOLVED"} \ {copy[p][s].last}

\* The comparison is with the copy, not with the row.
Changed(p, s) == answer[p] \notin {copy[p][s].last, "UNKNOWN"}

NoChange(p, s) ==
  /\ work[p][s] = "answered"
  /\ ~Changed(p, s)
  /\ Leave(p, s)
  /\ UNCHANGED <<oracle, table, received>>

\* Variant: last_oracle_state is not advanced.
FlushActiveOnly(row, mem, new) == [row EXCEPT !.active = @ /\ new \notin Terminal]

\* Variant: the UPDATE writes every column from the copy.
FlushWholeRow(row, mem, new) ==
  [mem EXCEPT !.last = new, !.active = @ /\ new \notin Terminal]

\* The UPDATE of a changed subscription: last_oracle_state, and active when the
\* new state is terminal. The other columns are not dirty and not written.
Flush(row, mem, new) ==
  [row EXCEPT !.last = new, !.active = @ /\ new \notin Terminal]

\* _deliver tries Telegram, then the webhook of the copy, then records.
AfterTelegram(mem) == IF mem.webhook THEN "webhook" ELSE "record"
FirstAttempt(s, mem) ==
  IF Owner[s] = "chat" /\ TelegramToken THEN "telegram" ELSE AfterTelegram(mem)

\* The event's INSERT and the row's UPDATE are one transaction.
CommitEvent(p, s) ==
  /\ work[p][s] = "answered"
  /\ Changed(p, s)
  /\ Len(events[s]) < MaxAlerts
  /\ events' = [events EXCEPT ![s] =
        Append(@, [old |-> copy[p][s].last, new |-> answer[p],
                   delivered |-> FALSE, error |-> "none"])]
  /\ subs' = [subs EXCEPT ![s] = Flush(@, copy[p][s], answer[p])]
  /\ work' = [work EXCEPT ![p][s] = FirstAttempt(s, copy[p][s])]
  /\ alert' = [alert EXCEPT ![p] = [NoAlert EXCEPT !.index = Len(events[s]) + 1]]
  /\ UNCHANGED <<oracle, received, copy, answer>>

Attempted(p, s, ok, error) ==
  alert' = [alert EXCEPT ![p].ok = ok, ![p].error = error]

Take(taken, p, s, channel) ==
  received' = IF taken THEN received \cup {<<s, alert[p].index, channel>>} ELSE received

\* send_message returns None when Telegram refuses the message: only a failed
\* request raises.
SendTelegram(p, s) ==
  /\ work[p][s] = "telegram"
  /\ \E taken \in BOOLEAN, raised \in BOOLEAN :
       /\ Take(taken, p, s, "telegram")
       /\ IF raised THEN Attempted(p, s, FALSE, "telegram")
                    ELSE Attempted(p, s, TRUE, "none")
  /\ work' = [work EXCEPT ![p][s] = AfterTelegram(copy[p][s])]
  /\ UNCHANGED <<oracle, table, copy, answer>>

\* A 2xx answer means the receiver took the POST; it may also have taken one
\* whose answer was lost or was an error.
PostWebhook(p, s) ==
  /\ work[p][s] = "webhook"
  /\ \E taken \in BOOLEAN, raised \in BOOLEAN :
       /\ taken \/ raised
       /\ Take(taken, p, s, "webhook")
       /\ IF raised THEN Attempted(p, s, alert[p].ok, "webhook")
                    ELSE Attempted(p, s, TRUE, alert[p].error)
  /\ work' = [work EXCEPT ![p][s] = "record"]
  /\ UNCHANGED <<oracle, table, copy, answer>>

\* Variant: the outcome goes to the subscription's latest event.
LatestIndex(p, s) == Len(events[s])

\* The outcome goes to the event object this poller added.
OwnIndex(p, s) == alert[p].index

RecordDelivery(p, s) ==
  /\ work[p][s] = "record"
  /\ events' = [events EXCEPT ![s][OwnIndex(p, s)] =
        [@ EXCEPT !.delivered = alert[p].ok, !.error = alert[p].error]]
  /\ Leave(p, s)
  /\ UNCHANGED <<oracle, subs, received>>

Drop(P) ==
  /\ work' = [p \in Pollers |-> IF p \in P THEN [s \in Subs |-> "out"] ELSE work[p]]
  /\ copy' = [p \in Pollers |-> IF p \in P THEN [s \in Subs |-> NoRow] ELSE copy[p]]
  /\ answer' = [p \in Pollers |-> IF p \in P THEN "none" ELSE answer[p]]
  /\ alert' = [p \in Pollers |-> IF p \in P THEN NoAlert ELSE alert[p]]
  /\ UNCHANGED <<oracle, table, received>>

\* An exception other than ResolverError (an undecodable answer, a failed
\* commit) leaves poll_subscription: the loop swallows it and sleeps, a check
\* answers 500. The session rolls back and what it had loaded is gone.
Abort(p) == ~Idle(p) /\ Drop({p})

\* The process stops and starts again: every session is lost.
Restart == (\E p \in Pollers : ~Idle(p)) /\ Drop(Pollers)

-----------------------------------------------------------------------------

OracleStep ==
  \E m \in Markets : Propose(m) \/ Dispute(m) \/ Close(m) \/ Pause(m) \/ Resume(m)

OwnerStep ==
  \/ \E s \in Subs : \/ \E b \in States : Create(s, b)
                     \/ SetWebhook(s)
                     \/ Unsubscribe(s)
  \/ Unwatch

PollStep(p) ==
  \/ \E s \in Subs :
       \/ Resolve(p, s)
       \/ ResolveFails(p, s)
       \/ NoChange(p, s)
       \/ CommitEvent(p, s)
       \/ SendTelegram(p, s)
       \/ PostWebhook(p, s)
       \/ RecordDelivery(p, s)
  \/ Abort(p)

Next ==
  \/ OracleStep
  \/ OwnerStep
  \/ StartCycle
  \/ \E c \in Checks, s \in Subs : StartCheck(c, s)
  \/ \E p \in Pollers : PollStep(p)
  \/ Restart

Spec == Init /\ [][Next]_vars

\* What run_loop's scheduling gives: a cycle follows the sleep, a delivery
\* attempt ends (both channels have timeouts), and failures of Gamma and of the
\* database are transient, so an active subscription's resolution and the commit
\* that follows are not put off for ever. Nothing is assumed of the oracle, of
\* the owners, of checks, or against crashes.
Fairness ==
  /\ WF_vars(StartCycle)
  /\ \A s \in Subs :
       /\ SF_vars(Resolve(Loop, s))
       /\ SF_vars(NoChange(Loop, s) \/ CommitEvent(Loop, s))
       /\ WF_vars(SendTelegram(Loop, s) \/ PostWebhook(Loop, s) \/ RecordDelivery(Loop, s))

FairSpec == Spec /\ Fairness

-----------------------------------------------------------------------------
(* Safety. *)

\* With the background loop as the only poller, the alerts of a subscription form
\* one unbroken history: each starts from the state the one before it reported,
\* and the row holds the state the last one reported (poll_subscription builds
\* old_state from a row it loaded at the start of the cycle).
Chained ==
  \A s \in Subs :
    /\ \A i \in 1 .. Len(events[s]) - 1 : events[s][i + 1].old = events[s][i].new
    /\ events[s] # << >> => events[s][Len(events[s])].new = subs[s].last

Rank == [UNKNOWN |-> 0, UNRESOLVED |-> 0, PROPOSED |-> 1, DISPUTED |-> 2, RESOLVED |-> 3]

\* With the loop as the only poller, alerts follow the oracle's life: none repeats
\* or goes back, however late an answer arrives and however often trading is
\* paused (the no-op and UNKNOWN tests of poll_subscription).
Lifecycle ==
  \A s \in Subs : \A i, j \in 1 .. Len(events[s]) :
    i < j => Rank[events[s][i].new] < Rank[events[s][j].new]

\* The loop has loaded s and may yet record an alert of it.
UnderWay(s) == work[Loop][s] \in {"todo", "answered"}

Wish(s) ==
  CASE ~Exists(s) -> "none"
    [] Exists(s) /\ subs[s].active -> "watching"
    [] Exists(s) /\ ~subs[s].active /\ UnderWay(s) -> "stopping"
    [] OTHER -> "stopped"

Told(s) ==
  [i \in 1 .. Len(events[s]) |-> [old |-> events[s][i].old, new |-> events[s][i].new]]

\* With the loop as the only poller, a subscription keeps one promise through
\* stale copies, lost deliveries, aborted cycles and restarts: its alerts tell an
\* unbroken and advancing history of states its market has been in, none is recorded after
\* RESOLVED, and one at most after the owner has stopped it (poll_all_active,
\* poll_subscription, unsubscribe_monitor, deactivate_by_chat).
Promise == INSTANCE AlertPromise WITH
  wish <- [s \in Subs |-> Wish(s)],
  known <- [s \in Subs |-> subs[s].last],
  told <- [s \in Subs |-> Told(s)]

KeepsPromise == Promise!Spec

\* However pollers interleave, once a subscription has had its RESOLVED alert it
\* is inactive: no later commit of a stale copy brings it back (the _TERMINAL
\* branch of poll_subscription).
ResolvedStops ==
  \A s \in Subs : \A i \in 1 .. Len(events[s]) :
    events[s][i].new \in Terminal => ~subs[s].active

\* An alert of a key that is marked delivered was taken by its webhook: the flag is
\* set only after a 2xx answer, and it stays on the event it is about although other
\* pollers append events while the POST is awaited (_deliver).
WebhookDeliveredMeansTaken ==
  \A s \in Subs : \A i \in 1 .. Len(events[s]) :
    Owner[s] = "key" /\ events[s][i].delivered => <<s, i, "webhook">> \in received

\* What the owner has written stays written: a subscription that was stopped is
\* never active again, and only the owner's next request sets or clears its
\* webhook, although pollers hold copies from before a write and commit them after
\* it (unsubscribe_monitor, set_monitor_webhook and deactivate_by_chat against
\* poll_subscription).
OwnerWritesStick ==
  [][\A s \in Subs :
       Exists(s) => /\ Exists(s)'
                    /\ ~subs[s].active => ~subs'[s].active
                    /\ subs'[s].webhook # subs[s].webhook => SetWebhook(s)]_vars

(* Liveness, under FairSpec. *)

\* The loop catches up with the oracle: while a market stays in a state other
\* than UNKNOWN, every active subscription comes to hold that state or is stopped,
\* across failed resolutions, aborted cycles and restarts (run_loop).
Converges ==
  \A s \in Subs : \A x \in States \ {"UNKNOWN"} :
    subs[s].active /\ OracleState(market[MarketOf[s]]) = x
      ~> \/ subs[s].last = x
         \/ ~subs[s].active
         \/ OracleState(market[MarketOf[s]]) # x

(* What the repository says and the code does not do. *)

\* tests/test_monitor.py:91 "Same state again -> no new alert."
NoDuplicateAlert ==
  \A s \in Subs : \A i \in 1 .. Len(events[s]) - 1 :
    events[s][i].new # events[s][i + 1].new

\* telegram.py:33 "/unwatch - stop all alerts": no alert is recorded for a
\* subscription the bot has stopped.
UnwatchStopsAlerts ==
  [][\A s \in Subs :
       Owner[s] = "chat" /\ Exists(s) /\ ~subs[s].active
         => Len(events'[s]) = Len(events[s])]_vars
=============================================================================
