----------------------------- MODULE TelegramBot -----------------------------
(***************************************************************************)
(* The bot in one chat: telegram_webhook and handle_telegram_update of      *)
(* app/main.py, the helpers of app/telegram.py, the list of message ids in  *)
(* Redis (list_push, list_pop_all) and the chat's rows of                   *)
(* monitor_subscriptions.                                                   *)
(*                                                                         *)
(* The webhook answers Telegram at once and starts a task per update, so    *)
(* tasks of one chat overlap at every await:                                *)
(*                                                                         *)
(*   /clear    range -> del -> erase ... -> command -> reply                *)
(*   /unwatch  select -> deactivate -> reply                                *)
(*   /watch    resolve -> insert -> reply                                   *)
(*   a URL     limit -> audit -> reply     (Verify models the audit)        *)
(*   and every reply   reply -> push -> trim -> done                        *)
(*                                                                         *)
(* Nothing dedupes updates: one that Telegram delivers twice is two here.   *)
(* Chats share no key and no row.                                           *)
(***************************************************************************)
EXTENDS Naturals, Sequences

CONSTANTS
  Updates,   \* the updates delivered
  Cap,       \* list_push's cap
  LastId     \* bound on the messages sent to the chat

ASSUME BotAssumption == Cap \in Nat \ {0} /\ LastId \in Nat

VARIABLES
  task,       \* task[u]: the await u's task is at
  mid,        \* mid[u]: the message id it has to push
  popped,     \* popped[u]: the ids /clear still has to delete
  credit,     \* credit[u]: the ids whose deletion it counted
  copy,       \* copy[u]: the rows /unwatch selected
  asked,      \* asked[u]: the rows active when u arrived (observed)
  stopped,    \* the /unwatch that ran to their commit (observed)
  tracked,    \* the Redis list tg:msgs:{chat}
  rows,       \* the watches ever inserted for the chat, by update
  active,     \* those that are active
  sent,       \* the ids Telegram gave out for messages to the chat: 1 .. sent
  shown,      \* the messages the chat shows
  forgotten   \* the messages no /clear will find again (observed)

handler == <<mid, popped, credit, copy, asked, stopped>>
table == <<rows, active>>
chat == <<sent, shown>>
vars == <<task, handler, tracked, table, chat, forgotten>>

-----------------------------------------------------------------------------

Ids == 1 .. LastId

\* The awaits a task can be at.
Working == {"range", "del", "erase", "command", "select", "deactivate", "list",
            "resolve", "insert", "limit", "audit", "reply", "push", "trim"}

Listed(s) == {s[i] : i \in DOMAIN s}

\* The types of the tasks, of the list, of the table and of the chat.
TypeOK ==
  /\ task \in [Updates -> Working \cup {"none", "done", "dead"}]
  /\ mid \in [Updates -> 0 .. LastId]
  /\ popped \in [Updates -> Seq(Ids)]
  /\ credit \in [Updates -> SUBSET Ids]
  /\ copy \in [Updates -> SUBSET Updates]
  /\ asked \in [Updates -> SUBSET Updates]
  /\ stopped \subseteq Updates
  /\ tracked \in Seq(Ids)
  /\ rows \subseteq Updates /\ active \subseteq rows
  /\ sent \in 0 .. LastId
  /\ shown \subseteq 1 .. sent
  /\ forgotten \subseteq Ids

Init ==
  /\ task = [u \in Updates |-> "none"]
  /\ mid = [u \in Updates |-> 0]
  /\ popped = [u \in Updates |-> << >>]
  /\ credit = [u \in Updates |-> {}]
  /\ copy = [u \in Updates |-> {}]
  /\ asked = [u \in Updates |-> {}]
  /\ stopped = {}
  /\ tracked = << >>
  /\ rows = {} /\ active = {}
  /\ sent = 0 /\ shown = {}
  /\ forgotten = {}

Goto(u, to) == task' = [task EXCEPT ![u] = to]

-----------------------------------------------------------------------------
(* The webhook and the command.                                              *)

\* No token, a wrong secret, an unreadable body, no chat: the update is dropped.
Ignore(u) ==
  /\ task[u] = "none"
  /\ Goto(u, "done")
  /\ UNCHANGED <<handler, tracked, table, chat, forgotten>>

\* The prefixes in their order; /start, /help and what carries no URL are replied to
\* at once.
Arrive(u) ==
  /\ task[u] = "none"
  /\ \E first \in {"range", "reply", "list", "select", "resolve", "limit"} : Goto(u, first)
  /\ asked' = [asked EXCEPT ![u] = active]
  /\ UNCHANGED <<mid, popped, credit, copy, stopped, tracked, table, chat, forgotten>>

\* An exception nothing catches ends the task: of the database, of the resolver
\* (but not a ResolverError), of the audit.
Dies(u) ==
  /\ task[u] \in {"list", "select", "deactivate", "resolve", "insert", "audit"}
  /\ Goto(u, "done")
  /\ UNCHANGED <<handler, tracked, table, chat, forgotten>>

-----------------------------------------------------------------------------
(* reply: send, then remember the id.                                        *)

\* The next message of the chat. The monitor's alerts come through here, too.
Shows(id) == id \in Ids /\ sent' = id /\ shown' = shown \cup {id}

\* sendMessage answers with the id.
Send(u) ==
  /\ task[u] = "reply"
  /\ Shows(sent + 1)
  /\ mid' = [mid EXCEPT ![u] = sent + 1]
  /\ Goto(u, "push")
  /\ UNCHANGED <<popped, credit, copy, asked, stopped, tracked, table, forgotten>>

\* It refuses, or raises, which ends the task. The message may be in the chat: then
\* nobody knows its id.
SendFails(u) ==
  /\ task[u] = "reply"
  /\ \/ Shows(sent + 1) /\ forgotten' = forgotten \cup {sent + 1}
     \/ UNCHANGED <<chat, forgotten>>
  /\ Goto(u, "done")
  /\ UNCHANGED <<handler, tracked, table>>

\* list_push: RPUSH,
Push(u) ==
  /\ task[u] = "push"
  /\ tracked' = Append(tracked, mid[u])
  /\ mid' = [mid EXCEPT ![u] = 0]
  /\ Goto(u, "trim")
  /\ UNCHANGED <<popped, credit, copy, asked, stopped, table, chat, forgotten>>

\* no Redis, or RPUSH raises, applied or not,
PushFails(u) ==
  /\ task[u] = "push"
  /\ \/ tracked' = Append(tracked, mid[u]) /\ UNCHANGED forgotten
     \/ forgotten' = forgotten \cup {mid[u]} /\ UNCHANGED tracked
  /\ mid' = [mid EXCEPT ![u] = 0]
  /\ Goto(u, "done")
  /\ UNCHANGED <<popped, credit, copy, asked, stopped, table, chat>>

\* Variant: LTRIM with its bounds the other way round.
KeepsOldest(s) == SubSeq(s, 1, IF Len(s) > Cap THEN Cap ELSE Len(s))

KeepsNewest(s) == SubSeq(s, IF Len(s) > Cap THEN Len(s) - Cap + 1 ELSE 1, Len(s))

\* and LTRIM with EXPIRE, either of which may raise.
Trim(u) ==
  /\ task[u] = "trim"
  /\ \/ /\ tracked' = KeepsNewest(tracked)
        /\ forgotten' = forgotten \cup
             {tracked[i] : i \in {j \in DOMAIN tracked : j + Cap <= Len(tracked)}}
     \/ UNCHANGED <<tracked, forgotten>>
  /\ Goto(u, "done")
  /\ UNCHANGED <<handler, table, chat>>

-----------------------------------------------------------------------------
(* /clear.                                                                   *)

\* list_pop_all: LRANGE, or nothing when it raises,
Range(u) ==
  /\ task[u] = "range"
  /\ \/ popped' = [popped EXCEPT ![u] = tracked] /\ Goto(u, "del")
     \/ Goto(u, "erase") /\ UNCHANGED popped
  /\ UNCHANGED <<mid, credit, copy, asked, stopped, tracked, table, chat, forgotten>>

\* then DEL, whatever was pushed in between.
Del(u) ==
  /\ task[u] = "del"
  /\ tracked' = << >>
  /\ forgotten' = forgotten \cup (Listed(tracked) \ Listed(popped[u]))
  /\ Goto(u, "erase")
  /\ UNCHANGED <<handler, table, chat>>

\* When DEL raises, applied or not, the ids that were read are lost on the way.
DelFails(u) ==
  /\ task[u] = "del"
  /\ \/ tracked' = << >> /\ forgotten' = forgotten \cup Listed(tracked) \cup Listed(popped[u])
     \/ UNCHANGED tracked
        /\ forgotten' = forgotten \cup (Listed(popped[u]) \ Listed(tracked))
  /\ popped' = [popped EXCEPT ![u] = << >>]
  /\ Goto(u, "erase")
  /\ UNCHANGED <<mid, credit, copy, asked, stopped, table, chat>>

\* Variant: the loop ends at the first message that cannot be deleted.
RestUnlessRefused(u, ok) == IF ok THEN Tail(popped[u]) ELSE << >>

Rest(u, ok) == Tail(popped[u])

\* Variant: every id that was tried is counted.
CountsTried(u, ok) == credit[u] \cup {Head(popped[u])}

Counts(u, ok) == IF ok THEN credit[u] \cup {Head(popped[u])} ELSE credit[u]

\* delete_message, one id after the other. Telegram says ok for a message that it
\* deletes and no other; it may refuse (too old), or its answer may be lost.
Erase(u) ==
  /\ task[u] = "erase" /\ popped[u] # << >>
  /\ LET id == Head(popped[u]) IN
       \E gone \in BOOLEAN, ok \in BOOLEAN :
         /\ ok => gone
         /\ gone => id \in shown
         /\ shown' = IF gone THEN shown \ {id} ELSE shown
         /\ forgotten' = IF gone THEN forgotten ELSE forgotten \cup {id}
         /\ credit' = [credit EXCEPT ![u] = Counts(u, ok)]
         /\ popped' = [popped EXCEPT ![u] = Rest(u, ok)]
  /\ UNCHANGED <<task, mid, copy, asked, stopped, tracked, table, sent>>

\* The command's own message goes last; whether it could be deleted is not looked at.
EraseCommand(u) ==
  /\ task[u] = "erase" /\ popped[u] = << >>
  /\ Goto(u, "reply")
  /\ UNCHANGED <<handler, tracked, table, chat, forgotten>>

-----------------------------------------------------------------------------
(* /watch, /watching, /unwatch, a URL.                                       *)

\* resolve_market answers, or its error is the reply.
Resolve(u) ==
  /\ task[u] = "resolve"
  /\ \E to \in {"insert", "reply"} : Goto(u, to)
  /\ UNCHANGED <<handler, tracked, table, chat, forgotten>>

\* Variant: the row is not committed.
NotInserted(u) == rows

Inserted(u) == rows \cup {u}

\* create_subscription; the refresh after its commit may fail, and then nothing is said.
Insert(u) ==
  /\ task[u] = "insert"
  /\ rows' = Inserted(u) /\ active' = active \cup {u}
  /\ \E to \in {"reply", "done"} : Goto(u, to)
  /\ UNCHANGED <<handler, tracked, chat, forgotten>>

\* list_by_chat.
List(u) ==
  /\ task[u] = "list"
  /\ Goto(u, "reply")
  /\ UNCHANGED <<handler, tracked, table, chat, forgotten>>

\* deactivate_by_chat: SELECT the active rows,
Select(u) ==
  /\ task[u] = "select"
  /\ copy' = [copy EXCEPT ![u] = active]
  /\ Goto(u, "deactivate")
  /\ UNCHANGED <<mid, popped, credit, asked, stopped, tracked, table, chat, forgotten>>

\* Variant: the rows are read as if there were never more than one.
StopsOne(u) == {s \in copy[u] : copy[u] = {s}}

Stops(u) == copy[u]

\* and UPDATE those in one transaction.
Deactivate(u) ==
  /\ task[u] = "deactivate"
  /\ active' = active \ Stops(u)
  /\ Goto(u, "reply")
  /\ stopped' = stopped \cup {u}
  /\ UNCHANGED <<mid, popped, credit, copy, asked, tracked, rows, chat, forgotten>>

\* Over the limit is a reply; otherwise the audit is next,
Limit(u) ==
  /\ task[u] = "limit"
  /\ \E to \in {"audit", "reply"} : Goto(u, to)
  /\ UNCHANGED <<handler, tracked, table, chat, forgotten>>

\* whose verdict, or error, is the reply.
Audit(u) ==
  /\ task[u] = "audit"
  /\ Goto(u, "reply")
  /\ UNCHANGED <<handler, tracked, table, chat, forgotten>>

-----------------------------------------------------------------------------
(* Around the bot.                                                           *)

\* The monitor alerts the chat (_deliver) and keeps no id.
Alert ==
  /\ active # {}
  /\ Shows(sent + 1)
  /\ forgotten' = forgotten \cup {sent + 1}
  /\ UNCHANGED <<task, handler, tracked, table>>

\* The monitor stops a watch whose market is resolved.
Resolved(s) ==
  /\ s \in active
  /\ active' = active \ {s}
  /\ UNCHANGED <<task, handler, tracked, rows, chat, forgotten>>

\* The list expires (24 h without a push), is evicted, or Redis restarts.
Vanish ==
  /\ tracked # << >>
  /\ tracked' = << >>
  /\ forgotten' = forgotten \cup Listed(tracked)
  /\ UNCHANGED <<task, handler, table, chat>>

\* The process stops. Telegram has had its 200 for every update and sends none again.
Restart ==
  /\ \E u \in Updates : task[u] \in Working
  /\ task' = [u \in Updates |-> IF task[u] \in Working THEN "dead" ELSE task[u]]
  /\ mid' = [u \in Updates |-> 0]
  /\ popped' = [u \in Updates |-> << >>]
  /\ forgotten' = forgotten
       \cup {mid[u] : u \in {v \in Updates : mid[v] # 0}}
       \cup UNION {Listed(popped[u]) : u \in Updates}
  /\ UNCHANGED <<credit, copy, asked, stopped, tracked, table, chat>>

Handle(u) ==
  \/ Ignore(u) \/ Arrive(u) \/ Dies(u)
  \/ Send(u) \/ SendFails(u) \/ Push(u) \/ PushFails(u) \/ Trim(u)
  \/ Range(u) \/ Del(u) \/ DelFails(u) \/ Erase(u) \/ EraseCommand(u)
  \/ Resolve(u) \/ Insert(u) \/ List(u) \/ Select(u) \/ Deactivate(u)
  \/ Limit(u) \/ Audit(u)

Next ==
  \/ \E u \in Updates : Handle(u)
  \/ Alert
  \/ \E s \in Updates : Resolved(s)
  \/ Vanish
  \/ Restart

Spec == Init /\ [][Next]_vars

-----------------------------------------------------------------------------
(* Safety.                                                                   *)

\* Every message of the bot that the chat shows is in the list, or on its way into
\* it, or in the hands of a /clear, unless one of the known failures forgot it: a
\* /clear's loop, a push, a trim or an overlap loses no other (main.py:503-520).
Accounted ==
  \A id \in shown :
    \/ id \in Listed(tracked)
    \/ \E u \in Updates : mid[u] = id \/ id \in Listed(popped[u])
    \/ id \in forgotten

\* "Cleared n message(s)" counts messages that are gone, each in one reply only,
\* however many /clear read the same list (main.py:509).
CountedOnce ==
  \A u \in Updates :
    /\ credit[u] \cap shown = {}
    /\ \A v \in Updates : u # v => credit[u] \cap credit[v] = {}

\* A chat whose /unwatch has run has no watch left of those that were
\* active when it asked (deactivate_by_chat).
UnwatchComplete ==
  \A u \in stopped : asked[u] \cap active = {}
=============================================================================
