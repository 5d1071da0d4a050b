-------------------------- MODULE TelegramBotProofs --------------------------
(***************************************************************************)
(* Proofs about TelegramBot, for any number of updates and messages and any *)
(* cap of the list.                                                        *)
(***************************************************************************)
EXTENDS TelegramBot, TLAPS

USE BotAssumption

-----------------------------------------------------------------------------
(* Sequences of ids, as sets.                                                *)

LEMMA ListedIn ==
  ASSUME NEW S, NEW s \in Seq(S)
  PROVE  Listed(s) \subseteq S
BY DEF Listed

LEMMA ListedAppend ==
  ASSUME NEW S, NEW s \in Seq(S), NEW x \in S
  PROVE  /\ Append(s, x) \in Seq(S)
         /\ Listed(Append(s, x)) = Listed(s) \cup {x}
<1>1. /\ Append(s, x) \in Seq(S)
      /\ DOMAIN s = 1 .. Len(s) /\ Len(s) \in Nat
      /\ DOMAIN Append(s, x) = 1 .. Len(s) + 1
      /\ \A i \in 1 .. Len(s) : Append(s, x)[i] = s[i]
      /\ Append(s, x)[Len(s) + 1] = x
  OBVIOUS
<1>2. \A y \in Listed(Append(s, x)) : y \in Listed(s) \cup {x}
  BY <1>1 DEF Listed
<1>3. \A y \in Listed(s) : y \in Listed(Append(s, x))
  BY <1>1 DEF Listed
<1>4. x \in Listed(Append(s, x))
  <2>1. Len(s) + 1 \in DOMAIN Append(s, x)
    BY <1>1
  <2>2. QED
    BY <1>1, <2>1 DEF Listed
<1>5. QED
  BY <1>1, <1>2, <1>3, <1>4

LEMMA ListedTail ==
  ASSUME NEW S, NEW s \in Seq(S), s # << >>
  PROVE  /\ Head(s) \in S /\ Head(s) \in Listed(s)
         /\ Tail(s) \in Seq(S)
         /\ Listed(s) \subseteq Listed(Tail(s)) \cup {Head(s)}
         /\ Listed(Tail(s)) \subseteq Listed(s)
<1>1. /\ Len(s) \in Nat \ {0} /\ DOMAIN s = 1 .. Len(s) /\ Head(s) = s[1]
      /\ Tail(s) \in Seq(S) /\ DOMAIN Tail(s) = 1 .. Len(s) - 1
      /\ \A i \in 1 .. Len(s) - 1 : Tail(s)[i] = s[i + 1]
  OBVIOUS
<1>2. Head(s) \in Listed(s) /\ Head(s) \in S
  BY <1>1 DEF Listed
<1>3. ASSUME NEW i \in DOMAIN s, i # 1
      PROVE  s[i] \in Listed(Tail(s))
  <2>1. i - 1 \in DOMAIN Tail(s) /\ Tail(s)[i - 1] = s[i]
    BY <1>1, <1>3
  <2>2. QED
    BY <2>1 DEF Listed
<1>4. ASSUME NEW i \in DOMAIN Tail(s)
      PROVE  Tail(s)[i] \in Listed(s)
  <2>1. i + 1 \in DOMAIN s /\ Tail(s)[i] = s[i + 1]
    BY <1>1
  <2>2. QED
    BY <2>1 DEF Listed
<1>5. QED
  BY <1>1, <1>2, <1>3, <1>4 DEF Listed

LEMMA ListedEmpty ==
  ASSUME NEW S
  PROVE  << >> \in Seq(S) /\ Listed(<< >>) = {}
BY DEF Listed

\* LTRIM loses what is Cap or more from the end, and nothing else.
LEMMA ListedTrim ==
  ASSUME NEW S, NEW s \in Seq(S)
  PROVE  /\ KeepsNewest(s) \in Seq(S)
         /\ Listed(KeepsNewest(s)) \subseteq Listed(s)
         /\ \A i \in DOMAIN s : ~(i + Cap <= Len(s)) => s[i] \in Listed(KeepsNewest(s))
<1> DEFINE from == IF Len(s) > Cap THEN Len(s) - Cap + 1 ELSE 1
<1>1. /\ KeepsNewest(s) = SubSeq(s, from, Len(s)) /\ Len(s) \in Nat
      /\ DOMAIN s = 1 .. Len(s) /\ from \in Nat \ {0} /\ Cap \in Nat \ {0}
      /\ from <= Len(s) + 1
  BY DEF KeepsNewest
<1> HIDE DEF from
<1>2. /\ KeepsNewest(s) \in Seq(S)
      /\ DOMAIN KeepsNewest(s) = 1 .. Len(s) - from + 1
      /\ \A k \in 1 .. Len(s) - from + 1 : KeepsNewest(s)[k] = s[k + from - 1]
  BY <1>1
<1>3. ASSUME NEW i \in DOMAIN s, ~(i + Cap <= Len(s))
      PROVE  s[i] \in Listed(KeepsNewest(s))
  <2>0. i \in Nat /\ i <= Len(s)
    BY <1>1
  <2>1. i >= from
    BY <1>1, <1>3, <2>0 DEF from
  <2> DEFINE k == i - from + 1
  <2>2. k \in Nat /\ k = i - from + 1
    BY <1>1, <2>0, <2>1
  <2> HIDE DEF k
  <2>3. k \in 1 .. Len(s) - from + 1 /\ k + from - 1 = i
    BY <1>1, <2>0, <2>1, <2>2, SMTT(30)
  <2>4. KeepsNewest(s)[k] = s[i] /\ k \in DOMAIN KeepsNewest(s)
    BY <1>2, <2>3
  <2>5. QED
    BY <2>4 DEF Listed
<1>4. ASSUME NEW k \in DOMAIN KeepsNewest(s)
      PROVE  KeepsNewest(s)[k] \in Listed(s)
  <2>1. k + from - 1 \in DOMAIN s /\ KeepsNewest(s)[k] = s[k + from - 1]
    BY <1>1, <1>2
  <2>2. QED
    BY <2>1 DEF Listed
<1>5. QED
  BY <1>2, <1>3, <1>4 DEF Listed

-----------------------------------------------------------------------------
(* The types, and what a task holds at which await.                          *)

\* Only a task at its push holds an id to push, only a /clear ids to delete.
Held ==
  \A u \in Updates :
    /\ mid[u] # 0 <=> task[u] = "push"
    /\ popped[u] # << >> => task[u] \in {"del", "erase"}

Typed == TypeOK /\ Held

LEMMA Going ==
  ASSUME TypeOK, NEW u \in Updates, NEW to \in Working \cup {"done"}, Goto(u, to)
  PROVE  /\ task' \in [Updates -> Working \cup {"none", "done", "dead"}]
         /\ task'[u] = to
         /\ \A v \in Updates : v # u => task'[v] = task[v]
BY DEF TypeOK, Goto

LEMMA Places ==
  /\ {"range", "del", "erase", "command", "select", "deactivate", "list",
      "resolve", "insert", "limit", "audit", "reply", "push", "trim"}
     \subseteq Working \cup {"done"}
  /\ "done" \in Working \cup {"done"}
BY DEF Working

LEMMA Showing ==
  ASSUME TypeOK, Shows(sent + 1)
  PROVE  /\ sent + 1 \in Ids /\ sent + 1 \in 0 .. LastId
         /\ sent' \in 0 .. LastId /\ shown' \subseteq 1 .. sent'
BY DEF TypeOK, Shows, Ids

\* An action that moves one task and leaves what is held and shown alone.
LEMMA MoveTyped ==
  ASSUME Typed, NEW u \in Updates, NEW to \in Working \cup {"done"}, Goto(u, to),
         task[u] \notin {"push"}, to # "push",
         popped[u] = << >> \/ to \in {"del", "erase"},
         UNCHANGED <<mid, popped>>
  PROVE  Held' /\ task' \in [Updates -> Working \cup {"none", "done", "dead"}]
BY Going DEF Typed, Held

LEMMA AlwaysTyped == Spec => []Typed
<1>1. Init => Typed
  BY ListedEmpty DEF Init, TypeOK, Held, Typed, Ids
<1>2. Typed /\ [Next]_vars => Typed'
  <2> SUFFICES ASSUME Typed, [Next]_vars PROVE Typed'
    OBVIOUS
  <2>1. CASE UNCHANGED vars
    BY <2>1 DEF vars, handler, table, chat, Typed, TypeOK, Held
  <2>2. ASSUME NEW u \in Updates, Ignore(u) PROVE Typed'
    BY <2>2, Places, MoveTyped DEF Ignore, handler, table, chat, Typed, Held, TypeOK
  <2>3. ASSUME NEW u \in Updates, Arrive(u) PROVE Typed'
    <3>1. PICK to \in {"range", "reply", "list", "select", "resolve", "limit"} : Goto(u, to)
      BY <2>3 DEF Arrive
    <3>2. popped[u] = << >> /\ task[u] = "none" /\ UNCHANGED <<mid, popped>>
      BY <2>3 DEF Arrive, Typed, Held
    <3>3. Held' /\ task' \in [Updates -> Working \cup {"none", "done", "dead"}]
      BY <3>1, <3>2, Places, MoveTyped
    <3>4. QED
      BY <2>3, <3>3 DEF Arrive, table, chat, Typed, TypeOK
  <2>4. ASSUME NEW u \in Updates, Dies(u) PROVE Typed'
    BY <2>4, Places, MoveTyped DEF Dies, handler, table, chat, Typed, Held, TypeOK
  <2>5. ASSUME NEW u \in Updates, Send(u) PROVE Typed'
    <3>1. task' \in [Updates -> Working \cup {"none", "done", "dead"}]
      BY <2>5, Places, Going DEF Send, Typed
    <3>2. Held'
      BY <2>5, Places, Going DEF Send, Shows, Typed, Held, TypeOK
    <3>3. /\ sent' \in 0 .. LastId /\ shown' \subseteq 1 .. sent'
          /\ mid' \in [Updates -> 0 .. LastId]
      BY <2>5, Showing DEF Send, Typed, TypeOK
    <3>4. QED
      BY <2>5, <3>1, <3>2, <3>3 DEF Send, table, Typed, TypeOK
  <2>6. ASSUME NEW u \in Updates, SendFails(u) PROVE Typed'
    <3>1. Held' /\ task' \in [Updates -> Working \cup {"none", "done", "dead"}]
      BY <2>6, Places, MoveTyped DEF SendFails, handler, Typed, Held
    <3>2. /\ sent' \in 0 .. LastId /\ shown' \subseteq 1 .. sent' /\ forgotten' \subseteq Ids
      BY <2>6, Showing DEF SendFails, chat, Typed, TypeOK
    <3>3. QED
      BY <2>6, <3>1, <3>2 DEF SendFails, handler, table, Typed, TypeOK
  <2>7. ASSUME NEW u \in Updates, Push(u) \/ PushFails(u) PROVE Typed'
    <3>1. mid[u] \in Ids
      BY <2>7 DEF Push, PushFails, Typed, TypeOK, Held, Ids
    <3>0. Append(tracked, mid[u]) \in Seq(Ids)
      BY <3>1, ListedAppend DEF Typed, TypeOK
    <3>2. tracked' \in Seq(Ids) /\ forgotten' \subseteq Ids
      BY <2>7, <3>0, <3>1 DEF Push, PushFails, Typed, TypeOK
    <3>3. /\ task' \in [Updates -> Working \cup {"none", "done", "dead"}]
          /\ task'[u] \in {"trim", "done"}
          /\ \A v \in Updates : v # u => task'[v] = task[v]
      BY <2>7, Places, Going DEF Push, PushFails, Typed
    <3>4. /\ mid' \in [Updates -> 0 .. LastId] /\ mid'[u] = 0
          /\ \A v \in Updates : v # u => mid'[v] = mid[v]
      <4>1. mid' = [mid EXCEPT ![u] = 0]
        BY <2>7 DEF Push, PushFails
      <4>2. mid \in [Updates -> 0 .. LastId] /\ 0 \in 0 .. LastId
        BY DEF Typed, TypeOK
      <4>3. QED
        BY <4>1, <4>2
    <3>5. UNCHANGED <<popped, credit, copy, asked, stopped, table, chat>>
      BY <2>7 DEF Push, PushFails
    <3>6. Held'
      BY <2>7, <3>3, <3>4, <3>5 DEF Push, PushFails, Held, Typed
    <3>7. QED
      BY <3>2, <3>3, <3>4, <3>5, <3>6 DEF Typed, TypeOK, table, chat
  <2>8. ASSUME NEW u \in Updates, Trim(u) PROVE Typed'
    <3>1. tracked' \in Seq(Ids) /\ forgotten' \subseteq Ids
      BY <2>8, ListedTrim, ListedIn DEF Trim, Typed, TypeOK, Listed
    <3>2. Held' /\ task' \in [Updates -> Working \cup {"none", "done", "dead"}]
      BY <2>8, Places, MoveTyped DEF Trim, handler, Typed, Held
    <3>3. QED
      BY <2>8, <3>1, <3>2 DEF Trim, handler, table, chat, Typed, TypeOK
  <2>9. ASSUME NEW u \in Updates, Range(u) PROVE Typed'
    <3>1. PICK to \in {"del", "erase"} : Goto(u, to)
      BY <2>9 DEF Range
    <3>2. popped' \in [Updates -> Seq(Ids)]
      BY <2>9 DEF Range, Typed, TypeOK
    <3>3. Held' /\ task' \in [Updates -> Working \cup {"none", "done", "dead"}]
      BY <2>9, <3>1, Places, Going DEF Range, Typed, TypeOK, Held
    <3>4. QED
      BY <2>9, <3>2, <3>3 DEF Range, table, chat, Typed, TypeOK
  <2>10. ASSUME NEW u \in Updates, Del(u) \/ DelFails(u) PROVE Typed'
    <3>1. /\ task[u] = "del" /\ Goto(u, "erase") /\ UNCHANGED <<mid, credit, copy, asked, stopped, table, chat>>
          /\ UNCHANGED popped \/ popped' = [popped EXCEPT ![u] = << >>]
      BY <2>10 DEF Del, DelFails, handler
    <3>2. Held' /\ task' \in [Updates -> Working \cup {"none", "done", "dead"}]
      BY <3>1, Places, Going DEF Typed, TypeOK, Held
    <3>3. popped' \in [Updates -> Seq(Ids)]
      BY <3>1, ListedEmpty DEF Typed, TypeOK
    <3>4. tracked' \in Seq(Ids)
      BY <2>10, ListedEmpty DEF Del, DelFails, Typed, TypeOK
    <3>5. Listed(tracked) \subseteq Ids /\ Listed(popped[u]) \subseteq Ids
      BY ListedIn DEF Typed, TypeOK
    <3>6. forgotten' \subseteq Ids
      BY <2>10, <3>5 DEF Del, DelFails, Typed, TypeOK
    <3>7. QED
      BY <3>1, <3>2, <3>3, <3>4, <3>6 DEF table, chat, Typed, TypeOK
  <2>11. ASSUME NEW u \in Updates, Erase(u) PROVE Typed'
    <3>1. /\ task[u] = "erase" /\ popped[u] # << >> /\ popped[u] \in Seq(Ids)
          /\ UNCHANGED <<task, mid, copy, asked, stopped, tracked, table, sent>>
          /\ popped' = [popped EXCEPT ![u] = Tail(popped[u])]
          /\ shown' \subseteq shown
          /\ forgotten' \subseteq forgotten \cup {Head(popped[u])}
      BY <2>11 DEF Erase, Rest, Typed, TypeOK
    <3>2. credit' \in [Updates -> SUBSET Ids]
      BY <2>11, <3>1, ListedTail DEF Erase, Counts, Typed, TypeOK
    <3>0. Head(popped[u]) \in Ids /\ Tail(popped[u]) \in Seq(Ids)
      BY <3>1, ListedTail
    <3>3. popped' \in [Updates -> Seq(Ids)] /\ forgotten' \subseteq Ids
      BY <3>0, <3>1 DEF Typed, TypeOK
    <3>4. Held'
      BY <3>1 DEF Typed, TypeOK, Held
    <3>5. QED
      BY <3>1, <3>2, <3>3, <3>4 DEF table, Typed, TypeOK
  <2>12. ASSUME NEW u \in Updates,
                EraseCommand(u) \/ Resolve(u) \/ List(u) \/ Limit(u) \/ Audit(u)
         PROVE  Typed'
    <3>1. PICK to \in {"reply", "insert", "audit"} : Goto(u, to)
      BY <2>12 DEF EraseCommand, Resolve, List, Limit, Audit
    <3>2. /\ task[u] # "push" /\ UNCHANGED <<handler, tracked, table, chat, forgotten>>
      BY <2>12 DEF EraseCommand, Resolve, List, Limit, Audit
    <3>3. popped[u] = << >>
      BY <2>12 DEF EraseCommand, Resolve, List, Limit, Audit, Typed, Held
    <3>4. Held' /\ task' \in [Updates -> Working \cup {"none", "done", "dead"}]
      BY <3>1, <3>2, <3>3, Places, MoveTyped DEF handler
    <3>5. QED
      BY <3>2, <3>4 DEF handler, table, chat, Typed, TypeOK
  <2>13. ASSUME NEW u \in Updates, Insert(u) \/ Select(u) \/ Deactivate(u) PROVE Typed'
    <3>1. PICK to \in {"reply", "done", "deactivate"} : Goto(u, to)
      BY <2>13 DEF Insert, Select, Deactivate
    <3>2. /\ task[u] # "push" /\ UNCHANGED <<mid, popped, credit, asked, tracked, chat, forgotten>>
      BY <2>13 DEF Insert, Select, Deactivate, handler
    <3>3. popped[u] = << >>
      BY <2>13 DEF Insert, Select, Deactivate, Typed, Held
    <3>4. Held' /\ task' \in [Updates -> Working \cup {"none", "done", "dead"}]
      BY <3>1, <3>2, <3>3, Places, MoveTyped
    <3>5. /\ copy' \in [Updates -> SUBSET Updates] /\ stopped' \subseteq Updates
          /\ rows' \subseteq Updates /\ active' \subseteq rows'
      BY <2>13 DEF Insert, Inserted, Select, Deactivate, handler, table, Typed, TypeOK
    <3>6. QED
      BY <3>2, <3>4, <3>5 DEF chat, Typed, TypeOK
  <2>14. ASSUME Alert PROVE Typed'
    BY <2>14 DEF Alert, Shows, handler, table, Typed, TypeOK, Held, Ids
  <2>15. ASSUME NEW s \in Updates, Resolved(s) PROVE Typed'
    BY <2>15 DEF Resolved, handler, chat, Typed, TypeOK, Held
  <2>16. ASSUME Vanish PROVE Typed'
    BY <2>16, ListedIn, ListedEmpty DEF Vanish, handler, table, chat, Typed, TypeOK, Held
  <2>17. ASSUME Restart PROVE Typed'
    <3>1. task' \in [Updates -> Working \cup {"none", "done", "dead"}]
      BY <2>17 DEF Restart, Typed, TypeOK
    <3>2. Held'
      BY <2>17 DEF Restart, Typed, TypeOK, Held, Working
    <3>0. \A u \in Updates : /\ mid[u] # 0 => mid[u] \in Ids
                             /\ Listed(popped[u]) \subseteq Ids
      BY ListedIn DEF Typed, TypeOK, Ids
    <3>3. forgotten' \subseteq Ids
      BY <2>17, <3>0 DEF Restart, Typed, TypeOK
    <3>4. QED
      BY <2>17, <3>1, <3>2, <3>3, ListedEmpty DEF Restart, table, chat, Typed, TypeOK
  <2>18. QED
    BY <2>1, <2>2, <2>3, <2>4, <2>5, <2>6, <2>7, <2>8, <2>9, <2>10, <2>11, <2>12, <2>13,
       <2>14, <2>15, <2>16, <2>17 DEF Next, Handle
<1>3. QED
  BY <1>1, <1>2, PTL DEF Spec

\* Tasks, list, rows and chat have their types, and deactivated rows are rows.
THEOREM Typing == Spec => []TypeOK
BY AlwaysTyped, PTL DEF Typed

-----------------------------------------------------------------------------
(* /unwatch.                                                                 *)

\* A row exists once its /watch is past the insert; an /unwatch that is about to
\* update holds every row that was active when it asked and still is.
Watches ==
  /\ \A u \in Updates : asked[u] \subseteq rows
  /\ \A u \in rows : task[u] \in {"reply", "push", "trim", "done", "dead"}
  /\ \A u \in stopped : task[u] # "none"
  /\ \A u \in Updates : task[u] = "deactivate" => asked[u] \cap active \subseteq copy[u]

WInv == Watches /\ UnwatchComplete

\* An update leaves "none" and comes back to it never.
LEMMA Moving ==
  ASSUME TypeOK, NEW u \in Updates, Handle(u)
  PROVE  /\ \A v \in Updates : v # u => task'[v] = task[v]
         /\ task'[u] # "none" /\ task[u] \notin {"done", "dead"}
BY DEF TypeOK, Handle, Goto, Ignore, Arrive, Dies, Send, SendFails, Push, PushFails, Trim,
       Range, Del, DelFails, Erase, EraseCommand, Resolve, Insert, List, Select,
       Deactivate, Limit, Audit

\* An action that changes no row and is no /unwatch's.
LEMMA OtherMoves ==
  ASSUME Typed, WInv, NEW u \in Updates, NEW to,
         task'[u] = to, \A v \in Updates : v # u => task'[v] = task[v],
         to \notin {"none", "deactivate"},
         u \in rows => to \in {"reply", "push", "trim", "done", "dead"},
         UNCHANGED <<copy, stopped, table, asked>>
  PROVE  WInv'
BY DEF Typed, TypeOK, WInv, Watches, UnwatchComplete, table

\* A chat whose /unwatch has run to its commit has none of the watches left that were
\* active when it asked, whatever other commands of the chat ran in between.
THEOREM UnwatchStops == Spec => []UnwatchComplete
<1>1. Init => WInv
  BY DEF Init, WInv, Watches, UnwatchComplete
<1>2. Typed /\ WInv /\ [Next]_vars => WInv'
  <2> SUFFICES ASSUME Typed, WInv, [Next]_vars PROVE WInv'
    OBVIOUS
  <2> TypeOK
    BY DEF Typed
  <2>1. CASE UNCHANGED vars
    BY <2>1 DEF vars, handler, table, WInv, Watches, UnwatchComplete
  <2>2. ASSUME NEW u \in Updates, Handle(u) PROVE WInv'
    <3>1. /\ \A v \in Updates : v # u => task'[v] = task[v]
          /\ task'[u] # "none" /\ task[u] \notin {"done", "dead"}
      BY <2>2, Moving
    <3>2. CASE Ignore(u) \/ Dies(u)
      BY <3>1, <3>2, OtherMoves DEF Ignore, Dies, Goto, handler, table, TypeOK
    <3>3. CASE Send(u) \/ SendFails(u) \/ Push(u) \/ PushFails(u) \/ Trim(u)
      <4>1. task'[u] \in {"push", "done", "trim"} /\ UNCHANGED <<copy, stopped, table, asked>>
        BY <3>3 DEF Send, SendFails, Push, PushFails, Trim, Goto, handler, table, TypeOK
      <4>2. QED
        BY <3>1, <4>1, OtherMoves
    <3>4. CASE Range(u) \/ Del(u) \/ DelFails(u) \/ Erase(u)
      <4>1. /\ task[u] \in {"range", "del", "erase"} /\ task'[u] \in {"del", "erase"}
            /\ UNCHANGED <<copy, stopped, table, asked>>
        BY <3>4 DEF Range, Del, DelFails, Erase, Goto, handler, table, TypeOK
      <4>2. u \notin rows
        BY <4>1 DEF WInv, Watches
      <4>3. QED
        BY <3>1, <4>1, <4>2, OtherMoves
    <3>5. CASE EraseCommand(u) \/ Resolve(u) \/ List(u) \/ Limit(u) \/ Audit(u)
      <4>1. /\ task[u] \in {"erase", "resolve", "list", "limit", "audit"}
            /\ task'[u] \in {"reply", "insert", "audit"}
            /\ UNCHANGED <<copy, stopped, table, asked>>
        BY <3>5 DEF EraseCommand, Resolve, List, Limit, Audit, Goto, handler, table, TypeOK
      <4>2. u \notin rows
        BY <4>1 DEF WInv, Watches
      <4>3. QED
        BY <3>1, <4>1, <4>2, OtherMoves
    <3>6. CASE Arrive(u)
      <4>1. /\ task[u] = "none" /\ task'[u] # "deactivate" /\ asked' = [asked EXCEPT ![u] = active]
            /\ UNCHANGED <<copy, stopped, rows, active>>
        BY <3>6 DEF Arrive, Goto, table, TypeOK
      <4>2. u \notin rows /\ u \notin stopped
        BY <4>1 DEF WInv, Watches
      <4>3. QED
        BY <3>1, <4>1, <4>2 DEF WInv, Watches, UnwatchComplete, TypeOK
    <3>7. CASE Insert(u)
      <4>1. /\ task[u] = "insert" /\ task'[u] \in {"reply", "done"}
            /\ rows' = rows \cup {u} /\ active' = active \cup {u}
            /\ UNCHANGED <<copy, stopped, asked>>
        BY <3>7 DEF Insert, Inserted, Goto, handler, TypeOK
      <4>2. u \notin rows
        BY <4>1 DEF WInv, Watches
      <4>3. QED
        BY <3>1, <4>1, <4>2 DEF WInv, Watches, UnwatchComplete, TypeOK
    <3>8. CASE Select(u)
      <4>1. /\ task[u] = "select" /\ task'[u] = "deactivate"
            /\ copy' = [copy EXCEPT ![u] = active] /\ UNCHANGED <<stopped, rows, active, asked>>
        BY <3>8 DEF Select, Goto, table, TypeOK
      <4>2. QED
        BY <3>1, <4>1 DEF WInv, Watches, UnwatchComplete, TypeOK
    <3>9. CASE Deactivate(u)
      <4>1. /\ task[u] = "deactivate" /\ task'[u] = "reply"
            /\ active' = active \ copy[u] /\ stopped' = stopped \cup {u}
            /\ UNCHANGED <<copy, asked, rows>>
        BY <3>9 DEF Deactivate, Stops, Goto, TypeOK
      <4>2. QED
        BY <3>1, <4>1 DEF WInv, Watches, UnwatchComplete, TypeOK
    <3>10. QED
      BY <2>2, <3>2, <3>3, <3>4, <3>5, <3>6, <3>7, <3>8, <3>9 DEF Handle
  <2>3. ASSUME NEW s \in Updates, Alert \/ Resolved(s) \/ Vanish PROVE WInv'
    <3>1. /\ UNCHANGED <<task, copy, stopped, asked, rows>> /\ active' \subseteq active
      BY <2>3 DEF Alert, Resolved, Vanish, handler, table
    <3>2. QED
      BY <3>1 DEF WInv, Watches, UnwatchComplete
  <2>4. ASSUME Alert \/ Vanish PROVE WInv'
    BY <2>4 DEF Alert, Vanish, handler, table, WInv, Watches, UnwatchComplete
  <2>5. ASSUME Restart PROVE WInv'
    BY <2>5 DEF Restart, table, Working, WInv, Watches, UnwatchComplete, TypeOK
  <2>6. QED
    BY <2>1, <2>2, <2>3, <2>4, <2>5 DEF Next
<1>3. WInv => UnwatchComplete
  BY DEF WInv
<1>4. QED
  BY <1>1, <1>2, <1>3, AlwaysTyped, PTL DEF Spec

-----------------------------------------------------------------------------
(* /clear.                                                                   *)

\* What is counted was a message, so a new message is not among it.
Counted == \A u \in Updates : credit[u] \subseteq 1 .. sent

CInv == Counted /\ CountedOnce

\* A message more, and nothing counted.
LEMMA OneMore ==
  ASSUME TypeOK, CInv, UNCHANGED credit, Shows(sent + 1) \/ UNCHANGED chat
  PROVE  CInv'
<1>1. CASE UNCHANGED chat
  BY <1>1 DEF CInv, Counted, CountedOnce, chat
<1>2. CASE Shows(sent + 1)
  <2>1. sent \in Nat /\ sent' = sent + 1 /\ shown' = shown \cup {sent + 1}
    BY <1>2 DEF Shows, TypeOK
  <2>2. \A u \in Updates : sent + 1 \notin credit[u] /\ credit[u] \subseteq 1 .. sent + 1
    BY <2>1 DEF CInv, Counted
  <2>3. QED
    BY <2>1, <2>2 DEF CInv, Counted, CountedOnce
<1>3. QED
  BY <1>1, <1>2

\* "Cleared n message(s)" counts messages that are gone, each in one reply only.
THEOREM ClearCounts == Spec => []CountedOnce
<1>1. Init => CInv
  BY DEF Init, CInv, Counted, CountedOnce
<1>2. Typed /\ CInv /\ [Next]_vars => CInv'
  <2> SUFFICES ASSUME Typed, CInv, [Next]_vars PROVE CInv'
    OBVIOUS
  <2> TypeOK
    BY DEF Typed
  <2>1. CASE UNCHANGED vars
    BY <2>1, OneMore DEF vars, handler
  <2>2. ASSUME NEW u \in Updates, Erase(u) PROVE CInv'
    <3> DEFINE id == Head(popped[u])
    <3>1. PICK gone \in BOOLEAN, ok \in BOOLEAN :
            /\ ok => gone
            /\ gone => id \in shown
            /\ shown' = IF gone THEN shown \ {id} ELSE shown
            /\ credit' = [credit EXCEPT ![u] = IF ok THEN credit[u] \cup {id} ELSE credit[u]]
      BY <2>2 DEF Erase, Counts
    <3>2. UNCHANGED sent
      BY <2>2 DEF Erase
    <3> HIDE DEF id
    <3>3. CASE ok
      <4>1. /\ id \in shown /\ shown' = shown \ {id} /\ id \in 1 .. sent
            /\ credit'[u] = credit[u] \cup {id}
            /\ \A v \in Updates : v # u => credit'[v] = credit[v]
        BY <3>1, <3>3 DEF TypeOK
      <4>2. \A v \in Updates : id \notin credit[v]
        BY <4>1 DEF CInv, CountedOnce
      <4>3. QED
        BY <3>2, <4>1, <4>2 DEF CInv, Counted, CountedOnce
    <3>4. CASE ~ok
      <4>1. shown' \subseteq shown /\ \A v \in Updates : credit'[v] = credit[v]
        BY <3>1, <3>4 DEF TypeOK
      <4>2. QED
        BY <3>2, <4>1 DEF CInv, Counted, CountedOnce
    <3>5. QED
      BY <3>3, <3>4
  <2>3. ASSUME NEW u \in Updates, Send(u) \/ SendFails(u) PROVE CInv'
    BY <2>3, OneMore DEF Send, SendFails, handler
  <2>4. ASSUME Alert PROVE CInv'
    BY <2>4, OneMore DEF Alert, handler
  <2>5. ASSUME NEW u \in Updates, Handle(u) PROVE CInv'
    <3>1. CASE Ignore(u) \/ Arrive(u) \/ Dies(u) \/ Push(u) \/ PushFails(u) \/ Trim(u)
      BY <3>1, OneMore DEF Ignore, Arrive, Dies, Push, PushFails, Trim, handler
    <3>2. CASE Range(u) \/ Del(u) \/ DelFails(u) \/ EraseCommand(u) \/ Resolve(u) \/ Insert(u)
      BY <3>2, OneMore DEF Range, Del, DelFails, EraseCommand, Resolve, Insert, handler
    <3>3. CASE List(u) \/ Select(u) \/ Deactivate(u) \/ Limit(u) \/ Audit(u)
      BY <3>3, OneMore DEF List, Select, Deactivate, Limit, Audit, handler
    <3>4. QED
      BY <2>2, <2>3, <2>5, <3>1, <3>2, <3>3 DEF Handle
  <2>6. ASSUME NEW s \in Updates, Resolved(s) PROVE CInv'
    BY <2>6, OneMore DEF Resolved, handler
  <2>7. ASSUME Vanish \/ Restart PROVE CInv'
    BY <2>7, OneMore DEF Vanish, Restart, handler
  <2>8. QED
    BY <2>1, <2>4, <2>5, <2>6, <2>7 DEF Next
<1>3. CInv => CountedOnce
  BY DEF CInv
<1>4. QED
  BY <1>1, <1>2, <1>3, AlwaysTyped, PTL DEF Spec

\* A message that is in somebody's hands, or that nobody will look for.
Known(id) ==
  \/ id \in Listed(tracked)
  \/ \E u \in Updates : mid[u] = id \/ id \in Listed(popped[u])
  \/ id \in forgotten

LEMMA KnownStays ==
  ASSUME NEW id, Known(id), UNCHANGED <<tracked, mid, popped>>, forgotten \subseteq forgotten'
  PROVE  Known(id)'
BY DEF Known

\* Every message of the bot that the chat shows is in the list, on its way into it, in
\* the hands of a /clear, or forgotten by a failure that is named.
THEOREM NothingElseLost == Spec => []Accounted
<1>1. Init => Accounted
  BY DEF Init, Accounted
<1>2. Typed /\ Accounted /\ [Next]_vars => Accounted'
  <2> SUFFICES ASSUME Typed, Accounted, [Next]_vars, NEW id \in shown' PROVE Known(id)'
    BY DEF Accounted, Known
  <2> TypeOK
    BY DEF Typed
  <2>0. id \in shown => Known(id)
    BY DEF Accounted, Known
  <2>1. CASE UNCHANGED vars
    BY <2>0, <2>1, KnownStays DEF vars, handler, chat
  <2>2. ASSUME NEW u \in Updates,
               Ignore(u) \/ Arrive(u) \/ Dies(u) \/ EraseCommand(u) \/ Resolve(u)
        PROVE  Known(id)'
    BY <2>0, <2>2, KnownStays DEF Ignore, Arrive, Dies, EraseCommand, Resolve, handler, chat
  <2>3. ASSUME NEW u \in Updates,
               Insert(u) \/ List(u) \/ Select(u) \/ Deactivate(u) \/ Limit(u) \/ Audit(u)
        PROVE  Known(id)'
    BY <2>0, <2>3, KnownStays
       DEF Insert, List, Select, Deactivate, Limit, Audit, handler, chat
  <2>4. ASSUME NEW u \in Updates, Send(u) PROVE Known(id)'
    <3>1. CASE id = sent + 1
      BY <2>4, <3>1 DEF Send, Known, TypeOK
    <3>2. CASE id # sent + 1
      <4>1. Known(id) /\ mid[u] = 0 /\ id # 0
        BY <2>0, <2>4, <3>2 DEF Send, Shows, Typed, Held, TypeOK
      <4>2. \A v \in Updates : mid[v] = id => mid'[v] = id
        BY <2>4, <4>1 DEF Send, TypeOK
      <4>3. QED
        BY <2>4, <4>1, <4>2 DEF Send, Known
    <3>3. QED
      BY <3>1, <3>2
  <2>5. ASSUME NEW u \in Updates, SendFails(u) \/ Alert PROVE Known(id)'
    <3>1. \/ id \in shown
          \/ id \in forgotten'
      BY <2>5 DEF SendFails, Alert, Shows, chat
    <3>2. forgotten \subseteq forgotten' /\ UNCHANGED <<tracked, mid, popped>>
      BY <2>5 DEF SendFails, Alert, handler
    <3>3. QED
      BY <2>0, <3>1, <3>2, KnownStays DEF Known
  <2>6. ASSUME NEW u \in Updates, Push(u) \/ PushFails(u) PROVE Known(id)'
    <3>1. /\ mid' = [mid EXCEPT ![u] = 0] /\ UNCHANGED <<popped, shown>>
          /\ forgotten \subseteq forgotten'
          /\ \/ tracked' = Append(tracked, mid[u])
             \/ UNCHANGED tracked /\ mid[u] \in forgotten'
      BY <2>6 DEF Push, PushFails, chat
    <3>2. mid[u] \in Ids
      BY <2>6 DEF Push, PushFails, Typed, TypeOK, Held, Ids
    <3>3. Listed(Append(tracked, mid[u])) = Listed(tracked) \cup {mid[u]}
      BY <3>2, ListedAppend DEF TypeOK
    <3>4. \A v \in Updates : mid[v] = id => mid'[v] = id \/ id = mid[u]
      BY <3>1 DEF TypeOK
    <3>5. Listed(tracked)' = Listed(tracked')
      BY DEF Listed
    <3>6. Known(id)
      BY <2>0, <3>1
    <3>7. id \in Listed(tracked) => id \in Listed(tracked')
      BY <3>1, <3>3
    <3>8. id = mid[u] => id \in Listed(tracked') \/ id \in forgotten'
      BY <3>1, <3>3
    <3>9. QED
      BY <3>1, <3>4, <3>5, <3>6, <3>7, <3>8 DEF Known
  <2>7. ASSUME NEW u \in Updates, Trim(u) PROVE Known(id)'
    <3>1. Known(id) /\ UNCHANGED <<mid, popped>> /\ forgotten \subseteq forgotten'
      BY <2>0, <2>7 DEF Trim, handler, chat
    <3>2. CASE UNCHANGED <<tracked, forgotten>>
      BY <3>1, <3>2, KnownStays
    <3>3. CASE /\ tracked' = KeepsNewest(tracked)
               /\ forgotten' = forgotten \cup
                    {tracked[i] : i \in {j \in DOMAIN tracked : j + Cap <= Len(tracked)}}
      <4>1. ASSUME NEW i \in DOMAIN tracked
            PROVE  tracked[i] \in Listed(tracked') \/ tracked[i] \in forgotten'
        BY <3>3, ListedTrim DEF TypeOK
      <4>2. id \in Listed(tracked) => id \in Listed(tracked') \/ id \in forgotten'
        BY <4>1 DEF Listed
      <4>3. QED
        BY <3>1, <4>2 DEF Known, Listed
    <3>4. QED
      BY <2>7, <3>2, <3>3 DEF Trim
  <2>8. ASSUME NEW u \in Updates, Range(u) PROVE Known(id)'
    <3>1. Known(id) /\ UNCHANGED <<mid, tracked, forgotten>> /\ popped[u] = << >>
      BY <2>0, <2>8 DEF Range, chat, Typed, Held
    <3>2. \A v \in Updates : popped[v] # << >> => popped'[v] = popped[v]
      BY <2>8, <3>1 DEF Range, TypeOK
    <3>3. \A v \in Updates : id \in Listed(popped[v]) => id \in Listed(popped'[v])
      BY <3>2, ListedEmpty DEF TypeOK
    <3>4. QED
      BY <3>1, <3>3 DEF Known, Listed
  <2>9. ASSUME NEW u \in Updates, Del(u) PROVE Known(id)'
    BY <2>0, <2>9 DEF Del, Known, handler, chat
  <2>10. ASSUME NEW u \in Updates, DelFails(u) PROVE Known(id)'
    <3>1. /\ Known(id) /\ UNCHANGED mid /\ forgotten \subseteq forgotten'
          /\ popped' = [popped EXCEPT ![u] = << >>]
      BY <2>0, <2>10 DEF DelFails, chat
    <3>2. \A v \in Updates : v # u => popped'[v] = popped[v]
      BY <3>1 DEF TypeOK
    <3>3. id \in Listed(tracked) \/ id \in Listed(popped[u])
            => id \in Listed(tracked') \/ id \in forgotten'
      BY <2>10 DEF DelFails
    <3>4. Listed(tracked)' = Listed(tracked') /\ \A v \in Updates : Listed(popped[v])' = Listed(popped'[v])
      BY DEF Listed
    <3>5. QED
      BY <3>1, <3>2, <3>3, <3>4 DEF Known
  <2>11. ASSUME NEW u \in Updates, Erase(u) PROVE Known(id)'
    <3>1. /\ popped[u] # << >> /\ popped[u] \in Seq(Ids) /\ UNCHANGED <<mid, tracked>>
          /\ popped' = [popped EXCEPT ![u] = Tail(popped[u])]
          /\ forgotten \subseteq forgotten' /\ id \in shown
          /\ id = Head(popped[u]) => id \in forgotten'
      BY <2>11 DEF Erase, Rest, TypeOK
    <3>2. Listed(popped[u]) \subseteq Listed(Tail(popped[u])) \cup {Head(popped[u])}
      BY <3>1, ListedTail
    <3>3. Listed(popped'[u]) = Listed(Tail(popped[u]))
      BY <3>1 DEF TypeOK
    <3>4. \A v \in Updates : v # u => popped'[v] = popped[v]
      BY <3>1 DEF TypeOK
    <3>5. \A v \in Updates : id \in Listed(popped[v])
                              => id \in Listed(popped'[v]) \/ id \in forgotten'
      BY <3>1, <3>2, <3>3, <3>4
    <3>6. Listed(tracked)' = Listed(tracked) /\ \A v \in Updates : Listed(popped[v])' = Listed(popped'[v])
      BY <3>1 DEF Listed
    <3>7. QED
      BY <2>0, <3>1, <3>5, <3>6 DEF Known
  <2>12. ASSUME NEW s \in Updates, Resolved(s) PROVE Known(id)'
    BY <2>0, <2>12, KnownStays DEF Resolved, handler, chat
  <2>13. ASSUME Vanish PROVE Known(id)'
    BY <2>0, <2>13 DEF Vanish, Known, handler, chat
  <2>14. ASSUME Restart PROVE Known(id)'
    <3>1. Known(id) /\ UNCHANGED tracked /\ forgotten \subseteq forgotten'
      BY <2>0, <2>14 DEF Restart, chat
    <3>0. id # 0
      BY <2>14 DEF Restart, chat, TypeOK
    <3>2. ASSUME NEW v \in Updates, mid[v] = id PROVE id \in forgotten'
      BY <2>14, <3>0, <3>2 DEF Restart
    <3>3. ASSUME NEW v \in Updates, id \in Listed(popped[v]) PROVE id \in forgotten'
      BY <2>14, <3>3 DEF Restart
    <3>4. QED
      BY <3>1, <3>2, <3>3 DEF Known
  <2>15. ASSUME NEW u \in Updates, Handle(u) PROVE Known(id)'
    BY <2>2, <2>3, <2>4, <2>5, <2>6, <2>7, <2>8, <2>9, <2>10, <2>11, <2>15 DEF Handle
  <2>16. CASE Alert
    <3>1. PICK u \in Updates : u \in active
      BY <2>16 DEF Alert, TypeOK
    <3>2. QED
      BY <2>5, <2>16, <3>1
  <2>17. QED
    BY <2>1, <2>12, <2>13, <2>14, <2>15, <2>16 DEF Next
<1>3. QED
  BY <1>1, <1>2, AlwaysTyped, PTL DEF Spec
=============================================================================
