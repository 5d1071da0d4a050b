------------------------------- MODULE LiveFeed -------------------------------
(***************************************************************************)
(* The live feed: ws_audits of app/main.py and its forwarder, the channel   *)
(* of Redis that publish writes to, and one page's LiveAuditFeed of         *)
(* web/src/App.tsx, which connects again and again.                         *)
(*                                                                         *)
(*   page      Connect -> Opened -> Deliver ... -> Closed -> 2.5 s -> Connect *)
(*   handler   Accept -> Subscribe -> (forwarder runs) -> Disconnected        *)
(*               -> Cancel -> Unsubscribe -> Close                           *)
(*             Accept -> Notice -> Disconnected            without Redis      *)
(*                                                                         *)
(* The two ends of a socket learn of its end apart, so the handler of an     *)
(* old socket runs beside that of the new one. Published audits are numbered *)
(* in Redis' order. Other pages have sockets and connections of their own.   *)
(***************************************************************************)
EXTENDS Naturals, Sequences

CONSTANTS
  Sockets,    \* identities of sockets, used again when both ends are through
  Keep,       \* what the page keeps of the feed
  LastAudit   \* bound on the audits published

ASSUME FeedAssumption == Keep \in Nat \ {0} /\ LastAudit \in Nat

VARIABLES
  status,     \* what the page says: connecting, live, offline
  items,      \* the audits the page shows
  retry,      \* whether its timer is running
  unmounted,  \* whether it was taken down
  browser,    \* browser[s]: the page's end of s
  handler,    \* handler[s]: the await ws_audits is at for s
  forwarder,  \* forwarder[s]: its task
  wire,       \* wire[s]: the frames on the way
  redis,      \* whether the service has a Redis
  published,  \* the audits published so far
  channel,    \* the connections Redis has subscribed
  buffer,     \* buffer[s]: what Redis has pushed and the forwarder is to read
  heard,      \* heard[s]: the last audit that came by s or was published before
              \* Redis subscribed it, while s is open (observed)
  lossy,      \* the sockets whose connection to Redis was lost once (observed)
  leaked      \* those whose pubsub was never closed (observed)

page == <<status, items, retry, unmounted>>
server == <<handler, forwarder>>
pubsub == <<redis, published, channel, buffer, lossy, leaked>>
vars == <<page, browser, server, wire, heard, pubsub>>

-----------------------------------------------------------------------------

Audits == 1 .. LastAudit

Info == 0   \* the frame of the notice

\* The types of the page, the sockets, the handlers and the channel.
TypeOK ==
  /\ status \in {"connecting", "live", "offline"}
  /\ items \in Seq(Audits) /\ Len(items) <= Keep
  /\ retry \in BOOLEAN /\ unmounted \in BOOLEAN /\ redis \in BOOLEAN
  /\ browser \in [Sockets -> {"none", "opening", "open", "closed"}]
  /\ handler \in [Sockets -> {"none", "subscribe", "wait", "notice", "idle", "cancel",
                              "unsubscribe", "close", "done"}]
  /\ forwarder \in [Sockets -> {"none", "listen", "ended"}]
  /\ wire \in [Sockets -> Seq(Audits \cup {Info})]
  /\ published \in 0 .. LastAudit
  /\ channel \subseteq Sockets /\ lossy \subseteq Sockets /\ leaked \subseteq Sockets
  /\ buffer \in [Sockets -> Seq(Audits)]
  /\ heard \in [Sockets -> 0 .. LastAudit]

\* The page has been mounted: its effect connects at once.
Init ==
  /\ status = "connecting" /\ items = << >> /\ retry = FALSE /\ unmounted = FALSE
  /\ \E first \in Sockets :
       browser = [s \in Sockets |-> IF s = first THEN "opening" ELSE "none"]
  /\ handler = [s \in Sockets |-> "none"]
  /\ forwarder = [s \in Sockets |-> "none"]
  /\ wire = [s \in Sockets |-> << >>]
  /\ redis \in BOOLEAN
  /\ published = 0
  /\ channel = {} /\ lossy = {} /\ leaked = {}
  /\ buffer = [s \in Sockets |-> << >>]
  /\ heard = [s \in Sockets |-> 0]

-----------------------------------------------------------------------------
(* The page.                                                                 *)

Free(s) == browser[s] \in {"none", "closed"} /\ handler[s] \in {"none", "done"}

\* connect, when the timer fires. With every socket in use the attempt waits for one.
Connect(s) ==
  /\ retry /\ Free(s)
  /\ retry' = FALSE
  /\ browser' = [browser EXCEPT ![s] = "opening"]
  /\ handler' = [handler EXCEPT ![s] = "none"]
  /\ forwarder' = [forwarder EXCEPT ![s] = "none"]
  /\ wire' = [wire EXCEPT ![s] = << >>]
  /\ heard' = [heard EXCEPT ![s] = 0]
  /\ buffer' = [buffer EXCEPT ![s] = << >>]
  /\ channel' = channel \ {s} /\ lossy' = lossy \ {s} /\ leaked' = leaked \ {s}
  /\ UNCHANGED <<status, items, unmounted, redis, published>>

\* onopen: the server's accept has arrived.
Opened(s) ==
  /\ browser[s] = "opening" /\ handler[s] # "none"
  /\ browser' = [browser EXCEPT ![s] = "open"]
  /\ status' = "live"
  /\ UNCHANGED <<items, retry, unmounted, server, wire, heard, pubsub>>

Front(q) == SubSeq(q, 1, IF Len(q) < Keep THEN Len(q) ELSE Keep)

\* Variant: nothing is cut off.
ShowsAll(a) == <<a>> \o items

\* Variant: the newest goes to the end, and slice keeps the front.
ShowsLast(a) == Front(Append(items, a))

Shows(a) == Front(<<a>> \o items)

\* onmessage.
Deliver(s) ==
  /\ browser[s] = "open" /\ wire[s] # << >>
  /\ wire' = [wire EXCEPT ![s] = Tail(wire[s])]
  /\ \/ /\ Head(wire[s]) = Info
        /\ status' = "offline"
        /\ UNCHANGED <<items, heard>>
     \/ /\ Head(wire[s]) # Info
        /\ items' = Shows(Head(wire[s]))
        /\ heard' = [heard EXCEPT ![s] = Head(wire[s])]
        /\ UNCHANGED status
  /\ UNCHANGED <<retry, unmounted, browser, server, pubsub>>

\* Variant: only a socket that was open is tried again.
RetriesIfLive(s) == IF browser[s] = "open" THEN TRUE ELSE retry

Retries(s) == TRUE

\* onclose, after an onerror or without: the attempt failed, the network or the server
\* ended it. What was on the wire is lost.
Closed(s) ==
  /\ browser[s] \in {"opening", "open"}
  /\ ~unmounted
  /\ browser' = [browser EXCEPT ![s] = "closed"]
  /\ wire' = [wire EXCEPT ![s] = << >>]
  /\ status' = "connecting"
  /\ retry' = Retries(s)
  /\ heard' = [heard EXCEPT ![s] = 0]
  /\ UNCHANGED <<items, unmounted, server, pubsub>>

\* Variant: the cleanup closes the socket and forgets the timer.
TimerLeft == retry

TimerCleared == FALSE

\* The effect's cleanup: no timer is left, and the socket is closed, which its onclose
\* no longer answers.
Unmount ==
  /\ ~unmounted
  /\ unmounted' = TRUE
  /\ retry' = TimerCleared
  /\ browser' = [s \in Sockets |-> IF browser[s] \in {"opening", "open"} THEN "closed"
                                   ELSE browser[s]]
  /\ wire' = [s \in Sockets |-> << >>]
  /\ heard' = [s \in Sockets |-> 0]
  /\ UNCHANGED <<status, items, server, pubsub>>

-----------------------------------------------------------------------------
(* ws_audits.                                                                *)

Goto(s, to) == handler' = [handler EXCEPT ![s] = to]

\* accept, perhaps of a page that has given up already.
Accept(s) ==
  /\ handler[s] = "none" /\ browser[s] \in {"opening", "closed"}
  /\ Goto(s, IF redis THEN "subscribe" ELSE "notice")
  /\ UNCHANGED <<page, browser, forwarder, wire, heard, pubsub>>

\* send_json of the notice; to a socket that is closed it may raise.
Notice(s) ==
  /\ handler[s] = "notice"
  /\ \/ /\ Goto(s, "idle")
        /\ wire' = IF browser[s] = "closed" THEN wire
                   ELSE [wire EXCEPT ![s] = Append(wire[s], Info)]
     \/ browser[s] = "closed" /\ Goto(s, "done") /\ UNCHANGED wire
  /\ UNCHANGED <<page, browser, forwarder, heard, pubsub>>

\* SUBSCRIBE is sent, not awaited, and the forwarder started.
Subscribe(s) ==
  /\ handler[s] = "subscribe"
  /\ Goto(s, "wait")
  /\ forwarder' = [forwarder EXCEPT ![s] = "listen"]
  /\ UNCHANGED <<page, browser, wire, heard, pubsub>>

\* It raises, before the try: nothing closes the pubsub.
SubscribeFails(s) ==
  /\ handler[s] = "subscribe"
  /\ Goto(s, "done")
  /\ leaked' = leaked \cup {s}
  /\ UNCHANGED <<page, browser, forwarder, wire, heard, redis, published, channel, buffer,
                 lossy>>

\* Variant: while a frame is on its way the next messages are dropped.
SendsIfIdle(s) == IF wire[s] = << >> THEN <<Head(buffer[s])>> ELSE << >>

Sends(s) == <<Head(buffer[s])>>

\* forward: the next message of listen() is sent. To a closed socket send_text goes
\* nowhere or raises, and then the task ends.
Forward(s) ==
  /\ forwarder[s] = "listen" /\ buffer[s] # << >>
  /\ \/ /\ buffer' = [buffer EXCEPT ![s] = Tail(buffer[s])]
        /\ wire' = IF browser[s] = "closed" THEN wire
                   ELSE [wire EXCEPT ![s] = wire[s] \o Sends(s)]
        /\ UNCHANGED forwarder
     \/ /\ browser[s] = "closed"
        /\ forwarder' = [forwarder EXCEPT ![s] = "ended"]
        /\ buffer' = [buffer EXCEPT ![s] = << >>]
        /\ UNCHANGED wire
  /\ UNCHANGED <<page, browser, handler, heard, redis, published, channel, lossy, leaked>>

\* receive_text raises WebSocketDisconnect. The page never sends a text.
Disconnected(s) ==
  /\ handler[s] \in {"wait", "idle"} /\ browser[s] = "closed"
  /\ Goto(s, IF handler[s] = "wait" THEN "cancel" ELSE "done")
  /\ UNCHANGED <<page, browser, forwarder, wire, heard, pubsub>>

\* Variant: the forwarder is awaited and not cancelled.
Awaits(s) == forwarder[s] = "ended"

Cancels(s) == TRUE

\* forwarder.cancel() and the wait for its end, whatever it raises.
Cancel(s) ==
  /\ handler[s] = "cancel"
  /\ Cancels(s)
  /\ forwarder' = [forwarder EXCEPT ![s] = "ended"]
  /\ Goto(s, "unsubscribe")
  /\ buffer' = [buffer EXCEPT ![s] = << >>]
  /\ lossy' = lossy \ {s}
  /\ UNCHANGED <<page, browser, wire, heard, redis, published, channel, leaked>>

Unsubscribe(s) ==
  /\ handler[s] = "unsubscribe"
  /\ Goto(s, "close")
  /\ channel' = channel \ {s}
  /\ UNCHANGED <<page, browser, forwarder, wire, heard, redis, published, buffer, lossy,
                 leaked>>

\* One try covers unsubscribe and aclose: when the first raises the second is skipped.
UnsubscribeFails(s) ==
  /\ handler[s] = "unsubscribe"
  /\ Goto(s, "done")
  /\ leaked' = leaked \cup {s}
  /\ UNCHANGED <<page, browser, forwarder, wire, heard, redis, published, channel, buffer,
                 lossy>>

\* aclose.
Close(s) ==
  /\ handler[s] = "close"
  /\ Goto(s, "done")
  /\ UNCHANGED <<page, browser, forwarder, wire, heard, pubsub>>

-----------------------------------------------------------------------------
(* Redis and the process.                                                    *)

\* Redis gets the SUBSCRIBE.
Subscribed(s) ==
  /\ handler[s] \in {"wait", "cancel"} /\ forwarder[s] = "listen" /\ s \notin channel
  /\ channel' = channel \cup {s}
  /\ heard' = IF s \in lossy \/ browser[s] = "closed" THEN heard
               ELSE [heard EXCEPT ![s] = published]
  /\ UNCHANGED <<page, browser, server, wire, redis, published, buffer, lossy, leaked>>

\* publish, after an audit's row is committed (Verify!Publish). One that fails is not
\* published.
Publish ==
  /\ redis /\ published < LastAudit
  /\ published' = published + 1
  /\ buffer' = [s \in Sockets |-> IF s \in channel /\ forwarder[s] = "listen"
                                  THEN Append(buffer[s], published + 1)
                                  ELSE buffer[s]]
  /\ UNCHANGED <<page, browser, server, wire, heard, redis, channel, lossy, leaked>>

\* The connection to Redis breaks. The client subscribes again on a new one, or gives
\* up and listen() raises: the forwarder ends, and nobody tells the page.
Lost(s) ==
  /\ forwarder[s] = "listen"
  /\ channel' = channel \ {s}
  /\ buffer' = [buffer EXCEPT ![s] = << >>]
  /\ lossy' = lossy \cup {s}
  /\ \/ forwarder' = [forwarder EXCEPT ![s] = "ended"]
     \/ UNCHANGED forwarder
  /\ UNCHANGED <<page, browser, handler, wire, heard, redis, published, leaked>>

\* The process stops, and its sockets and connections with it.
Restart ==
  /\ handler' = [s \in Sockets |-> IF handler[s] = "none" THEN "none" ELSE "done"]
  /\ forwarder' = [s \in Sockets |-> IF forwarder[s] = "none" THEN "none" ELSE "ended"]
  /\ handler' # handler
  /\ channel' = {} /\ leaked' = {}
  /\ buffer' = [s \in Sockets |-> << >>]
  /\ UNCHANGED <<page, browser, wire, heard, redis, published, lossy>>

\* What ws_audits does once it has accepted.
Serve(s) ==
  \/ Notice(s) \/ Subscribe(s) \/ SubscribeFails(s)
  \/ Disconnected(s) \/ Cancel(s) \/ Unsubscribe(s) \/ UnsubscribeFails(s) \/ Close(s)

Next ==
  \/ \E s \in Sockets :
       \/ Connect(s) \/ Opened(s) \/ Deliver(s) \/ Closed(s)
       \/ Accept(s) \/ Serve(s) \/ Forward(s)
       \/ Subscribed(s) \/ Lost(s)
  \/ Unmount
  \/ Publish
  \/ Restart

Spec == Init /\ [][Next]_vars

\* Timers fire, tasks of the event loop that can go on do, calls to Redis end one way or
\* the other and what is sent to an open socket arrives; a connection that is tried
\* again and again is accepted and opened some time. Nothing makes Redis, the network
\* or the process stay up.
Fairness ==
  /\ WF_vars(\E s \in Sockets : Connect(s))
  /\ SF_vars(\E s \in Sockets : browser[s] = "opening" /\ Accept(s))
  /\ SF_vars(\E s \in Sockets : Opened(s))
  /\ \A s \in Sockets :
       /\ WF_vars(Deliver(s))
       /\ WF_vars(Forward(s))
       /\ WF_vars(Serve(s))

FairSpec == Spec /\ Fairness

-----------------------------------------------------------------------------
(* Safety.                                                                   *)

\* The feed shows the newest audit first, each once, in the order of their
\* publication, however often the page had to connect again beside handlers of its
\* old sockets (App.tsx:1371).
NewestFirst ==
  \A i \in 1 .. Len(items) - 1 : items[i] > items[i + 1]

\* What is on its wire and what its forwarder has to read is
\* everything published since Redis subscribed it, without a hole, while neither end is
\* closed and its connection to Redis has held ("stream every verify", main.py:327).
\* Otherwise it still is in order.
Stream ==
  \A s \in Sockets :
    LET all == <<heard[s]>> \o wire[s] \o buffer[s] IN
      /\ redis => \A i \in 1 .. Len(all) - 1 : all[i] < all[i + 1]
      /\ s \in channel /\ browser[s] \in {"opening", "open"} /\ s \notin lossy
           => all = [i \in 1 .. published - heard[s] + 1 |-> heard[s] + i - 1]

\* A page that was taken down connects no more and hears nothing, whether it was
\* connected, connecting or waiting for its timer (App.tsx:1382-1386).
QuietOnceUnmounted ==
  unmounted => ~retry /\ \A s \in Sockets : browser[s] \in {"none", "closed"}

-----------------------------------------------------------------------------
(* Liveness, under FairSpec.                                                 *)

\* A page that lost its socket, or could not connect, gets another (App.tsx:1375-1379).
Reconnects == status = "connecting" ~> status # "connecting" \/ unmounted

\* Once the page has closed a socket its handler ends, the forwarder with it, and the
\* connection to Redis is given back, unless SUBSCRIBE or UNSUBSCRIBE raised
\* (main.py:357-368).
TornDown ==
  \A s \in Sockets :
    browser[s] = "closed" ~>
      /\ handler[s] \in {"none", "done"} /\ forwarder[s] # "listen"
      /\ s \in channel => s \in leaked

\* An audit that is published while the page has an open socket comes to the page, unless
\* the socket ends or its connection to Redis was lost (main.py:348-352).
Arrives ==
  \A a \in Audits :
    published = a /\ (\E s \in channel : browser[s] = "open" /\ heard[s] < a)
      ~> \/ items # << >> /\ items[1] >= a
         \/ status = "connecting" \/ unmounted
         \/ \E s \in Sockets : browser[s] = "open" /\ (s \in lossy \/ handler[s] = "done")
=============================================================================
