------------------------------- MODULE Session -------------------------------
(***************************************************************************)
(* A client's connection and its subscriptions: the WebSocketClient with   *)
(* its reconnects (client/ws-wrapper.ts), load and unload                  *)
(* (client/websocket/client.ts), the server's end of each socket           *)
(* (server/transport-layers/web-socket.ts), which handles every message on *)
(* its own with awaits in between, and the callbacks the query engine      *)
(* holds for it (core/query-engine/index.ts).                              *)
(***************************************************************************)
EXTENDS Integers, Sequences, SequencesExt

CONSTANTS
  Query,           \* the queries the page loads
  AutoReconnect,   \* the option of that name
  ReconnectLimit,  \* the option of that name, or 0 for none
  MaxCalls         \* bound on the calls of connect, disconnect and load and the
                   \* connections refused or lost, together

\* Each of these makes two timers at most, and a timer a socket.
Socket == 1..(2 * MaxCalls)
None == 0
SocketState == {"unused", "connecting", "open", "closing", "closed"}

ASSUME SessionAssumption ==
  /\ AutoReconnect \in BOOLEAN /\ ReconnectLimit \in Nat
  /\ MaxCalls \in Nat

VARIABLES
  \* WebSocketClient
  ws,            \* the current socket, or None
  sock,          \* the state of each socket, at the client's end
  intentionally, \* intentionallyDisconnected
  awaiting,      \* calls of connect that await the credentials
  timers,        \* timers to connect again
  held,          \* whether reconnectTimer names one of them: the last one made
  attempts,      \* reconnectAttempts
  \* InnerClient
  counter,       \* subCounter of each remote subscription, 0 when there is none
  \* the connections
  link,          \* whether a socket carries messages: "none", "up" or "down"
  up,            \* the messages on their way to the server
  \* the server
  conn,          \* each socket at the server's end: "none", "open" or "closed"
  handlers,      \* SUBSCRIBE messages being handled, each with its stage
  callbacks,     \* the callbacks the engine holds
  subscriptions, \* for each connection, the unsubscribe function of each query
  \* history
  turns, loads,  \* the calls of connect and disconnect and the breaks, and of load
  lastCall,      \* the page's: "none", "connect", "disconnect", or "half" for a
                 \* disconnect when there were timers that were not held
  messages,      \* the SUBSCRIBE messages made
  refused,       \* for each connection, the queries answered with a REJECT
  raced,         \* connect or disconnect was called while connect awaited
  crossed,       \* messages for one query, or a close, crossed a SUBSCRIBE
  stranded       \* connect has thrown

wrapper == <<ws, sock, intentionally, awaiting, timers, held, attempts>>
wires == <<link, up>>
server == <<conn, handlers, callbacks, subscriptions>>
counts == <<turns, loads, lastCall>>
vars == <<wrapper, counter, wires, server, messages, counts, refused, raced, crossed, stranded>>

Init ==
  /\ ws = None /\ sock = [s \in Socket |-> "unused"]
  /\ intentionally = FALSE /\ awaiting = 0 /\ timers = 0 /\ held = FALSE /\ attempts = 0
  /\ counter = [q \in Query |-> 0]
  /\ link = [s \in Socket |-> "none"] /\ up = [s \in Socket |-> <<>>]
  /\ conn = [s \in Socket |-> "none"]
  /\ handlers = {} /\ callbacks = {}
  /\ subscriptions = [s \in Socket |-> [q \in Query |-> None]]
  /\ turns = 0 /\ loads = 0 /\ lastCall = "none" /\ messages = 0
  /\ refused = [s \in Socket |-> {}] /\ raced = FALSE /\ crossed = FALSE /\ stranded = FALSE

-----------------------------------------------------------------------------
(* WebSocketClient.                                                        *)

Bounded == turns + loads < MaxCalls
Connected == ws # None /\ sock[ws] = "open"
Live(s) == sock[s] \in {"connecting", "open"}

\* connect: nothing when the current socket is open or on its way, else it
\* awaits the credentials.
StartConnect ==
  IF ws # None /\ Live(ws) THEN UNCHANGED <<intentionally, awaiting, raced>>
  ELSE /\ intentionally' = FALSE
       /\ awaiting' = awaiting + 1
       /\ raced' = (raced \/ awaiting > 0)

Connect ==
  /\ Bounded /\ turns' = turns + 1 /\ lastCall' = "connect"
  /\ StartConnect
  /\ UNCHANGED <<ws, sock, timers, held, attempts, counter, wires, server, messages, loads,
                  refused, crossed, stranded>>

\* They all wait as long, so the one that is held comes last.
TimerFires ==
  /\ timers > 0 /\ timers' = timers - 1 /\ held' = (held /\ timers > 1)
  /\ StartConnect
  /\ UNCHANGED <<ws, sock, attempts, counter, wires, server, messages, counts, refused,
                 crossed, stranded>>

\* The credentials are there: the new socket becomes the current one.
NewSocket ==
  /\ awaiting > 0 /\ awaiting' = awaiting - 1
  /\ \E s \in Socket :
       /\ sock[s] = "unused" /\ \A t \in Socket : t < s => sock[t] # "unused"
       /\ sock' = [sock EXCEPT ![s] = "connecting"]
       /\ ws' = s
  /\ UNCHANGED <<intentionally, timers, held, attempts, counter, wires, server, messages, counts,
                 refused, raced, crossed, stranded>>

\* The function that gets them throws: connect does, and nobody tries again.
NoCredentials ==
  /\ awaiting > 0 /\ awaiting' = awaiting - 1
  /\ stranded' = TRUE
  /\ UNCHANGED <<ws, sock, intentionally, timers, held, attempts, counter, wires, server,
                 messages, counts, refused, raced, crossed>>

\* disconnect: the timer that is held is cleared and the current socket closed.
\* (Mutant: the timer goes on.)
LetGo == held' = FALSE /\ UNCHANGED timers
Cleared == held' = FALSE /\ timers' = IF held THEN timers - 1 ELSE timers
Disconnect ==
  /\ Bounded /\ turns' = turns + 1
  /\ lastCall' = IF timers = 0 \/ (timers = 1 /\ held) THEN "disconnect" ELSE "half"
  /\ Cleared
  /\ intentionally' = TRUE
  /\ ws' = None
  /\ sock' = [s \in Socket |-> IF s = ws /\ Live(s) THEN "closing" ELSE sock[s]]
  /\ link' = [s \in Socket |-> IF s = ws /\ link[s] = "up" THEN "down" ELSE link[s]]
  /\ raced' = (raced \/ awaiting > 0)
  /\ UNCHANGED <<awaiting, attempts, counter, up, server, messages, loads, refused,
                 crossed, stranded>>

\* scheduleReconnect. (Attempts are counted when there is a limit.)
Schedule ==
  IF AutoReconnect /\ ~intentionally /\ (ReconnectLimit = 0 \/ attempts < ReconnectLimit)
  THEN /\ attempts' = IF ReconnectLimit = 0 THEN attempts ELSE attempts + 1
       /\ timers' = timers + 1 /\ held' = TRUE
  ELSE UNCHANGED <<attempts, timers, held>>

\* sendWsMessage: nothing when the current socket is not open.
Message(type, q, id) == [type |-> type, query |-> q, id |-> id]
Sent(msgs) ==
  IF ~Connected \/ link[ws] # "up" THEN up ELSE [up EXCEPT ![ws] = @ \o msgs]

\* handleOpen: whichever socket it is, InnerClient sends a SUBSCRIBE for each
\* remote subscription on the current one. (Mutant: only the first time.)
ResubscribedOnce == IF \E s \in Socket : sock[s] = "closed" THEN <<>> ELSE SetToSeq({q \in Query : counter[q] > 0})
Resubscribed == SetToSeq({q \in Query : counter[q] > 0})
Open(s) ==
  /\ sock[s] = "connecting"
  /\ sock' = [sock EXCEPT ![s] = "open"]
  /\ link' = [link EXCEPT ![s] = "up"]
  /\ conn' = [conn EXCEPT ![s] = "open"]
  /\ attempts' = 0
  /\ LET qs == Resubscribed
         msgs == [i \in DOMAIN qs |-> Message("SUBSCRIBE", qs[i], messages + i)]
     IN  /\ messages' = messages + Len(qs)
         /\ up' = IF ws = None \/ sock'[ws] # "open" \/ link'[ws] # "up" THEN up
                  ELSE [up EXCEPT ![ws] = @ \o msgs]
  /\ UNCHANGED <<ws, intentionally, awaiting, timers, held, counter, handlers, callbacks,
                 subscriptions, counts, refused, raced, crossed, stranded>>

\* handleClose: of a socket that was closed or lost, or was never let in.
Closed(s) ==
  /\ sock' = [sock EXCEPT ![s] = "closed"]
  /\ Schedule
  /\ UNCHANGED <<ws, intentionally, awaiting, counter, wires, server, messages,
                 loads, lastCall, refused, raced, crossed, stranded>>
CloseEvent(s) ==
  /\ \/ sock[s] = "closing"
     \/ sock[s] = "open" /\ link[s] = "down"
  /\ Closed(s) /\ UNCHANGED turns
Refused(s) ==
  /\ sock[s] = "connecting" /\ Bounded
  /\ turns' = turns + 1
  /\ Closed(s)

\* handleError, when the server answered with another status than 101: the
\* current socket is closed, and the close event of this one is still to come.
Unexpected(s) ==
  /\ sock[s] = "connecting" /\ Bounded
  /\ turns' = turns + 1
  /\ sock' = [t \in Socket |-> IF t = s \/ (t = ws /\ Live(t)) THEN "closing" ELSE sock[t]]
  /\ link' = [t \in Socket |-> IF t = ws /\ link[t] = "up" THEN "down" ELSE link[t]]
  /\ ws' = None
  /\ Schedule
  /\ UNCHANGED <<intentionally, awaiting, counter, up, server, messages,
                 loads, lastCall, refused, raced, crossed, stranded>>

\* The connection is lost; each end finds out in its own time.
Lost(s) ==
  /\ link[s] = "up" /\ Bounded
  /\ turns' = turns + 1
  /\ link' = [link EXCEPT ![s] = "down"]
  /\ UNCHANGED <<wrapper, counter, up, server, messages, loads, lastCall,
                 refused, raced, crossed, stranded>>

-----------------------------------------------------------------------------
(* InnerClient.                                                            *)

\* load: the SUBSCRIBE is sent whether or not there is one already.
Load(q) ==
  /\ Bounded /\ loads' = loads + 1
  /\ counter' = [counter EXCEPT ![q] = @ + 1]
  /\ messages' = messages + 1
  /\ up' = Sent(<<Message("SUBSCRIBE", q, messages + 1)>>)
  /\ UNCHANGED <<wrapper, link, server, turns, lastCall, refused, raced, crossed, stranded>>

\* The function load returns: the last one out sends the UNSUBSCRIBE.
\* (Mutant: every one does.)
LeavesAlways(q) == TRUE
Leaves(q) == counter[q] = 1
Unload(q) ==
  /\ counter[q] > 0
  /\ counter' = [counter EXCEPT ![q] = @ - 1]
  /\ up' = IF Leaves(q) THEN Sent(<<Message("UNSUBSCRIBE", q, None)>>) ELSE up
  /\ UNCHANGED <<wrapper, link, server, messages, counts, refused, raced, crossed, stranded>>

-----------------------------------------------------------------------------
(* The server. A message is handled up to its first await when it arrives. *)

Handling(s, q) == \E h \in handlers : h.socket = s /\ h.query = q
Drop(s) == up' = [up EXCEPT ![s] = Tail(@)]

Subscribe(s) ==
  /\ conn[s] = "open" /\ up[s] # <<>> /\ Head(up[s]).type = "SUBSCRIBE"
  /\ LET m == Head(up[s])
     IN  /\ handlers' = handlers \cup
                        {[id |-> m.id, socket |-> s, query |-> m.query, stage |-> "procedure"]}
         /\ crossed' = (crossed \/ Handling(s, m.query) \/ subscriptions[s][m.query] # None)
  /\ Drop(s)
  /\ UNCHANGED <<wrapper, counter, link, conn, callbacks, subscriptions, messages, counts,
                 refused, raced, stranded>>

\* The unsubscribe function of the query is called, if there is one.
Unsubscribe(s) ==
  /\ conn[s] = "open" /\ up[s] # <<>> /\ Head(up[s]).type = "UNSUBSCRIBE"
  /\ LET q == Head(up[s]).query
     IN  /\ callbacks' = {c \in callbacks : c.id # subscriptions[s][q]}
         /\ subscriptions' = [subscriptions EXCEPT ![s][q] = None]
         /\ crossed' = (crossed \/ Handling(s, q))
  /\ Drop(s)
  /\ UNCHANGED <<wrapper, counter, link, conn, handlers, messages, counts, refused, raced, stranded>>

\* handleCustomQuery: the middlewares and the procedure, then the engine's
\* subscribe and the start of its get.
Rejected(h) ==
  /\ handlers' = handlers \ {h}
  /\ refused' = [refused EXCEPT ![h.socket] = @ \cup {h.query}]
  /\ UNCHANGED subscriptions
Procedure(h) ==
  /\ h \in handlers /\ h.stage = "procedure"
  /\ \/ /\ handlers' = (handlers \ {h}) \cup {[h EXCEPT !.stage = "reading"]}
        /\ callbacks' = callbacks \cup {[id |-> h.id, socket |-> h.socket, query |-> h.query]}
        /\ UNCHANGED <<subscriptions, refused>>
     \/ Rejected(h) /\ UNCHANGED callbacks
  /\ UNCHANGED <<wrapper, counter, wires, conn, messages, counts, raced, crossed, stranded>>

\* The read is back: the unsubscribe function is kept, in the place of the one
\* there was, and the rows are the reply. When it throws the callback stays.
ReadBack(h) ==
  /\ h \in handlers /\ h.stage = "reading"
  /\ \/ /\ handlers' = handlers \ {h}
        /\ subscriptions' = [subscriptions EXCEPT ![h.socket][h.query] = h.id]
        /\ UNCHANGED <<refused, crossed>>
     \/ Rejected(h) /\ crossed' = TRUE
  /\ UNCHANGED <<wrapper, counter, wires, conn, callbacks, messages, counts, raced, stranded>>

\* The close event: every unsubscribe function kept is called.
\* (Mutant: none is.)
KeptByNone(s) == {}
KeptBy(s) == {subscriptions[s][q] : q \in Query}
ServerClose(s) ==
  /\ conn[s] = "open" /\ link[s] = "down"
  /\ conn' = [conn EXCEPT ![s] = "closed"]
  /\ up' = [up EXCEPT ![s] = <<>>]
  /\ callbacks' = {c \in callbacks : c.id \notin KeptBy(s)}
  /\ crossed' = (crossed \/ \E q \in Query : Handling(s, q))
  /\ UNCHANGED <<wrapper, counter, link, handlers, subscriptions, messages, counts, refused, raced, stranded>>

Next ==
  \/ Connect \/ Disconnect \/ TimerFires \/ NewSocket \/ NoCredentials
  \/ \E s \in Socket :
       \/ Open(s) \/ CloseEvent(s) \/ Refused(s) \/ Unexpected(s) \/ Lost(s)
       \/ Subscribe(s) \/ Unsubscribe(s) \/ ServerClose(s)
  \/ \E q \in Query : Load(q) \/ Unload(q)
  \/ \E h \in handlers : Procedure(h) \/ ReadBack(h)

Spec == Init /\ [][Next]_vars

\* What has begun goes on: timers fire, credentials come, sockets that are not
\* refused open, a close is noticed, messages arrive and are handled. Each of
\* these happens a bounded number of times, so one condition for all will do.
Progress ==
  \/ TimerFires \/ NewSocket
  \/ \E s \in Socket : Open(s) \/ CloseEvent(s) \/ Subscribe(s) \/ Unsubscribe(s)
  \/ \E h \in handlers : Procedure(h) \/ ReadBack(h)
FairSpec == Spec /\ WF_vars(Progress)

-----------------------------------------------------------------------------
(* Properties.                                                             *)

TypeOK ==
  /\ ws \in Socket \cup {None} /\ sock \in [Socket -> SocketState]
  /\ intentionally \in BOOLEAN /\ awaiting \in Nat /\ attempts \in Nat
  /\ timers \in Nat /\ held \in BOOLEAN /\ (held => timers > 0)
  /\ counter \in [Query -> Nat]
  /\ link \in [Socket -> {"none", "up", "down"}]
  /\ \A s \in Socket : \A i \in DOMAIN up[s] :
       up[s][i] \in [type : {"SUBSCRIBE", "UNSUBSCRIBE"}, query : Query, id : Nat]
  /\ conn \in [Socket -> {"none", "open", "closed"}]
  /\ \A h \in handlers :
       h \in [id : Nat, socket : Socket, query : Query, stage : {"procedure", "reading"}]
  /\ \A c \in callbacks : c \in [id : Nat, socket : Socket, query : Query]
  /\ subscriptions \in [Socket -> [Query -> Nat]]

\* Everything has its type and, unless connect or disconnect is called while
\* another call awaits its credentials, there is one socket at a time. Once the
\* page has disconnected there is none, nor a call that would open one, until it
\* connects again: unless the disconnect left a timer that it did not hold.
OneSocket ==
  /\ TypeOK
  /\ ~raced => \A s \in Socket : Live(s) => s = ws
  /\ ~raced /\ lastCall = "disconnect" =>
       awaiting = 0 /\ \A s \in Socket : ~Live(s)

HeldFor(s, q) == \E c \in callbacks : c.socket = s /\ c.query = q

\* While a query is loaded the server has a callback for it on the current
\* connection, or is about to, unless it has answered with a REJECT: however
\* loads, unloads, reconnects and slow procedures interleave.
LoadedIsServed ==
  \A q \in Query :
    Connected /\ link[ws] = "up" /\ counter[q] > 0 =>
      \/ \E i \in DOMAIN up[ws] : up[ws][i].query = q
      \/ Handling(ws, q) \/ HeldFor(ws, q) \/ q \in refused[ws]

\* No callback outlives its connection or its last unload, unless a second
\* message for the query, or a close, came while a SUBSCRIBE was being handled,
\* or when there was a subscription already, or the read threw.
NoCallbackIsLeft ==
  ~crossed =>
    \A c \in callbacks :
      /\ conn[c.socket] = "open"
      /\ Handling(c.socket, c.query) \/ subscriptions[c.socket][c.query] = c.id
      /\ (Connected /\ c.socket = ws /\ link[ws] = "up" /\ up[ws] = <<>>) => counter[c.query] > 0

Stopped == intentionally \/ stranded
Served(q) == Connected /\ (HeldFor(ws, q) \/ q \in refused[ws])

\* A client that has not disconnected gets back to a connection, and what is
\* loaded is subscribed to there in the end, however the connection breaks,
\* unless the function that gets its credentials has thrown.
LoadedIsServedInTheEnd ==
  /\ (lastCall # "none" /\ ~Stopped) ~> (Connected \/ Stopped)
  /\ \A q \in Query :
       (lastCall # "none" /\ counter[q] > 0) ~> (Served(q) \/ counter[q] = 0 \/ Stopped)
=============================================================================
