------------------------------ MODULE ClientSync ------------------------------
(***************************************************************************)
(* The WebSocket client (client/websocket/client.ts) and its               *)
(* OptimisticStore (client/websocket/store.ts): mutations are shown before *)
(* the server answers, queued while the client is offline, kept in the     *)
(* browser's database over a reload, and settled by a delta, a reply, a    *)
(* rejection or a timeout, whichever comes first.                          *)
(*                                                                         *)
(* Every write has a number, its timestamp. The merge of a field keeps the *)
(* value with the later timestamp (schema/atomic.ts:200), so a row is the  *)
(* number of the last write it has merged, None if it has none, and the    *)
(* order of the stack does not matter: the stack is a set of entries.      *)
(***************************************************************************)
EXTENDS Integers, Sequences

CONSTANTS
  Row,            \* rows of one resource, all matched by the client's query
  Ops,            \* for each mutation of this client, the writes it predicts
  Foreign,        \* for each write of another client, its row
  Initial,        \* the rows the server starts with
  MaxTime,        \* the number of the last write there is
  Copies,         \* subscriptions of this client that a write is told to
  MaxBreaks,      \* bound on lost connections and reloads
  Reloads,        \* whether the page may be reloaded
  EarlyMutations  \* whether the page mutates before its storage has loaded

None == 0
Message == DOMAIN Ops
Write == [op : {"INSERT", "UPDATE"}, row : Row]

ASSUME ClientAssumption ==
  /\ MaxTime \in Nat /\ Message \subseteq 1..MaxTime
  /\ \A m \in Message :
       /\ Ops[m] \in Seq(Write)
       /\ \A i, j \in DOMAIN Ops[m] : Ops[m][i].row = Ops[m][j].row => i = j
  /\ DOMAIN Foreign \subseteq 1..MaxTime /\ DOMAIN Foreign \cap Message = {}
  /\ \A f \in DOMAIN Foreign : Foreign[f] \in Row
  /\ Initial \in [Row -> Nat] /\ Copies \in Nat \ {0}
  /\ MaxBreaks \in Nat /\ Reloads \in BOOLEAN /\ EarlyMutations \in BOOLEAN

\* An optimistic mutation: write k of mutation msg.
Entry == UNION {{[msg |-> m, k |-> k] : k \in DOMAIN Ops[m]} : m \in Message}
EntriesOf(m) == {e \in Entry : e.msg = m}
OpOf(e) == Ops[e.msg][e.k].op
RowOf(e) == Ops[e.msg][e.k].row
RowsOf(es) == {RowOf(e) : e \in es}

VARIABLES
  \* the client's memory
  issued,     \* the mutations made
  stack,      \* optimisticMutationStack
  index,      \* the keys of customMutationIndex
  queue,      \* customMutationStack
  handlers,   \* replyHandlers: mutations with a timer running
  raw, shown, \* rawObjPool and optimisticRawObjPool
  phase,      \* the storage: "opening", "stacks" (loaded) or "ready"
  \* the client's database
  disk,       \* [rows, stack, saved, index, queue]
  \* the connection and the server
  online,     \* the socket is open
  subscribed, \* the server has handled the SUBSCRIBE of this connection
  inbox,      \* how many MUTATEs of each mutation the connection carries
  stray,      \* MUTATEs the server holds of connections that are closed
  deltas,     \* SYNC messages on their way to the client
  answers,    \* replies, rejections and data loads on their way
  rows,       \* the server's rows
  told,       \* the writes of other clients that have been made
  \* history
  breaks,     \* connections lost and reloads
  abandoned,  \* mutations in flight, and not queued, when the page went away
  restored    \* mutations whose entries came back from the database

memory == <<stack, index, queue, handlers, raw, shown>>
wire == <<online, subscribed, inbox, stray, deltas, answers>>
server == <<rows, told>>
history == <<breaks, abandoned, restored>>
vars == <<issued, memory, phase, disk, wire, server, history>>

Blank == [r \in Row |-> None]

Init ==
  /\ issued = {} /\ stack = {} /\ index = {} /\ queue = {} /\ handlers = {}
  /\ raw = Blank /\ shown = Blank
  /\ phase = "opening"
  /\ disk = [rows |-> Blank, stack |-> {}, saved |-> FALSE, index |-> {}, queue |-> {}]
  /\ online = FALSE /\ subscribed = FALSE
  /\ inbox = [m \in Message |-> 0] /\ stray = {}
  /\ deltas = <<>> /\ answers = {}
  /\ rows = Initial /\ told = {}
  /\ breaks = 0 /\ abandoned = {} /\ restored = {}

-----------------------------------------------------------------------------
(* The store.                                                              *)

\* (Mutant: the clock is not looked at.)
LatestArrived(a, b) == b
Latest(a, b) == IF a > b THEN a ELSE b

\* The server's value with the pending mutations of the row merged into it.
Overlay(r, rw, st) ==
  LET merged == {rw[r]} \cup {e.msg : e \in {f \in st : RowOf(f) = r}}
  IN  CHOOSE v \in merged : \A u \in merged : u <= v

\* updateRawObjPool for some rows.
Refreshed(rs, rw, st) ==
  [r \in Row |-> IF r \in rs THEN Overlay(r, rw, st) ELSE shown[r]]

\* Writing to the database does nothing until it is open.
Save(d) == disk' = IF phase = "opening" THEN disk ELSE d

\* confirmCustomMutation and undoCustomMutation: the entries of m leave the
\* stack, if the index knows m. (Mutant: the rows are not rendered again.)
SettleSilently(m) ==
  IF m \notin index THEN UNCHANGED <<stack, index, queue, raw, shown, disk>>
  ELSE /\ stack' = stack \ EntriesOf(m)
       /\ index' = index \ {m} /\ queue' = queue \ {m}
       /\ Save([disk EXCEPT !.stack = stack', !.saved = TRUE, !.index = index', !.queue = queue'])
       /\ UNCHANGED <<raw, shown>>
Settle(m) ==
  IF m \notin index THEN UNCHANGED <<stack, index, queue, raw, shown, disk>>
  ELSE LET gone == stack \cap EntriesOf(m)
       IN  /\ stack' = stack \ gone
           /\ index' = index \ {m} /\ queue' = queue \ {m}
           /\ shown' = Refreshed(RowsOf(gone), raw, stack')
           /\ Save([disk EXCEPT !.stack = IF gone = {} THEN @ ELSE stack',
                                !.saved = @ \/ gone # {},
                                !.index = index', !.queue = queue'])
           /\ UNCHANGED raw

\* The entry a delta of mutation m settles: the first one for the same row and
\* operation, else the first one with the same operation.
Matched(d) ==
  LET same == {e \in stack : d.origin \in index /\ e.msg = d.origin /\ OpOf(e) = d.op}
      exact == {e \in same : RowOf(e) = d.row}
      from == IF exact # {} THEN exact ELSE same
  IN  {e \in from : \A f \in from : e.k <= f.k}

\* replayCustomMutationStack, with the socket open or not. (Mutant: no timer is
\* set for a mutation that is sent again.)
ReplayUntimed(q) ==
  /\ IF online' THEN inbox' = [m \in Message |-> inbox[m] + IF m \in q THEN 1 ELSE 0]
     ELSE UNCHANGED inbox
  /\ UNCHANGED handlers
Replay(q) ==
  IF online'
  THEN /\ inbox' = [m \in Message |-> inbox[m] + IF m \in q THEN 1 ELSE 0]
       /\ handlers' = handlers \cup q
  ELSE UNCHANGED <<inbox, handlers>>

-----------------------------------------------------------------------------
(* The client.                                                             *)

\* genericMutate of a procedure with an optimistic handler.
Mutate(m) ==
  /\ m \notin issued /\ \A n \in issued : n < m
  /\ EarlyMutations \/ phase = "ready"
  /\ issued' = issued \cup {m}
  /\ stack' = stack \cup EntriesOf(m)
  /\ index' = index \cup {m}
  /\ shown' = Refreshed(RowsOf(EntriesOf(m)), raw, stack')
  /\ IF online
     THEN /\ inbox' = [inbox EXCEPT ![m] = @ + 1]
          /\ handlers' = handlers \cup {m}
          /\ UNCHANGED queue
     ELSE /\ queue' = queue \cup {m}
          /\ UNCHANGED <<inbox, handlers>>
  /\ Save([disk EXCEPT !.stack = stack', !.saved = TRUE, !.index = index',
                        !.queue = IF online THEN @ ELSE queue'])
  /\ UNCHANGED <<raw, phase, online, subscribed, stray, deltas, answers, server, history>>

\* The stacks come out of the database: what it has replaces what the page has.
LoadStacks ==
  /\ phase = "opening"
  /\ phase' = "stacks"
  /\ stack' = IF disk.saved THEN disk.stack ELSE stack
  /\ index' = IF disk.index # {} THEN disk.index ELSE index
  /\ queue' = IF disk.queue # {} THEN disk.queue ELSE queue
  /\ UNCHANGED online
  /\ Replay(queue')
  /\ restored' = IF disk.saved THEN {e.msg : e \in disk.stack} ELSE {}
  /\ UNCHANGED <<issued, raw, shown, disk, subscribed, stray, deltas, answers, server, breaks,
                 abandoned>>

\* loadConsolidatedState: rows without an origin, merged one by one.
Consolidate(loaded) ==
  LET given == {r \in Row : loaded[r] # None}
  IN  /\ raw' = [r \in Row |-> Latest(raw[r], loaded[r])]
      /\ shown' = Refreshed(given, raw', stack)
      /\ Save([disk EXCEPT !.rows = [r \in Row |-> IF r \in given THEN raw'[r] ELSE @[r]],
                          !.stack = IF given = {} THEN @ ELSE stack,
                          !.saved = @ \/ given # {}])

LoadRows ==
  /\ phase = "stacks"
  /\ phase' = "ready"
  /\ Consolidate(disk.rows)
  /\ UNCHANGED <<issued, stack, index, queue, handlers, wire, server, history>>

\* The socket opens: the query is subscribed again and the queue is sent again.
Connect ==
  /\ ~online
  /\ online' = TRUE
  /\ Replay(queue)
  /\ UNCHANGED <<issued, stack, index, queue, raw, shown, phase, disk, subscribed, stray,
                 deltas, answers, server, history>>

\* A delta: addMutation that is not optimistic.
ReceiveDelta ==
  /\ deltas # <<>>
  /\ LET d == deltas[1]
         gone == Matched(d)
     IN  /\ deltas' = IF d.copies > 1 THEN [deltas EXCEPT ![1].copies = @ - 1]
                      ELSE Tail(deltas)
         /\ stack' = stack \ gone
         /\ raw' = [raw EXCEPT ![d.row] = Latest(@, d.value)]
         /\ shown' = Refreshed({d.row} \cup RowsOf(gone), raw', stack')
         /\ Save([disk EXCEPT !.rows = [@ EXCEPT ![d.row] = raw'[d.row]],
                              !.stack = stack', !.saved = TRUE])
  /\ UNCHANGED <<issued, index, queue, handlers, phase, online, subscribed, inbox, stray,
                 answers, server, history>>

\* A reply and a rejection have the same effect on the store, and none without a
\* handler. (Mutant: the reply stops the timer and no more.)
ReceiveVerdictOnly(a) ==
  /\ a.kind = "VERDICT"
  /\ handlers' = handlers \ {a.msg}
  /\ UNCHANGED <<stack, index, queue, raw, shown, disk>>
ReceiveVerdict(a) ==
  /\ a.kind = "VERDICT"
  /\ handlers' = handlers \ {a.msg}
  /\ IF a.msg \in handlers THEN Settle(a.msg)
     ELSE UNCHANGED <<stack, index, queue, raw, shown, disk>>

ReceiveLoad(a) ==
  /\ a.kind = "LOAD"
  /\ Consolidate(a.rows)
  /\ UNCHANGED <<stack, index, queue, handlers>>

ReceiveAnswer ==
  /\ \E a \in answers :
       /\ answers' = answers \ {a}
       /\ ReceiveVerdict(a) \/ ReceiveLoad(a)
  /\ UNCHANGED <<issued, phase, online, subscribed, inbox, stray, deltas, server, history>>

\* The five seconds of a mutation are over.
Timeout(m) ==
  /\ m \in handlers
  /\ handlers' = handlers \ {m}
  /\ Settle(m)
  /\ UNCHANGED <<issued, phase, wire, server, history>>

-----------------------------------------------------------------------------
(* The connection and the server.                                          *)

\* Whatever is on its way is lost, but for MUTATEs the server has received.
Break(received) ==
  /\ breaks < MaxBreaks
  /\ breaks' = breaks + 1
  /\ online' = FALSE /\ subscribed' = FALSE
  /\ deltas' = <<>> /\ answers' = {}
  /\ inbox' = [m \in Message |-> 0]
  /\ stray' = stray \cup received

Disconnect ==
  /\ online
  /\ \E received \in SUBSET {m \in Message : inbox[m] > 0} : Break(received)
  /\ UNCHANGED <<issued, memory, phase, disk, server, abandoned, restored>>

\* The page is closed and opened again.
Reload ==
  /\ Reloads
  /\ \E received \in SUBSET {m \in Message : inbox[m] > 0} : Break(received)
  /\ abandoned' = abandoned \cup (handlers \ queue)
  /\ stack' = {} /\ index' = {} /\ queue' = {} /\ handlers' = {}
  /\ raw' = Blank /\ shown' = Blank
  /\ phase' = "opening"
  /\ UNCHANGED <<issued, disk, server, restored>>

Subscribe ==
  /\ online /\ ~subscribed
  /\ subscribed' = TRUE
  /\ answers' = answers \cup {[kind |-> "LOAD", rows |-> rows]}
  /\ UNCHANGED <<issued, memory, phase, disk, online, inbox, stray, deltas, server, history>>

Delta(o, r, v, m) == [op |-> o, row |-> r, value |-> v, origin |-> m, copies |-> Copies]
Tell(ds) == deltas' = IF subscribed THEN deltas \o ds ELSE deltas

\* The procedure of m performs its first n writes. An INSERT needs a row that is
\* new, an UPDATE one that exists; a delta has what the merge left, which is the
\* older value if the write is late. (Mutant: writes that are not made are told.)
PerformToldEarly(m, n) ==
  LET left(i) == Latest(rows[Ops[m][i].row], m)
  IN  /\ \A i \in 1..n : (Ops[m][i].op = "INSERT") <=> (rows[Ops[m][i].row] = None)
      /\ rows' = [r \in Row |-> IF \E i \in 1..n : Ops[m][i].row = r
                                THEN Latest(rows[r], m) ELSE rows[r]]
      /\ Tell([i \in DOMAIN Ops[m] |-> Delta(Ops[m][i].op, Ops[m][i].row, left(i), m)])
Perform(m, n) ==
  LET left(i) == Latest(rows[Ops[m][i].row], m)
  IN  /\ \A i \in 1..n : (Ops[m][i].op = "INSERT") <=> (rows[Ops[m][i].row] = None)
      /\ rows' = [r \in Row |-> IF \E i \in 1..n : Ops[m][i].row = r
                                THEN Latest(rows[r], m) ELSE rows[r]]
      /\ Tell([i \in 1..n |-> Delta(Ops[m][i].op, Ops[m][i].row, left(i), m)])

\* A MUTATE is handled: the procedure returns or throws, at the end or before, and
\* its verdict goes to the connection it came from.
Execute(m) ==
  /\ \E n \in 0..Len(Ops[m]) : Perform(m, n)
  /\ \/ /\ inbox[m] > 0
        /\ inbox' = [inbox EXCEPT ![m] = @ - 1]
        /\ answers' = answers \cup {[kind |-> "VERDICT", msg |-> m]}
        /\ UNCHANGED stray
     \/ /\ m \in stray
        /\ stray' = stray \ {m}
        /\ UNCHANGED <<inbox, answers>>
  /\ UNCHANGED <<issued, memory, phase, disk, online, subscribed, told, history>>

\* Another client writes a row that exists.
ForeignWrite(f) ==
  /\ f \notin told /\ rows[Foreign[f]] # None
  /\ told' = told \cup {f}
  /\ rows' = [rows EXCEPT ![Foreign[f]] = Latest(@, f)]
  /\ Tell(<<Delta("UPDATE", Foreign[f], rows'[Foreign[f]], None)>>)
  /\ UNCHANGED <<issued, memory, phase, disk, online, subscribed, inbox, stray, answers, history>>

-----------------------------------------------------------------------------
Next ==
  \/ LoadStacks \/ LoadRows \/ Connect \/ ReceiveDelta \/ ReceiveAnswer
  \/ \E m \in Message : Mutate(m) \/ Timeout(m) \/ Execute(m)
  \/ Disconnect \/ Reload \/ Subscribe
  \/ \E f \in DOMAIN Foreign : ForeignWrite(f)

\* Timers fire, the stacks are read from the database and the client reconnects. Nothing
\* is asked of the server.
Fairness ==
  /\ WF_vars(LoadStacks) /\ WF_vars(Connect)
  /\ \A m \in Message : WF_vars(Timeout(m))

Spec == Init /\ [][Next]_vars /\ Fairness

-----------------------------------------------------------------------------
(* Properties.                                                             *)

Delivered ==
  [op : {"INSERT", "UPDATE"}, row : Row, value : Nat, origin : Message \cup {None},
   copies : Nat]
Answer ==
  [kind : {"VERDICT"}, msg : Message] \cup [kind : {"LOAD"}, rows : [Row -> Nat]]

\* Type correctness.
TypeOK ==
  /\ issued \subseteq Message /\ stack \subseteq Entry /\ index \subseteq Message
  /\ queue \subseteq Message /\ handlers \subseteq Message
  /\ raw \in [Row -> Nat] /\ shown \in [Row -> Nat]
  /\ phase \in {"opening", "stacks", "ready"}
  /\ disk \in [rows : [Row -> Nat], stack : SUBSET Entry, saved : BOOLEAN,
               index : SUBSET Message, queue : SUBSET Message]
  /\ online \in BOOLEAN /\ subscribed \in BOOLEAN
  /\ inbox \in [Message -> Nat] /\ stray \subseteq Message
  /\ deltas \in Seq(Delivered) /\ answers \subseteq Answer
  /\ rows \in [Row -> Nat] /\ told \subseteq DOMAIN Foreign
  /\ breaks \in 0..MaxBreaks
  /\ abandoned \subseteq Message /\ restored \subseteq Message

\* What is shown of a row is the server's value with the pending mutations of the
\* row on top, in whatever order deltas, loads, replies and timeouts come. Entries
\* that come back from the database may stay unseen until their row is touched.
ShownIsOverlay ==
  \A r \in Row :
    shown[r] \in {Overlay(r, raw, stack),
                 Overlay(r, raw, {e \in stack : e.msg \notin restored})}

\* Nobody's value is ahead of the server: neither what the client holds as
\* confirmed nor what it has stored.
ConfirmedIsBehind == \A r \in Row : raw[r] <= rows[r] /\ disk.rows[r] <= rows[r]

\* Every pending entry has somebody to settle it, a timer or the queue that is sent
\* on the next connection, unless it was in flight when the page went away.
PendingIsAwaited ==
  \A e \in stack : e.msg \in index /\ e.msg \in handlers \cup queue \cup abandoned

\* When nothing is pending or on its way, the client shows the server's rows.
Quiet ==
  /\ online /\ subscribed /\ phase = "ready"
  /\ deltas = <<>> /\ answers = {} /\ stack = {}
Converges == Quiet => shown = rows

\* Every mutation stops being pending, unless the page went away while it was in
\* flight.
PendingIsSettled ==
  \A m \in Message :
    (stack \cap EntriesOf(m) # {}) ~> (stack \cap EntriesOf(m) = {} \/ m \in abandoned)
=============================================================================
