# A verification development for live-state

live-state keeps clients in sync with rows of a relational database: a server writes rows
through a storage layer, a query engine holds the queries clients have subscribed to and turns
committed writes into deltas for them, and the client applies deltas under its own optimistic
mutations. This directory holds TLA+ models of that code, the TLC configurations that check
them on small instances, and proofs of their main invariants for every instance.

All paths below are under `src/packages/live-state/src/` unless they start with `src/`. The
terms (Tracked Query, Window, Boundary, scope-in, scope-out, Relation Graph) are those of
`src/CONTEXT.md`.

Run a model with `tlc -workers 2 -config X.cfg M` and a proof module with `tlapm M.tla`;
`PROJECT.json` lists the runs, the mutants that each property is known to catch, the source
lines of every definition, the hazards and the theorems.

## 1. Inventory

| Component | Source | State it keeps | Operations | What is hard |
|---|---|---|---|---|
| Window ordering index | `core/query-engine/window-index.ts` | sorted array of entries, map id -> entry | insert, remove, boundary, backfillCount | an array and a map updated apart; binary search; the cap |
| Query engine, windowed root query | `core/query-engine/index.ts` | per query node: its window, `windowInitialized`, its callbacks | subscribe, get, handleMutation, the window handlers | handlers are async: every await lets another one in; rows beyond the boundary are not in memory |
| Query engine, plain and included queries | same | tree of query nodes, match marks | getMatchingQueries, scope-in with children, sendInsertsForTree | matching a child needs relation edges of rows that may not be tracked yet |
| Query engine, windowed includes, relational sort keys | same | a window per parent, `seededParents` | handleWindowedIncludeUpdate, handleRelationalSortFanout, reconcilePromotions | one write moves rows in many windows |
| Query node lifetime | same, `core/query-engine/utils.ts` | nodes shared by hash | subscribe, unsubscribe | what the hash tells apart; release while reads are out |
| Query matching and where clauses | `utils.ts`, `server/storage/sql-utils.ts`, `core/query.ts` | the clause of a query | applyWhere in SQL and in memory, where(), first() | two evaluations of one clause that must agree |
| Relation Graph | `core/query-engine/relation-graph.ts` | nodes with paired `references`/`referencedBy`, match marks | ingest, applyWrite, setMatched | fed by reads and by notifications that overtake each other |
| Storage transactions | `server/storage/sql-storage.ts` | a stack of mutations per running (nested) transaction | transaction, commit, rollback, trackMutation, notifyMutations | the stacks shadow savepoints; every order of settle, return and throw |
| Storage reads and writes | same, `sql-utils.ts` | rows and per-field timestamps, in two tables | rawUpdate, rawInsert, get | read, merge, write without a transaction |
| CRDT values | `schema/atomic.ts`, `schema/relations.ts` | value and timestamp per field | merge | ties, missing times, converted nulls |
| Client optimistic store | `client/websocket/store.ts`, `client.ts`, `storage.ts` | server value and shown value of each row, stack of unsettled mutations, queue of offline mutations, reply handlers, and copies in the browser's database; the snapshots of subscribed queries | genericMutate, addMutation, undoMutation, confirmCustomMutation, undoCustomMutation, load, replay, timeout, get | late answers, reordered and repeated deltas, reload |
| Client object graph | `client/websocket/obj-graph.ts` | nodes and links | link, unlink, remove | both sides of a link |
| Client connection | `client/ws-wrapper.ts` | socket, reconnect timers | connect, disconnect, reconnect | connect awaits credentials |
| WebSocket transport | `server/transport-layers/web-socket.ts` | subscriptions of a connection | SUBSCRIBE, UNSUBSCRIBE, close | a close or a second message during a subscribe |
| Router and hooks | `server/router.ts`, `server/hooks.ts` | none that outlives a request | default insert and update | hooks that drop fields or throw |
| HTTP, schema, batcher | `server/transport-layers/http.ts`, ... | none | dispatch, DDL | - |

How they interact: `Server.handleCustomQuery` registers a callback with the query engine
(`subscribe`) and then reads the rows (`get`); a write goes to the storage, which commits it,
reads it back and calls `notifySubscribers`, i.e. `QueryEngine.handleMutation`, once per
mutation and without awaiting it; `handleMutation` updates the Relation Graph at once, finds
the matching query nodes through promises, and its window handlers read more rows from the
storage; what changes is passed to the callbacks, which the transport forwards to the client.
There is one JavaScript thread: only an `await` or a `.then` lets another handler in, and
there are many.

What makes each part correct: the index is a top-N set under one total order; the engine's
window is the top N of what storage holds, and each subscriber was told exactly the changes
that lead there; both halves of an edge of the graph agree and lead where the foreign key
leads; a query holds in memory exactly the rows the database would select; the rows of a tree are
matched and told exactly while their root is in scope; the newest write of a field stays, with its
time; the subscribers of a storage hear of exactly the committed writes; what a page has loaded is
served on its connection, and nothing else is; the client shows the server's rows with its own
pending writes on top, its links follow its rows, and no write stays pending for ever.

## 2. Modules

| Module | Models | Extends |
|---|---|---|
| `SortOrder` | sort keys, `compareValues`, `WindowIndex.compare` | - |
| `WindowOps` | the methods of `WindowIndex` as operators on a value `[entries, index]` | `SortOrder` |
| `TopWindow` | what a window promises: a set that keeps the first `Limit` entries (abstract) | `SortOrder` |
| `WindowIndex` | any sequence of calls, each cut at the iterations of `lowerBound` | `WindowOps` |
| `WindowedScope` | one windowed Tracked Query: storage, writers, engine handlers, reads, subscribers | `WindowOps` |
| `Includes` | a Tracked Query without a limit, its include and who shares its nodes | - |
| `ParentWindows` | an include with a limit, ordered by a field of a related row: a window per parent | `WindowOps` |
| `WhereClause` | a where clause in SQL and in memory, as operators | - |
| `WhereQuery` | a query that is built, read and kept in scope by the engine | `WhereClause` |
| `RelationGraph` | the graph between notifications and read answers | - |
| `FieldMerge` | the last-writer-wins merge of a record, as operators | - |
| `StoredWrite` | requests that insert and update one row, down to the subscriber's copy | `FieldMerge` |
| `Session` | the client's connection, what it loads, and the server's end of both | - |
| `ClientObjects` | the client's object graph and the snapshot of a query | - |
| `ClientSync` | the client and its `OptimisticStore`, its database, connection and server | - |
| `Transaction` | `SQLStorage.transaction` and the database's savepoints | - |
| `MC*` | definitions of the values the configurations need | the module they name |
| `*Proofs` | lemmas and theorems (`StorageProofs`: of `StoredWrite`, `Transaction` and `RelationGraph`) | the module they name |

**SortOrder, WindowOps.** A sort key is a function from the positions of `orderBy` to numbers
or `Nil`; `Before` is `compare(a, b) < 0`, with nulls first under "asc" and last under "desc"
and the id as the last key. `InsertEntry` and `RemoveEntry` are `insert` and `remove`
including the assertion that an id is not held: it is reported as `threw`.

**WindowIndex** has the variables of the loop of `lowerBound` as state (`method`, `target`,
`lo`, `hi`): `InsertRow` and `RemoveRow` are the calls up to the search with their early
returns, `Probe` is one iteration, `EndInsert` and `EndRemove` the rest of the call. That a
finished call changes the window exactly as `InsertEntry` and `RemoveEntry` say, so that
`WindowedScope` may use these, is the lemma `EndIsEntry` of `WindowIndexProofs`.

**WindowedScope** cuts each async function at its awaits. `ready` is the microtask queue:
continuations whose promise needs no I/O run in order, before any answer of the storage.
`reads` holds the calls of `storage.get` in flight; each is evaluated by `Answer` at some
moment between call and delivery and delivered in any order. `outbox` holds writes that have
committed and whose notification has not run: `Commit` and `CommitTransaction` append,
`Reread` is the read-back of `rawUpdate` (the mutation of an UPDATE carries the row as it is
read back), `Notify` is `handleMutation` up to its first promise, for all mutations of a
transaction in a row. From there: `MatchInsert` then `Place` (`handleWindowedInsert`),
`MatchUpdateOutside` then `Place` (`scopeInViaUpdate`), `ScopeOut` then `DeliverFill` and
`FillRow` (`backfillWindow`), `Refresh` (`refreshInWindow`) and, when the row may have fallen
behind the boundary, `KeepDemoted` or `SwapDemoted` (`reconcileDemotion`). `Subscribe` and
`DeliverSeed`, `SeedRow`, `SeedDone` are `subscribe`, `get` and `trackObjects`; `FailRead` is
a read that is rejected. `view` is what the reply and the deltas a subscriber got add up to;
it is what the engine passes to its callbacks, not what a transport delivers.

**Includes** has the committed rows, the marks and edges of the Relation Graph, the subscriptions
of the root's and the include's node (`roots`, `kids`) and the include's place among the root's
`childQueries` (`linked`). `Commit` and `CommitTransaction` write, `Notify` is `handleMutation`
for the mutations of a batch, `Continue` the continuation of each (`TakeInsert`: match and send,
or read the tree; `TakeUpdate`: send to whom it was matched, read the tree for whom it newly
matches), `Answer` and `Deliver` a read: a subscriber's reply (`Reply`) or the tree of a row that
came into scope (`Tree`, `sendInsertsForTree`). Values are left out: `view` says of each field
whether what a subscriber has is what is stored, and a commit makes whatever is under way stale.
`missed` is history: children matched to the include while out of scope when a client joined.

**ParentWindows** has one `WindowOps` window for each parent. A step is a write with the whole
of its handler: `InsertTask` (`handleWindowedInsert`), `UpdateTask` (`Moved` is
`handleWindowedIncludeUpdate`: stay and be re-keyed, leave and backfill, come in and displace),
`Rename` (`handleRelationalSortFanout`: `Fanned` repositions the tasks of the user, `Reread` gives
every window its `Demotions` and has each row that is first now `Promoted`),
`ParentScopesIn` and `Subscribe` (`trackObjects` with `seededParents`). The interleavings of the
same handlers are `WindowedScope`'s subject; this module is about windows that affect each other.

**WhereClause, WhereQuery.** `Selected` is the SQL: `Joins` collects one left join for each table
(`applyJoins`), a relation to many becomes an EXISTS, comparisons with null are unknown and the
connectives have three values; a list with null in it is in no relation to what is not in it.
`HoldsJS` is `applyWhere` of `utils.ts` on an object with what
`extractIncludeFromWhere` loads. `WhereQuery` builds a clause with `where()` (`Spread`) and
`first()`, subscribes, and lets `Insert` and `Update` judge each written row with `Matches`
(`getMatchingQueries`).

**FieldMerge, StoredWrite.** A cell is a value and its time, `MergedField` the merge of
`schema/atomic.ts` with its tie, its missing times and the conversion that null is not kept from.
In `StoredWrite` a request is begun (`Begin`: router and middleware), reads (`Read`), merges and
runs its hook (`BeforeUpdate`, `BeforeInsert`), sends its statements, which are done (`Update`,
`Insert`), refused (`Refuse`) or hit a key that is there (`Duplicate`), is told (`Tell`:
`buildMutation` to `notifySubscribers`, with the engine's answer to an unknown row, `Fetch`) and
answered. `Unreferenced` is the foreign key of the table of timestamps, which not every dialect has.
`overlapped`, `done`, `wrote` (the requests whose values were put in the row: an UPDATE of a row that
is not there is done, and writes nothing) and `broken` are history the properties speak in.

**Session** has the variables of `WebSocketClient` (`ws`, `intentionally`, `attempts`, the calls of
`connect` that await credentials, the timers and whether `reconnectTimer` holds the last one), each socket at both ends, the messages on their way
to the server, and the server's `handlers` (SUBSCRIBE messages between their awaits), `callbacks`
(held by the engine) and `subscriptions` (unsubscribe functions, by connection and query).
`Open` resubscribes everything with a counter, `CloseEvent`, `Refused` and `Unexpected` schedule a
reconnect, `Procedure` and `ReadBack` are the two awaits of `handleCustomQuery`.

**ClientObjects** has, per child row, the number of the last write in the server's and in the shown
pool, the graph (`references`, `referencedBy`, `nodes`) and one query of parents, with their
children or without (`flatInclude`), and its snapshot. `Updated` is `updateRawObjPool`, which
returns without a notification where a row has neither a value nor a node, with `Relinked`, the
relation's merge that decides whether the link moves; `Mutate`, `Delta`, `Settle` (`undoMutation`),
`Load` (`loadConsolidatedState`) and `Drop` (`removeFromPool`) are the calls. Each notifies under
one name (`Notified`), and the snapshot is computed again only if the query is `Concerned` by it.

**RelationGraph** has `Commit` (a write, whose `touched` are the foreign keys in its payload),
`Evaluate` (the storage evaluates a read), `Notify` (`applyWrite`) and `Deliver` (`ingest`). Two
histories: `whole` are the rows that came with all their columns (read, or in an INSERT that was not
swallowed), `met` those of which a write or a read started while another was on its way.
Rows are of one resource that references itself: nodes are keyed by id alone, so this is the
case where a row is a parent and a child. Reads of several rows stand for a tree of includes:
`ingestNested` ingests every row of the tree with its own foreign keys.

**Transaction** has one action per awaited call of a callback: `TrackedWrite`, `Nest`, `CommitNested`,
`RollbackNested`, `CommitTop`, `RollbackTop`, and the ways a callback ends: `Return*`,
`Throw*`. `uncommitted`, `aborted` and the `mark` and `live` of a frame are the database's side
(external): the uncommitted writes, the failed-transaction state of Postgres, the savepoints.
`target` is `mutationStack`, the frames' `stack` and `parent` are the locals of the closures.
A `setting` says on which database the storage runs and what its callers do, and does not
change in a behaviour.

**ClientSync** has the client's memory (`stack`, `index`, `queue`, `handlers`, `raw`, `shown`
are `optimisticMutationStack`, `customMutationIndex`, `customMutationStack`, `replyHandlers`,
`rawObjPool`, `optimisticRawObjPool`), what the browser's database holds (`disk`), the messages
of the connection and the server's rows. Every write has a number, which stands for its
timestamp and its value: the server gives its writes the timestamp of the client's message
(`server/router.ts:237`), so a write and its prediction have one number, a row is the number of
the last write merged into it and the merge is the maximum. `Mutate` is `genericMutate` with an
optimistic handler, on or off line; `ReceiveDelta` is `addMutation` with the two ways of finding
the prediction a delta settles; `ReceiveVerdict` is a reply or a rejection, `ReceiveLoad` the
rows of a subscription, `Timeout` the five-second timer. `Connect` subscribes and sends the
queue again. `Disconnect` loses whatever is on its way, except that the server may have
received some of the MUTATEs (`stray`): it performs them and has nobody to answer. `Reload`
is a page that goes away at any point and opens its database again in two steps, `LoadStacks`
and `LoadRows`. `Execute` performs some first part of a procedure's writes, which is all of
them when it returns and may be any part when it throws; deltas come in order, answers at any
time. The calls of one handler to the database are one step.

## 3. Runs

| Run | Bounds | Shows |
|---|---|---|
| `WindowIndex` | 4 ids, values {1, null}, two keys in opposite directions, limit 3 | 32,001 states. Order, cap and map (`IndexWellFormed`), that a call ends (`CallsReturn`), and that the whole implements `TopWindow` (`ImplementsTopWindow`) |
| `Scope` | 3 ids, 2 values, limit 2, two subscribers, one operation at a time (a transaction of two inserts is one), 2 rejected reads | 787,319 states. `WindowIsTop`, `ViewIsWindow`, `NoThrow`, `HeldRowsAreCurrent`, `FailureCostsARow` |
| `ScopeProgress` | as `Scope`, one subscriber, single writes, reads answer | 17,063 states. `SubscribersCatchUp` |
| `Transaction` | 4 writes, 3 levels, four settings | 75,993 states. `StacksFollowSavepoints`, `NotifiedIsDurable` |
| `Graph` | 2 rows, one paired and one unpaired foreign key, 2 writes or reads in flight, of 1 row they may meet | 4,162,396 states. `EdgesAreReferenced`, `ReferencesAreEdges`, `EdgesAreTrue`, `EdgesAreComplete` |
| `ClientSync` | 2 rows, 2 mutations (an insert; an update of two rows), 1 foreign write, 1 lost connection or reload | 246,782 states. `ShownIsOverlay`, `ConfirmedIsBehind`, `PendingIsAwaited`, `Converges`, `PendingIsSettled` |
| `StoredWrite` | 3 requests out of three kinds, 2 fields, one of them converted, 1 failure | 1,141,818 states. `LoneNewestWriteStays`, `TimeIsOfItsValue`, `SubscriberHasTheRow`, `HeardWasStored`, `TimesGoOn` |
| `Session` | 1 query, 4 loads, calls of connect or disconnect and breaks in all | 651,251 states. `OneSocket`, `LoadedIsServed`, `NoCallbackIsLeft`, `LoadedIsServedInTheEnd` |
| `Where` | 18 clauses, 4 databases of four resources, chains of 2, 2 writes | 103,768 states. `MembersAreSelected`, `RowsComeOnce`, `ChainNarrows` |
| `Includes` | 2 roots, 1 child, 2 subscribers with and without the include, 2 operations in flight, transactions | 844,664 states. `MarksAreScope`, `TreeIsHeld`, `RootsAreTold` |
| `ParentWindows` | 2 parents, 4 tasks, 2 users with 2 names, limit 2, 2 subscribers | 218,786 states. `ParentWindowsAreTop`, `ViewsAreWindows` |
| `ClientObjects` | 2 parents, 1 child, 3 writes, 2 rows scoped out or writes undone, the query with the children or without | 433,015 states. `LinksFollowRows`, `ListsAreReferences`, `ShownIsCurrent` |

Each module has one type invariant, `TypeOK`. Where it is proved it is not run again; elsewhere it
is the first conjunct of a checked invariant (`OneSocket`, `MembersAreSelected`, `MarksAreScope`,
`ParentWindowsAreTop`, `ListsAreReferences`, `StacksFollowSavepoints`).

Why the bounds are enough. A window distinguishes "fits", "displaces the last", "is last
itself" and "is held", all of which need at most limit + 1 rows; with limit 3 the search has
every shape of range up to three entries, and ties and nulls occur in both directions. In the
scope a row may be in the window, past the boundary, out of the predicate or absent, and keys
may tie; three rows and a limit of two give each combination, including a demotion with a
candidate and a demotion without. Two subscribers give an early and a late joiner. Three
levels of nesting give a frame that is both child and parent. Two rows give self-reference,
mutual reference and re-parenting; one of them may be read before and ingested after a write to it,
while the other, which it names or which names it, must come out right. Of the client's
two mutations the second depends on the first, may be queued before or after it and may reach
the server when it fails; the foreign write lies between them by the clock and may arrive
after both; one break can hit any point, and a mutation that is sent twice, a lost answer and
a delta that comes after its timeout all occur. Of the requests of `StoredWrite` one inserts, one
is early, one is late and writes every field, and two of the same kind tie; three of them give a
pair that overlaps and a third that is alone. A session of four calls and breaks has a connection
that is lost, refused or closed by the page at any point and comes back with a query that was loaded
twice, a second load of a query that is loaded and one that comes after the last unload, and an
error and a close that leave two timers before a disconnect. The clauses of `Where` have each operator class, both
kinds of relation, a relation of a relation, two relations to one table, and `$and` and `$or` at
both levels. `Includes` has a child that moves between two roots, and a subscriber that shares the
root's node without the include. Four tasks and a limit of two give each parent a full window with
one candidate while the other has one as well. One child with three writes has an early, a late and
an own one in any order; two children with two writes (69,246 states) hold as well. `MaxInFlight` bounds only the start of new work, so every
write is handled to its end.

What the runs assume is in their constants and in the antecedents of the properties, because the
code does not provide it. The same models, with other values, show what happens otherwise.

*Windowed query.* The top-N property holds when operations do not overlap, or overlap but only
insert with one subscriber (`MaxInFlight = 3`, `Updates = FALSE`, `Limit = 1`); under overlapping
updates the window stays well formed but can differ from the top N (section 4 proves the first, and
top N for one operation at a time).

- a second subscriber's read tracks a new row before its INSERT notification, which is then
  ignored; the window never takes the row in (`WindowIsTop`, `MaxInFlight = 2`);
- the two notifications of one transaction can both decide that a row is outside the window, and
  the second insert throws in a promise nobody catches (`NoThrow`, `window-index.ts:132`), or one
  re-keys a row that the other has moved (`HeldRowsAreCurrent`; both with `"UPDATE"` among
  `Transactions`);
- seeding displaces rows when an insert was handled during the seeding read (against the comment
  at `core/query-engine/index.ts:647-649`; `MaxInFlight = 2`), and when the window changes during a
  demotion's read both rows may enter (against `index.ts:1330-1332`);
- a rejected read is not made again: the window stays short until other rows fill it, the row of a
  rejected demotion stays with its subscribers (`index.ts:1298`, `1397`), and a subscriber that
  joins later is answered from storage, so that the two see different rows (`ViewIsWindow` without
  `failures = 0`). `FailureCostsARow` says how much is lost.

*Included rows.* With `Meetings = TRUE` a write that is handled while the tree of its row is being
read is lost or overtaken by the match mark (`index.ts:1583`). A `one` include (`Kind = "one"`) is
matched through a reference of the child, which it does not have (`index.ts:1941-1948`): its row
stops matching at its first update and a root that comes to refer to it fetches nothing. Children
of a root that left the scope stay matched, so a subscriber that joins then is told their changes
as UPDATEs of rows it was never given; these are the pairs in `missed`. A parent that leaves the
scope of a windowed include and comes back has a window that was not kept up and is not filled
again (`Leaves = TRUE`, `index.ts:662-665`). A row that is re-parented is told as a DELETE and an
INSERT (`index.ts:1002`), and between the two a client shows it under both parents.

*Where clauses.* Each condition of `Agreeable`, `OwnTables` and `Live` is needed: a key beside
`$and` or `$or`, which the SQL leaves out; a negation of a field that is null; a list with null in
it, with which SQL's IN and NOT IN are true of no null and NOT IN of nothing at all; an order test
of what is no number in memory (text, ids and times, `utils.ts:96-126`), which holds of nothing
there and which the database does compare; a test that a missing related row would pass; two relations to one table, which share its join
(`sql-utils.ts:156`), or one back to the query's own; branches that ask for different relations
under one; a related row that is written without the row; an inserted row without a field that is
tested for null, which in memory is undefined. In each the engine keeps a row the query would not
return, or the other way round.

*Relation Graph.* A read that a write has overtaken is ingested additively: it brings the old edge
back, or a key that was cleared, and leaves the inverse of the edge it replaces at the old target.
`EdgesAreReferenced` holds of such a row; the other three properties are false of it, which is why
they leave out the rows in `met`, and hold of all others in the same run. A child inserted
before its parent swallows the parent's INSERT (known: the `test.fails` of
`src/packages/live-state/test/e2e/transaction-sync.test.ts:614-625`), and an UPDATE of a row the
graph does not know makes its node without the edges of the columns it does not touch
(`relation-graph.ts:179`): both rows lack edges until they are read (`EdgesAreComplete` without
`whole`).

*Storage.* A Postgres callback that catches an error goes on to "commit" an aborted transaction,
and its writes are broadcast (`NotifiedIsDurable` without `~CatchesAbort`); writes made in a nested
callback after its `commit` are committed but not broadcast (`lingers`). Requests that overlap on a
row can store the value of one with the time of the other, or an older value over a newer
(`StoredWrite` without `overlapped`), and a null in a number or boolean field is stored as null and
heard as 0 or false (`atomic.ts:237`, `383`, `423`). No row count is looked at: an UPDATE that changes
no row, because another request inserts it only after the UPDATE's own statement, is read back all
the same (`sql-storage.ts:476-487`, `521-523`), and subscribers are told a value that was never stored
(`HeardWasStored` without its second disjunct).

*Client.* With two subscriptions (`Copies = 2`) the second copy of a delta settles the prediction of
another row, which falls back to its old value until its own delta comes; a mutation in flight when
the page is reloaded is restored with no timer and no message, and stays pending; a page that
mutates before its database has answered loses the mutation, for the stacks that are read replace
its own (`ShownIsOverlay`, `EarlyMutations = TRUE`; `store.ts:84`). A row that was scoped out stays
in the list of its parent (`obj-graph.ts:163`, `182`; the rows in `gone`), a link that was undone
leads to the node of null until the row takes a write (`store.ts:385`; the children in `undone`),
and a link and its row can disagree on who wins a tie (`relations.ts:103`).

*Connection.* `connect` or `disconnect` during another `connect`'s await leaves two sockets, or one
after `disconnect` (`raced`). An error and the close that follows it schedule a timer each, as does
a second break before the first timer has fired, and `disconnect` clears the one `reconnectTimer`
names (`ws-wrapper.ts:74-77`, `152`, `162-171`): the other one sets `intentionallyDisconnected` back
and opens a socket although the page has disconnected (`lastCall = "half"`; against the test "should
not reconnect after intentional disconnect", `src/packages/live-state/test/client/ws-wrapper.test.ts:385`,
which has one timer at most). A second SUBSCRIBE, an UNSUBSCRIBE or a close during a SUBSCRIBE, or
a read that throws, leaves a callback with the engine for good (`crossed`); a credentials function
that throws ends the reconnecting (`stranded`).

**Fairness.** `WindowIndex` assumes that a call that has begun runs on: the code is
synchronous. `WindowedScope` assumes weak fairness of the engine's steps together (`Engine`):
the JavaScript runtime runs queued continuations and the database answers a query it was
sent. Nothing obliges anyone to write or subscribe. `ScopeProgress` has no rejected reads:
when one is rejected the code never retries, and a row may stay out. `ClientSync` assumes weak
fairness of the timers, of reading the stacks from the database and of `Connect` (the client
reconnects without limit by default); nothing is assumed of the server or of the messages.
`Session` assumes weak fairness of its own steps together (`Progress`): timers fire, the credentials
come or the function throws, sockets that are not refused open, messages arrive in order and
handlers get their answers; each can happen a bounded number of times in a behaviour, so that no
step can be starved by the others.

## 4. Proofs

TLAPS checks these for every value of the constants.

| Module | Theorem | |
|---|---|---|
| `WindowIndexProofs` | `BeforeIsStrictTotalOrder` | `compare` is a strict total order on entries with any number of keys and directions, nulls included |
| `WindowIndexProofs` | `IndexTypeCorrect`, `IndexAlwaysWellFormed`, `FindsPosition` | the invariants of run `WindowIndex` for any limit and any calls |
| `WindowIndexProofs` | `Refines` | the index implements `TopWindow`: what is kept, what is refused and which row is reported as evicted |
| `WindowedScopeProofs` | `TypeCorrect` | any number of subscribers, rows and operations in flight, with transactions and rejected reads; its invariant says that the window never loses its order, cap or map |
| `WindowedScopeProofs` | `WindowAlwaysTop`, `ViewAlwaysWindow` | any rows, orderBy, limit (0 and 1 included) and subscribers, one operation at a time, storage answering: after any sequence of evictions, scope-outs, backfills, demotions and subscribes the window is the first rows of the query, and each subscriber holds what it holds |
| `WindowedScopeProofs` | `HeldAlwaysCurrent`, `NeverThrows` | the same, whatever reads are rejected on the way: no row is kept that left the scope or moved, and no handler offers the window an id it holds |
| `ParentWindowsProofs` | `ParentWindowsAreAlwaysTop` | any parents, children, names, limit and subscribers, as long as no parent with a window leaves the scope (`~Leaves`, as in the run): the window of each parent is its first children under their current keys, and no child is in two |
| `ParentWindowsProofs` | `ViewsAreAlwaysWindows` | the same: each subscriber has been told exactly the children those windows hold |
| `IncludesProofs` | `TypeCorrect` | any rows, a relation of either direction, any interleaving |
| `IncludesProofs` | `MarksAreAlwaysScope`, `TreeIsAlwaysHeld`, `RootsAreAlwaysTold` | any roots, children, subscribers with and without the include, and any number of operations and transactions in flight, where a child refers to its root and operations on related rows do not meet (`Kind = "many"`, `~Meetings`, as in the run): once all is handled the matches are what is in scope, each subscriber holds it as it is stored with the tree it asked for, and knows of every row whether it is in scope |
| `StorageProofs` | `GraphTypeCorrect`, `EdgesAlwaysReferenced` | whatever overtakes what, an edge of a row is known at its target |
| `StorageProofs` | `ReferencesAlwaysEdges`, `EdgesAlwaysTrue`, `EdgesAlwaysComplete` | any rows and foreign keys and any number of writes and reads in flight, of each row of which no two met: no target knows it that it does not point at, and once nothing of it is on its way its edges are its foreign keys, all of them if it came whole |
| `ClientSyncProofs` | `TypeCorrect`, `ConfirmedAlwaysBehind` | any rows, mutations and foreign writes, any number of subscriptions, lost connections and reloads: the client never holds or stores a value the server does not have |
| `SessionProofs` | `TypeCorrect`, `AlwaysOneSocket` | any number of connects, disconnects, timers, refusals and breaks, any limit of reconnects: one socket at a time, unless a call comes during the await of `connect`, and none after a disconnect that left no timer |
| `SessionProofs` | `LoadedAlwaysServed` | any queries, loads, unloads and reconnects, messages handled concurrently: what is loaded is asked for, handled, held or was rejected |
| `SessionProofs` | `NeverLeavesCallback` | the same, until messages of one query cross or a read throws: no callback outlives its connection or its last unload |
| `StorageProofs` | `MergeCommutes` | two writes of a record that give no field the same time may be merged in either order, over any held record |
| `StorageProofs` | `TypeCorrect`, `ToldIsStored` | any requests, hooks, clocks, overlaps and refused statements: a subscriber is told no value that was never in the row, but that of an UPDATE which found no row and overlapped with its INSERT |
| `StorageProofs` | `TimeGoesOn` | while requests have the row one after the other no statement takes the time of a field back |
| `StorageProofs` | `NewestStays` | any requests, overlaps and refused statements: the newest write of a field, stored while nobody else had the row, is never lost to a later request |
| `StorageProofs` | `TimeIsAlwaysOfItsValue`, `SubscriberAlwaysHasTheRow` | any number of requests that neither overlap nor are refused: each stored value has the time it was written with, and the subscriber ends with the stored row |
| `StorageProofs` | `TxTypeCorrect`, `StacksAlwaysFollow`, `NotifiedAlwaysDurable` | any number of writes, any nesting, callbacks that do not go on over an error that aborts: what is notified was committed, and all of it, in order, if they also stop once they have settled |
| `ClientSyncProofs` | `ShownIsAlwaysOverlay`, `PendingIsAlwaysAwaited` | the same, for a page that mutates only when its storage has loaded: what is shown is the server's value with the pending writes on top, and every pending write has somebody to settle it |
| `ClientSyncProofs` | `AlwaysConverges` | the same page, subscribed, with nothing pending or on its way: it shows exactly the server's rows |
| `ClientObjectsProofs` | `TypeCorrect`, `LinksAlwaysFollowRows` | any parents and children, any writes and predictions, whatever order their deltas, loads, settlements and scope-outs come in: a child's link is its row's, unless one of its writes was undone |
| `ClientObjectsProofs` | `ListsAreAlwaysReferences`, `ShownIsAlwaysCurrent` | the same: a child is in the list of the parent it refers to and in no other, as long as neither was scoped out, and a query that was read, with the children or without, shows the tree there is, although calls that do not notify it leave its snapshot alone |

Assumptions: the named ASSUMEs of the modules (ids and values are integers, `Nil` is not one,
`Limit` is a natural number, a row that is absent is not a row, ...). TLC evaluates them in
every run.

The arguments. *Index*: the search is right because the window is sorted, and the window stays
sorted because the search was right, so the invariant has both: `WellFormed` and what the loop knows
of its bounds (`SearchInv`). `LowerBoundUnique` then identifies the loop's result with `LowerBound`,
`InsertAtSorted` and `RemoveAtSorted` keep the order, and `GrownAgrees` and `ShrunkAgrees` keep the
map: removal finds the entry by its own key, which is where the map and the order meet.
*Refinement*: a window maps to the set of its entries; `InsertEntryOnSets` and `RemoveEntryOnSets`
say what the array's operations do to that set, `SizeOfEntries` that the set has as many members as
the array has entries, and the early returns and the end of each call map to a step of `TopWindow`
while the search stutters. *Scope*: every action changes the window only through `InsertEntry` and
`RemoveEntry`, so `WellFormed` needs no knowledge of the protocol, but the type of what waits in the
queues does: `IInv` adds that a batch in the outbox is of rows that are stored (`Stored`), without
which the read-back of an UPDATE has no row to return. *Graph*: `EdgesAreReferenced` is inductive
together with the type. The other three are false of a row of which two writes or reads met, and
rest on `Current`, which is said of every other row, whatever happens to the rest: what is on its way
of it is one write or one read and says what is stored (`OnItsWayAlone`), so that a read never brings
a stale key, and an edge differs from the foreign key only while the write that moved it waits
(`EdgesFollow`). Hence `ingest`, which unlinks nothing, has nothing to unlink. `PairedOnly` says that
a relation without a declared inverse is known only at its source, so that moving its edge leaves
nothing behind. *Scope, one operation at a time*: the four properties that compare the window with
the storage and with the subscribers assume `OneAtATime`, the values of run `Scope`: section 3 tells
how each fails as soon as two operations, or two updates of one transaction, meet. They hold only
between operations, so the invariant (`SerialInv`) says what holds within one: `Stage` is a
disjunction over where the operation is. In every stage the window holds nothing but rows in scope
and those whose notification is not handled yet (`HeldIn`). Where no read was rejected it also holds
that the window, with the rows in hand if there are any, is the start of the rows in scope
(`Leads`), and that the graph and the subscribers agree with it (`Agreed`). A read that is out is
described by its cursor and limit, since a backfill is right because its cursor is the window's end
and its limit the free slots. In a demotion (`Demoting`) the window is one short, everything else in
scope comes after it, and the read of two rows has the best candidate among them whether or not it
brings back the demoted row. What a handler does to the window as an array is reduced to what it
does to its set of entries by `AddsWithin`, `Refuses` and `Displaces` of `WindowIndexProofs`, the
lemmas the refinement rests on too. `Calm` adds that a row the graph has matched is stored and that
a window nobody asked for is empty; without the latter the first subscribe would seed a window that
is not. *A window for each parent*: between two writes the store has its type and finitely many
tasks and parents, and each task's parent is there (`StoreInv`), the marks are the parents in scope
as long as somebody is subscribed (`MarkInv`), and what the engine holds agrees with the store
(`Held`): there are windows only of parents in scope, each `Fits`, that is, its entries are a start
of its parent's tasks as long as the limit allows, and a subscriber holds a task of a parent if and
only if the parent's window does. `Fits` is what the lemmas speak of, and not the sequence the
property names, because each handler adds and removes entries and is reduced to `AddsWithin`,
`Refuses` and `Displaces` again; `FitsIsTop` turns it into the sequence. A move is right since only
one window holds the task, so that `Quit` and `Entered` change two windows of which each is judged
alone, and a task is of one parent. A demotion is as in *Scope*. A rename moves the entries of many
windows at once, after which none need be a start of anything: what is left is that each is sorted
and has its ids, and `Reread` makes it fit, parent by parent, whatever it held; the rows that are
not first any more leave before any is placed, so that nothing is displaced on the way. The folds
over rows and parents are followed step by step from the function they run through (`UpTo`).
`~Leaves` enters at `ParentScopesOut` only: the window of a parent that has left is not kept up.
*Includes*: operations on rows that are not related run side by side, so the invariant (`Inv`)
speaks of one row at a time and of what is under way for it. `Once` says that this is one write or
one read, and `Writes` that the write left what is stored, which is where `~Meetings` enters. A root
(`RootOK`) is matched and held as it is in scope now, or as it was before the write of it that is
under way: an INSERT of it is never ignored, since nothing that refers to it can be known before it
(`RefsFirst`). A child is reached by two ways, its own notification and the tree of its root, and an
INSERT whose row a tree has brought is ignored. Hence `EdgeOK`: its edge is its reference unless a
write that sets it waits; `DueCovered`: if it and its root are in scope it is matched, or what will
match it is under way, be it a write of the child, or a write of the root that brings it into scope,
or the read of the root's tree that has not been answered or has the child in it; and `InsertKnown`:
an INSERT that will be ignored has nothing left to do. The read of a tree is right at any moment of
its life, since neither its root nor a child that it names can be written meanwhile, children can
only be inserted, and those have notifications of their own (`TreeOK`). A subscriber comes only when
nothing is under way, and its reply is then alone (`Alone`) and is the query's scope (`ReplyOK`);
the properties are the invariant with nothing under way (`Settled`). *Client*: that the client is
behind the server needs the same of every delta and load on its way (`MessagesAreBehind`), and that
the server's rows only advance. `PendingIsAwaited` needs to know what a reload brings back, so the
invariant (`Kept`) says that the database holds the stacks the page holds once they are loaded, that
a page that has not loaded them has none, and that each stored entry has its message in the stored
queue, a timer running or was abandoned; without the second part, which is where `EarlyMutations`
enters, loading overwrites what the page has done. `ShownIsOverlay` rests on it at `LoadStacks`
only; elsewhere `OverlayIsLocal` shows that a row that is not rendered anew has the overlay it had.
`Converges` needs that nothing the server has is lost on the way: for a subscribed page each row's
value, or one that is not older, is held or in a delta or a load that is still to come
(`AllArrives`); with nothing on its way it is held, and `ConfirmedIsBehind` gives the other
direction. *Objects*: the invariant is of one child (`Fine`): its row is the latest of what was
merged and what is pending. That is needed because `updateRawObjPool` decides by the previous row,
not by the graph, whether there is a link to cut (`store.ts:713`). A child that was scoped out
starts again without a link, and one of which a write was undone has a link to nobody until its row
moves on, which is all that is left of the invariant for it. The graph's calls touch one child each
(`LinkedFacts`, `CutFacts`, `RelinkedFacts`), and every arrival, of a delta, of a loaded row or of a
prediction, is one case: the latest of what is pending and a merge is what it was, or what is merged
(`OverlayOfMerge`). A load is a fold over the children of a parent: `FoldDefined` says that the
function exists, and `FineOfLoads` follows the invariant from child to child. That the snapshot is
the tree is carried through a call by `Told`, which also says that a parent that is shown and a
child with a row have nodes: hence a call that returns early changes no tree, and one that notifies
under `"child"` none of a query without the children. *Stored writes*: that
what is told was stored needs the provenance of every value on its way (`Provenance`: of the row, of
what a request read, of what it will write and of the subscriber's copy) and that a request which
tells has put its values in the row, or is an UPDATE that read none and had company when the row came
(`Reached`, `TellsWritten`). That times go on needs that a request that is
alone with the row has read what is stored and will write nothing older (`Alone`); it is the merge
that ensures the latter (`MergedIsLater`), and it is false as soon as two requests overlap, so the
invariant is `overlapped = {} => Alone`. The properties that relate values to times rest on
`LoneInv`, which holds whatever overlaps: what was sent and done at each stage (`Course`), that what
is written is a merge with what was read (`Merges`), where times come from (`Timely`), and that a
request that overlapped no other has had the row to itself (`Apart`), and so sees in the database
what it read or wrote (`Sole`). On it three invariants are built: that the newest write is in the
row, and in the hands of everyone who has read the row since (`Settled`), which is what makes a
write-back of the whole record harmless; that a stored pair of value and time was written by one
request (`Sourced`); and that the subscriber's copy agrees with the row on each field that nobody is
writing (`Followed`). *Session*: `OneSocket` needs that while `connect` awaits it has no live socket
and that it is the only one awaiting, until calls race (`Alone`), and that after a disconnect that
left no timer nothing sets `intentionallyDisconnected` back (`Dismissed`). `LoadedIsServed` and
`NoCallbackIsLeft` compare the page's counters with the server across the messages between them, so
the invariant (`Followed`) says of each query that the last message of it on its way is a SUBSCRIBE
if the query is loaded and an UNSUBSCRIBE if not, and that where there is none to change its mind
the server already has what the page wants; it is the last message that counts, which is why a
SUBSCRIBE for each `load` does no harm. That a socket starts without messages, handlers and
callbacks (`Unopened`) gives the resubscription at its opening a clean start. `Numbered` says that a
number is of one message, one handler and one callback, all of one socket and query, so that an
unsubscribe function removes the callback of its own query and no other, and a close those of its
own socket. `Tidy` says that until something crosses there is one handler or one subscription per
query and socket, and every callback belongs to it. *Transactions*: `StacksFollowSavepoints` is not
inductive, since a rollback must not cut off what the stacks further out hold. The invariant has
three parts, each for as much as callbacks promise. `Shape`, always: savepoints are in the order
they were set. `Chained` and `StacksKept`, where an abort is not caught: the parentStack of a call
is the stack of the call around it, and what a stack holds lies before every savepoint further in
that is not released, so that no rollback removes a write whose notification is kept. `Divided`,
where callbacks also stop once they have settled: only the innermost call can be settled, and the
stacks divide up the uncommitted writes; `PartsJoin` is what a nested commit needs. That an abort is
not caught enters as `aborted => raised`: without it a commit would notify of what the database
rolls back.

Only model-checked: the where clauses, whose evaluation is recursive, which is out of the prover's
reach, as is liveness (`CallsReturn`, `SubscribersCatchUp`, `PendingIsSettled`,
`LoadedIsServedInTheEnd`). What the models do beyond the assumptions of the theorems (overlapping
operations in `WindowedScope`, those that meet in `RelationGraph`, and in `Includes` also `one` relations, overlapping requests in `StoredWrite`) is not proved because it is false there; section
3 says how.

## 5. Not modelled, and the plan

In `WindowedScope`: the release of a subscription, rows that an include brings along, two queries
that share a node though their limit or sort differs (`utils.ts:5`). In `Includes`: more than one
include or level. In `ParentWindows`: overlapping operations. In `WhereClause`: pattern operators,
and clauses the router adds. In `Transaction`: nested transactions started without awaiting each
other, a COMMIT whose outcome is unknown. In `RelationGraph`: several resources with different
columns. In `StoredWrite`: rows inside a transaction, and more than one row. In `ClientSync`: rows
of several fields and ties of timestamps, the DELETE of a scope-out (which this transport does not
send, `web-socket.ts:79`), mutations without an optimistic handler, which leave no entry, failing
writes to the database and writes made between its opening and the first read. In `ClientObjects`:
relations of relations, sorting and filtering of a result in memory. In `Session`: the messages to
the client, and listeners of the application. Whole components that are not modelled (HTTP and its
fetch client, schema definition and initialisation, the batcher, which no storage uses) are listed
in `PROJECT.json` with their reason.

Planned, most important first:

1. Two queries on one node that differ in limit or sort, as an extension of `WindowedScope`.
2. Nested transactions that overlap.
