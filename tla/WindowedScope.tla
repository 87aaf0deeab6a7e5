---------------------------- MODULE WindowedScope ----------------------------
(***************************************************************************)
(* One windowed Tracked Query in the query engine: the rows in storage,    *)
(* the writers that commit them and notify the engine, the handlers that   *)
(* keep the window (async functions, cut at each await), the boundary      *)
(* reads they make, and the subscribers that hold what the reply and the   *)
(* deltas told them.                                                       *)
(*                                                                         *)
(* JavaScript runs one continuation at a time: those whose await needs no  *)
(* I/O wait in the microtask queue (ready) and run in order; answers of    *)
(* storage, and writers whose commit returned, come when it is empty.      *)
(***************************************************************************)
EXTENDS WindowOps, FiniteSets

CONSTANTS
  Client,        \* subscribers of the query
  MaxInFlight,   \* a write or a subscribe starts only below this much work
  Updates,       \* whether rows are updated, not only inserted
  Transactions,  \* the operations of which two may commit together (a bound)
  MaxFailures,   \* bound on the reads storage rejects
  Absent,        \* a row that is not in storage
  Unanswered     \* a read storage has not evaluated

ASSUME ScopeAssumption ==
  /\ MaxInFlight \in Nat \ {0} /\ MaxFailures \in Nat
  /\ Updates \in BOOLEAN /\ Transactions \subseteq {"INSERT", "UPDATE"}
  /\ Absent \notin [sortKey : [1..Len(Directions) -> Value], ok : BOOLEAN]

VARIABLES
  store,     \* the committed rows
  outbox,    \* committed writes whose notification has not run
  tracked,   \* graph.has: the ids the relation graph knows
  matched,   \* the ids the graph has as matching this query
  window,    \* the query node's WindowIndex
  seeded,    \* windowInitialized
  ready,     \* the microtask queue
  reads,     \* storage reads in flight
  phase,     \* per client: "out", "reading", "in" or "rejected"
  view,      \* per client: the ids its reply and its deltas left it holding
  threw,     \* whether an insert of a held id has thrown
  failures   \* how many reads storage has rejected

vars == <<store, outbox, tracked, matched, window, seeded, ready, reads, phase,
          view, threw, failures>>

Row == [sortKey : [1..Len(Directions) -> Value], ok : BOOLEAN]
EntryOf(id, row) == [id |-> id, sortKey |-> row.sortKey]

\* A committed write and the row it left.
Write == [op : {"INSERT", "UPDATE"}, id : Id, row : Row]
\* The writes that may be one of two of a transaction.
Together == {w \in Write : w.op \in Transactions}
Apply(s, w) == [s EXCEPT ![w.id] = w.row]
Applies(s, w) == IF w.op = "INSERT" THEN s[w.id] = Absent ELSE Updates /\ s[w.id] # Absent

\* The rows in the query's predicate.
InScope(s) == {EntryOf(id, s[id]) : id \in {i \in Id : s[i] # Absent /\ s[i].ok}}
\* A continuation in the microtask queue, with the entry of its mutation or the
\* rows of its read that are still to be handled.
Task ==
  {t \in [kind : {"matchInsert", "placeInsert", "matchUpdate", "scopeIn", "seed", "fill"},
          matches : BOOLEAN, rows : Seq(Entry)] : t.kind = "seed" \/ t.rows # <<>>}
MutationTask(k, w) == [kind |-> k, matches |-> w.row.ok, rows |-> <<EntryOf(w.id, w.row)>>]
RowsTask(k, rows) == [kind |-> k, matches |-> TRUE, rows |-> rows]

Read(k, who, moved, cursor, n) ==
  [kind |-> k, clients |-> who, moved |-> moved, cursor |-> cursor, limit |-> n,
   rows |-> Unanswered]

Batch(writes, reread) == [writes |-> writes, reread |-> reread]

InFlight == Len(outbox) + Len(ready) + Len(reads)
Idle == InFlight = 0

Subscribed == {c \in Client : phase[c] # "out"}
\* emitToSubscribers, on the ids its subscribers hold. (Mutant: the DELETE of a
\* row that leaves the window is not sent.)
ToldInsertsOnly(in, out) ==
  [c \in Client |-> IF c \in Subscribed THEN view[c] \cup in ELSE view[c]]
Told(in, out) ==
  [c \in Client |-> IF c \in Subscribed THEN (view[c] \cup in) \ out ELSE view[c]]

Init ==
  /\ store \in [Id -> Row \cup {Absent}]
  /\ tracked = {} /\ matched = {}
  /\ window = EmptyWindow
  /\ seeded = FALSE /\ threw = FALSE /\ failures = 0
  /\ outbox = <<>> /\ ready = <<>> /\ reads = <<>>
  /\ phase = [c \in Client |-> "out"]
  /\ view = [c \in Client |-> {}]

-----------------------------------------------------------------------------
(* Storage and its writers.                                                *)

\* An INSERT's mutation carries the row it wrote; an UPDATE's is read back by
\* rawUpdate before it notifies, in a step of its own (Reread).
Commit(w) ==
  /\ InFlight < MaxInFlight
  /\ Applies(store, w)
  /\ store' = Apply(store, w)
  /\ outbox' = Append(outbox, Batch(<<w>>, w.op = "UPDATE"))
  /\ UNCHANGED <<tracked, matched, window, seeded, ready, reads, phase, view, threw,
                 failures>>

\* Two writes of one transaction; each was read back inside it.
CommitTransaction(w1, w2) ==
  /\ InFlight < MaxInFlight
  /\ Applies(store, w1)
  /\ Applies(Apply(store, w1), w2)
  /\ store' = Apply(Apply(store, w1), w2)
  /\ outbox' = Append(outbox, Batch(<<w1, w2>>, FALSE))
  /\ UNCHANGED <<tracked, matched, window, seeded, ready, reads, phase, view, threw,
                 failures>>

Reread(i) ==
  /\ outbox[i].reread
  /\ LET w == outbox[i].writes[1]
     IN  outbox' = [outbox EXCEPT ![i] = Batch(<<[w EXCEPT !.row = store[w.id]]>>, FALSE)]
  /\ UNCHANGED <<store, tracked, matched, window, seeded, ready, reads, phase, view,
                 threw, failures>>

\* storage.get is evaluated at some moment between its call and its answer.
Answer(i) ==
  /\ reads[i].rows = Unanswered
  /\ \E rows \in FirstRows(After(InScope(store), reads[i].cursor), reads[i].limit) :
       reads' = [reads EXCEPT ![i] = [@ EXCEPT !.rows = rows]]
  /\ UNCHANGED <<store, outbox, tracked, matched, window, seeded, ready, phase,
                 view, threw, failures>>

-----------------------------------------------------------------------------
(* The engine.                                                             *)

\* subscribe, then get: the callback is registered before the read is issued.
Subscribe(c) ==
  /\ phase[c] = "out"
  /\ InFlight < MaxInFlight
  /\ phase' = [phase EXCEPT ![c] = "reading"]
  /\ reads' = Append(reads, Read("seed", {c}, {}, {}, Limit))
  /\ UNCHANGED <<store, outbox, tracked, matched, window, seeded, ready, view,
                 threw, failures>>

\* handleMutation, once per mutation of the batch, in order and with no await
\* between them. An INSERT of an id the graph knows is ignored; a mutation of a
\* resource nobody subscribes to is matched against nothing.
Notify(k) ==
  /\ ~outbox[k].reread
  /\ ready = <<>>
  /\ outbox' = RemoveAt(outbox, k)
  /\ LET writes == outbox[k].writes
         ids(n) == {writes[i].id : i \in 1..n}
         heard(i) ==
           IF \/ i > Len(writes)
              \/ Subscribed = {}
              \/ writes[i].op = "INSERT" /\ writes[i].id \in tracked \cup ids(i - 1)
           THEN <<>>
           ELSE <<MutationTask(IF writes[i].op = "INSERT" THEN "matchInsert"
                               ELSE "matchUpdate", writes[i])>>
     IN  /\ tracked' = tracked \cup ids(Len(writes))
         /\ ready' = heard(1) \o heard(2)
  /\ UNCHANGED <<store, matched, window, seeded, reads, phase, view, threw, failures>>

\* The continuation at the head of the queue, and what it leaves queued.
Current == IF ready = <<>> THEN {} ELSE {Head(ready)}
Done == ready' = Tail(ready)
DoneThen(t) == ready' = Append(Tail(ready), t)

\* handleMutation INSERT after getMatchingQueries: a matching row waits one more
\* turn for resolveSortRelations.
MatchInsert(t) ==
  /\ t.kind = "matchInsert"
  /\ IF t.matches THEN DoneThen([t EXCEPT !.kind = "placeInsert"]) ELSE Done
  /\ UNCHANGED <<store, outbox, tracked, matched, window, seeded, reads, phase,
                 view, threw, failures>>

\* handleWindowedInsert and scopeInViaUpdate: the row takes its place, the row
\* it displaces is scoped out. The throw of an id already held is caught in the
\* first and an unhandled rejection in the second.
Place(t) ==
  /\ t.kind \in {"placeInsert", "scopeIn"}
  /\ LET e == Head(t.rows)
         r == InsertEntry(window, e)
         in == IF r.inserted THEN {e.id} ELSE {}
         out == {x.id : x \in r.evicted}
     IN  /\ window' = r.window
         /\ threw' = (threw \/ r.threw)
         /\ matched' = (matched \cup in) \ out
         /\ tracked' = tracked \cup in
         /\ view' = Told(in, out)
  /\ Done
  /\ UNCHANGED <<store, outbox, seeded, reads, phase, failures>>

\* (Mutant: whether the window holds the row is not asked.)
MatchUpdateAlways(t) ==
  /\ t.kind = "matchUpdate"
  /\ IF t.matches THEN DoneThen([t EXCEPT !.kind = "scopeIn"]) ELSE Done
  /\ UNCHANGED <<store, outbox, tracked, matched, window, seeded, reads, phase,
                 view, threw, failures>>

\* handleWindowedUpdate of a row outside the window that matches: it scopes in
\* one turn later, whatever the window holds by then.
MatchUpdateOutside(t) ==
  /\ t.kind = "matchUpdate"
  /\ ~Has(window, Head(t.rows).id)
  /\ IF t.matches THEN DoneThen([t EXCEPT !.kind = "scopeIn"]) ELSE Done
  /\ UNCHANGED <<store, outbox, tracked, matched, window, seeded, reads, phase,
                 view, threw, failures>>

\* (Mutant: the freed slot is not backfilled.)
ScopeOutNoBackfill(t) ==
  /\ t.kind = "matchUpdate"
  /\ ~t.matches
  /\ LET id == Head(t.rows).id
     IN  /\ Has(window, id)
         /\ window' = RemoveEntry(window, id)
         /\ matched' = matched \ {id}
         /\ view' = Told({}, {id})
  /\ Done
  /\ UNCHANGED <<store, outbox, tracked, seeded, reads, phase, threw, failures>>

\* handleWindowedUpdate of a held row that no longer matches: scope-out, then
\* backfillWindow's read past the boundary.
ScopeOut(t) ==
  /\ t.kind = "matchUpdate"
  /\ ~t.matches
  /\ LET id == Head(t.rows).id
         w == RemoveEntry(window, id)
     IN  /\ Has(window, id)
         /\ window' = w
         /\ matched' = matched \ {id}
         /\ view' = Told({}, {id})
         /\ reads' = Append(reads, Read("fill", {}, {}, Boundary(w), BackfillCount(w)))
  /\ Done
  /\ UNCHANGED <<store, outbox, tracked, seeded, phase, threw, failures>>

\* (Mutant: the row keeps its place and its old key.)
RefreshInPlace(t) ==
  /\ t.kind = "matchUpdate"
  /\ t.matches
  /\ Has(window, Head(t.rows).id)
  /\ Done
  /\ UNCHANGED <<store, outbox, tracked, matched, window, seeded, reads, phase,
                 view, threw, failures>>

\* refreshInWindow of a held row that still matches: re-inserted under its new
\* key. If that made it the boundary of a full window, reconcileDemotion takes
\* it out again and reads two rows past what is left.
Refresh(t) ==
  /\ t.kind = "matchUpdate"
  /\ t.matches
  /\ LET e == Head(t.rows)
     IN  /\ Has(window, e.id)
         /\ \E w \in {InsertEntry(RemoveEntry(window, e.id), e).window} :
              LET demoted == /\ IsFull(w)
                             /\ Boundary(w) = {e}
                             /\ window.index[e.id].sortKey # e.sortKey
                  left == RemoveEntry(w, e.id)
              IN  /\ window' = IF demoted THEN left ELSE w
                  /\ reads' = IF demoted
                              THEN Append(reads, Read("demote", {}, {e}, Boundary(left), 2))
                              ELSE reads
  /\ Done
  /\ UNCHANGED <<store, outbox, tracked, matched, seeded, phase, view, threw, failures>>

-----------------------------------------------------------------------------
(* Answers of storage reaching the engine, one after the other, each when  *)
(* nothing else is runnable.                                               *)

Delivered(i) ==
  /\ ready = <<>>
  /\ reads[i].rows # Unanswered
  /\ reads' = RemoveAt(reads, i)

\* get's answer: trackObjects tracks and matches every row, then seeds the
\* window unless it has been; the client has its reply.
DeliverSeed(i) ==
  /\ reads[i].kind = "seed"
  /\ Delivered(i)
  /\ LET ids == {reads[i].rows[j].id : j \in DOMAIN reads[i].rows}
     IN  /\ tracked' = tracked \cup ids
         /\ matched' = matched \cup ids
         /\ view' = [c \in Client |-> IF c \in reads[i].clients THEN view[c] \cup ids ELSE view[c]]
  /\ phase' = [c \in Client |-> IF c \in reads[i].clients THEN "in" ELSE phase[c]]
  /\ ready' = IF seeded THEN <<>> ELSE <<RowsTask("seed", reads[i].rows)>>
  /\ UNCHANGED <<store, outbox, window, seeded, threw, failures>>

\* One row of the seeding loop; what the insert displaces is not looked at.
SeedRow(t) ==
  /\ t.kind = "seed"
  /\ t.rows # <<>>
  /\ window' = IF Has(window, Head(t.rows).id) THEN window
               ELSE InsertEntry(window, Head(t.rows)).window
  /\ ready' = <<[t EXCEPT !.rows = Tail(t.rows)]>> \o Tail(ready)
  /\ UNCHANGED <<store, outbox, tracked, matched, seeded, reads, phase, view, threw,
                 failures>>

SeedDone(t) ==
  /\ t.kind = "seed"
  /\ t.rows = <<>>
  /\ seeded' = TRUE
  /\ Done
  /\ UNCHANGED <<store, outbox, tracked, matched, window, reads, phase, view, threw,
                 failures>>

\* backfillWindow's loop over the rows it read: each row the window does not
\* hold is inserted, matched and sent, whether or not the insert kept it.
DeliverFill(i) ==
  /\ reads[i].kind = "fill"
  /\ Delivered(i)
  /\ ready' = IF reads[i].rows = <<>> THEN <<>> ELSE <<RowsTask("fill", reads[i].rows)>>
  /\ UNCHANGED <<store, outbox, tracked, matched, window, seeded, phase, view,
                 threw, failures>>

FillRow(t) ==
  /\ t.kind = "fill"
  /\ LET e == Head(t.rows)
         in == IF Has(window, e.id) THEN {} ELSE {e.id}
     IN  /\ window' = IF in = {} THEN window ELSE InsertEntry(window, e).window
         /\ matched' = matched \cup in
         /\ tracked' = tracked \cup in
         /\ view' = Told(in, {})
  /\ ready' = IF Len(t.rows) = 1 THEN Tail(ready)
              ELSE <<[t EXCEPT !.rows = Tail(t.rows)]>> \o Tail(ready)
  /\ UNCHANGED <<store, outbox, seeded, reads, phase, threw, failures>>

\* reconcileDemotion after its read. The best row it brought that is neither the
\* demoted row nor held competes with the demoted row for the slot; an insert
\* of the demoted row throws if it came back while the read was out.
Candidates(rows, e) == {j \in DOMAIN rows : rows[j].id # e.id /\ ~Has(window, rows[j].id)}

KeepDemoted(i) ==
  /\ reads[i].kind = "demote"
  /\ Delivered(i)
  /\ \E e \in reads[i].moved :
       LET again == InsertEntry(window, e)
       IN  /\ Candidates(reads[i].rows, e) = {}
           /\ window' = again.window
           /\ threw' = (threw \/ again.threw)
  /\ UNCHANGED <<store, outbox, tracked, matched, seeded, ready, phase, view, failures>>

SwapDemoted(i) ==
  /\ reads[i].kind = "demote"
  /\ Delivered(i)
  /\ \E e \in reads[i].moved :
       LET c == reads[i].rows[Min(Candidates(reads[i].rows, e))]
       IN  /\ Candidates(reads[i].rows, e) # {}
           /\ \E w \in {InsertEntry(window, c).window} :
                LET again == InsertEntry(w, e)
                    swapped == ~again.inserted /\ ~again.threw
                IN  /\ window' = again.window
                    /\ threw' = (threw \/ again.threw)
                    /\ matched' = IF swapped THEN (matched \cup {c.id}) \ {e.id} ELSE matched
                    /\ tracked' = IF swapped THEN tracked \cup {c.id} ELSE tracked
                    /\ view' = IF swapped THEN Told({c.id}, {e.id}) ELSE view
  /\ UNCHANGED <<store, outbox, seeded, ready, phase, failures>>

\* The read is rejected: its continuation never runs. The client of a get is
\* answered with a rejection and stays subscribed. (Mutant: the window starts
\* again empty.)
FailReadResets(i) ==
  /\ failures < MaxFailures
  /\ ready = <<>>
  /\ reads' = RemoveAt(reads, i)
  /\ phase' = [c \in Client |-> IF c \in reads[i].clients THEN "rejected" ELSE phase[c]]
  /\ window' = EmptyWindow
  /\ failures' = failures + 1
  /\ UNCHANGED <<store, outbox, tracked, matched, seeded, ready, view, threw>>
FailRead(i) ==
  /\ failures < MaxFailures
  /\ ready = <<>>
  /\ reads' = RemoveAt(reads, i)
  /\ phase' = [c \in Client |-> IF c \in reads[i].clients THEN "rejected" ELSE phase[c]]
  /\ failures' = failures + 1
  /\ UNCHANGED <<store, outbox, tracked, matched, window, seeded, ready, view, threw>>

-----------------------------------------------------------------------------
Run(t) ==
  \/ MatchInsert(t) \/ Place(t) \/ MatchUpdateOutside(t) \/ ScopeOut(t) \/ Refresh(t)
  \/ SeedRow(t) \/ SeedDone(t) \/ FillRow(t)
Deliver(i) == DeliverSeed(i) \/ DeliverFill(i) \/ KeepDemoted(i) \/ SwapDemoted(i)

Engine ==
  \/ \E t \in Current : Run(t)
  \/ \E i \in DOMAIN reads : Answer(i) \/ Deliver(i)
  \/ \E i \in DOMAIN outbox : Reread(i) \/ Notify(i)

Next ==
  \/ Engine
  \/ \E i \in DOMAIN reads : FailRead(i)
  \/ \E c \in Client : Subscribe(c)
  \/ \E w \in Write : Commit(w)
  \/ \E w1, w2 \in Together : CommitTransaction(w1, w2)

Spec == Init /\ [][Next]_vars

\* Runnable continuations run and storage answers; nobody has to write.
FairSpec == Spec /\ WF_vars(Engine)

-----------------------------------------------------------------------------
(* Properties.                                                             *)

Batches == [writes : {ws \in Seq(Write) : Len(ws) \in 1..2}, reread : BOOLEAN]
Reads ==
  [kind : {"seed", "fill", "demote"}, clients : SUBSET Client, moved : SUBSET Entry,
   cursor : SUBSET Entry, limit : Nat, rows : Seq(Entry) \cup {Unanswered}]

\* Every part of the state has its type: the queue holds continuations only,
\* the reads ask for a natural number of rows.
TypeOK ==
  /\ store \in [Id -> Row \cup {Absent}]
  /\ outbox \in Seq(Batches)
  /\ tracked \subseteq Id /\ matched \subseteq Id
  /\ window \in Windows
  /\ {seeded, threw} \subseteq BOOLEAN /\ failures \in 0..MaxFailures
  /\ ready \in Seq(Task)
  /\ reads \in Seq(Reads)
  /\ phase \in [Client -> {"out", "reading", "in", "rejected"}]
  /\ view \in [Client -> SUBSET Id]

\* The rows a window should hold once nothing is in flight.
Top == UNION {ToSet(rows) : rows \in FirstRows(InScope(store), Limit)}

\* When the engine has caught up and none of its reads was rejected, the window
\* holds the first rows of the query under the keys they have in storage: every
\* eviction, scope-out, demotion and backfill picked the right row without the
\* rows beyond the boundary in memory. The graph's matched set, which decides
\* whether a child of an included relation is broadcast, has followed.
WindowIsTop ==
  Idle /\ seeded /\ failures = 0 => ToSet(window.entries) = Top /\ matched = Ids(window)

\* When the engine has caught up, each subscriber was told exactly the changes
\* that lead to the window's content, whenever it joined.
ViewIsWindow ==
  Idle /\ failures = 0 => \A c \in Client : phase[c] = "in" => view[c] = Ids(window)

\* No handler offers the window an id it holds.
NoThrow == ~threw

\* Even when a boundary read is rejected, what the window still holds is in
\* scope and carries the key storage has.
HeldRowsAreCurrent == Idle => ToSet(window.entries) \subseteq InScope(store)

\* A read that is rejected costs a row at most, whatever follows: the window is
\* short by no more rows than reads were rejected, and a row it lost, whose
\* DELETE nobody sends, is one the graph has matched for whoever holds it.
FailureCostsARow ==
  Idle =>
    /\ seeded => Cardinality(Top) - Len(window.entries) <= failures
    /\ \A c \in Client : phase[c] = "in" => view[c] \subseteq matched

\* As long as storage answers, a row that belongs in the window reaches each
\* subscriber, or is displaced or withdrawn first.
SubscribersCatchUp ==
  \A c \in Client, id \in Id :
    (phase[c] = "in" /\ id \in {e.id : e \in Top})
      ~> (id \in view[c] \/ id \notin {e.id : e \in Top})
=============================================================================
