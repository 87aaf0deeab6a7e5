------------------------------- MODULE Includes -------------------------------
(***************************************************************************)
(* One Tracked Query without a limit that includes a relation: the rows in *)
(* storage, the writers that commit them and notify the engine, the query  *)
(* nodes of the query (the root) and of its include, the matches the       *)
(* engine keeps of both, the reads that fetch a row with its tree, and     *)
(* what the subscribers know of each field.  A plain subscriber asks for   *)
(* the query without the include and shares its root node: the hash of a   *)
(* step leaves the include out.                                            *)
(*                                                                         *)
(* As in WindowedScope, continuations that wait for no I/O run in order    *)
(* before anything else does.  An UPDATE is notified with the row its      *)
(* commit left; rawUpdate reads it back a moment later, which is the same  *)
(* unless another write of the row is under way (Meetings).                *)
(***************************************************************************)
EXTENDS Integers, SequencesExt

CONSTANTS
  Root, Child,   \* ids of the query's resource and of the included one
  Kind,          \* "many": a child refers to its root, "one": a root to its child
  Client,        \* subscribers
  MaxInFlight,   \* a write or a subscribe starts only below this much work
  Transactions,  \* whether two writes may commit together
  Meetings,      \* whether operations on related rows may be under way together
  Absent, None,  \* a row that is not there, a reference to nothing
  Unanswered     \* a read storage has not evaluated

Id == Root \cup Child

ASSUME IncludesAssumption ==
  /\ Kind \in {"many", "one"} /\ MaxInFlight \in Nat \ {0} /\ {Transactions, Meetings} \subseteq BOOLEAN
  /\ Root \cap Child = {} /\ None \notin Id \cup Client
  /\ Absent \notin [ok : BOOLEAN, ref : Id \cup {None}]

VARIABLES
  store,    \* the committed rows
  outbox,   \* committed writes whose notification has not run, by transaction
  known,    \* the ids the relation graph has a node for
  edge,     \* the reference of each known row
  marked,   \* the ids matched to their query node
  roots,    \* subscriptions of the root node, which is there while it has some
  kids,     \* subscriptions of the include's node
  linked,   \* the root node has the include's node among its childQueries
  ready,    \* the microtask queue
  reads,    \* storage reads in flight
  phase,    \* per client: "out", "reading" or "in"
  view,     \* per client, row and field: is the value it holds the stored one?
  missed    \* history: children matched, out of scope, when a client joined

graph == <<known, edge, marked>>
nodes == <<roots, kids, linked>>
vars == <<store, outbox, graph, nodes, ready, reads, phase, view, missed>>

Field == {"ok", "ref"}   \* what the where clause tests, and the foreign key
Holder == IF Kind = "many" THEN Child ELSE Root
Target(id) == IF id \in Holder THEN (Id \ Holder) \cup {None} ELSE {None}
Row == [ok : BOOLEAN, ref : Id \cup {None}]
Held == {"none", "old", "current"}

\* The rows a read of root r brings along.
Included(r) ==
  {c \in Child : store[c] # Absent /\ store[c].ok
                 /\ IF Kind = "many" THEN store[c].ref = r ELSE store[r].ref = c}
InScope == {r \in Root : store[r] # Absent /\ store[r].ok}

\* A delta: the fields it gives, and those whose value is still the stored one.
Delta(op, id, fields, row) ==
  [op |-> op, id |-> id, fields |-> fields, fresh |-> fields, row |-> row]
Task(d, was, is) == [delta |-> d, was |-> was, is |-> is]
Read(kind, id, client, include) ==
  [kind |-> kind, id |-> id, client |-> client, include |-> include, orphan |-> FALSE,
   tree |-> Unanswered]

InFlight == Len(outbox) + Len(ready) + Len(reads)
Idle == InFlight = 0

Learned(held, fields, fresh) ==
  [f \in Field |-> IF f \in fresh THEN "current"
                   ELSE IF f \in fields /\ held[f] = "none" THEN "old" ELSE held[f]]
\* A delta to the subscribers S.
Told(S, d) ==
  [s \in Client |-> IF s \in S THEN [view[s] EXCEPT ![d.id] = Learned(@, d.fields, d.fresh)]
                    ELSE view[s]]
\* The rows ids of a tree, to whomever hears(s, id).
Shown(tree, hears(_, _)) ==
  [s \in Client |-> [id \in Id |->
     IF id \in DOMAIN tree /\ hears(s, id) THEN Learned(view[s][id], Field, tree[id].fresh)
     ELSE view[s][id]]]

Init ==
  /\ store = [id \in Id |-> Absent] /\ outbox = <<>>
  /\ known = {} /\ edge = [id \in Holder |-> None] /\ marked = {}
  /\ roots = {} /\ kids = {} /\ linked = FALSE
  /\ ready = <<>> /\ reads = <<>>
  /\ phase = [s \in Client |-> "out"]
  /\ view = [s \in Client |-> [id \in Id |-> [f \in Field |-> "none"]]]
  /\ missed = {}

-----------------------------------------------------------------------------
(* Storage and its writers.                                                *)

Written == UNION {{d.id : d \in ToSet(b)} : b \in ToSet(outbox)}
BeingRead == UNION {IF r.id = None THEN Id ELSE {r.id} : r \in ToSet(reads)}
Busy == Written \cup {t.delta.id : t \in ToSet(ready)} \cup BeingRead
\* A write may meet another of its row; the read of a row it refers to, or
\* referred to; the write of a row it refers to, not yet notified.
Meets(d) ==
  \/ d.id \in Busy
  \/ d.row.ref \in Written
  \/ d.op = "UPDATE" /\ {d.row.ref, store[d.id].ref} \cap BeingRead # {}
Free == InFlight < MaxInFlight /\ (Meetings \/ Idle)

\* What is under way has an older value of the fields written.
AgedDelta(d, fs) == [d EXCEPT !.fresh = @ \ fs]

\* Writes to different rows.
Put(ws) ==
  LET of(id) == {d \in ToSet(ws) : d.id = id}
      fields(id) == UNION {d.fields : d \in of(id)}
      aged(d) == AgedDelta(d, fields(d.id))
      agedTree(tree) ==
        IF tree = Unanswered THEN tree
        ELSE [id \in DOMAIN tree |-> [tree[id] EXCEPT !.fresh = @ \ fields(id)]]
  IN  /\ store' = [id \in Id |-> IF of(id) = {} THEN store[id] ELSE (CHOOSE d \in of(id) : TRUE).row]
      /\ outbox' = Append([i \in DOMAIN outbox |-> [j \in DOMAIN outbox[i] |-> aged(outbox[i][j])]], ws)
      /\ ready' = [i \in DOMAIN ready |-> [ready[i] EXCEPT !.delta = aged(ready[i].delta)]]
      /\ reads' = [i \in DOMAIN reads |-> [reads[i] EXCEPT !.tree = agedTree(reads[i].tree)]]
      /\ view' = [s \in Client |-> [id \in Id |-> [f \in Field |->
                   IF f \in fields(id) /\ view[s][id][f] = "current" THEN "old" ELSE view[s][id][f]]]]

\* The writes there may be: a reference is to a row that is there.
Possible(st) ==
  {d \in UNION {{Delta(IF st[id] = Absent THEN "INSERT" ELSE "UPDATE", id,
                       IF st[id] = Absent THEN Field ELSE {f \in Field : row[f] # st[id][f]}, row) :
                   row \in [ok : BOOLEAN, ref : {t \in Target(id) : t = None \/ st[t] # Absent}]} : id \in Id} :
     d.fields # {}}

\* A commit of one write or more.
Commit(ws) ==
  /\ InFlight < MaxInFlight
  /\ Meetings \/ \A d \in ToSet(ws) : ~Meets(d)
  /\ Put(ws)
  /\ UNCHANGED <<graph, nodes, phase, missed>>

\* storage.get: a row by its id, or the query; with the include or without.
Answer(i) ==
  /\ reads[i].tree = Unanswered
  /\ LET top == IF reads[i].id = None THEN InScope ELSE {reads[i].id}
         ids == top \cup (IF reads[i].include THEN UNION {Included(r) : r \in top} ELSE {})
     IN  reads' = [reads EXCEPT ![i].tree = [id \in ids |-> [fresh |-> Field, ref |-> store[id].ref]]]
  /\ UNCHANGED <<store, outbox, graph, nodes, ready, phase, view, missed>>

-----------------------------------------------------------------------------
(* Subscribers.                                                            *)

\* subscribe makes the nodes there are not, then get reads the query.
Subscribe(s, include) ==
  /\ phase[s] = "out" /\ Free
  /\ roots' = roots \cup {s}
  /\ kids' = IF include THEN kids \cup {s} ELSE kids
  /\ linked' = (linked \/ include)
  /\ reads' = Append(reads, Read("reply", None, s, include))
  /\ phase' = [phase EXCEPT ![s] = "reading"]
  /\ UNCHANGED <<store, outbox, graph, ready, view, missed>>

\* A node without subscriptions is deleted; the name of the include's stays
\* among the root's childQueries, and the matches stay. A tree that is being read
\* goes to the subscriptions its own node had when it was asked for.
Unsubscribe(s) ==
  /\ phase[s] # "out" /\ Free
  /\ roots' = roots \ {s} /\ kids' = kids \ {s}
  /\ linked' = (linked /\ roots' # {})
  /\ reads' = [i \in DOMAIN reads |->
                 [reads[i] EXCEPT !.orphan = @ \/ (IF reads[i].id \in Child THEN kids' ELSE roots') = {},
                                  !.client = IF @ = s THEN None ELSE @]]
  /\ phase' = [phase EXCEPT ![s] = "out"]
  /\ view' = [view EXCEPT ![s] = [id \in Id |-> [f \in Field |-> "none"]]]
  /\ missed' = {m \in missed : m[1] # s}
  /\ UNCHANGED <<store, outbox, graph, ready>>

-----------------------------------------------------------------------------
(* The engine.                                                             *)

Subscribers(id) == IF id \in Root THEN roots ELSE kids

\* applyWrite: a node for the row and for what it refers to.
Applied(g, d) ==
  [known |-> g.known \cup {d.id} \cup (IF "ref" \in d.fields THEN {d.row.ref} \ {None} ELSE {}),
   edge  |-> IF d.id \in Holder /\ "ref" \in d.fields THEN [g.edge EXCEPT ![d.id] = d.row.ref]
             ELSE g.edge]

\* getMatchingQueries: a child matches by the edge to its root. An edge from the
\* root is not found: reference looks for one at the child.
Matches(g, d) ==
  /\ Subscribers(d.id) # {} /\ d.row.ok
  /\ d.id \in Child => Kind = "many" /\ g.edge[d.id] \in marked

\* handleMutation up to the continuation, for each mutation of a batch. An
\* INSERT of an id the graph knows is ignored.
Heard(g, d) ==
  IF d.op = "INSERT" /\ d.id \in g.known THEN g
  ELSE LET h == Applied(g, d)
       IN  [known |-> h.known, edge |-> h.edge,
            tasks |-> Append(g.tasks, Task(d, d.id \in marked, Matches(h, d)))]
Notify(k) ==
  /\ ready = <<>>
  /\ outbox' = RemoveAt(outbox, k)
  /\ LET g == FoldLeft(Heard, [known |-> known, edge |-> edge, tasks |-> <<>>], outbox[k])
     IN  known' = g.known /\ edge' = g.edge /\ ready' = g.tasks
  /\ UNCHANGED <<store, marked, nodes, reads, phase, view, missed>>

\* buildIncludeFromChildQueries: the include, if its node is there. (Mutant:
\* the row alone.)
FetchRow(kind, id) == Append(reads, Read(kind, id, None, FALSE))
Fetch(kind, id) == Append(reads, Read(kind, id, None, id \in Root /\ linked /\ kids # {}))

\* The whole row has been sent.
Given(S, id) == missed \ (S \X {id})

\* A matching INSERT is matched and sent, with its tree if the node has an
\* include.
TakeInsert(t) ==
  /\ t.delta.op = "INSERT"
  /\ IF t.is /\ Subscribers(t.delta.id) # {}
     THEN /\ marked' = marked \cup {t.delta.id}
          /\ IF t.delta.id \in Root /\ linked
             THEN reads' = Fetch("tree", t.delta.id) /\ UNCHANGED <<view, missed>>
             ELSE /\ view' = Told(Subscribers(t.delta.id), t.delta)
                  /\ missed' = Given(Subscribers(t.delta.id), t.delta.id)
                  /\ UNCHANGED reads
     ELSE UNCHANGED <<marked, reads, view, missed>>

\* An UPDATE is sent to the query the row was matched to, matched still or no
\* longer; for one it newly matches the row is read, with its tree. (Mutants:
\* the match stays; a query it no longer matches is not told.)
TakeUpdateKeepsMatch(t) ==
  /\ t.delta.op = "UPDATE"
  /\ marked' = IF t.is THEN marked \cup {t.delta.id} ELSE marked
  /\ view' = IF t.was THEN Told(Subscribers(t.delta.id), t.delta) ELSE view
  /\ reads' = IF t.is /\ ~t.was /\ Subscribers(t.delta.id) # {} THEN Fetch("tree", t.delta.id) ELSE reads
  /\ UNCHANGED missed
TakeUpdateStillMatched(t) ==
  /\ t.delta.op = "UPDATE"
  /\ marked' = IF t.is THEN marked \cup {t.delta.id} ELSE marked \ {t.delta.id}
  /\ view' = IF t.was /\ t.is THEN Told(Subscribers(t.delta.id), t.delta) ELSE view
  /\ reads' = IF t.is /\ ~t.was /\ Subscribers(t.delta.id) # {} THEN Fetch("tree", t.delta.id) ELSE reads
  /\ UNCHANGED missed
TakeUpdate(t) ==
  /\ t.delta.op = "UPDATE"
  /\ marked' = IF t.is THEN marked \cup {t.delta.id} ELSE marked \ {t.delta.id}
  /\ view' = IF t.was THEN Told(Subscribers(t.delta.id), t.delta) ELSE view
  /\ reads' = IF t.is /\ ~t.was /\ Subscribers(t.delta.id) # {} THEN Fetch("tree", t.delta.id) ELSE reads
  /\ UNCHANGED missed

Continue ==
  /\ ready # <<>> /\ ready' = Tail(ready)
  /\ TakeInsert(Head(ready)) \/ TakeUpdate(Head(ready))
  /\ UNCHANGED <<store, outbox, known, edge, nodes, phase>>

\* ingest of the rows ids: nodes, edges and matches.
Ingested(tree, ids) ==
  /\ edge' = [h \in Holder |-> IF h \in ids /\ tree[h].ref # None THEN tree[h].ref ELSE edge[h]]
  /\ known' = known \cup ids \cup ({tree[h].ref : h \in ids} \ {None})

\* get of the query: the root step's rows are ingested, and the include's, if
\* their nodes are there, and the answer is the client's reply.
Reply(i) ==
  LET r == reads[i]
      ids == DOMAIN r.tree
      ingested == IF roots = {} THEN {} ELSE IF kids = {} THEN ids \cap Root ELSE ids
  IN  /\ r.kind = "reply"
      /\ Ingested(r.tree, ingested)
      /\ marked' = marked \cup (IF r.include THEN ingested ELSE ingested \cap Root)
      /\ phase' = IF r.client = None THEN phase ELSE [phase EXCEPT ![r.client] = "in"]
      /\ view' = Shown(r.tree, LAMBDA s, id : s = r.client)
      /\ missed' = IF r.client \notin kids THEN missed
                   ELSE missed \cup ({r.client} \X ((marked \cap Child) \ ids))

\* sendInsertsForTree, after get has ingested the children.
Tree(i) ==
  LET r == reads[i]
      ids == DOMAIN r.tree
      below == IF kids = {} THEN {} ELSE ids \ {r.id}
      sent == IF linked THEN below ELSE {}
      hears(s, id) == IF id = r.id THEN s \in Subscribers(id) /\ ~r.orphan ELSE id \in sent /\ s \in kids
  IN  /\ r.kind = "tree"
      /\ Ingested(r.tree, below)
      /\ marked' = marked \cup {r.id} \cup below
      /\ view' = Shown(r.tree, hears)
      /\ missed' = missed \ {m \in missed : m[2] \in ids /\ hears(m[1], m[2])}
      /\ UNCHANGED phase

Deliver(i) ==
  /\ ready = <<>> /\ reads[i].tree # Unanswered
  /\ Reply(i) \/ Tree(i)
  /\ reads' = RemoveAt(reads, i)
  /\ UNCHANGED <<store, outbox, nodes, ready>>

\* The two writes of a transaction, to different rows.
CommitTransaction ==
  /\ Transactions
  /\ \E d \in Possible(store) : \E e \in Possible([store EXCEPT ![d.id] = d.row]) :
       e.id # d.id /\ Commit(<<d, e>>)

Next ==
  \/ \E d \in Possible(store) : Commit(<<d>>)
  \/ CommitTransaction
  \/ \E i \in DOMAIN reads : Answer(i)
  \/ \E s \in Client, include \in BOOLEAN : Subscribe(s, include)
  \/ \E s \in Client : Unsubscribe(s)
  \/ \E k \in DOMAIN outbox : Notify(k)
  \/ Continue
  \/ \E i \in DOMAIN reads : Deliver(i)

Spec == Init /\ [][Next]_vars

-----------------------------------------------------------------------------
(* Properties.                                                             *)

TypeOK ==
  /\ store \in [Id -> Row \cup {Absent}]
  /\ \A id \in Id : store[id] # Absent => store[id].ref \in Target(id)
  /\ known \subseteq Id /\ marked \subseteq known /\ edge \in [Holder -> Id \cup {None}]
  /\ kids \subseteq roots /\ roots \subseteq Client /\ (kids # {} => linked) /\ (linked => roots # {})
  /\ phase \in [Client -> {"out", "reading", "in"}] /\ roots = {s \in Client : phase[s] # "out"}
  /\ view \in [Client -> [Id -> [Field -> Held]]]
  /\ missed \subseteq roots \X Child

\* The state has its type. Once everything is handled, the rows matched to the
\* query are those in its scope, and every included row of theirs is matched to
\* the include.
MarksAreScope ==
  /\ TypeOK
  /\ Idle =>
       /\ \A r \in Root : roots # {} => (r \in marked <=> r \in InScope)
       /\ \A r \in InScope : \A c \in Included(r) :
            kids # {} => c \in marked

Whole(s, id) == \A f \in Field : view[s][id][f] = "current"
\* Once everything is handled, a subscriber holds every row in scope as it is
\* stored, and the tree of it that it asked for.
TreeIsHeld ==
  Idle => \A s \in roots : \A r \in InScope :
    /\ Whole(s, r)
    /\ s \in kids => \A c \in Included(r) : <<s, c>> \notin missed => Whole(s, c)

\* A row of the query a subscriber has heard of is never out of date with it,
\* in scope or not: it knows which rows to show.
RootsAreTold ==
  Idle => \A s \in roots, r \in Root :
    view[s][r]["ok"] # "none" => view[s][r]["ok"] = "current"
=============================================================================
