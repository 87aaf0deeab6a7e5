---------------------------- MODULE ClientObjects ----------------------------
(***************************************************************************)
(* What a page keeps beside the rows of ClientSync to show a tree: the     *)
(* graph of objects (client/websocket/obj-graph.ts), whose links follow    *)
(* the foreign keys of the writes the store merges, and the snapshot of a  *)
(* subscribed query of parents, with their children or without.            *)
(*                                                                         *)
(* A write gives a child a parent, or none, and has a number, its          *)
(* timestamp: the row of a child is the number of the last write it has    *)
(* merged. A call of the store runs to its end before the next.            *)
(***************************************************************************)
EXTENDS Integers, SequencesExt

CONSTANTS
  Parent, Child,
  MaxTime,     \* bound on the writes
  MaxDrops,    \* bound on the rows scoped out and the writes settled early
  Nobody,      \* a foreign key that is null, and the id of the node made for it
  Unlinked     \* a child without a reference

Absent == 0
Key == Parent \cup {Nobody}

ASSUME ObjectsAssumption ==
  /\ MaxTime \in Nat /\ MaxDrops \in Nat
  /\ Parent \cap Child = {} /\ Nobody \notin Parent \cup Child /\ Unlinked \notin Key

VARIABLES
  writes,       \* the child and the key of each write there has been
  stack,        \* optimisticMutationStack: this page's writes, until settled
  raw, pool,    \* rawObjPool and optimisticRawObjPool: per child
  parents,      \* the parents in both
  nodes,        \* the graph: the ids it has a node for,
  references,   \* per child, what its node refers to,
  referencedBy, \* and per key, the back links of its node
  query,        \* the subscription: "none", "subscribed", or "read" once there
  snapshot,     \* is a snapshot, and the snapshot: what it was last told
  flatInclude,  \* the names of the resources the query includes
  drops,        \* how many rows were scoped out and writes settled early
  gone,         \* history: the rows that were scoped out
  undone        \* history: the children with a write undone, or pending when they
                \* were scoped out, whose row has taken none since

rows == <<writes, stack, raw, pool, parents>>
graph == <<nodes, references, referencedBy>>
shown == <<query, snapshot, flatInclude>>
history == <<drops, gone, undone>>
vars == <<rows, graph, shown, history>>

-----------------------------------------------------------------------------
(* The graph, as [nodes, references, referencedBy].                        *)

Graph == [nodes |-> nodes, references |-> references, referencedBy |-> referencedBy]

\* createNode, unless there is one.
WithNode(g, id) == [g EXCEPT !.nodes = @ \cup {id}]

\* createLink.
Linked(g, c, k) == [g EXCEPT !.references[c] = k, !.referencedBy[k] = @ \cup {c}]

\* removeLink: a null is not a reference to follow. (Mutant: the back link stays.)
CutOneWay(g, c) ==
  IF g.references[c] \in {Unlinked, Nobody} THEN g ELSE [g EXCEPT !.references[c] = Unlinked]
Cut(g, c) ==
  LET k == g.references[c]
  IN  IF k \in {Unlinked, Nobody} THEN g
      ELSE [g EXCEPT !.references[c] = Unlinked, !.referencedBy[k] = @ \ {c}]

\* removeNode. The links to and from the node's neighbours stay with them: those
\* of the children of a parent are looked for under the wrong type.
WithoutNode(g, id) ==
  [nodes |-> g.nodes \ {id},
   references |-> [c \in Child |-> IF c = id THEN Unlinked ELSE g.references[c]],
   referencedBy |-> [k \in Key |-> IF k = id THEN {} ELSE g.referencedBy[k]]]

-----------------------------------------------------------------------------
(* The snapshot, and the store, as a record with the writes ws: a call     *)
(* turns the one that is there into another.                               *)

Acc == [ws |-> writes, pool |-> pool, parents |-> parents, graph |-> Graph,
        query |-> query, snapshot |-> snapshot, undone |-> undone]

\* materializeOneWithInclude, for get: the parents that have a node and a row,
\* with the children that refer to them and have both, if the query includes them.
Tree(g, pl, ps) ==
  [p \in ps \cap g.nodes |->
     IF "child" \notin flatInclude THEN {}
     ELSE {<<c, pl[c]>> : c \in {d \in g.referencedBy[p] : d \in g.nodes /\ pl[d] # Absent}}]

\* notifyCollectionSubscribers: the query is computed again if the name is that of
\* its resource or of one that it includes. (Mutant: of its own.)
ConcernedItself(name) == name = "parent"
Concerned(name) == name = "parent" \/ name \in flatInclude
Notified(a, name) ==
  IF query = "none" \/ ~Concerned(name) THEN a
  ELSE [a EXCEPT !.snapshot = Tree(a.graph, a.pool, a.parents), !.query = "read"]

\* The merge of a field, and of the pending writes of c into its row.
Merged(a, b) == IF a > b THEN a ELSE b
Overlay(ws, c, base, st) ==
  LET merged == {base} \cup {t \in st : ws[t].child = c}
  IN  CHOOSE t \in merged : \A u \in merged : u <= t

\* The link of c takes the key k of time t if the relation's merge with the value
\* the row had does: a value as late as t keeps its link. (Mutant: none does.)
KeepsNone(prev, t) == FALSE
Keeps(prev, t) == prev # Absent /\ t # Absent /\ prev >= t
Relinked(a, c, k, t, prev) ==
  LET g == WithNode(WithNode(a.graph, c), k)
      cut == IF prev # Absent /\ a.ws[prev].key # Nobody THEN Cut(g, c) ELSE g
  IN  IF Keeps(prev, t) THEN [a EXCEPT !.graph = WithNode(@, c)]
      ELSE [a EXCEPT !.graph = Linked(cut, c, k),
                     !.undone = IF t = Absent THEN @ \cup {c} ELSE IF t = a.pool[c] THEN @ \ {c} ELSE @]

\* updateRawObjPool: without a node and without a value it returns at once, and
\* notifies nobody.
Updated(a, c, base, st, k, t, prev) ==
  LET v == Overlay(a.ws, c, base, st)
      b == [a EXCEPT !.pool[c] = v]
  IN  IF v = Absent /\ c \notin a.graph.nodes THEN b
      ELSE Notified(Relinked(b, c, k, t, prev), "child")

\* undoMutation of t: a payload of nulls without a timestamp.
Undone(a, t) ==
  LET c == a.ws[t].child IN Updated(a, c, raw[c], stack \ {t}, Nobody, Absent, a.pool[c])

\* What a call leaves.
Becomes(acc) == \E a \in {acc} :
  /\ writes' = a.ws /\ pool' = a.pool /\ parents' = a.parents /\ undone' = a.undone
  /\ nodes' = a.graph.nodes /\ references' = a.graph.references
  /\ referencedBy' = a.graph.referencedBy
  /\ query' = a.query /\ snapshot' = a.snapshot /\ UNCHANGED flatInclude

-----------------------------------------------------------------------------
(* The calls.                                                              *)

Init ==
  /\ writes = <<>> /\ stack = {}
  /\ raw = [c \in Child |-> Absent] /\ pool = raw /\ parents = {}
  /\ nodes = {} /\ references = [c \in Child |-> Unlinked]
  /\ referencedBy = [k \in Key |-> {}]
  /\ query = "none" /\ flatInclude = {} /\ snapshot = Tree(Graph, pool, parents)
  /\ drops = 0 /\ gone = {} /\ undone = {}

Written(c, k) == Append(writes, [child |-> c, key |-> k])

\* Another client writes: the page may hear of it later.
ForeignWrite(c, k) ==
  /\ Len(writes) < MaxTime
  /\ writes' = Written(c, k)
  /\ UNCHANGED <<stack, raw, pool, parents, graph, shown, history>>

\* addMutation of a write of this page.
Mutate(c, k) ==
  /\ Len(writes) < MaxTime
  /\ LET t == Len(writes) + 1
     IN  /\ stack' = stack \cup {t}
         /\ UNCHANGED <<raw, drops, gone>>
         /\ Becomes(Updated([Acc EXCEPT !.ws = Written(c, k)], c, raw[c], stack', k, t, pool[c]))

\* addMutation of a delta: write t as the server merged it, at its time or at the
\* later time v. The entry t of a custom mutation is undone first, that of a plain
\* one only leaves the stack.
Delta(t, v, custom) ==
  LET c == writes[t].child
      a == IF custom THEN Undone(Acc, t) ELSE Acc
  IN  /\ writes[v].child = c /\ v >= t /\ (custom => t \in stack)
      /\ stack' = stack \ {t}
      /\ raw' = [raw EXCEPT ![c] = Merged(@, v)]
      /\ UNCHANGED <<drops, gone>>
      /\ Becomes(Updated(a, c, raw'[c], stack', writes[v].key, v, a.pool[c]))

\* A reply that comes before the delta, a rejection or a timeout: undoMutation.
Settle(t) ==
  /\ drops < MaxDrops /\ drops' = drops + 1
  /\ stack' = stack \ {t}
  /\ UNCHANGED <<raw, gone>>
  /\ Becomes(Undone(Acc, t))

\* loadConsolidatedState of the tree of p, with the row of each child as it was
\* after its write last[c], whatever the server does later: its children, then
\* itself.
Load(p, last) ==
  LET below == {c \in Child : last[c] # Absent /\ writes[last[c]].key = p}
      take(b, c) == Updated(b, c, raw'[c], stack, p, last[c], b.pool[c])
      a == FoldLeft(take, Acc, SetToSeq(below))
  IN  /\ raw' = [c \in Child |-> IF c \in below THEN Merged(raw[c], last[c]) ELSE raw[c]]
      /\ Becomes(Notified([a EXCEPT !.graph = WithNode(@, p), !.parents = @ \cup {p}], "parent"))
      /\ UNCHANGED <<stack, drops, gone>>

\* removeFromPool, of a DELETE: the pending writes of the row stay.
Drop(id) ==
  /\ drops < MaxDrops /\ drops' = drops + 1
  /\ gone' = gone \cup {id}
  /\ raw' = [c \in Child |-> IF c = id THEN Absent ELSE raw[c]]
  /\ LET a == [Acc EXCEPT !.pool = [c \in Child |-> IF c = id THEN Absent ELSE @[c]],
                           !.parents = @ \ {id}, !.graph = WithoutNode(@, id),
                           !.undone = @ \cup {c \in {id} \cap Child : \E t \in stack : writes[t].child = c}]
     IN  Becomes(Notified(a, IF id \in Parent THEN "parent" ELSE "child"))
  /\ UNCHANGED stack

Subscribe(names) ==
  /\ query = "none" /\ query' = "subscribed" /\ flatInclude' = names
  /\ UNCHANGED <<rows, graph, snapshot, history>>

\* get of a query that has no snapshot: later it returns the one it has.
Get ==
  /\ query = "subscribed" /\ query' = "read"
  /\ snapshot' = Tree(Graph, pool, parents)
  /\ UNCHANGED <<rows, graph, flatInclude, history>>

Unsubscribe ==
  /\ query # "none" /\ query' = "none" /\ flatInclude' = {}
  /\ snapshot' = [p \in {} |-> {}]
  /\ UNCHANGED <<rows, graph, history>>

Next ==
  \/ \E c \in Child, k \in Key : ForeignWrite(c, k) \/ Mutate(c, k)
  \/ \E t, v \in DOMAIN writes, custom \in BOOLEAN : Delta(t, v, custom)
  \/ \E t \in stack : Settle(t)
  \/ \E p \in Parent, last \in [Child -> 0..Len(writes)] :
       (\A c \in Child : last[c] # Absent => writes[last[c]].child = c) /\ Load(p, last)
  \/ \E id \in Parent \cup Child : Drop(id)
  \/ Subscribe({}) \/ Subscribe({"child"})
  \/ Get \/ Unsubscribe

Spec == Init /\ [][Next]_vars

-----------------------------------------------------------------------------
(* Properties.                                                             *)

\* The pools, and the graph: an id without a node has no links of its own.
TypeOK ==
  /\ writes \in Seq([child : Child, key : Key]) /\ Len(writes) <= MaxTime
  /\ stack \subseteq DOMAIN writes
  /\ raw \in [Child -> 0..Len(writes)] /\ pool \in [Child -> 0..Len(writes)]
  /\ \A c \in Child : raw[c] # Absent => pool[c] >= raw[c]
  /\ parents \subseteq nodes
  /\ references \in [Child -> Key \cup {Unlinked}] /\ referencedBy \in [Key -> SUBSET Child]
  /\ \A c \in Child : c \notin nodes => references[c] = Unlinked
  /\ \A k \in Key : k \notin nodes => referencedBy[k] = {}

\* The row of a child and its link agree: it refers to the parent of the last
\* write that was merged, whatever order the deltas, the loads and its own writes
\* came in and however often, unless one of its writes was undone, or pending
\* when it was scoped out, and its row has not taken another since.
LinksFollowRows ==
  \A c \in Child \ undone : pool[c] # Absent => references[c] = writes[pool[c]].key

\* The state has its type, and a child is in the list of the parent it refers to
\* and in no other, as long as neither was ever scoped out.
ListsAreReferences ==
  /\ TypeOK
  /\ \A c \in Child \ gone : \A p \in Parent \ gone :
       c \in referencedBy[p] <=> references[c] = p

\* A subscribed query that has a snapshot is told every change of what it shows:
\* a call that does not reach the query by name, or returns before it notifies,
\* changes no row and no link of its tree.
ShownIsCurrent == query = "read" => snapshot = Tree(Graph, pool, parents)
=============================================================================
