---------------------------- MODULE RelationGraph ----------------------------
(***************************************************************************)
(* The query engine's RelationGraph (core/query-engine/relation-graph.ts)  *)
(* between the two things that feed it: notifications of committed writes  *)
(* (applyWrite) and rows that storage reads return (ingest). A read may    *)
(* have been evaluated before or after a write whose notification is still *)
(* on its way, and answers come in any order.                              *)
(*                                                                         *)
(* Rows are of one resource whose foreign keys may reference any row: the  *)
(* graph keys its nodes by id alone, and the resource only selects columns.*)
(***************************************************************************)
EXTENDS Integers, SequencesExt, FiniteSets

CONSTANTS
  Id,            \* rows
  Fk,            \* the "one" relations of the resource, each with its column
  Paired,        \* those whose inverse ("many") relation the schema declares
  Nil,           \* a null foreign key
  NoRow,         \* a row that is not in storage
  MaxMet,        \* at most this many rows have two writes or reads on their way
  MaxInFlight    \* a write or a read starts only below this much work

ASSUME GraphAssumption ==
  /\ Paired \subseteq Fk
  /\ Nil \notin Id
  /\ NoRow \notin [Fk -> Id \cup {Nil}]
  /\ MaxMet \in Nat /\ MaxInFlight \in Nat

VARIABLES
  store,          \* the committed rows
  outbox,         \* committed writes whose notification has not run
  reads,          \* answers of storage on their way to the engine
  nodes,          \* the ids the graph has a node for
  references,     \* the target of each node's outgoing edges
  referencedBy,   \* the sources of each node's inbound edges
  \* history
  whole,          \* the rows taken in with all their columns
  met             \* the rows of which two writes or reads were on their way

graph == <<nodes, references, referencedBy>>
graphVars == <<store, outbox, reads, graph, whole, met>>

Row == [Fk -> Id \cup {Nil}]
RowWrite == [op : {"INSERT", "UPDATE"}, id : Id, row : Row, touched : SUBSET Fk]

InFlight == Len(outbox) + Len(reads)
\* A write or a read of the row is on its way to the engine.
OnItsWay(id) ==
  \/ \E k \in DOMAIN outbox : outbox[k].id = id
  \/ \E i \in DOMAIN reads : id \in DOMAIN reads[i]
Meet(ids) ==
  /\ met' = met \cup {id \in ids : OnItsWay(id)}
  /\ Cardinality(met') <= MaxMet

GraphInit ==
  /\ store \in [Id -> Row \cup {NoRow}]
  /\ outbox = <<>> /\ reads = <<>>
  /\ nodes = {} /\ whole = {} /\ met = {}
  /\ references = [s \in Id |-> [r \in Fk |-> Nil]]
  /\ referencedBy = [t \in Id |-> [r \in Fk |-> {}]]

-----------------------------------------------------------------------------
(* The graph's two entries for edges.                                      *)

\* An edge has a target to keep a node for when the target knows the inverse.
Targets(row, rels) == {row[r] : r \in rels \cap Paired} \ {Nil}

\* (Mutants: the old target is not unlinked; a key set to null is skipped.)
ApplyWriteLinkOnly(id, row, touched) ==
  LET changed == {r \in touched : references[id][r] # row[r]}
  IN  /\ nodes' = nodes \cup {id} \cup Targets(row, changed)
      /\ references' =
           [references EXCEPT ![id] =
             [r \in Fk |-> IF r \in changed THEN row[r] ELSE @[r]]]
      /\ referencedBy' =
           [t \in Id |-> [r \in Fk |->
             IF r \in changed \cap Paired /\ row[r] = t THEN referencedBy[t][r] \cup {id}
             ELSE referencedBy[t][r]]]
ApplyWriteSkipsNull(id, row, touched) ==
  LET changed == {r \in touched : row[r] \notin {Nil, references[id][r]}}
  IN  /\ nodes' = nodes \cup {id} \cup Targets(row, changed)
      /\ references' =
           [references EXCEPT ![id] =
             [r \in Fk |-> IF r \in changed THEN row[r] ELSE @[r]]]
      /\ referencedBy' =
           [t \in Id |-> [r \in Fk |->
             IF r \notin changed \cap Paired THEN referencedBy[t][r]
             ELSE IF row[r] = t THEN referencedBy[t][r] \cup {id}
             ELSE referencedBy[t][r] \ {id}]]

\* Each touched column whose target changed is unlinked from the old target and
\* linked to the new one, on both sides.
ApplyWrite(id, row, touched) ==
  LET changed == {r \in touched : references[id][r] # row[r]}
  IN  /\ nodes' = nodes \cup {id} \cup Targets(row, changed)
      /\ references' =
           [references EXCEPT ![id] =
             [r \in Fk |-> IF r \in changed THEN row[r] ELSE @[r]]]
      /\ referencedBy' =
           [t \in Id |-> [r \in Fk |->
             IF r \notin changed \cap Paired THEN referencedBy[t][r]
             ELSE IF row[r] = t THEN referencedBy[t][r] \cup {id}
             ELSE IF references[id][r] = t THEN referencedBy[t][r] \ {id}
             ELSE referencedBy[t][r]]]

\* (Mutant: the inverse of an edge is not wired.)
IngestForward(rows) ==
  /\ nodes' = nodes \cup DOMAIN rows \cup UNION {Targets(rows[s], Fk) : s \in DOMAIN rows}
  /\ references' =
       [s \in Id |-> [r \in Fk |->
         IF s \in DOMAIN rows /\ rows[s][r] # Nil THEN rows[s][r] ELSE references[s][r]]]
  /\ UNCHANGED referencedBy

\* (Mutant: a row that has a node is taken for one that was ingested.)
IngestOnce(rows) ==
  LET new == DOMAIN rows \ nodes
  IN  /\ nodes' = nodes \cup new \cup UNION {Targets(rows[s], Fk) : s \in new}
      /\ references' =
           [s \in Id |-> [r \in Fk |->
             IF s \in new /\ rows[s][r] # Nil THEN rows[s][r] ELSE references[s][r]]]
      /\ referencedBy' =
           [t \in Id |-> [r \in Fk |->
             referencedBy[t][r] \cup {s \in new : r \in Paired /\ rows[s][r] = t}]]

\* Every row read gets a node, and every foreign key that is set is linked: the
\* edge it replaces is not unlinked.
Ingest(rows) ==
  /\ nodes' = nodes \cup DOMAIN rows \cup UNION {Targets(rows[s], Fk) : s \in DOMAIN rows}
  /\ references' =
       [s \in Id |-> [r \in Fk |->
         IF s \in DOMAIN rows /\ rows[s][r] # Nil THEN rows[s][r] ELSE references[s][r]]]
  /\ referencedBy' =
       [t \in Id |-> [r \in Fk |->
         referencedBy[t][r] \cup {s \in DOMAIN rows : r \in Paired /\ rows[s][r] = t}]]

-----------------------------------------------------------------------------
\* A write commits; its notification carries the row it left. An UPDATE may touch
\* columns that are no foreign keys alone.
Commit(w) ==
  /\ IF w.op = "INSERT"
     THEN store[w.id] = NoRow /\ w.touched = Fk
     ELSE /\ store[w.id] # NoRow
          /\ \A r \in Fk \ w.touched : w.row[r] = store[w.id][r]
  /\ store' = [store EXCEPT ![w.id] = w.row]
  /\ outbox' = Append(outbox, w)
  /\ Meet({w.id})
  /\ UNCHANGED <<reads, graph, whole>>

\* Storage evaluates a read that returns these rows.
Evaluate(S) ==
  /\ S # {}
  /\ \A id \in S : store[id] # NoRow
  /\ reads' = Append(reads, [id \in S |-> store[id]])
  /\ Meet(S)
  /\ UNCHANGED <<store, outbox, graph, whole>>

\* handleMutation up to the matching: an INSERT of a tracked row is ignored; any
\* other wires every column, an UPDATE those in its payload.
Notify(k) ==
  /\ outbox' = RemoveAt(outbox, k)
  /\ LET w == outbox[k]
     IN  \/ /\ w.op = "INSERT" /\ w.id \in nodes
            /\ UNCHANGED <<graph, whole>>
         \/ /\ w.op = "INSERT" /\ w.id \notin nodes
            /\ whole' = whole \cup {w.id}
            /\ ApplyWrite(w.id, w.row, w.touched)
         \/ /\ w.op = "UPDATE"
            /\ ApplyWrite(w.id, w.row, w.touched)
            /\ UNCHANGED whole
  /\ UNCHANGED <<store, reads, met>>

\* trackObjects and reconcilePromotions ingest the rows they read.
Deliver(i) ==
  /\ reads' = RemoveAt(reads, i)
  /\ whole' = whole \cup DOMAIN reads[i]
  /\ Ingest(reads[i])
  /\ UNCHANGED <<store, outbox, met>>

GraphNext ==
  \/ /\ InFlight < MaxInFlight
     /\ \/ \E w \in RowWrite : Commit(w)
        \/ \E S \in SUBSET Id : Evaluate(S)
  \/ \E k \in DOMAIN outbox : Notify(k)
  \/ \E i \in DOMAIN reads : Deliver(i)

GraphSpec == GraphInit /\ [][GraphNext]_graphVars

-----------------------------------------------------------------------------
(* Properties.                                                             *)

\* The state has its type.
GraphTypeOK ==
  /\ store \in [Id -> Row \cup {NoRow}]
  /\ outbox \in Seq(RowWrite)
  /\ reads \in Seq(UNION {[S -> Row] : S \in SUBSET Id})
  /\ nodes \subseteq Id /\ whole \subseteq nodes /\ met \subseteq Id
  /\ references \in [Id -> Row]
  /\ referencedBy \in [Id -> [Fk -> SUBSET Id]]

\* Half of the pairing the graph owns: an edge followed from the row is known at
\* its target, so the fan-out of a write to the target reaches every row that
\* the graph believes points at it.
EdgesAreReferenced ==
  \A s \in Id, r \in Paired :
    references[s][r] # Nil =>
      /\ references[s][r] \in nodes
      /\ s \in referencedBy[references[s][r]][r]

\* The other half: a target knows no row that points elsewhere, unless a write
\* and a read of that row met: the read replaces the edge and forgets its inverse.
ReferencesAreEdges ==
  \A t \in Id, r \in Fk, s \in Id \ met :
    s \in referencedBy[t][r] => references[s][r] = t

\* What is settled of a row: nothing of it is on its way, and no two writes or
\* reads of it met.
AtRest(s) == s \notin met /\ ~OnItsWay(s)

\* No edge of a settled row leads to a row its foreign key does not name:
\* re-parenting and clearing a key reached the graph, whatever happens to other
\* rows meanwhile.
EdgesAreTrue ==
  \A s \in Id, r \in Fk : AtRest(s) /\ references[s][r] # Nil =>
    store[s] # NoRow /\ references[s][r] = store[s][r]

\* A settled row that was taken in whole has every edge its foreign keys name,
\* also when its node was there before it, for the rows that name it.
EdgesAreComplete ==
  \A s \in whole : AtRest(s) => references[s] = store[s]
=============================================================================
