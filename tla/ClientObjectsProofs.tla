------------------------ MODULE ClientObjectsProofs -------------------------
(***************************************************************************)
(* For any parents and children, any writes, in whatever order their       *)
(* deltas, loads, settlements and scope-outs reach the page: links follow  *)
(* rows, lists are references, and what is shown is the tree there is.     *)
(***************************************************************************)
EXTENDS ClientObjects, FiniteSetTheorems, SequenceTheorems, WellFoundedInduction, TLAPS

Write == [child : Child, key : Key]
Node == Key \cup Child
GraphType == [nodes : SUBSET Node, references : [Child -> Key \cup {Unlinked}],
              referencedBy : [Key -> SUBSET Child]]
Snapshot == UNION {[P -> SUBSET (Child \X Nat)] : P \in SUBSET Parent}
AccType == [ws : Seq(Write), pool : [Child -> Nat], parents : SUBSET Parent, graph : GraphType,
            query : {"none", "subscribed", "read"}, snapshot : Snapshot, undone : SUBSET Child]

-----------------------------------------------------------------------------
(* The pending writes of a row and the latest of them.                     *)

Pending(ws, c, st) == {t \in st : ws[t].child = c}

\* The row is new: it was old, and t has been merged into it.
Moved(old, new, t) == new = Merged(old, t)

\* A non-empty set of naturals has a least element, a bounded one a greatest.
LEMMA LeastNatural ==
  ASSUME NEW M, M \subseteq Nat, M # {}
  PROVE  \E m \in M : \A k \in M : m <= k
<1> DEFINE R == OpToRel(<, Nat)
<1>1. \A a \in Nat : \A b \in Nat : a < b => <<a, b>> \in R
  BY DEF OpToRel
<1>2. IsWellFoundedOn(R, Nat)
  BY NatLessThanWellFounded
<1> HIDE DEF R
<1>3. PICK x \in M : \A y \in M : ~(<<y, x>> \in R)
  BY <1>2, WFMin, Zenon
<1>4. ASSUME NEW y \in M PROVE x <= y
  <2>1. ~(<<y, x>> \in R)
    BY <1>3
  <2>2. x \in Nat /\ y \in Nat
    OBVIOUS
  <2>3. ~(y < x)
    BY <2>1, <2>2, <1>1
  <2>4. QED
    BY <2>2, <2>3
<1>5. QED
  BY <1>4

LEMMA GreatestNatural ==
  ASSUME NEW M, NEW n \in Nat, M \subseteq 0..n, M # {}
  PROVE  \E m \in M : \A k \in M : k <= m
<1> DEFINE D == {n - k : k \in M}
<1>1. D \subseteq Nat /\ D # {}
  OBVIOUS
<1>2. PICK d \in D : \A e \in D : d <= e
  BY <1>1, LeastNatural
<1>3. PICK m \in M : d = n - m
  OBVIOUS
<1>4. ASSUME NEW k \in M PROVE k <= m
  <2>1. n - k \in D /\ k \in Nat /\ m \in Nat
    OBVIOUS
  <2>2. QED
    BY <1>2, <1>3, <2>1
<1>5. QED
  BY <1>4

LEMMA OverlayIsGreatest ==
  ASSUME NEW ws, NEW c, NEW n \in Nat, NEW base \in 0..n, NEW st, st \subseteq 0..n
  PROVE  /\ Overlay(ws, c, base, st) \in {base} \cup Pending(ws, c, st)
         /\ \A u \in {base} \cup Pending(ws, c, st) : u <= Overlay(ws, c, base, st)
         /\ Overlay(ws, c, base, st) \in 0..n
<1> DEFINE M == {base} \cup {t \in st : ws[t].child = c}
<1>1. M \subseteq 0..n /\ M # {}
  OBVIOUS
<1>2. \E m \in M : \A k \in M : k <= m
  BY <1>1, GreatestNatural
<1>3. Overlay(ws, c, base, st) = CHOOSE t \in M : \A u \in M : u <= t
  BY DEF Overlay
<1>4. Overlay(ws, c, base, st) \in M /\ \A u \in M : u <= Overlay(ws, c, base, st)
  BY <1>2, <1>3
<1>5. QED
  BY <1>1, <1>4 DEF Pending

\* The latest of what is pending and a merge is what it was, or what is merged.
LEMMA OverlayOfMerge ==
  ASSUME NEW ws, NEW c, NEW n \in Nat, NEW base \in 0..n, NEW v \in 1..n, NEW st, st \subseteq 0..n,
         NEW left \in SUBSET st
  PROVE  (\A t \in Pending(ws, c, st) \ left : t <= v)
           => Moved(Overlay(ws, c, base, st), Overlay(ws, c, Merged(base, v), left), v)
<1> SUFFICES ASSUME \A t \in Pending(ws, c, st) \ left : t <= v
             PROVE  Moved(Overlay(ws, c, base, st), Overlay(ws, c, Merged(base, v), left), v)
  OBVIOUS
<1>1. Merged(base, v) \in 0..n /\ left \subseteq 0..n
  BY DEF Merged
<1>2. Pending(ws, c, left) \subseteq Pending(ws, c, st)
      /\ \A t \in Pending(ws, c, st) : t \in Pending(ws, c, left) \/ t <= v
  BY DEF Pending
<1>3. /\ Overlay(ws, c, base, st) \in {base} \cup Pending(ws, c, st)
      /\ \A u \in {base} \cup Pending(ws, c, st) : u <= Overlay(ws, c, base, st)
      /\ Overlay(ws, c, base, st) \in 0..n
  BY OverlayIsGreatest
<1>4. /\ Overlay(ws, c, Merged(base, v), left) \in {Merged(base, v)} \cup Pending(ws, c, left)
      /\ \A u \in {Merged(base, v)} \cup Pending(ws, c, left) :
           u <= Overlay(ws, c, Merged(base, v), left)
      /\ Overlay(ws, c, Merged(base, v), left) \in 0..n
  BY <1>1, OverlayIsGreatest
<1> DEFINE x == Overlay(ws, c, base, st)
           y == Overlay(ws, c, Merged(base, v), left)
<1> HIDE DEF x, y
<1>5. base <= x /\ x \in 0..n /\ y \in 0..n /\ (x = base \/ x \in Pending(ws, c, st))
  BY <1>3, <1>4 DEF x, y
<1>6. Merged(base, v) <= y /\ (y = Merged(base, v) \/ y \in Pending(ws, c, left))
  BY <1>4 DEF y
<1>7. y = Merged(base, v) \/ y <= x
  BY <1>2, <1>3, <1>6 DEF x
<1>8. x <= v \/ x <= y
  <2>1. CASE x = base
    BY <2>1, <1>5, <1>6 DEF Merged
  <2>2. CASE x \in Pending(ws, c, st)
    BY <2>2, <1>2, <1>4 DEF y
  <2>3. QED
    BY <1>5, <2>1, <2>2
<1>9. y = Merged(x, v)
  BY <1>5, <1>6, <1>7, <1>8 DEF Merged
<1>10. QED
  BY <1>9 DEF x, y, Moved

-----------------------------------------------------------------------------
(* What the calls of the graph and of the store do to one child.           *)

LEMMA WithNodeFacts ==
  ASSUME NEW g \in GraphType, NEW id \in Node
  PROVE  /\ WithNode(g, id) \in GraphType
         /\ WithNode(g, id).nodes = g.nodes \cup {id}
         /\ WithNode(g, id).references = g.references
         /\ WithNode(g, id).referencedBy = g.referencedBy
BY DEF WithNode, GraphType

LEMMA LinkedFacts ==
  ASSUME NEW g \in GraphType, NEW c \in Child, NEW k \in Key
  PROVE  /\ Linked(g, c, k) \in GraphType
         /\ Linked(g, c, k).nodes = g.nodes
         /\ \A d \in Child : Linked(g, c, k).references[d] = IF d = c THEN k ELSE g.references[d]
         /\ \A q \in Key, d \in Child : d \in Linked(g, c, k).referencedBy[q] <=>
              (d = c /\ q = k) \/ d \in g.referencedBy[q]
<1> DEFINE r == [g.references EXCEPT ![c] = k]
           b == [g.referencedBy EXCEPT ![k] = @ \cup {c}]
<1>1. r \in [Child -> Key \cup {Unlinked}] /\ b \in [Key -> SUBSET Child]
  BY DEF GraphType
<1>2. Linked(g, c, k) = [g EXCEPT !.references = r, !.referencedBy = b]
  BY DEF Linked, GraphType
<1>3. /\ \A d \in Child : r[d] = IF d = c THEN k ELSE g.references[d]
      /\ \A q \in Key, d \in Child : d \in b[q] <=> (d = c /\ q = k) \/ d \in g.referencedBy[q]
  BY DEF GraphType
<1> HIDE DEF r, b
<1>4. /\ Linked(g, c, k) \in GraphType /\ Linked(g, c, k).nodes = g.nodes
      /\ Linked(g, c, k).references = r /\ Linked(g, c, k).referencedBy = b
  BY <1>1, <1>2 DEF GraphType
<1>5. QED
  BY <1>3, <1>4

\* The links of a child are cut when they point to a parent.
LEMMA CutFacts ==
  ASSUME NEW g \in GraphType, NEW c \in Child
  PROVE  /\ Cut(g, c) \in GraphType
         /\ Cut(g, c).nodes = g.nodes
         /\ \A d \in Child : Cut(g, c).references[d] =
              IF d = c /\ g.references[c] \in Parent THEN Unlinked ELSE g.references[d]
         /\ \A q \in Key : Cut(g, c).referencedBy[q] =
              IF q \in Parent /\ q = g.references[c] THEN g.referencedBy[q] \ {c} ELSE g.referencedBy[q]
<1> DEFINE k == g.references[c]
           r == [g.references EXCEPT ![c] = Unlinked]
           b == [g.referencedBy EXCEPT ![k] = @ \ {c}]
<1>1. k \in Key \cup {Unlinked} /\ (k \in {Unlinked, Nobody} <=> k \notin Parent)
  BY ObjectsAssumption DEF GraphType, Key
<1>2. CASE k \in Parent
  <2>1. r \in [Child -> Key \cup {Unlinked}] /\ b \in [Key -> SUBSET Child]
    BY DEF GraphType
  <2>2. Cut(g, c) = [g EXCEPT !.references = r, !.referencedBy = b]
    BY <1>1, <1>2 DEF Cut, GraphType
  <2>a. /\ \A d \in Child : r[d] = IF d = c THEN Unlinked ELSE g.references[d]
        /\ \A q \in Key : b[q] = IF q = k THEN g.referencedBy[q] \ {c} ELSE g.referencedBy[q]
    BY <1>1 DEF GraphType
  <2> HIDE DEF r, b
  <2>3. /\ Cut(g, c) \in GraphType /\ Cut(g, c).nodes = g.nodes
        /\ Cut(g, c).references = r /\ Cut(g, c).referencedBy = b
    BY <2>1, <2>2 DEF GraphType
  <2>4. QED
    BY <1>2, <2>a, <2>3
<1>3. CASE k \notin Parent
  <2>1. Cut(g, c) = g
    BY <1>1, <1>3 DEF Cut
  <2>2. QED
    BY <1>3, <2>1
<1>4. QED
  BY <1>2, <1>3

\* Another child keeps what it has.
Kept(a, b, c) ==
  /\ b \in AccType /\ b.ws = a.ws /\ b.parents = a.parents
  /\ b.query = a.query /\ b.snapshot = a.snapshot /\ a.graph.nodes \subseteq b.graph.nodes
  /\ \A d \in Child \ {c} :
       /\ b.pool[d] = a.pool[d] /\ b.graph.references[d] = a.graph.references[d]
       /\ d \in b.undone <=> d \in a.undone
       /\ \A k \in Key : d \in b.graph.referencedBy[k] <=> d \in a.graph.referencedBy[k]

\* The link of c: left as it is, or to k.
Left(a, b, c) ==
  /\ b.graph.references[c] = a.graph.references[c]
  /\ \A q \in Key : c \in b.graph.referencedBy[q] <=> c \in a.graph.referencedBy[q]
  /\ c \in b.undone <=> c \in a.undone
Linking(a, b, c, k, t, prev) ==
  LET was == a.graph.references[c]
      cuts == prev # Absent /\ a.ws[prev].key # Nobody /\ was \in Parent
  IN  /\ {c, k} \subseteq b.graph.nodes
      /\ b.graph.references[c] = k
      /\ \A q \in Key : c \in b.graph.referencedBy[q] <=>
           q = k \/ (c \in a.graph.referencedBy[q] /\ ~(cuts /\ q = was))
      /\ c \in b.undone <=> t = Absent \/ (c \in a.undone /\ t # b.pool[c])

LEMMA RelinkedFacts ==
  ASSUME NEW a \in AccType, NEW c \in Child, NEW k \in Key, NEW t \in Nat, NEW prev \in Nat
  PROVE  LET b == Relinked(a, c, k, t, prev)
         IN  /\ Kept(a, b, c) /\ b.pool = a.pool /\ c \in b.graph.nodes
             /\ IF Keeps(prev, t) THEN Left(a, b, c) ELSE Linking(a, b, c, k, t, prev)
<1> DEFINE b == Relinked(a, c, k, t, prev)
           g0 == a.graph
           g1 == WithNode(WithNode(g0, c), k)
           g2 == IF prev # Absent /\ a.ws[prev].key # Nobody THEN Cut(g1, c) ELSE g1
           g3 == Linked(g2, c, k)
           u == IF t = Absent THEN a.undone \cup {c}
                ELSE IF t = a.pool[c] THEN a.undone \ {c} ELSE a.undone
<1>0. g0 \in GraphType /\ c \in Node /\ k \in Node
      /\ a.undone \subseteq Child /\ a.pool \in [Child -> Nat] /\ a.ws \in Seq(Write)
  BY DEF AccType, Node
<1>1. CASE Keeps(prev, t)
  <2> DEFINE g == WithNode(g0, c)
  <2>1. /\ g \in GraphType /\ g.nodes = g0.nodes \cup {c} /\ g.references = g0.references
        /\ g.referencedBy = g0.referencedBy
    BY <1>0, WithNodeFacts
  <2>2. b = [a EXCEPT !.graph = g]
    BY <1>1 DEF Relinked
  <2> HIDE DEF g, b, g0
  <2>3. b \in AccType /\ b.ws = a.ws /\ b.parents = a.parents /\ b.query = a.query
        /\ b.snapshot = a.snapshot /\ b.pool = a.pool /\ b.undone = a.undone /\ b.graph = g
    BY <2>1, <2>2 DEF AccType
  <2>4. QED
    BY <1>1, <2>1, <2>3 DEF Kept, Left, b, g0
<1>2. CASE ~Keeps(prev, t)
  <2>1. /\ g1 \in GraphType /\ g1.nodes = g0.nodes \cup {c, k} /\ g1.references = g0.references
        /\ g1.referencedBy = g0.referencedBy
    BY <1>0, WithNodeFacts
  <2>2. b = [a EXCEPT !.graph = g3, !.undone = u]
    BY <1>2 DEF Relinked
  <2>3. u \subseteq Child
    BY <1>0
  <2> DEFINE was == g0.references[c]
             cuts == prev # Absent /\ a.ws[prev].key # Nobody /\ was \in Parent
  <2> HIDE DEF g1, was
  <2>4. /\ g2 \in GraphType /\ g2.nodes = g1.nodes
        /\ \A d \in Child \ {c} : g2.references[d] = g1.references[d]
        /\ \A q \in Key : g2.referencedBy[q] =
             IF cuts /\ q = was THEN g1.referencedBy[q] \ {c} ELSE g1.referencedBy[q]
    <3>1. CASE prev # Absent /\ a.ws[prev].key # Nobody
      <4>1. g2 = Cut(g1, c)
        BY <3>1
      <4>2. /\ Cut(g1, c) \in GraphType /\ Cut(g1, c).nodes = g1.nodes
            /\ \A d \in Child : Cut(g1, c).references[d] =
                 IF d = c /\ g1.references[c] \in Parent THEN Unlinked ELSE g1.references[d]
            /\ \A q \in Key : Cut(g1, c).referencedBy[q] =
                 IF q \in Parent /\ q = g1.references[c] THEN g1.referencedBy[q] \ {c}
                 ELSE g1.referencedBy[q]
        BY <2>1, CutFacts, Zenon
      <4>3. g1.references[c] = was
        BY <2>1 DEF was
      <4> HIDE DEF g2
      <4>4. QED
        BY <3>1, <4>1, <4>2, <4>3
    <3>2. CASE ~(prev # Absent /\ a.ws[prev].key # Nobody)
      <4>1. g2 = g1
        BY <3>2
      <4>2. QED
        BY <2>1, <3>2, <4>1
    <3>3. QED
      BY <3>1, <3>2
  <2> HIDE DEF g2, cuts
  <2>5. /\ g3 \in GraphType /\ g3.nodes = g2.nodes
        /\ \A d \in Child : g3.references[d] = IF d = c THEN k ELSE g2.references[d]
        /\ \A q \in Key, d \in Child : d \in g3.referencedBy[q] <=>
             (d = c /\ q = k) \/ d \in g2.referencedBy[q]
    BY <2>4, LinkedFacts
  <2> HIDE DEF g3, b, g0, u
  <2>6. b \in AccType /\ b.ws = a.ws /\ b.parents = a.parents /\ b.query = a.query
        /\ b.snapshot = a.snapshot /\ b.pool = a.pool /\ b.undone = u /\ b.graph = g3
    BY <2>2, <2>3, <2>5 DEF AccType
  <2>7. g3.references[c] = k /\ \A d \in Child \ {c} : g3.references[d] = g0.references[d]
    BY <2>1, <2>4, <2>5
  <2>8. \A q \in Key, d \in Child : d \in g3.referencedBy[q] <=>
          (d = c /\ q = k) \/ (d \in g0.referencedBy[q] /\ ~(d = c /\ cuts /\ q = was))
    <3> SUFFICES ASSUME NEW q \in Key, NEW d \in Child
                 PROVE  d \in g3.referencedBy[q] <=>
                   (d = c /\ q = k) \/ (d \in g0.referencedBy[q] /\ ~(d = c /\ cuts /\ q = was))
      OBVIOUS
    <3>1. g2.referencedBy[q] = IF cuts /\ q = was THEN g0.referencedBy[q] \ {c} ELSE g0.referencedBy[q]
      BY <2>1, <2>4
    <3>2. d \in g3.referencedBy[q] <=> (d = c /\ q = k) \/ d \in g2.referencedBy[q]
      BY <2>5
    <3>3. QED
      BY <3>1, <3>2
  <2>9. \A d \in Child : d \in u <=>
          IF d = c THEN t = Absent \/ (c \in a.undone /\ t # a.pool[c]) ELSE d \in a.undone
    BY DEF u
  <2>a. g3.nodes = g0.nodes \cup {c, k}
    BY <2>1, <2>4, <2>5
  <2>10. Kept(a, b, c)
    BY <2>6, <2>7, <2>8, <2>9, <2>a DEF Kept, g0
  <2>11. Linking(a, b, c, k, t, prev)
    BY <2>6, <2>7, <2>8, <2>9, <2>a DEF Linking, g0, cuts, was
  <2>12. QED
    BY <1>2, <2>6, <2>10, <2>11, <2>a DEF b
<1>3. QED
  BY <1>1, <1>2

-----------------------------------------------------------------------------
(* What the query shows.                                                   *)

\* The state a call works on and leaves, if it tells the query what it changes: a
\* row has a node, and what was last told is the tree there is.
Told(a) ==
  /\ a.parents \subseteq a.graph.nodes
  /\ \A c \in Child : a.pool[c] # Absent => c \in a.graph.nodes
  /\ query = "none" => a.query # "read"
  /\ a.query = "read" => a.snapshot = Tree(a.graph, a.pool, a.parents)

LEMMA TreeType ==
  ASSUME NEW g \in GraphType, NEW pl \in [Child -> Nat], NEW ps \in SUBSET Parent
  PROVE  Tree(g, pl, ps) \in Snapshot
<1> DEFINE P == ps \cap g.nodes
           below(p) == IF "child" \notin flatInclude THEN {}
                       ELSE {<<c, pl[c]>> : c \in {d \in g.referencedBy[p] : d \in g.nodes /\ pl[d] # Absent}}
<1>1. P \in SUBSET Parent /\ Parent \subseteq Key
  BY DEF Key
<1>2. \A p \in P : below(p) \in SUBSET (Child \X Nat)
  BY <1>1 DEF GraphType
<1> HIDE DEF below
<1>3. [p \in P |-> below(p)] \in [P -> SUBSET (Child \X Nat)]
  BY <1>2
<1>4. Tree(g, pl, ps) = [p \in P |-> below(p)]
  BY DEF Tree, below
<1> HIDE DEF P
<1>5. [P -> SUBSET (Child \X Nat)] \in {[Q -> SUBSET (Child \X Nat)] : Q \in SUBSET Parent}
  BY <1>1
<1>6. QED
  BY <1>3, <1>4, <1>5 DEF Snapshot

\* A query without the children shows the parents, whatever becomes of them.
LEMMA NotifiedFacts ==
  ASSUME NEW a \in AccType, NEW name
  PROVE  LET b == Notified(a, name)
         IN  /\ b \in AccType /\ b.ws = a.ws /\ b.pool = a.pool /\ b.parents = a.parents
             /\ b.graph = a.graph /\ b.undone = a.undone
             /\ IF query = "none" \/ ~Concerned(name)
                THEN b.query = a.query /\ b.snapshot = a.snapshot
                ELSE b.query = "read" /\ b.snapshot = Tree(a.graph, a.pool, a.parents)
<1> DEFINE b == Notified(a, name)
           t == Tree(a.graph, a.pool, a.parents)
<1>1. CASE query = "none" \/ ~Concerned(name)
  <2>1. b = a
    BY <1>1 DEF Notified
  <2>2. QED
    BY <1>1, <2>1
<1>2. CASE ~(query = "none" \/ ~Concerned(name))
  <2>1. t \in Snapshot
    BY TreeType DEF AccType
  <2>2. b = [a EXCEPT !.snapshot = t, !.query = "read"]
    BY <1>2 DEF Notified
  <2> HIDE DEF b, t
  <2>3. /\ b \in AccType /\ b.ws = a.ws /\ b.pool = a.pool /\ b.parents = a.parents
        /\ b.graph = a.graph /\ b.undone = a.undone /\ b.query = "read" /\ b.snapshot = t
    BY <2>1, <2>2 DEF AccType
  <2>4. QED
    BY <1>2, <2>3 DEF b, t
<1>3. QED
  BY <1>1, <1>2

\* Another child keeps what it has, and the query is told.
Untouched(a, b, c) ==
  /\ b \in AccType /\ b.ws = a.ws /\ b.parents = a.parents /\ a.graph.nodes \subseteq b.graph.nodes
  /\ Told(a) => Told(b)
  /\ \A d \in Child \ {c} :
       /\ b.pool[d] = a.pool[d] /\ b.graph.references[d] = a.graph.references[d]
       /\ d \in b.undone <=> d \in a.undone
       /\ \A k \in Key : d \in b.graph.referencedBy[k] <=> d \in a.graph.referencedBy[k]

LEMMA UpdatedFacts ==
  ASSUME NEW a \in AccType, NEW c \in Child, NEW n \in Nat, NEW base \in 0..n, NEW st, st \subseteq 0..n,
         NEW k \in Key, NEW t \in Nat, NEW prev \in Nat
  PROVE  LET b == Updated(a, c, base, st, k, t, prev)
             v == Overlay(a.ws, c, base, st)
         IN  /\ Untouched(a, b, c) /\ b.pool[c] = v
             /\ \/ v = Absent /\ c \notin a.graph.nodes /\ b.graph = a.graph /\ Left(a, b, c)
                \/ c \in b.graph.nodes /\ Keeps(prev, t) /\ Left(a, b, c)
                \/ c \in b.graph.nodes /\ ~Keeps(prev, t) /\ Linking(a, b, c, k, t, prev)
<1> DEFINE v == Overlay(a.ws, c, base, st)
           a1 == [a EXCEPT !.pool[c] = v]
           b == Updated(a, c, base, st, k, t, prev)
<1>0. v \in Nat
  <2>1. v \in 0..n
    BY OverlayIsGreatest, Zenon
  <2>2. QED
    BY <2>1
<1>1. b = IF v = Absent /\ c \notin a.graph.nodes THEN a1 ELSE Notified(Relinked(a1, c, k, t, prev), "child")
  BY DEF Updated
<1> HIDE DEF v, b
<1>2. /\ a1 \in AccType /\ a1.ws = a.ws /\ a1.graph = a.graph /\ a1.undone = a.undone
      /\ a1.parents = a.parents /\ a1.query = a.query /\ a1.snapshot = a.snapshot
      /\ a1.pool \in [Child -> Nat]
      /\ a1.pool[c] = v /\ \A d \in Child \ {c} : a1.pool[d] = a.pool[d]
  <2> DEFINE pl == [a.pool EXCEPT ![c] = v]
  <2>1. a1 = [a EXCEPT !.pool = pl] /\ pl \in [Child -> Nat]
    BY <1>0 DEF AccType
  <2> HIDE DEF pl, a1
  <2>2. /\ a1 \in AccType /\ a1.ws = a.ws /\ a1.graph = a.graph /\ a1.undone = a.undone
        /\ a1.parents = a.parents /\ a1.query = a.query /\ a1.snapshot = a.snapshot /\ a1.pool = pl
    BY <2>1 DEF AccType
  <2>3. QED
    BY <2>1, <2>2 DEF pl, AccType
<1> HIDE DEF a1
<1>3. CASE v = Absent /\ c \notin a.graph.nodes
  <2>1. b = a1
    BY <1>1, <1>3
  <2>2. Told(a) => Told(b)
    <3>1. SUFFICES ASSUME Told(a) PROVE Told(b)
      OBVIOUS
    <3>2. a.pool[c] = Absent
      BY <1>3, <3>1 DEF Told
    <3>3. b.pool = a.pool
      BY <1>2, <1>3, <2>1, <3>2 DEF AccType
    <3>4. QED
      BY <1>2, <2>1, <3>1, <3>3 DEF Told
  <2>3. Untouched(a, b, c) /\ Left(a, b, c)
    BY <1>2, <2>1, <2>2 DEF Untouched, Left
  <2>4. QED
    BY <1>2, <1>3, <2>1, <2>3 DEF b, v
<1>4. CASE ~(v = Absent /\ c \notin a.graph.nodes)
  <2>0. PICK a2 : a2 = Relinked(a1, c, k, t, prev)
    OBVIOUS
  <2>1. b = Notified(a2, "child")
    BY <1>1, <1>4, <2>0
  <2>2. /\ Kept(a1, a2, c) /\ a2.pool = a1.pool /\ c \in a2.graph.nodes
        /\ IF Keeps(prev, t) THEN Left(a1, a2, c) ELSE Linking(a1, a2, c, k, t, prev)
    BY <1>2, <2>0, RelinkedFacts
  <2>3. /\ a2 \in AccType /\ a2.ws = a.ws /\ a2.parents = a.parents /\ a2.query = a.query
        /\ a2.snapshot = a.snapshot /\ a.graph.nodes \subseteq a2.graph.nodes
    BY <1>2, <2>2 DEF Kept
  <2>4. /\ b \in AccType /\ b.ws = a2.ws /\ b.pool = a2.pool /\ b.parents = a2.parents
        /\ b.graph = a2.graph /\ b.undone = a2.undone
        /\ IF query = "none" \/ ~Concerned("child")
           THEN b.query = a2.query /\ b.snapshot = a2.snapshot
           ELSE b.query = "read" /\ b.snapshot = Tree(a2.graph, a2.pool, a2.parents)
    BY <2>1, <2>3, NotifiedFacts, Zenon
  <2>5. Told(a) => Told(b)
    <3>1. SUFFICES ASSUME Told(a) PROVE Told(b)
      OBVIOUS
    <3>2. /\ b.parents \subseteq b.graph.nodes
          /\ \A d \in Child : b.pool[d] # Absent => d \in b.graph.nodes
      BY <1>2, <2>2, <2>3, <2>4, <3>1 DEF Told
    <3>3. query = "none" => b.query # "read"
      BY <2>3, <2>4, <3>1 DEF Told
    <3>4. b.query = "read" => b.snapshot = Tree(b.graph, b.pool, b.parents)
      <4>1. CASE query = "none" \/ Concerned("child")
        BY <2>4, <3>3, <4>1
      <4>2. CASE query # "none" /\ ~Concerned("child")
        <5>1. "child" \notin flatInclude
          BY <4>2 DEF Concerned
        <5>2. a.parents \subseteq a.graph.nodes /\ a.parents \subseteq b.graph.nodes
          BY <2>3, <2>4, <3>1 DEF Told
        <5>3. Tree(a.graph, a.pool, a.parents) = Tree(b.graph, b.pool, a.parents)
          <6>1. a.parents \cap a.graph.nodes = a.parents /\ a.parents \cap b.graph.nodes = a.parents
            BY <5>2
          <6>2. Tree(a.graph, a.pool, a.parents) = [p \in a.parents |-> {}]
            BY <5>1, <6>1 DEF Tree
          <6>3. Tree(b.graph, b.pool, a.parents) = [p \in a.parents |-> {}]
            BY <5>1, <6>1 DEF Tree
          <6>4. QED
            BY <6>2, <6>3, Zenon
        <5>4. QED
          BY <2>3, <2>4, <3>1, <4>2, <5>3 DEF Told
      <4>3. QED
        BY <4>1, <4>2
    <3>5. QED
      BY <3>2, <3>3, <3>4 DEF Told
  <2>6. Untouched(a, b, c) /\ b.pool[c] = v
    BY <1>2, <2>2, <2>3, <2>4, <2>5 DEF Untouched, Kept
  <2>7. IF Keeps(prev, t) THEN Left(a, b, c) ELSE Linking(a, b, c, k, t, prev)
    BY <1>2, <2>2, <2>4 DEF Left, Linking
  <2>8. c \in b.graph.nodes
    BY <2>2, <2>4
  <2>9. QED
    BY <2>6, <2>7, <2>8 DEF b, v
<1>5. QED
  BY <1>3, <1>4

-----------------------------------------------------------------------------
(* The invariant, of one child: its row is the latest of what was merged   *)
(* and what is pending, so that the link a later write cuts is the one the *)
(* child has. A child that was scoped out starts again without a link, and *)
(* one that undid a write has a link to nobody until its row moves on.     *)

Fine(a, c, r, st, gn) ==
  LET has == a.pool[c] # Absent
      row == a.ws[a.pool[c]].key
      link == a.graph.references[c]
  IN  /\ r <= a.pool[c] /\ a.pool[c] <= Len(a.ws)
      /\ c \notin gn \/ c \notin a.undone => a.pool[c] = Overlay(a.ws, c, r, st)
      /\ c \notin gn /\ link \in Parent => has /\ row = link
      /\ c \notin gn => \A p \in Parent \ gn : c \in a.graph.referencedBy[p] <=> link = p
      /\ c \notin a.undone /\ has => link = row
      /\ has => c \in a.graph.nodes
      /\ c \notin a.graph.nodes => link = Unlinked
      /\ \A k \in Key : c \in a.graph.referencedBy[k] => k \in a.graph.nodes

LEMMA FineOfAnother ==
  ASSUME NEW a, NEW b, NEW c, NEW d \in Child \ {c}, NEW r, NEW st, NEW gn,
         Untouched(a, b, c), Fine(a, d, r, st, gn)
  PROVE  Fine(b, d, r, st, gn)
<1>1. /\ b.ws = a.ws /\ a.graph.nodes \subseteq b.graph.nodes
      /\ b.pool[d] = a.pool[d] /\ b.graph.references[d] = a.graph.references[d]
      /\ d \in b.undone <=> d \in a.undone
      /\ \A k \in Key : d \in b.graph.referencedBy[k] <=> d \in a.graph.referencedBy[k]
  BY DEF Untouched
<1>2. Parent \subseteq Key
  BY DEF Key
<1>3. QED
  BY <1>1, <1>2 DEF Fine

\* A write of the child arrives: by a delta, by a load, or by a call of the page.
LEMMA FineOfArrival ==
  ASSUME NEW a \in AccType, NEW c \in Child, NEW gn,
         NEW r \in 0..Len(a.ws), NEW st, st \subseteq 0..Len(a.ws), Fine(a, c, r, st, gn),
         NEW r2 \in 0..Len(a.ws), NEW st2, st2 \subseteq 0..Len(a.ws),
         NEW t \in 1..Len(a.ws), NEW k \in Key
  PROVE  k = a.ws[t].key /\ Moved(Overlay(a.ws, c, r, st), Overlay(a.ws, c, r2, st2), t)
           => Fine(Updated(a, c, r2, st2, k, t, a.pool[c]), c, r2, st2, gn)
<1> DEFINE n == Len(a.ws)
           prev == a.pool[c]
           o == Overlay(a.ws, c, r, st)
           v == Overlay(a.ws, c, r2, st2)
           b == Updated(a, c, r2, st2, k, t, prev)
<1>1. n \in Nat /\ prev \in Nat /\ t \in Nat /\ t # Absent
  BY LenProperties DEF AccType, Absent
<1>2. /\ Untouched(a, b, c) /\ b.pool[c] = v
      /\ \/ v = Absent /\ c \notin a.graph.nodes /\ b.graph = a.graph /\ Left(a, b, c)
         \/ c \in b.graph.nodes /\ Keeps(prev, t) /\ Left(a, b, c)
         \/ c \in b.graph.nodes /\ ~Keeps(prev, t) /\ Linking(a, b, c, k, t, prev)
  <2>1. r2 \in 0..n /\ st2 \subseteq 0..n
    OBVIOUS
  <2> HIDE DEF n, prev
  <2>2. QED
    BY <1>1, <2>1, UpdatedFacts, Zenon
<1>3. o \in 0..n /\ v \in 0..n /\ r2 <= v
  BY <1>1, OverlayIsGreatest
<1> SUFFICES ASSUME k = a.ws[t].key, Moved(o, v, t)
             PROVE  Fine(b, c, r2, st2, gn)
  OBVIOUS
<1>4. v = Merged(o, t)
  BY DEF Moved
<1> HIDE DEF n, prev, o, v, b
<1>5. v # Absent /\ v <= n /\ r2 <= v /\ v \in Nat /\ (v = o \/ v = t) /\ (prev = o => IF prev >= t THEN v = prev ELSE v = t)
  BY <1>1, <1>3, <1>4 DEF Merged, Absent
<1>6. b.ws = a.ws /\ a.graph.nodes \subseteq b.graph.nodes /\ c \in b.graph.nodes
  BY <1>2, <1>5 DEF Untouched
<1>7. Parent \subseteq Key /\ Nobody \notin Parent /\ Unlinked \notin Parent
  BY ObjectsAssumption DEF Key
<1>8. /\ c \notin gn \/ c \notin a.undone => prev = o
      /\ c \notin gn /\ a.graph.references[c] \in Parent => prev # Absent /\ a.ws[prev].key = a.graph.references[c]
      /\ c \notin gn => \A p \in Parent \ gn : c \in a.graph.referencedBy[p] <=> a.graph.references[c] = p
      /\ c \notin a.undone /\ prev # Absent => a.graph.references[c] = a.ws[prev].key
      /\ \A q \in Key : c \in a.graph.referencedBy[q] => q \in a.graph.nodes
  BY DEF Fine, prev, o
<1>9. CASE Keeps(prev, t)
  <2>1. prev >= t /\ prev # Absent
    BY <1>9 DEF Keeps
  <2>2. Left(a, b, c)
    BY <1>2, <1>5, <1>9
  <2>3. /\ b.graph.references[c] = a.graph.references[c]
        /\ \A q \in Key : c \in b.graph.referencedBy[q] <=> c \in a.graph.referencedBy[q]
        /\ c \in b.undone <=> c \in a.undone
    BY <2>2 DEF Left
  <2>4. Fine(b, c, r2, st2, gn)
    BY <1>2, <1>5, <1>6, <1>7, <1>8, <2>1, <2>3 DEF Fine, n, v
  <2>5. QED
    BY <2>4
<1>10. CASE ~Keeps(prev, t)
  <2>1. ~(prev >= t)
    BY <1>1, <1>10 DEF Keeps, Absent
  <2>2. Linking(a, b, c, k, t, prev)
    BY <1>2, <1>5, <1>10
  <2> DEFINE was == a.graph.references[c]
             cuts == prev # Absent /\ a.ws[prev].key # Nobody /\ was \in Parent
  <2>3. /\ {c, k} \subseteq b.graph.nodes
        /\ b.graph.references[c] = k
        /\ \A q \in Key : c \in b.graph.referencedBy[q] <=>
             q = k \/ (c \in a.graph.referencedBy[q] /\ ~(cuts /\ q = was))
        /\ c \in b.undone <=> t = Absent \/ (c \in a.undone /\ t # b.pool[c])
    BY <2>2 DEF Linking
  <2>4. c \notin gn => \A p \in Parent \ gn : c \in b.graph.referencedBy[p] <=> k = p
    BY <1>7, <1>8, <2>3
  <2>5. \A q \in Key : c \in b.graph.referencedBy[q] => q \in b.graph.nodes
    BY <1>6, <1>8, <2>3
  <2>6. c \notin gn => v = t
    BY <1>5, <1>8, <2>1
  <2>7. c \notin b.undone => v = t
    BY <1>1, <1>2, <1>5, <1>8, <2>1, <2>3
  <2> HIDE DEF was, cuts
  <2>8. Fine(b, c, r2, st2, gn)
    BY <1>2, <1>5, <1>6, <2>3, <2>4, <2>5, <2>6, <2>7 DEF Fine, n, v
  <2>9. QED
    BY <2>8
<1>11. QED
  BY <1>9, <1>10

\* A write is undone: whatever row is left, the child refers to nobody.
LEMMA FineOfUndo ==
  ASSUME NEW a \in AccType, NEW c \in Child, NEW gn,
         NEW r \in 0..Len(a.ws), NEW st, Fine(a, c, r, st, gn),
         NEW st2, st2 \subseteq 0..Len(a.ws)
  PROVE  Fine(Updated(a, c, r, st2, Nobody, Absent, a.pool[c]), c, r, st2, gn)
<1> DEFINE n == Len(a.ws)
           prev == a.pool[c]
           v == Overlay(a.ws, c, r, st2)
           b == Updated(a, c, r, st2, Nobody, Absent, prev)
<1>1. n \in Nat /\ prev \in Nat /\ Absent \in Nat /\ Nobody \in Key
  BY LenProperties DEF AccType, Absent, Key
<1>2. ~Keeps(prev, Absent)
  BY DEF Keeps
<1>3. /\ Untouched(a, b, c) /\ b.pool[c] = v
      /\ \/ v = Absent /\ c \notin a.graph.nodes /\ b.graph = a.graph /\ Left(a, b, c)
         \/ c \in b.graph.nodes /\ Linking(a, b, c, Nobody, Absent, prev)
  <2>1. r \in 0..n /\ st2 \subseteq 0..n
    OBVIOUS
  <2> HIDE DEF n, prev
  <2>2. /\ Untouched(a, b, c) /\ b.pool[c] = v
        /\ \/ v = Absent /\ c \notin a.graph.nodes /\ b.graph = a.graph /\ Left(a, b, c)
           \/ c \in b.graph.nodes /\ Keeps(prev, Absent) /\ Left(a, b, c)
           \/ c \in b.graph.nodes /\ ~Keeps(prev, Absent) /\ Linking(a, b, c, Nobody, Absent, prev)
    BY <1>1, <2>1, UpdatedFacts, Zenon
  <2> HIDE DEF b, v
  <2>3. QED
    BY <1>2, <2>2
<1>4. v \in 0..n /\ r <= v
  BY <1>1, OverlayIsGreatest
<1>5. b.ws = a.ws /\ a.graph.nodes \subseteq b.graph.nodes
  BY <1>3 DEF Untouched
<1>6. Parent \subseteq Key /\ Nobody \notin Parent /\ Unlinked \notin Parent
  BY ObjectsAssumption DEF Key
<1> HIDE DEF n, prev, v, b
<1>7. /\ c \notin gn /\ a.graph.references[c] \in Parent => prev # Absent /\ a.ws[prev].key = a.graph.references[c]
      /\ c \notin gn => \A p \in Parent \ gn : c \in a.graph.referencedBy[p] <=> a.graph.references[c] = p
      /\ c \notin a.graph.nodes => a.graph.references[c] = Unlinked
      /\ \A q \in Key : c \in a.graph.referencedBy[q] => q \in a.graph.nodes
  BY DEF Fine, prev
<1>8. CASE v = Absent /\ c \notin a.graph.nodes /\ b.graph = a.graph /\ Left(a, b, c)
  <2>1. Fine(b, c, r, st2, gn)
    BY <1>3, <1>4, <1>5, <1>6, <1>7, <1>8 DEF Fine, n, v
  <2>2. QED
    BY <2>1 DEF b, prev
<1>9. CASE c \in b.graph.nodes /\ Linking(a, b, c, Nobody, Absent, prev)
  <2> DEFINE was == a.graph.references[c]
             cuts == prev # Absent /\ a.ws[prev].key # Nobody /\ was \in Parent
  <2>1. /\ Nobody \in b.graph.nodes /\ b.graph.references[c] = Nobody /\ c \in b.undone
        /\ \A q \in Key : c \in b.graph.referencedBy[q] <=>
             q = Nobody \/ (c \in a.graph.referencedBy[q] /\ ~(cuts /\ q = was))
    BY <1>9 DEF Linking
  <2>2. c \notin gn => \A p \in Parent \ gn : c \notin b.graph.referencedBy[p]
    BY <1>6, <1>7, <2>1
  <2>3. \A q \in Key : c \in b.graph.referencedBy[q] => q \in b.graph.nodes
    BY <1>5, <1>7, <2>1
  <2> HIDE DEF was, cuts
  <2>4. Fine(b, c, r, st2, gn)
    BY <1>3, <1>4, <1>5, <1>6, <1>9, <2>1, <2>2, <2>3 DEF Fine, n, v
  <2>5. QED
    BY <2>4 DEF b, prev
<1>10. QED
  BY <1>3, <1>8, <1>9

-----------------------------------------------------------------------------
(* A fold over the first n naturals is defined, and goes from one to the   *)
(* next.                                                                   *)

LEMMA UpTo ==
  ASSUME NEW n \in Nat, NEW G, 0 \in G, \A m \in 1..n : m - 1 \in G => m \in G
  PROVE  n \in G
<1> DEFINE Bad == {m \in 0..n : m \notin G}
<1>1. ASSUME Bad # {} PROVE FALSE
  <2>1. Bad \subseteq Nat
    OBVIOUS
  <2>2. PICK m \in Bad : \A k \in Bad : m <= k
    BY <1>1, <2>1, LeastNatural
  <2>3. m \in 1..n /\ m - 1 \notin Bad
    BY <2>2
  <2>4. QED
    BY <2>2, <2>3
<1>2. n \in 0..n
  OBVIOUS
<1>3. QED
  BY <1>1, <1>2

LEMMA MaxOfSome ==
  ASSUME NEW n \in Nat, NEW T \in SUBSET (1..n), T # {}
  PROVE  Max(T) \in T /\ \A i \in T : i <= Max(T)
<1>1. T \subseteq 0..n
  OBVIOUS
<1>2. \E m \in T : \A k \in T : k <= m
  BY <1>1, GreatestNatural
<1>3. \E m \in T : \A k \in T : m >= k
  BY <1>1, <1>2
<1>4. Max(T) \in T /\ \A k \in T : Max(T) >= k
  BY <1>3 DEF Max
<1>5. QED
  BY <1>1, <1>4

IsFold(f, base, h, n) ==
  \A T \in SUBSET (1..n) : f[T] = IF T = {} THEN base ELSE h[Max(T)][f[T \ {Max(T)}]]

LEMMA FoldDefined ==
  ASSUME NEW A, NEW base \in A, NEW n \in Nat, NEW h \in [1..n -> [A -> A]]
  PROVE  \E f \in [SUBSET (1..n) -> A] : IsFold(f, base, h, n)
<1> DEFINE Folds(f, m) == IsFold(f, base, h, m)
           G == {m \in 0..n : \E f \in [SUBSET (1..m) -> A] : Folds(f, m)}
<1>1. 0 \in G
  <2> DEFINE f == [T \in SUBSET (1..0) |-> base]
  <2>1. f \in [SUBSET (1..0) -> A]
    OBVIOUS
  <2>2. \A T \in SUBSET (1..0) : T = {} /\ f[T] = base
    OBVIOUS
  <2> HIDE DEF f
  <2>3. Folds(f, 0)
    BY <2>2 DEF IsFold
  <2>4. \E e \in [SUBSET (1..0) -> A] : Folds(e, 0)
    <3> HIDE DEF Folds
    <3>1. QED
      BY <2>1, <2>3, Zenon
  <2> HIDE DEF Folds
  <2>5. 0 \in 0..n
    OBVIOUS
  <2>6. QED
    BY <2>4, <2>5, Zenon
<1>2. ASSUME NEW m \in 1..n, m - 1 \in G PROVE m \in G
  <2>5. PICK f \in [SUBSET (1..(m - 1)) -> A] : Folds(f, m - 1)
    BY <1>2
  <2> DEFINE g == [T \in SUBSET (1..m) |-> IF m \in T THEN h[m][f[T \ {m}]] ELSE f[T]]
  <2>6. \A T \in SUBSET (1..m) :
          /\ T \ {m} \in SUBSET (1..(m - 1))
          /\ m \notin T => T \in SUBSET (1..(m - 1))
          /\ m \in T => Max(T) = m
    <3>1. \A T \in SUBSET (1..m) : \A i \in T : i # m => i \in 1..(m - 1)
      OBVIOUS
    <3>2. ASSUME NEW T \in SUBSET (1..m), m \in T PROVE Max(T) = m
      <4>1. m \in Nat /\ T # {}
        BY <3>2
      <4>2. Max(T) \in T /\ m <= Max(T)
        BY <3>2, <4>1, MaxOfSome
      <4>3. Max(T) \in 1..m
        BY <4>2
      <4>4. QED
        BY <4>2, <4>3
    <3>3. QED
      BY <3>1, <3>2
  <2>7. h[m] \in [A -> A]
    OBVIOUS
  <2>8. g \in [SUBSET (1..m) -> A]
    BY <2>6, <2>7
  <2>9. Folds(g, m)
    <3> SUFFICES ASSUME NEW T \in SUBSET (1..m)
                 PROVE  g[T] = IF T = {} THEN base ELSE h[Max(T)][g[T \ {Max(T)}]]
      BY DEF IsFold
    <3>1. CASE m \in T
      <4>1. T # {} /\ Max(T) = m /\ T \ {m} \in SUBSET (1..m) /\ ~(m \in T \ {m})
        BY <2>6, <3>1
      <4>2. g[T] = h[m][f[T \ {m}]] /\ g[T \ {m}] = f[T \ {m}]
        BY <3>1, <4>1
      <4> HIDE DEF g
      <4>3. QED
        BY <4>1, <4>2
    <3>2. CASE m \notin T
      <4>1. T \in SUBSET (1..(m - 1))
        BY <2>6, <3>2
      <4>2. f[T] = IF T = {} THEN base ELSE h[Max(T)][f[T \ {Max(T)}]]
        BY <2>5, <4>1 DEF IsFold
      <4>3. g[T] = f[T] /\ g[T \ {Max(T)}] = f[T \ {Max(T)}]
        BY <3>2
      <4> HIDE DEF g
      <4>4. QED
        BY <4>2, <4>3
    <3>3. QED
      BY <3>1, <3>2
  <2> HIDE DEF g
  <2>10. m \in 0..n
    OBVIOUS
  <2>11. QED
    BY <2>8, <2>9, <2>10
<1>3. n \in G
  <2> HIDE DEF G
  <2>1. QED
    BY <1>1, <1>2, UpTo
<1>4. QED
  BY <1>3

LEMMA FoldOfPrefix ==
  ASSUME NEW n \in Nat, NEW i \in 1..n
  PROVE  /\ 1..i \in SUBSET (1..n) /\ 1..i # {} /\ Max(1..i) = i /\ (1..i) \ {i} = 1..(i - 1)
<1>1. 1..i \in SUBSET (1..n) /\ 1..i # {} /\ i \in 1..i /\ (1..i) \ {i} = 1..(i - 1)
  OBVIOUS
<1>2. Max(1..i) \in 1..i /\ i <= Max(1..i)
  BY <1>1, MaxOfSome
<1>3. QED
  BY <1>1, <1>2

LEMMA OverlayOfLoad ==
  ASSUME NEW ws, NEW c, NEW n \in Nat, NEW base \in 0..n, NEW v \in 1..n, NEW st, st \subseteq 0..n
  PROVE  Moved(Overlay(ws, c, base, st), Overlay(ws, c, Merged(base, v), st), v)
<1>1. \A t \in Pending(ws, c, st) \ st : t <= v
  BY DEF Pending
<1>2. st \in SUBSET st
  OBVIOUS
<1>3. QED
  BY <1>1, <1>2, OverlayOfMerge, Zenon

\* The children of a loaded parent, one after the other.
Loading(x, n, s, ws, r, r2, st, gn, p, last) ==
  /\ x[0] \in AccType /\ x[0].ws = ws /\ Told(x[0]) /\ \A d \in Child : Fine(x[0], d, r[d], st, gn)
  /\ \A i, j \in 1..n : i # j => s[i] # s[j]
  /\ \A i \in 1..n : /\ last[s[i]] \in 1..Len(ws) /\ ws[last[s[i]]].key = p
                      /\ r2[s[i]] = Merged(r[s[i]], last[s[i]])
  /\ \A i \in 1..n :
       x[i] = Updated(x[i - 1], s[i], r2[s[i]], st, p, last[s[i]], x[i - 1].pool[s[i]])
Loaded(x, n, s, ws, r, r2, st, gn) ==
  /\ x[n] \in AccType /\ x[n].ws = ws /\ Told(x[n]) /\ x[0].graph.nodes \subseteq x[n].graph.nodes
  /\ \A i \in 1..n : Fine(x[n], s[i], r2[s[i]], st, gn)
  /\ \A d \in Child : (\A i \in 1..n : s[i] # d) => Fine(x[n], d, r[d], st, gn)

LEMMA FineOfLoads ==
  ASSUME NEW x, NEW n \in Nat, NEW s \in [1..n -> Child], NEW ws,
         NEW r \in [Child -> 0..Len(ws)], NEW r2, NEW st \in SUBSET (0..Len(ws)), NEW gn,
         NEW p \in Parent, NEW last
  PROVE  Loading(x, n, s, ws, r, r2, st, gn, p, last) => Loaded(x, n, s, ws, r, r2, st, gn)
<1> SUFFICES ASSUME Loading(x, n, s, ws, r, r2, st, gn, p, last)
             PROVE  Loaded(x, n, s, ws, r, r2, st, gn)
  OBVIOUS
<1>0. /\ x[0] \in AccType /\ x[0].ws = ws /\ Told(x[0]) /\ (\A d \in Child : Fine(x[0], d, r[d], st, gn))
      /\ \A i, j \in 1..n : i # j => s[i] # s[j]
      /\ \A i \in 1..n : /\ last[s[i]] \in 1..Len(ws) /\ ws[last[s[i]]].key = p
                          /\ r2[s[i]] = Merged(r[s[i]], last[s[i]])
      /\ \A i \in 1..n :
           x[i] = Updated(x[i - 1], s[i], r2[s[i]], st, p, last[s[i]], x[i - 1].pool[s[i]])
      /\ st \subseteq 0..Len(ws)
  BY DEF Loading
<1> DEFINE Good(m) ==
             /\ x[m] \in AccType /\ x[m].ws = ws /\ Told(x[m]) /\ x[0].graph.nodes \subseteq x[m].graph.nodes
             /\ \A i \in 1..m : Fine(x[m], s[i], r2[s[i]], st, gn)
             /\ \A d \in Child : (\A i \in 1..m : s[i] # d) => Fine(x[m], d, r[d], st, gn)
<1>1. Good(0)
  BY <1>0
<1> HIDE DEF Good
<1>2. ASSUME NEW m \in 1..n, Good(m - 1) PROVE Good(m)
  <2> DEFINE c == s[m]
             a == x[m - 1]
             t == last[c]
  <2>6. c \in Child /\ t \in 1..Len(ws) /\ t \in Nat /\ ws[t].key = p /\ r2[c] = Merged(r[c], t)
    BY <1>0, <1>2
  <2>7. /\ a \in AccType /\ a.ws = ws /\ Told(a)
        /\ \A i \in 1..(m - 1) : Fine(a, s[i], r2[s[i]], st, gn)
        /\ \A d \in Child : (\A i \in 1..(m - 1) : s[i] # d) => Fine(a, d, r[d], st, gn)
        /\ x[0].graph.nodes \subseteq a.graph.nodes
    BY <1>0, <1>2 DEF Good
  <2>8. \A i \in 1..(m - 1) : s[i] # c
    BY <1>0, <1>2
  <2>9. Fine(a, c, r[c], st, gn)
    BY <2>6, <2>7, <2>8
  <2>10. Len(ws) \in Nat /\ a.pool[c] \in Nat /\ p \in Key
    BY <2>6, <2>7, LenProperties DEF AccType, Key
  <2>11. r[c] \in 0..Len(ws) /\ r2[c] \in 0..Len(ws)
    BY <2>6, <2>10 DEF Merged
  <2> HIDE DEF t, a
  <2>12. Moved(Overlay(ws, c, r[c], st), Overlay(ws, c, r2[c], st), t)
    <3>2. PICK l \in Nat : l = Len(ws)
      BY <2>10
    <3>3. PICK y \in 0..l : y = r[c]
      BY <2>11, <3>2
    <3>4. t \in 1..l /\ st \subseteq 0..l
      BY <1>0, <2>6, <3>2
    <3> HIDE DEF c
    <3>5. Moved(Overlay(ws, c, y, st), Overlay(ws, c, Merged(y, t), st), t)
      BY <3>4, OverlayOfLoad, Zenon
    <3>6. QED
      BY <2>6, <3>3, <3>5
  <2>13. x[m] = Updated(a, c, r2[c], st, p, t, a.pool[c])
    BY <1>0 DEF t, a
  <2>14. Fine(x[m], c, r2[c], st, gn)
    <3>1. PICK y : y = r2[c]
      OBVIOUS
    <3> HIDE DEF c
    <3>2. y \in 0..Len(a.ws) /\ r[c] \in 0..Len(a.ws) /\ st \subseteq 0..Len(a.ws) /\ t \in 1..Len(a.ws)
          /\ p = a.ws[t].key
          /\ Moved(Overlay(a.ws, c, r[c], st), Overlay(a.ws, c, y, st), t)
      BY <1>0, <2>6, <2>7, <2>11, <2>12, <3>1
    <3>3. PICK r1 \in 0..Len(a.ws) : r1 = r[c]
      BY <3>2
    <3>4. Fine(Updated(a, c, y, st, p, t, a.pool[c]), c, y, st, gn)
      BY <2>6, <2>7, <2>9, <2>10, <3>2, <3>3, FineOfArrival, Zenon
    <3>5. QED
      BY <2>13, <3>1, <3>4
  <2>15. Untouched(a, x[m], c)
    <3> HIDE DEF c
    <3>1. PICK y : y = r2[c]
      OBVIOUS
    <3>2. PICK l : l = Len(ws)
      OBVIOUS
    <3>3. l \in Nat /\ y \in 0..l /\ st \subseteq 0..l
      BY <1>0, <2>10, <2>11, <3>1, <3>2
    <3>4. Untouched(a, Updated(a, c, y, st, p, t, a.pool[c]), c)
      BY <2>6, <2>7, <2>10, <3>3, UpdatedFacts, Zenon
    <3>5. QED
      BY <2>13, <3>1, <3>4
  <2>16. x[m] \in AccType /\ x[m].ws = ws /\ Told(x[m]) /\ x[0].graph.nodes \subseteq x[m].graph.nodes
    BY <2>7, <2>15 DEF Untouched
  <2>17. ASSUME NEW i \in 1..m PROVE Fine(x[m], s[i], r2[s[i]], st, gn)
    <3>1. CASE i = m
      BY <2>14, <3>1
    <3>2. CASE i # m
      <4>1. i \in 1..(m - 1) /\ s[i] \in Child \ {c}
        BY <1>0, <2>8, <3>2
      <4>2. Fine(a, s[i], r2[s[i]], st, gn)
        BY <2>7, <4>1
      <4> HIDE DEF c
      <4>3. QED
        BY <2>15, <4>1, <4>2, FineOfAnother
    <3>3. QED
      BY <3>1, <3>2
  <2>18. ASSUME NEW d \in Child, \A i \in 1..m : s[i] # d PROVE Fine(x[m], d, r[d], st, gn)
    <3>1. d \in Child \ {c} /\ \A i \in 1..(m - 1) : s[i] # d
      BY <2>18
    <3>2. Fine(a, d, r[d], st, gn)
      BY <2>7, <3>1
    <3> HIDE DEF c
    <3>3. QED
      BY <2>15, <3>1, <3>2, FineOfAnother
  <2>19. QED
    BY <2>16, <2>17, <2>18 DEF Good
<1>3. Good(n)
  <2> DEFINE G == {m \in 0..n : Good(m)}
  <2>1. 0 \in G /\ \A m \in 1..n : m - 1 \in G => m \in G
    BY <1>1, <1>2
  <2> HIDE DEF G
  <2>2. n \in G
    BY <2>1, UpTo
  <2>3. QED
    BY <2>2 DEF G
<1>4. QED
  BY <1>3 DEF Good, Loaded

-----------------------------------------------------------------------------
(* The invariant of the state.                                             *)

Shape ==
  /\ writes \in Seq(Write) /\ Len(writes) <= MaxTime
  /\ stack \subseteq DOMAIN writes
  /\ raw \in [Child -> 0..Len(writes)]
  /\ Acc \in AccType
  /\ parents \subseteq nodes
IInv ==
  /\ Shape
  /\ \A c \in Child : Fine(Acc, c, raw[c], stack, gone)
  /\ ShownIsCurrent

LEMMA AccFields ==
  /\ Acc.ws = writes /\ Acc.pool = pool /\ Acc.undone = undone
  /\ Acc.graph.nodes = nodes /\ Acc.graph.references = references
  /\ Acc.graph.referencedBy = referencedBy
  /\ Acc.parents = parents /\ Acc.query = query /\ Acc.snapshot = snapshot /\ Acc.graph = Graph
BY DEF Acc, Graph

LEMMA AccIsTold ==
  ASSUME IInv
  PROVE  Told(Acc)
<1>1. \A c \in Child : pool[c] # Absent => c \in nodes
  <2>1. ASSUME NEW c \in Child PROVE pool[c] # Absent => c \in nodes
    <3>1. Fine(Acc, c, raw[c], stack, gone)
      BY DEF IInv
    <3>2. QED
      BY <3>1, AccFields DEF Fine
  <2>2. QED
    BY <2>1
<1>2. QED
  BY <1>1, AccFields DEF IInv, Shape, ShownIsCurrent, Told

LEMMA Shaped ==
  ASSUME Shape
  PROVE  /\ Acc \in AccType /\ Acc.ws = writes /\ Len(writes) \in Nat /\ DOMAIN writes = 1..Len(writes)
         /\ stack \subseteq 0..Len(writes) /\ stack \subseteq 1..Len(writes)
         /\ \A c \in Child : raw[c] \in 0..Len(writes)
         /\ \A t \in DOMAIN writes : writes[t].child \in Child /\ writes[t].key \in Key
<1>1. writes \in Seq(Write)
  BY DEF Shape
<1>2. Len(writes) \in Nat /\ DOMAIN writes = 1..Len(writes)
  BY <1>1, LenProperties
<1>3. ASSUME NEW t \in DOMAIN writes PROVE writes[t].child \in Child /\ writes[t].key \in Key
  <2>1. writes[t] \in Write
    BY <1>1, <1>2, ElementOfSeq
  <2>2. QED
    BY <2>1 DEF Write
<1>4. QED
  BY <1>2, <1>3, AccFields DEF Shape

LEMMA IInvImplies ==
  ASSUME IInv
  PROVE  TypeOK /\ LinksFollowRows /\ ListsAreReferences /\ ShownIsCurrent
<1>0. Shape /\ Acc \in AccType /\ Len(writes) \in Nat
  BY Shaped DEF IInv
<1>1. /\ pool \in [Child -> Nat] /\ nodes \subseteq Node /\ undone \subseteq Child
      /\ references \in [Child -> Key \cup {Unlinked}] /\ referencedBy \in [Key -> SUBSET Child]
  BY <1>0, AccFields DEF AccType, GraphType
<1>2. ASSUME NEW c \in Child
      PROVE  /\ raw[c] <= pool[c] /\ pool[c] <= Len(writes)
             /\ c \notin gone => \A p \in Parent \ gone : c \in referencedBy[p] <=> references[c] = p
             /\ c \notin undone /\ pool[c] # Absent => references[c] = writes[pool[c]].key
             /\ c \notin nodes => references[c] = Unlinked
             /\ \A k \in Key : c \in referencedBy[k] => k \in nodes
  <2>1. Fine(Acc, c, raw[c], stack, gone)
    BY DEF IInv
  <2>2. QED
    BY <2>1, AccFields DEF Fine
<1>3. pool \in [Child -> 0..Len(writes)]
  <2>1. \A c \in Child : pool[c] \in 0..Len(writes)
    BY <1>0, <1>1, <1>2
  <2>2. QED
    BY <1>1, <2>1
<1>4. \A c \in Child : raw[c] # Absent => pool[c] >= raw[c]
  <2>1. ASSUME NEW c \in Child PROVE pool[c] >= raw[c]
    <3>1. raw[c] \in Nat /\ pool[c] \in Nat
      BY <1>0, <1>1, Shaped
    <3>2. QED
      BY <1>2, <3>1
  <2>2. QED
    BY <2>1
<1>5. \A k \in Key : k \notin nodes => referencedBy[k] = {}
  <2>1. ASSUME NEW k \in Key, k \notin nodes PROVE \A c \in referencedBy[k] : FALSE
    BY <1>1, <1>2, <2>1
  <2>2. QED
    BY <2>1
<1>6. TypeOK
  BY <1>0, <1>1, <1>2, <1>3, <1>4, <1>5 DEF TypeOK, Shape, Write
<1>7. LinksFollowRows
  BY <1>2 DEF LinksFollowRows
<1>8. ListsAreReferences
  BY <1>2, <1>6 DEF ListsAreReferences
<1>9. QED
  BY <1>6, <1>7, <1>8 DEF IInv

-----------------------------------------------------------------------------
(* The store becomes what a call has made of it.                           *)

LEMMA Became ==
  ASSUME NEW a \in AccType, Becomes(a),
         Len(a.ws) <= MaxTime, stack' \subseteq DOMAIN a.ws, raw' \in [Child -> 0..Len(a.ws)],
         Told(a), \A c \in Child : Fine(a, c, raw'[c], stack', gone')
  PROVE  IInv'
<1>1. /\ writes' = a.ws /\ pool' = a.pool /\ undone' = a.undone /\ nodes' = a.graph.nodes
      /\ references' = a.graph.references /\ referencedBy' = a.graph.referencedBy
      /\ parents' = a.parents /\ query' = a.query /\ snapshot' = a.snapshot /\ flatInclude' = flatInclude
  BY DEF Becomes
<1>2. Acc' = a
  <2>1. a = [ws |-> a.ws, pool |-> a.pool, parents |-> a.parents, graph |-> a.graph,
             query |-> a.query, snapshot |-> a.snapshot, undone |-> a.undone]
    BY DEF AccType
  <2>2. a.graph = [nodes |-> a.graph.nodes, references |-> a.graph.references,
                   referencedBy |-> a.graph.referencedBy]
    BY DEF AccType, GraphType
  <2>3. QED
    BY <1>1, <2>1, <2>2 DEF Acc, Graph
<1>3. a.ws \in Seq(Write)
  BY DEF AccType
<1>4. Shape'
  BY <1>1, <1>2, <1>3 DEF Shape, Told
<1>5. ShownIsCurrent'
  <2>1. Acc'.graph = Graph' /\ Acc'.pool = pool' /\ Acc'.parents = parents'
    BY DEF Acc
  <2>2. query' = "read" => snapshot' = Tree(Graph', pool', parents')
    BY <1>1, <1>2, <2>1 DEF Told
  <2>3. QED
    BY <1>1, <2>2 DEF ShownIsCurrent, Tree
<1>6. QED
  BY <1>2, <1>4, <1>5 DEF IInv

\* The pending writes are the same as far as the child is concerned.
LEMMA FineOfPending ==
  ASSUME NEW a, NEW c, NEW r, NEW st, NEW st2, NEW gn, Fine(a, c, r, st, gn),
         Pending(a.ws, c, st) = Pending(a.ws, c, st2)
  PROVE  Fine(a, c, r, st2, gn)
<1>1. Overlay(a.ws, c, r, st) = Overlay(a.ws, c, r, st2)
  BY DEF Overlay, Pending
<1>2. QED
  BY <1>1 DEF Fine

LEMMA Undoes ==
  ASSUME Shape, \A d \in Child : Fine(Acc, d, raw[d], stack, gone), NEW t \in DOMAIN writes
  PROVE  /\ Undone(Acc, t) \in AccType /\ Undone(Acc, t).ws = writes
         /\ nodes \subseteq Undone(Acc, t).graph.nodes
         /\ Told(Acc) => Told(Undone(Acc, t))
         /\ \A d \in Child : Fine(Undone(Acc, t), d, raw[d], stack \ {t}, gone)
<1> DEFINE c == writes[t].child
           st == stack \ {t}
           b == Undone(Acc, t)
           n == Len(writes)
<1>1. /\ Acc \in AccType /\ Acc.ws = writes /\ n \in Nat /\ DOMAIN writes = 1..n
      /\ stack \subseteq 0..n /\ \A d \in Child : raw[d] \in 0..n
  BY Shaped
<1>2. c \in Child
  BY Shaped
<1>3. st \subseteq 0..n /\ raw[c] \in 0..n /\ Acc.pool[c] \in Nat
  BY <1>1, <1>2 DEF AccType
<1>4. b = Updated(Acc, c, raw[c], st, Nobody, Absent, Acc.pool[c])
  BY <1>1, AccFields DEF Undone
<1> HIDE DEF b, n
<1>5. Untouched(Acc, b, c)
  <2>1. Absent \in Nat /\ Nobody \in Key
    BY DEF Absent, Key
  <2>2. PICK r \in 0..n : r = raw[c]
    BY <1>3
  <2> HIDE DEF st, c
  <2>3. Untouched(Acc, Updated(Acc, c, r, st, Nobody, Absent, Acc.pool[c]), c)
    BY <1>1, <1>2, <1>3, <2>1, UpdatedFacts, Zenon
  <2>4. QED
    BY <1>4, <2>2, <2>3
<1>6. Fine(b, c, raw[c], st, gone)
  <2>1. PICK r \in 0..Len(Acc.ws) : r = raw[c]
    BY <1>1, <1>3 DEF n
  <2>2. Fine(Acc, c, r, stack, gone) /\ st \subseteq 0..Len(Acc.ws)
    BY <1>1, <1>2, <1>3, <2>1 DEF n
  <2> HIDE DEF st, c
  <2>3. Fine(Updated(Acc, c, r, st, Nobody, Absent, Acc.pool[c]), c, r, st, gone)
    BY <1>1, <1>2, <2>2, FineOfUndo, Zenon
  <2>4. QED
    BY <1>4, <2>1, <2>3
<1>7. ASSUME NEW d \in Child \ {c} PROVE Fine(b, d, raw[d], st, gone)
  <2>1. Fine(Acc, d, raw[d], stack, gone)
    OBVIOUS
  <2>2. Pending(Acc.ws, d, stack) = Pending(Acc.ws, d, st)
    BY <1>1 DEF Pending
  <2> HIDE DEF st
  <2>3. Fine(Acc, d, raw[d], st, gone)
    BY <2>1, <2>2, FineOfPending
  <2> HIDE DEF c
  <2>4. QED
    BY <1>5, <2>3, FineOfAnother
<1>8. b \in AccType /\ b.ws = writes /\ nodes \subseteq b.graph.nodes /\ (Told(Acc) => Told(b))
  BY <1>1, <1>5, AccFields DEF Untouched
<1>9. \A d \in Child : Fine(b, d, raw[d], st, gone)
  BY <1>6, <1>7
<1>10. QED
  BY <1>8, <1>9 DEF b

\* What a call works on, and what it leaves once it has merged m into c.
Standing(a, st) ==
  /\ a \in AccType /\ a.ws = writes /\ nodes \subseteq a.graph.nodes /\ Told(a)
  /\ \A d \in Child : Fine(a, d, raw[d], st, gone)
Took(b, c, m, st) ==
  /\ b \in AccType /\ b.ws = writes /\ nodes \subseteq b.graph.nodes /\ Told(b)
  /\ Fine(b, c, m, st, gone) /\ \A d \in Child \ {c} : Fine(b, d, raw[d], st, gone)
OneLess(c, v, st, st2) ==
  /\ \A t \in Pending(writes, c, st) \ st2 : t <= v
  /\ \A d \in Child \ {c} : Pending(writes, d, st) = Pending(writes, d, st2)

LEMMA Arrives ==
  ASSUME Shape, NEW a, NEW st \in SUBSET stack, NEW st2 \in SUBSET st,
         NEW c \in Child, NEW v \in DOMAIN writes
  PROVE  Standing(a, st) /\ OneLess(c, v, st, st2) =>
           Took(Updated(a, c, Merged(raw[c], v), st2, writes[v].key, v, a.pool[c]),
                c, Merged(raw[c], v), st2)
<1> SUFFICES ASSUME Standing(a, st), OneLess(c, v, st, st2)
             PROVE  Took(Updated(a, c, Merged(raw[c], v), st2, writes[v].key, v, a.pool[c]),
                         c, Merged(raw[c], v), st2)
  OBVIOUS
<1>0. /\ a \in AccType /\ a.ws = writes /\ nodes \subseteq a.graph.nodes /\ Told(a)
      /\ \A d \in Child : Fine(a, d, raw[d], st, gone)
      /\ \A t \in Pending(writes, c, st) \ st2 : t <= v
      /\ \A d \in Child \ {c} : Pending(writes, d, st) = Pending(writes, d, st2)
  BY DEF Standing, OneLess
<1>1. PICK n \in Nat : n = Len(writes)
  BY Shaped
<1>2. /\ DOMAIN writes = 1..n /\ stack \subseteq 0..n /\ raw[c] \in 0..n /\ v \in 1..n /\ v \in Nat
  BY <1>1, Shaped
<1>3. PICK r \in 0..n : r = raw[c]
  BY <1>2
<1>4. PICK m \in 0..n : m = Merged(r, v)
  BY <1>2 DEF Merged
<1>5. PICK k \in Key : k = writes[v].key
  BY Shaped
<1>6. PICK prev \in Nat : prev = a.pool[c]
  BY <1>0 DEF AccType
<1>7. PICK b : b = Updated(a, c, m, st2, k, v, prev)
  OBVIOUS
<1>8. st \subseteq 0..n /\ st2 \subseteq 0..n
  BY <1>2
<1>9. Untouched(a, b, c)
  <2>1. Untouched(a, Updated(a, c, m, st2, k, v, prev), c)
    BY <1>0, <1>2, <1>8, UpdatedFacts, Zenon
  <2>2. QED
    BY <1>7, <2>1
<1>10. Moved(Overlay(writes, c, r, st), Overlay(writes, c, m, st2), v)
  <2>1. Moved(Overlay(writes, c, r, st), Overlay(writes, c, Merged(r, v), st2), v)
    BY <1>0, <1>2, <1>8, OverlayOfMerge, Zenon
  <2>2. QED
    BY <1>4, <2>1
<1>11. Fine(b, c, m, st2, gone)
  <2>1. /\ r \in 0..Len(a.ws) /\ m \in 0..Len(a.ws) /\ st \subseteq 0..Len(a.ws)
        /\ st2 \subseteq 0..Len(a.ws) /\ v \in 1..Len(a.ws) /\ k = a.ws[v].key
        /\ Moved(Overlay(a.ws, c, r, st), Overlay(a.ws, c, m, st2), v)
        /\ Fine(a, c, r, st, gone)
    BY <1>0, <1>1, <1>2, <1>3, <1>5, <1>8, <1>10
  <2>2. Fine(Updated(a, c, m, st2, k, v, a.pool[c]), c, m, st2, gone)
    BY <1>0, <2>1, FineOfArrival, Zenon
  <2>3. QED
    BY <1>6, <1>7, <2>2
<1>12. ASSUME NEW d \in Child \ {c} PROVE Fine(b, d, raw[d], st2, gone)
  <2>1. Fine(a, d, raw[d], st, gone) /\ Pending(a.ws, d, st) = Pending(a.ws, d, st2)
    BY <1>0
  <2>2. Fine(a, d, raw[d], st2, gone)
    BY <2>1, FineOfPending
  <2>3. QED
    BY <1>9, <2>2, FineOfAnother
<1>13. b \in AccType /\ b.ws = writes /\ nodes \subseteq b.graph.nodes /\ Told(b)
  BY <1>0, <1>9 DEF Untouched
<1>14. m = Merged(raw[c], v) /\ b = Updated(a, c, Merged(raw[c], v), st2, writes[v].key, v, a.pool[c])
  BY <1>3, <1>4, <1>5, <1>6, <1>7
<1>15. Took(b, c, m, st2)
  BY <1>11, <1>12, <1>13 DEF Took
<1>16. QED
  BY <1>14, <1>15

-----------------------------------------------------------------------------
(* The calls, one by one.                                                  *)

LEMMA InitIInv == Init => IInv
<1> SUFFICES ASSUME Init PROVE IInv
  OBVIOUS
<1>1. /\ writes = <<>> /\ stack = {} /\ raw = [c \in Child |-> Absent] /\ pool = raw /\ parents = {}
      /\ nodes = {} /\ references = [c \in Child |-> Unlinked]
      /\ referencedBy = [k \in Key |-> {}]
      /\ query = "none" /\ snapshot = Tree(Graph, pool, parents) /\ gone = {} /\ undone = {}
  BY DEF Init
<1>2. writes \in Seq(Write) /\ Len(writes) = 0 /\ DOMAIN writes = {}
  BY <1>1
<1>3. Acc \in AccType
  <2>1. Graph \in GraphType
    BY <1>1 DEF Graph, GraphType
  <2>2. pool \in [Child -> Nat]
    BY <1>1 DEF Absent
  <2>3. parents \in SUBSET Parent /\ snapshot \in Snapshot
    BY <1>1, <2>1, <2>2, TreeType
  <2>4. QED
    BY <1>1, <1>2, <2>1, <2>2, <2>3 DEF Acc, AccType
<1>4. Shape
  <2>1. raw \in [Child -> 0..Len(writes)]
    BY <1>1, <1>2 DEF Absent
  <2>2. Len(writes) <= MaxTime
    BY <1>2, ObjectsAssumption
  <2>3. QED
    BY <1>1, <1>2, <1>3, <2>1, <2>2 DEF Shape
<1>5. ASSUME NEW c \in Child PROVE Fine(Acc, c, raw[c], stack, gone)
  <2>1. Overlay(writes, c, 0, {}) = 0
    <3>1. 0 \in 0..0 /\ {} \subseteq 0..0
      OBVIOUS
    <3>2. Overlay(writes, c, 0, {}) \in 0..0
      BY <3>1, OverlayIsGreatest
    <3>3. QED
      BY <3>2
  <2>2. /\ raw[c] = 0 /\ pool[c] = 0 /\ references[c] = Unlinked
        /\ \A k \in Key : c \notin referencedBy[k]
    BY <1>1 DEF Absent
  <2>3. Parent \subseteq Key /\ Unlinked \notin Parent
    BY ObjectsAssumption DEF Key
  <2>4. QED
    BY <1>1, <1>2, <2>1, <2>2, <2>3, AccFields DEF Fine, Absent
<1>6. ShownIsCurrent
  BY <1>1 DEF ShownIsCurrent
<1>7. QED
  BY <1>4, <1>5, <1>6 DEF IInv

\* A write more: nobody has merged it.
LEMMA WrittenFacts ==
  ASSUME Shape, \A d \in Child : Fine(Acc, d, raw[d], stack, gone), NEW c \in Child, NEW k \in Key,
         NEW a, a = [Acc EXCEPT !.ws = Written(c, k)]
  PROVE  LET n == Len(writes)
         IN  /\ a \in AccType /\ Len(a.ws) = n + 1 /\ DOMAIN a.ws = 1..(n + 1)
             /\ a.ws = Written(c, k) /\ a.pool = Acc.pool /\ a.graph = Acc.graph
             /\ \A t \in 1..n : a.ws[t] = writes[t]
             /\ a.ws[n + 1].child = c /\ a.ws[n + 1].key = k
             /\ a.parents = parents /\ a.query = query /\ a.snapshot = snapshot
             /\ \A d \in Child : Fine(a, d, raw[d], stack, gone)
<1> DEFINE n == Len(writes)
           ws == Written(c, k)
<1>1. /\ Acc \in AccType /\ n \in Nat /\ DOMAIN writes = 1..n /\ stack \subseteq 1..n
      /\ \A d \in Child : raw[d] \in 0..n
  BY Shaped
<1>2. /\ ws \in Seq(Write) /\ Len(ws) = n + 1 /\ \A t \in 1..n : ws[t] = writes[t]
      /\ ws[n + 1] = [child |-> c, key |-> k]
  BY <1>1 DEF Shape, Written, Write
<1>3. DOMAIN ws = 1..(n + 1)
  BY <1>2, LenProperties
<1> HIDE DEF ws, n
<1>4. /\ a \in AccType /\ a.ws = ws /\ a.pool = pool /\ a.graph = Acc.graph /\ a.undone = undone
      /\ a.parents = parents /\ a.query = query /\ a.snapshot = snapshot
  BY <1>1, <1>2, AccFields DEF AccType, ws
<1>5. ASSUME NEW d \in Child PROVE Fine(a, d, raw[d], stack, gone)
  <2>1. {raw[d]} \cup {t \in stack : ws[t].child = d} = {raw[d]} \cup {t \in stack : writes[t].child = d}
    BY <1>1, <1>2
  <2>2. Overlay(ws, d, raw[d], stack) = Overlay(writes, d, raw[d], stack)
    BY <2>1 DEF Overlay
  <2>3. Fine(Acc, d, raw[d], stack, gone)
    OBVIOUS
  <2>4. pool[d] \in Nat /\ pool[d] <= n
    BY <1>1, <2>3, AccFields DEF Fine, AccType, n
  <2>5. pool[d] # Absent => ws[pool[d]] = writes[pool[d]]
    BY <1>1, <1>2, <2>4 DEF Absent
  <2>6. QED
    BY <1>1, <1>2, <1>4, <2>2, <2>3, <2>4, <2>5, AccFields DEF Fine, n
<1>6. QED
  BY <1>2, <1>3, <1>4, <1>5 DEF n, ws

LEMMA ForeignWriteIInv ==
  ASSUME IInv, NEW c \in Child, NEW k \in Key, ForeignWrite(c, k)
  PROVE  IInv'
<1>1. PICK a : a = [Acc EXCEPT !.ws = Written(c, k)]
  OBVIOUS
<1>2. /\ a \in AccType /\ Len(a.ws) = Len(writes) + 1 /\ DOMAIN a.ws = 1..(Len(writes) + 1)
      /\ a.ws = Written(c, k) /\ \A d \in Child : Fine(a, d, raw[d], stack, gone)
  BY <1>1, WrittenFacts DEF IInv
<1>3. /\ Len(writes) < MaxTime /\ writes' = a.ws
      /\ UNCHANGED <<stack, raw, pool, parents, nodes, references, referencedBy, gone, undone>>
      /\ UNCHANGED <<query, snapshot, flatInclude>>
  BY <1>2 DEF ForeignWrite, graph, shown, history
<1>4. Acc' = a
  <2>1. Acc' = [Acc EXCEPT !.ws = writes']
    BY <1>3 DEF Acc, Graph
  <2>2. QED
    BY <1>1, <1>2, <1>3, <2>1
<1>5. Shape'
  <2>1. /\ Len(writes) \in Nat /\ stack \subseteq 1..Len(writes) /\ raw \in [Child -> 0..Len(writes)]
        /\ parents \subseteq nodes
    BY Shaped DEF IInv, Shape
  <2>2. Len(a.ws) <= MaxTime
    BY <1>2, <1>3, <2>1, ObjectsAssumption
  <2>3. raw \in [Child -> 0..Len(a.ws)] /\ stack \subseteq DOMAIN a.ws
    BY <1>2, <2>1
  <2>4. a.ws \in Seq(Write)
    BY <1>2 DEF AccType
  <2>5. QED
    BY <1>2, <1>3, <1>4, <2>1, <2>2, <2>3, <2>4 DEF Shape
<1>6. ShownIsCurrent'
  BY <1>3 DEF IInv, ShownIsCurrent, Tree, Graph
<1>7. \A d \in Child : Fine(Acc', d, raw'[d], stack', gone')
  BY <1>2, <1>3, <1>4
<1>8. QED
  BY <1>5, <1>6, <1>7 DEF IInv

LEMMA MutateIInv ==
  ASSUME IInv, NEW c \in Child, NEW k \in Key, Mutate(c, k)
  PROVE  IInv'
<1>1. PICK a : a = [Acc EXCEPT !.ws = Written(c, k)]
  OBVIOUS
<1>2. PICK n \in Nat : n = Len(writes)
  BY Shaped DEF IInv
<1>3. PICK t \in 1..(n + 1) : t = n + 1
  BY <1>2
<1>4. /\ a \in AccType /\ Len(a.ws) = n + 1 /\ DOMAIN a.ws = 1..(n + 1)
      /\ a.graph = Acc.graph
      /\ a.ws[t].child = c /\ a.ws[t].key = k /\ Told(a)
      /\ \A d \in Child : Fine(a, d, raw[d], stack, gone)
  <2>1. Shape /\ \A d \in Child : Fine(Acc, d, raw[d], stack, gone)
    BY DEF IInv
  <2>2. /\ a \in AccType /\ Len(a.ws) = Len(writes) + 1 /\ DOMAIN a.ws = 1..(Len(writes) + 1)
        /\ a.graph = Acc.graph /\ a.pool = Acc.pool
        /\ a.parents = parents /\ a.query = query /\ a.snapshot = snapshot
        /\ a.ws[Len(writes) + 1].child = c /\ a.ws[Len(writes) + 1].key = k
        /\ \A d \in Child : Fine(a, d, raw[d], stack, gone)
    <3>1. /\ a \in AccType /\ Len(a.ws) = Len(writes) + 1 /\ DOMAIN a.ws = 1..(Len(writes) + 1)
          /\ a.ws[Len(writes) + 1].child = c /\ a.ws[Len(writes) + 1].key = k
          /\ \A d \in Child : Fine(a, d, raw[d], stack, gone)
      BY <1>1, <2>1, WrittenFacts
    <3>2. /\ a.graph = Acc.graph /\ a.pool = Acc.pool /\ a.parents = Acc.parents
          /\ a.query = Acc.query /\ a.snapshot = Acc.snapshot
      BY <1>1 DEF Acc
    <3>3. Acc.parents = parents /\ Acc.query = query /\ Acc.snapshot = snapshot
      BY DEF Acc
    <3>4. QED
      BY <3>1, <3>2, <3>3
  <2>3. Told(a)
    BY <2>2, AccIsTold, AccFields DEF Told
  <2>4. QED
    BY <1>2, <1>3, <2>2, <2>3
<1>5. PICK st : st = stack \cup {t}
  OBVIOUS
<1>6. PICK b : b = Updated(a, c, raw[c], st, k, t, a.pool[c])
  OBVIOUS
<1>7. /\ n < MaxTime /\ stack' = st /\ UNCHANGED <<raw, gone>> /\ Becomes(b)
  <2>1. a.pool[c] = pool[c]
    BY <1>1, AccFields DEF Acc
  <2>2. QED
    BY <1>1, <1>2, <1>3, <1>5, <1>6, <2>1 DEF Mutate
<1>8. /\ stack \subseteq 1..n /\ stack \subseteq 0..(n + 1) /\ st \subseteq 0..(n + 1) /\ n + 1 \in Nat /\ t \in Nat
      /\ \A d \in Child : raw[d] \in 0..(n + 1)
  BY <1>2, <1>3, <1>5, Shaped DEF IInv
<1>9. PICK r \in 0..(n + 1) : r = raw[c]
  BY <1>8
<1>10. PICK prev \in Nat : prev = a.pool[c]
  BY <1>4 DEF AccType
<1>11. Untouched(a, b, c)
  <2>1. Untouched(a, Updated(a, c, r, st, k, t, prev), c)
    BY <1>4, <1>8, UpdatedFacts, Zenon
  <2>2. QED
    BY <1>6, <1>9, <1>10, <2>1
<1>12. Moved(Overlay(a.ws, c, r, stack), Overlay(a.ws, c, r, st), t)
  <2>1. Pending(a.ws, c, st) = Pending(a.ws, c, stack) \cup {t}
    BY <1>4, <1>5 DEF Pending
  <2>2. PICK o : o = Overlay(a.ws, c, r, stack)
    OBVIOUS
  <2>3. PICK y : y = Overlay(a.ws, c, r, st)
    OBVIOUS
  <2>4. /\ o \in {r} \cup Pending(a.ws, c, stack) /\ o \in 0..(n + 1)
        /\ \A u \in {r} \cup Pending(a.ws, c, stack) : u <= o
    BY <1>8, <2>2, OverlayIsGreatest
  <2>5. /\ y \in {r} \cup Pending(a.ws, c, st) /\ y \in 0..(n + 1)
        /\ \A u \in {r} \cup Pending(a.ws, c, st) : u <= y
    BY <1>8, <2>3, OverlayIsGreatest
  <2>6. o <= y /\ t <= y /\ (y <= o \/ y = t)
    BY <2>1, <2>4, <2>5
  <2>7. y = Merged(o, t)
    BY <1>3, <2>4, <2>5, <2>6 DEF Merged
  <2>8. QED
    BY <2>2, <2>3, <2>7 DEF Moved
<1>13. Fine(b, c, r, st, gone)
  <2>1. /\ r \in 0..Len(a.ws) /\ stack \subseteq 0..Len(a.ws) /\ st \subseteq 0..Len(a.ws)
        /\ t \in 1..Len(a.ws) /\ k = a.ws[t].key /\ Fine(a, c, r, stack, gone)
    BY <1>4, <1>8, <1>9
  <2>2. Fine(Updated(a, c, r, st, k, t, a.pool[c]), c, r, st, gone)
    BY <1>4, <1>12, <2>1, FineOfArrival, Zenon
  <2>3. QED
    BY <1>6, <1>9, <2>2
<1>14. ASSUME NEW d \in Child \ {c} PROVE Fine(b, d, raw[d], st, gone)
  <2>1. Fine(a, d, raw[d], stack, gone)
    BY <1>4
  <2>2. Pending(a.ws, d, stack) = Pending(a.ws, d, st)
    BY <1>4, <1>5 DEF Pending
  <2>3. Fine(a, d, raw[d], st, gone)
    BY <2>1, <2>2, FineOfPending
  <2>4. QED
    BY <1>11, <2>3, FineOfAnother
<1>15. \A d \in Child : Fine(b, d, raw'[d], stack', gone')
  BY <1>7, <1>9, <1>13, <1>14
<1>16. b \in AccType /\ b.ws = a.ws /\ a.graph.nodes \subseteq b.graph.nodes
  BY <1>11 DEF Untouched
<1>17. Len(b.ws) <= MaxTime /\ stack' \subseteq DOMAIN b.ws /\ raw' \in [Child -> 0..Len(b.ws)]
  <2>1. n + 1 <= MaxTime
    BY <1>7, ObjectsAssumption
  <2>2. st \subseteq 1..(n + 1)
    BY <1>5, <1>8
  <2>3. raw \in [Child -> 0..(n + 1)]
    BY <1>8 DEF IInv, Shape
  <2>4. QED
    BY <1>4, <1>7, <1>16, <2>1, <2>2, <2>3
<1>18. Told(b)
  BY <1>4, <1>11 DEF Untouched
<1>19. QED
  BY <1>7, <1>15, <1>16, <1>17, <1>18, Became

LEMMA SettleIInv ==
  ASSUME IInv, NEW t \in stack, Settle(t)
  PROVE  IInv'
<1>1. Shape /\ \A d \in Child : Fine(Acc, d, raw[d], stack, gone)
  BY DEF IInv
<1>2. t \in DOMAIN writes
  BY <1>1 DEF Shape
<1>3. PICK b : b = Undone(Acc, t)
  OBVIOUS
<1>4. /\ b \in AccType /\ b.ws = writes /\ nodes \subseteq b.graph.nodes /\ Told(b)
      /\ \A d \in Child : Fine(b, d, raw[d], stack \ {t}, gone)
  BY <1>1, <1>2, <1>3, Undoes, AccIsTold
<1>5. stack' = stack \ {t} /\ UNCHANGED <<raw, gone>> /\ Becomes(b)
  BY <1>3 DEF Settle
<1>6. Len(b.ws) <= MaxTime /\ stack' \subseteq DOMAIN b.ws /\ raw' \in [Child -> 0..Len(b.ws)]
  BY <1>1, <1>4, <1>5 DEF Shape
<1>7. \A d \in Child : Fine(b, d, raw'[d], stack', gone')
  BY <1>4, <1>5
<1>8. QED
  BY <1>4, <1>5, <1>6, <1>7, Became

LEMMA DeltaIInv ==
  ASSUME IInv, NEW t \in DOMAIN writes, NEW v \in DOMAIN writes, NEW custom \in BOOLEAN,
         Delta(t, v, custom)
  PROVE  IInv'
<1> DEFINE c == writes[t].child
<1>1. Shape /\ \A d \in Child : Fine(Acc, d, raw[d], stack, gone)
  BY DEF IInv
<1>2. PICK a : a = IF custom THEN Undone(Acc, t) ELSE Acc
  OBVIOUS
<1>3. PICK b : b = Updated(a, c, Merged(raw[c], v), stack \ {t}, writes[v].key, v, a.pool[c])
  OBVIOUS
<1>4. c \in Child
  BY <1>1, Shaped
<1>5. /\ writes[v].child = c /\ v >= t /\ stack' = stack \ {t}
      /\ raw' = [raw EXCEPT ![c] = Merged(@, v)]
      /\ UNCHANGED <<drops, gone>>
      /\ Becomes(Updated(IF custom THEN Undone(Acc, t) ELSE Acc, c, raw'[c], stack', writes[v].key, v,
                         (IF custom THEN Undone(Acc, t) ELSE Acc).pool[c]))
  BY Zenon DEF Delta
<1>6. raw \in [Child -> 0..Len(writes)] /\ raw'[c] = Merged(raw[c], v)
      /\ \A d \in Child \ {c} : raw'[d] = raw[d]
  BY <1>1, <1>4, <1>5 DEF Shape
<1>7. Becomes(b)
  BY <1>2, <1>3, <1>5, <1>6
<1>8. PICK st : st = IF custom THEN stack \ {t} ELSE stack
  OBVIOUS
<1>9. /\ a \in AccType /\ a.ws = writes /\ nodes \subseteq a.graph.nodes /\ Told(a)
      /\ st \subseteq stack /\ stack \ {t} \in SUBSET st
      /\ \A d \in Child : Fine(a, d, raw[d], st, gone)
  <2>1. CASE custom
    <3>1. a = Undone(Acc, t) /\ st = stack \ {t}
      BY <1>2, <1>8, <2>1
    <3>2. QED
      BY <1>1, <3>1, Undoes, AccIsTold
  <2>2. CASE ~custom
    <3>1. a = Acc /\ st = stack
      BY <1>2, <1>8, <2>2
    <3>2. QED
      BY <1>1, <3>1, Shaped, AccFields, AccIsTold
  <2>3. QED
    BY <2>1, <2>2
<1>10. \A q \in Pending(writes, c, st) \ (stack \ {t}) : q <= v
  <2>1. ASSUME NEW q \in Pending(writes, c, st) \ (stack \ {t}) PROVE q <= v
    <3>1. q = t
      BY <1>9 DEF Pending
    <3>2. t \in Nat /\ v \in Nat
      BY <1>1, Shaped
    <3>3. QED
      BY <1>5, <3>1, <3>2
  <2>2. QED
    BY <2>1
<1>11. \A d \in Child \ {c} : Pending(writes, d, st) = Pending(writes, d, stack \ {t})
  BY <1>8 DEF Pending
<1>12. PICK left : left = stack \ {t}
  OBVIOUS
<1>13. /\ b \in AccType /\ b.ws = writes /\ nodes \subseteq b.graph.nodes /\ Told(b)
       /\ Fine(b, c, Merged(raw[c], v), left, gone)
       /\ \A d \in Child \ {c} : Fine(b, d, raw[d], left, gone)
  <2>1. PICK x \in Child : x = c
    BY <1>4
  <2>2. b = Updated(a, x, Merged(raw[x], v), left, writes[v].key, v, a.pool[x])
    BY <1>3, <1>12, <2>1
  <2>3. Standing(a, st) /\ OneLess(x, v, st, left) /\ st \in SUBSET stack /\ left \in SUBSET st
    BY <1>9, <1>10, <1>11, <1>12, <2>1 DEF Standing, OneLess
  <2>4. Took(Updated(a, x, Merged(raw[x], v), left, writes[v].key, v, a.pool[x]),
             x, Merged(raw[x], v), left)
    BY <1>1, <2>3, Arrives
  <2>5. Took(b, c, Merged(raw[c], v), left)
    BY <2>1, <2>2, <2>4
  <2> HIDE DEF c
  <2>6. QED
    BY <2>5 DEF Took
<1> HIDE DEF c
<1>14. \A d \in Child : Fine(b, d, raw'[d], stack', gone')
  BY <1>5, <1>6, <1>12, <1>13
<1>15. raw' \in [Child -> 0..Len(b.ws)]
  <2>1. PICK n \in Nat : n = Len(writes)
    BY <1>1, Shaped
  <2>2. raw[c] \in 0..n /\ v \in 0..n
    BY <1>1, <1>4, <2>1, Shaped
  <2>3. Merged(raw[c], v) \in 0..n
    BY <2>2 DEF Merged
  <2>4. raw' = [raw EXCEPT ![c] = Merged(raw[c], v)]
    BY <1>5
  <2>5. QED
    BY <1>6, <1>13, <2>1, <2>3, <2>4
<1>16. Len(b.ws) <= MaxTime /\ stack' \subseteq DOMAIN b.ws
  BY <1>1, <1>5, <1>13 DEF Shape
<1>17. QED
  BY <1>7, <1>13, <1>14, <1>15, <1>16, Became

LEMMA DropIInv ==
  ASSUME IInv, NEW id \in Parent \cup Child, Drop(id)
  PROVE  IInv'
<1> DEFINE pl == [c \in Child |-> IF c = id THEN Absent ELSE pool[c]]
           un == undone \cup {c \in {id} \cap Child : \E t \in stack : writes[t].child = c}
           g == WithoutNode(Acc.graph, id)
<1>1. Shape /\ \A d \in Child : Fine(Acc, d, raw[d], stack, gone)
  BY DEF IInv
<1>2. /\ Acc \in AccType /\ Acc.ws = writes /\ Len(writes) \in Nat /\ DOMAIN writes = 1..Len(writes)
      /\ stack \subseteq 0..Len(writes)
  BY <1>1, Shaped
<1>3. PICK a : a = [Acc EXCEPT !.pool = pl, !.parents = parents \ {id}, !.graph = g, !.undone = un]
  OBVIOUS
<1>b. PICK b : b = Notified(a, IF id \in Parent THEN "parent" ELSE "child")
  OBVIOUS
<1>4. /\ gone' = gone \cup {id}
      /\ raw' = [c \in Child |-> IF c = id THEN Absent ELSE raw[c]]
      /\ stack' = stack
      /\ Becomes(b)
  <2>1. a = [Acc EXCEPT !.pool = [c \in Child |-> IF c = id THEN Absent ELSE @[c]],
                        !.parents = @ \ {id}, !.graph = WithoutNode(@, id),
                        !.undone = @ \cup {c \in {id} \cap Child : \E t \in stack : writes[t].child = c}]
    BY <1>3 DEF Acc
  <2>2. Becomes(Notified(a, IF id \in Parent THEN "parent" ELSE "child"))
    BY <2>1, Zenon DEF Drop
  <2>3. QED
    BY <1>b, <2>2 DEF Drop
<1>5. /\ g \in GraphType /\ g.nodes = nodes \ {id}
      /\ \A c \in Child : g.references[c] = IF c = id THEN Unlinked ELSE references[c]
      /\ \A k \in Key : g.referencedBy[k] = IF k = id THEN {} ELSE referencedBy[k]
  <2>1. /\ nodes \subseteq Node /\ references \in [Child -> Key \cup {Unlinked}]
        /\ referencedBy \in [Key -> SUBSET Child]
    BY <1>2, AccFields DEF AccType, GraphType
  <2>2. g = [nodes |-> nodes \ {id},
             references |-> [c \in Child |-> IF c = id THEN Unlinked ELSE references[c]],
             referencedBy |-> [k \in Key |-> IF k = id THEN {} ELSE referencedBy[k]]]
    BY AccFields DEF WithoutNode
  <2> HIDE DEF g
  <2>3. QED
    BY <2>1, <2>2 DEF GraphType
<1>6. pl \in [Child -> Nat] /\ un \subseteq Child
  BY <1>2, AccFields DEF AccType, Absent
<1>7. \A c \in Child : pl[c] = IF c = id THEN Absent ELSE pool[c]
  OBVIOUS
<1>8. \A c \in Child : c \in un <=> c \in undone \/ (c = id /\ \E t \in stack : writes[t].child = c)
  OBVIOUS
<1> HIDE DEF pl, un, g
<1>a. /\ a \in AccType /\ a.ws = writes /\ a.pool = pl /\ a.graph = g /\ a.undone = un
      /\ a.parents = parents \ {id} /\ a.query = query /\ a.snapshot = snapshot
  <2>1. parents \ {id} \in SUBSET Parent
    BY <1>2, AccFields DEF AccType
  <2>2. QED
    BY <1>2, <1>3, <1>5, <1>6, <2>1, AccFields DEF AccType
<1>c. PICK name \in {"parent", "child"} : name = IF id \in Parent THEN "parent" ELSE "child"
  OBVIOUS
<1>d. /\ b \in AccType /\ b.ws = a.ws /\ b.pool = a.pool /\ b.parents = a.parents
      /\ b.graph = a.graph /\ b.undone = a.undone
      /\ IF query = "none" \/ ~Concerned(name)
         THEN b.query = a.query /\ b.snapshot = a.snapshot
         ELSE b.query = "read" /\ b.snapshot = Tree(a.graph, a.pool, a.parents)
  BY <1>a, <1>b, <1>c, NotifiedFacts, Zenon
<1>9. b \in AccType /\ b.ws = writes /\ b.pool = pl /\ b.graph = g /\ b.undone = un
  BY <1>a, <1>d
<1>t. Told(b)
  <2>0. Told(Acc)
    BY AccIsTold
  <2>1. b.parents \subseteq b.graph.nodes
    BY <1>5, <1>a, <1>d, <2>0, AccFields DEF Told
  <2>2. \A c \in Child : b.pool[c] # Absent => c \in b.graph.nodes
    BY <1>5, <1>7, <1>9, <2>0, AccFields DEF Told
  <2>3. query = "none" => b.query # "read"
    BY <1>a, <1>d
  <2>4. b.query = "read" => b.snapshot = Tree(b.graph, b.pool, b.parents)
    <3>1. CASE query = "none" \/ Concerned(name)
      BY <1>d, <2>3, <3>1
    <3>2. CASE query # "none" /\ ~Concerned(name)
      <4>1. name = "child" /\ "child" \notin flatInclude /\ id \notin Parent
        BY <1>c, <3>2 DEF Concerned
      <4>2. b.parents = parents /\ parents \subseteq Acc.graph.nodes
        BY <1>2, <1>a, <1>d, <2>0, <4>1, AccFields DEF AccType, Told
      <4>3. Tree(Acc.graph, Acc.pool, parents) = Tree(b.graph, b.pool, parents)
        <5>1. parents \cap Acc.graph.nodes = parents /\ parents \cap b.graph.nodes = parents
          BY <2>1, <4>2
        <5>2. Tree(Acc.graph, Acc.pool, parents) = [p \in parents |-> {}]
          BY <4>1, <5>1 DEF Tree
        <5>3. Tree(b.graph, b.pool, parents) = [p \in parents |-> {}]
          BY <4>1, <5>1 DEF Tree
        <5>4. QED
          BY <5>2, <5>3, Zenon
      <4>4. QED
        BY <1>a, <1>d, <2>0, <3>2, <4>2, <4>3, AccFields DEF Told
    <3>3. QED
      BY <3>1, <3>2
  <2>5. QED
    BY <2>1, <2>2, <2>3, <2>4 DEF Told
<1>10. ASSUME NEW c \in Child PROVE Fine(b, c, raw'[c], stack', gone')
  <2>1. Fine(Acc, c, raw[c], stack, gone)
    BY <1>1
  <2>2. Parent \subseteq Key /\ Unlinked \notin Parent /\ c \notin Key
    BY ObjectsAssumption DEF Key
  <2>3. CASE c = id
    <3>1. /\ b.pool[c] = 0 /\ b.graph.references[c] = Unlinked /\ raw'[c] = 0 /\ c \in gone'
          /\ \A k \in Key : c \in b.graph.referencedBy[k] <=> c \in referencedBy[k]
      BY <1>4, <1>5, <1>7, <1>9, <2>2, <2>3 DEF Absent
    <3>2. c \notin b.undone => Overlay(writes, c, 0, stack) = 0
      <4>1. SUFFICES ASSUME c \notin b.undone PROVE Overlay(writes, c, 0, stack) = 0
        OBVIOUS
      <4>2. Pending(writes, c, stack) = {}
        BY <1>8, <1>9, <2>3, <4>1 DEF Pending
      <4>3. 0 \in 0..Len(writes)
        BY <1>2
      <4>4. Overlay(writes, c, 0, stack) \in {0} \cup Pending(writes, c, stack)
        BY <1>2, <4>3, OverlayIsGreatest
      <4>5. QED
        BY <4>2, <4>4
    <3>3. \A k \in Key : c \in b.graph.referencedBy[k] => k \in b.graph.nodes
      BY <1>5, <1>9, <2>1, <2>2, <2>3, <3>1, AccFields DEF Fine
    <3>4. QED
      BY <1>2, <1>4, <1>9, <2>2, <3>1, <3>2, <3>3 DEF Fine, Absent
  <2>4. CASE c # id
    <3>1. /\ b.pool[c] = pool[c] /\ b.graph.references[c] = references[c] /\ raw'[c] = raw[c]
          /\ c \in gone' <=> c \in gone
          /\ c \in b.undone <=> c \in undone
          /\ c \in b.graph.nodes <=> c \in nodes
      BY <1>4, <1>5, <1>7, <1>8, <1>9, <2>4
    <3>2. \A k \in Key : c \in b.graph.referencedBy[k] => c \in referencedBy[k] /\ k # id
      BY <1>5, <1>9
    <3>3. \A k \in Key : c \in b.graph.referencedBy[k] => k \in b.graph.nodes
      BY <1>5, <1>9, <2>1, <3>2, AccFields DEF Fine
    <3>4. \A p \in Parent \ gone' : c \in b.graph.referencedBy[p] <=> c \in referencedBy[p]
      BY <1>4, <1>5, <1>9, <2>2
    <3>5. \A p \in Parent \ gone' : p \notin gone
      BY <1>4
    <3>6. QED
      BY <1>2, <1>4, <1>9, <2>1, <2>2, <3>1, <3>3, <3>4, <3>5, AccFields DEF Fine
  <2>5. QED
    BY <2>3, <2>4
<1>11. raw' \in [Child -> 0..Len(b.ws)]
  <2>1. \A c \in Child : raw[c] \in 0..Len(writes)
    BY <1>1, Shaped
  <2>2. QED
    BY <1>2, <1>4, <1>9, <2>1 DEF Absent
<1>12. Len(b.ws) <= MaxTime /\ stack' \subseteq DOMAIN b.ws
  BY <1>1, <1>4, <1>9 DEF Shape
<1>13. QED
  BY <1>4, <1>9, <1>t, <1>10, <1>11, <1>12, Became

LEMMA SeqOfSet ==
  ASSUME NEW S, IsFiniteSet(S)
  PROVE  \E n \in Nat : /\ SetToSeq(S) \in [1..n -> S]
                        /\ \A i, j \in 1..n : i # j => SetToSeq(S)[i] # SetToSeq(S)[j]
                        /\ \A x \in S : \E i \in 1..n : SetToSeq(S)[i] = x
<1> DEFINE n == Cardinality(S)
           s == SetToSeq(S)
<1>1. n \in Nat /\ ExistsBijection(1..n, S)
  BY FS_CardinalityType
<1>2. \E f \in [1..n -> S] : IsInjective(f)
  BY <1>1 DEF ExistsBijection, Bijection, Injection
<1>3. s = CHOOSE f \in [1..n -> S] : IsInjective(f)
  BY DEF SetToSeq
<1> HIDE DEF s
<1>4. s \in [1..n -> S] /\ IsInjective(s)
  BY <1>2, <1>3
<1>5. s \in Injection(1..n, S)
  BY <1>4 DEF Injection
<1>6. Cardinality(1..n) = n
  BY <1>1, FS_Interval
<1>7. s \in Surjection(1..n, S)
  <2>1. Cardinality(1..n) = Cardinality(S)
    BY <1>6
  <2> HIDE DEF n
  <2>2. QED
    BY <1>5, <2>1, FS_Injection
<1>8. \A i, j \in 1..n : i # j => s[i] # s[j]
  BY <1>4 DEF IsInjective
<1>9. \A x \in S : \E i \in 1..n : s[i] = x
  BY <1>7 DEF Surjection
<1> HIDE DEF n
<1>10. QED
  BY <1>1, <1>4, <1>8, <1>9 DEF s

LEMMA LoadIInv ==
  ASSUME IInv, NEW p \in Parent, NEW last \in [Child -> 0..Len(writes)],
         \A c \in Child : last[c] # Absent => writes[last[c]].child = c,
         Load(p, last)
  PROVE  IInv'
<1> DEFINE below == {c \in Child : last[c] # Absent /\ writes[last[c]].key = p}
           take(b, c) == Updated(b, c, raw'[c], stack, p, last[c], b.pool[c])
           a == FoldLeft(take, Acc, SetToSeq(below))
<1>0. Shape /\ (\A d \in Child : Fine(Acc, d, raw[d], stack, gone))
      /\ Acc \in AccType /\ Acc.ws = writes /\ stack \subseteq 0..Len(writes)
      /\ (\A d \in Child : raw[d] \in 0..Len(writes)) /\ p \in Key
  BY Shaped DEF IInv, Key
<1>n. PICK l \in Nat : l = Len(writes) /\ DOMAIN writes = 1..l
  BY <1>0, Shaped
<1>1. /\ raw' = [c \in Child |-> IF c \in below THEN Merged(raw[c], last[c]) ELSE raw[c]]
      /\ Becomes(Notified([a EXCEPT !.graph = WithNode(@, p), !.parents = @ \cup {p}], "parent"))
      /\ UNCHANGED <<stack, drops, gone>>
  BY Zenon DEF Load
<1>2. \A c \in below : c \in Child /\ last[c] \in 1..l /\ writes[last[c]].child = c /\ writes[last[c]].key = p
  BY <1>n DEF Absent
<1>3. IsFiniteSet(below)
  <2> DEFINE f == [c \in below |-> last[c]]
  <2>1. f \in [below -> 1..l] /\ IsInjective(f)
    BY <1>2 DEF IsInjective
  <2>2. f \in Injection(below, 1..l)
    BY <2>1 DEF Injection
  <2>3. IsFiniteSet(1..l)
    BY FS_Interval
  <2> HIDE DEF f, below
  <2>4. QED
    BY <2>2, <2>3, FS_Injection
<1>4. PICK s : s = SetToSeq(below)
  OBVIOUS
<1>5. PICK n \in Nat : /\ s \in [1..n -> below]
                       /\ \A i, j \in 1..n : i # j => s[i] # s[j]
                       /\ \A x \in below : \E i \in 1..n : s[i] = x
  <2> HIDE DEF below
  <2>1. QED
    BY <1>3, <1>4, SeqOfSet
<1>6. a = FoldLeft(take, Acc, s)
  BY <1>4
<1>7. FoldLeft(take, Acc, s) =
        (CHOOSE f : f = [T \in SUBSET (DOMAIN s) |->
           IF T = {} THEN Acc ELSE take(f[T \ {Max(T)}], s[Max(T)])])[DOMAIN s]
  BY DEF FoldLeft, MapThenFoldSet
<1>8. DOMAIN s = 1..n /\ s \in [1..n -> Child]
  BY <1>2, <1>5
<1>9. raw' \in [Child -> 0..l] /\ \A c \in Child : raw'[c] = IF c \in below THEN Merged(raw[c], last[c]) ELSE raw[c]
  <2>1. \A c \in Child : (IF c \in below THEN Merged(raw[c], last[c]) ELSE raw[c]) \in 0..l
    BY <1>0, <1>2, <1>n DEF Merged
  <2> HIDE DEF below
  <2>2. QED
    BY <1>1, <2>1
<1>10. PICK r2 \in [Child -> 0..l] : r2 = raw'
  BY <1>9
<1> DEFINE step(b, c) == Updated(b, c, r2[c], stack, p, last[c], b.pool[c])
<1>11. \A b, c : take(b, c) = step(b, c)
  BY <1>10
<1> HIDE DEF below, a, take
<1>12. ASSUME NEW b \in AccType, NEW c \in below PROVE step(b, c) \in AccType
  <2>1. c \in Child /\ r2[c] \in 0..l /\ last[c] \in Nat /\ b.pool[c] \in Nat /\ stack \subseteq 0..l
    BY <1>0, <1>2, <1>n DEF AccType
  <2>2. PICK y \in 0..l : y = r2[c]
    BY <2>1
  <2>3. Untouched(b, Updated(b, c, y, stack, p, last[c], b.pool[c]), c)
    BY <1>0, <2>1, UpdatedFacts, Zenon
  <2>4. QED
    BY <2>2, <2>3 DEF Untouched
<1> DEFINE h == [i \in 1..n |-> [b \in AccType |-> step(b, s[i])]]
           Q(f) == f = [T \in SUBSET (1..n) |-> IF T = {} THEN Acc ELSE take(f[T \ {Max(T)}], s[Max(T)])]
<1>13. h \in [1..n -> [AccType -> AccType]]
       /\ \A i \in 1..n : \A b \in AccType : h[i][b] = take(b, s[i])
  <2> HIDE DEF step
  <2>1. \A i \in 1..n : s[i] \in below
    BY <1>5
  <2>2. QED
    BY <1>11, <1>12, <2>1
<1> HIDE DEF h, step
<1>14. \E f : Q(f)
  <2>0. PICK f \in [SUBSET (1..n) -> AccType] : IsFold(f, Acc, h, n)
    BY <1>0, <1>13, FoldDefined
  <2>1. \A T \in SUBSET (1..n) : f[T] = IF T = {} THEN Acc ELSE h[Max(T)][f[T \ {Max(T)}]]
    BY <2>0 DEF IsFold
  <2> DEFINE e == [T \in SUBSET (1..n) |-> IF T = {} THEN Acc ELSE take(f[T \ {Max(T)}], s[Max(T)])]
  <2>2. ASSUME NEW T \in SUBSET (1..n) PROVE f[T] = e[T]
    <3>1. CASE T = {}
      BY <2>1, <3>1
    <3>2. CASE T # {}
      <4>1. Max(T) \in 1..n /\ f[T \ {Max(T)}] \in AccType
        BY <3>2, MaxOfSome
      <4>2. f[T] = take(f[T \ {Max(T)}], s[Max(T)])
        BY <1>13, <2>1, <3>2, <4>1
      <4>3. QED
        BY <3>2, <4>2
    <3>3. QED
      BY <3>1, <3>2
  <2>3. f = e
    <3> HIDE DEF e
    <3>1. e = [T \in SUBSET (1..n) |-> e[T]]
      BY DEF e
    <3>2. QED
      BY <2>2, <3>1
  <2>4. QED
    BY <2>3
<1>15. PICK g : Q(g) /\ a = g[1..n]
  <2>1. a = (CHOOSE f : Q(f))[1..n]
    BY <1>6, <1>7, <1>8
  <2> DEFINE g == CHOOSE f : Q(f)
  <2>2. Q(g)
    BY <1>14
  <2>3. QED
    BY <2>1, <2>2
<1>16. PICK x : x = [i \in 0..n |-> g[1..i]]
  OBVIOUS
<1>17. x[0] = Acc
  <2>1. 1..0 = {} /\ {} \in SUBSET (1..n) /\ 0 \in 0..n
    OBVIOUS
  <2>2. g[{}] = Acc
    BY <1>15, <2>1
  <2>3. QED
    BY <1>16, <2>1, <2>2
<1>18. ASSUME NEW i \in 1..n
       PROVE  x[i] = Updated(x[i - 1], s[i], r2[s[i]], stack, p, last[s[i]], x[i - 1].pool[s[i]])
  <2>1. 1..i \in SUBSET (1..n) /\ 1..i # {} /\ Max(1..i) = i /\ (1..i) \ {i} = 1..(i - 1)
    BY FoldOfPrefix
  <2>2. g[1..i] = take(g[(1..i) \ {Max(1..i)}], s[Max(1..i)])
    BY <1>15, <2>1
  <2>3. x[i] = g[1..i] /\ x[i - 1] = g[1..(i - 1)]
    BY <1>16
  <2>4. x[i] = take(x[i - 1], s[i])
    BY <2>1, <2>2, <2>3
  <2>5. QED
    BY <1>11, <2>4 DEF step
<1>19. \A i \in 1..n : /\ last[s[i]] \in 1..Len(writes) /\ writes[last[s[i]]].key = p
                       /\ r2[s[i]] = Merged(raw[s[i]], last[s[i]])
  BY <1>2, <1>5, <1>8, <1>9, <1>10, <1>n
<1>20. /\ a \in AccType /\ a.ws = writes /\ Told(a) /\ nodes \subseteq a.graph.nodes
       /\ \A i \in 1..n : Fine(a, s[i], r2[s[i]], stack, gone)
       /\ \A d \in Child : (\A i \in 1..n : s[i] # d) => Fine(a, d, raw[d], stack, gone)
  <2>1. x[n] = a
    <3> HIDE DEF Q
    <3>1. n \in 0..n /\ a = g[1..n]
      BY <1>15
    <3>2. QED
      BY <1>16, <3>1
  <2>2. raw \in [Child -> 0..Len(writes)] /\ x[0] \in AccType /\ x[0].ws = writes /\ Told(x[0])
        /\ x[0].graph.nodes = nodes /\ \A d \in Child : Fine(x[0], d, raw[d], stack, gone)
    BY <1>0, <1>17, AccFields, AccIsTold DEF Shape
  <2>3. Loading(x, n, s, writes, raw, r2, stack, gone, p, last)
    BY <1>5, <1>18, <1>19, <2>2 DEF Loading
  <2>4. stack \in SUBSET (0..Len(writes))
    BY <1>0
  <2>5. Loaded(x, n, s, writes, raw, r2, stack, gone)
    BY <1>8, <2>2, <2>3, <2>4, FineOfLoads
  <2>6. QED
    BY <2>1, <2>2, <2>5 DEF Loaded
<1>21. \A d \in Child : Fine(a, d, raw'[d], stack, gone)
  <2>1. ASSUME NEW d \in Child PROVE Fine(a, d, raw'[d], stack, gone)
    <3>1. CASE d \in below
      BY <1>5, <1>10, <1>20, <3>1
    <3>2. CASE d \notin below
      <4>1. \A i \in 1..n : s[i] # d
        BY <1>5, <3>2
      <4>2. QED
        BY <1>9, <1>20, <3>2, <4>1
    <3>3. QED
      BY <3>1, <3>2
  <2>2. QED
    BY <2>1
<1>22. PICK a2 : a2 = [a EXCEPT !.graph = WithNode(@, p), !.parents = @ \cup {p}]
  OBVIOUS
<1>b. PICK b : b = Notified(a2, "parent")
  OBVIOUS
<1>23. /\ b \in AccType /\ b.ws = writes /\ b.pool = a.pool /\ b.undone = a.undone
       /\ b.graph.nodes = a.graph.nodes \cup {p} /\ b.graph.references = a.graph.references
       /\ b.graph.referencedBy = a.graph.referencedBy /\ Told(b)
  <2>1. PICK w : w = WithNode(a.graph, p)
    OBVIOUS
  <2>2. /\ w \in GraphType /\ w.nodes = a.graph.nodes \cup {p} /\ w.references = a.graph.references
        /\ w.referencedBy = a.graph.referencedBy
    <3>1. a.graph \in GraphType /\ p \in Node
      BY <1>0, <1>20 DEF AccType, Node
    <3>2. QED
      BY <2>1, <3>1, WithNodeFacts
  <2>a. PICK ps \in SUBSET Parent : ps = a.parents \cup {p}
    BY <1>20 DEF AccType
  <2>3. a2 = [a EXCEPT !.graph = w, !.parents = ps]
    BY <1>22, <2>1, <2>a
  <2>4. /\ a2 \in AccType /\ a2.ws = a.ws /\ a2.pool = a.pool /\ a2.undone = a.undone /\ a2.graph = w
        /\ a2.parents = ps /\ a2.query = a.query /\ a2.snapshot = a.snapshot
    BY <1>20, <2>2, <2>3 DEF AccType
  <2>5. /\ b \in AccType /\ b.ws = a2.ws /\ b.pool = a2.pool /\ b.parents = a2.parents
        /\ b.graph = a2.graph /\ b.undone = a2.undone
        /\ IF query = "none" \/ ~Concerned("parent")
           THEN b.query = a2.query /\ b.snapshot = a2.snapshot
           ELSE b.query = "read" /\ b.snapshot = Tree(a2.graph, a2.pool, a2.parents)
    BY <1>b, <2>4, NotifiedFacts, Zenon
  <2>6. Told(b)
    <3>1. b.parents \subseteq b.graph.nodes /\ \A c \in Child : b.pool[c] # Absent => c \in b.graph.nodes
      BY <1>20, <2>2, <2>a, <2>4, <2>5 DEF Told
    <3>2. Concerned("parent") /\ (query = "none" => a.query # "read")
      BY <1>20 DEF Concerned, Told
    <3>3. QED
      BY <2>4, <2>5, <3>1, <3>2 DEF Told
  <2>7. QED
    BY <1>20, <2>2, <2>4, <2>5, <2>6
<1>24. ASSUME NEW d \in Child PROVE Fine(b, d, raw'[d], stack', gone')
  <2>1. Fine(a, d, raw'[d], stack, gone) /\ stack' = stack /\ gone' = gone
    BY <1>1, <1>21
  <2>2. b.ws = a.ws
    BY <1>20, <1>23
  <2>3. d # p
    BY ObjectsAssumption
  <2>4. QED
    BY <1>23, <2>1, <2>2, <2>3 DEF Fine
<1>25. Len(b.ws) <= MaxTime /\ stack' \subseteq DOMAIN b.ws /\ raw' \in [Child -> 0..Len(b.ws)]
  BY <1>0, <1>1, <1>9, <1>20, <1>23, <1>n DEF Shape
<1>26. Becomes(b)
  BY <1>1, <1>22, <1>b
<1>27. QED
  BY <1>23, <1>24, <1>25, <1>26, Became

LEMMA NextIInv == IInv /\ [Next]_vars => IInv'
<1> SUFFICES ASSUME IInv, [Next]_vars PROVE IInv'
  OBVIOUS
<1>1. ASSUME NEW c \in Child, NEW k \in Key, ForeignWrite(c, k) PROVE IInv'
  BY <1>1, ForeignWriteIInv
<1>2. ASSUME NEW c \in Child, NEW k \in Key, Mutate(c, k) PROVE IInv'
  BY <1>2, MutateIInv
<1>3. ASSUME NEW t \in DOMAIN writes, NEW v \in DOMAIN writes, NEW custom \in BOOLEAN, Delta(t, v, custom)
      PROVE  IInv'
  BY <1>3, DeltaIInv
<1>4. ASSUME NEW t \in stack, Settle(t) PROVE IInv'
  BY <1>4, SettleIInv
<1>5. ASSUME NEW p \in Parent, NEW last \in [Child -> 0..Len(writes)],
             \A c \in Child : last[c] # Absent => writes[last[c]].child = c, Load(p, last)
      PROVE  IInv'
  BY <1>5, LoadIInv
<1>6. ASSUME NEW id \in Parent \cup Child, Drop(id) PROVE IInv'
  BY <1>6, DropIInv
<1>7. ASSUME UNCHANGED <<rows, graph, history>>, ShownIsCurrent', snapshot' \in Snapshot,
             query' \in {"none", "subscribed", "read"}
      PROVE  IInv'
  <2>1. /\ UNCHANGED <<writes, stack, raw, pool, parents, nodes, references, referencedBy>>
        /\ UNCHANGED <<gone, undone>>
    BY <1>7 DEF rows, graph, history
  <2>2. /\ Acc' = [ws |-> writes, pool |-> pool, parents |-> parents, graph |-> Graph,
                   query |-> query', snapshot |-> snapshot', undone |-> undone]
        /\ Acc = [ws |-> writes, pool |-> pool, parents |-> parents, graph |-> Graph,
                  query |-> query, snapshot |-> snapshot, undone |-> undone]
    BY <2>1 DEF Acc, Graph
  <2>3. Acc' \in AccType /\ Acc'.ws = Acc.ws /\ Acc'.pool = Acc.pool /\ Acc'.graph = Acc.graph
        /\ Acc'.undone = Acc.undone
    <3>1. PICK w, po, pa, g, q, sn, u : /\ w = writes /\ po = pool /\ pa = parents /\ g = Graph
                                         /\ q = query' /\ sn = snapshot' /\ u = undone
      OBVIOUS
    <3>2. PICK a, b : /\ b = Acc'
                      /\ a = Acc /\ a \in AccType
      BY DEF IInv, Shape
    <3>3. b = [ws |-> w, pool |-> po, parents |-> pa, graph |-> g, query |-> q, snapshot |-> sn,
               undone |-> u]
      BY <2>2, <3>1, <3>2, Zenon
    <3>4. a = [ws |-> w, pool |-> po, parents |-> pa, graph |-> g, query |-> query,
               snapshot |-> snapshot, undone |-> u]
      BY <2>2, <3>1, <3>2, Zenon
    <3>5. b.ws = a.ws /\ b.pool = a.pool /\ b.graph = a.graph /\ b.undone = a.undone
      BY <3>3, <3>4
    <3>6. b \in AccType
      BY <1>7, <3>1, <3>2, <3>3, <3>4 DEF AccType
    <3>7. QED
      BY <3>2, <3>5, <3>6
  <2>4. Shape'
    BY <2>1, <2>3 DEF IInv, Shape
  <2>5. ASSUME NEW d \in Child PROVE Fine(Acc', d, raw'[d], stack', gone')
    <3>1. Fine(Acc, d, raw[d], stack, gone)
      BY DEF IInv
    <3>2. QED
      BY <2>1, <2>3, <3>1 DEF Fine
  <2>6. QED
    BY <1>7, <2>4, <2>5 DEF IInv
<1>a. /\ Graph \in GraphType /\ pool \in [Child -> Nat] /\ parents \in SUBSET Parent
      /\ snapshot \in Snapshot /\ query \in {"none", "subscribed", "read"}
  BY AccFields DEF IInv, Shape, AccType
<1>8. ASSUME NEW names, Subscribe(names) PROVE IInv'
  <2>1. ShownIsCurrent' /\ snapshot' \in Snapshot
    BY <1>8, <1>a DEF Subscribe, ShownIsCurrent
  <2>2. QED
    BY <1>7, <1>8, <2>1 DEF Subscribe
<1>9. CASE Get
  <2>1. Tree(Graph, pool, parents) = Tree(Graph', pool', parents')
    BY <1>9 DEF Get, rows, graph, Graph
  <2>2. ShownIsCurrent'
    BY <1>9, <2>1 DEF Get, ShownIsCurrent, Tree
  <2>3. snapshot' \in Snapshot
    BY <1>9, <1>a, TreeType DEF Get
  <2>4. QED
    BY <1>7, <1>9, <2>2, <2>3 DEF Get
<1>10. CASE Unsubscribe
  <2>1. ShownIsCurrent'
    BY <1>10 DEF Unsubscribe, ShownIsCurrent
  <2>2. snapshot' \in Snapshot
    <3> DEFINE P == {}
    <3>1. P \in SUBSET Parent /\ snapshot' = [p \in P |-> {}]
      BY <1>10 DEF Unsubscribe
    <3> HIDE DEF P
    <3>2. snapshot' \in [P -> SUBSET (Child \X Nat)]
      BY <3>1
    <3>3. QED
      BY <3>1, <3>2 DEF Snapshot
  <2>3. QED
    BY <1>7, <1>10, <2>1, <2>2 DEF Unsubscribe
<1>11. CASE UNCHANGED vars
  <2>1. ShownIsCurrent'
    BY <1>11 DEF vars, rows, graph, shown, history, IInv, ShownIsCurrent, Tree, Graph
  <2>2. QED
    BY <1>7, <1>11, <1>a, <2>1 DEF vars, shown
<1>12. QED
  BY <1>1, <1>2, <1>3, <1>4, <1>5, <1>6, <1>8, <1>9, <1>10, <1>11 DEF Next

LEMMA InvariantHolds == Spec => []IInv
BY InitIInv, NextIInv, PTL DEF Spec

-----------------------------------------------------------------------------
(* The theorems.                                                           *)

\* The pools and the graph keep their shape: no row is older than what the server
\* sent of it, and an id without a node has no links of its own.
THEOREM TypeCorrect == Spec => []TypeOK
<1>1. IInv => TypeOK
  BY IInvImplies
<1>2. QED
  BY <1>1, InvariantHolds, PTL

\* The row of a child and its link agree, in whatever order the deltas, the loads
\* and the page's own writes are merged, unless one of its writes was undone, or
\* pending when it was scoped out, and its row has not taken another since.
THEOREM LinksAlwaysFollowRows == Spec => []LinksFollowRows
<1>1. IInv => LinksFollowRows
  BY IInvImplies
<1>2. QED
  BY <1>1, InvariantHolds, PTL

\* A child is in the list of the parent it refers to and in no other, as long as
\* neither was scoped out: both ends of a link are made and cut together.
THEOREM ListsAreAlwaysReferences == Spec => []ListsAreReferences
<1>1. IInv => ListsAreReferences
  BY IInvImplies
<1>2. QED
  BY <1>1, InvariantHolds, PTL

\* The snapshot of a query, with the children or without, is the tree there is: a
\* call that is not notified under a name the query listens to, or that returns
\* before it notifies, leaves the tree as it was.
THEOREM ShownIsAlwaysCurrent == Spec => []ShownIsCurrent
<1>1. IInv => ShownIsCurrent
  BY IInvImplies
<1>2. QED
  BY <1>1, InvariantHolds, PTL
=============================================================================
