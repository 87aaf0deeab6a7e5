--------------------------- MODULE IncludesProofs ----------------------------
(***************************************************************************)
(* For any roots, children, subscribers and operations in flight: the      *)
(* state has its type.  Where a child refers to its root, and operations   *)
(* on related rows do not meet: once everything is handled the matches     *)
(* are what is in scope, and each subscriber holds it as it is stored,     *)
(* with the tree it asked for.                                             *)
(***************************************************************************)
EXTENDS Includes, SequenceTheorems, TLAPS

-----------------------------------------------------------------------------
(* Sequences.                                                              *)

LEMMA MappedSeq ==
  ASSUME NEW T, NEW n \in Nat, NEW f \in [1..n -> T]
  PROVE  f \in Seq(T) /\ Len(f) = n
OBVIOUS

LEMMA SetOfSeq ==
  ASSUME NEW S, NEW s \in Seq(S)
  PROVE  ToSet(s) \subseteq S
BY DEF ToSet

\* Removing position i shifts the later elements one place to the left.
LEMMA RemoveAtElements ==
  ASSUME NEW S, NEW s \in Seq(S), NEW i \in 1..Len(s)
  PROVE  /\ RemoveAt(s, i) \in Seq(S)
         /\ Len(RemoveAt(s, i)) = Len(s) - 1
         /\ \A j \in 1..Len(s) - 1 :
              RemoveAt(s, i)[j] = IF j < i THEN s[j] ELSE s[j + 1]
<1> DEFINE l == SubSeq(s, 1, i - 1)
           r == SubSeq(s, i + 1, Len(s))
<1>0. Len(s) \in Nat /\ \A j \in 1..Len(s) : s[j] \in S
  OBVIOUS
<1>1. l \in Seq(S) /\ Len(l) = i - 1 /\ \A j \in 1..i - 1 : l[j] = s[j]
  BY <1>0, SubSeqProperties
<1>2. /\ r \in Seq(S) /\ Len(r) = Len(s) - i
      /\ \A j \in 1..Len(s) - i : r[j] = s[i + j]
  BY <1>0, SubSeqProperties
<1> HIDE DEF l, r
<1>3. /\ l \o r \in Seq(S) /\ Len(l \o r) = Len(l) + Len(r)
      /\ \A j \in 1..Len(l) + Len(r) :
           (l \o r)[j] = IF j <= Len(l) THEN l[j] ELSE r[j - Len(l)]
  BY <1>1, <1>2, ConcatProperties
<1>4. RemoveAt(s, i) = l \o r
  BY DEF RemoveAt, l, r
<1>5. ASSUME NEW j \in 1..Len(s) - 1
      PROVE  (l \o r)[j] = IF j < i THEN s[j] ELSE s[j + 1]
  <2>1. (l \o r)[j] = IF j <= i - 1 THEN l[j] ELSE r[j - (i - 1)]
    BY <1>0, <1>1, <1>2, <1>3
  <2>2. QED
    BY <2>1, <1>0, <1>1, <1>2
<1>6. Len(l \o r) = Len(s) - 1
  BY <1>0, <1>1, <1>2, <1>3
<1>7. QED
  BY <1>3, <1>4, <1>5, <1>6

\* Where each element of a shortened sequence was.
Origin(i, j) == IF j < i THEN j ELSE j + 1

LEMMA RemoveAtSet ==
  ASSUME NEW S, NEW s \in Seq(S), NEW i \in DOMAIN s
  PROVE  /\ RemoveAt(s, i) \in Seq(S)
         /\ \A j \in DOMAIN RemoveAt(s, i) :
              /\ Origin(i, j) \in DOMAIN s /\ Origin(i, j) # i
              /\ RemoveAt(s, i)[j] = s[Origin(i, j)]
              /\ \A k \in DOMAIN RemoveAt(s, i) : Origin(i, j) = Origin(i, k) => j = k
         /\ ToSet(s) = ToSet(RemoveAt(s, i)) \cup {s[i]}
<1>1. PICK n \in Nat : n = Len(s) /\ DOMAIN s = 1..n
  OBVIOUS
<1>2. PICK t : t = RemoveAt(s, i)
  OBVIOUS
<1>3. t \in Seq(S) /\ Len(t) = n - 1 /\ \A j \in 1..n - 1 : t[j] = IF j < i THEN s[j] ELSE s[j + 1]
  BY <1>1, <1>2, RemoveAtElements
<1>4. DOMAIN t = 1..n - 1
  BY <1>3
<1>5. \A j \in 1..n - 1 : Origin(i, j) \in 1..n /\ Origin(i, j) # i /\ t[j] = s[Origin(i, j)]
        /\ \A k \in 1..n - 1 : Origin(i, j) = Origin(i, k) => j = k
  BY <1>1, <1>3 DEF Origin
<1>6. ASSUME NEW k \in 1..n, k # i PROVE \E j \in 1..n - 1 : s[k] = t[j]
  <2>1. CASE k < i
    <3>1. k \in 1..n - 1 /\ t[k] = s[k]
      BY <1>1, <1>3, <2>1
    <3>2. QED
      BY <3>1
  <2>2. CASE k > i
    <3>1. k - 1 \in 1..n - 1 /\ ~(k - 1 < i) /\ (k - 1) + 1 = k
      BY <1>1, <2>2, <1>6
    <3>2. t[k - 1] = s[k]
      BY <1>3, <3>1
    <3>3. QED
      BY <3>1, <3>2
  <2>3. QED
    BY <1>1, <1>6, <2>1, <2>2
<1>7. ToSet(s) = ToSet(t) \cup {s[i]}
  <2>1. ToSet(s) = {s[j] : j \in 1..n} /\ ToSet(t) = {t[j] : j \in 1..n - 1}
    BY <1>1, <1>4 DEF ToSet
  <2>2. \A k \in 1..n : s[k] \in ToSet(t) \cup {s[i]}
    BY <1>6, <2>1
  <2>3. \A j \in 1..n - 1 : t[j] \in ToSet(s)
    BY <1>5, <2>1
  <2>4. s[i] \in ToSet(s)
    BY <1>1, <2>1
  <2>5. QED
    BY <2>1, <2>2, <2>3, <2>4
<1>8. QED
  BY <1>1, <1>2, <1>3, <1>4, <1>5, <1>7

LEMMA AppendSet ==
  ASSUME NEW S, NEW s \in Seq(S), NEW e \in S
  PROVE  /\ Append(s, e) \in Seq(S) /\ DOMAIN Append(s, e) = DOMAIN s \cup {Len(s) + 1}
         /\ Len(s) + 1 \notin DOMAIN s
         /\ Append(s, e)[Len(s) + 1] = e /\ \A i \in DOMAIN s : Append(s, e)[i] = s[i]
         /\ ToSet(Append(s, e)) = ToSet(s) \cup {e}
<1>1. PICK n \in Nat : n = Len(s) /\ DOMAIN s = 1..n
  OBVIOUS
<1>2. PICK t : t = Append(s, e)
  OBVIOUS
<1>3. t \in Seq(S) /\ DOMAIN t = 1..(n + 1) /\ t[n + 1] = e /\ \A i \in 1..n : t[i] = s[i]
  BY <1>1, <1>2
<1>4. 1..(n + 1) = 1..n \cup {n + 1} /\ n + 1 \notin 1..n
  OBVIOUS
<1>5. ToSet(s) = {s[j] : j \in 1..n} /\ ToSet(t) = {t[j] : j \in 1..(n + 1)}
  BY <1>1, <1>3 DEF ToSet
<1>6. ToSet(t) = ToSet(s) \cup {e}
  BY <1>3, <1>4, <1>5
<1>7. QED
  BY <1>1, <1>2, <1>3, <1>4, <1>6

LEMMA TailSet ==
  ASSUME NEW S, NEW s \in Seq(S), s # <<>>
  PROVE  /\ Head(s) \in S /\ Tail(s) \in Seq(S) /\ Head(s) \in ToSet(s)
         /\ 1 \in DOMAIN s /\ Head(s) = s[1]
         /\ \A j \in DOMAIN Tail(s) : j + 1 \in DOMAIN s /\ j + 1 # 1 /\ Tail(s)[j] = s[j + 1] /\ j \in Nat
         /\ ToSet(s) = ToSet(Tail(s)) \cup {Head(s)}
<1>1. PICK n \in Nat : n = Len(s) /\ DOMAIN s = 1..n /\ n >= 1
  BY EmptySeq
<1>2. PICK t : t = Tail(s)
  OBVIOUS
<1>3. t \in Seq(S) /\ DOMAIN t = 1..n - 1 /\ \A i \in 1..n - 1 : t[i] = s[i + 1]
  BY <1>1, <1>2, HeadTailProperties
<1>4. Head(s) = s[1] /\ Head(s) \in S
  BY <1>1, HeadTailProperties
<1>5. ToSet(s) = {s[j] : j \in 1..n} /\ ToSet(t) = {t[j] : j \in 1..n - 1}
  BY <1>1, <1>3 DEF ToSet
<1>6. ASSUME NEW k \in 1..n, k # 1 PROVE s[k] \in ToSet(t)
  <2>1. k - 1 \in 1..n - 1 /\ t[k - 1] = s[k]
    BY <1>3, <1>6
  <2>2. QED
    BY <1>5, <2>1
<1>7. \A j \in 1..n - 1 : t[j] \in ToSet(s) /\ j + 1 \in 1..n /\ j + 1 # 1 /\ j \in Nat
  BY <1>3, <1>5
<1>8. 1 \in 1..n /\ s[1] \in ToSet(s)
  BY <1>1, <1>5
<1>9. ToSet(s) = ToSet(t) \cup {Head(s)}
  BY <1>4, <1>5, <1>6, <1>7, <1>8
<1>10. QED
  BY <1>1, <1>2, <1>3, <1>4, <1>7, <1>8, <1>9

LEMMA MaxOfPair == Max({1}) = 1 /\ Max({2}) = 2 /\ Max({1, 2}) = 2
<1>1. Max({1}) = 1
  BY DEF Max
<1>2. Max({2}) = 2
  BY DEF Max
<1>3. Max({1, 2}) = 2
  <2>1. 2 \in {1, 2} /\ \A k \in {1, 2} : 2 >= k
    OBVIOUS
  <2>2. \E m \in {1, 2} : \A k \in {1, 2} : m >= k
    BY <2>1
  <2>3. Max({1, 2}) \in {1, 2} /\ \A k \in {1, 2} : Max({1, 2}) >= k
    BY <2>2 DEF Max
  <2>4. QED
    BY <2>1, <2>3
<1>4. QED
  BY <1>1, <1>2, <1>3

-----------------------------------------------------------------------------
(* The types of what is under way.                                         *)

DeltaType ==
  [op : {"INSERT", "UPDATE"}, id : Id, fields : SUBSET Field, fresh : SUBSET Field, row : Row]
Batch == {b \in Seq(DeltaType) : Len(b) \in {1, 2}}
TaskType == [delta : DeltaType, was : BOOLEAN, is : BOOLEAN]
TreeType == UNION {[S -> [fresh : SUBSET Field, ref : Id \cup {None}]] : S \in SUBSET Id}
ReadType ==
  [kind : {"reply", "tree"}, id : Id \cup {None}, client : Client \cup {None},
   include : BOOLEAN, orphan : BOOLEAN, tree : TreeType \cup {Unanswered}]

BoxOf(q) == UNION {ToSet(b) : b \in ToSet(q)}
Box == BoxOf(outbox)
Tasks == ToSet(ready)
Reads == ToSet(reads)

Queues ==
  /\ outbox \in Seq(Batch) /\ ready \in Seq(TaskType) /\ reads \in Seq(ReadType)
  /\ \A d \in Box : store[d.id] # Absent
  /\ \A t \in Tasks : store[t.delta.id] # Absent /\ t.delta.id \in known
  /\ \A x \in Reads :
       /\ x.client \in roots \cup {None}
       /\ x.kind = "reply" => x.id = None
       /\ x.kind = "tree" => x.id \in known /\ store[x.id] # Absent
TInv == TypeOK /\ Queues

\* A batch is handled write by write.
LEMMA BatchHeard ==
  ASSUME NEW g, NEW b \in Batch
  PROVE  FoldLeft(Heard, g, b) =
           IF Len(b) = 1 THEN Heard(g, b[1]) ELSE Heard(Heard(g, b[1]), b[2])
<1> DEFINE D == DOMAIN b
           Q(f) == f = [T \in SUBSET D |-> IF T = {} THEN g ELSE Heard(f[T \ {Max(T)}], b[Max(T)])]
           h(T) == IF T = {1} THEN Heard(g, b[1])
                   ELSE IF T = {2} THEN Heard(g, b[2]) ELSE Heard(Heard(g, b[1]), b[2])
           F == [T \in SUBSET D |-> IF T = {} THEN g ELSE h(T)]
<1>1. (D = {1} /\ Len(b) = 1) \/ (D = {1, 2} /\ Len(b) = 2)
  <2>1. Len(b) \in {1, 2} /\ D = 1..Len(b)
    BY DEF Batch
  <2>2. 1..1 = {1} /\ 1..2 = {1, 2}
    OBVIOUS
  <2> HIDE DEF D
  <2>3. CASE Len(b) = 1
    <3>1. D = 1..1
      BY <2>1, <2>3
    <3>2. QED
      BY <2>2, <2>3, <3>1, Zenon
  <2>4. CASE Len(b) = 2
    <3>1. D = 1..2
      BY <2>1, <2>4
    <3>2. QED
      BY <2>2, <2>4, <3>1, Zenon
  <2>5. QED
    BY <2>1, <2>3, <2>4
<1>2. FoldLeft(Heard, g, b) = (CHOOSE f : Q(f))[D]
  BY DEF FoldLeft, MapThenFoldSet
<1>3. \A T \in SUBSET D : T = {} \/ T = {1} \/ T = {2} \/ T = {1, 2}
  <2> HIDE DEF D
  <2>0. TAKE T \in SUBSET D
  <2>1. D \subseteq {1, 2}
    <3>1. CASE D = {1}
      BY <3>1
    <3>2. CASE D = {1, 2}
      BY <3>2
    <3>3. QED
      BY <1>1, <3>1, <3>2
  <2>2. CASE 1 \in T /\ 2 \in T
    <3>1. \A i : i \in T <=> i \in {1, 2}
      BY <2>0, <2>1, <2>2
    <3>2. QED
      BY <3>1
  <2>3. CASE 1 \in T /\ 2 \notin T
    <3>1. \A i : i \in T <=> i \in {1}
      BY <2>0, <2>1, <2>3
    <3>2. QED
      BY <3>1
  <2>4. CASE 1 \notin T /\ 2 \in T
    <3>1. \A i : i \in T <=> i \in {2}
      BY <2>0, <2>1, <2>4
    <3>2. QED
      BY <3>1
  <2>5. CASE 1 \notin T /\ 2 \notin T
    BY <2>0, <2>1, <2>5
  <2>6. QED
    BY <2>2, <2>3, <2>4, <2>5
<1>4. \A T \in SUBSET D : T # {} =>
        F[T] = Heard(F[T \ {Max(T)}], b[Max(T)]) /\ T \ {Max(T)} \in SUBSET D
  <2>0. TAKE T \in SUBSET D
  <2>1. F[T] = IF T = {} THEN g ELSE h(T)
    OBVIOUS
  <2>2. \A U \in SUBSET D : F[U] = IF U = {} THEN g ELSE h(U)
    OBVIOUS
  <2> HIDE DEF F, D
  <2>3. CASE T = {1}
    <3>1. T \ {Max(T)} = {} /\ {} \in SUBSET D /\ Max(T) = 1
      BY <2>3, MaxOfPair
    <3>2. QED
      BY <2>1, <2>2, <2>3, <3>1
  <2>4. CASE T = {2}
    <3>1. T \ {Max(T)} = {} /\ {} \in SUBSET D /\ Max(T) = 2 /\ {2} # {1}
      BY <2>4, MaxOfPair
    <3>2. QED
      BY <2>1, <2>2, <2>4, <3>1
  <2>5. CASE T = {1, 2}
    <3>1. T \ {Max(T)} = {1} /\ {1} \in SUBSET D /\ Max(T) = 2 /\ {1, 2} # {1} /\ {1, 2} # {2}
      BY <2>0, <2>5, MaxOfPair
    <3>2. QED
      BY <2>1, <2>2, <2>5, <3>1
  <2>6. QED
    BY <1>3, <2>3, <2>4, <2>5
<1> DEFINE E == [T \in SUBSET D |-> IF T = {} THEN g ELSE Heard(F[T \ {Max(T)}], b[Max(T)])]
<1>5. Q(F)
  <2>1. F = [T \in SUBSET D |-> F[T]] /\ F[{}] = g
    OBVIOUS
  <2>2. \A T \in SUBSET D : F[T] = E[T]
    <3> HIDE DEF F
    <3>1. QED
      BY <1>4, <2>1
  <2>3. F = E
    <3> HIDE DEF F
    <3>1. QED
      BY <2>1, <2>2
  <2>4. QED
    BY <2>3
<1> HIDE DEF F
<1>6. PICK f : Q(f) /\ FoldLeft(Heard, g, b) = f[D]
  <2> HIDE DEF Q
  <2>1. Q(CHOOSE f : Q(f))
    BY <1>5
  <2>2. QED
    BY <1>2, <2>1
<1>7. \A T \in SUBSET D : f[T] = IF T = {} THEN g ELSE Heard(f[T \ {Max(T)}], b[Max(T)])
  BY <1>6
<1> HIDE DEF Q, D, h
<1>8. f[{}] = g /\ f[{1}] = Heard(g, b[1])
  <2>1. {} \in SUBSET D /\ {1} \in SUBSET D /\ {1} # {} /\ Max({1}) = 1 /\ {1} \ {1} = {}
    BY <1>1, MaxOfPair
  <2>2. QED
    BY <1>7, <2>1
<1>9. CASE D = {1} /\ Len(b) = 1
  BY <1>6, <1>8, <1>9
<1>10. CASE D = {1, 2} /\ Len(b) = 2
  <2>1. {1, 2} \in SUBSET D /\ {1, 2} # {} /\ Max({1, 2}) = 2 /\ {1, 2} \ {2} = {1}
    BY <1>10, MaxOfPair
  <2>2. f[{1, 2}] = Heard(f[{1}], b[2])
    BY <1>7, <2>1
  <2>3. QED
    BY <1>6, <1>8, <1>10, <2>2
<1>11. QED
  BY <1>1, <1>9, <1>10

LEMMA TargetType == \A id \in Id : Target(id) \subseteq Id \cup {None}
BY DEF Target

LEMMA IdsApart ==
  /\ None \notin Id /\ None \notin Client /\ Absent \notin Row /\ Root \cap Child = {}
  /\ Id = Root \cup Child /\ Holder \subseteq Id
BY IncludesAssumption DEF Row, Id, Holder

\* A write as it may be, when st is stored.
MayBe(d, st) ==
  /\ d \in DeltaType /\ d.fresh = d.fields /\ d.fields # {}
  /\ d.row.ref \in Target(d.id) /\ (d.row.ref = None \/ st[d.row.ref] # Absent)
  /\ d.op = "INSERT" <=> st[d.id] = Absent
  /\ d.fields = IF st[d.id] = Absent THEN Field ELSE {f \in Field : d.row[f] # st[d.id][f]}
Writable(ws, st) ==
  /\ ws \in Batch
  /\ MayBe(ws[1], st)
  /\ Len(ws) = 2 => /\ MayBe(ws[2], [st EXCEPT ![ws[1].id] = ws[1].row])
                     /\ ws[1].id # ws[2].id

LEMMA PossibleMayBe ==
  ASSUME NEW st, NEW d \in Possible(st)
  PROVE  MayBe(d, st)
<1> DEFINE Choice(id) == [ok : BOOLEAN, ref : {t \in Target(id) : t = None \/ st[t] # Absent}]
<1>0. PICK id \in Id : \E row \in Choice(id) :
        /\ d = Delta(IF st[id] = Absent THEN "INSERT" ELSE "UPDATE", id,
                     IF st[id] = Absent THEN Field ELSE {f \in Field : row[f] # st[id][f]}, row)
        /\ d.fields # {}
  BY DEF Possible
<1>1. PICK row \in Choice(id) :
        /\ d = Delta(IF st[id] = Absent THEN "INSERT" ELSE "UPDATE", id,
                     IF st[id] = Absent THEN Field ELSE {f \in Field : row[f] # st[id][f]}, row)
        /\ d.fields # {}
  BY <1>0
<1>2. row \in Row /\ row.ref \in Target(id) /\ (row.ref = None \/ st[row.ref] # Absent)
  BY TargetType DEF Row
<1>3. PICK op \in {"INSERT", "UPDATE"} : op = IF st[id] = Absent THEN "INSERT" ELSE "UPDATE"
  OBVIOUS
<1>4. PICK fields \in SUBSET Field : fields = IF st[id] = Absent THEN Field ELSE {f \in Field : row[f] # st[id][f]}
  OBVIOUS
<1>5. d = [op |-> op, id |-> id, fields |-> fields, fresh |-> fields, row |-> row]
  BY <1>1, <1>3, <1>4 DEF Delta
<1>6. d \in DeltaType /\ d.op = op /\ d.id = id /\ d.fields = fields /\ d.fresh = fields /\ d.row = row
  BY <1>2, <1>5 DEF DeltaType
<1>7. QED
  BY <1>1, <1>2, <1>3, <1>4, <1>6 DEF MayBe

LEMMA SinglesAndPairs ==
  ASSUME NEW d \in DeltaType
  PROVE  /\ <<d>> \in Batch /\ Len(<<d>>) = 1 /\ <<d>>[1] = d
         /\ \A e \in DeltaType :
              <<d, e>> \in Batch /\ Len(<<d, e>>) = 2 /\ <<d, e>>[1] = d /\ <<d, e>>[2] = e
BY DEF Batch

\* Every commit is of one of these.
LEMMA CommitsAreWritable ==
  /\ \A d \in Possible(store) : Commit(<<d>>) => \E ws : Writable(ws, store) /\ Commit(ws)
  /\ CommitTransaction => \E ws : Writable(ws, store) /\ Commit(ws)
<1>1. ASSUME NEW d \in Possible(store) PROVE Writable(<<d>>, store)
  <2>1. MayBe(d, store)
    BY PossibleMayBe
  <2>2. d \in DeltaType
    BY <2>1 DEF MayBe
  <2>3. QED
    BY <2>1, <2>2, SinglesAndPairs DEF Writable
<1>2. ASSUME NEW d \in Possible(store), NEW e \in Possible([store EXCEPT ![d.id] = d.row]), e.id # d.id
      PROVE  Writable(<<d, e>>, store)
  <2>1. MayBe(d, store) /\ MayBe(e, [store EXCEPT ![d.id] = d.row])
    BY PossibleMayBe
  <2>2. d \in DeltaType /\ e \in DeltaType
    BY <2>1 DEF MayBe
  <2>3. QED
    BY <1>2, <2>1, <2>2, SinglesAndPairs DEF Writable
<1>3. QED
  BY <1>1, <1>2 DEF CommitTransaction

\* The writes of a batch that may be committed.
Fits(d, st) ==
  /\ d \in DeltaType /\ d.fresh = d.fields /\ d.fields # {} /\ d.row.ref \in Target(d.id)
  /\ d.op = "INSERT" <=> st[d.id] = Absent
  /\ d.fields = IF st[d.id] = Absent THEN Field ELSE {f \in Field : d.row[f] # st[d.id][f]}
WritesOf(W, st) ==
  /\ \A d \in W : /\ Fits(d, st)
                  /\ \/ d.row.ref = None \/ st[d.row.ref] # Absent
                     \/ \E e \in W : e.id = d.row.ref
  /\ \A d, e \in W : d.id = e.id => d = e

LEMMA BatchSet ==
  ASSUME NEW b \in Batch
  PROVE  /\ Len(b) = 1 \/ Len(b) = 2
         /\ Len(b) = 1 => ToSet(b) = {b[1]} /\ DOMAIN b = {1}
         /\ Len(b) = 2 => ToSet(b) = {b[1], b[2]} /\ DOMAIN b = {1, 2}
         /\ ToSet(b) \subseteq DeltaType
<1>1. Len(b) \in {1, 2} /\ b \in Seq(DeltaType) /\ DOMAIN b = 1..Len(b)
  BY DEF Batch
<1>2. 1..1 = {1} /\ 1..2 = {1, 2}
  OBVIOUS
<1>3. ToSet(b) = {b[j] : j \in DOMAIN b}
  BY DEF ToSet
<1>4. \A j \in DOMAIN b : b[j] \in DeltaType
  BY <1>1
<1>5. CASE Len(b) = 1
  <2>1. DOMAIN b = {1}
    BY <1>1, <1>2, <1>5, Zenon
  <2>2. QED
    BY <1>3, <1>4, <1>5, <2>1
<1>6. CASE Len(b) = 2
  <2>1. DOMAIN b = {1, 2}
    BY <1>1, <1>2, <1>6, Zenon
  <2>2. ToSet(b) = {b[1], b[2]}
    BY <1>3, <2>1
  <2>3. QED
    BY <1>4, <1>6, <2>1, <2>2
<1>7. QED
  BY <1>1, <1>5, <1>6

LEMMA WritableSet ==
  ASSUME NEW ws, NEW st \in [Id -> Row \cup {Absent}], Writable(ws, st)
  PROVE  WritesOf(ToSet(ws), st)
<1>1. ws \in Batch /\ MayBe(ws[1], st)
  BY DEF Writable
<1>2. CASE Len(ws) = 1
  <2>1. ToSet(ws) = {ws[1]}
    BY <1>1, <1>2, BatchSet
  <2>2. QED
    BY <1>1, <2>1 DEF WritesOf, MayBe, Fits
<1>3. CASE Len(ws) = 2
  <2>1. ToSet(ws) = {ws[1], ws[2]}
    BY <1>1, <1>3, BatchSet
  <2>2. PICK d, e : d = ws[1] /\ e = ws[2]
    OBVIOUS
  <2>3. MayBe(d, st) /\ MayBe(e, [st EXCEPT ![d.id] = d.row]) /\ d.id # e.id
    BY <1>3, <2>2 DEF Writable
  <2>4. PICK st2 : st2 = [st EXCEPT ![d.id] = d.row]
    OBVIOUS
  <2>5. d \in DeltaType /\ e \in DeltaType /\ d.id \in Id /\ e.id \in Id
    BY <2>3 DEF MayBe, DeltaType
  <2>6. st2[e.id] = st[e.id] /\ \A id \in Id : id # d.id => st2[id] = st[id]
    BY <2>3, <2>4, <2>5
  <2>7. e.row.ref = None \/ e.row.ref \in Id
    BY <2>5 DEF DeltaType, Row
  <2>8. e.row.ref = None \/ st[e.row.ref] # Absent \/ d.id = e.row.ref
    BY <2>3, <2>4, <2>6, <2>7 DEF MayBe
  <2>9. MayBe(e, st2)
    BY <2>3, <2>4
  <2>10. Fits(d, st)
    BY <2>3 DEF MayBe, Fits
  <2>11. Fits(e, st)
    <3>1. Fits(e, st2)
      BY <2>9 DEF MayBe, Fits
    <3>2. st2[e.id] = st[e.id]
      BY <2>5, <2>6
    <3>3. QED
      BY <3>1, <3>2 DEF Fits
  <2>12. d.row.ref = None \/ st[d.row.ref] # Absent
    BY <2>3 DEF MayBe
  <2>13. ToSet(ws) = {d, e}
    BY <2>1, <2>2
  <2>14. QED
    BY <2>3, <2>8, <2>10, <2>11, <2>12, <2>13 DEF WritesOf
<1>4. QED
  BY <1>1, <1>2, <1>3, BatchSet

LEMMA AgedDeltaFacts ==
  ASSUME NEW d \in DeltaType, NEW fs
  PROVE  /\ [d EXCEPT !.fresh = @ \ fs] \in DeltaType
         /\ [d EXCEPT !.fresh = @ \ fs].id = d.id
         /\ d.fresh \cap fs = {} => [d EXCEPT !.fresh = @ \ fs] = d
<1>1. d.fresh \ fs \in SUBSET Field
  BY DEF DeltaType
<1>2. d.fresh \cap fs = {} => d.fresh \ fs = d.fresh
  OBVIOUS
<1>3. PICK g \in SUBSET Field : g = d.fresh \ fs
  BY <1>1
<1>4. [d EXCEPT !.fresh = g] \in DeltaType /\ [d EXCEPT !.fresh = g].id = d.id
  BY DEF DeltaType
<1>5. [d EXCEPT !.fresh = d.fresh] = d
  BY DEF DeltaType
<1>6. [d EXCEPT !.fresh = @ \ fs] = [d EXCEPT !.fresh = g]
  BY <1>3
<1>7. QED
  BY <1>2, <1>3, <1>4, <1>5, <1>6

LEMMA AgedTaskFacts ==
  ASSUME NEW t \in TaskType, NEW fs
  PROVE  /\ [t EXCEPT !.delta = [t.delta EXCEPT !.fresh = @ \ fs]] \in TaskType
         /\ [t EXCEPT !.delta = [t.delta EXCEPT !.fresh = @ \ fs]].delta.id = t.delta.id
         /\ t.delta.fresh \cap fs = {} => [t EXCEPT !.delta = [t.delta EXCEPT !.fresh = @ \ fs]] = t
<1>1. t.delta \in DeltaType
  BY DEF TaskType
<1>2. PICK d \in DeltaType : d = [t.delta EXCEPT !.fresh = @ \ fs]
  BY <1>1, AgedDeltaFacts
<1>3. d.id = t.delta.id /\ (t.delta.fresh \cap fs = {} => d = t.delta)
  BY <1>1, <1>2, AgedDeltaFacts
<1>4. [t EXCEPT !.delta = d] \in TaskType /\ [t EXCEPT !.delta = d].delta = d
  BY DEF TaskType
<1>5. [t EXCEPT !.delta = t.delta] = t
  BY DEF TaskType
<1>6. PICK u : u = [t EXCEPT !.delta = d]
  OBVIOUS
<1>7. [t EXCEPT !.delta = [t.delta EXCEPT !.fresh = @ \ fs]] = u
  BY <1>2, <1>6
<1>8. u \in TaskType /\ u.delta.id = t.delta.id /\ (t.delta.fresh \cap fs = {} => u = t)
  BY <1>3, <1>4, <1>5, <1>6
<1>9. QED
  BY <1>7, <1>8, Zenon

\* What a commit of the writes W does to the rows and to what is known of them.
RowsPut(W) ==
  /\ store' \in [Id -> Row \cup {Absent}]
  /\ \A d \in W : store'[d.id] = d.row
  /\ \A id \in Id : (\A d \in W : d.id # id) => store'[id] = store[id]

LEMMA RowsOfPut ==
  ASSUME TInv, NEW ws, Writable(ws, store), Put(ws)
  PROVE  RowsPut(ToSet(ws))
<1> DEFINE W == ToSet(ws)
           of(id) == {d \in W : d.id = id}
           row(id) == IF of(id) = {} THEN store[id] ELSE (CHOOSE d \in of(id) : TRUE).row
<1>1. store \in [Id -> Row \cup {Absent}]
  BY DEF TInv, TypeOK
<1>2. WritesOf(W, store)
  BY <1>1, WritableSet
<1>3. store' = [id \in Id |-> row(id)]
  BY DEF Put
<1>4. \A d \in W : d \in DeltaType /\ d.id \in Id /\ d.row \in Row
  BY <1>2 DEF WritesOf, Fits, DeltaType
<1>5. ASSUME NEW d \in W PROVE row(d.id) = d.row
  <2>1. of(d.id) = {d}
    BY <1>2 DEF WritesOf
  <2>2. QED
    BY <2>1
<1>6. ASSUME NEW id \in Id, \A d \in W : d.id # id PROVE row(id) = store[id]
  BY <1>6
<1>7. ASSUME NEW id \in Id PROVE row(id) \in Row \cup {Absent}
  <2> HIDE DEF row, W
  <2>1. CASE \A d \in W : d.id # id
    BY <1>1, <1>6, <2>1
  <2>2. CASE \E d \in W : d.id = id
    BY <1>4, <1>5, <2>2
  <2>3. QED
    BY <2>1, <2>2
<1> HIDE DEF row, W
<1>8. RowsPut(W)
  BY <1>3, <1>4, <1>5, <1>6, <1>7 DEF RowsPut
<1>9. QED
  BY <1>8 DEF W

\* The fields of a row that a batch writes.
FieldsOf(ws, id) == UNION {d.fields : d \in {e \in ToSet(ws) : e.id = id}}

AgedBatch(ws, b) == [j \in DOMAIN b |-> [b[j] EXCEPT !.fresh = @ \ FieldsOf(ws, b[j].id)]]
AgedTask(ws, t) == [t EXCEPT !.delta = [t.delta EXCEPT !.fresh = @ \ FieldsOf(ws, t.delta.id)]]
TreeAged(ws, tree) ==
  IF tree = Unanswered THEN tree
  ELSE [id \in DOMAIN tree |-> [tree[id] EXCEPT !.fresh = @ \ FieldsOf(ws, id)]]

LEMMA PutUnfolded ==
  ASSUME NEW ws, Put(ws)
  PROVE  /\ outbox' = Append([i \in DOMAIN outbox |-> AgedBatch(ws, outbox[i])], ws)
         /\ ready' = [i \in DOMAIN ready |-> AgedTask(ws, ready[i])]
         /\ reads' = [i \in DOMAIN reads |-> [reads[i] EXCEPT !.tree = TreeAged(ws, reads[i].tree)]]
         /\ view' = [s \in Client |-> [id \in Id |-> [f \in Field |->
              IF f \in FieldsOf(ws, id) /\ view[s][id][f] = "current" THEN "old" ELSE view[s][id][f]]]]
BY Zenon DEF Put, FieldsOf, AgedBatch, AgedTask, TreeAged, AgedDelta

LEMMA AgedBatchFacts ==
  ASSUME NEW ws, NEW b \in Batch
  PROVE  /\ AgedBatch(ws, b) \in Batch /\ DOMAIN AgedBatch(ws, b) = DOMAIN b
         /\ \A j \in DOMAIN b : AgedBatch(ws, b)[j].id = b[j].id
         /\ (\A j \in DOMAIN b : FieldsOf(ws, b[j].id) = {}) => AgedBatch(ws, b) = b
<1> DEFINE g(j) == [b[j] EXCEPT !.fresh = @ \ FieldsOf(ws, b[j].id)]
<1>0. b \in Seq(DeltaType) /\ Len(b) \in {1, 2}
  BY DEF Batch
<1>1. PICK n \in Nat : n = Len(b) /\ n \in {1, 2} /\ DOMAIN b = 1..n /\ b \in Seq(DeltaType)
  BY <1>0, LenProperties
<1>2. \A j \in 1..n : b[j] \in DeltaType
  BY <1>1
<1>3. \A j \in 1..n : g(j) \in DeltaType /\ g(j).id = b[j].id /\ (FieldsOf(ws, b[j].id) = {} => g(j) = b[j])
  <2>1. \A j \in 1..n : FieldsOf(ws, b[j].id) = {} => b[j].fresh \cap FieldsOf(ws, b[j].id) = {}
    OBVIOUS
  <2>2. QED
    BY <1>2, <2>1, AgedDeltaFacts
<1>4. AgedBatch(ws, b) = [j \in 1..n |-> g(j)]
  BY <1>1 DEF AgedBatch
<1> HIDE DEF g
<1>5. PICK c : c = [j \in 1..n |-> g(j)]
  OBVIOUS
<1>6. c \in [1..n -> DeltaType] /\ \A j \in 1..n : c[j] = g(j)
  BY <1>3, <1>5
<1>7. c \in Seq(DeltaType) /\ Len(c) = n /\ DOMAIN c = 1..n
  BY <1>6, MappedSeq
<1>8. c \in Batch
  BY <1>1, <1>7 DEF Batch
<1>9. ASSUME \A j \in 1..n : FieldsOf(ws, b[j].id) = {} PROVE c = b
  <2>1. \A j \in 1..n : c[j] = b[j]
    BY <1>3, <1>6, <1>9
  <2>2. QED
    BY <1>1, <1>7, <2>1, SeqEqual
<1>10. QED
  BY <1>1, <1>3, <1>4, <1>5, <1>6, <1>7, <1>8, <1>9

LEMMA TreeAgedType ==
  ASSUME NEW ws, NEW tree \in TreeType \cup {Unanswered}
  PROVE  TreeAged(ws, tree) \in TreeType \cup {Unanswered}
<1>1. CASE tree = Unanswered
  BY <1>1 DEF TreeAged
<1>2. CASE tree # Unanswered
  <2>1. PICK S \in SUBSET Id : tree \in [S -> [fresh : SUBSET Field, ref : Id \cup {None}]]
    BY <1>2 DEF TreeType
  <2>2. ASSUME NEW id \in S
        PROVE  [tree[id] EXCEPT !.fresh = @ \ FieldsOf(ws, id)] \in [fresh : SUBSET Field, ref : Id \cup {None}]
    <3>1. tree[id] \in [fresh : SUBSET Field, ref : Id \cup {None}]
      BY <2>1
    <3>2. PICK fs : fs = tree[id].fresh \ FieldsOf(ws, id)
      OBVIOUS
    <3>3. fs \in SUBSET Field
      BY <3>1, <3>2
    <3>4. QED
      BY <3>1, <3>2, <3>3
  <2>3. TreeAged(ws, tree) = [id \in S |-> [tree[id] EXCEPT !.fresh = @ \ FieldsOf(ws, id)]]
    BY <1>2, <2>1 DEF TreeAged
  <2>4. TreeAged(ws, tree) \in [S -> [fresh : SUBSET Field, ref : Id \cup {None}]]
    BY <2>2, <2>3
  <2>5. QED
    BY <2>4 DEF TreeType
<1>3. QED
  BY <1>1, <1>2

LEMMA BoxElements ==
  ASSUME NEW q \in Seq(Batch)
  PROVE  /\ \A d \in BoxOf(q) : d \in DeltaType /\ \E k \in DOMAIN q : \E j \in DOMAIN q[k] : d = q[k][j]
         /\ \A k \in DOMAIN q : q[k] \in Batch /\ \A j \in DOMAIN q[k] : q[k][j] \in BoxOf(q)
         /\ \A b \in Batch : BoxOf(Append(q, b)) = BoxOf(q) \cup ToSet(b)
         /\ \A k \in DOMAIN q : BoxOf(q) = BoxOf(RemoveAt(q, k)) \cup ToSet(q[k])
<1>1. \A k \in DOMAIN q : q[k] \in Batch
  OBVIOUS
<1>2. ASSUME NEW b \in Batch PROVE BoxOf(Append(q, b)) = BoxOf(q) \cup ToSet(b)
  <2>1. ToSet(Append(q, b)) = ToSet(q) \cup {b}
    BY AppendSet
  <2>2. QED
    BY <2>1 DEF BoxOf
<1>3. ASSUME NEW k \in DOMAIN q PROVE BoxOf(q) = BoxOf(RemoveAt(q, k)) \cup ToSet(q[k])
  <2>1. ToSet(q) = ToSet(RemoveAt(q, k)) \cup {q[k]}
    BY RemoveAtSet
  <2>2. QED
    BY <2>1 DEF BoxOf
<1>4. ASSUME NEW k \in DOMAIN q, NEW j \in DOMAIN q[k] PROVE q[k][j] \in BoxOf(q)
  <2>1. q[k] \in ToSet(q) /\ q[k][j] \in ToSet(q[k])
    BY DEF ToSet
  <2>2. QED
    BY <2>1 DEF BoxOf
<1>5. ASSUME NEW d \in BoxOf(q)
      PROVE  d \in DeltaType /\ \E k \in DOMAIN q : \E j \in DOMAIN q[k] : d = q[k][j]
  <2>1. PICK b \in ToSet(q) : d \in ToSet(b)
    BY DEF BoxOf
  <2>2. PICK k \in DOMAIN q : b = q[k]
    BY DEF ToSet
  <2>3. PICK j \in DOMAIN b : d = b[j]
    BY <2>1 DEF ToSet
  <2>4. b \in Batch
    BY <1>1, <2>2
  <2>5. d \in DeltaType
    BY <2>1, <2>4, BatchSet
  <2>6. QED
    BY <2>2, <2>3, <2>5
<1>6. QED
  BY <1>1, <1>2, <1>3, <1>4, <1>5

LEMMA QueuesOfPut ==
  ASSUME TInv, NEW ws \in Batch, Put(ws)
  PROVE  /\ outbox' \in Seq(Batch) /\ ready' \in Seq(TaskType) /\ reads' \in Seq(ReadType)
         /\ \A d \in Box' : \E e \in Box \cup ToSet(ws) : d.id = e.id
         /\ \A t \in Tasks' : \E u \in Tasks : t.delta.id = u.delta.id
         /\ \A x \in Reads' : \E y \in Reads : x.id = y.id /\ x.client = y.client /\ x.kind = y.kind
         /\ view' \in [Client -> [Id -> [Field -> Held]]]
<1>0. /\ outbox \in Seq(Batch) /\ ready \in Seq(TaskType) /\ reads \in Seq(ReadType)
      /\ view \in [Client -> [Id -> [Field -> Held]]]
  BY DEF TInv, Queues, TypeOK
<1>1. /\ outbox' = Append([i \in DOMAIN outbox |-> AgedBatch(ws, outbox[i])], ws)
      /\ ready' = [i \in DOMAIN ready |-> AgedTask(ws, ready[i])]
      /\ reads' = [i \in DOMAIN reads |-> [reads[i] EXCEPT !.tree = TreeAged(ws, reads[i].tree)]]
      /\ view' = [s \in Client |-> [id \in Id |-> [f \in Field |->
              IF f \in FieldsOf(ws, id) /\ view[s][id][f] = "current" THEN "old" ELSE view[s][id][f]]]]
  BY PutUnfolded
<1>2. /\ outbox' \in Seq(Batch) /\ \A d \in Box' : \E e \in Box \cup ToSet(ws) : d.id = e.id
  <2>1. PICK n \in Nat : n = Len(outbox) /\ DOMAIN outbox = 1..n
    BY <1>0
  <2>2. PICK q : q = [i \in DOMAIN outbox |-> AgedBatch(ws, outbox[i])]
    OBVIOUS
  <2>3. \A i \in 1..n : outbox[i] \in Batch
    BY <1>0, <2>1
  <2>4. q \in [1..n -> Batch] /\ \A i \in 1..n : q[i] = AgedBatch(ws, outbox[i])
    BY <2>1, <2>2, <2>3, AgedBatchFacts
  <2>5. q \in Seq(Batch) /\ DOMAIN q = 1..n
    BY <2>4, MappedSeq
  <2>6. outbox' = Append(q, ws)
    BY <1>1, <2>2
  <2>7. outbox' \in Seq(Batch) /\ BoxOf(outbox') = BoxOf(q) \cup ToSet(ws)
    BY <2>5, <2>6, BoxElements, AppendSet
  <2>8. ASSUME NEW d \in BoxOf(q) PROVE \E e \in Box : d.id = e.id
    <3>1. PICK k \in 1..n : \E j \in DOMAIN q[k] : d = q[k][j]
      BY <2>5, BoxElements
    <3>2. PICK j \in DOMAIN q[k] : d = q[k][j]
      BY <3>1
    <3>3. j \in DOMAIN outbox[k] /\ d.id = outbox[k][j].id
      BY <2>3, <2>4, <3>2, AgedBatchFacts
    <3>4. outbox[k][j] \in Box
      BY <1>0, <2>1, <3>3, BoxElements DEF Box
    <3>5. QED
      BY <3>3, <3>4
  <2>9. Box' = BoxOf(outbox')
    BY DEF Box, BoxOf
  <2>10. QED
    BY <2>7, <2>8, <2>9
<1>3. ready' \in Seq(TaskType) /\ \A t \in Tasks' : \E u \in Tasks : t.delta.id = u.delta.id
  <2>1. PICK n \in Nat : n = Len(ready) /\ DOMAIN ready = 1..n
    BY <1>0
  <2>2. \A i \in 1..n : ready[i] \in TaskType
    BY <1>0, <2>1
  <2>3. \A i \in 1..n : AgedTask(ws, ready[i]) \in TaskType /\ AgedTask(ws, ready[i]).delta.id = ready[i].delta.id
    BY <2>2, AgedTaskFacts DEF AgedTask
  <2>4. ready' \in [1..n -> TaskType] /\ \A i \in 1..n : ready'[i].delta.id = ready[i].delta.id
    BY <1>1, <2>1, <2>3
  <2>5. ready' \in Seq(TaskType) /\ DOMAIN ready' = 1..n
    BY <2>4, MappedSeq
  <2>6. QED
    BY <2>1, <2>4, <2>5 DEF Tasks, ToSet
<1>4. /\ reads' \in Seq(ReadType)
      /\ \A x \in Reads' : \E y \in Reads : x.id = y.id /\ x.client = y.client /\ x.kind = y.kind
  <2>1. PICK n \in Nat : n = Len(reads) /\ DOMAIN reads = 1..n
    BY <1>0
  <2>2. \A i \in 1..n : reads[i] \in ReadType
    BY <1>0, <2>1
  <2>3. ASSUME NEW i \in 1..n, NEW x, x = [reads[i] EXCEPT !.tree = TreeAged(ws, reads[i].tree)]
        PROVE  x \in ReadType /\ x.id = reads[i].id /\ x.client = reads[i].client /\ x.kind = reads[i].kind
    <3>1. reads[i] \in ReadType
      BY <2>2
    <3>2. PICK tree \in TreeType \cup {Unanswered} : tree = TreeAged(ws, reads[i].tree)
      BY <3>1, TreeAgedType DEF ReadType
    <3>3. x = [reads[i] EXCEPT !.tree = tree]
      BY <2>3, <3>2
    <3>4. QED
      BY <3>1, <3>3 DEF ReadType
  <2>4. /\ reads' \in [1..n -> ReadType]
        /\ \A i \in 1..n : /\ reads'[i].id = reads[i].id /\ reads'[i].client = reads[i].client
                           /\ reads'[i].kind = reads[i].kind
    BY <1>1, <2>1, <2>3
  <2>5. reads' \in Seq(ReadType) /\ DOMAIN reads' = 1..n
    BY <2>4, MappedSeq
  <2>6. QED
    BY <2>1, <2>4, <2>5 DEF Reads, ToSet
<1>5. view' \in [Client -> [Id -> [Field -> Held]]]
  <2>1. \A s \in Client, id \in Id, f \in Field :
          (IF f \in FieldsOf(ws, id) /\ view[s][id][f] = "current" THEN "old" ELSE view[s][id][f]) \in Held
    BY <1>0 DEF Held
  <2>2. QED
    BY <1>1, <2>1
<1>6. QED
  BY <1>2, <1>3, <1>4, <1>5

-----------------------------------------------------------------------------
(* Every step keeps the types.                                             *)

LEMMA CommitTInv ==
  ASSUME TInv, NEW ws, Writable(ws, store), Commit(ws)
  PROVE  TInv'
<1> DEFINE W == ToSet(ws)
<1>0. TypeOK /\ Queues /\ store \in [Id -> Row \cup {Absent}]
  BY DEF TInv, TypeOK
<1>1. Put(ws) /\ UNCHANGED <<graph, nodes, phase, missed>> /\ ws \in Batch
  BY DEF Commit, Writable
<1>2. RowsPut(W) /\ WritesOf(W, store)
  BY <1>0, <1>1, RowsOfPut, WritableSet
<1>3. /\ outbox' \in Seq(Batch) /\ ready' \in Seq(TaskType) /\ reads' \in Seq(ReadType)
      /\ \A d \in Box' : \E e \in Box \cup W : d.id = e.id
      /\ \A t \in Tasks' : \E u \in Tasks : t.delta.id = u.delta.id
      /\ \A x \in Reads' : \E y \in Reads : x.id = y.id /\ x.client = y.client /\ x.kind = y.kind
      /\ view' \in [Client -> [Id -> [Field -> Held]]]
  BY <1>1, QueuesOfPut
<1>4. \A d \in W : d.id \in Id /\ d.row \in Row /\ d.row # Absent /\ d.row.ref \in Target(d.id)
  BY <1>2, IdsApart DEF WritesOf, Fits, DeltaType
<1> HIDE DEF W
<1>5. ASSUME NEW id \in Id
      PROVE  /\ store[id] # Absent => store'[id] # Absent
             /\ store'[id] # Absent => store'[id].ref \in Target(id)
             /\ \A d \in W : d.id = id => store'[id] # Absent
  <2>1. CASE \A d \in W : d.id # id
    BY <1>0, <1>2, <2>1 DEF RowsPut, TypeOK
  <2>2. CASE \E d \in W : d.id = id
    <3>1. PICK d \in W : d.id = id
      BY <2>2
    <3>2. store'[id] = d.row
      BY <1>2, <3>1 DEF RowsPut
    <3>3. QED
      BY <1>4, <3>1, <3>2
  <2>3. QED
    BY <2>1, <2>2
<1>6. known' = known /\ roots' = roots
  BY <1>1 DEF graph, nodes
<1>7. \A d \in Box : d.id \in Id
  BY <1>0, BoxElements DEF Queues, Box, DeltaType
<1>8. \A t \in Tasks : t.delta.id \in Id
  <2>1. Tasks \subseteq TaskType
    BY <1>0, SetOfSeq DEF Queues, Tasks
  <2>2. QED
    BY <2>1 DEF TaskType, DeltaType
<1>9. Queues'
  <2>1. \A d \in Box' : store'[d.id] # Absent
    <3>1. \A e \in Box \cup W : store'[e.id] # Absent
      BY <1>0, <1>4, <1>5, <1>7 DEF Queues
    <3>2. QED
      BY <1>3, <3>1
  <2>2. \A t \in Tasks' : store'[t.delta.id] # Absent /\ t.delta.id \in known
    <3>1. \A u \in Tasks : store'[u.delta.id] # Absent /\ u.delta.id \in known
      BY <1>0, <1>5, <1>8 DEF Queues
    <3>2. QED
      BY <1>3, <3>1
  <2>3. known \subseteq Id
    BY <1>0 DEF TypeOK
  <2>4. \A x \in Reads' : /\ x.client \in roots \cup {None}
                          /\ x.kind = "reply" => x.id = None
                          /\ x.kind = "tree" => x.id \in known /\ store'[x.id] # Absent
    <3>1. \A y \in Reads :
            /\ y.client \in roots \cup {None}
            /\ y.kind = "reply" => y.id = None
            /\ y.kind = "tree" => y.id \in known /\ store'[y.id] # Absent
      BY <1>0, <1>5, <2>3 DEF Queues
    <3>2. TAKE x \in Reads'
    <3>3. PICK y \in Reads : x.id = y.id /\ x.client = y.client /\ x.kind = y.kind
      BY <1>3
    <3>4. QED
      BY <3>1, <3>3
  <2>5. QED
    BY <1>3, <1>6, <2>1, <2>2, <2>4 DEF Queues
<1>10. TypeOK'
  <2>1. store' \in [Id -> Row \cup {Absent}]
    BY <1>2 DEF RowsPut
  <2>2. QED
    BY <1>0, <1>1, <1>3, <1>5, <2>1 DEF TypeOK, graph, nodes
<1>11. QED
  BY <1>9, <1>10 DEF TInv

LEMMA ReadsReplaced ==
  ASSUME NEW i \in DOMAIN reads, reads \in Seq(ReadType), NEW x \in ReadType,
         reads' = [reads EXCEPT ![i] = x]
  PROVE  /\ reads' \in Seq(ReadType) /\ Len(reads') = Len(reads) /\ DOMAIN reads' = DOMAIN reads
         /\ \A j \in DOMAIN reads : reads'[j] = IF j = i THEN x ELSE reads[j]
         /\ \A y \in Reads' : y = x \/ y \in Reads
         /\ x \in Reads' /\ \A y \in Reads : y \in Reads' \/ y = reads[i]
<1>1. PICK n \in Nat : n = Len(reads) /\ DOMAIN reads = 1..n
  OBVIOUS
<1>2. /\ reads' \in Seq(ReadType) /\ Len(reads') = n
      /\ \A j \in 1..n : reads'[j] = IF j = i THEN x ELSE reads[j]
  BY <1>1, ExceptSeq
<1>3. DOMAIN reads' = 1..n
  BY <1>2
<1>4. Reads = {reads[j] : j \in 1..n} /\ Reads' = {reads'[j] : j \in 1..n}
  BY <1>1, <1>3 DEF Reads, ToSet
<1>5. QED
  BY <1>1, <1>2, <1>3, <1>4

LEMMA AnswerTInv ==
  ASSUME TInv, NEW i \in DOMAIN reads, Answer(i)
  PROVE  TInv'
<1>0. TypeOK /\ Queues
  BY DEF TInv
<1> DEFINE x == reads[i]
           top == IF x.id = None THEN InScope ELSE {x.id}
           ids == top \cup (IF x.include THEN UNION {Included(r) : r \in top} ELSE {})
           tree == [id \in ids |-> [fresh |-> Field, ref |-> store[id].ref]]
<1>1. /\ reads' = [reads EXCEPT ![i].tree = tree]
      /\ UNCHANGED <<store, outbox, graph, nodes, ready, phase, view, missed>>
  BY DEF Answer
<1>2. x \in ReadType /\ x \in Reads
  BY <1>0 DEF Queues, Reads, ToSet
<1>3. \A id \in ids : id \in Id /\ store[id].ref \in Id \cup {None}
  <2>1. \A id \in Id : store[id] # Absent => store[id].ref \in Id \cup {None}
    BY <1>0, TargetType DEF TypeOK
  <2>2. \A id \in top : id \in Id /\ store[id] # Absent
    <3>1. CASE x.id = None
      BY <3>1, IdsApart DEF InScope
    <3>2. CASE x.id # None
      <4>1. x.kind = "tree" /\ x.id \in Id
        BY <1>0, <1>2, <3>2 DEF Queues, ReadType
      <4>2. QED
        BY <1>0, <1>2, <3>2, <4>1 DEF Queues
    <3>3. QED
      BY <3>1, <3>2
  <2>3. \A r : \A c \in Included(r) : c \in Id /\ store[c] # Absent
    BY IdsApart DEF Included
  <2> HIDE DEF top
  <2>4. QED
    BY <2>1, <2>2, <2>3
<1>4. tree \in TreeType
  <2>1. \A id \in ids : [fresh |-> Field, ref |-> store[id].ref] \in [fresh : SUBSET Field, ref : Id \cup {None}]
    BY <1>3
  <2> HIDE DEF ids
  <2>2. tree \in [ids -> [fresh : SUBSET Field, ref : Id \cup {None}]]
    BY <2>1
  <2>3. ids \in SUBSET Id
    BY <1>3
  <2>4. QED
    BY <2>2, <2>3 DEF TreeType
<1> HIDE DEF tree, x
<1>5. PICK y : y = [x EXCEPT !.tree = tree]
  OBVIOUS
<1>6. /\ y \in ReadType /\ y.id = x.id /\ y.client = x.client /\ y.kind = x.kind
  BY <1>2, <1>4, <1>5 DEF ReadType
<1>7. reads' = [reads EXCEPT ![i] = y]
  BY <1>1, <1>5 DEF x
<1>8. reads' \in Seq(ReadType) /\ \A z \in Reads' : z = y \/ z \in Reads
  BY <1>0, <1>6, <1>7, ReadsReplaced DEF Queues
<1>9. Tasks' = Tasks /\ Box' = Box /\ known' = known /\ roots' = roots /\ store' = store
      /\ outbox' = outbox /\ ready' = ready
  BY <1>1 DEF Tasks, Box, graph, nodes
<1>10. \A z \in Reads' : /\ z.client \in roots \cup {None}
                         /\ z.kind = "reply" => z.id = None
                         /\ z.kind = "tree" => z.id \in known /\ store[z.id] # Absent
  BY <1>0, <1>2, <1>6, <1>8 DEF Queues
<1>11. Queues'
  BY <1>0, <1>8, <1>9, <1>10 DEF Queues
<1>12. TypeOK'
  BY <1>0, <1>1 DEF TypeOK, graph, nodes
<1>13. QED
  BY <1>11, <1>12 DEF TInv

LEMMA ReadAdded ==
  ASSUME reads \in Seq(ReadType), NEW x \in ReadType, reads' = Append(reads, x)
  PROVE  reads' \in Seq(ReadType) /\ Reads' = Reads \cup {x}
<1>1. reads' \in Seq(ReadType) /\ ToSet(reads') = ToSet(reads) \cup {x}
  BY AppendSet
<1>2. QED
  BY <1>1 DEF Reads

LEMMA SubscribeTInv ==
  ASSUME TInv, NEW s \in Client, NEW include \in BOOLEAN, Subscribe(s, include)
  PROVE  TInv'
<1>0. TypeOK /\ Queues
  BY DEF TInv
<1>1. PICK x : x = Read("reply", None, s, include)
  OBVIOUS
<1>2. x \in ReadType /\ x.kind = "reply" /\ x.id = None /\ x.client = s
  BY <1>1 DEF ReadType, Read
<1>3. /\ phase[s] = "out" /\ roots' = roots \cup {s} /\ kids' = IF include THEN kids \cup {s} ELSE kids
      /\ linked' = (linked \/ include) /\ reads' = Append(reads, x)
      /\ phase' = [phase EXCEPT ![s] = "reading"]
      /\ UNCHANGED <<store, outbox, graph, ready, view, missed>>
  BY <1>1 DEF Subscribe
<1>4. reads' \in Seq(ReadType) /\ Reads' = Reads \cup {x}
  BY <1>0, <1>2, <1>3, ReadAdded DEF Queues
<1>5. Tasks' = Tasks /\ Box' = Box /\ known' = known /\ marked' = marked /\ edge' = edge
      /\ store' = store /\ outbox' = outbox /\ ready' = ready
  BY <1>3 DEF Tasks, Box, graph
<1>6. \A z \in Reads' : /\ z.client \in roots' \cup {None}
                        /\ z.kind = "reply" => z.id = None
                        /\ z.kind = "tree" => z.id \in known /\ store[z.id] # Absent
  BY <1>0, <1>2, <1>3, <1>4 DEF Queues
<1>7. Queues'
  BY <1>0, <1>4, <1>5, <1>6 DEF Queues
<1>8. phase' \in [Client -> {"out", "reading", "in"}] /\ roots' = {c \in Client : phase'[c] # "out"}
  BY <1>0, <1>3 DEF TypeOK
<1>9. kids' \subseteq roots' /\ roots' \subseteq Client /\ (kids' # {} => linked') /\ (linked' => roots' # {})
  BY <1>0, <1>3 DEF TypeOK
<1>10. missed' \subseteq roots' \X Child
  BY <1>0, <1>3 DEF TypeOK
<1>11. TypeOK'
  BY <1>0, <1>3, <1>5, <1>8, <1>9, <1>10 DEF TypeOK
<1>12. QED
  BY <1>7, <1>11 DEF TInv

LEMMA UnsubscribeTInv ==
  ASSUME TInv, NEW s \in Client, Unsubscribe(s)
  PROVE  TInv'
<1>0. TypeOK /\ Queues
  BY DEF TInv
<1> DEFINE left(x) == [x EXCEPT !.orphan = @ \/ (IF x.id \in Child THEN kids' ELSE roots') = {},
                                !.client = IF @ = s THEN None ELSE @]
<1>1. /\ roots' = roots \ {s} /\ kids' = kids \ {s} /\ linked' = (linked /\ roots' # {})
      /\ reads' = [i \in DOMAIN reads |-> left(reads[i])]
      /\ phase' = [phase EXCEPT ![s] = "out"]
      /\ view' = [view EXCEPT ![s] = [id \in Id |-> [f \in Field |-> "none"]]]
      /\ missed' = {m \in missed : m[1] # s}
      /\ UNCHANGED <<store, outbox, graph, ready>>
  BY DEF Unsubscribe
<1>2. ASSUME NEW x \in ReadType
      PROVE  /\ left(x) \in ReadType /\ left(x).id = x.id /\ left(x).kind = x.kind
             /\ left(x).client = IF x.client = s THEN None ELSE x.client
  <2>1. PICK o \in BOOLEAN : o = (x.orphan \/ (IF x.id \in Child THEN kids' ELSE roots') = {})
    OBVIOUS
  <2>2. PICK c \in Client \cup {None} : c = IF x.client = s THEN None ELSE x.client
    BY DEF ReadType
  <2>3. left(x) = [x EXCEPT !.orphan = o, !.client = c]
    BY <2>1, <2>2 DEF ReadType
  <2> HIDE DEF left
  <2>4. QED
    BY <2>2, <2>3 DEF ReadType
<1> HIDE DEF left
<1>3. PICK n \in Nat : n = Len(reads) /\ DOMAIN reads = 1..n
  BY <1>0 DEF Queues
<1>4. \A i \in 1..n : reads[i] \in ReadType /\ reads[i] \in Reads
  BY <1>0, <1>3 DEF Queues, Reads, ToSet
<1>5. reads' \in [1..n -> ReadType] /\ \A i \in 1..n : reads'[i] = left(reads[i])
  BY <1>1, <1>2, <1>3, <1>4
<1>6. reads' \in Seq(ReadType) /\ DOMAIN reads' = 1..n
  BY <1>5, MappedSeq
<1>7. \A z \in Reads' : \E i \in 1..n : z = reads'[i]
  BY <1>6 DEF Reads, ToSet
<1>8. \A z \in Reads' : /\ z.client \in roots' \cup {None}
                        /\ z.kind = "reply" => z.id = None
                        /\ z.kind = "tree" => z.id \in known /\ store[z.id] # Absent
  <2>1. TAKE z \in Reads'
  <2>2. PICK i \in 1..n : z = left(reads[i])
    BY <1>5, <1>7
  <2>3. PICK x \in Reads : x = reads[i] /\ x \in ReadType
    BY <1>4
  <2>4. /\ x.client \in roots \cup {None}
        /\ x.kind = "reply" => x.id = None
        /\ x.kind = "tree" => x.id \in known /\ store[x.id] # Absent
    BY <1>0 DEF Queues
  <2>5. QED
    BY <1>1, <1>2, <2>2, <2>3, <2>4
<1>9. Tasks' = Tasks /\ Box' = Box /\ known' = known /\ marked' = marked /\ edge' = edge
      /\ store' = store /\ outbox' = outbox /\ ready' = ready
  BY <1>1 DEF Tasks, Box, graph
<1>10. Queues'
  BY <1>0, <1>6, <1>8, <1>9 DEF Queues
<1>11. phase' \in [Client -> {"out", "reading", "in"}] /\ roots' = {c \in Client : phase'[c] # "out"}
  BY <1>0, <1>1 DEF TypeOK
<1>12. kids' \subseteq roots' /\ roots' \subseteq Client /\ (kids' # {} => linked') /\ (linked' => roots' # {})
  BY <1>0, <1>1 DEF TypeOK
<1>13. missed' \subseteq roots' \X Child
  BY <1>0, <1>1 DEF TypeOK
<1>14. view' \in [Client -> [Id -> [Field -> Held]]]
  <2>1. [id \in Id |-> [f \in Field |-> "none"]] \in [Id -> [Field -> Held]]
    BY DEF Held
  <2>2. QED
    BY <1>0, <1>1, <2>1 DEF TypeOK
<1>15. TypeOK'
  BY <1>0, <1>9, <1>11, <1>12, <1>13, <1>14 DEF TypeOK
<1>16. QED
  BY <1>10, <1>15 DEF TInv

\* The state of a batch that is being heard.
Hearing == [known : SUBSET Id, edge : [Holder -> Id \cup {None}], tasks : Seq(TaskType)]

LEMMA HeardFacts ==
  ASSUME NEW g \in Hearing, NEW d \in DeltaType
  PROVE  LET h == Heard(g, d)
             t == Task(d, d.id \in marked, Matches(Applied(g, d), d))
         IN  /\ h \in Hearing
             /\ d.op = "INSERT" /\ d.id \in g.known => h = g
             /\ ~(d.op = "INSERT" /\ d.id \in g.known) =>
                  /\ h.known = g.known \cup {d.id} \cup (IF "ref" \in d.fields THEN {d.row.ref} \ {None} ELSE {})
                  /\ h.edge = Applied(g, d).edge
                  /\ h.tasks = Append(g.tasks, t) /\ t \in TaskType
<1> DEFINE h == Heard(g, d)
           a == Applied(g, d)
           K == g.known \cup {d.id} \cup (IF "ref" \in d.fields THEN {d.row.ref} \ {None} ELSE {})
           E == IF d.id \in Holder /\ "ref" \in d.fields THEN [g.edge EXCEPT ![d.id] = d.row.ref] ELSE g.edge
<1>1. d.id \in Id /\ d.row.ref \in Id \cup {None} /\ d.row.ok \in BOOLEAN
  BY DEF DeltaType, Row
<1>2. a = [known |-> K, edge |-> E]
  BY DEF Applied
<1>3. K \in SUBSET Id /\ E \in [Holder -> Id \cup {None}]
  BY <1>1 DEF Hearing
<1>4. PICK w \in BOOLEAN : w = (d.id \in marked)
  <2>1. (d.id \in marked) \in BOOLEAN
    OBVIOUS
  <2>2. QED
    BY <2>1, Zenon
<1>5. Matches(a, d) \in BOOLEAN
  <2>1. PICK p \in BOOLEAN : p = (Subscribers(d.id) # {})
    OBVIOUS
  <2>2. PICK q \in BOOLEAN : q = d.row.ok
    BY <1>1
  <2>3. PICK r \in BOOLEAN : r = (d.id \in Child => Kind = "many" /\ a.edge[d.id] \in marked)
    OBVIOUS
  <2>4. Matches(a, d) = (p /\ q /\ r)
    BY <2>1, <2>2, <2>3 DEF Matches
  <2>5. QED
    BY <2>4
<1>6. PICK i \in BOOLEAN : i = Matches(a, d)
  BY <1>5
<1>7. PICK t : t = Task(d, d.id \in marked, Matches(a, d))
  OBVIOUS
<1>8. t = [delta |-> d, was |-> w, is |-> i]
  BY <1>4, <1>6, <1>7 DEF Task
<1>9. t \in TaskType
  BY <1>8 DEF TaskType
<1>10. g.tasks \in Seq(TaskType) /\ Append(g.tasks, t) \in Seq(TaskType)
  BY <1>9 DEF Hearing
<1>11. CASE d.op = "INSERT" /\ d.id \in g.known
  BY <1>11 DEF Heard
<1>12. CASE ~(d.op = "INSERT" /\ d.id \in g.known)
  <2> HIDE DEF K, E
  <2>1. a.known = K /\ a.edge = E
    BY <1>2
  <2>2. h = [known |-> K, edge |-> E, tasks |-> Append(g.tasks, t)]
    BY <1>7, <1>12, <2>1 DEF Heard
  <2>3. h \in Hearing
    BY <1>3, <1>10, <2>2 DEF Hearing
  <2>4. h.known = K /\ h.edge = a.edge /\ h.tasks = Append(g.tasks, t)
    BY <2>1, <2>2
  <2> HIDE DEF h, a
  <2>5. QED
    BY <1>7, <1>9, <1>12, <2>3, <2>4 DEF h, a, K
<1>13. QED
  BY <1>11, <1>12

\* What a notification does: the first write of the batch, then the second.
NotHeard == [known |-> known, edge |-> edge, tasks |-> <<>>]

LEMMA NotifyUnfolded ==
  ASSUME TInv, NEW k \in DOMAIN outbox, Notify(k)
  PROVE  /\ outbox[k] \in Batch /\ NotHeard \in Hearing
         /\ \E g1 \in Hearing, g \in Hearing :
              /\ g1 = Heard(NotHeard, outbox[k][1])
              /\ g = IF Len(outbox[k]) = 1 THEN g1 ELSE Heard(g1, outbox[k][2])
              /\ known' = g.known /\ edge' = g.edge /\ ready' = g.tasks
         /\ ready = <<>> /\ outbox' = RemoveAt(outbox, k)
         /\ UNCHANGED <<store, marked, nodes, reads, phase, view, missed>>
<1>1. outbox[k] \in Batch
  BY DEF TInv, Queues
<1>2. NotHeard \in Hearing
  BY DEF NotHeard, Hearing, TInv, TypeOK
<1>3. PICK b \in Batch : b = outbox[k]
  BY <1>1
<1>4. FoldLeft(Heard, NotHeard, b) = IF Len(b) = 1 THEN Heard(NotHeard, b[1]) ELSE Heard(Heard(NotHeard, b[1]), b[2])
  BY BatchHeard
<1>5. PICK g : g = FoldLeft(Heard, NotHeard, b)
  OBVIOUS
<1>6. known' = g.known /\ edge' = g.edge /\ ready' = g.tasks
  BY <1>3, <1>5 DEF Notify, NotHeard
<1>7. 1 \in DOMAIN b /\ b[1] \in DeltaType /\ (Len(b) # 1 => b[2] \in DeltaType)
  BY BatchSet
<1>8. PICK g1 \in Hearing : g1 = Heard(NotHeard, b[1])
  BY <1>2, <1>7, HeardFacts
<1>9. g \in Hearing /\ g = IF Len(b) = 1 THEN g1 ELSE Heard(g1, b[2])
  <2>1. CASE Len(b) = 1
    BY <1>4, <1>5, <1>8, <2>1
  <2>2. CASE Len(b) # 1
    <3>1. g = Heard(g1, b[2])
      BY <1>4, <1>5, <1>8, <2>2
    <3>2. Heard(g1, b[2]) \in Hearing
      BY <1>7, <1>8, <2>2, HeardFacts
    <3>3. QED
      BY <2>2, <3>1, <3>2
  <2>3. QED
    BY <2>1, <2>2
<1>10. \E h1 \in Hearing, h \in Hearing :
         /\ h1 = Heard(NotHeard, outbox[k][1])
         /\ h = IF Len(outbox[k]) = 1 THEN h1 ELSE Heard(h1, outbox[k][2])
         /\ known' = h.known /\ edge' = h.edge /\ ready' = h.tasks
  BY <1>3, <1>6, <1>8, <1>9
<1>11. QED
  BY <1>1, <1>2, <1>10 DEF Notify

LEMMA HeardTasks ==
  ASSUME NEW g \in Hearing, NEW d \in DeltaType, NEW h, h = Heard(g, d)
  PROVE  /\ h \in Hearing /\ g.known \subseteq h.known
         /\ \A t \in ToSet(h.tasks) : t \in ToSet(g.tasks) \/ (t.delta = d /\ d.id \in h.known)
<1>1. PICK t : t = Task(d, d.id \in marked, Matches(Applied(g, d), d))
  OBVIOUS
<1>2. t.delta = d
  BY <1>1 DEF Task
<1>3. /\ h \in Hearing
      /\ d.op = "INSERT" /\ d.id \in g.known => h = g
      /\ ~(d.op = "INSERT" /\ d.id \in g.known) =>
           /\ g.known \cup {d.id} \subseteq h.known
           /\ h.tasks = Append(g.tasks, t) /\ t \in TaskType
  BY <1>1, HeardFacts
<1>4. CASE d.op = "INSERT" /\ d.id \in g.known
  BY <1>3, <1>4
<1>5. CASE ~(d.op = "INSERT" /\ d.id \in g.known)
  <2>1. g.tasks \in Seq(TaskType)
    BY DEF Hearing
  <2>2. h.tasks = Append(g.tasks, t) /\ t \in TaskType
    BY <1>3, <1>5
  <2>3. ToSet(Append(g.tasks, t)) = ToSet(g.tasks) \cup {t}
    BY <2>1, <2>2, AppendSet
  <2>4. QED
    BY <1>2, <1>3, <1>5, <2>2, <2>3
<1>6. QED
  BY <1>4, <1>5

LEMMA NotifyTInv ==
  ASSUME TInv, NEW k \in DOMAIN outbox, Notify(k)
  PROVE  TInv'
<1>0. TypeOK /\ Queues
  BY DEF TInv
<1>1. PICK b \in Batch : b = outbox[k]
  BY NotifyUnfolded
<1>2. PICK g1 \in Hearing, g \in Hearing :
        /\ g1 = Heard(NotHeard, b[1]) /\ g = IF Len(b) = 1 THEN g1 ELSE Heard(g1, b[2])
        /\ known' = g.known /\ edge' = g.edge /\ ready' = g.tasks
  BY <1>1, NotifyUnfolded
<1>3. /\ NotHeard \in Hearing /\ outbox' = RemoveAt(outbox, k)
      /\ UNCHANGED <<store, marked, nodes, reads, phase, view, missed>>
  BY NotifyUnfolded
<1>4. 1 \in DOMAIN b /\ b[1] \in ToSet(b) /\ (Len(b) # 1 => b[2] \in ToSet(b)) /\ ToSet(b) \subseteq DeltaType
  BY BatchSet
<1>5. ToSet(NotHeard.tasks) = {} /\ NotHeard.known = known
  BY DEF NotHeard, ToSet
<1>6. known \subseteq g1.known /\ \A t \in ToSet(g1.tasks) : t.delta = b[1] /\ t.delta.id \in g1.known
  BY <1>2, <1>3, <1>4, <1>5, HeardTasks
<1>7. known \subseteq g.known /\ \A t \in ToSet(g.tasks) : t.delta \in ToSet(b) /\ t.delta.id \in g.known
  <2>1. CASE Len(b) = 1
    BY <1>2, <1>4, <1>6, <2>1
  <2>2. CASE Len(b) # 1
    <3>1. b[2] \in DeltaType /\ g = Heard(g1, b[2])
      BY <1>2, <1>4, <2>2
    <3>2. /\ g1.known \subseteq g.known
          /\ \A t \in ToSet(g.tasks) : t \in ToSet(g1.tasks) \/ (t.delta = b[2] /\ b[2].id \in g.known)
      BY <3>1, HeardTasks
    <3>3. QED
      BY <1>4, <1>6, <2>2, <3>2
  <2>3. QED
    BY <2>1, <2>2
<1>8. Box = Box' \cup ToSet(b) /\ outbox' \in Seq(Batch)
  <2>1. BoxOf(outbox) = BoxOf(RemoveAt(outbox, k)) \cup ToSet(outbox[k]) /\ RemoveAt(outbox, k) \in Seq(Batch)
    BY <1>0, BoxElements, RemoveAtSet DEF Queues
  <2>2. Box' = BoxOf(outbox')
    BY DEF Box, BoxOf
  <2>3. QED
    BY <1>1, <1>3, <2>1, <2>2 DEF Box
<1>9. ready' \in Seq(TaskType) /\ known' \subseteq Id /\ edge' \in [Holder -> Id \cup {None}]
  BY <1>2 DEF Hearing
<1>10. Tasks' = ToSet(g.tasks) /\ Reads' = Reads /\ roots' = roots /\ kids' = kids /\ linked' = linked
  BY <1>2, <1>3 DEF Tasks, Reads, nodes
<1>11. Queues'
  <2>1. \A d \in Box' : store'[d.id] # Absent
    BY <1>0, <1>3, <1>8 DEF Queues
  <2>2. \A t \in Tasks' : store'[t.delta.id] # Absent /\ t.delta.id \in known'
    <3>1. \A d \in ToSet(b) : store[d.id] # Absent
      BY <1>0, <1>8 DEF Queues
    <3>2. QED
      BY <1>2, <1>3, <1>7, <1>10, <3>1
  <2>3. \A x \in Reads' : /\ x.client \in roots' \cup {None}
                          /\ x.kind = "reply" => x.id = None
                          /\ x.kind = "tree" => x.id \in known' /\ store'[x.id] # Absent
    BY <1>0, <1>2, <1>3, <1>7, <1>10 DEF Queues
  <2>4. QED
    BY <1>0, <1>3, <1>8, <1>9, <2>1, <2>2, <2>3 DEF Queues
<1>12. TypeOK'
  BY <1>0, <1>2, <1>3, <1>7, <1>9, <1>10 DEF TypeOK
<1>13. QED
  BY <1>11, <1>12 DEF TInv

\* A delta and a tree leave what the subscribers know of its type.
LEMMA ToldType ==
  ASSUME TypeOK, NEW S, NEW d \in DeltaType
  PROVE  Told(S, d) \in [Client -> [Id -> [Field -> Held]]]
<1>1. ASSUME NEW held \in [Field -> Held] PROVE Learned(held, d.fields, d.fresh) \in [Field -> Held]
  BY DEF Learned, Held
<1>2. d.id \in Id
  BY DEF DeltaType
<1>3. ASSUME NEW s \in Client
      PROVE  (IF s \in S THEN [view[s] EXCEPT ![d.id] = Learned(@, d.fields, d.fresh)] ELSE view[s])
               \in [Id -> [Field -> Held]]
  <2>1. view[s] \in [Id -> [Field -> Held]]
    BY DEF TypeOK
  <2>2. PICK l \in [Field -> Held] : l = Learned(view[s][d.id], d.fields, d.fresh)
    BY <1>1, <1>2, <2>1
  <2>3. [view[s] EXCEPT ![d.id] = l] \in [Id -> [Field -> Held]]
    BY <2>1
  <2>4. QED
    BY <2>1, <2>2, <2>3
<1>4. QED
  BY <1>3 DEF Told

LEMMA FetchType ==
  ASSUME NEW id \in Id, reads \in Seq(ReadType), NEW x,
         x = Read("tree", id, None, id \in Root /\ linked /\ kids # {})
  PROVE  x \in ReadType /\ Fetch("tree", id) = Append(reads, x)
<1>1. (id \in Root /\ linked /\ kids # {}) \in BOOLEAN
  BY Zenon
<1>2. PICK i \in BOOLEAN : i = (id \in Root /\ linked /\ kids # {})
  BY <1>1, Zenon
<1>3. PICK y : y = [kind |-> "tree", id |-> id, client |-> None, include |-> i, orphan |-> FALSE,
                   tree |-> Unanswered]
  OBVIOUS
<1>4. y \in ReadType
  <2>1. id \in Id \cup {None} /\ None \in Client \cup {None} /\ Unanswered \in TreeType \cup {Unanswered}
    OBVIOUS
  <2>2. QED
    BY ONLY <1>3, <2>1, i \in BOOLEAN DEF ReadType
<1>5. x = y
  BY <1>2, <1>3 DEF Read
<1>6. QED
  BY <1>4, <1>5 DEF Fetch

LEMMA ContinueTInv ==
  ASSUME TInv, Continue
  PROVE  TInv'
<1>0. TypeOK /\ Queues /\ ready \in Seq(TaskType) /\ reads \in Seq(ReadType)
  BY DEF TInv, Queues
<1>1. PICK t : t = Head(ready)
  OBVIOUS
<1>2. /\ ready # <<>> /\ ready' = Tail(ready)
      /\ UNCHANGED <<store, outbox, known, edge, nodes, phase>>
  BY DEF Continue
<1>3. t \in TaskType /\ t \in Tasks /\ Tasks = ToSet(Tail(ready)) \cup {t} /\ Tail(ready) \in Seq(TaskType)
  BY <1>0, <1>1, <1>2, TailSet DEF Tasks
<1>4. PICK d \in DeltaType : d = t.delta /\ d.id \in Id
  BY <1>3 DEF TaskType, DeltaType
<1>5. d.id \in known /\ store[d.id] # Absent
  BY <1>0, <1>3, <1>4 DEF Queues
<1>6. /\ marked' \subseteq marked \cup {d.id}
      /\ reads' = reads \/ reads' = Fetch("tree", d.id)
      /\ view' = view \/ view' = Told(Subscribers(d.id), d)
      /\ missed' \subseteq missed
  <2>1. TakeInsert(t) \/ TakeUpdate(t)
    BY <1>1 DEF Continue
  <2>2. CASE TakeInsert(t)
    BY <1>4, <2>2 DEF TakeInsert, Given
  <2>3. CASE TakeUpdate(t)
    BY <1>4, <2>3 DEF TakeUpdate
  <2>4. QED
    BY <2>1, <2>2, <2>3
<1>7. /\ reads' \in Seq(ReadType)
      /\ \A x \in Reads' : x \in Reads \/ (x.kind = "tree" /\ x.id = d.id /\ x.client = None)
  <2>1. CASE reads' = reads
    BY <1>0, <2>1 DEF Reads
  <2>2. CASE reads' = Fetch("tree", d.id)
    <3>1. PICK x : x = Read("tree", d.id, None, d.id \in Root /\ linked /\ kids # {})
      OBVIOUS
    <3>2. x \in ReadType /\ reads' = Append(reads, x)
      BY <1>0, <1>4, <2>2, <3>1, FetchType
    <3>3. reads' \in Seq(ReadType) /\ Reads' = Reads \cup {x}
      BY <1>0, <3>2, ReadAdded
    <3>4. x.kind = "tree" /\ x.id = d.id /\ x.client = None
      BY <3>1 DEF Read
    <3>5. QED
      BY <3>3, <3>4
  <2>3. QED
    BY <1>6, <2>1, <2>2
<1>8. Tasks' = ToSet(Tail(ready)) /\ ready' \in Seq(TaskType) /\ Box' = Box
      /\ roots' = roots /\ kids' = kids /\ linked' = linked
  BY <1>2, <1>3 DEF Tasks, Box, nodes
<1>9. Queues'
  <2>1. \A u \in Tasks' : store'[u.delta.id] # Absent /\ u.delta.id \in known'
    BY <1>0, <1>2, <1>3, <1>8 DEF Queues
  <2>2. \A x \in Reads' : /\ x.client \in roots' \cup {None}
                          /\ x.kind = "reply" => x.id = None
                          /\ x.kind = "tree" => x.id \in known' /\ store'[x.id] # Absent
    BY <1>0, <1>2, <1>5, <1>7, <1>8 DEF Queues
  <2>3. QED
    BY <1>0, <1>2, <1>7, <1>8, <2>1, <2>2 DEF Queues
<1>10. view' \in [Client -> [Id -> [Field -> Held]]]
  <2>1. CASE view' = view
    BY <1>0, <2>1 DEF TypeOK
  <2>2. CASE view' = Told(Subscribers(d.id), d)
    BY <1>0, <2>2, ToldType
  <2>3. QED
    BY <1>6, <2>1, <2>2
<1>11. TypeOK'
  BY <1>0, <1>2, <1>5, <1>6, <1>8, <1>10 DEF TypeOK
<1>12. QED
  BY <1>9, <1>11 DEF TInv

\* What ingesting rows of a tree does to the graph.
LEMMA IngestedFacts ==
  ASSUME TypeOK, NEW tree \in TreeType, NEW ids \in SUBSET DOMAIN tree, Ingested(tree, ids)
  PROVE  /\ ids \subseteq Id /\ edge' \in [Holder -> Id \cup {None}]
         /\ known' \subseteq Id /\ known \cup ids \subseteq known'
         /\ \A id \in known' : id \in known \cup ids \/ \E h \in ids : id = tree[h].ref /\ id # None
         /\ \A h \in Holder : edge'[h] = IF h \in ids /\ tree[h].ref # None THEN tree[h].ref ELSE edge[h]
<1>1. PICK S \in SUBSET Id : tree \in [S -> [fresh : SUBSET Field, ref : Id \cup {None}]]
  BY DEF TreeType
<1>2. ids \subseteq S /\ ids \subseteq Id /\ \A h \in ids : tree[h].ref \in Id \cup {None}
  BY <1>1
<1>3. edge' = [h \in Holder |-> IF h \in ids /\ tree[h].ref # None THEN tree[h].ref ELSE edge[h]]
  BY DEF Ingested
<1>4. edge \in [Holder -> Id \cup {None}] /\ known \subseteq Id
  BY DEF TypeOK
<1>5. known' = known \cup ids \cup ({tree[h].ref : h \in ids} \ {None})
  BY DEF Ingested
<1>6. edge' \in [Holder -> Id \cup {None}]
  BY <1>2, <1>3, <1>4
<1>7. QED
  BY <1>2, <1>3, <1>4, <1>5, <1>6

LEMMA LearnedTree ==
  ASSUME TypeOK, NEW tree \in TreeType, NEW s \in Client, NEW id \in Id
  PROVE  /\ id \in DOMAIN tree => Learned(view[s][id], Field, tree[id].fresh) \in [Field -> Held]
         /\ view[s][id] \in [Field -> Held]
<1>1. view[s][id] \in [Field -> Held]
  BY DEF TypeOK
<1>2. QED
  BY <1>1 DEF Learned, Held

LEMMA DeliverTInv ==
  ASSUME TInv, NEW i \in DOMAIN reads, Deliver(i)
  PROVE  TInv'
<1>0. TypeOK /\ Queues
  BY DEF TInv
<1>1. PICK x \in ReadType : x = reads[i] /\ x \in Reads /\ x.tree \in TreeType
  <2>1. reads[i] \in ReadType /\ reads[i] \in Reads
    BY <1>0 DEF Queues, Reads, ToSet
  <2>2. reads[i].tree # Unanswered
    BY DEF Deliver
  <2>3. reads[i].tree \in TreeType
    BY <2>1, <2>2 DEF ReadType
  <2>4. QED
    BY <2>1, <2>3
<1>2. /\ Reply(i) \/ Tree(i)
      /\ reads' = RemoveAt(reads, i) /\ UNCHANGED <<store, outbox, nodes, ready>>
  BY DEF Deliver
<1>3. /\ x.client \in roots \cup {None}
      /\ x.kind = "tree" => x.id \in known /\ store[x.id] # Absent
  BY <1>0, <1>1 DEF Queues
<1>4. /\ \E ids \in SUBSET DOMAIN x.tree : Ingested(x.tree, ids) /\ marked' \subseteq marked \cup ids \cup {y \in {x.id} : y \in known}
      /\ phase' \in [Client -> {"out", "reading", "in"}] /\ roots = {c \in Client : phase'[c] # "out"}
      /\ missed' \subseteq roots \X Child
      /\ view' \in [Client -> [Id -> [Field -> Held]]]
  <2>1. CASE Reply(i)
    <3> DEFINE ids == DOMAIN x.tree
               ingested == IF roots = {} THEN {} ELSE IF kids = {} THEN ids \cap Root ELSE ids
    <3>1. /\ Ingested(x.tree, ingested)
          /\ marked' = marked \cup (IF x.include THEN ingested ELSE ingested \cap Root)
          /\ phase' = IF x.client = None THEN phase ELSE [phase EXCEPT ![x.client] = "in"]
          /\ missed' = IF x.client \notin kids THEN missed
                       ELSE missed \cup ({x.client} \X ((marked \cap Child) \ ids))
      BY <1>1, <2>1 DEF Reply
    <3>2. view' = [s \in Client |-> [id \in Id |->
                    IF id \in DOMAIN x.tree /\ s = x.client
                    THEN Learned(view[s][id], Field, x.tree[id].fresh) ELSE view[s][id]]]
      BY <1>1, <2>1, Zenon DEF Reply, Shown
    <3>3. view' \in [Client -> [Id -> [Field -> Held]]]
      BY <1>0, <1>1, <3>2, LearnedTree
    <3>4. ingested \in SUBSET DOMAIN x.tree
      OBVIOUS
    <3>5. phase' \in [Client -> {"out", "reading", "in"}] /\ roots = {c \in Client : phase'[c] # "out"}
      BY <1>0, <1>3, <3>1 DEF TypeOK
    <3>6. missed' \subseteq roots \X Child
      BY <1>0, <1>3, <3>1, IdsApart DEF TypeOK
    <3> HIDE DEF ingested
    <3>7. QED
      BY <3>1, <3>3, <3>4, <3>5, <3>6
  <2>2. CASE Tree(i)
    <3> DEFINE ids == DOMAIN x.tree
               below == IF kids = {} THEN {} ELSE ids \ {x.id}
               sent == IF linked THEN below ELSE {}
               hears(s, id) == IF id = x.id THEN s \in Subscribers(id) /\ ~x.orphan ELSE id \in sent /\ s \in kids
    <3>1. /\ Ingested(x.tree, below) /\ marked' = marked \cup {x.id} \cup below
          /\ missed' \subseteq missed /\ phase' = phase /\ x.kind = "tree"
      BY <1>1, <2>2 DEF Tree
    <3>2. view' = [s \in Client |-> [id \in Id |->
                    IF id \in DOMAIN x.tree /\ hears(s, id)
                    THEN Learned(view[s][id], Field, x.tree[id].fresh) ELSE view[s][id]]]
      BY <1>1, <2>2, Zenon DEF Tree, Shown
    <3>3. below \in SUBSET DOMAIN x.tree
      OBVIOUS
    <3> HIDE DEF hears, below
    <3>4. view' \in [Client -> [Id -> [Field -> Held]]]
      BY <1>0, <1>1, <3>2, LearnedTree
    <3>5. QED
      BY <1>0, <1>3, <3>1, <3>3, <3>4 DEF TypeOK
  <2>3. QED
    BY <1>2, <2>1, <2>2
<1>5. PICK ids \in SUBSET DOMAIN x.tree :
        Ingested(x.tree, ids) /\ marked' \subseteq marked \cup ids \cup {y \in {x.id} : y \in known}
  BY <1>4
<1>6. /\ edge' \in [Holder -> Id \cup {None}] /\ known' \subseteq Id /\ known \cup ids \subseteq known'
  BY <1>0, <1>1, <1>5, IngestedFacts
<1>7. reads' \in Seq(ReadType) /\ Reads' \subseteq Reads
  <2>1. RemoveAt(reads, i) \in Seq(ReadType) /\ ToSet(reads) = ToSet(RemoveAt(reads, i)) \cup {reads[i]}
    BY <1>0, RemoveAtSet DEF Queues
  <2>2. QED
    BY <1>2, <2>1 DEF Reads
<1>8. Tasks' = Tasks /\ Box' = Box /\ roots' = roots /\ kids' = kids /\ linked' = linked
      /\ store' = store /\ outbox' = outbox /\ ready' = ready
  BY <1>2 DEF Tasks, Box, nodes
<1>9. Queues'
  <2>1. \A z \in Reads' : /\ z.client \in roots \cup {None}
                          /\ z.kind = "reply" => z.id = None
                          /\ z.kind = "tree" => z.id \in known' /\ store[z.id] # Absent
    BY <1>0, <1>6, <1>7 DEF Queues
  <2>2. \A t \in Tasks : store[t.delta.id] # Absent /\ t.delta.id \in known'
    BY <1>0, <1>6 DEF Queues
  <2>3. QED
    BY <1>0, <1>7, <1>8, <2>1, <2>2 DEF Queues
<1>10. TypeOK'
  BY <1>0, <1>4, <1>5, <1>6, <1>8 DEF TypeOK
<1>11. QED
  BY <1>9, <1>10 DEF TInv

LEMMA InitTInv == Init => TInv
<1> SUFFICES ASSUME Init PROVE TInv
  OBVIOUS
<1>1. Box = {} /\ Tasks = {} /\ Reads = {}
  BY DEF Init, Box, BoxOf, Tasks, Reads, ToSet
<1>2. Queues
  BY <1>1 DEF Init, Queues
<1>3. TypeOK
  BY DEF Init, TypeOK, Held
<1>4. QED
  BY <1>2, <1>3 DEF TInv

LEMMA NextTInv == TInv /\ [Next]_vars => TInv'
<1> SUFFICES ASSUME TInv, [Next]_vars PROVE TInv'
  OBVIOUS
<1>1. CASE \E d \in Possible(store) : Commit(<<d>>)
  BY <1>1, CommitsAreWritable, CommitTInv
<1>2. CASE CommitTransaction
  BY <1>2, CommitsAreWritable, CommitTInv
<1>3. CASE \E i \in DOMAIN reads : Answer(i)
  BY <1>3, AnswerTInv
<1>4. CASE \E s \in Client, include \in BOOLEAN : Subscribe(s, include)
  BY <1>4, SubscribeTInv
<1>5. CASE \E s \in Client : Unsubscribe(s)
  BY <1>5, UnsubscribeTInv
<1>6. CASE \E k \in DOMAIN outbox : Notify(k)
  BY <1>6, NotifyTInv
<1>7. CASE Continue
  BY <1>7, ContinueTInv
<1>8. CASE \E i \in DOMAIN reads : Deliver(i)
  BY <1>8, DeliverTInv
<1>9. CASE UNCHANGED vars
  <2>1. Box' = Box /\ Tasks' = Tasks /\ Reads' = Reads
    BY <1>9 DEF vars, Box, Tasks, Reads
  <2>2. Queues'
    BY <1>9, <2>1 DEF TInv, Queues, vars, nodes, graph
  <2>3. TypeOK'
    BY <1>9 DEF TInv, TypeOK, vars, nodes, graph
  <2>4. QED
    BY <2>2, <2>3 DEF TInv
<1>10. QED
  BY <1>1, <1>2, <1>3, <1>4, <1>5, <1>6, <1>7, <1>8, <1>9 DEF Next

LEMMA AlwaysTInv == Spec => []TInv
BY InitTInv, NextTInv, PTL DEF Spec

\* The state has its type.
THEOREM TypeCorrect == Spec => []TypeOK
<1>1. TInv => TypeOK
  BY DEF TInv
<1>2. QED
  BY <1>1, AlwaysTInv, PTL

-----------------------------------------------------------------------------
(* The inductive invariant, while no two operations on related rows meet    *)
(* and a child refers to its root.                                         *)

Calm == Kind = "many" /\ ~Meetings

\* A row with work under way has one write or read of it.
Once ==
  /\ \A i, k \in DOMAIN outbox : \A j \in DOMAIN outbox[i], l \in DOMAIN outbox[k] :
       outbox[i][j].id = outbox[k][l].id => i = k /\ j = l
  /\ \A i, j \in DOMAIN ready : ready[i].delta.id = ready[j].delta.id => i = j
  /\ \A i, j \in DOMAIN reads : reads[i].id = reads[j].id => i = j
  /\ \A d \in Box, t \in Tasks : d.id # t.delta.id
  /\ \A d \in Box, x \in Reads : d.id # x.id
  /\ \A t \in Tasks, x \in Reads : t.delta.id # x.id

\* The read of a subscriber's reply is alone.
Alone == \A x \in Reads : x.kind = "reply" => outbox = <<>> /\ ready = <<>> /\ Len(reads) = 1

\* A write under way left the row as it is stored.
WrittenNow(d) ==
  /\ store[d.id] = d.row /\ d.fresh = d.fields
  /\ d.op = "INSERT" => d.fields = Field
  /\ d.id \in Root => d.op = "INSERT" \/ d.fields = {"ok"}
Writes == (\A d \in Box : WrittenNow(d)) /\ (\A t \in Tasks : WrittenNow(t.delta))

RefStored == \A id \in Id : store[id] # Absent => store[id].ref = None \/ store[store[id].ref] # Absent
KnownStored == \A id \in known : store[id] # Absent

\* A row is inserted before what refers to it, in the same batch if at all.
RefsFirst ==
  \A k, m \in DOMAIN outbox : \A l \in DOMAIN outbox[k], n \in DOMAIN outbox[m] :
    outbox[m][n].op = "INSERT" /\ outbox[k][l].row.ref = outbox[m][n].id => k = m /\ n < l

\* Nobody has heard of a row that is not there, nor has who has no reply yet.
Unseen ==
  \A s \in Client, id \in Id :
    store[id] = Absent \/ phase[s] # "in" => \A f \in Field : view[s][id][f] = "none"

\* A task knows whether its row is matched, and a root's if it is to be.
TaskWas ==
  \A t \in Tasks :
    /\ t.was <=> t.delta.id \in marked
    /\ t.delta.op = "INSERT" => ~t.was
    /\ t.is => Subscribers(t.delta.id) # {}
    /\ t.delta.id \in Root => (t.is <=> roots # {} /\ t.delta.row.ok)

Scoped(r) == store[r] # Absent /\ store[r].ok

\* An answer is the stored row with children of it, or the rows in scope.
TreeOK(x) ==
  /\ x.id \in DOMAIN x.tree
  /\ \A id \in DOMAIN x.tree : x.tree[id].fresh = Field /\ store[id] # Absent /\ x.tree[id].ref = store[id].ref
  /\ \A c \in DOMAIN x.tree \ {x.id} : c \in Child /\ x.id \in Root /\ store[c].ref = x.id
ReplyOK(x) ==
  /\ DOMAIN x.tree = InScope \cup (IF x.include THEN UNION {Included(r) : r \in InScope} ELSE {})
  /\ \A id \in DOMAIN x.tree : x.tree[id].fresh = Field /\ x.tree[id].ref = store[id].ref
TreeReadOK(x) ==
  /\ x.client = None /\ x.id \in marked /\ Subscribers(x.id) # {}
  /\ x.include <=> x.id \in Root /\ kids # {}
  /\ x.id \in Root => Scoped(x.id)
  /\ x.tree # Unanswered => TreeOK(x)
ReplyReadOK(x) ==
  /\ x.client \in roots /\ phase[x.client] = "reading"
  /\ x.include <=> x.client \in kids
  /\ x.tree # Unanswered => ReplyOK(x)
ReadOK(x) ==
  /\ ~x.orphan
  /\ x.kind = "tree" => TreeReadOK(x)
  /\ x.kind = "reply" => ReplyReadOK(x)
ReadsOK ==
  /\ \A x \in Reads : ReadOK(x)
  /\ \A s \in Client : phase[s] = "reading" => \E x \in Reads : x.kind = "reply" /\ x.client = s

\* The subscribers that have their reply, and what is still to be told.
Old == {s \in Client : phase[s] = "in"}
OldKids == kids \cap Old
Pending == Box \cup {t.delta : t \in Tasks}
TreeRead(id) == \E x \in Reads : x.kind = "tree" /\ x.id = id

\* A root is matched, and held as it is stored, if it is in scope (in): as it
\* is, or as it was before the write under way.
MarkedOK(r, in) == (r \in marked => in) /\ (Old # {} /\ in => r \in marked)
Views(r, in, fields) ==
  \A s \in Old : /\ in => \A f \in Field \ fields : view[s][r][f] = "current"
                 /\ "ok" \notin fields => view[s][r]["ok"] # "old"
Was(d) == d.op # "INSERT" /\ ~d.row.ok
Behind(d) == IF d.op = "INSERT" THEN {} ELSE d.fields
RootOK(r) ==
  /\ \A d \in Box : d.id = r /\ d.op = "INSERT" => r \notin known
  /\ (\A d \in Pending : d.id # r) /\ ~TreeRead(r) => MarkedOK(r, Scoped(r)) /\ Views(r, Scoped(r), {})
  /\ \A d \in Pending : d.id = r => MarkedOK(r, Was(d)) /\ Views(r, Was(d), Behind(d))
RootInv == \A r \in Root : RootOK(r)

\* A child of a row in scope is matched, or what will match it is under way.
Due(c) == store[c] # Absent /\ store[c].ok /\ store[c].ref # None /\ Scoped(store[c].ref)
Covering(c, r) ==
  \/ \E d \in Box : d.id = r
  \/ \E t \in Tasks : t.delta.id = r /\ ~t.was /\ t.is
  \/ \E x \in Reads : x.kind = "tree" /\ x.id = r /\ (x.tree = Unanswered \/ c \in DOMAIN x.tree)
Covered(c) ==
  \/ \E d \in Box : d.id = c
  \/ c \in marked /\ \A t \in Tasks : t.delta.id = c => t.is
  \/ \E t \in Tasks : t.delta.id = c /\ t.is
  \/ Covering(c, store[c].ref)
DueCovered(c) == Due(c) /\ OldKids # {} => Covered(c)

\* An INSERT the engine will ignore is of a child a tree has brought.
InsertKnown(c) ==
  (\E d \in Box : d.id = c /\ d.op = "INSERT") /\ c \in known =>
    /\ kids # {} => c \in marked
    /\ \A s \in kids : <<s, c>> \notin missed => Whole(s, c)
\* The edge of a child is its reference, or a write that sets it is under way.
EdgeOK(c) ==
  store[c] # Absent =>
    \/ edge[c] = store[c].ref
    \/ \E d \in Box : d.id = c /\ "ref" \in d.fields /\ ~(d.op = "INSERT" /\ c \in known)
KidViews(c) ==
  c \in marked /\ ~TreeRead(c) =>
    \A s \in OldKids : <<s, c>> \notin missed =>
      \A f \in Field : view[s][c][f] = "current" \/ \E d \in Pending : d.id = c /\ f \in d.fields
ChildInv == \A c \in Child : InsertKnown(c) /\ EdgeOK(c) /\ DueCovered(c) /\ KidViews(c)

Inv ==
  /\ TInv /\ Once /\ Alone /\ Writes /\ RefStored /\ KnownStored /\ RefsFirst
  /\ Unseen /\ TaskWas /\ ReadsOK /\ RootInv /\ ChildInv

LEMMA ManyRefer ==
  ASSUME Kind = "many"
  PROVE  /\ Holder = Child
         /\ \A c \in Child : Target(c) = Root \cup {None}
         /\ \A r \in Root : Target(r) = {None} /\ Included(r) = {c \in Child : store[c] # Absent /\ store[c].ok /\ store[c].ref = r}
<1>1. Holder = Child /\ Id \ Child = Root
  BY IdsApart DEF Holder
<1>2. QED
  BY <1>1, IdsApart DEF Target, Included

\* Types of what is under way, element by element.
LEMMA UnderWay ==
  ASSUME TInv
  PROVE  /\ \A d \in Box : d \in DeltaType /\ d.id \in Id /\ d.row \in Row
         /\ \A t \in Tasks : t \in TaskType /\ t.delta \in DeltaType /\ t.delta.id \in Id /\ t.delta.row \in Row
         /\ \A x \in Reads : x \in ReadType
         /\ \A k \in DOMAIN outbox : outbox[k] \in Batch /\ \A j \in DOMAIN outbox[k] : outbox[k][j] \in Box
         /\ \A i \in DOMAIN ready : ready[i] \in Tasks
         /\ \A i \in DOMAIN reads : reads[i] \in Reads
<1>0. outbox \in Seq(Batch) /\ ready \in Seq(TaskType) /\ reads \in Seq(ReadType)
  BY DEF TInv, Queues
<1>1. \A d \in Box : d \in DeltaType
  BY <1>0, BoxElements DEF Box
<1>2. Tasks \subseteq TaskType /\ Reads \subseteq ReadType
  BY <1>0, SetOfSeq DEF Tasks, Reads
<1>3. \A k \in DOMAIN outbox : outbox[k] \in Batch /\ \A j \in DOMAIN outbox[k] : outbox[k][j] \in Box
  BY <1>0, BoxElements DEF Box
<1>4. (\A i \in DOMAIN ready : ready[i] \in Tasks) /\ \A i \in DOMAIN reads : reads[i] \in Reads
  BY DEF Tasks, Reads, ToSet
<1>5. QED
  BY <1>1, <1>2, <1>3, <1>4 DEF TaskType, DeltaType

Apart ==
  /\ \A d, e \in Box : d.id = e.id => d = e
  /\ \A t, u \in Tasks : t.delta.id = u.delta.id => t = u
  /\ \A x, y \in Reads : x.id = y.id => x = y
  /\ \A d \in Box, t \in Tasks : d.id # t.delta.id
  /\ \A d \in Box, x \in Reads : d.id # x.id
  /\ \A t \in Tasks, x \in Reads : t.delta.id # x.id

LEMMA OnceApart ==
  ASSUME TInv, Once
  PROVE  Apart
<1>1. outbox \in Seq(Batch)
  BY DEF TInv, Queues
<1>2. \A d \in Box : \E k \in DOMAIN outbox : \E j \in DOMAIN outbox[k] : d = outbox[k][j]
  BY <1>1, BoxElements DEF Box
<1>3. \A d, e \in Box : d.id = e.id => d = e
  <2>1. TAKE d, e \in Box
  <2>2. PICK k \in DOMAIN outbox : \E j \in DOMAIN outbox[k] : d = outbox[k][j]
    BY <1>2
  <2>3. PICK j \in DOMAIN outbox[k] : d = outbox[k][j]
    BY <2>2
  <2>4. PICK m \in DOMAIN outbox : \E l \in DOMAIN outbox[m] : e = outbox[m][l]
    BY <1>2
  <2>5. PICK l \in DOMAIN outbox[m] : e = outbox[m][l]
    BY <2>4
  <2>6. d.id = e.id => k = m /\ j = l
    BY <2>3, <2>5 DEF Once
  <2>7. QED
    BY <2>3, <2>5, <2>6
<1>4. \A t, u \in Tasks : t.delta.id = u.delta.id => t = u
  BY DEF Once, Tasks, ToSet
<1>5. \A x, y \in Reads : x.id = y.id => x = y
  BY DEF Once, Reads, ToSet
<1>6. QED
  BY <1>3, <1>4, <1>5 DEF Apart, Once

-----------------------------------------------------------------------------
(* A commit.                                                               *)

Committed(W) ==
  /\ W # {} /\ W \subseteq DeltaType /\ WritesOf(W, store) /\ RowsPut(W)
  /\ Box' = Box \cup W /\ ready' = ready /\ reads' = reads
  /\ \A d \in W : /\ \A e \in Box : e.id # d.id /\ e.id # d.row.ref
                  /\ \A t \in Tasks : t.delta.id # d.id
                  /\ \A x \in Reads : x.id # d.id /\ x.kind = "tree"
                  /\ d.op = "UPDATE" => \A x \in Reads : x.id # d.row.ref /\ x.id # store[d.id].ref
  /\ \A s \in Client, id \in Id, f \in Field :
       /\ view'[s][id][f] = view[s][id][f]
            \/ (view[s][id][f] = "current" /\ view'[s][id][f] = "old" /\ \E d \in W : d.id = id /\ f \in d.fields)
  /\ UNCHANGED <<known, edge, marked, roots, kids, linked, phase, missed>>

\* What is under way is not aged by a commit.
LEMMA NothingAged ==
  ASSUME Inv, NEW ws, FieldsOf(ws, None) = {},
         \A d \in Box : FieldsOf(ws, d.id) = {},
         \A t \in Tasks : FieldsOf(ws, t.delta.id) = {},
         \A x \in Reads : x.tree # Unanswered => \A id \in DOMAIN x.tree : FieldsOf(ws, id) = {},
         Put(ws), ws \in Batch
  PROVE  outbox' = Append(outbox, ws) /\ ready' = ready /\ reads' = reads
<1>0. TInv /\ outbox \in Seq(Batch) /\ ready \in Seq(TaskType) /\ reads \in Seq(ReadType)
  BY DEF Inv, TInv, Queues
<1>1. /\ outbox' = Append([i \in DOMAIN outbox |-> AgedBatch(ws, outbox[i])], ws)
      /\ ready' = [i \in DOMAIN ready |-> AgedTask(ws, ready[i])]
      /\ reads' = [i \in DOMAIN reads |-> [reads[i] EXCEPT !.tree = TreeAged(ws, reads[i].tree)]]
  BY PutUnfolded
<1>2. ASSUME NEW i \in DOMAIN outbox PROVE AgedBatch(ws, outbox[i]) = outbox[i]
  <2>1. outbox[i] \in Batch /\ \A j \in DOMAIN outbox[i] : FieldsOf(ws, outbox[i][j].id) = {}
    BY <1>0, UnderWay
  <2>2. QED
    BY <2>1, AgedBatchFacts
<1>3. [i \in DOMAIN outbox |-> AgedBatch(ws, outbox[i])] = outbox
  BY <1>0, <1>2
<1>4. ASSUME NEW i \in DOMAIN ready PROVE AgedTask(ws, ready[i]) = ready[i]
  <2>1. PICK t \in Tasks : t = ready[i] /\ t \in TaskType
    BY <1>0, UnderWay
  <2>2. FieldsOf(ws, t.delta.id) = {}
    OBVIOUS
  <2>3. AgedTask(ws, t) = t
    <3>1. PICK fs : fs = FieldsOf(ws, t.delta.id)
      OBVIOUS
    <3>2. AgedTask(ws, t) = [t EXCEPT !.delta = [t.delta EXCEPT !.fresh = @ \ fs]]
      BY <3>1 DEF AgedTask
    <3>3. t.delta.fresh \cap fs = {}
      BY <2>2, <3>1
    <3>4. QED
      BY <2>1, <3>2, <3>3, AgedTaskFacts
  <2>4. QED
    BY <2>1, <2>3
<1>5. ready' = ready
  BY <1>0, <1>1, <1>4
<1>6. ASSUME NEW i \in DOMAIN reads PROVE [reads[i] EXCEPT !.tree = TreeAged(ws, reads[i].tree)] = reads[i]
  <2>1. PICK x \in Reads : x = reads[i] /\ x \in ReadType
    BY <1>0, UnderWay
  <2>2. TreeAged(ws, x.tree) = x.tree
    <3>1. CASE x.tree = Unanswered
      BY <3>1 DEF TreeAged
    <3>2. CASE x.tree # Unanswered
      <4>1. PICK tree \in TreeType : tree = x.tree
        BY <2>1, <3>2 DEF ReadType
      <4>2. PICK S \in SUBSET Id : tree \in [S -> [fresh : SUBSET Field, ref : Id \cup {None}]]
        BY DEF TreeType
      <4>3. \A id \in S : [tree[id] EXCEPT !.fresh = @ \ FieldsOf(ws, id)] = tree[id]
        BY <3>2, <4>1, <4>2
      <4>4. [id \in DOMAIN tree |-> [tree[id] EXCEPT !.fresh = @ \ FieldsOf(ws, id)]] = tree
        BY <4>2, <4>3
      <4>5. QED
        BY <3>2, <4>1, <4>4 DEF TreeAged
    <3>3. QED
      BY <3>1, <3>2
  <2>3. [x EXCEPT !.tree = x.tree] = x
    BY <2>1 DEF ReadType
  <2>4. QED
    BY <2>1, <2>2, <2>3
<1>7. reads' = reads
  BY <1>0, <1>1, <1>6
<1>8. QED
  BY <1>1, <1>3, <1>5, <1>7

LEMMA CommitEffect ==
  ASSUME Calm, Inv, NEW ws, Writable(ws, store), Commit(ws)
  PROVE  Committed(ToSet(ws)) /\ outbox' = Append(outbox, ws)
<1> DEFINE W == ToSet(ws)
<1>0. TInv /\ TypeOK /\ store \in [Id -> Row \cup {Absent}] /\ outbox \in Seq(Batch)
  BY DEF Inv, TInv, TypeOK, Queues
<1>1. Put(ws) /\ UNCHANGED <<graph, nodes, phase, missed>> /\ ws \in Batch /\ \A d \in W : ~Meets(d)
  BY DEF Commit, Writable, Calm
<1>2. RowsPut(W) /\ WritesOf(W, store) /\ W \subseteq DeltaType /\ W # {}
  BY <1>0, <1>1, RowsOfPut, WritableSet, BatchSet
<1>3. Written = {d.id : d \in Box}
  BY DEF Written, Box, BoxOf
<1>4. /\ \A x \in Reads : x.id # None => x.id \in BeingRead
      /\ \A x \in Reads : x.id = None => Id \subseteq BeingRead
      /\ \A x \in Reads : x.id = None => x.kind # "tree"
      /\ \A x \in Reads : x.kind \in {"reply", "tree"}
      /\ \A x \in Reads : x.kind = "reply" => x.id = None
  <2>1. \A x \in Reads : IF x.id = None THEN Id \subseteq BeingRead ELSE x.id \in BeingRead
    BY DEF BeingRead, Reads
  <2>2. \A x \in Reads : x.kind = "reply" => x.id = None
    BY <1>0 DEF TInv, Queues
  <2>3. \A x \in Reads : x.kind \in {"reply", "tree"}
    BY <1>0, UnderWay DEF ReadType
  <2>4. \A x \in Reads : x.kind = "tree" => x.id \in Id
    BY <1>0 DEF TInv, Queues, TypeOK
  <2>5. QED
    BY <2>1, <2>2, <2>3, <2>4, IdsApart
<1>5. ASSUME NEW d \in W
      PROVE  /\ d.id \in Id
             /\ \A e \in Box : e.id # d.id /\ e.id # d.row.ref
             /\ \A t \in Tasks : t.delta.id # d.id
             /\ \A x \in Reads : x.id # d.id /\ x.kind = "tree"
             /\ d.op = "UPDATE" => \A x \in Reads : x.id # d.row.ref /\ x.id # store[d.id].ref
  <2>1. d.id \in Id
    BY <1>2 DEF DeltaType
  <2>2. /\ d.id \notin Written /\ d.id \notin BeingRead /\ d.row.ref \notin Written
        /\ d.id \notin {t.delta.id : t \in Tasks}
        /\ d.op = "UPDATE" => d.row.ref \notin BeingRead /\ store[d.id].ref \notin BeingRead
    BY <1>1 DEF Meets, Busy, Tasks
  <2>3. \A x \in Reads : x.id # None /\ x.id \in BeingRead
    BY <1>4, <2>1, <2>2
  <2>4. QED
    BY <1>3, <1>4, <2>1, <2>2, <2>3
<1> HIDE DEF W
<1>6. \A id : (\A d \in W : d.id # id) => FieldsOf(ws, id) = {}
  BY DEF FieldsOf, W
<1>7. \A x \in Reads : x.tree # Unanswered => \A id \in DOMAIN x.tree : \A d \in W : d.id # id
  <2>1. SUFFICES ASSUME NEW x \in Reads, x.tree # Unanswered, NEW id \in DOMAIN x.tree, NEW d \in W
                 PROVE  d.id # id
    OBVIOUS
  <2>2. ReadOK(x) /\ x.kind = "tree"
    BY <1>5 DEF Inv, ReadsOK
  <2>3. TreeOK(x)
    BY <2>1, <2>2 DEF ReadOK, TreeReadOK
  <2>4. CASE id = x.id
    BY <1>5, <2>4
  <2>5. CASE id # x.id
    <3>1. store[id] # Absent /\ store[id].ref = x.id
      BY <2>3, <2>5 DEF TreeOK
    <3>2. SUFFICES ASSUME d.id = id PROVE FALSE
      OBVIOUS
    <3>3. d.op = "UPDATE"
      BY <1>2, <3>1, <3>2 DEF WritesOf, Fits, DeltaType
    <3>4. QED
      BY <1>5, <3>1, <3>2, <3>3
  <2>6. QED
    BY <2>4, <2>5
<1>8. outbox' = Append(outbox, ws) /\ ready' = ready /\ reads' = reads
  <2>1. \A d \in Box : FieldsOf(ws, d.id) = {}
    BY <1>5, <1>6
  <2>2. \A t \in Tasks : FieldsOf(ws, t.delta.id) = {}
    BY <1>5, <1>6
  <2>3. \A x \in Reads : x.tree # Unanswered => \A id \in DOMAIN x.tree : FieldsOf(ws, id) = {}
    BY <1>6, <1>7
  <2>4. FieldsOf(ws, None) = {}
    BY <1>5, <1>6, IdsApart
  <2>5. QED
    BY <1>1, <2>1, <2>2, <2>3, <2>4, NothingAged
<1>9. Box' = Box \cup W
  <2>1. Box' = BoxOf(outbox')
    BY DEF Box, BoxOf
  <2>2. BoxOf(Append(outbox, ws)) = BoxOf(outbox) \cup W
    BY <1>0, <1>1, BoxElements DEF W
  <2>3. QED
    BY <1>8, <2>1, <2>2 DEF Box
<1>10. ASSUME NEW s \in Client, NEW id \in Id, NEW f \in Field
       PROVE  view'[s][id][f] = view[s][id][f]
                \/ (view[s][id][f] = "current" /\ view'[s][id][f] = "old" /\ \E d \in W : d.id = id /\ f \in d.fields)
  <2>1. view'[s][id][f] = IF f \in FieldsOf(ws, id) /\ view[s][id][f] = "current" THEN "old" ELSE view[s][id][f]
    <3>1. view' = [c \in Client |-> [h \in Id |-> [g \in Field |->
                    IF g \in FieldsOf(ws, h) /\ view[c][h][g] = "current" THEN "old" ELSE view[c][h][g]]]]
      BY <1>1, PutUnfolded
    <3>2. QED
      BY <3>1
  <2>2. f \in FieldsOf(ws, id) => \E d \in W : d.id = id /\ f \in d.fields
    BY DEF FieldsOf, W
  <2>3. QED
    BY <2>1, <2>2
<1>11. UNCHANGED <<known, edge, marked, roots, kids, linked, phase, missed>>
  BY <1>1 DEF graph, nodes
<1>12. Committed(W)
  BY <1>2, <1>5, <1>8, <1>9, <1>10, <1>11 DEF Committed
<1>13. QED
  BY <1>8, <1>12 DEF W

LEMMA WsElements ==
  ASSUME NEW ws, NEW st, Writable(ws, st)
  PROVE  /\ ws \in Batch /\ ToSet(ws) # {} /\ \A j \in DOMAIN ws : ws[j] \in ToSet(ws) /\ j \in {1, 2}
         /\ \A j, l \in DOMAIN ws : ws[j].id = ws[l].id => j = l
         /\ 2 \in DOMAIN ws => Len(ws) = 2
<1>1. ws \in Batch
  BY DEF Writable
<1>2. CASE Len(ws) = 1
  BY <1>1, <1>2, BatchSet
<1>3. CASE Len(ws) = 2
  BY <1>1, <1>3, BatchSet DEF Writable
<1>4. QED
  BY <1>1, <1>2, <1>3, BatchSet

LEMMA CommitOnce ==
  ASSUME Calm, Inv, NEW ws, Writable(ws, store), Commit(ws)
  PROVE  Once' /\ Alone' /\ RefsFirst'
<1> DEFINE W == ToSet(ws)
           n == Len(outbox) + 1
<1>0. TInv /\ Once /\ Alone /\ RefsFirst /\ Writes /\ RefStored /\ TypeOK /\ outbox \in Seq(Batch)
  BY DEF Inv, TInv, Queues
<1>1. Committed(W) /\ outbox' = Append(outbox, ws)
  BY CommitEffect
<1>2. /\ ws \in Batch /\ W # {} /\ \A j \in DOMAIN ws : ws[j] \in W /\ j \in {1, 2}
      /\ \A j, l \in DOMAIN ws : ws[j].id = ws[l].id => j = l
      /\ 2 \in DOMAIN ws => Len(ws) = 2
  BY WsElements
<1>3. /\ DOMAIN outbox' = DOMAIN outbox \cup {n} /\ n \notin DOMAIN outbox /\ outbox'[n] = ws
      /\ \A i \in DOMAIN outbox : outbox'[i] = outbox[i]
  BY <1>0, <1>1, <1>2, AppendSet
<1>4. \A i \in DOMAIN outbox : \A j \in DOMAIN outbox[i] : outbox[i][j] \in Box
  BY <1>0, UnderWay
<1>5. Box' = Box \cup W /\ ready' = ready /\ reads' = reads /\ Tasks' = Tasks /\ Reads' = Reads
  BY <1>1 DEF Committed, Tasks, Reads
<1>6. \A d \in W : /\ \A e \in Box : e.id # d.id /\ e.id # d.row.ref
                   /\ \A t \in Tasks : t.delta.id # d.id
                   /\ \A x \in Reads : x.id # d.id /\ x.kind = "tree"
  BY <1>1 DEF Committed
<1> HIDE DEF W, n
<1>7. Once'
  <2>1. ASSUME NEW i \in DOMAIN outbox', NEW k \in DOMAIN outbox',
               NEW j \in DOMAIN outbox'[i], NEW l \in DOMAIN outbox'[k], outbox'[i][j].id = outbox'[k][l].id
        PROVE  i = k /\ j = l
    <3>1. CASE i = n /\ k = n
      BY <1>2, <1>3, <2>1, <3>1
    <3>2. CASE i # n /\ k # n
      BY <1>0, <1>3, <2>1, <3>2 DEF Once
    <3>3. CASE i = n /\ k # n
      BY <1>2, <1>3, <1>4, <1>6, <2>1, <3>3
    <3>4. CASE i # n /\ k = n
      BY <1>2, <1>3, <1>4, <1>6, <2>1, <3>4
    <3>5. QED
      BY <3>1, <3>2, <3>3, <3>4
  <2>2. \A i, j \in DOMAIN ready' : ready'[i].delta.id = ready'[j].delta.id => i = j
    BY <1>0, <1>5 DEF Once
  <2>3. \A i, j \in DOMAIN reads' : reads'[i].id = reads'[j].id => i = j
    BY <1>0, <1>5 DEF Once
  <2>4. /\ \A d \in Box', t \in Tasks' : d.id # t.delta.id
        /\ \A d \in Box', x \in Reads' : d.id # x.id
        /\ \A t \in Tasks', x \in Reads' : t.delta.id # x.id
    BY <1>0, <1>5, <1>6 DEF Once
  <2>5. QED
    BY <2>1, <2>2, <2>3, <2>4 DEF Once
<1>8. Alone'
  BY <1>2, <1>5, <1>6 DEF Alone
<1>9. RefsFirst'
  <2>1. SUFFICES ASSUME NEW k \in DOMAIN outbox', NEW m \in DOMAIN outbox',
                        NEW l \in DOMAIN outbox'[k], NEW o \in DOMAIN outbox'[m],
                        outbox'[m][o].op = "INSERT", outbox'[k][l].row.ref = outbox'[m][o].id
                 PROVE  k = m /\ o < l
    BY DEF RefsFirst
  <2>2. CASE k # n /\ m # n
    BY <1>0, <1>3, <2>1, <2>2 DEF RefsFirst
  <2>3. CASE k = n /\ m # n
    BY <1>2, <1>3, <1>4, <1>6, <2>1, <2>3
  <2>4. \A e \in W : e.op = "INSERT" => store[e.id] = Absent /\ e.id \in Id
    BY <1>1 DEF Committed, WritesOf, Fits, DeltaType
  <2>5. CASE k # n /\ m = n
    <3>1. PICK d \in Box : d = outbox'[k][l] /\ d.row.ref = ws[o].id
      BY <1>3, <1>4, <2>1, <2>5
    <3>2. store[d.id] = d.row /\ d.id \in Id /\ store[d.id] # Absent
      BY <1>0, UnderWay, IdsApart DEF Writes, WrittenNow
    <3>3. store[d.row.ref] # Absent \/ d.row.ref = None
      BY <1>0, <3>2 DEF RefStored
    <3>4. QED
      BY <1>2, <1>3, <2>1, <2>4, <2>5, <3>1, <3>3, IdsApart
  <2>6. CASE k = n /\ m = n
    <3>1. l \in DOMAIN ws /\ o \in DOMAIN ws /\ ws[o].op = "INSERT" /\ ws[l].row.ref = ws[o].id
          /\ l \in {1, 2} /\ o \in {1, 2}
      BY <1>2, <1>3, <2>1, <2>6
    <3>2. l # o
      <4>1. ws[l] \in W /\ ws[l].row.ref \in Target(ws[l].id) /\ ws[l].id \in Id
        <5>1. PICK d \in W : d = ws[l]
          BY <1>2, <3>1
        <5>2. d.row.ref \in Target(d.id) /\ d \in DeltaType
          BY <1>1 DEF Committed, WritesOf, Fits
        <5>3. QED
          BY <5>1, <5>2 DEF DeltaType
      <4>2. ws[l].id \notin Target(ws[l].id)
        BY <4>1, ManyRefer, IdsApart DEF Calm
      <4>3. QED
        BY <3>1, <4>1, <4>2
    <3>3. CASE l = 1 /\ o = 2
      <4>1. MayBe(ws[1], store) /\ store[ws[2].id] = Absent /\ ws[2].id # None
        BY <1>2, <2>4, <3>1, <3>3, IdsApart DEF Writable
      <4>2. QED
        BY <3>1, <3>3, <4>1 DEF MayBe
    <3>4. QED
      BY <2>6, <3>1, <3>2, <3>3
  <2>7. QED
    BY <2>2, <2>3, <2>5, <2>6
<1>10. QED
  BY <1>7, <1>8, <1>9

\* A write leaves the other rows, and none goes.
LEMMA CommitRows ==
  ASSUME Calm, Inv, NEW W, Committed(W)
  PROVE  /\ \A d \in W : d.id \in Id /\ store'[d.id] = d.row /\ d.row # Absent /\ WrittenNow(d)'
         /\ \A id \in Id : (\A d \in W : d.id # id) => store'[id] = store[id]
         /\ \A id \in Id : store[id] # Absent => store'[id] # Absent
         /\ \A d \in Box : (\A w \in W : w.id # d.id) /\ store'[d.id] = store[d.id]
         /\ \A t \in Tasks : (\A w \in W : w.id # t.delta.id) /\ store'[t.delta.id] = store[t.delta.id]
<1>0. TInv /\ Writes
  BY DEF Inv
<1>1. WritesOf(W, store) /\ RowsPut(W) /\ W \subseteq DeltaType
  BY DEF Committed
<1>2. ASSUME NEW d \in W PROVE d.id \in Id /\ store'[d.id] = d.row /\ d.row # Absent /\ WrittenNow(d)'
  <2>1. d.id \in Id /\ store'[d.id] = d.row /\ d.row # Absent /\ d.row.ok \in BOOLEAN /\ Fits(d, store)
    BY <1>1, IdsApart DEF RowsPut, DeltaType, WritesOf, Row
  <2>2. d.id \in Root => d.op = "INSERT" \/ d.fields = {"ok"}
    <3>1. SUFFICES ASSUME d.id \in Root, d.op # "INSERT" PROVE d.fields = {"ok"}
      OBVIOUS
    <3>2. store[d.id] # Absent /\ d.fields = {f \in Field : d.row[f] # store[d.id][f]} /\ d.fields # {}
      BY <2>1, <3>1 DEF Fits
    <3>3. store[d.id].ref = None /\ d.row.ref = None
      BY <1>0, <2>1, <3>1, <3>2, ManyRefer DEF Calm, Fits, TInv, TypeOK
    <3>4. "ref" \notin d.fields
      BY <3>2, <3>3
    <3>5. QED
      BY <3>2, <3>4 DEF Field
  <2>3. d.op = "INSERT" => d.fields = Field
    BY <2>1 DEF Fits
  <2>4. d.fresh = d.fields
    BY <2>1 DEF Fits
  <2>5. QED
    BY <2>1, <2>2, <2>3, <2>4 DEF WrittenNow
<1>3. \A id \in Id : (\A d \in W : d.id # id) => store'[id] = store[id]
  BY <1>1 DEF RowsPut
<1>4. \A id \in Id : store[id] # Absent => store'[id] # Absent
  BY <1>2, <1>3
<1>5. \A d \in Box : (\A w \in W : w.id # d.id) /\ d.id \in Id
  BY <1>0, UnderWay DEF Committed
<1>6. \A t \in Tasks : (\A w \in W : w.id # t.delta.id) /\ t.delta.id \in Id
  BY <1>0, UnderWay DEF Committed
<1>7. QED
  BY <1>2, <1>3, <1>4, <1>5, <1>6

LEMMA CommitStorage ==
  ASSUME Calm, Inv, NEW W, Committed(W)
  PROVE  Writes' /\ RefStored' /\ KnownStored' /\ Unseen' /\ TaskWas'
<1>0. TInv /\ Writes /\ RefStored /\ KnownStored /\ Unseen /\ TaskWas /\ TypeOK
  BY DEF Inv, TInv
<1>1. /\ \A d \in W : d.id \in Id /\ store'[d.id] = d.row /\ d.row # Absent /\ WrittenNow(d)'
      /\ \A id \in Id : (\A d \in W : d.id # id) => store'[id] = store[id]
      /\ \A id \in Id : store[id] # Absent => store'[id] # Absent
      /\ \A d \in Box : store'[d.id] = store[d.id]
      /\ \A t \in Tasks : store'[t.delta.id] = store[t.delta.id]
  BY CommitRows
<1>2. /\ Box' = Box \cup W /\ Tasks' = Tasks /\ known' = known /\ phase' = phase /\ marked' = marked
      /\ roots' = roots /\ kids' = kids /\ WritesOf(W, store)
  BY DEF Committed, Tasks
<1>3. Writes'
  <2>1. \A d \in Box : WrittenNow(d)'
    BY <1>0, <1>1 DEF Writes, WrittenNow
  <2>2. \A t \in Tasks : WrittenNow(t.delta)'
    BY <1>0, <1>1 DEF Writes, WrittenNow
  <2>3. QED
    BY <1>1, <1>2, <2>1, <2>2 DEF Writes, WrittenNow
<1>4. RefStored'
  <2>1. SUFFICES ASSUME NEW id \in Id, store'[id] # Absent, store'[id].ref # None
                 PROVE  store'[store'[id].ref] # Absent
    BY DEF RefStored
  <2>2. CASE \A d \in W : d.id # id
    <3>1. store'[id] = store[id]
      BY <1>1, <2>2
    <3>2. store[store[id].ref] # Absent /\ store[id].ref \in Id
      BY <1>0, <2>1, <3>1, TargetType DEF RefStored, TypeOK
    <3>3. QED
      BY <1>1, <3>1, <3>2
  <2>3. CASE \E d \in W : d.id = id
    <3>1. PICK d \in W : d.id = id
      BY <2>3
    <3>2. store'[id] = d.row
      BY <1>1, <3>1
    <3>3. d.row.ref \in Id
      BY <2>1, <3>2 DEF Committed, DeltaType, Row
    <3>4. store[d.row.ref] # Absent \/ \E e \in W : e.id = d.row.ref
      BY <1>2, <2>1, <3>2 DEF WritesOf
    <3>5. QED
      BY <1>1, <3>2, <3>3, <3>4
  <2>4. QED
    BY <2>2, <2>3
<1>5. KnownStored'
  BY <1>0, <1>1, <1>2 DEF KnownStored, TypeOK
<1>6. Unseen'
  <2>1. SUFFICES ASSUME NEW s \in Client, NEW id \in Id, store'[id] = Absent \/ phase'[s] # "in", NEW f \in Field
                 PROVE  view'[s][id][f] = "none"
    BY DEF Unseen
  <2>2. view[s][id][f] = "none"
    BY <1>0, <1>1, <1>2, <2>1 DEF Unseen
  <2>3. QED
    BY <2>2 DEF Committed
<1>7. TaskWas'
  BY <1>0, <1>2 DEF TaskWas, Subscribers
<1>8. QED
  BY <1>3, <1>4, <1>5, <1>6, <1>7

LEMMA CommitReads ==
  ASSUME Calm, Inv, NEW W, Committed(W)
  PROVE  ReadsOK'
<1>0. TInv /\ ReadsOK /\ TypeOK
  BY DEF Inv, TInv
<1>1. /\ \A id \in Id : (\A d \in W : d.id # id) => store'[id] = store[id]
      /\ \A d \in W : d.id \in Id
  BY CommitRows
<1>2. /\ Reads' = Reads /\ marked' = marked /\ phase' = phase /\ roots' = roots /\ kids' = kids
      /\ \A x \in Reads : x.kind = "tree"
      /\ \A d \in W, x \in Reads : x.id # d.id
      /\ \A d \in W, x \in Reads : d.op = "UPDATE" => x.id # store[d.id].ref
      /\ WritesOf(W, store)
  BY DEF Committed, Reads
<1>3. ASSUME NEW x \in Reads PROVE ReadOK(x)'
  <2>1. ~x.orphan /\ TreeReadOK(x) /\ x.kind = "tree" /\ x.id \in Id
    BY <1>0, <1>2 DEF ReadsOK, ReadOK, TInv, Queues, TypeOK
  <2>2. store'[x.id] = store[x.id]
    BY <1>1, <1>2, <2>1
  <2>3. x.tree # Unanswered => TreeOK(x)'
    <3>1. SUFFICES ASSUME x.tree # Unanswered PROVE TreeOK(x)'
      OBVIOUS
    <3>2. TreeOK(x) /\ x \in ReadType
      BY <1>0, <2>1, <3>1, UnderWay DEF TreeReadOK
    <3>3. DOMAIN x.tree \subseteq Id
      BY <3>1, <3>2 DEF ReadType, TreeType
    <3>4. ASSUME NEW id \in DOMAIN x.tree PROVE store'[id] = store[id]
      <4>1. CASE id = x.id
        BY <2>2, <4>1
      <4>2. CASE id # x.id
        <5>1. store[id] # Absent /\ store[id].ref = x.id
          BY <3>2, <4>2 DEF TreeOK
        <5>2. ASSUME NEW d \in W, d.id = id PROVE FALSE
          <6>1. Fits(d, store) /\ d.op \in {"INSERT", "UPDATE"}
            BY <1>2 DEF WritesOf, Fits, DeltaType
          <6>2. d.op = "UPDATE"
            BY <5>1, <5>2, <6>1 DEF Fits
          <6>3. QED
            BY <1>2, <5>1, <5>2, <6>2
        <5>3. QED
          BY <1>1, <3>3, <5>2
      <4>3. QED
        BY <4>1, <4>2
    <3>5. QED
      BY <3>2, <3>4 DEF TreeOK
  <2>4. TreeReadOK(x)'
    BY <1>2, <2>1, <2>2, <2>3 DEF TreeReadOK, Scoped, Subscribers
  <2>5. QED
    BY <2>1, <2>4 DEF ReadOK
<1>4. QED
  BY <1>0, <1>2, <1>3 DEF ReadsOK

\* A root that no step touches.
LEMMA RootKept ==
  ASSUME NEW r \in Root, RootOK(r), Old' = Old, r \in marked' <=> r \in marked, Scoped(r)' <=> Scoped(r),
         \A s \in Old, f \in Field : view'[s][r][f] = view[s][r][f],
         \A d \in Box' : d.id = r /\ d.op = "INSERT" => r \notin known',
         \A d \in Pending' : d.id = r => d \in Pending,
         \A d \in Pending : d.id = r => d \in Pending',
         TreeRead(r) => TreeRead(r)'
  PROVE  RootOK(r)'
<1>0. "ok" \in Field
  BY DEF Field
<1>1. (\A d \in Pending' : d.id # r) /\ ~TreeRead(r)' => MarkedOK(r, Scoped(r))' /\ Views(r, Scoped(r), {})'
  <2>1. (\A d \in Pending : d.id # r) /\ ~TreeRead(r) => MarkedOK(r, Scoped(r)) /\ Views(r, Scoped(r), {})
    BY DEF RootOK
  <2>2. MarkedOK(r, Scoped(r))' <=> MarkedOK(r, Scoped(r))
    BY DEF MarkedOK
  <2>3. Views(r, Scoped(r), {})' <=> Views(r, Scoped(r), {})
    BY <1>0 DEF Views
  <2>4. QED
    BY <2>1, <2>2, <2>3
<1>2. ASSUME NEW d \in Pending', d.id = r
      PROVE  MarkedOK(r, Was(d))' /\ Views(r, Was(d), Behind(d))'
  <2>1. MarkedOK(r, Was(d)) /\ Views(r, Was(d), Behind(d))
    BY <1>2 DEF RootOK
  <2>2. MarkedOK(r, Was(d))' <=> MarkedOK(r, Was(d))
    BY DEF MarkedOK, Was
  <2>3. Views(r, Was(d), Behind(d))' <=> Views(r, Was(d), Behind(d))
    BY <1>0 DEF Views, Was, Behind
  <2>4. QED
    BY <2>1, <2>2, <2>3
<1>3. QED
  BY <1>1, <1>2 DEF RootOK

LEMMA CommitRoots ==
  ASSUME Calm, Inv, NEW W, Committed(W)
  PROVE  RootInv'
<1>0. TInv /\ RootInv /\ TypeOK /\ Apart /\ Unseen /\ KnownStored
  BY OnceApart DEF Inv, TInv
<1>1. /\ \A d \in W : d.id \in Id /\ store'[d.id] = d.row /\ WrittenNow(d)'
      /\ \A id \in Id : (\A d \in W : d.id # id) => store'[id] = store[id]
      /\ \A d \in Box : \A w \in W : w.id # d.id
      /\ \A t \in Tasks : \A w \in W : w.id # t.delta.id
  BY CommitRows
<1>2. /\ Reads' = Reads /\ Tasks' = Tasks /\ Box' = Box \cup W /\ known' = known /\ marked' = marked
      /\ phase' = phase
      /\ \A d \in W, x \in Reads : x.id # d.id
      /\ WritesOf(W, store)
      /\ \A s \in Client, id \in Id, f \in Field :
           view'[s][id][f] = view[s][id][f]
             \/ (view[s][id][f] = "current" /\ view'[s][id][f] = "old" /\ \E d \in W : d.id = id /\ f \in d.fields)
  BY DEF Committed, Reads, Tasks
<1>3. Old' = Old /\ Pending' = Pending \cup W /\ \A d \in Pending, w \in W : w.id # d.id
  BY <1>1, <1>2 DEF Old, Pending
<1>4. \A r : TreeRead(r)' <=> TreeRead(r)
  BY <1>2 DEF TreeRead
<1>5. "ok" \in Field /\ "ref" \in Field /\ Old \subseteq Client
  BY DEF Field, Old
<1>6. ASSUME NEW r \in Root PROVE RootOK(r)'
  <2>0. r \in Id /\ RootOK(r)
    BY <1>0, IdsApart DEF RootInv
  <2>1. CASE \A d \in W : d.id # r
    <3>1. Scoped(r)' <=> Scoped(r)
      BY <1>1, <2>0, <2>1 DEF Scoped
    <3>2. \A s \in Old, f \in Field : view'[s][r][f] = view[s][r][f]
      BY <1>2, <1>5, <2>0, <2>1
    <3>3. \A d \in Box' : d.id = r /\ d.op = "INSERT" => r \notin known'
      BY <1>2, <2>0, <2>1 DEF RootOK
    <3>4. QED
      BY <1>2, <1>3, <1>4, <2>0, <2>1, <3>1, <3>2, <3>3, RootKept
  <2>2. CASE \E d \in W : d.id = r
    <3>1. PICK w \in W : w.id = r
      BY <2>2
    <3>2. (\A d \in Pending : d.id # r) /\ ~TreeRead(r) /\ \A d \in Box : d.id # r
      BY <1>2, <1>3, <3>1 DEF TreeRead, Pending
    <3>3. MarkedOK(r, Scoped(r)) /\ Views(r, Scoped(r), {})
      BY <2>0, <3>2 DEF RootOK
    <3>4. \A d \in Pending' : d.id = r => d = w
      BY <1>2, <1>3, <3>1, <3>2 DEF WritesOf
    <3>5. Fits(w, store) /\ WrittenNow(w)' /\ w.row.ok \in BOOLEAN /\ w.op \in {"INSERT", "UPDATE"}
      BY <1>1, <1>2, <3>1 DEF WritesOf, Fits, DeltaType, Row
    <3>6. CASE w.op = "INSERT"
      <4>1. store[r] = Absent
        BY <3>1, <3>5, <3>6 DEF Fits
      <4>2. r \notin known /\ ~Scoped(r) /\ ~Was(w) /\ Behind(w) = {}
        BY <1>0, <3>6, <4>1 DEF KnownStored, Scoped, Was, Behind
      <4>3. \A s \in Old : view'[s][r]["ok"] # "old"
        <5>1. \A s \in Old : view[s][r]["ok"] = "none"
          BY <1>0, <1>5, <2>0, <4>1 DEF Unseen
        <5>2. QED
          BY <1>2, <1>5, <2>0, <5>1
      <4>4. MarkedOK(r, Was(w))'
        BY <1>2, <1>3, <3>3, <4>2 DEF MarkedOK, Was
      <4>5. Views(r, Was(w), Behind(w))'
        BY <1>3, <4>2, <4>3 DEF Views, Was, Behind
      <4>6. r \notin known'
        BY <1>2, <4>2
      <4>7. QED
        BY <3>1, <3>4, <4>4, <4>5, <4>6, <1>3 DEF RootOK
    <3>7. CASE w.op = "UPDATE"
      <4>1. w.fields = {"ok"} /\ store[r] # Absent /\ w.fields = {f \in Field : w.row[f] # store[r][f]}
        BY <3>1, <3>5, <3>7 DEF WrittenNow, Fits
      <4>2. Scoped(r) <=> Was(w)
        <5>1. w.row["ok"] # store[r]["ok"] /\ store[r].ok \in BOOLEAN
          BY <1>0, <2>0, <4>1 DEF TypeOK, Row
        <5>2. QED
          BY <3>5, <3>7, <4>1, <5>1 DEF Scoped, Was
      <4>3. Behind(w) = {"ok"}
        BY <3>7, <4>1 DEF Behind
      <4>4. MarkedOK(r, Was(w))'
        BY <1>2, <1>3, <3>3, <4>2 DEF MarkedOK, Was
      <4>5. Views(r, Was(w), Behind(w))'
        <5>1. \A s \in Old, f \in Field \ {"ok"} : view'[s][r][f] = view[s][r][f]
          <6>1. \A d \in W : d.id = r => d = w
            BY <1>2, <3>1 DEF WritesOf
          <6>2. QED
            BY <1>2, <1>5, <2>0, <4>1, <6>1
        <5>2. Was(w) => \A s \in Old, f \in Field \ {"ok"} : view[s][r][f] = "current"
          BY <3>3, <4>2 DEF Views
        <5>3. Was(w)' <=> Was(w)
          BY DEF Was
        <5>4. Behind(w)' = Behind(w)
          BY DEF Behind
        <5>5. QED
          BY <1>3, <4>3, <5>1, <5>2, <5>3, <5>4 DEF Views
      <4>6. QED
        BY <1>2, <1>3, <3>1, <3>2, <3>4, <3>7, <4>4, <4>5, <1>0 DEF RootOK, WritesOf
    <3>8. QED
      BY <3>5, <3>6, <3>7
  <2>3. QED
    BY <2>1, <2>2
<1>7. QED
  BY <1>6 DEF RootInv

LEMMA CommitChildren ==
  ASSUME Calm, Inv, NEW W, Committed(W)
  PROVE  ChildInv'
<1>0. TInv /\ ChildInv /\ KnownStored /\ TypeOK
  BY DEF Inv, TInv
<1>1. /\ \A d \in W : d.id \in Id /\ store'[d.id] = d.row
      /\ \A id \in Id : (\A d \in W : d.id # id) => store'[id] = store[id]
  BY CommitRows
<1>2. /\ Reads' = Reads /\ Tasks' = Tasks /\ Box' = Box \cup W /\ known' = known /\ marked' = marked
      /\ phase' = phase /\ kids' = kids /\ missed' = missed /\ edge' = edge
      /\ WritesOf(W, store)
      /\ \A d \in W, e \in Box : e.id # d.id
      /\ \A s \in Client, id \in Id, f \in Field :
           view'[s][id][f] = view[s][id][f] \/ (\E d \in W : d.id = id /\ f \in d.fields)
  BY DEF Committed, Reads, Tasks
<1>3. /\ OldKids' = OldKids /\ Pending' = Pending \cup W /\ OldKids \subseteq Client /\ kids \subseteq Client
      /\ \A r : TreeRead(r)' <=> TreeRead(r)
  BY <1>0, <1>2 DEF OldKids, Old, Pending, TreeRead, TypeOK
<1>4. ASSUME NEW c \in Child PROVE InsertKnown(c)' /\ EdgeOK(c)' /\ DueCovered(c)' /\ KidViews(c)'
  <2>0. c \in Id /\ InsertKnown(c) /\ EdgeOK(c) /\ DueCovered(c) /\ KidViews(c)
    BY <1>0, IdsApart DEF ChildInv
  <2>1. InsertKnown(c)'
    <3>1. SUFFICES ASSUME NEW d \in Box', d.id = c, d.op = "INSERT", c \in known
                   PROVE  /\ kids # {} => c \in marked
                          /\ \A s \in kids : <<s, c>> \notin missed => Whole(s, c)'
      BY <1>2 DEF InsertKnown
    <3>2. d \notin W
      <4>1. d \in W => store[c] = Absent
        BY <1>2, <3>1 DEF WritesOf, Fits
      <4>2. QED
        BY <1>0, <3>1, <4>1 DEF KnownStored
    <3>3. d \in Box /\ \A w \in W : w.id # c
      BY <1>2, <3>1, <3>2
    <3>4. /\ kids # {} => c \in marked
          /\ \A s \in kids : <<s, c>> \notin missed => Whole(s, c)
      BY <2>0, <3>1, <3>3 DEF InsertKnown
    <3>5. \A s \in kids, f \in Field : view'[s][c][f] = view[s][c][f]
      BY <1>2, <1>3, <2>0, <3>3
    <3>6. QED
      BY <3>4, <3>5 DEF Whole
  <2>2. EdgeOK(c)'
    <3>1. SUFFICES ASSUME store'[c] # Absent, edge[c] # store'[c].ref
                   PROVE  \E d \in Box' : d.id = c /\ "ref" \in d.fields /\ ~(d.op = "INSERT" /\ c \in known)
      BY <1>2 DEF EdgeOK
    <3>2. CASE \A d \in W : d.id # c
      BY <1>1, <1>2, <2>0, <3>1, <3>2 DEF EdgeOK
    <3>3. CASE \E d \in W : d.id = c
      <4>1. PICK d \in W : d.id = c /\ Fits(d, store)
        BY <1>2, <3>3 DEF WritesOf
      <4>2. CASE store[c] = Absent
        <5>1. d.fields = Field /\ c \notin known
          BY <1>0, <4>1, <4>2 DEF Fits, KnownStored
        <5>2. QED
          BY <1>2, <4>1, <5>1 DEF Field
      <4>3. CASE store[c] # Absent
        <5>1. edge[c] = store[c].ref
          BY <1>2, <2>0, <4>1, <4>3 DEF EdgeOK
        <5>2. d.row.ref # store[c].ref /\ d.op # "INSERT" /\ d.fields = {f \in Field : d.row[f] # store[c][f]}
          BY <1>1, <3>1, <4>1, <4>3, <5>1 DEF Fits
        <5>3. "ref" \in d.fields
          BY <5>2 DEF Field
        <5>4. QED
          BY <1>2, <4>1, <5>2, <5>3
      <4>4. QED
        BY <4>2, <4>3
    <3>4. QED
      BY <3>2, <3>3
  <2>3. DueCovered(c)'
    <3>1. SUFFICES ASSUME Due(c)', OldKids # {} PROVE Covered(c)'
      BY <1>3 DEF DueCovered
    <3>2. store'[c] # Absent /\ store'[c].ok /\ store'[c].ref # None
          /\ store'[store'[c].ref] # Absent /\ store'[store'[c].ref].ok
      BY <3>1 DEF Due, Scoped
    <3>3. CASE \E d \in W : d.id = c
      BY <1>2, <3>3 DEF Covered
    <3>4. CASE \A d \in W : d.id # c
      <4>1. store'[c] = store[c]
        BY <1>1, <2>0, <3>4
      <4>2. CASE \E d \in W : d.id = store[c].ref
        BY <1>2, <4>1, <4>2 DEF Covered, Covering
      <4>3. CASE \A d \in W : d.id # store[c].ref
        <5>1. store[c].ref \in Id
          BY <1>0, <2>0, <3>2, <4>1, TargetType DEF TypeOK
        <5>2. Due(c)
          <6>1. store'[store[c].ref] = store[store[c].ref]
            BY <1>1, <4>3, <5>1
          <6>2. QED
            BY <3>2, <4>1, <6>1 DEF Due, Scoped
        <5>3. Covered(c)
          BY <2>0, <3>1, <5>2 DEF DueCovered
        <5>4. QED
          BY <1>2, <4>1, <5>3 DEF Covered, Covering
      <4>4. QED
        BY <4>2, <4>3
    <3>5. QED
      BY <3>3, <3>4
  <2>4. KidViews(c)'
    <3>1. SUFFICES ASSUME c \in marked, ~TreeRead(c), NEW s \in OldKids, <<s, c>> \notin missed, NEW f \in Field
                   PROVE  view'[s][c][f] = "current" \/ \E d \in Pending' : d.id = c /\ f \in d.fields
      BY <1>2, <1>3 DEF KidViews
    <3>2. view[s][c][f] = "current" \/ \E d \in Pending : d.id = c /\ f \in d.fields
      BY <2>0, <3>1 DEF KidViews
    <3>3. QED
      BY <1>2, <1>3, <2>0, <3>2
  <2>5. QED
    BY <2>1, <2>2, <2>3, <2>4
<1>5. QED
  BY <1>4 DEF ChildInv

LEMMA CommitInv ==
  ASSUME Calm, Inv, NEW ws, Writable(ws, store), Commit(ws)
  PROVE  Inv'
<1>1. Committed(ToSet(ws))
  BY CommitEffect
<1>2. TInv'
  BY CommitTInv DEF Inv
<1>3. QED
  BY <1>1, <1>2, CommitOnce, CommitStorage, CommitReads, CommitRoots, CommitChildren DEF Inv

-----------------------------------------------------------------------------
(* An answer of storage.                                                   *)

Answered(x, y) ==
  /\ x \in Reads /\ y \in ReadType /\ y \in Reads'
  /\ \A z \in Reads' : z = y \/ z \in Reads
  /\ \A z \in Reads : z \in Reads' \/ z = x
  /\ y.id = x.id /\ y.kind = x.kind /\ y.client = x.client /\ y.include = x.include /\ y.orphan = x.orphan
  /\ LET top == IF x.id = None THEN InScope ELSE {x.id}
         ids == top \cup (IF x.include THEN UNION {Included(r) : r \in top} ELSE {})
     IN  y.tree = [id \in ids |-> [fresh |-> Field, ref |-> store[id].ref]]
  /\ UNCHANGED <<store, outbox, known, edge, marked, roots, kids, linked, ready, phase, view, missed>>

LEMMA AnswerEffect ==
  ASSUME Inv, NEW i \in DOMAIN reads, Answer(i)
  PROVE  /\ Answered(reads[i], reads'[i])
         /\ Len(reads') = Len(reads) /\ DOMAIN reads' = DOMAIN reads
         /\ \A j \in DOMAIN reads : reads'[j].id = reads[j].id /\ reads'[j].kind = reads[j].kind
<1>0. TInv /\ TInv' /\ reads \in Seq(ReadType) /\ reads' \in Seq(ReadType)
  <2>1. TInv /\ TInv'
    BY AnswerTInv DEF Inv
  <2>2. QED
    BY <2>1 DEF TInv, Queues
<1> DEFINE x == reads[i]
           top == IF x.id = None THEN InScope ELSE {x.id}
           ids == top \cup (IF x.include THEN UNION {Included(r) : r \in top} ELSE {})
           tree == [id \in ids |-> [fresh |-> Field, ref |-> store[id].ref]]
<1>1. /\ reads' = [reads EXCEPT ![i].tree = tree]
      /\ UNCHANGED <<store, outbox, graph, nodes, ready, phase, view, missed>>
  BY DEF Answer
<1>2. x \in ReadType /\ x \in Reads
  BY <1>0, UnderWay
<1> HIDE DEF tree, x
<1>3. PICK y : y = [x EXCEPT !.tree = tree]
  OBVIOUS
<1>4. reads' = [reads EXCEPT ![i] = y]
  BY <1>1, <1>3 DEF x
<1>5. /\ y.id = x.id /\ y.kind = x.kind /\ y.client = x.client /\ y.include = x.include
      /\ y.orphan = x.orphan /\ y.tree = tree
  BY <1>2, <1>3 DEF ReadType
<1>6. y = reads'[i]
  BY <1>0, <1>4
<1>7. y \in ReadType
  BY <1>0, <1>4, <1>6
<1>8. /\ Len(reads') = Len(reads) /\ DOMAIN reads' = DOMAIN reads
      /\ \A j \in DOMAIN reads : reads'[j] = IF j = i THEN y ELSE reads[j]
      /\ \A z \in Reads' : z = y \/ z \in Reads
      /\ y \in Reads' /\ \A z \in Reads : z \in Reads' \/ z = reads[i]
  BY <1>0, <1>4, <1>7, ReadsReplaced
<1>9. Answered(x, y)
  BY <1>1, <1>2, <1>5, <1>7, <1>8 DEF Answered, x, tree, graph, nodes
<1>10. \A j \in DOMAIN reads : reads'[j].id = reads[j].id /\ reads'[j].kind = reads[j].kind
  BY <1>5, <1>8 DEF x
<1>11. QED
  BY <1>6, <1>8, <1>9, <1>10 DEF x

LEMMA AnswerInv ==
  ASSUME Calm, Inv, NEW i \in DOMAIN reads, Answer(i)
  PROVE  Inv'
<1>0. TInv /\ TypeOK /\ TInv' /\ Inv
  BY AnswerTInv DEF Inv, TInv
<1>1. PICK x, y : /\ x = reads[i] /\ y = reads'[i] /\ Answered(x, y)
                  /\ Len(reads') = Len(reads) /\ DOMAIN reads' = DOMAIN reads
                  /\ \A j \in DOMAIN reads : reads'[j].id = reads[j].id /\ reads'[j].kind = reads[j].kind
  BY AnswerEffect
<1>2. UNCHANGED <<store, outbox, known, edge, marked, roots, kids, linked, ready, phase, view, missed>>
  BY <1>1 DEF Answered
<1>3. Box' = Box /\ Tasks' = Tasks /\ Old' = Old /\ OldKids' = OldKids /\ Pending' = Pending
  BY <1>2 DEF Box, Tasks, Old, OldKids, Pending
<1>4. /\ x \in Reads /\ y \in Reads' /\ \A z \in Reads' : z = y \/ z \in Reads
      /\ \A z \in Reads : z \in Reads' \/ z = x
      /\ y.id = x.id /\ y.kind = x.kind /\ y.client = x.client /\ y.include = x.include /\ y.orphan = x.orphan
  BY <1>1 DEF Answered
<1>5. \A r : TreeRead(r)' <=> TreeRead(r)
  BY <1>4 DEF TreeRead
<1>6. Once'
  <2>1. Once
    BY DEF Inv
  <2>2. \A d \in Box', z \in Reads' : d.id # z.id
    BY <1>3, <1>4, <2>1 DEF Once
  <2>3. \A t \in Tasks', z \in Reads' : t.delta.id # z.id
    BY <1>3, <1>4, <2>1 DEF Once
  <2>4. \A j, k \in DOMAIN reads' : reads'[j].id = reads'[k].id => j = k
    BY <1>1, <2>1 DEF Once
  <2>5. QED
    BY <1>2, <1>3, <2>1, <2>2, <2>3, <2>4 DEF Once
<1>7. Alone'
  BY <1>1, <1>2, <1>4 DEF Inv, Alone
<1>8. Writes' /\ RefStored' /\ KnownStored' /\ RefsFirst' /\ Unseen' /\ TaskWas'
  BY <1>2, <1>3 DEF Inv, Writes, WrittenNow, RefStored, KnownStored, RefsFirst, Unseen, TaskWas, Subscribers
<1>9. /\ \A r : Scoped(r)' <=> Scoped(r)
      /\ \A r : Included(r)' = Included(r)
      /\ InScope' = InScope
  BY <1>2 DEF Scoped, Included, InScope
<1>10. x.kind = "tree" =>
         /\ x.id \in Id /\ x.id # None /\ store[x.id] # Absent /\ DOMAIN y.tree = {x.id} \cup (IF x.include THEN Included(x.id) ELSE {})
         /\ \A id \in DOMAIN y.tree : y.tree[id].fresh = Field /\ y.tree[id].ref = store[id].ref
  <2>1. SUFFICES ASSUME x.kind = "tree"
                 PROVE  /\ x.id \in Id /\ x.id # None /\ store[x.id] # Absent
                        /\ DOMAIN y.tree = {x.id} \cup (IF x.include THEN Included(x.id) ELSE {})
                        /\ \A id \in DOMAIN y.tree : y.tree[id].fresh = Field /\ y.tree[id].ref = store[id].ref
    OBVIOUS
  <2>2. x.id \in Id /\ x.id # None /\ store[x.id] # Absent
    BY <1>0, <1>4, <2>1, IdsApart DEF TInv, Queues, TypeOK
  <2>3. UNION {Included(r) : r \in {x.id}} = Included(x.id)
    OBVIOUS
  <2>4. PICK ids : /\ ids = {x.id} \cup (IF x.include THEN Included(x.id) ELSE {})
                   /\ y.tree = [id \in ids |-> [fresh |-> Field, ref |-> store[id].ref]]
    BY <1>1, <2>2, <2>3 DEF Answered
  <2>5. QED
    BY <2>2, <2>4
<1>11. ReadsOK'
  <2>1. \A z \in Reads : ReadOK(z)
    BY DEF Inv, ReadsOK
  <2>2. ASSUME NEW z \in Reads PROVE ReadOK(z)'
    BY <1>2, <1>9, <2>1 DEF ReadOK, TreeReadOK, ReplyReadOK, TreeOK, ReplyOK, Subscribers
  <2>3. ReadOK(y)'
    <3>0. ReadOK(x)
      BY <1>4, <2>1
    <3>1. CASE x.kind = "tree"
      <4>1. TreeReadOK(x)
        BY <3>0, <3>1 DEF ReadOK
      <4>2. x.include => x.id \in Root /\ Included(x.id) = {c \in Child : store[c] # Absent /\ store[c].ok /\ store[c].ref = x.id}
        BY <4>1, ManyRefer DEF TreeReadOK, Calm
      <4>3. TreeOK(y)'
        BY <1>2, <1>4, <1>10, <3>1, <4>2 DEF TreeOK
      <4>4. QED
        BY <1>2, <1>4, <1>9, <3>0, <3>1, <4>1, <4>3 DEF ReadOK, TreeReadOK, Subscribers
    <3>2. CASE x.kind # "tree"
      <4>1. x.kind = "reply" /\ x.id = None
        <5>1. x.kind \in {"tree", "reply"}
          BY <1>0, <1>4, UnderWay DEF ReadType
        <5>2. QED
          BY <1>0, <1>4, <3>2, <5>1 DEF TInv, Queues
      <4>2. ReplyReadOK(x)
        BY <3>0, <4>1 DEF ReadOK
      <4>3. PICK ids : /\ ids = InScope \cup (IF x.include THEN UNION {Included(r) : r \in InScope} ELSE {})
                       /\ y.tree = [id \in ids |-> [fresh |-> Field, ref |-> store[id].ref]]
        BY <1>1, <4>1 DEF Answered
      <4>4. ReplyOK(y)'
        BY <1>2, <1>4, <1>9, <4>3 DEF ReplyOK
      <4>5. QED
        BY <1>2, <1>4, <3>0, <4>1, <4>2, <4>4 DEF ReadOK, ReplyReadOK
    <3>3. QED
      BY <3>1, <3>2
  <2>4. \A s \in Client : phase'[s] = "reading" => \E z \in Reads' : z.kind = "reply" /\ z.client = s
    BY <1>2, <1>4 DEF Inv, ReadsOK
  <2>5. QED
    BY <1>4, <2>2, <2>3, <2>4 DEF ReadsOK
<1>12. RootInv'
  <2>1. SUFFICES ASSUME NEW r \in Root PROVE RootOK(r)'
    BY DEF RootInv
  <2>2. RootOK(r)
    BY DEF Inv, RootInv
  <2>3. \A d \in Box' : d.id = r /\ d.op = "INSERT" => r \notin known'
    BY <1>2, <1>3, <2>2 DEF RootOK
  <2>4. QED
    BY <1>2, <1>3, <1>5, <1>9, <2>2, <2>3, RootKept
<1>13. ChildInv'
  <2>1. SUFFICES ASSUME NEW c \in Child PROVE InsertKnown(c)' /\ EdgeOK(c)' /\ DueCovered(c)' /\ KidViews(c)'
    BY DEF ChildInv
  <2>2. InsertKnown(c) /\ EdgeOK(c) /\ DueCovered(c) /\ KidViews(c)
    BY DEF Inv, ChildInv
  <2>3. InsertKnown(c)' /\ EdgeOK(c)'
    BY <1>2, <1>3, <2>2 DEF InsertKnown, EdgeOK, Whole
  <2>4. KidViews(c)'
    BY <1>2, <1>3, <1>5, <2>2 DEF KidViews
  <2>5. DueCovered(c)'
    <3>1. SUFFICES ASSUME Due(c), OldKids # {} PROVE Covered(c)'
      BY <1>2, <1>3 DEF DueCovered, Due, Scoped
    <3>2. Covered(c) /\ kids # {} /\ store[c].ref # None
      BY <2>2, <3>1 DEF DueCovered, OldKids, Due
    <3>3. store[c].ref \in Root /\ c \in Included(store[c].ref)
      <4>1. store[c].ref \in Root
        BY <1>0, <3>1, <3>2, ManyRefer, IdsApart DEF Due, TypeOK, Calm
      <4>2. QED
        BY <3>1, <4>1, ManyRefer DEF Due, Calm
    <3>4. Covering(c, store[c].ref) => Covering(c, store[c].ref)'
      <4>1. SUFFICES ASSUME NEW z \in Reads, z.kind = "tree" /\ z.id = store[c].ref,
                            z.tree = Unanswered \/ c \in DOMAIN z.tree
                     PROVE  \E w \in Reads' : w.kind = "tree" /\ w.id = store[c].ref
                                               /\ (w.tree = Unanswered \/ c \in DOMAIN w.tree)
        BY <1>2, <1>3 DEF Covering
      <4>2. CASE z # x
        BY <1>4, <4>1, <4>2
      <4>3. CASE z = x
        <5>1. TreeReadOK(x) /\ x.include
          BY <3>2, <3>3, <4>1, <4>3 DEF Inv, ReadsOK, ReadOK, TreeReadOK
        <5>2. c \in DOMAIN y.tree
          BY <1>10, <3>3, <4>1, <4>3, <5>1
        <5>3. QED
          BY <1>4, <4>1, <4>3, <5>2
      <4>4. QED
        BY <4>2, <4>3
    <3>5. QED
      BY <1>2, <1>3, <3>2, <3>4 DEF Covered
  <2>6. QED
    BY <2>3, <2>4, <2>5
<1>14. QED
  BY <1>0, <1>6, <1>7, <1>8, <1>11, <1>12, <1>13 DEF Inv

-----------------------------------------------------------------------------
(* Subscribers come and go while nothing is under way.                     *)

LEMMA IdleEmpty ==
  ASSUME TInv, Idle
  PROVE  outbox = <<>> /\ ready = <<>> /\ reads = <<>> /\ Box = {} /\ Tasks = {} /\ Reads = {}
<1>1. outbox \in Seq(Batch) /\ ready \in Seq(TaskType) /\ reads \in Seq(ReadType)
  BY DEF TInv, Queues
<1>2. Len(outbox) = 0 /\ Len(ready) = 0 /\ Len(reads) = 0
  BY <1>1, LenProperties DEF Idle, InFlight
<1>3. outbox = <<>> /\ ready = <<>> /\ reads = <<>>
  BY <1>1, <1>2, EmptySeq
<1>4. QED
  BY <1>3 DEF Box, BoxOf, Tasks, Reads, ToSet

\* Nothing is under way: what the invariant says of rows, matches and views.
LEMMA Settled ==
  ASSUME Inv, Box = {}, Tasks = {}, \A x \in Reads : x.kind # "tree"
  PROVE  /\ \A r \in Root : MarkedOK(r, Scoped(r)) /\ Views(r, Scoped(r), {})
         /\ \A c \in Child :
              /\ store[c] # Absent => edge[c] = store[c].ref
              /\ Due(c) /\ OldKids # {} => c \in marked
              /\ c \in marked => \A s \in OldKids : <<s, c>> \notin missed => Whole(s, c)
<1>1. Pending = {} /\ \A r : ~TreeRead(r)
  BY DEF Pending, TreeRead
<1>2. \A r \in Root : MarkedOK(r, Scoped(r)) /\ Views(r, Scoped(r), {})
  BY <1>1 DEF Inv, RootInv, RootOK
<1>3. ASSUME NEW c \in Child
      PROVE  /\ store[c] # Absent => edge[c] = store[c].ref
             /\ Due(c) /\ OldKids # {} => c \in marked
             /\ c \in marked => \A s \in OldKids : <<s, c>> \notin missed => Whole(s, c)
  <2>1. EdgeOK(c) /\ DueCovered(c) /\ KidViews(c)
    BY DEF Inv, ChildInv
  <2>2. store[c] # Absent => edge[c] = store[c].ref
    BY <2>1 DEF EdgeOK
  <2>3. Due(c) /\ OldKids # {} => c \in marked
    BY <2>1 DEF DueCovered, Covered, Covering
  <2>4. c \in marked => \A s \in OldKids : <<s, c>> \notin missed => Whole(s, c)
    BY <1>1, <2>1 DEF KidViews, Whole
  <2>5. QED
    BY <2>2, <2>3, <2>4
<1>4. QED
  BY <1>2, <1>3

\* And what is enough for it when nothing but replies is being read.
LEMMA SettledInv ==
  ASSUME TInv', Box' = {}, Tasks' = {}, ready' = <<>>, outbox' = <<>>,
         \A x \in Reads' : x.kind # "tree", reads' = <<>> \/ Len(reads') = 1,
         RefStored', KnownStored', Unseen', ReadsOK',
         \A r \in Root : MarkedOK(r, Scoped(r))' /\ Views(r, Scoped(r), {})',
         \A c \in Child :
              /\ store'[c] # Absent => edge'[c] = store'[c].ref
              /\ Due(c)' /\ OldKids' # {} => c \in marked'
              /\ c \in marked' => \A s \in OldKids' : <<s, c>> \notin missed' => Whole(s, c)'
  PROVE  Inv'
<1>1. Pending' = {}
  BY DEF Pending
<1>2. Once'
  <2>1. reads' \in Seq(ReadType)
    BY DEF TInv, Queues
  <2>2. \A i, j \in DOMAIN reads' : i = j
    BY <2>1
  <2>3. DOMAIN outbox' = {} /\ DOMAIN ready' = {}
    OBVIOUS
  <2>4. QED
    BY <2>2, <2>3 DEF Once
<1>3. Alone'
  <2>1. reads' = <<>> => Reads' = {}
    BY DEF Reads, ToSet
  <2>2. QED
    BY <2>1 DEF Alone
<1>4. Writes' /\ TaskWas'
  BY DEF Writes, TaskWas
<1>5. RefsFirst'
  BY DEF RefsFirst
<1>6. RootInv'
  BY <1>1 DEF RootInv, RootOK
<1>7. ChildInv'
  <2>1. SUFFICES ASSUME NEW c \in Child PROVE InsertKnown(c)' /\ EdgeOK(c)' /\ DueCovered(c)' /\ KidViews(c)'
    BY DEF ChildInv
  <2>2. InsertKnown(c)' /\ EdgeOK(c)'
    BY DEF InsertKnown, EdgeOK
  <2>3. DueCovered(c)'
    BY DEF DueCovered, Covered
  <2>4. KidViews(c)'
    BY DEF KidViews, Whole
  <2>5. QED
    BY <2>2, <2>3, <2>4
<1>8. QED
  BY <1>2, <1>3, <1>4, <1>5, <1>6, <1>7 DEF Inv

LEMMA SubscribeInv ==
  ASSUME Calm, Inv, NEW s \in Client, NEW include \in BOOLEAN, Subscribe(s, include)
  PROVE  Inv'
<1>0. TInv /\ TInv' /\ TypeOK /\ Idle
  BY SubscribeTInv DEF Inv, TInv, Subscribe, Free, Calm
<1>1. outbox = <<>> /\ ready = <<>> /\ reads = <<>> /\ Box = {} /\ Tasks = {} /\ Reads = {}
  BY <1>0, IdleEmpty
<1>2. PICK x : x = Read("reply", None, s, include)
  OBVIOUS
<1>3. /\ phase[s] = "out" /\ roots' = roots \cup {s} /\ kids' = IF include THEN kids \cup {s} ELSE kids
      /\ reads' = Append(reads, x) /\ phase' = [phase EXCEPT ![s] = "reading"]
      /\ UNCHANGED <<store, outbox, known, edge, marked, ready, view, missed>>
  BY <1>2 DEF Subscribe, graph
<1>4. x \in ReadType /\ x.kind = "reply" /\ x.client = s /\ x.include = include /\ x.orphan = FALSE /\ x.tree = Unanswered
  BY <1>2 DEF Read, ReadType
<1>5. Reads' = {x} /\ Len(reads') = 1 /\ Box' = {} /\ Tasks' = {} /\ ready' = <<>> /\ outbox' = <<>>
  <2>1. reads \in Seq(ReadType)
    BY <1>0 DEF TInv, Queues
  <2>2. Reads' = Reads \cup {x}
    BY <1>3, <1>4, <2>1, ReadAdded
  <2>3. Len(reads') = 1
    BY <1>1, <1>3
  <2>4. Box' = Box /\ Tasks' = Tasks
    BY <1>3 DEF Box, Tasks
  <2>5. QED
    BY <1>1, <1>3, <2>2, <2>3, <2>4
<1>6. /\ \A r \in Root : MarkedOK(r, Scoped(r)) /\ Views(r, Scoped(r), {})
      /\ \A c \in Child :
           /\ store[c] # Absent => edge[c] = store[c].ref
           /\ Due(c) /\ OldKids # {} => c \in marked
           /\ c \in marked => \A t \in OldKids : <<t, c>> \notin missed => Whole(t, c)
  BY <1>1, Settled
<1>7. s \notin roots /\ s \notin kids /\ phase \in [Client -> {"out", "reading", "in"}]
  BY <1>0, <1>3 DEF TypeOK
<1>8. Old' = Old /\ OldKids' = OldKids
  BY <1>3, <1>7 DEF Old, OldKids
<1>9. \A c \in Client : phase'[c] = "reading" => c = s
  <2>1. \A c \in Client : phase[c] # "reading"
    BY <1>1 DEF Inv, ReadsOK
  <2>2. QED
    BY <1>3, <1>7, <2>1
<1>10. ReadsOK'
  <2>1. phase'[s] = "reading" /\ s \in roots' /\ (include <=> s \in kids')
    BY <1>3, <1>7
  <2>2. ReadOK(x)'
    BY <1>4, <2>1 DEF ReadOK, ReplyReadOK
  <2>3. QED
    BY <1>4, <1>5, <1>9, <2>2 DEF ReadsOK
<1>11. RefStored' /\ KnownStored'
  BY <1>3 DEF Inv, RefStored, KnownStored
<1>12. Unseen'
  BY <1>3, <1>7 DEF Inv, Unseen
<1>13. \A r \in Root : MarkedOK(r, Scoped(r))' /\ Views(r, Scoped(r), {})'
  BY <1>3, <1>6, <1>8 DEF MarkedOK, Views, Scoped
<1>14. \A c \in Child :
         /\ store'[c] # Absent => edge'[c] = store'[c].ref
         /\ Due(c)' /\ OldKids' # {} => c \in marked'
         /\ c \in marked' => \A t \in OldKids' : <<t, c>> \notin missed' => Whole(t, c)'
  BY <1>3, <1>6, <1>8 DEF Due, Scoped, Whole
<1>15. \A z \in Reads' : z.kind # "tree"
  BY <1>4, <1>5
<1>16. reads' = <<>> \/ Len(reads') = 1
  BY <1>5
<1>17. QED
  BY <1>0, <1>5, <1>10, <1>11, <1>12, <1>13, <1>14, <1>15, <1>16, SettledInv

LEMMA UnsubscribeInv ==
  ASSUME Calm, Inv, NEW s \in Client, Unsubscribe(s)
  PROVE  Inv'
<1>0. TInv /\ TInv' /\ TypeOK /\ Idle
  BY UnsubscribeTInv DEF Inv, TInv, Unsubscribe, Free, Calm
<1>1. outbox = <<>> /\ ready = <<>> /\ reads = <<>> /\ Box = {} /\ Tasks = {} /\ Reads = {}
  BY <1>0, IdleEmpty
<1>2. /\ roots' = roots \ {s} /\ kids' = kids \ {s} /\ phase' = [phase EXCEPT ![s] = "out"]
      /\ view' = [view EXCEPT ![s] = [id \in Id |-> [f \in Field |-> "none"]]]
      /\ missed' = {m \in missed : m[1] # s}
      /\ DOMAIN reads' = DOMAIN reads
      /\ UNCHANGED <<store, outbox, known, edge, marked, ready>>
  BY DEF Unsubscribe, graph
<1>3. reads' = <<>>
  <2>1. reads' \in Seq(ReadType) /\ DOMAIN reads' = {}
    BY <1>0, <1>1, <1>2 DEF TInv, Queues
  <2>2. Len(reads') = 0
    BY <2>1
  <2>3. QED
    BY <2>1, <2>2, EmptySeq
<1>4. Reads' = {} /\ Box' = {} /\ Tasks' = {} /\ ready' = <<>> /\ outbox' = <<>>
  <2>1. Reads' = {}
    BY <1>3 DEF Reads, ToSet
  <2>2. Box' = Box /\ Tasks' = Tasks
    BY <1>2 DEF Box, Tasks
  <2>3. QED
    BY <1>1, <1>2, <2>1, <2>2
<1>5. /\ \A r \in Root : MarkedOK(r, Scoped(r)) /\ Views(r, Scoped(r), {})
      /\ \A c \in Child :
           /\ store[c] # Absent => edge[c] = store[c].ref
           /\ Due(c) /\ OldKids # {} => c \in marked
           /\ c \in marked => \A t \in OldKids : <<t, c>> \notin missed => Whole(t, c)
  BY <1>1, Settled
<1>6. phase \in [Client -> {"out", "reading", "in"}] /\ view \in [Client -> [Id -> [Field -> Held]]]
      /\ kids \subseteq Client
  BY <1>0 DEF TypeOK
<1>7. Old' = Old \ {s} /\ OldKids' = OldKids \ {s} /\ Old \subseteq Client
  BY <1>2, <1>6 DEF Old, OldKids
<1>8. \A t \in Client : t # s => view'[t] = view[t] /\ phase'[t] = phase[t]
  BY <1>2, <1>6
<1>9. view'[s] = [id \in Id |-> [f \in Field |-> "none"]]
  BY <1>2, <1>6
<1>10. ReadsOK'
  <2>1. \A c \in Client : phase[c] # "reading"
    BY <1>1 DEF Inv, ReadsOK
  <2>2. \A c \in Client : phase'[c] # "reading"
    BY <1>2, <1>6, <2>1
  <2>3. QED
    BY <1>4, <2>2 DEF ReadsOK
<1>11. RefStored' /\ KnownStored'
  BY <1>2 DEF Inv, RefStored, KnownStored
<1>12. Unseen'
  BY <1>2, <1>8, <1>9 DEF Inv, Unseen
<1>13. \A r \in Root : MarkedOK(r, Scoped(r))' /\ Views(r, Scoped(r), {})'
  <2>1. TAKE r \in Root
  <2>2. MarkedOK(r, Scoped(r)) /\ Views(r, Scoped(r), {})
    BY <1>5
  <2>3. MarkedOK(r, Scoped(r))'
    BY <1>2, <1>7, <2>2 DEF MarkedOK, Scoped
  <2>4. Views(r, Scoped(r), {})'
    BY <1>2, <1>7, <1>8, <2>2 DEF Views, Scoped
  <2>5. QED
    BY <2>3, <2>4
<1>14. \A c \in Child :
         /\ store'[c] # Absent => edge'[c] = store'[c].ref
         /\ Due(c)' /\ OldKids' # {} => c \in marked'
         /\ c \in marked' => \A t \in OldKids' : <<t, c>> \notin missed' => Whole(t, c)'
  <2>1. TAKE c \in Child
  <2>2. /\ store[c] # Absent => edge[c] = store[c].ref
        /\ Due(c) /\ OldKids # {} => c \in marked
        /\ c \in marked => \A t \in OldKids : <<t, c>> \notin missed => Whole(t, c)
    BY <1>5
  <2>3. \A t \in OldKids' : t \in OldKids /\ t # s /\ t \in Client /\ (<<t, c>> \notin missed' => <<t, c>> \notin missed)
    BY <1>2, <1>6, <1>7 DEF OldKids
  <2>4. Due(c)' <=> Due(c)
    BY <1>2 DEF Due, Scoped
  <2>5. QED
    BY <1>2, <1>7, <1>8, <2>2, <2>3, <2>4 DEF Whole
<1>15. (\A z \in Reads' : z.kind # "tree") /\ (reads' = <<>> \/ Len(reads') = 1)
  BY <1>3, <1>4
<1>16. QED
  BY <1>0, <1>4, <1>10, <1>11, <1>12, <1>13, <1>14, <1>15, SettledInv

LEMMA InitInv == Init => Inv
<1> SUFFICES ASSUME Init PROVE Inv
  OBVIOUS
<1>1. TInv /\ Box = {} /\ Tasks = {} /\ Reads = {}
  BY InitTInv DEF Init, Box, BoxOf, Tasks, Reads, ToSet
<1>2. /\ outbox = <<>> /\ ready = <<>> /\ reads = <<>> /\ known = {} /\ marked = {} /\ kids = {}
      /\ \A id \in Id : store[id] = Absent
      /\ \A c \in Client : phase[c] = "out"
      /\ \A c \in Client, id \in Id, f \in Field : view[c][id][f] = "none"
  BY DEF Init
<1>3. Pending = {} /\ Old = {} /\ OldKids = {}
  BY <1>1, <1>2 DEF Pending, Old, OldKids
<1>4. Once /\ Alone /\ Writes /\ RefStored /\ KnownStored /\ RefsFirst /\ Unseen /\ TaskWas /\ ReadsOK
  BY <1>1, <1>2 DEF Once, Alone, Writes, RefStored, KnownStored, RefsFirst, Unseen, TaskWas, ReadsOK
<1>5. RootInv
  BY <1>1, <1>2, <1>3 DEF RootInv, RootOK, MarkedOK, Views
<1>6. ChildInv
  BY <1>1, <1>2, <1>3, IdsApart DEF ChildInv, InsertKnown, EdgeOK, DueCovered, KidViews
<1>7. QED
  BY <1>1, <1>4, <1>5, <1>6 DEF Inv

-----------------------------------------------------------------------------
(* The reply to a subscriber.                                              *)

LEMMA ReplyEffect ==
  ASSUME Calm, Inv, NEW i \in DOMAIN reads, Deliver(i), Reply(i)
  PROVE  \E x \in Reads :
           /\ x.kind = "reply" /\ ReplyReadOK(x) /\ ReplyOK(x)
           /\ Reads = {x} /\ reads' = <<>> /\ outbox = <<>> /\ ready = <<>>
           /\ known' = known \cup DOMAIN x.tree /\ marked' = marked \cup DOMAIN x.tree
           /\ \A h \in Child : edge'[h] = IF h \in DOMAIN x.tree /\ x.tree[h].ref # None THEN x.tree[h].ref ELSE edge[h]
           /\ phase' = [phase EXCEPT ![x.client] = "in"]
           /\ \A s \in Client, id \in Id : view'[s][id] =
                IF id \in DOMAIN x.tree /\ s = x.client THEN [f \in Field |-> "current"] ELSE view[s][id]
           /\ missed' = IF x.client \notin kids THEN missed
                        ELSE missed \cup ({x.client} \X ((marked \cap Child) \ DOMAIN x.tree))
           /\ UNCHANGED <<store, outbox, nodes, ready>>
<1>0. TInv /\ TypeOK /\ reads \in Seq(ReadType)
  BY DEF Inv, TInv, Queues
<1>1. PICK x \in Reads : x = reads[i]
  BY <1>0, UnderWay
<1> DEFINE ids == DOMAIN x.tree
           ingested == IF roots = {} THEN {} ELSE IF kids = {} THEN ids \cap Root ELSE ids
<1>2. /\ x.kind = "reply" /\ x.tree # Unanswered
      /\ Ingested(x.tree, ingested)
      /\ marked' = marked \cup (IF x.include THEN ingested ELSE ingested \cap Root)
      /\ phase' = IF x.client = None THEN phase ELSE [phase EXCEPT ![x.client] = "in"]
      /\ missed' = IF x.client \notin kids THEN missed
                   ELSE missed \cup ({x.client} \X ((marked \cap Child) \ ids))
      /\ reads' = RemoveAt(reads, i)
      /\ UNCHANGED <<store, outbox, nodes, ready>>
  BY <1>1 DEF Deliver, Reply
<1>3. view' = [s \in Client |-> [id \in Id |->
                IF id \in DOMAIN x.tree /\ s = x.client
                THEN Learned(view[s][id], Field, x.tree[id].fresh) ELSE view[s][id]]]
  BY <1>1, Zenon DEF Reply, Shown
<1>4. outbox = <<>> /\ ready = <<>> /\ Len(reads) = 1
  BY <1>2 DEF Inv, Alone
<1>5. i = 1 /\ reads' = <<>> /\ Reads = {x}
  <2>1. DOMAIN reads = {1} /\ i = 1
    BY <1>0, <1>4
  <2>2. Reads = {x}
    BY <1>1, <2>1 DEF Reads, ToSet
  <2>3. Len(RemoveAt(reads, 1)) = 0 /\ RemoveAt(reads, 1) \in Seq(ReadType)
    <3>1. 1 \in 1..Len(reads)
      BY <1>4
    <3>2. /\ RemoveAt(reads, 1) \in Seq(ReadType)
          /\ Len(RemoveAt(reads, 1)) = Len(reads) - 1
      BY <1>0, <3>1, RemoveAtElements
    <3>3. QED
      BY <1>4, <3>2
  <2>4. QED
    BY <1>2, <2>1, <2>2, <2>3, EmptySeq
<1>6. ReplyReadOK(x) /\ ReplyOK(x)
  BY <1>2 DEF Inv, ReadsOK, ReadOK, ReplyReadOK
<1>7. x.client \in roots /\ x.client # None /\ (x.include <=> x.client \in kids)
  BY <1>0, <1>6, IdsApart DEF ReplyReadOK, TypeOK
<1>8. ids \subseteq Id /\ x.tree \in TreeType
  BY <1>0, <1>2, UnderWay DEF ReadType, TreeType
<1>9. ~x.include => ids \subseteq Root
  BY <1>6 DEF ReplyOK, InScope
<1>10. ingested = ids /\ (IF x.include THEN ingested ELSE ingested \cap Root) = ids
  BY <1>7, <1>9
<1>11. \A id \in ids : x.tree[id].fresh = Field /\ x.tree[id].ref = store[id].ref
  BY <1>6 DEF ReplyOK
<1>12. \A h \in ids : x.tree[h].ref # None => x.tree[h].ref \in ids
  <2>1. \A r \in InScope : store[r] # Absent /\ r \in Root /\ r \in Id
    BY IdsApart DEF InScope
  <2>2. \A r \in InScope : store[r].ref = None
    BY <1>0, <2>1, ManyRefer DEF TypeOK, Calm
  <2>3. \A r \in InScope : \A c \in Included(r) : store[c].ref = r
    BY <2>1, ManyRefer DEF Calm
  <2>4. \A h \in ids : h \in InScope \/ \E r \in InScope : h \in Included(r)
    BY <1>6 DEF ReplyOK
  <2>5. InScope \subseteq ids
    BY <1>6 DEF ReplyOK
  <2>6. QED
    BY <1>11, <2>2, <2>3, <2>4, <2>5
<1>13. known' = known \cup ids
  BY <1>2, <1>10, <1>12 DEF Ingested
<1>14. \A h \in Child : edge'[h] = IF h \in ids /\ x.tree[h].ref # None THEN x.tree[h].ref ELSE edge[h]
  <2>1. Ingested(x.tree, ids)
    BY <1>2, <1>10
  <2>2. QED
    BY <1>0, <1>8, <2>1, IngestedFacts, ManyRefer DEF Calm
<1>15. \A s \in Client, id \in Id : view'[s][id] =
         IF id \in ids /\ s = x.client THEN [f \in Field |-> "current"] ELSE view[s][id]
  BY <1>3, <1>11 DEF Learned
<1>16. marked' = marked \cup ids /\ phase' = [phase EXCEPT ![x.client] = "in"]
  BY <1>2, <1>7, <1>10
<1>17. QED
  BY <1>2, <1>4, <1>5, <1>6, <1>13, <1>14, <1>15, <1>16

LEMMA ReplyInv ==
  ASSUME Calm, Inv, NEW i \in DOMAIN reads, Deliver(i), Reply(i)
  PROVE  Inv'
<1>0. TInv /\ TypeOK /\ TInv' /\ Unseen /\ KnownStored
  BY DeliverTInv DEF Inv, TInv
<1>1. PICK x \in Reads :
           /\ x.kind = "reply" /\ ReplyReadOK(x) /\ ReplyOK(x)
           /\ Reads = {x} /\ reads' = <<>> /\ outbox = <<>> /\ ready = <<>>
           /\ known' = known \cup DOMAIN x.tree /\ marked' = marked \cup DOMAIN x.tree
           /\ \A h \in Child : edge'[h] = IF h \in DOMAIN x.tree /\ x.tree[h].ref # None THEN x.tree[h].ref ELSE edge[h]
           /\ phase' = [phase EXCEPT ![x.client] = "in"]
           /\ \A s \in Client, id \in Id : view'[s][id] =
                IF id \in DOMAIN x.tree /\ s = x.client THEN [f \in Field |-> "current"] ELSE view[s][id]
           /\ missed' = IF x.client \notin kids THEN missed
                        ELSE missed \cup ({x.client} \X ((marked \cap Child) \ DOMAIN x.tree))
           /\ UNCHANGED <<store, outbox, nodes, ready>>
  BY ReplyEffect
<1> DEFINE ids == DOMAIN x.tree
           me == x.client
<1>2. me \in roots /\ phase[me] = "reading" /\ (x.include <=> me \in kids) /\ me \in Client
  BY <1>0, <1>1 DEF ReplyReadOK, TypeOK
<1>3. /\ ids = InScope \cup (IF me \in kids THEN UNION {Included(r) : r \in InScope} ELSE {})
      /\ \A id \in ids : x.tree[id].ref = store[id].ref
  BY <1>1, <1>2 DEF ReplyOK
<1> HIDE DEF ids, me
<1>4. /\ known' = known \cup ids /\ marked' = marked \cup ids
      /\ \A h \in Child : edge'[h] = IF h \in ids /\ store[h].ref # None THEN store[h].ref ELSE edge[h]
      /\ phase' = [phase EXCEPT ![me] = "in"]
      /\ \A s \in Client, id \in Id : view'[s][id] =
           IF id \in ids /\ s = me THEN [f \in Field |-> "current"] ELSE view[s][id]
      /\ missed' = IF me \notin kids THEN missed ELSE missed \cup ({me} \X ((marked \cap Child) \ ids))
      /\ store' = store /\ kids' = kids /\ roots' = roots
  BY <1>1, <1>3 DEF ids, me, nodes
<1>5. /\ reads' = <<>> /\ outbox' = <<>> /\ ready' = <<>> /\ Reads' = {} /\ Box' = {} /\ Tasks' = {}
      /\ Box = {} /\ Tasks = {}
  BY <1>1 DEF Reads, Box, BoxOf, Tasks, ToSet
<1>6. \A z \in Reads : z = x /\ z.kind # "tree"
  BY <1>1
<1>7. /\ \A r \in Root : MarkedOK(r, Scoped(r)) /\ Views(r, Scoped(r), {})
      /\ \A c \in Child :
           /\ store[c] # Absent => edge[c] = store[c].ref
           /\ Due(c) /\ OldKids # {} => c \in marked
           /\ c \in marked => \A s \in OldKids : <<s, c>> \notin missed => Whole(s, c)
  BY <1>5, <1>6, Settled
<1>8. /\ phase \in [Client -> {"out", "reading", "in"}] /\ kids \subseteq Client
      /\ \A id \in Id : store[id] # Absent => store[id].ref \in Target(id)
  BY <1>0 DEF TypeOK
<1>9. Old' = Old \cup {me} /\ OldKids' = kids \cap (Old \cup {me}) /\ me \notin Old /\ Old \subseteq Client
  BY <1>2, <1>4, <1>8 DEF Old, OldKids
<1>10. \A c \in Client : phase'[c] # "reading"
  <2>1. \A c \in Client : phase[c] = "reading" => c = me
    BY <1>6 DEF Inv, ReadsOK, me
  <2>2. QED
    BY <1>4, <1>8, <2>1
<1>11. ReadsOK'
  BY <1>5, <1>10 DEF ReadsOK
<1>12. /\ InScope = {r \in Root : Scoped(r)} /\ InScope \subseteq Id
       /\ \A c \in Child : c \in ids <=> me \in kids /\ Due(c)
  <2>1. InScope = {r \in Root : Scoped(r)} /\ InScope \subseteq Id
    BY IdsApart DEF InScope, Scoped
  <2>2. ASSUME NEW c \in Child PROVE c \in ids <=> me \in kids /\ Due(c)
    <3>1. c \notin InScope /\ c \in Id
      BY <2>1, IdsApart
    <3>2. \A r \in Root : c \in Included(r) <=> store[c] # Absent /\ store[c].ok /\ store[c].ref = r
      BY ManyRefer DEF Calm
    <3>3. store[c] # Absent => store[c].ref \in Root \cup {None}
      BY <1>8, <3>1, ManyRefer DEF Calm
    <3>4. None \notin Root
      BY IdsApart
    <3>5. Due(c) <=> \E r \in InScope : c \in Included(r)
      BY <2>1, <3>2, <3>3, <3>4 DEF Due
    <3>6. QED
      BY <1>3, <3>1, <3>5
  <2>3. QED
    BY <2>1, <2>2
<1>13. \A id \in ids : id \in Id /\ store[id] # Absent
  <2>1. \A r : \A c \in Included(r) : c \in Id /\ store[c] # Absent
    BY IdsApart DEF Included
  <2>2. \A r \in InScope : r \in Id /\ store[r] # Absent
    BY <1>12 DEF Scoped
  <2>3. QED
    BY <1>3, <2>1, <2>2
<1>14. RefStored' /\ KnownStored'
  BY <1>0, <1>4, <1>13 DEF Inv, RefStored, KnownStored
<1>15. Unseen'
  <2>1. SUFFICES ASSUME NEW s \in Client, NEW id \in Id, store[id] = Absent \/ phase'[s] # "in", NEW f \in Field
                 PROVE  view'[s][id][f] = "none"
    BY <1>4 DEF Unseen
  <2>2. ~(id \in ids /\ s = me)
    BY <1>2, <1>4, <1>8, <1>13, <2>1
  <2>3. store[id] = Absent \/ phase[s] # "in"
    BY <1>4, <1>8, <2>1
  <2>4. QED
    BY <1>0, <1>4, <2>2, <2>3 DEF Unseen
<1>16. ASSUME NEW r \in Root PROVE MarkedOK(r, Scoped(r))' /\ Views(r, Scoped(r), {})'
  <2>0. r \in Id /\ (r \in ids <=> Scoped(r)) /\ (Scoped(r)' <=> Scoped(r)) /\ "ok" \in Field
    <3>1. r \in ids <=> r \in InScope
      <4>1. \A q : \A c \in Included(q) : c # r
        BY IdsApart DEF Included
      <4>2. QED
        BY <1>3, <4>1
    <3>2. QED
      BY <1>4, <1>12, <3>1, IdsApart DEF Scoped, Field
  <2>1. MarkedOK(r, Scoped(r)) /\ Views(r, Scoped(r), {})
    BY <1>7
  <2>2. MarkedOK(r, Scoped(r))'
    BY <1>4, <2>0, <2>1 DEF MarkedOK
  <2>3. Views(r, Scoped(r), {})'
    <3>1. ASSUME NEW s \in Old
          PROVE  /\ Scoped(r) => \A f \in Field : view'[s][r][f] = "current"
                 /\ view'[s][r]["ok"] # "old"
      BY <1>4, <1>9, <2>0, <2>1 DEF Views
    <3>2. /\ Scoped(r) => \A f \in Field : view'[me][r][f] = "current"
          /\ view'[me][r]["ok"] # "old"
      <4>1. CASE Scoped(r)
        BY <1>2, <1>4, <2>0, <4>1
      <4>2. CASE ~Scoped(r)
        BY <1>0, <1>2, <1>4, <2>0, <4>2 DEF Unseen
      <4>3. QED
        BY <4>1, <4>2
    <3>3. QED
      BY <1>9, <2>0, <3>1, <3>2 DEF Views
  <2>4. QED
    BY <2>2, <2>3
<1>17. ASSUME NEW c \in Child
       PROVE  /\ store'[c] # Absent => edge'[c] = store'[c].ref
              /\ Due(c)' /\ OldKids' # {} => c \in marked'
              /\ c \in marked' => \A s \in OldKids' : <<s, c>> \notin missed' => Whole(s, c)'
  <2>0. /\ c \in Id /\ (Due(c)' <=> Due(c)) /\ (c \in ids <=> me \in kids /\ Due(c))
        /\ store[c] # Absent => edge[c] = store[c].ref
        /\ Due(c) /\ OldKids # {} => c \in marked
        /\ c \in marked => \A s \in OldKids : <<s, c>> \notin missed => Whole(s, c)
    BY <1>4, <1>7, <1>12, IdsApart DEF Due, Scoped
  <2>1. store'[c] # Absent => edge'[c] = store'[c].ref
    BY <1>4, <2>0
  <2>2. Due(c)' /\ OldKids' # {} => c \in marked'
    BY <1>4, <1>9, <2>0 DEF OldKids
  <2>3. ASSUME c \in marked', NEW s \in OldKids', <<s, c>> \notin missed'
        PROVE  Whole(s, c)'
    <3>0. s \in kids /\ s \in Client /\ (s = me \/ s \in Old) /\ (s \in Old => s # me)
      BY <1>8, <1>9
    <3>1. CASE s = me
      <4>1. c \in ids
        BY <1>4, <2>3, <3>0, <3>1
      <4>2. QED
        BY <1>4, <2>0, <3>0, <3>1, <4>1 DEF Whole
    <3>2. CASE s # me
      <4>1. s \in OldKids /\ <<s, c>> \notin missed /\ view'[s][c] = view[s][c]
        BY <1>4, <2>0, <2>3, <3>0, <3>2 DEF OldKids
      <4>2. c \in marked
        BY <1>4, <2>0, <2>3, <4>1
      <4>3. QED
        BY <2>0, <4>1, <4>2 DEF Whole
    <3>3. QED
      BY <3>1, <3>2
  <2>4. QED
    BY <2>1, <2>2, <2>3
<1>18. (\A z \in Reads' : z.kind # "tree") /\ (reads' = <<>> \/ Len(reads') = 1)
  BY <1>5
<1>19. QED
  BY <1>0, <1>5, <1>11, <1>14, <1>15, <1>16, <1>17, <1>18, SettledInv

-----------------------------------------------------------------------------
(* The tree of a row.                                                      *)

\* While anything but a reply is under way every subscriber has its reply.
LEMMA AllOld ==
  ASSUME Inv, Box # {} \/ Tasks # {} \/ \E x \in Reads : x.kind = "tree"
  PROVE  Old = roots /\ OldKids = kids /\ \A x \in Reads : x.kind = "tree"
<1>0. TInv /\ TypeOK /\ Alone /\ ReadsOK /\ reads \in Seq(ReadType)
  BY DEF Inv, TInv, Queues
<1>1. ASSUME NEW x \in Reads, x.kind = "reply" PROVE FALSE
  <2>1. outbox = <<>> /\ ready = <<>> /\ Len(reads) = 1
    BY <1>0, <1>1 DEF Alone
  <2>2. Box = {} /\ Tasks = {}
    BY <2>1 DEF Box, BoxOf, Tasks, ToSet
  <2>3. Reads = {reads[1]}
    <3>1. DOMAIN reads = {1}
      BY <1>0, <2>1
    <3>2. QED
      BY <3>1 DEF Reads, ToSet
  <2>4. QED
    BY <1>1, <2>2, <2>3
<1>2. \A x \in Reads : x.kind = "tree"
  <2>1. \A x \in Reads : x.kind \in {"reply", "tree"}
    BY <1>0, UnderWay DEF ReadType
  <2>2. QED
    BY <1>1, <2>1
<1>3. \A c \in Client : phase[c] # "reading"
  BY <1>0, <1>1 DEF ReadsOK
<1>4. Old = roots
  BY <1>0, <1>3 DEF Old, TypeOK
<1>5. QED
  BY <1>0, <1>2, <1>4 DEF OldKids, TypeOK

TreeDelivered(x, below) ==
  /\ x \in Reads /\ x.kind = "tree" /\ x.tree # Unanswered /\ TreeReadOK(x) /\ TreeOK(x) /\ x.id \in Id
  /\ ready = <<>>
  /\ Reads' \subseteq Reads /\ \A z \in Reads : z \in Reads' \/ z = x
  /\ \A z \in Reads' : z.id # x.id
  /\ below = IF kids = {} THEN {} ELSE DOMAIN x.tree \ {x.id}
  /\ \A c \in below : c \in Child /\ c \in Id /\ store[c] # Absent /\ store[c].ref = x.id /\ x.id \in Root
  /\ known' = known \cup below /\ marked' = marked \cup below
  /\ \A h \in Child : edge'[h] = IF h \in below THEN store[h].ref ELSE edge[h]
  /\ \A s \in Client, id \in Id : view'[s][id] =
       IF (id = x.id /\ s \in Subscribers(id)) \/ (id \in below /\ s \in kids)
       THEN [f \in Field |-> "current"] ELSE view[s][id]
  /\ \A m \in missed : m \in missed' \/ m[2] = x.id \/ m[2] \in below
  /\ UNCHANGED <<store, outbox, roots, kids, linked, ready, phase>>

LEMMA TreeEffect ==
  ASSUME Calm, Inv, NEW i \in DOMAIN reads, Deliver(i), Tree(i)
  PROVE  \E below : TreeDelivered(reads[i], below)
<1>0. TInv /\ TypeOK /\ Once /\ KnownStored /\ reads \in Seq(ReadType)
  BY DEF Inv, TInv, Queues
<1>1. PICK x \in Reads : x = reads[i]
  BY <1>0, UnderWay
<1> DEFINE ids == DOMAIN x.tree
           below == IF kids = {} THEN {} ELSE ids \ {x.id}
           sent == IF linked THEN below ELSE {}
           hears(s, id) == IF id = x.id THEN s \in Subscribers(id) /\ ~x.orphan ELSE id \in sent /\ s \in kids
<1>2. /\ x.kind = "tree" /\ x.tree # Unanswered /\ ready = <<>>
      /\ Ingested(x.tree, below)
      /\ marked' = marked \cup {x.id} \cup below
      /\ missed' = missed \ {m \in missed : m[2] \in ids /\ hears(m[1], m[2])}
      /\ reads' = RemoveAt(reads, i)
      /\ UNCHANGED <<store, outbox, nodes, ready, phase>>
  BY <1>1 DEF Deliver, Tree
<1>3. view' = [s \in Client |-> [id \in Id |->
                IF id \in DOMAIN x.tree /\ hears(s, id)
                THEN Learned(view[s][id], Field, x.tree[id].fresh) ELSE view[s][id]]]
  BY <1>1, Zenon DEF Tree, Shown
<1>4. TreeReadOK(x) /\ TreeOK(x) /\ ~x.orphan
  BY <1>2 DEF Inv, ReadsOK, ReadOK, TreeReadOK
<1>5. x.tree \in TreeType /\ ids \subseteq Id /\ x.id \in Id /\ x.id # None
  <2>1. x.tree \in TreeType /\ ids \subseteq Id
    BY <1>0, <1>2, UnderWay DEF ReadType, TreeType
  <2>2. QED
    BY <1>0, <1>2, <2>1, IdsApart DEF TInv, Queues, TypeOK
<1>6. /\ sent = below /\ x.id \in ids
      /\ \A id \in ids : x.tree[id].fresh = Field /\ x.tree[id].ref = store[id].ref
      /\ \A c \in below : c \in Child /\ c \in Id /\ store[c] # Absent /\ store[c].ref = x.id /\ x.id \in Root
  BY <1>0, <1>4, <1>5 DEF TreeOK, TypeOK
<1>7. x.id \in marked /\ x.id \in known
  BY <1>0, <1>4 DEF TreeReadOK, TypeOK
<1>8. known' = known \cup below
  BY <1>2, <1>6, <1>7 DEF Ingested
<1>9. \A h \in Child : edge'[h] = IF h \in below THEN store[h].ref ELSE edge[h]
  <2>1. below \in SUBSET DOMAIN x.tree
    OBVIOUS
  <2>2. \A h \in Child : edge'[h] = IF h \in below /\ x.tree[h].ref # None THEN x.tree[h].ref ELSE edge[h]
    BY <1>0, <1>2, <1>5, <2>1, IngestedFacts, ManyRefer DEF Calm
  <2>3. QED
    BY <1>5, <1>6, <2>2
<1>10. \A s \in Client, id \in Id : view'[s][id] =
         IF (id = x.id /\ s \in Subscribers(id)) \/ (id \in below /\ s \in kids)
         THEN [f \in Field |-> "current"] ELSE view[s][id]
  <2>1. ASSUME NEW s \in Client, NEW id \in Id
        PROVE  (id \in ids /\ hears(s, id)) <=> (id = x.id /\ s \in Subscribers(id)) \/ (id \in below /\ s \in kids)
    BY <1>4, <1>6
  <2>2. ASSUME NEW s \in Client, NEW id \in ids
        PROVE  Learned(view[s][id], Field, x.tree[id].fresh) = [f \in Field |-> "current"]
    BY <1>6 DEF Learned
  <2> HIDE DEF hears, below
  <2>3. QED
    BY <1>3, <2>1, <2>2
<1>11. \A m \in missed : m \in missed' \/ m[2] = x.id \/ m[2] \in below
  BY <1>2, <1>6
<1>12. /\ Reads' \subseteq Reads /\ \A z \in Reads : z \in Reads' \/ z = x
       /\ \A z \in Reads' : z.id # x.id
  <2>1. PICK t : t = RemoveAt(reads, i)
    OBVIOUS
  <2>2. /\ \A j \in DOMAIN t : /\ Origin(i, j) \in DOMAIN reads /\ Origin(i, j) # i
                               /\ t[j] = reads[Origin(i, j)]
        /\ ToSet(reads) = ToSet(t) \cup {x}
    BY <1>0, <1>1, <2>1, RemoveAtSet
  <2>3. \A j \in DOMAIN t : t[j].id # x.id
    BY <1>0, <1>1, <2>2 DEF Once
  <2>4. Reads' = ToSet(t) /\ Reads = ToSet(reads)
    BY <1>2, <2>1 DEF Reads
  <2>5. \A z \in ToSet(t) : z.id # x.id
    BY <2>3 DEF ToSet
  <2>6. QED
    BY <2>2, <2>4, <2>5
<1>13. marked' = marked \cup below
  BY <1>2, <1>7
<1>14. TreeDelivered(x, below)
  BY <1>2, <1>4, <1>5, <1>6, <1>8, <1>9, <1>10, <1>11, <1>12, <1>13 DEF TreeDelivered, nodes
<1>15. QED
  BY <1>1, <1>14

LEMMA TreeOnce ==
  ASSUME Inv, NEW i \in DOMAIN reads, Deliver(i), Tree(i)
  PROVE  Once'
<1>0. TInv /\ Once /\ reads \in Seq(ReadType)
  BY DEF Inv, TInv, Queues
<1>1. reads' = RemoveAt(reads, i) /\ outbox' = outbox /\ ready' = ready
  BY DEF Deliver
<1>2. PICK t : t = RemoveAt(reads, i)
  OBVIOUS
<1>3. /\ \A j \in DOMAIN t : /\ Origin(i, j) \in DOMAIN reads
                             /\ t[j] = reads[Origin(i, j)]
                             /\ \A k \in DOMAIN t : Origin(i, j) = Origin(i, k) => j = k
      /\ ToSet(reads) = ToSet(t) \cup {reads[i]}
  BY <1>0, <1>2, RemoveAtSet
<1>4. \A j, k \in DOMAIN t : t[j].id = t[k].id => j = k
  BY <1>0, <1>3 DEF Once
<1>5. Reads' \subseteq Reads /\ Box' = Box /\ Tasks' = Tasks
  BY <1>1, <1>2, <1>3 DEF Reads, Box, Tasks
<1>6. QED
  BY <1>0, <1>1, <1>2, <1>4, <1>5 DEF Once

LEMMA TreeRoots ==
  ASSUME Calm, Inv, NEW x, NEW below, TreeDelivered(x, below)
  PROVE  RootInv'
<1>0. TInv /\ TypeOK /\ RootInv /\ Apart
  BY OnceApart DEF Inv, TInv
<1>1. /\ x \in Reads /\ x.kind = "tree" /\ TreeReadOK(x) /\ x.id \in Id
      /\ Reads' \subseteq Reads /\ \A z \in Reads : z \in Reads' \/ z = x
      /\ \A c \in below : c \in Child
      /\ known' = known \cup below /\ marked' = marked \cup below
      /\ \A s \in Client, id \in Id : view'[s][id] =
           IF (id = x.id /\ s \in Subscribers(id)) \/ (id \in below /\ s \in kids)
           THEN [f \in Field |-> "current"] ELSE view[s][id]
      /\ UNCHANGED <<store, outbox, roots, kids, linked, ready, phase>>
  BY DEF TreeDelivered
<1>2. Box' = Box /\ Pending' = Pending /\ Old' = Old /\ Old = roots /\ Old \subseteq Client
  <2>1. Old = roots
    BY <1>1, AllOld
  <2>2. QED
    BY <1>0, <1>1, <2>1 DEF Box, Pending, Tasks, Old
<1>3. SUFFICES ASSUME NEW r \in Root PROVE RootOK(r)'
  BY DEF RootInv
<1>4. /\ r \in Id /\ r \notin below /\ RootOK(r) /\ (Scoped(r)' <=> Scoped(r)) /\ (r \in marked' <=> r \in marked)
      /\ r \in known' <=> r \in known
  BY <1>0, <1>1, IdsApart DEF RootInv, Scoped
<1>5. \A d \in Box' : d.id = r /\ d.op = "INSERT" => r \notin known'
  BY <1>2, <1>4 DEF RootOK
<1>6. CASE r # x.id
  <2>1. \A s \in Old, f \in Field : view'[s][r][f] = view[s][r][f]
    BY <1>1, <1>2, <1>4, <1>6
  <2>2. TreeRead(r) => TreeRead(r)'
    BY <1>1, <1>6 DEF TreeRead
  <2>3. QED
    BY <1>2, <1>4, <1>5, <2>1, <2>2, RootKept
<1>7. CASE r = x.id
  <2>1. \A d \in Pending : d.id # r
    BY <1>0, <1>1, <1>7 DEF Apart, Pending
  <2>2. r \in marked /\ Scoped(r)
    BY <1>1, <1>7 DEF TreeReadOK
  <2>3. \A s \in Old, f \in Field : view'[s][r][f] = "current"
    BY <1>1, <1>2, <1>4, <1>7 DEF Subscribers
  <2>4. MarkedOK(r, Scoped(r))'
    BY <1>4, <2>2 DEF MarkedOK
  <2>5. Views(r, Scoped(r), {})'
    <3>1. "ok" \in Field
      BY DEF Field
    <3>2. QED
      BY <1>2, <2>3, <3>1 DEF Views
  <2>6. QED
    BY <1>2, <1>5, <2>1, <2>4, <2>5 DEF RootOK
<1>8. QED
  BY <1>6, <1>7

LEMMA TreeChildren ==
  ASSUME Calm, Inv, NEW x, NEW below, TreeDelivered(x, below)
  PROVE  ChildInv'
<1>0. TInv /\ TypeOK /\ ChildInv /\ Apart
  BY OnceApart DEF Inv, TInv
<1>1. /\ x \in Reads /\ x.kind = "tree" /\ x.id \in Id /\ ready = <<>>
      /\ Reads' \subseteq Reads /\ \A z \in Reads : z \in Reads' \/ z = x
      /\ below = IF kids = {} THEN {} ELSE DOMAIN x.tree \ {x.id}
      /\ known' = known \cup below /\ marked' = marked \cup below
      /\ \A h \in Child : edge'[h] = IF h \in below THEN store[h].ref ELSE edge[h]
      /\ \A s \in Client, id \in Id : view'[s][id] =
           IF (id = x.id /\ s \in Subscribers(id)) \/ (id \in below /\ s \in kids)
           THEN [f \in Field |-> "current"] ELSE view[s][id]
      /\ \A m \in missed : m \in missed' \/ m[2] = x.id \/ m[2] \in below
      /\ UNCHANGED <<store, outbox, roots, kids, linked, ready, phase>>
  BY DEF TreeDelivered
<1>2. Box' = Box /\ Pending' = Pending /\ OldKids' = OldKids /\ OldKids = kids /\ kids \subseteq Client
      /\ Tasks' = {} /\ Tasks = {}
  <2>1. OldKids = kids
    BY <1>1, AllOld
  <2>2. Tasks = {}
    BY <1>1 DEF Tasks, ToSet
  <2>3. QED
    BY <1>0, <1>1, <2>1, <2>2 DEF Box, Pending, Tasks, Old, OldKids, TypeOK
<1>3. SUFFICES ASSUME NEW c \in Child PROVE InsertKnown(c)' /\ EdgeOK(c)' /\ DueCovered(c)' /\ KidViews(c)'
  BY DEF ChildInv
<1>4. c \in Id /\ InsertKnown(c) /\ EdgeOK(c) /\ DueCovered(c) /\ KidViews(c)
  BY <1>0, IdsApart DEF ChildInv
<1>5. c \in below => \A s \in kids : Whole(s, c)'
  BY <1>1, <1>2, <1>4 DEF Whole
<1>6. c \notin below /\ c # x.id => /\ \A s \in kids : view'[s][c] = view[s][c]
                                    /\ \A s : <<s, c>> \in missed => <<s, c>> \in missed'
  <2>1. SUFFICES ASSUME c \notin below, c # x.id
                 PROVE  /\ \A s \in kids : view'[s][c] = view[s][c]
                        /\ \A s : <<s, c>> \in missed => <<s, c>> \in missed'
    OBVIOUS
  <2>2. \A s \in kids : view'[s][c] = view[s][c]
    BY <1>1, <1>2, <1>4, <2>1
  <2>3. \A s : <<s, c>>[2] = c
    OBVIOUS
  <2>4. \A s : <<s, c>> \in missed => <<s, c>> \in missed'
    BY <1>1, <2>1, <2>3
  <2>5. QED
    BY <2>2, <2>4
<1>7. InsertKnown(c)'
  <2>1. SUFFICES ASSUME NEW d \in Box, d.id = c, d.op = "INSERT", c \in known'
                 PROVE  /\ kids # {} => c \in marked'
                        /\ \A s \in kids : <<s, c>> \notin missed' => Whole(s, c)'
    BY <1>1, <1>2 DEF InsertKnown
  <2>2. CASE c \in below
    BY <1>1, <1>5, <2>2
  <2>3. CASE c \notin below
    <3>1. c # x.id
      BY <1>0, <1>1, <2>1 DEF Apart
    <3>2. c \in known
      BY <1>1, <2>1, <2>3
    <3>3. /\ kids # {} => c \in marked
          /\ \A s \in kids : <<s, c>> \notin missed => Whole(s, c)
      BY <1>4, <2>1, <3>2 DEF InsertKnown
    <3>4. QED
      BY <1>1, <1>6, <2>3, <3>1, <3>3 DEF Whole
  <2>4. QED
    BY <2>2, <2>3
<1>8. EdgeOK(c)'
  <2>1. CASE c \in below
    BY <1>1, <2>1 DEF EdgeOK
  <2>2. CASE c \notin below
    BY <1>1, <1>2, <1>4, <2>2 DEF EdgeOK
  <2>3. QED
    BY <2>1, <2>2
<1>9. DueCovered(c)'
  <2>1. SUFFICES ASSUME Due(c), kids # {} PROVE Covered(c)'
    BY <1>1, <1>2 DEF DueCovered, Due, Scoped
  <2>2. Covered(c)
    BY <1>2, <1>4, <2>1 DEF DueCovered
  <2>3. CASE Covering(c, store[c].ref)
    <3>1. CASE \E d \in Box : d.id = store[c].ref
      BY <1>1, <1>2, <3>1 DEF Covered, Covering
    <3>2. CASE \E z \in Reads : z.kind = "tree" /\ z.id = store[c].ref /\ (z.tree = Unanswered \/ c \in DOMAIN z.tree)
      <4>1. PICK z \in Reads : z.kind = "tree" /\ z.id = store[c].ref /\ (z.tree = Unanswered \/ c \in DOMAIN z.tree)
        BY <3>2
      <4>2. CASE z \in Reads'
        BY <1>1, <4>1, <4>2 DEF Covered, Covering
      <4>3. CASE z = x
        <5>1. x.tree # Unanswered
          BY DEF TreeDelivered
        <5>2. c # x.id
          <6>1. store[c].ref \in Root \cup {None}
            BY <1>0, <1>4, <2>1, ManyRefer DEF Due, TypeOK, Calm
          <6>2. QED
            BY <4>1, <4>3, <6>1, IdsApart
        <5>3. c \in below
          BY <1>1, <2>1, <4>1, <4>3, <5>1, <5>2
        <5>4. QED
          BY <1>1, <1>2, <5>3 DEF Covered
      <4>4. QED
        BY <1>1, <4>2, <4>3
    <3>3. QED
      BY <1>2, <2>3, <3>1, <3>2 DEF Covering
  <2>4. QED
    BY <1>1, <1>2, <2>2, <2>3 DEF Covered
<1>10. KidViews(c)'
  <2>1. SUFFICES ASSUME c \in marked', ~TreeRead(c)', NEW s \in kids, <<s, c>> \notin missed'
                 PROVE  \A f \in Field : view'[s][c][f] = "current" \/ \E d \in Pending : d.id = c /\ f \in d.fields
    BY <1>2 DEF KidViews
  <2>2. CASE c \in below
    BY <1>5, <2>2 DEF Whole
  <2>3. CASE c = x.id
    <3>1. Subscribers(c) = kids
      BY IdsApart DEF Subscribers
    <3>2. QED
      BY <1>1, <1>2, <1>4, <2>3, <3>1
  <2>4. CASE c \notin below /\ c # x.id
    <3>1. c \in marked /\ ~TreeRead(c)
      BY <1>1, <2>1, <2>4 DEF TreeRead
    <3>2. QED
      BY <1>2, <1>4, <1>6, <2>1, <2>4, <3>1 DEF KidViews
  <2>5. QED
    BY <2>2, <2>3, <2>4
<1>11. QED
  BY <1>7, <1>8, <1>9, <1>10

LEMMA TreeInv ==
  ASSUME Calm, Inv, NEW i \in DOMAIN reads, Deliver(i), Tree(i)
  PROVE  Inv'
<1>0. TInv /\ TInv' /\ TypeOK
  BY DeliverTInv DEF Inv, TInv
<1>1. PICK x, below : x = reads[i] /\ TreeDelivered(x, below)
  BY TreeEffect
<1>2. /\ x \in Reads /\ x.kind = "tree" /\ x.id \in Id /\ TreeReadOK(x)
      /\ Reads' \subseteq Reads
      /\ \A c \in below : c \in Child /\ c \in Id /\ store[c] # Absent
      /\ known' = known \cup below /\ marked' = marked \cup below
      /\ \A s \in Client, id \in Id : view'[s][id] =
           IF (id = x.id /\ s \in Subscribers(id)) \/ (id \in below /\ s \in kids)
           THEN [f \in Field |-> "current"] ELSE view[s][id]
      /\ UNCHANGED <<store, outbox, roots, kids, linked, ready, phase>> /\ ready = <<>>
  BY <1>1 DEF TreeDelivered
<1>3. Old = roots /\ kids \subseteq roots /\ (\A z \in Reads : z.kind = "tree") /\ store[x.id] # Absent
  BY <1>0, <1>2, AllOld DEF TypeOK, TInv, Queues
<1>4. Box' = Box /\ Tasks' = {}
  BY <1>2 DEF Box, Tasks, ToSet
<1>5. Once'
  BY TreeOnce
<1>6. Alone'
  BY <1>2, <1>3 DEF Alone
<1>7. Writes' /\ RefStored' /\ RefsFirst'
  BY <1>2, <1>4 DEF Inv, Writes, WrittenNow, RefStored, RefsFirst
<1>8. KnownStored' /\ TaskWas'
  BY <1>2, <1>4 DEF Inv, KnownStored, TaskWas
<1>9. Unseen'
  <2>1. SUFFICES ASSUME NEW s \in Client, NEW id \in Id, store[id] = Absent \/ phase[s] # "in", NEW f \in Field
                 PROVE  view'[s][id][f] = "none"
    BY <1>2 DEF Unseen
  <2>2. view[s][id][f] = "none"
    BY <2>1 DEF Inv, Unseen
  <2>3. ~((id = x.id /\ s \in Subscribers(id)) \/ (id \in below /\ s \in kids))
    BY <1>2, <1>3, <2>1 DEF Old, Subscribers
  <2>4. QED
    BY <1>2, <2>2, <2>3
<1>10. ReadsOK'
  <2>1. ASSUME NEW z \in Reads PROVE ReadOK(z)'
    <3>1. ReadOK(z) /\ z.kind = "tree"
      BY <1>3 DEF Inv, ReadsOK
    <3>2. QED
      BY <1>2, <3>1 DEF ReadOK, TreeReadOK, TreeOK, Scoped, Subscribers
  <2>2. \A s \in Client : phase'[s] # "reading"
    BY <1>2, <1>3 DEF Inv, ReadsOK
  <2>3. QED
    BY <1>2, <2>1, <2>2 DEF ReadsOK
<1>11. RootInv' /\ ChildInv'
  BY <1>1, TreeRoots, TreeChildren
<1>12. QED
  BY <1>0, <1>5, <1>6, <1>7, <1>8, <1>9, <1>10, <1>11 DEF Inv

-----------------------------------------------------------------------------
(* A continuation.                                                         *)

Fetches(t) == t.is /\ ~t.was /\ (t.delta.op = "UPDATE" \/ (t.delta.id \in Root /\ linked))
Tells(t) == ~Fetches(t) /\ ((t.delta.op = "UPDATE" /\ t.was) \/ (t.delta.op = "INSERT" /\ t.is))

Continued(t, x) ==
  /\ t \in Tasks /\ t \in TaskType /\ t.delta.id \in Id
  /\ Tasks = Tasks' \cup {t} /\ \A u \in Tasks' : u.delta.id # t.delta.id
  /\ marked' = IF t.is THEN marked \cup {t.delta.id} ELSE marked \ {t.delta.id}
  /\ x.kind = "tree" /\ x.id = t.delta.id /\ x.client = None /\ x.tree = Unanswered /\ x.orphan = FALSE
  /\ x.include <=> t.delta.id \in Root /\ kids # {}
  /\ Reads' = IF Fetches(t) THEN Reads \cup {x} ELSE Reads
  /\ \A s \in Client, id \in Id, f \in Field : view'[s][id][f] =
       IF Tells(t) /\ s \in Subscribers(id) /\ id = t.delta.id /\ f \in t.delta.fields THEN "current"
       ELSE view[s][id][f]
  /\ missed' \subseteq missed /\ \A m \in missed : m \in missed' \/ (t.delta.op = "INSERT" /\ t.is /\ m[2] = t.delta.id)
  /\ UNCHANGED <<store, outbox, known, edge, roots, kids, linked, phase>>

LEMMA ToldFields ==
  ASSUME TInv, NEW S, NEW d \in DeltaType, d.fresh = d.fields,
         NEW s \in Client, NEW id \in Id, NEW f \in Field
  PROVE  Told(S, d)[s][id][f] = IF s \in S /\ id = d.id /\ f \in d.fields THEN "current" ELSE view[s][id][f]
<1>1. view \in [Client -> [Id -> [Field -> Held]]] /\ d.id \in Id
  BY DEF TInv, TypeOK, DeltaType
<1>2. PICK l : l = Learned(view[s][d.id], d.fields, d.fresh)
  OBVIOUS
<1>3. l[f] = IF f \in d.fields THEN "current" ELSE view[s][d.id][f]
  BY <1>2 DEF Learned
<1>4. Told(S, d)[s] = IF s \in S THEN [view[s] EXCEPT ![d.id] = l] ELSE view[s]
  BY <1>2 DEF Told
<1>5. view[s] \in [Id -> [Field -> Held]]
  BY <1>1
<1>6. Told(S, d)[s][id] = IF s \in S /\ id = d.id THEN l ELSE view[s][id]
  BY <1>1, <1>4, <1>5
<1>7. QED
  BY <1>3, <1>6

LEMMA ContinueEffect ==
  ASSUME Calm, Inv, Continue
  PROVE  \E t, x :
           /\ Continued(t, x)
           /\ ready # <<>> /\ t = Head(ready) /\ ready' = Tail(ready) /\ outbox' = outbox /\ x \in ReadType
           /\ reads' = IF Fetches(t) THEN Append(reads, x) ELSE reads
<1>0. TInv /\ TypeOK /\ Once /\ TaskWas /\ Writes /\ ready \in Seq(TaskType) /\ reads \in Seq(ReadType)
  BY DEF Inv, TInv, Queues
<1>1. PICK t : t = Head(ready)
  OBVIOUS
<1>2. /\ ready # <<>> /\ ready' = Tail(ready)
      /\ TakeInsert(t) \/ TakeUpdate(t)
      /\ UNCHANGED <<store, outbox, known, edge, nodes, phase>>
  BY <1>1 DEF Continue
<1>3. /\ t \in TaskType /\ t \in Tasks /\ Tasks = ToSet(Tail(ready)) \cup {t} /\ Tail(ready) \in Seq(TaskType)
      /\ 1 \in DOMAIN ready /\ t = ready[1]
      /\ \A j \in DOMAIN Tail(ready) : j + 1 \in DOMAIN ready /\ j + 1 # 1 /\ Tail(ready)[j] = ready[j + 1]
  BY <1>0, <1>1, <1>2, TailSet DEF Tasks
<1>4. PICK d \in DeltaType : d = t.delta /\ d.id \in Id /\ d.op \in {"INSERT", "UPDATE"}
  BY <1>3 DEF TaskType, DeltaType
<1>5. /\ d.fresh = d.fields /\ (t.was <=> d.id \in marked) /\ (d.op = "INSERT" => ~t.was)
      /\ t.is => Subscribers(d.id) # {}
      /\ t.is \in BOOLEAN /\ t.was \in BOOLEAN
  BY <1>0, <1>3, <1>4 DEF Writes, WrittenNow, TaskWas, TaskType
<1>6. PICK x : x = Read("tree", d.id, None, d.id \in Root /\ linked /\ kids # {})
  OBVIOUS
<1>7. x \in ReadType /\ Fetch("tree", d.id) = Append(reads, x)
  BY <1>0, <1>4, <1>6, FetchType
<1>8. /\ x.kind = "tree" /\ x.id = d.id /\ x.client = None /\ x.tree = Unanswered /\ x.orphan = FALSE
      /\ x.include <=> d.id \in Root /\ kids # {}
  <2>1. x.kind = "tree" /\ x.id = d.id /\ x.client = None /\ x.tree = Unanswered /\ x.orphan = FALSE
    BY <1>6 DEF Read
  <2>2. x.include = (d.id \in Root /\ linked /\ kids # {})
    BY <1>6 DEF Read
  <2>3. kids # {} => linked
    BY <1>0 DEF TypeOK
  <2>4. QED
    BY <2>1, <2>2, <2>3
<1>9. /\ marked' = IF t.is THEN marked \cup {d.id} ELSE marked \ {d.id}
      /\ reads' = IF Fetches(t) THEN Append(reads, x) ELSE reads
      /\ view' = IF Tells(t) THEN Told(Subscribers(d.id), d) ELSE view
      /\ missed' = IF d.op = "INSERT" /\ Tells(t) THEN Given(Subscribers(d.id), d.id) ELSE missed
  <2>1. CASE d.op = "INSERT"
    <3>1. TakeInsert(t)
      BY <1>2, <1>4, <2>1 DEF TakeUpdate
    <3>2. CASE t.is
      BY <1>4, <1>5, <1>7, <2>1, <3>1, <3>2 DEF TakeInsert, Fetches, Tells
    <3>3. CASE ~t.is
      BY <1>4, <1>5, <1>7, <2>1, <3>1, <3>3 DEF TakeInsert, Fetches, Tells
    <3>4. QED
      BY <3>2, <3>3
  <2>2. CASE d.op = "UPDATE"
    <3>1. TakeUpdate(t)
      BY <1>2, <1>4, <2>2 DEF TakeInsert
    <3>2. QED
      BY <1>4, <1>5, <1>7, <2>2, <3>1 DEF TakeUpdate, Fetches, Tells
  <2>3. QED
    BY <1>4, <2>1, <2>2
<1>10. Reads' = IF Fetches(t) THEN Reads \cup {x} ELSE Reads
  <2>1. CASE Fetches(t)
    BY <1>0, <1>7, <1>9, <2>1, ReadAdded
  <2>2. CASE ~Fetches(t)
    BY <1>9, <2>2 DEF Reads
  <2>3. QED
    BY <2>1, <2>2
<1>11. ASSUME NEW s \in Client, NEW id \in Id, NEW f \in Field
       PROVE  view'[s][id][f] = IF Tells(t) /\ s \in Subscribers(id) /\ id = d.id /\ f \in d.fields THEN "current"
                                ELSE view[s][id][f]
  <2>1. CASE Tells(t)
    <3>1. view' = Told(Subscribers(d.id), d)
      BY <1>9, <2>1
    <3>2. QED
      BY <1>0, <1>5, <2>1, <3>1, ToldFields
  <2>2. CASE ~Tells(t)
    BY <1>9, <2>2
  <2>3. QED
    BY <2>1, <2>2
<1>12. missed' \subseteq missed /\ \A m \in missed : m \in missed' \/ (d.op = "INSERT" /\ t.is /\ m[2] = d.id)
  BY <1>5, <1>9 DEF Given, Tells
<1>13. Tasks' = ToSet(Tail(ready)) /\ \A u \in Tasks' : u.delta.id # d.id
  <2>1. Tasks' = ToSet(Tail(ready))
    BY <1>2 DEF Tasks
  <2>2. \A j \in DOMAIN Tail(ready) : Tail(ready)[j].delta.id # d.id
    BY <1>0, <1>3, <1>4 DEF Once
  <2>3. QED
    BY <2>1, <2>2 DEF ToSet
<1>14. Continued(t, x)
  BY <1>2, <1>3, <1>4, <1>8, <1>9, <1>10, <1>11, <1>12, <1>13 DEF Continued, nodes
<1>15. QED
  BY <1>1, <1>2, <1>3, <1>7, <1>9, <1>14

LEMMA ContinueOnce ==
  ASSUME Calm, Inv, Continue
  PROVE  Once' /\ Alone'
<1>0. TInv /\ Once /\ ready \in Seq(TaskType) /\ reads \in Seq(ReadType)
  BY DEF Inv, TInv, Queues
<1>1. PICK t, x :
        /\ Continued(t, x)
        /\ ready # <<>> /\ t = Head(ready) /\ ready' = Tail(ready) /\ outbox' = outbox /\ x \in ReadType
        /\ reads' = IF Fetches(t) THEN Append(reads, x) ELSE reads
  BY ContinueEffect
<1>2. /\ t \in Tasks /\ Tasks = Tasks' \cup {t} /\ \A u \in Tasks' : u.delta.id # t.delta.id
      /\ x.kind = "tree" /\ x.id = t.delta.id
      /\ Reads' = IF Fetches(t) THEN Reads \cup {x} ELSE Reads
  BY <1>1 DEF Continued
<1>3. Box' = Box /\ \A y \in Reads : y.kind = "tree"
  BY <1>1, <1>2, AllOld DEF Box
<1>4. \A i, j \in DOMAIN ready' : ready'[i].delta.id = ready'[j].delta.id => i = j
  <2>1. \A j \in DOMAIN Tail(ready) : j + 1 \in DOMAIN ready /\ Tail(ready)[j] = ready[j + 1] /\ j \in Nat
    BY <1>0, <1>1, TailSet
  <2>2. ASSUME NEW i \in DOMAIN Tail(ready), NEW j \in DOMAIN Tail(ready),
               Tail(ready)[i].delta.id = Tail(ready)[j].delta.id
        PROVE  i = j
    <3>1. i + 1 = j + 1
      BY <1>0, <2>1, <2>2 DEF Once
    <3>2. QED
      BY <2>1, <3>1
  <2>3. QED
    BY <1>1, <2>2
<1>5. \A i, j \in DOMAIN reads' : reads'[i].id = reads'[j].id => i = j
  <2>1. CASE ~Fetches(t)
    BY <1>0, <1>1, <2>1 DEF Once
  <2>2. CASE Fetches(t)
    <3>1. PICK n : /\ DOMAIN reads' = DOMAIN reads \cup {n} /\ reads'[n] = x
                   /\ \A i \in DOMAIN reads : reads'[i] = reads[i]
      BY <1>0, <1>1, <2>2, AppendSet
    <3>2. \A i \in DOMAIN reads : reads[i].id # x.id
      BY <1>0, <1>2, UnderWay DEF Once
    <3>3. QED
      BY <1>0, <3>1, <3>2 DEF Once
  <2>3. QED
    BY <2>1, <2>2
<1>6. /\ \A d \in Box', u \in Tasks' : d.id # u.delta.id
      /\ \A d \in Box', y \in Reads' : d.id # y.id
      /\ \A u \in Tasks', y \in Reads' : u.delta.id # y.id
  BY <1>0, <1>2, <1>3 DEF Once
<1>7. Once'
  BY <1>0, <1>1, <1>3, <1>4, <1>5, <1>6 DEF Once
<1>8. Alone'
  BY <1>2, <1>3 DEF Alone
<1>9. QED
  BY <1>7, <1>8

LEMMA ContinueRest ==
  ASSUME Calm, Inv, NEW t, NEW x, Continued(t, x)
  PROVE  Writes' /\ RefStored' /\ KnownStored' /\ Unseen' /\ TaskWas' /\ ReadsOK'
<1>0. TInv /\ TypeOK /\ Apart /\ Writes /\ TaskWas /\ ReadsOK
  BY OnceApart DEF Inv, TInv
<1>1. /\ t \in Tasks /\ t \in TaskType /\ t.delta.id \in Id
      /\ Tasks = Tasks' \cup {t} /\ \A u \in Tasks' : u.delta.id # t.delta.id
      /\ marked' = IF t.is THEN marked \cup {t.delta.id} ELSE marked \ {t.delta.id}
      /\ x.kind = "tree" /\ x.id = t.delta.id /\ x.client = None /\ x.tree = Unanswered /\ x.orphan = FALSE
      /\ x.include <=> t.delta.id \in Root /\ kids # {}
      /\ Reads' = IF Fetches(t) THEN Reads \cup {x} ELSE Reads
      /\ \A s \in Client, id \in Id, f \in Field : view'[s][id][f] =
           IF Tells(t) /\ s \in Subscribers(id) /\ id = t.delta.id /\ f \in t.delta.fields THEN "current"
           ELSE view[s][id][f]
      /\ UNCHANGED <<store, outbox, known, edge, roots, kids, linked, phase>>
  BY DEF Continued
<1>2. Box' = Box /\ Old = roots /\ kids \subseteq roots /\ (\A y \in Reads : y.kind = "tree")
  BY <1>0, <1>1, AllOld DEF Box, TypeOK
<1>3. Writes' /\ RefStored' /\ KnownStored'
  BY <1>1, <1>2 DEF Inv, Writes, WrittenNow, RefStored, KnownStored
<1>4. TaskWas'
  <2>1. SUFFICES ASSUME NEW u \in Tasks'
                 PROVE  /\ u.was <=> u.delta.id \in marked'
                        /\ u.delta.op = "INSERT" => ~u.was
                        /\ u.is => Subscribers(u.delta.id)' # {}
                        /\ u.delta.id \in Root => (u.is <=> roots' # {} /\ u.delta.row.ok)
    BY DEF TaskWas
  <2>2. /\ u.was <=> u.delta.id \in marked
        /\ u.delta.op = "INSERT" => ~u.was
        /\ u.is => Subscribers(u.delta.id) # {}
        /\ u.delta.id \in Root => (u.is <=> roots # {} /\ u.delta.row.ok)
        /\ u.delta.id # t.delta.id
    BY <1>0, <1>1 DEF TaskWas
  <2>3. Subscribers(u.delta.id)' = Subscribers(u.delta.id)
    BY <1>1 DEF Subscribers
  <2>4. u.delta.id \in marked' <=> u.delta.id \in marked
    BY <1>1, <2>2
  <2>5. QED
    BY <1>1, <2>2, <2>3, <2>4
<1>5. Unseen'
  <2>1. SUFFICES ASSUME NEW s \in Client, NEW id \in Id, store[id] = Absent \/ phase[s] # "in", NEW f \in Field
                 PROVE  view'[s][id][f] = "none"
    BY <1>1 DEF Unseen
  <2>2. view[s][id][f] = "none"
    BY <2>1 DEF Inv, Unseen
  <2>3. store[t.delta.id] # Absent
    BY <1>0, <1>1 DEF TInv, Queues
  <2>4. s \in Subscribers(id) => phase[s] = "in"
    BY <1>2 DEF Subscribers, Old
  <2>5. QED
    BY <1>1, <2>1, <2>2, <2>3, <2>4
<1>6. ReadsOK'
  <2>1. ASSUME NEW z \in Reads PROVE ReadOK(z)'
    <3>1. ReadOK(z) /\ z.kind = "tree" /\ z.id # t.delta.id
      BY <1>0, <1>1, <1>2 DEF ReadsOK, Apart
    <3>2. z.id \in marked => z.id \in marked'
      BY <1>1, <3>1
    <3>3. QED
      BY <1>1, <3>1, <3>2 DEF ReadOK, TreeReadOK, TreeOK, Scoped, Subscribers
  <2>2. Fetches(t) => ReadOK(x)'
    <3>1. SUFFICES ASSUME Fetches(t) PROVE ReadOK(x)'
      OBVIOUS
    <3>2. t.is /\ Subscribers(t.delta.id) # {} /\ (t.delta.id \in Root => t.delta.row.ok)
      BY <1>0, <1>1, <3>1 DEF Fetches, TaskWas
    <3>3. store[t.delta.id] = t.delta.row /\ store[t.delta.id] # Absent
      BY <1>0, <1>1 DEF Writes, WrittenNow, TInv, Queues
    <3>4. x.id \in Root => Scoped(x.id)'
      BY <1>1, <3>2, <3>3 DEF Scoped
    <3>5. x.id \in marked' /\ Subscribers(x.id)' # {}
      BY <1>1, <3>2 DEF Subscribers
    <3>6. TreeReadOK(x)'
      BY <1>1, <3>4, <3>5 DEF TreeReadOK
    <3>7. QED
      BY <1>1, <3>6 DEF ReadOK
  <2>3. \A s \in Client : phase'[s] # "reading"
    BY <1>1, <1>2 DEF Inv, ReadsOK
  <2>4. QED
    BY <1>1, <2>1, <2>2, <2>3 DEF ReadsOK
<1>7. QED
  BY <1>3, <1>4, <1>5, <1>6

LEMMA ContinueRoots ==
  ASSUME Calm, Inv, NEW t, NEW x, Continued(t, x)
  PROVE  RootInv'
<1>0. TInv /\ TypeOK /\ Apart /\ Writes /\ TaskWas /\ RootInv
  BY OnceApart DEF Inv, TInv
<1> DEFINE d == t.delta
<1>1. /\ t \in Tasks /\ t \in TaskType /\ d \in DeltaType /\ d.id \in Id
      /\ Tasks = Tasks' \cup {t} /\ \A u \in Tasks' : u.delta.id # d.id
      /\ marked' = IF t.is THEN marked \cup {d.id} ELSE marked \ {d.id}
      /\ x.kind = "tree" /\ x.id = d.id
      /\ Reads' = IF Fetches(t) THEN Reads \cup {x} ELSE Reads
      /\ \A s \in Client, id \in Id, f \in Field : view'[s][id][f] =
           IF Tells(t) /\ s \in Subscribers(id) /\ id = d.id /\ f \in d.fields THEN "current"
           ELSE view[s][id][f]
      /\ UNCHANGED <<store, outbox, known, edge, roots, kids, linked, phase>>
  BY DEF Continued, TaskType
<1> HIDE DEF d
<1>2. /\ Box' = Box /\ Old' = Old /\ Old = roots /\ Old \subseteq Client
      /\ Pending = Pending' \cup {d} /\ d \in Pending /\ \A e \in Pending' : e.id # d.id
  <2>1. Old = roots
    BY <1>1, AllOld
  <2>2. Box' = Box
    BY <1>1 DEF Box
  <2>3. \A e \in Box : e.id # d.id
    BY <1>0, <1>1 DEF Apart, d
  <2>4. Pending' = Box \cup {u.delta : u \in Tasks'}
    BY <2>2 DEF Pending
  <2>5. Pending = Pending' \cup {d}
    BY <1>1, <2>4 DEF Pending, d
  <2>6. \A e \in Pending' : e.id # d.id
    BY <1>1, <2>3, <2>4
  <2>7. QED
    BY <1>0, <1>1, <2>1, <2>2, <2>5, <2>6 DEF Old
<1>3. SUFFICES ASSUME NEW r \in Root PROVE RootOK(r)'
  BY DEF RootInv
<1>4. r \in Id /\ RootOK(r) /\ (Scoped(r)' <=> Scoped(r)) /\ "ok" \in Field /\ "ref" \in Field
  BY <1>0, <1>1, IdsApart DEF RootInv, Scoped, Field
<1>5. \A e \in Box' : e.id = r /\ e.op = "INSERT" => r \notin known'
  BY <1>1, <1>2, <1>4 DEF RootOK
<1>6. CASE r # d.id
  <2>1. \A s \in Old, f \in Field : view'[s][r][f] = view[s][r][f]
    BY <1>1, <1>2, <1>4, <1>6
  <2>2. TreeRead(r) => TreeRead(r)'
    BY <1>1 DEF TreeRead
  <2>3. r \in marked' <=> r \in marked
    BY <1>1, <1>6
  <2>4. \A e \in Pending' : e.id = r => e \in Pending
    BY <1>2
  <2>5. \A e \in Pending : e.id = r => e \in Pending'
    BY <1>2, <1>6
  <2>6. QED
    BY <1>2, <1>4, <1>5, <2>1, <2>2, <2>3, <2>4, <2>5, RootKept
<1>7. CASE r = d.id
  <2>1. MarkedOK(r, Was(d)) /\ Views(r, Was(d), Behind(d))
    BY <1>2, <1>4, <1>7 DEF RootOK
  <2>2. /\ t.was <=> r \in marked
        /\ d.op = "INSERT" => ~t.was
        /\ t.is <=> roots # {} /\ d.row.ok
        /\ store[r] = d.row /\ store[r] # Absent
        /\ d.op = "INSERT" => d.fields = Field
        /\ d.op = "INSERT" \/ d.fields = {"ok"}
        /\ d.op \in {"INSERT", "UPDATE"}
    BY <1>0, <1>1, <1>7 DEF TaskWas, Writes, WrittenNow, TInv, Queues, DeltaType, d
  <2>3. Scoped(r) <=> d.row.ok
    BY <2>2 DEF Scoped
  <2>4. \A e \in Pending' : e.id # r
    BY <1>2, <1>7
  <2>5. CASE Fetches(t)
    <3>1. TreeRead(r)'
      BY <1>1, <1>7, <2>5 DEF TreeRead
    <3>2. QED
      BY <1>5, <2>4, <3>1 DEF RootOK
  <2>6. CASE ~Fetches(t)
    <3>1. MarkedOK(r, Scoped(r))'
      BY <1>1, <1>2, <1>4, <1>7, <2>2, <2>3 DEF MarkedOK
    <3>2. \A s \in Old : Scoped(r) => \A f \in Field : view'[s][r][f] = "current"
      <4>1. SUFFICES ASSUME NEW s \in Old, d.row.ok, NEW f \in Field PROVE view'[s][r][f] = "current"
        BY <2>3
      <4>2. t.is
        BY <1>2, <2>2, <4>1
      <4>3. d.op = "INSERT"
        <5>1. d.op = "UPDATE" => ~Was(d) /\ ~t.was
          BY <2>1, <2>2, <4>1 DEF Was, MarkedOK
        <5>2. QED
          BY <2>2, <2>6, <4>2, <5>1 DEF Fetches, d
      <4>4. Tells(t)
        BY <2>6, <4>2, <4>3 DEF Tells, d
      <4>5. QED
        BY <1>1, <1>2, <1>4, <1>7, <2>2, <4>3, <4>4 DEF Subscribers
    <3>3. \A s \in Old : view'[s][r]["ok"] # "old"
      <4>1. TAKE s \in Old
      <4>2. CASE Scoped(r)
        BY <1>4, <3>2, <4>2
      <4>3. CASE ~Scoped(r) /\ d.op = "INSERT"
        <5>1. view[s][r]["ok"] # "old"
          BY <2>1, <4>3 DEF Views, Behind
        <5>2. QED
          BY <1>1, <1>2, <1>4, <5>1
      <4>4. CASE ~Scoped(r) /\ d.op = "UPDATE"
        <5>1. Was(d) /\ r \in marked /\ t.was
          BY <1>2, <2>1, <2>2, <2>3, <4>4 DEF Was, MarkedOK
        <5>2. Tells(t) /\ d.fields = {"ok"}
          BY <2>2, <2>6, <4>4, <5>1 DEF Tells, d
        <5>3. QED
          BY <1>1, <1>2, <1>4, <1>7, <5>2 DEF Subscribers
      <4>5. QED
        BY <2>2, <4>2, <4>3, <4>4
    <3>4. Views(r, Scoped(r), {})'
      BY <1>2, <1>4, <3>2, <3>3 DEF Views
    <3>5. QED
      BY <1>5, <2>4, <3>1, <3>4 DEF RootOK
  <2>7. QED
    BY <2>5, <2>6
<1>8. QED
  BY <1>6, <1>7

LEMMA ContinueChildren ==
  ASSUME Calm, Inv, NEW t, NEW x, Continued(t, x)
  PROVE  ChildInv'
<1>0. TInv /\ TypeOK /\ Apart /\ Writes /\ TaskWas /\ ChildInv
  BY OnceApart DEF Inv, TInv
<1> DEFINE d == t.delta
<1>1. /\ t \in Tasks /\ t \in TaskType /\ d \in DeltaType /\ d.id \in Id
      /\ Tasks = Tasks' \cup {t} /\ \A u \in Tasks' : u.delta.id # d.id
      /\ marked' = IF t.is THEN marked \cup {d.id} ELSE marked \ {d.id}
      /\ x.kind = "tree" /\ x.id = d.id /\ x.tree = Unanswered
      /\ Reads' = IF Fetches(t) THEN Reads \cup {x} ELSE Reads
      /\ \A s \in Client, id \in Id, f \in Field : view'[s][id][f] =
           IF Tells(t) /\ s \in Subscribers(id) /\ id = d.id /\ f \in d.fields THEN "current"
           ELSE view[s][id][f]
      /\ \A m \in missed : m \in missed' \/ (d.op = "INSERT" /\ t.is /\ m[2] = d.id)
      /\ UNCHANGED <<store, outbox, known, edge, roots, kids, linked, phase>>
  BY DEF Continued, TaskType
<1>2. /\ t.was <=> d.id \in marked
      /\ d.op = "INSERT" => ~t.was
      /\ d.op = "INSERT" => d.fields = Field
      /\ d.op \in {"INSERT", "UPDATE"}
      /\ \A e \in Box : e.id # d.id
      /\ \A z \in Reads : z.id # d.id
  BY <1>0, <1>1 DEF TaskWas, Writes, WrittenNow, DeltaType, Apart
<1>3. Fetches(t) <=> t.is /\ ~t.was /\ (d.op = "UPDATE" \/ (d.id \in Root /\ linked))
  BY DEF Fetches
<1>4. Tells(t) <=> ~Fetches(t) /\ ((d.op = "UPDATE" /\ t.was) \/ (d.op = "INSERT" /\ t.is))
  BY DEF Tells
<1>5. Pending = Box \cup {u.delta : u \in Tasks} /\ Pending = Pending' \cup {d}
  <2>1. Box' = Box
    BY <1>1 DEF Box
  <2>2. QED
    BY <1>1, <2>1 DEF Pending
<1> HIDE DEF d
<1>6. /\ Box' = Box /\ OldKids' = OldKids /\ OldKids = kids /\ kids \subseteq Client /\ (kids # {} => linked)
      /\ \A e \in Pending' : e.id # d.id
  <2>1. OldKids = kids /\ Box' = Box
    BY <1>1, AllOld DEF Box
  <2>2. Pending' = Box \cup {u.delta : u \in Tasks'}
    BY <2>1 DEF Pending
  <2>3. \A e \in Pending' : e.id # d.id
    BY <1>1, <1>2, <2>2
  <2>4. QED
    BY <1>0, <1>1, <2>1, <2>3 DEF OldKids, Old, TypeOK
<1>7. SUFFICES ASSUME NEW c \in Child PROVE InsertKnown(c)' /\ EdgeOK(c)' /\ DueCovered(c)' /\ KidViews(c)'
  BY DEF ChildInv
<1>8. c \in Id /\ c \notin Root /\ InsertKnown(c) /\ EdgeOK(c) /\ DueCovered(c) /\ KidViews(c)
  BY <1>0, IdsApart DEF ChildInv
<1>9. c # d.id => /\ \A s \in kids, f \in Field : view'[s][c][f] = view[s][c][f]
                  /\ \A s : <<s, c>> \in missed => <<s, c>> \in missed'
                  /\ c \in marked' <=> c \in marked
  <2>1. SUFFICES ASSUME c # d.id
                 PROVE  /\ \A s \in kids, f \in Field : view'[s][c][f] = view[s][c][f]
                        /\ \A s : <<s, c>> \in missed => <<s, c>> \in missed'
                        /\ c \in marked' <=> c \in marked
    OBVIOUS
  <2>2. \A s \in kids, f \in Field : view'[s][c][f] = view[s][c][f]
    BY <1>1, <1>6, <1>8, <2>1
  <2>3. \A s : <<s, c>>[2] = c
    OBVIOUS
  <2>4. \A s : <<s, c>> \in missed => <<s, c>> \in missed'
    BY <1>1, <2>1, <2>3
  <2>5. QED
    BY <1>1, <2>1, <2>2, <2>4
<1>10. EdgeOK(c)'
  BY <1>1, <1>6, <1>8 DEF EdgeOK
<1>11. InsertKnown(c)'
  <2>1. SUFFICES ASSUME NEW e \in Box, e.id = c, e.op = "INSERT", c \in known
                 PROVE  /\ kids # {} => c \in marked'
                        /\ \A s \in kids : <<s, c>> \notin missed' => Whole(s, c)'
    BY <1>1, <1>6 DEF InsertKnown
  <2>2. c # d.id
    BY <1>2, <2>1
  <2>3. /\ kids # {} => c \in marked
        /\ \A s \in kids : <<s, c>> \notin missed => Whole(s, c)
    BY <1>8, <2>1 DEF InsertKnown
  <2>4. QED
    BY <1>9, <2>2, <2>3 DEF Whole
<1>12. DueCovered(c)'
  <2>1. SUFFICES ASSUME Due(c), kids # {} PROVE Covered(c)'
    BY <1>1, <1>6 DEF DueCovered, Due, Scoped
  <2>2. Covered(c)
    BY <1>6, <1>8, <2>1 DEF DueCovered
  <2>3. Covering(c, store[c].ref) => Covered(c)'
    <3>1. CASE \E e \in Box : e.id = store[c].ref
      BY <1>1, <1>6, <3>1 DEF Covered, Covering
    <3>2. CASE \E z \in Reads : z.kind = "tree" /\ z.id = store[c].ref /\ (z.tree = Unanswered \/ c \in DOMAIN z.tree)
      <4>1. PICK z \in Reads : z.kind = "tree" /\ z.id = store[c].ref /\ (z.tree = Unanswered \/ c \in DOMAIN z.tree)
        BY <3>2
      <4>2. z \in Reads'
        BY <1>1
      <4>3. QED
        BY <1>1, <4>1, <4>2 DEF Covered, Covering
    <3>3. CASE \E u \in Tasks : u.delta.id = store[c].ref /\ ~u.was /\ u.is
      <4>1. PICK u \in Tasks : u.delta.id = store[c].ref /\ ~u.was /\ u.is
        BY <3>3
      <4>2. CASE u \in Tasks'
        BY <1>1, <4>1, <4>2 DEF Covered, Covering
      <4>3. CASE u = t
        <5>1. d.id = store[c].ref /\ ~t.was /\ t.is
          BY <4>1, <4>3 DEF d
        <5>2. d.id \in Root
          BY <1>0, <1>1, <1>8, <2>1, <5>1, ManyRefer, IdsApart DEF Due, TypeOK, Calm
        <5>3. Fetches(t)
          BY <1>2, <1>3, <1>6, <2>1, <5>1, <5>2
        <5>4. QED
          BY <1>1, <5>1, <5>3 DEF Covered, Covering
      <4>4. QED
        BY <1>1, <4>1, <4>2, <4>3
    <3>4. QED
      BY <3>1, <3>2, <3>3 DEF Covering
  <2>4. CASE c = d.id
    <3>1. \A u \in Tasks : u.delta.id = c => u = t
      BY <1>1, <2>4 DEF d
    <3>2. CASE t.is
      BY <1>1, <2>4, <3>2 DEF Covered
    <3>3. CASE ~t.is
      <4>1. t.delta.id = c /\ \A e \in Box : e.id # c
        BY <1>2, <2>4 DEF d
      <4>2. Covering(c, store[c].ref)
        BY <1>1, <2>2, <3>1, <3>3, <4>1 DEF Covered
      <4>3. QED
        BY <2>3, <4>2
    <3>4. QED
      BY <3>2, <3>3
  <2>5. CASE c # d.id
    <3>1. \A u \in Tasks : u.delta.id = c => u \in Tasks'
      BY <1>1, <2>5 DEF d
    <3>2. QED
      BY <1>1, <1>6, <1>9, <2>2, <2>3, <2>5, <3>1 DEF Covered
  <2>6. QED
    BY <2>4, <2>5
<1>13. KidViews(c)'
  <2>1. SUFFICES ASSUME c \in marked', ~TreeRead(c)', NEW s \in kids, <<s, c>> \notin missed', NEW f \in Field
                 PROVE  view'[s][c][f] = "current" \/ \E e \in Pending' : e.id = c /\ f \in e.fields
    BY <1>6 DEF KidViews
  <2>2. ~TreeRead(c)
    BY <1>1, <2>1 DEF TreeRead
  <2>3. CASE c # d.id
    <3>1. view[s][c][f] = "current" \/ \E e \in Pending : e.id = c /\ f \in e.fields
      BY <1>6, <1>8, <1>9, <2>1, <2>2, <2>3 DEF KidViews
    <3>2. QED
      BY <1>5, <1>9, <2>3, <3>1
  <2>4. CASE c = d.id
    <3>1. t.is
      BY <1>1, <2>1, <2>4
    <3>2. ~Fetches(t)
      BY <1>1, <2>1, <2>4 DEF TreeRead
    <3>3. Subscribers(c) = kids
      BY <1>8 DEF Subscribers
    <3>4. CASE d.op = "INSERT"
      BY <1>1, <1>2, <1>4, <1>6, <1>8, <2>4, <3>1, <3>2, <3>3, <3>4
    <3>5. CASE d.op = "UPDATE"
      <4>1. t.was /\ c \in marked /\ Tells(t)
        BY <1>2, <1>3, <1>4, <2>4, <3>1, <3>2, <3>5
      <4>2. CASE f \in d.fields
        BY <1>1, <1>6, <1>8, <2>4, <3>3, <4>1, <4>2
      <4>3. CASE f \notin d.fields
        <5>1. view'[s][c][f] = view[s][c][f]
          BY <1>1, <1>6, <1>8, <2>4, <4>3
        <5>2. <<s, c>> \notin missed
          BY <1>1, <2>1, <3>5
        <5>3. view[s][c][f] = "current" \/ \E e \in Pending : e.id = c /\ f \in e.fields
          BY <1>6, <1>8, <2>1, <2>2, <4>1, <5>2 DEF KidViews
        <5>4. QED
          BY <1>5, <4>3, <5>1, <5>3
      <4>4. QED
        BY <4>2, <4>3
    <3>6. QED
      BY <1>2, <3>4, <3>5
  <2>5. QED
    BY <2>3, <2>4
<1>14. QED
  BY <1>10, <1>11, <1>12, <1>13

LEMMA ContinueInv ==
  ASSUME Calm, Inv, Continue
  PROVE  Inv'
<1>1. PICK t, x : Continued(t, x) /\ outbox' = outbox
  BY ContinueEffect
<1>2. TInv'
  BY ContinueTInv DEF Inv
<1>3. RefsFirst'
  BY <1>1 DEF Inv, RefsFirst
<1>4. QED
  BY <1>1, <1>2, <1>3, ContinueOnce, ContinueRest, ContinueRoots, ContinueChildren DEF Inv

-----------------------------------------------------------------------------
(* A notification.                                                         *)

Ignored(d) == d.op = "INSERT" /\ d.id \in known
TaskRight(t) ==
  /\ t.was <=> t.delta.id \in marked
  /\ t.is <=> /\ Subscribers(t.delta.id) # {} /\ t.delta.row.ok
              /\ t.delta.id \in Child => t.delta.row.ref \in marked

\* The graph and the tasks when the writes S of a batch have been heard.
HeardOK(g, S) ==
  /\ \A t \in ToSet(g.tasks) : t.delta \in S /\ ~Ignored(t.delta) /\ TaskRight(t)
  /\ \A d \in S : Ignored(d) \/ \E t \in ToSet(g.tasks) : t.delta = d
  /\ known \subseteq g.known
  /\ \A id \in g.known : id \in known \/ \E d \in S : d.id = id \/ (d.row.ref = id /\ id # None)
  /\ \A c \in Child : g.edge[c] = edge[c] \/ \E d \in S : d.id = c /\ g.edge[c] = d.row.ref
  /\ \A d \in S : d.id \in Child /\ ~Ignored(d) /\ "ref" \in d.fields => g.edge[d.id] = d.row.ref
  /\ \A i, j \in DOMAIN g.tasks : g.tasks[i].delta.id = g.tasks[j].delta.id => i = j

LEMMA HeardNext ==
  ASSUME Calm, Inv, NEW g \in Hearing, NEW S, HeardOK(g, S), NEW d \in Box,
         \A e \in S : e.id # d.id /\ (e.row.ref = d.id => d.op # "INSERT")
  PROVE  Heard(g, d) \in Hearing /\ HeardOK(Heard(g, d), S \cup {d})
<1>0. TInv /\ TypeOK /\ Apart /\ Writes /\ ChildInv /\ d \in DeltaType /\ d.id \in Id
  BY OnceApart, UnderWay DEF Inv, TInv
<1>1. PICK h : h = Heard(g, d)
  OBVIOUS
<1>2. PICK t : t = Task(d, d.id \in marked, Matches(Applied(g, d), d))
  OBVIOUS
<1>3. /\ h \in Hearing
      /\ d.op = "INSERT" /\ d.id \in g.known => h = g
      /\ ~(d.op = "INSERT" /\ d.id \in g.known) =>
           /\ h.known = g.known \cup {d.id} \cup (IF "ref" \in d.fields THEN {d.row.ref} \ {None} ELSE {})
           /\ h.edge = Applied(g, d).edge
           /\ h.tasks = Append(g.tasks, t) /\ t \in TaskType
  BY <1>0, <1>1, <1>2, HeardFacts
<1>4. Ignored(d) <=> d.op = "INSERT" /\ d.id \in g.known
  <2>1. d.op = "INSERT" /\ d.id \in g.known => d.id \in known
    BY DEF HeardOK
  <2>2. d.id \in known => d.id \in g.known
    BY DEF HeardOK
  <2>3. QED
    BY <2>1, <2>2 DEF Ignored
<1>5. CASE Ignored(d)
  <2>1. h = g
    BY <1>3, <1>4, <1>5
  <2>2. HeardOK(g, S \cup {d})
    BY <1>5 DEF HeardOK
  <2>3. QED
    BY <1>1, <1>3, <2>1, <2>2
<1>6. CASE ~Ignored(d)
  <2>1. /\ h.known = g.known \cup {d.id} \cup (IF "ref" \in d.fields THEN {d.row.ref} \ {None} ELSE {})
        /\ h.edge = Applied(g, d).edge
        /\ h.tasks = Append(g.tasks, t) /\ t \in TaskType
    BY <1>3, <1>4, <1>6
  <2>2. g.edge \in [Child -> Id \cup {None}] /\ g.tasks \in Seq(TaskType)
    BY ManyRefer DEF Hearing, Calm
  <2>3. \A c \in Child : h.edge[c] = IF c = d.id /\ "ref" \in d.fields THEN d.row.ref ELSE g.edge[c]
    <3>1. h.edge = IF d.id \in Child /\ "ref" \in d.fields THEN [g.edge EXCEPT ![d.id] = d.row.ref] ELSE g.edge
      BY <2>1, ManyRefer DEF Applied, Calm
    <3>2. QED
      BY <2>2, <3>1
  <2>4. d.id \in Child => h.edge[d.id] = d.row.ref
    <3>1. SUFFICES ASSUME d.id \in Child, "ref" \notin d.fields PROVE g.edge[d.id] = d.row.ref
      BY <2>3
    <3>2. g.edge[d.id] = edge[d.id]
      BY <3>1 DEF HeardOK
    <3>3. EdgeOK(d.id) /\ store[d.id] = d.row /\ store[d.id] # Absent
      BY <1>0, <3>1 DEF ChildInv, Writes, WrittenNow, TInv, Queues
    <3>4. \A e \in Box : e.id = d.id => e = d
      BY <1>0 DEF Apart
    <3>5. QED
      BY <3>1, <3>2, <3>3, <3>4 DEF EdgeOK
  <2>5. t.delta = d /\ TaskRight(t)
    <3>1. t.delta = d /\ t.was = (d.id \in marked) /\ t.is = Matches(Applied(g, d), d)
      BY <1>2 DEF Task
    <3>2. t.was \in BOOLEAN /\ t.is \in BOOLEAN /\ d.row.ok \in BOOLEAN
      BY <1>0, <2>1 DEF TaskType, DeltaType, Row
    <3>3. Matches(Applied(g, d), d) <=> /\ Subscribers(d.id) # {} /\ d.row.ok
                                        /\ d.id \in Child => d.row.ref \in marked
      BY <2>1, <2>4, <3>2 DEF Matches, Calm
    <3>4. t.was <=> d.id \in marked
      BY <3>1, <3>2
    <3>5. t.is <=> Matches(Applied(g, d), d)
      BY <3>1, Zenon
    <3>6. QED
      BY <3>1, <3>3, <3>4, <3>5 DEF TaskRight
  <2>6. /\ ToSet(h.tasks) = ToSet(g.tasks) \cup {t}
        /\ \E n : /\ DOMAIN h.tasks = DOMAIN g.tasks \cup {n} /\ h.tasks[n] = t
                  /\ \A i \in DOMAIN g.tasks : h.tasks[i] = g.tasks[i]
    BY <2>1, <2>2, AppendSet
  <2>7. PICK n : /\ DOMAIN h.tasks = DOMAIN g.tasks \cup {n} /\ h.tasks[n] = t
                 /\ \A i \in DOMAIN g.tasks : h.tasks[i] = g.tasks[i]
    BY <2>6
  <2>8. \A i \in DOMAIN g.tasks : g.tasks[i].delta.id # d.id
    <3>1. \A i \in DOMAIN g.tasks : g.tasks[i] \in ToSet(g.tasks)
      BY DEF ToSet
    <3>2. QED
      BY <3>1 DEF HeardOK
  <2>9. \A i, j \in DOMAIN h.tasks : h.tasks[i].delta.id = h.tasks[j].delta.id => i = j
    BY <2>5, <2>7, <2>8 DEF HeardOK
  <2>10. \A u \in ToSet(h.tasks) : u.delta \in S \cup {d} /\ ~Ignored(u.delta) /\ TaskRight(u)
    BY <1>6, <2>5, <2>6 DEF HeardOK
  <2>11. \A e \in S \cup {d} : Ignored(e) \/ \E u \in ToSet(h.tasks) : u.delta = e
    BY <2>5, <2>6 DEF HeardOK
  <2>12. known \subseteq h.known
    BY <2>1 DEF HeardOK
  <2>13. \A id \in h.known : id \in known \/ \E e \in S \cup {d} : e.id = id \/ (e.row.ref = id /\ id # None)
    BY <2>1 DEF HeardOK
  <2>14. \A c \in Child : h.edge[c] = edge[c] \/ \E e \in S \cup {d} : e.id = c /\ h.edge[c] = e.row.ref
    BY <2>3 DEF HeardOK
  <2>15. \A e \in S \cup {d} : e.id \in Child /\ ~Ignored(e) /\ "ref" \in e.fields => h.edge[e.id] = e.row.ref
    BY <2>3 DEF HeardOK
  <2>16. HeardOK(h, S \cup {d})
    BY <2>9, <2>10, <2>11, <2>12, <2>13, <2>14, <2>15 DEF HeardOK
  <2>17. QED
    BY <1>1, <1>3, <2>16
<1>7. QED
  BY <1>5, <1>6

Notified(B) ==
  /\ B \subseteq Box /\ B # {} /\ Box = Box' \cup B /\ Tasks = {} /\ ready = <<>>
  /\ \A d \in B, e \in Box' : e.id # d.id /\ (e.op = "INSERT" => d.row.ref # e.id)
  /\ \A t \in Tasks' : t.delta \in B /\ ~Ignored(t.delta) /\ TaskRight(t)
  /\ \A d \in B : Ignored(d) \/ \E t \in Tasks' : t.delta = d
  /\ known \subseteq known'
  /\ \A id \in known' : id \in known \/ \E d \in B : d.id = id \/ (d.row.ref = id /\ id # None)
  /\ \A c \in Child : edge'[c] = edge[c] \/ \E d \in B : d.id = c /\ edge'[c] = d.row.ref
  /\ \A d \in B : d.id \in Child /\ ~Ignored(d) /\ "ref" \in d.fields => edge'[d.id] = d.row.ref
  /\ UNCHANGED <<store, marked, roots, kids, linked, reads, phase, view, missed>>

LEMMA NotifyEffect ==
  ASSUME Calm, Inv, NEW k \in DOMAIN outbox, Notify(k)
  PROVE  /\ Notified(ToSet(outbox[k]))
         /\ \A i, j \in DOMAIN ready' : ready'[i].delta.id = ready'[j].delta.id => i = j
<1>0. TInv /\ TypeOK /\ Once /\ RefsFirst /\ outbox \in Seq(Batch)
  BY DEF Inv, TInv, Queues
<1>1. PICK b \in Batch : b = outbox[k]
  BY <1>0, NotifyUnfolded
<1>2. PICK g1 \in Hearing, g \in Hearing :
        /\ g1 = Heard(NotHeard, b[1]) /\ g = IF Len(b) = 1 THEN g1 ELSE Heard(g1, b[2])
        /\ known' = g.known /\ edge' = g.edge /\ ready' = g.tasks
  BY <1>0, <1>1, NotifyUnfolded
<1>3. /\ NotHeard \in Hearing /\ outbox' = RemoveAt(outbox, k) /\ ready = <<>>
      /\ UNCHANGED <<store, marked, nodes, reads, phase, view, missed>>
  BY <1>0, NotifyUnfolded
<1>4. /\ Len(b) = 1 \/ Len(b) = 2
      /\ Len(b) = 1 => ToSet(b) = {b[1]} /\ DOMAIN b = {1}
      /\ Len(b) = 2 => ToSet(b) = {b[1], b[2]} /\ DOMAIN b = {1, 2}
  BY BatchSet
<1>5. \A j \in DOMAIN b : b[j] \in Box
  BY <1>0, <1>1, UnderWay
<1>6. HeardOK(NotHeard, {})
  BY DEF HeardOK, NotHeard, ToSet
<1>7. HeardOK(g1, {b[1]})
  <2>1. b[1] \in Box
    BY <1>4, <1>5
  <2>2. HeardOK(Heard(NotHeard, b[1]), {} \cup {b[1]})
    BY <1>3, <1>6, <2>1, HeardNext
  <2>3. QED
    BY <1>2, <2>2
<1>8. HeardOK(g, ToSet(b))
  <2>1. CASE Len(b) = 1
    BY <1>2, <1>4, <1>7, <2>1
  <2>2. CASE Len(b) = 2
    <3>1. b[2] \in Box /\ g = Heard(g1, b[2])
      BY <1>2, <1>4, <1>5, <2>2
    <3>2. b[1].id # b[2].id
      BY <1>0, <1>1, <1>4, <2>2 DEF Once
    <3>3. b[1].row.ref = b[2].id => b[2].op # "INSERT"
      <4>1. b[2].op = "INSERT" /\ b[1].row.ref = b[2].id => k = k /\ 2 < 1
        BY <1>0, <1>1, <1>4, <2>2 DEF RefsFirst
      <4>2. QED
        BY <4>1
    <3>4. HeardOK(Heard(g1, b[2]), {b[1]} \cup {b[2]})
      BY <1>7, <3>1, <3>2, <3>3, HeardNext
    <3>5. QED
      BY <1>4, <2>2, <3>1, <3>4
  <2>3. QED
    BY <1>4, <2>1, <2>2
<1>9. PICK q : q = RemoveAt(outbox, k)
  OBVIOUS
<1>10. /\ q \in Seq(Batch)
       /\ \A m \in DOMAIN q : Origin(k, m) \in DOMAIN outbox /\ Origin(k, m) # k /\ q[m] = outbox[Origin(k, m)]
  BY <1>0, <1>9, RemoveAtSet
<1>11. Box' = BoxOf(q) /\ Box = BoxOf(q) \cup ToSet(b)
  <2>1. Box' = BoxOf(outbox')
    BY DEF Box, BoxOf
  <2>2. BoxOf(outbox) = BoxOf(RemoveAt(outbox, k)) \cup ToSet(outbox[k])
    BY <1>0, BoxElements
  <2>3. QED
    BY <1>1, <1>3, <1>9, <2>1, <2>2 DEF Box
<1>12. \A d \in ToSet(b), e \in Box' : e.id # d.id /\ (e.op = "INSERT" => d.row.ref # e.id)
  <2>1. TAKE d \in ToSet(b), e \in Box'
  <2>2. PICK j \in DOMAIN b : d = b[j]
    BY DEF ToSet
  <2>3. PICK m \in DOMAIN q : \E l \in DOMAIN q[m] : e = q[m][l]
    BY <1>10, <1>11, BoxElements
  <2>4. PICK l \in DOMAIN q[m] : e = q[m][l]
    BY <2>3
  <2>5. PICK o \in DOMAIN outbox : o # k /\ q[m] = outbox[o]
    BY <1>10
  <2>6. e.id # d.id
    BY <1>0, <1>1, <2>2, <2>4, <2>5 DEF Once
  <2>7. e.op = "INSERT" => d.row.ref # e.id
    BY <1>0, <1>1, <2>2, <2>4, <2>5 DEF RefsFirst
  <2>8. QED
    BY <2>6, <2>7
<1>13. Tasks' = ToSet(g.tasks) /\ Tasks = {}
  BY <1>2, <1>3 DEF Tasks, ToSet
<1>14. ToSet(b) # {}
  BY <1>4
<1>15. /\ \A t \in Tasks' : t.delta \in ToSet(b) /\ ~Ignored(t.delta) /\ TaskRight(t)
       /\ \A d \in ToSet(b) : Ignored(d) \/ \E t \in Tasks' : t.delta = d
       /\ known \subseteq known'
       /\ \A id \in known' : id \in known \/ \E d \in ToSet(b) : d.id = id \/ (d.row.ref = id /\ id # None)
       /\ \A c \in Child : edge'[c] = edge[c] \/ \E d \in ToSet(b) : d.id = c /\ edge'[c] = d.row.ref
       /\ \A d \in ToSet(b) : d.id \in Child /\ ~Ignored(d) /\ "ref" \in d.fields => edge'[d.id] = d.row.ref
       /\ \A i, j \in DOMAIN ready' : ready'[i].delta.id = ready'[j].delta.id => i = j
  BY <1>2, <1>8, <1>13 DEF HeardOK
<1>16. Notified(ToSet(b))
  BY <1>3, <1>11, <1>12, <1>13, <1>14, <1>15 DEF Notified, nodes
<1>17. QED
  BY <1>1, <1>15, <1>16

LEMMA NotifyOnce ==
  ASSUME Calm, Inv, NEW k \in DOMAIN outbox, Notify(k)
  PROVE  Once' /\ Alone' /\ RefsFirst'
<1>0. TInv /\ Once /\ RefsFirst /\ outbox \in Seq(Batch)
  BY DEF Inv, TInv, Queues
<1>1. PICK B : /\ Notified(B)
               /\ \A i, j \in DOMAIN ready' : ready'[i].delta.id = ready'[j].delta.id => i = j
  BY NotifyEffect
<1>2. /\ B \subseteq Box /\ B # {} /\ Box = Box' \cup B /\ reads' = reads /\ Reads' = Reads
      /\ \A d \in B, e \in Box' : e.id # d.id
      /\ \A t \in Tasks' : t.delta \in B
  BY <1>1 DEF Notified, Reads
<1>3. PICK q : q = RemoveAt(outbox, k) /\ q = outbox'
  <2>1. outbox' = RemoveAt(outbox, k)
    BY DEF Notify
  <2>2. QED
    BY <2>1
<1>4. \A m \in DOMAIN q : /\ Origin(k, m) \in DOMAIN outbox /\ q[m] = outbox[Origin(k, m)]
                          /\ \A l \in DOMAIN q : Origin(k, m) = Origin(k, l) => m = l
  <2>1. PICK t : t = RemoveAt(outbox, k)
    OBVIOUS
  <2>2. \A m \in DOMAIN t : /\ Origin(k, m) \in DOMAIN outbox /\ t[m] = outbox[Origin(k, m)]
                            /\ \A l \in DOMAIN t : Origin(k, m) = Origin(k, l) => m = l
    BY <1>0, <2>1, RemoveAtSet
  <2>3. t = q
    BY <1>3, <2>1
  <2>4. QED
    BY <2>2, <2>3
<1>5. \A i, m \in DOMAIN q : \A j \in DOMAIN q[i], l \in DOMAIN q[m] : q[i][j].id = q[m][l].id => i = m /\ j = l
  <2>1. TAKE i, m \in DOMAIN q
  <2>2. PICK o \in DOMAIN outbox, p \in DOMAIN outbox : q[i] = outbox[o] /\ q[m] = outbox[p] /\ (o = p => i = m)
    BY <1>4
  <2>3. QED
    BY <1>0, <2>2 DEF Once
<1>6. RefsFirst'
  <2>1. ASSUME NEW i \in DOMAIN q, NEW m \in DOMAIN q, NEW l \in DOMAIN q[i], NEW n \in DOMAIN q[m],
               q[m][n].op = "INSERT" /\ q[i][l].row.ref = q[m][n].id
        PROVE  i = m /\ n < l
    <3>1. PICK o \in DOMAIN outbox, p \in DOMAIN outbox : q[i] = outbox[o] /\ q[m] = outbox[p] /\ (o = p => i = m)
      BY <1>4
    <3>2. o = p /\ n < l
      BY <1>0, <2>1, <3>1 DEF RefsFirst
    <3>3. QED
      BY <3>1, <3>2
  <2>2. QED
    BY <1>3, <2>1 DEF RefsFirst
<1>7. /\ \A d \in Box', t \in Tasks' : d.id # t.delta.id
      /\ \A d \in Box', x \in Reads' : d.id # x.id
      /\ \A t \in Tasks', x \in Reads' : t.delta.id # x.id
  BY <1>0, <1>2 DEF Once
<1>8. Once'
  BY <1>0, <1>1, <1>2, <1>3, <1>5, <1>7 DEF Once
<1>9. Alone'
  BY <1>2, AllOld DEF Alone
<1>10. QED
  BY <1>6, <1>8, <1>9

LEMMA NotifyRest ==
  ASSUME Calm, Inv, NEW B, Notified(B)
  PROVE  Writes' /\ RefStored' /\ KnownStored' /\ Unseen' /\ TaskWas' /\ ReadsOK'
<1>0. TInv /\ TypeOK /\ Writes /\ RefStored /\ KnownStored
  BY DEF Inv, TInv
<1>1. /\ B \subseteq Box /\ Box = Box' \cup B
      /\ \A t \in Tasks' : t.delta \in B /\ ~Ignored(t.delta) /\ TaskRight(t)
      /\ \A id \in known' : id \in known \/ \E d \in B : d.id = id \/ (d.row.ref = id /\ id # None)
      /\ UNCHANGED <<store, marked, roots, kids, linked, reads, phase, view, missed>> /\ Reads' = Reads
  BY DEF Notified, Reads
<1>2. \A d \in B : store[d.id] = d.row /\ store[d.id] # Absent /\ d.id \in Id /\ WrittenNow(d)
  BY <1>0, <1>1, UnderWay DEF Writes, WrittenNow, TInv, Queues
<1>3. Writes'
  <2>1. \A d \in Box : WrittenNow(d)' <=> WrittenNow(d)
    BY <1>1 DEF WrittenNow
  <2>2. \A t \in Tasks' : WrittenNow(t.delta)'
    BY <1>1, <1>2, <2>1
  <2>3. \A d \in Box' : WrittenNow(d)'
    BY <1>0, <1>1, <2>1 DEF Writes
  <2>4. QED
    BY <2>2, <2>3 DEF Writes, WrittenNow
<1>4. KnownStored'
  <2>1. \A d \in B : d.row.ref = None \/ store[d.row.ref] # Absent
    BY <1>0, <1>2 DEF RefStored
  <2>2. QED
    BY <1>0, <1>1, <1>2, <2>1 DEF KnownStored
<1>5. RefStored' /\ Unseen'
  BY <1>1 DEF Inv, RefStored, Unseen
<1>6. TaskWas'
  <2>1. SUFFICES ASSUME NEW t \in Tasks'
                 PROVE  /\ t.was <=> t.delta.id \in marked
                        /\ t.delta.op = "INSERT" => ~t.was
                        /\ t.is => Subscribers(t.delta.id) # {}
                        /\ t.delta.id \in Root => (t.is <=> roots # {} /\ t.delta.row.ok)
    BY <1>1 DEF TaskWas, Subscribers
  <2>2. ~Ignored(t.delta) /\ TaskRight(t)
    BY <1>1
  <2>3. t.delta.op = "INSERT" => t.delta.id \notin marked
    BY <1>0, <2>2 DEF Ignored, TypeOK
  <2>4. t.delta.id \in Root => t.delta.id \notin Child /\ Subscribers(t.delta.id) = roots
    BY IdsApart DEF Subscribers
  <2>5. QED
    BY <2>2, <2>3, <2>4 DEF TaskRight
<1>7. ReadsOK'
  <2>1. ASSUME NEW x \in Reads PROVE ReadOK(x)'
    <3>1. ReadOK(x)
      BY DEF Inv, ReadsOK
    <3>2. QED
      BY <1>1, <3>1 DEF ReadOK, TreeReadOK, ReplyReadOK, TreeOK, ReplyOK, Scoped, Subscribers, InScope, Included
  <2>2. QED
    BY <1>1, <2>1 DEF Inv, ReadsOK
<1>8. QED
  BY <1>3, <1>4, <1>5, <1>6, <1>7

LEMMA NotifyRoots ==
  ASSUME Calm, Inv, NEW B, Notified(B)
  PROVE  RootInv'
<1>0. TInv /\ TypeOK /\ RootInv
  BY DEF Inv, TInv
<1>1. /\ B \subseteq Box /\ Box = Box' \cup B /\ Tasks = {}
      /\ \A d \in B, e \in Box' : e.id # d.id /\ (e.op = "INSERT" => d.row.ref # e.id)
      /\ \A t \in Tasks' : t.delta \in B
      /\ \A d \in B : Ignored(d) \/ \E t \in Tasks' : t.delta = d
      /\ \A id \in known' : id \in known \/ \E d \in B : d.id = id \/ (d.row.ref = id /\ id # None)
      /\ UNCHANGED <<store, marked, roots, kids, linked, reads, phase, view, missed>> /\ Reads' = Reads
  BY DEF Notified, Reads
<1>2. SUFFICES ASSUME NEW r \in Root PROVE RootOK(r)'
  BY DEF RootInv
<1>3. RootOK(r)
  BY <1>0 DEF RootInv
<1>4. \A d \in B : d.id = r => ~Ignored(d)
  BY <1>1, <1>3 DEF RootOK, Ignored
<1>5. \A d \in Box' : d.id = r /\ d.op = "INSERT" => r \notin known'
  <2>1. SUFFICES ASSUME NEW d \in Box', d.id = r, d.op = "INSERT", r \in known' PROVE FALSE
    OBVIOUS
  <2>2. r \notin known
    BY <1>1, <1>3, <2>1 DEF RootOK
  <2>3. QED
    BY <1>1, <2>1, <2>2
<1>6. Pending' = Box' \cup {t.delta : t \in Tasks'} /\ Pending = Box
  BY <1>1 DEF Pending
<1>7. \A d \in Pending' : d.id = r => d \in Pending
  BY <1>1, <1>6
<1>8. \A d \in Pending : d.id = r => d \in Pending'
  BY <1>1, <1>4, <1>6
<1>9. Old' = Old /\ (Scoped(r)' <=> Scoped(r)) /\ (TreeRead(r) => TreeRead(r)') /\ marked' = marked /\ view' = view
  BY <1>1 DEF Old, Scoped, TreeRead
<1>10. QED
  BY <1>3, <1>5, <1>7, <1>8, <1>9, RootKept

LEMMA NotifyChildren ==
  ASSUME Calm, Inv, NEW B, Notified(B)
  PROVE  ChildInv'
<1>0. TInv /\ TypeOK /\ Apart /\ Writes /\ RootInv /\ ChildInv /\ ReadsOK
  BY OnceApart DEF Inv, TInv
<1>1. /\ B \subseteq Box /\ B # {} /\ Box = Box' \cup B /\ Tasks = {}
      /\ \A d \in B, e \in Box' : e.id # d.id
      /\ \A t \in Tasks' : t.delta \in B /\ ~Ignored(t.delta) /\ TaskRight(t)
      /\ \A d \in B : Ignored(d) \/ \E t \in Tasks' : t.delta = d
      /\ known \subseteq known'
      /\ \A id \in known' : id \in known \/ \E d \in B : d.id = id \/ (d.row.ref = id /\ id # None)
      /\ \A c \in Child : edge'[c] = edge[c] \/ \E d \in B : d.id = c /\ edge'[c] = d.row.ref
      /\ \A d \in B : d.id \in Child /\ ~Ignored(d) /\ "ref" \in d.fields => edge'[d.id] = d.row.ref
      /\ UNCHANGED <<store, marked, roots, kids, linked, reads, phase, view, missed>> /\ Reads' = Reads
  BY DEF Notified, Reads
<1>2. /\ OldKids' = OldKids /\ OldKids = kids /\ Old = roots /\ (kids # {} => roots # {})
      /\ \A x \in Reads : x.kind = "tree"
  <2>1. OldKids = kids /\ Old = roots /\ \A x \in Reads : x.kind = "tree"
    BY <1>1, AllOld
  <2>2. QED
    BY <1>0, <1>1, <2>1 DEF OldKids, Old, TypeOK
<1>3. Pending' = Box' \cup {t.delta : t \in Tasks'} /\ Pending = Box
  BY <1>1 DEF Pending
<1>4. \A d \in Box : /\ store[d.id] = d.row /\ store[d.id] # Absent /\ d.id \in Id
                     /\ \A e \in Box : d.id = e.id => d = e
  BY <1>0, UnderWay DEF Writes, WrittenNow, TInv, Queues, Apart
<1>5. SUFFICES ASSUME NEW c \in Child PROVE InsertKnown(c)' /\ EdgeOK(c)' /\ DueCovered(c)' /\ KidViews(c)'
  BY DEF ChildInv
<1>6. c \in Id /\ InsertKnown(c) /\ EdgeOK(c) /\ DueCovered(c) /\ KidViews(c)
  BY <1>0, IdsApart DEF ChildInv
<1>7. \A d \in Box' : d.id = c /\ c \in known' => c \in known
  <2>1. SUFFICES ASSUME NEW d \in Box', d.id = c, c \in known', c \notin known PROVE FALSE
    OBVIOUS
  <2>2. PICK e \in B : e.id = c \/ e.row.ref = c
    BY <1>1, <2>1
  <2>3. e.row.ref # c
    <3>1. e.row.ref \in Target(e.id) /\ e.id \in Id
      BY <1>0, <1>1, <1>4 DEF TypeOK
    <3>2. QED
      BY <1>6, <3>1, ManyRefer, IdsApart DEF Calm
  <2>4. QED
    BY <1>1, <2>1, <2>2, <2>3
<1>8. InsertKnown(c)'
  BY <1>1, <1>6, <1>7 DEF InsertKnown, Whole
<1>9. EdgeOK(c)'
  <2>1. SUFFICES ASSUME store[c] # Absent, edge'[c] # store[c].ref
                 PROVE  \E d \in Box' : d.id = c /\ "ref" \in d.fields /\ ~(d.op = "INSERT" /\ c \in known')
    BY <1>1 DEF EdgeOK
  <2>2. edge[c] # store[c].ref
    BY <1>1, <1>4, <2>1
  <2>3. PICK d \in Box : d.id = c /\ "ref" \in d.fields /\ ~(d.op = "INSERT" /\ c \in known)
    BY <1>6, <2>1, <2>2 DEF EdgeOK
  <2>4. d \notin B
    BY <1>1, <1>4, <2>1, <2>3 DEF Ignored
  <2>5. QED
    BY <1>1, <1>7, <2>3, <2>4
<1>10. DueCovered(c)'
  <2>1. SUFFICES ASSUME Due(c), kids # {} PROVE Covered(c)'
    BY <1>1, <1>2 DEF DueCovered, Due, Scoped
  <2>2. Covered(c)
    BY <1>2, <1>6, <2>1 DEF DueCovered
  <2>3. PICK r \in Root : r = store[c].ref /\ Scoped(r)
    BY <1>0, <1>6, <2>1, ManyRefer DEF Due, TypeOK, Calm
  <2>4. r \in Id /\ RootOK(r) /\ c \notin Root /\ r \notin Child
    BY <1>0, IdsApart DEF RootInv
  \* A write of the root that is heard makes the task that reads its tree.
  <2>5. (\E d \in Box : d.id = r) /\ r \notin marked => Covering(c, r)'
    <3>1. SUFFICES ASSUME NEW d \in Box, d.id = r, r \notin marked PROVE Covering(c, r)'
      OBVIOUS
    <3>2. CASE d \in Box'
      BY <3>1, <3>2 DEF Covering
    <3>3. CASE d \in B
      <4>1. ~Ignored(d)
        BY <2>4, <3>1 DEF RootOK, Ignored
      <4>2. PICK t \in Tasks' : t.delta = d
        BY <1>1, <3>3, <4>1
      <4>3. TaskRight(t) /\ d.row.ok
        BY <1>1, <1>4, <2>3, <3>1 DEF Scoped
      <4>4. ~t.was /\ t.is
        BY <1>2, <2>1, <2>4, <3>1, <4>2, <4>3 DEF TaskRight, Subscribers
      <4>5. QED
        BY <3>1, <4>2, <4>4 DEF Covering
    <3>4. QED
      BY <1>1, <3>1, <3>2, <3>3
  <2>6. (\E d \in Box : d.id = r) => Covering(c, r)'
    <3>1. SUFFICES ASSUME NEW d \in Box, d.id = r, r \in marked PROVE Covering(c, r)'
      BY <2>5
    <3>2. MarkedOK(r, Was(d)) /\ d.row.ok
      BY <1>3, <1>4, <2>3, <2>4, <3>1 DEF RootOK, Scoped
    <3>3. QED
      BY <3>1, <3>2 DEF MarkedOK, Was
  <2>7. r \notin marked => Covering(c, r)'
    <3>1. SUFFICES ASSUME r \notin marked PROVE \E d \in Box : d.id = r
      BY <2>6
    <3>2. ~TreeRead(r)
      BY <1>0, <3>1 DEF TreeRead, ReadsOK, ReadOK, TreeReadOK
    <3>3. ~MarkedOK(r, Scoped(r))
      BY <1>2, <2>1, <2>3, <3>1 DEF MarkedOK
    <3>4. QED
      BY <1>3, <2>4, <3>2, <3>3 DEF RootOK
  <2>8. Covering(c, r)' => Covered(c)'
    BY <1>1, <2>3 DEF Covered
  \* A task of the child matches it, or its root is not matched yet.
  <2>9. ASSUME NEW t \in Tasks', t.delta.id = c PROVE t.is \/ r \notin marked
    <3>1. TaskRight(t) /\ t.delta.row = store[c]
      BY <1>1, <1>4, <2>9
    <3>2. Subscribers(c) # {} /\ store[c].ok
      BY <2>1, <2>4 DEF Subscribers, Due
    <3>3. QED
      BY <2>3, <2>9, <3>1, <3>2 DEF TaskRight
  <2>10. CASE r \notin marked
    BY <2>7, <2>8, <2>10
  <2>11. CASE r \in marked /\ \E d \in Box : d.id = c
    <3>1. PICK d \in Box : d.id = c
      BY <2>11
    <3>2. CASE d \in Box'
      BY <3>1, <3>2 DEF Covered
    <3>3. CASE d \in B /\ ~Ignored(d)
      <4>1. PICK t \in Tasks' : t.delta = d
        BY <1>1, <3>3
      <4>2. t.is
        BY <2>9, <2>11, <3>1, <4>1
      <4>3. QED
        BY <3>1, <4>1, <4>2 DEF Covered
    <3>4. CASE d \in B /\ Ignored(d)
      <4>1. c \in marked
        BY <1>6, <2>1, <3>1, <3>4 DEF InsertKnown, Ignored
      <4>2. \A t \in Tasks' : t.delta.id = c => t.is
        BY <2>9, <2>11
      <4>3. QED
        BY <1>1, <4>1, <4>2 DEF Covered
    <3>5. QED
      BY <1>1, <3>2, <3>3, <3>4
  <2>12. CASE r \in marked /\ ~(\E d \in Box : d.id = c) /\ c \in marked
    BY <1>1, <2>9, <2>12 DEF Covered
  <2>13. CASE r \in marked /\ ~(\E d \in Box : d.id = c) /\ c \notin marked
    <3>1. Covering(c, r)
      BY <1>1, <2>2, <2>3, <2>13 DEF Covered
    <3>2. CASE \E d \in Box : d.id = r
      BY <2>6, <2>8, <3>2
    <3>3. CASE ~(\E d \in Box : d.id = r)
      <4>1. \E x \in Reads : x.kind = "tree" /\ x.id = r /\ (x.tree = Unanswered \/ c \in DOMAIN x.tree)
        BY <1>1, <3>1, <3>3 DEF Covering
      <4>2. Covering(c, r)'
        BY <1>1, <4>1 DEF Covering
      <4>3. QED
        BY <2>8, <4>2
    <3>4. QED
      BY <3>2, <3>3
  <2>14. QED
    BY <2>10, <2>11, <2>12, <2>13
<1>11. KidViews(c)'
  <2>1. SUFFICES ASSUME c \in marked, ~TreeRead(c)', NEW s \in kids, <<s, c>> \notin missed, NEW f \in Field
                 PROVE  view[s][c][f] = "current" \/ \E d \in Pending' : d.id = c /\ f \in d.fields
    BY <1>1, <1>2 DEF KidViews
  <2>2. view[s][c][f] = "current" \/ \E d \in Box : d.id = c /\ f \in d.fields
    BY <1>1, <1>2, <1>3, <1>6, <2>1 DEF KidViews, TreeRead
  <2>3. SUFFICES ASSUME NEW d \in Box, d.id = c, f \in d.fields
                 PROVE  view[s][c][f] = "current" \/ d \in Pending'
    BY <2>2
  <2>4. CASE d \in Box' \/ ~Ignored(d)
    BY <1>1, <1>3, <2>4
  <2>5. CASE Ignored(d)
    <3>1. Whole(s, c)
      BY <1>6, <2>1, <2>3, <2>5 DEF InsertKnown, Ignored
    <3>2. QED
      BY <3>1 DEF Whole
  <2>6. QED
    BY <2>4, <2>5
<1>12. QED
  BY <1>8, <1>9, <1>10, <1>11

LEMMA NotifyInv ==
  ASSUME Calm, Inv, NEW k \in DOMAIN outbox, Notify(k)
  PROVE  Inv'
<1>1. Notified(ToSet(outbox[k]))
  BY NotifyEffect
<1>2. TInv'
  BY NotifyTInv DEF Inv
<1>3. QED
  BY <1>1, <1>2, NotifyOnce, NotifyRest, NotifyRoots, NotifyChildren DEF Inv

-----------------------------------------------------------------------------
(* The theorems.                                                           *)

LEMMA StutterInv ==
  ASSUME Inv, UNCHANGED vars
  PROVE  Inv'
<1>0. /\ UNCHANGED <<store, outbox, known, edge, marked, roots, kids, linked, ready, reads, phase, view, missed>>
      /\ Box' = Box /\ Tasks' = Tasks /\ Reads' = Reads
  BY DEF vars, graph, nodes, Box, Tasks, Reads
<1>1. TInv'
  BY NextTInv DEF Inv
<1>2. Once' /\ Alone' /\ RefsFirst'
  BY <1>0 DEF Inv, Once, Alone, RefsFirst
<1>3. Writes' /\ RefStored' /\ KnownStored' /\ Unseen'
  BY <1>0 DEF Inv, Writes, WrittenNow, RefStored, KnownStored, Unseen
<1>4. TaskWas'
  BY <1>0 DEF Inv, TaskWas, Subscribers
<1>5. ReadsOK'
  <2>1. InScope' = InScope /\ \A r : Included(r)' = Included(r)
    BY <1>0 DEF InScope, Included
  <2>2. ASSUME NEW x \in Reads PROVE ReadOK(x)'
    <3>1. ReadOK(x)
      BY DEF Inv, ReadsOK
    <3>2. TreeOK(x)' <=> TreeOK(x)
      BY <1>0 DEF TreeOK
    <3>3. ReplyOK(x)' <=> ReplyOK(x)
      BY <1>0, <2>1 DEF ReplyOK
    <3>4. QED
      BY <1>0, <3>1, <3>2, <3>3 DEF ReadOK, TreeReadOK, ReplyReadOK, Scoped, Subscribers
  <2>3. QED
    BY <1>0, <2>2 DEF Inv, ReadsOK
<1>6. Old' = Old /\ OldKids' = OldKids /\ Pending' = Pending /\ \A id : TreeRead(id)' <=> TreeRead(id)
  BY <1>0 DEF Old, OldKids, Pending, TreeRead
<1>7. RootInv'
  <2>1. ASSUME NEW r \in Root PROVE RootOK(r)'
    <3>1. RootOK(r)
      BY DEF Inv, RootInv
    <3>2. QED
      BY <1>0, <1>6, <3>1 DEF RootOK, MarkedOK, Views, Scoped, Was, Behind
  <2>2. QED
    BY <2>1 DEF RootInv
<1>8. ChildInv'
  <2>1. ASSUME NEW c \in Child PROVE InsertKnown(c)' /\ EdgeOK(c)' /\ DueCovered(c)' /\ KidViews(c)'
    <3>1. InsertKnown(c) /\ EdgeOK(c) /\ DueCovered(c) /\ KidViews(c)
      BY DEF Inv, ChildInv
    <3>2. InsertKnown(c)' /\ EdgeOK(c)'
      BY <1>0, <3>1 DEF InsertKnown, EdgeOK, Whole
    <3>3. DueCovered(c)'
      BY <1>0, <1>6, <3>1 DEF DueCovered, Due, Covered, Covering, Scoped
    <3>4. KidViews(c)'
      BY <1>0, <1>6, <3>1 DEF KidViews
    <3>5. QED
      BY <3>2, <3>3, <3>4
  <2>2. QED
    BY <2>1 DEF ChildInv
<1>9. QED
  BY <1>1, <1>2, <1>3, <1>4, <1>5, <1>7, <1>8 DEF Inv

LEMMA NextInv == Calm /\ Inv /\ [Next]_vars => Inv'
<1> SUFFICES ASSUME Calm, Inv, [Next]_vars PROVE Inv'
  OBVIOUS
<1>1. CASE \E d \in Possible(store) : Commit(<<d>>)
  BY <1>1, CommitsAreWritable, CommitInv
<1>2. CASE CommitTransaction
  BY <1>2, CommitsAreWritable, CommitInv
<1>3. CASE \E i \in DOMAIN reads : Answer(i)
  BY <1>3, AnswerInv
<1>4. CASE \E s \in Client, include \in BOOLEAN : Subscribe(s, include)
  BY <1>4, SubscribeInv
<1>5. CASE \E s \in Client : Unsubscribe(s)
  BY <1>5, UnsubscribeInv
<1>6. CASE \E k \in DOMAIN outbox : Notify(k)
  BY <1>6, NotifyInv
<1>7. CASE Continue
  BY <1>7, ContinueInv
<1>8. CASE \E i \in DOMAIN reads : Deliver(i)
  <2>1. PICK i \in DOMAIN reads : Deliver(i)
    BY <1>8
  <2>2. Reply(i) \/ Tree(i)
    BY <2>1 DEF Deliver
  <2>3. QED
    BY <2>1, <2>2, ReplyInv, TreeInv
<1>9. CASE UNCHANGED vars
  BY <1>9, StutterInv
<1>10. QED
  BY <1>1, <1>2, <1>3, <1>4, <1>5, <1>6, <1>7, <1>8, <1>9 DEF Next

LEMMA AlwaysInv ==
  ASSUME Calm
  PROVE  Spec => []Inv
<1>1. Inv /\ [Next]_vars => Inv'
  BY NextInv
<1>2. QED
  BY <1>1, InitInv, PTL DEF Spec

\* What the invariant says once everything is handled.
LEMMA WhenIdle ==
  ASSUME Calm, Inv, Idle
  PROVE  /\ roots = Old /\ kids = OldKids
         /\ \A r \in Root : MarkedOK(r, Scoped(r)) /\ Views(r, Scoped(r), {})
         /\ \A r \in InScope : r \in Root /\ Scoped(r)
         /\ \A r \in InScope : \A c \in Included(r) :
              /\ OldKids # {} => c \in marked
              /\ \A s \in OldKids : <<s, c>> \notin missed => c \in marked /\ Whole(s, c)
<1>0. TInv /\ TypeOK /\ Box = {} /\ Tasks = {} /\ Reads = {}
  BY IdleEmpty DEF Inv, TInv
<1>1. roots = Old /\ kids = OldKids
  <2>1. \A s \in Client : phase[s] # "reading" /\ phase[s] \in {"out", "reading", "in"}
    BY <1>0 DEF Inv, ReadsOK, TypeOK
  <2>2. roots = Old
    BY <1>0, <2>1 DEF Old, TypeOK
  <2>3. QED
    BY <1>0, <2>2 DEF OldKids, TypeOK
<1>2. /\ \A r \in Root : MarkedOK(r, Scoped(r)) /\ Views(r, Scoped(r), {})
      /\ \A c \in Child : /\ Due(c) /\ OldKids # {} => c \in marked
                          /\ c \in marked => \A s \in OldKids : <<s, c>> \notin missed => Whole(s, c)
  BY <1>0, Settled
<1>3. \A r \in InScope : r \in Root /\ Scoped(r)
  BY DEF InScope, Scoped
<1>4. \A r \in InScope : \A c \in Included(r) : c \in Child /\ Due(c)
  BY <1>3, ManyRefer, IdsApart DEF Due, Calm
<1>5. QED
  BY <1>1, <1>2, <1>3, <1>4

LEMMA ScopeWhenIdle ==
  ASSUME Calm, Inv
  PROVE  MarksAreScope /\ TreeIsHeld /\ RootsAreTold
<1>0. TypeOK
  BY DEF Inv, TInv
<1>1. MarksAreScope
  BY <1>0, WhenIdle DEF MarksAreScope, MarkedOK, InScope, Scoped
<1>2. TreeIsHeld
  <2>1. ASSUME Idle, NEW s \in roots, NEW r \in InScope
        PROVE  Whole(s, r) /\ (s \in kids => \A c \in Included(r) : <<s, c>> \notin missed => Whole(s, c))
    <3>1. r \in Root /\ Scoped(r) /\ s \in Old /\ kids = OldKids /\ Views(r, Scoped(r), {})
      BY <2>1, WhenIdle
    <3>2. Whole(s, r)
      BY <3>1 DEF Views, Whole
    <3>3. QED
      BY <2>1, <3>1, <3>2, WhenIdle
  <2>2. QED
    BY <2>1 DEF TreeIsHeld
<1>3. RootsAreTold
  <2>1. ASSUME Idle, NEW s \in roots, NEW r \in Root
        PROVE  view[s][r]["ok"] # "none" => view[s][r]["ok"] = "current"
    <3>1. s \in Old /\ Views(r, Scoped(r), {})
      BY <2>1, WhenIdle
    <3>2. view[s][r]["ok"] \in Held
      BY <1>0, <2>1 DEF TypeOK, Id, Field
    <3>3. QED
      BY <3>1, <3>2 DEF Views, Held
  <2>2. QED
    BY <2>1 DEF RootsAreTold
<1>4. QED
  BY <1>1, <1>2, <1>3

\* When a child refers to its root and operations on related rows do not meet,
\* then once everything is handled the engine's matches are the query's scope:
\* the rows in it, no other, and what it includes of them.
THEOREM MarksAreAlwaysScope ==
  ASSUME Kind = "many", ~Meetings
  PROVE  Spec => []MarksAreScope
<1>1. Inv => MarksAreScope
  BY ScopeWhenIdle DEF Calm
<1>2. QED
  BY <1>1, AlwaysInv, PTL DEF Calm

\* So does a subscriber hold every row of the query and of the tree it asked
\* for, as they are stored.
THEOREM TreeIsAlwaysHeld ==
  ASSUME Kind = "many", ~Meetings
  PROVE  Spec => []TreeIsHeld
<1>1. Inv => TreeIsHeld
  BY ScopeWhenIdle DEF Calm
<1>2. QED
  BY <1>1, AlwaysInv, PTL DEF Calm

\* And no row of the query that it has heard of is out of date with what the
\* where clause tests.
THEOREM RootsAreAlwaysTold ==
  ASSUME Kind = "many", ~Meetings
  PROVE  Spec => []RootsAreTold
<1>1. Inv => RootsAreTold
  BY ScopeWhenIdle DEF Calm
<1>2. QED
  BY <1>1, AlwaysInv, PTL DEF Calm

=============================================================================
