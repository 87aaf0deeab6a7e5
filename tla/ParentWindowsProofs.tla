------------------------- MODULE ParentWindowsProofs -------------------------
(***************************************************************************)
(* The windows of the parents in scope, proved for any number of parents,  *)
(* tasks, users and subscribers and every limit: each window is the first  *)
(* of the tasks of its parent, and what a subscriber holds of that parent  *)
(* is its window.                                                          *)
(***************************************************************************)
EXTENDS ParentWindows, WindowIndexProofs

-----------------------------------------------------------------------------
(* A fold over the first n naturals is defined, and goes from one to the   *)
(* next.                                                                   *)

LEMMA GreatestNatural ==
  ASSUME NEW M, NEW n \in Nat, M \subseteq 0..n, M # {}
  PROVE  \E m \in M : \A k \in M : k <= m
<1>0. \A k \in M : k \in Nat
  OBVIOUS
<1> DEFINE D == {n - k : k \in M}
<1>1. D \subseteq Nat
  <2>1. ASSUME NEW k \in M PROVE n - k \in Nat
    OBVIOUS
  <2>2. QED
    BY <2>1
<1>2. D # {}
  <2>1. PICK m \in M : TRUE
    OBVIOUS
  <2>2. n - m \in D
    OBVIOUS
  <2>3. QED
    BY <2>2
<1>3. PICK d \in D : \A e \in D : d <= e
  BY <1>1, <1>2, LeastNatural
<1>4. PICK m \in M : d = n - m
  OBVIOUS
<1>5. ASSUME NEW k \in M PROVE k <= m
  <2>1. k \in Nat /\ m \in Nat
    BY <1>0
  <2>2. n - k \in D
    OBVIOUS
  <2>3. n - m <= n - k
    BY <1>3, <1>4, <2>2
  <2>4. QED
    BY <2>1, <2>3
<1>6. QED
  BY <1>5

LEMMA UpTo ==
  ASSUME NEW n \in Nat, NEW G, 0 \in G, \A m \in 1..n : m - 1 \in G => m \in G
  PROVE  n \in G
<1> DEFINE Bad == {m \in 0..n : m \notin G}
<1>1. ASSUME Bad # {} PROVE FALSE
  <2>1. Bad \subseteq Nat
    OBVIOUS
  <2>2. PICK m \in Bad : \A k \in Bad : m <= k
    BY <1>1, <2>1, LeastNatural
  <2>3. m \in 1..n /\ m - 1 \notin Bad
    BY <2>2
  <2>4. QED
    BY <2>2, <2>3
<1>2. n \in 0..n
  OBVIOUS
<1>3. QED
  BY <1>1, <1>2

LEMMA MaxOfSome ==
  ASSUME NEW n \in Nat, NEW T \in SUBSET (1..n), T # {}
  PROVE  Max(T) \in T /\ \A i \in T : i <= Max(T)
<1>1. T \subseteq 0..n
  OBVIOUS
<1>2. \E m \in T : \A k \in T : k <= m
  BY <1>1, GreatestNatural
<1>3. \E m \in T : \A k \in T : m >= k
  BY <1>1, <1>2
<1>4. Max(T) \in T /\ \A k \in T : Max(T) >= k
  BY <1>3 DEF Max
<1>5. QED
  BY <1>1, <1>4

IsFold(f, base, h, n) ==
  \A T \in SUBSET (1..n) : f[T] = IF T = {} THEN base ELSE h[Max(T)][f[T \ {Max(T)}]]

LEMMA FoldDefined ==
  ASSUME NEW A, NEW base \in A, NEW n \in Nat, NEW h \in [1..n -> [A -> A]]
  PROVE  \E f \in [SUBSET (1..n) -> A] : IsFold(f, base, h, n)
<1> DEFINE Folds(f, m) == IsFold(f, base, h, m)
           G == {m \in 0..n : \E f \in [SUBSET (1..m) -> A] : Folds(f, m)}
<1>1. 0 \in G
  <2> DEFINE f == [T \in SUBSET (1..0) |-> base]
  <2>1. f \in [SUBSET (1..0) -> A]
    OBVIOUS
  <2>2. \A T \in SUBSET (1..0) : T = {} /\ f[T] = base
    OBVIOUS
  <2> HIDE DEF f
  <2>3. Folds(f, 0)
    BY <2>2 DEF IsFold
  <2>4. \E e \in [SUBSET (1..0) -> A] : Folds(e, 0)
    <3> HIDE DEF Folds
    <3>1. QED
      BY <2>1, <2>3, Zenon
  <2> HIDE DEF Folds
  <2>5. 0 \in 0..n
    OBVIOUS
  <2>6. QED
    BY <2>4, <2>5, Zenon
<1>2. ASSUME NEW m \in 1..n, m - 1 \in G PROVE m \in G
  <2>5. PICK f \in [SUBSET (1..(m - 1)) -> A] : Folds(f, m - 1)
    BY <1>2
  <2> DEFINE g == [T \in SUBSET (1..m) |-> IF m \in T THEN h[m][f[T \ {m}]] ELSE f[T]]
  <2>6. \A T \in SUBSET (1..m) :
          /\ T \ {m} \in SUBSET (1..(m - 1))
          /\ m \notin T => T \in SUBSET (1..(m - 1))
          /\ m \in T => Max(T) = m
    <3>1. \A T \in SUBSET (1..m) : \A i \in T : i # m => i \in 1..(m - 1)
      OBVIOUS
    <3>2. ASSUME NEW T \in SUBSET (1..m), m \in T PROVE Max(T) = m
      <4>1. m \in Nat /\ T # {}
        BY <3>2
      <4>2. Max(T) \in T /\ m <= Max(T)
        BY <3>2, <4>1, MaxOfSome
      <4>3. Max(T) \in 1..m
        BY <4>2
      <4>4. QED
        BY <4>2, <4>3
    <3>3. QED
      BY <3>1, <3>2
  <2>7. h[m] \in [A -> A]
    OBVIOUS
  <2>8. g \in [SUBSET (1..m) -> A]
    BY <2>6, <2>7
  <2>9. Folds(g, m)
    <3> SUFFICES ASSUME NEW T \in SUBSET (1..m)
                 PROVE  g[T] = IF T = {} THEN base ELSE h[Max(T)][g[T \ {Max(T)}]]
      BY DEF IsFold
    <3>1. CASE m \in T
      <4>1. T # {} /\ Max(T) = m /\ T \ {m} \in SUBSET (1..m) /\ ~(m \in T \ {m})
        BY <2>6, <3>1
      <4>2. g[T] = h[m][f[T \ {m}]] /\ g[T \ {m}] = f[T \ {m}]
        BY <3>1, <4>1
      <4> HIDE DEF g
      <4>3. QED
        BY <4>1, <4>2
    <3>2. CASE m \notin T
      <4>1. T \in SUBSET (1..(m - 1))
        BY <2>6, <3>2
      <4>2. f[T] = IF T = {} THEN base ELSE h[Max(T)][f[T \ {Max(T)}]]
        BY <2>5, <4>1 DEF IsFold
      <4>3. g[T] = f[T] /\ g[T \ {Max(T)}] = f[T \ {Max(T)}]
        BY <3>2
      <4> HIDE DEF g
      <4>4. QED
        BY <4>2, <4>3
    <3>3. QED
      BY <3>1, <3>2
  <2> HIDE DEF g
  <2>10. m \in 0..n
    OBVIOUS
  <2>11. QED
    BY <2>8, <2>9, <2>10
<1>3. n \in G
  <2> HIDE DEF G
  <2>1. QED
    BY <1>1, <1>2, UpTo
<1>4. QED
  BY <1>3

LEMMA FoldOfPrefix ==
  ASSUME NEW n \in Nat, NEW i \in 1..n
  PROVE  /\ 1..i \in SUBSET (1..n) /\ 1..i # {} /\ Max(1..i) = i /\ (1..i) \ {i} = 1..(i - 1)
<1>1. 1..i \in SUBSET (1..n) /\ 1..i # {} /\ i \in 1..i /\ (1..i) \ {i} = 1..(i - 1)
  OBVIOUS
<1>2. Max(1..i) \in 1..i /\ i <= Max(1..i)
  BY <1>1, MaxOfSome
<1>3. QED
  BY <1>1, <1>2

LEMMA SeqOfSet ==
  ASSUME NEW S, IsFiniteSet(S)
  PROVE  \E n \in Nat : /\ SetToSeq(S) \in [1..n -> S]
                        /\ \A i, j \in 1..n : i # j => SetToSeq(S)[i] # SetToSeq(S)[j]
                        /\ \A x \in S : \E i \in 1..n : SetToSeq(S)[i] = x
<1> DEFINE n == Cardinality(S)
           s == SetToSeq(S)
<1>1. n \in Nat /\ ExistsBijection(1..n, S)
  BY FS_CardinalityType
<1>2. \E f \in [1..n -> S] : IsInjective(f)
  BY <1>1 DEF ExistsBijection, Bijection, Injection
<1>3. s = CHOOSE f \in [1..n -> S] : IsInjective(f)
  BY DEF SetToSeq
<1> HIDE DEF s
<1>4. s \in [1..n -> S] /\ IsInjective(s)
  BY <1>2, <1>3
<1>5. s \in Injection(1..n, S)
  BY <1>4 DEF Injection
<1>6. Cardinality(1..n) = n
  BY <1>1, FS_Interval
<1>7. s \in Surjection(1..n, S)
  <2>1. Cardinality(1..n) = Cardinality(S)
    BY <1>6
  <2> HIDE DEF n
  <2>2. QED
    BY <1>5, <2>1, FS_Injection
<1>8. \A i, j \in 1..n : i # j => s[i] # s[j]
  BY <1>4 DEF IsInjective
<1>9. \A x \in S : \E i \in 1..n : s[i] = x
  BY <1>7 DEF Surjection
<1> HIDE DEF n
<1>10. QED
  BY <1>1, <1>4, <1>8, <1>9 DEF s

-----------------------------------------------------------------------------
(* What the handlers do to one window.                                     *)

WFW == {w \in Windows : WellFormed(w)}

LEMMA PutType ==
  ASSUME NEW w \in WFW, NEW e \in Entry
  PROVE  Put(w, e) \in WFW /\ InsertEntry(w, e).window \in WFW /\ RemoveEntry(w, e.id) \in WFW
<1>1. w \in Windows /\ WellFormed(w)
  BY DEF WFW
<1>2. RemoveEntry(w, e.id) \in Windows /\ WellFormed(RemoveEntry(w, e.id))
  BY <1>1, RemoveEntryPreserves
<1>3. PICK v : v = RemoveEntry(w, e.id)
  OBVIOUS
<1>4. /\ InsertEntry(v, e).window \in Windows /\ WellFormed(InsertEntry(v, e).window)
      /\ InsertEntry(w, e).window \in Windows /\ WellFormed(InsertEntry(w, e).window)
  BY <1>1, <1>2, <1>3, InsertEntryPreserves
<1>5. QED
  BY <1>2, <1>3, <1>4 DEF Put, WFW

LEMMA DropType ==
  ASSUME NEW w \in WFW, NEW id
  PROVE  RemoveEntry(w, id) \in WFW /\ \A i : Has(RemoveEntry(w, id), i) <=> Has(w, i) /\ i # id
<1>1. w \in Windows /\ WellFormed(w)
  BY DEF WFW
<1>2. RemoveEntry(w, id) \in Windows /\ WellFormed(RemoveEntry(w, id))
  BY <1>1, RemoveEntryPreserves
<1>3. CASE ~Has(w, id)
  <2>1. RemoveEntry(w, id) = w
    BY <1>3 DEF RemoveEntry
  <2>2. QED
    BY <1>1, <1>3, <2>1 DEF WFW
<1>4. CASE Has(w, id)
  <2>1. Elems(RemoveEntry(w, id)) = {x \in Elems(w) : x.id # id}
    BY <1>1, <1>4, TakesOut
  <2>2. /\ \A i : Has(w, i) <=> \E x \in Elems(w) : x.id = i
        /\ \A i : Has(RemoveEntry(w, id), i) <=> \E x \in Elems(RemoveEntry(w, id)) : x.id = i
    BY <1>1, <1>2, WindowElems
  <2>3. QED
    BY <1>2, <2>1, <2>2 DEF WFW
<1>5. QED
  BY <1>3, <1>4

\* A row that is held is moved: the others stay, and so does their number.
LEMMA PutFacts ==
  ASSUME NEW w \in WFW, NEW e \in Entry, Has(w, e.id)
  PROVE  /\ Elems(Put(w, e)) = {x \in Elems(w) : x.id # e.id} \cup {e}
         /\ \A i : Has(Put(w, e), i) <=> Has(w, i)
<1>1. w \in Windows /\ WellFormed(w) /\ Put(w, e) \in Windows /\ WellFormed(Put(w, e))
  BY PutType DEF WFW
<1>2. PICK v : v = RemoveEntry(w, e.id)
  OBVIOUS
<1>3. /\ v \in Windows /\ WellFormed(v) /\ ~Has(v, e.id) /\ Len(v.entries) = Len(w.entries) - 1
      /\ Elems(v) = {x \in Elems(w) : x.id # e.id}
  BY <1>1, <1>2, TakesOut
<1>4. Len(w.entries) \in Nat /\ Len(w.entries) <= Limit /\ Limit \in Nat
  BY <1>1, WindowElems
<1>5. Len(v.entries) # Limit
  BY <1>3, <1>4
<1>6. Elems(Put(w, e)) = Elems(v) \cup {e}
  BY <1>2, <1>3, <1>5, TakesIn DEF AddsWithin, Put
<1>7. /\ \A i : Has(w, i) <=> \E x \in Elems(w) : x.id = i
      /\ \A i : Has(Put(w, e), i) <=> \E x \in Elems(Put(w, e)) : x.id = i
  BY <1>1, WindowElems
<1>8. QED
  BY <1>3, <1>6, <1>7

\* The windows there are while the rows of a read are filled in.
FillStep(v, e, u) == u = IF Has(v, e.id) THEN v ELSE InsertEntry(v, e).window
Filling(x, n, s, w) ==
  /\ x \in [0..n -> WFW] /\ x[0] = w /\ x[n] = Filled(w, s)
  /\ \A i \in 1..n : FillStep(x[i - 1], s[i], x[i])

LEMMA FilledRun ==
  ASSUME NEW w \in WFW, NEW n \in Nat, NEW s \in [1..n -> Entry]
  PROVE  \E x : Filling(x, n, s, w)
<1> DEFINE op(v, e) == IF Has(v, e.id) THEN v ELSE InsertEntry(v, e).window
           Q(f) == f = [T \in SUBSET (1..n) |-> IF T = {} THEN w ELSE op(f[T \ {Max(T)}], s[Max(T)])]
<1>0. w \in WFW
  OBVIOUS
<1>1. Filled(w, s) =
        (CHOOSE f : f = [T \in SUBSET (DOMAIN s) |->
           IF T = {} THEN w ELSE op(f[T \ {Max(T)}], s[Max(T)])])[DOMAIN s]
  BY DEF Filled, FoldLeft, MapThenFoldSet
<1>2. DOMAIN s = 1..n
  OBVIOUS
<1>3. ASSUME NEW v \in WFW, NEW i \in 1..n PROVE op(v, s[i]) \in WFW
  BY PutType
<1>4. ASSUME NEW v, NEW e PROVE FillStep(v, e, op(v, e))
  BY DEF FillStep
<1> HIDE DEF op
<1> DEFINE h == [i \in 1..n |-> [v \in WFW |-> op(v, s[i])]]
<1>5. h \in [1..n -> [WFW -> WFW]] /\ \A i \in 1..n : \A v \in WFW : h[i][v] = op(v, s[i])
  BY <1>3
<1> HIDE DEF h
<1>6. \E f : Q(f)
  <2>1. PICK f \in [SUBSET (1..n) -> WFW] : IsFold(f, w, h, n)
    BY <1>0, <1>5, FoldDefined
  <2>2. \A T \in SUBSET (1..n) : f[T] = IF T = {} THEN w ELSE h[Max(T)][f[T \ {Max(T)}]]
    BY <2>1 DEF IsFold
  <2> DEFINE e == [T \in SUBSET (1..n) |-> IF T = {} THEN w ELSE op(f[T \ {Max(T)}], s[Max(T)])]
  <2>3. ASSUME NEW T \in SUBSET (1..n), T # {} PROVE f[T] = op(f[T \ {Max(T)}], s[Max(T)])
    <3>1. Max(T) \in 1..n /\ f[T \ {Max(T)}] \in WFW
      BY <2>3, MaxOfSome
    <3>2. QED
      BY <1>5, <2>2, <2>3, <3>1
  <2>4. f = e
    BY <2>2, <2>3
  <2>5. QED
    BY <2>4
<1>7. PICK g : Q(g) /\ Filled(w, s) = g[1..n]
  <2>1. Filled(w, s) = (CHOOSE f : Q(f))[1..n]
    BY <1>1, <1>2
  <2> DEFINE g == CHOOSE f : Q(f)
  <2>2. Q(g)
    BY <1>6
  <2>3. QED
    BY <2>1, <2>2
<1>8. PICK x : x = [i \in 0..n |-> g[1..i]]
  OBVIOUS
<1>9. x[0] = w /\ x[n] = Filled(w, s)
  <2>1. 1..0 = {} /\ {} \in SUBSET (1..n) /\ 0 \in 0..n /\ n \in 0..n
    OBVIOUS
  <2>2. g[{}] = w
    BY <1>7, <2>1
  <2> HIDE DEF Q
  <2>3. QED
    BY <1>7, <1>8, <2>1, <2>2
<1>10. ASSUME NEW i \in 1..n PROVE x[i] = op(x[i - 1], s[i])
  <2>1. 1..i \in SUBSET (1..n) /\ 1..i # {} /\ Max(1..i) = i /\ (1..i) \ {i} = 1..(i - 1)
    BY FoldOfPrefix
  <2>2. g[1..i] = op(g[(1..i) \ {Max(1..i)}], s[Max(1..i)])
    BY <1>7, <2>1
  <2>3. x[i] = g[1..i] /\ x[i - 1] = g[1..(i - 1)]
    BY <1>8
  <2>4. QED
    BY <2>1, <2>2, <2>3
<1>11. ASSUME NEW k \in 0..n PROVE x[k] \in WFW
  <2> DEFINE G == {i \in 0..n : x[i] \in WFW}
  <2>0. x[0] \in WFW /\ 0 \in 0..n
    BY <1>0, <1>9
  <2>1. 0 \in G
    BY <2>0
  <2>2. ASSUME NEW i \in 1..k, i - 1 \in G PROVE i \in G
    <3>1. i \in 1..n /\ x[i - 1] \in WFW
      BY <2>2
    <3>2. op(x[i - 1], s[i]) \in WFW
      BY <1>3, <3>1
    <3>3. x[i] \in WFW
      BY <1>10, <3>1, <3>2
    <3>4. QED
      BY <3>1, <3>3
  <2> HIDE DEF G
  <2>3. k \in G
    BY <2>1, <2>2, UpTo
  <2>4. QED
    BY <2>3 DEF G
<1>12. x \in [0..n -> WFW]
  BY <1>8, <1>11
<1>13. \A i \in 1..n : FillStep(x[i - 1], s[i], x[i])
  BY <1>4, <1>10
<1>14. QED
  BY <1>9, <1>12, <1>13 DEF Filling

\* The windows there are while rows leave.
DropStep(v, id, u) == u = RemoveEntry(v, id)
Dropping(x, n, s, w) ==
  /\ x \in [0..n -> WFW] /\ x[0] = w /\ x[n] = FoldLeft(RemoveEntry, w, s)
  /\ \A i \in 1..n : DropStep(x[i - 1], s[i], x[i])

LEMMA DroppedRun ==
  ASSUME NEW w \in WFW, NEW n \in Nat, NEW S, NEW s \in [1..n -> S]
  PROVE  \E x : Dropping(x, n, s, w)
<1> DEFINE op(v, e) == RemoveEntry(v, e)
           Q(f) == f = [T \in SUBSET (1..n) |-> IF T = {} THEN w ELSE op(f[T \ {Max(T)}], s[Max(T)])]
<1>0. w \in WFW
  OBVIOUS
<1>1. FoldLeft(RemoveEntry, w, s) =
        (CHOOSE f : f = [T \in SUBSET (DOMAIN s) |->
           IF T = {} THEN w ELSE op(f[T \ {Max(T)}], s[Max(T)])])[DOMAIN s]
  BY DEF FoldLeft, MapThenFoldSet
<1>2. DOMAIN s = 1..n
  OBVIOUS
<1>3. ASSUME NEW v \in WFW, NEW i \in 1..n PROVE op(v, s[i]) \in WFW
  BY DropType
<1>4. ASSUME NEW v, NEW e PROVE DropStep(v, e, op(v, e))
  BY DEF DropStep
<1> HIDE DEF op
<1> DEFINE h == [i \in 1..n |-> [v \in WFW |-> op(v, s[i])]]
<1>5. h \in [1..n -> [WFW -> WFW]] /\ \A i \in 1..n : \A v \in WFW : h[i][v] = op(v, s[i])
  BY <1>3
<1> HIDE DEF h
<1>6. \E f : Q(f)
  <2>1. PICK f \in [SUBSET (1..n) -> WFW] : IsFold(f, w, h, n)
    BY <1>0, <1>5, FoldDefined
  <2>2. \A T \in SUBSET (1..n) : f[T] = IF T = {} THEN w ELSE h[Max(T)][f[T \ {Max(T)}]]
    BY <2>1 DEF IsFold
  <2> DEFINE e == [T \in SUBSET (1..n) |-> IF T = {} THEN w ELSE op(f[T \ {Max(T)}], s[Max(T)])]
  <2>3. ASSUME NEW T \in SUBSET (1..n), T # {} PROVE f[T] = op(f[T \ {Max(T)}], s[Max(T)])
    <3>1. Max(T) \in 1..n /\ f[T \ {Max(T)}] \in WFW
      BY <2>3, MaxOfSome
    <3>2. QED
      BY <1>5, <2>2, <2>3, <3>1
  <2>4. f = e
    BY <2>2, <2>3
  <2>5. QED
    BY <2>4
<1>7. PICK g : Q(g) /\ FoldLeft(RemoveEntry, w, s) = g[1..n]
  <2>1. FoldLeft(RemoveEntry, w, s) = (CHOOSE f : Q(f))[1..n]
    BY <1>1, <1>2
  <2> DEFINE g == CHOOSE f : Q(f)
  <2>2. Q(g)
    BY <1>6
  <2>3. QED
    BY <2>1, <2>2
<1>8. PICK x : x = [i \in 0..n |-> g[1..i]]
  OBVIOUS
<1>9. x[0] = w /\ x[n] = FoldLeft(RemoveEntry, w, s)
  <2>1. 1..0 = {} /\ {} \in SUBSET (1..n) /\ 0 \in 0..n /\ n \in 0..n
    OBVIOUS
  <2>2. g[{}] = w
    BY <1>7, <2>1
  <2> HIDE DEF Q
  <2>3. QED
    BY <1>7, <1>8, <2>1, <2>2
<1>10. ASSUME NEW i \in 1..n PROVE x[i] = op(x[i - 1], s[i])
  <2>1. 1..i \in SUBSET (1..n) /\ 1..i # {} /\ Max(1..i) = i /\ (1..i) \ {i} = 1..(i - 1)
    BY FoldOfPrefix
  <2>2. g[1..i] = op(g[(1..i) \ {Max(1..i)}], s[Max(1..i)])
    BY <1>7, <2>1
  <2>3. x[i] = g[1..i] /\ x[i - 1] = g[1..(i - 1)]
    BY <1>8
  <2>4. QED
    BY <2>1, <2>2, <2>3
<1>11. ASSUME NEW k \in 0..n PROVE x[k] \in WFW
  <2> DEFINE G == {i \in 0..n : x[i] \in WFW}
  <2>0. x[0] \in WFW /\ 0 \in 0..n
    BY <1>0, <1>9
  <2>1. 0 \in G
    BY <2>0
  <2>2. ASSUME NEW i \in 1..k, i - 1 \in G PROVE i \in G
    <3>1. i \in 1..n /\ x[i - 1] \in WFW
      BY <2>2
    <3>2. op(x[i - 1], s[i]) \in WFW
      BY <1>3, <3>1
    <3>3. x[i] \in WFW
      BY <1>10, <3>1, <3>2
    <3>4. QED
      BY <3>1, <3>3
  <2> HIDE DEF G
  <2>3. k \in G
    BY <2>1, <2>2, UpTo
  <2>4. QED
    BY <2>3 DEF G
<1>12. x \in [0..n -> WFW]
  BY <1>8, <1>11
<1>13. \A i \in 1..n : DropStep(x[i - 1], s[i], x[i])
  BY <1>4, <1>10
<1>14. QED
  BY <1>9, <1>12, <1>13 DEF Dropping

LEMMA KeyType ==
  ASSUME NEW id \in Id, NEW v \in Value
  PROVE  [id |-> id, sortKey |-> <<v>>] \in Entry
<1>1. Len(Directions) = 1
  BY ParentAssumption
<1>2. <<v>> \in [1..1 -> Cell]
  BY DEF Cell
<1>3. QED
  BY <1>1, <1>2 DEF Entry, SortKey

\* Rows that are held are moved: the window holds the same rows.
Holders(w) == {v \in WFW : \A i : Has(v, i) <=> Has(w, i)}

\* The windows there are while rows that are held are moved.
MoveStep(v, id, u, val) == u = Put(v, [id |-> id, sortKey |-> <<val>>])
Moving(x, n, s, w, ids, val) ==
  /\ x \in [0..n -> Holders(w)] /\ x[0] = w /\ x[n] = Repositioned(w, ids, val)
  /\ \A i \in 1..n : MoveStep(x[i - 1], s[i], x[i], val)

LEMMA MovedRun ==
  ASSUME NEW w \in WFW, NEW n \in Nat, NEW s \in [1..n -> Id], NEW val \in Value,
         \A i \in 1..n : Has(w, s[i]), NEW ids, s = SetToSeq(ids \cap Ids(w))
  PROVE  \E x : Moving(x, n, s, w, ids, val)
<1> DEFINE op(v, e) == Put(v, [id |-> e, sortKey |-> <<val>>])
           Q(f) == f = [T \in SUBSET (1..n) |-> IF T = {} THEN w ELSE op(f[T \ {Max(T)}], s[Max(T)])]
<1>0. w \in Holders(w)
  BY DEF Holders
<1>1. Repositioned(w, ids, val) =
        (CHOOSE f : f = [T \in SUBSET (DOMAIN s) |->
           IF T = {} THEN w ELSE op(f[T \ {Max(T)}], s[Max(T)])])[DOMAIN s]
  BY DEF Repositioned, FoldLeft, MapThenFoldSet
<1>2. DOMAIN s = 1..n
  OBVIOUS
<1>3. ASSUME NEW v \in Holders(w), NEW i \in 1..n PROVE op(v, s[i]) \in Holders(w)
  <2>1. [id |-> s[i], sortKey |-> <<val>>] \in Entry
    BY KeyType
  <2>2. PICK e \in Entry : e = [id |-> s[i], sortKey |-> <<val>>]
    BY <2>1
  <2>3. v \in WFW /\ Has(v, e.id)
    BY <2>2 DEF Holders
  <2>4. Put(v, e) \in WFW /\ \A j : Has(Put(v, e), j) <=> Has(v, j)
    BY <2>3, PutType, PutFacts
  <2>5. QED
    BY <2>2, <2>3, <2>4 DEF Holders
<1>4. ASSUME NEW v, NEW e PROVE MoveStep(v, e, op(v, e), val)
  BY DEF MoveStep
<1> HIDE DEF op
<1> DEFINE h == [i \in 1..n |-> [v \in Holders(w) |-> op(v, s[i])]]
<1>5. h \in [1..n -> [Holders(w) -> Holders(w)]] /\ \A i \in 1..n : \A v \in Holders(w) : h[i][v] = op(v, s[i])
  BY <1>3
<1> HIDE DEF h
<1>6. \E f : Q(f)
  <2>1. PICK f \in [SUBSET (1..n) -> Holders(w)] : IsFold(f, w, h, n)
    BY <1>0, <1>5, FoldDefined
  <2>2. \A T \in SUBSET (1..n) : f[T] = IF T = {} THEN w ELSE h[Max(T)][f[T \ {Max(T)}]]
    BY <2>1 DEF IsFold
  <2> DEFINE e == [T \in SUBSET (1..n) |-> IF T = {} THEN w ELSE op(f[T \ {Max(T)}], s[Max(T)])]
  <2>3. ASSUME NEW T \in SUBSET (1..n), T # {} PROVE f[T] = op(f[T \ {Max(T)}], s[Max(T)])
    <3>1. Max(T) \in 1..n /\ f[T \ {Max(T)}] \in Holders(w)
      BY <2>3, MaxOfSome
    <3>2. QED
      BY <1>5, <2>2, <2>3, <3>1
  <2>4. f = e
    BY <2>2, <2>3
  <2>5. QED
    BY <2>4
<1>7. PICK g : Q(g) /\ Repositioned(w, ids, val) = g[1..n]
  <2>1. Repositioned(w, ids, val) = (CHOOSE f : Q(f))[1..n]
    BY <1>1, <1>2
  <2> DEFINE g == CHOOSE f : Q(f)
  <2>2. Q(g)
    BY <1>6
  <2>3. QED
    BY <2>1, <2>2
<1>8. PICK x : x = [i \in 0..n |-> g[1..i]]
  OBVIOUS
<1>9. x[0] = w /\ x[n] = Repositioned(w, ids, val)
  <2>1. 1..0 = {} /\ {} \in SUBSET (1..n) /\ 0 \in 0..n /\ n \in 0..n
    OBVIOUS
  <2>2. g[{}] = w
    BY <1>7, <2>1
  <2> HIDE DEF Q
  <2>3. QED
    BY <1>7, <1>8, <2>1, <2>2
<1>10. ASSUME NEW i \in 1..n PROVE x[i] = op(x[i - 1], s[i])
  <2>1. 1..i \in SUBSET (1..n) /\ 1..i # {} /\ Max(1..i) = i /\ (1..i) \ {i} = 1..(i - 1)
    BY FoldOfPrefix
  <2>2. g[1..i] = op(g[(1..i) \ {Max(1..i)}], s[Max(1..i)])
    BY <1>7, <2>1
  <2>3. x[i] = g[1..i] /\ x[i - 1] = g[1..(i - 1)]
    BY <1>8
  <2>4. QED
    BY <2>1, <2>2, <2>3
<1>11. ASSUME NEW k \in 0..n PROVE x[k] \in Holders(w)
  <2> DEFINE G == {i \in 0..n : x[i] \in Holders(w)}
  <2>0. x[0] \in Holders(w) /\ 0 \in 0..n
    BY <1>0, <1>9
  <2>1. 0 \in G
    BY <2>0
  <2>2. ASSUME NEW i \in 1..k, i - 1 \in G PROVE i \in G
    <3>1. i \in 1..n /\ x[i - 1] \in Holders(w)
      BY <2>2
    <3>2. op(x[i - 1], s[i]) \in Holders(w)
      BY <1>3, <3>1
    <3>3. x[i] \in Holders(w)
      BY <1>10, <3>1, <3>2
    <3>4. QED
      BY <3>1, <3>3
  <2> HIDE DEF G
  <2>3. k \in G
    BY <2>1, <2>2, UpTo
  <2>4. QED
    BY <2>3 DEF G
<1>12. x \in [0..n -> Holders(w)]
  BY <1>8, <1>11
<1>13. \A i \in 1..n : MoveStep(x[i - 1], s[i], x[i], val)
  BY <1>4, <1>10
<1>14. QED
  BY <1>9, <1>12, <1>13 DEF Moving

\* The rows that come next fill the window, in any order of the two.
LEMMA FilledLeads ==
  ASSUME NEW w \in WFW, NEW S \in SUBSET Entry, \A x, y \in S : x.id = y.id => x = y,
         Elems(w) \subseteq S, NEW rows \in Seq(Entry), Leads(w, rows, S)
  PROVE  /\ Filled(w, rows) \in WFW
         /\ Elems(Filled(w, rows)) = Elems(w) \cup ToSet(rows)
         /\ Elems(Filled(w, rows)) \subseteq S
         /\ Leads(Filled(w, rows), <<>>, S)
<1>1. w \in Windows /\ WellFormed(w)
  BY DEF WFW
<1>2. PICK n \in Nat : n = Len(rows) /\ rows \in [1..n -> Entry]
  OBVIOUS
<1>3. PICK x : Filling(x, n, rows, w)
  BY <1>2, FilledRun
<1>4. /\ x \in [0..n -> WFW] /\ x[0] = w /\ x[n] = Filled(w, rows)
      /\ \A i \in 1..n : FillStep(x[i - 1], rows[i], x[i])
  BY <1>3 DEF Filling
<1>5. /\ \A u : u \in ToSet(rows) <=> \E i \in 1..n : rows[i] = u
      /\ Sorted(rows) /\ ToSet(rows) \subseteq S \ Elems(w)
      /\ Len(w.entries) \in Nat /\ Limit \in Nat /\ Len(w.entries) + n <= Limit
  BY <1>1, <1>2, WindowElems, Elements DEF Leads
<1>6. \A i, j \in 1..n : i # j => rows[i].id # rows[j].id
  <2>1. ASSUME NEW i \in 1..n, NEW j \in 1..n, i < j PROVE rows[i] # rows[j]
    <3>1. Before(rows[i], rows[j]) /\ rows[i] \in Entry
      BY <1>2, <1>5, <2>1 DEF Sorted
    <3>2. QED
      BY <3>1, BeforeIsStrictTotalOrder
  <2>2. \A i, j \in 1..n : i # j => rows[i] # rows[j]
    BY <2>1
  <2>3. \A i \in 1..n : rows[i] \in S
    BY <1>5
  <2>4. QED
    BY <2>2, <2>3
<1> DEFINE Upto(i) == {rows[j] : j \in 1..i}
           G == {i \in 0..n : /\ Elems(x[i]) = Elems(w) \cup Upto(i)
                              /\ Len(x[i].entries) = Len(w.entries) + i}
<1>7. 0 \in G
  BY <1>4, <1>5
<1>8. ASSUME NEW i \in 1..n, i - 1 \in G PROVE i \in G
  <2>1. PICK v \in WFW : v = x[i - 1]
    BY <1>4
  <2>2. PICK e \in Entry : e = rows[i]
    BY <1>2
  <2>3. Elems(v) = Elems(w) \cup Upto(i - 1) /\ Len(v.entries) = Len(w.entries) + (i - 1)
    BY <1>8, <2>1
  <2>4. v \in Windows /\ WellFormed(v)
    BY DEF WFW
  <2>5. ~Has(v, e.id)
    <3>1. \A u \in Elems(w) : u.id # e.id
      BY <1>5, <2>2
    <3>2. \A u \in Upto(i - 1) : u.id # e.id
      BY <1>6, <2>2
    <3>3. QED
      BY <2>3, <2>4, <3>1, <3>2, WindowElems
  <2>6. Len(v.entries) < Limit /\ Len(v.entries) # Limit
    BY <1>5, <2>3
  <2>7. /\ Len(InsertEntry(v, e).window.entries) = Len(v.entries) + 1
        /\ Elems(InsertEntry(v, e).window) = Elems(v) \cup {e}
    BY <1>5, <2>4, <2>5, <2>6, TakesIn DEF AddsWithin
  <2>8. x[i] = InsertEntry(v, e).window
    <3>1. FillStep(v, e, x[i])
      BY <1>4, <2>1, <2>2
    <3>2. QED
      BY <2>5, <3>1 DEF FillStep
  <2>9. Upto(i) = Upto(i - 1) \cup {e}
    BY <2>2
  <2>10. Elems(x[i]) = Elems(w) \cup Upto(i)
    BY <2>3, <2>7, <2>8, <2>9, Zenon
  <2>11. Len(x[i].entries) = Len(w.entries) + i
    BY <1>5, <2>3, <2>7, <2>8
  <2>12. QED
    BY <2>10, <2>11
<1>9. n \in G
  <2> HIDE DEF G
  <2>1. QED
    BY <1>7, <1>8, UpTo
<1>10. PICK v \in WFW : v = Filled(w, rows)
  BY <1>4
<1>11. Elems(v) = Elems(w) \cup ToSet(rows) /\ Len(v.entries) = Len(w.entries) + n
  <2>1. Upto(n) = ToSet(rows)
    BY <1>5
  <2>2. QED
    BY <1>4, <1>9, <1>10, <2>1
<1>12. v \in Windows /\ WellFormed(v)
  BY DEF WFW
<1>13. Below(v, S)
  BY <1>5, <1>11 DEF Leads, Below
<1>14. Len(v.entries) < Limit => S \subseteq Elems(v)
  BY <1>2, <1>11 DEF Leads
<1>15. Leads(v, <<>>, S)
  BY <1>12, <1>13, <1>14, LeadsNothing
<1>16. QED
  BY <1>5, <1>10, <1>11, <1>15

\* Rows that are held already change nothing.
LEMMA FilledHeld ==
  ASSUME NEW w \in WFW, NEW rows \in Seq(Entry), \A e \in ToSet(rows) : Has(w, e.id)
  PROVE  Filled(w, rows) = w
<1>1. PICK n \in Nat : n = Len(rows) /\ rows \in [1..n -> Entry]
  OBVIOUS
<1>2. PICK x : Filling(x, n, rows, w)
  BY <1>1, FilledRun
<1>3. /\ x \in [0..n -> WFW] /\ x[0] = w /\ x[n] = Filled(w, rows)
      /\ \A i \in 1..n : FillStep(x[i - 1], rows[i], x[i])
  BY <1>2 DEF Filling
<1>4. \A i \in 1..n : Has(w, rows[i].id)
  BY <1>1, Elements
<1> DEFINE G == {i \in 0..n : x[i] = w}
<1>5. 0 \in G
  BY <1>3
<1>6. ASSUME NEW i \in 1..n, i - 1 \in G PROVE i \in G
  <2>1. FillStep(w, rows[i], x[i])
    BY <1>3, <1>6
  <2>2. QED
    BY <1>4, <2>1 DEF FillStep
<1> HIDE DEF G
<1>7. n \in G
  BY <1>5, <1>6, UpTo
<1>8. QED
  BY <1>3, <1>7 DEF G

LEMMA IdsAreFinite ==
  ASSUME NEW w \in WFW
  PROVE  /\ IsFiniteSet(Ids(w)) /\ Ids(w) \subseteq Id
         /\ \A i : i \in Ids(w) <=> Has(w, i)
<1>1. w \in Windows /\ WellFormed(w)
  BY DEF WFW
<1>2. /\ w.entries \in Seq(Entry) /\ Ids(w) = IdsOf(Elems(w)) /\ Elems(w) \subseteq Entry
      /\ Sorted(w.entries) /\ \A i : Has(w, i) <=> \E x \in Elems(w) : x.id = i
  BY <1>1, WindowElems
<1>3. IsFiniteSet(Elems(w))
  BY <1>2, SizeOfEntries DEF Elems
<1>4. IsFiniteSet(IdsOf(Elems(w)))
  <2> DEFINE f == [e \in Elems(w) |-> e.id]
  <2>1. f \in Surjection(Elems(w), IdsOf(Elems(w)))
    BY DEF Surjection, IdsOf
  <2> HIDE DEF f
  <2>2. QED
    BY <1>3, <2>1, FS_Surjection
<1>5. QED
  BY <1>2, <1>4 DEF IdsOf, Entry

\* The rows that are not in a read leave.
LEMMA DroppedHas ==
  ASSUME NEW w \in WFW, NEW gone, IsFiniteSet(gone)
  PROVE  LET v == FoldLeft(RemoveEntry, w, SetToSeq(gone))
         IN  v \in WFW /\ \A i : Has(v, i) <=> Has(w, i) /\ i \notin gone
<1>1. PICK s : s = SetToSeq(gone)
  OBVIOUS
<1>2. PICK n \in Nat : s \in [1..n -> gone] /\ \A i \in gone : \E j \in 1..n : s[j] = i
  BY <1>1, SeqOfSet
<1>3. PICK x : Dropping(x, n, s, w)
  BY <1>2, DroppedRun
<1>4. /\ x \in [0..n -> WFW] /\ x[0] = w /\ x[n] = FoldLeft(RemoveEntry, w, s)
      /\ \A i \in 1..n : DropStep(x[i - 1], s[i], x[i])
  BY <1>3 DEF Dropping
<1> DEFINE G == {k \in 0..n : \A i : Has(x[k], i) <=> Has(w, i) /\ \A j \in 1..k : s[j] # i}
<1>5. 0 \in G
  BY <1>4
<1>6. ASSUME NEW k \in 1..n, k - 1 \in G PROVE k \in G
  <2>1. PICK v \in WFW : v = x[k - 1]
    BY <1>4
  <2>2. x[k] = RemoveEntry(v, s[k])
    BY <1>4, <2>1 DEF DropStep
  <2>3. \A i : Has(x[k], i) <=> Has(v, i) /\ i # s[k]
    BY <2>2, DropType
  <2>4. \A i : Has(v, i) <=> Has(w, i) /\ \A j \in 1..(k - 1) : s[j] # i
    BY <1>6, <2>1
  <2>5. 1..k = 1..(k - 1) \cup {k}
    OBVIOUS
  <2>6. QED
    BY <2>3, <2>4, <2>5
<1> HIDE DEF G
<1>7. n \in G
  BY <1>5, <1>6, UpTo
<1>8. \A i : Has(x[n], i) <=> Has(w, i) /\ \A j \in 1..n : s[j] # i
  BY <1>7 DEF G
<1>9. x[n] \in WFW /\ \A i : Has(x[n], i) <=> Has(w, i) /\ i \notin gone
  BY <1>2, <1>4, <1>8
<1>10. QED
  BY <1>1, <1>4, <1>9

\* Moving rows about changes which entries a window has, not which rows.
LEMMA RepositionedHas ==
  ASSUME NEW w \in WFW, NEW ids, NEW val \in Value
  PROVE  Repositioned(w, ids, val) \in WFW /\ \A i : Has(Repositioned(w, ids, val), i) <=> Has(w, i)
<1>1. IsFiniteSet(ids \cap Ids(w)) /\ ids \cap Ids(w) \subseteq Id /\ \A i \in ids \cap Ids(w) : Has(w, i)
  BY IdsAreFinite, FS_Subset
<1>2. PICK S : S = ids \cap Ids(w)
  OBVIOUS
<1>3. PICK s : s = SetToSeq(S)
  OBVIOUS
<1>4. PICK n \in Nat : s \in [1..n -> S]
  BY <1>1, <1>2, <1>3, SeqOfSet
<1>5. s \in [1..n -> Id] /\ \A i \in 1..n : Has(w, s[i])
  BY <1>1, <1>2, <1>4
<1>6. s = SetToSeq(ids \cap Ids(w))
  BY <1>2, <1>3
<1>7. PICK x : Moving(x, n, s, w, ids, val)
  BY <1>5, <1>6, MovedRun
<1>8. x[n] \in Holders(w) /\ x[n] = Repositioned(w, ids, val)
  BY <1>7 DEF Moving
<1>9. QED
  BY <1>8 DEF Holders

-----------------------------------------------------------------------------
(* Reads: the first rows of a set there is one of, and which they are.     *)

\* A non-empty finite set of entries has one that comes first.
LEMMA FirstEntry ==
  ASSUME NEW S \in SUBSET Entry, IsFiniteSet(S), S # {}
  PROVE  \E e \in S : \A y \in S \ {e} : Before(e, y)
<1>1. PICK n \in Nat : /\ SetToSeq(S) \in [1..n -> S]
                       /\ \A x \in S : \E i \in 1..n : SetToSeq(S)[i] = x
  BY SeqOfSet
<1>2. PICK s : s = SetToSeq(S)
  OBVIOUS
<1>3. s \in [1..n -> S] /\ \A x \in S : \E i \in 1..n : s[i] = x
  BY <1>1, <1>2
<1> DEFINE First(e, k) == \A i \in 1..k : s[i] # e => Before(e, s[i])
           G == {k \in 0..n : k = 0 \/ \E e \in S : First(e, k)}
<1>4. 0 \in G
  OBVIOUS
<1>5. ASSUME NEW k \in 1..n, k - 1 \in G PROVE k \in G
  <2>1. s[k] \in S /\ s[k] \in Entry
    BY <1>3
  <2>2. CASE k = 1
    <3>1. First(s[k], k)
      BY <2>2
    <3>2. QED
      BY <2>1, <3>1
  <2>3. CASE k # 1
    <3>1. PICK e \in S : First(e, k - 1)
      BY <1>5, <2>3
    <3>2. CASE e = s[k] \/ Before(e, s[k])
      <4>1. First(e, k)
        BY <3>1, <3>2
      <4>2. QED
        BY <4>1
    <3>3. CASE ~(e = s[k] \/ Before(e, s[k]))
      <4>1. e \in Entry /\ Before(s[k], e)
        BY <2>1, <3>3, BeforeIsStrictTotalOrder
      <4>2. ASSUME NEW i \in 1..k, s[i] # s[k] PROVE Before(s[k], s[i])
        <5>1. i \in 1..(k - 1) /\ s[i] \in Entry
          BY <1>3, <4>2
        <5>2. s[i] = e \/ Before(e, s[i])
          BY <3>1, <5>1
        <5>3. QED
          BY <2>1, <4>1, <5>1, <5>2, BeforeIsStrictTotalOrder
      <4>3. First(s[k], k)
        BY <4>2
      <4>4. QED
        BY <2>1, <4>3
    <3>4. QED
      BY <3>2, <3>3
  <2>4. QED
    BY <2>2, <2>3
<1>6. n \in G
  <2> HIDE DEF G
  <2>1. QED
    BY <1>4, <1>5, UpTo
<1>7. n # 0
  BY <1>3
<1>8. PICK e \in S : First(e, n)
  BY <1>6, <1>7
<1>9. QED
  BY <1>3, <1>8

\* Adding the row that comes first of those past the first n.
LEMMA OneMoreRow ==
  ASSUME NEW S \in SUBSET Entry, NEW n \in Nat, NEW rows \in FirstRows(S, n), Len(rows) = n,
         NEW e \in S \ ToSet(rows), \A y \in (S \ ToSet(rows)) \ {e} : Before(e, y)
  PROVE  Append(rows, e) \in FirstRows(S, n + 1)
<1>1. /\ rows \in Seq(Entry) /\ Sorted(rows) /\ ToSet(rows) \subseteq S /\ e \in Entry
      /\ \A x \in ToSet(rows), y \in S \ ToSet(rows) : Before(x, y)
  BY FirstRowsFacts
<1>2. \A x : x \in ToSet(rows) <=> \E i \in 1..n : rows[i] = x
  BY <1>1, Elements
<1>3. PICK r : r = Append(rows, e)
  OBVIOUS
<1>4. /\ r \in Seq(Entry) /\ Len(r) = n + 1 /\ r[n + 1] = e
      /\ \A i \in 1..n : r[i] = rows[i]
  BY <1>1, <1>3
<1>5. r \in [1..(n + 1) -> S] /\ ToSet(r) = ToSet(rows) \cup {e}
  <2>1. \A i \in 1..(n + 1) : i = n + 1 \/ i \in 1..n
    OBVIOUS
  <2>2. \A i \in 1..(n + 1) : r[i] \in S
    BY <1>1, <1>2, <1>4, <2>1
  <2>3. \A x : x \in ToSet(r) <=> \E i \in 1..(n + 1) : r[i] = x
    BY <1>4, Elements
  <2>4. \A x : x \in ToSet(r) <=> x \in ToSet(rows) \/ x = e
    BY <1>2, <1>4, <2>1, <2>3
  <2>5. QED
    BY <1>4, <2>2, <2>4
<1>6. Sorted(r)
  <2>1. ASSUME NEW i \in 1..(n + 1), NEW j \in 1..(n + 1), i < j PROVE Before(r[i], r[j])
    <3>1. i \in 1..n
      BY <2>1
    <3>2. CASE j = n + 1
      BY <1>1, <1>2, <1>4, <3>1, <3>2
    <3>3. CASE j # n + 1
      <4>1. j \in 1..n
        BY <3>3
      <4>2. QED
        BY <1>1, <1>4, <2>1, <3>1, <4>1 DEF Sorted
    <3>4. QED
      BY <3>2, <3>3
  <2>2. QED
    BY <1>4, <2>1 DEF Sorted
<1>7. \A y \in S \ ToSet(r) : \A i \in 1..Len(r) : Before(r[i], y)
  <2>1. ASSUME NEW y \in S \ ToSet(r), NEW i \in 1..(n + 1) PROVE Before(r[i], y)
    <3>1. y \in S \ ToSet(rows) /\ y # e
      BY <1>5
    <3>2. i = n + 1 \/ i \in 1..n
      OBVIOUS
    <3>3. QED
      BY <1>1, <1>2, <1>4, <3>1, <3>2
  <2>2. QED
    BY <1>4, <2>1
<1>8. IsFirst(r, S, n + 1)
  BY <1>4, <1>6, <1>7 DEF IsFirst
<1>9. n + 1 \in 0..(n + 1)
  OBVIOUS
<1>10. QED
  BY <1>3, <1>5, <1>8, <1>9 DEF FirstRows

\* A read of a finite set has an answer.
LEMMA ReadExists ==
  ASSUME NEW S \in SUBSET Entry, IsFiniteSet(S), NEW n \in Nat
  PROVE  FirstOf(S, n) \in FirstRows(S, n)
<1> DEFINE G == {k \in 0..n : \E rows : rows \in FirstRows(S, k)}
<1>1. 0 \in G
  <2>1. <<>> \in [1..0 -> S] /\ IsFirst(<<>>, S, 0)
    BY DEF IsFirst, Sorted
  <2>2. <<>> \in FirstRows(S, 0)
    BY <2>1 DEF FirstRows
  <2>3. QED
    BY <2>2
<1>2. ASSUME NEW k \in 1..n, k - 1 \in G PROVE k \in G
  <2>1. k - 1 \in Nat /\ (k - 1) + 1 = k
    OBVIOUS
  <2>2. PICK m \in Nat : m = k - 1
    BY <2>1
  <2>3. PICK rows : rows \in FirstRows(S, m)
    BY <1>2, <2>2
  <2>4. /\ rows \in Seq(Entry) /\ Len(rows) \in Nat /\ Len(rows) <= m
        /\ Sorted(rows) /\ ToSet(rows) \subseteq S
        /\ Len(rows) < m => S \subseteq ToSet(rows)
    BY <2>3, FirstRowsFacts
  <2>5. CASE S \subseteq ToSet(rows)
    <3>1. IsFirst(rows, S, k)
      BY <2>4, <2>5 DEF IsFirst
    <3>2. rows \in [1..Len(rows) -> S] /\ Len(rows) \in 0..k
      <4>1. \A i \in 1..Len(rows) : rows[i] \in ToSet(rows)
        BY <2>4, Elements
      <4>2. QED
        BY <2>1, <2>2, <2>4, <4>1
    <3>3. rows \in FirstRows(S, k)
      BY <3>1, <3>2 DEF FirstRows
    <3>4. QED
      BY <3>3
  <2>6. CASE ~(S \subseteq ToSet(rows))
    <3>1. Len(rows) = m
      BY <2>4, <2>6
    <3>2. PICK R : R = S \ ToSet(rows)
      OBVIOUS
    <3>3. R # {} /\ R \in SUBSET Entry /\ R \subseteq S
      BY <2>6, <3>2
    <3>4. IsFiniteSet(R)
      BY <3>3, FS_Subset
    <3>5. PICK e \in R : \A y \in R \ {e} : Before(e, y)
      BY <3>3, <3>4, FirstEntry
    <3>6. Append(rows, e) \in FirstRows(S, m + 1)
      BY <2>3, <3>1, <3>2, <3>5, OneMoreRow
    <3>7. m + 1 = k
      BY <2>2
    <3>8. QED
      BY <3>6, <3>7
  <2>7. QED
    BY <2>5, <2>6
<1>3. n \in G
  <2> HIDE DEF G
  <2>1. QED
    BY <1>1, <1>2, UpTo
<1>4. QED
  BY <1>3 DEF FirstOf

\* Only one list has these rows in order.
LEMMA SortedOnce ==
  ASSUME NEW s \in Seq(Entry), NEW t \in Seq(Entry), Sorted(s), Sorted(t), ToSet(s) = ToSet(t)
  PROVE  s = t
<1>1. PICK n \in Nat : n = Len(s)
  OBVIOUS
<1>2. Len(t) = n
  BY <1>1, SizeOfEntries
<1>3. /\ \A i \in 1..n : s[i] \in Entry /\ t[i] \in Entry
      /\ \A i \in 1..n : \E j \in 1..n : t[j] = s[i]
      /\ \A i \in 1..n : \E j \in 1..n : s[j] = t[i]
  BY <1>1, <1>2, Elements
<1>4. /\ \A i, j \in 1..n : i < j => Before(s[i], s[j])
      /\ \A i, j \in 1..n : i < j => Before(t[i], t[j])
  BY <1>1, <1>2 DEF Sorted
<1> DEFINE Bad == {i \in 1..n : s[i] # t[i]}
<1>5. ASSUME Bad # {} PROVE FALSE
  <2>1. Bad \subseteq Nat
    OBVIOUS
  <2>2. PICK k \in Bad : \A i \in Bad : k <= i
    BY <1>5, <2>1, LeastNatural
  <2>3. \A i \in 1..n : i < k => s[i] = t[i]
    BY <2>2
  <2>4. PICK j \in 1..n : t[j] = s[k]
    BY <1>3, <2>2
  <2>5. PICK i \in 1..n : s[i] = t[k]
    BY <1>3, <2>2
  <2>6. k \in 1..n /\ s[k] # t[k]
    BY <2>2
  <2>7. ~(j < k)
    <3>1. ASSUME j < k PROVE FALSE
      <4>1. s[j] = s[k] /\ Before(s[j], s[k])
        BY <1>4, <2>3, <2>4, <2>6, <3>1
      <4>2. QED
        BY <1>3, <2>6, <4>1, BeforeIsStrictTotalOrder
    <3>2. QED
      BY <3>1
  <2>8. ~(i < k)
    <3>1. ASSUME i < k PROVE FALSE
      <4>1. t[i] = t[k] /\ Before(t[i], t[k])
        BY <1>4, <2>3, <2>5, <2>6, <3>1
      <4>2. QED
        BY <1>3, <2>6, <4>1, BeforeIsStrictTotalOrder
    <3>2. QED
      BY <3>1
  <2>9. i # k /\ j # k
    BY <2>4, <2>5, <2>6
  <2>10. Before(t[k], s[k]) /\ Before(s[k], t[k])
    BY <1>4, <2>4, <2>5, <2>6, <2>7, <2>8, <2>9
  <2>11. QED
    BY <1>3, <2>6, <2>10, BeforeAsymmetric
<1>6. \A i \in 1..n : s[i] = t[i]
  BY <1>5
<1>7. QED
  BY <1>1, <1>2, <1>6, EqualByElements

\* The entries of a window that is the first of S are the read of S.
LEMMA WindowIsRead ==
  ASSUME NEW w \in WFW, NEW S \in SUBSET Entry, IsFiniteSet(S), Elems(w) \subseteq S,
         Leads(w, <<>>, S)
  PROVE  w.entries = FirstOf(S, Limit)
<1>1. w \in Windows /\ WellFormed(w) /\ Limit \in Nat
  BY LimitAssumption DEF WFW
<1>2. PICK rows : rows = FirstOf(S, Limit)
  OBVIOUS
<1>3. rows \in FirstRows(S, Limit)
  BY <1>1, <1>2, ReadExists
<1>4. /\ rows \in Seq(Entry) /\ Len(rows) <= Limit
      /\ Sorted(rows) /\ ToSet(rows) \subseteq S
      /\ Len(rows) < Limit => S \subseteq ToSet(rows)
      /\ \A x \in ToSet(rows), y \in S \ ToSet(rows) : Before(x, y)
  BY <1>1, <1>3, FirstRowsFacts
<1>5. ToSet(rows) = Elems(w)
  BY <1>1, <1>4, LeadsIsTop
<1>6. w.entries \in Seq(Entry) /\ Sorted(w.entries)
  BY <1>1, WindowElems
<1>7. w.entries = rows
  BY <1>4, <1>5, <1>6, SortedOnce DEF Elems
<1>8. QED
  BY <1>2, <1>7

\* Conversely.
LEMMA ReadLeads ==
  ASSUME NEW w \in WFW, NEW S \in SUBSET Entry, IsFiniteSet(S), Elems(w) = ToSet(FirstOf(S, Limit))
  PROVE  Elems(w) \subseteq S /\ Leads(w, <<>>, S)
<1>1. w \in Windows /\ WellFormed(w) /\ Limit \in Nat
  BY LimitAssumption DEF WFW
<1>2. PICK rows : rows = FirstOf(S, Limit)
  OBVIOUS
<1>3. rows \in FirstRows(S, Limit)
  BY <1>1, <1>2, ReadExists
<1>4. /\ rows \in Seq(Entry) /\ Sorted(rows) /\ ToSet(rows) \subseteq S
      /\ Len(rows) < Limit => S \subseteq ToSet(rows)
      /\ \A x \in ToSet(rows), y \in S \ ToSet(rows) : Before(x, y)
  BY <1>1, <1>3, FirstRowsFacts
<1>5. ToSet(rows) = Elems(w)
  BY <1>2
<1>6. w.entries \in Seq(Entry) /\ Sorted(w.entries)
  BY <1>1, WindowElems
<1>7. w.entries = rows
  BY <1>4, <1>5, <1>6, SortedOnce DEF Elems
<1>8. Below(w, S)
  BY <1>4, <1>5 DEF Below
<1>9. QED
  BY <1>1, <1>4, <1>5, <1>7, <1>8, LeadsNothing

-----------------------------------------------------------------------------
(* The windows and the views together.                                     *)

AccType ==
  [windows : UNION {[D -> WFW] : D \in SUBSET Parent},
   view : UNION {[C -> SUBSET Id] : C \in SUBSET Client}]

\* The window of p becomes w, every subscriber is given in and loses out.
Changed(a, b, p, w, in, out) ==
  /\ b \in AccType
  /\ DOMAIN b.windows = DOMAIN a.windows \cup {p} /\ WindowOf(b, p) = w
  /\ \A q \in Parent \ {p} : WindowOf(b, q) = WindowOf(a, q)
  /\ DOMAIN b.view = DOMAIN a.view
  /\ \A s \in DOMAIN a.view : b.view[s] = (a.view[s] \cup in) \ out

LEMMA AccFields ==
  ASSUME NEW a \in AccType
  PROVE  /\ a = [windows |-> a.windows, view |-> a.view]
         /\ a.windows \in [DOMAIN a.windows -> WFW] /\ DOMAIN a.windows \subseteq Parent
         /\ a.view \in [DOMAIN a.view -> SUBSET Id] /\ DOMAIN a.view \subseteq Client
         /\ \A p : WindowOf(a, p) \in WFW
<1>1. /\ a = [windows |-> a.windows, view |-> a.view]
      /\ a.windows \in UNION {[D -> WFW] : D \in SUBSET Parent}
      /\ a.view \in UNION {[C -> SUBSET Id] : C \in SUBSET Client}
  BY DEF AccType
<1>2. a.windows \in [DOMAIN a.windows -> WFW] /\ DOMAIN a.windows \subseteq Parent
  BY <1>1
<1>3. a.view \in [DOMAIN a.view -> SUBSET Id] /\ DOMAIN a.view \subseteq Client
  BY <1>1
<1>4. EmptyWindow \in WFW
  BY EmptyWindowProperties DEF WFW
<1>5. \A p : WindowOf(a, p) \in WFW
  BY <1>2, <1>4 DEF WindowOf
<1>6. QED
  BY <1>1, <1>2, <1>3, <1>5

LEMMA AccIntro ==
  ASSUME NEW ws, NEW v, ws \in [DOMAIN ws -> WFW], DOMAIN ws \subseteq Parent,
         v \in [DOMAIN v -> SUBSET Id], DOMAIN v \subseteq Client
  PROVE  [windows |-> ws, view |-> v] \in AccType
<1>1. ws \in UNION {[D -> WFW] : D \in SUBSET Parent}
  OBVIOUS
<1>2. v \in UNION {[C -> SUBSET Id] : C \in SUBSET Client}
  OBVIOUS
<1>3. QED
  BY <1>1, <1>2 DEF AccType

LEMMA WithChanges ==
  ASSUME NEW a \in AccType, NEW p \in Parent, NEW w \in WFW
  PROVE  Changed(a, WithWindow(a, p, w), p, w, {}, {})
<1>1. PICK ws : ws = [q \in DOMAIN a.windows \cup {p} |-> IF q = p THEN w ELSE a.windows[q]]
  OBVIOUS
<1>2. PICK b : b = [windows |-> ws, view |-> a.view]
  OBVIOUS
<1>3. WithWindow(a, p, w) = b
  BY <1>1, <1>2, AccFields DEF WithWindow
<1>4. /\ a.windows \in [DOMAIN a.windows -> WFW] /\ DOMAIN a.windows \subseteq Parent
      /\ a.view \in [DOMAIN a.view -> SUBSET Id] /\ DOMAIN a.view \subseteq Client
  BY AccFields
<1>5. DOMAIN ws = DOMAIN a.windows \cup {p} /\ ws \in [DOMAIN ws -> WFW] /\ DOMAIN ws \subseteq Parent
  BY <1>1, <1>4
<1>6. b \in AccType
  BY <1>2, <1>4, <1>5, AccIntro
<1>7. WindowOf(b, p) = w /\ \A q \in Parent \ {p} : WindowOf(b, q) = WindowOf(a, q)
  BY <1>1, <1>2 DEF WindowOf
<1>8. b.windows = ws /\ b.view = a.view
  BY <1>2
<1>9. Changed(a, b, p, w, {}, {})
  BY <1>5, <1>6, <1>7, <1>8 DEF Changed
<1>10. QED
  BY <1>3, <1>9

LEMMA ToldChanges ==
  ASSUME NEW a \in AccType, NEW b \in AccType, NEW p, NEW w,
         Changed(a, b, p, w, {}, {}), NEW in \in SUBSET Id, NEW out
  PROVE  Changed(a, Told(b, in, out), p, w, in, out)
<1>1. PICK v : v = [s \in DOMAIN b.view |-> (b.view[s] \cup in) \ out]
  OBVIOUS
<1>2. PICK c : c = [windows |-> b.windows, view |-> v]
  OBVIOUS
<1>0. b = [windows |-> b.windows, view |-> b.view]
  BY AccFields
<1>3. Told(b, in, out) = c
  <2>1. Told(b, in, out) = [b EXCEPT !.view = v]
    BY <1>1 DEF Told
  <2>2. [b EXCEPT !.view = v] = c
    BY <1>0, <1>2
  <2>3. QED
    BY <2>1, <2>2
<1>4. /\ b.windows \in [DOMAIN b.windows -> WFW] /\ DOMAIN b.windows \subseteq Parent
      /\ b.view \in [DOMAIN b.view -> SUBSET Id] /\ DOMAIN b.view \subseteq Client
  BY AccFields
<1>5. DOMAIN v = DOMAIN b.view /\ v \in [DOMAIN v -> SUBSET Id] /\ DOMAIN v \subseteq Client
  BY <1>1, <1>4
<1>6. c \in AccType
  BY <1>2, <1>4, <1>5, AccIntro
<1>7. c.windows = b.windows /\ c.view = v /\ \A q : WindowOf(c, q) = WindowOf(b, q)
  BY <1>2 DEF WindowOf
<1>8. /\ DOMAIN b.windows = DOMAIN a.windows \cup {p} /\ WindowOf(b, p) = w
      /\ \A q \in Parent \ {p} : WindowOf(b, q) = WindowOf(a, q)
      /\ DOMAIN b.view = DOMAIN a.view
      /\ \A s \in DOMAIN a.view : b.view[s] = a.view[s]
  BY DEF Changed
<1>9. \A s \in DOMAIN a.view : c.view[s] = (a.view[s] \cup in) \ out
  BY <1>1, <1>7, <1>8
<1>10. Changed(a, c, p, w, in, out)
  BY <1>5, <1>6, <1>7, <1>8, <1>9 DEF Changed
<1>11. QED
  BY <1>3, <1>10

\* A window and a message, one after the other, and two messages.
LEMMA WindowTold ==
  ASSUME NEW a \in AccType, NEW p \in Parent, NEW w \in WFW, NEW in \in SUBSET Id, NEW out
  PROVE  Changed(a, Told(WithWindow(a, p, w), in, out), p, w, in, out)
<1>1. PICK b : b = WithWindow(a, p, w)
  OBVIOUS
<1>2. Changed(a, b, p, w, {}, {}) /\ b \in AccType
  BY <1>1, WithChanges DEF Changed
<1>3. Changed(a, Told(b, in, out), p, w, in, out)
  BY <1>2, ToldChanges
<1>4. QED
  BY <1>1, <1>3

LEMMA ChangedTwice ==
  ASSUME NEW a \in AccType, NEW b \in AccType, NEW c \in AccType, NEW p, NEW v, NEW w,
         NEW out, NEW in, Changed(a, b, p, v, {}, out), Changed(b, c, p, w, in, {}),
         in \cap out = {}
  PROVE  Changed(a, c, p, w, in, out)
<1>1. /\ DOMAIN b.windows = DOMAIN a.windows \cup {p}
      /\ \A q \in Parent \ {p} : WindowOf(b, q) = WindowOf(a, q)
      /\ DOMAIN b.view = DOMAIN a.view
      /\ \A s \in DOMAIN a.view : b.view[s] = a.view[s] \ out
  BY DEF Changed
<1>2. /\ DOMAIN c.windows = DOMAIN b.windows \cup {p} /\ WindowOf(c, p) = w
      /\ \A q \in Parent \ {p} : WindowOf(c, q) = WindowOf(b, q)
      /\ DOMAIN c.view = DOMAIN b.view
      /\ \A s \in DOMAIN b.view : c.view[s] = b.view[s] \cup in
  BY DEF Changed
<1>3. \A s \in DOMAIN a.view : c.view[s] = (a.view[s] \cup in) \ out
  BY <1>1, <1>2
<1>4. QED
  BY <1>1, <1>2, <1>3 DEF Changed

-----------------------------------------------------------------------------
(* The rows of the parents.                                                *)

Stored(tasks) == {t \in Id : tasks[t] # Absent}
StoreOK(names, tasks) ==
  /\ names \in [User -> Value] /\ tasks \in [Id -> Task \cup {Absent}]
  /\ IsFiniteSet(Stored(tasks))
Listed(tasks, p, t) == t \in Id /\ tasks[t] # Absent /\ tasks[t].parent = p /\ tasks[t].ok

LEMMA EntryOfType ==
  ASSUME NEW names, NEW tasks, StoreOK(names, tasks), NEW t \in Id, tasks[t] # Absent
  PROVE  /\ EntryOf(names, tasks, t) \in Entry /\ EntryOf(names, tasks, t).id = t
         /\ tasks[t] \in Task
<1>1. tasks[t] \in Task
  BY DEF StoreOK
<1>2. names[tasks[t].assignee] \in Value
  BY <1>1 DEF StoreOK, Task
<1>3. [id |-> t, sortKey |-> <<names[tasks[t].assignee]>>] \in Entry
  BY <1>2, KeyType
<1>4. EntryOf(names, tasks, t) = [id |-> t, sortKey |-> <<names[tasks[t].assignee]>>]
  BY DEF EntryOf, NameRead
<1>5. QED
  BY <1>1, <1>3, <1>4

LEMMA RowsFacts ==
  ASSUME NEW names, NEW tasks, StoreOK(names, tasks), NEW p
  PROVE  /\ Rows(names, tasks, p) \in SUBSET Entry
         /\ \A x, y \in Rows(names, tasks, p) : x.id = y.id => x = y
         /\ \A x : x \in Rows(names, tasks, p) <=>
              \E t \in Id : Listed(tasks, p, t) /\ x = EntryOf(names, tasks, t)
         /\ \A t : Listed(tasks, p, t) <=> \E x \in Rows(names, tasks, p) : x.id = t
         /\ IsFiniteSet(Rows(names, tasks, p))
<1> DEFINE R == Rows(names, tasks, p)
<1>1. \A x : x \in R <=> \E t \in Id : Listed(tasks, p, t) /\ x = EntryOf(names, tasks, t)
  BY DEF Rows, Listed
<1>2. \A t \in Id : Listed(tasks, p, t) =>
        EntryOf(names, tasks, t) \in Entry /\ EntryOf(names, tasks, t).id = t
  BY EntryOfType DEF Listed
<1>3. IsFiniteSet(R)
  <2> DEFINE f == [t \in {u \in Id : Listed(tasks, p, u)} |-> EntryOf(names, tasks, t)]
  <2>1. f \in Surjection({u \in Id : Listed(tasks, p, u)}, R)
    <3>1. \A t \in {u \in Id : Listed(tasks, p, u)} : EntryOf(names, tasks, t) \in R
      BY <1>1
    <3>2. \A x \in R : \E t \in {u \in Id : Listed(tasks, p, u)} : EntryOf(names, tasks, t) = x
      BY <1>1
    <3> HIDE DEF R
    <3>3. QED
      BY <3>1, <3>2 DEF Surjection
  <2>2. {u \in Id : Listed(tasks, p, u)} \subseteq Stored(tasks)
    BY DEF Listed, Stored
  <2>3. IsFiniteSet({u \in Id : Listed(tasks, p, u)})
    BY <2>2, FS_Subset DEF StoreOK
  <2> HIDE DEF f, R
  <2>4. QED
    BY <2>1, <2>3, FS_Surjection
<1> HIDE DEF R
<1>4. R \in SUBSET Entry
  BY <1>1, <1>2
<1>5. \A x, y \in R : x.id = y.id => x = y
  BY <1>1, <1>2
<1>6. \A t : Listed(tasks, p, t) <=> \E x \in R : x.id = t
  <2>1. \A t : Listed(tasks, p, t) => t \in Id
    BY DEF Listed
  <2>2. QED
    BY <1>1, <1>2, <2>1
<1>7. QED
  BY <1>1, <1>3, <1>4, <1>5, <1>6 DEF R

-----------------------------------------------------------------------------
(* What the handlers keep: the windows of the parents in scope are the     *)
(* first rows, and what a subscriber holds of a parent is its window.      *)

Fits(w, S) == Elems(w) \subseteq S /\ Leads(w, <<>>, S)
Shows(a, tasks, p) ==
  \A s \in DOMAIN a.view : \A t \in Id :
    (t \in a.view[s] /\ tasks[t] # Absent /\ tasks[t].parent = p) <=> Has(WindowOf(a, p), t)
Good(a, names, tasks, scope) ==
  /\ a \in AccType /\ DOMAIN a.windows \subseteq scope
  /\ \A p \in scope : Fits(WindowOf(a, p), Rows(names, tasks, p))
  /\ \A p \in Parent : Shows(a, tasks, p)
  /\ \A s \in DOMAIN a.view : \A t \in a.view[s] : tasks[t] # Absent

\* What a subscriber holds is in the store as it was, the task t excepted.
\* The windows there were are there, and so are the subscribers.
Keeps(a, b) == DOMAIN a.windows \subseteq DOMAIN b.windows /\ DOMAIN b.view = DOMAIN a.view

SameTasks(tasks1, tasks2, p, in, out) ==
  /\ \A t \in Id : tasks1[t] # Absent /\ t \notin out =>
       tasks2[t] # Absent /\ tasks2[t].parent = tasks1[t].parent
  /\ \A t \in in : t \in Id /\ tasks2[t] # Absent /\ tasks2[t].parent = p
  /\ \A t \in out : tasks1[t] # Absent => tasks1[t].parent = p

LEMMA GoodOfChange ==
  ASSUME NEW names1, NEW tasks1, NEW names2, NEW tasks2, NEW scope \in SUBSET Parent,
         NEW a, Good(a, names1, tasks1, scope), NEW p \in scope, NEW b, NEW w, NEW in, NEW out,
         Changed(a, b, p, w, in, out), SameTasks(tasks1, tasks2, p, in, out),
         Fits(w, Rows(names2, tasks2, p)),
         \A q \in scope \ {p} : Fits(WindowOf(a, q), Rows(names2, tasks2, q)),
         \A t \in Id : Has(w, t) <=> (Has(WindowOf(a, p), t) \/ t \in in) /\ t \notin out
  PROVE  Good(b, names2, tasks2, scope)
<1>1. /\ b \in AccType
      /\ DOMAIN b.windows = DOMAIN a.windows \cup {p} /\ WindowOf(b, p) = w
      /\ \A q \in Parent \ {p} : WindowOf(b, q) = WindowOf(a, q)
      /\ DOMAIN b.view = DOMAIN a.view
      /\ \A s \in DOMAIN a.view : b.view[s] = (a.view[s] \cup in) \ out
  BY DEF Changed
<1>2. /\ DOMAIN a.windows \subseteq scope
      /\ \A q \in Parent : \A s \in DOMAIN a.view : \A t \in Id :
           (t \in a.view[s] /\ tasks1[t] # Absent /\ tasks1[t].parent = q) <=> Has(WindowOf(a, q), t)
      /\ \A s \in DOMAIN a.view : \A t \in a.view[s] : tasks1[t] # Absent
      /\ a \in AccType
  BY DEF Good, Shows
<1>3. \A q \in scope : Fits(WindowOf(b, q), Rows(names2, tasks2, q))
  BY <1>1
<1>4. /\ \A t \in Id : tasks1[t] # Absent /\ t \notin out =>
           tasks2[t] # Absent /\ tasks2[t].parent = tasks1[t].parent
      /\ \A t \in in : t \in Id /\ tasks2[t] # Absent /\ tasks2[t].parent = p
      /\ \A t \in out : tasks1[t] # Absent => tasks1[t].parent = p
  BY DEF SameTasks
<1>5. \A s \in DOMAIN a.view : a.view[s] \subseteq Id
  BY <1>2, AccFields
<1>6. ASSUME NEW s \in DOMAIN b.view, NEW t \in b.view[s] PROVE tasks2[t] # Absent
  <2>1. s \in DOMAIN a.view /\ (t \in a.view[s] \/ t \in in) /\ t \notin out
    BY <1>1
  <2>2. QED
    BY <1>2, <1>4, <1>5, <2>1
<1>7. ASSUME NEW q \in Parent, NEW s \in DOMAIN b.view, NEW t \in Id
      PROVE  (t \in b.view[s] /\ tasks2[t] # Absent /\ tasks2[t].parent = q) <=> Has(WindowOf(b, q), t)
  <2>1. s \in DOMAIN a.view /\ (t \in b.view[s] <=> (t \in a.view[s] \/ t \in in) /\ t \notin out)
    BY <1>1
  <2>2. (t \in a.view[s] /\ tasks1[t] # Absent /\ tasks1[t].parent = q) <=> Has(WindowOf(a, q), t)
    BY <1>2, <2>1
  <2>3. t \in a.view[s] => tasks1[t] # Absent
    BY <1>2, <2>1
  <2>4. CASE q = p
    <3>1. Has(WindowOf(b, q), t) <=> (Has(WindowOf(a, p), t) \/ t \in in) /\ t \notin out
      BY <1>1, <2>4
    <3>2. QED
      BY <1>4, <2>1, <2>2, <2>3, <2>4, <3>1
  <2>5. CASE q # p
    <3>1. Has(WindowOf(b, q), t) <=> Has(WindowOf(a, q), t)
      BY <1>1, <2>5
    <3>2. QED
      BY <1>4, <2>1, <2>2, <2>3, <2>5, <3>1
  <2>6. QED
    BY <2>4, <2>5
<1>8. \A q \in Parent : Shows(b, tasks2, q)
  BY <1>7 DEF Shows
<1>9. DOMAIN b.windows \subseteq scope
  BY <1>1, <1>2
<1>10. QED
  BY <1>1, <1>3, <1>6, <1>8, <1>9 DEF Good

\* A write that touches no task of a view, and leaves the windows the first rows.
LEMMA GoodOfStore ==
  ASSUME NEW names1, NEW tasks1, NEW names2, NEW tasks2, NEW scope1 \in SUBSET Parent,
         NEW scope2 \in SUBSET Parent, scope1 \subseteq scope2,
         NEW a, Good(a, names1, tasks1, scope1),
         \A s \in DOMAIN a.view : \A t \in a.view[s] :
           tasks2[t] # Absent /\ tasks2[t].parent = tasks1[t].parent,
         \A q \in scope2 : Fits(WindowOf(a, q), Rows(names2, tasks2, q))
  PROVE  Good(a, names2, tasks2, scope2)
<1>1. /\ DOMAIN a.windows \subseteq scope1 /\ a \in AccType
      /\ \A q \in Parent : \A s \in DOMAIN a.view : \A t \in Id :
           (t \in a.view[s] /\ tasks1[t] # Absent /\ tasks1[t].parent = q) <=> Has(WindowOf(a, q), t)
      /\ \A s \in DOMAIN a.view : \A t \in a.view[s] : tasks1[t] # Absent
  BY DEF Good, Shows
<1>2. ASSUME NEW q \in Parent, NEW s \in DOMAIN a.view, NEW t \in Id
      PROVE  (t \in a.view[s] /\ tasks2[t] # Absent /\ tasks2[t].parent = q) <=> Has(WindowOf(a, q), t)
  <2>1. (t \in a.view[s] /\ tasks1[t] # Absent /\ tasks1[t].parent = q) <=> Has(WindowOf(a, q), t)
    BY <1>1
  <2>2. t \in a.view[s] =>
          tasks1[t] # Absent /\ tasks2[t] # Absent /\ tasks2[t].parent = tasks1[t].parent
    BY <1>1
  <2>3. QED
    BY <2>1, <2>2
<1>3. \A q \in Parent : Shows(a, tasks2, q)
  BY <1>2 DEF Shows
<1>4. QED
  BY <1>1, <1>3 DEF Good

-----------------------------------------------------------------------------
(* A write of one task.                                                    *)

OthersSame(tasks1, tasks2, t) == \A u \in Id : u # t => tasks2[u] = tasks1[u]

LEMMA RowsOfOthers ==
  ASSUME NEW names, NEW tasks1, NEW tasks2, StoreOK(names, tasks1), StoreOK(names, tasks2),
         NEW t, OthersSame(tasks1, tasks2, t), NEW q
  PROVE  /\ \A x : x.id # t => (x \in Rows(names, tasks1, q) <=> x \in Rows(names, tasks2, q))
         /\ (\E x \in Rows(names, tasks2, q) : x.id = t) <=> Listed(tasks2, q, t)
<1>1. ASSUME NEW u \in Id, u # t
      PROVE  /\ EntryOf(names, tasks1, u) = EntryOf(names, tasks2, u)
             /\ Listed(tasks1, q, u) <=> Listed(tasks2, q, u)
  <2>1. tasks1[u] = tasks2[u]
    BY <1>1 DEF OthersSame
  <2>2. QED
    BY <2>1 DEF EntryOf, NameRead, Listed
<1>2. /\ \A x : x \in Rows(names, tasks1, q) <=>
           \E u \in Id : Listed(tasks1, q, u) /\ x = EntryOf(names, tasks1, u)
      /\ \A x : x \in Rows(names, tasks2, q) <=>
           \E u \in Id : Listed(tasks2, q, u) /\ x = EntryOf(names, tasks2, u)
      /\ \A u : Listed(tasks2, q, u) <=> \E x \in Rows(names, tasks2, q) : x.id = u
  BY RowsFacts
<1>3. /\ \A u \in Id : Listed(tasks1, q, u) => EntryOf(names, tasks1, u).id = u
      /\ \A u \in Id : Listed(tasks2, q, u) => EntryOf(names, tasks2, u).id = u
  BY EntryOfType DEF Listed
<1>4. QED
  BY <1>1, <1>2, <1>3

\* A window that does not hold the row stays the first of the others.
LEMMA FitsWithout ==
  ASSUME NEW w \in WFW, NEW R, NEW S \in SUBSET R, NEW t, Fits(w, R), ~Has(w, t),
         \A x \in R : x.id # t => x \in S
  PROVE  Fits(w, S)
<1>1. w \in Windows /\ WellFormed(w)
  BY DEF WFW
<1>2. Elems(w) \subseteq R /\ Leads(w, <<>>, R)
  BY DEF Fits
<1>3. \A x \in Elems(w) : x.id # t
  BY <1>1, WindowElems
<1>4. Elems(w) \subseteq S
  BY <1>2, <1>3
<1>5. Leads(w, <<>>, S)
  BY <1>1, <1>2, LeadsSmaller
<1>6. QED
  BY <1>4, <1>5 DEF Fits

LEMMA HoldingIs ==
  ASSUME NEW a \in AccType, NEW t
  PROVE  /\ Holding(a, t) \subseteq Parent
         /\ \A p : p \in Holding(a, t) <=> Has(WindowOf(a, p), t)
         /\ \A p \in Holding(a, t) : p \in DOMAIN a.windows /\ WindowOf(a, p) = a.windows[p]
<1>1. ~Has(EmptyWindow, t)
  BY DEF Has, EmptyWindow
<1>2. DOMAIN a.windows \subseteq Parent
  BY AccFields
<1>3. QED
  BY <1>1, <1>2 DEF Holding, WindowOf

\* What a removed row leaves is filled again.
LEMMA LeftFits ==
  ASSUME NEW w \in WFW, NEW t, Has(w, t), NEW R \in SUBSET Entry, NEW S \in SUBSET R,
         Fits(w, R), \A x, y \in R : x.id = y.id => x = y,
         \A x \in R : x.id # t => x \in S, \A x \in S : x.id # t, IsFiniteSet(S)
  PROVE  LET v == RemoveEntry(w, t)
             rows == FirstOf(After(S, Boundary(v)), BackfillCount(v))
         IN  /\ rows \in Seq(Entry) /\ ToSet(rows) \subseteq S
             /\ v \in WFW /\ Filled(v, rows) \in WFW /\ Fits(Filled(v, rows), S)
             /\ \A u : Has(Filled(v, rows), u) <=>
                  (Has(w, u) \/ \E x \in ToSet(rows) : x.id = u) /\ u # t
<1>1. w \in Windows /\ WellFormed(w)
  BY DEF WFW
<1>2. Elems(w) \subseteq R /\ Leads(w, <<>>, R)
  BY DEF Fits
<1>3. PICK v : v = RemoveEntry(w, t)
  OBVIOUS
<1>4. /\ v \in Windows /\ WellFormed(v) /\ v \in WFW
      /\ Elems(v) = {x \in Elems(w) : x.id # t}
  BY <1>1, <1>3, TakesOut DEF WFW
<1>5. Leads(w, <<>>, S)
  BY <1>1, <1>2, LeadsSmaller
<1>6. Below(v, S) /\ Len(v.entries) + BackfillCount(v) = Limit
  BY <1>1, <1>3, <1>5, LeftBelow
<1>7. PICK n \in Nat : n = BackfillCount(v)
  BY <1>4, BackfillCountType
<1>8. After(S, Boundary(v)) = S \ Elems(v)
  BY <1>4, <1>6, AfterBoundary
<1>9. PICK F \in SUBSET Entry : F = After(S, Boundary(v))
  BY <1>8
<1>10. IsFiniteSet(F)
  BY <1>8, <1>9, FS_Subset
<1>11. PICK rows : rows = FirstOf(F, n)
  OBVIOUS
<1>12. rows \in FirstRows(F, n)
  BY <1>10, <1>11, ReadExists
<1>13. rows \in Seq(Entry) /\ ToSet(rows) \subseteq F
  BY <1>12, FirstRowsFacts
<1>14. Leads(v, rows, S)
  BY <1>4, <1>6, <1>7, <1>9, <1>12, ReadRowsLead
<1>15. Elems(v) \subseteq S
  BY <1>2, <1>4
<1>16. PICK f : f = Filled(v, rows)
  OBVIOUS
<1>17. f \in WFW /\ Elems(f) = Elems(v) \cup ToSet(rows) /\ Fits(f, S)
  <2>1. \A x, y \in S : x.id = y.id => x = y
    OBVIOUS
  <2>2. QED
    BY <1>4, <1>13, <1>14, <1>15, <1>16, <2>1, FilledLeads DEF Fits
<1>18. f \in Windows /\ WellFormed(f)
  BY <1>17 DEF WFW
<1>19. /\ \A u : Has(w, u) <=> \E x \in Elems(w) : x.id = u
       /\ \A u : Has(f, u) <=> \E x \in Elems(f) : x.id = u
  BY <1>1, <1>18, WindowElems
<1>20. ToSet(rows) \subseteq S
  BY <1>8, <1>9, <1>13
<1>21. \A u : Has(f, u) <=> (Has(w, u) \/ \E x \in ToSet(rows) : x.id = u) /\ u # t
  BY <1>4, <1>17, <1>19, <1>20
<1>22. rows = FirstOf(After(S, Boundary(v)), BackfillCount(v))
  BY <1>7, <1>9, <1>11
<1>23. QED
  BY <1>3, <1>4, <1>13, <1>16, <1>17, <1>20, <1>21, <1>22

\* A task that is written leaves the window that holds it, unless it is still
\* one of its rows: what is left is good for the store without it.
LEMMA QuitGood ==
  ASSUME NEW names, NEW tasks, NEW tasks0, NEW tasks1, StoreOK(names, tasks),
         StoreOK(names, tasks0), StoreOK(names, tasks1), NEW t \in Id,
         OthersSame(tasks, tasks0, t), OthersSame(tasks, tasks1, t), tasks0[t] = Absent,
         NEW scope \in SUBSET Parent, NEW a, Good(a, names, tasks, scope),
         \A p \in Holding(a, t) : ~Listed(tasks1, p, t)
  PROVE  /\ Good(Quit(a, t, names, tasks1), names, tasks0, scope)
         /\ Keeps(a, Quit(a, t, names, tasks1))
<1>1. /\ a \in AccType /\ DOMAIN a.windows \subseteq scope
      /\ \A p \in scope : Fits(WindowOf(a, p), Rows(names, tasks, p))
      /\ \A q \in Parent : \A s \in DOMAIN a.view : \A u \in Id :
           (u \in a.view[s] /\ tasks[u] # Absent /\ tasks[u].parent = q) <=> Has(WindowOf(a, q), u)
      /\ \A s \in DOMAIN a.view : \A u \in a.view[s] : tasks[u] # Absent
  BY DEF Good, Shows
<1>2. /\ Holding(a, t) \subseteq Parent
      /\ \A p : p \in Holding(a, t) <=> Has(WindowOf(a, p), t)
      /\ \A p \in Holding(a, t) : p \in DOMAIN a.windows /\ WindowOf(a, p) = a.windows[p]
  BY <1>1, HoldingIs
<1>3. \A q : ~Listed(tasks0, q, t)
  BY DEF Listed
<1>4. ASSUME NEW q
      PROVE  /\ Rows(names, tasks0, q) \in SUBSET Rows(names, tasks, q)
             /\ \A x \in Rows(names, tasks, q) : x.id # t => x \in Rows(names, tasks0, q)
             /\ \A x \in Rows(names, tasks0, q) : x.id # t
  BY <1>3, RowsOfOthers
<1>5. ASSUME NEW q \in scope, ~Has(WindowOf(a, q), t)
      PROVE  Fits(WindowOf(a, q), Rows(names, tasks0, q))
  BY <1>1, <1>4, <1>5, AccFields, FitsWithout
<1>6. CASE Holding(a, t) = {}
  <2>1. Quit(a, t, names, tasks1) = a
    BY <1>6 DEF Quit
  <2>2. \A q \in scope : Fits(WindowOf(a, q), Rows(names, tasks0, q))
    BY <1>2, <1>5, <1>6
  <2>3. ASSUME NEW s \in DOMAIN a.view, NEW u \in a.view[s]
        PROVE  tasks0[u] # Absent /\ tasks0[u].parent = tasks[u].parent
    <3>1. u \in Id /\ tasks[u] # Absent
      BY <1>1, AccFields
    <3>2. tasks[u].parent \in Parent
      BY <3>1 DEF StoreOK, Task
    <3>3. Has(WindowOf(a, tasks[u].parent), u)
      BY <1>1, <3>1, <3>2
    <3>4. u # t
      BY <1>2, <1>6, <3>3
    <3>5. QED
      BY <3>1, <3>4 DEF OthersSame
  <2>4. Good(a, names, tasks0, scope)
    BY <2>2, <2>3, GoodOfStore
  <2>5. QED
    BY <2>1, <2>4 DEF Keeps
<1>7. CASE Holding(a, t) # {}
  <2>1. PICK p : p = CHOOSE q \in Holding(a, t) : TRUE
    OBVIOUS
  <2>2. p \in Holding(a, t)
    BY <1>7, <2>1
  <2>3. PICK w \in WFW : w = WindowOf(a, p)
    BY <1>1, AccFields
  <2>4. /\ p \in Parent /\ p \in scope /\ Has(w, t) /\ w = a.windows[p]
        /\ Fits(w, Rows(names, tasks, p)) /\ ~Listed(tasks1, p, t)
    BY <1>1, <1>2, <2>2, <2>3
  <2>5. w \in Windows /\ WellFormed(w)
    BY DEF WFW
  <2>6. PICK R : R = Rows(names, tasks, p)
    OBVIOUS
  <2>7. PICK S : S = Rows(names, tasks1, p)
    OBVIOUS
  <2>8. /\ R \in SUBSET Entry /\ \A x, y \in R : x.id = y.id => x = y
        /\ \A x \in R : Listed(tasks, p, x.id)
    BY <2>6, RowsFacts
  <2>9. \A x : x.id # t => (x \in R <=> x \in S)
    BY <2>6, <2>7, RowsOfOthers
  <2>10. \A x \in S : x.id # t
    BY <2>4, <2>7, RowsOfOthers
  <2>11. S \in SUBSET R /\ IsFiniteSet(S) /\ \A x \in R : x.id # t => x \in S
    BY <2>7, <2>9, <2>10, RowsFacts
  <2>12. S = Rows(names, tasks0, p)
    BY <1>4, <2>6, <2>9, <2>10, <2>11
  <2>13. Fits(w, R)
    BY <2>4, <2>6
  <2>14. PICK v : v = RemoveEntry(w, t)
    OBVIOUS
  <2>15. PICK rows : rows = FirstOf(After(S, Boundary(v)), BackfillCount(v))
    OBVIOUS
  <2>16. PICK f : f = Filled(v, rows)
    OBVIOUS
  <2>17. /\ rows \in Seq(Entry) /\ ToSet(rows) \subseteq S /\ v \in WFW /\ f \in WFW /\ Fits(f, S)
         /\ \A u : Has(f, u) <=> (Has(w, u) \/ \E x \in ToSet(rows) : x.id = u) /\ u # t
    BY <2>4, <2>8, <2>10, <2>11, <2>13, <2>14, <2>15, <2>16, LeftFits
  <2>18. PICK b : b = Told(WithWindow(a, p, v), {}, {t})
    OBVIOUS
  <2>19. Changed(a, b, p, v, {}, {t})
    BY <1>1, <2>4, <2>17, <2>18, WindowTold
  <2>20. PICK in : in = {e.id : e \in ToSet(rows)} \ Ids(v)
    OBVIOUS
  <2>21. in \in SUBSET Id /\ \A u \in in : Listed(tasks0, p, u) /\ u # t
    <3>1. \A x \in S : x.id \in Id /\ Listed(tasks0, p, x.id)
      BY <2>12, RowsFacts DEF Listed
    <3>2. QED
      BY <2>10, <2>17, <2>20, <3>1
  <2>22. PICK c : c = Told(WithWindow(b, p, f), in, {})
    OBVIOUS
  <2>23. b \in AccType /\ b.windows[p] = v
    <3>1. p \in DOMAIN b.windows
      BY <2>19 DEF Changed
    <3>2. QED
      BY <2>19, <3>1 DEF Changed, WindowOf
  <2>24. Changed(b, c, p, f, in, {}) /\ c \in AccType
    <3>1. Changed(b, c, p, f, in, {})
      BY <2>4, <2>17, <2>21, <2>22, <2>23, WindowTold
    <3>2. QED
      BY <3>1 DEF Changed
  <2>25. Quit(a, t, names, tasks1) = c
    <3>1. Quit(a, t, names, tasks1) = Left(a, p, t, S)
      BY <1>7, <2>1, <2>7 DEF Quit
    <3>2. Left(a, p, t, S) = Backfilled(b, p, S)
      BY <2>4, <2>14, <2>18 DEF Left
    <3>3. Backfilled(b, p, S) = c
      BY <2>15, <2>16, <2>20, <2>22, <2>23 DEF Backfilled
    <3>4. QED
      BY <3>1, <3>2, <3>3
  <2>26. Changed(a, c, p, f, in, {t})
    <3>1. in \cap {t} = {}
      BY <2>21
    <3>2. QED
      BY <1>1, <2>19, <2>23, <2>24, <3>1, ChangedTwice
  <2>27. SameTasks(tasks, tasks0, p, in, {t})
    <3>1. \A u \in Id : tasks[u] # Absent /\ u \notin {t} =>
            tasks0[u] # Absent /\ tasks0[u].parent = tasks[u].parent
      BY DEF OthersSame
    <3>2. Listed(tasks, p, t)
      <4>1. \E x \in Elems(w) : x.id = t
        BY <2>4, <2>5, WindowElems
      <4>2. QED
        BY <2>8, <2>13, <4>1 DEF Fits
    <3>3. QED
      BY <2>21, <3>1, <3>2 DEF SameTasks, Listed
  <2>28. \A q \in scope \ {p} : Fits(WindowOf(a, q), Rows(names, tasks0, q))
    <3>1. ASSUME NEW q \in scope \ {p} PROVE ~Has(WindowOf(a, q), t)
      <4>1. ASSUME Has(WindowOf(a, q), t) PROVE FALSE
        <5>1. PICK z \in WFW : z = WindowOf(a, q)
          BY <1>1, AccFields
        <5>2. z \in Windows /\ WellFormed(z) /\ Elems(z) \subseteq Rows(names, tasks, q)
          BY <1>1, <5>1 DEF WFW, Fits
        <5>3. \E x \in Elems(z) : x.id = t
          BY <4>1, <5>1, <5>2, WindowElems
        <5>4. Listed(tasks, q, t)
          BY <5>2, <5>3, RowsFacts
        <5>5. \E x \in Elems(w) : x.id = t
          BY <2>4, <2>5, WindowElems
        <5>6. Listed(tasks, p, t)
          BY <2>8, <2>13, <5>5 DEF Fits
        <5>7. QED
          BY <3>1, <5>4, <5>6 DEF Listed
      <4>2. QED
        BY <4>1
    <3>2. QED
      BY <1>5, <3>1
  <2>29. \A u \in Id : Has(f, u) <=> (Has(WindowOf(a, p), u) \/ u \in in) /\ u \notin {t}
    <3>1. \A u : Has(v, u) <=> Has(w, u) /\ u # t
      BY <2>14, DropType
    <3>2. \A u : u \in Ids(v) <=> Has(v, u)
      BY <2>17, IdsAreFinite
    <3>3. \A u : u \in in <=> (\E x \in ToSet(rows) : x.id = u) /\ ~Has(v, u)
      BY <2>20, <3>2
    <3>4. QED
      BY <2>3, <2>17, <3>1, <3>3
  <2>30. Fits(f, Rows(names, tasks0, p))
    BY <2>12, <2>17
  <2>31. Good(c, names, tasks0, scope)
    BY <2>4, <2>26, <2>27, <2>28, <2>29, <2>30, GoodOfChange
  <2>32. Keeps(a, c)
    BY <2>26 DEF Changed, Keeps
  <2>33. QED
    BY <2>25, <2>31, <2>32
<1>8. QED
  BY <1>6, <1>7

\* A row that enters a window: in order, the last row pushed out of a full one.
LEMMA PlacedFits ==
  ASSUME NEW w \in WFW, NEW R \in SUBSET Entry, NEW e \in Entry, ~Has(w, e.id), Fits(w, R)
  PROVE  LET r == InsertEntry(w, e)
             in == IF r.inserted THEN {e.id} ELSE {}
             out == {x.id : x \in r.evicted}
         IN  /\ r.window \in WFW /\ Fits(r.window, R \cup {e})
             /\ \A u : Has(r.window, u) <=> (Has(w, u) \/ u \in in) /\ u \notin out
             /\ \A u \in out : \E x \in R : x.id = u
<1>1. w \in Windows /\ WellFormed(w)
  BY DEF WFW
<1>2. Elems(w) \subseteq R /\ Leads(w, <<>>, R)
  BY DEF Fits
<1>3. PICK r : r = InsertEntry(w, e)
  OBVIOUS
<1>4. PICK v : v = r.window
  OBVIOUS
<1>5. v \in Windows /\ WellFormed(v) /\ v \in WFW
  BY <1>1, <1>3, <1>4, InsertEntryPreserves DEF WFW
<1>6. Leads(v, <<>>, R \cup {e})
  BY <1>1, <1>2, <1>3, <1>4, PlacedLeads
<1>7. \/ AddsWithin(Elems(w), Elems(v), r, e)
      \/ Refuses(Elems(w), Elems(v), r, e)
      \/ Displaces(Elems(w), Elems(v), r, e)
  BY <1>1, <1>3, <1>4, TakesIn
<1>8. /\ \A u : Has(w, u) <=> \E x \in Elems(w) : x.id = u
      /\ \A u : Has(v, u) <=> \E x \in Elems(v) : x.id = u
      /\ \A x, y \in Elems(w) : x.id = y.id => x = y
  BY <1>1, <1>5, WindowElems
<1>9. \A x \in Elems(w) : x.id # e.id
  BY <1>8
<1>10. CASE AddsWithin(Elems(w), Elems(v), r, e)
  <2>1. Elems(v) = Elems(w) \cup {e} /\ r.inserted = TRUE /\ r.evicted = {}
    BY <1>10 DEF AddsWithin
  <2>2. Fits(v, R \cup {e})
    BY <1>2, <1>6, <2>1 DEF Fits
  <2>3. \A u : Has(v, u) <=> (Has(w, u) \/ u \in {e.id})
    BY <1>8, <2>1
  <2>4. QED
    BY <1>3, <1>4, <1>5, <2>1, <2>2, <2>3
<1>11. CASE Refuses(Elems(w), Elems(v), r, e)
  <2>1. Elems(v) = Elems(w) /\ r.inserted = FALSE /\ r.evicted = {}
    BY <1>11 DEF Refuses
  <2>2. Fits(v, R \cup {e})
    BY <1>2, <1>6, <2>1 DEF Fits
  <2>3. \A u : Has(v, u) <=> Has(w, u)
    BY <1>8, <2>1
  <2>4. QED
    BY <1>3, <1>4, <1>5, <2>1, <2>2, <2>3
<1>12. CASE Displaces(Elems(w), Elems(v), r, e)
  <2>1. PICK last \in Elems(w) :
          Elems(v) = (Elems(w) \cup {e}) \ {last} /\ r.inserted = TRUE /\ r.evicted = {last}
    BY <1>12 DEF Displaces
  <2>2. Fits(v, R \cup {e})
    BY <1>2, <1>6, <2>1 DEF Fits
  <2>3. \A u : Has(v, u) <=> (Has(w, u) \/ u \in {e.id}) /\ u \notin {last.id}
    BY <1>8, <1>9, <2>1
  <2>4. {x.id : x \in r.evicted} = {last.id} /\ last \in R
    BY <1>2, <2>1
  <2>5. QED
    BY <1>3, <1>4, <1>5, <2>1, <2>2, <2>3, <2>4
<1>13. QED
  BY <1>7, <1>10, <1>11, <1>12

LEMMA PlacedGood ==
  ASSUME NEW names, NEW tasks0, NEW tasks1, StoreOK(names, tasks0), StoreOK(names, tasks1),
         NEW t \in Id, OthersSame(tasks0, tasks1, t), tasks0[t] = Absent,
         NEW scope \in SUBSET Parent, NEW a, Good(a, names, tasks0, scope),
         NEW p \in scope, Listed(tasks1, p, t)
  PROVE  /\ ~Has(WindowOf(a, p), t)
         /\ Good(Placed(a, p, EntryOf(names, tasks1, t)), names, tasks1, scope)
         /\ Keeps(a, Placed(a, p, EntryOf(names, tasks1, t)))
<1>1. /\ a \in AccType
      /\ \A q \in scope : Fits(WindowOf(a, q), Rows(names, tasks0, q))
  BY DEF Good
<1>2. PICK w \in WFW : w = WindowOf(a, p)
  BY <1>1, AccFields
<1>3. w \in Windows /\ WellFormed(w)
  BY DEF WFW
<1>4. PICK R : R = Rows(names, tasks0, p)
  OBVIOUS
<1>5. PICK S : S = Rows(names, tasks1, p)
  OBVIOUS
<1>6. Fits(w, R) /\ R \in SUBSET Entry
  BY <1>1, <1>2, <1>4, RowsFacts
<1>7. PICK e \in Entry : e = EntryOf(names, tasks1, t)
  BY EntryOfType DEF Listed
<1>8. e.id = t
  BY <1>7, EntryOfType DEF Listed
<1>9. \A q : ~Listed(tasks0, q, t)
  BY DEF Listed
<1>10. \A x \in R : x.id # t
  BY <1>4, <1>9, RowsFacts
<1>11. ~Has(w, t)
  BY <1>3, <1>6, <1>10, WindowElems DEF Fits
<1>12. S = R \cup {e}
  <2>1. \A x : x.id # t => (x \in R <=> x \in S)
    BY <1>4, <1>5, RowsOfOthers
  <2>2. e \in S /\ \A x, y \in S : x.id = y.id => x = y
    BY <1>5, <1>7, RowsFacts
  <2>3. QED
    BY <1>8, <1>10, <2>1, <2>2
<1>13. PICK r : r = InsertEntry(w, e)
  OBVIOUS
<1>14. PICK in : in = IF r.inserted THEN {e.id} ELSE {}
  OBVIOUS
<1>15. PICK out : out = {x.id : x \in r.evicted}
  OBVIOUS
<1>16. /\ r.window \in WFW /\ Fits(r.window, S)
       /\ \A u : Has(r.window, u) <=> (Has(w, u) \/ u \in in) /\ u \notin out
       /\ \A u \in out : \E x \in R : x.id = u
  BY <1>6, <1>8, <1>11, <1>12, <1>13, <1>14, <1>15, PlacedFits
<1>17. PICK v \in WFW : v = r.window
  BY <1>16
<1>18. in \in SUBSET Id /\ in \subseteq {t}
  BY <1>8, <1>14
<1>19. PICK b : b = Told(WithWindow(a, p, v), in, out)
  OBVIOUS
<1>20. Changed(a, b, p, v, in, out)
  BY <1>1, <1>17, <1>18, <1>19, WindowTold
<1>21. Placed(a, p, EntryOf(names, tasks1, t)) = b
  BY <1>2, <1>7, <1>13, <1>14, <1>15, <1>17, <1>19 DEF Placed
<1>22. SameTasks(tasks0, tasks1, p, in, out)
  <2>1. \A u \in Id : tasks0[u] # Absent /\ u \notin out =>
          tasks1[u] # Absent /\ tasks1[u].parent = tasks0[u].parent
    BY DEF OthersSame
  <2>2. \A u \in in : u \in Id /\ tasks1[u] # Absent /\ tasks1[u].parent = p
    BY <1>18 DEF Listed
  <2>3. \A u \in out : Listed(tasks0, p, u)
    BY <1>4, <1>16, RowsFacts
  <2>4. QED
    BY <2>1, <2>2, <2>3 DEF SameTasks, Listed
<1>23. \A q \in scope \ {p} : Fits(WindowOf(a, q), Rows(names, tasks1, q))
  <2>1. ASSUME NEW q \in scope \ {p} PROVE Rows(names, tasks1, q) = Rows(names, tasks0, q)
    <3>1. ~Listed(tasks1, q, t)
      BY DEF Listed
    <3>2. /\ \A x : x.id # t => (x \in Rows(names, tasks0, q) <=> x \in Rows(names, tasks1, q))
          /\ \A x \in Rows(names, tasks1, q) : x.id # t
      BY <3>1, RowsOfOthers
    <3>3. \A x \in Rows(names, tasks0, q) : x.id # t
      BY <1>9, RowsFacts
    <3>4. QED
      BY <3>2, <3>3
  <2>2. QED
    BY <1>1, <2>1
<1>24. Fits(v, Rows(names, tasks1, p))
  BY <1>5, <1>16, <1>17
<1>25. \A u \in Id : Has(v, u) <=> (Has(WindowOf(a, p), u) \/ u \in in) /\ u \notin out
  BY <1>2, <1>16, <1>17
<1>26. Good(b, names, tasks1, scope)
  BY <1>20, <1>22, <1>23, <1>24, <1>25, GoodOfChange
<1>27. Keeps(a, b)
  BY <1>20 DEF Changed, Keeps
<1>28. QED
  BY <1>2, <1>11, <1>21, <1>26, <1>27

\* A write that leaves the task out of every list in scope.
LEMMA AbsentGood ==
  ASSUME NEW names, NEW tasks0, NEW tasks1, StoreOK(names, tasks0), StoreOK(names, tasks1),
         NEW t \in Id, OthersSame(tasks0, tasks1, t), tasks0[t] = Absent,
         NEW scope \in SUBSET Parent, NEW a, Good(a, names, tasks0, scope),
         \A p \in scope : ~Listed(tasks1, p, t)
  PROVE  Good(a, names, tasks1, scope)
<1>1. /\ \A q \in scope : Fits(WindowOf(a, q), Rows(names, tasks0, q))
      /\ \A s \in DOMAIN a.view : \A u \in a.view[s] : tasks0[u] # Absent
      /\ a \in AccType
  BY DEF Good
<1>2. ASSUME NEW q \in scope PROVE Rows(names, tasks1, q) = Rows(names, tasks0, q)
  <2>1. ~Listed(tasks0, q, t)
    BY DEF Listed
  <2>2. /\ \A x : x.id # t => (x \in Rows(names, tasks0, q) <=> x \in Rows(names, tasks1, q))
        /\ \A x \in Rows(names, tasks1, q) : x.id # t
    BY RowsOfOthers
  <2>3. \A x \in Rows(names, tasks0, q) : x.id # t
    BY <2>1, RowsFacts
  <2>4. QED
    BY <2>2, <2>3
<1>3. ASSUME NEW s \in DOMAIN a.view, NEW u \in a.view[s]
      PROVE  tasks1[u] # Absent /\ tasks1[u].parent = tasks0[u].parent
  <2>1. u \in Id /\ tasks0[u] # Absent
    BY <1>1, AccFields
  <2>2. u # t
    BY <2>1
  <2>3. QED
    BY <2>1, <2>2 DEF OthersSame
<1>4. \A q \in scope : Fits(WindowOf(a, q), Rows(names, tasks1, q))
  BY <1>1, <1>2
<1>5. QED
  BY <1>3, <1>4, GoodOfStore

LEMMA ChangedOver ==
  ASSUME NEW a, NEW b, NEW c, NEW p, NEW v, NEW w, NEW in, NEW out,
         Changed(a, b, p, v, {}, {}), Changed(b, c, p, w, in, out)
  PROVE  Changed(a, c, p, w, in, out)
<1>1. /\ DOMAIN b.windows = DOMAIN a.windows \cup {p}
      /\ \A q \in Parent \ {p} : WindowOf(b, q) = WindowOf(a, q)
      /\ DOMAIN b.view = DOMAIN a.view
      /\ \A s \in DOMAIN a.view : b.view[s] = a.view[s]
  BY DEF Changed
<1>2. /\ c \in AccType
      /\ DOMAIN c.windows = DOMAIN b.windows \cup {p} /\ WindowOf(c, p) = w
      /\ \A q \in Parent \ {p} : WindowOf(c, q) = WindowOf(b, q)
      /\ DOMAIN c.view = DOMAIN b.view
      /\ \A s \in DOMAIN b.view : c.view[s] = (b.view[s] \cup in) \ out
  BY DEF Changed
<1>3. \A s \in DOMAIN a.view : c.view[s] = (a.view[s] \cup in) \ out
  BY <1>1, <1>2
<1>4. QED
  BY <1>1, <1>2, <1>3 DEF Changed

\* A row that is held under a new key keeps its place in the list, or is swapped
\* with the best of the others.
SwapOf(w, in, out, v, t, S) ==
  /\ v \in WFW /\ Fits(v, S)
  /\ \A u : Has(v, u) <=> (Has(w, u) \/ u \in in) /\ u \notin out
  /\ out \subseteq {t} /\ t \notin in
  /\ \A u \in in : \E x \in S : x.id = u

LEMMA DemotedSwaps ==
  ASSUME NEW a \in AccType, NEW p \in DOMAIN a.windows, NEW S \in SUBSET Entry, IsFiniteSet(S),
         \A x, y \in S : x.id = y.id => x = y, NEW e \in S, Has(a.windows[p], e.id),
         Below(RemoveEntry(a.windows[p], e.id), S),
         Elems(RemoveEntry(a.windows[p], e.id)) \subseteq S,
         Len(RemoveEntry(a.windows[p], e.id).entries) = Limit - 1
  PROVE  \E v, in, out : /\ SwapOf(a.windows[p], in, out, v, e.id, S)
                         /\ in \subseteq Id
                         /\ Changed(a, Demoted(a, p, e, S), p, v, in, out)
<1>1. PICK w \in WFW : w = a.windows[p]
  BY AccFields
<1>2. w \in Windows /\ WellFormed(w) /\ p \in Parent
  BY AccFields DEF WFW
<1>3. PICK rest : rest = RemoveEntry(w, e.id)
  OBVIOUS
<1>4. /\ rest \in Windows /\ WellFormed(rest) /\ rest \in WFW /\ ~Has(rest, e.id)
      /\ \A u : Has(rest, u) <=> Has(w, u) /\ u # e.id
  BY <1>1, <1>2, <1>3, TakesOut, DropType DEF WFW
<1>5. After(S, Boundary(rest)) = S \ Elems(rest)
  BY <1>1, <1>3, <1>4, AfterBoundary
<1>6. PICK F \in SUBSET Entry : F = S \ Elems(rest)
  OBVIOUS
<1>7. IsFiniteSet(F)
  BY <1>6, FS_Subset
<1>8. PICK rows : rows = FirstOf(F, 2)
  OBVIOUS
<1>9. rows \in FirstRows(F, 2)
  BY <1>7, <1>8, ReadExists
<1>10. rows \in Seq(Entry) /\ ToSet(rows) \subseteq F /\ IsFirst(rows, F, 2)
  BY <1>9, FirstRowsFacts DEF FirstRows
<1>11. Contest(rest, rows, e, S)
  BY <1>1, <1>3, <1>4, <1>6, <1>10 DEF Contest
<1>12. PICK C : C = Candidates(rest, rows, e)
  OBVIOUS
<1>13. C = Competing(rest, rows, e)
  BY <1>12 DEF Candidates, Competing
<1>14. rows = FirstOf(After(S, Boundary(rest)), 2)
  BY <1>5, <1>6, <1>8
<1>15. /\ \A u : Has(w, u) <=> \E x \in Elems(w) : x.id = u
       /\ \A u : Has(rest, u) <=> \E x \in Elems(rest) : x.id = u
  BY <1>2, <1>4, WindowElems
<1>16. ASSUME NEW v \in WFW, Elems(v) = Elems(rest) \cup {e}, Leads(v, <<>>, S)
       PROVE  SwapOf(w, {}, {}, v, e.id, S)
  <2>1. \A u : Has(v, u) <=> \E x \in Elems(v) : x.id = u
    BY WindowElems DEF WFW
  <2>2. \A u : Has(v, u) <=> Has(w, u)
    BY <1>1, <1>4, <1>15, <1>16, <2>1
  <2>3. Fits(v, S)
    BY <1>1, <1>3, <1>16 DEF Fits
  <2>4. QED
    BY <2>2, <2>3 DEF SwapOf
<1>17. CASE C = {}
  <2>1. PICK v : v = InsertEntry(rest, e).window
    OBVIOUS
  <2>2. v \in WFW /\ Elems(v) = Elems(rest) \cup {e} /\ Leads(v, <<>>, S)
    BY <1>4, <1>10, <1>11, <1>13, <1>17, <2>1, KeptLeads, PutType
  <2>3. Demoted(a, p, e, S) = WithWindow(a, p, v)
    BY <1>1, <1>3, <1>12, <1>14, <1>17, <2>1 DEF Demoted
  <2>4. Changed(a, WithWindow(a, p, v), p, v, {}, {})
    BY <1>2, <2>2, WithChanges
  <2>5. QED
    BY <1>1, <1>16, <2>2, <2>3, <2>4
<1>18. CASE C # {}
  <2>1. PICK j : j = Min(C)
    OBVIOUS
  <2>2. PICK best : best = rows[j]
    OBVIOUS
  <2>3. /\ best \in Entry /\ best \in ToSet(rows) /\ best.id # e.id /\ ~Has(rest, best.id)
    BY <1>10, <1>13, <1>18, <2>1, <2>2, BestCompetitor, Zenon
  <2>4. PICK first : first = InsertEntry(rest, best).window
    OBVIOUS
  <2>5. PICK swapped : swapped = InsertEntry(first, e)
    OBVIOUS
  <2>6. PICK v : v = swapped.window
    OBVIOUS
  <2>7. first \in WFW /\ v \in WFW
    BY <1>4, <2>3, <2>4, <2>5, <2>6, PutType
  <2>8. /\ \/ swapped.inserted = FALSE /\ Elems(v) = Elems(rest) \cup {best}
           \/ swapped.inserted = TRUE /\ Elems(v) = Elems(rest) \cup {e}
        /\ Leads(v, <<>>, S)
    <3>1. LET c == rows[Min(Competing(rest, rows, e))]
              again == InsertEntry(InsertEntry(rest, c).window, e)
          IN  /\ \/ again.inserted = FALSE /\ Elems(again.window) = Elems(rest) \cup {c}
                 \/ again.inserted = TRUE /\ Elems(again.window) = Elems(rest) \cup {e}
              /\ Leads(again.window, <<>>, S)
      <4>1. Competing(rest, rows, e) # {}
        BY <1>13, <1>18
      <4>2. QED
        BY <1>4, <1>10, <1>11, <4>1, SwappedLeads
    <3>2. best = rows[Min(Competing(rest, rows, e))]
      BY <1>13, <2>1, <2>2
    <3>3. swapped = InsertEntry(InsertEntry(rest, best).window, e)
      BY <2>4, <2>5
    <3>4. QED
      BY <2>6, <3>1, <3>2, <3>3
  <2>9. Demoted(a, p, e, S) = IF swapped.inserted THEN WithWindow(a, p, v)
                              ELSE Told(WithWindow(a, p, v), {best.id}, {e.id})
    BY <1>1, <1>3, <1>12, <1>14, <1>18, <2>1, <2>2, <2>4, <2>5, <2>6 DEF Demoted
  <2>10. CASE swapped.inserted = TRUE /\ Elems(v) = Elems(rest) \cup {e}
    <3>1. Demoted(a, p, e, S) = WithWindow(a, p, v)
      BY <2>9, <2>10
    <3>2. Changed(a, WithWindow(a, p, v), p, v, {}, {})
      BY <1>2, <2>7, WithChanges
    <3>3. QED
      BY <1>1, <1>16, <2>7, <2>8, <2>10, <3>1, <3>2
  <2>11. CASE swapped.inserted = FALSE /\ Elems(v) = Elems(rest) \cup {best}
    <3>1. Demoted(a, p, e, S) = Told(WithWindow(a, p, v), {best.id}, {e.id})
      BY <2>9, <2>11
    <3>2. {best.id} \in SUBSET Id
      BY <2>3 DEF Entry
    <3>3. Changed(a, Told(WithWindow(a, p, v), {best.id}, {e.id}), p, v, {best.id}, {e.id})
      BY <1>2, <2>7, <3>2, WindowTold
    <3>4. \A u : Has(v, u) <=> \E x \in Elems(v) : x.id = u
      BY <2>7, WindowElems DEF WFW
    <3>5. \A u : Has(v, u) <=> (Has(w, u) \/ u \in {best.id}) /\ u \notin {e.id}
      BY <1>4, <1>15, <2>3, <2>11, <3>4
    <3>6. best \in S
      BY <1>6, <1>10, <2>3
    <3>7. Fits(v, S)
      BY <1>1, <1>3, <2>8, <2>11, <3>6 DEF Fits
    <3>8. SwapOf(w, {best.id}, {e.id}, v, e.id, S)
      BY <2>3, <2>7, <3>5, <3>6, <3>7 DEF SwapOf
    <3>9. QED
      BY <1>1, <3>1, <3>2, <3>3, <3>8
  <2>12. QED
    BY <2>8, <2>10, <2>11
<1>19. QED
  BY <1>17, <1>18

LEMMA RefreshedGood ==
  ASSUME NEW names, NEW tasks, NEW tasks1, StoreOK(names, tasks), StoreOK(names, tasks1),
         NEW t \in Id, OthersSame(tasks, tasks1, t),
         NEW scope \in SUBSET Parent, NEW a, Good(a, names, tasks, scope),
         NEW p \in scope, p \in Holding(a, t), Listed(tasks1, p, t),
         NEW reassigned, reassigned <=> tasks1[t].assignee # tasks[t].assignee
  PROVE  /\ Good(Refreshed(a, p, t, names, tasks1, reassigned), names, tasks1, scope)
         /\ Keeps(a, Refreshed(a, p, t, names, tasks1, reassigned))
<1>1. /\ a \in AccType
      /\ \A q \in scope : Fits(WindowOf(a, q), Rows(names, tasks, q))
  BY DEF Good
<1>2. PICK w \in WFW : w = WindowOf(a, p)
  BY <1>1, AccFields
<1>3. w \in Windows /\ WellFormed(w) /\ Has(w, t) /\ w = a.windows[p] /\ p \in DOMAIN a.windows
  BY <1>1, <1>2, HoldingIs DEF WFW
<1>4. PICK R : R = Rows(names, tasks, p)
  OBVIOUS
<1>5. PICK S : S = Rows(names, tasks1, p)
  OBVIOUS
<1>6. /\ Fits(w, R) /\ R \in SUBSET Entry /\ \A x, y \in R : x.id = y.id => x = y
      /\ S \in SUBSET Entry /\ IsFiniteSet(S) /\ \A x, y \in S : x.id = y.id => x = y
  BY <1>1, <1>2, <1>4, <1>5, RowsFacts
<1>7. PICK old : old = w.index[t]
  OBVIOUS
<1>8. old \in Elems(w) /\ old.id = t /\ old \in R
  <2>1. /\ w.entries \in Seq(Entry) /\ IndexAgrees(w) /\ t \in DOMAIN w.index
    BY <1>3, WindowElems DEF WellFormed, Has
  <2>2. PICK i \in 1..Len(w.entries) : w.entries[i].id = t
    BY <2>1, AgreementElim
  <2>3. w.entries[i] = old
    BY <1>7, <2>1, <2>2, AgreementElim
  <2>4. QED
    BY <1>3, <1>6, <2>2, <2>3, WindowElems DEF Fits
<1>9. old = EntryOf(names, tasks, t) /\ Listed(tasks, p, t)
  <2>1. PICK u \in Id : Listed(tasks, p, u) /\ old = EntryOf(names, tasks, u)
    BY <1>4, <1>8, RowsFacts
  <2>2. u = t
    BY <1>8, <2>1, EntryOfType DEF Listed
  <2>3. QED
    BY <2>1, <2>2
<1>10. PICK e \in Entry : e = EntryOf(names, tasks1, t)
  BY EntryOfType DEF Listed
<1>11. e.id = t /\ e \in S
  BY <1>5, <1>10, EntryOfType, RowsFacts DEF Listed
<1>12. (IF reassigned THEN EntryOf(names, tasks1, t) ELSE old) = e
  <2>1. ~reassigned => EntryOf(names, tasks1, t) = EntryOf(names, tasks, t)
    BY DEF EntryOf, NameRead
  <2>2. QED
    BY <1>9, <1>10, <2>1
<1>13. PICK R0 \in SUBSET Entry : R0 = {x \in R : x.id # t}
  BY <1>6
<1>14. S = R0 \cup {e}
  <2>1. \A x : x.id # t => (x \in R <=> x \in S)
    BY <1>4, <1>5, RowsOfOthers
  <2>2. QED
    BY <1>6, <1>11, <1>13, <2>1
<1>15. Leads(w, <<>>, R0) /\ \A x \in R0 : x.id # e.id
  BY <1>3, <1>6, <1>11, <1>13, LeadsSmaller DEF Fits
<1>16. PICK without : without = RemoveEntry(w, e.id)
  OBVIOUS
<1>17. PICK again : again = InsertEntry(without, e).window
  OBVIOUS
<1>18. PICK left : left = RemoveEntry(again, e.id)
  OBVIOUS
<1>19. PICK demoted \in BOOLEAN : demoted <=> /\ IsFull(again) /\ Boundary(again) = {e}
                                              /\ old.sortKey # e.sortKey
  OBVIOUS
<1>20. /\ again \in Windows /\ WellFormed(again)
       /\ Elems(again) = Elems(without) \cup {e}
       /\ Elems(left) = Elems(without)
       /\ ~demoted => Leads(again, <<>>, S)
       /\ demoted => Below(left, S) /\ Len(left.entries) = Limit - 1
  <2>1. /\ again \in Windows /\ WellFormed(again)
        /\ Elems(again) = Elems(without) \cup {e}
        /\ Elems(left) = Elems(without)
        /\ ~(/\ IsFull(again) /\ Boundary(again) = {e}
             /\ w.index[e.id].sortKey # e.sortKey) => Leads(again, <<>>, R0 \cup {e})
        /\ (/\ IsFull(again) /\ Boundary(again) = {e}
            /\ w.index[e.id].sortKey # e.sortKey) =>
             Below(left, R0 \cup {e}) /\ Len(left.entries) = Limit - 1
    <3>1. Has(w, e.id)
      BY <1>3, <1>11
    <3>2. QED
      <4>1. LET without0 == RemoveEntry(w, e.id)
                again0 == InsertEntry(without0, e).window
                left0 == RemoveEntry(again0, e.id)
                demoted0 == /\ IsFull(again0) /\ Boundary(again0) = {e}
                            /\ w.index[e.id].sortKey # e.sortKey
            IN  /\ again0 \in Windows /\ WellFormed(again0)
                /\ Elems(again0) = Elems(without0) \cup {e}
                /\ left0 \in Windows /\ WellFormed(left0)
                /\ Elems(left0) = Elems(without0) /\ ~Has(left0, e.id)
                /\ ~demoted0 => Leads(again0, <<>>, R0 \cup {e})
                /\ demoted0 => Below(left0, R0 \cup {e}) /\ Len(left0.entries) = Limit - 1
        BY <1>3, <1>15, <3>1, RefreshedLeads
      <4>2. QED
        BY <1>16, <1>17, <1>18, <4>1, ZenonT(20)
  <2>2. w.index[e.id] = old
    BY <1>7, <1>11
  <2>3. QED
    BY <1>14, <1>19, <2>1, <2>2
<1>21. Elems(without) = {x \in Elems(w) : x.id # t} /\ Elems(without) \subseteq S
  BY <1>3, <1>6, <1>11, <1>13, <1>14, <1>16, TakesOut DEF Fits
<1>22. \A u : Has(again, u) <=> Has(w, u)
  <2>1. /\ \A u : Has(again, u) <=> \E x \in Elems(again) : x.id = u
        /\ \A u : Has(w, u) <=> \E x \in Elems(w) : x.id = u
    BY <1>3, <1>20, WindowElems
  <2>2. QED
    BY <1>3, <1>11, <1>20, <1>21, <2>1
<1>23. again \in WFW
  BY <1>20 DEF WFW
<1>24. PICK b : b = WithWindow(a, p, again)
  OBVIOUS
<1>25. Changed(a, b, p, again, {}, {})
  BY <1>1, <1>23, <1>24, WithChanges
<1>26. b \in AccType /\ p \in DOMAIN b.windows /\ b.windows[p] = again
  <2>1. b \in AccType /\ p \in DOMAIN b.windows /\ WindowOf(b, p) = again
    BY <1>25 DEF Changed
  <2>2. QED
    BY <2>1 DEF WindowOf
<1>27. PICK c : c = Refreshed(a, p, t, names, tasks1, reassigned)
  OBVIOUS
<1>28. c = IF demoted THEN Demoted(b, p, e, S) ELSE b
  <2>1. Put(w, e) = again
    BY <1>16, <1>17 DEF Put
  <2>2. QED
    BY <1>3, <1>5, <1>7, <1>12, <1>19, <1>24, <1>27, <2>1 DEF Refreshed
<1>29. \E v, in, out : /\ SwapOf(w, in, out, v, t, S) /\ in \subseteq Id
                       /\ Changed(a, c, p, v, in, out)
  <2>1. CASE demoted
    <3>1. Below(left, S) /\ Len(left.entries) = Limit - 1 /\ Elems(left) \subseteq S
      BY <1>20, <1>21, <2>1
    <3>2. Has(again, e.id)
      BY <1>3, <1>11, <1>22
    <3>3. PICK v, in, out : /\ SwapOf(again, in, out, v, e.id, S) /\ in \subseteq Id
                            /\ Changed(b, Demoted(b, p, e, S), p, v, in, out)
      BY <1>6, <1>11, <1>18, <1>26, <3>1, <3>2, DemotedSwaps
    <3>4. Changed(a, c, p, v, in, out)
      BY <1>25, <1>28, <2>1, <3>3, ChangedOver
    <3>5. SwapOf(w, in, out, v, t, S)
      BY <1>11, <1>22, <3>3 DEF SwapOf
    <3>6. QED
      BY <3>3, <3>4, <3>5
  <2>2. CASE ~demoted
    <3>1. Fits(again, S)
      BY <1>11, <1>20, <1>21, <2>2 DEF Fits
    <3>2. SwapOf(w, {}, {}, again, t, S)
      BY <1>22, <1>23, <3>1 DEF SwapOf
    <3>3. Changed(a, c, p, again, {}, {})
      BY <1>25, <1>28, <2>2
    <3>4. QED
      BY <3>2, <3>3
  <2>3. QED
    BY <2>1, <2>2
<1>30. PICK v, in, out : /\ SwapOf(w, in, out, v, t, S) /\ in \subseteq Id
                         /\ Changed(a, c, p, v, in, out)
  BY <1>29
<1>31. SameTasks(tasks, tasks1, p, in, out)
  <2>1. \A u \in Id : tasks[u] # Absent /\ u \notin out =>
          tasks1[u] # Absent /\ tasks1[u].parent = tasks[u].parent
    BY <1>9 DEF OthersSame, Listed
  <2>2. \A u \in in : Listed(tasks1, p, u)
    BY <1>5, <1>30, RowsFacts DEF SwapOf
  <2>3. \A u \in out : tasks[u].parent = p
    BY <1>9, <1>30 DEF SwapOf, Listed
  <2>4. QED
    BY <2>1, <2>2, <2>3 DEF SameTasks, Listed
<1>32. \A q \in scope \ {p} : Fits(WindowOf(a, q), Rows(names, tasks1, q))
  <2>1. ASSUME NEW q \in scope \ {p} PROVE Rows(names, tasks1, q) = Rows(names, tasks, q)
    <3>1. ~Listed(tasks1, q, t) /\ ~Listed(tasks, q, t)
      BY <1>9 DEF Listed
    <3>2. /\ \A x : x.id # t => (x \in Rows(names, tasks, q) <=> x \in Rows(names, tasks1, q))
          /\ \A x \in Rows(names, tasks1, q) : x.id # t
      BY <3>1, RowsOfOthers
    <3>3. \A x \in Rows(names, tasks, q) : x.id # t
      BY <3>1, RowsFacts
    <3>4. QED
      BY <3>2, <3>3
  <2>2. QED
    BY <1>1, <2>1
<1>33. Fits(v, Rows(names, tasks1, p))
  BY <1>5, <1>30 DEF SwapOf
<1>34. \A u \in Id : Has(v, u) <=> (Has(WindowOf(a, p), u) \/ u \in in) /\ u \notin out
  BY <1>2, <1>30 DEF SwapOf
<1>35. Good(c, names, tasks1, scope)
  BY <1>30, <1>31, <1>32, <1>33, <1>34, GoodOfChange
<1>36. Keeps(a, c)
  BY <1>30 DEF Changed, Keeps
<1>37. QED
  BY <1>27, <1>35, <1>36

-----------------------------------------------------------------------------
(* Writes of a task.                                                       *)

Wrote(tasks, tasks1, t, row) == tasks1 = [tasks EXCEPT ![t] = row]

LEMMA StoreWith ==
  ASSUME NEW names, NEW tasks, StoreOK(names, tasks), NEW t \in Id, NEW row \in Task \cup {Absent},
         NEW tasks1, Wrote(tasks, tasks1, t, row)
  PROVE  StoreOK(names, tasks1) /\ OthersSame(tasks, tasks1, t) /\ tasks1[t] = row
<1>1. /\ names \in [User -> Value] /\ tasks \in [Id -> Task \cup {Absent}]
      /\ IsFiniteSet(Stored(tasks))
  BY DEF StoreOK
<1>2. /\ tasks1 \in [Id -> Task \cup {Absent}] /\ tasks1[t] = row
      /\ \A u \in Id : u # t => tasks1[u] = tasks[u]
  BY <1>1 DEF Wrote
<1>3. Stored(tasks1) \subseteq Stored(tasks) \cup {t}
  BY <1>2 DEF Stored
<1>4. IsFiniteSet(Stored(tasks) \cup {t})
  BY <1>1, FS_AddElement
<1>5. IsFiniteSet(Stored(tasks1))
  BY <1>3, <1>4, FS_Subset
<1>6. QED
  BY <1>1, <1>2, <1>5 DEF StoreOK, OthersSame

\* handleWindowedIncludeUpdate keeps what it must, whatever list the row was in and
\* whatever list it now belongs to.
LEMMA MovedGood ==
  ASSUME NEW names, NEW tasks, NEW tasks1, StoreOK(names, tasks), StoreOK(names, tasks1),
         NEW t \in Id, OthersSame(tasks, tasks1, t), tasks1[t] \in Task,
         NEW scope \in SUBSET Parent, NEW a, Good(a, names, tasks, scope),
         NEW p, p = tasks1[t].parent,
         NEW matches, matches <=> p \in scope /\ tasks1[t].ok,
         NEW reassigned, reassigned <=> tasks1[t].assignee # tasks[t].assignee
  PROVE  /\ Good(Moved(a, t, p, matches, names, tasks1, reassigned), names, tasks1, scope)
         /\ Keeps(a, Moved(a, t, p, matches, names, tasks1, reassigned))
<1>1. tasks1[t] # Absent
  BY ParentAssumption DEF Task
<1>2. PICK tasks0 : tasks0 = [tasks EXCEPT ![t] = Absent]
  OBVIOUS
<1>3. StoreOK(names, tasks0) /\ OthersSame(tasks, tasks0, t) /\ tasks0[t] = Absent
  <2>1. PICK row \in Task \cup {Absent} : row = Absent
    OBVIOUS
  <2>2. Wrote(tasks, tasks0, t, row)
    BY <1>2, <2>1 DEF Wrote
  <2>3. StoreOK(names, tasks0) /\ OthersSame(tasks, tasks0, t) /\ tasks0[t] = row
    BY <2>2, StoreWith
  <2>4. QED
    BY <2>1, <2>3
<1>4. OthersSame(tasks0, tasks1, t)
  BY <1>3 DEF OthersSame
<1>5. \A q : Listed(tasks1, q, t) <=> q = p /\ tasks1[t].ok
  BY <1>1 DEF Listed
<1>6. Holding(a, t) \subseteq scope
  <2>1. a \in AccType /\ DOMAIN a.windows \subseteq scope
    BY DEF Good
  <2>2. QED
    BY <2>1 DEF Holding
<1>7. PICK c : c = Moved(a, t, p, matches, names, tasks1, reassigned)
  OBVIOUS
<1>8. c = IF matches /\ p \in Holding(a, t) THEN Refreshed(a, p, t, names, tasks1, reassigned)
          ELSE IF matches THEN Entered(Quit(a, t, names, tasks1), p, t, names, tasks1)
          ELSE Quit(a, t, names, tasks1)
  BY <1>7 DEF Moved
<1>9. CASE matches /\ p \in Holding(a, t)
  <2>1. c = Refreshed(a, p, t, names, tasks1, reassigned)
    BY <1>8, <1>9
  <2>2. p \in scope /\ Listed(tasks1, p, t)
    BY <1>5, <1>9
  <2>3. /\ Good(Refreshed(a, p, t, names, tasks1, reassigned), names, tasks1, scope)
        /\ Keeps(a, Refreshed(a, p, t, names, tasks1, reassigned))
    BY <1>9, <2>2, RefreshedGood
  <2>4. QED
    BY <1>7, <2>1, <2>3
<1>10. PICK b : b = Quit(a, t, names, tasks1)
  OBVIOUS
<1>11. CASE ~(matches /\ p \in Holding(a, t))
  <2>1. \A q \in Holding(a, t) : ~Listed(tasks1, q, t)
    BY <1>5, <1>6, <1>11
  <2>2. Good(b, names, tasks0, scope) /\ Keeps(a, b)
    BY <1>3, <1>10, <2>1, QuitGood
  <2>3. CASE matches
    <3>1. c = Entered(b, p, t, names, tasks1)
      BY <1>8, <1>10, <1>11, <2>3
    <3>2. p \in scope /\ Listed(tasks1, p, t)
      BY <1>5, <2>3
    <3>3. /\ ~Has(WindowOf(b, p), t)
          /\ Good(Placed(b, p, EntryOf(names, tasks1, t)), names, tasks1, scope)
          /\ Keeps(b, Placed(b, p, EntryOf(names, tasks1, t)))
      BY <1>3, <1>4, <2>2, <3>2, PlacedGood
    <3>4. c = Placed(b, p, EntryOf(names, tasks1, t))
      BY <3>1, <3>3 DEF Entered
    <3>5. QED
      BY <1>7, <2>2, <3>3, <3>4 DEF Keeps
  <2>4. CASE ~matches
    <3>1. c = b
      BY <1>8, <1>10, <2>4
    <3>2. \A q \in scope : ~Listed(tasks1, q, t)
      BY <1>5, <2>4
    <3>3. Good(b, names, tasks1, scope)
      BY <1>3, <1>4, <2>2, <3>2, AbsentGood
    <3>4. QED
      BY <1>7, <2>2, <3>1, <3>3
  <2>5. QED
    BY <2>3, <2>4
<1>12. QED
  BY <1>9, <1>11

-----------------------------------------------------------------------------
(* A window read again.                                                    *)

\* A window that holds only ids of a read, and not all of them, has room.
LEMMA RoomLeft ==
  ASSUME NEW w \in WFW, NEW n \in Nat, n <= Limit, NEW rows \in [1..n -> Entry], NEW k \in 1..n,
         \A u : Has(w, u) => \E j \in 1..n : j # k /\ rows[j].id = u
  PROVE  Len(w.entries) < Limit
<1> DEFINE m == Len(w.entries)
           T == (1..n) \ {k}
           f == [i \in 1..m |-> CHOOSE j \in T : rows[j].id = w.entries[i].id]
<1>1. /\ w.entries \in Seq(Entry) /\ m \in Nat /\ Limit \in Nat /\ Sorted(w.entries)
      /\ \A x, y \in Elems(w) : x.id = y.id => x = y
      /\ \A u : Has(w, u) <=> \E x \in Elems(w) : x.id = u
      /\ \A x : x \in Elems(w) <=> \E i \in 1..m : w.entries[i] = x
  BY WindowElems DEF WFW
<1>2. IsFiniteSet(T) /\ Cardinality(T) = n - 1
  <2>1. IsFiniteSet(1..n) /\ Cardinality(1..n) = n
    BY FS_Interval
  <2>2. QED
    BY <2>1, FS_RemoveElement
<1>3. ASSUME NEW i \in 1..m PROVE f[i] \in T /\ rows[f[i]].id = w.entries[i].id
  <2>1. Has(w, w.entries[i].id)
    BY <1>1
  <2>2. \E j \in T : rows[j].id = w.entries[i].id
    BY <2>1
  <2>3. QED
    BY <2>2
<1>4. ASSUME NEW i \in 1..m, NEW j \in 1..m, f[i] = f[j] PROVE i = j
  <2>1. w.entries[i].id = w.entries[j].id
    BY <1>3, <1>4
  <2>2. w.entries[i] = w.entries[j] /\ w.entries[i] \in Entry
    BY <1>1, <2>1
  <2>3. ~Before(w.entries[i], w.entries[j]) /\ ~Before(w.entries[j], w.entries[i])
    BY <2>2, BeforeIsStrictTotalOrder
  <2>4. QED
    BY <1>1, <2>3 DEF Sorted
<1>5. f \in Injection(1..m, T)
  <2>1. f \in [1..m -> T]
    BY <1>3
  <2> HIDE DEF f, T
  <2>2. QED
    BY <1>4, <2>1 DEF Injection, IsInjective
<1> HIDE DEF m, f, T
<1>6. Cardinality(1..m) = m
  BY <1>1, FS_Interval
<1>7. m <= n - 1
  BY <1>2, <1>5, <1>6, FS_Injection
<1>8. QED
  BY <1>1, <1>7 DEF m

LEMMA ChangedThen ==
  ASSUME NEW a, NEW b, NEW c, NEW p, NEW v, NEW w, NEW in1, NEW in2,
         Changed(a, b, p, v, in1, {}), Changed(b, c, p, w, in2, {})
  PROVE  Changed(a, c, p, w, in1 \cup in2, {})
<1>1. /\ DOMAIN b.windows = DOMAIN a.windows \cup {p}
      /\ \A q \in Parent \ {p} : WindowOf(b, q) = WindowOf(a, q)
      /\ DOMAIN b.view = DOMAIN a.view
      /\ \A s \in DOMAIN a.view : b.view[s] = a.view[s] \cup in1
  BY DEF Changed
<1>2. /\ c \in AccType
      /\ DOMAIN c.windows = DOMAIN b.windows \cup {p} /\ WindowOf(c, p) = w
      /\ \A q \in Parent \ {p} : WindowOf(c, q) = WindowOf(b, q)
      /\ DOMAIN c.view = DOMAIN b.view
      /\ \A s \in DOMAIN b.view : c.view[s] = b.view[s] \cup in2
  BY DEF Changed
<1>3. \A s \in DOMAIN a.view : c.view[s] = (a.view[s] \cup (in1 \cup in2)) \ {}
  BY <1>1, <1>2
<1>4. QED
  BY <1>1, <1>2, <1>3 DEF Changed

\* A row that is first now: held, it takes its place; not held, and there is room
\* for it, it is inserted.
LEMMA PromotedHeld ==
  ASSUME NEW b \in AccType, NEW p \in DOMAIN b.windows, NEW e \in Entry, Has(b.windows[p], e.id)
  PROVE  Changed(b, Promoted(b, p, e), p, Put(b.windows[p], e), {}, {})
<1>1. PICK w \in WFW : w = b.windows[p]
  BY AccFields
<1>2. PICK v \in WFW : v = Put(w, e)
  BY PutType
<1>3. p \in Parent
  BY AccFields
<1>4. Changed(b, WithWindow(b, p, v), p, v, {}, {})
  BY <1>3, WithChanges
<1>5. Promoted(b, p, e) = WithWindow(b, p, v)
  BY <1>1, <1>2 DEF Promoted
<1>6. QED
  BY <1>1, <1>2, <1>4, <1>5

TakenInAs(b, p, e, v, in, out) ==
  /\ v \in WFW /\ Changed(b, Promoted(b, p, e), p, v, in, out)
  /\ Len(b.windows[p].entries) < Limit =>
       in = {e.id} /\ out = {} /\ Elems(v) = Elems(b.windows[p]) \cup {e}
TakenIn(b, p, e) == \E v, in, out : TakenInAs(b, p, e, v, in, out)

LEMMA PromotedNew ==
  ASSUME NEW b \in AccType, NEW p \in DOMAIN b.windows, NEW e \in Entry, ~Has(b.windows[p], e.id)
  PROVE  TakenIn(b, p, e)
<1>1. PICK w \in WFW : w = b.windows[p]
  BY AccFields
<1>2. PICK r : r = InsertEntry(w, e)
  OBVIOUS
<1>3. PICK v \in WFW : v = r.window
  BY <1>2, PutType
<1>4. PICK in \in SUBSET Id : in = IF r.inserted THEN {e.id} ELSE {}
  BY DEF Entry
<1>5. PICK out : out = {x.id : x \in r.evicted}
  OBVIOUS
<1>6. p \in Parent
  BY AccFields
<1>7. Changed(b, Told(WithWindow(b, p, v), in, out), p, v, in, out)
  BY <1>6, WindowTold
<1>8. Promoted(b, p, e) = Told(WithWindow(b, p, v), in, out)
  <2>1. Promoted(b, p, e) = Placed(b, p, e)
    BY DEF Promoted
  <2>2. WindowOf(b, p) = w
    BY <1>1 DEF WindowOf
  <2>3. QED
    BY <1>2, <1>3, <1>4, <1>5, <2>1, <2>2 DEF Placed
<1>9. ASSUME Len(w.entries) < Limit PROVE in = {e.id} /\ out = {} /\ Elems(v) = Elems(w) \cup {e}
  <2>1. w \in Windows /\ WellFormed(w) /\ ~Has(w, e.id)
    BY <1>1 DEF WFW
  <2>2. Len(w.entries) \in Nat /\ Limit \in Nat
    BY <2>1, WindowElems
  <2>3. LET r0 == InsertEntry(w, e)
            n == Len(w.entries)
        IN  /\ r0.threw = FALSE
            /\ r0.window \in Windows /\ WellFormed(r0.window)
            /\ \/ /\ n < Limit /\ Len(r0.window.entries) = n + 1
                  /\ AddsWithin(Elems(w), Elems(r0.window), r0, e)
               \/ /\ n = Limit /\ Len(r0.window.entries) = n
                  /\ Refuses(Elems(w), Elems(r0.window), r0, e)
               \/ /\ n = Limit /\ Len(r0.window.entries) = n
                  /\ Displaces(Elems(w), Elems(r0.window), r0, e)
    BY <2>1, TakesIn
  <2>4. AddsWithin(Elems(w), Elems(r.window), r, e)
    BY <1>2, <1>9, <2>2, <2>3
  <2>5. QED
    BY <1>3, <1>4, <1>5, <2>4 DEF AddsWithin
<1>10. TakenInAs(b, p, e, v, in, out)
  BY <1>1, <1>3, <1>7, <1>8, <1>9 DEF TakenInAs
<1>11. QED
  BY <1>10 DEF TakenIn

\* What there is while the rows that are first now are taken in.
Over(a) == {b \in AccType : DOMAIN b.windows = DOMAIN a.windows}
PromoteStep(v, e, u, p) == u = Promoted(v, p, e)
Promoting(x, n, s, a, p) ==
  /\ x \in [0..n -> Over(a)] /\ x[0] = Demotions(a, p, s) /\ x[n] = Reconciled(a, p, s)
  /\ \A i \in 1..n : PromoteStep(x[i - 1], s[i], x[i], p)

LEMMA PromotedRun ==
  ASSUME NEW a \in AccType, NEW p \in DOMAIN a.windows, NEW n \in Nat, NEW s \in [1..n -> Entry],
         Demotions(a, p, s) \in Over(a)
  PROVE  \E x : Promoting(x, n, s, a, p)
<1> DEFINE op(v, e) == Promoted(v, p, e)
           Q(f) == f = [T \in SUBSET (1..n) |-> IF T = {} THEN Demotions(a, p, s) ELSE op(f[T \ {Max(T)}], s[Max(T)])]
<1>0. Demotions(a, p, s) \in Over(a)
  OBVIOUS
<1>1. Reconciled(a, p, s) =
        (CHOOSE f : f = [T \in SUBSET (DOMAIN s) |->
           IF T = {} THEN Demotions(a, p, s) ELSE op(f[T \ {Max(T)}], s[Max(T)])])[DOMAIN s]
  BY DEF Reconciled, FoldLeft, MapThenFoldSet
<1>2. DOMAIN s = 1..n
  OBVIOUS
<1>3. ASSUME NEW v \in Over(a), NEW i \in 1..n PROVE op(v, s[i]) \in Over(a)
  <2>1. v \in AccType /\ p \in DOMAIN v.windows /\ DOMAIN v.windows = DOMAIN a.windows
    BY DEF Over
  <2>2. \E w, in, out : Changed(v, Promoted(v, p, s[i]), p, w, in, out)
    <3>1. PICK e \in Entry : e = s[i]
      OBVIOUS
    <3>2. \E w, in, out : Changed(v, Promoted(v, p, e), p, w, in, out)
      <4>1. CASE Has(v.windows[p], e.id)
        BY <2>1, <3>1, <4>1, PromotedHeld
      <4>2. CASE ~Has(v.windows[p], e.id)
        <5>1. TakenIn(v, p, e)
          BY <2>1, <3>1, <4>2, PromotedNew
        <5>2. QED
          BY <5>1 DEF TakenIn, TakenInAs
      <4>3. QED
        BY <4>1, <4>2
    <3>3. QED
      BY <3>1, <3>2
  <2>3. QED
    BY <2>1, <2>2 DEF Over, Changed
<1>4. ASSUME NEW v, NEW e PROVE PromoteStep(v, e, op(v, e), p)
  BY DEF PromoteStep
<1> HIDE DEF op
<1> DEFINE h == [i \in 1..n |-> [v \in Over(a) |-> op(v, s[i])]]
<1>5. h \in [1..n -> [Over(a) -> Over(a)]] /\ \A i \in 1..n : \A v \in Over(a) : h[i][v] = op(v, s[i])
  BY <1>3
<1> HIDE DEF h
<1>6. \E f : Q(f)
  <2>1. PICK f \in [SUBSET (1..n) -> Over(a)] : IsFold(f, Demotions(a, p, s), h, n)
    BY <1>0, <1>5, FoldDefined
  <2>2. \A T \in SUBSET (1..n) : f[T] = IF T = {} THEN Demotions(a, p, s) ELSE h[Max(T)][f[T \ {Max(T)}]]
    BY <2>1 DEF IsFold
  <2> DEFINE e == [T \in SUBSET (1..n) |-> IF T = {} THEN Demotions(a, p, s) ELSE op(f[T \ {Max(T)}], s[Max(T)])]
  <2>3. ASSUME NEW T \in SUBSET (1..n), T # {} PROVE f[T] = op(f[T \ {Max(T)}], s[Max(T)])
    <3>1. Max(T) \in 1..n /\ f[T \ {Max(T)}] \in Over(a)
      BY <2>3, MaxOfSome
    <3>2. QED
      BY <1>5, <2>2, <2>3, <3>1
  <2>4. f = e
    BY <2>2, <2>3
  <2>5. QED
    BY <2>4
<1>7. PICK g : Q(g) /\ Reconciled(a, p, s) = g[1..n]
  <2>1. Reconciled(a, p, s) = (CHOOSE f : Q(f))[1..n]
    BY <1>1, <1>2
  <2> DEFINE g == CHOOSE f : Q(f)
  <2>2. Q(g)
    BY <1>6
  <2>3. QED
    BY <2>1, <2>2
<1>8. PICK x : x = [i \in 0..n |-> g[1..i]]
  OBVIOUS
<1>9. x[0] = Demotions(a, p, s) /\ x[n] = Reconciled(a, p, s)
  <2>1. 1..0 = {} /\ {} \in SUBSET (1..n) /\ 0 \in 0..n /\ n \in 0..n
    OBVIOUS
  <2>2. g[{}] = Demotions(a, p, s)
    BY <1>7, <2>1
  <2> HIDE DEF Q
  <2>3. QED
    BY <1>7, <1>8, <2>1, <2>2
<1>10. ASSUME NEW i \in 1..n PROVE x[i] = op(x[i - 1], s[i])
  <2>1. 1..i \in SUBSET (1..n) /\ 1..i # {} /\ Max(1..i) = i /\ (1..i) \ {i} = 1..(i - 1)
    BY FoldOfPrefix
  <2>2. g[1..i] = op(g[(1..i) \ {Max(1..i)}], s[Max(1..i)])
    BY <1>7, <2>1
  <2>3. x[i] = g[1..i] /\ x[i - 1] = g[1..(i - 1)]
    BY <1>8
  <2>4. QED
    BY <2>1, <2>2, <2>3
<1>11. ASSUME NEW k \in 0..n PROVE x[k] \in Over(a)
  <2> DEFINE G == {i \in 0..n : x[i] \in Over(a)}
  <2>0. x[0] \in Over(a) /\ 0 \in 0..n
    BY <1>0, <1>9
  <2>1. 0 \in G
    BY <2>0
  <2>2. ASSUME NEW i \in 1..k, i - 1 \in G PROVE i \in G
    <3>1. i \in 1..n /\ x[i - 1] \in Over(a)
      BY <2>2
    <3>2. op(x[i - 1], s[i]) \in Over(a)
      BY <1>3, <3>1
    <3>3. x[i] \in Over(a)
      BY <1>10, <3>1, <3>2
    <3>4. QED
      BY <3>1, <3>3
  <2> HIDE DEF G
  <2>3. k \in G
    BY <2>1, <2>2, UpTo
  <2>4. QED
    BY <2>3 DEF G
<1>12. x \in [0..n -> Over(a)]
  BY <1>8, <1>11
<1>13. \A i \in 1..n : PromoteStep(x[i - 1], s[i], x[i], p)
  BY <1>4, <1>10
<1>14. QED
  BY <1>9, <1>12, <1>13 DEF Promoting

\* What was held that is not first any more has left, what is first was let in.
Replaced(v, w, in, out, S) ==
  /\ w \in WFW /\ Fits(w, S) /\ in \cap out = {}
  /\ \A u : Has(w, u) <=> (Has(v, u) \/ u \in in) /\ u \notin out
  /\ \A u \in in : \E x \in S : x.id = u
  /\ \A u \in out : Has(v, u)

\* How far the rows of the read are in: those up to the i-th.
Taken(w, kept, fresh, i, in) ==
  /\ \A u : Has(w, u) <=> Has(kept, u) \/ \E j \in 1..i : fresh[j].id = u
  /\ \A j \in 1..i : fresh[j] \in Elems(w)
  /\ \A u : u \in in <=> ~Has(kept, u) /\ \E j \in 1..i : fresh[j].id = u
Advances(b, p, kept, fresh, i, in) ==
  \E v \in WFW : \E more : /\ Changed(b, Promoted(b, p, fresh[i]), p, v, more, {})
                           /\ Taken(v, kept, fresh, i, in \cup more)

LEMMA PromotedTaken ==
  ASSUME NEW n \in Nat, n <= Limit, NEW fresh \in [1..n -> Entry],
         \A i, j \in 1..n : fresh[i].id = fresh[j].id => i = j,
         NEW kept, \A u : Has(kept, u) => \E j \in 1..n : fresh[j].id = u,
         NEW b \in AccType, NEW p \in DOMAIN b.windows, NEW i \in 1..n, NEW in,
         Taken(b.windows[p], kept, fresh, i - 1, in)
  PROVE  Advances(b, p, kept, fresh, i, in)
<1>1. PICK w \in WFW : w = b.windows[p]
  BY AccFields
<1>2. PICK e \in Entry : e = fresh[i]
  OBVIOUS
<1>3. /\ \A u : Has(w, u) <=> Has(kept, u) \/ \E j \in 1..(i - 1) : fresh[j].id = u
      /\ \A j \in 1..(i - 1) : fresh[j] \in Elems(w)
      /\ \A u : u \in in <=> ~Has(kept, u) /\ \E j \in 1..(i - 1) : fresh[j].id = u
  BY <1>1 DEF Taken
<1>4. 1..i = 1..(i - 1) \cup {i} /\ 1..i \subseteq 1..n
  OBVIOUS
<1>5. \A j \in 1..(i - 1) : fresh[j].id # e.id
  BY <1>2
<1>6. CASE Has(w, e.id)
  <2>1. PICK v \in WFW : v = Put(w, e)
    BY PutType
  <2>2. /\ Elems(v) = {x \in Elems(w) : x.id # e.id} \cup {e}
        /\ \A u : Has(v, u) <=> Has(w, u)
    BY <1>6, <2>1, PutFacts
  <2>3. Changed(b, Promoted(b, p, e), p, v, {}, {})
    BY <1>1, <1>6, <2>1, PromotedHeld
  <2>4. Has(kept, e.id)
    BY <1>3, <1>5, <1>6
  <2>5. \A u : Has(v, u) <=> Has(kept, u) \/ \E j \in 1..i : fresh[j].id = u
    BY <1>2, <1>3, <1>4, <2>2, <2>4
  <2>6. \A j \in 1..i : fresh[j] \in Elems(v)
    BY <1>2, <1>3, <1>4, <1>5, <2>2
  <2>7. \A u : u \in in \cup {} <=> ~Has(kept, u) /\ \E j \in 1..i : fresh[j].id = u
    BY <1>2, <1>3, <1>4, <2>4
  <2>8. Taken(v, kept, fresh, i, in \cup {})
    BY <2>5, <2>6, <2>7 DEF Taken
  <2>9. QED
    BY <1>2, <2>3, <2>8 DEF Advances
<1>7. CASE ~Has(w, e.id)
  <2>1. ~Has(b.windows[p], e.id)
    BY <1>1, <1>7
  <2>2. TakenIn(b, p, e)
    BY <1>2, <2>1, PromotedNew
  <2>3. PICK v, more, out : TakenInAs(b, p, e, v, more, out)
    BY <2>2 DEF TakenIn
  <2>4. /\ v \in WFW /\ Changed(b, Promoted(b, p, e), p, v, more, out)
        /\ Len(w.entries) < Limit => more = {e.id} /\ out = {} /\ Elems(v) = Elems(w) \cup {e}
    BY <1>1, <2>3 DEF TakenInAs
  <2>5. \A u : Has(w, u) => \E j \in 1..n : j # i /\ fresh[j].id = u
    BY <1>2, <1>3, <1>4, <1>7
  <2>6. Len(w.entries) < Limit
    BY <2>5, RoomLeft
  <2>7. more = {e.id} /\ out = {} /\ Elems(v) = Elems(w) \cup {e}
    BY <2>4, <2>6
  <2>8. /\ \A u : Has(w, u) <=> \E x \in Elems(w) : x.id = u
        /\ \A u : Has(v, u) <=> \E x \in Elems(v) : x.id = u
    BY <2>4, WindowElems DEF WFW
  <2>9. \A u : Has(v, u) <=> Has(w, u) \/ u = e.id
    BY <2>7, <2>8
  <2>10. \A u : Has(v, u) <=> Has(kept, u) \/ \E j \in 1..i : fresh[j].id = u
    BY <1>2, <1>3, <1>4, <2>9
  <2>11. \A j \in 1..i : fresh[j] \in Elems(v)
    BY <1>2, <1>3, <1>4, <2>7
  <2>12. ~Has(kept, e.id)
    BY <1>3, <1>7
  <2>13. \A u : u \in in \cup more <=> ~Has(kept, u) /\ \E j \in 1..i : fresh[j].id = u
    BY <1>2, <1>3, <1>4, <2>7, <2>12
  <2>14. Taken(v, kept, fresh, i, in \cup more)
    BY <2>10, <2>11, <2>13 DEF Taken
  <2>15. QED
    BY <1>2, <2>4, <2>7, <2>14 DEF Advances
<1>8. QED
  BY <1>6, <1>7

\* The rows of a read take the window over.
LEMMA ReconciledFits ==
  ASSUME NEW a \in AccType, NEW p \in DOMAIN a.windows, NEW S \in SUBSET Entry, IsFiniteSet(S),
         \A x, y \in S : x.id = y.id => x = y, NEW fresh, fresh = FirstOf(S, Limit)
  PROVE  \E w, in, out : /\ Changed(a, Reconciled(a, p, fresh), p, w, in, out)
                         /\ Replaced(WindowOf(a, p), w, in, out, S)
<1>1. PICK old \in WFW : old = a.windows[p]
  BY AccFields
<1>2. p \in Parent /\ WindowOf(a, p) = old
  BY <1>1, AccFields DEF WindowOf
<1>3. Limit \in Nat
  BY LimitAssumption
<1>4. fresh \in FirstRows(S, Limit)
  BY <1>3, ReadExists
<1>5. PICK n \in Nat : n = Len(fresh)
  BY <1>3, <1>4, FirstRowsFacts
<1>6. fresh \in Seq(Entry) /\ n <= Limit /\ Sorted(fresh) /\ ToSet(fresh) \subseteq S
  BY <1>3, <1>4, <1>5, FirstRowsFacts
<1>7. /\ fresh \in [1..n -> Entry]
      /\ \A x : x \in ToSet(fresh) <=> \E i \in 1..n : fresh[i] = x
  BY <1>5, <1>6, Elements
<1>8. ASSUME NEW i \in 1..n, NEW j \in 1..n, fresh[i].id = fresh[j].id PROVE i = j
  <2>1. fresh[i] \in S /\ fresh[j] \in S
    BY <1>6, <1>7
  <2>2. fresh[i] = fresh[j] /\ fresh[i] \in Entry
    BY <1>8, <2>1
  <2>3. ~Before(fresh[i], fresh[j]) /\ ~Before(fresh[j], fresh[i])
    BY <2>2, BeforeIsStrictTotalOrder
  <2>4. QED
    BY <1>5, <1>6, <2>3 DEF Sorted
<1>9. PICK gone : gone = Ids(old) \ {e.id : e \in ToSet(fresh)}
  OBVIOUS
<1>10. /\ IsFiniteSet(Ids(old)) /\ \A u : u \in Ids(old) <=> Has(old, u)
  BY IdsAreFinite
<1>11. /\ IsFiniteSet(gone)
       /\ \A u : u \in gone <=> Has(old, u) /\ \A j \in 1..n : fresh[j].id # u
  <2>1. gone \subseteq Ids(old)
    BY <1>9
  <2>2. \A u : u \in {e.id : e \in ToSet(fresh)} <=> \E j \in 1..n : fresh[j].id = u
    BY <1>7
  <2>3. QED
    BY <1>9, <1>10, <2>1, <2>2, FS_Subset
<1>12. PICK kept : kept = FoldLeft(RemoveEntry, old, SetToSeq(gone))
  OBVIOUS
<1>13. kept \in WFW /\ \A u : Has(kept, u) <=> Has(old, u) /\ u \notin gone
  BY <1>11, <1>12, DroppedHas
<1>14. PICK b : b = Demotions(a, p, fresh)
  OBVIOUS
<1>15. b = Told(WithWindow(a, p, kept), {}, gone)
  BY <1>1, <1>9, <1>12, <1>14 DEF Demotions
<1>16. Changed(a, b, p, kept, {}, gone)
  <2>1. PICK none \in SUBSET Id : none = {}
    OBVIOUS
  <2>2. Changed(a, Told(WithWindow(a, p, kept), none, gone), p, kept, none, gone)
    BY <1>2, <1>13, WindowTold
  <2>3. QED
    BY <1>15, <2>1, <2>2
<1>17. b \in AccType /\ DOMAIN b.windows = DOMAIN a.windows /\ b.windows[p] = kept
  BY <1>16 DEF Changed, WindowOf
<1>18. PICK x : Promoting(x, n, fresh, a, p)
  BY <1>7, <1>14, <1>17, PromotedRun DEF Over
<1>19. /\ x \in [0..n -> Over(a)] /\ x[0] = b /\ x[n] = Reconciled(a, p, fresh)
       /\ \A i \in 1..n : PromoteStep(x[i - 1], fresh[i], x[i], p)
  BY <1>14, <1>18 DEF Promoting
<1> DEFINE At(i, w, in) == Changed(b, x[i], p, w, in, {}) /\ Taken(w, kept, fresh, i, in)
           G == {i \in 0..n : \E w \in WFW : \E in : At(i, w, in)}
<1>20. 0 \in G
  <2>1. Changed(b, b, p, kept, {}, {})
    BY <1>17 DEF Changed, WindowOf
  <2>2. Taken(kept, kept, fresh, 0, {})
    BY DEF Taken
  <2>3. At(0, kept, {})
    BY <1>19, <2>1, <2>2
  <2> HIDE DEF At
  <2>4. QED
    BY <1>13, <2>3
<1>21. ASSUME NEW i \in 1..n, i - 1 \in G PROVE i \in G
  <2>1. \E w \in WFW : \E in : At(i - 1, w, in)
    BY <1>21
  <2>2. PICK w \in WFW : \E in : At(i - 1, w, in)
    BY <2>1
  <2>3. PICK in : At(i - 1, w, in)
    BY <2>2
  <2>4. PICK c \in AccType : c = x[i - 1] /\ DOMAIN c.windows = DOMAIN a.windows
    BY <1>19 DEF Over
  <2>5. Changed(b, c, p, w, in, {}) /\ Taken(w, kept, fresh, i - 1, in)
    BY <2>3, <2>4
  <2>6. p \in DOMAIN c.windows /\ c.windows[p] = w
    BY <2>4, <2>5 DEF Changed, WindowOf
  <2>7. \A u : Has(kept, u) => \E j \in 1..n : fresh[j].id = u
    BY <1>11, <1>13
  <2>8. Advances(c, p, kept, fresh, i, in)
    <3>1. Taken(c.windows[p], kept, fresh, i - 1, in) /\ c \in AccType
      BY <2>4, <2>5, <2>6
    <3>2. \A j, k \in 1..n : fresh[j].id = fresh[k].id => j = k
      BY <1>8
    <3>3. QED
      BY <1>5, <1>6, <1>7, <1>13, <2>6, <2>7, <3>1, <3>2, PromotedTaken
  <2>9. PICK v \in WFW : \E more : /\ Changed(c, Promoted(c, p, fresh[i]), p, v, more, {})
                                   /\ Taken(v, kept, fresh, i, in \cup more)
    BY <2>8 DEF Advances
  <2>10. PICK more : /\ Changed(c, Promoted(c, p, fresh[i]), p, v, more, {})
                    /\ Taken(v, kept, fresh, i, in \cup more)
    BY <2>9
  <2>11. x[i] = Promoted(c, p, fresh[i])
    BY <1>19, <2>4 DEF PromoteStep
  <2>12. Changed(b, x[i], p, v, in \cup more, {})
    BY <2>5, <2>10, <2>11, ChangedThen
  <2>13. At(i, v, in \cup more)
    BY <2>10, <2>12
  <2> HIDE DEF At
  <2>14. QED
    BY <2>13
<1> HIDE DEF G
<1>22. n \in G
  BY <1>20, <1>21, UpTo
<1>23. PICK w \in WFW : \E in : At(n, w, in)
  BY <1>22 DEF G
<1>24. PICK in : At(n, w, in)
  BY <1>23
<1>25. PICK c : c = Reconciled(a, p, fresh)
  OBVIOUS
<1>26. Changed(b, c, p, w, in, {}) /\ Taken(w, kept, fresh, n, in)
  BY <1>19, <1>24, <1>25
<1> HIDE DEF At
<1>27. /\ \A u : Has(w, u) <=> Has(kept, u) \/ \E j \in 1..n : fresh[j].id = u
       /\ \A j \in 1..n : fresh[j] \in Elems(w)
       /\ \A u : u \in in <=> ~Has(kept, u) /\ \E j \in 1..n : fresh[j].id = u
  BY <1>26 DEF Taken
<1>28. Elems(w) = ToSet(fresh)
  <2>1. /\ \A u : Has(w, u) <=> \E e \in Elems(w) : e.id = u
        /\ \A e, f \in Elems(w) : e.id = f.id => e = f
    BY WindowElems DEF WFW
  <2>2. ASSUME NEW e \in Elems(w) PROVE e \in ToSet(fresh)
    <3>1. Has(w, e.id)
      BY <2>1
    <3>2. PICK j \in 1..n : fresh[j].id = e.id
      BY <1>11, <1>13, <1>27, <3>1
    <3>3. fresh[j] = e
      BY <1>27, <2>1, <3>2
    <3>4. QED
      BY <1>7, <3>3
  <2>3. \A e \in ToSet(fresh) : e \in Elems(w)
    BY <1>7, <1>27
  <2>4. QED
    BY <2>2, <2>3
<1>29. Fits(w, S)
  BY <1>28, ReadLeads DEF Fits
<1>30. in \cap gone = {}
  BY <1>11, <1>27
<1>31. c \in AccType
  BY <1>26 DEF Changed
<1>32. Changed(a, c, p, w, in, gone)
  BY <1>16, <1>17, <1>26, <1>30, <1>31, ChangedTwice
<1>33. \A u : Has(w, u) <=> (Has(old, u) \/ u \in in) /\ u \notin gone
  BY <1>11, <1>13, <1>27
<1>34. \A u \in in : \E e \in S : e.id = u
  BY <1>6, <1>7, <1>27
<1>35. \A u \in gone : Has(old, u)
  BY <1>11
<1>36. Replaced(old, w, in, gone, S)
  BY <1>29, <1>30, <1>33, <1>34, <1>35 DEF Replaced
<1>37. QED
  BY <1>2, <1>25, <1>32, <1>36

\* A parent's window after it has been read again.
Retaken(b, c, p, S) ==
  \E w, in, out : Changed(b, c, p, w, in, out) /\ Replaced(WindowOf(b, p), w, in, out, S)

LEMMA RereadOne ==
  ASSUME NEW b \in AccType, NEW p \in DOMAIN b.windows, NEW names, NEW tasks, StoreOK(names, tasks)
  PROVE  Retaken(b, Reconciled(b, p, Top(names, tasks, p)), p, Rows(names, tasks, p))
<1>1. PICK S \in SUBSET Entry : S = Rows(names, tasks, p)
  BY RowsFacts
<1>2. IsFiniteSet(S) /\ \A x, y \in S : x.id = y.id => x = y
  BY <1>1, RowsFacts
<1>3. PICK fresh : fresh = FirstOf(S, Limit)
  OBVIOUS
<1>4. \E w, in, out : /\ Changed(b, Reconciled(b, p, fresh), p, w, in, out)
                      /\ Replaced(WindowOf(b, p), w, in, out, S)
  BY <1>1, <1>2, <1>3, ReconciledFits
<1>5. Top(names, tasks, p) = fresh
  BY <1>1, <1>3 DEF Top
<1>6. QED
  BY <1>1, <1>4, <1>5 DEF Retaken

\* A subscriber holds of a parent what its window holds, and no task that is not there.
Shown(a, tasks) ==
  /\ \A p \in Parent : Shows(a, tasks, p)
  /\ \A s \in DOMAIN a.view : \A t \in a.view[s] : tasks[t] # Absent

LEMMA RetakenShown ==
  ASSUME NEW names, NEW tasks, StoreOK(names, tasks), NEW b \in AccType, NEW p \in Parent,
         Shown(b, tasks), NEW c, Retaken(b, c, p, Rows(names, tasks, p))
  PROVE  /\ c \in AccType /\ Shown(c, tasks)
         /\ DOMAIN c.windows = DOMAIN b.windows \cup {p} /\ DOMAIN c.view = DOMAIN b.view
         /\ \A q \in Parent \ {p} : WindowOf(c, q) = WindowOf(b, q)
         /\ Fits(WindowOf(c, p), Rows(names, tasks, p))
<1>1. PICK w, in, out : /\ Changed(b, c, p, w, in, out)
                        /\ Replaced(WindowOf(b, p), w, in, out, Rows(names, tasks, p))
  BY DEF Retaken
<1>2. /\ c \in AccType
      /\ DOMAIN c.windows = DOMAIN b.windows \cup {p} /\ WindowOf(c, p) = w
      /\ \A q \in Parent \ {p} : WindowOf(c, q) = WindowOf(b, q)
      /\ DOMAIN c.view = DOMAIN b.view
      /\ \A s \in DOMAIN b.view : c.view[s] = (b.view[s] \cup in) \ out
  BY <1>1 DEF Changed
<1>3. /\ Fits(w, Rows(names, tasks, p))
      /\ \A u : Has(w, u) <=> (Has(WindowOf(b, p), u) \/ u \in in) /\ u \notin out
      /\ \A u \in out : Has(WindowOf(b, p), u)
  BY <1>1 DEF Replaced
<1>4. \A u \in in : u \in Id /\ tasks[u] # Absent /\ tasks[u].parent = p
  <2>1. \A u \in in : \E x \in Rows(names, tasks, p) : x.id = u
    BY <1>1 DEF Replaced
  <2>2. \A u \in in : Listed(tasks, p, u)
    BY <2>1, RowsFacts
  <2>3. QED
    BY <2>2 DEF Listed
<1>5. /\ \A q \in Parent : \A s \in DOMAIN b.view : \A t \in Id :
           (t \in b.view[s] /\ tasks[t] # Absent /\ tasks[t].parent = q) <=> Has(WindowOf(b, q), t)
      /\ \A s \in DOMAIN b.view : \A t \in b.view[s] : tasks[t] # Absent
  BY DEF Shown, Shows
<1>6. ASSUME NEW q \in Parent, NEW s \in DOMAIN c.view, NEW t \in Id
      PROVE  (t \in c.view[s] /\ tasks[t] # Absent /\ tasks[t].parent = q) <=> Has(WindowOf(c, q), t)
  <2>1. /\ s \in DOMAIN b.view /\ c.view[s] = (b.view[s] \cup in) \ out
        /\ t \in c.view[s] <=> (t \in b.view[s] \/ t \in in) /\ t \notin out
    BY <1>2
  <2>2. (t \in b.view[s] /\ tasks[t] # Absent /\ tasks[t].parent = q) <=> Has(WindowOf(b, q), t)
    BY <1>5, <2>1
  <2>3. CASE q = p
    <3>1. Has(WindowOf(c, q), t) <=> (Has(WindowOf(b, p), t) \/ t \in in) /\ t \notin out
      BY <1>2, <1>3, <2>3
    <3>2. QED
      BY <1>4, <2>1, <2>2, <2>3, <3>1
  <2>4. CASE q # p
    <3>1. Has(WindowOf(c, q), t) <=> Has(WindowOf(b, q), t)
      BY <1>2, <2>4
    <3>2. t \in out => tasks[t].parent = p
      BY <1>3, <1>5, <2>1
    <3>3. QED
      BY <1>4, <2>1, <2>2, <2>4, <3>1, <3>2
  <2>5. QED
    BY <2>3, <2>4
<1>7. \A s \in DOMAIN c.view : \A t \in c.view[s] : tasks[t] # Absent
  BY <1>2, <1>4, <1>5
<1>8. Shown(c, tasks)
  BY <1>6, <1>7 DEF Shown, Shows
<1>9. QED
  BY <1>2, <1>3, <1>8

\* What there is while the windows are read again, one by one.
RereadStep(v, e, u, names, tasks) == u = Reconciled(v, e, Top(names, tasks, e))
Rereading(x, n, s, a, names, tasks) ==
  /\ x \in [0..n -> Over(a)] /\ x[0] = a /\ x[n] = Reread(a, names, tasks)
  /\ \A i \in 1..n : RereadStep(x[i - 1], s[i], x[i], names, tasks)

LEMMA RereadRun ==
  ASSUME NEW a \in AccType, NEW n \in Nat, NEW s \in [1..n -> DOMAIN a.windows],
         s = SetToSeq(DOMAIN a.windows), NEW names, NEW tasks, StoreOK(names, tasks)
  PROVE  \E x : Rereading(x, n, s, a, names, tasks)
<1> DEFINE op(v, e) == Reconciled(v, e, Top(names, tasks, e))
           Q(f) == f = [T \in SUBSET (1..n) |-> IF T = {} THEN a ELSE op(f[T \ {Max(T)}], s[Max(T)])]
<1>0. a \in Over(a)
  BY DEF Over
<1>1. Reread(a, names, tasks) =
        (CHOOSE f : f = [T \in SUBSET (DOMAIN s) |->
           IF T = {} THEN a ELSE op(f[T \ {Max(T)}], s[Max(T)])])[DOMAIN s]
  BY DEF Reread, FoldLeft, MapThenFoldSet
<1>2. DOMAIN s = 1..n
  OBVIOUS
<1>3. ASSUME NEW v \in Over(a), NEW i \in 1..n PROVE op(v, s[i]) \in Over(a)
  <2>1. v \in AccType /\ DOMAIN v.windows = DOMAIN a.windows
    BY DEF Over
  <2>2. PICK p \in DOMAIN v.windows : p = s[i]
    BY <2>1
  <2>3. Retaken(v, Reconciled(v, p, Top(names, tasks, p)), p, Rows(names, tasks, p))
    BY <2>1, <2>2, RereadOne
  <2>4. QED
    BY <2>1, <2>2, <2>3 DEF Over, Changed, Retaken
<1>4. ASSUME NEW v, NEW e PROVE RereadStep(v, e, op(v, e), names, tasks)
  BY DEF RereadStep
<1> HIDE DEF op
<1> DEFINE h == [i \in 1..n |-> [v \in Over(a) |-> op(v, s[i])]]
<1>5. h \in [1..n -> [Over(a) -> Over(a)]] /\ \A i \in 1..n : \A v \in Over(a) : h[i][v] = op(v, s[i])
  BY <1>3
<1> HIDE DEF h
<1>6. \E f : Q(f)
  <2>1. PICK f \in [SUBSET (1..n) -> Over(a)] : IsFold(f, a, h, n)
    BY <1>0, <1>5, FoldDefined
  <2>2. \A T \in SUBSET (1..n) : f[T] = IF T = {} THEN a ELSE h[Max(T)][f[T \ {Max(T)}]]
    BY <2>1 DEF IsFold
  <2> DEFINE e == [T \in SUBSET (1..n) |-> IF T = {} THEN a ELSE op(f[T \ {Max(T)}], s[Max(T)])]
  <2>3. ASSUME NEW T \in SUBSET (1..n), T # {} PROVE f[T] = op(f[T \ {Max(T)}], s[Max(T)])
    <3>1. Max(T) \in 1..n /\ f[T \ {Max(T)}] \in Over(a)
      BY <2>3, MaxOfSome
    <3>2. QED
      BY <1>5, <2>2, <2>3, <3>1
  <2>4. f = e
    BY <2>2, <2>3
  <2>5. QED
    BY <2>4
<1>7. PICK g : Q(g) /\ Reread(a, names, tasks) = g[1..n]
  <2>1. Reread(a, names, tasks) = (CHOOSE f : Q(f))[1..n]
    BY <1>1, <1>2
  <2> DEFINE g == CHOOSE f : Q(f)
  <2>2. Q(g)
    BY <1>6
  <2>3. QED
    BY <2>1, <2>2
<1>8. PICK x : x = [i \in 0..n |-> g[1..i]]
  OBVIOUS
<1>9. x[0] = a /\ x[n] = Reread(a, names, tasks)
  <2>1. 1..0 = {} /\ {} \in SUBSET (1..n) /\ 0 \in 0..n /\ n \in 0..n
    OBVIOUS
  <2>2. g[{}] = a
    BY <1>7, <2>1
  <2> HIDE DEF Q
  <2>3. QED
    BY <1>7, <1>8, <2>1, <2>2
<1>10. ASSUME NEW i \in 1..n PROVE x[i] = op(x[i - 1], s[i])
  <2>1. 1..i \in SUBSET (1..n) /\ 1..i # {} /\ Max(1..i) = i /\ (1..i) \ {i} = 1..(i - 1)
    BY FoldOfPrefix
  <2>2. g[1..i] = op(g[(1..i) \ {Max(1..i)}], s[Max(1..i)])
    BY <1>7, <2>1
  <2>3. x[i] = g[1..i] /\ x[i - 1] = g[1..(i - 1)]
    BY <1>8
  <2>4. QED
    BY <2>1, <2>2, <2>3
<1>11. ASSUME NEW k \in 0..n PROVE x[k] \in Over(a)
  <2> DEFINE G == {i \in 0..n : x[i] \in Over(a)}
  <2>0. x[0] \in Over(a) /\ 0 \in 0..n
    BY <1>0, <1>9
  <2>1. 0 \in G
    BY <2>0
  <2>2. ASSUME NEW i \in 1..k, i - 1 \in G PROVE i \in G
    <3>1. i \in 1..n /\ x[i - 1] \in Over(a)
      BY <2>2
    <3>2. op(x[i - 1], s[i]) \in Over(a)
      BY <1>3, <3>1
    <3>3. x[i] \in Over(a)
      BY <1>10, <3>1, <3>2
    <3>4. QED
      BY <3>1, <3>3
  <2> HIDE DEF G
  <2>3. k \in G
    BY <2>1, <2>2, UpTo
  <2>4. QED
    BY <2>3 DEF G
<1>12. x \in [0..n -> Over(a)]
  BY <1>8, <1>11
<1>13. \A i \in 1..n : RereadStep(x[i - 1], s[i], x[i], names, tasks)
  BY <1>4, <1>10
<1>14. QED
  BY <1>9, <1>12, <1>13 DEF Rereading

\* handleRelationalSortFanout: when every window has been read again they are all
\* the first rows under the new names, and the subscribers were told.
LEMMA RereadGood ==
  ASSUME NEW names, NEW tasks, StoreOK(names, tasks), NEW a \in AccType,
         IsFiniteSet(DOMAIN a.windows), Shown(a, tasks)
  PROVE  LET c == Reread(a, names, tasks)
         IN  /\ c \in AccType /\ Shown(c, tasks)
             /\ DOMAIN c.windows = DOMAIN a.windows /\ DOMAIN c.view = DOMAIN a.view
             /\ \A p \in DOMAIN a.windows : Fits(WindowOf(c, p), Rows(names, tasks, p))
<1>1. PICK s : s = SetToSeq(DOMAIN a.windows)
  OBVIOUS
<1>2. PICK n \in Nat : /\ s \in [1..n -> DOMAIN a.windows]
                       /\ \A p \in DOMAIN a.windows : \E i \in 1..n : s[i] = p
  BY <1>1, SeqOfSet
<1>3. PICK x : Rereading(x, n, s, a, names, tasks)
  BY <1>1, <1>2, RereadRun
<1>4. /\ x \in [0..n -> Over(a)] /\ x[0] = a /\ x[n] = Reread(a, names, tasks)
      /\ \A i \in 1..n : RereadStep(x[i - 1], s[i], x[i], names, tasks)
  BY <1>3 DEF Rereading
<1>5. DOMAIN a.windows \subseteq Parent
  BY AccFields
<1> DEFINE At(i, b) == /\ Shown(b, tasks) /\ DOMAIN b.view = DOMAIN a.view
                       /\ \A j \in 1..i : Fits(WindowOf(b, s[j]), Rows(names, tasks, s[j]))
           G == {i \in 0..n : At(i, x[i])}
<1>6. 0 \in G
  BY <1>4
<1>7. ASSUME NEW i \in 1..n, i - 1 \in G PROVE i \in G
  <2>1. PICK b \in AccType : b = x[i - 1] /\ DOMAIN b.windows = DOMAIN a.windows
    BY <1>4 DEF Over
  <2>2. PICK c : c = x[i]
    OBVIOUS
  <2>3. PICK p \in DOMAIN a.windows : p = s[i]
    BY <1>2
  <2>4. c = Reconciled(b, p, Top(names, tasks, p))
    BY <1>4, <2>1, <2>2, <2>3 DEF RereadStep
  <2>5. At(i - 1, b)
    BY <1>7, <2>1
  <2>6. Retaken(b, c, p, Rows(names, tasks, p))
    BY <2>1, <2>3, <2>4, RereadOne
  <2>7. /\ c \in AccType /\ Shown(c, tasks)
        /\ DOMAIN c.windows = DOMAIN b.windows \cup {p} /\ DOMAIN c.view = DOMAIN b.view
        /\ \A q \in Parent \ {p} : WindowOf(c, q) = WindowOf(b, q)
        /\ Fits(WindowOf(c, p), Rows(names, tasks, p))
    BY <1>5, <2>1, <2>3, <2>5, <2>6, RetakenShown
  <2>8. ASSUME NEW j \in 1..i PROVE Fits(WindowOf(c, s[j]), Rows(names, tasks, s[j]))
    <3>1. CASE s[j] = p
      BY <2>7, <3>1
    <3>2. CASE s[j] # p
      <4>1. j \in 1..(i - 1) /\ j \in 1..n
        BY <2>3, <3>2
      <4>2. s[j] \in Parent \ {p}
        BY <1>2, <1>5, <3>2, <4>1
      <4>3. QED
        BY <2>5, <2>7, <4>1, <4>2
    <3>3. QED
      BY <3>1, <3>2
  <2>9. At(i, c)
    BY <2>5, <2>7, <2>8
  <2> HIDE DEF At
  <2>10. QED
    BY <2>2, <2>9
<1> HIDE DEF G
<1>8. n \in G
  BY <1>6, <1>7, UpTo
<1>9. PICK c : c = x[n]
  OBVIOUS
<1>10. At(n, c)
  BY <1>8, <1>9 DEF G
<1>11. c \in AccType /\ DOMAIN c.windows = DOMAIN a.windows
  BY <1>4, <1>9 DEF Over
<1>12. \A p \in DOMAIN a.windows : Fits(WindowOf(c, p), Rows(names, tasks, p))
  BY <1>2, <1>10
<1>13. QED
  BY <1>4, <1>9, <1>10, <1>11, <1>12

\* A parent has the same rows, whatever the names: one that has none has none.
LEMMA NoWindow ==
  ASSUME NEW names1, NEW names2, NEW tasks, StoreOK(names1, tasks), StoreOK(names2, tasks), NEW p,
         Fits(EmptyWindow, Rows(names1, tasks, p))
  PROVE  Fits(EmptyWindow, Rows(names2, tasks, p)) /\ Rows(names2, tasks, p) = {}
<1>1. Elems(EmptyWindow) = {} /\ Len(EmptyWindow.entries) = 0
  BY DEF EmptyWindow, Elems, ToSet
<1>2. Limit \in Nat /\ Limit > 0
  BY LimitAssumption, ParentAssumption
<1>3. Rows(names1, tasks, p) = {}
  <2>1. Leads(EmptyWindow, <<>>, Rows(names1, tasks, p))
    BY DEF Fits
  <2>2. Len(<<>>) = 0 /\ ToSet(<<>>) = {}
    BY DEF ToSet
  <2>3. QED
    BY <1>1, <1>2, <2>1, <2>2 DEF Leads
<1>4. Rows(names2, tasks, p) = {}
  <2>1. \A t : ~Listed(tasks, p, t)
    BY <1>3, RowsFacts
  <2>2. QED
    BY <2>1, RowsFacts
<1>5. QED
  BY <1>3, <1>4

LEMMA FannedOver ==
  ASSUME NEW a \in AccType, NEW ids, NEW v \in Value
  PROVE  LET b == Fanned(a, ids, v)
         IN  /\ b \in AccType /\ DOMAIN b.windows = DOMAIN a.windows /\ b.view = a.view
             /\ \A q, u : Has(WindowOf(b, q), u) <=> Has(WindowOf(a, q), u)
<1>1. PICK ws : ws = [q \in DOMAIN a.windows |-> Repositioned(a.windows[q], ids, v)]
  OBVIOUS
<1>2. PICK b : b = [windows |-> ws, view |-> a.view]
  OBVIOUS
<1>3. /\ a = [windows |-> a.windows, view |-> a.view]
      /\ a.windows \in [DOMAIN a.windows -> WFW] /\ DOMAIN a.windows \subseteq Parent
      /\ a.view \in [DOMAIN a.view -> SUBSET Id] /\ DOMAIN a.view \subseteq Client
  BY AccFields
<1>4. Fanned(a, ids, v) = b
  BY <1>1, <1>2, <1>3 DEF Fanned
<1>5. ASSUME NEW q \in DOMAIN a.windows
      PROVE  ws[q] \in WFW /\ \A u : Has(ws[q], u) <=> Has(a.windows[q], u)
  <2>1. PICK w \in WFW : w = a.windows[q]
    BY <1>3
  <2>2. ws[q] = Repositioned(w, ids, v)
    BY <1>1, <2>1
  <2>3. QED
    BY <2>1, <2>2, RepositionedHas
<1>6. DOMAIN ws = DOMAIN a.windows /\ ws \in [DOMAIN ws -> WFW]
  BY <1>1, <1>5
<1>7. b \in AccType
  BY <1>2, <1>3, <1>6, AccIntro
<1>8. ASSUME NEW q, NEW u PROVE Has(WindowOf(b, q), u) <=> Has(WindowOf(a, q), u)
  <2>1. CASE q \in DOMAIN a.windows
    BY <1>2, <1>5, <1>6, <2>1 DEF WindowOf
  <2>2. CASE q \notin DOMAIN a.windows
    BY <1>2, <1>6, <2>2 DEF WindowOf
  <2>3. QED
    BY <2>1, <2>2
<1>9. QED
  BY <1>2, <1>4, <1>6, <1>7, <1>8

LEMMA RenamedGood ==
  ASSUME NEW names1, NEW names2, NEW tasks, StoreOK(names1, tasks), StoreOK(names2, tasks),
         NEW scope \in SUBSET Parent, NEW a, Good(a, names1, tasks, scope),
         IsFiniteSet(DOMAIN a.windows), NEW ids, NEW v \in Value
  PROVE  LET c == Reread(Fanned(a, ids, v), names2, tasks)
         IN  Good(c, names2, tasks, scope) /\ DOMAIN c.view = DOMAIN a.view
<1>1. /\ a \in AccType /\ DOMAIN a.windows \subseteq scope
      /\ \A p \in scope : Fits(WindowOf(a, p), Rows(names1, tasks, p))
      /\ \A p \in Parent : Shows(a, tasks, p)
      /\ \A s \in DOMAIN a.view : \A t \in a.view[s] : tasks[t] # Absent
  BY DEF Good
<1>2. PICK b : b = Fanned(a, ids, v)
  OBVIOUS
<1>3. /\ b \in AccType /\ DOMAIN b.windows = DOMAIN a.windows /\ b.view = a.view
      /\ \A q, u : Has(WindowOf(b, q), u) <=> Has(WindowOf(a, q), u)
  BY <1>1, <1>2, FannedOver
<1>4. Shown(b, tasks)
  BY <1>1, <1>3 DEF Shown, Shows
<1>5. PICK c : c = Reread(b, names2, tasks)
  OBVIOUS
<1>6. /\ c \in AccType /\ Shown(c, tasks)
      /\ DOMAIN c.windows = DOMAIN b.windows /\ DOMAIN c.view = DOMAIN b.view
      /\ \A p \in DOMAIN b.windows : Fits(WindowOf(c, p), Rows(names2, tasks, p))
  BY <1>3, <1>4, <1>5, RereadGood
<1>7. ASSUME NEW p \in scope PROVE Fits(WindowOf(c, p), Rows(names2, tasks, p))
  <2>1. CASE p \in DOMAIN a.windows
    BY <1>3, <1>6, <2>1
  <2>2. CASE p \notin DOMAIN a.windows
    <3>1. WindowOf(a, p) = EmptyWindow /\ WindowOf(c, p) = EmptyWindow
      BY <1>3, <1>6, <2>2 DEF WindowOf
    <3>2. Fits(EmptyWindow, Rows(names1, tasks, p))
      BY <1>1, <3>1
    <3>3. QED
      BY <3>1, <3>2, NoWindow
  <2>3. QED
    BY <2>1, <2>2
<1>8. Good(c, names2, tasks, scope)
  BY <1>1, <1>3, <1>6, <1>7 DEF Good, Shown
<1>9. QED
  BY <1>2, <1>3, <1>5, <1>6, <1>8

-----------------------------------------------------------------------------
(* Parents that come into scope, and subscribers.                          *)

LEMMA EmptyFits ==
  /\ EmptyWindow \in WFW /\ Elems(EmptyWindow) = {} /\ \A u : ~Has(EmptyWindow, u)
  /\ Fits(EmptyWindow, {})
<1>1. EmptyWindow \in WFW /\ EmptyWindow \in Windows /\ WellFormed(EmptyWindow)
  BY EmptyWindowProperties DEF WFW
<1>2. Elems(EmptyWindow) = {}
  BY NoRows DEF EmptyWindow, Elems
<1>3. \A u : ~Has(EmptyWindow, u)
  BY <1>1, <1>2, WindowElems
<1>4. Below(EmptyWindow, {}) /\ {} \subseteq Elems(EmptyWindow)
  BY DEF Below
<1>5. Leads(EmptyWindow, <<>>, {})
  BY <1>1, <1>4, LeadsNothing
<1>6. QED
  BY <1>1, <1>2, <1>3, <1>5 DEF Fits

\* The first read of a parent: what is sent, and the window it fills.
LEMMA Seeded ==
  ASSUME NEW names, NEW tasks, StoreOK(names, tasks), NEW p, NEW rows, rows = Top(names, tasks, p),
         NEW w, w = Filled(EmptyWindow, rows)
  PROVE  /\ w \in WFW /\ Fits(w, Rows(names, tasks, p))
         /\ \A u : Has(w, u) <=> \E x \in ToSet(rows) : x.id = u
         /\ \A x \in ToSet(rows) : Listed(tasks, p, x.id)
         /\ rows = <<>> <=> Rows(names, tasks, p) = {}
<1>1. PICK S \in SUBSET Entry : S = Rows(names, tasks, p)
  BY RowsFacts
<1>2. /\ IsFiniteSet(S) /\ \A x, y \in S : x.id = y.id => x = y
      /\ \A x \in S : Listed(tasks, p, x.id)
  BY <1>1, RowsFacts
<1>3. Limit \in Nat /\ Limit > 0
  BY LimitAssumption, ParentAssumption
<1>4. rows \in FirstRows(S, Limit)
  BY <1>1, <1>2, <1>3, ReadExists DEF Top
<1>5. /\ rows \in Seq(Entry) /\ ToSet(rows) \subseteq S
      /\ Len(rows) < Limit => S \subseteq ToSet(rows)
  BY <1>3, <1>4, FirstRowsFacts
<1>6. rows = <<>> <=> S = {}
  <2>1. rows = <<>> => S = {}
    BY <1>3, <1>5, NoRows
  <2>2. rows # <<>> => rows[1] \in ToSet(rows)
    BY <1>5, Elements
  <2>3. QED
    BY <1>5, <2>1, <2>2
<1>7. After(S, {}) = S
  BY DEF After
<1>8. PICK e \in WFW : e = EmptyWindow /\ e.entries = <<>>
  BY EmptyFits DEF EmptyWindow
<1>9. Leads(e, rows, S)
  BY <1>4, <1>7, <1>8, SeedRowsLead DEF WFW
<1>10. Elems(e) \subseteq S /\ Elems(e) = {}
  BY <1>8, EmptyFits
<1>11. /\ Filled(e, rows) \in WFW
       /\ Elems(Filled(e, rows)) = Elems(e) \cup ToSet(rows)
       /\ Elems(Filled(e, rows)) \subseteq S
       /\ Leads(Filled(e, rows), <<>>, S)
  BY <1>2, <1>5, <1>9, <1>10, FilledLeads
<1>12. /\ w \in WFW /\ Elems(w) = ToSet(rows) /\ Fits(w, S)
  BY <1>8, <1>10, <1>11 DEF Fits
<1>13. \A u : Has(w, u) <=> \E x \in ToSet(rows) : x.id = u
  BY <1>12, WindowElems DEF WFW
<1>14. QED
  BY <1>1, <1>2, <1>5, <1>6, <1>12, <1>13

\* A window that fits holds what a read of the parent would return.
LEMMA FitsIsTop ==
  ASSUME NEW names, NEW tasks, StoreOK(names, tasks), NEW p, NEW w \in WFW,
         Fits(w, Rows(names, tasks, p))
  PROVE  /\ w.entries = Top(names, tasks, p) /\ Top(names, tasks, p) \in Seq(Entry)
         /\ \A u : Has(w, u) <=> \E x \in ToSet(Top(names, tasks, p)) : x.id = u
         /\ \A u : Has(w, u) => Listed(tasks, p, u)
<1>1. PICK S \in SUBSET Entry : S = Rows(names, tasks, p)
  BY RowsFacts
<1>2. IsFiniteSet(S) /\ \A x \in S : Listed(tasks, p, x.id)
  BY <1>1, RowsFacts
<1>3. w.entries = FirstOf(S, Limit)
  BY <1>1, <1>2, WindowIsRead DEF Fits
<1>4. w.entries = Top(names, tasks, p)
  BY <1>1, <1>3 DEF Top
<1>5. w.entries \in Seq(Entry) /\ \A u : Has(w, u) <=> \E x \in Elems(w) : x.id = u
  BY WindowElems DEF WFW
<1>6. Elems(w) \subseteq S
  BY <1>1 DEF Fits
<1>7. QED
  BY <1>2, <1>4, <1>5, <1>6 DEF Elems

Sent(a, p, rows, c) ==
  c = Told(IF rows = <<>> THEN a ELSE WithWindow(a, p, Filled(WindowOf(a, p), rows)),
           {e.id : e \in ToSet(rows)}, {})

LEMMA SentGood ==
  ASSUME NEW names, NEW tasks, StoreOK(names, tasks), NEW scope \in SUBSET Parent,
         NEW p \in Parent \ scope, NEW a, Good(a, names, tasks, scope),
         NEW rows, rows = Top(names, tasks, p),
         NEW c, Sent(a, p, rows, c)
  PROVE  /\ Good(c, names, tasks, scope \cup {p}) /\ Keeps(a, c)
         /\ Rows(names, tasks, p) # {} => p \in DOMAIN c.windows
<1>1. /\ a \in AccType /\ DOMAIN a.windows \subseteq scope
      /\ \A q \in scope : Fits(WindowOf(a, q), Rows(names, tasks, q))
      /\ \A q \in Parent : Shows(a, tasks, q)
      /\ \A s \in DOMAIN a.view : \A t \in a.view[s] : tasks[t] # Absent
  BY DEF Good
<1>2. WindowOf(a, p) = EmptyWindow /\ p \in Parent
  BY <1>1 DEF WindowOf
<1>3. PICK w : w = Filled(EmptyWindow, rows)
  OBVIOUS
<1>4. /\ w \in WFW /\ Fits(w, Rows(names, tasks, p))
      /\ \A u : Has(w, u) <=> \E x \in ToSet(rows) : x.id = u
      /\ \A x \in ToSet(rows) : Listed(tasks, p, x.id)
      /\ rows = <<>> <=> Rows(names, tasks, p) = {}
  BY <1>3, Seeded
<1>5. PICK in : in = {e.id : e \in ToSet(rows)}
  OBVIOUS
<1>6. in \in SUBSET Id
  BY <1>4, <1>5 DEF Listed
<1>7. CASE rows = <<>>
  <2>1. in = {} /\ c = Told(a, in, {})
    BY <1>5, <1>7, NoRows DEF Sent
  <2>2. c = a
    <3>1. c = [a EXCEPT !.view = [s \in DOMAIN a.view |-> (a.view[s] \cup {}) \ {}]]
      BY <2>1 DEF Told
    <3>2. [s \in DOMAIN a.view |-> (a.view[s] \cup {}) \ {}] = a.view
      <4>1. a.view \in [DOMAIN a.view -> SUBSET Id]
        BY <1>1, AccFields
      <4>2. QED
        BY <4>1
    <3>3. a = [windows |-> a.windows, view |-> a.view]
      BY <1>1, AccFields
    <3>4. QED
      BY <3>1, <3>2, <3>3
  <2>3. Fits(WindowOf(a, p), Rows(names, tasks, p)) /\ Rows(names, tasks, p) = {}
    BY <1>2, <1>4, <1>7, EmptyFits
  <2>4. QED
    BY <1>1, <2>2, <2>3 DEF Good, Keeps
<1>8. CASE rows # <<>>
  <2>1. c = Told(WithWindow(a, p, w), in, {})
    BY <1>2, <1>3, <1>5, <1>8 DEF Sent
  <2>2. Changed(a, c, p, w, in, {})
    BY <1>1, <1>2, <1>4, <1>5, <1>6, <2>1, WindowTold
  <2>3. Replaced(EmptyWindow, w, in, {}, Rows(names, tasks, p))
    <3>1. \A u : Has(w, u) <=> u \in in
      BY <1>4, <1>5
    <3>2. \A u \in in : \E x \in Rows(names, tasks, p) : x.id = u
      <4>1. \A u \in in : Listed(tasks, p, u)
        BY <1>4, <1>5
      <4>2. QED
        BY <4>1, RowsFacts
    <3>3. QED
      BY <1>4, <3>1, <3>2, EmptyFits DEF Replaced
  <2>4. Retaken(a, c, p, Rows(names, tasks, p))
    BY <1>2, <2>2, <2>3 DEF Retaken
  <2>5. Shown(a, tasks)
    BY <1>1 DEF Shown
  <2>6. /\ c \in AccType /\ Shown(c, tasks)
        /\ DOMAIN c.windows = DOMAIN a.windows \cup {p} /\ DOMAIN c.view = DOMAIN a.view
        /\ \A q \in Parent \ {p} : WindowOf(c, q) = WindowOf(a, q)
        /\ Fits(WindowOf(c, p), Rows(names, tasks, p))
    BY <1>1, <1>2, <2>4, <2>5, RetakenShown
  <2>7. \A q \in scope \cup {p} : Fits(WindowOf(c, q), Rows(names, tasks, q))
    BY <1>1, <2>6
  <2>8. QED
    BY <1>1, <2>6, <2>7 DEF Good, Keeps, Shown
<1>9. QED
  BY <1>7, <1>8

\* What is between two writes: without subscribers there are no windows.
Held(a, sd, names, tasks, scope) ==
  /\ a \in AccType /\ DOMAIN a.windows \subseteq scope /\ sd \subseteq DOMAIN a.windows
  /\ DOMAIN a.view = {} => DOMAIN a.windows = {}
  /\ DOMAIN a.view # {} => Good(a, names, tasks, scope)

\* The windows and the views after a subscriber s is given its tree.
SubscribeGives(names, tasks, scope, a, sd, s, fresh, ws, v, c) ==
  /\ fresh = {p \in scope : Rows(names, tasks, p) # {} /\ p \notin sd}
  /\ ws = [p \in DOMAIN a.windows \cup fresh |->
             IF p \in fresh THEN Filled(WindowOf(a, p), Top(names, tasks, p)) ELSE a.windows[p]]
  /\ v = [x \in DOMAIN a.view \cup {s} |->
            IF x = s THEN UNION {{e.id : e \in ToSet(Top(names, tasks, p))} : p \in scope}
            ELSE a.view[x]]
  /\ c = [windows |-> ws, view |-> v]

LEMMA SubscribedGood ==
  ASSUME NEW names, NEW tasks, StoreOK(names, tasks), NEW scope \in SUBSET Parent,
         NEW a, NEW sd, Held(a, sd, names, tasks, scope), NEW s \in Client, s \notin DOMAIN a.view,
         NEW fresh, NEW ws, NEW v, NEW c,
         SubscribeGives(names, tasks, scope, a, sd, s, fresh, ws, v, c)
  PROVE  /\ Good(c, names, tasks, scope)
         /\ sd \cup {p \in scope : Rows(names, tasks, p) # {}} \subseteq DOMAIN c.windows
<1>. /\ fresh = {p \in scope : Rows(names, tasks, p) # {} /\ p \notin sd}
     /\ ws = [p \in DOMAIN a.windows \cup fresh |->
                IF p \in fresh THEN Filled(WindowOf(a, p), Top(names, tasks, p)) ELSE a.windows[p]]
     /\ v = [x \in DOMAIN a.view \cup {s} |->
               IF x = s THEN UNION {{e.id : e \in ToSet(Top(names, tasks, p))} : p \in scope}
               ELSE a.view[x]]
     /\ c = [windows |-> ws, view |-> v]
  BY DEF SubscribeGives
<1>1. /\ a \in AccType /\ DOMAIN a.windows \subseteq scope /\ sd \subseteq DOMAIN a.windows
      /\ DOMAIN a.view = {} => DOMAIN a.windows = {}
      /\ DOMAIN a.view # {} => Good(a, names, tasks, scope)
  BY DEF Held
<1>2. /\ a.windows \in [DOMAIN a.windows -> WFW] /\ DOMAIN a.windows \subseteq Parent
      /\ a.view \in [DOMAIN a.view -> SUBSET Id] /\ DOMAIN a.view \subseteq Client
      /\ \A p : WindowOf(a, p) \in WFW
  BY <1>1, AccFields
<1>3. \A p \in DOMAIN a.windows : WindowOf(a, p) = a.windows[p] /\ Fits(a.windows[p], Rows(names, tasks, p))
  BY <1>1 DEF Good, WindowOf
<1>4. DOMAIN ws = DOMAIN a.windows \cup fresh /\ DOMAIN ws \subseteq scope
  BY <1>1
<1>5. ASSUME NEW p \in DOMAIN ws PROVE ws[p] \in WFW /\ Fits(ws[p], Rows(names, tasks, p))
  <2>1. CASE p \notin fresh
    <3>1. p \in DOMAIN a.windows /\ ws[p] = a.windows[p]
      BY <1>4, <2>1
    <3>2. QED
      BY <1>2, <1>3, <3>1
  <2>2. CASE p \in fresh /\ p \notin DOMAIN a.windows
    <3>1. PICK rows : rows = Top(names, tasks, p)
      OBVIOUS
    <3>2. ws[p] = Filled(EmptyWindow, rows)
      BY <2>2, <3>1 DEF WindowOf
    <3>3. QED
      BY <3>1, <3>2, Seeded
  <2>3. CASE p \in fresh /\ p \in DOMAIN a.windows
    <3>1. PICK w \in WFW : w = a.windows[p]
      BY <1>2, <2>3
    <3>2. WindowOf(a, p) = w /\ Fits(w, Rows(names, tasks, p))
      BY <1>3, <2>3, <3>1
    <3>3. PICK rows : rows = Top(names, tasks, p)
      OBVIOUS
    <3>4. rows \in Seq(Entry) /\ \A u : Has(w, u) <=> \E x \in ToSet(rows) : x.id = u
      BY <3>2, <3>3, FitsIsTop
    <3>5. Filled(w, rows) = w
      BY <3>4, FilledHeld
    <3>6. ws[p] = w
      BY <2>3, <3>2, <3>3, <3>5
    <3>7. QED
      BY <3>2, <3>6
  <2>4. QED
    BY <2>1, <2>2, <2>3
<1>6. ASSUME NEW p \in scope
      PROVE  WindowOf(c, p) \in WFW /\ Fits(WindowOf(c, p), Rows(names, tasks, p))
  <2>1. CASE p \in DOMAIN ws
    BY <1>5, <2>1 DEF WindowOf
  <2>2. CASE p \notin DOMAIN ws
    <3>1. Rows(names, tasks, p) = {}
      BY <1>1, <1>4, <2>2
    <3>2. QED
      BY <2>2, <3>1, EmptyFits DEF WindowOf
  <2>3. QED
    BY <2>1, <2>2
<1>7. ASSUME NEW x \in DOMAIN a.view, NEW p \in Parent, NEW u
      PROVE  Has(WindowOf(c, p), u) <=> Has(WindowOf(a, p), u)
  <2>1. Good(a, names, tasks, scope)
    BY <1>1
  <2>2. CASE p \in scope
    <3>1. Fits(WindowOf(a, p), Rows(names, tasks, p))
      BY <2>1, <2>2 DEF Good
    <3>2. PICK w \in WFW : w = WindowOf(a, p)
      BY <1>2
    <3>3. PICK z \in WFW : z = WindowOf(c, p)
      BY <1>6, <2>2
    <3>4. Fits(w, Rows(names, tasks, p)) /\ Fits(z, Rows(names, tasks, p))
      BY <1>6, <2>2, <3>1, <3>2, <3>3
    <3>5. /\ Has(w, u) <=> \E y \in ToSet(Top(names, tasks, p)) : y.id = u
          /\ Has(z, u) <=> \E y \in ToSet(Top(names, tasks, p)) : y.id = u
      BY <3>4, FitsIsTop
    <3>6. QED
      BY <3>2, <3>3, <3>5
  <2>3. CASE p \notin scope
    BY <1>1, <1>4, <2>3 DEF WindowOf
  <2>4. QED
    BY <2>2, <2>3
<1>8. \A u : u \in v[s] <=> \E p \in scope : Has(WindowOf(c, p), u)
  <2>1. v[s] = UNION {{e.id : e \in ToSet(Top(names, tasks, p))} : p \in scope}
    OBVIOUS
  <2>2. \A u : u \in v[s] <=> \E p \in scope : \E e \in ToSet(Top(names, tasks, p)) : e.id = u
    BY <2>1
  <2>3. ASSUME NEW p \in scope, NEW u
        PROVE  Has(WindowOf(c, p), u) <=> \E e \in ToSet(Top(names, tasks, p)) : e.id = u
    <3>1. PICK w \in WFW : w = WindowOf(c, p)
      BY <1>6
    <3>2. Fits(w, Rows(names, tasks, p))
      BY <1>6, <3>1
    <3>3. Has(w, u) <=> \E e \in ToSet(Top(names, tasks, p)) : e.id = u
      BY <3>2, FitsIsTop
    <3>4. QED
      BY <3>1, <3>3
  <2>4. QED
    BY <2>2, <2>3
<1>9. \A p \in scope : \A u : Has(WindowOf(c, p), u) => Listed(tasks, p, u)
  <2>1. ASSUME NEW p \in scope, NEW u, Has(WindowOf(c, p), u) PROVE Listed(tasks, p, u)
    BY <1>6, <2>1, FitsIsTop
  <2>2. QED
    BY <2>1
<1>10. \A p \in Parent \ scope : \A u : ~Has(WindowOf(c, p), u)
  BY <1>4, EmptyFits DEF WindowOf
<1>11. DOMAIN v = DOMAIN a.view \cup {s} /\ \A x \in DOMAIN a.view : v[x] = a.view[x]
  OBVIOUS
<1>12. c \in AccType
  <2>1. ws \in [DOMAIN ws -> WFW] /\ DOMAIN ws \subseteq Parent
    BY <1>4, <1>5
  <2>2. v[s] \in SUBSET Id
    BY <1>8, <1>9 DEF Listed
  <2>3. v \in [DOMAIN v -> SUBSET Id] /\ DOMAIN v \subseteq Client
    BY <1>2, <1>11, <2>2
  <2>4. QED
    BY <2>1, <2>3, AccIntro
<1>13. ASSUME NEW p \in Parent, NEW x \in DOMAIN v, NEW t \in Id
       PROVE  (t \in v[x] /\ tasks[t] # Absent /\ tasks[t].parent = p) <=> Has(WindowOf(c, p), t)
  <2>1. CASE x = s
    <3>1. Has(WindowOf(c, p), t) => p \in scope
      BY <1>10
    <3>2. QED
      BY <1>8, <1>9, <2>1, <3>1 DEF Listed
  <2>2. CASE x # s
    <3>1. x \in DOMAIN a.view /\ v[x] = a.view[x]
      BY <1>11, <2>2
    <3>2. (t \in a.view[x] /\ tasks[t] # Absent /\ tasks[t].parent = p) <=> Has(WindowOf(a, p), t)
      BY <1>1, <3>1 DEF Good, Shows
    <3>3. QED
      BY <1>7, <3>1, <3>2
  <2>3. QED
    BY <2>1, <2>2
<1>14. ASSUME NEW x \in DOMAIN v, NEW t \in v[x] PROVE tasks[t] # Absent
  <2>1. CASE x = s
    BY <1>8, <1>9, <2>1 DEF Listed
  <2>2. CASE x # s
    BY <1>1, <1>11, <2>2 DEF Good
  <2>3. QED
    BY <2>1, <2>2
<1>15. c.view = v /\ DOMAIN c.windows \subseteq scope
  BY <1>4
<1>16. ASSUME NEW p \in Parent PROVE Shows(c, tasks, p)
  <2>1. \A x \in DOMAIN v : \A t \in Id :
          (t \in v[x] /\ tasks[t] # Absent /\ tasks[t].parent = p) <=> Has(WindowOf(c, p), t)
    BY <1>13
  <2>2. QED
    BY <1>15, <2>1, Zenon DEF Shows
<1>17. Good(c, names, tasks, scope)
  BY <1>6, <1>12, <1>14, <1>15, <1>16 DEF Good
<1>18. QED
  BY <1>1, <1>4, <1>17

-----------------------------------------------------------------------------
(* What holds between two writes.                                          *)

Known == {p \in Parent : parents[p] # "absent"}

StoreInv ==
  /\ StoreOK(name, task)
  /\ parents \in [Parent -> {"absent", "in", "out"}] /\ IsFiniteSet(Known)
  /\ \A t \in Id : task[t] # Absent => task[t].parent \in Known

MarkInv == marked \subseteq InScope /\ (Subscribed # {} => marked = InScope)

IInv == StoreInv /\ MarkInv /\ Held(Acc, seeded, name, task, InScope)

LEMMA AccIs ==
  ASSUME NEW b \in AccType, Becomes(b)
  PROVE  Acc' = b /\ view' = b.view
BY AccFields DEF Becomes, Acc

LEMMA AccParts == Acc.windows = windows /\ Acc.view = view /\ Subscribed = DOMAIN Acc.view
BY DEF Acc, Subscribed

\* A handler that keeps what it must, or, without subscribers, leaves all as it was.
LEMMA HeldAgain ==
  ASSUME NEW a, NEW sd, NEW names1, NEW tasks1, NEW scope \in SUBSET Parent,
         Held(a, sd, names1, tasks1, scope),
         NEW b, NEW names2, NEW tasks2, Keeps(a, b), b \in AccType,
         DOMAIN a.view = {} => DOMAIN b.windows = {},
         DOMAIN a.view # {} => Good(b, names2, tasks2, scope)
  PROVE  Held(b, sd, names2, tasks2, scope)
<1>1. /\ sd \subseteq DOMAIN a.windows /\ DOMAIN a.windows \subseteq DOMAIN b.windows
      /\ DOMAIN b.view = DOMAIN a.view
  BY DEF Held, Keeps
<1>2. DOMAIN b.windows \subseteq scope
  BY DEF Good
<1>3. QED
  BY <1>1, <1>2 DEF Held

LEMMA GoodIsAcc ==
  ASSUME NEW a, NEW names, NEW tasks, NEW scope, Good(a, names, tasks, scope)
  PROVE  a \in AccType
BY DEF Good

\* A write of a task leaves the rest of the storage as it was.
LEMMA TaskWritten ==
  ASSUME StoreInv, NEW t \in Id, NEW row \in Task, parents[row.parent] # "absent",
         task' = [task EXCEPT ![t] = row], UNCHANGED <<name, parents>>
  PROVE  /\ StoreInv' /\ InScope' = InScope
         /\ StoreOK(name, task) /\ StoreOK(name, task') /\ OthersSame(task, task', t)
         /\ task'[t] = row
<1>1. StoreOK(name, task) /\ parents \in [Parent -> {"absent", "in", "out"}] /\ IsFiniteSet(Known)
  BY DEF StoreInv
<1>2. PICK tasks1 : tasks1 = task'
  OBVIOUS
<1>3. Wrote(task, tasks1, t, row)
  BY <1>2 DEF Wrote
<1>4. PICK tasks : tasks = task
  OBVIOUS
<1>5. PICK names : names = name
  OBVIOUS
<1>6. StoreOK(names, tasks) /\ Wrote(tasks, tasks1, t, row)
  BY <1>1, <1>3, <1>4, <1>5
<1>7. StoreOK(names, tasks1) /\ OthersSame(tasks, tasks1, t) /\ tasks1[t] = row
  BY <1>6, StoreWith
<1>8. StoreOK(name, task') /\ OthersSame(task, task', t) /\ task'[t] = row
  BY <1>2, <1>4, <1>5, <1>7
<1>9. Known' = Known /\ InScope' = InScope
  BY DEF Known, InScope
<1>10. row.parent \in Known
  BY DEF Known, Task
<1>11. \A u \in Id : task'[u] # Absent => task'[u].parent \in Known'
  BY <1>8, <1>9, <1>10 DEF StoreInv, OthersSame
<1>12. StoreOK(name, task)' 
  BY <1>8
<1>13. StoreInv'
  BY <1>1, <1>9, <1>11, <1>12 DEF StoreInv
<1>14. QED
  BY <1>1, <1>8, <1>9, <1>13

LEMMA InsertTaskKeeps ==
  ASSUME IInv, NEW t \in Id, NEW row \in Task, InsertTask(t, row)
  PROVE  IInv'
<1>1. /\ task[t] = Absent /\ parents[row.parent] # "absent"
      /\ task' = [task EXCEPT ![t] = row]
      /\ Becomes(IF Subscribed # {} /\ row.parent \in marked /\ row.ok
                 THEN Placed(Acc, row.parent, EntryOf(name, task', t)) ELSE Acc)
      /\ UNCHANGED <<name, parents, marked, seeded>>
  BY DEF InsertTask
<1>2. /\ StoreInv' /\ InScope' = InScope
      /\ StoreOK(name, task) /\ StoreOK(name, task') /\ OthersSame(task, task', t)
      /\ task'[t] = row
  BY <1>1, TaskWritten DEF IInv
<1>3. PICK tasks : tasks = task
  OBVIOUS
<1>4. PICK tasks1 : tasks1 = task'
  OBVIOUS
<1>5. PICK names : names = name
  OBVIOUS
<1>6. PICK a : a = Acc
  OBVIOUS
<1>7. PICK scope \in SUBSET Parent : scope = InScope
  BY DEF InScope
<1>8. PICK p : p = row.parent
  OBVIOUS
<1>9. /\ StoreOK(names, tasks) /\ StoreOK(names, tasks1) /\ OthersSame(tasks, tasks1, t)
      /\ tasks[t] = Absent /\ tasks1[t] = row /\ tasks1[t] # Absent
      /\ Held(a, seeded, names, tasks, scope) /\ a \in AccType
  BY <1>1, <1>2, <1>3, <1>4, <1>5, <1>6, <1>7, ParentAssumption DEF IInv, Task, Held
<1>10. DOMAIN a.view = Subscribed
  BY <1>6, AccParts
<1>11. PICK b : b = IF Subscribed # {} /\ p \in marked /\ row.ok
                    THEN Placed(a, p, EntryOf(names, tasks1, t)) ELSE a
  OBVIOUS
<1>12. Becomes(b)
  BY <1>1, <1>4, <1>5, <1>6, <1>8, <1>11
<1>13. /\ b \in AccType /\ Keeps(a, b)
       /\ DOMAIN a.view = {} => DOMAIN b.windows = {}
       /\ DOMAIN a.view # {} => Good(b, names, tasks1, scope)
  <2>1. CASE Subscribed = {}
    BY <1>9, <1>10, <1>11, <2>1 DEF Held, Keeps
  <2>2. CASE Subscribed # {}
    <3>1. Good(a, names, tasks, scope) /\ marked = scope
      BY <1>7, <1>9, <1>10, <2>2 DEF Held, IInv, MarkInv
    <3>2. CASE p \in marked /\ row.ok
      <4>1. p \in scope /\ Listed(tasks1, p, t)
        BY <1>8, <1>9, <3>1, <3>2 DEF Listed
      <4>2. /\ Good(Placed(a, p, EntryOf(names, tasks1, t)), names, tasks1, scope)
            /\ Keeps(a, Placed(a, p, EntryOf(names, tasks1, t)))
        BY <1>9, <3>1, <4>1, PlacedGood
      <4>3. b = Placed(a, p, EntryOf(names, tasks1, t))
        BY <1>11, <2>2, <3>2
      <4>4. QED
        BY <1>10, <2>2, <4>2, <4>3, GoodIsAcc
    <3>3. CASE ~(p \in marked /\ row.ok)
      <4>1. \A q \in scope : ~Listed(tasks1, q, t)
        BY <1>8, <1>9, <3>1, <3>3 DEF Listed
      <4>2. Good(a, names, tasks1, scope)
        BY <1>9, <3>1, <4>1, AbsentGood
      <4>3. b = a
        BY <1>11, <3>3
      <4>4. QED
        BY <1>9, <1>10, <2>2, <4>2, <4>3 DEF Keeps
    <3>4. QED
      BY <3>2, <3>3
  <2>3. QED
    BY <2>1, <2>2
<1>14. Held(b, seeded, names, tasks1, scope)
  BY <1>9, <1>13, HeldAgain
<1>15. Acc' = b /\ view' = b.view
  BY <1>12, <1>13, AccIs
<1>16. Held(Acc, seeded, name, task, InScope)'
  BY <1>1, <1>2, <1>4, <1>5, <1>7, <1>14, <1>15
<1>17. MarkInv'
  BY <1>1, <1>2, <1>10, <1>13, <1>15 DEF IInv, MarkInv, Keeps, Subscribed
<1>18. QED
  BY <1>2, <1>16, <1>17 DEF IInv

LEMMA UpdateTaskKeeps ==
  ASSUME IInv, NEW t \in Id, NEW row \in Task, UpdateTask(t, row)
  PROVE  IInv'
<1>1. /\ parents[row.parent] # "absent"
      /\ task' = [task EXCEPT ![t] = row]
      /\ UNCHANGED <<name, parents, marked, seeded>>
  BY DEF UpdateTask
<1>2. /\ StoreInv' /\ InScope' = InScope
      /\ StoreOK(name, task) /\ StoreOK(name, task') /\ OthersSame(task, task', t)
      /\ task'[t] = row
  BY <1>1, TaskWritten DEF IInv
<1>3. PICK tasks : tasks = task
  OBVIOUS
<1>4. PICK tasks1 : tasks1 = task'
  OBVIOUS
<1>5. PICK names : names = name
  OBVIOUS
<1>6. PICK a : a = Acc
  OBVIOUS
<1>7. PICK scope \in SUBSET Parent : scope = InScope
  BY DEF InScope
<1>8. PICK p : p = row.parent
  OBVIOUS
<1>9. /\ StoreOK(names, tasks) /\ StoreOK(names, tasks1) /\ OthersSame(tasks, tasks1, t)
      /\ tasks1[t] \in Task /\ tasks1[t] = row /\ p = tasks1[t].parent
      /\ Held(a, seeded, names, tasks, scope) /\ a \in AccType
  BY <1>1, <1>2, <1>3, <1>4, <1>5, <1>6, <1>7, <1>8 DEF IInv, Held
<1>10. DOMAIN a.view = Subscribed
  BY <1>6, AccParts
<1>11. PICK matches : matches = (row.parent \in marked /\ row.ok)
  OBVIOUS
<1>12. PICK reassigned : reassigned = Reassigned(t, row)
  OBVIOUS
<1>13. PICK b : b = IF Subscribed = {} THEN a ELSE Moved(a, t, p, matches, names, tasks1, reassigned)
  OBVIOUS
<1>14. Becomes(b)
  <2>1. Becomes(IF Subscribed = {} THEN Acc
                ELSE Moved(Acc, t, row.parent, matches, name, task', Reassigned(t, row)))
    BY <1>11 DEF UpdateTask
  <2>2. QED
    BY <1>4, <1>5, <1>6, <1>8, <1>12, <1>13, <2>1
<1>15. /\ b \in AccType /\ Keeps(a, b)
       /\ DOMAIN a.view = {} => DOMAIN b.windows = {}
       /\ DOMAIN a.view # {} => Good(b, names, tasks1, scope)
  <2>1. CASE Subscribed = {}
    BY <1>9, <1>10, <1>13, <2>1 DEF Held, Keeps
  <2>2. CASE Subscribed # {}
    <3>1. Good(a, names, tasks, scope) /\ marked = scope
      BY <1>7, <1>9, <1>10, <2>2 DEF Held, IInv, MarkInv
    <3>2. matches <=> p \in scope /\ tasks1[t].ok
      BY <1>8, <1>9, <1>11, <3>1
    <3>3. reassigned <=> tasks1[t].assignee # tasks[t].assignee
      BY <1>3, <1>9, <1>12 DEF Reassigned
    <3>4. b = Moved(a, t, p, matches, names, tasks1, reassigned)
      BY <1>13, <2>2
    <3>5. /\ Good(Moved(a, t, p, matches, names, tasks1, reassigned), names, tasks1, scope)
          /\ Keeps(a, Moved(a, t, p, matches, names, tasks1, reassigned))
      BY <1>9, <3>1, <3>2, <3>3, MovedGood
    <3>6. QED
      BY <1>10, <2>2, <3>4, <3>5, GoodIsAcc
  <2>3. QED
    BY <2>1, <2>2
<1>16. Held(b, seeded, names, tasks1, scope)
  BY <1>9, <1>15, HeldAgain
<1>17. Acc' = b /\ view' = b.view
  BY <1>14, <1>15, AccIs
<1>18. Held(Acc, seeded, name, task, InScope)'
  BY <1>1, <1>2, <1>4, <1>5, <1>7, <1>16, <1>17
<1>19. MarkInv'
  BY <1>1, <1>2, <1>10, <1>15, <1>17 DEF IInv, MarkInv, Keeps, Subscribed
<1>20. QED
  BY <1>2, <1>18, <1>19 DEF IInv

LEMMA RenameKeeps ==
  ASSUME IInv, NEW u \in User, NEW v \in Value, Rename(u, v)
  PROVE  IInv'
<1>1. /\ name' = [name EXCEPT ![u] = v]
      /\ Becomes(Reread(Fanned(Acc, OrderedBy(u), v), name', task))
      /\ UNCHANGED <<task, parents, marked, seeded>>
  BY DEF Rename
<1>2. /\ StoreOK(name, task) /\ StoreOK(name', task) /\ StoreInv' /\ InScope' = InScope
  <2>1. name' \in [User -> Value]
    BY <1>1 DEF IInv, StoreInv, StoreOK
  <2>2. StoreOK(name, task) /\ StoreOK(name', task)
    BY <2>1 DEF IInv, StoreInv, StoreOK
  <2>3. StoreOK(name, task)'
    BY <1>1, <2>2
  <2>4. Known' = Known /\ InScope' = InScope
    BY <1>1 DEF Known, InScope
  <2>5. QED
    BY <1>1, <2>2, <2>3, <2>4 DEF IInv, StoreInv
<1>3. PICK tasks : tasks = task
  OBVIOUS
<1>4. PICK names : names = name
  OBVIOUS
<1>5. PICK names1 : names1 = name'
  OBVIOUS
<1>6. PICK a : a = Acc
  OBVIOUS
<1>7. PICK scope \in SUBSET Parent : scope = InScope
  BY DEF InScope
<1>8. PICK ids : ids = OrderedBy(u)
  OBVIOUS
<1>9. /\ StoreOK(names, tasks) /\ StoreOK(names1, tasks)
      /\ Held(a, seeded, names, tasks, scope) /\ a \in AccType
  BY <1>1, <1>2, <1>3, <1>4, <1>5, <1>6, <1>7 DEF IInv, Held
<1>10. DOMAIN a.view = Subscribed
  BY <1>6, AccParts
<1>11. IsFiniteSet(DOMAIN a.windows)
  <2>1. DOMAIN a.windows \subseteq Known
    BY <1>7, <1>9 DEF Held, InScope, Known
  <2>2. IsFiniteSet(Known)
    BY DEF IInv, StoreInv
  <2>3. QED
    BY <2>1, <2>2, FS_Subset
<1>12. PICK f : f = Fanned(a, ids, v)
  OBVIOUS
<1>13. /\ f \in AccType /\ DOMAIN f.windows = DOMAIN a.windows /\ f.view = a.view
       /\ \A q, x : Has(WindowOf(f, q), x) <=> Has(WindowOf(a, q), x)
  BY <1>9, <1>12, FannedOver
<1>14. Shown(f, tasks)
  <2>1. CASE DOMAIN a.view = {}
    BY <1>13, <2>1 DEF Shown, Shows
  <2>2. CASE DOMAIN a.view # {}
    <3>1. Good(a, names, tasks, scope)
      BY <1>9, <2>2 DEF Held
    <3>2. QED
      BY <1>13, <3>1 DEF Good, Shown, Shows
  <2>3. QED
    BY <2>1, <2>2
<1>15. PICK b : b = Reread(f, names1, tasks)
  OBVIOUS
<1>16. /\ b \in AccType
       /\ DOMAIN b.windows = DOMAIN f.windows /\ DOMAIN b.view = DOMAIN f.view
  <2>1. IsFiniteSet(DOMAIN f.windows)
    BY <1>11, <1>13
  <2>2. QED
    BY <1>9, <1>13, <1>14, <1>15, <2>1, RereadGood
<1>17. Becomes(b)
  BY <1>1, <1>3, <1>5, <1>6, <1>8, <1>12, <1>15
<1>18. DOMAIN a.view # {} => Good(b, names1, tasks, scope)
  <2>1. ASSUME DOMAIN a.view # {} PROVE Good(b, names1, tasks, scope)
    <3>1. Good(a, names, tasks, scope)
      BY <1>9, <2>1 DEF Held
    <3>2. Good(Reread(Fanned(a, ids, v), names1, tasks), names1, tasks, scope)
      BY <1>9, <1>11, <3>1, RenamedGood
    <3>3. QED
      BY <1>12, <1>15, <3>2
  <2>2. QED
    BY <2>1
<1>19. Keeps(a, b) /\ (DOMAIN a.view = {} => DOMAIN b.windows = {})
  BY <1>9, <1>13, <1>16 DEF Held, Keeps
<1>20. Held(b, seeded, names1, tasks, scope)
  BY <1>9, <1>16, <1>18, <1>19, HeldAgain
<1>21. Acc' = b /\ view' = b.view
  BY <1>16, <1>17, AccIs
<1>22. Held(Acc, seeded, name, task, InScope)'
  BY <1>1, <1>2, <1>3, <1>5, <1>7, <1>20, <1>21
<1>23. MarkInv'
  BY <1>1, <1>2, <1>10, <1>19, <1>21 DEF IInv, MarkInv, Keeps, Subscribed
<1>24. QED
  BY <1>2, <1>22, <1>23 DEF IInv

\* A parent without rows may come into scope, and one without a window may leave it.
LEMMA ScopeGrows ==
  ASSUME NEW names, NEW tasks, NEW scope \in SUBSET Parent, NEW p \in Parent \ scope,
         NEW a, NEW sd, Held(a, sd, names, tasks, scope), Rows(names, tasks, p) = {}
  PROVE  Held(a, sd, names, tasks, scope \cup {p})
<1>1. DOMAIN a.windows \subseteq scope
  BY DEF Held
<1>2. Fits(WindowOf(a, p), Rows(names, tasks, p))
  BY <1>1, EmptyFits DEF WindowOf
<1>3. QED
  BY <1>2 DEF Held, Good

LEMMA ScopeShrinks ==
  ASSUME NEW names, NEW tasks, NEW scope \in SUBSET Parent, NEW p,
         NEW a, NEW sd, Held(a, sd, names, tasks, scope), p \notin DOMAIN a.windows
  PROVE  Held(a, sd, names, tasks, scope \ {p})
<1>1. DOMAIN a.windows \subseteq scope \ {p}
  BY DEF Held
<1>2. QED
  BY <1>1 DEF Held, Good

\* The storage with another status of one parent.
LEMMA ParentWritten ==
  ASSUME StoreInv, NEW p \in Parent, NEW to \in {"in", "out"}, parents' = [parents EXCEPT ![p] = to],
         UNCHANGED <<name, task>>
  PROVE  /\ StoreInv'
         /\ InScope' = IF to = "in" THEN InScope \cup {p} ELSE InScope \ {p}
<1>1. /\ parents \in [Parent -> {"absent", "in", "out"}] /\ IsFiniteSet(Known)
      /\ \A t \in Id : task[t] # Absent => task[t].parent \in Known
  BY DEF StoreInv
<1>2. /\ parents' \in [Parent -> {"absent", "in", "out"}] /\ parents'[p] = to
      /\ \A q \in Parent : q # p => parents'[q] = parents[q]
  BY <1>1
<1>3. Known' = Known \cup {p}
  BY <1>2 DEF Known
<1>4. IsFiniteSet(Known')
  BY <1>1, <1>3, FS_AddElement
<1>5. StoreOK(name, task)'
  BY DEF StoreInv, StoreOK, Stored
<1>6. StoreInv'
  BY <1>1, <1>2, <1>3, <1>4, <1>5 DEF StoreInv
<1>7. InScope' = IF to = "in" THEN InScope \cup {p} ELSE InScope \ {p}
  BY <1>2 DEF InScope
<1>8. QED
  BY <1>6, <1>7

LEMMA InsertParentKeeps ==
  ASSUME IInv, NEW p \in Parent, NEW to \in {"in", "out"}, InsertParent(p, to)
  PROVE  IInv'
<1>1. /\ parents[p] = "absent" /\ parents' = [parents EXCEPT ![p] = to]
      /\ marked' = IF to = "in" /\ Subscribed # {} THEN marked \cup {p} ELSE marked
      /\ UNCHANGED <<name, task, windows, seeded, view>>
  BY DEF InsertParent
<1>2. StoreInv /\ MarkInv /\ Held(Acc, seeded, name, task, InScope)
  BY DEF IInv
<1>3. /\ StoreInv'
      /\ InScope' = IF to = "in" THEN InScope \cup {p} ELSE InScope \ {p}
  BY <1>1, <1>2, ParentWritten
<1>4. Acc' = Acc /\ Subscribed' = Subscribed
  BY <1>1 DEF Acc, Subscribed
<1>5. p \notin InScope /\ InScope \in SUBSET Parent /\ p \notin Known
  BY <1>1 DEF InScope, Known
<1>6. Rows(name, task, p) = {}
  <2>1. \A t : ~Listed(task, p, t)
    BY <1>2, <1>5 DEF StoreInv, Listed
  <2>2. StoreOK(name, task)
    BY <1>2 DEF StoreInv
  <2>3. QED
    BY <2>1, <2>2, RowsFacts
<1>7. Held(Acc, seeded, name, task, InScope)'
  <2>1. Held(Acc, seeded, name, task, InScope')
    <3>1. CASE to = "in"
      <4>1. Held(Acc, seeded, name, task, InScope \cup {p})
        BY <1>2, <1>5, <1>6, ScopeGrows
      <4>2. QED
        BY <1>3, <3>1, <4>1
    <3>2. CASE to = "out"
      <4>1. InScope' = InScope
        BY <1>3, <1>5, <3>2
      <4>2. QED
        BY <1>2, <4>1
    <3>3. QED
      BY <3>1, <3>2
  <2>2. QED
    BY <1>1, <1>4, <2>1
<1>8. MarkInv'
  BY <1>1, <1>2, <1>3, <1>4, <1>5 DEF MarkInv
<1>9. QED
  BY <1>3, <1>7, <1>8 DEF IInv

LEMMA ParentScopesInKeeps ==
  ASSUME IInv, NEW p \in Parent, ParentScopesIn(p)
  PROVE  IInv'
<1>1. /\ parents[p] = "out" /\ parents' = [parents EXCEPT ![p] = "in"]
      /\ UNCHANGED <<name, task>>
  BY DEF ParentScopesIn
<1>2. StoreInv /\ MarkInv /\ Held(Acc, seeded, name, task, InScope)
  BY DEF IInv
<1>3. StoreInv' /\ InScope' = InScope \cup {p}
  BY <1>1, <1>2, ParentWritten
<1>4. PICK scope \in SUBSET Parent : scope = InScope /\ p \in Parent \ scope
  BY <1>1 DEF InScope
<1>5. CASE Subscribed = {}
  <2>1. UNCHANGED <<marked, windows, seeded, view>>
    BY <1>5 DEF ParentScopesIn
  <2>2. Acc' = Acc /\ Subscribed' = Subscribed
    BY <2>1 DEF Acc, Subscribed
  <2>3. Held(Acc, seeded, name, task, scope \cup {p})
    BY <1>2, <1>4, <1>5, AccParts DEF Held
  <2>4. Held(Acc, seeded, name, task, InScope)'
    BY <1>1, <1>3, <1>4, <2>1, <2>2, <2>3
  <2>5. MarkInv'
    BY <1>2, <1>3, <1>5, <2>1, <2>2 DEF MarkInv
  <2>6. QED
    BY <1>3, <2>4, <2>5 DEF IInv
<1>6. CASE Subscribed # {}
  <2>1. /\ marked' = marked \cup {p} /\ Becomes(TreeSent(p, Acc)) /\ seeded' = NowSeeded({p})
    BY <1>6 DEF ParentScopesIn
  <2>2. PICK tasks : tasks = task
    OBVIOUS
  <2>3. PICK names : names = name
    OBVIOUS
  <2>4. PICK a : a = Acc
    OBVIOUS
  <2>5. DOMAIN a.view = Subscribed
    BY <2>4, AccParts
  <2>6. /\ StoreOK(names, tasks) /\ Held(a, seeded, names, tasks, scope)
        /\ Good(a, names, tasks, scope)
    BY <1>2, <1>4, <1>6, <2>2, <2>3, <2>4, <2>5 DEF StoreInv, Held
  <2>7. PICK rows : rows = Top(names, tasks, p)
    OBVIOUS
  <2>8. PICK c : c = TreeSent(p, a)
    OBVIOUS
  <2>9. p \notin seeded
    BY <1>4, <2>6 DEF Held
  <2>10. Sent(a, p, rows, c)
    BY <2>2, <2>3, <2>7, <2>8, <2>9 DEF TreeSent, Sent
  <2>11. /\ Good(c, names, tasks, scope \cup {p}) /\ Keeps(a, c)
         /\ Rows(names, tasks, p) # {} => p \in DOMAIN c.windows
    BY <1>4, <2>6, <2>7, <2>10, SentGood
  <2>12. c \in AccType /\ DOMAIN c.windows \subseteq scope \cup {p}
    BY <2>11 DEF Good
  <2>13. Acc' = c /\ view' = c.view
    BY <2>1, <2>4, <2>8, <2>12, AccIs
  <2>14. seeded' \subseteq DOMAIN c.windows
    BY <2>1, <2>2, <2>3, <2>6, <2>11 DEF NowSeeded, Held, Keeps
  <2>15. Held(c, seeded', names, tasks, scope \cup {p})
    BY <1>6, <2>5, <2>11, <2>12, <2>14 DEF Held, Keeps
  <2>16. Held(Acc, seeded, name, task, InScope)'
    BY <1>1, <1>3, <1>4, <2>2, <2>3, <2>13, <2>15
  <2>17. MarkInv'
    BY <1>2, <1>3, <1>6, <2>1, <2>5, <2>11, <2>13 DEF MarkInv
  <2>18. QED
    BY <1>3, <2>16, <2>17 DEF IInv
<1>7. QED
  BY <1>5, <1>6

LEMMA ParentScopesOutKeeps ==
  ASSUME IInv, ~Leaves, NEW p \in Parent, ParentScopesOut(p)
  PROVE  IInv'
<1>1. /\ p \notin DOMAIN windows /\ parents' = [parents EXCEPT ![p] = "out"]
      /\ marked' = marked \ {p}
      /\ UNCHANGED <<name, task, windows, seeded, view>>
  BY DEF ParentScopesOut
<1>2. StoreInv /\ MarkInv /\ Held(Acc, seeded, name, task, InScope)
  BY DEF IInv
<1>3. StoreInv' /\ InScope' = InScope \ {p}
  BY <1>1, <1>2, ParentWritten
<1>4. Acc' = Acc /\ Subscribed' = Subscribed
  BY <1>1 DEF Acc, Subscribed
<1>5. Held(Acc, seeded, name, task, InScope \ {p})
  <2>1. p \notin DOMAIN Acc.windows /\ InScope \in SUBSET Parent
    BY <1>1, AccParts DEF InScope
  <2>2. QED
    BY <1>2, <2>1, ScopeShrinks
<1>6. Held(Acc, seeded, name, task, InScope)'
  BY <1>1, <1>3, <1>4, <1>5
<1>7. MarkInv'
  BY <1>1, <1>2, <1>3, <1>4 DEF MarkInv
<1>8. QED
  BY <1>3, <1>6, <1>7 DEF IInv

LEMMA SubscribeKeeps ==
  ASSUME IInv, NEW s \in Client, Subscribe(s)
  PROVE  IInv'
<1>1. PICK tasks : tasks = task
  OBVIOUS
<1>2. PICK names : names = name
  OBVIOUS
<1>3. PICK a : a = Acc
  OBVIOUS
<1>4. PICK scope \in SUBSET Parent : scope = InScope
  BY DEF InScope
<1>5. PICK sd : sd = seeded
  OBVIOUS
<1>6. StoreInv /\ MarkInv /\ StoreOK(names, tasks) /\ Held(a, sd, names, tasks, scope)
  BY <1>1, <1>2, <1>3, <1>4, <1>5 DEF IInv, StoreInv
<1>7. a.windows = windows /\ a.view = view /\ DOMAIN a.view = Subscribed /\ a \in AccType
  BY <1>3, <1>6, AccParts DEF Held
<1>8. PICK fresh : fresh = {p \in scope : Rows(names, tasks, p) # {} /\ p \notin sd}
  OBVIOUS
<1>9. PICK ws : ws = [p \in DOMAIN a.windows \cup fresh |->
                        IF p \in fresh THEN Filled(WindowOf(a, p), Top(names, tasks, p)) ELSE a.windows[p]]
  OBVIOUS
<1>10. PICK v : v = [x \in DOMAIN a.view \cup {s} |->
                       IF x = s THEN UNION {{e.id : e \in ToSet(Top(names, tasks, p))} : p \in scope}
                       ELSE a.view[x]]
  OBVIOUS
<1>11. PICK c : c = [windows |-> ws, view |-> v]
  OBVIOUS
<1>12. /\ s \notin Subscribed /\ marked' = marked \cup scope /\ windows' = ws
       /\ seeded' = seeded \cup {p \in scope : Rows(names, tasks, p) # {}}
       /\ view' = v /\ UNCHANGED <<name, task, parents>>
  BY <1>1, <1>2, <1>3, <1>4, <1>5, <1>7, <1>8, <1>9, <1>10 DEF Subscribe, InScope, NowSeeded, store, Subscribed
<1>13. /\ Good(c, names, tasks, scope)
       /\ sd \cup {p \in scope : Rows(names, tasks, p) # {}} \subseteq DOMAIN c.windows
  <2>1. s \notin DOMAIN a.view
    BY <1>7, <1>12
  <2>2. SubscribeGives(names, tasks, scope, a, sd, s, fresh, ws, v, c)
    BY <1>8, <1>9, <1>10, <1>11 DEF SubscribeGives
  <2>3. QED
    BY <1>4, <1>6, <2>1, <2>2, SubscribedGood
<1>14. Acc' = c
  BY <1>11, <1>12 DEF Acc
<1>15. s \in DOMAIN v /\ c.view = v /\ c.windows = ws
  BY <1>10, <1>11
<1>16. seeded' \subseteq DOMAIN c.windows
  BY <1>5, <1>12, <1>13
<1>17. Held(c, seeded', names, tasks, scope)
  BY <1>13, <1>15, <1>16 DEF Held, Good
<1>18. InScope' = InScope /\ Known' = Known
  BY <1>12 DEF InScope, Known
<1>19. Held(Acc, seeded, name, task, InScope)'
  BY <1>1, <1>2, <1>4, <1>12, <1>14, <1>17, <1>18
<1>20. MarkInv'
  BY <1>4, <1>6, <1>12, <1>18 DEF MarkInv
<1>21. StoreInv'
  BY <1>6, <1>12, <1>18 DEF StoreInv, StoreOK, Stored
<1>22. QED
  BY <1>19, <1>20, <1>21 DEF IInv

LEMMA UnsubscribeKeeps ==
  ASSUME IInv, NEW s \in Client, Unsubscribe(s)
  PROVE  IInv'
<1>1. /\ s \in Subscribed /\ view' = Restrict(view, Subscribed \ {s})
      /\ IF Subscribed = {s} THEN windows' = [p \in {} |-> EmptyWindow] /\ seeded' = {}
         ELSE UNCHANGED <<windows, seeded>>
      /\ UNCHANGED <<name, task, parents, marked>>
  BY DEF Unsubscribe, store
<1>2. StoreInv /\ MarkInv /\ Held(Acc, seeded, name, task, InScope)
  BY DEF IInv
<1>3. InScope' = InScope /\ Known' = Known
  BY <1>1 DEF InScope, Known
<1>4. StoreInv'
  BY <1>1, <1>2, <1>3 DEF StoreInv, StoreOK, Stored
<1>5. /\ DOMAIN view' = Subscribed \ {s} /\ \A x \in Subscribed \ {s} : view'[x] = view[x]
      /\ Subscribed' = Subscribed \ {s}
  BY <1>1 DEF Restrict, Subscribed
<1>6. MarkInv'
  BY <1>1, <1>2, <1>3, <1>5 DEF MarkInv
<1>7. /\ Acc.windows = windows /\ Acc.view = view /\ Acc \in AccType
      /\ Acc' = [windows |-> windows', view |-> view']
      /\ Good(Acc, name, task, InScope)
  BY <1>1, <1>2, AccParts DEF Held, Acc
<1>8. /\ windows \in [DOMAIN windows -> WFW] /\ DOMAIN windows \subseteq Parent
      /\ view \in [DOMAIN view -> SUBSET Id] /\ DOMAIN view \subseteq Client
  BY <1>7, AccFields
<1>9. view' \in [DOMAIN view' -> SUBSET Id] /\ DOMAIN view' \subseteq Client
  <2>1. view' = [x \in Subscribed \ {s} |-> view[x]] /\ Subscribed = DOMAIN view
    BY <1>1 DEF Restrict, Subscribed
  <2>2. QED
    BY <1>8, <2>1
<1>10. PICK c : c = [windows |-> windows', view |-> view']
  OBVIOUS
<1>11. c.windows = windows' /\ c.view = view' /\ Acc' = c
  BY <1>7, <1>10
<1>12. CASE Subscribed = {s}
  <2>1. windows' = [p \in {} |-> EmptyWindow] /\ seeded' = {} /\ DOMAIN view' = {}
    BY <1>1, <1>5, <1>12
  <2>2. c \in AccType
    BY <1>9, <1>10, <2>1, AccIntro
  <2>3. Held(c, seeded', name, task, InScope)
    BY <1>11, <2>1, <2>2 DEF Held
  <2>4. Held(Acc, seeded, name, task, InScope)'
    BY <1>1, <1>3, <1>11, <2>3
  <2>5. QED
    BY <1>4, <1>6, <2>4 DEF IInv
<1>13. CASE Subscribed # {s}
  <2>1. windows' = windows /\ seeded' = seeded /\ DOMAIN view' # {}
    BY <1>1, <1>5, <1>13
  <2>2. c \in AccType
    BY <1>8, <1>9, <1>10, <2>1, AccIntro
  <2>3. \A q : WindowOf(c, q) = WindowOf(Acc, q)
    BY <1>7, <1>11, <2>1 DEF WindowOf
  <2>4. Good(c, name, task, InScope)
    BY <1>5, <1>7, <1>11, <2>1, <2>2, <2>3 DEF Good, Shows, Subscribed
  <2>5. Held(c, seeded', name, task, InScope)
    BY <1>2, <1>7, <1>11, <2>1, <2>2, <2>4 DEF Held
  <2>6. Held(Acc, seeded, name, task, InScope)'
    BY <1>1, <1>3, <1>11, <2>5
  <2>7. QED
    BY <1>4, <1>6, <2>6 DEF IInv
<1>14. QED
  BY <1>12, <1>13

-----------------------------------------------------------------------------
(* The theorems.                                                           *)

LEMMA Start == Init => IInv
<1> SUFFICES ASSUME Init PROVE IInv
  OBVIOUS
<1>1. /\ name \in [User -> Value] /\ task = [t \in Id |-> Absent]
      /\ parents = [p \in Parent |-> "absent"]
      /\ marked = {} /\ seeded = {}
      /\ windows = [p \in {} |-> EmptyWindow] /\ view = [s \in {} |-> {}]
  BY DEF Init
<1>2. Stored(task) = {} /\ Known = {} /\ InScope = {} /\ Subscribed = {}
  BY <1>1 DEF Stored, Known, InScope, Subscribed
<1>3. StoreInv
  BY <1>1, <1>2, FS_EmptySet DEF StoreInv, StoreOK
<1>4. Acc \in AccType
  <2>1. windows \in [DOMAIN windows -> WFW] /\ DOMAIN windows \subseteq Parent
    BY <1>1
  <2>2. view \in [DOMAIN view -> SUBSET Id] /\ DOMAIN view \subseteq Client
    BY <1>1
  <2>3. QED
    BY <2>1, <2>2, AccIntro DEF Acc
<1>5. Held(Acc, seeded, name, task, InScope)
  BY <1>1, <1>2, <1>4, AccParts DEF Held
<1>6. QED
  BY <1>1, <1>2, <1>3, <1>5 DEF IInv, MarkInv

LEMMA Steps ==
  ASSUME ~Leaves, IInv, [Next]_vars
  PROVE  IInv'
<1>1. CASE UNCHANGED vars
  <2>1. /\ name' = name /\ task' = task /\ parents' = parents /\ marked' = marked
        /\ windows' = windows /\ seeded' = seeded /\ view' = view
    BY <1>1 DEF vars, store
  <2>2. QED
    BY <2>1 DEF IInv, StoreInv, MarkInv, StoreOK, Stored, Known, InScope, Subscribed, Acc
<1>2. CASE Next
  <2>1. CASE \E t \in Id, row \in Task : InsertTask(t, row) \/ UpdateTask(t, row)
    BY <2>1, InsertTaskKeeps, UpdateTaskKeeps
  <2>2. CASE \E u \in User, v \in Value : Rename(u, v)
    BY <2>2, RenameKeeps
  <2>3. CASE \E p \in Parent, to \in {"in", "out"} : InsertParent(p, to)
    BY <2>3, InsertParentKeeps
  <2>4. CASE \E p \in Parent : ParentScopesIn(p) \/ ParentScopesOut(p)
    BY <2>4, ParentScopesInKeeps, ParentScopesOutKeeps
  <2>5. CASE \E s \in Client : Subscribe(s) \/ Unsubscribe(s)
    BY <2>5, SubscribeKeeps, UnsubscribeKeeps
  <2>6. QED
    BY <1>2, <2>1, <2>2, <2>3, <2>4, <2>5 DEF Next
<1>3. QED
  BY <1>1, <1>2

LEMMA AlwaysIInv ==
  ASSUME ~Leaves
  PROVE  Spec => []IInv
<1>1. Init => IInv
  BY Start
<1>2. IInv /\ [Next]_vars => IInv'
  BY Steps
<1>3. QED
  BY <1>1, <1>2, PTL DEF Spec

LEMMA WindowsAreTop == IInv => ParentWindowsAreTop
<1> SUFFICES ASSUME IInv PROVE ParentWindowsAreTop
  OBVIOUS
<1>1. /\ StoreInv /\ MarkInv /\ Held(Acc, seeded, name, task, InScope)
      /\ StoreOK(name, task)
      /\ Acc.windows = windows /\ Acc.view = view /\ DOMAIN Acc.view = Subscribed
  BY AccParts DEF IInv, StoreInv
<1>2. /\ Acc \in AccType /\ DOMAIN windows \subseteq InScope /\ seeded \subseteq DOMAIN windows
      /\ Subscribed = {} => DOMAIN windows = {}
      /\ Subscribed # {} => Good(Acc, name, task, InScope)
  BY <1>1 DEF Held
<1>3. /\ windows \in [DOMAIN windows -> WFW] /\ DOMAIN windows \subseteq Parent
      /\ view \in [DOMAIN view -> SUBSET Id] /\ DOMAIN view \subseteq Client
      /\ \A p : WindowOf(Acc, p) \in WFW
  BY <1>1, <1>2, AccFields
<1>4. TypeOK
  <2>1. \A p \in DOMAIN windows : WellFormed(windows[p])
    BY <1>3 DEF WFW
  <2>2. name \in [User -> Value] /\ task \in [Id -> Task \cup {Absent}]
    BY <1>1 DEF StoreOK
  <2>3. parents \in [Parent -> {"absent", "in", "out"}] /\ InScope \subseteq Parent
    BY <1>1 DEF StoreInv, InScope
  <2>4. QED
    BY <1>1, <1>2, <1>3, <2>1, <2>2, <2>3 DEF TypeOK, MarkInv, Subscribed
<1>5. ASSUME Subscribed # {}, NEW p \in InScope
      PROVE  /\ WindowOf(Acc, p).entries = Top(name, task, p)
             /\ \A t : Has(WindowOf(Acc, p), t) => Listed(task, p, t)
  <2>1. PICK w \in WFW : w = WindowOf(Acc, p)
    BY <1>3
  <2>2. Fits(w, Rows(name, task, p))
    BY <1>2, <1>5, <2>1 DEF Good
  <2>3. w.entries = Top(name, task, p) /\ \A t : Has(w, t) => Listed(task, p, t)
    BY <1>1, <2>2, FitsIsTop
  <2>4. QED
    BY <2>1, <2>3
<1>6. ASSUME NEW t \in Id PROVE Cardinality(Holding(Acc, t)) <= 1
  <2>1. ASSUME NEW p \in Holding(Acc, t) PROVE Listed(task, p, t)
    <3>1. Has(WindowOf(Acc, p), t) /\ p \in DOMAIN windows
      BY <1>1, <1>2, HoldingIs
    <3>2. p \in InScope /\ Subscribed # {}
      BY <1>2, <3>1
    <3>3. QED
      BY <1>5, <3>1, <3>2
  <2>2. \A p, q \in Holding(Acc, t) : p = q
    BY <2>1 DEF Listed
  <2>3. CASE Holding(Acc, t) = {}
    BY <2>3, FS_EmptySet
  <2>4. CASE Holding(Acc, t) # {}
    <3>1. PICK p : Holding(Acc, t) = {p}
      BY <2>2, <2>4
    <3>2. Cardinality({p}) = 1
      BY FS_Singleton
    <3>3. QED
      BY <3>1, <3>2
  <2>5. QED
    BY <2>3, <2>4
<1>7. QED
  BY <1>4, <1>5, <1>6 DEF ParentWindowsAreTop

LEMMA ViewsFollow == IInv => ViewsAreWindows
<1> SUFFICES ASSUME IInv, NEW s \in Subscribed, NEW p \in InScope
             PROVE  {t \in view[s] : task[t].parent = p} = {e.id : e \in ToSet(Top(name, task, p))}
  BY DEF ViewsAreWindows
<1>1. /\ StoreOK(name, task) /\ Held(Acc, seeded, name, task, InScope)
      /\ Acc.windows = windows /\ Acc.view = view /\ DOMAIN Acc.view = Subscribed /\ p \in Parent
  BY AccParts DEF IInv, StoreInv, InScope
<1>2. Good(Acc, name, task, InScope) /\ Acc \in AccType
  BY <1>1 DEF Held
<1>3. PICK w \in WFW : w = WindowOf(Acc, p)
  BY <1>2, AccFields
<1>4. Fits(w, Rows(name, task, p))
  BY <1>2, <1>3 DEF Good
<1>5. \A u : Has(w, u) <=> \E x \in ToSet(Top(name, task, p)) : x.id = u
  BY <1>1, <1>4, FitsIsTop
<1>6. \A t \in Id : (t \in view[s] /\ task[t] # Absent /\ task[t].parent = p) <=> Has(w, t)
  BY <1>1, <1>2, <1>3 DEF Good, Shows
<1>7. \A t \in view[s] : t \in Id /\ task[t] # Absent
  BY <1>1, <1>2, AccFields DEF Good
<1>8. \A u : Has(w, u) => u \in Id
  BY IdsAreFinite
<1>9. QED
  BY <1>5, <1>6, <1>7, <1>8

\* As long as no parent with a window leaves the scope of the query: the state has
\* its type, a task is in one window at most, and the window of every parent in
\* scope is the first of its tasks, in order and under their current keys, through
\* every write of a task, a name or a parent (handleWindowedIncludeUpdate,
\* handleWindowedInsert, handleRelationalSortFanout, trackObjects).
THEOREM ParentWindowsAreAlwaysTop ==
  ASSUME ~Leaves
  PROVE  Spec => []ParentWindowsAreTop
<1>1. Spec => []IInv
  BY AlwaysIInv
<1>2. IInv => ParentWindowsAreTop
  BY WindowsAreTop
<1>3. QED
  BY <1>1, <1>2, PTL

\* Likewise a subscriber holds, of each parent in scope, the tasks that are its
\* first and no others: emitToSubscribers and emitScopeOut tell it of every row
\* that is moved in or out, displaced, filled in or promoted.
THEOREM ViewsAreAlwaysWindows ==
  ASSUME ~Leaves
  PROVE  Spec => []ViewsAreWindows
<1>1. Spec => []IInv
  BY AlwaysIInv
<1>2. IInv => ViewsAreWindows
  BY ViewsFollow
<1>3. QED
  BY <1>1, <1>2, PTL
=============================================================================
