-------------------------- MODULE WindowIndexProofs --------------------------
(***************************************************************************)
(* Proofs about the total order and the operators of a window, for every   *)
(* set of ids and values, every orderBy and every limit, and about an      *)
(* index in use, whatever the calls.                                       *)
(***************************************************************************)
EXTENDS WindowIndex, SequenceTheorems, WellFoundedInduction, FiniteSetTheorems, TLAPS

(* Least elements, and what InsertAt, RemoveAt and Front return.           *)

\* A non-empty set of naturals has a least element.
LEMMA LeastNatural ==
  ASSUME NEW M, M \subseteq Nat, M # {}
  PROVE  \E m \in M : \A k \in M : m <= k
<1> DEFINE R == OpToRel(<, Nat)
<1>1. \A a \in Nat : \A b \in Nat : a < b => <<a, b>> \in R
  BY DEF OpToRel
<1>2. IsWellFoundedOn(R, Nat)
  BY NatLessThanWellFounded
<1> HIDE DEF R
<1>3. PICK x \in M : \A y \in M : ~(<<y, x>> \in R)
  BY <1>2, WFMin, Zenon
<1>4. ASSUME NEW y \in M PROVE x <= y
  <2>1. ~(<<y, x>> \in R)
    BY <1>3
  <2>2. x \in Nat /\ y \in Nat
    OBVIOUS
  <2>3. ~(y < x)
    BY <2>1, <2>2, <1>1
  <2>4. QED
    BY <2>2, <2>3
<1>5. QED
  BY <1>4

\* Inserting shifts the elements from position i on one place to the right.
HasInserted(r, s, i, e) ==
  /\ Len(r) = Len(s) + 1
  /\ \A j \in 1..Len(s) + 1 :
       r[j] = IF j < i THEN s[j] ELSE IF j = i THEN e ELSE s[j - 1]

LEMMA InsertAtElements ==
  ASSUME NEW S, NEW s \in Seq(S), NEW i \in 1..Len(s) + 1, NEW e \in S
  PROVE  InsertAt(s, i, e) \in Seq(S) /\ HasInserted(InsertAt(s, i, e), s, i, e)
<1> DEFINE l == SubSeq(s, 1, i - 1)
           r == SubSeq(s, i, Len(s))
           m == l \o <<e>>
<1>0. Len(s) \in Nat /\ \A j \in 1..Len(s) : s[j] \in S
  OBVIOUS
<1>1. l \in Seq(S) /\ Len(l) = i - 1 /\ \A j \in 1..i - 1 : l[j] = s[j]
  BY <1>0, SubSeqProperties
<1>2. /\ r \in Seq(S) /\ Len(r) = Len(s) - i + 1
      /\ \A j \in 1..Len(s) - i + 1 : r[j] = s[i + j - 1]
  BY <1>0, SubSeqProperties
<1>3. <<e>> \in Seq(S) /\ Len(<<e>>) = 1 /\ <<e>>[1] = e
  OBVIOUS
<1> HIDE DEF l, r
<1>4. /\ m \in Seq(S) /\ Len(m) = i
      /\ \A j \in 1..i : m[j] = IF j < i THEN s[j] ELSE e
  BY <1>1, <1>3, ConcatProperties
<1> HIDE DEF m
<1>5. /\ m \o r \in Seq(S) /\ Len(m \o r) = Len(m) + Len(r)
      /\ \A j \in 1..Len(m) + Len(r) :
           (m \o r)[j] = IF j <= Len(m) THEN m[j] ELSE r[j - Len(m)]
  BY <1>2, <1>4, ConcatProperties
<1>6. InsertAt(s, i, e) = m \o r
  BY DEF InsertAt, l, r, m
<1>7. ASSUME NEW j \in 1..Len(s) + 1
      PROVE  (m \o r)[j] = IF j < i THEN s[j]
                           ELSE IF j = i THEN e ELSE s[j - 1]
  <2>1. (m \o r)[j] = IF j <= i THEN m[j] ELSE r[j - i]
    BY <1>0, <1>2, <1>4, <1>5
  <2>2. QED
    BY <2>1, <1>0, <1>2, <1>4
<1>8. Len(m \o r) = Len(s) + 1
  BY <1>0, <1>2, <1>4, <1>5
<1>9. QED
  BY <1>5, <1>6, <1>7, <1>8 DEF HasInserted

\* Removing position i shifts the later elements one place to the left.
LEMMA RemoveAtElements ==
  ASSUME NEW S, NEW s \in Seq(S), NEW i \in 1..Len(s)
  PROVE  /\ RemoveAt(s, i) \in Seq(S)
         /\ Len(RemoveAt(s, i)) = Len(s) - 1
         /\ \A j \in 1..Len(s) - 1 :
              RemoveAt(s, i)[j] = IF j < i THEN s[j] ELSE s[j + 1]
<1> DEFINE l == SubSeq(s, 1, i - 1)
           r == SubSeq(s, i + 1, Len(s))
<1>0. Len(s) \in Nat /\ \A j \in 1..Len(s) : s[j] \in S
  OBVIOUS
<1>1. l \in Seq(S) /\ Len(l) = i - 1 /\ \A j \in 1..i - 1 : l[j] = s[j]
  BY <1>0, SubSeqProperties
<1>2. /\ r \in Seq(S) /\ Len(r) = Len(s) - i
      /\ \A j \in 1..Len(s) - i : r[j] = s[i + j]
  BY <1>0, SubSeqProperties
<1> HIDE DEF l, r
<1>3. /\ l \o r \in Seq(S) /\ Len(l \o r) = Len(l) + Len(r)
      /\ \A j \in 1..Len(l) + Len(r) :
           (l \o r)[j] = IF j <= Len(l) THEN l[j] ELSE r[j - Len(l)]
  BY <1>1, <1>2, ConcatProperties
<1>4. RemoveAt(s, i) = l \o r
  BY DEF RemoveAt, l, r
<1>5. ASSUME NEW j \in 1..Len(s) - 1
      PROVE  (l \o r)[j] = IF j < i THEN s[j] ELSE s[j + 1]
  <2>1. (l \o r)[j] = IF j <= i - 1 THEN l[j] ELSE r[j - (i - 1)]
    BY <1>0, <1>1, <1>2, <1>3
  <2>2. QED
    BY <2>1, <1>0, <1>1, <1>2
<1>6. Len(l \o r) = Len(s) - 1
  BY <1>0, <1>1, <1>2, <1>3
<1>7. QED
  BY <1>3, <1>4, <1>5, <1>6

\* Front drops the last element and keeps the others in place.
LEMMA FrontElements ==
  ASSUME NEW S, NEW s \in Seq(S), Len(s) > 0
  PROVE  /\ Front(s) \in Seq(S)
         /\ Len(Front(s)) = Len(s) - 1
         /\ \A j \in 1..Len(s) - 1 : Front(s)[j] = s[j]
<1> DEFINE n == Len(s) - 1
<1>0. n \in Nat /\ Len(s) \in Nat /\ \A j \in 1..n : s[j] \in S
  OBVIOUS
<1> HIDE DEF n
<1>1. /\ SubSeq(s, 1, n) \in Seq(S)
      /\ Len(SubSeq(s, 1, n)) = IF 1 <= n THEN n - 1 + 1 ELSE 0
      /\ \A j \in 1..n - 1 + 1 : SubSeq(s, 1, n)[j] = s[1 + j - 1]
  BY <1>0, SubSeqProperties
<1>2. Front(s) = SubSeq(s, 1, n)
  BY DEF Front, n
<1>3. Len(SubSeq(s, 1, n)) = n /\ \A j \in 1..n : SubSeq(s, 1, n)[j] = s[j]
  BY <1>0, <1>1
<1>4. QED
  BY <1>1, <1>2, <1>3 DEF n

\* Sequences with the same elements in the same places are equal.
LEMMA EqualByElements ==
  ASSUME NEW S, NEW s \in Seq(S), NEW t \in Seq(S), Len(s) = Len(t),
         \A k \in 1..Len(s) : s[k] = t[k]
  PROVE  s = t
  BY SeqEqual

-----------------------------------------------------------------------------
(* The order.                                                              *)

\* The first differing key exists and is the least one.
LEMMA MinDiffering ==
  ASSUME NEW a, NEW b, Differing(a, b) # {}
  PROVE  /\ Min(Differing(a, b)) \in Differing(a, b)
         /\ \A j \in Differing(a, b) : Min(Differing(a, b)) <= j
<1>1. Differing(a, b) \subseteq Nat
  BY SortAssumption DEF Differing
<1>2. \E m \in Differing(a, b) : \A k \in Differing(a, b) : m <= k
  BY <1>1, LeastNatural
<1>3. QED
  BY <1>2 DEF Min

\* How key i orders two entries that agree on every earlier key.
KeyBefore(i, a, b) ==
  IF Directions[i] = "desc"
  THEN CellBefore(b.sortKey[i], a.sortKey[i])
  ELSE CellBefore(a.sortKey[i], b.sortKey[i])

AgreeUpTo(i, a, b) == \A j \in 1..i - 1 : a.sortKey[j] = b.sortKey[j]

\* compare is lexicographic: decided at one key that differs after a common
\* prefix, or by the id when there is none.
LEMMA BeforeIsLexicographic ==
  ASSUME NEW a \in Entry, NEW b \in Entry
  PROVE  Before(a, b) <=>
           \/ a.sortKey = b.sortKey /\ a.id < b.id
           \/ \E i \in 1..Len(Directions) :
                /\ AgreeUpTo(i, a, b)
                /\ a.sortKey[i] # b.sortKey[i]
                /\ KeyBefore(i, a, b)
<1> DEFINE n == Len(Directions)
           D == Differing(a, b)
<1>0. n \in Nat /\ a.sortKey \in [1..n -> Cell] /\ b.sortKey \in [1..n -> Cell]
  BY SortAssumption DEF Entry, SortKey
<1>1. CASE D = {}
  <2>1. \A i \in 1..n : a.sortKey[i] = b.sortKey[i]
    BY <1>1 DEF Differing
  <2>2. a.sortKey = b.sortKey
    BY <1>0, <2>1
  <2>3. QED
    BY <1>1, <2>1, <2>2 DEF Before
<1>2. CASE D # {}
  <2> DEFINE m == Min(D)
  <2>1. m \in D /\ \A j \in D : m <= j
    BY <1>2, MinDiffering
  <2>2. m \in 1..n /\ a.sortKey[m] # b.sortKey[m]
    BY <2>1 DEF Differing
  <2>3. AgreeUpTo(m, a, b)
    BY <1>0, <2>1, <2>2 DEF Differing, AgreeUpTo
  <2>4. Before(a, b) <=> KeyBefore(m, a, b)
    BY <1>2 DEF Before, KeyBefore
  <2>5. ASSUME NEW i \in 1..n, AgreeUpTo(i, a, b), a.sortKey[i] # b.sortKey[i]
        PROVE  i = m
    <3>1. m <= i
      BY <2>1, <2>5 DEF Differing
    <3>2. ~(m < i)
      BY <1>0, <2>2, <2>5 DEF AgreeUpTo
    <3>3. QED
      BY <1>0, <2>2, <3>1, <3>2
  <2>6. a.sortKey # b.sortKey
    BY <2>2
  <2> HIDE DEF m
  <2>7. QED
    BY <2>2, <2>3, <2>4, <2>5, <2>6
<1>3. QED
  BY <1>1, <1>2

\* One key orders strictly and totally: nil first, reversed for "desc".
LEMMA KeyBeforeOrder ==
  ASSUME NEW a \in Entry, NEW b \in Entry, NEW c \in Entry,
         NEW i \in 1..Len(Directions)
  PROVE  /\ ~KeyBefore(i, a, a)
         /\ a.sortKey[i] # b.sortKey[i] => KeyBefore(i, a, b) \/ KeyBefore(i, b, a)
         /\ KeyBefore(i, a, b) /\ KeyBefore(i, b, c) => KeyBefore(i, a, c)
         /\ KeyBefore(i, a, b) /\ b.sortKey[i] = c.sortKey[i] => KeyBefore(i, a, c)
         /\ a.sortKey[i] = b.sortKey[i] /\ KeyBefore(i, b, c) => KeyBefore(i, a, c)
         /\ KeyBefore(i, a, b) => a.sortKey[i] # b.sortKey[i]
<1>1. /\ a.sortKey[i] \in Cell /\ b.sortKey[i] \in Cell /\ c.sortKey[i] \in Cell
  BY SortAssumption DEF Entry, SortKey
<1>2. \A x \in Cell : x = Nil \/ (x \in Int /\ x # Nil)
  BY SortAssumption DEF Cell
<1>3. QED
  BY <1>1, <1>2 DEF KeyBefore, CellBefore

\* Entries with equal sort keys are interchangeable but for their ids.
LEMMA EqualKeys ==
  ASSUME NEW a \in Entry, NEW b \in Entry, NEW c \in Entry,
         a.sortKey = b.sortKey, a.id < b.id
  PROVE  /\ Before(b, c) => Before(a, c)
         /\ Before(c, a) => Before(c, b)
<1>1. a.id \in Int /\ b.id \in Int /\ c.id \in Int
  BY SortAssumption DEF Entry
<1>2. ASSUME NEW i \in 1..Len(Directions)
      PROVE  /\ AgreeUpTo(i, a, c) <=> AgreeUpTo(i, b, c)
             /\ AgreeUpTo(i, c, a) <=> AgreeUpTo(i, c, b)
             /\ KeyBefore(i, a, c) <=> KeyBefore(i, b, c)
             /\ KeyBefore(i, c, a) <=> KeyBefore(i, c, b)
  BY DEF AgreeUpTo, KeyBefore
<1>3. QED
  BY <1>1, <1>2, BeforeIsLexicographic

\* compare is a strict total order on entries: nothing ties, so the boundary of
\* a window is unambiguous.
THEOREM BeforeIsStrictTotalOrder ==
  /\ \A a \in Entry : ~Before(a, a)
  /\ \A a, b \in Entry : a # b => Before(a, b) \/ Before(b, a)
  /\ \A a, b, c \in Entry : Before(a, b) /\ Before(b, c) => Before(a, c)
<1> DEFINE n == Len(Directions)
<1>0. n \in Nat
  BY SortAssumption
<1>a. ASSUME NEW a \in Entry
      PROVE  a.id \in Int /\ a.sortKey \in [1..n -> Cell]
  BY SortAssumption DEF Entry, SortKey
<1> HIDE DEF n
<1>1. ASSUME NEW a \in Entry PROVE ~Before(a, a)
  BY <1>a, BeforeIsLexicographic
<1>2. ASSUME NEW a \in Entry, NEW b \in Entry, a # b
      PROVE  Before(a, b) \/ Before(b, a)
  <2>1. CASE a.sortKey = b.sortKey
    <3>1. a.id # b.id
      BY <1>2, <2>1 DEF Entry
    <3>2. QED
      BY <1>a, <2>1, <3>1, BeforeIsLexicographic
  <2>2. CASE a.sortKey # b.sortKey
    <3>1. Differing(a, b) # {} /\ Differing(b, a) = Differing(a, b)
      BY <1>a, <2>2 DEF Differing, n
    <3> DEFINE m == Min(Differing(a, b))
    <3>2. m \in Differing(a, b)
      BY <3>1, MinDiffering
    <3>3. m \in 1..n /\ a.sortKey[m] # b.sortKey[m]
      BY <3>2 DEF Differing, n
    <3>4. /\ Before(a, b) <=> KeyBefore(m, a, b)
          /\ Before(b, a) <=> KeyBefore(m, b, a)
      BY <3>1 DEF Before, KeyBefore
    <3> HIDE DEF m
    <3>5. QED
      BY <3>3, <3>4, KeyBeforeOrder DEF n
  <2>3. QED
    BY <2>1, <2>2
<1>3. ASSUME NEW a \in Entry, NEW b \in Entry, NEW c \in Entry,
             Before(a, b), Before(b, c)
      PROVE  Before(a, c)
  <2>1. CASE a.sortKey = b.sortKey /\ a.id < b.id
    BY <1>a, <1>3, <2>1, EqualKeys
  <2>2. CASE b.sortKey = c.sortKey /\ b.id < c.id
    BY <1>a, <1>3, <2>2, EqualKeys
  <2>3. CASE /\ \E i \in 1..n : /\ AgreeUpTo(i, a, b)
                                /\ a.sortKey[i] # b.sortKey[i]
                                /\ KeyBefore(i, a, b)
             /\ \E i \in 1..n : /\ AgreeUpTo(i, b, c)
                                /\ b.sortKey[i] # c.sortKey[i]
                                /\ KeyBefore(i, b, c)
    <3>1. PICK i \in 1..n : /\ AgreeUpTo(i, a, b)
                            /\ a.sortKey[i] # b.sortKey[i]
                            /\ KeyBefore(i, a, b)
      BY <2>3
    <3>2. PICK j \in 1..n : /\ AgreeUpTo(j, b, c)
                            /\ b.sortKey[j] # c.sortKey[j]
                            /\ KeyBefore(j, b, c)
      BY <2>3
    <3>3. ASSUME NEW k \in 1..n, AgreeUpTo(k, a, c), KeyBefore(k, a, c)
          PROVE  Before(a, c)
      <4>1. a.sortKey[k] # c.sortKey[k]
        BY <3>3, KeyBeforeOrder DEF n
      <4>2. QED
        BY <3>3, <4>1, BeforeIsLexicographic DEF n
    <3>i. i \in Int /\ j \in Int /\ 1 <= i /\ 1 <= j
      BY <1>0
    <3>4. CASE i < j
      <4>1. AgreeUpTo(i, a, c) /\ b.sortKey[i] = c.sortKey[i]
        BY <3>i, <3>1, <3>2, <3>4 DEF AgreeUpTo
      <4>2. QED
        BY <3>1, <3>3, <4>1, KeyBeforeOrder DEF n
    <3>5. CASE j < i
      <4>1. AgreeUpTo(j, a, c) /\ a.sortKey[j] = b.sortKey[j]
        BY <3>i, <3>1, <3>2, <3>5 DEF AgreeUpTo
      <4>2. QED
        BY <3>2, <3>3, <4>1, KeyBeforeOrder DEF n
    <3>6. CASE i = j
      <4>1. AgreeUpTo(i, a, c)
        BY <3>1, <3>2, <3>6 DEF AgreeUpTo
      <4>2. QED
        BY <3>1, <3>2, <3>3, <3>6, <4>1, KeyBeforeOrder DEF n
    <3>7. QED
      BY <3>i, <3>4, <3>5, <3>6
  <2>4. QED
    BY <1>3, <2>1, <2>2, <2>3, BeforeIsLexicographic DEF n
<1>4. QED
  BY <1>1, <1>2, <1>3

-----------------------------------------------------------------------------
(* The position an entry has in the array.                                 *)

LEMMA BeforeAsymmetric ==
  ASSUME NEW a \in Entry, NEW b \in Entry, Before(a, b)
  PROVE  ~Before(b, a)
BY BeforeIsStrictTotalOrder

\* The search has a result: the first position whose entry is not before e.
LEMMA LowerBoundExists ==
  ASSUME NEW s \in Seq(Entry), NEW e \in Entry
  PROVE  LowerBound(s, e) \in 0..Len(s) /\ IsLowerBound(s, e, LowerBound(s, e))
<1> DEFINE M == {p \in 0..Len(s) : p = Len(s) \/ ~Before(s[p + 1], e)}
<1>0. Len(s) \in Nat
  OBVIOUS
<1>1. M \subseteq Nat /\ Len(s) \in M
  BY <1>0
<1>2. PICK p \in M : \A k \in M : p <= k
  BY <1>1, LeastNatural
<1>3. p \in 0..Len(s) /\ (p < Len(s) => ~Before(s[p + 1], e))
  BY <1>0, <1>2
<1>4. p > 0 => Before(s[p], e)
  <2>1. ASSUME p > 0, ~Before(s[p], e) PROVE FALSE
    <3>1. p - 1 \in 0..Len(s) /\ (p - 1) + 1 = p
      BY <1>0, <1>3, <2>1
    <3>2. p - 1 \in M
      BY <2>1, <3>1
    <3>3. QED
      BY <1>2, <1>3, <3>1, <3>2
  <2>2. QED
    BY <2>1
<1>5. IsLowerBound(s, e, p)
  BY <1>3, <1>4 DEF IsLowerBound
<1> HIDE DEF M
<1>6. \E q \in 0..Len(s) : IsLowerBound(s, e, q)
  BY <1>3, <1>5
<1>7. QED
  BY <1>6 DEF LowerBound

\* In a sorted array the result separates what sorts before e from the rest.
LEMMA LowerBoundSplits ==
  ASSUME NEW s \in Seq(Entry), NEW e \in Entry, Sorted(s),
         NEW p \in 0..Len(s), IsLowerBound(s, e, p)
  PROVE  \A i \in 1..Len(s) : i <= p <=> Before(s[i], e)
<1>0. Len(s) \in Nat /\ \A i \in 1..Len(s) : s[i] \in Entry
  OBVIOUS
<1>1. ASSUME NEW i \in 1..Len(s), i <= p PROVE Before(s[i], e)
  <2>1. p \in 1..Len(s) /\ Before(s[p], e)
    BY <1>0, <1>1 DEF IsLowerBound
  <2>2. CASE i = p
    BY <2>1, <2>2
  <2>3. CASE i < p
    <3>1. Before(s[i], s[p])
      BY <2>1, <2>3 DEF Sorted
    <3>2. QED
      BY <1>0, <2>1, <3>1, BeforeIsStrictTotalOrder
  <2>4. QED
    BY <1>0, <1>1, <2>2, <2>3
<1>2. ASSUME NEW i \in 1..Len(s), ~(i <= p) PROVE ~Before(s[i], e)
  <2>1. p + 1 \in 1..Len(s) /\ ~Before(s[p + 1], e)
    BY <1>0, <1>2 DEF IsLowerBound
  <2>2. CASE i = p + 1
    BY <2>1, <2>2
  <2>3. CASE p + 1 < i
    <3>1. Before(s[p + 1], s[i])
      BY <2>1, <2>3 DEF Sorted
    <3>2. QED
      BY <1>0, <2>1, <3>1, BeforeIsStrictTotalOrder
  <2>4. QED
    BY <1>0, <1>2, <2>2, <2>3
<1>3. QED
  BY <1>1, <1>2

\* What the methods use of it: where e belongs, and where a held e is.
LEMMA LowerBoundProperties ==
  ASSUME NEW s \in Seq(Entry), NEW e \in Entry, Sorted(s)
  PROVE  /\ LowerBound(s, e) \in 0..Len(s)
         /\ \A i \in 1..Len(s) : i <= LowerBound(s, e) <=> Before(s[i], e)
         /\ \A k \in 1..Len(s) : s[k] = e => LowerBound(s, e) = k - 1
<1> DEFINE p == LowerBound(s, e)
<1>0. Len(s) \in Nat /\ \A i \in 1..Len(s) : s[i] \in Entry
  OBVIOUS
<1>1. p \in 0..Len(s) /\ IsLowerBound(s, e, p)
  BY LowerBoundExists
<1> HIDE DEF p
<1>2. \A i \in 1..Len(s) : i <= p <=> Before(s[i], e)
  BY <1>1, LowerBoundSplits
<1>3. ASSUME NEW k \in 1..Len(s), s[k] = e PROVE p = k - 1
  <2>1. ~(k <= p)
    BY <1>2, <1>3, BeforeIsStrictTotalOrder
  <2>2. CASE k = 1
    BY <1>0, <1>1, <2>1, <2>2
  <2>3. CASE k > 1
    <3>1. k - 1 \in 1..Len(s) /\ k - 1 < k
      BY <1>0, <2>3
    <3>2. Before(s[k - 1], e)
      BY <1>3, <3>1 DEF Sorted
    <3>3. k - 1 <= p
      BY <1>2, <3>1, <3>2
    <3>4. QED
      BY <1>0, <1>1, <2>1, <3>1, <3>3
  <2>4. QED
    BY <1>0, <2>2, <2>3
<1>4. QED
  BY <1>1, <1>2, <1>3 DEF p

-----------------------------------------------------------------------------
(* The lemmas on sequences, for sequences of entries.                      *)

\* A sorted array has one lower bound: the position the search is to find.
LEMMA LowerBoundUnique ==
  ASSUME NEW s \in Seq(Entry), Sorted(s), NEW e \in Entry,
         NEW k \in 0..Len(s), IsLowerBound(s, e, k)
  PROVE  k = LowerBound(s, e)
<1> DEFINE p == LowerBound(s, e)
<1>0. Len(s) \in Nat
  OBVIOUS
<1>1. p \in 0..Len(s) /\ IsLowerBound(s, e, p)
  BY LowerBoundExists
<1> HIDE DEF p
<1>2. /\ \A i \in 1..Len(s) : i <= k <=> Before(s[i], e)
      /\ \A i \in 1..Len(s) : i <= p <=> Before(s[i], e)
  BY <1>1, LowerBoundSplits
<1>3. ~(k < p)
  BY <1>0, <1>1, <1>2
<1>4. ~(p < k)
  BY <1>0, <1>1, <1>2
<1>5. QED
  BY <1>0, <1>1, <1>3, <1>4 DEF p

LEMMA EntriesInsertAt ==
  ASSUME NEW s \in Seq(Entry), NEW i \in 1..Len(s) + 1, NEW e \in Entry
  PROVE  /\ InsertAt(s, i, e) \in Seq(Entry)
         /\ Len(InsertAt(s, i, e)) = Len(s) + 1
         /\ \A j \in 1..Len(s) + 1 :
              InsertAt(s, i, e)[j] = IF j < i THEN s[j]
                                     ELSE IF j = i THEN e ELSE s[j - 1]
<1>1. InsertAt(s, i, e) \in Seq(Entry) /\ HasInserted(InsertAt(s, i, e), s, i, e)
  BY InsertAtElements, Zenon
<1>2. QED
  BY <1>1 DEF HasInserted

LEMMA EntriesRemoveAt ==
  ASSUME NEW s \in Seq(Entry), NEW i \in 1..Len(s)
  PROVE  /\ RemoveAt(s, i) \in Seq(Entry)
         /\ Len(RemoveAt(s, i)) = Len(s) - 1
         /\ \A j \in 1..Len(s) - 1 :
              RemoveAt(s, i)[j] = IF j < i THEN s[j] ELSE s[j + 1]
BY RemoveAtElements, Zenon

LEMMA EntriesFront ==
  ASSUME NEW s \in Seq(Entry), Len(s) > 0
  PROVE  /\ Front(s) \in Seq(Entry)
         /\ Len(Front(s)) = Len(s) - 1
         /\ \A j \in 1..Len(s) - 1 : Front(s)[j] = s[j]
BY FrontElements, Zenon

-----------------------------------------------------------------------------
(* The arrays insert and remove build.                                     *)

\* splice(pos, 0, e) keeps the array sorted.
LEMMA InsertAtSorted ==
  ASSUME NEW s \in Seq(Entry), NEW e \in Entry, Sorted(s),
         \A i \in 1..Len(s) : s[i] # e
  PROVE  Sorted(InsertAt(s, LowerBound(s, e) + 1, e))
<1> DEFINE p == LowerBound(s, e)
           g == InsertAt(s, p + 1, e)
<1>0. Len(s) \in Nat /\ \A i \in 1..Len(s) : s[i] \in Entry
  OBVIOUS
<1>1. p \in 0..Len(s) /\ \A i \in 1..Len(s) : i <= p <=> Before(s[i], e)
  BY LowerBoundProperties
<1> HIDE DEF p
<1>2. p + 1 \in 1..Len(s) + 1
  BY <1>0, <1>1
<1>3. /\ Len(g) = Len(s) + 1
      /\ \A j \in 1..Len(s) + 1 :
           g[j] = IF j < p + 1 THEN s[j] ELSE IF j = p + 1 THEN e ELSE s[j - 1]
  BY <1>2, EntriesInsertAt
<1> HIDE DEF g
<1>4. ASSUME NEW i \in 1..Len(s), ~(i <= p) PROVE Before(e, s[i])
  BY <1>0, <1>1, <1>4, BeforeIsStrictTotalOrder
<1>5. ASSUME NEW i \in 1..Len(g), NEW j \in 1..Len(g), i < j
      PROVE  Before(g[i], g[j])
  <2>0. i \in 1..Len(s) + 1 /\ j \in 1..Len(s) + 1 /\ i \in Int /\ j \in Int /\ p \in Int
    BY <1>0, <1>1, <1>3
  <2>1. CASE j < p + 1
    <3>1. g[i] = s[i] /\ g[j] = s[j] /\ i \in 1..Len(s) /\ j \in 1..Len(s)
      BY <1>0, <1>1, <1>3, <1>5, <2>0, <2>1
    <3>2. QED
      BY <1>5, <3>1 DEF Sorted
  <2>2. CASE j = p + 1
    <3>1. g[i] = s[i] /\ g[j] = e /\ i \in 1..Len(s) /\ i <= p
      BY <1>0, <1>1, <1>3, <1>5, <2>0, <2>2
    <3>2. QED
      BY <1>1, <3>1
  <2>3. CASE j > p + 1
    <3>1. g[j] = s[j - 1] /\ j - 1 \in 1..Len(s) /\ ~(j - 1 <= p)
      BY <1>0, <1>1, <1>3, <2>0, <2>3
    <3>2. CASE i < p + 1
      <4>1. g[i] = s[i] /\ i \in 1..Len(s) /\ i < j - 1
        BY <1>0, <1>1, <1>3, <2>0, <2>3, <3>2
      <4>2. QED
        BY <3>1, <4>1 DEF Sorted
    <3>3. CASE i = p + 1
      <4>1. g[i] = e
        BY <1>3, <2>0, <3>3
      <4>2. QED
        BY <1>4, <3>1, <4>1
    <3>4. CASE i > p + 1
      <4>1. g[i] = s[i - 1] /\ i - 1 \in 1..Len(s) /\ i - 1 < j - 1
        BY <1>0, <1>1, <1>3, <1>5, <2>0, <3>4
      <4>2. QED
        BY <3>1, <4>1 DEF Sorted
    <3>5. QED
      BY <2>0, <3>2, <3>3, <3>4
  <2>4. QED
    BY <2>0, <2>1, <2>2, <2>3
<1>6. QED
  BY <1>5 DEF Sorted, g, p

LEMMA RemoveAtSorted ==
  ASSUME NEW s \in Seq(Entry), Sorted(s), NEW k \in 1..Len(s)
  PROVE  Sorted(RemoveAt(s, k))
<1> DEFINE r == RemoveAt(s, k)
<1>0. Len(s) \in Nat /\ k \in Nat
  OBVIOUS
<1>1. /\ Len(r) = Len(s) - 1
      /\ \A j \in 1..Len(s) - 1 : r[j] = IF j < k THEN s[j] ELSE s[j + 1]
  BY EntriesRemoveAt
<1> HIDE DEF r
<1>2. ASSUME NEW i \in 1..Len(r), NEW j \in 1..Len(r), i < j
      PROVE  Before(r[i], r[j])
  <2> DEFINE src(n) == IF n < k THEN n ELSE n + 1
  <2>1. /\ r[i] = s[src(i)] /\ r[j] = s[src(j)]
        /\ src(i) \in 1..Len(s) /\ src(j) \in 1..Len(s) /\ src(i) < src(j)
    BY <1>0, <1>1, <1>2
  <2> HIDE DEF src
  <2>2. QED
    BY <2>1 DEF Sorted
<1>3. QED
  BY <1>2 DEF Sorted, r

LEMMA FrontSorted ==
  ASSUME NEW s \in Seq(Entry), Sorted(s), Len(s) > 0
  PROVE  Sorted(Front(s))
<1>1. Len(Front(s)) = Len(s) - 1 /\ \A j \in 1..Len(s) - 1 : Front(s)[j] = s[j]
  BY EntriesFront
<1>2. Len(s) \in Nat
  OBVIOUS
<1>3. QED
  BY <1>1, <1>2 DEF Sorted

\* The ids of a sorted array whose index agrees are distinct.
LEMMA DistinctIds ==
  ASSUME NEW w, w.entries \in Seq(Entry), Sorted(w.entries), IndexAgrees(w),
         NEW i \in 1..Len(w.entries), NEW j \in 1..Len(w.entries), i # j
  PROVE  w.entries[i].id # w.entries[j].id
<1>1. Len(w.entries) \in Nat
  OBVIOUS
<1>2. w.entries[i] \in Entry /\ w.entries[j] \in Entry
  OBVIOUS
<1>3. Before(w.entries[i], w.entries[j]) \/ Before(w.entries[j], w.entries[i])
  BY <1>1 DEF Sorted
<1>4. w.entries[i] # w.entries[j]
  BY <1>2, <1>3, BeforeIsStrictTotalOrder
<1>5. QED
  BY <1>4 DEF IndexAgrees

-----------------------------------------------------------------------------
(* The index beside the array.                                             *)

IndexMaps == UNION {[S -> Entry] : S \in SUBSET Id}

LEMMA SetIndexProperties ==
  ASSUME NEW f \in IndexMaps, NEW e \in Entry
  PROVE  /\ SetIndex(f, e) \in IndexMaps
         /\ DOMAIN SetIndex(f, e) = DOMAIN f \cup {e.id}
         /\ \A i \in DOMAIN f \cup {e.id} :
              SetIndex(f, e)[i] = IF i = e.id THEN e ELSE f[i]
<1>1. PICK S \in SUBSET Id : f \in [S -> Entry]
  BY DEF IndexMaps
<1>2. e.id \in Id
  BY DEF Entry
<1>3. SetIndex(f, e) \in [S \cup {e.id} -> Entry] /\ S \cup {e.id} \in SUBSET Id
  BY <1>1, <1>2 DEF SetIndex
<1>4. QED
  BY <1>1, <1>3 DEF IndexMaps, SetIndex

LEMMA DropIndexProperties ==
  ASSUME NEW f \in IndexMaps, NEW id
  PROVE  /\ DropIndex(f, id) \in IndexMaps
         /\ DOMAIN DropIndex(f, id) = DOMAIN f \ {id}
         /\ \A i \in DOMAIN f \ {id} : DropIndex(f, id)[i] = f[i]
<1>1. PICK S \in SUBSET Id : f \in [S -> Entry]
  BY DEF IndexMaps
<1>2. DropIndex(f, id) \in [S \ {id} -> Entry] /\ S \ {id} \in SUBSET Id
  BY <1>1 DEF DropIndex
<1>3. QED
  BY <1>1, <1>2 DEF IndexMaps, DropIndex

\* What has to be shown of an array and a map for the two to agree, and back.
LEMMA AgreementIntro ==
  ASSUME NEW s \in Seq(Entry), NEW f,
         \A i \in 1..Len(s) : s[i].id \in DOMAIN f /\ f[s[i].id] = s[i],
         \A i \in DOMAIN f : \E j \in 1..Len(s) : s[j].id = i
  PROVE  IndexAgrees([entries |-> s, index |-> f])
<1> DEFINE v == [entries |-> s, index |-> f]
<1>1. v.entries = s /\ v.index = f /\ DOMAIN s = 1..Len(s)
  OBVIOUS
<1> HIDE DEF v
<1>a. Ids(v) = {s[i].id : i \in 1..Len(s)}
  BY <1>1 DEF Ids
<1>b. DOMAIN f = {s[i].id : i \in 1..Len(s)}
  <2>1. ASSUME NEW i \in DOMAIN f PROVE i \in {s[j].id : j \in 1..Len(s)}
    OBVIOUS
  <2>2. ASSUME NEW i \in 1..Len(s) PROVE s[i].id \in DOMAIN f
    OBVIOUS
  <2>3. QED
    BY <2>1, <2>2
<1>2. DOMAIN v.index = Ids(v)
  BY <1>1, <1>a, <1>b
<1>3. \A i \in 1..Len(v.entries) : v.index[v.entries[i].id] = v.entries[i]
  BY <1>1
<1>4. IndexAgrees(v)
  BY <1>2, <1>3 DEF IndexAgrees
<1>5. QED
  BY <1>4 DEF v

LEMMA AgreementElim ==
  ASSUME NEW w, w.entries \in Seq(Entry), IndexAgrees(w)
  PROVE  /\ \A i \in 1..Len(w.entries) : /\ w.entries[i].id \in DOMAIN w.index
                                        /\ w.index[w.entries[i].id] = w.entries[i]
         /\ \A i \in DOMAIN w.index : \E j \in 1..Len(w.entries) : w.entries[j].id = i
<1>1. DOMAIN w.entries = 1..Len(w.entries)
  OBVIOUS
<1>2. QED
  BY <1>1 DEF IndexAgrees, Ids

\* Splicing a new entry in, with its index entry.
LEMMA GrownAgrees ==
  ASSUME NEW w \in Windows, IndexAgrees(w), NEW e \in Entry, ~Has(w, e.id),
         NEW k \in 1..Len(w.entries) + 1
  PROVE  LET g == [entries |-> InsertAt(w.entries, k, e), index |-> SetIndex(w.index, e)]
         IN  g \in Windows /\ IndexAgrees(g)
<1> DEFINE s == w.entries
           g == InsertAt(s, k, e)
           f == SetIndex(w.index, e)
           win == [entries |-> g, index |-> f]
<1>0. /\ s \in Seq(Entry) /\ Len(s) \in Nat /\ w.index \in IndexMaps
      /\ k \in 1..Len(s) + 1 /\ k \in Nat
  BY DEF Windows, IndexMaps
<1>s. w.entries = s
  OBVIOUS
<1> HIDE DEF s
<1>q. s \in Seq(Entry)
  BY <1>0
<1>k. k \in 1..Len(s) + 1
  BY <1>0
<1>1. /\ g \in Seq(Entry) /\ Len(g) = Len(s) + 1
      /\ \A j \in 1..Len(s) + 1 :
           g[j] = IF j < k THEN s[j] ELSE IF j = k THEN e ELSE s[j - 1]
  <2>1. g \in Seq(Entry) /\ HasInserted(g, s, k, e)
    BY <1>q, <1>k, InsertAtElements, Zenon
  <2> HIDE DEF g
  <2>2. QED
    BY <2>1 DEF HasInserted
<1>2. /\ f \in IndexMaps /\ DOMAIN f = DOMAIN w.index \cup {e.id}
      /\ \A i \in DOMAIN w.index \cup {e.id} : f[i] = IF i = e.id THEN e ELSE w.index[i]
  BY <1>0, SetIndexProperties
<1>3. \A i \in 1..Len(s) : /\ s[i].id \in DOMAIN w.index
                           /\ w.index[s[i].id] = s[i]
                           /\ s[i].id # e.id
  BY <1>0, <1>s, AgreementElim DEF Has
<1> HIDE DEF g, f
<1>4. \A i \in 1..Len(g) : g[i].id \in DOMAIN f /\ f[g[i].id] = g[i]
  <2> SUFFICES ASSUME NEW i \in 1..Len(g) PROVE g[i].id \in DOMAIN f /\ f[g[i].id] = g[i]
    OBVIOUS
  <2>1. g[i] = e \/ \E j \in 1..Len(s) : g[i] = s[j]
    BY <1>0, <1>1
  <2>2. QED
    BY <1>2, <1>3, <2>1
<1>5. \A i \in DOMAIN f : \E j \in 1..Len(g) : g[j].id = i
  <2> SUFFICES ASSUME NEW i \in DOMAIN f PROVE \E j \in 1..Len(g) : g[j].id = i
    OBVIOUS
  <2>1. CASE i = e.id
    <3>1. k \in 1..Len(g) /\ g[k] = e
      BY <1>0, <1>1
    <3>2. QED
      BY <2>1, <3>1
  <2>2. CASE i \in DOMAIN w.index
    <3>1. PICK j \in 1..Len(s) : s[j].id = i
      BY <1>0, <1>s, <2>2, AgreementElim
    <3>2. CASE j < k
      <4>1. g[j] = s[j] /\ j \in 1..Len(g)
        BY <1>0, <1>1, <3>2
      <4>2. QED
        BY <3>1, <4>1
    <3>3. CASE ~(j < k)
      <4>1. g[j + 1] = s[j] /\ j + 1 \in 1..Len(g)
        BY <1>0, <1>1, <3>3
      <4>2. QED
        BY <3>1, <4>1
    <3>4. QED
      BY <3>2, <3>3
  <2>3. QED
    BY <1>2, <2>1, <2>2
<1>7. IndexAgrees(win)
  BY <1>1, <1>4, <1>5, AgreementIntro
<1>8. win \in Windows
  BY <1>1, <1>2 DEF Windows, IndexMaps
<1>9. QED
  BY <1>s, <1>7, <1>8 DEF win, g, f

\* Taking the entry at position k out of the array and of the index.
LEMMA ShrunkAgrees ==
  ASSUME NEW w \in Windows, Sorted(w.entries), IndexAgrees(w),
         NEW k \in 1..Len(w.entries), NEW r \in Seq(Entry),
         Len(r) = Len(w.entries) - 1,
         \A j \in 1..Len(w.entries) - 1 :
           r[j] = IF j < k THEN w.entries[j] ELSE w.entries[j + 1]
  PROVE  LET v == [entries |-> r, index |-> DropIndex(w.index, w.entries[k].id)]
         IN  v \in Windows /\ IndexAgrees(v)
<1> DEFINE s == w.entries
           f == DropIndex(w.index, s[k].id)
           win == [entries |-> r, index |-> f]
<1>0. /\ s \in Seq(Entry) /\ Len(s) \in Nat /\ w.index \in IndexMaps
      /\ k \in 1..Len(s) /\ k \in Nat
  BY DEF Windows, IndexMaps
<1>r. /\ Len(r) = Len(s) - 1
      /\ \A j \in 1..Len(s) - 1 : r[j] = IF j < k THEN s[j] ELSE s[j + 1]
  OBVIOUS
<1>s. w.entries = s
  OBVIOUS
<1> HIDE DEF s
<1>1. /\ f \in IndexMaps /\ DOMAIN f = DOMAIN w.index \ {s[k].id}
      /\ \A i \in DOMAIN w.index \ {s[k].id} : f[i] = w.index[i]
  BY <1>0, DropIndexProperties
<1>2. ASSUME NEW i \in 1..Len(s)
      PROVE  /\ s[i].id \in DOMAIN w.index
             /\ w.index[s[i].id] = s[i]
             /\ i # k => s[i].id # s[k].id
  <2>1. s[i].id \in DOMAIN w.index /\ w.index[s[i].id] = s[i]
    BY <1>0, <1>s, AgreementElim
  <2>2. i # k => s[i].id # s[k].id
    BY <1>0, <1>s, DistinctIds
  <2>3. QED
    BY <2>1, <2>2
<1> HIDE DEF f
<1>3. ASSUME NEW i \in 1..Len(r) PROVE r[i].id \in DOMAIN f /\ f[r[i].id] = r[i]
  <2> DEFINE j == IF i < k THEN i ELSE i + 1
  <2>0. i \in 1..Len(s) - 1 /\ i \in Nat
    BY <1>0, <1>r
  <2>1. j \in 1..Len(s) /\ j # k /\ r[i] = s[j]
    BY <1>0, <1>r, <2>0
  <2> HIDE DEF j
  <2>2. QED
    BY <1>1, <1>2, <2>1
<1>4. ASSUME NEW i \in DOMAIN f PROVE \E j \in 1..Len(r) : r[j].id = i
  <2>0. i \in DOMAIN w.index /\ i # s[k].id
    BY <1>1, <1>4
  <2>1. PICK j \in 1..Len(s) : s[j].id = i
    BY <1>0, <1>s, <2>0, AgreementElim
  <2>2. j # k
    BY <2>0, <2>1
  <2>3. CASE j < k
    <3>1. r[j] = s[j] /\ j \in 1..Len(r)
      BY <1>0, <1>r, <2>3
    <3>2. QED
      BY <2>1, <3>1
  <2>4. CASE j > k
    <3>1. r[j - 1] = s[j] /\ j - 1 \in 1..Len(r)
      BY <1>0, <1>r, <2>4
    <3>2. QED
      BY <2>1, <3>1
  <2>5. QED
    BY <1>0, <2>2, <2>3, <2>4
<1>6. IndexAgrees(win)
  BY <1>3, <1>4, AgreementIntro
<1>7. win \in Windows
  BY <1>1 DEF Windows, IndexMaps
<1>8. QED
  BY <1>s, <1>6, <1>7 DEF win, f

-----------------------------------------------------------------------------
(* A new window is well formed, and the two methods keep it so.            *)

LEMMA EmptyWindowProperties == EmptyWindow \in Windows /\ WellFormed(EmptyWindow)
<1>1. [i \in {} |-> {}] \in [{} -> Entry]
  OBVIOUS
<1>2. EmptyWindow.entries = <<>> /\ EmptyWindow.index = [i \in {} |-> {}]
  BY DEF EmptyWindow
<1>3. EmptyWindow \in Windows
  BY <1>1 DEF EmptyWindow, Windows
<1>4. IndexAgrees(EmptyWindow)
  BY <1>2 DEF IndexAgrees, Ids
<1>5. WellFormed(EmptyWindow)
  BY <1>2, <1>4, LimitAssumption DEF WellFormed, Sorted
<1>6. QED
  BY <1>3, <1>5

LEMMA InsertEntryPreserves ==
  ASSUME NEW w \in Windows, WellFormed(w), NEW e \in Entry
  PROVE  /\ InsertEntry(w, e).window \in Windows
         /\ WellFormed(InsertEntry(w, e).window)
         /\ InsertEntry(w, e).inserted \in BOOLEAN
         /\ InsertEntry(w, e).threw \in BOOLEAN
         /\ InsertEntry(w, e).evicted \subseteq Entry
<1> DEFINE s == w.entries
           p == LowerBound(s, e)
           g == InsertAt(s, p + 1, e)
           last == g[Len(g)]
           f == SetIndex(w.index, e)
           grown == [entries |-> g, index |-> f]
           cut == [entries |-> Front(g), index |-> DropIndex(f, last.id)]
<1>1. CASE Limit = 0 \/ Has(w, e.id) \/ (IsFull(w) /\ p >= Limit)
  BY <1>1 DEF InsertEntry, InsertAtPosition, Unchanged
<1>2. CASE ~(Limit = 0 \/ Has(w, e.id) \/ (IsFull(w) /\ p >= Limit))
  <2>1. s \in Seq(Entry) /\ Len(s) \in Nat /\ Sorted(s) /\ IndexAgrees(w) /\ Len(s) <= Limit
    BY DEF Windows, WellFormed
  <2>2. p \in 0..Len(s) /\ p + 1 \in 1..Len(s) + 1
    <3>1. p \in 0..Len(s)
      BY <2>1, LowerBoundProperties
    <3>2. QED
      BY <2>1, <3>1
  <2>3. \A i \in 1..Len(s) : s[i] # e
    BY <1>2, <2>1, AgreementElim DEF Has
  <2>4. Sorted(g)
    BY <2>1, <2>3, InsertAtSorted
  <2>5. grown \in Windows /\ IndexAgrees(grown)
    BY <1>2, <2>1, <2>2, GrownAgrees
  <2>6. g \in Seq(Entry) /\ Len(g) = Len(s) + 1
    BY <2>1, <2>2, EntriesInsertAt
  <2>7. last \in Entry
    BY <2>1, <2>6
  <2>8. CASE Len(g) > Limit
    <3>1. /\ InsertEntry(w, e).window = cut
          /\ InsertEntry(w, e).inserted = TRUE
          /\ InsertEntry(w, e).threw = FALSE
          /\ InsertEntry(w, e).evicted = {last}
      BY <1>2, <2>8 DEF InsertEntry, InsertAtPosition, Unchanged
    <3> HIDE DEF g, f
    <3>a. Len(g) > 0
      BY <2>1, <2>6
    <3>2. /\ Front(g) \in Seq(Entry) /\ Len(Front(g)) = Len(g) - 1
          /\ \A j \in 1..Len(g) - 1 : Front(g)[j] = g[j]
      BY <2>6, <3>a, EntriesFront
    <3>3. Sorted(Front(g))
      BY <2>1, <2>4, <2>6, FrontSorted
    <3>4. cut \in Windows /\ IndexAgrees(cut)
      <4>1. /\ grown.entries = g /\ grown.index = f
            /\ Len(g) \in 1..Len(g) /\ Len(g) \in Nat
        BY <2>1, <2>6
      <4>2. \A j \in 1..Len(g) - 1 :
              Front(g)[j] = IF j < Len(g) THEN g[j] ELSE g[j + 1]
        BY <3>2, <4>1
      <4> HIDE DEF grown
      <4>3. QED
        BY <2>4, <2>5, <3>2, <4>1, <4>2, ShrunkAgrees
    <3>5. WellFormed(cut)
      BY <2>1, <2>6, <3>2, <3>3, <3>4 DEF WellFormed
    <3>6. QED
      BY <2>7, <3>1, <3>4, <3>5
  <2>9. CASE ~(Len(g) > Limit)
    <3>1. /\ InsertEntry(w, e).window = grown
          /\ InsertEntry(w, e).inserted = TRUE
          /\ InsertEntry(w, e).threw = FALSE
          /\ InsertEntry(w, e).evicted = {}
      BY <1>2, <2>9 DEF InsertEntry, InsertAtPosition, Unchanged
    <3> HIDE DEF g, f
    <3>2. WellFormed(grown)
      BY <2>1, <2>4, <2>5, <2>6, <2>9, LimitAssumption DEF WellFormed
    <3>3. QED
      BY <2>5, <3>1, <3>2
  <2>10. QED
    BY <2>8, <2>9
<1>3. QED
  BY <1>1, <1>2

\* remove finds the entry of a held id where its order says it is, and takes
\* exactly that one out.
LEMMA RemoveEntryPreserves ==
  ASSUME NEW w \in Windows, WellFormed(w), NEW id
  PROVE  /\ RemoveEntry(w, id) \in Windows
         /\ WellFormed(RemoveEntry(w, id))
         /\ Has(w, id) => /\ ~Has(RemoveEntry(w, id), id)
                          /\ Len(RemoveEntry(w, id).entries) = Len(w.entries) - 1
<1> DEFINE s == w.entries
<1>1. CASE ~Has(w, id)
  BY <1>1 DEF RemoveEntry, RemoveAtPosition
<1>2. CASE Has(w, id)
  <2>1. s \in Seq(Entry) /\ Len(s) \in Nat /\ Sorted(s) /\ IndexAgrees(w) /\ Len(s) <= Limit
    BY DEF Windows, WellFormed
  <2>2. PICK k \in 1..Len(s) : s[k].id = id
    BY <1>2, <2>1, AgreementElim DEF Has
  <2>3. w.index[id] = s[k] /\ s[k] \in Entry
    BY <2>1, <2>2, AgreementElim
  <2>4. LowerBound(s, w.index[id]) = k - 1
    BY <2>1, <2>3, LowerBoundProperties
  <2>5. Splice(s, LowerBound(s, w.index[id])) = RemoveAt(s, k)
    BY <2>1, <2>4 DEF Splice
  <2> DEFINE r == RemoveAt(s, k)
             v == [entries |-> r, index |-> DropIndex(w.index, s[k].id)]
  <2>6. RemoveEntry(w, id) = v
    BY <1>2, <2>2, <2>5 DEF RemoveEntry, RemoveAtPosition
  <2>7. /\ r \in Seq(Entry) /\ Len(r) = Len(s) - 1
        /\ \A j \in 1..Len(s) - 1 : r[j] = IF j < k THEN s[j] ELSE s[j + 1]
    BY <2>1, EntriesRemoveAt
  <2>8. Sorted(r)
    BY <2>1, RemoveAtSorted
  <2> HIDE DEF r
  <2>9. v \in Windows /\ IndexAgrees(v)
    BY <2>1, <2>7, ShrunkAgrees
  <2>10. WellFormed(v)
    BY <2>1, <2>7, <2>8, <2>9, LimitAssumption DEF WellFormed
  <2>11. ~Has(v, id)
    BY <2>2 DEF Has, DropIndex
  <2>12. QED
    BY <1>2, <2>6, <2>7, <2>9, <2>10, <2>11
<1>3. QED
  BY <1>1, <1>2

-----------------------------------------------------------------------------
(* A window as the set of its entries: what the array's operations do to   *)
(* that set.                                                               *)

LEMMA Elements ==
  ASSUME NEW s \in Seq(Entry)
  PROVE  /\ Len(s) \in Nat
         /\ \A x : x \in ToSet(s) <=> \E i \in 1..Len(s) : s[i] = x
         /\ \A i \in 1..Len(s) : s[i] \in Entry
<1>1. DOMAIN s = 1..Len(s)
  OBVIOUS
<1>2. QED
  BY <1>1 DEF ToSet

\* The entries of a sorted sequence are distinct, so it has as many as the set.
LEMMA SizeOfEntries ==
  ASSUME NEW s \in Seq(Entry), Sorted(s)
  PROVE  IsFiniteSet(ToSet(s)) /\ Cardinality(ToSet(s)) = Len(s)
<1> DEFINE n == Len(s)
<1>0. n \in Nat /\ s \in [1..n -> Entry]
  OBVIOUS
<1>1. \A x : x \in ToSet(s) <=> \E i \in 1..n : s[i] = x
  BY Elements
<1>2. ASSUME NEW i \in 1..n, NEW j \in 1..n, s[i] = s[j] PROVE i = j
  <2>1. s[i] \in Entry /\ i \in Int /\ j \in Int
    BY <1>0
  <2>2. ~Before(s[i], s[j]) /\ ~Before(s[j], s[i])
    BY <1>2, <2>1, BeforeIsStrictTotalOrder
  <2>3. QED
    BY <2>1, <2>2 DEF Sorted
<1> HIDE DEF n
<1>3. s \in Bijection(1..n, ToSet(s))
  <2>1. s \in [1..n -> ToSet(s)]
    BY <1>0, <1>1
  <2>2. QED
    BY <1>1, <1>2, <2>1 DEF Bijection, Injection, Surjection, IsInjective
<1>4. ExistsBijection(1..n, ToSet(s))
  BY <1>3 DEF ExistsBijection
<1>5. IsFiniteSet(ToSet(s))
  BY <1>0, <1>4, FS_NatBijection
<1>6. QED
  BY <1>0, <1>4, <1>5, FS_CountingElements DEF n

\* insert, seen on the set: the entry is added, or it is last and refused, or
\* the last entry makes room for it.
AddsWithin(S, T, r, e) == T = S \cup {e} /\ r.inserted = TRUE /\ r.evicted = {}
Refuses(S, T, r, e) ==
  /\ \A x \in S : Before(x, e)
  /\ T = S /\ r.inserted = FALSE /\ r.evicted = {}
Displaces(S, T, r, e) ==
  \E last \in S :
    /\ \A x \in (S \cup {e}) \ {last} : Before(x, last)
    /\ T = (S \cup {e}) \ {last} /\ r.inserted = TRUE /\ r.evicted = {last}

LEMMA InsertEntryOnSets ==
  ASSUME NEW w \in Windows, WellFormed(w), NEW e \in Entry, Limit # 0, ~Has(w, e.id)
  PROVE  LET S == ToSet(w.entries)
             r == InsertEntry(w, e)
             T == ToSet(r.window.entries)
         IN  /\ r.threw = FALSE
             /\ \/ Len(w.entries) < Limit /\ AddsWithin(S, T, r, e)
                \/ Len(w.entries) = Limit /\ Refuses(S, T, r, e)
                \/ Len(w.entries) = Limit /\ Displaces(S, T, r, e)
<1> DEFINE s == w.entries
           n == Len(s)
           p == LowerBound(s, e)
           g == InsertAt(s, p + 1, e)
           last == g[Len(g)]
           f == SetIndex(w.index, e)
           r == InsertEntry(w, e)
           S == ToSet(s)
           T == ToSet(r.window.entries)
<1>1. s \in Seq(Entry) /\ n \in Nat /\ Sorted(s) /\ n <= Limit /\ Limit \in Nat
  BY LimitAssumption DEF Windows, WellFormed
<1>2. /\ p \in 0..n /\ p + 1 \in 1..n + 1
      /\ \A i \in 1..n : i <= p <=> Before(s[i], e)
  <2>1. p \in 0..n /\ \A i \in 1..n : i <= p <=> Before(s[i], e)
    BY <1>1, LowerBoundProperties
  <2>2. QED
    BY <1>1, <2>1
<1>3. /\ g \in Seq(Entry) /\ Len(g) = n + 1
      /\ \A j \in 1..n + 1 : g[j] = IF j < p + 1 THEN s[j] ELSE IF j = p + 1 THEN e ELSE s[j - 1]
  <2> HIDE DEF s, p
  <2>1. s \in Seq(Entry) /\ p + 1 \in 1..Len(s) + 1
    BY <1>1, <1>2
  <2>2. /\ InsertAt(s, p + 1, e) \in Seq(Entry)
        /\ HasInserted(InsertAt(s, p + 1, e), s, p + 1, e)
    BY <2>1, InsertAtElements, Zenon
  <2>3. QED
    BY <2>1, <2>2 DEF HasInserted
<1>4. r = InsertAtPosition(w, e, p)
  BY DEF InsertEntry
<1>5. \A x : x \in S <=> \E i \in 1..n : s[i] = x
  BY <1>1, Elements
<1>6. \A i \in 1..n : s[i] \in Entry /\ s[i] # e
  <2>1. \A i \in 1..n : s[i] # e
    BY <1>1, AgreementElim DEF Has, WellFormed
  <2>2. QED
    BY <1>1, <2>1, Elements
<1>7. CASE n < Limit
  <2>1. r.window.entries = g /\ r.inserted = TRUE /\ r.evicted = {} /\ r.threw = FALSE
    <3>1. ~(n + 1 > Limit) /\ ~IsFull(w)
      BY <1>1, <1>7 DEF IsFull
    <3>2. ~(Len(g) > Limit)
      BY <1>3, <3>1
    <3>3. QED
      BY <1>4, <3>1, <3>2 DEF InsertAtPosition
  <2> HIDE DEF r, g, p, S, n, s
  <2>2. ASSUME NEW x PROVE x \in ToSet(g) <=> \E j \in 1..n + 1 : g[j] = x
    <3>1. \A y : y \in ToSet(g) <=> \E j \in 1..Len(g) : g[j] = y
      BY <1>3, Elements
    <3>2. QED
      BY <1>3, <3>1
  <2>3. ASSUME NEW x \in ToSet(g) PROVE x \in S \cup {e}
    <3>1. PICK j \in 1..n + 1 : g[j] = x
      BY <2>2
    <3>2. j < p + 1 => j \in 1..n
      BY <1>1, <1>2
    <3>3. j > p + 1 => j - 1 \in 1..n
      BY <1>1, <1>2
    <3>4. QED
      BY <1>1, <1>2, <1>3, <1>5, <3>1, <3>2, <3>3
  <2>4. ASSUME NEW x \in S \cup {e} PROVE x \in ToSet(g)
    <3>1. CASE x = e
      <4>1. g[p + 1] = e
        BY <1>1, <1>2, <1>3
      <4>2. QED
        BY <1>2, <2>2, <3>1, <4>1
    <3>2. CASE x \in S
      <4>1. PICK i \in 1..n : s[i] = x
        BY <1>5, <3>2
      <4>2. CASE i < p + 1
        <5>1. i \in 1..n + 1 /\ g[i] = x
          BY <1>1, <1>3, <4>1, <4>2
        <5>2. QED
          BY <2>2, <5>1
      <4>3. CASE ~(i < p + 1)
        <5>1. i + 1 \in 1..n + 1 /\ ~(i + 1 < p + 1) /\ i + 1 # p + 1 /\ (i + 1) - 1 = i
          BY <1>1, <1>2, <4>3
        <5>2. g[i + 1] = x
          BY <1>3, <4>1, <5>1
        <5>3. QED
          BY <2>2, <5>1, <5>2
      <4>4. QED
        BY <4>2, <4>3
    <3>3. QED
      BY <3>1, <3>2
  <2>5. ToSet(g) = S \cup {e}
    BY <2>3, <2>4
  <2>6. AddsWithin(S, T, r, e)
    BY <2>1, <2>5 DEF AddsWithin
  <2>7. QED
    BY <1>7, <2>1, <2>6 DEF n, s, S, r
<1>8. CASE n = Limit /\ p >= Limit
  <2>1. r.window = w /\ r.inserted = FALSE /\ r.evicted = {} /\ r.threw = FALSE
    <3>1. IsFull(w)
      BY <1>1, <1>8 DEF IsFull
    <3>2. QED
      BY <1>4, <1>8, <3>1 DEF InsertAtPosition
  <2>2. \A x \in S : Before(x, e)
    <3> SUFFICES ASSUME NEW x \in S PROVE Before(x, e)
      OBVIOUS
    <3> HIDE DEF p, S, n, s
    <3>1. PICK i \in 1..n : s[i] = x
      BY <1>5
    <3>2. i <= p
      BY <1>1, <1>2, <1>8
    <3>3. QED
      BY <1>2, <3>1, <3>2
  <2>3. Refuses(S, T, r, e)
    BY <2>1, <2>2 DEF Refuses
  <2>4. QED
    BY <1>8, <2>1, <2>3
<1>9. CASE n = Limit /\ p < Limit
  <2>1. /\ r.window.entries = Front(g) /\ r.inserted = TRUE /\ r.evicted = {last}
        /\ r.threw = FALSE
    <3>1. Len(g) > Limit /\ ~(p >= Limit)
      BY <1>1, <1>2, <1>3, <1>9
    <3>2. QED
      BY <1>4, <3>1 DEF InsertAtPosition
  <2>2. last = s[n] /\ n \in 1..n /\ n >= p + 1
    <3>1. n \in 1..n /\ n >= p + 1 /\ n + 1 \in 1..n + 1 /\ ~(n + 1 < p + 1) /\ n + 1 # p + 1
          /\ (n + 1) - 1 = n
      BY <1>1, <1>2, <1>9
    <3>2. g[n + 1] = s[n]
      BY <1>3, <3>1
    <3>3. QED
      BY <1>3, <3>1, <3>2
  <2>3. /\ Front(g) \in Seq(Entry) /\ Len(Front(g)) = n
        /\ \A j \in 1..n : Front(g)[j] = g[j]
    <3>1. Len(g) > 0 /\ Len(g) - 1 = n
      BY <1>1, <1>3
    <3>2. QED
      BY <1>3, <3>1, EntriesFront
  <2> DEFINE h == Front(g)
  <2>4. \A x : x \in ToSet(h) <=> \E j \in 1..n : h[j] = x
    BY <2>3, Elements
  <2>5. last \in S /\ last \in Entry /\ last # e
    BY <1>5, <1>6, <2>2
  <2>6. ASSUME NEW x \in (S \cup {e}) \ {last} PROVE Before(x, last)
    <3> HIDE DEF p, S, n, s, last, g
    <3>1. CASE x = e
      <4>1. ~(n <= p)
        BY <1>1, <1>2, <2>2
      <4>2. ~Before(last, e)
        BY <1>2, <2>2, <4>1
      <4>3. QED
        BY <2>5, <3>1, <4>2, BeforeIsStrictTotalOrder
    <3>2. CASE x \in S
      <4>1. PICK i \in 1..n : s[i] = x
        BY <1>5, <3>2
      <4>2. i # n
        BY <2>2, <2>6, <4>1
      <4>3. i < n
        BY <1>1, <4>1, <4>2
      <4>4. QED
        BY <1>1, <2>2, <4>1, <4>3 DEF Sorted, n
    <3>3. QED
      BY <2>6, <3>1, <3>2
  <2> HIDE DEF h, g, p, S, n, s, last, r
  <2>7. \A j \in 1..n : h[j] = IF j < p + 1 THEN s[j] ELSE IF j = p + 1 THEN e ELSE s[j - 1]
    <3>1. \A j \in 1..n : j \in 1..n + 1
      BY <1>1
    <3>2. QED
      BY <1>3, <2>3, <3>1 DEF h
  <2>8. ASSUME NEW x \in ToSet(h) PROVE x \in (S \cup {e}) \ {last}
    <3>1. PICK j \in 1..n : h[j] = x
      BY <2>4
    <3>2. ASSUME NEW i \in 1..n, i < n PROVE s[i] \in S /\ s[i] # last
      <4>1. s[i] \in Entry /\ Before(s[i], s[n])
        BY <1>1, <1>6, <2>2, <3>2 DEF Sorted, n
      <4>2. QED
        BY <1>5, <2>2, <2>5, <4>1, BeforeIsStrictTotalOrder
    <3>3. j < p + 1 => j < n
      BY <1>1, <1>2, <2>2
    <3>4. j > p + 1 => j - 1 \in 1..n /\ j - 1 < n
      BY <1>1, <1>2
    <3>5. j < p + 1 \/ j = p + 1 \/ j > p + 1
      BY <1>1, <1>2
    <3>6. CASE j < p + 1
      BY <2>7, <3>1, <3>2, <3>3, <3>6
    <3>7. CASE j = p + 1
      <4>1. ~(j < p + 1)
        BY <1>2, <3>7
      <4>2. QED
        BY <2>5, <2>7, <3>1, <3>7, <4>1
    <3>8. CASE j > p + 1
      <4>1. ~(j < p + 1) /\ j # p + 1
        BY <1>1, <1>2, <3>8
      <4>2. x = s[j - 1]
        BY <2>7, <3>1, <4>1
      <4>3. QED
        BY <3>2, <3>4, <3>8, <4>2
    <3>9. QED
      BY <3>5, <3>6, <3>7, <3>8
  <2>9. ASSUME NEW x \in (S \cup {e}) \ {last} PROVE x \in ToSet(h)
    <3>1. CASE x = e
      <4>1. p + 1 \in 1..n /\ ~(p + 1 < p + 1)
        BY <1>1, <1>2, <2>2
      <4>2. h[p + 1] = e
        BY <2>7, <4>1
      <4>3. QED
        BY <2>4, <3>1, <4>1, <4>2
    <3>2. CASE x \in S
      <4>1. PICK i \in 1..n : s[i] = x
        BY <1>5, <3>2
      <4>2. i # n
        BY <2>2, <2>9, <4>1
      <4>3. CASE i < p + 1
        BY <2>4, <2>7, <4>1, <4>3
      <4>4. CASE ~(i < p + 1)
        <5>1. i + 1 \in 1..n /\ ~(i + 1 < p + 1) /\ i + 1 # p + 1 /\ (i + 1) - 1 = i
          BY <1>1, <1>2, <4>2, <4>4
        <5>2. h[i + 1] = x
          BY <2>7, <4>1, <5>1
        <5>3. QED
          BY <2>4, <5>1, <5>2
      <4>5. QED
        BY <4>3, <4>4
    <3>3. QED
      BY <2>9, <3>1, <3>2
  <2>10. ToSet(h) = (S \cup {e}) \ {last}
    BY <2>8, <2>9
  <2>11. Displaces(S, T, r, e)
    BY <2>1, <2>5, <2>6, <2>10 DEF Displaces, h
  <2>12. QED
    BY <1>9, <2>1, <2>11 DEF n, s, S, r
<1>10. n < Limit \/ (n = Limit /\ p >= Limit) \/ (n = Limit /\ p < Limit)
  BY <1>1, <1>2
<1>11. QED
  BY <1>7, <1>8, <1>9, <1>10

\* remove, seen on the set: exactly the entry of that id is gone.
LEMMA RemoveEntryOnSets ==
  ASSUME NEW w \in Windows, WellFormed(w), NEW id, Has(w, id)
  PROVE  ToSet(RemoveEntry(w, id).entries) = {m \in ToSet(w.entries) : m.id # id}
<1> DEFINE s == w.entries
           n == Len(s)
<1>1. s \in Seq(Entry) /\ n \in Nat /\ Sorted(s) /\ IndexAgrees(w)
  BY DEF Windows, WellFormed
<1>2. PICK k \in 1..n : s[k].id = id
  BY <1>1, AgreementElim DEF Has
<1>3. w.index[id] = s[k]
  BY <1>1, <1>2, AgreementElim
<1>4. LowerBound(s, s[k]) = k - 1
  BY <1>1, LowerBoundProperties
<1> DEFINE h == RemoveAt(s, k)
<1>5. RemoveEntry(w, id).entries = h
  <2>1. Splice(s, k - 1) = h
    BY <1>1 DEF Splice
  <2>2. QED
    BY <1>3, <1>4, <2>1 DEF RemoveEntry, RemoveAtPosition
<1>6. /\ h \in Seq(Entry) /\ Len(h) = n - 1
      /\ \A j \in 1..n - 1 : h[j] = IF j < k THEN s[j] ELSE s[j + 1]
  BY <1>1, EntriesRemoveAt
<1>7. \A x : x \in ToSet(h) <=> \E j \in 1..n - 1 : h[j] = x
  BY <1>6, Elements
<1>8. \A x : x \in ToSet(s) <=> \E j \in 1..n : s[j] = x
  BY <1>1, Elements
<1>9. \A i \in 1..n : i # k => s[i].id # id
  BY <1>1, <1>2, DistinctIds
<1> HIDE DEF h, n, s
<1>10. ASSUME NEW x \in ToSet(h) PROVE x \in ToSet(s) /\ x.id # id
  <2>1. PICK j \in 1..n - 1 : h[j] = x
    BY <1>7
  <2>2. CASE j < k
    <3>1. j \in 1..n /\ j # k /\ x = s[j]
      BY <1>1, <1>6, <2>1, <2>2
    <3>2. QED
      BY <1>8, <1>9, <3>1
  <2>3. CASE ~(j < k)
    <3>1. j + 1 \in 1..n /\ j + 1 # k /\ x = s[j + 1]
      BY <1>1, <1>6, <2>1, <2>3
    <3>2. QED
      BY <1>8, <1>9, <3>1
  <2>4. QED
    BY <2>2, <2>3
<1>11. ASSUME NEW x \in ToSet(s), x.id # id PROVE x \in ToSet(h)
  <2>1. PICK i \in 1..n : s[i] = x
    BY <1>8
  <2>2. i # k
    BY <1>2, <1>11, <2>1
  <2>3. CASE i < k
    <3>1. i \in 1..n - 1 /\ h[i] = x
      BY <1>1, <1>6, <2>1, <2>3
    <3>2. QED
      BY <1>7, <3>1
  <2>4. CASE ~(i < k)
    <3>1. i - 1 \in 1..n - 1 /\ ~(i - 1 < k) /\ (i - 1) + 1 = i
      BY <1>1, <2>1, <2>2, <2>4
    <3>2. h[i - 1] = x
      BY <1>6, <2>1, <3>1
    <3>3. QED
      BY <1>7, <3>1, <3>2
  <2>5. QED
    BY <2>3, <2>4
<1>12. QED
  BY <1>5, <1>10, <1>11 DEF s

\* The set holds an id exactly when the id map does.
LEMMA SameHolds ==
  ASSUME NEW w \in Windows, WellFormed(w), NEW id
  PROVE  Has(w, id) <=> \E m \in ToSet(w.entries) : m.id = id
<1>1. w.entries \in Seq(Entry) /\ IndexAgrees(w)
  BY DEF Windows, WellFormed
<1>2. Has(w, id) <=> \E i \in 1..Len(w.entries) : w.entries[i].id = id
  BY <1>1, AgreementElim DEF Has
<1>3. QED
  BY <1>1, <1>2, Elements

-----------------------------------------------------------------------------
(* Windows, rows and sets.                                                 *)

Elems(w) == ToSet(w.entries)
IdsOf(S) == {x.id : x \in S}

\* Everything the window does not hold comes after what it holds.
Below(w, S) == \A x \in Elems(w), y \in S \ Elems(w) : Before(x, y)

\* The window, with some rows after it, is the first of S.
Leads(w, rows, S) ==
  /\ Below(w, S)
  /\ Sorted(rows) /\ ToSet(rows) \subseteq S \ Elems(w)
  /\ \A x \in ToSet(rows), y \in S \ (Elems(w) \cup ToSet(rows)) : Before(x, y)
  /\ Len(w.entries) + Len(rows) <= Limit
  /\ Len(w.entries) + Len(rows) < Limit => S \subseteq Elems(w) \cup ToSet(rows)

LEMMA FirstRowsType ==
  ASSUME NEW S \in SUBSET Entry, NEW n \in Nat, NEW rows \in FirstRows(S, n)
  PROVE  rows \in Seq(Entry)
<1>1. PICK k \in 0..n : rows \in [1..k -> S]
  BY DEF FirstRows
<1>2. QED
  BY <1>1

LEMMA BoundaryType ==
  ASSUME NEW w \in Windows
  PROVE  Boundary(w) \in SUBSET Entry
<1>1. w.entries \in Seq(Entry)
  BY DEF Windows
<1>2. CASE w.entries = <<>>
  BY <1>2 DEF Boundary
<1>3. CASE w.entries # <<>>
  <2>1. Len(w.entries) \in 1..Len(w.entries)
    BY <1>1, <1>3
  <2>2. w.entries[Len(w.entries)] \in Entry
    BY <1>1, <2>1
  <2>3. QED
    BY <1>3, <2>2 DEF Boundary
<1>4. QED
  BY <1>2, <1>3

LEMMA BackfillCountType ==
  ASSUME NEW w \in Windows
  PROVE  BackfillCount(w) \in Nat
<1>1. Len(w.entries) \in Nat
  BY DEF Windows
<1>2. QED
  BY <1>1, LimitAssumption DEF BackfillCount, IsFull

LEMMA WindowElems ==
  ASSUME NEW w \in Windows, WellFormed(w)
  PROVE  /\ w.entries \in Seq(Entry) /\ Len(w.entries) \in Nat /\ Len(w.entries) <= Limit
         /\ Limit \in Nat /\ Sorted(w.entries)
         /\ Elems(w) \subseteq Entry
         /\ \A x, y \in Elems(w) : x.id = y.id => x = y
         /\ \A id : Has(w, id) <=> \E x \in Elems(w) : x.id = id
         /\ Ids(w) = IdsOf(Elems(w))
         /\ \A x : x \in Elems(w) <=> \E i \in 1..Len(w.entries) : w.entries[i] = x
<1>1. /\ w.entries \in Seq(Entry) /\ Len(w.entries) \in Nat /\ Len(w.entries) <= Limit
      /\ Limit \in Nat /\ Sorted(w.entries) /\ IndexAgrees(w)
  BY LimitAssumption DEF Windows, WellFormed
<1>2. \A x : x \in Elems(w) <=> \E i \in 1..Len(w.entries) : w.entries[i] = x
  BY <1>1, Elements DEF Elems
<1>3. Elems(w) \subseteq Entry
  BY <1>1, <1>2, Elements
<1>4. \A x, y \in Elems(w) : x.id = y.id => x = y
  BY <1>1, <1>2, DistinctIds
<1>5. \A id : Has(w, id) <=> \E x \in Elems(w) : x.id = id
  BY SameHolds DEF Elems
<1>6. Ids(w) = IdsOf(Elems(w))
  <2>1. DOMAIN w.entries = 1..Len(w.entries)
    BY <1>1
  <2>2. Ids(w) = {w.entries[i].id : i \in 1..Len(w.entries)}
    BY <2>1 DEF Ids
  <2>3. ASSUME NEW x PROVE x \in Ids(w) <=> x \in IdsOf(Elems(w))
    BY <1>2, <2>2 DEF IdsOf
  <2>4. QED
    BY <2>3
<1>7. QED
  BY <1>1, <1>2, <1>3, <1>4, <1>5, <1>6

\* A sequence without elements, and one with a first.
LEMMA NoRows == ToSet(<<>>) = {} /\ Sorted(<<>>) /\ Len(<<>>) = 0
BY DEF ToSet, Sorted

LEMMA FirstOfRows ==
  ASSUME NEW rows \in Seq(Entry), rows # <<>>
  PROVE  /\ Head(rows) \in Entry /\ Tail(rows) \in Seq(Entry)
         /\ Len(rows) \in Nat /\ Len(rows) > 0 /\ Len(Tail(rows)) = Len(rows) - 1
         /\ ToSet(rows) = {Head(rows)} \cup ToSet(Tail(rows))
         /\ Sorted(rows) => /\ Sorted(Tail(rows))
                            /\ \A y \in ToSet(Tail(rows)) : Before(Head(rows), y) /\ y # Head(rows)
<1>1. /\ Head(rows) \in Entry /\ Tail(rows) \in Seq(Entry)
      /\ Len(rows) \in Nat /\ Len(rows) > 0 /\ Len(Tail(rows)) = Len(rows) - 1
      /\ Head(rows) = rows[1] /\ 1 \in 1..Len(rows)
  OBVIOUS
<1> DEFINE n == Len(rows)
           q == Tail(rows)
<1>2. \A i \in 1..n - 1 : q[i] = rows[i + 1] /\ i + 1 \in 1..n /\ rows[i + 1] \in Entry
  BY <1>1
<1>3. /\ \A x : x \in ToSet(rows) <=> \E i \in 1..n : rows[i] = x
      /\ \A x : x \in ToSet(q) <=> \E i \in 1..n - 1 : q[i] = x
      /\ n \in Nat /\ n > 0
  <2>1. \A x : x \in ToSet(q) <=> \E i \in 1..Len(q) : q[i] = x
    BY <1>1, Elements
  <2>2. QED
    BY <1>1, <2>1, Elements
<1> HIDE DEF n, q
<1>4. ASSUME NEW x PROVE x \in ToSet(rows) <=> x = rows[1] \/ x \in ToSet(q)
  <2>1. ASSUME x \in ToSet(rows) PROVE x = rows[1] \/ x \in ToSet(q)
    <3>1. PICK i \in 1..n : rows[i] = x
      BY <1>3, <2>1
    <3>2. CASE i = 1
      BY <3>1, <3>2
    <3>3. CASE i # 1
      <4>1. i - 1 \in 1..n - 1 /\ (i - 1) + 1 = i
        BY <1>3, <3>3
      <4>2. q[i - 1] = x
        BY <1>2, <3>1, <4>1
      <4>3. QED
        BY <1>3, <4>1, <4>2
    <3>4. QED
      BY <3>2, <3>3
  <2>2. ASSUME x \in ToSet(q) PROVE x \in ToSet(rows)
    <3>1. PICK i \in 1..n - 1 : q[i] = x
      BY <1>3, <2>2
    <3>2. i + 1 \in 1..n /\ rows[i + 1] = x
      BY <1>2, <3>1
    <3>3. QED
      BY <1>3, <3>2
  <2>3. rows[1] \in ToSet(rows)
    BY <1>1, <1>3 DEF n
  <2>4. QED
    BY <2>1, <2>2, <2>3
<1>5. ToSet(rows) = {rows[1]} \cup ToSet(q)
  BY <1>4
<1>6. ASSUME Sorted(rows)
      PROVE  Sorted(q) /\ \A y \in ToSet(q) : Before(rows[1], y) /\ y # rows[1]
  <2>1. \A i, j \in 1..n : i < j => Before(rows[i], rows[j])
    BY <1>6 DEF Sorted, n
  <2>2. ASSUME NEW i \in 1..n - 1, NEW j \in 1..n - 1, i < j PROVE Before(q[i], q[j])
    <3>1. i + 1 \in 1..n /\ j + 1 \in 1..n /\ i + 1 < j + 1
      BY <1>3, <2>2
    <3>2. q[i] = rows[i + 1] /\ q[j] = rows[j + 1]
      BY <1>2
    <3>3. QED
      BY <2>1, <3>1, <3>2
  <2>3. Len(q) = n - 1
    BY <1>1 DEF q, n
  <2>4. Sorted(q)
    BY <2>2, <2>3 DEF Sorted
  <2>5. ASSUME NEW y \in ToSet(q) PROVE Before(rows[1], y) /\ y # rows[1]
    <3>1. PICK i \in 1..n - 1 : q[i] = y
      BY <1>3
    <3>2. y = rows[i + 1] /\ i + 1 \in 1..n /\ 1 < i + 1 /\ 1 \in 1..n /\ y \in Entry
      BY <1>2, <1>3, <3>1
    <3>3. Before(rows[1], y)
      BY <2>1, <3>2
    <3>4. ~Before(y, y)
      BY <3>2, BeforeIsStrictTotalOrder
    <3>5. QED
      BY <3>3, <3>4
  <2>6. QED
    BY <2>4, <2>5
<1>7. QED
  BY <1>1, <1>5, <1>6 DEF q

\* insert of a row that is not held, with what it does to the number of entries.
LEMMA TakesIn ==
  ASSUME NEW w \in Windows, WellFormed(w), NEW e \in Entry, ~Has(w, e.id)
  PROVE  LET r == InsertEntry(w, e)
             n == Len(w.entries)
         IN  /\ r.threw = FALSE
             /\ r.window \in Windows /\ WellFormed(r.window)
             /\ \/ /\ n < Limit /\ Len(r.window.entries) = n + 1
                   /\ AddsWithin(Elems(w), Elems(r.window), r, e)
                \/ /\ n = Limit /\ Len(r.window.entries) = n
                   /\ Refuses(Elems(w), Elems(r.window), r, e)
                \/ /\ n = Limit /\ Len(r.window.entries) = n
                   /\ Displaces(Elems(w), Elems(r.window), r, e)
<1> DEFINE r == InsertEntry(w, e)
           n == Len(w.entries)
           m == Len(r.window.entries)
           S == Elems(w)
           T == Elems(r.window)
<1>1. r.window \in Windows /\ WellFormed(r.window)
  BY InsertEntryPreserves
<1>2. n \in Nat /\ n <= Limit /\ Limit \in Nat /\ S \subseteq Entry /\ e \notin S
  BY WindowElems
<1>3. m \in Nat
  BY <1>1, WindowElems
<1>4. CASE Limit = 0
  <2>1. r.threw = FALSE /\ r.window = w /\ r.inserted = FALSE /\ r.evicted = {}
    BY <1>4 DEF InsertEntry, Unchanged
  <2>2. n = Limit /\ S = {}
    <3>1. n = 0
      BY <1>2, <1>4
    <3>2. QED
      BY <1>4, <3>1, WindowElems
  <2>3. QED
    BY <1>1, <2>1, <2>2 DEF Refuses
<1>5. CASE Limit # 0
  <2>1. /\ r.threw = FALSE
        /\ \/ n < Limit /\ AddsWithin(S, T, r, e)
           \/ n = Limit /\ Refuses(S, T, r, e)
           \/ n = Limit /\ Displaces(S, T, r, e)
    BY <1>5, InsertEntryOnSets DEF Elems
  <2>2. IsFiniteSet(S) /\ Cardinality(S) = n /\ Cardinality(T) = m
    BY <1>1, WindowElems, SizeOfEntries DEF Elems
  <2> HIDE DEF S, T, n, m, r
  <2>3. IsFiniteSet(S \cup {e}) /\ Cardinality(S \cup {e}) = n + 1
    BY <1>2, <2>2, FS_AddElement
  <2>4. CASE n < Limit /\ AddsWithin(S, T, r, e)
    BY <1>1, <2>1, <2>2, <2>3, <2>4 DEF AddsWithin, S, T, n, m, r
  <2>5. CASE n = Limit /\ Refuses(S, T, r, e)
    BY <1>1, <2>1, <2>2, <2>5 DEF Refuses, S, T, n, m, r
  <2>6. CASE n = Limit /\ Displaces(S, T, r, e)
    <3>1. PICK last \in S : T = (S \cup {e}) \ {last}
      BY <2>6 DEF Displaces
    <3>2. Cardinality(T) = (n + 1) - 1
      BY <2>3, <3>1, FS_RemoveElement
    <3>3. m = n
      BY <1>2, <2>2, <3>2
    <3>4. QED
      BY <1>1, <2>1, <2>6, <3>3 DEF S, T, n, m, r
  <2>7. QED
    BY <2>1, <2>4, <2>5, <2>6
<1>6. QED
  BY <1>4, <1>5

\* remove of a row that is held.
LEMMA TakesOut ==
  ASSUME NEW w \in Windows, WellFormed(w), NEW id, Has(w, id)
  PROVE  LET v == RemoveEntry(w, id)
         IN  /\ v \in Windows /\ WellFormed(v)
             /\ ~Has(v, id) /\ Len(v.entries) = Len(w.entries) - 1
             /\ Elems(v) = {x \in Elems(w) : x.id # id}
BY RemoveEntryPreserves, RemoveEntryOnSets DEF Elems

-----------------------------------------------------------------------------
(* The first rows of a set.                                                *)

LEMMA LeadsNothing ==
  ASSUME NEW w \in Windows, WellFormed(w), NEW S
  PROVE  Leads(w, <<>>, S) <=> /\ Below(w, S)
                               /\ Len(w.entries) < Limit => S \subseteq Elems(w)
<1>1. Len(w.entries) \in Nat /\ Len(w.entries) <= Limit /\ Limit \in Nat
  BY WindowElems
<1>2. \A n \in Nat : n + 0 = n
  OBVIOUS
<1>3. Len(w.entries) + Len(<<>>) = Len(w.entries)
  BY <1>1, <1>2, NoRows
<1> DEFINE n == Len(w.entries)
           z == Len(<<>>)
           none == ToSet(<<>>)
<1>4. none = {} /\ Sorted(<<>>)
  BY NoRows
<1>5. n + z = n /\ n <= Limit
  BY <1>1, <1>3
<1> HIDE DEF n, z, none
<1>6. Leads(w, <<>>, S) <=>
        /\ Below(w, S)
        /\ Sorted(<<>>) /\ none \subseteq S \ Elems(w)
        /\ \A x \in none, y \in S \ (Elems(w) \cup none) : Before(x, y)
        /\ n + z <= Limit
        /\ n + z < Limit => S \subseteq Elems(w) \cup none
  BY DEF Leads, n, z, none
<1>7. QED
  BY <1>4, <1>5, <1>6 DEF n

LEMMA LeadsSmaller ==
  ASSUME NEW w \in Windows, WellFormed(w), NEW S, Leads(w, <<>>, S), NEW R \in SUBSET S
  PROVE  Leads(w, <<>>, R)
<1>1. Below(w, S) /\ (Len(w.entries) < Limit => S \subseteq Elems(w))
  BY LeadsNothing
<1>2. Below(w, R) /\ (Len(w.entries) < Limit => R \subseteq Elems(w))
  BY <1>1 DEF Below
<1>3. QED
  BY <1>2, LeadsNothing

\* A new row is placed: the window is the first of the set with it.
LEMMA PlacedLeads ==
  ASSUME NEW w \in Windows, WellFormed(w), NEW R \in SUBSET Entry, NEW e \in Entry,
         Leads(w, <<>>, R), ~Has(w, e.id)
  PROVE  Leads(InsertEntry(w, e).window, <<>>, R \cup {e})
<1> DEFINE r == InsertEntry(w, e)
           S == Elems(w)
           T == Elems(r.window)
           m == Len(r.window.entries)
           n == Len(w.entries)
<1>1. Below(w, R) /\ (n < Limit => R \subseteq S)
  BY LeadsNothing
<1>2. r.window \in Windows /\ WellFormed(r.window)
  BY TakesIn
<1>3. n \in Nat /\ Limit \in Nat /\ S \subseteq Entry
  BY WindowElems
<1>4. \A x \in S, y \in R \ S : Before(x, y)
  BY <1>1 DEF Below
<1>5. \/ n < Limit /\ m = n + 1 /\ AddsWithin(S, T, r, e)
      \/ n = Limit /\ m = n /\ Refuses(S, T, r, e)
      \/ n = Limit /\ m = n /\ Displaces(S, T, r, e)
  BY TakesIn
<1> HIDE DEF r, S, T, m, n
<1>6. /\ \A x \in T, y \in (R \cup {e}) \ T : Before(x, y)
      /\ m < Limit => R \cup {e} \subseteq T
  <2>1. CASE n < Limit /\ AddsWithin(S, T, r, e)
    BY <1>1, <2>1 DEF AddsWithin
  <2>2. CASE n = Limit /\ m = n /\ Refuses(S, T, r, e)
    BY <1>3, <1>4, <2>2 DEF Refuses
  <2>3. CASE n = Limit /\ m = n /\ Displaces(S, T, r, e)
    <3>1. PICK last \in S : /\ \A x \in (S \cup {e}) \ {last} : Before(x, last)
                            /\ T = (S \cup {e}) \ {last}
      BY <2>3 DEF Displaces
    <3>2. ASSUME NEW x \in T, NEW y \in (R \cup {e}) \ T PROVE Before(x, y)
      <4>1. x \in Entry /\ y \in Entry /\ last \in Entry /\ Before(x, last)
        BY <1>3, <3>1, <3>2
      <4>2. y = last \/ y \in R \ S
        BY <3>1, <3>2
      <4>3. y = last \/ Before(last, y)
        BY <1>4, <3>1, <4>2
      <4>4. QED
        BY <4>1, <4>3, BeforeIsStrictTotalOrder
    <3>3. ~(m < Limit)
      BY <1>3, <2>3
    <3>4. QED
      BY <3>2, <3>3
  <2>4. QED
    BY <1>5, <2>1, <2>2, <2>3
<1>7. QED
  BY <1>2, <1>6, LeadsNothing DEF Below, r, T, m

\* The next of the rows that were read is placed: it fits, behind all others.
LEMMA NextRowLeads ==
  ASSUME NEW w \in Windows, WellFormed(w), NEW S \in SUBSET Entry,
         \A x, y \in S : x.id = y.id => x = y, Elems(w) \subseteq S,
         NEW rows \in Seq(Entry), rows # <<>>, Leads(w, rows, S)
  PROVE  /\ ~Has(w, Head(rows).id)
         /\ Elems(InsertEntry(w, Head(rows)).window) = Elems(w) \cup {Head(rows)}
         /\ Leads(InsertEntry(w, Head(rows)).window, Tail(rows), S)
<1> DEFINE e == Head(rows)
           q == Tail(rows)
           r == InsertEntry(w, e)
           E == Elems(w)
           T == Elems(r.window)
           m == Len(r.window.entries)
           n == Len(w.entries)
           k == Len(rows)
           l == Len(q)
           P == ToSet(rows)
           Q == ToSet(q)
<1>1. /\ e \in Entry /\ q \in Seq(Entry) /\ k \in Nat /\ k > 0 /\ l = k - 1
      /\ P = {e} \cup Q
  BY FirstOfRows
<1>2. /\ Below(w, S) /\ Sorted(rows) /\ P \subseteq S \ E
      /\ \A x \in P, y \in S \ (E \cup P) : Before(x, y)
      /\ n + k <= Limit
      /\ n + k < Limit => S \subseteq E \cup P
  BY DEF Leads
<1>3. Sorted(q) /\ \A y \in Q : Before(e, y) /\ y # e
  BY <1>2, FirstOfRows
<1>4. n \in Nat /\ Limit \in Nat
  BY WindowElems
<1>5. ~Has(w, e.id)
  <2>1. \A x \in E : x \in S /\ x # e /\ e \in S
    BY <1>1, <1>2
  <2>2. \A x \in E : x.id # e.id
    BY <2>1
  <2>3. QED
    BY <2>2, WindowElems
<1>6. \/ n < Limit /\ m = n + 1 /\ AddsWithin(E, T, r, e)
      \/ n = Limit /\ m = n /\ Refuses(E, T, r, e)
      \/ n = Limit /\ m = n /\ Displaces(E, T, r, e)
  BY <1>1, <1>5, TakesIn
<1> HIDE DEF e, q, r, E, T, m, n, k, l, P, Q
<1>7. m = n + 1 /\ T = E \cup {e} /\ m + l = n + k
  BY <1>1, <1>2, <1>4, <1>6 DEF AddsWithin
<1>8. \A x \in E, y \in S \ E : Before(x, y)
  BY <1>2 DEF Below, E
<1>9. Below(r.window, S)
  <2> SUFFICES ASSUME NEW x \in T, NEW y \in S \ T PROVE Before(x, y)
    BY DEF Below, T
  <2>1. CASE x \in E
    BY <1>7, <1>8, <2>1
  <2>2. CASE x = e
    <3>1. y \in Q \/ y \in S \ (E \cup P)
      BY <1>1, <1>7
    <3>2. QED
      BY <1>1, <1>2, <1>3, <2>2, <3>1
  <2>3. QED
    BY <1>7, <2>1, <2>2
<1>10. Q \subseteq S \ T
  BY <1>1, <1>2, <1>3, <1>7
<1>11. T \cup Q = E \cup P
  BY <1>1, <1>7
<1>12. \A x \in Q, y \in S \ (T \cup Q) : Before(x, y)
  BY <1>1, <1>2, <1>11
<1>13. m + l <= Limit /\ (m + l < Limit => S \subseteq T \cup Q)
  BY <1>2, <1>7, <1>11
<1>14. Leads(r.window, q, S)
  BY <1>3, <1>9, <1>10, <1>12, <1>13 DEF Leads, T, Q, m, l
<1>15. QED
  BY <1>5, <1>7, <1>14 DEF e, q, r, E, T

-----------------------------------------------------------------------------
(* What a read past the boundary brings.                                   *)

LEMMA BoundaryIsLast ==
  ASSUME NEW w \in Windows, WellFormed(w)
  PROVE  \/ Elems(w) = {} /\ Boundary(w) = {}
         \/ \E l \in Elems(w) : Boundary(w) = {l} /\ \A x \in Elems(w) \ {l} : Before(x, l)
<1> DEFINE s == w.entries
           n == Len(s)
<1>1. /\ s \in Seq(Entry) /\ n \in Nat /\ \A i, j \in 1..n : i < j => Before(s[i], s[j])
      /\ \A x : x \in Elems(w) <=> \E i \in 1..n : s[i] = x
  BY WindowElems DEF Sorted
<1>2. CASE s = <<>>
  <2>1. n = 0
    BY <1>2
  <2>2. QED
    BY <1>1, <1>2, <2>1 DEF Boundary
<1>3. CASE s # <<>>
  <2>1. n \in 1..n
    BY <1>1, <1>3
  <2>2. Boundary(w) = {s[n]} /\ s[n] \in Elems(w)
    BY <1>1, <1>3, <2>1 DEF Boundary
  <2> HIDE DEF s, n
  <2>3. ASSUME NEW x \in Elems(w) \ {s[n]} PROVE Before(x, s[n])
    <3>1. PICK i \in 1..n : s[i] = x
      BY <1>1
    <3>2. i # n
      BY <2>3, <3>1
    <3>3. i < n
      BY <1>1, <3>1, <3>2
    <3>4. QED
      BY <1>1, <2>1, <3>1, <3>3
  <2>4. QED
    BY <2>2, <2>3
<1>4. QED
  BY <1>2, <1>3

LEMMA AfterBoundary ==
  ASSUME NEW w \in Windows, WellFormed(w), NEW S \in SUBSET Entry, Below(w, S)
  PROVE  After(S, Boundary(w)) = S \ Elems(w)
<1>1. Elems(w) \subseteq Entry
  BY WindowElems
<1>2. CASE Elems(w) = {} /\ Boundary(w) = {}
  BY <1>2 DEF After
<1>3. CASE \E l \in Elems(w) : Boundary(w) = {l} /\ \A x \in Elems(w) \ {l} : Before(x, l)
  <2>1. PICK l \in Elems(w) : Boundary(w) = {l} /\ \A x \in Elems(w) \ {l} : Before(x, l)
    BY <1>3
  <2>2. After(S, Boundary(w)) = {y \in S : Before(l, y)}
    BY <2>1 DEF After
  <2>3. \A y \in S \ Elems(w) : Before(l, y)
    BY <2>1 DEF Below
  <2>4. ASSUME NEW y \in Elems(w) PROVE ~Before(l, y)
    <3>1. y \in Entry /\ l \in Entry
      BY <1>1, <2>1
    <3>2. y = l \/ Before(y, l)
      BY <2>1
    <3>3. QED
      BY <3>1, <3>2, BeforeIsStrictTotalOrder
  <2>5. QED
    BY <2>2, <2>3, <2>4
<1>4. QED
  BY <1>2, <1>3, BoundaryIsLast

LEMMA FirstRowsFacts ==
  ASSUME NEW S \in SUBSET Entry, NEW n \in Nat, NEW rows \in FirstRows(S, n)
  PROVE  /\ rows \in Seq(Entry) /\ Len(rows) \in Nat /\ Len(rows) <= n
         /\ Sorted(rows) /\ ToSet(rows) \subseteq S
         /\ Len(rows) < n => S \subseteq ToSet(rows)
         /\ \A x \in ToSet(rows), y \in S \ ToSet(rows) : Before(x, y)
<1>1. PICK k \in 0..n : rows \in [1..k -> S]
  BY DEF FirstRows
<1>2. IsFirst(rows, S, n)
  BY DEF FirstRows
<1>3. rows \in Seq(Entry) /\ Len(rows) = k /\ \A i \in 1..k : rows[i] \in S
  BY <1>1
<1>4. \A x : x \in ToSet(rows) <=> \E i \in 1..k : rows[i] = x
  BY <1>3, Elements
<1>5. ToSet(rows) \subseteq S
  BY <1>3, <1>4
<1>6. \A x \in ToSet(rows), y \in S \ ToSet(rows) : Before(x, y)
  BY <1>2, <1>3, <1>4 DEF IsFirst
<1>7. QED
  BY <1>2, <1>3, <1>5, <1>6 DEF IsFirst

\* As many rows as there are free slots, from behind the boundary.
LEMMA ReadRowsLead ==
  ASSUME NEW w \in Windows, WellFormed(w), NEW S \in SUBSET Entry, Below(w, S),
         NEW n \in Nat, Len(w.entries) + n = Limit,
         NEW rows \in FirstRows(After(S, Boundary(w)), n)
  PROVE  Leads(w, rows, S)
<1> DEFINE R == S \ Elems(w)
           P == ToSet(rows)
           m == Len(w.entries)
           k == Len(rows)
<1>1. After(S, Boundary(w)) = R
  BY AfterBoundary
<1>2. /\ k \in Nat /\ k <= n /\ Sorted(rows) /\ P \subseteq R
      /\ k < n => R \subseteq P
      /\ \A x \in P, y \in R \ P : Before(x, y)
  BY <1>1, FirstRowsFacts
<1>3. m \in Nat /\ Limit \in Nat /\ m + n = Limit
  BY WindowElems
<1>4. m + k <= Limit /\ (m + k < Limit => k < n)
  <2> HIDE DEF m, k
  <2>1. QED
    BY <1>2, <1>3
<1>5. \A x \in P, y \in S \ (Elems(w) \cup P) : Before(x, y)
  BY <1>2
<1> HIDE DEF m, k, P
<1>6. m + k < Limit => S \subseteq Elems(w) \cup P
  BY <1>2, <1>4
<1>7. QED
  BY <1>2, <1>4, <1>5, <1>6 DEF Leads, m, k, P

\* The window a new client's read seeds is empty.
LEMMA SeedRowsLead ==
  ASSUME NEW w \in Windows, w.entries = <<>>, WellFormed(w), NEW S \in SUBSET Entry,
         NEW rows \in FirstRows(After(S, {}), Limit)
  PROVE  Leads(w, rows, S)
<1>1. Boundary(w) = {} /\ Elems(w) = {} /\ Len(w.entries) = 0
  BY NoRows DEF Boundary, Elems
<1>2. Below(w, S)
  BY <1>1 DEF Below
<1>3. Len(w.entries) + Limit = Limit /\ Limit \in Nat
  BY <1>1, LimitAssumption
<1>4. QED
  BY <1>1, <1>2, <1>3, ReadRowsLead

\* Two first sets of the same rows are one.
LEMMA FirstIsUnique ==
  ASSUME NEW P, NEW Q, NEW S \in SUBSET Entry, P \subseteq S, Q \subseteq S,
         IsFiniteSet(P), IsFiniteSet(Q), Cardinality(P) <= Limit, Cardinality(Q) <= Limit,
         Cardinality(P) < Limit => S \subseteq P, Cardinality(Q) < Limit => S \subseteq Q,
         \A x \in P, y \in S \ P : Before(x, y), \A x \in Q, y \in S \ Q : Before(x, y)
  PROVE  P = Q
<1>0. Limit \in Nat /\ Cardinality(P) \in Nat /\ Cardinality(Q) \in Nat
  BY LimitAssumption, FS_CardinalityType
<1>1. P \subseteq Q \/ Q \subseteq P
  <2> SUFFICES ASSUME ~(P \subseteq Q), ~(Q \subseteq P) PROVE FALSE
    OBVIOUS
  <2>1. PICK x \in P \ Q, y \in Q \ P : TRUE
    OBVIOUS
  <2>2. Before(x, y) /\ Before(y, x) /\ x \in Entry /\ y \in Entry
    BY <2>1
  <2>3. QED
    BY <2>2, BeforeAsymmetric
<1>2. CASE P \subseteq Q
  <2>1. CASE Cardinality(P) < Limit
    BY <1>2, <2>1
  <2>2. CASE ~(Cardinality(P) < Limit)
    <3>1. Cardinality(P) <= Cardinality(Q)
      BY <1>2, FS_Subset
    <3>2. Cardinality(P) = Cardinality(Q)
      BY <1>0, <2>2, <3>1
    <3>3. QED
      BY <1>2, <3>2, FS_Subset
  <2>3. QED
    BY <2>1, <2>2
<1>3. CASE Q \subseteq P
  <2>1. CASE Cardinality(Q) < Limit
    BY <1>3, <2>1
  <2>2. CASE ~(Cardinality(Q) < Limit)
    <3>1. Cardinality(Q) <= Cardinality(P)
      BY <1>3, FS_Subset
    <3>2. Cardinality(P) = Cardinality(Q)
      BY <1>0, <2>2, <3>1
    <3>3. QED
      BY <1>3, <3>2, FS_Subset
  <2>3. QED
    BY <2>1, <2>2
<1>4. QED
  BY <1>1, <1>2, <1>3

\* What a window that leads is compared with: the rows of a read of the same
\* set from the top.
LEMMA LeadsIsTop ==
  ASSUME NEW w \in Windows, WellFormed(w), NEW S \in SUBSET Entry, Elems(w) \subseteq S,
         Leads(w, <<>>, S),
         NEW rows \in Seq(Entry), Sorted(rows), ToSet(rows) \subseteq S, Len(rows) <= Limit,
         Len(rows) < Limit => S \subseteq ToSet(rows),
         \A x \in ToSet(rows), y \in S \ ToSet(rows) : Before(x, y)
  PROVE  ToSet(rows) = Elems(w)
<1>1. IsFiniteSet(ToSet(rows)) /\ Cardinality(ToSet(rows)) = Len(rows)
  BY SizeOfEntries
<1>2. IsFiniteSet(Elems(w)) /\ Cardinality(Elems(w)) = Len(w.entries)
  BY WindowElems, SizeOfEntries DEF Elems
<1>3. Below(w, S) /\ (Len(w.entries) < Limit => S \subseteq Elems(w))
  BY LeadsNothing
<1>4. Len(w.entries) <= Limit
  BY WindowElems
<1>5. \A x \in Elems(w), y \in S \ Elems(w) : Before(x, y)
  BY <1>3 DEF Below
<1>6. QED
  BY <1>1, <1>2, <1>3, <1>4, <1>5, FirstIsUnique

\* A window that leads can itself be read.
LEMMA LeadsIsFirst ==
  ASSUME NEW w \in Windows, WellFormed(w), NEW S \in SUBSET Entry, Elems(w) \subseteq S,
         Leads(w, <<>>, S)
  PROVE  w.entries \in FirstRows(S, Limit)
<1> DEFINE s == w.entries
           n == Len(s)
<1>1. /\ s \in Seq(Entry) /\ n \in Nat /\ n <= Limit /\ Limit \in Nat /\ Sorted(s)
      /\ \A x : x \in ToSet(s) <=> \E i \in 1..n : s[i] = x
  BY WindowElems DEF Elems
<1>2. Below(w, S) /\ (n < Limit => S \subseteq ToSet(s))
  BY LeadsNothing DEF Elems
<1>3. \A e \in S \ ToSet(s) : \A i \in 1..n : Before(s[i], e)
  BY <1>1, <1>2 DEF Below, Elems
<1>4. IsFirst(s, S, Limit)
  BY <1>1, <1>2, <1>3 DEF IsFirst
<1>5. s \in [1..n -> S] /\ n \in 0..Limit
  BY <1>1 DEF Elems
<1>6. QED
  BY <1>4, <1>5 DEF FirstRows

-----------------------------------------------------------------------------
(* A held row changes.                                                     *)

\* It leaves: what is behind the window stays behind it, and a slot is free.
LEMMA LeftBelow ==
  ASSUME NEW w \in Windows, WellFormed(w), NEW S \in SUBSET Entry, NEW id, Has(w, id),
         \A x \in S : x.id # id, Leads(w, <<>>, S)
  PROVE  LET v == RemoveEntry(w, id)
         IN  /\ Below(v, S) /\ Len(v.entries) + BackfillCount(v) = Limit
             /\ Len(v.entries) \in Nat /\ Len(v.entries) < Limit
             /\ Len(w.entries) < Limit => S \subseteq Elems(v)
<1> DEFINE v == RemoveEntry(w, id)
           m == Len(v.entries)
           n == Len(w.entries)
           V == Elems(v)
           W == Elems(w)
<1>1. v \in Windows /\ WellFormed(v) /\ m = n - 1 /\ V = {x \in W : x.id # id}
  BY TakesOut
<1>2. m \in Nat /\ n \in Nat /\ n <= Limit /\ Limit \in Nat
  BY <1>1, WindowElems
<1>3. Below(w, S) /\ (n < Limit => S \subseteq W)
  BY LeadsNothing
<1>4. \A x \in W, y \in S \ W : Before(x, y)
  BY <1>3 DEF Below
<1> HIDE DEF v, m, n, V, W
<1>5. \A x \in V, y \in S \ V : Before(x, y)
  BY <1>1, <1>4
<1>6. Below(v, S)
  BY <1>5 DEF Below, V
<1>7. m < Limit
  BY <1>1, <1>2
<1>8. BackfillCount(v) = Limit - m
  <2>1. ~IsFull(v)
    BY <1>2, <1>7 DEF IsFull, m
  <2>2. QED
    BY <2>1 DEF BackfillCount, m
<1>9. m + BackfillCount(v) = Limit
  BY <1>2, <1>8
<1>10. n < Limit => S \subseteq V
  BY <1>1, <1>3
<1>11. QED
  BY <1>2, <1>6, <1>7, <1>9, <1>10 DEF v, m, n, V

\* It takes its place again under its new key, S being the other rows.
LEMMA RefreshedLeads ==
  ASSUME NEW w \in Windows, WellFormed(w), NEW S \in SUBSET Entry, NEW e \in Entry,
         Has(w, e.id), \A x \in S : x.id # e.id, Leads(w, <<>>, S)
  PROVE  LET without == RemoveEntry(w, e.id)
             again == InsertEntry(without, e).window
             left == RemoveEntry(again, e.id)
             demoted == /\ IsFull(again) /\ Boundary(again) = {e}
                        /\ w.index[e.id].sortKey # e.sortKey
         IN  /\ again \in Windows /\ WellFormed(again)
             /\ Elems(again) = Elems(without) \cup {e}
             /\ left \in Windows /\ WellFormed(left)
             /\ Elems(left) = Elems(without) /\ ~Has(left, e.id)
             /\ ~demoted => Leads(again, <<>>, S \cup {e})
             /\ demoted => Below(left, S \cup {e}) /\ Len(left.entries) = Limit - 1
<1> DEFINE v == RemoveEntry(w, e.id)
           u == InsertEntry(v, e).window
           left == RemoveEntry(u, e.id)
           V == Elems(v)
           U == Elems(u)
           W == Elems(w)
           L == Elems(left)
           m == Len(v.entries)
           n == Len(w.entries)
           k == Len(u.entries)
           l == Len(left.entries)
           demoted == /\ IsFull(u) /\ Boundary(u) = {e}
                      /\ w.index[e.id].sortKey # e.sortKey
<1>1. /\ v \in Windows /\ WellFormed(v) /\ m = n - 1 /\ V = {x \in W : x.id # e.id}
      /\ ~Has(v, e.id)
  BY TakesOut
<1>2. m \in Nat /\ n \in Nat /\ n <= Limit /\ Limit \in Nat /\ W \subseteq Entry
  BY <1>1, WindowElems
<1>3. Below(v, S) /\ m < Limit /\ (n < Limit => S \subseteq V)
  BY LeftBelow
<1>4. /\ u \in Windows /\ WellFormed(u)
      /\ \/ m < Limit /\ k = m + 1 /\ U = V \cup {e}
         \/ m = Limit
  BY <1>1, TakesIn DEF AddsWithin
<1>5. U = V \cup {e} /\ k = n
  <2> HIDE DEF V, U, m, n, k
  <2>1. QED
    BY <1>1, <1>2, <1>3, <1>4
<1>6. Has(u, e.id)
  BY <1>4, <1>5, WindowElems
<1>7. /\ left \in Windows /\ WellFormed(left) /\ ~Has(left, e.id)
      /\ l = k - 1 /\ L = {x \in U : x.id # e.id}
  BY <1>4, <1>6, TakesOut
<1>8. \A x \in V, y \in S \ V : Before(x, y)
  BY <1>3 DEF Below
<1>9. L = V
  BY <1>1, <1>5, <1>7
<1>10. Leads(u, <<>>, S \cup {e}) <=> Below(u, S \cup {e}) /\ (k < Limit => S \cup {e} \subseteq U)
  BY <1>4, LeadsNothing
<1>11. \A y \in (S \cup {e}) \ U : y \in S \ V
  BY <1>5
<1>12. IsFull(u) <=> k >= Limit
  BY DEF IsFull
<1>13. e \in U /\ \A x \in U \ {e} : x \in V
  BY <1>5
<1>14. \/ U = {} /\ Boundary(u) = {}
       \/ \E b \in U : Boundary(u) = {b} /\ \A x \in U \ {b} : Before(x, b)
  BY <1>4, BoundaryIsLast
<1>15. PICK b \in U : Boundary(u) = {b} /\ \A x \in U \ {b} : Before(x, b)
  BY <1>13, <1>14
<1>16. ASSUME Boundary(u) = {e}, w.index[e.id].sortKey = e.sortKey
       PROVE  e \in W
  <2>1. PICK x \in W : x.id = e.id
    BY WindowElems
  <2>2. w.index[e.id] = x
    <3>1. PICK i \in 1..Len(w.entries) : w.entries[i] = x
      BY WindowElems
    <3>2. IndexAgrees(w)
      BY DEF WellFormed
    <3>3. QED
      BY <2>1, <3>1, <3>2 DEF IndexAgrees
  <2>3. x \in Entry /\ x.sortKey = e.sortKey
    BY <1>2, <1>16, <2>1, <2>2
  <2>4. x = e
    BY <2>1, <2>3 DEF Entry
  <2>5. QED
    BY <2>4
<1>17. \A x \in W, y \in S \ W : Before(x, y)
  BY LeadsNothing DEF Below
<1>18. V \subseteq Entry /\ U \subseteq Entry
  BY <1>1, <1>2, <1>5
<1>19. Below(w, S) /\ (n < Limit => S \subseteq W)
  BY LeadsNothing
<1> HIDE DEF v, u, left, V, U, W, L, m, n, k, l
<1>20. ASSUME ~demoted, NEW y \in (S \cup {e}) \ U PROVE \A x \in U : Before(x, y)
  <2>1. y \in S \ V /\ y \in Entry
    BY <1>11, <1>20
  <2>2. \A x \in V : Before(x, y)
    BY <1>8, <2>1
  <2>3. Before(e, y)
    <3>1. CASE ~IsFull(u)
      <4>1. n < Limit
        BY <1>2, <1>5, <1>12, <3>1
      <4>2. QED
        BY <1>3, <2>1, <4>1
    <3>2. CASE Boundary(u) # {e}
      <4>1. b # e /\ b \in V /\ b \in Entry /\ Before(e, b)
        BY <1>13, <1>15, <1>18, <3>2
      <4>2. Before(b, y)
        BY <2>2, <4>1
      <4>3. QED
        BY <2>1, <4>1, <4>2, BeforeIsStrictTotalOrder
    <3>3. CASE IsFull(u) /\ Boundary(u) = {e} /\ w.index[e.id].sortKey = e.sortKey
      <4>1. e \in W
        BY <1>16, <3>3
      <4>2. y \notin W
        BY <1>1, <2>1
      <4>3. QED
        BY <1>17, <2>1, <4>1, <4>2
    <3>4. QED
      BY <1>20, <3>1, <3>2, <3>3 DEF demoted
  <2>4. QED
    BY <1>5, <2>2, <2>3
<1>21. k < Limit => S \cup {e} \subseteq U
  BY <1>3, <1>5
<1>22. ~demoted => Leads(u, <<>>, S \cup {e})
  BY <1>10, <1>20, <1>21 DEF Below, U
<1>23. ASSUME demoted PROVE Below(left, S \cup {e}) /\ l = Limit - 1
  <2>1. k >= Limit /\ b = e
    BY <1>12, <1>15, <1>23 DEF demoted
  <2>2. l = Limit - 1
    BY <1>2, <1>5, <1>7, <2>1
  <2>3. ASSUME NEW x \in L, NEW y \in (S \cup {e}) \ L PROVE Before(x, y)
    <3>1. CASE y = e
      <4>1. x \in U \ {e}
        BY <1>7, <2>3
      <4>2. QED
        BY <1>15, <2>1, <3>1, <4>1
    <3>2. CASE y # e
      BY <1>8, <1>9, <2>3, <3>2
    <3>3. QED
      BY <3>1, <3>2
  <2>4. QED
    BY <2>2, <2>3 DEF Below, L
<1>24. QED
  BY <1>4, <1>5, <1>7, <1>9, <1>22, <1>23 DEF v, u, left, V, U, L, l, demoted

-----------------------------------------------------------------------------
(* The slot of a demoted row.                                              *)

\* The rows that compete for it, as reconcileDemotion filters them.
Competing(w, rows, e) == {j \in DOMAIN rows : rows[j].id # e.id /\ ~Has(w, rows[j].id)}

LEMMA BestCompetitor ==
  ASSUME NEW w, NEW rows \in Seq(Entry), NEW e, Competing(w, rows, e) # {}
  PROVE  LET j == Min(Competing(w, rows, e))
         IN  /\ j \in 1..Len(rows) /\ rows[j] \in Entry /\ rows[j] \in ToSet(rows)
             /\ rows[j].id # e.id /\ ~Has(w, rows[j].id)
             /\ \A k \in Competing(w, rows, e) : j <= k
<1> DEFINE C == Competing(w, rows, e)
<1>1. DOMAIN rows = 1..Len(rows) /\ Len(rows) \in Nat
  OBVIOUS
<1>2. \A j \in C : j \in 1..Len(rows) /\ rows[j].id # e.id /\ ~Has(w, rows[j].id)
  BY <1>1 DEF Competing
<1>3. C # {} /\ C \subseteq Nat
  BY <1>1, <1>2
<1> HIDE DEF C
<1>4. \E m \in C : \A k \in C : m <= k
  BY <1>3, LeastNatural
<1>5. Min(C) \in C /\ \A k \in C : Min(C) <= k
  BY <1>4 DEF Min
<1>6. Min(C) \in 1..Len(rows)
  BY <1>2, <1>5
<1>7. rows[Min(C)] \in Entry /\ rows[Min(C)] \in ToSet(rows)
  BY <1>6, Elements
<1>8. QED
  BY <1>2, <1>5, <1>6, <1>7 DEF C

\* What the read of a demoted row has brought.
Contest(w, rows, e, S) ==
  /\ e \in S /\ ~Has(w, e.id) /\ Elems(w) \subseteq S
  /\ \A x, y \in S : x.id = y.id => x = y
  /\ Below(w, S) /\ Len(w.entries) = Limit - 1
  /\ IsFirst(rows, S \ Elems(w), 2)
  /\ ToSet(rows) \subseteq S \ Elems(w)

\* Every row of S that is not the demoted one competes.
LEMMA Competitors ==
  ASSUME NEW w \in Windows, WellFormed(w), NEW rows \in Seq(Entry), NEW e, NEW S,
         Contest(w, rows, e, S), NEW j \in 1..Len(rows)
  PROVE  rows[j] = e \/ j \in Competing(w, rows, e)
<1>1. rows[j] \in S \ Elems(w) /\ j \in DOMAIN rows
  BY Elements DEF Contest
<1>2. rows[j].id = e.id => rows[j] = e
  BY <1>1 DEF Contest
<1>3. ASSUME Has(w, rows[j].id) PROVE FALSE
  <2>1. PICK x \in Elems(w) : x.id = rows[j].id
    BY <1>3, WindowElems
  <2>2. x = rows[j]
    BY <1>1, <2>1 DEF Contest
  <2>3. QED
    BY <1>1, <2>1, <2>2
<1>4. QED
  BY <1>1, <1>2, <1>3 DEF Competing

LEMMA KeptLeads ==
  ASSUME NEW w \in Windows, WellFormed(w), NEW S \in SUBSET Entry,
         NEW rows \in Seq(Entry), NEW e, Contest(w, rows, e, S), Competing(w, rows, e) = {}
  PROVE  /\ Elems(InsertEntry(w, e).window) = Elems(w) \cup {e}
         /\ Leads(InsertEntry(w, e).window, <<>>, S)
<1> DEFINE r == InsertEntry(w, e)
           n == Len(w.entries)
<1>1. e \in Entry /\ e \in S /\ ~Has(w, e.id) /\ Elems(w) \subseteq S /\ n = Limit - 1
  BY DEF Contest
<1>2. n \in Nat /\ Limit \in Nat
  BY WindowElems
<1>3. /\ r.window \in Windows /\ WellFormed(r.window)
      /\ Elems(r.window) = Elems(w) \cup {e}
  <2>1. n # Limit
    BY <1>1, <1>2
  <2>2. QED
    BY <1>1, <2>1, TakesIn DEF AddsWithin
<1>4. \A j \in 1..Len(rows) : rows[j] = e
  BY Competitors
<1>5. Len(rows) < 2
  <2> SUFFICES ASSUME ~(Len(rows) < 2) PROVE FALSE
    OBVIOUS
  <2>1. 1 \in 1..Len(rows) /\ 2 \in 1..Len(rows)
    OBVIOUS
  <2>2. Before(rows[1], rows[2])
    BY <2>1 DEF Contest, IsFirst, Sorted
  <2>3. QED
    BY <1>1, <1>4, <2>1, <2>2, BeforeIsStrictTotalOrder
<1>6. S \ Elems(w) \subseteq ToSet(rows)
  BY <1>5 DEF Contest, IsFirst
<1>7. \A x \in ToSet(rows) : x = e
  BY <1>4, Elements
<1>8. S = Elems(r.window)
  BY <1>1, <1>3, <1>6, <1>7
<1>9. QED
  BY <1>3, <1>8, LeadsNothing DEF Below

LEMMA SwappedLeads ==
  ASSUME NEW w \in Windows, WellFormed(w), NEW S \in SUBSET Entry,
         NEW rows \in Seq(Entry), NEW e, Contest(w, rows, e, S), Competing(w, rows, e) # {}
  PROVE  LET c == rows[Min(Competing(w, rows, e))]
             again == InsertEntry(InsertEntry(w, c).window, e)
         IN  /\ \/ again.inserted = FALSE /\ Elems(again.window) = Elems(w) \cup {c}
                \/ again.inserted = TRUE /\ Elems(again.window) = Elems(w) \cup {e}
             /\ Leads(again.window, <<>>, S)
<1> DEFINE j == Min(Competing(w, rows, e))
           c == rows[j]
           f == InsertEntry(w, c).window
           a == InsertEntry(f, e)
           E == Elems(w)
           F == Elems(f)
           A == Elems(a.window)
           n == Len(w.entries)
<1>1. e \in Entry /\ e \in S /\ ~Has(w, e.id) /\ E \subseteq S /\ n = Limit - 1
  BY DEF Contest
<1>2. n \in Nat /\ Limit \in Nat /\ E \subseteq Entry
  BY WindowElems
<1>3. /\ j \in 1..Len(rows) /\ c \in Entry /\ c \in ToSet(rows)
      /\ c.id # e.id /\ ~Has(w, c.id)
      /\ \A k \in Competing(w, rows, e) : j <= k
  BY BestCompetitor, Zenon
<1>4. /\ f \in Windows /\ WellFormed(f) /\ F = E \cup {c} /\ Len(f.entries) = Limit
  <2>1. n # Limit /\ n + 1 = Limit
    BY <1>1, <1>2
  <2>2. QED
    BY <1>3, <2>1, TakesIn DEF AddsWithin
<1>5. e \notin E /\ ~Has(f, e.id) /\ c # e /\ c \notin E
  <2>1. \A x \in E : x.id # e.id /\ x.id # c.id
    BY <1>1, <1>3, WindowElems
  <2>2. \A x \in F : x.id # e.id
    BY <1>3, <1>4, <2>1
  <2>3. QED
    BY <1>3, <1>4, <2>1, <2>2, WindowElems
<1>6. /\ a.window \in Windows /\ WellFormed(a.window)
      /\ \/ Refuses(F, A, a, e)
         \/ Displaces(F, A, a, e)
      /\ Len(a.window.entries) = Limit
  <2>1. ~(Len(f.entries) < Limit)
    BY <1>2, <1>4
  <2>2. QED
    BY <1>1, <1>4, <1>5, <2>1, TakesIn
<1>7. \A x \in E, y \in S \ E : Before(x, y)
  BY DEF Contest, Below
<1>8. c \in S \ E /\ e \in S \ E
  BY <1>1, <1>3, <1>5 DEF Contest
<1>9. ASSUME NEW y \in S \ E, y # c, y # e PROVE Before(c, y)
  <2>1. CASE y \notin ToSet(rows)
    <3>1. \A i \in 1..Len(rows) : Before(rows[i], y)
      BY <1>9, <2>1 DEF Contest, IsFirst
    <3>2. QED
      BY <1>3, <3>1
  <2>2. CASE y \in ToSet(rows)
    <3>1. PICK k \in 1..Len(rows) : rows[k] = y
      BY <2>2, Elements
    <3>2. k \in Competing(w, rows, e)
      BY <1>9, <3>1, Competitors
    <3>3. j < k
      <4>1. j <= k /\ j # k /\ Len(rows) \in Nat
        BY <1>3, <1>9, <3>1, <3>2
      <4>2. QED
        BY <1>3, <3>1, <4>1
    <3>4. Sorted(rows)
      BY DEF Contest, IsFirst
    <3>5. QED
      BY <1>3, <3>1, <3>3, <3>4 DEF Sorted
  <2>3. QED
    BY <2>1, <2>2
<1>10. S \subseteq Entry
  OBVIOUS
<1> HIDE DEF E, F, A, c, j, a, f, n
<1>11. ASSUME Refuses(F, A, a, e)
       PROVE  /\ a.inserted = FALSE /\ A = E \cup {c}
              /\ \A x \in A, y \in S \ A : Before(x, y)
  <2>1. a.inserted = FALSE /\ A = E \cup {c} /\ Before(c, e)
    BY <1>4, <1>11 DEF Refuses
  <2>2. ASSUME NEW x \in A, NEW y \in S \ A PROVE Before(x, y)
    BY <1>7, <1>9, <2>1, <2>2
  <2>3. QED
    BY <2>1, <2>2
<1>12. ASSUME Displaces(F, A, a, e)
       PROVE  /\ a.inserted = TRUE /\ A = E \cup {e}
              /\ \A x \in A, y \in S \ A : Before(x, y)
  <2>1. PICK last \in F : /\ \A x \in (F \cup {e}) \ {last} : Before(x, last)
                          /\ A = (F \cup {e}) \ {last} /\ a.inserted = TRUE
    BY <1>12 DEF Displaces
  <2>2. last = c
    <3> SUFFICES ASSUME last \in E PROVE FALSE
      BY <1>4
    <3>1. Before(e, last) /\ Before(last, e) /\ last \in Entry
      BY <1>2, <1>4, <1>5, <1>7, <1>8, <2>1
    <3>2. QED
      BY <1>1, <3>1, BeforeAsymmetric
  <2>3. A = E \cup {e} /\ Before(e, c)
    BY <1>4, <1>5, <2>1, <2>2
  <2>4. ASSUME NEW x \in A, NEW y \in S \ A PROVE Before(x, y)
    <3>1. y \in S \ E /\ y # e /\ y \in Entry
      BY <1>10, <2>3, <2>4
    <3>2. x \in E => Before(x, y)
      BY <1>7, <3>1
    <3>3. Before(e, y)
      <4>1. y = c \/ Before(c, y)
        BY <1>9, <3>1
      <4>2. QED
        BY <1>1, <1>3, <2>3, <3>1, <4>1, BeforeIsStrictTotalOrder
    <3>4. QED
      BY <2>3, <3>2, <3>3
  <2>5. QED
    BY <2>1, <2>3, <2>4
<1>13. /\ \/ a.inserted = FALSE /\ A = E \cup {c}
          \/ a.inserted = TRUE /\ A = E \cup {e}
       /\ \A x \in A, y \in S \ A : Before(x, y)
  BY <1>6, <1>11, <1>12
<1>14. ~(Len(a.window.entries) < Limit)
  BY <1>2, <1>6
<1>15. Leads(a.window, <<>>, S)
  BY <1>6, <1>13, <1>14, LeadsNothing DEF Below, A
<1>16. QED
  BY <1>13, <1>15 DEF A, E, a, f, c, j

-----------------------------------------------------------------------------
(* An index in use.                                                        *)

\* The search is correct in a sorted window, and the window stays sorted because
\* the search was correct: neither is inductive without the other.
IndexInv == IndexTypeOK /\ IndexWellFormed /\ SearchInv

LEMMA WindowFacts ==
  ASSUME IndexInv
  PROVE  /\ windowIndex \in Windows /\ WellFormed(windowIndex)
         /\ windowIndex.entries \in Seq(Entry) /\ Len(windowIndex.entries) \in Nat
         /\ Sorted(windowIndex.entries)
         /\ lo \in 0..Len(windowIndex.entries) /\ hi \in 0..Len(windowIndex.entries)
<1>1. /\ windowIndex \in Windows /\ WellFormed(windowIndex)
      /\ {lo, hi} \subseteq 0..Len(windowIndex.entries)
  BY DEF IndexInv, IndexTypeOK, IndexWellFormed
<1>2. windowIndex.entries \in Seq(Entry)
  BY <1>1 DEF Windows
<1>3. QED
  BY <1>1, <1>2 DEF WellFormed

LEMMA OutcomeTypes ==
  /\ Nothing \in Outcomes
  /\ \A w, b : b \in BOOLEAN => Reported(Unchanged(w, b)) \in Outcomes
BY DEF Nothing, Reported, Unchanged, Outcomes

LEMMA InitIndexInv == IndexInit => IndexInv
<1> SUFFICES ASSUME IndexInit PROVE IndexInv
  OBVIOUS
<1>1. windowIndex \in Windows /\ WellFormed(windowIndex) /\ Len(windowIndex.entries) = 0
  BY EmptyWindowProperties DEF IndexInit, EmptyWindow
<1>2. QED
  BY <1>1, OutcomeTypes DEF IndexInit, NoCall, IndexInv, IndexTypeOK, IndexWellFormed, SearchInv

\* A call that returns before it searches.
LEMMA ReturnEarlyPreserves ==
  ASSUME IndexInv, NEW b \in BOOLEAN, ReturnEarly(Unchanged(windowIndex, b))
  PROVE  IndexInv'
<1>1. outcome' \in Outcomes
  BY OutcomeTypes DEF ReturnEarly
<1>2. QED
  BY <1>1 DEF ReturnEarly, IndexInv, IndexTypeOK, NoCall, IndexWellFormed, SearchInv

LEMMA InsertRowPreserves ==
  ASSUME IndexInv, NEW e \in Entry, InsertRow(e)
  PROVE  IndexInv'
<1>1. CASE Limit # 0 /\ ~Has(windowIndex, e.id) /\ Search("insert", e)
  <2>1. lo' \in 0..Len(windowIndex.entries) /\ hi' \in 0..Len(windowIndex.entries) /\ lo' = 0
        /\ hi' = Len(windowIndex.entries)
    BY <1>1, WindowFacts DEF Search
  <2>2. IndexTypeOK'
    BY <1>1, <2>1 DEF Search, IndexInv, IndexTypeOK
  <2>3. SearchInv'
    BY <1>1, <2>1, WindowFacts DEF Search, SearchInv
  <2>4. QED
    BY <1>1, <2>2, <2>3 DEF Search, IndexInv, IndexWellFormed
<1>2. QED
  BY <1>1, ReturnEarlyPreserves DEF InsertRow

LEMMA RemoveRowPreserves ==
  ASSUME IndexInv, NEW id \in Id, RemoveRow(id)
  PROVE  IndexInv'
<1>1. CASE Has(windowIndex, id) /\ Search("remove", windowIndex.index[id])
  <2>1. lo' \in 0..Len(windowIndex.entries) /\ hi' \in 0..Len(windowIndex.entries) /\ lo' = 0
        /\ hi' = Len(windowIndex.entries)
    BY <1>1, WindowFacts DEF Search
  <2>2. windowIndex.index[id] \in Entry /\ windowIndex.index[id].id = id
    <3>1. PICK i \in 1..Len(windowIndex.entries) : windowIndex.entries[i].id = id
      BY <1>1, WindowFacts, AgreementElim DEF WellFormed, Has
    <3>2. windowIndex.index[id] = windowIndex.entries[i]
      BY <3>1, WindowFacts, AgreementElim DEF WellFormed
    <3>3. QED
      BY <3>1, <3>2, WindowFacts
  <2>3. IndexTypeOK'
    BY <1>1, <2>1, <2>2 DEF Search, IndexInv, IndexTypeOK
  <2>4. SearchInv'
    BY <1>1, <2>1, <2>2, WindowFacts DEF Search, SearchInv
  <2>5. QED
    BY <1>1, <2>3, <2>4 DEF Search, IndexInv, IndexWellFormed
<1>2. QED
  BY <1>1, ReturnEarlyPreserves DEF RemoveRow

LEMMA ProbePreserves ==
  ASSUME IndexInv, Probe
  PROVE  IndexInv'
<1> DEFINE mid == (lo + hi) \div 2
           n == Len(windowIndex.entries)
<1>0. n \in Nat /\ lo \in 0..n /\ hi \in 0..n
  BY WindowFacts
<1>1. /\ method # "none" /\ lo < hi
      /\ UNCHANGED <<windowIndex, outcome, method, target>>
  BY DEF Probe
<1>2. mid \in Nat /\ lo <= mid /\ mid < hi
  BY <1>0, <1>1
<1>3. \/ Before(windowIndex.entries[mid + 1], target) /\ lo' = mid + 1 /\ hi' = hi
      \/ ~Before(windowIndex.entries[mid + 1], target) /\ lo' = lo /\ hi' = mid
  BY DEF Probe
<1> HIDE DEF mid
<1>4. /\ lo' \in 0..n /\ hi' \in 0..n /\ lo' <= hi'
      /\ lo' > 0 => Before(windowIndex.entries[lo'], target)
      /\ hi' < n => ~Before(windowIndex.entries[hi' + 1], target)
  BY <1>0, <1>1, <1>2, <1>3 DEF IndexInv, SearchInv
<1>5. SearchInv'
  BY <1>1, <1>4 DEF IndexInv, SearchInv
<1>6. IndexTypeOK'
  BY <1>1, <1>4 DEF IndexInv, IndexTypeOK, NoCall
<1>7. QED
  BY <1>1, <1>5, <1>6 DEF IndexInv, IndexWellFormed

\* Where a search has ended is the position the operators speak of.
LEMMA SearchedIsLowerBound ==
  ASSUME IndexInv, method # "none", lo >= hi
  PROVE  /\ lo = hi /\ target \in Entry
         /\ IsLowerBound(windowIndex.entries, target, lo)
         /\ lo = LowerBound(windowIndex.entries, target)
<1>1. lo <= hi /\ target \in Entry
  BY DEF IndexInv, SearchInv, IndexTypeOK
<1>2. lo = hi
  BY <1>1, WindowFacts
<1>3. IsLowerBound(windowIndex.entries, target, lo)
  BY <1>2 DEF IndexInv, SearchInv, IsLowerBound
<1>4. QED
  BY <1>1, <1>2, <1>3, WindowFacts, LowerBoundUnique

\* What a call does when its search has ended is what the operators of the
\* methods say: the window of the engine's model changes as this one does.
LEMMA EndIsEntry ==
  ASSUME IndexInv
  PROVE  /\ EndInsert => /\ windowIndex' = InsertEntry(windowIndex, target).window
                         /\ outcome' = Reported(InsertEntry(windowIndex, target))
         /\ EndRemove => windowIndex' = RemoveEntry(windowIndex, target.id)
<1>1. ASSUME EndInsert
      PROVE  /\ windowIndex' = InsertEntry(windowIndex, target).window
             /\ outcome' = Reported(InsertEntry(windowIndex, target))
  <2>1. lo = LowerBound(windowIndex.entries, target) /\ Limit # 0 /\ ~Has(windowIndex, target.id)
    BY <1>1, SearchedIsLowerBound DEF EndInsert, IndexInv, SearchInv
  <2>2. InsertEntry(windowIndex, target) = InsertAtPosition(windowIndex, target, lo)
    BY <2>1 DEF InsertEntry
  <2>3. QED
    BY <1>1, <2>2 DEF EndInsert
<1>2. ASSUME EndRemove
      PROVE  windowIndex' = RemoveEntry(windowIndex, target.id)
  <2>1. /\ lo = LowerBound(windowIndex.entries, target)
        /\ Has(windowIndex, target.id) /\ windowIndex.index[target.id] = target
    BY <1>2, SearchedIsLowerBound DEF EndRemove, IndexInv, SearchInv
  <2>2. QED
    BY <1>2, <2>1 DEF EndRemove, RemoveEntry
<1>3. QED
  BY <1>1, <1>2

LEMMA EndPreserves ==
  ASSUME IndexInv, EndInsert \/ EndRemove
  PROVE  IndexInv'
<1>0. Return
  BY DEF EndInsert, EndRemove
<1>1. windowIndex' \in Windows /\ WellFormed(windowIndex') /\ outcome' \in Outcomes
  <2>1. CASE EndInsert
    <3>1. target \in Entry
      BY <2>1, SearchedIsLowerBound DEF EndInsert
    <3>2. QED
      BY <2>1, <3>1, WindowFacts, EndIsEntry, InsertEntryPreserves DEF Reported, Outcomes
  <2>2. CASE EndRemove
    <3>1. outcome' \in Outcomes
      BY <2>2, OutcomeTypes DEF EndRemove
    <3>2. QED
      BY <2>2, <3>1, WindowFacts, EndIsEntry, RemoveEntryPreserves
  <2>3. QED
    BY <2>1, <2>2
<1>2. Len(windowIndex'.entries) \in Nat
  BY <1>1 DEF Windows
<1>3. IndexTypeOK'
  BY <1>0, <1>1, <1>2 DEF Return, IndexTypeOK, NoCall
<1>4. QED
  BY <1>0, <1>1, <1>3 DEF Return, IndexInv, IndexWellFormed, SearchInv

LEMMA NextIndexInv == IndexInv /\ [IndexNext]_indexVars => IndexInv'
<1> SUFFICES ASSUME IndexInv, [IndexNext]_indexVars PROVE IndexInv'
  OBVIOUS
<1>1. CASE UNCHANGED indexVars
  BY <1>1 DEF indexVars, IndexInv, IndexTypeOK, NoCall, IndexWellFormed, SearchInv
<1>2. QED
  BY <1>1, InsertRowPreserves, RemoveRowPreserves, ProbePreserves, EndPreserves DEF IndexNext

\* The window, the outcome of a call and the variables of its search have their
\* types.
THEOREM IndexTypeCorrect == IndexSpec => []IndexTypeOK
<1>1. IndexInv => IndexTypeOK
  BY DEF IndexInv
<1>2. QED
  BY <1>1, InitIndexInv, NextIndexInv, PTL DEF IndexSpec

\* After any sequence of insert and remove calls, for any orderBy and limit,
\* the entries are in strict order and within the limit, and the id map holds
\* exactly them.
THEOREM IndexAlwaysWellFormed == IndexSpec => []IndexWellFormed
<1>1. IndexInv => IndexWellFormed
  BY DEF IndexInv
<1>2. QED
  BY <1>1, InitIndexInv, NextIndexInv, PTL DEF IndexSpec

\* Where the loop of lowerBound stops, in a window of any size, exactly the
\* entries that sort before the target are to the left.
THEOREM FindsPosition == IndexSpec => []FoundPosition
<1>1. IndexInv => FoundPosition
  <2> SUFFICES ASSUME IndexInv, method # "none", lo = hi
               PROVE  \A i \in 1..Len(windowIndex.entries) :
                        i <= lo <=> Before(windowIndex.entries[i], target)
    BY DEF FoundPosition
  <2>1. target \in Entry /\ IsLowerBound(windowIndex.entries, target, lo)
    BY WindowFacts, SearchedIsLowerBound
  <2>2. QED
    BY <2>1, WindowFacts, LowerBoundSplits
<1>2. QED
  BY <1>1, InitIndexInv, NextIndexInv, PTL DEF IndexSpec

-----------------------------------------------------------------------------
(* The index implements the top-N set. A window is read as the set of its  *)
(* entries.                                                                *)

\* The abstract specification orders its entries as this one does.
LEMMA SameBefore == \A a, b : Abstract!Before(a, b) <=> Before(a, b)
<1>1. \A a, b : Abstract!CellBefore(a, b) = CellBefore(a, b)
  BY Zenon DEF Abstract!CellBefore, CellBefore
<1>2. \A a, b : Abstract!Differing(a, b) = Differing(a, b)
  BY Zenon DEF Abstract!Differing, Differing
<1>3. \A S : Abstract!Min(S) = Min(S)
  BY Zenon DEF Abstract!Min, Min
<1>4. QED
  BY <1>1, <1>2, <1>3, Zenon DEF Abstract!Before, Before

LEMMA SameCardinality == \A S : Abstract!Cardinality(S) = Cardinality(S)
BY Zenon DEF Abstract!Cardinality, Cardinality

LEMMA InitRefines == IndexInit => Abstract!Init
<1> SUFFICES ASSUME IndexInit PROVE Abstract!Init
  OBVIOUS
<1>1. ToSet(windowIndex.entries) = {}
  BY DEF IndexInit, EmptyWindow, ToSet
<1>2. QED
  BY <1>1 DEF IndexInit, Abstract!Init, Nothing, Reported, Unchanged, Abstract!Reported

\* A call that returns early leaves the set alone and says so.
LEMMA EarlyRefines ==
  ASSUME IndexInv,
         \/ \E e \in Entry : InsertRow(e) /\ (Limit = 0 \/ Has(windowIndex, e.id))
         \/ \E id \in Id : RemoveRow(id) /\ ~Has(windowIndex, id)
  PROVE  Abstract!Next
<1> DEFINE S == ToSet(windowIndex.entries)
<1>1. windowIndex \in Windows /\ WellFormed(windowIndex) /\ windowIndex.entries \in Seq(Entry)
  BY WindowFacts
<1>2. CASE \E e \in Entry : InsertRow(e) /\ Limit = 0
  <2>1. PICK e \in Entry : InsertRow(e) /\ Limit = 0
    BY <1>2
  <2>2. windowIndex' = windowIndex /\ outcome' = Reported(Unchanged(windowIndex, FALSE))
    BY <2>1 DEF InsertRow, ReturnEarly
  <2>3. Len(windowIndex.entries) = 0
    BY <1>1, <2>1, WindowFacts DEF WellFormed
  <2>4. S = {}
    BY <1>1, <2>3, Elements
  <2>5. Abstract!Cardinality(S) = Limit
    BY <2>1, <2>3, <1>1, SizeOfEntries, SameCardinality DEF WellFormed
  <2>6. Abstract!AddAtLimit(e)
    <3>1. ~Abstract!Holds(e.id)
      BY <2>4 DEF Abstract!Holds
    <3>2. Abstract!IsLast(e, S \cup {e})
      BY <2>4 DEF Abstract!IsLast
    <3>3. S' = (S \cup {e}) \ {e}
      BY <2>2, <2>4
    <3>4. outcome' = Abstract!Reported(FALSE, {}, FALSE)
      BY <2>2 DEF Reported, Unchanged, Abstract!Reported
    <3>5. QED
      BY <2>5, <3>1, <3>2, <3>3, <3>4 DEF Abstract!AddAtLimit
  <2>7. QED
    BY <2>6 DEF Abstract!Next, Abstract!Entry, Entry, Abstract!SortKey, SortKey,
                Abstract!Cell, Cell
<1>3. CASE \E e \in Entry : InsertRow(e) /\ Limit # 0 /\ Has(windowIndex, e.id)
  <2>1. PICK e \in Entry : InsertRow(e) /\ Limit # 0 /\ Has(windowIndex, e.id)
    BY <1>3
  <2>2. windowIndex' = windowIndex /\ outcome' = Reported(Unchanged(windowIndex, TRUE))
    BY <2>1 DEF InsertRow, ReturnEarly
  <2>3. Abstract!Holds(e.id)
    BY <1>1, <2>1, SameHolds DEF Abstract!Holds
  <2>4. Abstract!AddHeld(e)
    BY <2>2, <2>3 DEF Abstract!AddHeld, Reported, Unchanged, Abstract!Reported
  <2>5. QED
    BY <2>4 DEF Abstract!Next, Abstract!Entry, Entry, Abstract!SortKey, SortKey,
                Abstract!Cell, Cell
<1>4. CASE \E id \in Id : RemoveRow(id) /\ ~Has(windowIndex, id)
  <2>1. PICK id \in Id : RemoveRow(id) /\ ~Has(windowIndex, id)
    BY <1>4
  <2>2. windowIndex' = windowIndex /\ outcome' = Reported(Unchanged(windowIndex, FALSE))
    BY <2>1 DEF RemoveRow, ReturnEarly
  <2>3. \A m \in S : m.id # id
    BY <1>1, <2>1, SameHolds
  <2>4. S' = {m \in S : m.id # id}
    BY <2>2, <2>3
  <2>5. Abstract!Drop(id)
    BY <2>2, <2>4 DEF Abstract!Drop, Reported, Unchanged, Abstract!Reported
  <2>6. QED
    BY <2>5 DEF Abstract!Next
<1>5. QED
  BY <1>2, <1>3, <1>4

LEMMA EndInsertRefines ==
  ASSUME IndexInv, EndInsert
  PROVE  Abstract!Next
<1> DEFINE e == target
           S == ToSet(windowIndex.entries)
           r == InsertEntry(windowIndex, e)
           T == ToSet(r.window.entries)
<1>1. windowIndex \in Windows /\ WellFormed(windowIndex) /\ windowIndex.entries \in Seq(Entry)
  BY WindowFacts
<1>2. e \in Entry /\ Limit # 0 /\ ~Has(windowIndex, e.id)
  BY SearchedIsLowerBound DEF EndInsert, IndexInv, SearchInv
<1>3. S' = T /\ outcome' = Reported(r)
  BY EndIsEntry
<1>4. ~Abstract!Holds(e.id)
  BY <1>1, <1>2, SameHolds DEF Abstract!Holds
<1>5. Abstract!Cardinality(S) = Len(windowIndex.entries)
  BY <1>1, SizeOfEntries, SameCardinality DEF WellFormed
<1>6. /\ r.threw = FALSE
      /\ \/ Len(windowIndex.entries) < Limit /\ AddsWithin(S, T, r, e)
         \/ Len(windowIndex.entries) = Limit /\ Refuses(S, T, r, e)
         \/ Len(windowIndex.entries) = Limit /\ Displaces(S, T, r, e)
  BY <1>1, <1>2, InsertEntryOnSets
<1>7. e \in Abstract!Entry
  BY <1>2 DEF Abstract!Entry, Entry, Abstract!SortKey, SortKey, Abstract!Cell, Cell
<1>8. \A in, out : r.inserted = in /\ r.evicted = out
                     => outcome' = Abstract!Reported(in, out, FALSE)
  BY <1>3, <1>6 DEF Reported, Abstract!Reported
<1> HIDE DEF e, S, r, T
<1>9. CASE Len(windowIndex.entries) < Limit /\ AddsWithin(S, T, r, e)
  <2>1. Abstract!AddWithin(e)
    BY <1>3, <1>4, <1>5, <1>8, <1>9 DEF Abstract!AddWithin, AddsWithin, S
  <2>2. QED
    BY <1>7, <2>1 DEF Abstract!Next
<1>10. CASE Len(windowIndex.entries) = Limit /\ Refuses(S, T, r, e)
  <2>1. Abstract!IsLast(e, S \cup {e})
    BY <1>10, SameBefore DEF Abstract!IsLast, Refuses
  <2>2. T = (S \cup {e}) \ {e}
    <3>1. \A m \in S : m # e
      BY <1>4 DEF Abstract!Holds, S
    <3>2. QED
      BY <1>10, <3>1 DEF Refuses
  <2>3. outcome' = Abstract!Reported(FALSE, {}, FALSE)
    BY <1>8, <1>10 DEF Refuses
  <2>4. Abstract!AddAtLimit(e)
    BY <1>3, <1>4, <1>5, <1>10, <2>1, <2>2, <2>3 DEF Abstract!AddAtLimit, S
  <2>5. QED
    BY <1>7, <2>4 DEF Abstract!Next
<1>11. CASE Len(windowIndex.entries) = Limit /\ Displaces(S, T, r, e)
  <2>1. PICK last \in S :
          /\ \A x \in (S \cup {e}) \ {last} : Before(x, last)
          /\ T = (S \cup {e}) \ {last} /\ r.inserted = TRUE /\ r.evicted = {last}
    BY <1>11 DEF Displaces
  <2>2. Abstract!IsLast(last, S \cup {e})
    BY <2>1, SameBefore DEF Abstract!IsLast
  <2>3. last # e
    BY <1>4, <2>1 DEF Abstract!Holds, S
  <2>4. outcome' = Abstract!Reported(TRUE, {last}, FALSE)
    BY <1>8, <2>1
  <2>5. Abstract!AddAtLimit(e)
    BY <1>3, <1>4, <1>5, <1>11, <2>1, <2>2, <2>3, <2>4 DEF Abstract!AddAtLimit, S
  <2>6. QED
    BY <1>7, <2>5 DEF Abstract!Next
<1>12. QED
  BY <1>6, <1>9, <1>10, <1>11

LEMMA EndRemoveRefines ==
  ASSUME IndexInv, EndRemove
  PROVE  Abstract!Next
<1> DEFINE id == target.id
           S == ToSet(windowIndex.entries)
<1>1. windowIndex \in Windows /\ WellFormed(windowIndex)
  BY WindowFacts
<1>2. target \in Entry /\ id \in Id /\ Has(windowIndex, id)
  BY SearchedIsLowerBound DEF EndRemove, IndexInv, SearchInv, Entry
<1>3. windowIndex' = RemoveEntry(windowIndex, id)
  BY EndIsEntry
<1>4. S' = {m \in S : m.id # id}
  BY <1>1, <1>2, <1>3, RemoveEntryOnSets
<1>5. Abstract!Drop(id)
  BY <1>4 DEF EndRemove, Abstract!Drop, Nothing, Reported, Unchanged, Abstract!Reported
<1>6. QED
  BY <1>2, <1>5 DEF Abstract!Next

LEMMA NextRefines == IndexInv /\ [IndexNext]_indexVars => [Abstract!Next]_(Abstract!vars)
<1> SUFFICES ASSUME IndexInv, [IndexNext]_indexVars PROVE [Abstract!Next]_(Abstract!vars)
  OBVIOUS
<1>1. CASE UNCHANGED <<windowIndex, outcome>>
  BY <1>1 DEF Abstract!vars
<1>2. CASE EndInsert
  BY <1>2, EndInsertRefines
<1>3. CASE EndRemove
  BY <1>3, EndRemoveRefines
<1>4. ASSUME NEW e \in Entry, InsertRow(e) PROVE [Abstract!Next]_(Abstract!vars)
  <2>1. CASE Limit = 0 \/ Has(windowIndex, e.id)
    BY <1>4, <2>1, EarlyRefines
  <2>2. CASE Limit # 0 /\ ~Has(windowIndex, e.id)
    BY <1>1, <1>4, <2>2 DEF InsertRow, Search
  <2>3. QED
    BY <2>1, <2>2
<1>5. ASSUME NEW id \in Id, RemoveRow(id) PROVE [Abstract!Next]_(Abstract!vars)
  <2>1. CASE ~Has(windowIndex, id)
    BY <1>5, <2>1, EarlyRefines
  <2>2. CASE Has(windowIndex, id)
    BY <1>1, <1>5, <2>2 DEF RemoveRow, Search
  <2>3. QED
    BY <2>1, <2>2
<1>6. CASE Probe
  BY <1>1, <1>6 DEF Probe
<1>7. CASE UNCHANGED indexVars
  BY <1>1, <1>7 DEF indexVars
<1>8. QED
  BY <1>2, <1>3, <1>4, <1>5, <1>6, <1>7 DEF IndexNext

\* The array with its cap, the id map and the binary search implement the top-N
\* set of TopWindow, for any limit, any orderBy and any calls: what is kept, what
\* is refused, and which row is reported as evicted.
THEOREM Refines == IndexSpec => ImplementsTopWindow
<1>1. IndexSpec => []IndexInv
  BY InitIndexInv, NextIndexInv, PTL DEF IndexSpec
<1>2. QED
  BY <1>1, InitRefines, NextRefines, PTL DEF IndexSpec, ImplementsTopWindow, Abstract!Spec
=============================================================================
