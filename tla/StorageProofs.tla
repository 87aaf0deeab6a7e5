--------------------------- MODULE StorageProofs ---------------------------
(***************************************************************************)
(* The server's storage (sql-storage.ts), and the graph the query engine   *)
(* keeps of its rows (relation-graph.ts).                                  *)
(*                                                                         *)
(* The stacks of nested transactions follow the savepoints, and what is    *)
(* notified is what was committed, for any number of writes, any nesting   *)
(* and any callbacks that keep to the discipline.                          *)
(*                                                                         *)
(* The merge of records does not depend on the order of the writes, and    *)
(* the invariants of StoredWrite hold for any requests, hooks and          *)
(* failures: what is told was stored, times go on, the newest write stays, *)
(* a value and its time come from one write, and the subscriber has the    *)
(* row.                                                                    *)
(*                                                                         *)
(* Every edge the graph can follow from a row is known at its target,      *)
(* whatever overtakes what.  The inverse holds too, and the edges follow   *)
(* the foreign keys, for every row of which no two writes or reads were    *)
(* on their way at once.                                                   *)
(***************************************************************************)
EXTENDS StoredWrite, Transaction, RelationGraph, SequenceTheorems, TLAPS


-----------------------------------------------------------------------------
(* Parts and elements of sequences.                                        *)

\* Front drops the last element and keeps the others in place.
LEMMA FrontElements ==
  ASSUME NEW S, NEW s \in Seq(S), Len(s) > 0
  PROVE  /\ Front(s) \in Seq(S)
         /\ Len(Front(s)) = Len(s) - 1
         /\ \A j \in 1..Len(s) - 1 : Front(s)[j] = s[j]
<1> DEFINE n == Len(s) - 1
<1>0. n \in Nat /\ Len(s) \in Nat /\ \A j \in 1..n : s[j] \in S
  OBVIOUS
<1> HIDE DEF n
<1>1. /\ SubSeq(s, 1, n) \in Seq(S)
      /\ Len(SubSeq(s, 1, n)) = IF 1 <= n THEN n - 1 + 1 ELSE 0
      /\ \A j \in 1..n - 1 + 1 : SubSeq(s, 1, n)[j] = s[1 + j - 1]
  BY <1>0, SubSeqProperties
<1>2. Front(s) = SubSeq(s, 1, n)
  BY DEF Front, n
<1>3. Len(SubSeq(s, 1, n)) = n /\ \A j \in 1..n : SubSeq(s, 1, n)[j] = s[j]
  BY <1>0, <1>1
<1>4. QED
  BY <1>1, <1>2, <1>3 DEF n

LEMMA PartElements ==
  ASSUME NEW S, NEW s \in Seq(S), NEW a \in Nat, NEW b \in Nat, a <= b, b <= Len(s)
  PROVE  /\ SubSeq(s, a + 1, b) \in Seq(S)
         /\ Len(SubSeq(s, a + 1, b)) = b - a
         /\ \A k \in 1..b - a : SubSeq(s, a + 1, b)[k] = s[a + k]
<1>1. \A i \in a + 1..b : s[i] \in S
  OBVIOUS
<1>2. /\ SubSeq(s, a + 1, b) \in Seq(S)
      /\ Len(SubSeq(s, a + 1, b)) = IF a + 1 <= b THEN b - (a + 1) + 1 ELSE 0
      /\ \A k \in 1..b - (a + 1) + 1 : SubSeq(s, a + 1, b)[k] = s[a + 1 + k - 1]
  BY <1>1, SubSeqProperties
<1>3. QED
  BY <1>2

LEMMA EqualByElements ==
  ASSUME NEW S, NEW s \in Seq(S), NEW t \in Seq(S), Len(s) = Len(t),
         \A k \in 1..Len(s) : s[k] = t[k]
  PROVE  s = t
  BY SeqEqual

\* Adjacent parts make a part.
LEMMA PartsJoin ==
  ASSUME NEW S, NEW s \in Seq(S), NEW a \in Nat, NEW b \in Nat, a <= b, b <= Len(s)
  PROVE  SubSeq(s, a + 1, b) \o SubSeq(s, b + 1, Len(s)) = SubSeq(s, a + 1, Len(s))
<1> DEFINE l == SubSeq(s, a + 1, b)
           r == SubSeq(s, b + 1, Len(s))
           w == SubSeq(s, a + 1, Len(s))
<1>1. l \in Seq(S) /\ Len(l) = b - a /\ \A k \in 1..b - a : l[k] = s[a + k]
  BY PartElements
<1>0. Len(s) \in Nat
  OBVIOUS
<1>2. r \in Seq(S) /\ Len(r) = Len(s) - b /\ \A k \in 1..Len(s) - b : r[k] = s[b + k]
  BY <1>0, PartElements
<1>3. w \in Seq(S) /\ Len(w) = Len(s) - a /\ \A k \in 1..Len(s) - a : w[k] = s[a + k]
  BY <1>0, PartElements
<1> HIDE DEF l, r, w
<1>4. /\ l \o r \in Seq(S) /\ Len(l \o r) = Len(l) + Len(r)
      /\ \A k \in 1..Len(l) + Len(r) :
           (l \o r)[k] = IF k <= Len(l) THEN l[k] ELSE r[k - Len(l)]
  BY <1>1, <1>2, ConcatProperties
<1>5. ASSUME NEW k \in 1..Len(s) - a PROVE (l \o r)[k] = w[k]
  <2>1. CASE k <= b - a
    <3>1. k \in 1..b - a /\ k \in 1..Len(l) + Len(r) /\ k <= Len(l)
      BY <1>0, <1>1, <1>2, <2>1
    <3>2. (l \o r)[k] = l[k]
      BY <1>4, <3>1
    <3>3. l[k] = s[a + k]
      BY <1>1, <3>1
    <3>4. QED
      BY <1>3, <3>2, <3>3
  <2>2. CASE k > b - a
    <3>1. k - (b - a) \in 1..Len(s) - b /\ b + (k - (b - a)) = a + k
      BY <1>0, <2>2
    <3>2. k \in 1..Len(l) + Len(r) /\ ~(k <= Len(l)) /\ k - Len(l) = k - (b - a)
      BY <1>0, <1>1, <1>2, <2>2
    <3>3. (l \o r)[k] = r[k - (b - a)]
      BY <1>4, <3>2
    <3>4. QED
      BY <1>2, <1>3, <3>1, <3>3
  <2>3. k <= b - a \/ k > b - a
    BY <1>0
  <2>4. QED
    BY <2>1, <2>2, <2>3
<1>6. l \o r = w
  <2>1. Len(l \o r) = Len(s) - a
    BY <1>0, <1>1, <1>2, <1>4
  <2>2. QED
    BY <1>3, <1>4, <1>5, <2>1, EqualByElements
<1>7. QED
  BY <1>6 DEF l, r, w

\* A part of what is there already does not change when an element is added,
LEMMA PartOfAppend ==
  ASSUME NEW S, NEW s \in Seq(S), NEW x \in S,
         NEW a \in Nat, NEW b \in Nat, a <= b, b <= Len(s)
  PROVE  SubSeq(Append(s, x), a + 1, b) = SubSeq(s, a + 1, b)
<1> DEFINE t == Append(s, x)
           l == SubSeq(t, a + 1, b)
           r == SubSeq(s, a + 1, b)
<1>1. t \in Seq(S) /\ Len(t) = Len(s) + 1 /\ \A k \in 1..Len(s) : t[k] = s[k]
  OBVIOUS
<1> HIDE DEF t
<1>2. l \in Seq(S) /\ Len(l) = b - a /\ \A k \in 1..b - a : l[k] = t[a + k]
  BY <1>1, PartElements
<1>3. r \in Seq(S) /\ Len(r) = b - a /\ \A k \in 1..b - a : r[k] = s[a + k]
  BY PartElements
<1> HIDE DEF l, r
<1>4. ASSUME NEW k \in 1..b - a PROVE l[k] = r[k]
  <2>1. a + k \in 1..Len(s)
    OBVIOUS
  <2>2. QED
    BY <1>1, <1>2, <1>3, <2>1
<1>5. l = r
  BY <1>2, <1>3, <1>4, EqualByElements
<1>6. QED
  BY <1>5 DEF l, r, t

\* and the part up to the end gets it.
LEMMA EndOfAppend ==
  ASSUME NEW S, NEW s \in Seq(S), NEW x \in S, NEW a \in Nat, a <= Len(s)
  PROVE  SubSeq(Append(s, x), a + 1, Len(s) + 1) = SubSeq(s, a + 1, Len(s)) \o <<x>>
<1> DEFINE t == Append(s, x)
           l == SubSeq(t, a + 1, Len(s) + 1)
           r == SubSeq(s, a + 1, Len(s))
<1>1. /\ t \in Seq(S) /\ Len(t) = Len(s) + 1 /\ Len(s) \in Nat
      /\ (\A k \in 1..Len(s) : t[k] = s[k]) /\ t[Len(s) + 1] = x
  OBVIOUS
<1> HIDE DEF t
<1>2. l \in Seq(S) /\ Len(l) = Len(s) + 1 - a /\ \A k \in 1..Len(s) + 1 - a : l[k] = t[a + k]
  BY <1>1, PartElements
<1>3. r \in Seq(S) /\ Len(r) = Len(s) - a /\ \A k \in 1..Len(s) - a : r[k] = s[a + k]
  BY <1>1, PartElements
<1> HIDE DEF l, r
<1>4. /\ r \o <<x>> \in Seq(S) /\ Len(r \o <<x>>) = Len(r) + 1
      /\ \A k \in 1..Len(r) + 1 : (r \o <<x>>)[k] = IF k <= Len(r) THEN r[k] ELSE x
  <2>1. <<x>> \in Seq(S) /\ Len(<<x>>) = 1 /\ <<x>>[1] = x
    OBVIOUS
  <2>2. /\ r \o <<x>> \in Seq(S) /\ Len(r \o <<x>>) = Len(r) + 1
        /\ \A k \in 1..Len(r) + 1 :
             (r \o <<x>>)[k] = IF k <= Len(r) THEN r[k] ELSE <<x>>[k - Len(r)]
    BY <1>3, <2>1, ConcatProperties
  <2>0. Len(r) \in Nat
    BY <1>3
  <2>3. \A k \in 1..Len(r) + 1 : k > Len(r) => k - Len(r) = 1
    BY <2>0
  <2>4. QED
    BY <2>1, <2>2, <2>3
<1>5. ASSUME NEW k \in 1..Len(s) + 1 - a PROVE l[k] = (r \o <<x>>)[k]
  <2>1. CASE k <= Len(s) - a
    <3>1. k \in 1..Len(s) - a /\ k \in 1..Len(r) + 1 /\ k <= Len(r) /\ a + k \in 1..Len(s)
      BY <1>1, <1>3, <2>1
    <3>2. (r \o <<x>>)[k] = s[a + k]
      BY <1>3, <1>4, <3>1
    <3>3. l[k] = s[a + k]
      BY <1>1, <1>2, <3>1
    <3>4. QED
      BY <3>2, <3>3
  <2>2. CASE k = Len(s) + 1 - a
    <3>1. k \in 1..Len(r) + 1 /\ ~(k <= Len(r)) /\ a + k = Len(s) + 1
      BY <1>1, <1>3, <2>2
    <3>2. (r \o <<x>>)[k] = x
      BY <1>4, <3>1
    <3>3. l[k] = x
      BY <1>1, <1>2, <3>1
    <3>4. QED
      BY <3>2, <3>3
  <2>3. k <= Len(s) - a \/ k = Len(s) + 1 - a
    BY <1>1
  <2>4. QED
    BY <2>1, <2>2, <2>3
<1>6. l = r \o <<x>>
  <2>1. Len(r \o <<x>>) = Len(s) + 1 - a
    BY <1>1, <1>3, <1>4
  <2>2. QED
    BY <1>2, <1>4, <1>5, <2>1, EqualByElements
<1>7. QED
  BY <1>6 DEF l, r, t

\* Nor does a part when what follows it is cut off.
LEMMA PartOfPrefix ==
  ASSUME NEW S, NEW s \in Seq(S), NEW m \in Nat, m <= Len(s),
         NEW a \in Nat, NEW b \in Nat, a <= b, b <= m
  PROVE  SubSeq(SubSeq(s, 1, m), a + 1, b) = SubSeq(s, a + 1, b)
<1> DEFINE t == SubSeq(s, 1, m)
           l == SubSeq(t, a + 1, b)
           r == SubSeq(s, a + 1, b)
<1>0. SubSeq(s, 1, m) = SubSeq(s, 0 + 1, m)
  OBVIOUS
<1>1. t \in Seq(S) /\ Len(t) = m /\ \A k \in 1..m : t[k] = s[k]
  BY <1>0, PartElements
<1> HIDE DEF t
<1>2. l \in Seq(S) /\ Len(l) = b - a /\ \A k \in 1..b - a : l[k] = t[a + k]
  BY <1>1, PartElements
<1>3. r \in Seq(S) /\ Len(r) = b - a /\ \A k \in 1..b - a : r[k] = s[a + k]
  BY PartElements
<1> HIDE DEF l, r
<1>4. \A k \in 1..b - a : l[k] = r[k]
  BY <1>1, <1>2, <1>3
<1>5. l = r
  BY <1>2, <1>3, <1>4, EqualByElements
<1>6. QED
  BY <1>5 DEF l, r, t

LEMMA PrefixElements ==
  ASSUME NEW S, NEW s \in Seq(S), NEW m \in Nat, m <= Len(s)
  PROVE  /\ SubSeq(s, 1, m) \in Seq(S)
         /\ Len(SubSeq(s, 1, m)) = m
         /\ \A k \in 1..m : SubSeq(s, 1, m)[k] = s[k]
<1>1. SubSeq(s, 1, m) = SubSeq(s, 0 + 1, m)
  OBVIOUS
<1>2. QED
  BY <1>1, PartElements

LEMMA PrefixOfAppend ==
  ASSUME NEW S, NEW s \in Seq(S), NEW x \in S, NEW m \in Nat, m <= Len(s)
  PROVE  SubSeq(Append(s, x), 1, m) = SubSeq(s, 1, m)
<1>1. SubSeq(Append(s, x), 0 + 1, m) = SubSeq(s, 0 + 1, m)
  BY PartOfAppend
<1>2. SubSeq(Append(s, x), 1, m) = SubSeq(Append(s, x), 0 + 1, m)
  OBVIOUS
<1>3. SubSeq(s, 1, m) = SubSeq(s, 0 + 1, m)
  OBVIOUS
<1>4. QED
  BY <1>1, <1>2, <1>3

LEMMA PrefixOfPrefix ==
  ASSUME NEW S, NEW s \in Seq(S), NEW m \in Nat, m <= Len(s), NEW n \in Nat, n <= m
  PROVE  SubSeq(SubSeq(s, 1, m), 1, n) = SubSeq(s, 1, n)
<1>1. SubSeq(SubSeq(s, 1, m), 0 + 1, n) = SubSeq(s, 0 + 1, n)
  BY PartOfPrefix
<1>2. SubSeq(SubSeq(s, 1, m), 1, n) = SubSeq(SubSeq(s, 1, m), 0 + 1, n)
  OBVIOUS
<1>3. SubSeq(s, 1, n) = SubSeq(s, 0 + 1, n)
  OBVIOUS
<1>4. QED
  BY <1>1, <1>2, <1>3

LEMMA WholePart ==
  ASSUME NEW S, NEW s \in Seq(S)
  PROVE  SubSeq(s, 1, Len(s)) = s
<1>1. Len(s) \in Nat
  OBVIOUS
<1>2. QED
  BY <1>1, PrefixElements, EqualByElements

LEMMA EmptyPart ==
  ASSUME NEW S, NEW s \in Seq(S), NEW a \in Nat, a <= Len(s)
  PROVE  SubSeq(s, a + 1, a) = <<>>
<1>1. SubSeq(s, a + 1, a) \in Seq(S) /\ Len(SubSeq(s, a + 1, a)) = 0
  BY PartElements
<1>2. QED
  BY <1>1

\* The elements of sequences.
LEMMA ElementsOfJoin ==
  ASSUME NEW S, NEW s \in Seq(S), NEW t \in Seq(S)
  PROVE  ToSet(s \o t) = ToSet(s) \cup ToSet(t)
<1>1. /\ s \o t \in Seq(S) /\ Len(s \o t) = Len(s) + Len(t)
      /\ Len(s) \in Nat /\ Len(t) \in Nat
      /\ \A k \in 1..Len(s) + Len(t) :
           (s \o t)[k] = IF k <= Len(s) THEN s[k] ELSE t[k - Len(s)]
  BY ConcatProperties
<1>2. ASSUME NEW e \in ToSet(s \o t) PROVE e \in ToSet(s) \cup ToSet(t)
  <2>1. PICK k \in 1..Len(s) + Len(t) : e = (s \o t)[k]
    BY <1>1 DEF ToSet
  <2>2. CASE k <= Len(s)
    BY <1>1, <2>1, <2>2 DEF ToSet
  <2>3. CASE k > Len(s)
    <3>1. k - Len(s) \in 1..Len(t) /\ Len(s) + (k - Len(s)) = k
      BY <2>3
    <3>2. e = t[k - Len(s)]
      BY <1>1, <2>1, <3>1
    <3>3. QED
      BY <3>1, <3>2 DEF ToSet
  <2>4. QED
    BY <2>2, <2>3
<1>3. \A k \in 1..Len(s) : s[k] \in ToSet(s \o t)
  BY <1>1 DEF ToSet
<1>4. ASSUME NEW k \in 1..Len(t) PROVE t[k] \in ToSet(s \o t)
  <2>1. Len(s) + k \in 1..Len(s) + Len(t) /\ Len(s) + k > Len(s) /\ Len(s) + k - Len(s) = k
    BY <1>1
  <2>2. t[k] = (s \o t)[Len(s) + k]
    BY <1>1, <2>1
  <2>3. QED
    BY <1>1, <2>1, <2>2 DEF ToSet
<1>5. ToSet(s) \subseteq ToSet(s \o t)
  BY <1>3 DEF ToSet
<1>6. ToSet(t) \subseteq ToSet(s \o t)
  <2>1. \A e \in ToSet(t) : \E k \in 1..Len(t) : e = t[k]
    BY DEF ToSet
  <2>2. QED
    BY <1>4, <2>1
<1>7. QED
  BY <1>2, <1>5, <1>6

-----------------------------------------------------------------------------
Frame == [stack : Seq(Number), parent : 0..MaxDepth, mark : 0..MaxWrites,
          live : BOOLEAN, released : BOOLEAN, rolledBack : BOOLEAN]

(* The invariant, of the calls fs that are running and the uncommitted     *)
(* writes p.                                                               *)

\* Whatever callbacks do, savepoints are in the order they were set.
Shape(fs, p) ==
  /\ fs \in Seq(Frame) /\ p \in Seq(Number)
  /\ Len(fs) <= MaxDepth
  /\ \A i \in 1..Len(fs) : /\ fs[i].mark <= Len(p)
                           /\ fs[i].parent < i
                           /\ fs[i].live <=> ~fs[i].released
  /\ \A i, j \in 1..Len(fs) : i <= j => fs[i].mark <= fs[j].mark
  /\ Len(fs) > 0 => fs[1].mark = 0 /\ ~fs[1].released /\ ~fs[1].rolledBack

\* If they do not catch an abort, each call's parentStack is the stack of the
\* call around it,
Chained(fs) == \A i \in 1..Len(fs) : fs[i].parent = i - 1

\* and what a stack holds is not lost by a rollback to a savepoint further in.
StacksKept(fs, p) ==
  \A i \in 1..Len(fs) :
    /\ ToSet(fs[i].stack) \subseteq ToSet(p)
    /\ \A j \in i + 1..Len(fs) :
         fs[j].released \/ ToSet(fs[i].stack) \subseteq ToSet(SubSeq(p, 1, fs[j].mark))

\* If they do not go on once they have settled either, only the innermost call
\* can be settled, and the stacks divide up the uncommitted writes.
EndOf(fs, p, i) == IF i = Len(fs) \/ fs[i + 1].released THEN Len(p) ELSE fs[i + 1].mark
Divided(fs, p) ==
  \A i \in 1..Len(fs) :
    /\ fs[i].released \/ fs[i].stack = SubSeq(p, fs[i].mark + 1, EndOf(fs, p, i))
    /\ i < Len(fs) => ~fs[i].released /\ ~fs[i].rolledBack
    /\ fs[i].rolledBack => Len(p) = fs[i].mark /\ ~fs[i].released

Control ==
  /\ setting \in Settings
  /\ issued \in 0..MaxWrites /\ Len(uncommitted) <= issued
  /\ durable \in Seq(Number) /\ notified \in Seq(Number)
  /\ aborted \in BOOLEAN /\ closed \in BOOLEAN /\ raised \in BOOLEAN
  /\ aborted => setting.aborts
  /\ target \in 0..Depth
  /\ Depth = 0 => target = 0 /\ uncommitted = <<>> /\ ~aborted /\ ~closed /\ ~raised
  /\ closed => Depth = 1 /\ uncommitted = <<>> /\ ~aborted

Disciplined ==
  /\ aborted => raised
  /\ ~raised => target = Depth
  /\ Chained(frames)
  /\ ToSet(notified) \subseteq ToSet(durable)
  /\ ~closed => StacksKept(frames, uncommitted)

Settling ==
  /\ notified = durable
  /\ ~closed => Divided(frames, uncommitted)

TxIInv ==
  /\ Control
  /\ Shape(frames, uncommitted)
  /\ ~CatchesAbort => Disciplined
  /\ ~CatchesAbort /\ ~setting.lingers => Settling

-----------------------------------------------------------------------------
(* What the calls do to the frames.                                        *)

\* As CommitNested and RollbackNested leave the innermost frame.
Committed(fs) ==
  [Push(fs, fs[Len(fs)].parent, fs[Len(fs)].stack)
     EXCEPT ![Len(fs)].live = FALSE, ![Len(fs)].released = TRUE]
Undone(fs) == [fs EXCEPT ![Len(fs)].rolledBack = TRUE, ![Len(fs)].stack = <<>>]

LEMMA FrameFields ==
  ASSUME NEW fs \in Seq(Frame), NEW i \in 1..Len(fs)
  PROVE  /\ fs[i] \in Frame
         /\ fs[i].stack \in Seq(Number)
         /\ fs[i].parent \in 0..MaxDepth /\ fs[i].mark \in 0..MaxWrites
         /\ fs[i].mark \in Nat
         /\ fs[i].live \in BOOLEAN /\ fs[i].released \in BOOLEAN
         /\ fs[i].rolledBack \in BOOLEAN
<1>1. fs[i] \in Frame
  OBVIOUS
<1>2. QED
  BY <1>1, TransactionAssumption DEF Frame

LEMMA NewFrameType ==
  ASSUME NEW t \in 0..MaxDepth, NEW m \in 0..MaxWrites
  PROVE  NewFrame(t, m) \in Frame
  BY DEF NewFrame, Frame

\* gs are the frames fs, with ms pushed onto the stack of frame t.
HasPushed(gs, fs, t, ms) ==
  /\ gs \in Seq(Frame)
  /\ Len(gs) = Len(fs)
  /\ \A i \in 1..Len(fs) :
       /\ gs[i].parent = fs[i].parent
       /\ gs[i].mark = fs[i].mark
       /\ gs[i].live = fs[i].live
       /\ gs[i].released = fs[i].released
       /\ gs[i].rolledBack = fs[i].rolledBack
       /\ gs[i].stack = IF i = t THEN fs[i].stack \o ms ELSE fs[i].stack

LEMMA PushElements ==
  ASSUME NEW fs \in Seq(Frame), NEW t \in 0..Len(fs), NEW ms \in Seq(Number)
  PROVE  HasPushed(Push(fs, t, ms), fs, t, ms)
<1>1. CASE t = 0
  BY <1>1 DEF Push, HasPushed
<1>2. CASE t # 0
  <2> DEFINE e == [fs[t] EXCEPT !.stack = @ \o ms]
  <2>1. t \in 1..Len(fs) /\ fs[t] \in Frame
    BY <1>2
  <2>2. fs[t].stack \o ms \in Seq(Number)
    BY <2>1, FrameFields, ConcatProperties
  <2>3. e \in Frame
    BY <2>1, <2>2 DEF Frame
  <2>4. /\ e.parent = fs[t].parent /\ e.mark = fs[t].mark /\ e.live = fs[t].live
        /\ e.released = fs[t].released /\ e.rolledBack = fs[t].rolledBack
        /\ e.stack = fs[t].stack \o ms
    BY <2>1 DEF Frame
  <2>5. Push(fs, t, ms) = [fs EXCEPT ![t] = e]
    BY <1>2, <2>1 DEF Push
  <2> HIDE DEF e
  <2>6. /\ Push(fs, t, ms) \in Seq(Frame) /\ Len(Push(fs, t, ms)) = Len(fs)
        /\ \A j \in 1..Len(fs) : Push(fs, t, ms)[j] = IF j = t THEN e ELSE fs[j]
    BY <2>1, <2>3, <2>5, ExceptSeq
  <2>7. QED
    BY <2>4, <2>6 DEF HasPushed
<1>3. QED
  BY <1>1, <1>2

HasCommitted(gs, fs) ==
  /\ gs \in Seq(Frame)
  /\ Len(gs) = Len(fs)
  /\ gs[Len(fs)].released /\ ~gs[Len(fs)].live
  /\ \A i \in 1..Len(fs) :
       /\ gs[i].parent = fs[i].parent
       /\ gs[i].mark = fs[i].mark
       /\ gs[i].rolledBack = fs[i].rolledBack
       /\ i # Len(fs) => gs[i].live = fs[i].live /\ gs[i].released = fs[i].released
       /\ gs[i].stack = IF i = fs[Len(fs)].parent THEN fs[i].stack \o fs[Len(fs)].stack
                        ELSE fs[i].stack

LEMMA CommittedElements ==
  ASSUME NEW fs \in Seq(Frame), Len(fs) > 0, fs[Len(fs)].parent < Len(fs)
  PROVE  HasCommitted(Committed(fs), fs)
<1> DEFINE d == Len(fs)
           t == fs[d].parent
           ms == fs[d].stack
           g == Push(fs, t, ms)
           e == [[g[d] EXCEPT !.live = FALSE] EXCEPT !.released = TRUE]
<1>1. d \in 1..Len(fs) /\ t \in 0..Len(fs) /\ ms \in Seq(Number)
  <2>1. d \in 1..Len(fs)
    OBVIOUS
  <2>2. t \in 0..MaxDepth /\ ms \in Seq(Number)
    BY <2>1, FrameFields
  <2>3. QED
    BY <2>1, <2>2
<1> HIDE DEF t, ms
<1>2. HasPushed(g, fs, t, ms)
  BY <1>1, PushElements
<1>3. Committed(fs) = [g EXCEPT ![d].live = FALSE, ![d].released = TRUE]
  BY DEF Committed, t, ms
<1> HIDE DEF g
<1>4. g[d] \in Frame
  BY <1>1, <1>2 DEF HasPushed
<1>5. /\ e \in Frame
      /\ e.parent = g[d].parent /\ e.mark = g[d].mark /\ e.rolledBack = g[d].rolledBack
      /\ e.stack = g[d].stack /\ e.live = FALSE /\ e.released = TRUE
  BY <1>4 DEF Frame
<1>6. Committed(fs) = [g EXCEPT ![d] = e]
  BY <1>1, <1>2, <1>3, <1>4 DEF HasPushed
<1> HIDE DEF e
<1>7. /\ Committed(fs) \in Seq(Frame) /\ Len(Committed(fs)) = d
      /\ \A i \in 1..d : Committed(fs)[i] = IF i = d THEN e ELSE g[i]
  BY <1>1, <1>2, <1>5, <1>6, ExceptSeq DEF HasPushed
<1>8. QED
  BY <1>1, <1>2, <1>5, <1>7 DEF t, ms, HasPushed, HasCommitted

HasUndone(gs, fs) ==
  /\ gs \in Seq(Frame)
  /\ Len(gs) = Len(fs)
  /\ gs[Len(fs)].rolledBack /\ gs[Len(fs)].stack = <<>>
  /\ \A i \in 1..Len(fs) :
       /\ gs[i].parent = fs[i].parent
       /\ gs[i].mark = fs[i].mark
       /\ gs[i].live = fs[i].live
       /\ gs[i].released = fs[i].released
       /\ i # Len(fs) => gs[i] = fs[i]

LEMMA UndoneElements ==
  ASSUME NEW fs \in Seq(Frame), Len(fs) > 0
  PROVE  HasUndone(Undone(fs), fs)
<1> DEFINE d == Len(fs)
           e == [[fs[d] EXCEPT !.rolledBack = TRUE] EXCEPT !.stack = <<>>]
<1>1. d \in 1..Len(fs) /\ fs[d] \in Frame
  OBVIOUS
<1>2. /\ e \in Frame
      /\ e.parent = fs[d].parent /\ e.mark = fs[d].mark /\ e.rolledBack = TRUE
      /\ e.stack = <<>> /\ e.live = fs[d].live /\ e.released = fs[d].released
  <2>1. <<>> \in Seq(Number)
    OBVIOUS
  <2>2. QED
    BY <1>1, <2>1 DEF Frame
<1>3. Undone(fs) = [fs EXCEPT ![d] = e]
  BY <1>1 DEF Undone
<1> HIDE DEF e
<1>4. /\ Undone(fs) \in Seq(Frame) /\ Len(Undone(fs)) = d
      /\ \A i \in 1..d : Undone(fs)[i] = IF i = d THEN e ELSE fs[i]
  BY <1>1, <1>2, <1>3, ExceptSeq
<1>5. QED
  BY <1>1, <1>2, <1>4 DEF HasUndone

-----------------------------------------------------------------------------
(* Each keeps the three parts of the invariant.                            *)

LEMMA WriteKeepsShape ==
  ASSUME NEW fs, NEW gs, NEW p, NEW x \in Number, NEW t,
         Shape(fs, p), HasPushed(gs, fs, t, <<x>>)
  PROVE  Shape(gs, Append(p, x))
<1>1. /\ fs \in Seq(Frame) /\ p \in Seq(Number)
      /\ Append(p, x) \in Seq(Number) /\ Len(Append(p, x)) = Len(p) + 1
  BY DEF Shape
<1>2. \A i \in 1..Len(fs) : fs[i].mark \in Nat
  BY <1>1, FrameFields
<1>3. gs \in Seq(Frame) /\ Len(gs) = Len(fs) /\ Len(p) \in Nat
  BY <1>1 DEF HasPushed
<1>4. ASSUME NEW i \in 1..Len(fs)
      PROVE  gs[i].mark <= Len(p) + 1 /\ gs[i].parent < i /\ (gs[i].live <=> ~gs[i].released)
  <2>1. fs[i].mark <= Len(p) /\ fs[i].parent < i /\ (fs[i].live <=> ~fs[i].released)
    BY DEF Shape
  <2>2. gs[i].mark = fs[i].mark /\ gs[i].parent = fs[i].parent
        /\ gs[i].live = fs[i].live /\ gs[i].released = fs[i].released
    BY DEF HasPushed
  <2>3. QED
    BY <1>2, <1>3, <2>1, <2>2
<1>5. ASSUME NEW i \in 1..Len(fs), NEW j \in 1..Len(fs), i <= j
      PROVE  gs[i].mark <= gs[j].mark
  BY <1>5 DEF Shape, HasPushed
<1>6. Len(fs) > 0 => gs[1].mark = 0 /\ ~gs[1].released /\ ~gs[1].rolledBack
  BY <1>1 DEF Shape, HasPushed
<1>7. Len(fs) <= MaxDepth
  BY DEF Shape
<1>8. QED
  BY <1>1, <1>3, <1>4, <1>5, <1>6, <1>7 DEF Shape

LEMMA WriteKeepsKept ==
  ASSUME NEW fs, NEW gs, NEW p, NEW x \in Number,
         Shape(fs, p), StacksKept(fs, p), HasPushed(gs, fs, Len(fs), <<x>>)
  PROVE  StacksKept(gs, Append(p, x))
<1> DEFINE xs == <<x>>
<1>1. /\ fs \in Seq(Frame) /\ p \in Seq(Number) /\ xs \in Seq(Number)
      /\ Append(p, x) = p \o xs
      /\ Len(p) \in Nat
  BY DEF Shape
<1>0. HasPushed(gs, fs, Len(fs), xs)
  OBVIOUS
<1> HIDE DEF xs
<1>2. ToSet(Append(p, x)) = ToSet(p) \cup ToSet(xs)
  BY <1>1, ElementsOfJoin
<1>3. ASSUME NEW i \in 1..Len(fs)
      PROVE  ToSet(gs[i].stack) \subseteq ToSet(Append(p, x))
  <2>1. fs[i].stack \in Seq(Number) /\ ToSet(fs[i].stack) \subseteq ToSet(p)
    BY <1>1, FrameFields DEF StacksKept
  <2>2. gs[i].stack = fs[i].stack \/ gs[i].stack = fs[i].stack \o xs
    BY <1>0 DEF HasPushed
  <2>3. ToSet(fs[i].stack \o xs) = ToSet(fs[i].stack) \cup ToSet(xs)
    BY <1>1, <2>1, ElementsOfJoin
  <2>4. QED
    BY <1>2, <2>1, <2>2, <2>3
<1>4. ASSUME NEW i \in 1..Len(fs), NEW j \in i + 1..Len(fs), ~gs[j].released
      PROVE  ToSet(gs[i].stack) \subseteq ToSet(SubSeq(Append(p, x), 1, gs[j].mark))
  <2>1. j \in 1..Len(fs) /\ i # Len(fs)
    BY <1>1
  <2>2. gs[j].mark = fs[j].mark /\ ~fs[j].released /\ gs[i].stack = fs[i].stack
    BY <1>0, <1>4, <2>1 DEF HasPushed
  <2>3. fs[j].mark \in Nat /\ fs[j].mark <= Len(p)
    BY <1>1, <2>1, FrameFields DEF Shape
  <2>4. SubSeq(Append(p, x), 1, fs[j].mark) = SubSeq(p, 1, fs[j].mark)
    BY <1>1, <2>3, PrefixOfAppend
  <2>5. ToSet(fs[i].stack) \subseteq ToSet(SubSeq(p, 1, fs[j].mark))
    BY <2>2 DEF StacksKept
  <2>6. QED
    BY <2>2, <2>4, <2>5
<1>5. QED
  BY <1>0, <1>3, <1>4 DEF StacksKept, HasPushed

LEMMA WriteKeepsDivided ==
  ASSUME NEW fs, NEW gs, NEW p, NEW x \in Number,
         Shape(fs, p), Divided(fs, p), HasPushed(gs, fs, Len(fs), <<x>>),
         Len(fs) > 0, ~fs[Len(fs)].released, ~fs[Len(fs)].rolledBack
  PROVE  Divided(gs, Append(p, x))
<1>1. fs \in Seq(Frame) /\ p \in Seq(Number) /\ Len(p) \in Nat
      /\ Len(Append(p, x)) = Len(p) + 1 /\ Len(gs) = Len(fs)
  BY DEF Shape, HasPushed
<1>2. ASSUME NEW i \in 1..Len(fs)
      PROVE  gs[i].stack = SubSeq(Append(p, x), gs[i].mark + 1, EndOf(gs, Append(p, x), i))
  <2>1. /\ fs[i].mark \in Nat /\ fs[i].mark <= Len(p) /\ gs[i].mark = fs[i].mark
        /\ ~fs[i].released /\ ~gs[i].released
    BY <1>1, FrameFields DEF Shape, HasPushed, Divided
  <2>2. fs[i].stack = SubSeq(p, fs[i].mark + 1, EndOf(fs, p, i))
    BY <2>1 DEF Divided
  <2>3. CASE i = Len(fs)
    <3>1. EndOf(fs, p, i) = Len(p) /\ EndOf(gs, Append(p, x), i) = Len(p) + 1
      BY <1>1, <2>3 DEF EndOf
    <3>2. gs[i].stack = fs[i].stack \o <<x>>
      BY <2>3 DEF HasPushed
    <3>3. SubSeq(Append(p, x), fs[i].mark + 1, Len(p) + 1)
            = SubSeq(p, fs[i].mark + 1, Len(p)) \o <<x>>
      BY <1>1, <2>1, EndOfAppend
    <3>4. QED
      BY <2>1, <2>2, <3>1, <3>2, <3>3
  <2>4. CASE i # Len(fs)
    <3>1. i + 1 \in 1..Len(fs) /\ i <= i + 1
      BY <1>1, <2>4
    <3>2. /\ ~fs[i + 1].released /\ ~gs[i + 1].released
          /\ gs[i + 1].mark = fs[i + 1].mark
          /\ fs[i + 1].mark \in Nat /\ fs[i + 1].mark <= Len(p)
          /\ fs[i].mark <= fs[i + 1].mark
      <4>1. ~fs[i + 1].released
        BY <1>1, <3>1 DEF Divided
      <4>2. gs[i + 1].released = fs[i + 1].released /\ gs[i + 1].mark = fs[i + 1].mark
        BY <3>1 DEF HasPushed
      <4>3. fs[i + 1].mark \in Nat
        BY <1>1, <3>1, FrameFields
      <4>4. fs[i + 1].mark <= Len(p) /\ fs[i].mark <= fs[i + 1].mark
        BY <3>1 DEF Shape
      <4>5. QED
        BY <4>1, <4>2, <4>3, <4>4
    <3>3. EndOf(fs, p, i) = fs[i + 1].mark /\ EndOf(gs, Append(p, x), i) = fs[i + 1].mark
      BY <1>1, <2>4, <3>2 DEF EndOf
    <3>4. gs[i].stack = fs[i].stack
      BY <2>4 DEF HasPushed
    <3>5. SubSeq(Append(p, x), fs[i].mark + 1, fs[i + 1].mark)
            = SubSeq(p, fs[i].mark + 1, fs[i + 1].mark)
      <4> DEFINE a == fs[i].mark
                 b == fs[i + 1].mark
      <4>1. a \in Nat /\ b \in Nat /\ a <= b /\ b <= Len(p)
        BY <2>1, <3>2
      <4> HIDE DEF a, b
      <4>2. SubSeq(Append(p, x), a + 1, b) = SubSeq(p, a + 1, b)
        BY <1>1, <4>1, PartOfAppend
      <4>3. QED
        BY <4>2 DEF a, b
    <3>6. QED
      BY <2>1, <2>2, <3>3, <3>4, <3>5
  <2>5. QED
    BY <2>3, <2>4
<1>3. \A i \in 1..Len(fs) : ~fs[i].released /\ ~fs[i].rolledBack
  BY <1>1 DEF Divided
<1>4. QED
  BY <1>1, <1>2, <1>3 DEF Divided, HasPushed

\* A nested call starts with an empty stack, at the end of what is uncommitted.
HasNested(gs, fs, f) ==
  /\ gs \in Seq(Frame)
  /\ Len(gs) = Len(fs) + 1
  /\ gs[Len(fs) + 1] = f
  /\ \A i \in 1..Len(fs) : gs[i] = fs[i]

LEMMA NestKeepsShape ==
  ASSUME NEW fs, NEW gs, NEW p, NEW t \in 0..Len(fs), Shape(fs, p),
         Len(fs) > 0, Len(fs) < MaxDepth, HasNested(gs, fs, NewFrame(t, Len(p)))
  PROVE  Shape(gs, p)
<1>1. fs \in Seq(Frame) /\ p \in Seq(Number) /\ Len(fs) \in Nat
  BY DEF Shape
<1>2. \A i \in 1..Len(fs) : fs[i].mark \in Nat /\ fs[i].mark <= Len(p) /\ gs[i] = fs[i]
  BY <1>1, FrameFields DEF Shape, HasNested
<1>3. LET f == gs[Len(fs) + 1] IN
      f.mark = Len(p) /\ f.parent = t /\ f.live = TRUE /\ f.released = FALSE
  BY DEF HasNested, NewFrame
<1>4. \A i \in 1..Len(gs) : i \in 1..Len(fs) \/ i = Len(fs) + 1
  BY <1>1 DEF HasNested
<1>5. ASSUME NEW i \in 1..Len(gs)
      PROVE  gs[i].mark <= Len(p) /\ gs[i].parent < i /\ (gs[i].live <=> ~gs[i].released)
  <2>1. CASE i \in 1..Len(fs)
    BY <1>2, <2>1 DEF Shape
  <2>2. CASE i = Len(fs) + 1
    BY <1>1, <1>3, <2>2
  <2>3. QED
    BY <1>4, <2>1, <2>2
<1>6. ASSUME NEW i \in 1..Len(gs), NEW j \in 1..Len(gs), i <= j
      PROVE  gs[i].mark <= gs[j].mark
  <2>1. CASE j \in 1..Len(fs)
    BY <1>1, <1>2, <1>6, <2>1 DEF Shape
  <2>2. CASE j = Len(fs) + 1
    BY <1>1, <1>3, <1>5, <2>2
  <2>3. QED
    BY <1>4, <2>1, <2>2
<1>7. gs[1].mark = 0 /\ ~gs[1].released /\ ~gs[1].rolledBack
  BY <1>1, <1>2 DEF Shape
<1>8. gs \in Seq(Frame) /\ Len(gs) <= MaxDepth
  BY <1>1, TransactionAssumption DEF HasNested
<1>9. QED
  BY <1>1, <1>5, <1>6, <1>7, <1>8 DEF Shape

LEMMA NestKeepsKept ==
  ASSUME NEW fs, NEW gs, NEW p, NEW t, Shape(fs, p), StacksKept(fs, p),
         HasNested(gs, fs, NewFrame(t, Len(p)))
  PROVE  StacksKept(gs, p)
<1>1. fs \in Seq(Frame) /\ p \in Seq(Number) /\ Len(fs) \in Nat
  BY DEF Shape
<1>2. SubSeq(p, 1, Len(p)) = p
  BY <1>1, WholePart
<1>3. gs[Len(fs) + 1].mark = Len(p) /\ gs[Len(fs) + 1].stack = <<>>
  <2>1. gs[Len(fs) + 1] = NewFrame(t, Len(p))
    BY DEF HasNested
  <2>2. QED
    BY <2>1 DEF NewFrame
<1>4. \A i \in 1..Len(gs) : i \in 1..Len(fs) \/ i = Len(fs) + 1
  BY <1>1 DEF HasNested
<1>5. ToSet(<<>>) \subseteq ToSet(p)
  BY DEF ToSet
<1>6. ASSUME NEW i \in 1..Len(gs) PROVE ToSet(gs[i].stack) \subseteq ToSet(p)
  BY <1>3, <1>4, <1>5 DEF StacksKept, HasNested
<1>7. ASSUME NEW i \in 1..Len(gs), NEW j \in i + 1..Len(gs), ~gs[j].released
      PROVE  ToSet(gs[i].stack) \subseteq ToSet(SubSeq(p, 1, gs[j].mark))
  <2>1. j \in 1..Len(gs) /\ i \in 1..Len(fs)
    BY <1>1 DEF HasNested
  <2>2. CASE j \in 1..Len(fs)
    <3>1. gs[i] = fs[i] /\ gs[j] = fs[j] /\ j \in i + 1..Len(fs)
      BY <1>1, <2>1, <2>2 DEF HasNested
    <3>2. QED
      BY <1>7, <2>1, <3>1 DEF StacksKept
  <2>3. CASE j = Len(fs) + 1
    <3>1. SubSeq(p, 1, gs[j].mark) = p
      BY <1>2, <1>3, <2>3
    <3>2. QED
      BY <1>6, <3>1
  <2>4. QED
    BY <1>4, <2>1, <2>2, <2>3
<1>8. QED
  BY <1>6, <1>7 DEF StacksKept

LEMMA NestKeepsDivided ==
  ASSUME NEW fs, NEW gs, NEW p, NEW t, Shape(fs, p), Divided(fs, p), Len(fs) > 0,
         HasNested(gs, fs, NewFrame(t, Len(p))),
         ~fs[Len(fs)].released, ~fs[Len(fs)].rolledBack
  PROVE  Divided(gs, p)
<1>1. fs \in Seq(Frame) /\ p \in Seq(Number) /\ Len(fs) \in Nat /\ Len(p) \in Nat
      /\ Len(gs) = Len(fs) + 1
  BY DEF Shape, HasNested
<1>2. /\ gs[Len(fs) + 1].mark = Len(p) /\ gs[Len(fs) + 1].stack = <<>>
      /\ gs[Len(fs) + 1].released = FALSE /\ gs[Len(fs) + 1].rolledBack = FALSE
  <2>1. gs[Len(fs) + 1] = NewFrame(t, Len(p))
    BY DEF HasNested
  <2>2. QED
    BY <2>1 DEF NewFrame
<1>3. \A i \in 1..Len(gs) : i \in 1..Len(fs) \/ i = Len(fs) + 1
  BY <1>1
<1>4. \A i \in 1..Len(gs) : ~gs[i].released /\ ~gs[i].rolledBack
  BY <1>1, <1>2, <1>3 DEF Divided, HasNested
<1>5. ASSUME NEW i \in 1..Len(gs)
      PROVE  gs[i].stack = SubSeq(p, gs[i].mark + 1, EndOf(gs, p, i))
  <2>1. CASE i = Len(fs) + 1
    <3>1. EndOf(gs, p, i) = Len(p)
      BY <1>1, <2>1 DEF EndOf
    <3>2. SubSeq(p, Len(p) + 1, Len(p)) = <<>>
      BY <1>1, EmptyPart
    <3>3. QED
      BY <1>2, <2>1, <3>1, <3>2
  <2>2. CASE i = Len(fs)
    <3>1. EndOf(gs, p, i) = Len(p) /\ EndOf(fs, p, i) = Len(p)
      BY <1>1, <1>2, <2>2 DEF EndOf
    <3>2. QED
      BY <1>1, <2>2, <3>1 DEF Divided, HasNested
  <2>3. CASE i \in 1..Len(fs) /\ i # Len(fs)
    <3>1. i + 1 \in 1..Len(fs) /\ i # Len(gs)
      BY <1>1, <2>3
    <3>2. EndOf(gs, p, i) = EndOf(fs, p, i)
      BY <2>3, <3>1 DEF EndOf, HasNested
    <3>3. ~fs[i].released /\ gs[i] = fs[i]
      BY <1>1, <2>3 DEF Divided, HasNested
    <3>4. QED
      BY <2>3, <3>2, <3>3 DEF Divided
  <2>4. QED
    BY <1>3, <2>1, <2>2, <2>3
<1>6. QED
  BY <1>4, <1>5 DEF Divided

\* A commit hands the innermost stack to the call around it.
LEMMA CommitKeepsShape ==
  ASSUME NEW fs, NEW gs, NEW p, Shape(fs, p), Len(fs) > 1, HasCommitted(gs, fs)
  PROVE  Shape(gs, p)
<1>1. fs \in Seq(Frame) /\ Len(fs) \in Nat /\ gs \in Seq(Frame) /\ Len(gs) = Len(fs)
  BY DEF Shape, HasCommitted
<1>2. ASSUME NEW i \in 1..Len(fs)
      PROVE  gs[i].mark <= Len(p) /\ gs[i].parent < i /\ (gs[i].live <=> ~gs[i].released)
  <2>1. CASE i = Len(fs)
    BY <2>1 DEF Shape, HasCommitted
  <2>2. CASE i # Len(fs)
    BY <2>2 DEF Shape, HasCommitted
  <2>3. QED
    BY <2>1, <2>2
<1>3. ASSUME NEW i \in 1..Len(fs), NEW j \in 1..Len(fs), i <= j
      PROVE  gs[i].mark <= gs[j].mark
  BY <1>3 DEF Shape, HasCommitted
<1>4. gs[1].mark = 0 /\ ~gs[1].released /\ ~gs[1].rolledBack
  BY <1>1 DEF Shape, HasCommitted
<1>5. QED
  BY <1>1, <1>2, <1>3, <1>4 DEF Shape

LEMMA CommitKeepsKept ==
  ASSUME NEW fs, NEW gs, NEW p, Shape(fs, p), Chained(fs), StacksKept(fs, p),
         Len(fs) > 1, HasCommitted(gs, fs)
  PROVE  StacksKept(gs, p)
<1> DEFINE d == Len(fs)
<1>1. /\ fs \in Seq(Frame) /\ d \in Nat /\ Len(gs) = d
      /\ d \in 1..d /\ d - 1 \in 1..d /\ fs[d].parent = d - 1
  BY DEF Shape, HasCommitted, Chained
<1>2. ASSUME NEW i \in 1..d PROVE ToSet(gs[i].stack) \subseteq ToSet(p)
  <2>1. gs[i].stack = fs[i].stack \/ gs[i].stack = fs[i].stack \o fs[d].stack
    BY DEF HasCommitted
  <2>2. fs[i].stack \in Seq(Number) /\ fs[d].stack \in Seq(Number)
    BY <1>1, FrameFields
  <2>3. ToSet(fs[i].stack \o fs[d].stack) = ToSet(fs[i].stack) \cup ToSet(fs[d].stack)
    BY <2>2, ElementsOfJoin
  <2>4. ToSet(fs[i].stack) \subseteq ToSet(p) /\ ToSet(fs[d].stack) \subseteq ToSet(p)
    BY <1>1 DEF StacksKept
  <2>5. QED
    BY <2>1, <2>3, <2>4
<1>3. ASSUME NEW i \in 1..d, NEW j \in i + 1..d, ~gs[j].released
      PROVE  ToSet(gs[i].stack) \subseteq ToSet(SubSeq(p, 1, gs[j].mark))
  <2>1. j # d /\ j \in 1..d
    BY <1>1, <1>3 DEF HasCommitted
  <2>2. i # d - 1
    BY <1>1, <2>1
  <2>3. gs[i].stack = fs[i].stack /\ gs[j].mark = fs[j].mark /\ ~fs[j].released
    BY <1>1, <1>3, <2>1, <2>2 DEF HasCommitted
  <2>4. QED
    BY <2>3 DEF StacksKept
<1>4. QED
  BY <1>1, <1>2, <1>3 DEF StacksKept

LEMMA CommitKeepsDivided ==
  ASSUME NEW fs, NEW gs, NEW p, Shape(fs, p), Chained(fs), Divided(fs, p),
         Len(fs) > 1, HasCommitted(gs, fs), ~fs[Len(fs)].released, ~fs[Len(fs)].rolledBack
  PROVE  Divided(gs, p)
<1> DEFINE d == Len(fs)
<1>1. /\ fs \in Seq(Frame) /\ p \in Seq(Number) /\ Len(p) \in Nat /\ d \in Nat /\ Len(gs) = d
      /\ d \in 1..d /\ d - 1 \in 1..d /\ fs[d].parent = d - 1 /\ d - 1 + 1 = d
  BY DEF Shape, HasCommitted, Chained
<1>2. gs[d].released /\ ~gs[d].rolledBack
  BY <1>1 DEF HasCommitted
<1>3. ASSUME NEW i \in 1..d, i # d
      PROVE  /\ ~gs[i].released /\ ~gs[i].rolledBack
             /\ gs[i].stack = SubSeq(p, gs[i].mark + 1, EndOf(gs, p, i))
  <2>1. /\ ~fs[i].released /\ ~fs[i].rolledBack /\ ~gs[i].released /\ ~gs[i].rolledBack
        /\ gs[i].mark = fs[i].mark /\ i < d
    BY <1>1, <1>3 DEF Divided, HasCommitted
  <2>2. fs[i].stack = SubSeq(p, fs[i].mark + 1, EndOf(fs, p, i))
    BY <2>1 DEF Divided
  <2>3. CASE i = d - 1
    <3> DEFINE a == fs[i].mark
               b == fs[d].mark
    <3>1. a \in Nat /\ b \in Nat /\ a <= b /\ b <= Len(p)
      BY <1>1, <2>1, FrameFields DEF Shape
    <3>2. /\ EndOf(fs, p, i) = b /\ EndOf(gs, p, i) = Len(p) /\ EndOf(fs, p, d) = Len(p)
      BY <1>1, <1>2, <2>3 DEF EndOf
    <3>3. fs[d].stack = SubSeq(p, b + 1, Len(p))
      BY <1>1, <3>2 DEF Divided
    <3>4. gs[i].stack = fs[i].stack \o fs[d].stack
      BY <1>1, <2>3 DEF HasCommitted
    <3>5. fs[i].stack = SubSeq(p, a + 1, b) /\ gs[i].mark = a
      BY <2>1, <2>2, <3>2
    <3> HIDE DEF a, b
    <3>6. SubSeq(p, a + 1, b) \o SubSeq(p, b + 1, Len(p)) = SubSeq(p, a + 1, Len(p))
      BY <1>1, <3>1, PartsJoin
    <3>7. QED
      BY <2>1, <3>2, <3>3, <3>4, <3>5, <3>6
  <2>4. CASE i # d - 1
    <3>1. i + 1 \in 1..d /\ i + 1 # d
      BY <1>1, <1>3, <2>4
    <3>2. EndOf(gs, p, i) = EndOf(fs, p, i)
      BY <1>1, <1>3, <3>1 DEF EndOf, HasCommitted
    <3>3. gs[i].stack = fs[i].stack
      BY <1>1, <2>4 DEF HasCommitted
    <3>4. QED
      BY <2>1, <2>2, <3>2, <3>3
  <2>5. QED
    BY <2>3, <2>4
<1>4. QED
  BY <1>1, <1>2, <1>3 DEF Divided

\* A rollback cuts off what was written since the innermost savepoint.
LEMMA RollbackKeepsShape ==
  ASSUME NEW fs, NEW gs, NEW p, Shape(fs, p), Len(fs) > 1, HasUndone(gs, fs)
  PROVE  Shape(gs, SubSeq(p, 1, fs[Len(fs)].mark))
<1> DEFINE d == Len(fs)
           m == fs[d].mark
           q == SubSeq(p, 1, m)
<1>1. /\ fs \in Seq(Frame) /\ p \in Seq(Number) /\ d \in Nat /\ d \in 1..d
      /\ gs \in Seq(Frame) /\ Len(gs) = d /\ m \in Nat /\ m <= Len(p)
  BY FrameFields DEF Shape, HasUndone
<1>2. q \in Seq(Number) /\ Len(q) = m
  BY <1>1, PrefixElements
<1>3. ASSUME NEW i \in 1..d
      PROVE  gs[i].mark <= m /\ gs[i].parent < i /\ (gs[i].live <=> ~gs[i].released)
  <2>1. fs[i].mark <= m
    BY <1>1 DEF Shape
  <2>2. QED
    BY <2>1 DEF Shape, HasUndone
<1>4. ASSUME NEW i \in 1..d, NEW j \in 1..d, i <= j
      PROVE  gs[i].mark <= gs[j].mark
  BY <1>4 DEF Shape, HasUndone
<1>5. gs[1].mark = 0 /\ ~gs[1].released /\ ~gs[1].rolledBack
  BY <1>1 DEF Shape, HasUndone
<1> HIDE DEF m, q
<1>6. Shape(gs, q)
  BY <1>1, <1>2, <1>3, <1>4, <1>5 DEF Shape
<1>7. QED
  BY <1>6 DEF m, q

LEMMA RollbackKeepsKept ==
  ASSUME NEW fs, NEW gs, NEW p, Shape(fs, p), StacksKept(fs, p), Len(fs) > 1,
         ~fs[Len(fs)].released, HasUndone(gs, fs)
  PROVE  StacksKept(gs, SubSeq(p, 1, fs[Len(fs)].mark))
<1> DEFINE d == Len(fs)
           m == fs[d].mark
           q == SubSeq(p, 1, m)
<1>1. /\ fs \in Seq(Frame) /\ p \in Seq(Number) /\ d \in Nat /\ d \in 1..d
      /\ Len(gs) = d /\ m \in Nat /\ m <= Len(p)
  BY FrameFields DEF Shape, HasUndone
<1>2. ASSUME NEW i \in 1..d PROVE ToSet(gs[i].stack) \subseteq ToSet(q)
  <2>1. CASE i = d
    <3>1. gs[i].stack = <<>>
      BY <2>1 DEF HasUndone
    <3>2. ToSet(<<>>) = {}
      BY DEF ToSet
    <3>3. QED
      BY <3>1, <3>2
  <2>2. CASE i # d
    <3>1. d \in i + 1..d /\ gs[i] = fs[i]
      BY <1>1, <2>2 DEF HasUndone
    <3>2. QED
      BY <3>1 DEF StacksKept
  <2>3. QED
    BY <2>1, <2>2
<1>3. ASSUME NEW i \in 1..d, NEW j \in i + 1..d, ~gs[j].released
      PROVE  ToSet(gs[i].stack) \subseteq ToSet(SubSeq(q, 1, gs[j].mark))
  <2>1. j \in 1..d /\ i # d
    BY <1>1
  <2>2. /\ gs[i].stack = fs[i].stack /\ gs[j].mark = fs[j].mark /\ ~fs[j].released
        /\ fs[j].mark \in Nat /\ fs[j].mark <= m
    BY <1>1, <1>3, <2>1, FrameFields DEF HasUndone, Shape
  <2>3. SubSeq(q, 1, fs[j].mark) = SubSeq(p, 1, fs[j].mark)
    <3> HIDE DEF m
    <3>1. QED
      BY <1>1, <2>2, PrefixOfPrefix
  <2>4. ToSet(fs[i].stack) \subseteq ToSet(SubSeq(p, 1, fs[j].mark))
    BY <2>2 DEF StacksKept
  <2>5. QED
    BY <2>2, <2>3, <2>4
<1> HIDE DEF q
<1>4. StacksKept(gs, q)
  BY <1>1, <1>2, <1>3 DEF StacksKept
<1>5. QED
  BY <1>4 DEF q

LEMMA RollbackKeepsDivided ==
  ASSUME NEW fs, NEW gs, NEW p, Shape(fs, p), Divided(fs, p), Len(fs) > 1,
         ~fs[Len(fs)].released, HasUndone(gs, fs)
  PROVE  Divided(gs, SubSeq(p, 1, fs[Len(fs)].mark))
<1> DEFINE d == Len(fs)
           m == fs[d].mark
           q == SubSeq(p, 1, m)
<1>1. /\ fs \in Seq(Frame) /\ p \in Seq(Number) /\ d \in Nat /\ d \in 1..d
      /\ Len(gs) = d /\ m \in Nat /\ m <= Len(p)
  BY FrameFields DEF Shape, HasUndone
<1>2. q \in Seq(Number) /\ Len(q) = m
  BY <1>1, PrefixElements
<1>3. gs[d].mark = m /\ ~gs[d].released /\ gs[d].stack = <<>>
  BY <1>1 DEF HasUndone
<1> HIDE DEF m, q
<1>4. gs[d].stack = SubSeq(q, gs[d].mark + 1, EndOf(gs, q, d))
  <2>1. EndOf(gs, q, d) = m
    BY <1>1, <1>2 DEF EndOf
  <2>2. SubSeq(q, m + 1, m) = <<>>
    BY <1>1, <1>2, EmptyPart
  <2>3. QED
    BY <1>3, <2>1, <2>2
<1>5. ASSUME NEW i \in 1..d, i # d
      PROVE  /\ ~gs[i].released /\ ~gs[i].rolledBack
             /\ gs[i].stack = SubSeq(q, gs[i].mark + 1, EndOf(gs, q, i))
  <2>1. i < d /\ gs[i] = fs[i] /\ i + 1 \in 1..d
    BY <1>1, <1>5 DEF HasUndone
  <2>2. ~gs[i].released /\ ~gs[i].rolledBack
    BY <2>1 DEF Divided
  <2>3. ~fs[i + 1].released /\ ~gs[i + 1].released /\ gs[i + 1].mark = fs[i + 1].mark
    BY <1>1, <2>1 DEF Divided, HasUndone
  <2> DEFINE a == fs[i].mark
             b == fs[i + 1].mark
  <2>4. a \in Nat /\ b \in Nat /\ a <= b /\ b <= m
    BY <1>1, <2>1, FrameFields DEF Shape, m
  <2>5. EndOf(fs, p, i) = b /\ EndOf(gs, q, i) = b
    BY <1>1, <1>5, <2>3 DEF EndOf
  <2>6. fs[i].stack = SubSeq(p, a + 1, b) /\ gs[i].mark = a
    BY <2>1, <2>2, <2>5 DEF Divided
  <2> HIDE DEF a, b
  <2>7. SubSeq(q, a + 1, b) = SubSeq(p, a + 1, b)
    BY <1>1, <2>4, PartOfPrefix DEF q
  <2>8. QED
    BY <2>1, <2>2, <2>5, <2>6, <2>7
<1>6. Divided(gs, q)
  BY <1>1, <1>2, <1>3, <1>4, <1>5 DEF Divided
<1>7. QED
  BY <1>6 DEF m, q

\* The innermost frame goes when it is settled or rolled back.
LEMMA LeaveKeepsShape ==
  ASSUME NEW fs, NEW p, Shape(fs, p), Len(fs) > 1
  PROVE  /\ Shape(Front(fs), p)
         /\ Len(Front(fs)) = Len(fs) - 1
         /\ \A i \in 1..Len(fs) - 1 : Front(fs)[i] = fs[i]
<1>1. /\ fs \in Seq(Frame) /\ Front(fs) \in Seq(Frame) /\ Len(fs) \in Nat
      /\ Len(Front(fs)) = Len(fs) - 1
      /\ \A i \in 1..Len(fs) - 1 : Front(fs)[i] = fs[i]
  BY FrontElements DEF Shape
<1>2. p \in Seq(Number) /\ Len(Front(fs)) <= MaxDepth
  BY <1>1, TransactionAssumption DEF Shape
<1>3. /\ \A i \in 1..Len(fs) - 1 : i \in 1..Len(fs)
      /\ Len(Front(fs)) > 0 => 1 \in 1..Len(fs) - 1
  BY <1>1
<1>4. /\ \A i \in 1..Len(Front(fs)) :
           /\ Front(fs)[i].mark <= Len(p)
           /\ Front(fs)[i].parent < i
           /\ Front(fs)[i].live <=> ~Front(fs)[i].released
      /\ \A i, j \in 1..Len(Front(fs)) : i <= j => Front(fs)[i].mark <= Front(fs)[j].mark
      /\ Len(Front(fs)) > 0 =>
           Front(fs)[1].mark = 0 /\ ~Front(fs)[1].released /\ ~Front(fs)[1].rolledBack
  BY <1>1, <1>3 DEF Shape
<1>5. QED
  BY <1>1, <1>2, <1>4 DEF Shape

LEMMA LeaveKeepsKept ==
  ASSUME NEW fs, NEW p, Shape(fs, p), StacksKept(fs, p), Len(fs) > 1
  PROVE  StacksKept(Front(fs), p)
<1>0. Len(fs) \in Nat
  BY DEF Shape
<1>1. /\ Len(fs) \in Nat /\ Len(Front(fs)) = Len(fs) - 1
      /\ \A i \in 1..Len(fs) - 1 : Front(fs)[i] = fs[i]
  BY <1>0, LeaveKeepsShape
<1>2. ASSUME NEW i \in 1..Len(fs) - 1
      PROVE  ToSet(Front(fs)[i].stack) \subseteq ToSet(p)
  BY <1>1 DEF StacksKept
<1>3. ASSUME NEW i \in 1..Len(fs) - 1, NEW j \in i + 1..Len(fs) - 1, ~Front(fs)[j].released
      PROVE  ToSet(Front(fs)[i].stack) \subseteq ToSet(SubSeq(p, 1, Front(fs)[j].mark))
  <2>1. /\ i \in 1..Len(fs) /\ j \in i + 1..Len(fs)
        /\ Front(fs)[i] = fs[i] /\ Front(fs)[j] = fs[j]
    BY <1>1
  <2>2. QED
    BY <1>3, <2>1 DEF StacksKept
<1>4. QED
  BY <1>1, <1>2, <1>3 DEF StacksKept

LEMMA LeaveKeepsDivided ==
  ASSUME NEW fs, NEW p, Shape(fs, p), Divided(fs, p), Len(fs) > 1,
         fs[Len(fs)].released \/ fs[Len(fs)].rolledBack
  PROVE  Divided(Front(fs), p)
<1> DEFINE d == Len(fs)
           g == Front(fs)
<1>0. /\ Len(Front(fs)) = Len(fs) - 1
      /\ \A i \in 1..Len(fs) - 1 : Front(fs)[i] = fs[i]
  BY LeaveKeepsShape, Zenon
<1>1. /\ d \in Nat /\ d \in 1..d /\ Len(g) = d - 1
      /\ \A i \in 1..d - 1 : g[i] = fs[i]
  BY <1>0 DEF Shape
<1>2. \A i \in 1..d - 1 : i \in 1..d /\ ~fs[i].released /\ ~fs[i].rolledBack
  BY <1>1 DEF Divided
<1> HIDE DEF g
<1>3. ASSUME NEW i \in 1..d - 1
      PROVE  g[i].stack = SubSeq(p, g[i].mark + 1, EndOf(g, p, i))
  <2>1. fs[i].stack = SubSeq(p, fs[i].mark + 1, EndOf(fs, p, i)) /\ g[i] = fs[i]
    BY <1>1, <1>2 DEF Divided
  <2>2. CASE i = d - 1
    <3>1. i + 1 = d /\ i # d
      BY <1>1, <2>2
    <3>2. EndOf(g, p, i) = Len(p)
      BY <1>1, <2>2 DEF EndOf
    <3>3. EndOf(fs, p, i) = Len(p)
      BY <1>1, <3>1 DEF EndOf, Divided
    <3>4. QED
      BY <2>1, <3>2, <3>3
  <2>3. CASE i # d - 1
    <3>1. i + 1 \in 1..d - 1 /\ i # d
      BY <1>1, <2>3
    <3>2. EndOf(g, p, i) = EndOf(fs, p, i)
      BY <1>1, <2>3, <3>1 DEF EndOf
    <3>3. QED
      BY <2>1, <3>2
  <2>4. QED
    BY <2>2, <2>3
<1>4. Divided(g, p)
  BY <1>1, <1>2, <1>3 DEF Divided
<1>5. QED
  BY <1>4 DEF g

\* What is left is the same whether or not the frame that goes was settled first.
LEMMA FrontOfCommitted ==
  ASSUME NEW fs \in Seq(Frame), Len(fs) > 0, fs[Len(fs)].parent < Len(fs)
  PROVE  Front(Push(fs, fs[Len(fs)].parent, fs[Len(fs)].stack)) = Front(Committed(fs))
<1> DEFINE d == Len(fs)
           t == fs[d].parent
           ms == fs[d].stack
           g == Push(fs, t, ms)
           c == Committed(fs)
<1>1. d \in 1..d /\ d \in Nat /\ t \in 0..d /\ ms \in Seq(Number)
  <2>1. d \in 1..Len(fs)
    OBVIOUS
  <2>2. t \in 0..MaxDepth /\ ms \in Seq(Number)
    BY <2>1, FrameFields
  <2>3. QED
    BY <2>1, <2>2
<1>2. c = [g EXCEPT ![d].live = FALSE, ![d].released = TRUE]
  BY DEF Committed
<1>3. c \in Seq(Frame) /\ Len(c) = d
  BY CommittedElements DEF HasCommitted
<1> HIDE DEF t, ms, c
<1>4. g \in Seq(Frame) /\ Len(g) = d
  BY <1>1, PushElements DEF HasPushed
<1> HIDE DEF g
<1>5. \A i \in 1..d : i # d => c[i] = g[i]
  BY <1>1, <1>2, <1>4
<1>6. /\ Front(c) \in Seq(Frame) /\ Len(Front(c)) = d - 1
      /\ \A i \in 1..d - 1 : Front(c)[i] = c[i]
  BY <1>1, <1>3, FrontElements
<1>7. /\ Front(g) \in Seq(Frame) /\ Len(Front(g)) = d - 1
      /\ \A i \in 1..d - 1 : Front(g)[i] = g[i]
  BY <1>1, <1>4, FrontElements
<1>8. Front(g) = Front(c)
  BY <1>1, <1>5, <1>6, <1>7, EqualByElements
<1>9. QED
  BY <1>8 DEF g, t, ms, c

LEMMA FrontOfUndone ==
  ASSUME NEW fs \in Seq(Frame), Len(fs) > 0
  PROVE  Front(fs) = Front(Undone(fs))
<1> DEFINE d == Len(fs)
           c == Undone(fs)
<1>1. c \in Seq(Frame) /\ Len(c) = d /\ \A i \in 1..d : i # d => c[i] = fs[i]
  BY UndoneElements DEF HasUndone
<1> HIDE DEF c
<1>2. /\ Front(c) \in Seq(Frame) /\ Len(Front(c)) = d - 1
      /\ \A i \in 1..d - 1 : Front(c)[i] = c[i]
  BY <1>1, FrontElements
<1>3. /\ Front(fs) \in Seq(Frame) /\ Len(Front(fs)) = d - 1
      /\ \A i \in 1..d - 1 : Front(fs)[i] = fs[i]
  BY FrontElements
<1>4. \A i \in 1..d - 1 : Front(fs)[i] = Front(c)[i]
  BY <1>1, <1>2, <1>3
<1>5. Front(fs) = Front(c)
  BY <1>2, <1>3, <1>4, EqualByElements
<1>6. QED
  BY <1>5 DEF c

LEMMA ChainsKeep ==
  ASSUME NEW fs, NEW p, Shape(fs, p), Chained(fs), Len(fs) > 0
  PROVE  /\ \A gs, t, ms : HasPushed(gs, fs, t, ms) => Chained(gs)
         /\ \A gs : HasUndone(gs, fs) => Chained(gs)
         /\ \A gs, m : HasNested(gs, fs, NewFrame(Len(fs), m)) => Chained(gs)
         /\ Len(fs) > 1 =>
              /\ \A gs : HasCommitted(gs, fs) => Chained(gs)
              /\ Chained(Front(fs))
<1>1. fs \in Seq(Frame) /\ Len(fs) \in Nat
  BY DEF Shape
<1>2. \A gs, t, ms : HasPushed(gs, fs, t, ms) => Chained(gs)
  BY DEF HasPushed, Chained
<1>3. \A gs : HasUndone(gs, fs) => Chained(gs)
  BY DEF HasUndone, Chained
<1>4. ASSUME NEW gs, NEW m, HasNested(gs, fs, NewFrame(Len(fs), m)) PROVE Chained(gs)
  <2>1. gs[Len(fs) + 1].parent = Len(fs) /\ Len(gs) = Len(fs) + 1
    BY <1>4 DEF HasNested, NewFrame
  <2>2. \A i \in 1..Len(gs) : i \in 1..Len(fs) \/ i = Len(fs) + 1
    BY <1>1, <2>1
  <2>3. \A i \in 1..Len(fs) : gs[i].parent = i - 1
    BY <1>4 DEF HasNested, Chained
  <2>4. QED
    BY <1>1, <2>1, <2>2, <2>3 DEF Chained
<1>5. \A gs : HasCommitted(gs, fs) => Chained(gs)
  BY DEF HasCommitted, Chained
<1>6. ASSUME Len(fs) > 1 PROVE Chained(Front(fs))
  <2>1. /\ Len(Front(fs)) = Len(fs) - 1
        /\ \A i \in 1..Len(fs) - 1 : Front(fs)[i] = fs[i]
    BY <1>6, LeaveKeepsShape
  <2>2. \A i \in 1..Len(fs) - 1 : i \in 1..Len(fs)
    BY <1>1
  <2>3. QED
    BY <2>1, <2>2 DEF Chained
<1>7. QED
  BY <1>2, <1>3, <1>4, <1>5, <1>6

-----------------------------------------------------------------------------
(* The invariant.                                                          *)

LEMMA NothingOpen ==
  /\ Shape(<<>>, <<>>) /\ Chained(<<>>) /\ StacksKept(<<>>, <<>>) /\ Divided(<<>>, <<>>)
<1>1. <<>> \in Seq(Frame) /\ <<>> \in Seq(Number) /\ Len(<<>>) = 0
  OBVIOUS
<1>2. Shape(<<>>, <<>>)
  BY <1>1, TransactionAssumption DEF Shape
<1>3. Chained(<<>>) /\ StacksKept(<<>>, <<>>) /\ Divided(<<>>, <<>>)
  BY <1>1 DEF Chained, StacksKept, Divided
<1>4. QED
  BY <1>2, <1>3

LEMMA InitInv == TxInit => TxIInv
<1> SUFFICES ASSUME TxInit PROVE TxIInv
  OBVIOUS
<1>1. Control
  <2>1. <<>> \in Seq(Number) /\ Len(<<>>) = 0
    OBVIOUS
  <2>2. issued \in 0..MaxWrites /\ Len(uncommitted) <= issued /\ target \in 0..Depth
    BY <2>1, TransactionAssumption DEF TxInit, Depth
  <2>3. durable \in Seq(Number) /\ notified \in Seq(Number)
    BY <2>1 DEF TxInit
  <2>4. QED
    BY <2>2, <2>3 DEF TxInit, Control
<1>2. Disciplined
  <2>1. ToSet(<<>>) \subseteq ToSet(<<>>)
    OBVIOUS
  <2>2. QED
    BY <2>1, NothingOpen DEF TxInit, Disciplined, Depth
<1>3. Shape(frames, uncommitted) /\ Settling
  BY NothingOpen DEF TxInit, Settling
<1>4. QED
  BY <1>1, <1>2, <1>3 DEF TxIInv

\* The facts about the innermost call that the cases share.
LEMMA InnerFacts ==
  ASSUME TxIInv, Depth > 0
  PROVE  /\ Depth \in 1..Depth /\ Depth \in Nat /\ Depth = Len(frames)
         /\ frames \in Seq(Frame) /\ uncommitted \in Seq(Number) /\ Len(uncommitted) \in Nat
         /\ Inner = frames[Len(frames)] /\ Inner \in Frame
         /\ Inner.stack \in Seq(Number)
         /\ Inner.mark \in Nat /\ Inner.mark <= Len(uncommitted)
         /\ Inner.parent \in 0..Depth - 1
         /\ (Inner.live <=> ~Inner.released)
<1>1. /\ Depth \in 1..Depth /\ Depth \in Nat /\ Depth = Len(frames)
      /\ frames \in Seq(Frame) /\ uncommitted \in Seq(Number) /\ Len(uncommitted) \in Nat
      /\ Inner = frames[Len(frames)]
  BY DEF TxIInv, Shape, Depth, Inner
<1>2. /\ Inner \in Frame /\ Inner.stack \in Seq(Number) /\ Inner.mark \in Nat
      /\ Inner.parent \in 0..MaxDepth
  BY <1>1, FrameFields
<1>3. /\ Inner.mark <= Len(uncommitted) /\ Inner.parent < Depth
      /\ (Inner.live <=> ~Inner.released)
  BY <1>1 DEF TxIInv, Shape
<1>4. QED
  BY <1>1, <1>2, <1>3

\* A rejected call ends the callback where errors abort and are not caught.
LEMMA RejectedFacts ==
  ASSUME TxIInv, Rejected
  PROVE  /\ aborted' \in BOOLEAN /\ raised' \in BOOLEAN
         /\ aborted' => setting.aborts
         /\ ~CatchesAbort => (aborted' => raised')
<1>1. setting \in Setting
  BY TransactionAssumption DEF TxIInv, Control
<1>2. setting.aborts \in BOOLEAN /\ setting.swallows \in BOOLEAN
  BY <1>1 DEF Setting
<1>3. aborted \in BOOLEAN /\ (aborted => setting.aborts)
  BY DEF TxIInv, Control
<1>4. raised' \in BOOLEAN /\ (~setting.swallows => raised' = TRUE)
  BY DEF Rejected
<1>5. aborted' \in BOOLEAN /\ (aborted' => setting.aborts)
  <2>1. aborted' = (aborted \/ setting.aborts)
    BY DEF Rejected
  <2>2. QED
    BY <1>2, <1>3, <2>1
<1>6. QED
  BY <1>4, <1>5 DEF CatchesAbort

LEMMA BeginStep == TxIInv /\ BeginTop => TxIInv'
<1> SUFFICES ASSUME TxIInv, BeginTop PROVE TxIInv'
  OBVIOUS
<1> DEFINE f == NewFrame(0, 0)
           gs == <<f>>
<1>1. /\ uncommitted = <<>> /\ ~aborted /\ ~closed /\ ~raised /\ uncommitted' = uncommitted
      /\ frames' = gs /\ frames = <<>>
  <2>1. frames \in Seq(Frame) /\ Len(frames) = 0
    BY DEF TxIInv, Shape, BeginTop, Depth
  <2>2. QED
    BY <2>1 DEF TxIInv, Control, BeginTop
<1>2. /\ f \in Frame /\ f.stack = <<>> /\ f.parent = 0 /\ f.mark = 0 /\ f.live = TRUE
      /\ f.released = FALSE /\ f.rolledBack = FALSE
  BY TransactionAssumption, NewFrameType DEF NewFrame
<1> HIDE DEF f
<1>3. gs \in Seq(Frame) /\ Len(gs) = 1 /\ gs[1] = f
  BY <1>2
<1>4. <<>> \in Seq(Number) /\ Len(<<>>) = 0
  OBVIOUS
<1> HIDE DEF gs
<1>5. Shape(gs, <<>>)
  BY <1>2, <1>3, <1>4, TransactionAssumption DEF Shape
<1>6. Chained(gs) /\ StacksKept(gs, <<>>)
  BY <1>2, <1>3, <1>4 DEF Chained, StacksKept
<1>7. Divided(gs, <<>>)
  <2>1. SubSeq(<<>>, 0 + 1, 0) = <<>>
    BY <1>4, EmptyPart
  <2>2. EndOf(gs, <<>>, 1) = 0
    BY <1>3, <1>4 DEF EndOf
  <2>3. gs[1].stack = SubSeq(<<>>, gs[1].mark + 1, EndOf(gs, <<>>, 1))
    BY <1>2, <1>3, <2>1, <2>2
  <2>4. \A i \in 1..Len(gs) : i = 1 /\ i = Len(gs)
    BY <1>3
  <2>5. QED
    BY <1>2, <1>3, <2>3, <2>4 DEF Divided
<1>8. Control'
  BY <1>1, <1>3 DEF TxIInv, Control, BeginTop, Depth
<1>9. ~CatchesAbort => Disciplined'
  BY <1>1, <1>3, <1>6 DEF TxIInv, Disciplined, BeginTop, Depth
<1>10. ~CatchesAbort /\ ~setting.lingers => Settling'
  BY <1>1, <1>7 DEF TxIInv, Settling, BeginTop
<1>11. QED
  BY <1>1, <1>5, <1>8, <1>9, <1>10 DEF TxIInv, BeginTop, CatchesAbort

LEMMA WriteStep == TxIInv /\ TrackedWrite => TxIInv'
<1> SUFFICES ASSUME TxIInv, TrackedWrite PROVE TxIInv'
  OBVIOUS
<1> DEFINE x == issued + 1
           gs == Push(frames, target, <<x>>)
           q == Append(uncommitted, x)
<1>1. Depth > 0 /\ ~raised /\ ~closed /\ (~setting.lingers => ~Inner.released /\ ~Inner.rolledBack)
  BY DEF TrackedWrite, May, Running, InnerSettled
<1>2. frames' = gs /\ uncommitted' = q /\ issued' = x
  BY DEF TrackedWrite
<1>3. x \in Number /\ issued \in Nat /\ x \in 0..MaxWrites
  BY TransactionAssumption DEF TxIInv, Control, TrackedWrite, Number
<1> HIDE DEF x
<1>4. /\ Depth = Len(frames) /\ Depth \in Nat /\ frames \in Seq(Frame) /\ uncommitted \in Seq(Number)
      /\ Len(uncommitted) \in Nat /\ Inner = frames[Len(frames)]
  BY <1>1, InnerFacts
<1>5. HasPushed(gs, frames, target, <<x>>)
  <2>1. target \in 0..Len(frames) /\ <<x>> \in Seq(Number)
    BY <1>3, <1>4 DEF TxIInv, Control
  <2>2. QED
    BY <1>4, <2>1, PushElements
<1> HIDE DEF gs
<1>6. Len(gs) = Len(frames) /\ Len(q) = Len(uncommitted) + 1
  BY <1>4, <1>5 DEF HasPushed
<1> HIDE DEF q
<1>7. Control'
  <2>1. Len(q) <= x
    BY <1>3, <1>4, <1>6 DEF TxIInv, Control, x
  <2>2. QED
    BY <1>1, <1>2, <1>3, <1>4, <1>6, <2>1 DEF TxIInv, Control, TrackedWrite, Depth
<1>8. Shape(gs, q)
  BY <1>3, <1>5, WriteKeepsShape DEF TxIInv, q
<1>9. ASSUME ~CatchesAbort PROVE Disciplined'
  <2>1. target = Depth /\ StacksKept(frames, uncommitted) /\ Chained(frames)
    BY <1>1, <1>9 DEF TxIInv, Disciplined
  <2>2. StacksKept(gs, q)
    BY <1>3, <1>4, <1>5, <2>1, WriteKeepsKept DEF TxIInv, q
  <2>3. Chained(gs)
    BY <1>1, <1>4, <1>5, <2>1, ChainsKeep DEF TxIInv
  <2>4. QED
    BY <1>1, <1>2, <1>4, <1>6, <1>9, <2>1, <2>2, <2>3 DEF TxIInv, Disciplined, TrackedWrite, Depth
<1>10. ASSUME ~CatchesAbort, ~setting.lingers PROVE Settling'
  <2>1. target = Depth /\ Divided(frames, uncommitted) /\ notified = durable
    BY <1>1, <1>10 DEF TxIInv, Disciplined, Settling
  <2>2. Divided(gs, q)
    BY <1>1, <1>3, <1>4, <1>5, <1>10, <2>1, WriteKeepsDivided DEF TxIInv, q
  <2>3. QED
    BY <1>2, <2>1, <2>2 DEF Settling, TrackedWrite
<1>11. QED
  BY <1>2, <1>7, <1>8, <1>9, <1>10 DEF TxIInv, TrackedWrite, CatchesAbort

\* WriteRejected and NestRejected leave everything but the flags and the target.
LEMMA RejectedSteps == TxIInv /\ (WriteRejected \/ NestRejected) => TxIInv'
<1> SUFFICES ASSUME TxIInv, WriteRejected \/ NestRejected PROVE TxIInv'
  OBVIOUS
<1>1. /\ Depth > 0 /\ ~raised /\ ~closed /\ Rejected
      /\ UNCHANGED <<setting, issued, uncommitted, durable, closed, frames, notified>>
      /\ (target' = target) \/ (aborted /\ target' = 0)
  <2>1. CASE WriteRejected
    BY <2>1 DEF WriteRejected, May, Running
  <2>2. CASE NestRejected
    BY <2>2 DEF NestRejected, May, Running
  <2>3. QED
    BY <2>1, <2>2
<1>2. /\ aborted' \in BOOLEAN /\ raised' \in BOOLEAN
      /\ aborted' => setting.aborts
      /\ ~CatchesAbort => (aborted' => raised')
  BY <1>1, RejectedFacts
<1>3. target' \in 0..Depth
  BY <1>1, InnerFacts DEF TxIInv, Control
<1>4. Control'
  BY <1>1, <1>2, <1>3 DEF TxIInv, Control, Depth
<1>5. ASSUME ~CatchesAbort PROVE Disciplined'
  <2>1. ~aborted /\ target = Depth
    BY <1>1, <1>5 DEF TxIInv, Disciplined
  <2>2. QED
    BY <1>1, <1>2, <1>5, <2>1 DEF TxIInv, Disciplined, Depth
<1>6. ~CatchesAbort /\ ~setting.lingers => Settling'
  BY <1>1 DEF TxIInv, Settling
<1>7. QED
  BY <1>1, <1>4, <1>5, <1>6 DEF TxIInv, CatchesAbort

LEMMA NestStep == TxIInv /\ Nest => TxIInv'
<1> SUFFICES ASSUME TxIInv, Nest PROVE TxIInv'
  OBVIOUS
<1> DEFINE f == NewFrame(target, Len(uncommitted))
           gs == Append(frames, f)
<1>1. Depth > 0 /\ ~raised /\ ~closed /\ (~setting.lingers => ~Inner.released /\ ~Inner.rolledBack)
  BY DEF Nest, May, Running, InnerSettled
<1>2. frames' = gs /\ uncommitted' = uncommitted
  BY DEF Nest
<1>3. /\ Depth = Len(frames) /\ Depth \in Nat /\ frames \in Seq(Frame) /\ uncommitted \in Seq(Number)
      /\ Len(uncommitted) \in Nat /\ Inner = frames[Len(frames)] /\ Depth < MaxDepth
  BY <1>1, InnerFacts DEF Nest
<1>4. target \in 0..Len(frames)
  BY <1>3 DEF TxIInv, Control
<1>5. HasNested(gs, frames, f)
  <2>1. target \in 0..MaxDepth /\ Len(uncommitted) \in 0..MaxWrites
    BY <1>3, <1>4, TransactionAssumption DEF TxIInv, Control
  <2>2. f \in Frame
    BY <2>1, NewFrameType
  <2> HIDE DEF f
  <2>3. QED
    BY <1>3, <2>2 DEF HasNested
<1> HIDE DEF gs
<1>6. Len(gs) = Len(frames) + 1
  BY <1>5 DEF HasNested
<1>7. Shape(gs, uncommitted)
  BY <1>1, <1>3, <1>4, <1>5, NestKeepsShape DEF TxIInv
<1>8. Control'
  BY <1>1, <1>2, <1>3, <1>6 DEF TxIInv, Control, Nest, Depth
<1>9. ASSUME ~CatchesAbort PROVE Disciplined'
  <2>1. target = Len(frames) /\ StacksKept(frames, uncommitted) /\ Chained(frames)
    BY <1>1, <1>3, <1>9 DEF TxIInv, Disciplined
  <2>2. StacksKept(gs, uncommitted)
    BY <1>5, <2>1, NestKeepsKept DEF TxIInv
  <2>3. Chained(gs)
    BY <1>1, <1>3, <1>5, <2>1, ChainsKeep DEF TxIInv
  <2>4. QED
    BY <1>1, <1>2, <1>3, <1>6, <1>9, <2>2, <2>3 DEF TxIInv, Disciplined, Nest, Depth
<1>10. ASSUME ~CatchesAbort, ~setting.lingers PROVE Settling'
  <2>1. Divided(frames, uncommitted) /\ notified = durable
    BY <1>1, <1>10 DEF TxIInv, Settling
  <2>2. Divided(gs, uncommitted)
    BY <1>1, <1>3, <1>5, <1>10, <2>1, NestKeepsDivided DEF TxIInv
  <2>3. QED
    BY <1>2, <2>1, <2>2 DEF Settling, Nest
<1>11. QED
  BY <1>2, <1>7, <1>8, <1>9, <1>10 DEF TxIInv, Nest, CatchesAbort

\* A nested call that runs, or is left by an exception, is not the outermost.
LEMMA NestedFacts ==
  ASSUME TxIInv, Nested
  PROVE  Depth > 0 /\ Len(frames) > 1 /\ ~closed
<1>1. Depth = Len(frames) /\ Depth \in Nat /\ Depth > 1
  BY DEF TxIInv, Shape, Nested, Depth
<1>2. Depth # 1 /\ Depth > 0
  BY <1>1
<1>3. ~closed
  BY <1>2 DEF TxIInv, Control
<1>4. QED
  BY <1>1, <1>2, <1>3

LEMMA CommitNestedStep == TxIInv /\ CommitNested => TxIInv'
<1> SUFFICES ASSUME TxIInv, CommitNested PROVE TxIInv'
  OBVIOUS
<1>1. /\ ~raised /\ Nested /\ (~setting.lingers => ~Inner.released /\ ~Inner.rolledBack)
      /\ UNCHANGED <<setting, issued, uncommitted, durable, closed, target, notified>>
  BY DEF CommitNested, May, Running, InnerSettled
<1>2. Depth > 0 /\ Len(frames) > 1 /\ ~closed
  BY <1>1, NestedFacts
<1>3. CASE Releasable /\ UNCHANGED <<aborted, raised>> /\ frames' = Committed(frames)
  <2> DEFINE gs == Committed(frames)
  <2>1. /\ frames \in Seq(Frame) /\ Depth = Len(frames) /\ Inner = frames[Len(frames)]
        /\ frames[Len(frames)].parent < Len(frames)
    BY <1>2, InnerFacts
  <2>2. HasCommitted(gs, frames)
    BY <1>2, <2>1, CommittedElements
  <2> HIDE DEF gs
  <2>3. Len(gs) = Len(frames)
    BY <2>2 DEF HasCommitted
  <2>4. Shape(gs, uncommitted)
    BY <1>2, <2>2, CommitKeepsShape DEF TxIInv
  <2>5. Control'
    BY <1>1, <1>3, <2>3 DEF TxIInv, Control, Depth, gs
  <2>6. ASSUME ~CatchesAbort PROVE Disciplined'
    <3>1. target = Depth /\ StacksKept(frames, uncommitted) /\ Chained(frames)
      BY <1>1, <1>2, <2>6 DEF TxIInv, Disciplined
    <3>2. StacksKept(gs, uncommitted)
      BY <1>2, <2>2, <3>1, CommitKeepsKept DEF TxIInv
    <3>3. Chained(gs)
      BY <1>2, <2>2, <3>1, ChainsKeep DEF TxIInv
    <3>4. QED
      BY <1>1, <1>3, <2>1, <2>3, <2>6, <3>1, <3>2, <3>3 DEF TxIInv, Disciplined, Depth, gs
  <2>7. ASSUME ~CatchesAbort, ~setting.lingers PROVE Settling'
    <3>1. Divided(frames, uncommitted) /\ notified = durable /\ Chained(frames)
      BY <1>2, <2>7 DEF TxIInv, Settling, Disciplined
    <3>2. Divided(gs, uncommitted)
      BY <1>1, <1>2, <2>1, <2>2, <2>7, <3>1, CommitKeepsDivided DEF TxIInv
    <3>3. QED
      BY <1>1, <1>3, <3>1, <3>2 DEF Settling, gs
  <2>8. QED
    BY <1>1, <1>3, <2>4, <2>5, <2>6, <2>7 DEF TxIInv, CatchesAbort, gs
<1>4. CASE Rejected /\ UNCHANGED frames
  <2>1. /\ aborted' \in BOOLEAN /\ raised' \in BOOLEAN
        /\ aborted' => setting.aborts
        /\ ~CatchesAbort => (aborted' => raised')
    BY <1>4, RejectedFacts
  <2>2. Control'
    BY <1>1, <1>2, <1>4, <2>1 DEF TxIInv, Control, Depth
  <2>3. ~CatchesAbort => Disciplined'
    BY <1>1, <1>4, <2>1 DEF TxIInv, Disciplined, Depth
  <2>4. ~CatchesAbort /\ ~setting.lingers => Settling'
    BY <1>1, <1>4 DEF TxIInv, Settling
  <2>5. QED
    BY <1>1, <1>4, <2>2, <2>3, <2>4 DEF TxIInv, CatchesAbort
<1>5. QED
  BY <1>3, <1>4 DEF CommitNested, Committed, HandedOver, Inner, Depth

LEMMA RollbackNestedStep == TxIInv /\ RollbackNested => TxIInv'
<1> SUFFICES ASSUME TxIInv, RollbackNested PROVE TxIInv'
  OBVIOUS
<1>1. /\ ~raised /\ Nested
      /\ UNCHANGED <<setting, issued, durable, closed, target, notified>>
  BY DEF RollbackNested, May, Running
<1>2. Depth > 0 /\ Len(frames) > 1 /\ ~closed
  BY <1>1, NestedFacts
<1>3. CASE /\ Inner.live /\ uncommitted' = SubSeq(uncommitted, 1, Inner.mark)
           /\ aborted' = FALSE /\ frames' = Undone(frames) /\ UNCHANGED raised
  <2> DEFINE gs == Undone(frames)
             q == SubSeq(uncommitted, 1, frames[Len(frames)].mark)
  <2>1. /\ frames \in Seq(Frame) /\ Depth = Len(frames) /\ Inner = frames[Len(frames)]
        /\ uncommitted \in Seq(Number) /\ Len(uncommitted) \in Nat
        /\ frames[Len(frames)].mark \in Nat /\ frames[Len(frames)].mark <= Len(uncommitted)
        /\ ~frames[Len(frames)].released
    BY <1>2, <1>3, InnerFacts
  <2>2. HasUndone(gs, frames)
    BY <1>2, <2>1, UndoneElements
  <2> HIDE DEF gs
  <2>3. Len(gs) = Len(frames)
    BY <2>2 DEF HasUndone
  <2>4. Shape(gs, q)
    BY <1>2, <2>2, RollbackKeepsShape DEF TxIInv
  <2>5. Len(q) <= issued
    <3>1. Len(q) = frames[Len(frames)].mark
      BY <2>1, PrefixElements
    <3>2. Len(uncommitted) <= issued /\ issued \in Int
      BY DEF TxIInv, Control
    <3>3. QED
      BY <2>1, <3>1, <3>2
  <2>6. uncommitted' = q /\ frames' = gs
    BY <1>3, <2>1 DEF gs
  <2>7. ~CatchesAbort => StacksKept(gs, q) /\ Chained(gs)
    <3>1. ~CatchesAbort => StacksKept(frames, uncommitted) /\ Chained(frames)
      BY <1>2 DEF TxIInv, Disciplined
    <3>2. QED
      BY <1>2, <2>1, <2>2, <3>1, RollbackKeepsKept, ChainsKeep DEF TxIInv
  <2>8. ~CatchesAbort /\ ~setting.lingers => Divided(gs, q)
    <3>1. ~CatchesAbort /\ ~setting.lingers => Divided(frames, uncommitted)
      BY <1>2 DEF TxIInv, Settling
    <3>2. QED
      BY <1>2, <2>1, <2>2, <3>1, RollbackKeepsDivided DEF TxIInv
  <2> HIDE DEF q
  <2>9. Control'
    <3>1. Depth' = Depth
      BY <2>3, <2>6 DEF Depth
    <3>2. Len(uncommitted') <= issued' /\ ~closed' /\ Depth' # 0
      BY <1>1, <1>2, <2>5, <2>6, <3>1
    <3>3. /\ setting' \in Settings /\ issued' \in 0..MaxWrites
          /\ durable' \in Seq(Number) /\ notified' \in Seq(Number)
          /\ closed' \in BOOLEAN /\ raised' \in BOOLEAN /\ aborted' = FALSE
          /\ target' \in 0..Depth'
      BY <1>1, <1>3, <3>1 DEF TxIInv, Control
    <3>4. QED
      BY <3>2, <3>3 DEF Control
  <2>10. ~CatchesAbort => Disciplined'
    BY <1>1, <1>3, <2>3, <2>6, <2>7 DEF TxIInv, Disciplined, Depth
  <2>11. ~CatchesAbort /\ ~setting.lingers => Settling'
    BY <1>1, <2>6, <2>8 DEF TxIInv, Settling
  <2>12. QED
    BY <1>1, <2>4, <2>6, <2>9, <2>10, <2>11 DEF TxIInv, CatchesAbort
<1>4. CASE Rejected /\ UNCHANGED <<uncommitted, frames>>
  <2>1. /\ aborted' \in BOOLEAN /\ raised' \in BOOLEAN
        /\ aborted' => setting.aborts
        /\ ~CatchesAbort => (aborted' => raised')
    BY <1>4, RejectedFacts
  <2>2. Control'
    BY <1>1, <1>2, <1>4, <2>1 DEF TxIInv, Control, Depth
  <2>3. ~CatchesAbort => Disciplined'
    BY <1>1, <1>4, <2>1 DEF TxIInv, Disciplined, Depth
  <2>4. ~CatchesAbort /\ ~setting.lingers => Settling'
    BY <1>1, <1>4 DEF TxIInv, Settling
  <2>5. QED
    BY <1>1, <1>4, <2>2, <2>3, <2>4 DEF TxIInv, CatchesAbort
<1>5. QED
  BY <1>3, <1>4 DEF RollbackNested, Undone, Inner, Depth

\* Once the innermost frame is settled, or the writes since its savepoint are
\* undone, the call can end.
LEMMA LeavingInv ==
  ASSUME TxIInv, Len(frames) > 1, NEW gs, NEW q,
         Shape(gs, q), Len(gs) = Len(frames), Len(q) <= Len(uncommitted),
         ~CatchesAbort => Chained(gs) /\ StacksKept(gs, q),
         ~CatchesAbort /\ ~setting.lingers =>
           Divided(gs, q) /\ (gs[Len(gs)].released \/ gs[Len(gs)].rolledBack),
         frames' = Front(gs), uncommitted' = q, target' = Inner.parent,
         UNCHANGED <<setting, issued, durable, closed, notified>>,
         aborted' \in BOOLEAN, raised' \in BOOLEAN, aborted' => setting.aborts,
         ~CatchesAbort => (aborted' => raised')
  PROVE  TxIInv'
<1>1. /\ Depth = Len(frames) /\ Depth \in Nat /\ Inner = frames[Len(frames)]
      /\ Inner.parent \in 0..Len(frames) - 1 /\ Len(frames) \in 1..Len(frames)
      /\ Len(uncommitted) \in Nat
  <2>1. Depth > 0
    BY DEF Depth
  <2>2. QED
    BY <2>1, InnerFacts
<1>2. Len(gs) > 1
  OBVIOUS
<1>3. Shape(Front(gs), q) /\ Len(Front(gs)) = Len(frames) - 1
  BY <1>2, LeaveKeepsShape
<1>4. ~closed
  BY <1>1 DEF TxIInv, Control
<1>5. Control'
  <2>1. Depth' = Len(frames) - 1 /\ Depth' > 0
    BY <1>1, <1>3 DEF Depth
  <2>2. Len(q) <= issued
    BY <1>1 DEF TxIInv, Control, Shape
  <2>3. target' \in 0..Depth'
    BY <1>1, <2>1
  <2>4. Depth' # 0 /\ ~closed' /\ Len(uncommitted') <= issued'
    BY <1>4, <2>1, <2>2
  <2>5. /\ setting' \in Settings /\ issued' \in 0..MaxWrites
        /\ durable' \in Seq(Number) /\ notified' \in Seq(Number)
        /\ closed' \in BOOLEAN /\ (aborted' => setting'.aborts)
    BY DEF TxIInv, Control
  <2>6. QED
    BY <2>3, <2>4, <2>5 DEF Control
<1>6. ASSUME ~CatchesAbort PROVE Disciplined'
  <2>1. Chained(Front(gs))
    BY <1>2, <1>6, ChainsKeep
  <2>2. StacksKept(Front(gs), q)
    BY <1>2, <1>6, LeaveKeepsKept
  <2>3. Inner.parent = Len(frames) - 1
    BY <1>1, <1>6 DEF TxIInv, Disciplined, Chained
  <2>4. ToSet(notified) \subseteq ToSet(durable)
    BY <1>6 DEF TxIInv, Disciplined
  <2>5. QED
    BY <1>3, <1>6, <2>1, <2>2, <2>3, <2>4 DEF Disciplined, Depth
<1>7. ASSUME ~CatchesAbort, ~setting.lingers PROVE Settling'
  <2>1. Divided(Front(gs), q)
    BY <1>2, <1>7, LeaveKeepsDivided
  <2>2. notified = durable
    BY <1>7 DEF TxIInv, Settling
  <2>3. QED
    BY <2>1, <2>2 DEF Settling
<1>8. QED
  BY <1>3, <1>5, <1>6, <1>7 DEF TxIInv, CatchesAbort

LEMMA ReturnSettledStep == TxIInv /\ ReturnSettled => TxIInv'
<1> SUFFICES ASSUME TxIInv, ReturnSettled PROVE TxIInv'
  OBVIOUS
<1>1. /\ Nested /\ ~raised /\ (Inner.released \/ Inner.rolledBack)
      /\ frames' = Front(frames) /\ target' = Inner.parent
      /\ UNCHANGED <<setting, issued, uncommitted, aborted, durable, closed, raised, notified>>
  BY DEF ReturnSettled, Running, InnerSettled, Leave
<1>2. Depth > 0 /\ Len(frames) > 1 /\ ~closed
  BY <1>1, NestedFacts
<1>3. Inner = frames[Len(frames)] /\ Shape(frames, uncommitted) /\ Len(uncommitted) <= Len(uncommitted)
  BY <1>2, InnerFacts DEF TxIInv
<1>4. ~CatchesAbort => Chained(frames) /\ StacksKept(frames, uncommitted) /\ (aborted' => raised')
  BY <1>1, <1>2 DEF TxIInv, Disciplined
<1>5. ~CatchesAbort /\ ~setting.lingers => Divided(frames, uncommitted)
  BY <1>2 DEF TxIInv, Settling
<1>6. aborted' \in BOOLEAN /\ raised' \in BOOLEAN /\ (aborted' => setting.aborts)
  BY <1>1 DEF TxIInv, Control
<1>7. QED
  BY <1>1, <1>2, <1>3, <1>4, <1>5, <1>6, LeavingInv

LEMMA ReturnNestedStep == TxIInv /\ ReturnNested => TxIInv'
<1> SUFFICES ASSUME TxIInv, ReturnNested PROVE TxIInv'
  OBVIOUS
<1> DEFINE gs == Committed(frames)
<1>1. /\ Nested /\ ~raised /\ ~Inner.released /\ ~Inner.rolledBack
      /\ frames' = Front(Push(frames, Inner.parent, Inner.stack)) /\ target' = Inner.parent
      /\ UNCHANGED <<setting, issued, uncommitted, aborted, durable, closed, raised, notified>>
  BY DEF ReturnNested, Running, InnerSettled, Leave, HandedOver
<1>2. Depth > 0 /\ Len(frames) > 1 /\ ~closed
  BY <1>1, NestedFacts
<1>3. /\ Inner = frames[Len(frames)] /\ Shape(frames, uncommitted) /\ Len(uncommitted) <= Len(uncommitted)
      /\ frames \in Seq(Frame) /\ frames[Len(frames)].parent < Len(frames)
  BY <1>2, InnerFacts DEF TxIInv
<1>4. HasCommitted(gs, frames)
  BY <1>2, <1>3, CommittedElements
<1>5. frames' = Front(gs)
  BY <1>1, <1>2, <1>3, FrontOfCommitted
<1> HIDE DEF gs
<1>6. Shape(gs, uncommitted) /\ Len(gs) = Len(frames) /\ gs[Len(gs)].released
  BY <1>2, <1>3, <1>4, CommitKeepsShape DEF HasCommitted
<1>7. ASSUME ~CatchesAbort PROVE Chained(gs) /\ StacksKept(gs, uncommitted) /\ (aborted' => raised')
  <2>1. Chained(frames) /\ StacksKept(frames, uncommitted) /\ (aborted' => raised')
    BY <1>1, <1>2, <1>7 DEF TxIInv, Disciplined
  <2>2. QED
    BY <1>2, <1>3, <1>4, <2>1, CommitKeepsKept, ChainsKeep
<1>8. ASSUME ~CatchesAbort, ~setting.lingers PROVE Divided(gs, uncommitted)
  <2>1. Divided(frames, uncommitted) /\ Chained(frames)
    BY <1>2, <1>8 DEF TxIInv, Settling, Disciplined
  <2>2. QED
    BY <1>1, <1>2, <1>3, <1>4, <2>1, CommitKeepsDivided
<1>9. aborted' \in BOOLEAN /\ raised' \in BOOLEAN /\ (aborted' => setting.aborts)
  BY <1>1 DEF TxIInv, Control
<1>10. QED
  BY <1>1, <1>2, <1>3, <1>5, <1>6, <1>7, <1>8, <1>9, LeavingInv

LEMMA ThrowNestedStep == TxIInv /\ ThrowNested => TxIInv'
<1> SUFFICES ASSUME TxIInv, ThrowNested PROVE TxIInv'
  OBVIOUS
<1>1. /\ Nested /\ frames' = Front(frames) /\ target' = Inner.parent
      /\ UNCHANGED <<setting, issued, durable, closed, notified>>
      /\ raised' = TRUE \/ (setting.swallows /\ raised' = FALSE)
  BY DEF ThrowNested, Leave
<1>2. Depth > 0 /\ Len(frames) > 1 /\ ~closed
  BY <1>1, NestedFacts
<1>3. /\ Inner = frames[Len(frames)] /\ Shape(frames, uncommitted)
      /\ frames \in Seq(Frame) /\ uncommitted \in Seq(Number) /\ Len(uncommitted) \in Nat
      /\ Inner.mark \in Nat /\ Inner.mark <= Len(uncommitted)
      /\ (Inner.live <=> ~Inner.released)
  BY <1>2, InnerFacts DEF TxIInv
<1>4. /\ setting.aborts \in BOOLEAN /\ setting.swallows \in BOOLEAN
      /\ aborted \in BOOLEAN /\ (aborted => setting.aborts)
  <2>1. setting \in Setting
    BY TransactionAssumption DEF TxIInv, Control
  <2>2. QED
    BY <2>1 DEF Setting, TxIInv, Control
<1>5. /\ aborted' = aborted \/ aborted' = FALSE \/ aborted' = (aborted \/ setting.aborts)
      /\ aborted' \in BOOLEAN /\ (aborted' => setting.aborts)
  <2>1. aborted' = aborted \/ aborted' = FALSE \/ aborted' = (aborted \/ setting.aborts)
    BY DEF ThrowNested
  <2>2. CASE aborted' = (aborted \/ setting.aborts)
    BY <1>4, <2>2
  <2>3. CASE aborted' = aborted
    BY <1>4, <2>3
  <2>4. CASE aborted' = FALSE
    BY <1>4, <2>4
  <2>5. QED
    BY <2>1, <2>2, <2>3, <2>4
<1>6. raised' \in BOOLEAN /\ (~CatchesAbort => (aborted' => raised'))
  BY <1>1, <1>5 DEF CatchesAbort
<1>7. ~CatchesAbort => Chained(frames) /\ StacksKept(frames, uncommitted)
  BY <1>2 DEF TxIInv, Disciplined
<1>8. ~CatchesAbort /\ ~setting.lingers => Divided(frames, uncommitted)
  BY <1>2 DEF TxIInv, Settling
\* Rolled back before, or released before: only the frame goes.
<1>9. CASE Inner.rolledBack \/ ~Inner.live
  <2>1. uncommitted' = uncommitted /\ Len(uncommitted) <= Len(uncommitted)
    BY <1>3, <1>9 DEF ThrowNested
  <2>2. Inner.released \/ Inner.rolledBack
    BY <1>3, <1>9
  <2>3. QED
    BY <1>1, <1>2, <1>3, <1>5, <1>6, <1>7, <1>8, <2>1, <2>2, LeavingInv
<1>10. CASE ~Inner.rolledBack /\ Inner.live
  <2> DEFINE gs == Undone(frames)
             q == SubSeq(uncommitted, 1, frames[Len(frames)].mark)
  <2>1. uncommitted' = q /\ ~frames[Len(frames)].released
    BY <1>3, <1>10 DEF ThrowNested
  <2>2. HasUndone(gs, frames)
    BY <1>2, <1>3, UndoneElements
  <2>3. frames' = Front(gs)
    BY <1>1, <1>2, <1>3, FrontOfUndone
  <2>4. Len(q) <= Len(uncommitted)
    <3>1. Len(q) = frames[Len(frames)].mark
      BY <1>3, PrefixElements
    <3>2. QED
      BY <1>3, <3>1
  <2> HIDE DEF gs
  <2>5. Shape(gs, q) /\ Len(gs) = Len(frames) /\ gs[Len(gs)].rolledBack
    BY <1>2, <1>3, <2>2, RollbackKeepsShape DEF HasUndone
  <2>6. ~CatchesAbort => Chained(gs) /\ StacksKept(gs, q)
    BY <1>2, <1>3, <1>7, <2>1, <2>2, RollbackKeepsKept, ChainsKeep
  <2>7. ~CatchesAbort /\ ~setting.lingers => Divided(gs, q)
    BY <1>2, <1>3, <1>8, <2>1, <2>2, RollbackKeepsDivided
  <2> HIDE DEF q
  <2>8. QED
    BY <1>1, <1>2, <1>5, <1>6, <2>1, <2>3, <2>4, <2>5, <2>6, <2>7, LeavingInv
<1>11. QED
  BY <1>9, <1>10

\* What the outermost call's stack holds when it commits.
LEMMA TopFacts ==
  ASSUME TxIInv, Depth = 1, ~closed
  PROVE  /\ frames[1] = Inner /\ Len(frames) = 1 /\ frames[1].mark = 0
         /\ ~CatchesAbort => ToSet(Inner.stack) \subseteq ToSet(uncommitted)
         /\ ~CatchesAbort /\ ~setting.lingers => Inner.stack = uncommitted
<1>1. /\ frames[1] = Inner /\ Len(frames) = 1 /\ frames[1].mark = 0 /\ ~frames[1].released
      /\ uncommitted \in Seq(Number)
  BY DEF TxIInv, Shape, Depth, Inner
<1>2. ~CatchesAbort => ToSet(Inner.stack) \subseteq ToSet(uncommitted)
  BY <1>1 DEF TxIInv, Disciplined, StacksKept
<1>3. ASSUME ~CatchesAbort, ~setting.lingers PROVE Inner.stack = uncommitted
  <2>1. Divided(frames, uncommitted)
    BY <1>3 DEF TxIInv, Settling
  <2>2. Inner.stack = SubSeq(uncommitted, 0 + 1, EndOf(frames, uncommitted, 1))
    BY <1>1, <2>1 DEF Divided
  <2>3. EndOf(frames, uncommitted, 1) = Len(uncommitted)
    BY <1>1 DEF EndOf
  <2>4. SubSeq(uncommitted, 0 + 1, Len(uncommitted)) = SubSeq(uncommitted, 1, Len(uncommitted))
    OBVIOUS
  <2>5. QED
    BY <1>1, <2>2, <2>3, <2>4, WholePart
<1>4. QED
  BY <1>1, <1>2, <1>3

\* Flush keeps what is said of the committed writes and of the notified ones.
LEMMA FlushFacts ==
  ASSUME TxIInv, Depth = 1, ~closed, ~raised, Flush
  PROVE  /\ durable' \in Seq(Number) /\ notified' \in Seq(Number)
         /\ uncommitted' = <<>> /\ aborted' = FALSE
         /\ ~CatchesAbort => ToSet(notified') \subseteq ToSet(durable')
         /\ ~CatchesAbort /\ ~setting.lingers => notified' = durable'
<1>1. /\ durable \in Seq(Number) /\ notified \in Seq(Number) /\ uncommitted \in Seq(Number)
      /\ Inner.stack \in Seq(Number)
  BY InnerFacts DEF TxIInv, Control
<1>2. durable \o uncommitted \in Seq(Number) /\ notified \o Inner.stack \in Seq(Number)
  BY <1>1, ConcatProperties
<1>3. durable' \in {durable, durable \o uncommitted} /\ notified' = notified \o Inner.stack
  BY DEF Flush
<1>4. ASSUME ~CatchesAbort
      PROVE  /\ durable' = durable \o uncommitted
             /\ ToSet(notified') \subseteq ToSet(durable')
  <2>1. ~aborted /\ ToSet(notified) \subseteq ToSet(durable)
    BY <1>4 DEF TxIInv, Disciplined
  <2>2. durable' = durable \o uncommitted
    BY <2>1 DEF Flush
  <2>3. ToSet(Inner.stack) \subseteq ToSet(uncommitted)
    BY <1>4, TopFacts
  <2>4. /\ ToSet(durable \o uncommitted) = ToSet(durable) \cup ToSet(uncommitted)
        /\ ToSet(notified \o Inner.stack) = ToSet(notified) \cup ToSet(Inner.stack)
    BY <1>1, ElementsOfJoin
  <2>5. QED
    BY <1>3, <2>1, <2>2, <2>3, <2>4
<1>5. ASSUME ~CatchesAbort, ~setting.lingers PROVE notified' = durable'
  <2>1. notified = durable /\ Inner.stack = uncommitted
    BY <1>5, TopFacts DEF TxIInv, Settling
  <2>2. QED
    BY <1>3, <1>4, <1>5, <2>1
<1>6. QED
  BY <1>1, <1>2, <1>3, <1>4, <1>5 DEF Flush

LEMMA CommitTopStep == TxIInv /\ CommitTop => TxIInv'
<1> SUFFICES ASSUME TxIInv, CommitTop PROVE TxIInv'
  OBVIOUS
<1>1. /\ Depth = 1 /\ ~closed /\ ~raised /\ Flush /\ closed' = TRUE
      /\ UNCHANGED <<setting, issued, frames, target, raised>>
  BY DEF CommitTop, Running
<1>2. /\ durable' \in Seq(Number) /\ notified' \in Seq(Number)
      /\ uncommitted' = <<>> /\ aborted' = FALSE
      /\ ~CatchesAbort => ToSet(notified') \subseteq ToSet(durable')
      /\ ~CatchesAbort /\ ~setting.lingers => notified' = durable'
  BY <1>1, FlushFacts
<1>3. Depth' = Depth /\ Len(uncommitted') = 0 /\ uncommitted' \in Seq(Number)
  BY <1>1, <1>2 DEF Depth
<1>4. Control'
  <2>1. Depth' = 1 /\ Len(uncommitted') <= issued'
    BY <1>1, <1>3 DEF TxIInv, Control
  <2>2. /\ setting' \in Settings /\ issued' \in 0..MaxWrites
        /\ durable' \in Seq(Number) /\ notified' \in Seq(Number)
        /\ aborted' = FALSE /\ closed' = TRUE /\ raised' = raised /\ raised \in BOOLEAN
        /\ target' \in 0..Depth'
    BY <1>1, <1>2, <1>3 DEF TxIInv, Control
  <2>3. /\ aborted' \in BOOLEAN /\ closed' \in BOOLEAN /\ raised' \in BOOLEAN
        /\ aborted' => setting'.aborts
    BY <2>2
  <2>4. (Depth' = 1 /\ uncommitted' = <<>> /\ ~aborted') /\ Depth' # 0
    BY <1>1, <1>2, <2>1, <2>2
  <2>5. QED
    BY <2>1, <2>2, <2>3, <2>4 DEF Control
<1>5. Shape(frames', uncommitted')
  <2>1. /\ frames \in Seq(Frame) /\ Len(frames) = 1 /\ frames[1].mark = 0
    BY <1>1, TopFacts DEF TxIInv, Shape
  <2>2. \A i \in 1..Len(frames) : i = 1
    BY <2>1
  <2>3. \A i \in 1..Len(frames) : /\ frames[i].mark <= 0 /\ frames[i].parent < i
                                  /\ (frames[i].live <=> ~frames[i].released)
    BY <2>1, <2>2 DEF TxIInv, Shape
  <2>4. QED
    BY <1>1, <1>3, <2>3 DEF TxIInv, Shape
<1>6. ~CatchesAbort => Disciplined'
  BY <1>1, <1>2, <1>3 DEF TxIInv, Disciplined
<1>7. ~CatchesAbort /\ ~setting.lingers => Settling'
  BY <1>1, <1>2 DEF Settling
<1>8. QED
  BY <1>1, <1>4, <1>5, <1>6, <1>7 DEF TxIInv, CatchesAbort

\* A rollback of the outermost transaction empties its stack.
HasEmptied(gs, fs, t) ==
  /\ gs \in Seq(Frame) /\ Len(gs) = Len(fs)
  /\ gs[t].mark = fs[t].mark /\ gs[t].parent = fs[t].parent /\ gs[t].live = fs[t].live
  /\ gs[t].released = fs[t].released /\ gs[t].rolledBack = fs[t].rolledBack

LEMMA EmptiedElements ==
  ASSUME NEW fs \in Seq(Frame), NEW t \in 1..Len(fs)
  PROVE  HasEmptied([fs EXCEPT ![t].stack = <<>>], fs, t)
<1> DEFINE e == [fs[t] EXCEPT !.stack = <<>>]
<1>1. fs[t] \in Frame
  OBVIOUS
<1>2. /\ e \in Frame /\ e.mark = fs[t].mark /\ e.parent = fs[t].parent
      /\ e.live = fs[t].live /\ e.released = fs[t].released
      /\ e.rolledBack = fs[t].rolledBack
  <2>1. <<>> \in Seq(Number)
    OBVIOUS
  <2>2. QED
    BY <1>1, <2>1 DEF Frame
<1>3. [fs EXCEPT ![t].stack = <<>>] = [fs EXCEPT ![t] = e]
  OBVIOUS
<1> HIDE DEF e
<1>4. /\ [fs EXCEPT ![t] = e] \in Seq(Frame) /\ Len([fs EXCEPT ![t] = e]) = Len(fs)
      /\ \A j \in 1..Len(fs) : [fs EXCEPT ![t] = e][j] = IF j = t THEN e ELSE fs[j]
  BY <1>1, <1>2, ExceptSeq
<1>5. QED
  BY <1>1, <1>2, <1>3, <1>4 DEF HasEmptied

LEMMA RollbackTopStep == TxIInv /\ RollbackTop => TxIInv'
<1> SUFFICES ASSUME TxIInv, RollbackTop PROVE TxIInv'
  OBVIOUS
<1>1. /\ Depth = 1 /\ ~closed /\ ~raised /\ uncommitted' = <<>> /\ aborted' = FALSE
      /\ closed' = TRUE /\ UNCHANGED <<setting, issued, durable, target, raised, notified>>
      /\ frames' = [frames EXCEPT ![1].stack = <<>>]
  BY DEF RollbackTop, Running
<1>2. frames \in Seq(Frame) /\ Len(frames) = 1 /\ frames[1].mark = 0
  BY <1>1, TopFacts DEF TxIInv, Shape
<1>3. PICK e : e = frames'[1]
  OBVIOUS
<1>4. HasEmptied(frames', frames, 1)
  <2>1. 1 \in 1..Len(frames)
    BY <1>2
  <2>2. QED
    BY <1>1, <1>2, <2>1, EmptiedElements
<1>5. /\ frames' \in Seq(Frame) /\ Len(frames') = 1
      /\ e.mark = 0 /\ e.parent = frames[1].parent
      /\ e.live = frames[1].live /\ e.released = frames[1].released
      /\ e.rolledBack = frames[1].rolledBack
  BY <1>2, <1>3, <1>4 DEF HasEmptied
<1>6. frames'[1] = e /\ Depth' = 1 /\ Len(uncommitted') = 0 /\ uncommitted' \in Seq(Number)
  BY <1>1, <1>3, <1>5 DEF Depth
<1>7. Control'
  <2>1. Depth' = 1 /\ Len(uncommitted') <= issued'
    BY <1>1, <1>6 DEF TxIInv, Control
  <2>2. /\ setting' \in Settings /\ issued' \in 0..MaxWrites
        /\ durable' \in Seq(Number) /\ notified' \in Seq(Number)
        /\ aborted' = FALSE /\ closed' = TRUE /\ raised' = raised /\ raised \in BOOLEAN
        /\ target' \in 0..Depth'
    BY <1>1, <1>6 DEF TxIInv, Control
  <2>3. /\ aborted' \in BOOLEAN /\ closed' \in BOOLEAN /\ raised' \in BOOLEAN
        /\ aborted' => setting'.aborts
    BY <2>2
  <2>4. (Depth' = 1 /\ uncommitted' = <<>> /\ ~aborted') /\ Depth' # 0
    BY <1>1, <2>1, <2>2
  <2>5. QED
    BY <2>1, <2>2, <2>3, <2>4 DEF Control
<1>8. Shape(frames', uncommitted')
  <2>1. /\ e.parent < 1 /\ (e.live <=> ~e.released) /\ ~e.released /\ ~e.rolledBack
    BY <1>2, <1>5 DEF TxIInv, Shape
  <2>2. \A i \in 1..Len(frames') : i = 1
    BY <1>5
  <2>3. \A i \in 1..Len(frames') : /\ frames'[i].mark = 0 /\ frames'[i].parent < i
                                   /\ (frames'[i].live <=> ~frames'[i].released)
    BY <1>5, <1>6, <2>1, <2>2
  <2>4. 1 <= MaxDepth
    BY TransactionAssumption
  <2>5. QED
    BY <1>5, <1>6, <2>1, <2>3, <2>4 DEF Shape
<1>9. ~CatchesAbort => Disciplined'
  <2>1. ~CatchesAbort => e.parent = 0
    BY <1>2, <1>5 DEF TxIInv, Disciplined, Chained
  <2>2. ~CatchesAbort => Chained(frames')
    BY <1>5, <1>6, <2>1 DEF Chained
  <2>3. QED
    BY <1>1, <1>6, <2>2 DEF TxIInv, Disciplined
<1>10. ~CatchesAbort /\ ~setting.lingers => Settling'
  BY <1>1 DEF TxIInv, Settling
<1>11. QED
  BY <1>1, <1>7, <1>8, <1>9, <1>10 DEF TxIInv, CatchesAbort

\* The call has ended: what was said of the notified writes is what remains.
LEMMA EndInv ==
  ASSUME TxIInv, End, uncommitted' = <<>>, aborted' = FALSE, UNCHANGED <<setting, issued>>,
         durable' \in Seq(Number), notified' \in Seq(Number),
         ~CatchesAbort => ToSet(notified') \subseteq ToSet(durable'),
         ~CatchesAbort /\ ~setting.lingers => notified' = durable'
  PROVE  TxIInv'
<1>1. /\ frames' = <<>> /\ target' = 0 /\ closed' = FALSE /\ raised' = FALSE
      /\ Depth' = 0 /\ Len(uncommitted') = 0
  BY DEF End, Depth
<1>2. Control'
  <2>1. Len(uncommitted') <= issued' /\ issued' \in 0..MaxWrites /\ target' \in 0..Depth'
    BY <1>1 DEF TxIInv, Control
  <2>2. QED
    BY <1>1, <2>1 DEF TxIInv, Control
<1>3. ~CatchesAbort => Disciplined'
  BY <1>1, NothingOpen DEF Disciplined
<1>4. ~CatchesAbort /\ ~setting.lingers => Settling'
  BY <1>1, NothingOpen DEF Settling
<1>5. QED
  BY <1>1, <1>2, <1>3, <1>4, NothingOpen DEF TxIInv, CatchesAbort

LEMMA EndSteps == TxIInv /\ (ReturnTop \/ ReturnClosed \/ ThrowTop) => TxIInv'
<1> SUFFICES ASSUME TxIInv, ReturnTop \/ ReturnClosed \/ ThrowTop PROVE TxIInv'
  OBVIOUS
<1>1. CASE ReturnTop
  <2>1. Depth = 1 /\ ~closed /\ ~raised /\ Flush /\ End /\ UNCHANGED <<setting, issued>>
    BY <1>1 DEF ReturnTop, Running
  <2>2. /\ durable' \in Seq(Number) /\ notified' \in Seq(Number)
        /\ uncommitted' = <<>> /\ aborted' = FALSE
        /\ ~CatchesAbort => ToSet(notified') \subseteq ToSet(durable')
        /\ ~CatchesAbort /\ ~setting.lingers => notified' = durable'
    BY <2>1, FlushFacts
  <2>3. QED
    BY <2>1, <2>2, EndInv
<1>2. CASE ReturnClosed \/ ThrowTop
  <2>1. /\ End /\ UNCHANGED <<setting, issued, durable, notified>>
        /\ uncommitted' = <<>> /\ aborted' = FALSE
    BY <1>2 DEF ReturnClosed, ThrowTop, TxIInv, Control
  <2>2. /\ durable \in Seq(Number) /\ notified \in Seq(Number)
        /\ ~CatchesAbort => ToSet(notified) \subseteq ToSet(durable)
        /\ ~CatchesAbort /\ ~setting.lingers => notified = durable
    BY DEF TxIInv, Control, Disciplined, Settling
  <2>3. QED
    BY <2>1, <2>2, EndInv
<1>3. QED
  BY <1>1, <1>2

LEMMA NextInv == TxIInv /\ [TxNext]_txVars => TxIInv'
<1>1. CASE UNCHANGED txVars
  BY <1>1 DEF txVars, TxIInv, Control, Disciplined, Settling, Depth, CatchesAbort
<1>2. CASE TxNext
  BY <1>2, BeginStep, WriteStep, RejectedSteps, NestStep, CommitNestedStep,
     RollbackNestedStep, ReturnSettledStep, ReturnNestedStep, ThrowNestedStep,
     CommitTopStep, RollbackTopStep, EndSteps DEF TxNext
<1>3. QED
  BY <1>1, <1>2

LEMMA AlwaysIInv == TxSpec => []TxIInv
<1>1. QED
  BY InitInv, NextInv, PTL DEF TxSpec

LEMMA TypeFollows == TxIInv => TxTypeOK
<1> SUFFICES ASSUME TxIInv PROVE TxTypeOK
  OBVIOUS
<1>1. /\ frames \in Seq(Frame) /\ uncommitted \in Seq(Number)
      /\ \A i \in 1..Depth : frames[i].parent < i
  BY DEF TxIInv, Shape, Depth
<1>2. QED
  BY <1>1 DEF TxIInv, Control, TxTypeOK, Frame

-----------------------------------------------------------------------------
(* The theorems.                                                           *)

\* Whatever callbacks and databases do, the state of SQLStorage.transaction has
\* its type, and a frame's parentStack is the stack of a frame around it.
THEOREM TxTypeCorrect == TxSpec => []TxTypeOK
  BY AlwaysIInv, TypeFollows, PTL

\* A callback that stops when it has settled, and does not go on over an error
\* that aborts the transaction, records in its stack exactly the writes that a
\* rollback to its savepoint would undo and one to a nested savepoint would not.
THEOREM StacksAlwaysFollow == TxSpec => []StacksFollowSavepoints
<1>1. ASSUME TxIInv, ~closed, ~setting.lingers, ~CatchesAbort, NEW i \in 1..Depth
      PROVE  frames[i].stack = SubSeq(uncommitted, frames[i].mark + 1, Upto(i)) \/ frames[i].released
  <2>1. Divided(frames, uncommitted)
    BY <1>1 DEF TxIInv, Settling
  <2>2. EndOf(frames, uncommitted, i) = Upto(i)
    BY DEF EndOf, Upto, Depth
  <2>3. QED
    BY <2>1, <2>2 DEF Divided, Depth
<1>2. TxIInv => StacksFollowSavepoints
  BY <1>1, TypeFollows DEF StacksFollowSavepoints
<1>3. QED
  BY <1>2, AlwaysIInv, PTL

\* Then the subscribers hear of exactly the writes that were committed, in their
\* order; and of no write that was not, when callbacks go on after they settled.
THEOREM NotifiedAlwaysDurable == TxSpec => []NotifiedIsDurable
<1>1. TxIInv => NotifiedIsDurable
  BY DEF TxIInv, Disciplined, Settling, NotifiedIsDurable
<1>2. QED
  BY <1>1, AlwaysIInv, PTL

-----------------------------------------------------------------------------
(* The merge.                                                              *)

LEMMA ConvertedType ==
  ASSUME NEW f, NEW v \in Value
  PROVE  Converted(f, v) \in Value /\ (v \in Datum => Converted(f, v) = v)
         /\ (Converted(f, v) \in Datum => v = Converted(f, v))
  BY MergeAssumption DEF Converted, Value

LEMMA AcceptedType ==
  ASSUME NEW f, NEW cell \in Cell
  PROVE  /\ Accepted(f, cell) \in Cell
         /\ Accepted(f, cell).stamp = cell.stamp
         /\ Accepted(f, cell).value = Converted(f, cell.value)
  BY ConvertedType DEF Accepted, Cell

LEMMA MergedFieldType ==
  ASSUME NEW f, NEW base \in Cell, NEW cell \in Cell
  PROVE  /\ MergedField(f, base, cell) \in Cell
         /\ MergedField(f, base, cell) \in {base, Accepted(f, cell)}
         /\ cell.stamp # Unstamped => MergedField(f, base, cell).stamp >= base.stamp
  BY AcceptedType DEF MergedField, Late, Cell, Unstamped

LEMMA MergedCells ==
  ASSUME NEW base, NEW write, IsPartial(base), IsPartial(write)
  PROVE  /\ IsPartial(Merged(base, write))
         /\ DOMAIN Merged(base, write) = DOMAIN base \cup DOMAIN write
         /\ \A f \in DOMAIN Merged(base, write) :
              \/ f \in DOMAIN base /\ Merged(base, write)[f] = base[f]
              \/ f \in DOMAIN write /\ Merged(base, write)[f] = Accepted(f, write[f])
<1> DEFINE m == Merged(base, write)
<1>1. DOMAIN m = DOMAIN base \cup DOMAIN write
  BY DEF Merged
<1>2. (\A f \in DOMAIN base : base[f] \in Cell) /\ \A f \in DOMAIN write : write[f] \in Cell
  BY DEF IsPartial
<1>3. ASSUME NEW f \in DOMAIN m
      PROVE  /\ m[f] \in Cell
             /\ \/ f \in DOMAIN base /\ m[f] = base[f]
                \/ f \in DOMAIN write /\ m[f] = Accepted(f, write[f])
  <2>1. CASE f \notin DOMAIN write
    BY <1>1, <1>2, <2>1 DEF Merged
  <2>2. CASE f \in DOMAIN write /\ f \notin DOMAIN base
    BY <1>1, <1>2, <2>2, AcceptedType DEF Merged
  <2>3. CASE f \in DOMAIN write /\ f \in DOMAIN base
    <3>1. m[f] = MergedField(f, base[f], write[f])
      BY <1>1, <2>3 DEF Merged
    <3>2. base[f] \in Cell /\ write[f] \in Cell
      BY <1>2, <2>3
    <3>3. QED
      BY <2>3, <3>1, <3>2, MergedFieldType
  <2>4. QED
    BY <2>1, <2>2, <2>3
<1>4. m = [f \in DOMAIN m |-> m[f]]
  BY DEF Merged
<1>5. m \in [DOMAIN m -> Cell]
  BY <1>3, <1>4
<1>6. IsPartial(m)
  BY <1>1, <1>5 DEF IsPartial
<1>7. QED
  BY <1>1, <1>3, <1>6

\* A write with a known time leaves no field older than it was.
LEMMA MergedIsLater ==
  ASSUME NEW base, NEW write, IsPartial(base), IsPartial(write),
         \A f \in DOMAIN write : write[f].stamp # Unstamped
  PROVE  \A f \in DOMAIN base : Merged(base, write)[f].stamp >= base[f].stamp
<1> SUFFICES ASSUME NEW f \in DOMAIN base
             PROVE  Merged(base, write)[f].stamp >= base[f].stamp
  OBVIOUS
<1>1. base[f] \in Cell
  BY DEF IsPartial
<1>2. CASE f \notin DOMAIN write
  <2>1. Merged(base, write)[f] = base[f]
    BY <1>2 DEF Merged
  <2>2. QED
    BY <1>1, <2>1 DEF Cell
<1>3. CASE f \in DOMAIN write
  <2>1. Merged(base, write)[f] = MergedField(f, base[f], write[f])
    BY <1>3 DEF Merged
  <2>2. write[f] \in Cell
    BY <1>3 DEF IsPartial
  <2>3. QED
    BY <1>1, <1>3, <2>1, <2>2, MergedFieldType
<1>4. QED
  BY <1>2, <1>3

\* Two deltas, or two requests one after the other, leave the same record in
\* either order unless they write a field at the same time: the merge of
\* schema/atomic.ts converges.
THEOREM MergeCommutes ==
  ASSUME NEW base, NEW a, NEW b, IsPartial(base), IsPartial(a), IsPartial(b),
         \A f \in DOMAIN a : a[f].stamp # Unstamped,
         \A f \in DOMAIN b : b[f].stamp # Unstamped,
         \A f \in DOMAIN a \cap DOMAIN b : a[f].stamp # b[f].stamp
  PROVE  Merged(Merged(base, a), b) = Merged(Merged(base, b), a)
<1> DEFINE ab == Merged(Merged(base, a), b)
           ba == Merged(Merged(base, b), a)
           Fields == DOMAIN base \cup DOMAIN a \cup DOMAIN b
<1>1. /\ ab = [f \in Fields |-> ab[f]] /\ ba = [f \in Fields |-> ba[f]]
  <2>1. DOMAIN Merged(base, a) = DOMAIN base \cup DOMAIN a
    BY DEF Merged
  <2>2. DOMAIN Merged(base, b) = DOMAIN base \cup DOMAIN b
    BY DEF Merged
  <2>3. DOMAIN ab = Fields /\ DOMAIN ba = Fields
    BY <2>1, <2>2 DEF Merged
  <2>4. ab = [f \in DOMAIN ab |-> ab[f]] /\ ba = [f \in DOMAIN ba |-> ba[f]]
    BY DEF Merged
  <2>5. QED
    BY <2>3, <2>4
<1>2. ASSUME NEW f \in Fields PROVE ab[f] = ba[f]
  <2>1. f \in DOMAIN base => base[f] \in Cell
    BY DEF IsPartial
  <2>2. f \in DOMAIN a => a[f] \in Cell /\ a[f].stamp # Unstamped
    BY DEF IsPartial
  <2>3. f \in DOMAIN b => b[f] \in Cell /\ b[f].stamp # Unstamped
    BY DEF IsPartial
  <2>4. f \in DOMAIN a => Accepted(f, a[f]).stamp = a[f].stamp
    BY <2>2, AcceptedType
  <2>5. f \in DOMAIN b => Accepted(f, b[f]).stamp = b[f].stamp
    BY <2>3, AcceptedType
  <2>6. CASE f \notin DOMAIN a \/ f \notin DOMAIN b
    BY <2>6 DEF Merged
  <2>7. CASE f \in DOMAIN a /\ f \in DOMAIN b /\ f \notin DOMAIN base
    BY <2>2, <2>3, <2>4, <2>5, <2>7 DEF Merged, MergedField, Late, Cell, Unstamped
  <2>8. CASE f \in DOMAIN a /\ f \in DOMAIN b /\ f \in DOMAIN base
    <3>1. /\ ab[f] = MergedField(f, MergedField(f, base[f], a[f]), b[f])
          /\ ba[f] = MergedField(f, MergedField(f, base[f], b[f]), a[f])
      BY <2>8 DEF Merged
    <3>2. a[f].stamp # b[f].stamp
      BY <2>8
    <3>3. QED
      BY <2>1, <2>2, <2>3, <2>4, <2>5, <2>8, <3>1, <3>2
      DEF MergedField, Late, Cell, Unstamped
  <2>9. QED
    BY <2>6, <2>7, <2>8
<1>3. [f \in Fields |-> ab[f]] = [f \in Fields |-> ba[f]]
  BY <1>2
<1>4. QED
  BY <1>1, <1>3

-----------------------------------------------------------------------------
(* Types.                                                                  *)

LEMMA NothingIsPartial == IsPartial(Nothing) /\ DOMAIN Nothing = {}
<1>1. DOMAIN Nothing = {}
  BY DEF Nothing
<1>2. Nothing \in [{} -> Cell]
  BY DEF Nothing
<1>3. QED
  BY <1>1, <1>2 DEF IsPartial

LEMMA RestrictedIsPartial ==
  ASSUME NEW rec, IsPartial(rec), NEW S
  PROVE  IsPartial([f \in DOMAIN rec \cap S |-> rec[f]])
  BY DEF IsPartial

LEMMA StoredType ==
  ASSUME TypeOK
  PROVE  /\ IsPartial(Stored)
         /\ hasRow /\ hasMeta =>
              DOMAIN Stored = Field /\ \A f \in Field : Stored[f].stamp = meta[f]
         /\ \A f \in DOMAIN Stored : f \in Field /\ Stored[f].value = row[f]
<1>1. CASE ~hasRow
  BY <1>1, NothingIsPartial DEF Stored
<1>2. CASE hasRow
  BY <1>2 DEF Stored, TypeOK, IsPartial, Cell, Unstamped
<1>3. QED
  BY <1>1, <1>2

LEMMA WriteType ==
  ASSUME NEW a \in Asked, NEW o \in Op
  PROVE  /\ IsPartial(Write(a, o))
         /\ \A f \in DOMAIN Write(a, o) :
              Write(a, o)[f].stamp # Unstamped /\ Write(a, o)[f].value \in {Null, o}
<1>1. a.fields \subseteq Field /\ a.stamp \in Nat /\ a.stamp # 0
  BY DEF Asked
<1>2. o \in Value /\ Null \in Value
  BY DEF Op, Value
<1>3. QED
  BY <1>1, <1>2 DEF Write, IsPartial, Cell, Unstamped

LEMMA DeltaType ==
  ASSUME TypeOK, NEW o \in Op
  PROVE  /\ IsPartial(Delta(o))
         /\ DOMAIN Delta(o) = Stamped(processed[o])
         /\ \A f \in DOMAIN Delta(o) : Delta(o)[f] = processed[o][f]
         /\ Stamped(processed[o]) \subseteq DOMAIN processed[o]
<1>1. IsPartial(processed[o])
  BY DEF TypeOK
<1>2. QED
  BY <1>1 DEF Delta, Stamped, IsPartial

LEMMA OverwrittenType ==
  ASSUME NEW S, NEW old \in [Field -> S], NEW new, NEW fs,
         \A f \in fs : new[f] \in S
  PROVE  Overwritten(old, new, fs) \in [Field -> S]
  BY DEF Overwritten

LEMMA ProcessedCells ==
  ASSUME TypeOK, NEW o \in Op
  PROVE  \A f \in Stamped(processed[o]) :
           /\ processed[o][f] \in Cell /\ f \in Field
           /\ Values(processed[o])[f] = processed[o][f].value
           /\ Values(processed[o])[f] \in Value
           /\ Stamps(processed[o])[f] = processed[o][f].stamp
           /\ Stamps(processed[o])[f] \in Nat
<1>1. IsPartial(processed[o])
  BY DEF TypeOK
<1>2. \A f \in DOMAIN processed[o] : processed[o][f] \in Cell /\ f \in Field
  BY <1>1 DEF IsPartial
<1>3. QED
  BY <1>2 DEF Stamped, Values, Stamps, Cell

LEMMA InitType == Init => TypeOK
<1> SUFFICES ASSUME Init PROVE TypeOK
  OBVIOUS
<1>1. hasRow \in BOOLEAN
  BY WriteAssumption DEF Init
<1>2. Null \in Value /\ \A f \in Field : Converted(f, Null) \in Value
  BY ConvertedType DEF Value
<1>3. row \in [Field -> Value] /\ meta \in [Field -> Nat] /\ hasMeta \in BOOLEAN
  BY <1>1, <1>2 DEF Init, Unstamped
<1>4. \A o \in Op : IsPartial(held[o]) /\ IsPartial(processed[o])
  BY NothingIsPartial DEF Init
<1>5. IsPartial(heard)
  <2>1. CASE hasRow
    BY <1>2, <2>1 DEF Init, IsPartial, Cell
  <2>2. CASE ~hasRow
    BY <2>2, NothingIsPartial DEF Init
  <2>3. QED
    BY <2>1, <2>2
<1>6. asked \in [Op -> Asked] /\ stage \in [Op -> Stage]
  BY DEF Init, Asked, Stage
<1>7. DOMAIN held = Op /\ DOMAIN processed = Op
  BY DEF Init
<1>8. pending \in [Op -> SUBSET Table] /\ done \in [Op -> SUBSET Table]
  BY DEF Init
<1>9. /\ known \in BOOLEAN /\ fetching \in BOOLEAN /\ overlapped \subseteq Op
      /\ wrote \subseteq Op /\ broken \subseteq Op
  BY <1>1 DEF Init
<1>10. failures \in 0..MaxFailures
  BY WriteAssumption DEF Init
<1>11. QED
  BY <1>1, <1>3, <1>4, <1>5, <1>6, <1>7, <1>8, <1>9, <1>10 DEF TypeOK

LEMMA FailsType ==
  ASSUME TypeOK, NEW o \in Op, Fails(o)
  PROVE  stage' \in [Op -> Stage] /\ failures' \in 0..MaxFailures
<1>1. failures' \in 0..MaxFailures
  BY WriteAssumption DEF TypeOK, Fails
<1>2. stage' \in [Op -> Stage]
  BY DEF TypeOK, Fails, Stage
<1>3. QED
  BY <1>1, <1>2

LEMMA MeetsType ==
  ASSUME TypeOK, NEW o \in Op, Meets(o)
  PROVE  overlapped' \subseteq Op
BY DEF TypeOK, Meets

LEMMA StageType ==
  ASSUME TypeOK, NEW o \in Op, NEW s \in Stage
  PROVE  [stage EXCEPT ![o] = s] \in [Op -> Stage]
BY DEF TypeOK

LEMMA BeginType ==
  ASSUME TypeOK, NEW o \in Op, NEW a \in Request, Begin(o, a)
  PROVE  TypeOK'
<1>1. asked' \in [Op -> Asked]
  BY WriteAssumption DEF TypeOK, Begin
<1>2. stage' \in [Op -> Stage] /\ failures' \in 0..MaxFailures
  BY FailsType DEF TypeOK, Begin, Stage
<1>3. QED
  BY <1>1, <1>2 DEF TypeOK, Begin, database, subscriber

LEMMA ReadType ==
  ASSUME TypeOK, NEW o \in Op, Read(o)
  PROVE  TypeOK'
<1>1. stage' \in [Op -> Stage]
  BY StageType DEF Read, Stage
<1>2. overlapped' \subseteq Op
  BY MeetsType DEF Read
<1>3. DOMAIN held' = Op /\ \A p \in Op : IsPartial(held'[p])
  BY StoredType DEF TypeOK, Read
<1>4. QED
  BY <1>1, <1>2, <1>3 DEF TypeOK, Read, database, subscriber

LEMMA BeforeType ==
  ASSUME TypeOK, NEW o \in Op, NEW keep \in Kept, NEW from, IsPartial(from)
  PROVE  IsPartial([f \in DOMAIN Merged(from, Write(asked[o], o)) \cap keep
                      |-> Merged(from, Write(asked[o], o))[f]])
<1>1. asked[o] \in Asked
  BY DEF TypeOK
<1>2. IsPartial(Merged(from, Write(asked[o], o)))
  BY <1>1, WriteType, MergedCells
<1>3. QED
  BY <1>2, RestrictedIsPartial

LEMMA BeforeUpdateType ==
  ASSUME TypeOK, NEW o \in Op, NEW keep \in Kept, BeforeUpdate(o, keep)
  PROVE  TypeOK'
<1>1. IsPartial(held[o])
  BY DEF TypeOK
<1> DEFINE rec == [f \in DOMAIN Merged(held[o], Write(asked[o], o)) \cap keep
                     |-> Merged(held[o], Write(asked[o], o))[f]]
<1>2. IsPartial(rec)
  BY <1>1, BeforeType
<1>3. \/ /\ processed' = [processed EXCEPT ![o] = rec]
         /\ \E s \in {"replied", "writing"} : stage' = [stage EXCEPT ![o] = s]
         /\ \E ts \in {{}, Table} : pending' = [pending EXCEPT ![o] = ts]
         /\ UNCHANGED failures
      \/ Fails(o) /\ UNCHANGED <<processed, pending>>
  BY DEF BeforeUpdate
<1> HIDE DEF rec
<1>4. DOMAIN processed' = Op /\ \A p \in Op : IsPartial(processed'[p])
  BY <1>2, <1>3 DEF TypeOK
<1>5. stage' \in [Op -> Stage] /\ failures' \in 0..MaxFailures
  BY <1>3, FailsType, StageType DEF TypeOK, Stage
<1>6. pending' \in [Op -> SUBSET Table]
  BY <1>3 DEF TypeOK
<1>7. QED
  BY <1>4, <1>5, <1>6 DEF TypeOK, BeforeUpdate, database, subscriber

LEMMA BeforeInsertType ==
  ASSUME TypeOK, NEW o \in Op, NEW keep \in Kept, BeforeInsert(o, keep)
  PROVE  TypeOK'
<1> DEFINE rec == [f \in DOMAIN Merged(Nothing, Write(asked[o], o)) \cap keep
                     |-> Merged(Nothing, Write(asked[o], o))[f]]
<1>2. IsPartial(rec)
  BY NothingIsPartial, BeforeType
<1>3. \/ /\ processed' = [processed EXCEPT ![o] = rec]
         /\ stage' = [stage EXCEPT ![o] = "writing"]
         /\ pending' = [pending EXCEPT ![o] = {"row"}]
         /\ Meets(o) /\ UNCHANGED failures
      \/ Fails(o) /\ UNCHANGED <<processed, pending, overlapped>>
  BY DEF BeforeInsert
<1> HIDE DEF rec
<1>4. DOMAIN processed' = Op /\ \A p \in Op : IsPartial(processed'[p])
  BY <1>2, <1>3 DEF TypeOK
<1>5. stage' \in [Op -> Stage] /\ failures' \in 0..MaxFailures
  BY <1>3, FailsType, StageType DEF TypeOK, Stage
<1>6. pending' \in [Op -> SUBSET Table] /\ overlapped' \subseteq Op
  BY <1>3, MeetsType DEF TypeOK, Table
<1>7. QED
  BY <1>4, <1>5, <1>6 DEF TypeOK, BeforeInsert, database, subscriber

LEMMA UpdateType ==
  ASSUME TypeOK, NEW o \in Op, NEW t \in Table, Update(o, t)
  PROVE  TypeOK'
<1> DEFINE rec == processed[o]
           old == IF hasMeta THEN meta ELSE [f \in Field |-> Unstamped]
<1>1. row' \in [Field -> Value]
  <2>1. row' = row \/ row' = Overwritten(row, Values(rec), Stamped(rec))
    BY DEF Update, UpdateRow
  <2>2. \A f \in Stamped(rec) : Values(rec)[f] \in Value
    BY ProcessedCells
  <2>3. row \in [Field -> Value]
    BY DEF TypeOK
  <2>4. Overwritten(row, Values(rec), Stamped(rec)) \in [Field -> Value]
    BY <2>2, <2>3, OverwrittenType
  <2>5. QED
    BY <2>1, <2>3, <2>4
<1>2. meta' \in [Field -> Nat]
  <2>1. meta' = meta \/ meta' = Overwritten(old, Stamps(rec), Stamped(rec))
    BY DEF Update, UpdateMeta
  <2>2. old \in [Field -> Nat]
    BY DEF TypeOK, Unstamped
  <2>3. \A f \in Stamped(rec) : Stamps(rec)[f] \in Nat
    BY ProcessedCells
  <2> HIDE DEF old
  <2>4. Overwritten(old, Stamps(rec), Stamped(rec)) \in [Field -> Nat]
    BY <2>2, <2>3, OverwrittenType
  <2>5. QED
    BY <2>1, <2>4 DEF TypeOK
<1>3. hasRow' \in BOOLEAN /\ hasMeta' \in BOOLEAN
  BY DEF TypeOK, Update, UpdateMeta
<1>4. stage' \in [Op -> Stage]
  BY StageType DEF TypeOK, Update, Stage
<1>5. pending' \in [Op -> SUBSET Table] /\ done' \in [Op -> SUBSET Table]
  BY DEF TypeOK, Update
<1>6. QED
  BY <1>1, <1>2, <1>3, <1>4, <1>5 DEF TypeOK, Update, subscriber

LEMMA InsertType ==
  ASSUME TypeOK, NEW o \in Op, Insert(o)
  PROVE  TypeOK'
<1> DEFINE rec == processed[o]
<1>1. row' \in [Field -> Value]
  <2>1. row' = row \/ row' = Overwritten([f \in Field |-> Null], Values(rec), Stamped(rec))
    BY DEF Insert
  <2>2. [f \in Field |-> Null] \in [Field -> Value]
    BY DEF Value
  <2>3. \A f \in Stamped(rec) : Values(rec)[f] \in Value
    BY ProcessedCells
  <2>4. Overwritten([f \in Field |-> Null], Values(rec), Stamped(rec)) \in [Field -> Value]
    BY <2>2, <2>3, OverwrittenType
  <2>5. QED
    BY <2>1, <2>4 DEF TypeOK
<1>2. meta' \in [Field -> Nat]
  <2>1. meta' = meta \/ meta' = Overwritten([f \in Field |-> Unstamped], Stamps(rec), Stamped(rec))
    BY DEF Insert
  <2>2. [f \in Field |-> Unstamped] \in [Field -> Nat]
    BY DEF Unstamped
  <2>3. \A f \in Stamped(rec) : Stamps(rec)[f] \in Nat
    BY ProcessedCells
  <2>4. Overwritten([f \in Field |-> Unstamped], Stamps(rec), Stamped(rec)) \in [Field -> Nat]
    BY <2>2, <2>3, OverwrittenType
  <2>5. QED
    BY <2>1, <2>4 DEF TypeOK
<1>3. hasRow' \in BOOLEAN /\ hasMeta' \in BOOLEAN
  BY DEF TypeOK, Insert
<1>4. stage' \in [Op -> Stage]
  BY StageType DEF TypeOK, Insert, Stage
<1>5. pending' \in [Op -> SUBSET Table] /\ done' \in [Op -> SUBSET Table]
  BY DEF TypeOK, Insert, Table
<1>6. QED
  BY <1>1, <1>2, <1>3, <1>4, <1>5 DEF TypeOK, Insert, subscriber

LEMMA DuplicateType ==
  ASSUME TypeOK, NEW o \in Op, Duplicate(o)
  PROVE  TypeOK'
<1>1. stage' \in [Op -> Stage]
  BY StageType DEF Duplicate, Stage
<1>2. pending' \in [Op -> SUBSET Table] /\ broken' \subseteq Op
  BY DEF TypeOK, Duplicate
<1>3. QED
  BY <1>1, <1>2 DEF TypeOK, Duplicate, database, subscriber

LEMMA RefuseType ==
  ASSUME TypeOK, NEW o \in Op, NEW t \in Table, Refuse(o, t)
  PROVE  TypeOK'
<1>1. stage' \in [Op -> Stage] /\ failures' \in 0..MaxFailures
  BY FailsType, StageType DEF TypeOK, Refuse, Unreferenced, Stage
<1>2. pending' \in [Op -> SUBSET Table] /\ broken' \subseteq Op
  BY DEF TypeOK, Refuse
<1>3. QED
  BY <1>1, <1>2 DEF TypeOK, Refuse, database, subscriber

LEMMA TellType ==
  ASSUME TypeOK, NEW o \in Op, Tell(o)
  PROVE  TypeOK'
<1>1. stage' \in [Op -> Stage]
  BY StageType DEF Tell, Stage
<1>2. IsPartial(Merged(heard, Delta(o)))
  BY DeltaType, MergedCells DEF TypeOK
<1>3. known' \in BOOLEAN /\ fetching' \in BOOLEAN /\ IsPartial(heard')
  BY <1>2 DEF TypeOK, Tell, Notified, subscriber
<1>4. QED
  BY <1>1, <1>3 DEF TypeOK, Tell, database, history

LEMMA FetchType ==
  ASSUME TypeOK, Fetch
  PROVE  TypeOK'
<1>1. IsPartial(heard')
  BY StoredType, MergedCells DEF TypeOK, Fetch
<1>2. QED
  BY <1>1 DEF TypeOK, Fetch, database, requests, history

LEMMA AnswerType ==
  ASSUME TypeOK, NEW o \in Op, Answer(o)
  PROVE  TypeOK'
<1>1. stage' \in [Op -> Stage] /\ failures' \in 0..MaxFailures
  BY FailsType, StageType DEF TypeOK, Answer, Stage
<1>2. QED
  BY <1>1 DEF TypeOK, Answer, database, subscriber

LEMMA NextType == TypeOK /\ [Next]_vars => TypeOK'
<1> SUFFICES ASSUME TypeOK, [Next]_vars PROVE TypeOK'
  OBVIOUS
<1>1. ASSUME NEW o \in Op, NEW a \in Request, Begin(o, a) PROVE TypeOK'
  BY <1>1, BeginType
<1>2. ASSUME NEW o \in Op, NEW keep \in Kept, BeforeUpdate(o, keep) PROVE TypeOK'
  BY <1>2, BeforeUpdateType
<1>3. ASSUME NEW o \in Op, NEW keep \in Kept, BeforeInsert(o, keep) PROVE TypeOK'
  BY <1>3, BeforeInsertType
<1>4. ASSUME NEW o \in Op, NEW t \in Table, Update(o, t) PROVE TypeOK'
  BY <1>4, UpdateType
<1>5. ASSUME NEW o \in Op, NEW t \in Table, Refuse(o, t) PROVE TypeOK'
  BY <1>5, RefuseType
<1>6. ASSUME NEW o \in Op, Read(o) \/ Insert(o) \/ Duplicate(o) \/ Tell(o) \/ Answer(o)
      PROVE  TypeOK'
  BY <1>6, ReadType, InsertType, DuplicateType, TellType, AnswerType
<1>7. CASE Fetch
  BY <1>7, FetchType
<1>8. CASE UNCHANGED vars
  BY <1>8 DEF TypeOK, vars, database, requests, subscriber, history
<1>9. QED
  BY <1>1, <1>2, <1>3, <1>4, <1>5, <1>6, <1>7, <1>8 DEF Next

\* The state of a write keeps its type: TypeOK of the run StoredWrite.
THEOREM TypeCorrect == Spec => []TypeOK
BY InitType, NextType, PTL DEF Spec

-----------------------------------------------------------------------------
(* The stages of a request.                                                *)

\* A request that has not merged has sent nothing; one that has written had
\* its row done.
Phases ==
  \A o \in Op :
    /\ stage[o] \in {"new", "admitted", "read"} => pending[o] = {}
    /\ stage[o] = "writing" => "row" \in pending[o] \cup done[o]
    /\ stage[o] = "written" => "row" \in done[o]

LEMMA NextPhases == TypeOK /\ Phases /\ [Next]_vars => Phases'
<1> SUFFICES ASSUME TypeOK, Phases, [Next]_vars PROVE Phases'
  OBVIOUS
<1>0. /\ stage \in [Op -> Stage] /\ pending \in [Op -> SUBSET Table]
      /\ done \in [Op -> SUBSET Table]
  BY DEF TypeOK
<1>1. ASSUME NEW o \in Op, NEW a \in Request, Begin(o, a) PROVE Phases'
  BY <1>0, <1>1 DEF Phases, Begin, Fails
<1>2. ASSUME NEW o \in Op, NEW keep \in Kept, BeforeUpdate(o, keep) PROVE Phases'
  <2>1. \/ /\ stage' = [stage EXCEPT ![o] = "replied"]
           /\ pending' = [pending EXCEPT ![o] = {}]
        \/ /\ stage' = [stage EXCEPT ![o] = "writing"]
           /\ pending' = [pending EXCEPT ![o] = Table]
        \/ stage' = [stage EXCEPT ![o] = "rejected"] /\ UNCHANGED pending
    BY <1>2 DEF BeforeUpdate, Fails
  <2>2. UNCHANGED done
    BY <1>2 DEF BeforeUpdate
  <2>3. QED
    BY <1>0, <2>1, <2>2 DEF Phases, Table
<1>3. ASSUME NEW o \in Op, NEW keep \in Kept, BeforeInsert(o, keep) PROVE Phases'
  <2>1. \/ /\ stage' = [stage EXCEPT ![o] = "writing"]
           /\ pending' = [pending EXCEPT ![o] = {"row"}]
        \/ stage' = [stage EXCEPT ![o] = "rejected"] /\ UNCHANGED pending
    BY <1>3 DEF BeforeInsert, Fails
  <2>2. UNCHANGED done
    BY <1>3 DEF BeforeInsert
  <2>3. QED
    BY <1>0, <2>1, <2>2 DEF Phases
<1>4. ASSUME NEW o \in Op, NEW t \in Table, Update(o, t) PROVE Phases'
  <2>1. /\ pending' = [pending EXCEPT ![o] = @ \ {t}]
        /\ done' = [done EXCEPT ![o] = @ \cup {t}] /\ t \in pending[o]
        /\ \/ UNCHANGED stage
           \/ stage[o] = "writing" /\ pending[o] = {t} /\ stage' = [stage EXCEPT ![o] = "written"]
    BY <1>4 DEF Update
  <2>2. CASE UNCHANGED stage
    BY <1>0, <2>1, <2>2 DEF Phases
  <2>3. CASE /\ stage[o] = "writing" /\ pending[o] = {t}
             /\ stage' = [stage EXCEPT ![o] = "written"]
    BY <1>0, <2>1, <2>3 DEF Phases
  <2>4. QED
    BY <2>1, <2>2, <2>3
<1>5. ASSUME NEW o \in Op, NEW t \in Table, Refuse(o, t) PROVE Phases'
  BY <1>0, <1>5 DEF Phases, Refuse, Fails, Unreferenced
<1>6. ASSUME NEW o \in Op, Read(o) \/ Tell(o) \/ Answer(o) PROVE Phases'
  BY <1>0, <1>6 DEF Phases, Read, Tell, Answer, Fails, history
<1>7. ASSUME NEW o \in Op, Insert(o) \/ Duplicate(o) PROVE Phases'
  <2>1. CASE Insert(o)
    BY <1>0, <2>1 DEF Phases, Insert, Table
  <2>2. CASE Duplicate(o)
    BY <1>0, <2>2 DEF Phases, Duplicate
  <2>3. QED
    BY <1>7, <2>1, <2>2
<1>8. CASE Fetch
  BY <1>8 DEF Phases, Fetch, requests, history
<1>9. CASE UNCHANGED vars
  BY <1>9 DEF Phases, vars, requests, history
<1>10. QED
  BY <1>1, <1>2, <1>3, <1>4, <1>5, <1>6, <1>7, <1>8, <1>9 DEF Next

LEMMA InitPhases == Init => Phases
BY DEF Init, Phases

-----------------------------------------------------------------------------
(* The time of a field goes on.                                            *)

\* Unless requests overlapped, one of them has the row in its hands, what it
\* read is what is stored, and what it will write is no older.
Alone ==
  /\ \A o, p \in Op : Busy(o) /\ Busy(p) => o = p
  /\ \A o \in Op : stage[o] = "read" => held[o] = Stored
  /\ \A o \in Op :
       asked[o].kind = "update" /\ "meta" \in pending[o] /\ hasRow /\ hasMeta =>
         \A f \in Stamped(processed[o]) : processed[o][f].stamp >= meta[f]

Times == overlapped = {} => Alone

LEMMA InitAlone == Init => Alone
BY DEF Init, Alone, Busy

LEMMA OverlappedGrows ==
  ASSUME [Next]_vars
  PROVE  overlapped \subseteq overlapped'
<1>1. ASSUME NEW o \in Op, NEW a \in Request, Begin(o, a) PROVE UNCHANGED overlapped
  BY <1>1 DEF Begin
<1>2. ASSUME NEW o \in Op, NEW keep \in Kept, BeforeUpdate(o, keep) \/ BeforeInsert(o, keep)
      PROVE  overlapped \subseteq overlapped'
  BY <1>2 DEF BeforeUpdate, BeforeInsert, Meets
<1>3. ASSUME NEW o \in Op, NEW t \in Table, Update(o, t) \/ Refuse(o, t)
      PROVE  UNCHANGED overlapped
  BY <1>3 DEF Update, Refuse
<1>4. ASSUME NEW o \in Op, Read(o) PROVE overlapped \subseteq overlapped'
  BY <1>4 DEF Read, Meets
<1>5. ASSUME NEW o \in Op, Insert(o) \/ Duplicate(o) \/ Tell(o) \/ Answer(o)
      PROVE  UNCHANGED overlapped
  BY <1>5 DEF Insert, Duplicate, Tell, Answer, history
<1>6. CASE Fetch \/ UNCHANGED vars
  BY <1>6 DEF Fetch, vars, history
<1>7. QED
  BY <1>1, <1>2, <1>3, <1>4, <1>5, <1>6 DEF Next

\* What the merge leaves of an update is as late as what was read.
LEMMA BeforeIsLater ==
  ASSUME TypeOK, NEW o \in Op, NEW keep, held[o] = Stored, hasRow, hasMeta,
         NEW rec, rec = [f \in DOMAIN Merged(held[o], Write(asked[o], o)) \cap keep
                           |-> Merged(held[o], Write(asked[o], o))[f]]
  PROVE  \A f \in Stamped(rec) : rec[f].stamp >= meta[f]
<1>1. asked[o] \in Asked
  BY DEF TypeOK
<1>2. IsPartial(Write(asked[o], o))
      /\ \A f \in DOMAIN Write(asked[o], o) : Write(asked[o], o)[f].stamp # Unstamped
  BY <1>1, WriteType
<1>3. IsPartial(held[o]) /\ DOMAIN held[o] = Field /\ \A f \in Field : held[o][f].stamp = meta[f]
  BY StoredType
<1>4. \A f \in Field : Merged(held[o], Write(asked[o], o))[f].stamp >= meta[f]
  BY <1>2, <1>3, MergedIsLater
<1>5. DOMAIN Merged(held[o], Write(asked[o], o)) \subseteq Field
  BY <1>2, <1>3, MergedCells DEF IsPartial
<1>6. QED
  BY <1>4, <1>5 DEF Stamped

\* A step that leaves the database and the records alone, and makes no other
\* request busy, leaves the row in the same hands.
LEMMA SameHands ==
  ASSUME TypeOK, Alone, UNCHANGED <<hasRow, row, hasMeta, meta, held, processed>>,
         \A p \in Op : Busy(p)' => Busy(p),
         \A p \in Op : stage'[p] = "read" => stage[p] = "read",
         \A p \in Op : "meta" \in pending'[p] => "meta" \in pending[p] /\ asked'[p] = asked[p]
  PROVE  Alone'
<1>1. Stored' = Stored
  BY DEF Stored
<1>2. QED
  BY <1>1 DEF Alone, Stamped

\* A statement is done by the one request that has the row.
LEMMA OwnStatement ==
  ASSUME TypeOK, Phases, Alone, NEW o \in Op, pending[o] # {},
         UNCHANGED <<asked, processed, held>>,
         pending' = [pending EXCEPT ![o] = pending'[o]],
         \E s \in Stage \ {"new", "admitted", "read"} :
            stage' = stage \/ stage' = [stage EXCEPT ![o] = s],
         asked[o].kind = "update" /\ "meta" \in pending'[o] =>
           "meta" \in pending[o] /\ UNCHANGED <<hasRow, hasMeta, meta>>
  PROVE  Alone'
<1>0. stage \in [Op -> Stage] /\ pending \in [Op -> SUBSET Table]
  BY DEF TypeOK
<1>1. \A p \in Op \ {o} : ~Busy(p)
  BY DEF Alone, Busy
<1>2. \A p \in Op \ {o} : stage'[p] = stage[p] /\ pending'[p] = pending[p]
  BY <1>0
<1>3. \A p \in Op \ {o} : ~(Busy(p)')
  BY <1>1, <1>2 DEF Busy
<1>4. stage[o] # "read" /\ stage'[o] # "read"
  BY <1>0 DEF Phases
<1>5. \A p \in Op : stage'[p] # "read"
  BY <1>1, <1>2, <1>4 DEF Busy
<1>6. \A p \in Op \ {o} : pending'[p] = {}
  BY <1>3 DEF Busy
<1>7. asked'[o].kind = "update" /\ "meta" \in pending'[o] /\ hasRow' /\ hasMeta' =>
        \A f \in Stamped(processed'[o]) : processed'[o][f].stamp >= meta'[f]
  BY DEF Alone
<1>8. QED
  BY <1>3, <1>5, <1>6, <1>7 DEF Alone

\* A request that finds the row in no other hands takes it.
LEMMA TakesRow ==
  ASSUME NEW o \in Op, Meets(o), overlapped' = {}
  PROVE  \A p \in Op \ {o} : ~Busy(p)
BY DEF Meets

LEMMA NextAlone ==
  TypeOK /\ Phases /\ Alone /\ [Next]_vars /\ overlapped' = {} => Alone'
<1> SUFFICES ASSUME TypeOK, Phases, Alone, [Next]_vars, overlapped' = {} PROVE Alone'
  OBVIOUS
<1>0. stage \in [Op -> Stage] /\ pending \in [Op -> SUBSET Table]
  BY DEF TypeOK
<1>1. ASSUME NEW o \in Op, NEW a \in Request, Begin(o, a) PROVE Alone'
  <2>1. stage' \in {[stage EXCEPT ![o] = "admitted"], [stage EXCEPT ![o] = "rejected"]}
    BY <1>1 DEF Begin, Fails
  <2>2. UNCHANGED <<hasRow, row, hasMeta, meta, held, processed, pending>>
        /\ asked' = [asked EXCEPT ![o] = a] /\ pending[o] = {}
    BY <1>1 DEF Begin, database, Phases
  <2>3. \A p \in Op : Busy(p)' => Busy(p)
    BY <1>0, <2>1, <2>2 DEF Busy
  <2>4. \A p \in Op : "meta" \in pending'[p] => "meta" \in pending[p] /\ asked'[p] = asked[p]
    BY <2>2 DEF TypeOK
  <2>5. \A p \in Op : stage'[p] = "read" => stage[p] = "read"
    BY <1>0, <2>1
  <2>6. QED
    BY <2>2, <2>3, <2>4, <2>5, SameHands
<1>2. ASSUME NEW o \in Op, Read(o) PROVE Alone'
  <2>1. /\ UNCHANGED <<hasRow, row, hasMeta, meta, asked, processed, pending>>
        /\ stage' = [stage EXCEPT ![o] = "read"] /\ held' = [held EXCEPT ![o] = Stored]
        /\ pending[o] = {}
    BY <1>2 DEF Read, database, Phases
  <2>2. \A p \in Op \ {o} : ~Busy(p)
    BY <1>2, TakesRow DEF Read
  <2>3. \A p \in Op \ {o} : ~(Busy(p)') /\ stage'[p] # "read"
    BY <1>0, <2>1, <2>2 DEF Busy
  <2>4. Stored' = Stored /\ held'[o] = Stored
    BY <2>1 DEF Stored, TypeOK
  <2>5. \A p \in Op : pending'[p] = {}
    BY <2>1, <2>2 DEF Busy
  <2>6. QED
    BY <2>3, <2>4, <2>5 DEF Alone
<1>3. ASSUME NEW o \in Op, NEW keep \in Kept, BeforeUpdate(o, keep) PROVE Alone'
  <2> DEFINE rec == [f \in DOMAIN Merged(held[o], Write(asked[o], o)) \cap keep
                       |-> Merged(held[o], Write(asked[o], o))[f]]
  <2>1. /\ UNCHANGED <<hasRow, row, hasMeta, meta, asked, held>>
        /\ stage[o] = "read"
        /\ \/ /\ processed' = [processed EXCEPT ![o] = rec]
              /\ \E s \in {"replied", "writing"} : stage' = [stage EXCEPT ![o] = s]
              /\ \E ts \in {{}, Table} : pending' = [pending EXCEPT ![o] = ts]
           \/ Fails(o) /\ UNCHANGED <<processed, pending>>
    BY <1>3 DEF BeforeUpdate, database
  <2>2. held[o] = Stored /\ Busy(o) /\ pending[o] = {}
    BY <2>1 DEF Alone, Busy, Phases
  <2>3. \A p \in Op \ {o} : ~Busy(p)
    BY <2>2 DEF Alone
  <2>4. CASE Fails(o) /\ UNCHANGED <<processed, pending>>
    <3>1. stage' = [stage EXCEPT ![o] = "rejected"]
      BY <2>4 DEF Fails
    <3>2. \A p \in Op : Busy(p)' => Busy(p)
      BY <1>0, <2>2, <2>4, <3>1 DEF Busy
    <3>3. \A p \in Op : stage'[p] = "read" => stage[p] = "read"
      BY <1>0, <3>1
    <3>4. QED
      BY <2>1, <2>4, <3>2, <3>3, SameHands
  <2>5. CASE /\ processed' = [processed EXCEPT ![o] = rec]
             /\ \E s \in {"replied", "writing"} : stage' = [stage EXCEPT ![o] = s]
             /\ \E ts \in {{}, Table} : pending' = [pending EXCEPT ![o] = ts]
    <3>1. hasRow /\ hasMeta => \A f \in Stamped(rec) : rec[f].stamp >= meta[f]
      BY <2>2, BeforeIsLater
    <3> HIDE DEF rec
    <3>2. \A p \in Op \ {o} : stage'[p] = stage[p] /\ pending'[p] = pending[p]
      BY <1>0, <2>5
    <3>3. \A p \in Op \ {o} : ~(Busy(p)') /\ pending'[p] = {}
      BY <2>3, <3>2 DEF Busy
    <3>4. stage'[o] # "read" /\ processed'[o] = rec
      BY <1>0, <2>5 DEF TypeOK
    <3>5. \A p \in Op : stage'[p] # "read"
      BY <3>3, <3>4 DEF Busy
    <3>6. hasRow' /\ hasMeta' => \A f \in Stamped(processed'[o]) : processed'[o][f].stamp >= meta'[f]
      BY <2>1, <3>1, <3>4
    <3>7. QED
      BY <3>3, <3>5, <3>6 DEF Alone
  <2>6. QED
    BY <2>1, <2>4, <2>5
<1>4. ASSUME NEW o \in Op, NEW keep \in Kept, BeforeInsert(o, keep) PROVE Alone'
  <2>1. /\ UNCHANGED <<hasRow, row, hasMeta, meta, asked, held>>
        /\ asked[o].kind = "insert" /\ stage[o] = "admitted" /\ pending[o] = {}
    BY <1>4 DEF BeforeInsert, database, Phases
  <2>2. CASE Fails(o) /\ UNCHANGED <<processed, pending, overlapped>>
    <3>1. stage' = [stage EXCEPT ![o] = "rejected"]
      BY <2>2 DEF Fails
    <3>2. \A p \in Op : Busy(p)' => Busy(p)
      BY <1>0, <2>2, <3>1 DEF Busy
    <3>3. \A p \in Op : stage'[p] = "read" => stage[p] = "read"
      BY <1>0, <3>1
    <3>4. QED
      BY <2>1, <2>2, <3>2, <3>3, SameHands
  <2>3. CASE /\ stage' = [stage EXCEPT ![o] = "writing"]
             /\ pending' = [pending EXCEPT ![o] = {"row"}]
             /\ Meets(o)
    <3>1. \A p \in Op \ {o} : ~Busy(p)
      BY <2>3, TakesRow
    <3>2. \A p \in Op \ {o} : ~(Busy(p)') /\ pending'[p] = {}
      BY <1>0, <2>3, <3>1 DEF Busy
    <3>3. \A p \in Op : stage'[p] # "read"
      BY <1>0, <2>3, <3>2 DEF Busy
    <3>4. "meta" \notin pending'[o]
      BY <1>0, <2>3
    <3>5. QED
      BY <3>2, <3>3, <3>4 DEF Alone
  <2>4. QED
    BY <1>4, <2>2, <2>3 DEF BeforeInsert
<1>5. ASSUME NEW o \in Op, NEW t \in Table, Update(o, t) PROVE Alone'
  <2>1. pending[o] # {} /\ UNCHANGED <<asked, processed, held>>
        /\ pending' = [pending EXCEPT ![o] = @ \ {t}]
    BY <1>5 DEF Update
  <2>2. pending' = [pending EXCEPT ![o] = pending'[o]]
    BY <1>0, <2>1
  <2>3. stage' = stage \/ stage' = [stage EXCEPT ![o] = "written"]
    BY <1>5 DEF Update
  <2>4. "meta" \in pending'[o] => "meta" \in pending[o] /\ UNCHANGED <<hasRow, hasMeta, meta>>
    BY <1>0, <1>5, <2>1 DEF Update, Table
  <2>5. QED
    BY <2>1, <2>2, <2>3, <2>4, OwnStatement DEF Stage
<1>6. ASSUME NEW o \in Op, Insert(o) PROVE Alone'
  <2>1. pending[o] # {} /\ UNCHANGED <<asked, processed, held>> /\ asked[o].kind = "insert"
    BY <1>6 DEF Insert
  <2>2. \E ts \in SUBSET Table : pending' = [pending EXCEPT ![o] = ts]
    BY <1>6 DEF Insert, Table
  <2>3. pending' = [pending EXCEPT ![o] = pending'[o]]
    BY <1>0, <2>2
  <2>4. stage' = stage \/ stage' = [stage EXCEPT ![o] = "written"]
    BY <1>6 DEF Insert
  <2>5. QED
    BY <2>1, <2>3, <2>4, OwnStatement DEF Stage
<1>7. ASSUME NEW o \in Op, Duplicate(o) PROVE Alone'
  <2>1. pending[o] # {} /\ UNCHANGED <<asked, processed, held>> /\ asked[o].kind = "insert"
    BY <1>7 DEF Duplicate
  <2>2. pending' = [pending EXCEPT ![o] = {}] /\ stage' = [stage EXCEPT ![o] = "rejected"]
    BY <1>7 DEF Duplicate
  <2>3. pending' = [pending EXCEPT ![o] = pending'[o]]
    BY <1>0, <2>2
  <2>4. QED
    BY <2>1, <2>2, <2>3, OwnStatement DEF Stage
<1>8. ASSUME NEW o \in Op, NEW t \in Table, Refuse(o, t) PROVE Alone'
  <2>1. pending[o] # {} /\ UNCHANGED <<asked, processed, held>>
        /\ pending' = [pending EXCEPT ![o] = @ \ {t}]
        /\ stage' = [stage EXCEPT ![o] = "rejected"]
        /\ UNCHANGED <<hasRow, hasMeta, meta>>
    BY <1>8 DEF Refuse, Fails, Unreferenced, database
  <2>2. pending' = [pending EXCEPT ![o] = pending'[o]]
    BY <1>0, <2>1
  <2>3. "meta" \in pending'[o] => "meta" \in pending[o]
    BY <1>0, <2>1
  <2>4. QED
    BY <2>1, <2>2, <2>3, OwnStatement DEF Stage
<1>9. ASSUME NEW o \in Op, Tell(o) \/ Answer(o) PROVE Alone'
  <2>1. UNCHANGED <<hasRow, row, hasMeta, meta, held, processed, pending, asked>>
    BY <1>9 DEF Tell, Answer, database
  <2>2. \E s \in {"told", "replied", "rejected"} : stage' = [stage EXCEPT ![o] = s]
    BY <1>9 DEF Tell, Answer, Fails
  <2>3. \A p \in Op : Busy(p)' => Busy(p)
    BY <1>0, <2>1, <2>2 DEF Busy
  <2>4. \A p \in Op : stage'[p] = "read" => stage[p] = "read"
    BY <1>0, <2>2
  <2>5. QED
    BY <2>1, <2>3, <2>4, SameHands
<1>10. ASSUME UNCHANGED <<database, requests>> PROVE Alone'
  <2>1. UNCHANGED <<hasRow, row, hasMeta, meta, held, processed, pending, asked, stage>>
    BY <1>10 DEF database, requests
  <2>2. \A p \in Op : Busy(p)' => Busy(p)
    BY <2>1 DEF Busy
  <2>3. QED
    BY <2>1, <2>2, SameHands
<1>11. QED
  BY <1>1, <1>2, <1>3, <1>4, <1>5, <1>6, <1>7, <1>8, <1>9, <1>10 DEF Next, Fetch, vars

\* While one request at a time has the row, a statement that writes the times
\* writes none that is older.
LEMMA NextTime ==
  ASSUME TypeOK, Alone, [Next]_vars, hasRow, hasMeta
  PROVE  \A f \in Field : meta'[f] >= meta[f]
<1>0. meta \in [Field -> Nat]
  BY DEF TypeOK
<1>1. CASE UNCHANGED meta
  BY <1>0, <1>1
<1>2. ASSUME NEW o \in Op, Update(o, "meta") PROVE \A f \in Field : meta'[f] >= meta[f]
  <2>1. meta' = Overwritten(meta, Stamps(processed[o]), Stamped(processed[o]))
    BY <1>2 DEF Update, UpdateMeta
  <2>2. \A f \in Stamped(processed[o]) : processed[o][f].stamp >= meta[f]
    BY <1>2 DEF Update, Alone
  <2>3. QED
    BY <1>0, <2>1, <2>2, ProcessedCells DEF Overwritten
<1>3. ASSUME NEW o \in Op, Update(o, "row") PROVE UNCHANGED meta
  BY <1>3 DEF Update
<1>4. ASSUME ~(\E o \in Op : Update(o, "row") \/ Update(o, "meta")) PROVE UNCHANGED meta
  BY <1>4 DEF Next, Begin, BeforeUpdate, BeforeInsert, Refuse, Read, Insert, Duplicate, Tell,
              Answer, Fetch, vars, database, Table
<1>5. QED
  BY <1>1, <1>2, <1>3, <1>4

\* The time of a field does not go back while requests have the row one after
\* the other: a late write is merged into what is stored (rawUpdate reads
\* before it writes).
THEOREM TimeGoesOn == Spec => TimesGoOn
<1> DEFINE IInv == TypeOK /\ Phases /\ Times
<1>1. Init => IInv
  BY InitType, InitPhases, InitAlone DEF Times
<1>2. IInv /\ [Next]_vars => IInv'
  <2> SUFFICES ASSUME IInv, [Next]_vars PROVE IInv'
    OBVIOUS
  <2>1. TypeOK' /\ Phases'
    BY NextType, NextPhases
  <2>2. overlapped' = {} => overlapped = {}
    BY OverlappedGrows
  <2>3. Times'
    BY <2>2, NextAlone DEF Times
  <2>4. QED
    BY <2>1, <2>3
<1>3. IInv /\ [Next]_vars
        => [overlapped' = {} /\ hasRow /\ hasMeta => \A f \in Field : meta'[f] >= meta[f]]_vars
  <2> SUFFICES ASSUME IInv, [Next]_vars, overlapped' = {}, hasRow, hasMeta
               PROVE  \A f \in Field : meta'[f] >= meta[f]
    OBVIOUS
  <2>1. Alone
    BY OverlappedGrows DEF Times
  <2>2. QED
    BY <2>1, NextTime
<1>4. QED
  BY <1>1, <1>2, <1>3, PTL DEF Spec, TimesGoOn

-----------------------------------------------------------------------------
(* Requests that have the row to themselves.                               *)

\* A step of o leaves the other requests as they are.
Rest(o) ==
  \A p \in Op \ {o} :
    /\ stage'[p] = stage[p] /\ asked'[p] = asked[p] /\ held'[p] = held[p]
    /\ processed'[p] = processed[p] /\ pending'[p] = pending[p] /\ done'[p] = done[p]

\* What each action does, request by request.
LEMMA BeginDoes ==
  ASSUME TypeOK, NEW o \in Op, NEW a \in Request, Begin(o, a)
  PROVE  /\ Rest(o) /\ stage[o] = "new" /\ stage'[o] \in {"admitted", "rejected"}
         /\ asked'[o] = a /\ UNCHANGED <<held, processed, pending, done>>
         /\ UNCHANGED <<hasRow, row, hasMeta, meta, known, fetching, heard, overlapped, broken>>
BY DEF TypeOK, Begin, Fails, Rest, database, subscriber

LEMMA ReadDoes ==
  ASSUME TypeOK, NEW o \in Op, Read(o)
  PROVE  /\ Rest(o) /\ stage[o] = "admitted" /\ stage'[o] = "read"
         /\ asked[o].kind = "update" /\ held'[o] = Stored /\ Meets(o)
         /\ UNCHANGED <<asked, processed, pending, done>>
         /\ UNCHANGED <<hasRow, row, hasMeta, meta, known, fetching, heard, broken>>
BY DEF TypeOK, Read, Rest, database, subscriber

\* What the hook before the write leaves of a merge.
Left(m, keep) == [f \in DOMAIN m \cap keep |-> m[f]]

LEMMA BeforeUpdateDoes ==
  ASSUME TypeOK, NEW o \in Op, NEW keep \in Kept, BeforeUpdate(o, keep)
  PROVE  /\ Rest(o) /\ stage[o] = "read" /\ UNCHANGED <<asked, held, done>>
         /\ UNCHANGED <<hasRow, row, hasMeta, meta, known, fetching, heard, overlapped, broken>>
         /\ \/ /\ processed'[o] = Left(Merged(held[o], Write(asked[o], o)), keep)
               /\ \/ /\ stage'[o] = "replied" /\ pending'[o] = {}
                     /\ Stamped(processed'[o]) = {}
                  \/ stage'[o] = "writing" /\ pending'[o] = Table
            \/ stage'[o] = "rejected" /\ UNCHANGED <<processed, pending>>
<1> DEFINE rec == Left(Merged(held[o], Write(asked[o], o)), keep)
<1>1. \/ /\ processed' = [processed EXCEPT ![o] = rec]
         /\ stage' = [stage EXCEPT ![o] = IF Stamped(rec) = {} THEN "replied" ELSE "writing"]
         /\ pending' = [pending EXCEPT ![o] = IF Stamped(rec) = {} THEN {} ELSE Table]
      \/ stage' = [stage EXCEPT ![o] = "rejected"] /\ UNCHANGED <<processed, pending>>
  BY DEF BeforeUpdate, Fails, Left
<1>2. /\ stage[o] = "read" /\ UNCHANGED <<asked, held, done>>
      /\ UNCHANGED <<hasRow, row, hasMeta, meta, known, fetching, heard, overlapped, broken>>
  BY DEF BeforeUpdate, database, subscriber
<1> HIDE DEF rec
<1>3. Rest(o)
  BY <1>1, <1>2 DEF TypeOK, Rest
<1>4. \/ /\ processed'[o] = rec
         /\ stage'[o] = IF Stamped(rec) = {} THEN "replied" ELSE "writing"
         /\ pending'[o] = IF Stamped(rec) = {} THEN {} ELSE Table
      \/ stage'[o] = "rejected" /\ UNCHANGED <<processed, pending>>
  BY <1>1 DEF TypeOK
<1>5. \/ /\ processed'[o] = rec
         /\ \/ stage'[o] = "replied" /\ pending'[o] = {} /\ Stamped(processed'[o]) = {}
            \/ stage'[o] = "writing" /\ pending'[o] = Table
      \/ stage'[o] = "rejected" /\ UNCHANGED <<processed, pending>>
  BY <1>4
<1>6. QED
  BY <1>2, <1>3, <1>5 DEF rec

LEMMA BeforeInsertDoes ==
  ASSUME TypeOK, NEW o \in Op, NEW keep \in Kept, BeforeInsert(o, keep)
  PROVE  /\ Rest(o) /\ stage[o] = "admitted" /\ asked[o].kind = "insert"
         /\ UNCHANGED <<asked, held, done>>
         /\ UNCHANGED <<hasRow, row, hasMeta, meta, known, fetching, heard, broken>>
         /\ \/ /\ processed'[o] = Left(Merged(Nothing, Write(asked[o], o)), keep)
               /\ stage'[o] = "writing" /\ pending'[o] = {"row"} /\ Meets(o)
            \/ stage'[o] = "rejected" /\ UNCHANGED <<processed, pending, overlapped>>
<1> DEFINE rec == Left(Merged(Nothing, Write(asked[o], o)), keep)
<1>1. \/ /\ processed' = [processed EXCEPT ![o] = rec]
         /\ stage' = [stage EXCEPT ![o] = "writing"]
         /\ pending' = [pending EXCEPT ![o] = {"row"}] /\ Meets(o)
      \/ stage' = [stage EXCEPT ![o] = "rejected"] /\ UNCHANGED <<processed, pending, overlapped>>
  BY DEF BeforeInsert, Fails, Left
<1>2. /\ stage[o] = "admitted" /\ asked[o].kind = "insert" /\ UNCHANGED <<asked, held, done>>
      /\ UNCHANGED <<hasRow, row, hasMeta, meta, known, fetching, heard, broken>>
  BY DEF BeforeInsert, database, subscriber
<1> HIDE DEF rec
<1>3. Rest(o)
  BY <1>1, <1>2 DEF TypeOK, Rest
<1>4. \/ /\ processed'[o] = rec
         /\ stage'[o] = "writing" /\ pending'[o] = {"row"} /\ Meets(o)
      \/ stage'[o] = "rejected" /\ UNCHANGED <<processed, pending, overlapped>>
  BY <1>1 DEF TypeOK
<1>5. QED
  BY <1>2, <1>3, <1>4 DEF rec

LEMMA UpdateDoes ==
  ASSUME TypeOK, NEW o \in Op, NEW t \in Table, Update(o, t)
  PROVE  /\ Rest(o) /\ asked[o].kind = "update" /\ t \in pending[o]
         /\ pending'[o] = pending[o] \ {t} /\ done'[o] = done[o] \cup {t}
         /\ IF stage[o] = "writing" /\ pending[o] = {t}
            THEN stage'[o] = "written" ELSE stage'[o] = stage[o]
         /\ t = "row" => UpdateRow(o) /\ UNCHANGED <<hasRow, hasMeta, meta>>
         /\ t = "meta" => UpdateMeta(o) /\ UNCHANGED <<hasRow, row>>
         /\ UNCHANGED <<asked, held, processed, known, fetching, heard, overlapped, broken>>
<1>1. /\ pending' = [pending EXCEPT ![o] = pending[o] \ {t}]
      /\ done' = [done EXCEPT ![o] = done[o] \cup {t}]
      /\ IF stage[o] = "writing" /\ pending[o] = {t}
         THEN stage' = [stage EXCEPT ![o] = "written"] ELSE UNCHANGED stage
  BY DEF Update
<1>2. /\ asked[o].kind = "update" /\ t \in pending[o]
      /\ t = "row" => UpdateRow(o) /\ UNCHANGED <<hasRow, hasMeta, meta>>
      /\ t = "meta" => UpdateMeta(o) /\ UNCHANGED <<hasRow, row>>
      /\ UNCHANGED <<asked, held, processed, known, fetching, heard, overlapped, broken>>
  BY DEF Update, subscriber
<1>3. Rest(o)
  BY <1>1, <1>2 DEF TypeOK, Rest
<1>4. /\ pending'[o] = pending[o] \ {t} /\ done'[o] = done[o] \cup {t}
      /\ IF stage[o] = "writing" /\ pending[o] = {t}
         THEN stage'[o] = "written" ELSE stage'[o] = stage[o]
  BY <1>1 DEF TypeOK
<1>5. QED
  BY <1>2, <1>3, <1>4

LEMMA InsertDoes ==
  ASSUME TypeOK, NEW o \in Op, Insert(o)
  PROVE  /\ Rest(o) /\ asked[o].kind = "insert"
         /\ \/ /\ pending[o] = {"row"} /\ ~hasRow /\ hasRow'
               /\ row' = Overwritten([f \in Field |-> Null], Values(processed[o]), Stamped(processed[o]))
               /\ pending'[o] = {"meta"} /\ done'[o] = {"row"}
               /\ UNCHANGED <<hasMeta, meta, stage>>
            \/ /\ pending[o] = {"meta"} /\ ~hasMeta /\ hasMeta'
               /\ meta' = Overwritten([f \in Field |-> Unstamped], Stamps(processed[o]), Stamped(processed[o]))
               /\ pending'[o] = {} /\ done'[o] = Table /\ stage'[o] = "written"
               /\ UNCHANGED <<hasRow, row>>
         /\ UNCHANGED <<asked, held, processed, known, fetching, heard, overlapped, broken>>
BY DEF TypeOK, Insert, Rest, subscriber

LEMMA DuplicateDoes ==
  ASSUME TypeOK, NEW o \in Op, Duplicate(o)
  PROVE  /\ Rest(o) /\ asked[o].kind = "insert" /\ pending[o] # {}
         /\ pending'[o] = {} /\ stage'[o] = "rejected" /\ broken' = broken \cup {o}
         /\ UNCHANGED <<asked, held, processed, done>>
         /\ UNCHANGED <<hasRow, row, hasMeta, meta, known, fetching, heard, overlapped>>
BY DEF TypeOK, Duplicate, Rest, database, subscriber

LEMMA RefuseDoes ==
  ASSUME TypeOK, NEW o \in Op, NEW t \in Table, Refuse(o, t)
  PROVE  /\ Rest(o) /\ t \in pending[o]
         /\ pending'[o] = pending[o] \ {t} /\ stage'[o] = "rejected" /\ broken' = broken \cup {o}
         /\ UNCHANGED <<asked, held, processed, done>>
         /\ UNCHANGED <<hasRow, row, hasMeta, meta, known, fetching, heard, overlapped>>
BY DEF TypeOK, Refuse, Fails, Unreferenced, Rest, database, subscriber

LEMMA TellDoes ==
  ASSUME TypeOK, NEW o \in Op, Tell(o)
  PROVE  /\ Rest(o) /\ stage[o] = "written" /\ stage'[o] = "told"
         /\ UNCHANGED <<asked, held, processed, pending, done>>
         /\ UNCHANGED <<hasRow, row, hasMeta, meta, overlapped, broken>>
         /\ IF Stamped(processed[o]) # {} /\ (asked[o].kind = "insert" \/ hasRow)
            THEN Notified(o) ELSE UNCHANGED <<known, fetching, heard>>
BY DEF TypeOK, Tell, Rest, database, subscriber, history

LEMMA FetchDoes ==
  Fetch =>
         /\ fetching /\ fetching' = FALSE /\ heard' = Merged(heard, Stored)
         /\ UNCHANGED <<stage, asked, held, processed, pending, done>>
         /\ UNCHANGED <<hasRow, row, hasMeta, meta, known, overlapped, broken>>
BY DEF Fetch, database, requests, history

LEMMA AnswerDoes ==
  ASSUME TypeOK, NEW o \in Op, Answer(o)
  PROVE  /\ Rest(o) /\ stage[o] = "told" /\ stage'[o] \in {"replied", "rejected"}
         /\ UNCHANGED <<asked, held, processed, pending, done>>
         /\ UNCHANGED <<hasRow, row, hasMeta, meta, known, fetching, heard, overlapped, broken>>
BY DEF TypeOK, Answer, Fails, Rest, database, subscriber

LEMMA NothingDone ==
  UNCHANGED vars =>
         /\ UNCHANGED <<stage, asked, held, processed, pending, done>>
         /\ UNCHANGED <<hasRow, row, hasMeta, meta, known, fetching, heard, overlapped, broken>>
BY DEF vars, database, requests, subscriber, history

\* The course of a request: what it has sent and what was done at each stage.
CourseOf(o) ==
  /\ stage[o] \in {"new", "admitted", "read"} =>
       pending[o] = {} /\ done[o] = {} /\ processed[o] = Nothing
  /\ stage[o] = "read" => asked[o].kind = "update"
  /\ stage[o] \in {"written", "told"} => pending[o] = {} /\ done[o] = Table
  /\ pending[o] # {} =>
       \/ stage[o] = "writing"
       \/ /\ stage[o] = "rejected" /\ asked[o].kind = "update" /\ o \in broken
          /\ done[o] = {} /\ pending[o] # Table
  /\ stage[o] = "writing" /\ asked[o].kind = "update" =>
       pending[o] # {} /\ done[o] = Table \ pending[o]
  /\ stage[o] = "writing" /\ asked[o].kind = "insert" =>
       \/ pending[o] = {"row"} /\ done[o] = {}
       \/ pending[o] = {"meta"} /\ done[o] = {"row"}
Course == \A o \in Op : CourseOf(o)

LEMMA CourseOfOthers ==
  ASSUME Course, NEW o \in Op, Rest(o), broken \subseteq broken', CourseOf(o)'
  PROVE  Course'
BY DEF Course, CourseOf, Rest

LEMMA NextCourse == TypeOK /\ Course /\ [Next]_vars => Course'
<1> SUFFICES ASSUME TypeOK, Course, [Next]_vars PROVE Course'
  OBVIOUS
<1>0. ASSUME NEW o \in Op
      PROVE  /\ CourseOf(o) /\ stage[o] \in Stage /\ pending[o] \in SUBSET Table
             /\ done[o] \in SUBSET Table /\ asked[o].kind \in {"insert", "update"}
  BY DEF TypeOK, Course, Asked
<1>1. ASSUME NEW o \in Op, NEW a \in Request, Begin(o, a) PROVE Course'
  <2>1. CourseOf(o)'
    BY <1>0, <1>1, BeginDoes DEF CourseOf
  <2>2. QED
    BY <1>1, <2>1, BeginDoes, CourseOfOthers
<1>2. ASSUME NEW o \in Op, Read(o) PROVE Course'
  <2>1. CourseOf(o)'
    BY <1>0, <1>2, ReadDoes DEF CourseOf
  <2>2. QED
    BY <1>2, <2>1, ReadDoes, CourseOfOthers
<1>3. ASSUME NEW o \in Op, NEW keep \in Kept, BeforeUpdate(o, keep) PROVE Course'
  <2>1. CourseOf(o)'
    BY <1>0, <1>3, BeforeUpdateDoes DEF CourseOf, Table
  <2>2. QED
    BY <1>3, <2>1, BeforeUpdateDoes, CourseOfOthers
<1>4. ASSUME NEW o \in Op, NEW keep \in Kept, BeforeInsert(o, keep) PROVE Course'
  <2>1. CourseOf(o)'
    BY <1>0, <1>4, BeforeInsertDoes DEF CourseOf, Table
  <2>2. QED
    BY <1>4, <2>1, BeforeInsertDoes, CourseOfOthers
<1>5. ASSUME NEW o \in Op, NEW t \in Table, Update(o, t) PROVE Course'
  <2>1. CourseOf(o)'
    BY <1>0, <1>5, UpdateDoes DEF CourseOf, Table
  <2>2. QED
    BY <1>5, <2>1, UpdateDoes, CourseOfOthers
<1>6. ASSUME NEW o \in Op, Insert(o) PROVE Course'
  <2>1. CourseOf(o)'
    BY <1>0, <1>6, InsertDoes DEF CourseOf, Table
  <2>2. QED
    BY <1>6, <2>1, InsertDoes, CourseOfOthers
<1>7. ASSUME NEW o \in Op, Duplicate(o) PROVE Course'
  <2>1. CourseOf(o)'
    BY <1>0, <1>7, DuplicateDoes DEF CourseOf
  <2>2. QED
    BY <1>7, <2>1, DuplicateDoes, CourseOfOthers
<1>8. ASSUME NEW o \in Op, NEW t \in Table, Refuse(o, t) PROVE Course'
  <2>1. CourseOf(o)'
    BY <1>0, <1>8, RefuseDoes DEF CourseOf, Table
  <2>2. QED
    BY <1>8, <2>1, RefuseDoes, CourseOfOthers
<1>9. ASSUME NEW o \in Op, Tell(o) PROVE Course'
  <2>1. CourseOf(o)'
    BY <1>0, <1>9, TellDoes DEF CourseOf
  <2>2. QED
    BY <1>9, <2>1, TellDoes, CourseOfOthers
<1>10. ASSUME NEW o \in Op, Answer(o) PROVE Course'
  <2>1. CourseOf(o)'
    BY <1>0, <1>10, AnswerDoes DEF CourseOf
  <2>2. QED
    BY <1>10, <2>1, AnswerDoes, CourseOfOthers
<1>11. CASE Fetch \/ UNCHANGED vars
  <2>1. UNCHANGED <<stage, asked, processed, pending, done, broken>>
    BY <1>11, FetchDoes, NothingDone
  <2>2. QED
    BY <2>1 DEF Course, CourseOf
<1>12. QED
  BY <1>1, <1>2, <1>3, <1>4, <1>5, <1>6, <1>7, <1>8, <1>9, <1>10, <1>11 DEF Next

\* What a request writes is the merge with what it read, as the hooks left it.
MergeWith(a, h, o) == Merged(IF a.kind = "insert" THEN Nothing ELSE h, Write(a, o))
IsMerge(rec, a, h, o) ==
  \A f \in DOMAIN rec : f \in DOMAIN MergeWith(a, h, o) /\ rec[f] = MergeWith(a, h, o)[f]
Merges == \A o \in Op : IsMerge(processed[o], asked[o], held[o], o)

LEMMA MergesOfOthers ==
  ASSUME Merges, NEW o \in Op, Rest(o), IsMerge(processed'[o], asked'[o], held'[o], o)
  PROVE  Merges'
<1>1. ASSUME NEW p \in Op \ {o} PROVE IsMerge(processed'[p], asked'[p], held'[p], p)
  BY DEF Merges, Rest
<1>2. QED
  BY <1>1 DEF Merges

LEMMA NothingIsMerge ==
  ASSUME NEW a, NEW h, NEW o
  PROVE  IsMerge(Nothing, a, h, o)
BY NothingIsPartial DEF IsMerge

LEMMA NextMerges == TypeOK /\ Course /\ Merges /\ [Next]_vars => Merges'
<1> SUFFICES ASSUME TypeOK, Course, Merges, [Next]_vars PROVE Merges'
  OBVIOUS
<1>1. ASSUME NEW o \in Op, NEW a \in Request, Begin(o, a) PROVE Merges'
  <2>1. processed'[o] = Nothing
    BY <1>1, BeginDoes DEF Course, CourseOf
  <2>2. QED
    BY <1>1, <2>1, BeginDoes, NothingIsMerge, MergesOfOthers
<1>2. ASSUME NEW o \in Op, Read(o) PROVE Merges'
  <2>1. processed'[o] = Nothing
    BY <1>2, ReadDoes DEF Course, CourseOf
  <2>2. QED
    BY <1>2, <2>1, ReadDoes, NothingIsMerge, MergesOfOthers
<1>3. ASSUME NEW o \in Op, NEW keep \in Kept, BeforeUpdate(o, keep) \/ BeforeInsert(o, keep)
      PROVE  Merges'
  <2>1. /\ Rest(o) /\ UNCHANGED <<asked, held>>
        /\ \/ processed'[o] = processed[o]
           \/ /\ asked[o].kind = "update" /\ BeforeUpdate(o, keep)
              /\ processed'[o] = Left(Merged(held[o], Write(asked[o], o)), keep)
           \/ /\ asked[o].kind = "insert"
              /\ processed'[o] = Left(Merged(Nothing, Write(asked[o], o)), keep)
    BY <1>3, BeforeUpdateDoes, BeforeInsertDoes DEF Course, CourseOf
  <2>2. CASE processed'[o] = processed[o]
    BY <2>1, <2>2, MergesOfOthers DEF Merges
  <2>3. ASSUME processed'[o] = Left(MergeWith(asked[o], held[o], o), keep) PROVE Merges'
    <3>1. IsMerge(processed'[o], asked[o], held[o], o)
      BY <2>3 DEF Left, IsMerge
    <3>2. QED
      BY <2>1, <3>1, MergesOfOthers
  <2>4. QED
    BY <2>1, <2>2, <2>3 DEF MergeWith
<1>4. ASSUME UNCHANGED <<asked, held, processed>> PROVE Merges'
  BY <1>4 DEF Merges
<1>5. ASSUME NEW o \in Op,
             \/ \E t \in Table : Update(o, t) \/ Refuse(o, t)
             \/ Insert(o) \/ Duplicate(o) \/ Tell(o) \/ Answer(o)
      PROVE  Merges'
  BY <1>4, <1>5, UpdateDoes, RefuseDoes, InsertDoes, DuplicateDoes, TellDoes, AnswerDoes
<1>6. CASE Fetch \/ UNCHANGED vars
  BY <1>4, <1>6, FetchDoes, NothingDone
<1>7. QED
  BY <1>1, <1>2, <1>3, <1>5, <1>6 DEF Next

\* Nothing is known of a row that is not there.
Absent ==
  /\ ~hasRow => ~known /\ \A f \in Field : row[f] = Null
  /\ ~known => ~fetching /\ heard = Nothing
  /\ \A o \in Op : asked[o].kind = "insert" /\ "row" \in done[o] => hasRow

LEMMA NextAbsent == TypeOK /\ Course /\ Absent /\ [Next]_vars => Absent'
<1> SUFFICES ASSUME TypeOK, Course, Absent, [Next]_vars PROVE Absent'
  OBVIOUS
<1>1. ASSUME UNCHANGED <<hasRow, row, known, fetching, heard>>,
             \A o \in Op : asked'[o].kind = "insert" /\ "row" \in done'[o] =>
               asked[o].kind = "insert" /\ "row" \in done[o]
      PROVE  Absent'
  BY <1>1 DEF Absent
<1>2. ASSUME NEW o \in Op, NEW a \in Request, Begin(o, a) PROVE Absent'
  BY <1>1, <1>2, BeginDoes DEF Course, CourseOf, Rest
<1>3. ASSUME NEW o \in Op, Read(o) PROVE Absent'
  BY <1>1, <1>3, ReadDoes
<1>4. ASSUME NEW o \in Op, NEW keep \in Kept, BeforeUpdate(o, keep) \/ BeforeInsert(o, keep)
      PROVE  Absent'
  <2>1. UNCHANGED <<hasRow, row, known, fetching, heard, asked, done>>
    BY <1>4, BeforeUpdateDoes, BeforeInsertDoes
  <2>2. QED
    BY <1>1, <2>1
<1>5. ASSUME NEW o \in Op, NEW t \in Table, Update(o, t) PROVE Absent'
  <2>1. /\ UNCHANGED <<hasRow, known, fetching, heard, asked>> /\ asked[o].kind = "update"
        /\ ~hasRow => UNCHANGED row
    BY <1>5, UpdateDoes DEF UpdateRow, UpdateMeta, Table
  <2>2. \A p \in Op \ {o} : done'[p] = done[p]
    BY <1>5, UpdateDoes DEF Rest
  <2>3. QED
    BY <2>1, <2>2 DEF Absent
<1>6. ASSUME NEW o \in Op, Insert(o) PROVE Absent'
  <2>1. UNCHANGED <<known, fetching, heard, asked>>
        /\ \/ hasRow'
           \/ UNCHANGED <<hasRow, row>> /\ "row" \in done[o]
    BY <1>6, InsertDoes DEF Course, CourseOf
  <2>2. \A p \in Op \ {o} : done'[p] = done[p]
    BY <1>6, InsertDoes DEF Rest
  <2>3. QED
    BY <1>6, <2>1, <2>2, InsertDoes DEF Absent
<1>7. ASSUME NEW o \in Op, \/ Duplicate(o) \/ Answer(o)
                           \/ \E t \in Table : Refuse(o, t)
      PROVE  Absent'
  <2>1. UNCHANGED <<hasRow, row, known, fetching, heard, asked, done>>
    BY <1>7, DuplicateDoes, AnswerDoes, RefuseDoes
  <2>2. QED
    BY <1>1, <2>1
<1>8. ASSUME NEW o \in Op, Tell(o) PROVE Absent'
  <2>1. UNCHANGED <<hasRow, row, asked, done>> /\ done[o] = Table
        /\ \/ UNCHANGED <<known, fetching, heard>>
           \/ known' /\ (hasRow \/ asked[o].kind = "insert")
    BY <1>8, TellDoes DEF Notified, Course, CourseOf
  <2>2. QED
    BY <2>1 DEF Absent, Table
<1>9. CASE Fetch
  BY <1>9, FetchDoes DEF Absent
<1>10. CASE UNCHANGED vars
  BY <1>1, <1>10, NothingDone
<1>11. QED
  BY <1>2, <1>3, <1>4, <1>5, <1>6, <1>7, <1>8, <1>9, <1>10 DEF Next

\* A time that is stored, held or written is one that a request brought.
TimeOf(st, as, f, t) ==
  \/ t \in {Unstamped, 1}
  \/ \E p \in Op : st[p] # "new" /\ f \in as[p].fields /\ t = as[p].stamp
TimesOf(st, as, rec) == \A f \in DOMAIN rec : TimeOf(st, as, f, rec[f].stamp)
StampNow(f) == IF hasMeta THEN meta[f] ELSE Unstamped
Timely ==
  /\ \A f \in Field : TimeOf(stage, asked, f, StampNow(f))
  /\ \A o \in Op : TimesOf(stage, asked, held[o]) /\ TimesOf(stage, asked, processed[o])

\* A request keeps what it asked for.
LEMMA AskedOnce ==
  ASSUME TypeOK, [Next]_vars
  PROVE  \A p \in Op : stage[p] # "new" => stage'[p] # "new" /\ asked'[p] = asked[p]
<1>1. ASSUME NEW o \in Op, Rest(o), stage'[o] # "new", stage[o] # "new" => asked'[o] = asked[o]
      PROVE  \A p \in Op : stage[p] # "new" => stage'[p] # "new" /\ asked'[p] = asked[p]
  BY <1>1 DEF Rest
<1>2. ASSUME NEW o \in Op, NEW a \in Request, Begin(o, a)
      PROVE  Rest(o) /\ stage'[o] # "new" /\ (stage[o] # "new" => asked'[o] = asked[o])
  BY <1>2, BeginDoes
<1>3. ASSUME NEW o \in Op, NEW keep \in Kept, BeforeUpdate(o, keep) \/ BeforeInsert(o, keep)
      PROVE  Rest(o) /\ stage'[o] # "new" /\ asked'[o] = asked[o]
  BY <1>3, BeforeUpdateDoes, BeforeInsertDoes
<1>4. ASSUME NEW o \in Op, Read(o) \/ Duplicate(o) \/ Tell(o) \/ Answer(o)
      PROVE  Rest(o) /\ stage'[o] # "new" /\ asked'[o] = asked[o]
  BY <1>4, ReadDoes, DuplicateDoes, TellDoes, AnswerDoes
<1>5. ASSUME NEW o \in Op, NEW t \in Table, Update(o, t) \/ Refuse(o, t)
      PROVE  Rest(o) /\ (stage[o] # "new" => stage'[o] # "new") /\ asked'[o] = asked[o]
  BY <1>5, UpdateDoes, RefuseDoes
<1>6. ASSUME NEW o \in Op, Insert(o)
      PROVE  Rest(o) /\ (stage[o] # "new" => stage'[o] # "new") /\ asked'[o] = asked[o]
  BY <1>6, InsertDoes
<1>7. CASE Fetch \/ UNCHANGED vars
  BY <1>7, FetchDoes, NothingDone
<1>8. ASSUME NEW o \in Op, Rest(o), stage[o] # "new" => stage'[o] # "new", asked'[o] = asked[o]
      PROVE  \A p \in Op : stage[p] # "new" => stage'[p] # "new" /\ asked'[p] = asked[p]
  BY <1>8 DEF Rest
<1>9. QED
  BY <1>1, <1>2, <1>3, <1>4, <1>5, <1>6, <1>7, <1>8 DEF Next

LEMMA TimeStays ==
  ASSUME NEW st, NEW as, NEW st2, NEW as2, NEW f, NEW t, TimeOf(st, as, f, t),
         \A p \in Op : st[p] # "new" => st2[p] # "new" /\ as2[p] = as[p]
  PROVE  TimeOf(st2, as2, f, t)
BY DEF TimeOf

\* The merge with what a request writes brings the time of the request.
LEMMA MergeTimes ==
  ASSUME NEW st, NEW as, NEW base, IsPartial(base), TimesOf(st, as, base),
         NEW o \in Op, as[o] \in Asked, st[o] # "new", NEW keep
  PROVE  TimesOf(st, as, Left(Merged(base, Write(as[o], o)), keep))
<1> DEFINE w == Write(as[o], o)
           m == Merged(base, w)
<1>1. IsPartial(w) /\ \A f \in DOMAIN w : f \in as[o].fields /\ w[f].stamp = as[o].stamp
  BY WriteType DEF Write
<1>2. \A f \in DOMAIN m :
        \/ f \in DOMAIN base /\ m[f] = base[f]
        \/ f \in DOMAIN w /\ m[f] = Accepted(f, w[f])
  BY <1>1, MergedCells
<1>3. \A f \in DOMAIN w : w[f] \in Cell
  BY <1>1 DEF IsPartial
<1>4. \A f \in DOMAIN w : Accepted(f, w[f]).stamp = as[o].stamp
  BY <1>1, <1>3, AcceptedType
<1> HIDE DEF w, m
<1>5. \A f \in DOMAIN m : TimeOf(st, as, f, m[f].stamp)
  BY <1>1, <1>2, <1>4 DEF TimesOf, TimeOf
<1>6. QED
  BY <1>5 DEF TimesOf, Left, m, w

LEMMA NextTimely == TypeOK /\ Course /\ Timely /\ [Next]_vars => Timely'
<1> SUFFICES ASSUME TypeOK, Course, Timely, [Next]_vars PROVE Timely'
  OBVIOUS
<1>1. \A p \in Op : stage[p] # "new" => stage'[p] # "new" /\ asked'[p] = asked[p]
  BY AskedOnce
<1>2. ASSUME NEW f, NEW t, TimeOf(stage, asked, f, t) PROVE TimeOf(stage', asked', f, t)
  BY <1>1, <1>2, TimeStays
<1>3. ASSUME NEW rec, TimesOf(stage, asked, rec) PROVE TimesOf(stage', asked', rec)
  BY <1>2, <1>3 DEF TimesOf
<1>4. \A p \in Op : TimesOf(stage', asked', held[p]) /\ TimesOf(stage', asked', processed[p])
  BY <1>3 DEF Timely
<1>5. \A f \in Field : TimeOf(stage', asked', f, StampNow(f))
  BY <1>2 DEF Timely
<1>6. ASSUME UNCHANGED <<hasMeta, meta, held, processed>> PROVE Timely'
  <2>1. \A f \in Field : StampNow(f)' = StampNow(f)
    BY <1>6 DEF StampNow
  <2>2. QED
    BY <1>4, <1>5, <1>6, <2>1 DEF Timely
<1>7. ASSUME NEW o \in Op, Read(o) PROVE Timely'
  <2>1. UNCHANGED <<hasMeta, meta, processed>> /\ Rest(o) /\ held'[o] = Stored
    BY <1>7, ReadDoes
  <2>2. \A f \in DOMAIN Stored : f \in Field /\ Stored[f].stamp = StampNow(f)
    BY NothingIsPartial DEF Stored, StampNow
  <2>3. TimesOf(stage', asked', Stored)
    BY <1>5, <2>2 DEF TimesOf
  <2>4. \A p \in Op : TimesOf(stage', asked', held'[p])
    BY <1>4, <2>1, <2>3 DEF Rest
  <2>5. \A f \in Field : StampNow(f)' = StampNow(f)
    BY <2>1 DEF StampNow
  <2>6. QED
    BY <1>4, <1>5, <2>1, <2>4, <2>5 DEF Timely
<1>8. ASSUME NEW o \in Op, NEW keep \in Kept, BeforeUpdate(o, keep) \/ BeforeInsert(o, keep)
      PROVE  Timely'
  <2>1. /\ Rest(o) /\ UNCHANGED <<asked, held, hasMeta, meta>> /\ stage[o] # "new"
        /\ \/ processed'[o] = processed[o]
           \/ processed'[o] = Left(Merged(held[o], Write(asked[o], o)), keep)
           \/ processed'[o] = Left(Merged(Nothing, Write(asked[o], o)), keep)
    BY <1>8, BeforeUpdateDoes, BeforeInsertDoes
  <2>2. asked[o] \in Asked /\ IsPartial(held[o]) /\ IsPartial(Nothing)
    BY NothingIsPartial DEF TypeOK
  <2>3. TimesOf(stage, asked, held[o]) /\ TimesOf(stage, asked, Nothing)
    BY NothingIsPartial DEF Timely, TimesOf
  <2>4. TimesOf(stage, asked, processed'[o])
    BY <2>1, <2>2, <2>3, MergeTimes DEF Timely
  <2>5. TimesOf(stage', asked', processed'[o])
    BY <1>3, <2>4
  <2>6. \A p \in Op : TimesOf(stage', asked', processed'[p])
    BY <1>4, <2>1, <2>5 DEF Rest
  <2>7. \A f \in Field : StampNow(f)' = StampNow(f)
    BY <2>1 DEF StampNow
  <2>8. QED
    BY <1>4, <1>5, <2>1, <2>6, <2>7 DEF Timely
<1>9. ASSUME NEW o \in Op, (\E t \in Table : Update(o, t)) \/ Insert(o) PROVE Timely'
  <2>1. UNCHANGED <<held, processed>>
        /\ \/ UNCHANGED <<hasMeta, meta>>
           \/ /\ hasMeta'
              /\ meta' = Overwritten(IF hasMeta THEN meta ELSE [f \in Field |-> Unstamped],
                                     Stamps(processed[o]), Stamped(processed[o]))
    BY <1>9, UpdateDoes, InsertDoes DEF UpdateMeta, Table
  <2>2. CASE UNCHANGED <<hasMeta, meta>>
    BY <1>6, <2>1, <2>2
  <2>3. CASE /\ hasMeta'
             /\ meta' = Overwritten(IF hasMeta THEN meta ELSE [f \in Field |-> Unstamped],
                                    Stamps(processed[o]), Stamped(processed[o]))
    <3>1. \A f \in Stamped(processed[o]) :
            f \in DOMAIN processed[o] /\ Stamps(processed[o])[f] = processed[o][f].stamp
      BY DEF Stamped, Stamps
    <3>2. \A f \in Field : StampNow(f)' = IF f \in Stamped(processed[o])
                                          THEN processed[o][f].stamp ELSE StampNow(f)
      BY <2>3, <3>1 DEF Overwritten, StampNow
    <3>3. \A f \in Stamped(processed[o]) : TimeOf(stage', asked', f, processed[o][f].stamp)
      BY <1>4, <3>1 DEF TimesOf
    <3>4. \A f \in Field : TimeOf(stage', asked', f, StampNow(f)')
      BY <1>5, <3>2, <3>3
    <3>5. QED
      BY <1>4, <2>1, <3>4 DEF Timely
  <2>4. QED
    BY <2>1, <2>2, <2>3
<1>10. ASSUME NEW o \in Op,
              \/ \E a \in Request : Begin(o, a)
              \/ \E t \in Table : Refuse(o, t)
              \/ Duplicate(o) \/ Tell(o) \/ Answer(o)
       PROVE  Timely'
  BY <1>6, <1>10, BeginDoes, RefuseDoes, DuplicateDoes, TellDoes, AnswerDoes
<1>11. CASE Fetch \/ UNCHANGED vars
  BY <1>6, <1>11, FetchDoes, NothingDone
<1>12. QED
  BY <1>7, <1>8, <1>9, <1>10, <1>11 DEF Next

\* A request that overlapped no other has the row alone while it has it.
Apart == \A o \in Op \ overlapped : Busy(o) => \A p \in Op \ {o} : ~Busy(p)

LEMMA ApartWhenNoneBegins ==
  ASSUME Apart, overlapped' = overlapped, \A p \in Op : Busy(p)' => Busy(p)
  PROVE  Apart'
BY DEF Apart

LEMMA ApartWhenOneBegins ==
  ASSUME TypeOK, Apart, NEW o \in Op, Rest(o), Meets(o)
  PROVE  Apart'
<1>1. \A p \in Op \ {o} : Busy(p)' <=> Busy(p)
  BY DEF Rest, Busy
<1>2. CASE \A p \in Op \ {o} : ~Busy(p)
  BY <1>1, <1>2 DEF Apart
<1>3. CASE \E p \in Op \ {o} : Busy(p)
  <2>1. overlapped' = overlapped \cup {p \in Op \ {o} : Busy(p)} \cup {o}
    BY <1>3 DEF Meets
  <2>2. \A p \in Op \ overlapped' : ~(Busy(p)')
    BY <1>1, <2>1
  <2>3. QED
    BY <2>2 DEF Apart
<1>4. QED
  BY <1>2, <1>3

LEMMA NextApart == TypeOK /\ Course /\ Apart /\ [Next]_vars => Apart'
<1> SUFFICES ASSUME TypeOK, Course, Apart, [Next]_vars PROVE Apart'
  OBVIOUS
<1>1. ASSUME NEW o \in Op, Rest(o), overlapped' = overlapped, Busy(o)' => Busy(o) PROVE Apart'
  <2>1. \A p \in Op : Busy(p)' => Busy(p)
    BY <1>1 DEF Rest, Busy
  <2>2. QED
    BY <1>1, <2>1, ApartWhenNoneBegins
<1>2. ASSUME NEW o \in Op, NEW a \in Request, Begin(o, a) PROVE Apart'
  <2>1. Busy(o)' => Busy(o)
    BY <1>2, BeginDoes DEF Busy
  <2>2. QED
    BY <1>1, <1>2, <2>1, BeginDoes
<1>3. ASSUME NEW o \in Op, Read(o) PROVE Apart'
  BY <1>3, ReadDoes, ApartWhenOneBegins
<1>4. ASSUME NEW o \in Op, NEW keep \in Kept, BeforeUpdate(o, keep) PROVE Apart'
  <2>1. Busy(o)
    BY <1>4, BeforeUpdateDoes DEF Busy
  <2>2. QED
    BY <1>1, <1>4, <2>1, BeforeUpdateDoes
<1>5. ASSUME NEW o \in Op, NEW keep \in Kept, BeforeInsert(o, keep) PROVE Apart'
  <2>1. CASE Meets(o)
    BY <1>5, <2>1, BeforeInsertDoes, ApartWhenOneBegins
  <2>2. CASE stage'[o] = "rejected" /\ UNCHANGED <<pending, overlapped>>
    <3>1. Busy(o)' => Busy(o)
      BY <2>2 DEF Busy
    <3>2. QED
      BY <1>1, <1>5, <2>2, <3>1, BeforeInsertDoes
  <2>3. QED
    BY <1>5, <2>1, <2>2, BeforeInsertDoes
<1>6. ASSUME NEW o \in Op, pending[o] # {}, Rest(o), overlapped' = overlapped PROVE Apart'
  <2>1. Busy(o)
    BY <1>6 DEF Busy
  <2>2. QED
    BY <1>1, <1>6, <2>1
<1>7. ASSUME NEW o \in Op, \/ \E t \in Table : Update(o, t) \/ Refuse(o, t)
                           \/ Insert(o) \/ Duplicate(o)
      PROVE  pending[o] # {} /\ Rest(o) /\ overlapped' = overlapped
  BY <1>7, UpdateDoes, RefuseDoes, InsertDoes, DuplicateDoes
<1>8. ASSUME NEW o \in Op, Tell(o) \/ Answer(o) PROVE Apart'
  <2>1. Rest(o) /\ overlapped' = overlapped /\ pending'[o] = pending[o]
        /\ stage'[o] \in {"told", "replied", "rejected"}
    BY <1>8, TellDoes, AnswerDoes
  <2>2. Busy(o)' => Busy(o)
    BY <2>1 DEF Busy
  <2>3. QED
    BY <1>1, <2>1, <2>2
<1>9. CASE Fetch \/ UNCHANGED vars
  <2>1. UNCHANGED <<stage, pending, overlapped>>
    BY <1>9, FetchDoes, NothingDone
  <2>2. QED
    BY <2>1 DEF Apart, Busy
<1>10. QED
  BY <1>2, <1>3, <1>4, <1>5, <1>6, <1>7, <1>8, <1>9 DEF Next

\* What a request that has the row alone knows of it: an update has read what
\* is stored, but for what it wrote itself, and an insert wrote all there is.
UpdateSees(o) ==
  IF ~hasRow THEN held[o] = Nothing
  ELSE /\ DOMAIN held[o] = Field
       /\ \A f \in Field :
            /\ row[f] = IF "row" \in done[o] /\ f \in Stamped(processed[o])
                        THEN processed[o][f].value ELSE held[o][f].value
            /\ StampNow(f) = IF "meta" \in done[o] /\ f \in Stamped(processed[o])
                             THEN processed[o][f].stamp ELSE held[o][f].stamp
       /\ "meta" \in done[o] => hasMeta
InsertSees(o) ==
  /\ "row" \in done[o] =>
       /\ hasRow /\ ~known
       /\ \A f \in Field :
            row[f] = IF f \in Stamped(processed[o]) THEN processed[o][f].value ELSE Null
  /\ "meta" \in done[o] =>
       /\ hasMeta
       /\ \A f \in Field :
            meta[f] = IF f \in Stamped(processed[o]) THEN processed[o][f].stamp ELSE Unstamped
Sees(o) == IF asked[o].kind = "update" THEN UpdateSees(o) ELSE InsertSees(o)
Has(o) == stage[o] \in {"read", "writing", "written"}
Sole == \A o \in Op \ overlapped : Has(o) => Sees(o)

\* A step of another request, while one has the row alone, is not one of those
\* that change what it knows.
LEMMA SeesStays ==
  ASSUME Sole, NEW o, NEW p \in Op \ {o}, Rest(o), p \in overlapped => p \in overlapped',
         UNCHANGED <<hasRow, row, hasMeta, meta, known>>, p \notin overlapped', Has(p)'
  PROVE  Sees(p)'
<1>1. Sees(p)
  BY DEF Sole, Has, Rest
<1>2. \A f \in Field : StampNow(f)' = StampNow(f)
  BY DEF StampNow
<1>3. QED
  BY <1>1, <1>2 DEF Sees, UpdateSees, InsertSees, Rest

\* Only a step of the request that has the row alone touches it.
LEMMA NoneHas ==
  ASSUME Apart, NEW o \in Op, Busy(o)
  PROVE  \A p \in Op \ {o} : p \notin overlapped => ~Busy(p)
BY DEF Apart

LEMMA SoleOwn ==
  ASSUME TypeOK, Apart, Sole, NEW o \in Op, Busy(o), Rest(o), overlapped' = overlapped,
         o \notin overlapped /\ Has(o)' => Sees(o)'
  PROVE  Sole'
<1>1. \A p \in Op \ {o} : p \notin overlapped => ~Has(p)
  BY NoneHas DEF Busy, Has
<1>2. \A p \in Op \ {o} : p \notin overlapped' => ~(Has(p)')
  BY <1>1 DEF Rest, Has
<1>3. QED
  BY <1>2 DEF Sole

LEMMA SoleQuiet ==
  ASSUME Sole, NEW o \in Op, Rest(o), overlapped \subseteq overlapped',
         UNCHANGED <<hasRow, row, hasMeta, meta, known>>,
         o \notin overlapped' /\ Has(o)' => Sees(o)'
  PROVE  Sole'
BY SeesStays DEF Sole

LEMMA UpdateSole ==
  ASSUME TypeOK, Course, Apart, Sole, NEW o \in Op, NEW t \in Table, Update(o, t)
  PROVE  Sole'
<1>1. Busy(o) /\ Rest(o) /\ overlapped' = overlapped
  BY UpdateDoes DEF Busy
<1>2. ASSUME o \notin overlapped, Has(o)' PROVE Sees(o)'
  <2>1. stage[o] = "writing" /\ asked[o].kind = "update" /\ done[o] = Table \ pending[o]
        /\ t \in pending[o]
    BY <1>2, UpdateDoes DEF Has, Course, CourseOf
  <2>2. UpdateSees(o)
    BY <1>2, <2>1 DEF Sole, Has, Sees
  <2>3. UNCHANGED <<asked, held, processed, known>> /\ done'[o] = done[o] \cup {t}
    BY UpdateDoes
  <2>4. t \notin done[o]
    BY <2>1
  <2>5. CASE ~hasRow
    <3>1. UNCHANGED hasRow
      BY UpdateDoes DEF UpdateMeta, Table
    <3>2. QED
      BY <2>1, <2>2, <2>3, <2>5, <3>1 DEF Sees, UpdateSees
  <2>6. CASE hasRow /\ t = "row"
    <3>1. /\ UNCHANGED <<hasRow, hasMeta, meta>> /\ hasRow
          /\ row' = Overwritten(row, Values(processed[o]), Stamped(processed[o]))
      BY <2>2, <2>6, UpdateDoes DEF UpdateRow, UpdateSees
    <3>2. \A f \in Field : row'[f] = IF f \in Stamped(processed[o])
                                     THEN processed[o][f].value ELSE held[o][f].value
      BY <2>2, <2>4, <2>6, <3>1, ProcessedCells DEF Overwritten, UpdateSees
    <3>3. \A f \in Field : StampNow(f)' = StampNow(f)
      BY <3>1 DEF StampNow
    <3>4. "meta" \in done'[o] <=> "meta" \in done[o]
      BY <2>3, <2>6
    <3>5. UpdateSees(o)'
      BY <2>2, <2>3, <2>6, <3>1, <3>2, <3>3, <3>4 DEF UpdateSees
    <3>6. QED
      BY <2>1, <2>3, <3>5 DEF Sees
  <2>7. CASE hasRow /\ t = "meta"
    <3>0. UpdateMeta(o) /\ UNCHANGED <<hasRow, row>>
      BY <2>7, UpdateDoes
    <3>1. /\ UNCHANGED <<hasRow, row>> /\ hasRow /\ hasMeta'
          /\ meta' = Overwritten(IF hasMeta THEN meta ELSE [f \in Field |-> Unstamped],
                                 Stamps(processed[o]), Stamped(processed[o]))
      BY <2>7, <3>0 DEF UpdateMeta
    <3>2. \A f \in Field : StampNow(f)' = IF f \in Stamped(processed[o])
                                          THEN processed[o][f].stamp ELSE StampNow(f)
      BY <3>1, ProcessedCells DEF Overwritten, StampNow
    <3>3. \A f \in Field : StampNow(f)' = IF f \in Stamped(processed[o])
                                          THEN processed[o][f].stamp ELSE held[o][f].stamp
      BY <2>2, <2>4, <2>7, <3>2 DEF UpdateSees
    <3>4. "row" \in done'[o] <=> "row" \in done[o]
      BY <2>3, <2>7
    <3>5. UpdateSees(o)'
      BY <2>2, <2>3, <2>7, <3>1, <3>3, <3>4 DEF UpdateSees
    <3>6. QED
      BY <2>1, <2>3, <3>5 DEF Sees
  <2>8. QED
    BY <2>5, <2>6, <2>7 DEF Table
<1>3. QED
  BY <1>1, <1>2, SoleOwn

LEMMA InsertSole ==
  ASSUME TypeOK, Course, Absent, Apart, Sole, NEW o \in Op, Insert(o)
  PROVE  Sole'
<1>1. Busy(o) /\ Rest(o) /\ overlapped' = overlapped
  BY InsertDoes DEF Busy
<1>2. ASSUME o \notin overlapped, Has(o)' PROVE Sees(o)'
  <2>1. stage[o] = "writing" /\ asked[o].kind = "insert"
    BY InsertDoes DEF Course, CourseOf
  <2>2. InsertSees(o)
    BY <1>2, <2>1 DEF Sole, Has, Sees
  <2>3. UNCHANGED <<asked, processed, known>>
    BY InsertDoes
  <2>4. CASE pending[o] = {"row"}
    <3>1. /\ ~hasRow /\ hasRow' /\ done'[o] = {"row"}
          /\ row' = Overwritten([f \in Field |-> Null], Values(processed[o]), Stamped(processed[o]))
      BY <2>4, InsertDoes
    <3>2. ~known
      BY <3>1 DEF Absent
    <3>3. \A f \in Field : row'[f] = IF f \in Stamped(processed[o])
                                     THEN processed[o][f].value ELSE Null
      BY <3>1, ProcessedCells DEF Overwritten
    <3>4. InsertSees(o)'
      BY <2>3, <3>1, <3>2, <3>3 DEF InsertSees
    <3>5. QED
      BY <2>1, <2>3, <3>4 DEF Sees
  <2>5. CASE pending[o] = {"meta"}
    <3>1. /\ hasMeta' /\ UNCHANGED <<hasRow, row>> /\ done[o] = {"row"}
          /\ meta' = Overwritten([f \in Field |-> Unstamped], Stamps(processed[o]), Stamped(processed[o]))
      BY <2>1, <2>5, InsertDoes DEF Course, CourseOf
    <3>2. \A f \in Field : meta'[f] = IF f \in Stamped(processed[o])
                                      THEN processed[o][f].stamp ELSE Unstamped
      BY <3>1, ProcessedCells DEF Overwritten
    <3>3. InsertSees(o)'
      BY <2>2, <2>3, <3>1, <3>2 DEF InsertSees
    <3>4. QED
      BY <2>1, <2>3, <3>3 DEF Sees
  <2>6. QED
    BY <2>4, <2>5, InsertDoes
<1>3. QED
  BY <1>1, <1>2, SoleOwn

LEMMA ReadSole ==
  ASSUME TypeOK, Course, Sole, NEW o \in Op, Read(o)
  PROVE  Sole'
<1>1. /\ Rest(o) /\ UNCHANGED <<hasRow, row, hasMeta, meta, known, asked, processed, done>>
      /\ held'[o] = Stored /\ asked[o].kind = "update" /\ done[o] = {}
  BY ReadDoes DEF Course, CourseOf
<1>2. overlapped \subseteq overlapped'
  BY ReadDoes DEF Meets
<1>3. UpdateSees(o)'
  <2>1. CASE ~hasRow
    BY <1>1, <2>1 DEF Stored, UpdateSees
  <2>2. CASE hasRow
    <3>1. Stored = [f \in Field |-> [value |-> row[f], stamp |-> StampNow(f)]]
      BY <2>2 DEF Stored, StampNow
    <3>2. \A f \in Field : StampNow(f)' = StampNow(f)
      BY <1>1 DEF StampNow
    <3>3. DOMAIN Stored = Field
          /\ \A f \in Field : Stored[f].value = row[f] /\ Stored[f].stamp = StampNow(f)
      BY <3>1
    <3>4. QED
      BY <1>1, <2>2, <3>2, <3>3 DEF UpdateSees
  <2>3. QED
    BY <2>1, <2>2
<1>4. QED
  BY <1>1, <1>2, <1>3, SoleQuiet DEF Sees

LEMMA BeforeUpdateSole ==
  ASSUME TypeOK, Course, Sole, NEW o \in Op, NEW keep \in Kept, BeforeUpdate(o, keep)
  PROVE  Sole'
<1>1. /\ Rest(o) /\ stage[o] = "read" /\ overlapped' = overlapped
      /\ UNCHANGED <<hasRow, row, hasMeta, meta, known, asked, held, done>>
  BY BeforeUpdateDoes
<1>2. asked[o].kind = "update" /\ done[o] = {}
  BY <1>1 DEF Course, CourseOf
<1>3. ASSUME o \notin overlapped PROVE Sees(o)'
  <2>1. UpdateSees(o)
    BY <1>1, <1>2, <1>3 DEF Sole, Has, Sees
  <2>2. \A f \in Field : StampNow(f)' = StampNow(f)
    BY <1>1 DEF StampNow
  <2>3. UpdateSees(o)'
    BY <1>1, <1>2, <2>1, <2>2 DEF UpdateSees
  <2>4. QED
    BY <1>1, <1>2, <2>3 DEF Sees
<1>4. QED
  BY <1>1, <1>3, SoleQuiet

LEMMA TellSole ==
  ASSUME TypeOK, Course, Apart, Sole, NEW o \in Op, Tell(o)
  PROVE  Sole'
<1>1. Rest(o) /\ stage[o] = "written" /\ stage'[o] = "told" /\ overlapped' = overlapped
  BY TellDoes
<1>2. Busy(o) /\ ~(Has(o)')
  BY <1>1 DEF Busy, Has
<1>3. QED
  BY <1>1, <1>2, SoleOwn

LEMMA NextSole ==
  TypeOK /\ Course /\ Absent /\ Apart /\ Sole /\ [Next]_vars => Sole'
<1> SUFFICES ASSUME TypeOK, Course, Absent, Apart, Sole, [Next]_vars PROVE Sole'
  OBVIOUS
<1>1. ASSUME NEW o \in Op, NEW a \in Request, Begin(o, a) PROVE Sole'
  <2>1. ~(Has(o)')
    BY <1>1, BeginDoes DEF Has
  <2>2. QED
    BY <1>1, <2>1, BeginDoes, SoleQuiet
<1>2. ASSUME NEW o \in Op, NEW keep \in Kept, BeforeInsert(o, keep) PROVE Sole'
  <2>1. /\ Rest(o) /\ asked[o].kind = "insert" /\ overlapped \subseteq overlapped'
        /\ UNCHANGED <<hasRow, row, hasMeta, meta, known, asked, done>> /\ done[o] = {}
    BY <1>2, BeforeInsertDoes DEF Course, CourseOf, Meets
  <2>2. Sees(o)'
    BY <2>1 DEF Sees, InsertSees
  <2>3. QED
    BY <2>1, <2>2, SoleQuiet
<1>3. ASSUME NEW o \in Op, \/ Duplicate(o) \/ Answer(o)
                           \/ \E t \in Table : Refuse(o, t)
      PROVE  Sole'
  <2>1. /\ Rest(o) /\ overlapped' = overlapped /\ stage'[o] \in {"replied", "rejected"}
        /\ UNCHANGED <<hasRow, row, hasMeta, meta, known>>
    BY <1>3, DuplicateDoes, AnswerDoes, RefuseDoes
  <2>2. ~(Has(o)')
    BY <2>1 DEF Has
  <2>3. QED
    BY <2>1, <2>2, SoleQuiet
<1>4. CASE Fetch \/ UNCHANGED vars
  <2>1. UNCHANGED <<stage, asked, held, processed, done, hasRow, row, hasMeta, meta, known, overlapped>>
    BY <1>4, FetchDoes, NothingDone
  <2>2. \A f \in Field : StampNow(f)' = StampNow(f)
    BY <2>1 DEF StampNow
  <2>3. QED
    BY <2>1, <2>2 DEF Sole, Has, Sees, UpdateSees, InsertSees
<1>5. ASSUME NEW o \in Op, \/ Read(o) \/ Insert(o) \/ Tell(o)
                           \/ \E t \in Table : Update(o, t)
                           \/ \E keep \in Kept : BeforeUpdate(o, keep)
      PROVE  Sole'
  BY <1>5, ReadSole, InsertSole, TellSole, UpdateSole, BeforeUpdateSole
<1>6. ASSUME NEW o \in Op, NEW t \in Table, Refuse(o, t) PROVE Sole'
  BY <1>3, <1>6
<1>7. QED
  BY <1>1, <1>2, <1>3, <1>4, <1>5, <1>6 DEF Next

\* The invariant of what a request that has the row alone knows.
LoneInv == TypeOK /\ Course /\ Merges /\ Absent /\ Timely /\ Apart /\ Sole

LEMMA InitLone == Init => LoneInv
<1> SUFFICES ASSUME Init PROVE LoneInv
  OBVIOUS
<1>1. TypeOK
  BY InitType
<1>2. \A o \in Op : /\ stage[o] = "new" /\ pending[o] = {} /\ done[o] = {}
                    /\ held[o] = Nothing /\ processed[o] = Nothing
  BY DEF Init
<1>3. Course /\ Apart /\ Sole
  BY <1>2 DEF Course, CourseOf, Apart, Busy, Sole, Has
<1>4. Merges
  BY <1>2, NothingIsMerge DEF Merges
<1>5. Absent
  BY <1>2 DEF Init, Absent
<1>6. TimesOf(stage, asked, Nothing)
  BY NothingIsPartial DEF TimesOf
<1>7. \A f \in Field : StampNow(f) \in {Unstamped, 1}
  <2>1. meta = [f \in Field |-> IF hasRow THEN 1 ELSE Unstamped]
    BY DEF Init
  <2>2. \A f \in Field : meta[f] = Unstamped \/ meta[f] = 1
    BY <2>1, Zenon
  <2>3. QED
    BY <2>2, Zenon DEF StampNow
<1>8. Timely
  BY <1>2, <1>6, <1>7 DEF Timely, TimeOf
<1>9. QED
  BY <1>1, <1>3, <1>4, <1>5, <1>8 DEF LoneInv

LEMMA NextLone == LoneInv /\ [Next]_vars => LoneInv'
BY NextType, NextCourse, NextMerges, NextAbsent, NextTimely, NextApart, NextSole DEF LoneInv

-----------------------------------------------------------------------------
(* What is told was stored.                                                *)

\* Every value of rec that a request wrote is of one of S.
From(rec, S) == \A f \in DOMAIN rec : rec[f].value \in Op => rec[f].value \in S

LEMMA FromMerged ==
  ASSUME NEW base, NEW write, IsPartial(base), IsPartial(write), NEW S,
         From(base, S), From(write, S)
  PROVE  From(Merged(base, write), S)
<1> DEFINE m == Merged(base, write)
<1> SUFFICES ASSUME NEW f \in DOMAIN m, m[f].value \in Op
             PROVE  m[f].value \in S
  BY DEF From
<1>1. \/ f \in DOMAIN base /\ m[f] = base[f]
      \/ f \in DOMAIN write /\ m[f] = Accepted(f, write[f])
  BY MergedCells
<1>2. CASE f \in DOMAIN base /\ m[f] = base[f]
  BY <1>2 DEF From
<1>3. CASE f \in DOMAIN write /\ m[f] = Accepted(f, write[f])
  <2>1. write[f] \in Cell
    BY <1>3 DEF IsPartial
  <2>2. m[f].value = Converted(f, write[f].value)
    BY <1>3, <2>1, AcceptedType
  <2>3. m[f].value = write[f].value
    BY <2>1, <2>2, ConvertedType DEF Op, Cell
  <2>4. QED
    BY <1>3, <2>3 DEF From
<1>4. QED
  BY <1>1, <1>2, <1>3

LEMMA FromMore ==
  ASSUME NEW S, NEW T, S \subseteq T, NEW rec, From(rec, S)
  PROVE  From(rec, T)
BY DEF From

LEMMA FromRestricted ==
  ASSUME NEW rec, NEW S, NEW keep, From(rec, S)
  PROVE  From([f \in DOMAIN rec \cap keep |-> rec[f]], S)
BY DEF From

\* The updates that read no row and did not have it to themselves.
Unfound ==
  {o \in Op : /\ stage[o] \notin {"new", "admitted"}
              /\ asked[o].kind = "update" /\ held[o] = Nothing /\ o \in overlapped}

\* A request that read the row, or inserted it, wrote its values when its
\* statement was done. One that read none, and has the row in its hands while
\* it is there, overlapped with the request that inserted it.
ReachedBy(o) ==
  /\ held[o] # Nothing => hasRow
  /\ "row" \in done[o] /\ (asked[o].kind = "insert" \/ held[o] # Nothing) => o \in wrote
  /\ Field # {} /\ asked[o].kind = "update" /\ Busy(o) /\ held[o] = Nothing /\ hasRow =>
       o \in overlapped
Reached == \A o \in Op : ReachedBy(o)

Provenance ==
  /\ \A f \in Field : row[f] \in Op => row[f] \in wrote
  /\ \A o \in Op : From(held[o], wrote) /\ From(processed[o], wrote \cup {o})
  /\ From(heard, wrote \cup Unfound)

LEMMA InitReached == Init => Reached
BY DEF Init, Reached, ReachedBy, Busy

LEMMA InitProvenance == Init => Provenance
<1> SUFFICES ASSUME Init PROVE Provenance
  OBVIOUS
<1>1. Null \notin Op /\ Zero \notin Op
  BY MergeAssumption DEF Op
<1>2. \A f \in Field : row[f] \notin Op
  BY <1>1 DEF Init
<1>3. \A o \in Op : DOMAIN held[o] = {} /\ DOMAIN processed[o] = {}
  BY NothingIsPartial DEF Init
<1>4. \A f \in DOMAIN heard : heard[f].value \notin Op
  BY <1>1, NothingIsPartial DEF Init, Converted
<1>5. QED
  BY <1>2, <1>3, <1>4 DEF Provenance, From

\* Only the statement of a row adds to what was written.
LEMMA WroteGrows ==
  ASSUME [Next]_vars
  PROVE  wrote \subseteq wrote'
<1>1. ASSUME NEW o \in Op,
             \/ \E a \in Request : Begin(o, a)
             \/ \E keep \in Kept : BeforeUpdate(o, keep) \/ BeforeInsert(o, keep)
             \/ \E t \in Table : Refuse(o, t)
             \/ Read(o) \/ Duplicate(o) \/ Tell(o) \/ Answer(o)
      PROVE  UNCHANGED wrote
  BY <1>1 DEF Begin, BeforeUpdate, BeforeInsert, Refuse, Read, Duplicate, Tell, Answer, history
<1>2. ASSUME NEW o \in Op, (\E t \in Table : Update(o, t)) \/ Insert(o)
      PROVE  wrote \subseteq wrote'
  BY <1>2 DEF Update, Insert
<1>3. CASE Fetch \/ UNCHANGED vars
  BY <1>3 DEF Fetch, vars, history
<1>4. QED
  BY <1>1, <1>2, <1>3 DEF Next

\* A request that found no row, once it has read, stays one.
LEMMA UnfoundGrows ==
  ASSUME TypeOK, [Next]_vars
  PROVE  Unfound \subseteq Unfound'
<1>0. overlapped \subseteq overlapped'
  BY OverlappedGrows
<1>1. ASSUME NEW o \in Op, Rest(o), asked'[o] = asked[o], held'[o] = held[o],
             stage'[o] \notin {"new", "admitted"}
      PROVE  Unfound \subseteq Unfound'
  BY <1>0, <1>1 DEF Unfound, Rest
<1>2. ASSUME NEW o \in Op, Rest(o), stage[o] \in {"new", "admitted"}
      PROVE  Unfound \subseteq Unfound'
  BY <1>0, <1>2 DEF Unfound, Rest
<1>3. ASSUME NEW o \in Op, Rest(o), UNCHANGED <<stage, asked, held>>
      PROVE  Unfound \subseteq Unfound'
  BY <1>0, <1>3 DEF Unfound
<1>4. ASSUME NEW o \in Op, (\E a \in Request : Begin(o, a)) \/ Read(o)
      PROVE  Unfound \subseteq Unfound'
  BY <1>2, <1>4, BeginDoes, ReadDoes
<1>5. ASSUME NEW o \in Op, NEW keep \in Kept, BeforeUpdate(o, keep) \/ BeforeInsert(o, keep)
      PROVE  Unfound \subseteq Unfound'
  <2>1. Rest(o) /\ stage'[o] \notin {"new", "admitted"} /\ UNCHANGED <<asked, held>>
    BY <1>5, BeforeUpdateDoes, BeforeInsertDoes
  <2>2. QED
    BY <1>1, <2>1
<1>6. ASSUME NEW o \in Op, (\E t \in Table : Update(o, t)) \/ Insert(o)
      PROVE  Unfound \subseteq Unfound'
  <2>1. Rest(o) /\ UNCHANGED <<asked, held>>
        /\ (stage'[o] = "written" \/ stage'[o] = stage[o])
    BY <1>6, UpdateDoes, InsertDoes
  <2>2. QED
    BY <1>0, <2>1 DEF Unfound, Rest
<1>7. ASSUME NEW o \in Op, (\E t \in Table : Refuse(o, t)) \/ Duplicate(o) \/ Tell(o) \/ Answer(o)
      PROVE  Unfound \subseteq Unfound'
  <2>1. Rest(o) /\ stage'[o] \notin {"new", "admitted"} /\ UNCHANGED <<asked, held>>
    BY <1>7, RefuseDoes, DuplicateDoes, TellDoes, AnswerDoes
  <2>2. QED
    BY <1>1, <2>1
<1>8. CASE Fetch \/ UNCHANGED vars
  BY <1>0, <1>8, FetchDoes, NothingDone DEF Unfound
<1>9. QED
  BY <1>4, <1>5, <1>6, <1>7, <1>8 DEF Next

LEMMA NextReached == TypeOK /\ Course /\ Apart /\ Reached /\ [Next]_vars => Reached'
<1> SUFFICES ASSUME TypeOK, Course, Apart, Reached, [Next]_vars PROVE Reached'
  OBVIOUS
<1>0. wrote \subseteq wrote' /\ overlapped \subseteq overlapped'
  BY WroteGrows, OverlappedGrows
<1>1. ASSUME NEW o \in Op, Rest(o), hasRow' = hasRow, ReachedBy(o)' PROVE Reached'
  <2>1. ASSUME NEW p \in Op \ {o} PROVE ReachedBy(p)'
    BY <1>0, <1>1 DEF Reached, ReachedBy, Rest, Busy
  <2>2. QED
    BY <1>1, <2>1 DEF Reached
<1>2. ASSUME NEW o \in Op PROVE ReachedBy(o) /\ CourseOf(o) /\ pending[o] \in SUBSET Table
  BY DEF Reached, Course, TypeOK
<1>3. ASSUME NEW o \in Op, hasRow' = hasRow, asked'[o] = asked[o], held'[o] = held[o],
             done'[o] = done[o], Busy(o)' => Busy(o)
      PROVE  ReachedBy(o)'
  BY <1>0, <1>2, <1>3 DEF ReachedBy
<1>4. ASSUME NEW o \in Op, NEW a \in Request, Begin(o, a) PROVE Reached'
  <2>1. ReachedBy(o)'
    BY <1>0, <1>2, <1>4, BeginDoes DEF ReachedBy, CourseOf, Busy
  <2>2. QED
    BY <1>1, <1>4, <2>1, BeginDoes
<1>5. ASSUME NEW o \in Op, Read(o) PROVE Reached'
  <2>1. done'[o] = {} /\ hasRow' = hasRow /\ held'[o] = Stored
    BY <1>2, <1>5, ReadDoes DEF CourseOf
  <2>2. hasRow /\ Field # {} => Stored # Nothing
    BY NothingIsPartial DEF Stored
  <2>3. ~hasRow => Stored = Nothing
    BY DEF Stored
  <2>4. ReachedBy(o)'
    BY <2>1, <2>2, <2>3 DEF ReachedBy
  <2>5. QED
    BY <1>1, <1>5, <2>4, ReadDoes
<1>6. ASSUME NEW o \in Op, NEW keep \in Kept, BeforeUpdate(o, keep) PROVE Reached'
  <2>1. Busy(o)
    BY <1>6, BeforeUpdateDoes DEF Busy
  <2>2. ReachedBy(o)'
    BY <1>3, <1>6, <2>1, BeforeUpdateDoes
  <2>3. QED
    BY <1>1, <1>6, <2>2, BeforeUpdateDoes
<1>7. ASSUME NEW o \in Op, NEW keep \in Kept, BeforeInsert(o, keep) PROVE Reached'
  <2>1. ReachedBy(o)'
    BY <1>0, <1>2, <1>7, BeforeInsertDoes DEF ReachedBy
  <2>2. QED
    BY <1>1, <1>7, <2>1, BeforeInsertDoes
<1>8. ASSUME NEW o \in Op, NEW t \in Table, Update(o, t) PROVE Reached'
  <2>1. /\ Rest(o) /\ hasRow' = hasRow /\ asked' = asked /\ held' = held /\ t \in pending[o]
        /\ asked[o].kind = "update" /\ done'[o] = done[o] \cup {t}
    BY <1>8, UpdateDoes DEF UpdateRow, UpdateMeta, Table
  <2>2. Busy(o)
    BY <2>1 DEF Busy
  <2>3. t = "row" /\ hasRow => o \in wrote'
    BY <1>8 DEF Update
  <2>4. ReachedBy(o)'
    BY <1>0, <1>2, <2>1, <2>2, <2>3 DEF ReachedBy
  <2>5. QED
    BY <1>1, <2>1, <2>4
<1>9. ASSUME NEW o \in Op, Insert(o) PROVE Reached'
  <2>1. Rest(o) /\ asked' = asked /\ held' = held /\ asked[o].kind = "insert" /\ Busy(o)
    BY <1>9, InsertDoes DEF Busy
  <2>2. \/ pending[o] = {"row"} /\ hasRow' /\ o \in wrote'
        \/ pending[o] = {"meta"} /\ hasRow' = hasRow /\ "row" \in done[o]
    BY <1>2, <1>9, <2>1, InsertDoes DEF CourseOf, Insert
  <2>3. hasRow => hasRow'
    BY <2>2
  <2>4. ReachedBy(o)'
    BY <1>0, <1>2, <2>1, <2>2, <2>3 DEF ReachedBy
  <2>5. ASSUME NEW p \in Op \ {o} PROVE ReachedBy(p)'
    <3>1. Busy(p) => p \in overlapped
      BY <2>1 DEF Apart
    <3>2. /\ held'[p] = held[p] /\ asked'[p] = asked[p] /\ done'[p] = done[p]
          /\ Busy(p)' => Busy(p)
      BY <2>1 DEF Rest, Busy
    <3>3. QED
      BY <1>0, <1>2, <2>3, <3>1, <3>2 DEF ReachedBy
  <2>6. QED
    BY <2>4, <2>5 DEF Reached
<1>10. ASSUME NEW o \in Op, \/ Duplicate(o) \/ Tell(o) \/ Answer(o)
                            \/ \E t \in Table : Refuse(o, t)
       PROVE  Reached'
  <2>1. Rest(o) /\ UNCHANGED <<hasRow, asked, held, done>>
    BY <1>10, DuplicateDoes, TellDoes, AnswerDoes, RefuseDoes
  <2>2. Busy(o)' => Busy(o)
    BY <1>10, DuplicateDoes, TellDoes, AnswerDoes, RefuseDoes DEF Busy
  <2>3. ReachedBy(o)'
    BY <1>3, <2>1, <2>2
  <2>4. QED
    BY <1>1, <2>1, <2>3
<1>11. CASE Fetch \/ UNCHANGED vars
  <2>1. UNCHANGED <<hasRow, stage, asked, held, pending, done>>
    BY <1>11, FetchDoes, NothingDone
  <2>2. ASSUME NEW o \in Op PROVE ReachedBy(o)'
    <3>1. Busy(o)' => Busy(o)
      BY <2>1 DEF Busy
    <3>2. QED
      BY <1>3, <2>1, <3>1
  <2>3. QED
    BY <2>2 DEF Reached
<1>12. QED
  BY <1>4, <1>5, <1>6, <1>7, <1>8, <1>9, <1>10, <1>11 DEF Next

LEMMA FromStored ==
  ASSUME TypeOK, Provenance
  PROVE  From(Stored, wrote)
BY StoredType DEF Provenance, From

LEMMA FromWrite ==
  ASSUME TypeOK, NEW o \in Op
  PROVE  From(Write(asked[o], o), wrote \cup {o})
<1>1. asked[o] \in Asked
  BY DEF TypeOK
<1>2. Null \notin Op
  BY MergeAssumption DEF Op
<1>3. QED
  BY <1>1, <1>2, WriteType DEF From

LEMMA FromBefore ==
  ASSUME TypeOK, NEW o \in Op, NEW keep, NEW from, IsPartial(from), From(from, wrote \cup {o})
  PROVE  From([f \in DOMAIN Merged(from, Write(asked[o], o)) \cap keep
                 |-> Merged(from, Write(asked[o], o))[f]], wrote \cup {o})
<1>1. IsPartial(Write(asked[o], o))
  BY WriteType DEF TypeOK
<1>2. From(Merged(from, Write(asked[o], o)), wrote \cup {o})
  BY <1>1, FromWrite, FromMerged
<1>3. QED
  BY <1>2, FromRestricted

\* What is written to the row comes from the record of the request.
LEMMA RowFrom ==
  ASSUME TypeOK, Provenance, NEW o \in Op, NEW old, NEW f \in Field,
         old[f] \in Op => old[f] \in wrote,
         Overwritten(old, Values(processed[o]), Stamped(processed[o]))[f] \in Op
  PROVE  Overwritten(old, Values(processed[o]), Stamped(processed[o]))[f] \in wrote \cup {o}
<1>1. CASE f \notin Stamped(processed[o])
  BY <1>1 DEF Overwritten
<1>2. CASE f \in Stamped(processed[o])
  <2>1. Overwritten(old, Values(processed[o]), Stamped(processed[o]))[f] = processed[o][f].value
    BY <1>2, ProcessedCells DEF Overwritten
  <2>2. f \in DOMAIN processed[o]
    BY <1>2 DEF Stamped
  <2>3. QED
    BY <2>1, <2>2 DEF Provenance, From
<1>3. QED
  BY <1>1, <1>2

LEMMA WrittenProvenance ==
  ASSUME TypeOK, Provenance, NEW o \in Op, NEW t \in Table, Update(o, t) \/ Insert(o)
  PROVE  \A f \in Field : row'[f] \in Op => row'[f] \in wrote'
<1>0. \A f \in Field : row[f] \in Op => row[f] \in wrote
  BY DEF Provenance
<1>1. wrote \subseteq wrote'
  BY DEF Update, Insert
<1>2. CASE UNCHANGED row
  BY <1>0, <1>1, <1>2
<1>3. ASSUME NEW old, \A f \in Field : old[f] \in Op => old[f] \in wrote,
             row' = Overwritten(old, Values(processed[o]), Stamped(processed[o])),
             o \in wrote'
      PROVE  \A f \in Field : row'[f] \in Op => row'[f] \in wrote'
  BY <1>1, <1>3, RowFrom
<1>4. CASE Update(o, t)
  <2>1. UNCHANGED row
        \/ /\ row' = Overwritten(row, Values(processed[o]), Stamped(processed[o]))
           /\ o \in wrote'
    BY <1>4 DEF Update, UpdateRow
  <2>2. QED
    BY <1>0, <1>2, <1>3, <2>1
<1>5. CASE Insert(o)
  <2> DEFINE blank == [f \in Field |-> Null]
  <2>1. UNCHANGED row
        \/ /\ row' = Overwritten(blank, Values(processed[o]), Stamped(processed[o]))
           /\ o \in wrote'
    BY <1>5 DEF Insert
  <2>2. \A f \in Field : blank[f] \notin Op
    BY MergeAssumption DEF Op
  <2> HIDE DEF blank
  <2>3. QED
    BY <1>2, <1>3, <2>1, <2>2
<1>6. QED
  BY <1>4, <1>5

\* A request that tells the engine has written its values, or is one of those
\* that found no row.
LEMMA TellsWritten ==
  ASSUME TypeOK, Course, Reached, NEW o \in Op, Tell(o), heard' # heard, Field # {}
  PROVE  o \in wrote \cup Unfound
<1>1. /\ stage[o] = "written" /\ asked[o].kind \in {"insert", "update"}
      /\ asked[o].kind = "insert" \/ hasRow
  BY DEF TypeOK, Asked, Tell, subscriber
<1>2. "row" \in done[o] /\ Busy(o)
  BY <1>1 DEF Course, CourseOf, Busy, Table
<1>3. QED
  BY <1>1, <1>2 DEF Reached, ReachedBy, Unfound

LEMMA NextProvenance ==
  TypeOK /\ Course /\ Reached /\ Provenance /\ [Next]_vars => Provenance'
<1> SUFFICES ASSUME TypeOK, Course, Reached, Provenance, [Next]_vars PROVE Provenance'
  OBVIOUS
<1>0. wrote \subseteq wrote' /\ Unfound \subseteq Unfound'
  BY WroteGrows, UnfoundGrows
<1>1. ASSUME UNCHANGED row
      PROVE  \A f \in Field : row'[f] \in Op => row'[f] \in wrote'
  BY <1>0, <1>1 DEF Provenance
<1>2. ASSUME UNCHANGED held PROVE \A o \in Op : From(held'[o], wrote')
  BY <1>0, <1>2 DEF Provenance, From
<1>3. ASSUME UNCHANGED processed PROVE \A o \in Op : From(processed'[o], wrote' \cup {o})
  BY <1>0, <1>3 DEF Provenance, From
<1>4. ASSUME NEW S, S \subseteq wrote \cup Unfound, From(heard', S)
      PROVE  From(heard', wrote' \cup Unfound')
  BY <1>0, <1>4 DEF From
<1>5. ASSUME UNCHANGED heard PROVE From(heard', wrote' \cup Unfound')
  BY <1>4, <1>5 DEF Provenance
<1>6. ASSUME NEW o \in Op, NEW rec, From(rec, wrote \cup {o}),
             processed' = [processed EXCEPT ![o] = rec]
      PROVE  \A p \in Op : From(processed'[p], wrote' \cup {p})
  <2>1. DOMAIN processed = Op /\ \A p \in Op : From(processed[p], wrote \cup {p})
    BY DEF TypeOK, Provenance
  <2>2. \A p \in Op : From(processed'[p], wrote \cup {p})
    BY <1>6, <2>1
  <2>3. QED
    BY <1>0, <2>2 DEF From
<1>7. CASE UNCHANGED <<row, held, processed, heard>>
  BY <1>1, <1>2, <1>3, <1>5, <1>7 DEF Provenance
<1>8. ASSUME NEW o \in Op, Read(o) PROVE Provenance'
  <2>1. DOMAIN held = Op /\ \A p \in Op : From(held[p], wrote)
    BY DEF TypeOK, Provenance
  <2>2. held' = [held EXCEPT ![o] = Stored] /\ UNCHANGED <<row, processed, heard>>
    BY <1>8 DEF Read, database, subscriber
  <2>3. \A p \in Op : From(held'[p], wrote)
    BY <2>1, <2>2, FromStored
  <2>4. \A p \in Op : From(held'[p], wrote')
    BY <1>0, <2>3 DEF From
  <2>5. QED
    BY <1>1, <1>3, <1>5, <2>2, <2>4 DEF Provenance
<1>9. ASSUME NEW o \in Op, NEW keep \in Kept, BeforeUpdate(o, keep) PROVE Provenance'
  <2> DEFINE rec == [f \in DOMAIN Merged(held[o], Write(asked[o], o)) \cap keep
                       |-> Merged(held[o], Write(asked[o], o))[f]]
  <2>1. IsPartial(held[o]) /\ From(held[o], wrote)
    BY DEF TypeOK, Provenance
  <2>2. From(held[o], wrote \cup {o})
    BY <2>1 DEF From
  <2>3. From(rec, wrote \cup {o})
    BY <2>1, <2>2, FromBefore
  <2>4. processed' = [processed EXCEPT ![o] = rec] \/ UNCHANGED processed
    BY <1>9 DEF BeforeUpdate
  <2>5. UNCHANGED <<row, held, heard>>
    BY <1>9 DEF BeforeUpdate, database, subscriber
  <2> HIDE DEF rec
  <2>6. \A p \in Op : From(processed'[p], wrote' \cup {p})
    BY <1>3, <1>6, <2>3, <2>4
  <2>7. QED
    BY <1>1, <1>2, <1>5, <2>5, <2>6 DEF Provenance
<1>10. ASSUME NEW o \in Op, NEW keep \in Kept, BeforeInsert(o, keep) PROVE Provenance'
  <2> DEFINE rec == [f \in DOMAIN Merged(Nothing, Write(asked[o], o)) \cap keep
                       |-> Merged(Nothing, Write(asked[o], o))[f]]
  <2>1. From(Nothing, wrote \cup {o})
    BY NothingIsPartial DEF From
  <2>2. From(rec, wrote \cup {o})
    BY <2>1, NothingIsPartial, FromBefore
  <2>3. processed' = [processed EXCEPT ![o] = rec] \/ UNCHANGED processed
    BY <1>10 DEF BeforeInsert
  <2>4. UNCHANGED <<row, held, heard>>
    BY <1>10 DEF BeforeInsert, database, subscriber
  <2> HIDE DEF rec
  <2>5. \A p \in Op : From(processed'[p], wrote' \cup {p})
    BY <1>3, <1>6, <2>2, <2>3
  <2>6. QED
    BY <1>1, <1>2, <1>5, <2>4, <2>5 DEF Provenance
<1>11. ASSUME NEW o \in Op, NEW t \in Table, Update(o, t) \/ Insert(o) PROVE Provenance'
  <2>1. UNCHANGED <<held, processed, heard>>
    BY <1>11 DEF Update, Insert, subscriber
  <2>2. QED
    BY <1>2, <1>3, <1>5, <1>11, <2>1, WrittenProvenance DEF Provenance
<1>12. ASSUME NEW o \in Op, Tell(o) PROVE Provenance'
  <2> DEFINE S == wrote \cup Unfound
  <2>1. UNCHANGED <<row, held, processed>>
    BY <1>12 DEF Tell, database
  <2>2. heard' = heard \/ heard' = Merged(heard, Delta(o))
    BY <1>12 DEF Tell, Notified, subscriber
  <2>3. CASE heard' = heard
    BY <1>1, <1>2, <1>3, <1>5, <2>1, <2>3 DEF Provenance
  <2>4. ASSUME heard' # heard PROVE From(heard', wrote' \cup Unfound')
    <3>1. From(processed[o], wrote \cup {o})
      BY DEF Provenance
    <3>2. \A f \in DOMAIN Delta(o) :
            f \in Field /\ f \in DOMAIN processed[o] /\ Delta(o)[f] = processed[o][f]
      BY DeltaType DEF IsPartial
    <3>3. Field # {} => o \in S
      BY <1>12, <2>4, TellsWritten
    <3>4. From(Delta(o), S)
      BY <3>1, <3>2, <3>3 DEF From
    <3>5. IsPartial(heard) /\ From(heard, S)
      BY DEF TypeOK, Provenance
    <3> HIDE DEF S
    <3>6. From(heard', S)
      BY <2>2, <2>4, <3>4, <3>5, DeltaType, FromMerged
    <3>7. QED
      BY <1>4, <3>6 DEF S
  <2>5. QED
    BY <1>1, <1>2, <1>3, <2>1, <2>3, <2>4 DEF Provenance
<1>13. CASE Fetch
  <2> DEFINE S == wrote \cup Unfound
  <2>1. UNCHANGED <<row, held, processed>> /\ heard' = Merged(heard, Stored)
    BY <1>13 DEF Fetch, database, requests
  <2>2. IsPartial(heard) /\ From(heard, S) /\ IsPartial(Stored)
    BY StoredType DEF TypeOK, Provenance
  <2>3. From(Stored, S)
    BY FromStored DEF From
  <2> HIDE DEF S
  <2>4. From(heard', S)
    BY <2>1, <2>2, <2>3, FromMerged
  <2>5. From(heard', wrote' \cup Unfound')
    BY <1>4, <2>4 DEF S
  <2>6. QED
    BY <1>1, <1>2, <1>3, <2>1, <2>5 DEF Provenance
<1>14. ASSUME NEW o \in Op,
              \/ \E a \in Request : Begin(o, a)
              \/ \E t \in Table : Refuse(o, t)
              \/ Duplicate(o) \/ Answer(o)
       PROVE  Provenance'
  <2>1. UNCHANGED <<row, held, processed, heard>>
    BY <1>14 DEF Begin, Refuse, Duplicate, Answer, database, subscriber
  <2>2. QED
    BY <1>7, <2>1
<1>15. CASE UNCHANGED vars
  BY <1>7, <1>15 DEF vars, database, requests, subscriber
<1>16. QED
  BY <1>8, <1>9, <1>10, <1>11, <1>12, <1>13, <1>14, <1>15 DEF Next, Table

\* Whatever requests overlap and whatever fails, the value a subscriber is told
\* was in the row (rawUpdate and rawInsert tell the engine last), or is of an
\* UPDATE that found no row and overlapped with the request that inserted it.
THEOREM ToldIsStored == Spec => []HeardWasStored
<1>1. TypeOK /\ Provenance => HeardWasStored
  BY DEF Provenance, HeardWasStored, From, Unfound
<1>2. LoneInv => TypeOK /\ Course /\ Apart
  BY DEF LoneInv
<1>3. QED
  BY <1>1, <1>2, InitLone, NextLone, InitReached, NextReached, InitProvenance, NextProvenance,
     PTL DEF Spec

-----------------------------------------------------------------------------
(* The newest write of a field stays.                                      *)

\* The cell that a request writes when nothing later is there.
Own(a, o, f) ==
  [value |-> Converted(f, IF f \in a.nulls THEN Null ELSE o), stamp |-> a.stamp]

LEMMA WriteIsOwn ==
  ASSUME NEW a \in Asked, NEW o \in Op, NEW f \in a.fields
  PROVE  /\ f \in DOMAIN Write(a, o) /\ Write(a, o)[f] \in Cell
         /\ Write(a, o)[f].stamp = a.stamp
         /\ Accepted(f, Write(a, o)[f]) = Own(a, o, f)
<1>1. Write(a, o)[f] = [value |-> IF f \in a.nulls THEN Null ELSE o, stamp |-> a.stamp]
      /\ f \in DOMAIN Write(a, o)
  BY DEF Write
<1>2. Write(a, o)[f] \in Cell
  BY <1>1, WriteType DEF IsPartial
<1>3. QED
  BY <1>1, <1>2 DEF Accepted, Own

LEMMA MergeTakes ==
  ASSUME NEW a \in Asked, NEW o \in Op, NEW f \in a.fields, NEW base, IsPartial(base),
         f \in DOMAIN base => base[f].stamp <= a.stamp
  PROVE  Merged(base, Write(a, o))[f] = Own(a, o, f)
<1>1. f \in DOMAIN base => base[f].stamp \in Nat
  BY DEF IsPartial, Cell
<1>2. a.stamp \in Nat
  BY DEF Asked
<1>3. f \in DOMAIN base => ~Late(base[f], Write(a, o)[f])
  BY <1>1, <1>2, WriteIsOwn DEF Late
<1>4. QED
  BY <1>3, WriteIsOwn DEF Merged, MergedField

LEMMA MergeRefuses ==
  ASSUME NEW a \in Asked, NEW o \in Op, NEW base, IsPartial(base), NEW f \in DOMAIN base,
         f \in a.fields => a.stamp < base[f].stamp
  PROVE  Merged(base, Write(a, o))[f] = base[f]
<1>1. base[f].stamp \in Nat
  BY DEF IsPartial, Cell
<1>2. CASE f \notin a.fields
  BY <1>2 DEF Merged, Write
<1>3. CASE f \in a.fields
  <2>1. a.stamp \in Nat /\ a.stamp # Unstamped /\ base[f].stamp # Unstamped
    BY <1>1, <1>3 DEF Asked, Unstamped
  <2>2. Late(base[f], Write(a, o)[f])
    BY <1>1, <1>3, <2>1, WriteIsOwn DEF Late
  <2>3. QED
    BY <1>3, <2>2, WriteIsOwn DEF Merged, MergedField
<1>4. QED
  BY <1>2, <1>3

\* No time that a request holds of a field is later than the newest write's.
LEMMA NewestIsLast ==
  ASSUME TypeOK, NEW o \in Op, NEW f, Newest(o, f), NEW t, TimeOf(stage, asked, f, t)
  PROVE  t <= asked[o].stamp
<1>1. asked \in [Op -> Asked]
  BY DEF TypeOK
<1>2. \A p \in Op : asked[p].stamp \in Nat
  BY <1>1 DEF Asked
<1>3. CASE t \in {Unstamped, 1}
  BY <1>2, <1>3 DEF Newest, Unstamped
<1>4. ASSUME NEW p \in Op, stage[p] # "new", f \in asked[p].fields, t = asked[p].stamp
      PROVE  t <= asked[o].stamp
  BY <1>2, <1>4 DEF Newest
<1>5. QED
  BY <1>3, <1>4 DEF TimeOf

\* What a request merges into its newest field is what it writes.
LEMMA NewestIsOwn ==
  ASSUME TypeOK, Merges, Timely, NEW o \in Op, NEW f, Newest(o, f)
  PROVE  f \in Stamped(processed[o]) /\ processed[o][f] = Own(asked[o], o, f)
<1>1. /\ f \in asked[o].fields /\ f \in DOMAIN processed[o] /\ asked[o] \in Asked
      /\ asked[o].stamp \in Nat \ {0}
  BY DEF Newest, TypeOK, Asked
<1> DEFINE base == IF asked[o].kind = "insert" THEN Nothing ELSE held[o]
<1>2. IsPartial(base)
  BY NothingIsPartial DEF TypeOK
<1>3. f \in DOMAIN base => base[f].stamp <= asked[o].stamp
  BY NothingIsPartial, NewestIsLast DEF Timely, TimesOf
<1>4. processed[o][f] = Merged(base, Write(asked[o], o))[f]
  BY <1>1 DEF Merges, IsMerge, MergeWith
<1> HIDE DEF base
<1>5. processed[o][f] = Own(asked[o], o, f)
  BY <1>1, <1>2, <1>3, <1>4, MergeTakes
<1>6. QED
  BY <1>1, <1>5 DEF Stamped, Own, Unstamped

OwnStored(o, f) ==
  /\ hasRow /\ row[f] = Own(asked[o], o, f).value
  /\ hasMeta /\ meta[f] = Own(asked[o], o, f).stamp

LEMMA WrittenIsStored ==
  ASSUME LoneInv, NEW o \in Op \ overlapped, stage[o] = "written", NEW f \in Field, Newest(o, f)
  PROVE  OwnStored(o, f)
<1>1. f \in Stamped(processed[o]) /\ processed[o][f] = Own(asked[o], o, f)
  BY NewestIsOwn DEF LoneInv
<1>2. Sees(o) /\ done[o] = Table
  BY DEF LoneInv, Sole, Has, Course, CourseOf
<1>3. CASE asked[o].kind = "update"
  <2>1. UpdateSees(o) /\ held[o] # Nothing
    BY <1>2, <1>3 DEF Sees, Newest
  <2>2. hasRow /\ hasMeta /\ row[f] = processed[o][f].value /\ StampNow(f) = processed[o][f].stamp
    BY <1>1, <1>2, <2>1 DEF UpdateSees, Table
  <2>3. QED
    BY <1>1, <2>2 DEF OwnStored, StampNow
<1>4. CASE asked[o].kind # "update"
  BY <1>1, <1>2, <1>4 DEF Sees, InsertSees, OwnStored, Table
<1>5. QED
  BY <1>3, <1>4

\* What a later request has in its hands keeps the newest write of a field.
Keeps(p, o, f) ==
  /\ stage[p] = "read" => f \in DOMAIN held[p] /\ held[p][f] = Own(asked[o], o, f)
  /\ pending[p] # {} /\ asked[p].kind = "update" /\ f \in Stamped(processed[p]) =>
       processed[p][f] = Own(asked[o], o, f)
  /\ asked[p].kind = "insert" => pending[p] # {"meta"}
Stays(o, f) == OwnStored(o, f) /\ \A p \in Op \ {o} : Keeps(p, o, f)
Settled ==
  \A o \in Op \ overlapped, f \in Field :
    stage[o] # "written" /\ done[o] = Table /\ Newest(o, f) => Stays(o, f)

LEMMA SettledNow ==
  ASSUME LoneInv, Settled, NEW o \in Op \ overlapped, NEW f \in Field,
         done[o] = Table, Newest(o, f)
  PROVE  Stays(o, f)
<1>1. CASE stage[o] = "written"
  <2>1. OwnStored(o, f)
    BY <1>1, WrittenIsStored
  <2>2. \A p \in Op \ {o} : ~Busy(p)
    BY <1>1 DEF LoneInv, Apart, Busy
  <2>3. \A p \in Op \ {o} : Keeps(p, o, f)
    BY <2>2 DEF Keeps, Busy
  <2>4. QED
    BY <2>1, <2>3 DEF Stays
<1>2. QED
  BY <1>1 DEF Settled

LEMMA DoneSentAll ==
  ASSUME TypeOK, Course, NEW o \in Op, done[o] = Table
  PROVE  stage[o] \notin {"new", "admitted", "read"} /\ pending[o] = {}
<1>1. CourseOf(o) /\ asked[o].kind \in {"insert", "update"} /\ pending[o] \in SUBSET Table
  BY DEF Course, TypeOK, Asked
<1>2. QED
  BY <1>1 DEF CourseOf, Table

\* The request whose statements are done is not changed by any step.
LEMMA DoneIsFixed ==
  ASSUME TypeOK, Course, [Next]_vars, NEW o \in Op
  PROVE  /\ done[o] = Table =>
              /\ asked'[o] = asked[o] /\ held'[o] = held[o] /\ processed'[o] = processed[o]
              /\ stage[o] # "new" /\ pending[o] = {} /\ done'[o] = Table
         /\ done'[o] = Table => done[o] = Table \/ stage'[o] = "written"
<1>0. CourseOf(o) /\ Table # {} /\ stage[o] \in Stage /\ asked[o].kind \in {"insert", "update"}
      /\ done[o] \in SUBSET Table /\ pending[o] \in SUBSET Table
  BY DEF Course, TypeOK, Asked, Table
<1>1. done[o] = Table => stage[o] \notin {"new", "admitted", "read"} /\ pending[o] = {}
  BY DoneSentAll
<1>2. ASSUME NEW q \in Op, Rest(q), q # o PROVE
         /\ asked'[o] = asked[o] /\ held'[o] = held[o] /\ processed'[o] = processed[o]
         /\ done'[o] = done[o]
  BY <1>2 DEF Rest
<1>3. ASSUME UNCHANGED <<asked, held, processed, done>>
      PROVE  /\ asked'[o] = asked[o] /\ held'[o] = held[o] /\ processed'[o] = processed[o]
             /\ done'[o] = done[o]
  BY <1>3
<1>4. ASSUME NEW q \in Op, \/ \E a \in Request : Begin(q, a)
                           \/ \E keep \in Kept : BeforeUpdate(q, keep) \/ BeforeInsert(q, keep)
                           \/ Read(q)
      PROVE  Rest(q) /\ stage[q] \in {"new", "admitted", "read"} /\ done' = done
  BY <1>4, BeginDoes, BeforeUpdateDoes, BeforeInsertDoes, ReadDoes
<1>5. ASSUME NEW q \in Op, \/ \E t \in Table : Refuse(q, t)
                           \/ Duplicate(q) \/ Tell(q) \/ Answer(q)
      PROVE  UNCHANGED <<asked, held, processed, done>>
  BY <1>5, RefuseDoes, DuplicateDoes, TellDoes, AnswerDoes
<1>6. ASSUME NEW t \in Table, Update(o, t)
      PROVE  /\ UNCHANGED <<asked, held, processed>> /\ pending[o] # {}
             /\ done'[o] = Table => stage'[o] = "written"
  BY <1>0, <1>6, UpdateDoes DEF CourseOf, Table
<1>7. ASSUME Insert(o)
      PROVE  /\ UNCHANGED <<asked, held, processed>> /\ pending[o] # {}
             /\ done'[o] = Table => stage'[o] = "written"
  BY <1>0, <1>7, InsertDoes DEF Table
<1>8. ASSUME NEW q \in Op, (\E t \in Table : Update(q, t)) \/ Insert(q)
      PROVE  Rest(q)
  BY <1>8, UpdateDoes, InsertDoes
<1>9. CASE Fetch \/ UNCHANGED vars
  BY <1>1, <1>3, <1>9, FetchDoes, NothingDone
<1>10. QED
  BY <1>1, <1>2, <1>3, <1>4, <1>5, <1>6, <1>7, <1>8, <1>9 DEF Next

\* A step by another request.
LEMMA StaysWhenQuiet ==
  ASSUME TypeOK, NEW o \in Op, NEW f \in Field, Stays(o, f), asked'[o] = asked[o],
         UNCHANGED <<hasRow, row, hasMeta, meta>>, \A p \in Op \ {o} : Keeps(p, o, f)'
  PROVE  Stays(o, f)'
BY DEF Stays, OwnStored

LEMMA KeepsWhenSame ==
  ASSUME NEW o, NEW f, NEW p, Keeps(p, o, f), asked'[o] = asked[o], asked'[p] = asked[p],
         held'[p] = held[p], processed'[p] = processed[p],
         stage'[p] = "read" => stage[p] = "read",
         pending'[p] = {} \/ pending'[p] = pending[p]
  PROVE  Keeps(p, o, f)'
BY DEF Keeps, Stamped

LEMMA KeepsOthers ==
  ASSUME NEW o \in Op, NEW f, NEW q \in Op, Rest(q), Stays(o, f), asked'[o] = asked[o],
         q # o => Keeps(q, o, f)'
  PROVE  \A p \in Op \ {o} : Keeps(p, o, f)'
<1>1. ASSUME NEW p \in Op \ {o}, p # q PROVE Keeps(p, o, f)'
  BY <1>1, KeepsWhenSame DEF Rest, Stays
<1>2. QED
  BY <1>1

LEMMA UpdateStays ==
  ASSUME TypeOK, Course, NEW o \in Op, NEW f \in Field, Stays(o, f), done[o] = Table,
         NEW q \in Op, NEW t \in Table, Update(q, t)
  PROVE  Stays(o, f)'
<1>1. /\ Rest(q) /\ UNCHANGED <<asked, held, processed>> /\ pending[q] # {}
      /\ asked[q].kind = "update" /\ pending'[q] = pending[q] \ {t}
      /\ stage'[q] = stage[q] \/ stage'[q] = "written"
  BY UpdateDoes
<1>2. q # o
  BY <1>1, DoneSentAll
<1>3. f \in Stamped(processed[q]) => processed[q][f] = Own(asked[o], o, f)
  BY <1>1, <1>2 DEF Stays, Keeps
<1>4. OwnStored(o, f)
  BY DEF Stays
<1>5. OwnStored(o, f)'
  <2>1. CASE t = "row"
    <3>1. row' = Overwritten(row, Values(processed[q]), Stamped(processed[q]))
          /\ UNCHANGED <<hasRow, hasMeta, meta>>
      BY <1>4, <2>1, UpdateDoes DEF UpdateRow, OwnStored
    <3>2. row'[f] = Own(asked[o], o, f).value
      BY <1>3, <1>4, <3>1, ProcessedCells DEF Overwritten, OwnStored
    <3>3. QED
      BY <1>1, <1>4, <3>1, <3>2 DEF OwnStored
  <2>2. CASE t = "meta"
    <3>1. UpdateMeta(q) /\ UNCHANGED <<hasRow, row>>
      BY <2>2, UpdateDoes
    <3>2. meta' = Overwritten(meta, Stamps(processed[q]), Stamped(processed[q])) /\ hasMeta'
      BY <1>4, <3>1 DEF UpdateMeta, OwnStored
    <3>3. meta'[f] = Own(asked[o], o, f).stamp
      BY <1>3, <1>4, <3>2, ProcessedCells DEF Overwritten, OwnStored
    <3>4. QED
      BY <1>1, <1>4, <3>1, <3>2, <3>3 DEF OwnStored
  <2>3. QED
    BY <2>1, <2>2 DEF Table
<1>6. Keeps(q, o, f)'
  <2>1. stage'[q] # "read"
    BY <1>1 DEF Course, CourseOf
  <2>2. QED
    BY <1>1, <1>3, <2>1 DEF Keeps
<1>7. QED
  BY <1>1, <1>5, <1>6, KeepsOthers DEF Stays

LEMMA InsertStays ==
  ASSUME NEW o \in Op, NEW f \in Field, Stays(o, f), NEW q \in Op \ {o}, TypeOK
  PROVE  ~Insert(q)
<1>1. hasRow /\ Keeps(q, o, f)
  BY DEF Stays, OwnStored
<1>2. QED
  BY <1>1 DEF Insert, Keeps

LEMMA ReadStays ==
  ASSUME TypeOK, Course, NEW o \in Op, NEW f \in Field, Stays(o, f), done[o] = Table,
         NEW q \in Op, Read(q)
  PROVE  Stays(o, f)'
<1>1. /\ Rest(q) /\ UNCHANGED <<hasRow, row, hasMeta, meta, asked, pending>>
      /\ held'[q] = Stored /\ pending[q] = {} /\ asked[q].kind = "update"
  BY ReadDoes DEF Course, CourseOf
<1>2. f \in DOMAIN Stored /\ Stored[f] = Own(asked[o], o, f)
  BY DEF Stays, OwnStored, Stored, Own
<1>3. Keeps(q, o, f)'
  BY <1>1, <1>2 DEF Keeps
<1>4. QED
  BY <1>1, <1>3, KeepsOthers, StaysWhenQuiet

LEMMA BeforeUpdateStays ==
  ASSUME TypeOK, Course, NEW o \in Op, NEW f \in Field, Stays(o, f), done[o] = Table,
         Newest(o, f), NEW q \in Op, NEW keep \in Kept, BeforeUpdate(q, keep)
  PROVE  Stays(o, f)'
<1> DEFINE rec == Left(Merged(held[q], Write(asked[q], q)), keep)
<1>1. /\ Rest(q) /\ UNCHANGED <<hasRow, row, hasMeta, meta, asked, held>>
      /\ stage[q] = "read" /\ stage'[q] # "read"
      /\ processed'[q] = rec \/ UNCHANGED pending
  BY BeforeUpdateDoes
<1>2. pending[q] = {} /\ asked[q].kind = "update" /\ asked[q] \in Asked /\ q # o
  BY <1>1 DEF TypeOK, Course, CourseOf, Table
<1>3. f \in DOMAIN held[q] /\ held[q][f] = Own(asked[o], o, f) /\ IsPartial(held[q])
  BY <1>1, <1>2 DEF Stays, Keeps, TypeOK
<1>4. f \in asked[q].fields => asked[q].stamp < held[q][f].stamp
  BY <1>1, <1>2, <1>3 DEF Newest, Own
<1>5. Merged(held[q], Write(asked[q], q))[f] = Own(asked[o], o, f)
  BY <1>2, <1>3, <1>4, MergeRefuses
<1>6. f \in Stamped(rec) => rec[f] = Own(asked[o], o, f)
  BY <1>5 DEF Left, Stamped
<1> HIDE DEF rec
<1>7. Keeps(q, o, f)'
  BY <1>1, <1>2, <1>6 DEF Keeps
<1>8. QED
  BY <1>1, <1>7, KeepsOthers, StaysWhenQuiet

LEMMA NextStays ==
  ASSUME TypeOK, Course, [Next]_vars, NEW o \in Op, NEW f \in Field, Stays(o, f),
         done[o] = Table, Newest(o, f)
  PROVE  Stays(o, f)'
<1>0. asked'[o] = asked[o] /\ pending[o] = {}
  BY DoneIsFixed
<1>1. ASSUME NEW q \in Op, NEW a \in Request, Begin(q, a) PROVE Stays(o, f)'
  <2>1. /\ Rest(q) /\ UNCHANGED <<hasRow, row, hasMeta, meta>> /\ stage'[q] # "read"
        /\ pending'[q] = {}
    BY <1>1, BeginDoes DEF Course, CourseOf
  <2>2. Keeps(q, o, f)'
    BY <2>1 DEF Keeps
  <2>3. QED
    BY <1>0, <2>1, <2>2, KeepsOthers, StaysWhenQuiet
<1>2. ASSUME NEW q \in Op, NEW keep \in Kept, BeforeInsert(q, keep) PROVE Stays(o, f)'
  <2>1. /\ Rest(q) /\ UNCHANGED <<hasRow, row, hasMeta, meta, asked>> /\ stage'[q] # "read"
        /\ asked[q].kind = "insert" /\ pending'[q] # {"meta"}
    BY <1>2, BeforeInsertDoes DEF Course, CourseOf
  <2>2. Keeps(q, o, f)'
    BY <2>1 DEF Keeps
  <2>3. QED
    BY <1>0, <2>1, <2>2, KeepsOthers, StaysWhenQuiet
<1>3. ASSUME NEW q \in Op, Duplicate(q) \/ Tell(q) \/ Answer(q) PROVE Stays(o, f)'
  <2>1. /\ Rest(q) /\ UNCHANGED <<hasRow, row, hasMeta, meta, asked, held, processed>>
        /\ stage'[q] # "read" /\ (pending'[q] = {} \/ pending'[q] = pending[q])
    BY <1>3, DuplicateDoes, TellDoes, AnswerDoes
  <2>2. q # o => Keeps(q, o, f)'
    BY <2>1, KeepsWhenSame DEF Stays
  <2>3. QED
    BY <1>0, <2>1, <2>2, KeepsOthers, StaysWhenQuiet
<1>4. ASSUME NEW q \in Op, NEW t \in Table, Refuse(q, t) PROVE Stays(o, f)'
  <2>1. /\ Rest(q) /\ UNCHANGED <<hasRow, row, hasMeta, meta, asked, held, processed>>
        /\ stage'[q] # "read" /\ t \in pending[q] /\ pending'[q] = pending[q] \ {t}
    BY <1>4, RefuseDoes
  <2>2. asked[q].kind = "insert" => pending'[q] = {}
    BY <2>1 DEF Course, CourseOf
  <2>3. q # o => Keeps(q, o, f)
    BY DEF Stays
  <2>4. q # o => Keeps(q, o, f)'
    BY <1>0, <2>1, <2>2, <2>3 DEF Keeps
  <2>5. QED
    BY <1>0, <2>1, <2>4, KeepsOthers, StaysWhenQuiet
<1>5. CASE Fetch \/ UNCHANGED vars
  <2>1. UNCHANGED <<stage, asked, held, processed, pending, hasRow, row, hasMeta, meta>>
    BY <1>5, FetchDoes, NothingDone
  <2>2. \A p \in Op \ {o} : Keeps(p, o, f)'
    BY <2>1, KeepsWhenSame DEF Stays
  <2>3. QED
    BY <2>1, <2>2, StaysWhenQuiet
<1>6. ASSUME NEW q \in Op, Insert(q) PROVE FALSE
  <2>1. pending[q] # {}
    BY <1>6 DEF Insert
  <2>2. QED
    BY <1>0, <1>6, <2>1, InsertStays
<1>7. ASSUME NEW q \in Op, Read(q) PROVE Stays(o, f)'
  BY <1>7, ReadStays
<1>8. ASSUME NEW q \in Op, NEW keep \in Kept, BeforeUpdate(q, keep) PROVE Stays(o, f)'
  BY <1>8, BeforeUpdateStays
<1>9. ASSUME NEW q \in Op, NEW t \in Table, Update(q, t) PROVE Stays(o, f)'
  BY <1>9, UpdateStays
<1>10. QED
  BY <1>1, <1>2, <1>3, <1>4, <1>5, <1>6, <1>7, <1>8, <1>9 DEF Next

\* What is the newest write now was it before the step.
LEMMA NewestBefore ==
  ASSUME TypeOK, Course, [Next]_vars, NEW o \in Op, done[o] = Table, NEW f, Newest(o, f)'
  PROVE  Newest(o, f)
<1>1. asked'[o] = asked[o] /\ held'[o] = held[o] /\ processed'[o] = processed[o]
  BY DoneIsFixed
<1>2. \A p \in Op : stage[p] # "new" => stage'[p] # "new" /\ asked'[p] = asked[p]
  BY AskedOnce
<1>3. QED
  BY <1>1, <1>2 DEF Newest

LEMMA NextSettled == LoneInv /\ Settled /\ [Next]_vars => Settled'
<1> SUFFICES ASSUME LoneInv, Settled, [Next]_vars,
                    NEW o \in Op, o \notin overlapped', NEW f \in Field,
                    stage'[o] # "written", done'[o] = Table, Newest(o, f)'
             PROVE  Stays(o, f)'
  BY DEF Settled
<1>1. done[o] = Table /\ o \notin overlapped
  BY DoneIsFixed, OverlappedGrows DEF LoneInv
<1>2. Newest(o, f)
  BY <1>1, NewestBefore DEF LoneInv
<1>3. Stays(o, f)
  BY <1>1, <1>2, SettledNow
<1>4. QED
  BY <1>1, <1>2, <1>3, NextStays DEF LoneInv

\* The newest write of a field that was stored while no other request had the
\* row in its hands stays (rawUpdate merges into what it read and writes the
\* whole record back): no later request changes it, whichever of them overlap
\* or fail.
THEOREM NewestStays == Spec => []LoneNewestWriteStays
<1>1. Init => Settled
  BY DEF Init, Settled, Table
<1>2. LoneInv /\ Settled => LoneNewestWriteStays
  <2> SUFFICES ASSUME LoneInv, Settled, NEW o \in Op \ overlapped, NEW f \in Field,
                      done[o] = Table, Newest(o, f)
               PROVE  /\ hasRow /\ row[f] = Converted(f, IF f \in asked[o].nulls THEN Null ELSE o)
                      /\ hasMeta /\ meta[f] = asked[o].stamp
    BY DEF LoneNewestWriteStays
  <2>1. OwnStored(o, f)
    BY SettledNow DEF Stays
  <2>2. QED
    BY <2>1 DEF OwnStored, Own
<1>3. QED
  BY <1>1, <1>2, InitLone, NextLone, NextSettled, PTL DEF Spec

-----------------------------------------------------------------------------
(* A value and its time come from one write.                               *)

LEMMA BrokenGrows == [Next]_vars => broken \subseteq broken'
<1>1. ASSUME NEW o \in Op,
             \/ \E a \in Request : Begin(o, a)
             \/ \E keep \in Kept : BeforeUpdate(o, keep) \/ BeforeInsert(o, keep)
             \/ \E t \in Table : Update(o, t)
             \/ Read(o) \/ Insert(o) \/ Tell(o) \/ Answer(o)
      PROVE  UNCHANGED broken
  BY <1>1 DEF Begin, BeforeUpdate, BeforeInsert, Update, Read, Insert, Tell, Answer, history
<1>2. ASSUME NEW o \in Op, (\E t \in Table : Refuse(o, t)) \/ Duplicate(o)
      PROVE  broken \subseteq broken'
  BY <1>2 DEF Refuse, Duplicate
<1>3. CASE Fetch \/ UNCHANGED vars
  BY <1>3 DEF Fetch, vars, history
<1>4. QED
  BY <1>1, <1>2, <1>3 DEF Next

LEMMA UndisturbedBefore ==
  ASSUME [Next]_vars, Undisturbed'
  PROVE  Undisturbed
BY BrokenGrows, OverlappedGrows DEF Undisturbed

Writing(o) == stage[o] \in {"writing", "written"}
Source(as, dn, f, v, t) ==
  \/ v = Null /\ t \in {Unstamped, 1}
  \/ \E o \in Op : /\ f \in as[o].fields /\ dn[o] = Table
                   /\ v = Own(as[o], o, f).value /\ t = Own(as[o], o, f).stamp
StoredSource == hasMeta /\ \A f \in Field : Source(asked, done, f, row[f], meta[f])
HeldSource(o) == \A f \in DOMAIN held[o] : Source(asked, done, f, held[o][f].value, held[o][f].stamp)
Sourced ==
  /\ hasRow /\ (\A o \in Op : ~Writing(o)) => StoredSource
  /\ \A o \in Op : asked[o].kind = "update" /\ Has(o) => HeldSource(o)

LEMMA UndisturbedWrites ==
  ASSUME TypeOK, Course, Undisturbed, NEW o \in Op
  PROVE  /\ pending[o] # {} => stage[o] = "writing"
         /\ stage[o] = "writing" => pending[o] # {}
<1>1. CourseOf(o) /\ asked[o].kind \in {"insert", "update"} /\ broken = {}
  BY DEF Course, TypeOK, Asked, Undisturbed
<1>2. QED
  BY <1>1 DEF CourseOf

LEMMA SourceStays ==
  ASSUME TypeOK, Course, [Next]_vars, NEW f, NEW v, NEW t, Source(asked, done, f, v, t)
  PROVE  Source(asked', done', f, v, t)
BY DoneIsFixed DEF Source

LEMMA OwnIsSource ==
  ASSUME NEW as, NEW dn, NEW o \in Op, dn[o] = Table, NEW f \in as[o].fields
  PROVE  Source(as, dn, f, Own(as[o], o, f).value, Own(as[o], o, f).stamp)
BY DEF Source

\* When a request that had the row alone has written it, what is stored has
\* its sources.
LEMMA WrittenIsSourced ==
  ASSUME LoneInv, Undisturbed, Sourced, NEW o \in Op, stage[o] = "written", hasRow
  PROVE  StoredSource
<1>1. Sees(o) /\ done[o] = Table /\ TypeOK /\ asked[o] \in Asked
  BY DEF LoneInv, Sole, Has, Undisturbed, Course, CourseOf, TypeOK
<1>2. ASSUME NEW f \in Stamped(processed[o])
      PROVE  /\ f \in DOMAIN processed[o] /\ f \in Field
             /\ processed[o][f] = MergeWith(asked[o], held[o], o)[f]
             /\ f \in DOMAIN MergeWith(asked[o], held[o], o)
  BY <1>1, ProcessedCells DEF LoneInv, Merges, IsMerge, Stamped
<1>3. /\ IsPartial(Write(asked[o], o)) /\ IsPartial(held[o]) /\ IsPartial(Nothing)
      /\ DOMAIN Write(asked[o], o) = asked[o].fields
  BY <1>1, WriteType, NothingIsPartial DEF TypeOK, Write
<1>4. \A f \in asked[o].fields :
        Source(asked, done, f, Own(asked[o], o, f).value, Own(asked[o], o, f).stamp)
  BY <1>1, OwnIsSource
<1>5. CASE asked[o].kind = "update"
  <2>1. /\ hasMeta /\ DOMAIN held[o] = Field
        /\ \A f \in Field :
             /\ row[f] = IF f \in Stamped(processed[o]) THEN processed[o][f].value ELSE held[o][f].value
             /\ meta[f] = IF f \in Stamped(processed[o]) THEN processed[o][f].stamp ELSE held[o][f].stamp
    BY <1>1, <1>5 DEF Sees, UpdateSees, StampNow, Table
  <2>2. \A f \in Field : Source(asked, done, f, held[o][f].value, held[o][f].stamp)
    <3>1. HeldSource(o)
      BY <1>5 DEF Sourced, Has
    <3>2. DOMAIN held[o] = Field
      BY <2>1
    <3>3. QED
      BY <3>1, <3>2, Zenon DEF HeldSource
  <2>3. ASSUME NEW f \in Stamped(processed[o])
        PROVE  \/ processed[o][f] = held[o][f]
               \/ f \in asked[o].fields /\ processed[o][f] = Own(asked[o], o, f)
    <3>1. processed[o][f] = Merged(held[o], Write(asked[o], o))[f]
          /\ f \in DOMAIN Merged(held[o], Write(asked[o], o))
      BY <1>2, <1>5, <2>3 DEF MergeWith
    <3>2. \A g \in DOMAIN Merged(held[o], Write(asked[o], o)) :
            \/ g \in DOMAIN held[o] /\ Merged(held[o], Write(asked[o], o))[g] = held[o][g]
            \/ /\ g \in DOMAIN Write(asked[o], o)
               /\ Merged(held[o], Write(asked[o], o))[g] = Accepted(g, Write(asked[o], o)[g])
      BY <1>3, MergedCells, ZenonT(30)
    <3>3. \/ processed[o][f] = held[o][f]
          \/ /\ f \in asked[o].fields
             /\ processed[o][f] = Accepted(f, Write(asked[o], o)[f])
      BY <1>3, <3>1, <3>2, Zenon
    <3>4. QED
      BY <1>1, <3>3, WriteIsOwn
  <2>4. ASSUME NEW f \in Field PROVE Source(asked, done, f, row[f], meta[f])
    BY <1>4, <2>1, <2>2, <2>3
  <2>5. QED
    BY <2>1, <2>4 DEF StoredSource
<1>6. CASE asked[o].kind = "insert"
  <2>1. /\ hasMeta
        /\ \A f \in Field :
             /\ row[f] = IF f \in Stamped(processed[o]) THEN processed[o][f].value ELSE Null
             /\ meta[f] = IF f \in Stamped(processed[o]) THEN processed[o][f].stamp ELSE Unstamped
    BY <1>1, <1>6 DEF Sees, InsertSees, Table
  <2>2. ASSUME NEW f \in Stamped(processed[o])
        PROVE  f \in asked[o].fields /\ processed[o][f] = Own(asked[o], o, f)
    <3>1. processed[o][f] = Merged(Nothing, Write(asked[o], o))[f]
          /\ f \in DOMAIN Merged(Nothing, Write(asked[o], o))
      BY <1>2, <1>6, <2>2 DEF MergeWith
    <3>2. \A g \in DOMAIN Merged(Nothing, Write(asked[o], o)) :
            \/ g \in DOMAIN Nothing /\ Merged(Nothing, Write(asked[o], o))[g] = Nothing[g]
            \/ /\ g \in DOMAIN Write(asked[o], o)
               /\ Merged(Nothing, Write(asked[o], o))[g] = Accepted(g, Write(asked[o], o)[g])
      BY <1>3, MergedCells
    <3>3. /\ f \in asked[o].fields
          /\ processed[o][f] = Accepted(f, Write(asked[o], o)[f])
      BY <1>3, <3>1, <3>2, NothingIsPartial, Zenon
    <3>4. QED
      BY <1>1, <3>3, WriteIsOwn
  <2>3. ASSUME NEW f \in Field PROVE Source(asked, done, f, row[f], meta[f])
    <3>1. CASE f \in Stamped(processed[o])
      BY <1>4, <2>1, <2>2, <3>1
    <3>2. CASE f \notin Stamped(processed[o])
      BY <2>1, <3>2 DEF Source
    <3>3. QED
      BY <3>1, <3>2
  <2>4. QED
    BY <2>1, <2>3 DEF StoredSource
<1>7. QED
  BY <1>1, <1>5, <1>6 DEF Asked

LEMMA NextSourced ==
  LoneInv /\ Sourced /\ [Next]_vars /\ Undisturbed' => Sourced'
<1> SUFFICES ASSUME LoneInv, TypeOK, Course, Apart, Sourced, [Next]_vars, Undisturbed'
             PROVE  Sourced'
  BY DEF LoneInv
<1>0. TypeOK /\ Course /\ Apart /\ Undisturbed
  BY UndisturbedBefore
<1>1. overlapped = {} /\ overlapped' = {} /\ broken' = {}
  BY <1>0 DEF Undisturbed
<1>2. ASSUME NEW o \in Op, HeldSource(o), held'[o] = held[o] PROVE HeldSource(o)'
  BY <1>0, <1>2, SourceStays DEF HeldSource
<1>3. ASSUME StoredSource, UNCHANGED <<row, meta>>, hasMeta' PROVE StoredSource'
  BY <1>0, <1>3, SourceStays DEF StoredSource
<1>4. ASSUME NEW o \in Op, Rest(o), asked'[o] = asked[o], held'[o] = held[o], Has(o)' => Has(o)
      PROVE  \A p \in Op : asked'[p].kind = "update" /\ Has(p)' => HeldSource(p)'
  <2>1. \A p \in Op : Has(p)' => Has(p) /\ held'[p] = held[p] /\ asked'[p] = asked[p]
    BY <1>4 DEF Rest, Has
  <2>2. QED
    BY <1>2, <2>1 DEF Sourced
<1>5. ASSUME NEW o \in Op, Rest(o), UNCHANGED <<hasRow, row, hasMeta, meta>>,
             Writing(o) => Writing(o)',
             \A p \in Op : asked'[p].kind = "update" /\ Has(p)' => HeldSource(p)'
      PROVE  Sourced'
  <2>1. (\A p \in Op : ~(Writing(p)')) => \A p \in Op : ~Writing(p)
    BY <1>5 DEF Rest, Writing
  <2>2. StoredSource => StoredSource'
    BY <1>3, <1>5 DEF StoredSource
  <2>3. QED
    BY <1>5, <2>1, <2>2 DEF Sourced
<1>6. ASSUME NEW o \in Op, NEW a \in Request, Begin(o, a) PROVE Sourced'
  <2>1. /\ Rest(o) /\ UNCHANGED <<hasRow, row, hasMeta, meta>> /\ ~(Has(o)') /\ ~Writing(o)
    BY <1>6, BeginDoes DEF Has, Writing
  <2>2. \A p \in Op : asked'[p].kind = "update" /\ Has(p)' => HeldSource(p)'
    <3>1. \A p \in Op \ {o} : Has(p)' => Has(p) /\ held'[p] = held[p] /\ asked'[p] = asked[p]
      BY <2>1 DEF Rest, Has
    <3>2. QED
      BY <1>2, <2>1, <3>1 DEF Sourced
  <2>3. QED
    BY <1>5, <2>1, <2>2
<1>7. ASSUME NEW o \in Op, NEW keep \in Kept, BeforeUpdate(o, keep) PROVE Sourced'
  <2>1. /\ Rest(o) /\ UNCHANGED <<hasRow, row, hasMeta, meta, asked, held>>
        /\ Has(o) /\ ~Writing(o)
    BY <1>7, BeforeUpdateDoes DEF Has, Writing
  <2>2. QED
    BY <1>4, <1>5, <2>1
<1>8. ASSUME NEW o \in Op, NEW keep \in Kept, BeforeInsert(o, keep) PROVE Sourced'
  <2>1. /\ Rest(o) /\ UNCHANGED <<hasRow, row, hasMeta, meta, asked, held>> /\ ~Writing(o)
        /\ asked[o].kind = "insert"
    BY <1>8, BeforeInsertDoes DEF Writing
  <2>2. \A p \in Op : asked'[p].kind = "update" /\ Has(p)' => HeldSource(p)'
    <3>1. \A p \in Op \ {o} : Has(p)' => Has(p) /\ held'[p] = held[p] /\ asked'[p] = asked[p]
      BY <2>1 DEF Rest, Has
    <3>2. QED
      BY <1>2, <2>1, <3>1 DEF Sourced
  <2>3. QED
    BY <1>5, <2>1, <2>2
<1>9. ASSUME NEW o \in Op, Answer(o) PROVE Sourced'
  <2>1. /\ Rest(o) /\ UNCHANGED <<hasRow, row, hasMeta, meta, asked, held>> /\ ~Writing(o)
        /\ ~(Has(o)')
    BY <1>9, AnswerDoes DEF Writing, Has
  <2>2. QED
    BY <1>4, <1>5, <2>1
<1>10. ASSUME NEW o \in Op, Duplicate(o) \/ \E t \in Table : Refuse(o, t) PROVE FALSE
  <2>1. broken' = broken \cup {o}
    BY <1>10, DuplicateDoes, RefuseDoes
  <2>2. QED
    BY <1>1, <2>1
<1>11. ASSUME NEW o \in Op, Read(o) PROVE Sourced'
  <2>1. /\ Rest(o) /\ UNCHANGED <<hasRow, row, hasMeta, meta, asked>> /\ ~Writing(o)
        /\ held'[o] = Stored /\ Meets(o)
    BY <1>11, ReadDoes DEF Writing
  <2>2. \A p \in Op : ~Writing(p)
    BY <1>1, <2>1, TakesRow DEF Busy, Writing
  <2>3. hasRow => StoredSource'
    BY <1>3, <2>1, <2>2 DEF Sourced, StoredSource
  <2>4. ASSUME NEW f \in DOMAIN Stored
        PROVE  Source(asked', done', f, Stored[f].value, Stored[f].stamp)
    <3>1. hasRow /\ f \in Field
      BY <2>4, NothingIsPartial DEF Stored
    <3>2. Stored[f].value = row'[f] /\ Stored[f].stamp = meta'[f]
      BY <2>1, <2>3, <3>1 DEF Stored, StoredSource
    <3>3. QED
      BY <2>3, <3>1, <3>2 DEF StoredSource
  <2>5. HeldSource(o)'
    BY <2>1, <2>4 DEF HeldSource
  <2>6. \A p \in Op : asked'[p].kind = "update" /\ Has(p)' => HeldSource(p)'
    <3>1. \A p \in Op \ {o} : Has(p)' => Has(p) /\ held'[p] = held[p] /\ asked'[p] = asked[p]
      BY <2>1 DEF Rest, Has
    <3>2. QED
      BY <1>2, <2>5, <3>1 DEF Sourced
  <2>7. QED
    BY <1>5, <2>1, <2>6
<1>12. ASSUME NEW o \in Op, (\E t \in Table : Update(o, t)) \/ Insert(o) PROVE Sourced'
  <2>1. /\ Rest(o) /\ UNCHANGED <<asked, held>> /\ pending[o] # {}
        /\ stage'[o] = stage[o] \/ stage'[o] = "written"
    BY <1>12, UpdateDoes, InsertDoes
  <2>2. Writing(o)' /\ Has(o)
    BY <1>0, <2>1, UndisturbedWrites DEF Writing, Has
  <2>3. \A p \in Op : asked'[p].kind = "update" /\ Has(p)' => HeldSource(p)'
    BY <1>4, <2>1, <2>2
  <2>4. QED
    BY <2>2, <2>3 DEF Sourced
<1>13. ASSUME NEW o \in Op, Tell(o) PROVE Sourced'
  <2>1. /\ Rest(o) /\ UNCHANGED <<hasRow, row, hasMeta, meta, asked, held>>
        /\ ~(Has(o)') /\ stage[o] = "written"
    BY <1>13, TellDoes DEF Has
  <2>2. hasRow => StoredSource
    BY <1>0, <2>1, WrittenIsSourced
  <2>3. hasRow' => StoredSource'
    BY <1>3, <2>1, <2>2 DEF StoredSource
  <2>4. QED
    BY <1>4, <2>1, <2>3 DEF Sourced
<1>14. CASE Fetch \/ UNCHANGED vars
  <2>1. UNCHANGED <<hasRow, row, hasMeta, meta, asked, held, stage, done>>
    BY <1>14, FetchDoes, NothingDone
  <2>2. QED
    BY <2>1 DEF Sourced, StoredSource, HeldSource, Has, Writing
<1>15. QED
  BY <1>6, <1>7, <1>8, <1>9, <1>10, <1>11, <1>12, <1>13, <1>14 DEF Next

LEMMA InitSourced == Init => Sourced
<1> SUFFICES ASSUME Init PROVE Sourced
  OBVIOUS
<1>1. \A o \in Op : stage[o] = "new"
  BY DEF Init
<1>2. ASSUME hasRow PROVE StoredSource
  <2>1. hasMeta /\ row = [f \in Field |-> Null] /\ meta = [f \in Field |-> 1]
    BY <1>2 DEF Init
  <2>2. QED
    BY <2>1 DEF StoredSource, Source
<1>3. QED
  BY <1>1, <1>2 DEF Sourced, Has

\* A value and its time come from one write, in two tables and by statements
\* of which none is in a transaction (rawInsert, rawUpdate), as long as
\* requests have the row one after the other and no statement fails.
THEOREM TimeIsAlwaysOfItsValue == Spec => []TimeIsOfItsValue
<1> DEFINE Inv == LoneInv /\ (Undisturbed => Sourced)
<1>1. Init => Inv
  BY InitLone, InitSourced
<1>2. Inv /\ [Next]_vars => Inv'
  BY NextLone, NextSourced, UndisturbedBefore
<1>3. Inv => TimeIsOfItsValue
  <2> SUFFICES ASSUME LoneInv, Sourced, Undisturbed, hasRow, \A o \in Op : pending[o] = {}
               PROVE  StoredSource
    BY DEF TimeIsOfItsValue, StoredSource, Source, Own
  <2>1. CASE \E o \in Op : stage[o] = "written"
    BY <2>1, WrittenIsSourced
  <2>2. CASE \A o \in Op : stage[o] # "written"
    <3>1. \A o \in Op : ~Writing(o)
      BY <2>2, UndisturbedWrites DEF LoneInv, Writing
    <3>2. QED
      BY <3>1 DEF Sourced
  <2>3. QED
    BY <2>1, <2>2
<1>4. QED
  BY <1>1, <1>2, <1>3, PTL DEF Spec

-----------------------------------------------------------------------------
(* A subscriber follows the row.                                           *)

Agrees(f) ==
  IF f \in DOMAIN heard
  THEN hasRow /\ heard[f].value = Converted(f, row[f]) /\ heard[f].stamp = StampNow(f)
  ELSE row[f] = Null
Behind == \A f \in DOMAIN heard : heard[f].stamp <= StampNow(f)
NotWritten(f) == \A o \in Op : Writing(o) => f \notin Stamped(processed[o])
Follows == ~fetching => \A f \in Field : NotWritten(f) => Agrees(f)
Followed == Behind /\ Follows

\* A cell that is not older than the one held is accepted.
LEMMA MergedAccepts ==
  ASSUME NEW base, NEW write, IsPartial(base), IsPartial(write), NEW f \in DOMAIN write,
         f \in DOMAIN base => base[f].stamp <= write[f].stamp
  PROVE  f \in DOMAIN Merged(base, write) /\ Merged(base, write)[f] = Accepted(f, write[f])
<1>1. write[f].stamp \in Nat /\ (f \in DOMAIN base => base[f].stamp \in Nat)
  BY DEF IsPartial, Cell
<1>2. f \in DOMAIN base => ~Late(base[f], write[f])
  BY <1>1 DEF Late
<1>3. QED
  BY <1>2 DEF Merged, MergedField

LEMMA NothingKnown ==
  ASSUME Absent
  PROVE  ~known \/ ~hasRow => heard = Nothing /\ DOMAIN heard = {}
BY NothingIsPartial DEF Absent

LEMMA StampNowType ==
  ASSUME TypeOK, NEW f \in Field
  PROVE  StampNow(f) \in Nat
BY DEF TypeOK, StampNow, Unstamped

\* What a request that had the row alone wrote is what is stored.
LEMMA WrittenNow ==
  ASSUME LoneInv, Undisturbed, NEW o \in Op, stage[o] = "written", hasRow,
         NEW f \in Stamped(processed[o])
  PROVE  row[f] = processed[o][f].value /\ StampNow(f) = processed[o][f].stamp
<1>1. Sees(o) /\ done[o] = Table /\ f \in Field
  BY ProcessedCells DEF LoneInv, Sole, Has, Undisturbed, Course, CourseOf
<1>2. CASE asked[o].kind = "update"
  BY <1>1, <1>2 DEF Sees, UpdateSees, Table
<1>3. CASE asked[o].kind # "update"
  BY <1>1, <1>3 DEF Sees, InsertSees, StampNow, Table
<1>4. QED
  BY <1>2, <1>3

\* A statement of a request that has the row alone.
LEMMA StatementOf ==
  ASSUME LoneInv, Undisturbed, NEW o \in Op,
         (\E t \in Table : Update(o, t)) \/ Insert(o)
  PROVE  /\ stage[o] = "writing" /\ Writing(o)' /\ Rest(o)
         /\ UNCHANGED <<asked, processed, known, fetching, heard>>
         /\ asked[o].kind = "insert" => heard = Nothing
         /\ asked[o].kind = "insert" \/ UNCHANGED hasRow
<1>1. /\ Rest(o) /\ UNCHANGED <<asked, processed, known, fetching, heard>> /\ pending[o] # {}
      /\ stage'[o] = stage[o] \/ stage'[o] = "written"
  BY UpdateDoes, InsertDoes DEF LoneInv
<1>2. stage[o] = "writing"
  BY <1>1, UndisturbedWrites DEF LoneInv
<1>3. ASSUME asked[o].kind = "insert" PROVE heard = Nothing
  <2>1. \/ pending[o] = {"row"}
        \/ done[o] = {"row"}
    BY <1>2, <1>3 DEF LoneInv, Course, CourseOf
  <2>2. Insert(o)
    BY <1>3, UpdateDoes DEF LoneInv
  <2>3. CASE pending[o] = {"row"}
    BY <2>2, <2>3, InsertDoes, NothingKnown DEF LoneInv
  <2>4. CASE done[o] = {"row"}
    <3>1. InsertSees(o)
      BY <1>2, <1>3 DEF LoneInv, Sole, Undisturbed, Has, Sees
    <3>2. QED
      BY <2>4, <3>1, NothingKnown DEF InsertSees, LoneInv
  <2>5. QED
    BY <2>1, <2>3, <2>4
<1>4. asked[o].kind = "insert" \/ UNCHANGED hasRow
  BY UpdateDoes, InsertDoes DEF LoneInv, UpdateMeta, Table
<1>5. QED
  BY <1>1, <1>2, <1>3, <1>4 DEF Writing

\* What an update writes: the fields of its record, and none goes back.
LEMMA UpdateCells ==
  ASSUME LoneInv, Undisturbed, NEW o \in Op, NEW t \in Table, Update(o, t), hasRow
  PROVE  \A f \in Field :
           /\ StampNow(f)' >= StampNow(f)
           /\ f \notin Stamped(processed[o]) => row'[f] = row[f] /\ StampNow(f)' = StampNow(f)
<1>0. TypeOK
  BY DEF LoneInv
<1>1. CASE t = "row"
  <2>1. /\ row' = Overwritten(row, Values(processed[o]), Stamped(processed[o]))
        /\ UNCHANGED <<hasMeta, meta>>
    BY <1>0, <1>1, UpdateDoes DEF UpdateRow
  <2>2. \A f \in Field : StampNow(f)' = StampNow(f)
    BY <2>1 DEF StampNow
  <2>3. QED
    BY <1>0, <2>1, <2>2, StampNowType DEF Overwritten
<1>2. CASE t = "meta"
  <2>1. /\ stage[o] = "writing" /\ asked[o].kind = "update" /\ t \in pending[o]
    BY <1>0, UpdateDoes, StatementOf
  <2>2. UpdateSees(o) /\ "meta" \notin done[o]
    BY <1>2, <2>1 DEF LoneInv, Sole, Undisturbed, Has, Sees, Course, CourseOf
  <2>3. DOMAIN held[o] = Field /\ \A f \in Field : StampNow(f) = held[o][f].stamp
    BY <2>2 DEF UpdateSees
  <2>4. UpdateMeta(o) /\ UNCHANGED row
    BY <1>0, <1>2, UpdateDoes
  <2>5. \A f \in Field : StampNow(f)' = IF f \in Stamped(processed[o])
                                        THEN processed[o][f].stamp ELSE StampNow(f)
    BY <1>0, <2>4, ProcessedCells DEF UpdateMeta, Overwritten, StampNow
  <2>6. IsPartial(held[o]) /\ IsPartial(Write(asked[o], o))
        /\ \A f \in DOMAIN Write(asked[o], o) : Write(asked[o], o)[f].stamp # Unstamped
    BY <1>0, WriteType DEF TypeOK
  <2>7. \A f \in DOMAIN held[o] : Merged(held[o], Write(asked[o], o))[f].stamp >= held[o][f].stamp
    BY <2>6, MergedIsLater
  <2>8. \A f \in Stamped(processed[o]) :
          f \in Field /\ processed[o][f] = Merged(held[o], Write(asked[o], o))[f]
    BY <1>0, <2>1, ProcessedCells DEF LoneInv, Merges, IsMerge, MergeWith, Stamped
  <2>9. \A f \in Field : StampNow(f)' >= StampNow(f)
    BY <1>0, <2>3, <2>5, <2>7, <2>8, StampNowType
  <2>10. QED
    BY <2>4, <2>5, <2>9
<1>3. QED
  BY <1>1, <1>2 DEF Table

LEMMA AgreesWhenSame ==
  ASSUME NEW f, Agrees(f), heard' = heard, hasRow => hasRow',
         row'[f] = row[f], StampNow(f)' = StampNow(f)
  PROVE  Agrees(f)'
BY DEF Agrees

\* A step that leaves the stored row and the copy alone, and ends no write.
LEMMA FollowedWhenQuiet ==
  ASSUME Followed, UNCHANGED <<hasRow, row, hasMeta, meta, fetching, heard>>,
         \A f \in Field : NotWritten(f)' => NotWritten(f)
  PROVE  Followed'
<1>1. \A f : StampNow(f)' = StampNow(f)
  BY DEF StampNow
<1>2. Behind'
  BY <1>1 DEF Followed, Behind
<1>3. \A f \in Field : Agrees(f) => Agrees(f)'
  BY <1>1, AgreesWhenSame
<1>4. Follows'
  BY <1>3 DEF Followed, Follows
<1>5. QED
  BY <1>2, <1>4 DEF Followed

LEMMA NotWrittenBefore ==
  ASSUME NEW o \in Op, Rest(o), Writing(o) => Writing(o)' /\ processed'[o] = processed[o],
         NEW f, NotWritten(f)'
  PROVE  NotWritten(f)
<1>1. \A p \in Op : Writing(p) => Writing(p)' /\ processed'[p] = processed[p]
  BY DEF Rest, Writing
<1>2. QED
  BY <1>1 DEF NotWritten

LEMMA StatementFollowed ==
  ASSUME LoneInv, Undisturbed, Followed, NEW o \in Op,
         (\E t \in Table : Update(o, t)) \/ Insert(o)
  PROVE  Followed'
<1>0. TypeOK /\ Absent
  BY DEF LoneInv
<1>1. /\ stage[o] = "writing" /\ Writing(o)' /\ Rest(o)
      /\ UNCHANGED <<asked, processed, known, fetching, heard>>
      /\ asked[o].kind = "insert" => heard = Nothing
      /\ asked[o].kind = "insert" \/ UNCHANGED hasRow
  BY StatementOf
<1>2. ASSUME NEW f, NotWritten(f)' PROVE NotWritten(f) /\ f \notin Stamped(processed[o])
  BY <1>1, <1>2, NotWrittenBefore DEF NotWritten
<1>3. CASE heard = Nothing
  <2>1. DOMAIN heard' = {} /\ DOMAIN heard = {}
    BY <1>1, <1>3, NothingIsPartial
  <2>2. Behind'
    BY <2>1 DEF Behind
  <2>3. ASSUME NEW f \in Field, ~fetching', NotWritten(f)' PROVE row'[f] = Null
    <3>1. row[f] = Null /\ f \notin Stamped(processed[o])
      BY <1>1, <1>2, <2>1, <2>3 DEF Followed, Follows, Agrees
    <3>2. \/ UNCHANGED row
          \/ row' = Overwritten(row, Values(processed[o]), Stamped(processed[o]))
          \/ row' = Overwritten([g \in Field |-> Null], Values(processed[o]), Stamped(processed[o]))
      BY <1>0, UpdateDoes, InsertDoes DEF UpdateRow, Table
    <3>3. QED
      BY <3>1, <3>2 DEF Overwritten
  <2>4. Follows'
    BY <2>1, <2>3 DEF Follows, Agrees
  <2>5. QED
    BY <2>2, <2>4 DEF Followed
<1>4. CASE heard # Nothing
  <2>1. hasRow /\ hasRow' /\ \E t \in Table : Update(o, t)
    BY <1>0, <1>1, <1>4, NothingKnown, InsertDoes
  <2>2. \A f \in Field :
           /\ StampNow(f)' >= StampNow(f)
           /\ f \notin Stamped(processed[o]) => row'[f] = row[f] /\ StampNow(f)' = StampNow(f)
    BY <2>1, UpdateCells
  <2>3. Behind'
    <3>1. \A f \in DOMAIN heard : f \in Field /\ heard[f].stamp \in Nat
      BY <1>0 DEF TypeOK, IsPartial, Cell
    <3>2. \A f \in Field : StampNow(f) \in Nat /\ StampNow(f)' \in Nat
      <4>1. ASSUME NEW f \in Field PROVE StampNow(f) \in Nat
        BY <1>0, StampNowType
      <4>2. meta' \in [Field -> Nat]
        BY <1>0, <2>1, UpdateType DEF TypeOK
      <4>3. QED
        BY <4>1, <4>2 DEF StampNow, Unstamped
    <3>3. \A f \in DOMAIN heard : heard[f].stamp <= StampNow(f)
      BY DEF Followed, Behind
    <3>4. \A f \in DOMAIN heard : heard[f].stamp <= StampNow(f)'
      BY <2>2, <3>1, <3>2, <3>3
    <3>5. QED
      BY <1>1, <3>4 DEF Behind
  <2>4. ASSUME NEW f \in Field, ~fetching', NotWritten(f)' PROVE Agrees(f)'
    <3>1. Agrees(f) /\ f \notin Stamped(processed[o])
      BY <1>1, <1>2, <2>4 DEF Followed, Follows
    <3>2. QED
      BY <1>1, <2>1, <2>2, <3>1, AgreesWhenSame
  <2>5. QED
    BY <2>3, <2>4 DEF Followed, Follows
<1>5. QED
  BY <1>3, <1>4

\* What the subscriber has of a field after the whole of its cell was told.
LEMMA AgreesWithTold ==
  ASSUME TypeOK, Behind, NEW write, IsPartial(write), NEW f \in DOMAIN write,
         heard' = Merged(heard, write), UNCHANGED <<hasRow, row, hasMeta, meta>>, hasRow,
         row[f] = write[f].value, StampNow(f) = write[f].stamp
  PROVE  Agrees(f)' /\ heard'[f].stamp <= StampNow(f)'
<1>1. IsPartial(heard) /\ write[f] \in Cell
  BY DEF TypeOK, IsPartial
<1>2. f \in DOMAIN heard' /\ heard'[f] = Accepted(f, write[f])
  BY <1>1, MergedAccepts DEF Behind
<1>3. heard'[f].value = Converted(f, row[f]) /\ heard'[f].stamp = StampNow(f)
  BY <1>1, <1>2, AcceptedType
<1>4. StampNow(f)' = StampNow(f) /\ write[f].stamp \in Nat
  BY <1>1 DEF StampNow, Cell
<1>5. QED
  BY <1>2, <1>3, <1>4 DEF Agrees

\* What the subscriber has after the engine was told of a write.
LEMMA TellFollowed ==
  ASSUME LoneInv, Undisturbed, Followed, NEW o \in Op, Tell(o)
  PROVE  Followed'
<1>0. TypeOK /\ Absent
  BY DEF LoneInv
<1>1. /\ stage[o] = "written" /\ stage'[o] = "told" /\ Rest(o)
      /\ UNCHANGED <<asked, processed, hasRow, row, hasMeta, meta>>
  BY <1>0, TellDoes
<1>2. \A f : StampNow(f)' = StampNow(f)
  BY <1>1 DEF StampNow
<1>3. ASSUME NEW f, f \notin Stamped(processed[o]) PROVE NotWritten(f)
  <2>1. Busy(o) /\ overlapped = {}
    BY <1>1 DEF Busy, Undisturbed
  <2>2. \A p \in Op \ {o} : ~Busy(p)
    BY <2>1 DEF LoneInv, Apart
  <2>3. \A p \in Op \ {o} : ~Writing(p)
    BY <2>2 DEF Busy, Writing
  <2>4. QED
    BY <1>3, <2>3 DEF NotWritten
<1>4. CASE UNCHANGED <<known, fetching, heard>>
            /\ (Stamped(processed[o]) = {} \/ ~hasRow)
  <2>1. Behind'
    BY <1>2, <1>4 DEF Followed, Behind
  <2>2. ASSUME NEW f \in Field, ~fetching PROVE Agrees(f)
    <3>1. CASE Stamped(processed[o]) = {}
      BY <1>3, <2>2, <3>1 DEF Followed, Follows
    <3>2. CASE ~hasRow
      BY <1>0, <3>2, NothingKnown DEF Absent, Agrees
    <3>3. QED
      BY <1>4, <3>1, <3>2
  <2>3. ASSUME NEW f \in Field, ~fetching' PROVE Agrees(f)'
    BY <1>1, <1>2, <1>4, <2>2, <2>3, AgreesWhenSame
  <2>4. QED
    BY <2>1, <2>3 DEF Followed, Follows
<1>5. CASE Stamped(processed[o]) # {} /\ (asked[o].kind = "insert" \/ hasRow) /\ Notified(o)
  <2>1. hasRow /\ (asked[o].kind = "insert" => ~known)
    <3>1. Sees(o) /\ done[o] = Table
      BY <1>1 DEF LoneInv, Sole, Has, Undisturbed, Course, CourseOf
    <3>2. asked[o].kind = "insert" => InsertSees(o)
      BY <3>1 DEF Sees
    <3>3. QED
      BY <1>5, <3>1, <3>2 DEF InsertSees, Table
  <2>2. CASE fetching' /\ UNCHANGED heard
    <3>1. Behind'
      BY <1>2, <2>2 DEF Followed, Behind
    <3>2. QED
      BY <2>2, <3>1 DEF Followed, Follows
  <2>3. CASE heard' = Merged(heard, Delta(o)) /\ UNCHANGED fetching
    <3>1. IsPartial(Delta(o)) /\ DOMAIN Delta(o) = Stamped(processed[o])
          /\ \A f \in Stamped(processed[o]) : Delta(o)[f] = processed[o][f]
      BY <1>0, DeltaType DEF Delta
    <3>2. ASSUME NEW f \in Stamped(processed[o])
          PROVE  Agrees(f)' /\ heard'[f].stamp <= StampNow(f)'
      <4>1. row[f] = Delta(o)[f].value /\ StampNow(f) = Delta(o)[f].stamp
        BY <1>1, <2>1, <3>1, <3>2, WrittenNow
      <4>2. QED
        BY <1>0, <1>1, <2>1, <2>3, <3>1, <3>2, <4>1, AgreesWithTold DEF Followed
    <3>3. ASSUME NEW f, f \notin Stamped(processed[o])
          PROVE  /\ f \in DOMAIN heard' <=> f \in DOMAIN heard
                 /\ f \in DOMAIN heard => heard'[f] = heard[f]
      BY <2>3, <3>1, <3>3 DEF Merged, MergedField
    <3>4. ASSUME NEW f \in DOMAIN heard' PROVE heard'[f].stamp <= StampNow(f)'
      <4>1. CASE f \in Stamped(processed[o])
        BY <3>2, <4>1
      <4>2. CASE f \notin Stamped(processed[o])
        BY <1>2, <3>3, <3>4, <4>2 DEF Followed, Behind
      <4>3. QED
        BY <4>1, <4>2
    <3>5. ASSUME NEW f \in Field, ~fetching' PROVE Agrees(f)'
      <4>1. CASE f \in Stamped(processed[o])
        BY <3>2, <4>1
      <4>2. CASE f \notin Stamped(processed[o])
        <5>1. Agrees(f)
          BY <1>3, <2>3, <3>5, <4>2 DEF Followed, Follows
        <5>2. QED
          BY <1>1, <1>2, <3>3, <4>2, <5>1 DEF Agrees
      <4>3. QED
        BY <4>1, <4>2
    <3>6. QED
      BY <3>4, <3>5 DEF Followed, Behind, Follows
  <2>4. QED
    BY <1>5, <2>1, <2>2, <2>3 DEF Notified
<1>6. QED
  BY <1>0, <1>4, <1>5, TellDoes

LEMMA FetchFollowed ==
  LoneInv /\ Followed /\ Fetch => Followed'
<1> SUFFICES ASSUME LoneInv, TypeOK, Absent, Followed, Fetch PROVE Followed'
  BY DEF LoneInv
<1>1. /\ fetching /\ heard' = Merged(heard, Stored)
      /\ UNCHANGED <<hasRow, row, hasMeta, meta>>
  BY FetchDoes
<1>2. hasRow
  BY <1>1 DEF Absent
<1>3. Stored = [f \in Field |-> [value |-> row[f], stamp |-> StampNow(f)]]
  BY <1>2 DEF Stored, StampNow
<1>4. DOMAIN Stored = Field
      /\ \A f \in Field : Stored[f].value = row[f] /\ Stored[f].stamp = StampNow(f)
  BY <1>3
<1>5. IsPartial(Stored)
  BY StoredType
<1>6. ASSUME NEW f \in Field PROVE Agrees(f)' /\ heard'[f].stamp <= StampNow(f)'
  BY <1>1, <1>2, <1>4, <1>5, <1>6, AgreesWithTold DEF Followed
<1>7. DOMAIN heard' \subseteq Field
  BY <1>1, <1>4 DEF Merged, TypeOK, IsPartial
<1>8. QED
  BY <1>6, <1>7 DEF Followed, Behind, Follows

LEMMA NextFollowed ==
  LoneInv /\ Followed /\ [Next]_vars /\ Undisturbed' => Followed'
<1> SUFFICES ASSUME LoneInv, TypeOK, Followed, [Next]_vars, Undisturbed'
             PROVE  Followed'
  BY DEF LoneInv
<1>0. Undisturbed /\ broken' = {}
  BY UndisturbedBefore DEF Undisturbed
<1>1. ASSUME NEW o \in Op, Rest(o), UNCHANGED <<hasRow, row, hasMeta, meta, fetching, heard>>,
             ~Writing(o)
      PROVE  Followed'
  <2>1. \A f \in Field : NotWritten(f)' => NotWritten(f)
    BY <1>1, NotWrittenBefore
  <2>2. QED
    BY <1>1, <2>1, FollowedWhenQuiet
<1>2. ASSUME NEW o \in Op, \/ \E a \in Request : Begin(o, a)
                           \/ \E keep \in Kept : BeforeUpdate(o, keep) \/ BeforeInsert(o, keep)
                           \/ Read(o) \/ Answer(o)
      PROVE  /\ Rest(o) /\ ~Writing(o)
             /\ UNCHANGED <<hasRow, row, hasMeta, meta, fetching, heard>>
  BY <1>2, BeginDoes, BeforeUpdateDoes, BeforeInsertDoes, ReadDoes, AnswerDoes DEF Writing
<1>3. ASSUME NEW o \in Op, Duplicate(o) \/ \E t \in Table : Refuse(o, t) PROVE FALSE
  <2>1. broken' = broken \cup {o}
    BY <1>3, DuplicateDoes, RefuseDoes
  <2>2. QED
    BY <1>0, <2>1
<1>4. CASE UNCHANGED vars
  <2>1. UNCHANGED <<hasRow, row, hasMeta, meta, fetching, heard, stage, processed>>
    BY <1>4, NothingDone
  <2>2. QED
    BY <2>1, FollowedWhenQuiet DEF NotWritten, Writing
<1>5. ASSUME NEW o \in Op, Tell(o) PROVE Followed'
  BY <1>0, <1>5, TellFollowed
<1>6. ASSUME NEW o \in Op, (\E t \in Table : Update(o, t)) \/ Insert(o) PROVE Followed'
  BY <1>0, <1>6, StatementFollowed
<1>7. CASE Fetch
  BY <1>7, FetchFollowed
<1>8. QED
  BY <1>1, <1>2, <1>3, <1>4, <1>5, <1>6, <1>7 DEF Next

LEMMA InitFollowed == Init => Followed
<1> SUFFICES ASSUME Init PROVE Followed
  OBVIOUS
<1>1. row = [f \in Field |-> Null] /\ hasMeta = hasRow
      /\ meta = [f \in Field |-> IF hasRow THEN 1 ELSE Unstamped]
  BY DEF Init
<1>2. CASE hasRow
  <2>1. heard = [f \in Field |-> [value |-> Converted(f, Null), stamp |-> 1]]
    BY <1>2 DEF Init
  <2>2. meta = [f \in Field |-> 1]
    BY <1>1, <1>2
  <2>3. DOMAIN heard = Field /\ \A f \in Field :
          /\ heard[f].value = Converted(f, row[f]) /\ heard[f].stamp = 1 /\ StampNow(f) = 1
    BY <1>1, <1>2, <2>1, <2>2 DEF StampNow
  <2>4. QED
    BY <1>2, <2>3 DEF Followed, Behind, Follows, Agrees
<1>3. CASE ~hasRow
  <2>1. DOMAIN heard = {}
    BY <1>3, NothingIsPartial DEF Init
  <2>2. QED
    BY <1>1, <2>1 DEF Followed, Behind, Follows, Agrees
<1>4. QED
  BY <1>2, <1>3

\* The subscriber's copy is the stored row, once every request is answered and
\* no row is being fetched (rawInsert and rawUpdate tell what they wrote, not
\* what they were asked, and a row that comes into scope is told whole), as
\* long as requests have the row one after the other and none fails halfway.
THEOREM SubscriberAlwaysHasTheRow == Spec => []SubscriberHasTheRow
<1> DEFINE Inv == LoneInv /\ (Undisturbed => Followed)
<1>1. Init => Inv
  BY InitLone, InitFollowed
<1>2. Inv /\ [Next]_vars => Inv'
  BY NextLone, NextFollowed, UndisturbedBefore
<1>3. Inv => SubscriberHasTheRow
  <2> SUFFICES ASSUME Inv, Undisturbed, ~fetching, \A o \in Op : ~Busy(o), NEW f \in Field
               PROVE  IF f \in DOMAIN heard THEN hasRow /\ heard[f] = Accepted(f, Stored[f])
                                            ELSE row[f] = Null
    BY Zenon DEF SubscriberHasTheRow
  <2>0. TypeOK /\ Followed
    BY DEF LoneInv
  <2>1. Agrees(f)
    BY <2>0 DEF Busy, Writing, NotWritten, Followed, Follows
  <2>2. ASSUME f \in DOMAIN heard PROVE hasRow /\ heard[f] = Accepted(f, Stored[f])
    <3>1. hasRow /\ heard[f].value = Converted(f, row[f]) /\ heard[f].stamp = StampNow(f)
      BY <2>1, <2>2 DEF Agrees
    <3>2. Stored[f].value = row[f] /\ Stored[f].stamp = StampNow(f) /\ f \in DOMAIN Stored
      BY <3>1 DEF Stored, StampNow
    <3>3. heard[f] \in Cell /\ Stored[f] \in Cell
      BY <2>0, <2>2, <3>2, StoredType DEF TypeOK, IsPartial
    <3>4. Accepted(f, Stored[f]) = [value |-> Converted(f, row[f]), stamp |-> StampNow(f)]
      BY <3>2, <3>3 DEF Accepted, Cell
    <3>5. heard[f] = [value |-> heard[f].value, stamp |-> heard[f].stamp]
      BY <3>3 DEF Cell
    <3>6. QED
      BY <3>1, <3>4, <3>5
  <2>3. QED
    BY <2>1, <2>2 DEF Agrees
<1>4. QED
  BY <1>1, <1>2, <1>3, PTL DEF Spec

-----------------------------------------------------------------------------
(* The relation graph.                                                     *)

\* Removing position i shifts the later elements one place to the left.
LEMMA RemoveAtElements ==
  ASSUME NEW S, NEW s \in Seq(S), NEW i \in 1..Len(s)
  PROVE  /\ RemoveAt(s, i) \in Seq(S)
         /\ Len(RemoveAt(s, i)) = Len(s) - 1
         /\ \A j \in 1..Len(s) - 1 :
              RemoveAt(s, i)[j] = IF j < i THEN s[j] ELSE s[j + 1]
<1> DEFINE l == SubSeq(s, 1, i - 1)
           r == SubSeq(s, i + 1, Len(s))
<1>0. Len(s) \in Nat /\ \A j \in 1..Len(s) : s[j] \in S
  OBVIOUS
<1>1. l \in Seq(S) /\ Len(l) = i - 1 /\ \A j \in 1..i - 1 : l[j] = s[j]
  BY <1>0, SubSeqProperties
<1>2. /\ r \in Seq(S) /\ Len(r) = Len(s) - i
      /\ \A j \in 1..Len(s) - i : r[j] = s[i + j]
  BY <1>0, SubSeqProperties
<1> HIDE DEF l, r
<1>3. /\ l \o r \in Seq(S) /\ Len(l \o r) = Len(l) + Len(r)
      /\ \A j \in 1..Len(l) + Len(r) :
           (l \o r)[j] = IF j <= Len(l) THEN l[j] ELSE r[j - Len(l)]
  BY <1>1, <1>2, ConcatProperties
<1>4. RemoveAt(s, i) = l \o r
  BY DEF RemoveAt, l, r
<1>5. ASSUME NEW j \in 1..Len(s) - 1
      PROVE  (l \o r)[j] = IF j < i THEN s[j] ELSE s[j + 1]
  <2>1. (l \o r)[j] = IF j <= i - 1 THEN l[j] ELSE r[j - (i - 1)]
    BY <1>0, <1>1, <1>2, <1>3
  <2>2. QED
    BY <2>1, <1>0, <1>1, <1>2
<1>6. Len(l \o r) = Len(s) - 1
  BY <1>0, <1>1, <1>2, <1>3
<1>7. QED
  BY <1>3, <1>4, <1>5, <1>6

GraphInv == GraphTypeOK /\ EdgesAreReferenced

-----------------------------------------------------------------------------
LEMMA InitGraphInv == GraphInit => GraphInv
<1> SUFFICES ASSUME GraphInit PROVE GraphInv
  OBVIOUS
<1>1. outbox \in Seq(RowWrite) /\ reads \in Seq(UNION {[S -> Row] : S \in SUBSET Id})
  BY DEF GraphInit
<1>2. references \in [Id -> Row] /\ \A s \in Id, r \in Fk : references[s][r] = Nil
  BY DEF GraphInit, Row
<1>3. referencedBy \in [Id -> [Fk -> SUBSET Id]]
  BY DEF GraphInit
<1>4. EdgesAreReferenced
  BY <1>2, GraphAssumption DEF EdgesAreReferenced
<1>5. QED
  BY <1>1, <1>2, <1>3, <1>4 DEF GraphInit, GraphInv, GraphTypeOK

\* The rows a read returned.
LEMMA ReadRows ==
  ASSUME NEW rows \in UNION {[S -> Row] : S \in SUBSET Id}
  PROVE  DOMAIN rows \subseteq Id /\ \A s \in DOMAIN rows : rows[s] \in Row
OBVIOUS

LEMMA TargetsAreIds ==
  ASSUME NEW rec \in Row, NEW rels \in SUBSET Fk
  PROVE  Targets(rec, rels) \subseteq Id
BY DEF Targets, Row

\* applyWrite, whatever it is given.
LEMMA ApplyWritePreserves ==
  ASSUME GraphInv, NEW id \in Id, NEW rec \in Row, NEW touched \in SUBSET Fk,
         ApplyWrite(id, rec, touched)
  PROVE  /\ nodes' \subseteq Id /\ nodes \cup {id} \subseteq nodes'
         /\ references' \in [Id -> Row]
         /\ referencedBy' \in [Id -> [Fk -> SUBSET Id]]
         /\ EdgesAreReferenced'
<1> DEFINE changed == {r \in touched : references[id][r] # rec[r]}
<1>1. /\ nodes \subseteq Id /\ references \in [Id -> Row]
      /\ referencedBy \in [Id -> [Fk -> SUBSET Id]] /\ EdgesAreReferenced
      /\ Paired \subseteq Fk
  BY GraphAssumption DEF GraphInv, GraphTypeOK
<1>2. changed \in SUBSET Fk
  OBVIOUS
<1>3. /\ nodes' = nodes \cup {id} \cup Targets(rec, changed)
      /\ references' =
           [references EXCEPT ![id] = [r \in Fk |-> IF r \in changed THEN rec[r] ELSE @[r]]]
      /\ referencedBy' =
           [t \in Id |-> [r \in Fk |->
             IF r \notin changed \cap Paired THEN referencedBy[t][r]
             ELSE IF rec[r] = t THEN referencedBy[t][r] \cup {id}
             ELSE IF references[id][r] = t THEN referencedBy[t][r] \ {id}
             ELSE referencedBy[t][r]]]
  BY DEF ApplyWrite
<1> HIDE DEF changed
<1>4. nodes' \subseteq Id /\ nodes \cup {id} \subseteq nodes'
  BY <1>1, <1>2, <1>3, TargetsAreIds
<1>5. references' \in [Id -> Row]
  <2>1. [r \in Fk |-> IF r \in changed THEN rec[r] ELSE references[id][r]] \in Row
    BY <1>1 DEF Row
  <2>2. QED
    BY <1>1, <1>3, <2>1
<1>6. referencedBy' \in [Id -> [Fk -> SUBSET Id]]
  BY <1>1, <1>3
<1>7. ASSUME NEW s \in Id, NEW r \in Paired, references'[s][r] # Nil
      PROVE  /\ references'[s][r] \in nodes'
             /\ s \in referencedBy'[references'[s][r]][r]
  <2>0. r \in Fk
    BY <1>1
  <2> DEFINE t == references'[s][r]
  <2>1. t \in Id
    BY <1>5, <1>7, <2>0 DEF Row
  <2>2. CASE s = id /\ r \in changed
    <3>1. t = rec[r]
      BY <1>1, <1>3, <2>0, <2>2
    <3>2. t \in Targets(rec, changed)
      BY <1>7, <2>2, <3>1 DEF Targets
    <3> HIDE DEF t
    <3>3. s \in referencedBy'[t][r]
      BY <1>3, <2>0, <2>1, <2>2, <3>1
    <3>4. t \in nodes'
      BY <1>3, <3>2
    <3>5. QED
      BY <3>3, <3>4 DEF t
  <2>3. CASE ~(s = id /\ r \in changed)
    <3>1. t = references[s][r]
      BY <1>1, <1>3, <2>0, <2>3
    <3>2. t \in nodes /\ s \in referencedBy[t][r]
      BY <1>1, <1>7, <3>1 DEF EdgesAreReferenced
    <3> HIDE DEF t
    <3>3. s \in referencedBy'[t][r]
      <4>1. CASE r \notin changed
        BY <1>3, <2>0, <2>1, <3>2, <4>1
      <4>2. CASE s # id
        BY <1>3, <2>0, <2>1, <3>2, <4>2
      <4>3. QED
        BY <2>3, <4>1, <4>2
    <3>4. t \in nodes'
      BY <1>3, <3>2
    <3>5. QED
      BY <3>3, <3>4 DEF t
  <2>4. QED
    BY <2>2, <2>3
<1>8. QED
  BY <1>4, <1>5, <1>6, <1>7 DEF EdgesAreReferenced

\* ingest, whatever rows it is given, stale ones included.
LEMMA IngestPreserves ==
  ASSUME GraphInv, NEW rows \in UNION {[S -> Row] : S \in SUBSET Id}, Ingest(rows)
  PROVE  /\ nodes' \subseteq Id /\ nodes \cup DOMAIN rows \subseteq nodes'
         /\ references' \in [Id -> Row]
         /\ referencedBy' \in [Id -> [Fk -> SUBSET Id]]
         /\ EdgesAreReferenced'
<1>1. /\ nodes \subseteq Id /\ references \in [Id -> Row]
      /\ referencedBy \in [Id -> [Fk -> SUBSET Id]] /\ EdgesAreReferenced
      /\ Paired \subseteq Fk
  BY GraphAssumption DEF GraphInv, GraphTypeOK
<1>2. DOMAIN rows \subseteq Id /\ \A s \in DOMAIN rows : rows[s] \in Row
  BY ReadRows
<1>3. /\ nodes' = nodes \cup DOMAIN rows \cup UNION {Targets(rows[s], Fk) : s \in DOMAIN rows}
      /\ references' =
           [s \in Id |-> [r \in Fk |->
             IF s \in DOMAIN rows /\ rows[s][r] # Nil THEN rows[s][r] ELSE references[s][r]]]
      /\ referencedBy' =
           [t \in Id |-> [r \in Fk |->
             referencedBy[t][r] \cup {s \in DOMAIN rows : r \in Paired /\ rows[s][r] = t}]]
  BY DEF Ingest
<1>4. nodes' \subseteq Id /\ nodes \cup DOMAIN rows \subseteq nodes'
  <2>1. \A s \in DOMAIN rows : Targets(rows[s], Fk) \subseteq Id
    BY <1>2, TargetsAreIds
  <2>2. QED
    BY <1>1, <1>2, <1>3, <2>1
<1>5. references' \in [Id -> Row]
  BY <1>1, <1>2, <1>3 DEF Row
<1>6. referencedBy' \in [Id -> [Fk -> SUBSET Id]]
  BY <1>1, <1>2, <1>3
<1>7. ASSUME NEW s \in Id, NEW r \in Paired, references'[s][r] # Nil
      PROVE  /\ references'[s][r] \in nodes'
             /\ s \in referencedBy'[references'[s][r]][r]
  <2>0. r \in Fk
    BY <1>1
  <2> DEFINE t == references'[s][r]
  <2>1. t \in Id
    BY <1>5, <1>7, <2>0 DEF Row
  <2>2. CASE s \in DOMAIN rows /\ rows[s][r] # Nil
    <3>1. t = rows[s][r]
      BY <1>3, <2>0, <2>2
    <3>2. t \in Targets(rows[s], Fk)
      BY <1>7, <2>0, <3>1 DEF Targets
    <3> HIDE DEF t
    <3>3. s \in referencedBy'[t][r]
      BY <1>3, <2>0, <2>1, <2>2, <3>1
    <3>4. t \in nodes'
      BY <1>3, <2>2, <3>2
    <3>5. QED
      BY <3>3, <3>4 DEF t
  <2>3. CASE ~(s \in DOMAIN rows /\ rows[s][r] # Nil)
    <3>1. t = references[s][r]
      BY <1>3, <2>0, <2>3
    <3>2. t \in nodes /\ s \in referencedBy[t][r]
      BY <1>1, <1>7, <3>1 DEF EdgesAreReferenced
    <3> HIDE DEF t
    <3>3. s \in referencedBy'[t][r]
      BY <1>3, <2>0, <2>1, <3>2
    <3>4. t \in nodes'
      BY <1>3, <3>2
    <3>5. QED
      BY <3>3, <3>4 DEF t
  <2>4. QED
    BY <2>2, <2>3
<1>8. QED
  BY <1>4, <1>5, <1>6, <1>7 DEF EdgesAreReferenced

-----------------------------------------------------------------------------
LEMMA CommitPreserves ==
  ASSUME GraphInv, NEW w \in RowWrite, Commit(w)
  PROVE  GraphInv'
<1>1. store' \in [Id -> Row \cup {NoRow}]
  BY DEF Commit, RowWrite, GraphInv, GraphTypeOK
<1>2. outbox' \in Seq(RowWrite)
  BY DEF Commit, GraphInv, GraphTypeOK
<1>3. met' \subseteq Id
  BY DEF Commit, Meet, RowWrite, GraphInv, GraphTypeOK
<1>4. QED
  BY <1>1, <1>2, <1>3 DEF Commit, graph, GraphInv, GraphTypeOK, EdgesAreReferenced

LEMMA EvaluatePreserves ==
  ASSUME GraphInv, NEW S \in SUBSET Id, Evaluate(S)
  PROVE  GraphInv'
<1> DEFINE Rows == UNION {[T -> Row] : T \in SUBSET Id}
           rows == [id \in S |-> store[id]]
<1>1. \A id \in S : store[id] \in Row
  BY DEF Evaluate, GraphInv, GraphTypeOK
<1>2. rows \in [S -> Row]
  BY <1>1
<1>3. rows \in Rows
  BY <1>2
<1>4. reads' = Append(reads, rows) /\ reads \in Seq(Rows)
  BY DEF Evaluate, GraphInv, GraphTypeOK
<1> HIDE DEF Rows, rows
<1>5. reads' \in Seq(Rows)
  BY <1>3, <1>4
<1>6. met' \subseteq Id
  BY DEF Evaluate, Meet, GraphInv, GraphTypeOK
<1>7. QED
  BY <1>5, <1>6 DEF Rows, Evaluate, graph, GraphInv, GraphTypeOK, EdgesAreReferenced

LEMMA NotifyPreserves ==
  ASSUME GraphInv, NEW k \in DOMAIN outbox, Notify(k)
  PROVE  GraphInv'
<1> DEFINE w == outbox[k]
<1>1. outbox \in Seq(RowWrite) /\ k \in 1..Len(outbox)
  BY DEF GraphInv, GraphTypeOK
<1>2. w \in RowWrite
  BY <1>1
<1>3. w.id \in Id /\ w.row \in Row /\ w.touched \in SUBSET Fk
  BY <1>2 DEF RowWrite
<1>4. outbox' = RemoveAt(outbox, k) /\ store' = store /\ reads' = reads
  BY DEF Notify
<1>5. outbox' \in Seq(RowWrite)
  BY <1>1, <1>4, RemoveAtElements
<1>6. /\ met' = met
      /\ \/ UNCHANGED <<whole, nodes, references, referencedBy>>
         \/ whole' \subseteq whole \cup {w.id} /\ ApplyWrite(w.id, w.row, w.touched)
  BY DEF Notify, graph
<1> HIDE DEF w
<1>7. CASE UNCHANGED <<whole, nodes, references, referencedBy>>
  BY <1>4, <1>5, <1>6, <1>7 DEF GraphInv, GraphTypeOK, EdgesAreReferenced
<1>8. CASE whole' \subseteq whole \cup {w.id} /\ ApplyWrite(w.id, w.row, w.touched)
  <2>1. /\ nodes' \subseteq Id /\ nodes \cup {w.id} \subseteq nodes'
        /\ references' \in [Id -> Row]
        /\ referencedBy' \in [Id -> [Fk -> SUBSET Id]]
        /\ EdgesAreReferenced'
    BY <1>3, <1>8, ApplyWritePreserves
  <2>2. whole' \subseteq nodes'
    BY <1>8, <2>1 DEF GraphInv, GraphTypeOK
  <2>3. QED
    BY <1>4, <1>5, <1>6, <2>1, <2>2 DEF GraphInv, GraphTypeOK
<1>9. QED
  BY <1>6, <1>7, <1>8

LEMMA DeliverPreserves ==
  ASSUME GraphInv, NEW i \in DOMAIN reads, Deliver(i)
  PROVE  GraphInv'
<1> DEFINE Rows == UNION {[S -> Row] : S \in SUBSET Id}
<1>1. reads \in Seq(Rows) /\ i \in 1..Len(reads)
  BY DEF GraphInv, GraphTypeOK
<1>2. reads[i] \in Rows
  BY <1>1
<1>3. reads' = RemoveAt(reads, i) /\ Ingest(reads[i]) /\ whole' = whole \cup DOMAIN reads[i]
      /\ store' = store /\ outbox' = outbox /\ met' = met
  BY DEF Deliver
<1>4. /\ nodes' \subseteq Id /\ nodes \cup DOMAIN reads[i] \subseteq nodes'
      /\ references' \in [Id -> Row]
      /\ referencedBy' \in [Id -> [Fk -> SUBSET Id]]
      /\ EdgesAreReferenced'
  BY <1>2, <1>3, IngestPreserves
<1> HIDE DEF Rows
<1>5. reads' \in Seq(Rows)
  BY <1>1, <1>3, RemoveAtElements
<1>6. whole' \subseteq nodes'
  BY <1>3, <1>4 DEF GraphInv, GraphTypeOK
<1>7. QED
  BY <1>3, <1>4, <1>5, <1>6 DEF Rows, GraphInv, GraphTypeOK

LEMMA NextGraphInv == GraphInv /\ [GraphNext]_graphVars => GraphInv'
<1> SUFFICES ASSUME GraphInv, [GraphNext]_graphVars PROVE GraphInv'
  OBVIOUS
<1>1. CASE UNCHANGED graphVars
  BY <1>1 DEF graphVars, graph, GraphInv, GraphTypeOK, EdgesAreReferenced
<1>2. QED
  BY <1>1, CommitPreserves, EvaluatePreserves,
     NotifyPreserves, DeliverPreserves DEF GraphNext

\* Every reachable state of the graph and its feeds has its type.
THEOREM GraphTypeCorrect == GraphSpec => []GraphTypeOK
<1>1. GraphInv => GraphTypeOK
  BY DEF GraphInv
<1>2. QED
  BY <1>1, InitGraphInv, NextGraphInv, PTL DEF GraphSpec

\* The half of the pairing that holds whatever stale rows are ingested: the
\* fan-out of a write to a related row reaches every row whose edge leads there.
THEOREM EdgesAlwaysReferenced == GraphSpec => []EdgesAreReferenced
<1>1. GraphInv => EdgesAreReferenced
  BY DEF GraphInv
<1>2. QED
  BY <1>1, InitGraphInv, NextGraphInv, PTL DEF GraphSpec

-----------------------------------------------------------------------------
(* Rows of which no two writes or reads met.                               *)

\* An update of the row's column is on its way.
Moves(s, r) ==
  \E k \in DOMAIN outbox : outbox[k].id = s /\ outbox[k].op = "UPDATE" /\ r \in outbox[k].touched

\* What is on its way of the row is one write or one read, and says what is stored.
OnItsWayAlone(s) ==
  /\ \A k \in DOMAIN outbox, i \in DOMAIN reads : ~(outbox[k].id = s /\ s \in DOMAIN reads[i])
  /\ \A k \in DOMAIN outbox : outbox[k].id = s =>
       outbox[k].row = store[s] /\ (outbox[k].op = "INSERT" => outbox[k].touched = Fk)
  /\ \A i \in DOMAIN reads : s \in DOMAIN reads[i] => reads[i][s] = store[s]

\* An edge leads where the foreign key does, and a row taken in whole has the
\* edge, unless the write that moves it is on its way.
EdgesFollow(s) ==
  /\ s \in whole => store[s] # NoRow
  /\ \A r \in Fk : references[s][r] # Nil \/ s \in whole =>
       store[s] # NoRow /\ (references[s][r] = store[s][r] \/ Moves(s, r))

Current == \A s \in Id \ met : OnItsWayAlone(s) /\ EdgesFollow(s)

LEMMA InitCurrent == GraphInit => Current
<1> SUFFICES ASSUME GraphInit PROVE Current
  OBVIOUS
<1>1. outbox = <<>> /\ reads = <<>> /\ whole = {} /\ \A s \in Id, r \in Fk : references[s][r] = Nil
  BY DEF GraphInit
<1>2. QED
  BY <1>1 DEF Current, OnItsWayAlone, EdgesFollow

\* What is left of a sequence when one element is taken.
LEMMA RemoveAtKeeps ==
  ASSUME NEW S, NEW s \in Seq(S), NEW i \in DOMAIN s
  PROVE  /\ \A j \in DOMAIN RemoveAt(s, i) : \E m \in DOMAIN s : RemoveAt(s, i)[j] = s[m]
         /\ \A m \in DOMAIN s \ {i} : \E j \in DOMAIN RemoveAt(s, i) : RemoveAt(s, i)[j] = s[m]
<1> DEFINE t == RemoveAt(s, i)
<1>1. Len(s) \in Nat /\ DOMAIN s = 1..Len(s) /\ i \in 1..Len(s)
  OBVIOUS
<1>2. t \in Seq(S) /\ Len(t) = Len(s) - 1
      /\ \A j \in 1..Len(s) - 1 : t[j] = IF j < i THEN s[j] ELSE s[j + 1]
  BY <1>1, RemoveAtElements
<1> HIDE DEF t
<1>3. DOMAIN t = 1..Len(s) - 1
  BY <1>1, <1>2
<1>4. ASSUME NEW j \in DOMAIN t PROVE \E m \in DOMAIN s : t[j] = s[m]
  <2>1. j \in DOMAIN s /\ j + 1 \in DOMAIN s
    BY <1>1, <1>3
  <2>2. t[j] = s[j] \/ t[j] = s[j + 1]
    BY <1>2, <1>3
  <2>3. QED
    BY <2>1, <2>2
<1>5. ASSUME NEW m \in DOMAIN s \ {i} PROVE \E j \in DOMAIN t : t[j] = s[m]
  <2>1. CASE m < i
    <3>1. m \in DOMAIN t
      BY <1>1, <1>3, <2>1
    <3>2. QED
      BY <1>2, <1>3, <2>1, <3>1
  <2>2. CASE m > i
    <3>1. m - 1 \in DOMAIN t /\ ~(m - 1 < i) /\ (m - 1) + 1 = m
      BY <1>1, <1>3, <2>2
    <3>2. t[m - 1] = s[(m - 1) + 1]
      BY <1>2, <1>3, <3>1
    <3>3. QED
      BY <3>1, <3>2
  <2>3. QED
    BY <1>1, <2>1, <2>2
<1>6. QED
  BY <1>4, <1>5 DEF t

LEMMA AppendElements ==
  ASSUME NEW S, NEW s \in Seq(S), NEW x \in S
  PROVE  /\ \A j \in DOMAIN s : j \in DOMAIN Append(s, x) /\ Append(s, x)[j] = s[j]
         /\ Len(s) + 1 \in DOMAIN Append(s, x) /\ Append(s, x)[Len(s) + 1] = x
         /\ \A j \in DOMAIN Append(s, x) : j \in DOMAIN s \/ j = Len(s) + 1
OBVIOUS

\* A write starts: the edges it moves are the ones it announces.
LEMMA CommitCurrent ==
  ASSUME GraphTypeOK, Current, NEW w \in RowWrite, Commit(w)
  PROVE  Current'
<1> SUFFICES ASSUME NEW s \in Id, s \notin met' PROVE OnItsWayAlone(s)' /\ EdgesFollow(s)'
  BY DEF Current
<1>1. w.id \in Id /\ w.row \in Row /\ w.op \in {"INSERT", "UPDATE"} /\ NoRow \notin Row
  BY GraphAssumption DEF RowWrite, Row
<1>2. /\ outbox' = Append(outbox, w) /\ outbox \in Seq(RowWrite)
      /\ UNCHANGED <<reads, references, whole>>
  BY DEF Commit, GraphTypeOK, graph
<1>3. /\ \A j \in DOMAIN outbox : j \in DOMAIN outbox' /\ outbox'[j] = outbox[j]
      /\ Len(outbox) + 1 \in DOMAIN outbox' /\ outbox'[Len(outbox) + 1] = w
      /\ \A j \in DOMAIN outbox' : j \in DOMAIN outbox \/ j = Len(outbox) + 1
  BY <1>2, AppendElements
<1>4. store'[w.id] = w.row /\ \A p \in Id \ {w.id} : store'[p] = store[p]
  BY <1>1 DEF Commit, GraphTypeOK
<1>5. s \notin met /\ (s = w.id => ~OnItsWay(s))
  BY DEF Commit, Meet
<1>6. OnItsWayAlone(s) /\ EdgesFollow(s)
  BY <1>5 DEF Current
<1>7. CASE s # w.id
  <2>1. store'[s] = store[s]
    BY <1>4, <1>7
  <2>2. OnItsWayAlone(s)'
    BY <1>2, <1>3, <1>6, <1>7, <2>1 DEF OnItsWayAlone
  <2>3. \A r \in Fk : Moves(s, r) => Moves(s, r)'
    BY <1>3 DEF Moves
  <2>4. EdgesFollow(s)'
    BY <1>2, <1>6, <2>1, <2>3 DEF EdgesFollow
  <2>5. QED
    BY <2>2, <2>4
<1>8. CASE s = w.id
  <2>1. /\ \A k \in DOMAIN outbox : outbox[k].id # s
        /\ \A i \in DOMAIN reads : s \notin DOMAIN reads[i]
    BY <1>5, <1>8 DEF OnItsWay
  <2>2. OnItsWayAlone(s)'
    <3>1. w.op = "INSERT" => w.touched = Fk
      BY DEF Commit
    <3>2. QED
      BY <1>2, <1>3, <1>4, <1>8, <2>1, <3>1 DEF OnItsWayAlone
  <2>3. \A r \in Fk : ~Moves(s, r)
    BY <2>1 DEF Moves
  <2>4. store'[s] # NoRow
    BY <1>1, <1>4, <1>8
  <2>5. ASSUME NEW r \in Fk, references[s][r] # Nil \/ s \in whole
        PROVE  references'[s][r] = store'[s][r] \/ Moves(s, r)'
    <3>1. store[s] # NoRow /\ references[s][r] = store[s][r]
      BY <1>6, <2>3, <2>5 DEF EdgesFollow
    <3>2. w.op = "UPDATE" /\ (r \notin w.touched => w.row[r] = store[w.id][r])
      BY <1>1, <1>8, <3>1 DEF Commit
    <3>3. CASE r \in w.touched
      BY <1>3, <1>8, <3>2, <3>3 DEF Moves
    <3>4. CASE r \notin w.touched
      BY <1>2, <1>4, <1>8, <3>1, <3>2, <3>4
    <3>5. QED
      BY <3>3, <3>4
  <2>6. EdgesFollow(s)'
    BY <1>2, <2>4, <2>5 DEF EdgesFollow
  <2>7. QED
    BY <2>2, <2>6
<1>9. QED
  BY <1>7, <1>8

\* A read starts: of a row that nothing else is on its way of.
LEMMA EvaluateCurrent ==
  ASSUME GraphTypeOK, Current, NEW S \in SUBSET Id, Evaluate(S)
  PROVE  Current'
<1> DEFINE rows == [id \in S |-> store[id]]
<1> SUFFICES ASSUME NEW s \in Id, s \notin met' PROVE OnItsWayAlone(s)' /\ EdgesFollow(s)'
  BY DEF Current
<1>1. /\ reads' = Append(reads, rows) /\ reads \in Seq(UNION {[T -> Row] : T \in SUBSET Id})
      /\ UNCHANGED <<store, outbox, references, whole>>
  BY DEF Evaluate, GraphTypeOK, graph
<1>2. DOMAIN rows = S /\ \A p \in S : rows[p] = store[p]
  OBVIOUS
<1>0. rows \in UNION {[T -> Row] : T \in SUBSET Id}
  <2>1. \A id \in S : store[id] \in Row
    BY DEF Evaluate, GraphTypeOK
  <2>2. rows \in [S -> Row]
    BY <2>1
  <2>3. QED
    BY <2>2
<1> HIDE DEF rows
<1>3. /\ \A j \in DOMAIN reads : j \in DOMAIN reads' /\ reads'[j] = reads[j]
      /\ Len(reads) + 1 \in DOMAIN reads' /\ reads'[Len(reads) + 1] = rows
      /\ \A j \in DOMAIN reads' : j \in DOMAIN reads \/ j = Len(reads) + 1
  BY <1>0, <1>1, AppendElements
<1>4. s \notin met /\ (s \in S => ~OnItsWay(s))
  BY DEF Evaluate, Meet
<1>5. OnItsWayAlone(s) /\ EdgesFollow(s)
  BY <1>4 DEF Current
<1>6. EdgesFollow(s)'
  BY <1>1, <1>5 DEF EdgesFollow, Moves
<1>7. CASE s \notin S
  <2>1. OnItsWayAlone(s)'
    BY <1>1, <1>2, <1>3, <1>5, <1>7 DEF OnItsWayAlone
  <2>2. QED
    BY <1>6, <2>1
<1>8. CASE s \in S
  <2>1. /\ \A k \in DOMAIN outbox : outbox[k].id # s
        /\ \A i \in DOMAIN reads : s \notin DOMAIN reads[i]
    BY <1>4, <1>8 DEF OnItsWay
  <2>2. OnItsWayAlone(s)'
    BY <1>1, <1>2, <1>3, <1>8, <2>1 DEF OnItsWayAlone
  <2>3. QED
    BY <1>6, <2>2
<1>9. QED
  BY <1>7, <1>8

\* What applyWrite leaves of a row's edges.
LEMMA ApplyWriteEdges ==
  ASSUME GraphTypeOK, NEW id \in Id, NEW rec \in Row, NEW touched \in SUBSET Fk,
         ApplyWrite(id, rec, touched)
  PROVE  /\ \A r \in Fk : references'[id][r] = IF r \in touched THEN rec[r] ELSE references[id][r]
         /\ \A s \in Id \ {id} : references'[s] = references[s]
<1>1. references' =
        [references EXCEPT ![id] =
          [r \in Fk |-> IF r \in {q \in touched : references[id][q] # rec[q]} THEN rec[r] ELSE @[r]]]
  BY DEF ApplyWrite
<1>2. references \in [Id -> Row]
  BY DEF GraphTypeOK
<1>3. QED
  BY <1>1, <1>2

LEMMA NotifyCurrent ==
  ASSUME GraphTypeOK, Current, NEW k \in DOMAIN outbox, Notify(k)
  PROVE  Current'
<1> DEFINE w == outbox[k]
<1> SUFFICES ASSUME NEW s \in Id, s \notin met' PROVE OnItsWayAlone(s)' /\ EdgesFollow(s)'
  BY DEF Current
<1>1. /\ outbox' = RemoveAt(outbox, k) /\ outbox \in Seq(RowWrite)
      /\ UNCHANGED <<store, reads, met>>
  BY DEF Notify, GraphTypeOK
<1>2. /\ \A j \in DOMAIN outbox' : \E m \in DOMAIN outbox : outbox'[j] = outbox[m]
      /\ \A m \in DOMAIN outbox \ {k} : \E j \in DOMAIN outbox' : outbox'[j] = outbox[m]
  BY <1>1, RemoveAtKeeps
<1>3. OnItsWayAlone(s) /\ EdgesFollow(s)
  BY <1>1 DEF Current
<1>4. OnItsWayAlone(s)'
  BY <1>1, <1>2, <1>3 DEF OnItsWayAlone
<1>5. w \in RowWrite
  BY DEF GraphTypeOK
<1>6. w.id \in Id /\ w.row \in Row /\ w.touched \in SUBSET Fk /\ w.op \in {"INSERT", "UPDATE"}
      /\ NoRow \notin Row
  BY <1>5, GraphAssumption DEF RowWrite, Row
<1>7. s = w.id => store[s] = w.row /\ (w.op = "INSERT" => w.touched = Fk)
  BY <1>3 DEF OnItsWayAlone
<1>8. \/ w.op = "INSERT" /\ UNCHANGED <<references, whole>>
      \/ /\ ApplyWrite(w.id, w.row, w.touched)
         /\ \/ w.op = "INSERT" /\ whole' = whole \cup {w.id}
            \/ w.op = "UPDATE" /\ whole' = whole
  BY DEF Notify, graph
<1>9. ASSUME NEW r \in Fk, Moves(s, r)
      PROVE  Moves(s, r)' \/ (s = w.id /\ w.op = "UPDATE" /\ r \in w.touched)
  <2>1. PICK m \in DOMAIN outbox : outbox[m].id = s /\ outbox[m].op = "UPDATE" /\ r \in outbox[m].touched
    BY <1>9 DEF Moves
  <2>2. CASE m = k
    BY <2>1, <2>2
  <2>3. CASE m # k
    <3>1. PICK j \in DOMAIN outbox' : outbox'[j] = outbox[m]
      BY <1>2, <2>3
    <3>2. QED
      BY <2>1, <3>1 DEF Moves
  <2>4. QED
    BY <2>2, <2>3
<1> HIDE DEF w
<1>10. CASE w.op = "INSERT" /\ UNCHANGED <<references, whole>>
  <2>1. \A r \in Fk : Moves(s, r) => Moves(s, r)'
    BY <1>9, <1>10
  <2>2. EdgesFollow(s)'
    BY <1>1, <1>3, <1>10, <2>1 DEF EdgesFollow
  <2>3. QED
    BY <1>4, <2>2
<1>11. CASE /\ ApplyWrite(w.id, w.row, w.touched)
            /\ \/ w.op = "INSERT" /\ whole' = whole \cup {w.id}
               \/ w.op = "UPDATE" /\ whole' = whole
  <2>1. /\ \A r \in Fk : references'[w.id][r] = IF r \in w.touched THEN w.row[r] ELSE references[w.id][r]
        /\ \A p \in Id \ {w.id} : references'[p] = references[p]
    BY <1>6, <1>11, ApplyWriteEdges
  <2>2. ASSUME NEW r \in Fk, references'[s][r] # Nil \/ s \in whole'
        PROVE  store[s] # NoRow /\ (references'[s][r] = store[s][r] \/ Moves(s, r)')
    <3>1. CASE s = w.id /\ r \in w.touched
      BY <1>6, <1>7, <2>1, <3>1
    <3>2. CASE ~(s = w.id /\ r \in w.touched)
      <4>1. references'[s][r] = references[s][r]
        BY <2>1, <3>2
      <4>2. s \in whole' => s \in whole
        BY <1>7, <1>11, <3>2
      <4>3. store[s] # NoRow /\ (references[s][r] = store[s][r] \/ Moves(s, r))
        BY <1>3, <2>2, <4>1, <4>2 DEF EdgesFollow
      <4>4. QED
        BY <1>9, <3>2, <4>1, <4>3
    <3>3. QED
      BY <3>1, <3>2
  <2>3. s \in whole' => store[s] # NoRow
    BY <1>3, <1>6, <1>7, <1>11 DEF EdgesFollow
  <2>4. EdgesFollow(s)'
    BY <1>1, <2>2, <2>3 DEF EdgesFollow
  <2>5. QED
    BY <1>4, <2>4
<1>12. QED
  BY <1>8, <1>10, <1>11

LEMMA DeliverCurrent ==
  ASSUME GraphTypeOK, Current, NEW i \in DOMAIN reads, Deliver(i)
  PROVE  Current'
<1> SUFFICES ASSUME NEW s \in Id, s \notin met' PROVE OnItsWayAlone(s)' /\ EdgesFollow(s)'
  BY DEF Current
<1>1. /\ reads' = RemoveAt(reads, i) /\ reads \in Seq(UNION {[S -> Row] : S \in SUBSET Id})
      /\ whole' = whole \cup DOMAIN reads[i]
      /\ UNCHANGED <<store, outbox, met>>
  BY DEF Deliver, GraphTypeOK
<1>2. \A j \in DOMAIN reads' : \E m \in DOMAIN reads : reads'[j] = reads[m]
  BY <1>1, RemoveAtKeeps
<1>3. OnItsWayAlone(s) /\ EdgesFollow(s)
  BY <1>1 DEF Current
<1>4. OnItsWayAlone(s)'
  BY <1>1, <1>2, <1>3 DEF OnItsWayAlone
<1>5. \A r \in Fk : Moves(s, r)' <=> Moves(s, r)
  BY <1>1 DEF Moves
<1>6. \A r \in Fk :
        references'[s][r] = IF s \in DOMAIN reads[i] /\ reads[i][s][r] # Nil
                            THEN reads[i][s][r] ELSE references[s][r]
  BY DEF Deliver, Ingest
<1>7. reads[i] \in UNION {[S -> Row] : S \in SUBSET Id}
  BY <1>1
<1>8. s \in DOMAIN reads[i] => reads[i][s] \in Row /\ reads[i][s] = store[s] /\ store[s] # NoRow
  <2>1. NoRow \notin Row
    BY GraphAssumption DEF Row
  <2>2. QED
    BY <1>3, <1>7, <2>1, ReadRows DEF OnItsWayAlone
<1>9. ASSUME NEW r \in Fk, references'[s][r] # Nil \/ s \in whole'
      PROVE  store[s] # NoRow /\ (references'[s][r] = store[s][r] \/ Moves(s, r))
  <2>1. CASE s \in DOMAIN reads[i] /\ reads[i][s][r] # Nil
    BY <1>6, <1>8, <2>1
  <2>2. CASE s \in DOMAIN reads[i] /\ reads[i][s][r] = Nil
    <3>1. references'[s][r] = references[s][r] /\ store[s][r] = Nil
      BY <1>6, <1>8, <2>2
    <3>2. QED
      BY <1>3, <1>8, <2>2, <3>1 DEF EdgesFollow
  <2>3. CASE s \notin DOMAIN reads[i]
    <3>1. references'[s][r] = references[s][r] /\ (s \in whole' => s \in whole)
      BY <1>1, <1>6, <2>3
    <3>2. QED
      BY <1>3, <1>9, <3>1 DEF EdgesFollow
  <2>4. QED
    BY <2>1, <2>2, <2>3
<1>10. s \in whole' => store[s] # NoRow
  BY <1>1, <1>3, <1>8 DEF EdgesFollow
<1>11. EdgesFollow(s)'
  BY <1>1, <1>5, <1>9, <1>10 DEF EdgesFollow
<1>12. QED
  BY <1>4, <1>11

LEMMA NextCurrent == GraphTypeOK /\ Current /\ [GraphNext]_graphVars => Current'
<1>1. UNCHANGED graphVars /\ Current => Current'
  BY DEF graphVars, graph, Current, OnItsWayAlone, EdgesFollow, Moves
<1>2. QED
  BY <1>1, CommitCurrent, EvaluateCurrent, NotifyCurrent, DeliverCurrent DEF GraphNext

\* Only an edge whose inverse is declared is known at its target.
PairedOnly == \A t \in Id, r \in Fk \ Paired : referencedBy[t][r] = {}

LEMMA NextPairedOnly == PairedOnly /\ [GraphNext]_graphVars => PairedOnly'
<1> SUFFICES ASSUME PairedOnly, [GraphNext]_graphVars PROVE PairedOnly'
  OBVIOUS
<1>1. ASSUME NEW id, NEW rec, NEW touched, ApplyWrite(id, rec, touched) PROVE PairedOnly'
  BY <1>1 DEF ApplyWrite, PairedOnly
<1>2. ASSUME NEW rows, Ingest(rows) PROVE PairedOnly'
  BY <1>2 DEF Ingest, PairedOnly
<1>3. ASSUME UNCHANGED referencedBy PROVE PairedOnly'
  BY <1>3 DEF PairedOnly
<1>4. QED
  BY <1>1, <1>2, <1>3 DEF GraphNext, Commit, Evaluate, Notify, Deliver, graph, graphVars

\* A target keeps no row that left it: applyWrite unlinks what it replaces, and
\* ingest replaces nothing, because what it is given is what the graph has.
LEMMA NextReferencesAreEdges ==
  GraphTypeOK /\ Current /\ PairedOnly /\ ReferencesAreEdges /\ [GraphNext]_graphVars => ReferencesAreEdges'
<1> SUFFICES ASSUME GraphTypeOK, Current, PairedOnly, ReferencesAreEdges, [GraphNext]_graphVars PROVE ReferencesAreEdges'
  OBVIOUS
<1>1. ASSUME met \subseteq met', UNCHANGED <<references, referencedBy>> PROVE ReferencesAreEdges'
  BY <1>1 DEF ReferencesAreEdges
<1>2. ASSUME met' = met, NEW id \in Id, NEW rec \in Row, NEW touched \in SUBSET Fk,
             ApplyWrite(id, rec, touched)
      PROVE  ReferencesAreEdges'
  <2> DEFINE changed == {r \in touched : references[id][r] # rec[r]}
  <2>1. /\ \A r \in Fk : references'[id][r] = IF r \in touched THEN rec[r] ELSE references[id][r]
        /\ \A s \in Id \ {id} : references'[s] = references[s]
    BY <1>2, ApplyWriteEdges
  <2>2. referencedBy' =
           [t \in Id |-> [r \in Fk |->
             IF r \notin changed \cap Paired THEN referencedBy[t][r]
             ELSE IF rec[r] = t THEN referencedBy[t][r] \cup {id}
             ELSE IF references[id][r] = t THEN referencedBy[t][r] \ {id}
             ELSE referencedBy[t][r]]]
    BY <1>2 DEF ApplyWrite
  <2> SUFFICES ASSUME NEW t \in Id, NEW r \in Fk, NEW s \in Id, s \notin met, s \in referencedBy'[t][r]
               PROVE  references'[s][r] = t
    BY <1>2 DEF ReferencesAreEdges
  <2>3. CASE r \in changed /\ r \in Paired
    <3>1. references'[id][r] = rec[r]
      BY <2>1, <2>3
    <3>2. CASE rec[r] = t
      <4>1. s \in referencedBy[t][r] \cup {id}
        BY <2>2, <2>3, <3>2
      <4>2. QED
        BY <2>1, <3>1, <3>2, <4>1 DEF ReferencesAreEdges
    <3>3. CASE rec[r] # t
      <4>1. s \in referencedBy[t][r] /\ (references[id][r] = t => s # id)
        BY <2>2, <2>3, <3>3
      <4>2. references[s][r] = t
        BY <4>1 DEF ReferencesAreEdges
      <4>3. QED
        BY <2>1, <4>1, <4>2
    <3>4. QED
      BY <3>2, <3>3
  <2>4. CASE ~(r \in changed /\ r \in Paired)
    <3>1. s \in referencedBy[t][r]
      BY <2>2, <2>4
    <3>2. references[s][r] = t
      BY <3>1 DEF ReferencesAreEdges
    <3>3. CASE r \notin changed
      <4>1. s = id => references'[s][r] = references[s][r]
        BY <2>1, <3>3
      <4>2. QED
        BY <2>1, <3>2, <4>1
    <3>4. CASE r \notin Paired
      BY <3>1, <3>4 DEF PairedOnly
    <3>5. QED
      BY <2>4, <3>3, <3>4
  <2>5. QED
    BY <2>3, <2>4
<1>3. ASSUME NEW k \in DOMAIN outbox, Notify(k) PROVE ReferencesAreEdges'
  <2>1. outbox[k].id \in Id /\ outbox[k].row \in Row /\ outbox[k].touched \in SUBSET Fk
    <3>1. outbox[k] \in RowWrite
      BY DEF GraphTypeOK
    <3>2. QED
      BY <3>1 DEF RowWrite
  <2>2. /\ met' = met
        /\ \/ UNCHANGED <<references, referencedBy>>
           \/ ApplyWrite(outbox[k].id, outbox[k].row, outbox[k].touched)
    BY <1>3 DEF Notify, graph
  <2>3. QED
    BY <1>1, <1>2, <2>1, <2>2
<1>4. ASSUME NEW i \in DOMAIN reads, Deliver(i) PROVE ReferencesAreEdges'
  <2>1. reads[i] \in UNION {[S -> Row] : S \in SUBSET Id}
    BY DEF GraphTypeOK
  <2>2. DOMAIN reads[i] \subseteq Id
    BY <2>1, ReadRows
  <2>3. /\ \A s \in Id, r \in Fk :
             references'[s][r] = IF s \in DOMAIN reads[i] /\ reads[i][s][r] # Nil
                                 THEN reads[i][s][r] ELSE references[s][r]
        /\ \A t \in Id, r \in Fk :
             referencedBy'[t][r] =
               referencedBy[t][r] \cup {s \in DOMAIN reads[i] : r \in Paired /\ reads[i][s][r] = t}
    BY <1>4 DEF Deliver, Ingest
  <2>4. met' = met
    BY <1>4 DEF Deliver
  <2> SUFFICES ASSUME NEW t \in Id, NEW r \in Fk, NEW s \in Id, s \notin met, s \in referencedBy'[t][r]
               PROVE  references'[s][r] = t
    BY <2>4 DEF ReferencesAreEdges
  <2>5. t # Nil
    BY GraphAssumption
  <2>6. CASE s \in DOMAIN reads[i] /\ reads[i][s][r] = t
    BY <2>3, <2>5, <2>6
  <2>7. CASE s \in referencedBy[t][r]
    <3>1. references[s][r] = t
      BY <2>7 DEF ReferencesAreEdges
    <3>2. OnItsWayAlone(s) /\ EdgesFollow(s)
      BY DEF Current
    <3>3. ASSUME s \in DOMAIN reads[i] PROVE reads[i][s][r] = t
      <4>1. ~Moves(s, r)
        BY <3>2, <3>3 DEF OnItsWayAlone, Moves
      <4>2. references[s][r] = store[s][r] /\ reads[i][s] = store[s]
        BY <2>5, <3>1, <3>2, <3>3, <4>1 DEF OnItsWayAlone, EdgesFollow
      <4>3. QED
        BY <3>1, <4>2
    <3>4. QED
      BY <2>3, <3>1, <3>3
  <2>8. QED
    BY <2>3, <2>6, <2>7
<1>5. ASSUME \/ \E w \in RowWrite : Commit(w)
             \/ \E S \in SUBSET Id : Evaluate(S)
             \/ UNCHANGED graphVars
      PROVE  ReferencesAreEdges'
  <2>1. met \subseteq met' /\ UNCHANGED <<references, referencedBy>>
    BY <1>5 DEF Commit, Evaluate, Meet, graph, graphVars
  <2>2. QED
    BY <1>1, <2>1
<1>6. QED
  BY <1>3, <1>4, <1>5 DEF GraphNext

\* The other half of the pairing: a target knows no row that points elsewhere,
\* of any number of writes and reads on their way, where no two of the row met.
\* (A read that a write overtakes brings a stale key, and ingest does not unlink
\* what it replaces.)
THEOREM ReferencesAlwaysEdges == GraphSpec => []ReferencesAreEdges
<1> DEFINE Inv == GraphInv /\ Current /\ PairedOnly /\ ReferencesAreEdges
<1>1. GraphInit => Inv
  BY InitGraphInv, InitCurrent, GraphAssumption DEF GraphInit, PairedOnly, ReferencesAreEdges
<1>2. Inv /\ [GraphNext]_graphVars => Inv'
  BY NextGraphInv, NextCurrent, NextPairedOnly, NextReferencesAreEdges DEF GraphInv
<1>3. QED
  BY <1>1, <1>2, PTL DEF GraphSpec

\* The edges of a row with nothing on its way are its foreign keys.
LEMMA RestingEdges ==
  ASSUME Current, NEW s \in Id, AtRest(s), NEW r \in Fk, references[s][r] # Nil \/ s \in whole
  PROVE  store[s] # NoRow /\ references[s][r] = store[s][r]
<1>1. EdgesFollow(s)
  BY DEF Current, AtRest
<1>2. ~Moves(s, r)
  BY DEF AtRest, OnItsWay, Moves
<1>3. QED
  BY <1>1, <1>2 DEF EdgesFollow

\* No edge leads to a row that the foreign key does not name, once nothing of
\* the row is on its way: re-parenting it and clearing a key reach the graph,
\* whatever is written and read of other rows.
THEOREM EdgesAlwaysTrue == GraphSpec => []EdgesAreTrue
<1> DEFINE Inv == GraphInv /\ Current
<1>1. GraphInit => Inv
  BY InitGraphInv, InitCurrent
<1>2. Inv /\ [GraphNext]_graphVars => Inv'
  BY NextGraphInv, NextCurrent DEF GraphInv
<1>3. Inv => EdgesAreTrue
  BY RestingEdges DEF EdgesAreTrue
<1>4. QED
  BY <1>1, <1>2, <1>3, PTL DEF GraphSpec

\* A row that was read, or whose insert was taken, has every edge its foreign
\* keys name once nothing of it is on its way, whether or not the graph had a
\* node for it before.
THEOREM EdgesAlwaysComplete == GraphSpec => []EdgesAreComplete
<1> DEFINE Inv == GraphInv /\ Current
<1>1. GraphInit => Inv
  BY InitGraphInv, InitCurrent
<1>2. Inv /\ [GraphNext]_graphVars => Inv'
  BY NextGraphInv, NextCurrent DEF GraphInv
<1>3. Inv => EdgesAreComplete
  <2> SUFFICES ASSUME GraphTypeOK, Current, NEW s \in whole, AtRest(s)
               PROVE  references[s] = store[s]
    BY DEF GraphInv, EdgesAreComplete
  <2>1. s \in Id /\ references[s] \in Row /\ store[s] \in Row \cup {NoRow}
    BY DEF GraphTypeOK
  <2>2. \A r \in Fk : store[s] # NoRow /\ references[s][r] = store[s][r]
    BY <2>1, RestingEdges
  <2>3. store[s] # NoRow
    <3>1. EdgesFollow(s)
      BY <2>1 DEF Current, AtRest
    <3>2. QED
      BY <3>1 DEF EdgesFollow
  <2>4. QED
    BY <2>1, <2>2, <2>3 DEF Row
<1>4. QED
  BY <1>1, <1>2, <1>3, PTL DEF GraphSpec

=============================================================================
