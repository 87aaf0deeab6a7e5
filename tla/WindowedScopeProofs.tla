------------------------- MODULE WindowedScopeProofs -------------------------
(***************************************************************************)
(* For any number of rows and subscribers, any orderBy and any limit.      *)
(*                                                                         *)
(* Whatever the interleaving of writers, notifications, handlers and       *)
(* storage answers, and any number of them in flight: the state has its    *)
(* type, for which the window must be well formed.                         *)
(*                                                                         *)
(* With one operation in flight at a time: the window is the top of the    *)
(* query whenever the engine has caught up, each subscriber holds what the *)
(* window holds, a row the window holds is never out of scope or out of    *)
(* date, and no insert throws.                                             *)
(***************************************************************************)
EXTENDS WindowedScope, WindowIndexProofs

\* A write in the outbox is of a row that is in storage: rows are never
\* deleted, so rawUpdate finds the row it reads back.
Stored ==
  \A i \in 1..Len(outbox) : \A j \in 1..Len(outbox[i].writes) :
    store[outbox[i].writes[j].id] # Absent

WindowWellFormed == WellFormed(window)
IInv == TypeOK /\ WindowWellFormed /\ Stored

-----------------------------------------------------------------------------
(* The pieces of the state keep their types.                               *)

LEMMA RowFacts ==
  /\ Absent \notin Row
  /\ \A id \in Id, row \in Row : EntryOf(id, row) \in Entry
<1>1. \A id \in Id, row \in Row : EntryOf(id, row) \in Entry
  BY DEF EntryOf, Row, Entry, SortKey, Cell
<1>2. QED
  BY <1>1, ScopeAssumption DEF Row

LEMMA InScopeType ==
  ASSUME NEW s \in [Id -> Row \cup {Absent}]
  PROVE  InScope(s) \subseteq Entry
<1>1. \A id \in Id : s[id] # Absent => s[id] \in Row
  OBVIOUS
<1>2. QED
  BY <1>1, RowFacts DEF InScope

LEMMA ReadType ==
  ASSUME NEW k \in {"seed", "fill", "demote"}, NEW who \in SUBSET Client,
         NEW moved \in SUBSET Entry, NEW cursor \in SUBSET Entry, NEW n \in Nat
  PROVE  Read(k, who, moved, cursor, n) \in Reads
BY DEF Read, Reads

\* Taking an element out of the outbox or of the reads leaves the others.
LEMMA OutboxWithout ==
  ASSUME NEW q \in Seq(Batches), NEW k \in DOMAIN q
  PROVE  /\ RemoveAt(q, k) \in Seq(Batches)
         /\ \A i \in 1..Len(RemoveAt(q, k)) : \E j \in 1..Len(q) : RemoveAt(q, k)[i] = q[j]
<1>0. k \in 1..Len(q) /\ Len(q) \in Nat
  OBVIOUS
<1> DEFINE r == RemoveAt(q, k)
<1>1. /\ r \in Seq(Batches) /\ Len(r) = Len(q) - 1
      /\ \A j \in 1..Len(q) - 1 : r[j] = IF j < k THEN q[j] ELSE q[j + 1]
  BY <1>0, RemoveAtElements
<1> HIDE DEF r
<1>2. ASSUME NEW i \in 1..Len(r) PROVE \E j \in 1..Len(q) : r[i] = q[j]
  <2>1. i \in 1..Len(q) /\ i + 1 \in 1..Len(q) /\ (r[i] = q[i] \/ r[i] = q[i + 1])
    BY <1>0, <1>1
  <2>2. QED
    BY <2>1
<1>3. QED
  BY <1>1, <1>2 DEF r

LEMMA ReadsWithout ==
  ASSUME NEW q \in Seq(Reads), NEW k \in DOMAIN q
  PROVE  RemoveAt(q, k) \in Seq(Reads)
<1>0. k \in 1..Len(q)
  OBVIOUS
<1>1. QED
  BY <1>0, RemoveAtElements

LEMMA BatchType ==
  ASSUME NEW b \in Batches
  PROVE  /\ b.writes \in Seq(Write) /\ Len(b.writes) \in 1..2
         /\ \A j \in 1..Len(b.writes) : b.writes[j] \in Write
<1>1. b.writes \in Seq(Write) /\ Len(b.writes) \in 1..2
  BY DEF Batches
<1>2. QED
  BY <1>1

LEMMA CurrentType ==
  ASSUME IInv, NEW t \in Current
  PROVE  /\ t \in Task /\ Tail(ready) \in Seq(Task)
         /\ t.rows \in Seq(Entry) /\ Tail(ready) \in Seq(Task)
         /\ t.kind # "seed" => t.rows # <<>>
         /\ t.rows # <<>> => /\ Head(t.rows) \in Entry
                             /\ Tail(t.rows) \in Seq(Entry)
                             /\ Len(t.rows) # 1 => Tail(t.rows) # <<>>
<1>1. ready \in Seq(Task) /\ ready # <<>> /\ t = Head(ready)
  BY DEF IInv, TypeOK, Current
<1>2. t \in Task /\ Tail(ready) \in Seq(Task)
  BY <1>1
<1>3. t.rows \in Seq(Entry) /\ (t.kind # "seed" => t.rows # <<>>)
  BY <1>2 DEF Task
<1>4. ASSUME t.rows # <<>>
      PROVE  /\ Head(t.rows) \in Entry /\ Tail(t.rows) \in Seq(Entry)
             /\ Len(t.rows) # 1 => Tail(t.rows) # <<>>
  <2>1. Head(t.rows) \in Entry /\ Tail(t.rows) \in Seq(Entry)
    BY <1>3, <1>4
  <2>2. Len(Tail(t.rows)) = Len(t.rows) - 1 /\ Len(t.rows) \in Nat /\ Len(t.rows) # 0
    BY <1>3, <1>4
  <2> DEFINE rest == Tail(t.rows)
  <2>3. Len(t.rows) # 1 => Len(rest) # 0
    BY <2>2
  <2> HIDE DEF rest
  <2>4. rest = <<>> => Len(rest) = 0
    OBVIOUS
  <2>5. Len(t.rows) # 1 => Tail(t.rows) # <<>>
    BY <2>3, <2>4 DEF rest
  <2>6. QED
    BY <2>1, <2>5
<1>5. QED
  BY <1>2, <1>3, <1>4

LEMMA InitIInv == Init => IInv
<1> SUFFICES ASSUME Init PROVE IInv
  OBVIOUS
<1>1. window \in Windows /\ WellFormed(window)
  BY EmptyWindowProperties DEF Init
<1>2. outbox \in Seq(Batches) /\ ready \in Seq(Task) /\ reads \in Seq(Reads) /\ Len(outbox) = 0
  BY DEF Init
<1>3. Stored
  BY <1>2 DEF Stored
<1>4. /\ phase \in [Client -> {"out", "reading", "in", "rejected"}]
      /\ view \in [Client -> SUBSET Id]
  BY DEF Init
<1>5. TypeOK
  <2>1. seeded = FALSE /\ threw = FALSE /\ failures = 0 /\ MaxFailures \in Nat
    BY ScopeAssumption DEF Init
  <2>2. {seeded, threw} \subseteq BOOLEAN
    BY <2>1
  <2>3. failures \in 0..MaxFailures
    BY <2>1
  <2>4. store \in [Id -> Row \cup {Absent}] /\ tracked \subseteq Id /\ matched \subseteq Id
    BY DEF Init
  <2>5. QED
    BY <1>1, <1>2, <1>4, <2>2, <2>3, <2>4 DEF TypeOK
<1>6. QED
  BY <1>1, <1>3, <1>5 DEF IInv, WindowWellFormed

-----------------------------------------------------------------------------
(* Storage and its writers do not touch the window.                        *)

\* A write leaves a row behind, and every other row where it was.
LEMMA ApplyType ==
  ASSUME NEW s \in [Id -> Row \cup {Absent}], NEW w \in Write
  PROVE  /\ Apply(s, w) \in [Id -> Row \cup {Absent}]
         /\ Apply(s, w)[w.id] # Absent
         /\ \A id \in Id : s[id] # Absent => Apply(s, w)[id] # Absent
<1>1. w.id \in Id /\ w.row \in Row
  BY DEF Write
<1>2. QED
  BY <1>1, RowFacts DEF Apply

\* Appending a batch of rows that are stored.
LEMMA OutboxGrows ==
  ASSUME IInv, NEW b \in Batches, store' \in [Id -> Row \cup {Absent}],
         \A id \in Id : store[id] # Absent => store'[id] # Absent,
         \A j \in 1..Len(b.writes) : store'[b.writes[j].id] # Absent,
         outbox' = Append(outbox, b),
         UNCHANGED <<tracked, matched, window, seeded, ready, reads, phase, view, threw, failures>>
  PROVE  IInv'
<1>0. outbox \in Seq(Batches) /\ Len(outbox) \in Nat
  BY DEF IInv, TypeOK
<1>1. outbox' \in Seq(Batches) /\ Len(outbox') = Len(outbox) + 1
  BY <1>0
<1>2. ASSUME NEW i \in 1..Len(outbox'), NEW j \in 1..Len(outbox'[i].writes)
      PROVE  store'[outbox'[i].writes[j].id] # Absent
  <2>1. CASE i = Len(outbox) + 1
    BY <1>0, <2>1
  <2>2. CASE i # Len(outbox) + 1
    <3>1. i \in 1..Len(outbox) /\ outbox'[i] = outbox[i]
      BY <1>0, <1>1, <2>2
    <3>2. outbox[i].writes[j] \in Write
      BY <1>0, <1>2, <3>1, BatchType
    <3>3. outbox[i].writes[j].id \in Id /\ store[outbox[i].writes[j].id] # Absent
      BY <1>2, <3>1, <3>2 DEF IInv, Stored, Write
    <3>4. QED
      BY <3>1, <3>3
  <2>3. QED
    BY <2>1, <2>2
<1>3. QED
  BY <1>1, <1>2 DEF IInv, TypeOK, WindowWellFormed, Stored

LEMMA CommitPreserves ==
  ASSUME IInv, NEW w \in Write, Commit(w)
  PROVE  IInv'
<1> DEFINE b == Batch(<<w>>, w.op = "UPDATE")
<1>1. b \in Batches /\ Len(b.writes) = 1 /\ b.writes[1] = w
  BY DEF Batch, Batches
<1>2. /\ store' \in [Id -> Row \cup {Absent}]
      /\ store'[w.id] # Absent
      /\ \A id \in Id : store[id] # Absent => store'[id] # Absent
  BY ApplyType DEF Commit, IInv, TypeOK
<1>3. outbox' = Append(outbox, b)
  BY DEF Commit
<1> HIDE DEF b
<1>4. \A j \in 1..Len(b.writes) : store'[b.writes[j].id] # Absent
  BY <1>1, <1>2
<1>5. UNCHANGED <<tracked, matched, window, seeded, ready, reads, phase, view, threw, failures>>
  BY DEF Commit
<1>6. QED
  BY <1>1, <1>2, <1>3, <1>4, <1>5, OutboxGrows

LEMMA CommitTransactionPreserves ==
  ASSUME IInv, NEW w1 \in Write, NEW w2 \in Write, CommitTransaction(w1, w2)
  PROVE  IInv'
<1> DEFINE b == Batch(<<w1, w2>>, FALSE)
<1>0. w1.id \in Id /\ store \in [Id -> Row \cup {Absent}]
  BY DEF Write, IInv, TypeOK
<1>1. b \in Batches /\ Len(b.writes) = 2 /\ b.writes[1] = w1 /\ b.writes[2] = w2
  BY DEF Batch, Batches
<1>2. /\ Apply(store, w1) \in [Id -> Row \cup {Absent}]
      /\ Apply(store, w1)[w1.id] # Absent
      /\ \A id \in Id : store[id] # Absent => Apply(store, w1)[id] # Absent
  BY <1>0, ApplyType
<1>3. store' = Apply(Apply(store, w1), w2) /\ outbox' = Append(outbox, b)
  BY DEF CommitTransaction
<1>4. /\ store' \in [Id -> Row \cup {Absent}]
      /\ store'[w2.id] # Absent
      /\ \A id \in Id : Apply(store, w1)[id] # Absent => store'[id] # Absent
  BY <1>2, <1>3, ApplyType
<1> HIDE DEF b
<1>5. \A j \in 1..Len(b.writes) : store'[b.writes[j].id] # Absent
  BY <1>0, <1>1, <1>2, <1>4
<1>6. UNCHANGED <<tracked, matched, window, seeded, ready, reads, phase, view, threw, failures>>
  BY DEF CommitTransaction
<1>7. QED
  BY <1>1, <1>2, <1>3, <1>4, <1>5, <1>6, OutboxGrows

LEMMA RereadPreserves ==
  ASSUME IInv, NEW i \in DOMAIN outbox, Reread(i)
  PROVE  IInv'
<1> DEFINE w == outbox[i].writes[1]
           v == [w EXCEPT !.row = store[w.id]]
           b == Batch(<<v>>, FALSE)
<1>0. /\ outbox \in Seq(Batches) /\ store \in [Id -> Row \cup {Absent}]
      /\ i \in 1..Len(outbox) /\ Len(outbox) \in Nat
  BY DEF IInv, TypeOK
<1>a. outbox[i] \in Batches
  BY <1>0
<1>b. /\ Len(outbox[i].writes) \in 1..2
      /\ \A j \in 1..Len(outbox[i].writes) : outbox[i].writes[j] \in Write
  BY <1>a, BatchType, Zenon
<1> DEFINE len == Len(outbox[i].writes)
<1>c. len \in 1..2
  BY <1>b
<1> HIDE DEF len
<1>d. 1 \in 1..len
  BY <1>c
<1>1. 1 \in 1..Len(outbox[i].writes)
  BY <1>d DEF len
<1>2. w \in Write
  BY <1>1, <1>b, Zenon
<1>3. store[w.id] \in Row /\ store[w.id] # Absent
  BY <1>0, <1>1, <1>2 DEF IInv, Stored, Write
<1>4. outbox' = [outbox EXCEPT ![i] = b]
  BY DEF Reread
<1> HIDE DEF w
<1>5. v \in Write /\ v.id = w.id
  BY <1>2, <1>3 DEF Write
<1> HIDE DEF v
<1>6. b \in Batches /\ Len(b.writes) = 1 /\ b.writes[1].id = w.id
  BY <1>5 DEF Batch, Batches
<1> HIDE DEF b
<1>7. outbox' \in Seq(Batches) /\ Len(outbox') = Len(outbox)
  BY <1>0, <1>4, <1>6
<1>8. ASSUME NEW k \in 1..Len(outbox'), NEW j \in 1..Len(outbox'[k].writes)
      PROVE  store[outbox'[k].writes[j].id] # Absent
  BY <1>0, <1>3, <1>4, <1>6, <1>7, <1>8 DEF IInv, Stored
<1>9. QED
  BY <1>7, <1>8 DEF Reread, IInv, TypeOK, WindowWellFormed, Stored

LEMMA AnswerPreserves ==
  ASSUME IInv, NEW i \in DOMAIN reads, Answer(i)
  PROVE  IInv'
<1>0. reads \in Seq(Reads) /\ i \in 1..Len(reads) /\ reads[i] \in Reads
  BY DEF IInv, TypeOK
<1>1. reads[i].cursor \in SUBSET Entry /\ reads[i].limit \in Nat
  BY <1>0 DEF Reads
<1>2. PICK rows \in FirstRows(After(InScope(store), reads[i].cursor), reads[i].limit) :
        reads' = [reads EXCEPT ![i] = [@ EXCEPT !.rows = rows]]
  BY DEF Answer
<1>3. After(InScope(store), reads[i].cursor) \in SUBSET Entry
  BY InScopeType DEF After, IInv, TypeOK
<1>4. rows \in Seq(Entry)
  BY <1>1, <1>3, FirstRowsType
<1>5. [reads[i] EXCEPT !.rows = rows] \in Reads
  BY <1>0, <1>4 DEF Reads
<1>6. reads' \in Seq(Reads)
  BY <1>0, <1>2, <1>5
<1>7. QED
  BY <1>6 DEF Answer, IInv, TypeOK, WindowWellFormed, Stored

-----------------------------------------------------------------------------
(* The engine.                                                             *)

LEMMA SubscribePreserves ==
  ASSUME IInv, NEW c \in Client, Subscribe(c)
  PROVE  IInv'
<1>1. Read("seed", {c}, {}, {}, Limit) \in Reads
  BY ReadType, LimitAssumption
<1>2. reads' \in Seq(Reads)
  BY <1>1 DEF Subscribe, IInv, TypeOK
<1>3. phase' \in [Client -> {"out", "reading", "in", "rejected"}]
  BY DEF Subscribe, IInv, TypeOK
<1>4. QED
  BY <1>2, <1>3 DEF Subscribe, IInv, TypeOK, WindowWellFormed, Stored

\* Removing a batch keeps the rest of the outbox stored.
LEMMA StoredWithout ==
  ASSUME IInv, NEW k \in DOMAIN outbox, outbox' = RemoveAt(outbox, k), store' = store
  PROVE  outbox' \in Seq(Batches) /\ Stored'
<1>0. outbox \in Seq(Batches)
  BY DEF IInv, TypeOK
<1>1. /\ outbox' \in Seq(Batches)
      /\ \A i \in 1..Len(outbox') : \E j \in 1..Len(outbox) : outbox'[i] = outbox[j]
  BY <1>0, OutboxWithout
<1>2. Stored
  BY DEF IInv
<1>3. QED
  BY <1>1, <1>2 DEF Stored

LEMMA NotifyPreserves ==
  ASSUME IInv, NEW k \in DOMAIN outbox, Notify(k)
  PROVE  IInv'
<1> DEFINE writes == outbox[k].writes
           ids(n) == {writes[i].id : i \in 1..n}
           task(i) == MutationTask(IF writes[i].op = "INSERT" THEN "matchInsert"
                                   ELSE "matchUpdate", writes[i])
           heard(i) ==
             IF \/ i > Len(writes)
                \/ Subscribed = {}
                \/ writes[i].op = "INSERT" /\ writes[i].id \in tracked \cup ids(i - 1)
             THEN <<>>
             ELSE <<task(i)>>
<1>0. outbox[k] \in Batches
  BY DEF IInv, TypeOK
<1>1. writes \in Seq(Write) /\ Len(writes) \in 1..2 /\ \A i \in 1..Len(writes) : writes[i] \in Write
  BY <1>0, BatchType
<1>2. /\ outbox' = RemoveAt(outbox, k) /\ store' = store
      /\ tracked' = tracked \cup ids(Len(writes))
      /\ ready' = heard(1) \o heard(2)
      /\ UNCHANGED <<store, matched, window, seeded, reads, phase, view, threw, failures>>
  BY DEF Notify
<1>3. outbox' \in Seq(Batches) /\ Stored'
  BY <1>2, StoredWithout
<1> HIDE DEF writes
<1>4. ASSUME NEW i \in 1..2 PROVE heard(i) \in Seq(Task)
  <2>1. CASE i > Len(writes)
    BY <2>1
  <2>2. CASE ~(i > Len(writes))
    <3>1. i \in 1..Len(writes) /\ writes[i] \in Write
      BY <1>1, <2>2
    <3>2. writes[i].id \in Id /\ writes[i].row \in Row /\ writes[i].row.ok \in BOOLEAN
      BY <3>1 DEF Write, Row
    <3>3. EntryOf(writes[i].id, writes[i].row) \in Entry
      BY <3>2, RowFacts
    <3> DEFINE kind == IF writes[i].op = "INSERT" THEN "matchInsert" ELSE "matchUpdate"
               en == EntryOf(writes[i].id, writes[i].row)
    <3>a. kind \in {"matchInsert", "matchUpdate"} /\ en \in Entry
      BY <3>3
    <3>b. task(i) = [kind |-> kind, matches |-> writes[i].row.ok, rows |-> <<en>>]
      BY DEF MutationTask
    <3> HIDE DEF kind, en, task
    <3> DEFINE only == <<en>>
               t == [kind |-> kind, matches |-> writes[i].row.ok, rows |-> only]
    <3>c. only \in Seq(Entry) /\ only # <<>>
      BY <3>a
    <3> HIDE DEF only
    <3>d. /\ t \in [kind : {"matchInsert", "placeInsert", "matchUpdate", "scopeIn", "seed", "fill"},
                     matches : BOOLEAN, rows : Seq(Entry)]
          /\ t.rows = only
      BY <3>2, <3>a, <3>c
    <3> HIDE DEF t
    <3>4. t \in Task
      BY <3>c, <3>d DEF Task
    <3>e. task(i) = t
      BY <3>b DEF t, only
    <3>f. task(i) \in Task
      BY <3>4, <3>e
    <3>g. <<task(i)>> \in Seq(Task)
      BY <3>f
    <3>5. QED
      BY <3>g
  <2>3. QED
    BY <2>1, <2>2
<1>5. heard(1) \in Seq(Task) /\ heard(2) \in Seq(Task)
  BY <1>4
<1> HIDE DEF heard
<1>6. ready' \in Seq(Task)
  BY <1>2, <1>5
<1>7. tracked' \subseteq Id
  <2>1. \A i \in 1..Len(writes) : writes[i].id \in Id
    BY <1>1 DEF Write
  <2>2. QED
    BY <1>2, <2>1 DEF IInv, TypeOK
<1>8. QED
  BY <1>2, <1>3, <1>6, <1>7 DEF IInv, TypeOK, WindowWellFormed

LEMMA MatchPreserves ==
  ASSUME IInv, NEW t \in Current, MatchInsert(t) \/ MatchUpdateOutside(t)
  PROVE  IInv'
<1>1. t \in Task /\ Tail(ready) \in Seq(Task) /\ t.rows # <<>>
  BY CurrentType DEF MatchInsert, MatchUpdateOutside
<1>2. [t EXCEPT !.kind = "placeInsert"] \in Task /\ [t EXCEPT !.kind = "scopeIn"] \in Task
  BY <1>1 DEF Task
<1> DEFINE rest == Tail(ready)
           placed == [t EXCEPT !.kind = "placeInsert"]
           scoped == [t EXCEPT !.kind = "scopeIn"]
<1>a. ready' = rest \/ ready' = Append(rest, placed) \/ ready' = Append(rest, scoped)
  BY DEF MatchInsert, MatchUpdateOutside, Done, DoneThen
<1>b. rest \in Seq(Task) /\ placed \in Task /\ scoped \in Task
  BY <1>1, <1>2
<1> HIDE DEF rest, placed, scoped
<1>3. ready' \in Seq(Task)
  BY <1>a, <1>b
<1>4. QED
  BY <1>3 DEF MatchInsert, MatchUpdateOutside, IInv, TypeOK, WindowWellFormed, Stored

LEMMA ToldType ==
  ASSUME IInv, NEW in \in SUBSET Id, NEW out
  PROVE  Told(in, out) \in [Client -> SUBSET Id]
BY DEF Told, IInv, TypeOK

LEMMA PlacePreserves ==
  ASSUME IInv, NEW t \in Current, Place(t)
  PROVE  IInv'
<1> DEFINE e == Head(t.rows)
           r == InsertEntry(window, e)
           in == IF r.inserted THEN {e.id} ELSE {}
           out == {x.id : x \in r.evicted}
<1>1. e \in Entry /\ Tail(ready) \in Seq(Task)
  BY CurrentType DEF Place
<1>2. window \in Windows /\ WellFormed(window)
  BY DEF IInv, TypeOK, WindowWellFormed
<1>3. r.window \in Windows /\ WellFormed(r.window) /\ r.threw \in BOOLEAN
  BY <1>1, <1>2, InsertEntryPreserves
<1>4. in \in SUBSET Id
  BY <1>1 DEF Entry
<1>5. /\ window' = r.window /\ threw' = (threw \/ r.threw)
      /\ matched' = (matched \cup in) \ out /\ tracked' = tracked \cup in
      /\ view' = Told(in, out) /\ ready' = Tail(ready)
      /\ UNCHANGED <<store, outbox, seeded, reads, phase, failures>>
  BY DEF Place, Done
<1> HIDE DEF e, r, in, out
<1>6. view' \in [Client -> SUBSET Id]
  BY <1>4, <1>5, ToldType
<1>7. threw' \in BOOLEAN
  BY <1>3, <1>5 DEF IInv, TypeOK
<1>8. QED
  BY <1>1, <1>3, <1>4, <1>5, <1>6, <1>7 DEF IInv, TypeOK, WindowWellFormed, Stored

LEMMA ScopeOutPreserves ==
  ASSUME IInv, NEW t \in Current, ScopeOut(t)
  PROVE  IInv'
<1> DEFINE id == Head(t.rows).id
           w == RemoveEntry(window, id)
           r == Read("fill", {}, {}, Boundary(w), BackfillCount(w))
<1>1. Tail(ready) \in Seq(Task)
  BY CurrentType DEF ScopeOut
<1>2. window \in Windows /\ WellFormed(window)
  BY DEF IInv, TypeOK, WindowWellFormed
<1>3. w \in Windows /\ WellFormed(w)
  BY <1>2, RemoveEntryPreserves
<1>4. /\ window' = w /\ matched' = matched \ {id} /\ view' = Told({}, {id})
      /\ reads' = Append(reads, r) /\ ready' = Tail(ready)
      /\ UNCHANGED <<store, outbox, tracked, seeded, phase, threw, failures>>
  BY DEF ScopeOut, Done
<1> HIDE DEF id, w
<1>5. Boundary(w) \in SUBSET Entry /\ BackfillCount(w) \in Nat
  BY <1>3, BoundaryType, BackfillCountType
<1>6. r \in Reads
  BY <1>5, ReadType
<1> HIDE DEF r
<1>7. reads' \in Seq(Reads)
  BY <1>4, <1>6 DEF IInv, TypeOK
<1>8. view' \in [Client -> SUBSET Id]
  BY <1>4, ToldType
<1>9. QED
  BY <1>1, <1>3, <1>4, <1>7, <1>8 DEF IInv, TypeOK, WindowWellFormed, Stored

LEMMA RefreshPreserves ==
  ASSUME IInv, NEW t \in Current, Refresh(t)
  PROVE  IInv'
<1> DEFINE e == Head(t.rows)
           without == RemoveEntry(window, e.id)
<1>1. e \in Entry /\ Tail(ready) \in Seq(Task)
  BY CurrentType DEF Refresh
<1>2. window \in Windows /\ WellFormed(window)
  BY DEF IInv, TypeOK, WindowWellFormed
<1>3. without \in Windows /\ WellFormed(without)
  BY <1>2, RemoveEntryPreserves
<1>4. PICK w \in {InsertEntry(without, e).window} :
        /\ window' = w \/ window' = RemoveEntry(w, e.id)
        /\ \/ reads' = reads
           \/ reads' = Append(reads, Read("demote", {}, {e}, Boundary(RemoveEntry(w, e.id)), 2))
  BY Zenon DEF Refresh
<1>5. /\ ready' = Tail(ready)
      /\ UNCHANGED <<store, outbox, tracked, matched, seeded, phase, view, threw, failures>>
  BY DEF Refresh, Done
<1> HIDE DEF e, without
<1>6. w \in Windows /\ WellFormed(w)
  BY <1>1, <1>3, InsertEntryPreserves
<1> DEFINE left == RemoveEntry(w, e.id)
           r == Read("demote", {}, {e}, Boundary(left), 2)
<1>7. left \in Windows /\ WellFormed(left)
  BY <1>6, RemoveEntryPreserves
<1>8. reads' = reads \/ reads' = Append(reads, r)
  BY <1>4
<1>9. window' = w \/ window' = left
  BY <1>4
<1> HIDE DEF left
<1>10. Boundary(left) \in SUBSET Entry
  BY <1>7, BoundaryType
<1>11. r \in Reads
  BY <1>1, <1>10, ReadType
<1> HIDE DEF r
<1>a. reads \in Seq(Reads)
  BY DEF IInv, TypeOK
<1>b. Append(reads, r) \in Seq(Reads)
  BY <1>11, <1>a
<1>12. reads' \in Seq(Reads)
  BY <1>8, <1>a, <1>b
<1>13. window' \in Windows /\ WellFormed(window')
  BY <1>6, <1>7, <1>9
<1>14. QED
  BY <1>1, <1>5, <1>12, <1>13 DEF IInv, TypeOK, WindowWellFormed, Stored

-----------------------------------------------------------------------------
(* Answers of storage.                                                     *)

\* What an action that consumes the answer at i may use of it.
LEMMA DeliveredType ==
  ASSUME IInv, NEW i \in DOMAIN reads, Delivered(i)
  PROVE  /\ reads' \in Seq(Reads)
         /\ reads[i].rows \in Seq(Entry)
         /\ reads[i].moved \in SUBSET Entry
<1>1. reads \in Seq(Reads) /\ reads[i] \in Reads
  BY DEF IInv, TypeOK
<1>2. reads' \in Seq(Reads)
  BY <1>1, ReadsWithout DEF Delivered
<1>3. QED
  BY <1>1, <1>2 DEF Delivered, Reads

LEMMA DeliverSeedPreserves ==
  ASSUME IInv, NEW i \in DOMAIN reads, DeliverSeed(i)
  PROVE  IInv'
<1> DEFINE rows == reads[i].rows
           ids == {rows[j].id : j \in DOMAIN rows}
           task == RowsTask("seed", rows)
<1>1. reads' \in Seq(Reads) /\ rows \in Seq(Entry)
  BY DeliveredType DEF DeliverSeed
<1>2. task \in Task
  BY <1>1 DEF RowsTask, Task
<1> HIDE DEF rows
<1>a. \A j \in DOMAIN rows : rows[j] \in Entry
  BY <1>1
<1>b. \A e \in Entry : e.id \in Id
  BY DEF Entry
<1>3. ids \in SUBSET Id
  BY <1>a, <1>b
<1> USE DEF rows
<1>4. /\ tracked' = tracked \cup ids /\ matched' = matched \cup ids
      /\ view' = [c \in Client |-> IF c \in reads[i].clients THEN view[c] \cup ids ELSE view[c]]
      /\ phase' = [c \in Client |-> IF c \in reads[i].clients THEN "in" ELSE phase[c]]
      /\ ready' = <<>> \/ ready' = <<task>>
      /\ UNCHANGED <<store, outbox, window, seeded, threw, failures>>
  BY DEF DeliverSeed
<1> HIDE DEF ids, task, rows
<1>c. <<>> \in Seq(Task) /\ <<task>> \in Seq(Task)
  BY <1>2
<1>5. ready' \in Seq(Task)
  BY <1>4, <1>c, Zenon
<1>6. view' \in [Client -> SUBSET Id] /\ tracked' \subseteq Id /\ matched' \subseteq Id
  BY <1>3, <1>4 DEF IInv, TypeOK
<1>7. phase' \in [Client -> {"out", "reading", "in", "rejected"}]
  BY <1>4 DEF IInv, TypeOK
<1>8. QED
  BY <1>1, <1>4, <1>5, <1>6, <1>7 DEF IInv, TypeOK, WindowWellFormed, Stored

LEMMA DeliverFillPreserves ==
  ASSUME IInv, NEW i \in DOMAIN reads, DeliverFill(i)
  PROVE  IInv'
<1> DEFINE rows == reads[i].rows
           task == RowsTask("fill", rows)
<1>1. reads' \in Seq(Reads) /\ rows \in Seq(Entry)
  BY DeliveredType DEF DeliverFill
<1>2. rows # <<>> => task \in Task
  BY <1>1 DEF RowsTask, Task
<1>3. /\ ready' = IF rows = <<>> THEN <<>> ELSE <<task>>
      /\ UNCHANGED <<store, outbox, tracked, matched, window, seeded, phase, view, threw, failures>>
  BY DEF DeliverFill
<1> HIDE DEF task, rows
<1>4. ready' \in Seq(Task)
  BY <1>2, <1>3
<1>5. QED
  BY <1>1, <1>3, <1>4 DEF IInv, TypeOK, WindowWellFormed, Stored

\* A continuation that goes on with the rest of its rows.
LEMMA RestOfRows ==
  ASSUME IInv, NEW t \in Current, t.rows # <<>>,
         t.kind = "seed" \/ Len(t.rows) # 1
  PROVE  <<[t EXCEPT !.rows = Tail(t.rows)]>> \o Tail(ready) \in Seq(Task)
<1> DEFINE rest == [t EXCEPT !.rows = Tail(t.rows)]
<1>1. /\ t \in Task /\ Tail(ready) \in Seq(Task) /\ Tail(t.rows) \in Seq(Entry)
      /\ Len(t.rows) # 1 => Tail(t.rows) # <<>>
  BY CurrentType
<1>2. rest \in Task
  BY <1>1 DEF Task
<1> HIDE DEF rest
<1>3. <<rest>> \o Tail(ready) \in Seq(Task)
  BY <1>1, <1>2
<1>4. QED
  BY <1>3 DEF rest

LEMMA SeedPreserves ==
  ASSUME IInv, NEW t \in Current, SeedRow(t) \/ SeedDone(t)
  PROVE  IInv'
<1>1. CASE SeedRow(t)
  <2>1. Head(t.rows) \in Entry
    BY <1>1, CurrentType DEF SeedRow
  <2>2. window \in Windows /\ WellFormed(window)
    BY DEF IInv, TypeOK, WindowWellFormed
  <2>3. window' = window \/ window' = InsertEntry(window, Head(t.rows)).window
    BY <1>1 DEF SeedRow
  <2>4. window' \in Windows /\ WellFormed(window')
    BY <2>1, <2>2, <2>3, InsertEntryPreserves
  <2>5. ready' \in Seq(Task)
    BY <1>1, RestOfRows DEF SeedRow
  <2>6. QED
    BY <1>1, <2>4, <2>5 DEF SeedRow, IInv, TypeOK, WindowWellFormed, Stored
<1>2. CASE SeedDone(t)
  <2>1. ready' \in Seq(Task)
    BY <1>2, CurrentType DEF SeedDone, Done
  <2>2. QED
    BY <1>2, <2>1 DEF SeedDone, IInv, TypeOK, WindowWellFormed, Stored
<1>3. QED
  BY <1>1, <1>2

LEMMA FillRowPreserves ==
  ASSUME IInv, NEW t \in Current, FillRow(t)
  PROVE  IInv'
<1> DEFINE e == Head(t.rows)
           in == IF Has(window, e.id) THEN {} ELSE {e.id}
<1>0. t.rows # <<>>
  BY CurrentType DEF FillRow
<1>1. e \in Entry /\ Tail(ready) \in Seq(Task)
  BY <1>0, CurrentType
<1>2. window \in Windows /\ WellFormed(window)
  BY DEF IInv, TypeOK, WindowWellFormed
<1>3. in \in SUBSET Id
  BY <1>1 DEF Entry
<1>4. /\ window' = window \/ window' = InsertEntry(window, e).window
      /\ matched' = matched \cup in /\ tracked' = tracked \cup in /\ view' = Told(in, {})
      /\ UNCHANGED <<store, outbox, seeded, reads, phase, threw, failures>>
  BY DEF FillRow
<1>5. ready' \in Seq(Task)
  BY <1>0, <1>1, RestOfRows DEF FillRow
<1> HIDE DEF e, in
<1>6. window' \in Windows /\ WellFormed(window')
  BY <1>1, <1>2, <1>4, InsertEntryPreserves
<1>7. view' \in [Client -> SUBSET Id]
  BY <1>3, <1>4, ToldType
<1>8. QED
  BY <1>3, <1>4, <1>5, <1>6, <1>7 DEF IInv, TypeOK, WindowWellFormed, Stored

LEMMA KeepDemotedPreserves ==
  ASSUME IInv, NEW i \in DOMAIN reads, KeepDemoted(i)
  PROVE  IInv'
<1>1. reads' \in Seq(Reads) /\ reads[i].moved \in SUBSET Entry
  BY DeliveredType DEF KeepDemoted
<1>2. PICK e \in reads[i].moved : /\ window' = InsertEntry(window, e).window
                                  /\ threw' = (threw \/ InsertEntry(window, e).threw)
  BY DEF KeepDemoted
<1>3. window \in Windows /\ WellFormed(window) /\ e \in Entry
  BY <1>1 DEF IInv, TypeOK, WindowWellFormed
<1>4. /\ window' \in Windows /\ WellFormed(window')
      /\ InsertEntry(window, e).threw \in BOOLEAN
  BY <1>2, <1>3, InsertEntryPreserves
<1>5. threw' \in BOOLEAN
  BY <1>2, <1>4 DEF IInv, TypeOK
<1>6. UNCHANGED <<store, outbox, tracked, matched, seeded, ready, phase, view, failures>>
  BY DEF KeepDemoted
<1>7. QED
  BY <1>1, <1>4, <1>5, <1>6 DEF IInv, TypeOK, WindowWellFormed, Stored

LEMMA SwapDemotedPreserves ==
  ASSUME IInv, NEW i \in DOMAIN reads, SwapDemoted(i)
  PROVE  IInv'
<1> DEFINE rows == reads[i].rows
<1>1. reads' \in Seq(Reads) /\ rows \in Seq(Entry) /\ reads[i].moved \in SUBSET Entry
  BY DeliveredType DEF SwapDemoted
<1>2. PICK e \in reads[i].moved :
        LET c == rows[Min(Candidates(rows, e))]
            again == InsertEntry(InsertEntry(window, c).window, e)
            swapped == ~again.inserted /\ ~again.threw
        IN  /\ Candidates(rows, e) # {}
            /\ window' = again.window
            /\ threw' = (threw \/ again.threw)
            /\ matched' = IF swapped THEN (matched \cup {c.id}) \ {e.id} ELSE matched
            /\ tracked' = IF swapped THEN tracked \cup {c.id} ELSE tracked
            /\ view' = IF swapped THEN Told({c.id}, {e.id}) ELSE view
  BY DEF SwapDemoted
<1> DEFINE c == rows[Min(Candidates(rows, e))]
           first == InsertEntry(window, c).window
           again == InsertEntry(first, e)
<1>3. window \in Windows /\ WellFormed(window) /\ e \in Entry
  BY <1>1 DEF IInv, TypeOK, WindowWellFormed
<1> HIDE DEF rows
<1>4. c \in Entry
  <2>1. Candidates(rows, e) \subseteq DOMAIN rows /\ DOMAIN rows = 1..Len(rows) /\ Len(rows) \in Nat
    BY <1>1 DEF Candidates
  <2>2. Candidates(rows, e) # {}
    BY <1>2
  <2>3. Candidates(rows, e) \subseteq Nat
    BY <2>1
  <2>4. \E m \in Candidates(rows, e) : \A k \in Candidates(rows, e) : m <= k
    BY <2>2, <2>3, LeastNatural
  <2>5. Min(Candidates(rows, e)) \in Candidates(rows, e)
    BY <2>4 DEF Min
  <2>6. QED
    BY <1>1, <2>1, <2>5
<1>5. /\ window' = again.window /\ threw' = (threw \/ again.threw)
      /\ matched' = (matched \cup {c.id}) \ {e.id} \/ matched' = matched
      /\ tracked' = tracked \cup {c.id} \/ tracked' = tracked
      /\ view' = Told({c.id}, {e.id}) \/ view' = view
  BY <1>2
<1> HIDE DEF c
<1>6. first \in Windows /\ WellFormed(first)
  BY <1>3, <1>4, InsertEntryPreserves
<1> HIDE DEF first
<1>7. again.window \in Windows /\ WellFormed(again.window) /\ again.threw \in BOOLEAN
  BY <1>3, <1>6, InsertEntryPreserves
<1> HIDE DEF again
<1>8. {c.id} \in SUBSET Id
  BY <1>4 DEF Entry
<1>9. view' \in [Client -> SUBSET Id]
  <2>1. view \in [Client -> SUBSET Id]
    BY DEF IInv, TypeOK
  <2>2. Told({c.id}, {e.id}) \in [Client -> SUBSET Id]
    BY <1>8, <2>1, ToldType
  <2>3. QED
    BY <1>5, <2>1, <2>2
<1>10. threw' \in BOOLEAN
  <2>1. threw \in BOOLEAN
    BY DEF IInv, TypeOK
  <2>2. QED
    BY <1>5, <1>7, <2>1
<1>11. UNCHANGED <<store, outbox, seeded, ready, phase, failures>>
  BY DEF SwapDemoted
<1>12. QED
  BY <1>1, <1>5, <1>7, <1>8, <1>9, <1>10, <1>11 DEF IInv, TypeOK, WindowWellFormed, Stored

LEMMA FailReadPreserves ==
  ASSUME IInv, NEW i \in DOMAIN reads, FailRead(i)
  PROVE  IInv'
<1>1. reads' \in Seq(Reads)
  BY ReadsWithout DEF FailRead, IInv, TypeOK
<1>2. phase' \in [Client -> {"out", "reading", "in", "rejected"}]
  BY DEF FailRead, IInv, TypeOK
<1>3. failures' \in 0..MaxFailures
  BY ScopeAssumption DEF FailRead, IInv, TypeOK
<1>4. QED
  BY <1>1, <1>2, <1>3 DEF FailRead, IInv, TypeOK, WindowWellFormed, Stored

-----------------------------------------------------------------------------
(* The theorems.                                                           *)

LEMMA NextIInv == IInv /\ [Next]_vars => IInv'
<1> SUFFICES ASSUME IInv, [Next]_vars PROVE IInv'
  OBVIOUS
<1>1. ASSUME NEW t \in Current, Run(t) PROVE IInv'
  BY <1>1, MatchPreserves, PlacePreserves, ScopeOutPreserves, RefreshPreserves,
     SeedPreserves, FillRowPreserves DEF Run
<1>2. ASSUME NEW i \in DOMAIN reads, Answer(i) \/ Deliver(i) \/ FailRead(i) PROVE IInv'
  BY <1>2, AnswerPreserves, DeliverSeedPreserves, DeliverFillPreserves,
     KeepDemotedPreserves, SwapDemotedPreserves, FailReadPreserves DEF Deliver
<1>3. ASSUME NEW k \in DOMAIN outbox, Reread(k) \/ Notify(k) PROVE IInv'
  BY <1>3, RereadPreserves, NotifyPreserves
<1>4. ASSUME NEW c \in Client, Subscribe(c) PROVE IInv'
  BY <1>4, SubscribePreserves
<1>5. ASSUME NEW w \in Write, Commit(w) PROVE IInv'
  BY <1>5, CommitPreserves
<1>6. ASSUME NEW w1 \in Together, NEW w2 \in Together, CommitTransaction(w1, w2) PROVE IInv'
  BY <1>6, CommitTransactionPreserves DEF Together
<1>7. CASE UNCHANGED vars
  BY <1>7 DEF vars, IInv, TypeOK, WindowWellFormed, Stored
<1>8. QED
  BY <1>1, <1>2, <1>3, <1>4, <1>5, <1>6, <1>7 DEF Next, Engine

\* Every reachable state of the scope has its type.
THEOREM TypeCorrect == Spec => []TypeOK
<1>1. IInv => TypeOK
  BY DEF IInv
<1>2. QED
  BY <1>1, InitIInv, NextIInv, PTL DEF Spec

-----------------------------------------------------------------------------
(* One operation at a time.  The invariant says which stage the one that   *)
(* is in flight has reached and, for that stage, how what the window holds *)
(* and what its read brought relate to the rows in storage.                *)

OneAtATime == MaxInFlight = 1 /\ "UPDATE" \notin Transactions

\* The rows in scope but those whose change the engine has not taken in.
Known(s, ids) == {x \in InScope(s) : x.id \notin ids}

\* What the window holds is in scope, but for those rows.
HeldIn(w, s, ids) == \A x \in Elems(w) : x \in InScope(s) \/ x.id \in ids

\* The graph and the clients that were answered believe that the window holds
\* what it holds, and more.
Agreed(more) ==
  /\ matched = Ids(window) \cup more
  /\ \A c \in Client : phase[c] = "in" => view[c] = Ids(window) \cup more

NobodyReads == \A c \in Client : phase[c] # "reading"

\* The window is right, but for the changes not taken in and for what a
\* rejected read has cost.
At(ids) ==
  /\ NobodyReads
  /\ HeldIn(window, store, ids)
  /\ \/ Subscribed = {}
     \/ failures # 0
     \/ seeded /\ Leads(window, <<>>, Known(store, ids)) /\ Agreed({})

Resting == outbox = <<>> /\ ready = <<>> /\ reads = <<>> /\ At({})

\* A batch is committed.
Written == {outbox[1].writes[j].id : j \in 1..Len(outbox[1].writes)}
Notifying ==
  /\ Len(outbox) = 1 /\ ready = <<>> /\ reads = <<>>
  /\ \A j \in 1..Len(outbox[1].writes) :
       LET w == outbox[1].writes[j]
       IN  w.row = store[w.id] /\ (w.op = "INSERT" => w.id \notin tracked /\ ~Has(window, w.id))
  /\ Len(outbox[1].writes) = 2 =>
       /\ ~outbox[1].reread
       /\ outbox[1].writes[1].id # outbox[1].writes[2].id
       /\ \A j \in 1..2 : outbox[1].writes[j].op = "INSERT"
  /\ At(Written)

\* Mutations are handled.
Waiting == {ready[i].rows[1].id : i \in 1..Len(ready)}
Handles(t) ==
  LET id == t.rows[1].id
  IN  /\ Len(t.rows) = 1
      /\ t.kind \in {"matchInsert", "placeInsert", "matchUpdate", "scopeIn"}
      /\ store[id] # Absent /\ t.matches = store[id].ok /\ t.rows[1] = EntryOf(id, store[id])
      /\ t.kind # "matchUpdate" => ~Has(window, id)
      /\ t.kind \in {"placeInsert", "scopeIn"} => t.matches
Handling ==
  /\ outbox = <<>> /\ reads = <<>> /\ Len(ready) \in 1..2
  /\ Subscribed # {}
  /\ \A i \in 1..Len(ready) : Handles(ready[i])
  /\ Len(ready) = 2 =>
       /\ ready[1].rows[1].id # ready[2].rows[1].id
       /\ \A i \in 1..2 : ready[i].kind \in {"matchInsert", "placeInsert"}
  /\ At(Waiting)

\* A read is out: the one of a new client, of a window with a free slot, or of
\* a demoted row.
Asking(kind) ==
  /\ outbox = <<>> /\ ready = <<>> /\ Len(reads) = 1 /\ reads[1].kind = kind
  /\ HeldIn(window, store, {})
  /\ reads[1].rows # Unanswered => ToSet(reads[1].rows) \subseteq InScope(store)
Seeking ==
  /\ Asking("seed")
  /\ reads[1].cursor = {} /\ reads[1].limit = Limit
  /\ reads[1].rows # Unanswered => Leads(EmptyWindow, reads[1].rows, InScope(store))
  /\ \E c \in Client : /\ reads[1].clients = {c} /\ phase[c] = "reading"
                       /\ \A d \in Client : phase[d] = "reading" => d = c
  /\ \/ failures # 0
     \/ seeded /\ Leads(window, <<>>, InScope(store)) /\ Agreed({})
     \/ ~seeded /\ window.entries = <<>> /\ Agreed({}) /\ \A c \in Client : phase[c] # "in"
Filling ==
  /\ Asking("fill")
  /\ reads[1].clients = {} /\ NobodyReads /\ Subscribed # {}
  /\ \/ failures # 0
     \/ /\ seeded /\ Agreed({})
        /\ IF reads[1].rows = Unanswered
           THEN /\ Below(window, InScope(store))
                /\ reads[1].cursor = Boundary(window)
                /\ Len(window.entries) + reads[1].limit = Limit
           ELSE Leads(window, reads[1].rows, InScope(store))
Demoting ==
  /\ Asking("demote")
  /\ reads[1].clients = {} /\ NobodyReads /\ Subscribed # {}
  /\ \E e \in InScope(store) :
       /\ reads[1].moved = {e} /\ ~Has(window, e.id)
       /\ \/ failures # 0
          \/ /\ seeded /\ Agreed({e.id})
             /\ Below(window, InScope(store))
             /\ Len(window.entries) = Limit - 1
             /\ IF reads[1].rows = Unanswered
                THEN reads[1].cursor = Boundary(window) /\ reads[1].limit = 2
                ELSE /\ IsFirst(reads[1].rows, InScope(store) \ Elems(window), 2)
                     /\ ToSet(reads[1].rows) \cap Elems(window) = {}

\* The rows of a read are taken in.
Looping(kind) ==
  /\ outbox = <<>> /\ reads = <<>> /\ Len(ready) = 1 /\ ready[1].kind = kind
  /\ NobodyReads /\ Subscribed # {}
  /\ HeldIn(window, store, {}) /\ ToSet(ready[1].rows) \subseteq InScope(store)
  /\ failures # 0 \/ Leads(window, ready[1].rows, InScope(store))
Seeding ==
  Looping("seed") /\ ~seeded /\ (failures # 0 \/ Agreed(IdsOf(ToSet(ready[1].rows))))
Refilling ==
  Looping("fill") /\ (failures # 0 \/ (seeded /\ Agreed({})))

Stage ==
  \/ Resting \/ Notifying \/ Handling \/ Seeking \/ Filling \/ Demoting
  \/ Seeding \/ Refilling

\* What holds in every stage: the graph knows only rows that are stored, a window
\* nobody has asked for is empty, and a client that has no answer holds nothing.
Calm ==
  /\ ~threw
  /\ \A id \in tracked : store[id] # Absent
  /\ Subscribed = {} => window.entries = <<>> /\ matched = {} /\ ~seeded
  /\ \A c \in Client : phase[c] \in {"out", "reading"} => view[c] = {}

SerialInv == IInv /\ Calm /\ Stage

-----------------------------------------------------------------------------
(* The rows in scope.                                                      *)

LEMMA ScopeFacts ==
  ASSUME NEW s \in [Id -> Row \cup {Absent}]
  PROVE  /\ InScope(s) \in SUBSET Entry
         /\ \A x, y \in InScope(s) : x.id = y.id => x = y
         /\ \A x \in InScope(s) : /\ x.id \in Id /\ s[x.id] # Absent /\ s[x.id].ok
                                  /\ x = EntryOf(x.id, s[x.id])
         /\ \A id \in Id : s[id] # Absent /\ s[id].ok => EntryOf(id, s[id]) \in InScope(s)
         /\ \A id, row : EntryOf(id, row).id = id
<1>1. \A id, row : EntryOf(id, row).id = id
  BY DEF EntryOf
<1>2. \A x \in InScope(s) : /\ x.id \in Id /\ s[x.id] # Absent /\ s[x.id].ok
                            /\ x = EntryOf(x.id, s[x.id])
  BY <1>1 DEF InScope
<1>3. \A x, y \in InScope(s) : x.id = y.id => x = y
  BY <1>2
<1>4. \A id \in Id : s[id] # Absent /\ s[id].ok => EntryOf(id, s[id]) \in InScope(s)
  BY DEF InScope
<1>5. QED
  BY <1>1, <1>2, <1>3, <1>4, InScopeType

\* Of a row whose change is taken in, what is known follows storage.
LEMMA KnownFacts ==
  ASSUME NEW s \in [Id -> Row \cup {Absent}], NEW ids, NEW id \in Id, s[id] # Absent
  PROVE  /\ Known(s, ids) \in SUBSET Entry /\ Known(s, {}) = InScope(s)
         /\ \A x \in Known(s, ids \cup {id}) : x.id # id
         /\ ~s[id].ok => Known(s, ids \cup {id}) = Known(s, ids)
         /\ s[id].ok /\ id \notin ids =>
              Known(s, ids) = Known(s, ids \cup {id}) \cup {EntryOf(id, s[id])}
<1>1. Known(s, ids) \in SUBSET Entry /\ Known(s, {}) = InScope(s)
  BY ScopeFacts DEF Known
<1>2. \A x \in InScope(s) : x.id = id => x = EntryOf(id, s[id]) /\ s[id].ok
  BY ScopeFacts
<1>3. \A x \in Known(s, ids \cup {id}) : x.id # id
  BY DEF Known
<1>4. ~s[id].ok => Known(s, ids \cup {id}) = Known(s, ids)
  BY <1>2 DEF Known
<1>5. s[id].ok => EntryOf(id, s[id]) \in InScope(s) /\ EntryOf(id, s[id]).id = id
  BY ScopeFacts
<1>6. s[id].ok /\ id \notin ids =>
        Known(s, ids) = Known(s, ids \cup {id}) \cup {EntryOf(id, s[id])}
  <2> DEFINE e == EntryOf(id, s[id])
  <2> SUFFICES ASSUME s[id].ok, id \notin ids
               PROVE  Known(s, ids) = Known(s, ids \cup {id}) \cup {e}
    OBVIOUS
  <2>1. e \in InScope(s) /\ e.id = id /\ \A x \in InScope(s) : x.id = id => x = e
    BY <1>2, <1>5
  <2> HIDE DEF e
  <2>2. QED
    BY <2>1 DEF Known
<1>7. QED
  BY <1>1, <1>3, <1>4, <1>6

-----------------------------------------------------------------------------
(* Which stage it is.                                                      *)

LEMMA OneElement ==
  ASSUME NEW S, NEW q \in Seq(S), Len(q) = 1
  PROVE  /\ DOMAIN q = {1} /\ q # <<>> /\ q[1] \in S /\ q = <<q[1]>>
         /\ Head(q) = q[1] /\ Tail(q) = <<>> /\ RemoveAt(q, 1) = <<>>
<1>1. DOMAIN q = 1..1 /\ q # <<>> /\ q[1] \in S /\ Head(q) = q[1]
  OBVIOUS
<1>2. q = <<q[1]>>
  <2>1. <<q[1]>> \in Seq(S) /\ Len(<<q[1]>>) = 1 /\ <<q[1]>>[1] = q[1]
    BY <1>1
  <2>2. QED
    BY <2>1, EqualByElements
<1>3. Tail(q) = <<>>
  <2> DEFINE r == Tail(q)
  <2>1. r \in Seq(S) /\ Len(r) = 0
    BY <1>1
  <2> HIDE DEF r
  <2>2. r = <<>>
    BY <2>1
  <2>3. QED
    BY <2>2 DEF r
<1>4. RemoveAt(q, 1) = <<>>
  <2> DEFINE r == RemoveAt(q, 1)
  <2>1. 1 \in 1..Len(q)
    OBVIOUS
  <2>2. r \in Seq(S) /\ Len(r) = Len(q) - 1
    BY <2>1, RemoveAtElements
  <2> HIDE DEF r
  <2>3. r = <<>>
    BY <2>2
  <2>4. QED
    BY <2>3 DEF r
<1>5. QED
  BY <1>1, <1>2, <1>3, <1>4

\* What every state gives.
LEMMA StateFacts ==
  IInv => /\ window \in Windows /\ WellFormed(window)
          /\ store \in [Id -> Row \cup {Absent}]
          /\ outbox \in Seq(Batches) /\ ready \in Seq(Task) /\ reads \in Seq(Reads)
          /\ Len(outbox) \in Nat /\ Len(ready) \in Nat /\ Len(reads) \in Nat
          /\ InScope(store) \in SUBSET Entry /\ matched \subseteq Id
          /\ phase \in [Client -> {"out", "reading", "in", "rejected"}]
          /\ view \in [Client -> SUBSET Id]
<1> SUFFICES ASSUME IInv
             PROVE  /\ window \in Windows /\ WellFormed(window)
                    /\ store \in [Id -> Row \cup {Absent}]
                    /\ outbox \in Seq(Batches) /\ ready \in Seq(Task) /\ reads \in Seq(Reads)
                    /\ Len(outbox) \in Nat /\ Len(ready) \in Nat /\ Len(reads) \in Nat
                    /\ InScope(store) \in SUBSET Entry /\ matched \subseteq Id
                    /\ phase \in [Client -> {"out", "reading", "in", "rejected"}]
                    /\ view \in [Client -> SUBSET Id]
  OBVIOUS
<1>1. /\ window \in Windows /\ WellFormed(window)
      /\ store \in [Id -> Row \cup {Absent}]
      /\ outbox \in Seq(Batches) /\ ready \in Seq(Task) /\ reads \in Seq(Reads)
      /\ matched \subseteq Id
      /\ phase \in [Client -> {"out", "reading", "in", "rejected"}]
      /\ view \in [Client -> SUBSET Id]
  BY DEF IInv, TypeOK, WindowWellFormed
<1>2. Len(outbox) \in Nat /\ Len(ready) \in Nat /\ Len(reads) \in Nat
  BY <1>1
<1>3. InScope(store) \in SUBSET Entry
  BY <1>1, InScopeType
<1>4. QED
  BY <1>1, <1>2, <1>3, Zenon

\* Each stage says what is in flight.
LEMMA StageShape ==
  ASSUME Stage
  PROVE  \/ Resting /\ outbox = <<>> /\ ready = <<>> /\ reads = <<>>
         \/ Notifying /\ Len(outbox) = 1 /\ ready = <<>> /\ reads = <<>>
         \/ /\ Handling \/ Seeding \/ Refilling
            /\ outbox = <<>> /\ Len(ready) \in 1..2 /\ reads = <<>>
         \/ /\ Seeking \/ Filling \/ Demoting
            /\ outbox = <<>> /\ ready = <<>> /\ Len(reads) = 1
<1>1. Seeding \/ Refilling => outbox = <<>> /\ Len(ready) = 1 /\ reads = <<>>
  BY DEF Seeding, Refilling, Looping
<1>2. Seeking \/ Filling \/ Demoting => outbox = <<>> /\ ready = <<>> /\ Len(reads) = 1
  BY DEF Seeking, Filling, Demoting, Asking
<1>3. Handling => outbox = <<>> /\ Len(ready) \in 1..2 /\ reads = <<>>
  BY DEF Handling
<1>4. Notifying => Len(outbox) = 1 /\ ready = <<>> /\ reads = <<>>
  BY DEF Notifying
<1>5. Resting => outbox = <<>> /\ ready = <<>> /\ reads = <<>>
  BY DEF Resting
<1>6. 1 \in 1..2
  OBVIOUS
<1>7. QED
  BY <1>1, <1>2, <1>3, <1>4, <1>5, <1>6, Zenon DEF Stage

LEMMA EmptyLength == Len(<<>>) = 0 /\ ~(Len(<<>>) = 1) /\ ~(Len(<<>>) \in 1..2) /\ DOMAIN <<>> = {}
OBVIOUS

LEMMA NothingInFlight ==
  ASSUME IInv, Stage, OneAtATime, InFlight < MaxInFlight
  PROVE  Resting /\ outbox = <<>> /\ ready = <<>> /\ reads = <<>>
<1>1. Len(outbox) \in Nat /\ Len(ready) \in Nat /\ Len(reads) \in Nat
  BY StateFacts
<1>2. Len(outbox) = 0 /\ Len(ready) = 0 /\ Len(reads) = 0
  BY <1>1 DEF InFlight, OneAtATime
<1>3. QED
  BY <1>2, StageShape

LEMMA SomethingCommitted ==
  ASSUME IInv, Stage, NEW k \in DOMAIN outbox
  PROVE  /\ Notifying /\ k = 1 /\ Len(outbox) = 1 /\ ready = <<>> /\ reads = <<>>
         /\ outbox[1] \in Batches
<1>1. outbox # <<>>
  OBVIOUS
<1>2. Notifying /\ Len(outbox) = 1 /\ ready = <<>> /\ reads = <<>>
  BY <1>1, StageShape, Zenon
<1>3. QED
  BY <1>2, StateFacts, OneElement

LEMMA SomethingRead ==
  ASSUME IInv, Stage, NEW i \in DOMAIN reads
  PROVE  /\ i = 1 /\ Len(reads) = 1 /\ ready = <<>> /\ outbox = <<>>
         /\ reads[1] \in Reads /\ RemoveAt(reads, 1) = <<>>
         /\ \/ Seeking /\ reads[1].kind = "seed"
            \/ Filling /\ reads[1].kind = "fill"
            \/ Demoting /\ reads[1].kind = "demote"
<1>1. reads # <<>>
  OBVIOUS
<1>2. (Seeking \/ Filling \/ Demoting) /\ outbox = <<>> /\ ready = <<>> /\ Len(reads) = 1
  BY <1>1, StageShape, Zenon
<1>3. /\ Seeking => reads[1].kind = "seed"
      /\ Filling => reads[1].kind = "fill"
      /\ Demoting => reads[1].kind = "demote"
  BY DEF Seeking, Filling, Demoting, Asking
<1>4. i = 1 /\ reads[1] \in Reads /\ RemoveAt(reads, 1) = <<>>
  BY <1>2, StateFacts, OneElement
<1>5. QED
  BY <1>2, <1>3, <1>4

LEMMA SomethingRuns ==
  ASSUME IInv, Stage, NEW t \in Current
  PROVE  /\ t = ready[1] /\ ready # <<>> /\ outbox = <<>> /\ reads = <<>> /\ t \in Task
         /\ Len(ready) \in 1..2 /\ t = Head(ready)
         /\ \/ Handling
            \/ Seeding /\ t.kind = "seed" /\ Len(ready) = 1 /\ Tail(ready) = <<>>
            \/ Refilling /\ t.kind = "fill" /\ Len(ready) = 1 /\ Tail(ready) = <<>>
<1>1. ready # <<>> /\ t = Head(ready)
  BY DEF Current
<1>2. /\ Handling \/ Seeding \/ Refilling
      /\ outbox = <<>> /\ reads = <<>> /\ Len(ready) \in 1..2
  BY <1>1, StageShape, Zenon
<1>3. t = ready[1] /\ t \in Task
  BY <1>1, StateFacts
<1>4. /\ Seeding => t.kind = "seed" /\ Len(ready) = 1
      /\ Refilling => t.kind = "fill" /\ Len(ready) = 1
  BY <1>3 DEF Seeding, Refilling, Looping
<1>5. Len(ready) = 1 => Tail(ready) = <<>>
  BY StateFacts, OneElement
<1>6. QED
  BY <1>1, <1>2, <1>3, <1>4, <1>5, Zenon

-----------------------------------------------------------------------------
(* Storage and its writers.                                                *)

LEMMA InitSerial == Init => Calm /\ Stage
<1> SUFFICES ASSUME Init PROVE Calm /\ Stage
  OBVIOUS
<1>1. window.entries = <<>> /\ Elems(window) = {}
  BY NoRows DEF Init, EmptyWindow, Elems
<1>2. Subscribed = {} /\ NobodyReads
  BY DEF Init, Subscribed, NobodyReads
<1>3. HeldIn(window, store, {})
  BY <1>1 DEF HeldIn
<1>4. Resting
  BY <1>2, <1>3 DEF Init, Resting, At
<1>5. Calm
  BY <1>1 DEF Init, Calm
<1>6. QED
  BY <1>4, <1>5 DEF Stage

\* Rows that are not written stay what they are.
LEMMA ScopeElsewhere ==
  ASSUME NEW s \in [Id -> Row \cup {Absent}], NEW t \in [Id -> Row \cup {Absent}],
         NEW ids, \A id \in Id : id \notin ids => t[id] = s[id]
  PROVE  /\ Known(t, ids) = Known(s, ids)
         /\ \A w : HeldIn(w, s, {}) => HeldIn(w, t, ids)
         /\ Known(s, ids) \in SUBSET InScope(s)
<1>1. ASSUME NEW x, x.id \notin ids PROVE x \in InScope(s) <=> x \in InScope(t)
  <2>1. ASSUME x \in InScope(s) PROVE x \in InScope(t)
    <3>1. x.id \in Id /\ s[x.id] # Absent /\ s[x.id].ok /\ x = EntryOf(x.id, s[x.id])
      BY <2>1, ScopeFacts
    <3>2. t[x.id] = s[x.id]
      BY <1>1, <3>1
    <3>3. QED
      BY <3>1, <3>2, ScopeFacts
  <2>2. ASSUME x \in InScope(t) PROVE x \in InScope(s)
    <3>1. x.id \in Id /\ t[x.id] # Absent /\ t[x.id].ok /\ x = EntryOf(x.id, t[x.id])
      BY <2>2, ScopeFacts
    <3>2. t[x.id] = s[x.id]
      BY <1>1, <3>1
    <3>3. QED
      BY <3>1, <3>2, ScopeFacts
  <2>3. QED
    BY <2>1, <2>2
<1>2. Known(t, ids) = Known(s, ids)
  BY <1>1 DEF Known
<1>3. ASSUME NEW w, HeldIn(w, s, {}) PROVE HeldIn(w, t, ids)
  BY <1>1, <1>3 DEF HeldIn
<1>4. QED
  BY <1>2, <1>3 DEF Known

\* A commit leaves the window right but for the rows it wrote.
LEMMA CommittedAt ==
  ASSUME IInv, Resting, store' \in [Id -> Row \cup {Absent}],
         NEW ids, \A id \in Id : id \notin ids => store'[id] = store[id],
         UNCHANGED <<matched, window, seeded, phase, view, failures>>
  PROVE  /\ NobodyReads' /\ HeldIn(window', store', ids)
         /\ \/ Subscribed' = {}
            \/ failures' # 0
            \/ /\ seeded' /\ Leads(window', <<>>, Known(store', ids))
               /\ matched' = Ids(window')
               /\ \A c \in Client : phase'[c] = "in" => view'[c] = Ids(window')
<1>1. /\ window \in Windows /\ WellFormed(window) /\ store \in [Id -> Row \cup {Absent}]
  BY StateFacts
<1>2. /\ Known(store', ids) = Known(store, ids) /\ Known(store, ids) \in SUBSET InScope(store)
      /\ HeldIn(window, store, {}) => HeldIn(window, store', ids)
  BY <1>1, ScopeElsewhere
<1>3. Known(store, {}) = InScope(store)
  BY DEF Known
<1>4. NobodyReads /\ HeldIn(window, store, {})
  BY DEF Resting, At
<1>5. \/ Subscribed = {}
      \/ failures # 0
      \/ /\ seeded /\ Leads(window, <<>>, InScope(store)) /\ matched = Ids(window)
         /\ \A c \in Client : phase[c] = "in" => view[c] = Ids(window)
  BY <1>3 DEF Resting, At, Agreed
<1>6. Leads(window, <<>>, InScope(store)) => Leads(window, <<>>, Known(store, ids))
  BY <1>1, <1>2, LeadsSmaller
<1>7. NobodyReads' /\ Subscribed' = Subscribed
  BY <1>4 DEF NobodyReads, Subscribed
<1>8. QED
  BY <1>2, <1>4, <1>5, <1>6, <1>7

LEMMA CommittedIsNotifying ==
  ASSUME IInv, Calm, Resting, store' \in [Id -> Row \cup {Absent}],
         NEW b \in Batches, outbox' = <<b>>,
         \A id \in Id : (\A j \in 1..Len(b.writes) : b.writes[j].id # id) => store'[id] = store[id],
         \A id \in Id : store[id] # Absent => store'[id] # Absent,
         \A j \in 1..Len(b.writes) :
           /\ b.writes[j].row = store'[b.writes[j].id]
           /\ b.writes[j].op = "INSERT" => store[b.writes[j].id] = Absent,
         Len(b.writes) = 2 => /\ ~b.reread
                              /\ b.writes[1].id # b.writes[2].id
                              /\ \A j \in 1..2 : b.writes[j].op = "INSERT",
         UNCHANGED <<tracked, matched, window, seeded, ready, reads, phase, view, threw, failures>>
  PROVE  Calm' /\ Stage'
<1> DEFINE ids == {b.writes[j].id : j \in 1..Len(b.writes)}
<1>1. ready = <<>> /\ reads = <<>> /\ HeldIn(window, store, {})
  BY DEF Resting, At
<1>2. outbox'[1] = b /\ Len(outbox') = 1 /\ Written' = ids
  BY DEF Written
<1>3. \A id \in Id : id \notin ids => store'[id] = store[id]
  OBVIOUS
<1> HIDE DEF ids
<1>4. /\ NobodyReads' /\ HeldIn(window', store', ids)
      /\ \/ Subscribed' = {}
         \/ failures' # 0
         \/ /\ seeded' /\ Leads(window', <<>>, Known(store', ids))
            /\ matched' = Ids(window')
            /\ \A c \in Client : phase'[c] = "in" => view'[c] = Ids(window')
  BY <1>3, CommittedAt
<1>5. At(Written)'
  BY <1>2, <1>4 DEF At, Agreed
<1>6. ASSUME NEW id, store[id] = Absent PROVE id \notin tracked /\ ~Has(window, id)
  <2>1. id \notin tracked
    BY <1>6 DEF Calm
  <2>2. ASSUME NEW x \in Elems(window), x.id = id PROVE FALSE
    BY <1>1, <1>6, <2>2, StateFacts, ScopeFacts DEF HeldIn
  <2>3. QED
    BY <2>1, <2>2, StateFacts, WindowElems
<1>7. Notifying'
  BY <1>1, <1>2, <1>5, <1>6 DEF Notifying
<1>8. Subscribed' = Subscribed
  BY DEF Subscribed
<1>a. tracked \subseteq Id
  BY DEF IInv, TypeOK
<1>9. Calm'
  BY <1>8, <1>a DEF Calm
<1>10. QED
  BY <1>7, <1>9 DEF Stage

LEMMA CommitSerial ==
  ASSUME OneAtATime, IInv, Calm, Stage, NEW w \in Write, Commit(w)
  PROVE  Calm' /\ Stage'
<1> DEFINE b == Batch(<<w>>, w.op = "UPDATE")
<1>1. Resting /\ outbox = <<>>
  BY NothingInFlight DEF Commit
<1>2. b \in Batches /\ Len(b.writes) = 1 /\ b.writes[1] = w
  BY DEF Batch, Batches
<1>3. /\ outbox' = <<b>> /\ store' = Apply(store, w) /\ Applies(store, w)
      /\ UNCHANGED <<tracked, matched, window, seeded, ready, reads, phase, view, threw, failures>>
  BY <1>1 DEF Commit
<1>4. /\ store \in [Id -> Row \cup {Absent}] /\ w.id \in Id /\ w.row \in Row
  BY StateFacts DEF Write
<1> HIDE DEF b
<1>5. /\ store' \in [Id -> Row \cup {Absent}] /\ store'[w.id] = w.row
      /\ \A id \in Id : id # w.id => store'[id] = store[id]
      /\ \A id \in Id : store[id] # Absent => store'[id] # Absent
  BY <1>3, <1>4, ApplyType DEF Apply
<1>6. w.op = "INSERT" => store[w.id] = Absent
  BY <1>3 DEF Applies
<1>7. \A j \in 1..Len(b.writes) : b.writes[j] = w
  BY <1>2
<1>8. \A id \in Id : (\A j \in 1..Len(b.writes) : b.writes[j].id # id) => store'[id] = store[id]
  BY <1>2, <1>5
<1>9. ~(Len(b.writes) = 2)
  BY <1>2
<1>10. QED
  BY <1>1, <1>2, <1>3, <1>5, <1>6, <1>7, <1>8, <1>9, CommittedIsNotifying

LEMMA CommitTransactionSerial ==
  ASSUME OneAtATime, IInv, Calm, Stage, NEW w1 \in Together, NEW w2 \in Together,
         CommitTransaction(w1, w2)
  PROVE  Calm' /\ Stage'
<1> DEFINE b == Batch(<<w1, w2>>, FALSE)
           s == Apply(store, w1)
<1>1. Resting /\ outbox = <<>>
  BY NothingInFlight DEF CommitTransaction
<1>2. /\ w1 \in Write /\ w2 \in Write /\ w1.op = "INSERT" /\ w2.op = "INSERT"
      /\ w1.id \in Id /\ w1.row \in Row /\ w2.id \in Id /\ w2.row \in Row
  BY DEF Together, Write, OneAtATime
<1>3. b \in Batches /\ ~b.reread /\ Len(b.writes) = 2 /\ b.writes[1] = w1 /\ b.writes[2] = w2
  BY <1>2 DEF Batch, Batches
<1>4. /\ outbox' = <<b>> /\ store' = Apply(s, w2)
      /\ store[w1.id] = Absent /\ s[w2.id] = Absent
      /\ UNCHANGED <<tracked, matched, window, seeded, ready, reads, phase, view, threw, failures>>
  BY <1>1, <1>2 DEF CommitTransaction, Applies
<1>5. store \in [Id -> Row \cup {Absent}]
  BY StateFacts
<1>6. /\ s \in [Id -> Row \cup {Absent}] /\ s[w1.id] = w1.row /\ s[w1.id] # Absent
      /\ \A id \in Id : id # w1.id => s[id] = store[id]
      /\ \A id \in Id : store[id] # Absent => s[id] # Absent
  BY <1>2, <1>5, ApplyType DEF Apply
<1> HIDE DEF b, s
<1>7. /\ store' \in [Id -> Row \cup {Absent}] /\ store'[w2.id] = w2.row
      /\ \A id \in Id : id # w2.id => store'[id] = s[id]
      /\ \A id \in Id : s[id] # Absent => store'[id] # Absent
  BY <1>2, <1>4, <1>6, ApplyType DEF Apply
<1>8. w1.id # w2.id /\ store[w2.id] = Absent /\ store'[w1.id] = w1.row
  BY <1>2, <1>4, <1>6, <1>7
<1>9. \A j \in 1..Len(b.writes) : (j = 1 /\ b.writes[j] = w1) \/ (j = 2 /\ b.writes[j] = w2)
  BY <1>3
<1>10. \A j \in 1..Len(b.writes) :
         /\ b.writes[j].row = store'[b.writes[j].id]
         /\ b.writes[j].op = "INSERT" => store[b.writes[j].id] = Absent
  BY <1>4, <1>7, <1>8, <1>9
<1>11. 1 \in 1..Len(b.writes) /\ 2 \in 1..Len(b.writes) /\ 1..2 = {1, 2}
  BY <1>3
<1>12. \A id \in Id : (\A j \in 1..Len(b.writes) : b.writes[j].id # id) => store'[id] = store[id]
  BY <1>3, <1>6, <1>7, <1>11
<1>13. \A id \in Id : store[id] # Absent => store'[id] # Absent
  BY <1>6, <1>7
<1>14. b.writes[1].id # b.writes[2].id /\ \A j \in 1..2 : b.writes[j].op = "INSERT"
  BY <1>2, <1>3, <1>8, <1>11
<1>15. QED
  BY <1>1, <1>3, <1>4, <1>7, <1>10, <1>12, <1>13, <1>14, CommittedIsNotifying

LEMMA RereadSerial ==
  ASSUME IInv, Calm, Stage, NEW k \in DOMAIN outbox, Reread(k)
  PROVE  Calm' /\ Stage'
<1> DEFINE w == outbox[1].writes[1]
           v == [w EXCEPT !.row = store[w.id]]
           b == Batch(<<v>>, FALSE)
<1>1. /\ Notifying /\ k = 1 /\ Len(outbox) = 1 /\ ready = <<>> /\ reads = <<>>
      /\ outbox[1] \in Batches /\ outbox \in Seq(Batches)
  BY SomethingCommitted, StateFacts
<1>2. /\ outbox' = [outbox EXCEPT ![1] = b]
      /\ UNCHANGED <<store, tracked, matched, window, seeded, ready, reads, phase, view,
                     threw, failures>>
      /\ outbox[1].reread
  BY <1>1 DEF Reread
<1>3. Len(outbox[1].writes) \in 1..2 /\ \A j \in 1..Len(outbox[1].writes) : outbox[1].writes[j] \in Write
  BY <1>1, BatchType, Zenon
<1> DEFINE n == Len(outbox[1].writes)
<1>4. n = 1
  <2>1. n \in 1..2 /\ n # 2
    BY <1>1, <1>2, <1>3 DEF Notifying
  <2> HIDE DEF n
  <2>2. QED
    BY <2>1
<1>5. 1 \in 1..n /\ \A j \in 1..n : j = 1
  <2> HIDE DEF n
  <2>1. QED
    BY <1>4
<1>6. w \in Write
  BY <1>3, <1>5
<1>7. v.id = w.id /\ v.op = w.op /\ v.row = store[w.id]
  BY <1>6 DEF Write
<1>8. outbox'[1] = b /\ Len(outbox') = 1
  BY <1>1, <1>2
<1>9. b.writes = <<v>> /\ Len(b.writes) = 1 /\ b.writes[1] = v
  BY DEF Batch
<1>10. Written = {w.id}
  BY <1>4, <1>5 DEF Written
<1>11. w.op = "INSERT" => w.id \notin tracked /\ ~Has(window, w.id)
  BY <1>1, <1>5 DEF Notifying
<1> HIDE DEF w, v, n
<1> DEFINE ws == b.writes
<1>a. ws \in Seq({v}) /\ Len(ws) = 1
  <2> HIDE DEF b
  <2>1. <<v>> \in Seq({v}) /\ Len(<<v>>) = 1
    OBVIOUS
  <2>2. QED
    BY <1>9, <2>1
<1> HIDE DEF b, ws
<1>b. 1..Len(ws) = {1} /\ 1 \in 1..Len(ws)
  BY <1>a
<1>c. ws[1] = v
  BY <1>9 DEF ws
<1>12. /\ \A j \in 1..Len(b.writes) : b.writes[j] = v
       /\ ~(Len(b.writes) = 2)
  <2>1. \A j \in 1..Len(ws) : ws[j] = v
    BY <1>b, <1>c
  <2>2. Len(ws) # 2
    BY <1>a
  <2>3. QED
    BY <2>1, <2>2 DEF ws
<1>13. Written' = {w.id}
  <2>1. \A j \in 1..Len(b.writes) : b.writes[j].id = w.id
    BY <1>7, <1>12
  <2>2. 1 \in 1..Len(b.writes)
    BY <1>b DEF ws
  <2>3. QED
    BY <1>8, <2>1, <2>2 DEF Written
<1>14. At(Written)'
  <2>1. At(Written)
    BY <1>1 DEF Notifying
  <2>2. NobodyReads' <=> NobodyReads
    BY <1>2 DEF NobodyReads
  <2>3. Subscribed' = Subscribed
    BY <1>2 DEF Subscribed
  <2>4. QED
    BY <1>2, <1>10, <1>13, <2>1, <2>2, <2>3 DEF At, Agreed
<1>15. Notifying'
  BY <1>1, <1>2, <1>7, <1>8, <1>11, <1>12, <1>14 DEF Notifying
<1>16. Calm'
  BY <1>2 DEF Calm, Subscribed
<1>17. QED
  BY <1>15, <1>16 DEF Stage

-----------------------------------------------------------------------------
(* The notification.                                                       *)

\* The continuation of a mutation, as handleMutation makes it.
TaskOf(w) ==
  MutationTask(IF w.op = "INSERT" THEN "matchInsert" ELSE "matchUpdate", w)

LEMMA TaskIsHandled ==
  ASSUME NEW w \in Write, w.row = store[w.id], store[w.id] # Absent,
         w.op = "INSERT" => ~Has(window, w.id)
  PROVE  /\ Handles(TaskOf(w)) /\ TaskOf(w).rows[1].id = w.id
         /\ w.op = "INSERT" => TaskOf(w).kind = "matchInsert"
<1> DEFINE t == TaskOf(w)
<1>1. /\ t.kind = (IF w.op = "INSERT" THEN "matchInsert" ELSE "matchUpdate")
      /\ t.matches = w.row.ok /\ t.rows = <<EntryOf(w.id, w.row)>>
  BY DEF TaskOf, MutationTask
<1>2. Len(t.rows) = 1 /\ t.rows[1] = EntryOf(w.id, store[w.id]) /\ t.rows[1].id = w.id
  BY <1>1 DEF EntryOf
<1> HIDE DEF t
<1>3. w.op = "INSERT" \/ w.op = "UPDATE"
  BY DEF Write
<1>4. Handles(t)
  BY <1>1, <1>2, <1>3 DEF Handles
<1>5. QED
  BY <1>1, <1>2, <1>4 DEF t

LEMMA OneAndTwo ==
  /\ <<>> \o <<>> = <<>>
  /\ \A a, b : /\ <<a>> \o <<>> = <<a>> /\ <<a>> \o <<b>> = <<a, b>>
              /\ Len(<<a>>) = 1 /\ <<a>>[1] = a
              /\ Len(<<a, b>>) = 2 /\ <<a, b>>[1] = a /\ <<a, b>>[2] = b
<1>1. <<>> \o <<>> = <<>>
  OBVIOUS
<1>2. ASSUME NEW a, NEW b
      PROVE  /\ <<a>> \o <<>> = <<a>> /\ <<a>> \o <<b>> = <<a, b>>
             /\ Len(<<a>>) = 1 /\ <<a>>[1] = a
             /\ Len(<<a, b>>) = 2 /\ <<a, b>>[1] = a /\ <<a, b>>[2] = b
  <2> DEFINE S == {a, b}
             p == <<a>> \o <<>>
             q == <<a>> \o <<b>>
  <2>1. /\ Len(<<a>>) = 1 /\ <<a>>[1] = a /\ <<a>> \in Seq(S)
        /\ Len(<<a, b>>) = 2 /\ <<a, b>>[1] = a /\ <<a, b>>[2] = b /\ <<a, b>> \in Seq(S)
    OBVIOUS
  <2>2. p = <<a>>
    OBVIOUS
  <2>3. q \in Seq(S) /\ Len(q) = 2 /\ q[1] = a /\ q[2] = b
    OBVIOUS
  <2> HIDE DEF q, S
  <2>4. \A k \in 1..Len(q) : k = 1 \/ k = 2
    BY <2>3
  <2>5. q = <<a, b>>
    BY <2>1, <2>3, <2>4, EqualByElements
  <2>6. QED
    BY <2>1, <2>2, <2>5 DEF q
<1>3. QED
  BY <1>1, <1>2

\* The queue after the notification: one continuation per mutation.
LEMMA NotifyQueues ==
  ASSUME IInv, Notifying, Notify(1), outbox[1] \in Batches, NEW ws, ws = outbox[1].writes
  PROVE  /\ Len(ws) \in 1..2
         /\ \A j \in 1..Len(ws) : ws[j] \in Write /\ store[ws[j].id] # Absent
         /\ tracked' = tracked \cup Written
         /\ Subscribed = {} => ready' = <<>>
         /\ Subscribed # {} /\ Len(ws) = 1 => ready' = <<TaskOf(ws[1])>>
         /\ Subscribed # {} /\ Len(ws) = 2 => ready' = <<TaskOf(ws[1]), TaskOf(ws[2])>>
<1> DEFINE ids(n) == {ws[i].id : i \in 1..n}
           heard(i) ==
             IF \/ i > Len(ws)
                \/ Subscribed = {}
                \/ ws[i].op = "INSERT" /\ ws[i].id \in tracked \cup ids(i - 1)
             THEN <<>>
             ELSE <<TaskOf(ws[i])>>
<1>1. Len(ws) \in 1..2 /\ \A j \in 1..Len(ws) : ws[j] \in Write
  BY BatchType, Zenon
<1>2. Len(outbox) = 1
  BY DEF Notifying
<1>3. \A j \in 1..Len(ws) : store[ws[j].id] # Absent
  BY <1>2 DEF IInv, Stored
<1>4. tracked' = tracked \cup ids(Len(ws)) /\ ready' = heard(1) \o heard(2)
  BY Zenon DEF Notify, TaskOf, MutationTask
<1>5. Written = ids(Len(ws))
  BY DEF Written
<1>7. Subscribed = {} => heard(1) = <<>> /\ heard(2) = <<>>
  OBVIOUS
<1>8. ASSUME Subscribed # {} PROVE heard(1) = <<TaskOf(ws[1])>>
  <2> DEFINE n == Len(ws)
  <2> HIDE DEF n
  <2>a. n \in 1..2
    BY <1>1 DEF n
  <2>b. 1 \in 1..n /\ ~(1 > n)
    BY <2>a
  <2>1. 1 \in 1..Len(ws) /\ ~(1 > Len(ws))
    BY <2>b DEF n
  <2>2. ws[1].op = "INSERT" => ws[1].id \notin tracked
    BY <2>1 DEF Notifying
  <2>3. ids(1 - 1) = {}
    OBVIOUS
  <2>4. QED
    BY <1>8, <2>1, <2>2, <2>3
<1>9. ASSUME Len(ws) = 1 PROVE heard(2) = <<>>
  BY <1>9
<1>10. ASSUME Subscribed # {}, Len(ws) = 2 PROVE heard(2) = <<TaskOf(ws[2])>>
  <2>1. 2 \in 1..Len(ws) /\ ~(2 > Len(ws)) /\ 2 \in 1..2
    BY <1>10
  <2>2. ws[2].op = "INSERT" /\ ws[2].id \notin tracked /\ ws[1].id # ws[2].id
    BY <1>10, <2>1 DEF Notifying
  <2>3. ids(2 - 1) = {ws[1].id}
    OBVIOUS
  <2>4. QED
    BY <1>10, <2>1, <2>2, <2>3
<1> HIDE DEF heard
<1>11. Subscribed = {} => ready' = <<>>
  BY <1>4, <1>7, OneAndTwo
<1>12. Subscribed # {} /\ Len(ws) = 1 => ready' = <<TaskOf(ws[1])>>
  BY <1>4, <1>8, <1>9, OneAndTwo
<1>13. Subscribed # {} /\ Len(ws) = 2 => ready' = <<TaskOf(ws[1]), TaskOf(ws[2])>>
  BY <1>4, <1>8, <1>10, OneAndTwo
<1>14. tracked' = tracked \cup Written
  BY <1>4, <1>5
<1>15. QED
  BY <1>1, <1>3, <1>11, <1>12, <1>13, <1>14, Zenon

LEMMA NotifySerial ==
  ASSUME IInv, Calm, Stage, NEW k \in DOMAIN outbox, Notify(k)
  PROVE  Calm' /\ Stage'
<1> DEFINE ws == outbox[1].writes
<1>1. /\ Notifying /\ k = 1 /\ Len(outbox) = 1 /\ ready = <<>> /\ reads = <<>>
      /\ outbox[1] \in Batches /\ outbox \in Seq(Batches)
  BY SomethingCommitted, StateFacts
<1>a. Notify(1)
  BY <1>1
<1>2. outbox' = <<>>
  <2>1. outbox' = RemoveAt(outbox, 1)
    BY <1>a, Zenon DEF Notify
  <2>2. QED
    BY <1>1, <2>1, OneElement
<1>3. UNCHANGED <<store, matched, window, seeded, reads, phase, view, threw, failures>>
  BY <1>a, Zenon DEF Notify
<1>4. /\ Len(ws) \in 1..2
      /\ \A j \in 1..Len(ws) : ws[j] \in Write /\ store[ws[j].id] # Absent
      /\ tracked' = tracked \cup Written
      /\ Subscribed = {} => ready' = <<>>
      /\ Subscribed # {} /\ Len(ws) = 1 => ready' = <<TaskOf(ws[1])>>
      /\ Subscribed # {} /\ Len(ws) = 2 => ready' = <<TaskOf(ws[1]), TaskOf(ws[2])>>
  BY <1>1, <1>a, NotifyQueues, Zenon
<1>5. At(Written) /\ NobodyReads
  BY <1>1 DEF Notifying, At
<1>6. Subscribed' = Subscribed /\ (NobodyReads' <=> NobodyReads)
  BY <1>3 DEF Subscribed, NobodyReads
<1>7. Calm'
  <2>1. \A id \in Written : store[id] # Absent
    BY <1>4 DEF Written
  <2>2. QED
    BY <1>3, <1>4, <1>6, <2>1 DEF Calm
<1>8. ASSUME Subscribed = {} PROVE Resting'
  <2>1. Elems(window) = {}
    BY <1>8, NoRows DEF Calm, Elems
  <2>2. HeldIn(window', store', {})
    BY <1>3, <2>1 DEF HeldIn
  <2>3. QED
    BY <1>1, <1>2, <1>3, <1>4, <1>5, <1>6, <1>8, <2>2 DEF Resting, At
<1>9. ASSUME Subscribed # {} PROVE Handling'
  <2>1. \A j \in 1..Len(ws) : /\ ws[j].row = store[ws[j].id]
                              /\ ws[j].op = "INSERT" => ~Has(window, ws[j].id)
    BY <1>1 DEF Notifying
  <2>2. \A j \in 1..Len(ws) : /\ Handles(TaskOf(ws[j])) /\ TaskOf(ws[j]).rows[1].id = ws[j].id
                              /\ ws[j].op = "INSERT" => TaskOf(ws[j]).kind = "matchInsert"
    BY <1>4, <2>1, TaskIsHandled
  <2>4. /\ Len(ready') = Len(ws) /\ Len(ws) \in 1..2
        /\ \A j \in 1..Len(ws) : ready'[j] = TaskOf(ws[j])
    <3>1. \A a, b : /\ Len(<<a>>) = 1 /\ <<a>>[1] = a
                    /\ Len(<<a, b>>) = 2 /\ <<a, b>>[1] = a /\ <<a, b>>[2] = b
      BY OneAndTwo, Zenon
    <3> DEFINE n == Len(ws)
    <3> HIDE DEF n
    <3>2. n \in 1..2
      BY <1>4 DEF n
    <3>3. CASE n = 1
      <4>1. \A j \in 1..n : j = 1
        BY <3>3
      <4>2. QED
        BY <1>4, <1>9, <3>1, <3>2, <3>3, <4>1 DEF n
    <3>4. CASE n = 2
      <4>1. \A j \in 1..n : j = 1 \/ j = 2
        BY <3>4
      <4>2. QED
        BY <1>4, <1>9, <3>1, <3>2, <3>4, <4>1 DEF n
    <3>5. QED
      BY <3>2, <3>3, <3>4
  <2>5. Waiting' = Written
    BY <2>2, <2>4 DEF Waiting, Written
  <2>6. (\A i \in 1..Len(ready) : Handles(ready[i]))'
    <3>1. \A i \in 1..Len(ready') : Handles(ready'[i])
      BY <2>2, <2>4
    <3>2. ASSUME NEW i \in 1..Len(ready') PROVE Handles(ready[i])'
      BY <1>3, <3>1 DEF Handles
    <3>3. QED
      BY <3>2
  <2>7. ASSUME Len(ready') = 2
        PROVE  /\ ready'[1].rows[1].id # ready'[2].rows[1].id
               /\ \A i \in 1..2 : ready'[i].kind \in {"matchInsert", "placeInsert"}
    <3>1. ws[1].id # ws[2].id /\ \A j \in 1..2 : ws[j].op = "INSERT"
      BY <1>1, <2>4, <2>7 DEF Notifying
    <3>2. 1 \in 1..Len(ws) /\ 2 \in 1..Len(ws) /\ 1..Len(ws) = 1..2
      BY <2>4, <2>7
    <3>3. QED
      BY <2>2, <2>4, <3>1, <3>2
  <2>8. At(Waiting)'
    BY <1>3, <1>5, <1>6, <2>5 DEF At, Agreed
  <2>9. QED
    <3>1. outbox' = <<>> /\ reads' = <<>> /\ Len(ready') \in 1..2 /\ Subscribed' # {}
      BY <1>1, <1>2, <1>3, <1>6, <1>9, <2>4
    <3>2. QED
      BY <2>6, <2>7, <2>8, <3>1, Zenon DEF Handling
<1>10. QED
  BY <1>7, <1>8, <1>9 DEF Stage

-----------------------------------------------------------------------------
(* Reads: asked, evaluated and rejected.                                   *)

LEMMA SubscribeSerial ==
  ASSUME OneAtATime, IInv, Calm, Stage, NEW c \in Client, Subscribe(c)
  PROVE  Calm' /\ Stage'
<1> DEFINE r == Read("seed", {c}, {}, {}, Limit)
<1>1. Resting /\ outbox = <<>> /\ ready = <<>> /\ reads = <<>>
  BY NothingInFlight DEF Subscribe
<1>2. /\ reads' = <<r>> /\ phase[c] = "out" /\ phase' = [phase EXCEPT ![c] = "reading"]
      /\ UNCHANGED <<store, outbox, tracked, matched, window, seeded, ready, view,
                     threw, failures>>
  BY <1>1 DEF Subscribe
<1>3. r.kind = "seed" /\ r.clients = {c} /\ r.cursor = {} /\ r.limit = Limit /\ r.rows = Unanswered
  BY DEF Read
<1> HIDE DEF r
<1>4. Len(reads') = 1 /\ reads'[1] = r
  BY <1>2
<1>5. phase'[c] = "reading" /\ \A d \in Client : d # c => phase'[d] = phase[d]
  BY <1>2, StateFacts
<1>6. NobodyReads /\ HeldIn(window, store, {}) /\ Known(store, {}) = InScope(store)
  BY <1>1 DEF Resting, At, Known
<1>7. \A d \in Client : phase'[d] = "reading" => d = c
  BY <1>5, <1>6 DEF NobodyReads
<1>8. \A d \in Client : phase'[d] = "in" => phase[d] = "in"
  BY <1>5
<1>9. \/ failures' # 0
      \/ seeded' /\ Leads(window, <<>>, InScope(store))' /\ Agreed({})'
      \/ ~seeded' /\ window'.entries = <<>> /\ Agreed({})' /\ \A d \in Client : phase'[d] # "in"
  <2>1. ASSUME Subscribed = {}
        PROVE  ~seeded' /\ window'.entries = <<>> /\ Agreed({})' /\ \A d \in Client : phase'[d] # "in"
    <3>1. window.entries = <<>> /\ matched = {} /\ ~seeded
      BY <2>1 DEF Calm
    <3>2. Ids(window) = {}
      BY <3>1, EmptyLength DEF Ids
    <3>3. \A d \in Client : phase'[d] # "in"
      BY <1>8, <2>1 DEF Subscribed
    <3>4. QED
      BY <1>2, <3>1, <3>2, <3>3 DEF Agreed
  <2>2. ASSUME seeded, Leads(window, <<>>, Known(store, {})), Agreed({})
        PROVE  seeded' /\ Leads(window, <<>>, InScope(store))' /\ Agreed({})'
    <3>1. Agreed({})'
      BY <1>2, <1>8, <2>2 DEF Agreed
    <3>2. Leads(window, <<>>, InScope(store))'
      BY <1>2, <1>6, <2>2
    <3>3. QED
      BY <1>2, <2>2, <3>1, <3>2
  <2>3. \/ Subscribed = {}
        \/ failures # 0
        \/ seeded /\ Leads(window, <<>>, Known(store, {})) /\ Agreed({})
    BY <1>1 DEF Resting, At
  <2>4. failures' = failures
    BY <1>2
  <2>5. QED
    BY <2>1, <2>2, <2>3, <2>4
<1>10. Asking("seed")'
  BY <1>1, <1>2, <1>3, <1>4, <1>6 DEF Asking
<1>11. Seeking'
  BY <1>3, <1>4, <1>5, <1>7, <1>9, <1>10 DEF Seeking
<1>12. Calm'
  <2>1. Subscribed' # {}
    BY <1>5 DEF Subscribed
  <2>2. \A d \in Client : phase'[d] \in {"out", "reading"} => view'[d] = {}
    BY <1>2, <1>5 DEF Calm
  <2>3. QED
    BY <1>2, <2>1, <2>2 DEF Calm
<1>13. QED
  BY <1>11, <1>12 DEF Stage

LEMMA AnswerSerial ==
  ASSUME IInv, Calm, Stage, NEW i \in DOMAIN reads, Answer(i)
  PROVE  Calm' /\ Stage'
<1> DEFINE r == reads[1]
           S == InScope(store)
<1>1. /\ i = 1 /\ Len(reads) = 1 /\ ready = <<>> /\ outbox = <<>> /\ r \in Reads
      /\ Seeking \/ Filling \/ Demoting
  BY SomethingRead
<1>2. UNCHANGED <<store, outbox, tracked, matched, window, seeded, ready, phase, view, threw, failures>>
  BY DEF Answer
<1>3. PICK rows \in FirstRows(After(S, r.cursor), r.limit) :
        reads' = [reads EXCEPT ![1] = [@ EXCEPT !.rows = rows]]
  BY <1>1 DEF Answer
<1>4. reads \in Seq(Reads) /\ S \in SUBSET Entry /\ window \in Windows /\ WellFormed(window)
  BY StateFacts
<1>5. /\ Len(reads') = 1
      /\ reads'[1].kind = r.kind /\ reads'[1].clients = r.clients /\ reads'[1].moved = r.moved
      /\ reads'[1].cursor = r.cursor /\ reads'[1].limit = r.limit /\ reads'[1].rows = rows
  <2>1. Len(reads') = 1 /\ reads'[1] = [reads[1] EXCEPT !.rows = rows]
    BY <1>1, <1>3, <1>4
  <2>2. QED
    BY <1>1, <2>1 DEF Reads
<1>6. r.rows = Unanswered
  BY <1>1 DEF Answer
<1>7. After(S, r.cursor) \in SUBSET S /\ After(S, r.cursor) \in SUBSET Entry /\ r.limit \in Nat
  BY <1>1, <1>4 DEF After, Reads
<1>8. rows \in Seq(Entry) /\ ToSet(rows) \subseteq S
  <2> DEFINE T == After(S, r.cursor)
  <2>1. rows \in FirstRows(T, r.limit)
    BY <1>3
  <2>2. T \in SUBSET S /\ T \in SUBSET Entry /\ r.limit \in Nat
    BY <1>7
  <2> HIDE DEF T
  <2>3. rows \in Seq(Entry) /\ ToSet(rows) \subseteq T
    BY <2>1, <2>2, FirstRowsFacts
  <2>4. QED
    BY <2>2, <2>3
<1>9. Calm' /\ Subscribed' = Subscribed /\ (NobodyReads' <=> NobodyReads)
  BY <1>2 DEF Calm, Subscribed, NobodyReads
<1> HIDE DEF r
<1>10. ASSUME NEW k, Asking(k) PROVE Asking(k)'
  <2>1. HeldIn(window, store, {})' <=> HeldIn(window, store, {})
    BY <1>2
  <2>2. QED
    BY <1>2, <1>5, <1>8, <1>10, <2>1 DEF Asking, r
<1>11. Agreed({})' <=> Agreed({})
  BY <1>2 DEF Agreed
<1>12. ASSUME Seeking PROVE Seeking'
  <2>1. Leads(EmptyWindow, rows, S)
    <3>1. EmptyWindow \in Windows /\ WellFormed(EmptyWindow) /\ EmptyWindow.entries = <<>>
      BY EmptyWindowProperties DEF EmptyWindow
    <3>2. rows \in FirstRows(After(S, {}), Limit)
      BY <1>12, <1>3 DEF Seeking, r
    <3>3. QED
      BY <1>4, <3>1, <3>2, SeedRowsLead
  <2>2. Asking("seed")' /\ r.cursor = {} /\ r.limit = Limit
    BY <1>10, <1>12 DEF Seeking, r
  <2>3. \E c \in Client : /\ r.clients = {c} /\ phase[c] = "reading"
                          /\ \A d \in Client : phase[d] = "reading" => d = c
    BY <1>12 DEF Seeking, r
  <2>4. (\/ failures # 0
         \/ seeded /\ Leads(window, <<>>, InScope(store)) /\ Agreed({})
         \/ ~seeded /\ window.entries = <<>> /\ Agreed({}) /\ \A c \in Client : phase[c] # "in")'
    BY <1>2, <1>11, <1>12 DEF Seeking
  <2>5. QED
    BY <1>2, <1>5, <2>1, <2>2, <2>3, <2>4 DEF Seeking
<1>13. ASSUME Filling PROVE Filling'
  <2>1. Asking("fill")' /\ r.clients = {} /\ NobodyReads /\ Subscribed # {}
    BY <1>10, <1>13 DEF Filling, r
  <2>2. ASSUME failures = 0
        PROVE  /\ seeded /\ Agreed({}) /\ Below(window, S) /\ r.cursor = Boundary(window)
               /\ Len(window.entries) + r.limit = Limit
    BY <1>6, <1>13, <2>2 DEF Filling, r
  <2>3. ASSUME failures = 0 PROVE Leads(window, rows, S)
    <3>1. rows \in FirstRows(After(S, Boundary(window)), r.limit)
      BY <1>3, <2>2, <2>3
    <3>2. QED
      BY <1>4, <1>7, <2>2, <2>3, <3>1, ReadRowsLead
  <2>4. QED
    BY <1>2, <1>5, <1>9, <1>11, <2>1, <2>2, <2>3 DEF Filling
<1>14. ASSUME Demoting PROVE Demoting'
  <2>1. Asking("demote")' /\ r.clients = {} /\ NobodyReads /\ Subscribed # {}
    BY <1>10, <1>14 DEF Demoting, r
  <2>2. PICK e \in S :
          /\ r.moved = {e} /\ ~Has(window, e.id)
          /\ \/ failures # 0
             \/ /\ seeded /\ Agreed({e.id}) /\ Below(window, S) /\ Len(window.entries) = Limit - 1
                /\ r.cursor = Boundary(window) /\ r.limit = 2
    BY <1>6, <1>14 DEF Demoting, r
  <2>3. ASSUME failures = 0
        PROVE  IsFirst(rows, S \ Elems(window), 2) /\ ToSet(rows) \cap Elems(window) = {}
    <3>1. After(S, r.cursor) = S \ Elems(window) /\ r.limit = 2
      BY <1>4, <2>2, <2>3, AfterBoundary
    <3>2. rows \in FirstRows(S \ Elems(window), 2)
      BY <1>3, <3>1
    <3>3. IsFirst(rows, S \ Elems(window), 2)
      BY <3>2 DEF FirstRows
    <3>4. ToSet(rows) \subseteq S \ Elems(window)
      BY <1>4, <3>2, FirstRowsFacts
    <3>5. QED
      BY <3>3, <3>4
  <2>4. Agreed({e.id})' <=> Agreed({e.id})
    BY <1>2 DEF Agreed
  <2>5. /\ reads'[1].moved = {e} /\ ~Has(window', e.id) /\ e \in InScope(store')
        /\ \/ failures' # 0
           \/ /\ seeded' /\ Agreed({e.id})'
              /\ Below(window', InScope(store'))
              /\ Len(window'.entries) = Limit - 1
              /\ IF reads'[1].rows = Unanswered
                 THEN reads'[1].cursor = Boundary(window') /\ reads'[1].limit = 2
                 ELSE /\ IsFirst(reads'[1].rows, InScope(store') \ Elems(window'), 2)
                      /\ ToSet(reads'[1].rows) \cap Elems(window') = {}
    BY <1>2, <1>5, <2>2, <2>3, <2>4
  <2>6. QED
    BY <1>5, <1>9, <2>1, <2>5 DEF Demoting
<1>15. QED
  BY <1>1, <1>9, <1>12, <1>13, <1>14 DEF Stage

LEMMA FailReadSerial ==
  ASSUME IInv, Calm, Stage, NEW i \in DOMAIN reads, FailRead(i)
  PROVE  Calm' /\ Stage'
<1>1. /\ i = 1 /\ ready = <<>> /\ outbox = <<>> /\ RemoveAt(reads, 1) = <<>>
      /\ Seeking \/ Filling \/ Demoting
  BY SomethingRead
<1>0. failures \in Nat /\ failures' = failures + 1
  BY ScopeAssumption DEF FailRead, IInv, TypeOK
<1>2. /\ reads' = <<>> /\ failures' # 0
      /\ phase' = [c \in Client |-> IF c \in reads[1].clients THEN "rejected" ELSE phase[c]]
      /\ UNCHANGED <<store, outbox, tracked, matched, window, seeded, ready, view, threw>>
  BY <1>0, <1>1 DEF FailRead
<1>3. HeldIn(window, store, {})
  BY <1>1 DEF Seeking, Filling, Demoting, Asking
<1>4. \A c \in Client : phase'[c] = (IF c \in reads[1].clients THEN "rejected" ELSE phase[c])
  BY <1>2
<1>5. NobodyReads'
  <2>1. Filling \/ Demoting => NobodyReads
    BY DEF Filling, Demoting
  <2>2. ASSUME Seeking PROVE \A d \in Client : phase[d] = "reading" => d \in reads[1].clients
    BY <2>2 DEF Seeking
  <2>3. \A d \in Client : phase[d] = "reading" => d \in reads[1].clients
    BY <1>1, <2>1, <2>2 DEF NobodyReads
  <2>4. QED
    BY <1>4, <2>3 DEF NobodyReads
<1>6. HeldIn(window, store, {})'
  BY <1>2, <1>3
<1>7. Resting'
  BY <1>1, <1>2, <1>5, <1>6 DEF Resting, At
<1>8. Calm'
  <2>1. Subscribed \subseteq Subscribed'
    BY <1>4 DEF Subscribed
  <2>2. \A d \in Client : phase'[d] \in {"out", "reading"} => view'[d] = {}
    BY <1>2, <1>4 DEF Calm
  <2>3. QED
    BY <1>2, <2>1, <2>2 DEF Calm
<1>9. QED
  BY <1>7, <1>8 DEF Stage

-----------------------------------------------------------------------------
(* A mutation is handled.                                                  *)

\* The continuation that runs, its row, and what waits behind it.
LEMMA HandlingFacts ==
  ASSUME IInv, Handling, NEW t, t = ready[1], NEW e, e = t.rows[1]
  PROVE  /\ ready \in Seq(Task) /\ t \in Task /\ Handles(t) /\ Head(t.rows) = e
         /\ e \in Entry /\ e.id \in Id /\ store[e.id] # Absent /\ e = EntryOf(e.id, store[e.id])
         /\ t.matches = store[e.id].ok
         /\ \/ Len(ready) = 1 /\ Tail(ready) = <<>> /\ Waiting = {e.id}
            \/ /\ Len(ready) = 2 /\ Tail(ready) = <<ready[2]>>
               /\ Waiting = {e.id, ready[2].rows[1].id} /\ ready[2].rows[1].id # e.id
               /\ Handles(ready[2]) /\ ready[2].kind \in {"matchInsert", "placeInsert"}
               /\ t.kind \in {"matchInsert", "placeInsert"} /\ ready[2] \in Task
<1>1. ready \in Seq(Task) /\ Len(ready) \in 1..2
  BY StateFacts DEF Handling
<1>2. t \in Task /\ Handles(t)
  BY <1>1 DEF Handling
<1>3. t.rows \in Seq(Entry) /\ Len(t.rows) = 1
  BY <1>2 DEF Task, Handles
<1>4. Head(t.rows) = e /\ e \in Entry
  BY <1>3, OneElement
<1>5. e.id \in Id
  BY <1>4 DEF Entry
<1>6. store[e.id] # Absent /\ e = EntryOf(e.id, store[e.id]) /\ t.matches = store[e.id].ok
  BY <1>2 DEF Handles
<1>7. ASSUME Len(ready) = 1 PROVE Tail(ready) = <<>> /\ Waiting = {e.id}
  <2>1. Tail(ready) = <<>>
    BY <1>1, <1>7, OneElement
  <2>2. \A i \in 1..Len(ready) : i = 1
    BY <1>7
  <2>3. 1 \in 1..Len(ready)
    BY <1>7
  <2>4. QED
    BY <2>1, <2>2, <2>3 DEF Waiting
<1>8. ASSUME Len(ready) = 2
      PROVE  /\ Tail(ready) = <<ready[2]>>
             /\ Waiting = {e.id, ready[2].rows[1].id} /\ ready[2].rows[1].id # e.id
             /\ Handles(ready[2]) /\ ready[2].kind \in {"matchInsert", "placeInsert"}
             /\ t.kind \in {"matchInsert", "placeInsert"} /\ ready[2] \in Task
  <2>1. 1 \in 1..Len(ready) /\ 2 \in 1..Len(ready) /\ 1 \in 1..2 /\ 2 \in 1..2
    BY <1>8
  <2>2. /\ ready[2].rows[1].id # e.id /\ Handles(ready[2])
        /\ ready[2].kind \in {"matchInsert", "placeInsert"}
        /\ t.kind \in {"matchInsert", "placeInsert"}
    BY <1>8, <2>1 DEF Handling
  <2>3. \A i \in 1..Len(ready) : i = 1 \/ i = 2
    BY <1>8
  <2>4. Waiting = {e.id, ready[2].rows[1].id}
    BY <2>1, <2>3 DEF Waiting
  <2>5. ready[2] \in Task
    BY <1>1, <2>1
  <2> DEFINE q == Tail(ready)
             S == Task
  <2> HIDE DEF S
  <2>6. q \in Seq(S) /\ Len(q) = 1 /\ q[1] = ready[2]
    BY <1>1, <1>8 DEF S
  <2> HIDE DEF q
  <2>7. q = <<ready[2]>>
    BY <2>6, OneElement
  <2>8. QED
    BY <2>2, <2>4, <2>5, <2>7 DEF q
<1>9. Len(ready) = 1 \/ Len(ready) = 2
  BY <1>1
<1>10. QED
  BY <1>1, <1>2, <1>4, <1>5, <1>6, <1>7, <1>8, <1>9, Zenon

LEMMA AppendedTo ==
  ASSUME NEW u, NEW v
  PROVE  Append(<<>>, u) = <<u>> /\ Append(<<v>>, u) = <<v, u>>
<1> DEFINE S == {u, v}
           p == <<v>>
           q == Append(p, u)
           r == <<v, u>>
<1>1. u \in S /\ p \in Seq(S) /\ r \in Seq(S)
  OBVIOUS
<1>2. Len(p) = 1 /\ p[1] = v /\ Len(r) = 2 /\ r[1] = v /\ r[2] = u
  BY OneAndTwo, Zenon
<1> HIDE DEF S, p, r
<1>3. /\ q \in Seq(S) /\ Len(q) = Len(p) + 1 /\ q[Len(p) + 1] = u
      /\ \A k \in 1..Len(p) : q[k] = p[k]
  BY <1>1, AppendProperties
<1>4. Len(q) = 2 /\ q[1] = v /\ q[2] = u
  BY <1>2, <1>3
<1> HIDE DEF q
<1>6. \A k \in 1..Len(q) : q[k] = r[k]
  <2>1. \A k \in 1..Len(q) : k = 1 \/ k = 2
    BY <1>4
  <2>2. QED
    BY <1>2, <1>4, <2>1
<1>7. q = r
  BY <1>1, <1>2, <1>3, <1>4, <1>6, EqualByElements
<1>8. Append(<<>>, u) = <<u>>
  OBVIOUS
<1>9. QED
  BY <1>7, <1>8 DEF q, p, r

\* The continuation is done: with what still waits, the window is right.
LEMMA HeadDone ==
  ASSUME IInv, Handling, NEW e, e = ready[1].rows[1], NEW rest, rest = Waiting \ {e.id},
         ready' = Tail(ready), UNCHANGED <<store, outbox, reads, phase, seeded, failures>>,
         HeldIn(window', store, rest),
         \A id \in rest : ~Has(window, id) => ~Has(window', id),
         failures = 0 => /\ Leads(window', <<>>, Known(store, rest))
                    /\ matched' = Ids(window')
                    /\ \A c \in Client : phase[c] = "in" => view'[c] = Ids(window')
  PROVE  Stage'
<1>1. NobodyReads /\ Subscribed # {} /\ outbox = <<>> /\ reads = <<>> /\ (failures # 0 \/ seeded)
  BY DEF Handling, At
<1>2. (NobodyReads' <=> NobodyReads) /\ Subscribed' = Subscribed
  BY DEF NobodyReads, Subscribed
<1>3. ASSUME NEW ids, ids = rest
      PROVE  /\ NobodyReads'
             /\ HeldIn(window', store', ids)
             /\ \/ Subscribed' = {}
                \/ failures' # 0
                \/ seeded' /\ Leads(window', <<>>, Known(store', ids)) /\ Agreed({})'
  <2>1. failures = 0 => seeded' /\ Leads(window', <<>>, Known(store', ids)) /\ Agreed({})'
    BY <1>1, <1>3 DEF Agreed
  <2>2. QED
    BY <1>1, <1>2, <1>3, <2>1
<1>4. CASE Len(ready) = 1
  <2>1. rest = {} /\ ready' = <<>>
    BY <1>4, HandlingFacts
  <2>2. At({})'
    BY <1>3, <2>1 DEF At
  <2>3. Resting'
    BY <1>1, <2>1, <2>2 DEF Resting
  <2>4. QED
    BY <2>3 DEF Stage
<1>5. CASE Len(ready) = 2
  <2> DEFINE u == ready[2]
  <2>1. /\ ready' = <<u>> /\ rest = {u.rows[1].id} /\ Handles(u)
        /\ u.kind \in {"matchInsert", "placeInsert"}
    BY <1>5, HandlingFacts
  <2> HIDE DEF u
  <2>2. Len(ready') = 1 /\ ready'[1] = u
    BY <2>1, OneAndTwo, Zenon
  <2>3. ~Has(window', u.rows[1].id)
    BY <2>1 DEF Handles
  <2>4. Handles(ready[1])'
    BY <2>1, <2>2, <2>3 DEF Handles
  <2> DEFINE n == Len(ready')
  <2> HIDE DEF n
  <2>a. n = 1
    BY <2>2 DEF n
  <2>b. n \in 1..2 /\ n # 2 /\ 1..n = {1}
    BY <2>a
  <2>5. (\A i \in 1..Len(ready) : Handles(ready[i]))'
    BY <2>4, <2>b DEF n
  <2>6. Waiting' = rest
    BY <2>1, <2>2, <2>b DEF Waiting, n
  <2>7. At(Waiting)'
    BY <1>3, <2>6 DEF At
  <2>8. Handling'
    BY <1>1, <1>2, <2>b, <2>5, <2>7 DEF Handling, n
  <2>9. QED
    BY <2>8 DEF Stage
<1>6. QED
  BY <1>4, <1>5, HandlingFacts

\* It goes to the end of the queue as the next continuation of its mutation.
LEMMA HeadRequeued ==
  ASSUME IInv, Handling, NEW t, t = ready[1], t.matches, ~Has(window, t.rows[1].id),
         NEW k \in {"placeInsert", "scopeIn"}, k = "scopeIn" => Len(ready) = 1,
         ready' = Append(Tail(ready), [t EXCEPT !.kind = k]),
         UNCHANGED <<store, outbox, tracked, matched, window, seeded, reads, phase,
                     view, threw, failures>>
  PROVE  Handling'
<1> DEFINE u == [t EXCEPT !.kind = k]
           e == t.rows[1]
<1>1. /\ t \in Task /\ Handles(t) /\ Len(ready) \in 1..2
      /\ outbox = <<>> /\ reads = <<>> /\ Subscribed # {} /\ At(Waiting)
  BY HandlingFacts DEF Handling
<1>2. u.kind = k /\ u.matches = t.matches /\ u.rows = t.rows
  BY <1>1 DEF Task
<1> HIDE DEF u
<1>3. Handles(u) /\ u.rows[1] = e
  BY <1>1, <1>2 DEF Handles
<1>4. Subscribed' = Subscribed
  BY DEF Subscribed
<1>6. CASE Len(ready) = 1
  <2>1. ready' = <<u>> /\ Waiting = {e.id}
    <3>1. Tail(ready) = <<>> /\ Waiting = {e.id}
      BY <1>6, HandlingFacts
    <3>2. ready' = Append(Tail(ready), u)
      BY DEF u
    <3>3. QED
      BY <3>1, <3>2, AppendedTo
  <2>2. Len(ready') = 1 /\ ready'[1] = u
    BY <2>1, OneAndTwo, Zenon
  <2> DEFINE n == Len(ready')
  <2> HIDE DEF n
  <2>a. n = 1
    BY <2>2 DEF n
  <2>b. n \in 1..2 /\ n # 2 /\ 1..n = {1}
    BY <2>a
  <2>c. Waiting' = {e.id}
    BY <1>3, <2>2, <2>b DEF Waiting, n
  <2>3. Waiting' = Waiting
    BY <2>1, <2>c
  <2>d. Handles(ready[1])'
    BY <1>3, <2>2 DEF Handles
  <2>4. (\A i \in 1..Len(ready) : Handles(ready[i]))'
    BY <2>d, <2>b DEF n
  <2>5. At(Waiting)'
    BY <1>1, <2>3 DEF At, Agreed, NobodyReads, Subscribed
  <2>6. QED
    BY <1>1, <1>4, <2>b, <2>4, <2>5 DEF Handling, n
<1>7. CASE Len(ready) = 2
  <2> DEFINE v == ready[2]
  <2>1. /\ Tail(ready) = <<v>> /\ Waiting = {e.id, v.rows[1].id} /\ v.rows[1].id # e.id
        /\ Handles(v) /\ v.kind \in {"matchInsert", "placeInsert"} /\ k = "placeInsert"
    BY <1>7, HandlingFacts
  <2> HIDE DEF v
  <2>2. ready' = <<v, u>>
    BY <2>1, AppendedTo DEF u
  <2>3. Len(ready') = 2 /\ ready'[1] = v /\ ready'[2] = u
    <3>1. Len(<<v, u>>) = 2 /\ <<v, u>>[1] = v /\ <<v, u>>[2] = u
      BY OneAndTwo, Zenon
    <3>2. QED
      BY <2>2, <3>1, Zenon
  <2> DEFINE n == Len(ready')
  <2> HIDE DEF n
  <2>a. n = 2
    BY <2>3 DEF n
  <2>b. n \in 1..2 /\ 1..n = {1, 2} /\ 1..2 = {1, 2}
    BY <2>a
  <2>c. Waiting' = {v.rows[1].id, e.id}
    BY <1>3, <2>3, <2>b DEF Waiting, n
  <2>4. Waiting' = Waiting
    BY <2>1, <2>c
  <2>d. Handles(ready[1])' /\ Handles(ready[2])'
    BY <1>3, <2>1, <2>3 DEF Handles
  <2>5. (\A i \in 1..Len(ready) : Handles(ready[i]))'
    BY <2>d, <2>b DEF n
  <2>6. At(Waiting)'
    BY <1>1, <2>4 DEF At, Agreed, NobodyReads, Subscribed
  <2>7. /\ ready'[1].rows[1].id # ready'[2].rows[1].id
        /\ \A i \in 1..2 : ready'[i].kind \in {"matchInsert", "placeInsert"}
    BY <1>2, <1>3, <2>1, <2>3, <2>b
  <2>8. QED
    BY <1>1, <1>4, <2>b, <2>5, <2>6, <2>7 DEF Handling, n
<1>8. QED
  BY <1>1, <1>6, <1>7, HandlingFacts

\* What is known once a change is taken in, of a row that has left the scope and
\* of one in it.
LEMMA KnownOut ==
  ASSUME NEW s \in [Id -> Row \cup {Absent}], NEW ids, NEW id \in Id,
         s[id] # Absent, ~s[id].ok, NEW more, more = ids \cup {id}
  PROVE  Known(s, more) = Known(s, ids)
<1>1. \A x \in InScope(s) : x.id # id
  BY ScopeFacts
<1>2. QED
  BY <1>1 DEF Known

LEMMA KnownIn ==
  ASSUME NEW s \in [Id -> Row \cup {Absent}], NEW ids, NEW id \in Id, id \notin ids,
         s[id] # Absent, s[id].ok, NEW more, more = ids \cup {id}
  PROVE  Known(s, ids) = Known(s, more) \cup {EntryOf(id, s[id])}
BY KnownFacts

\* A row outside the window is matched.
LEMMA MatchSerial ==
  ASSUME IInv, Calm, Stage, NEW t \in Current, MatchInsert(t) \/ MatchUpdateOutside(t)
  PROVE  Calm' /\ Stage'
<1> DEFINE e == t.rows[1]
           rest == Waiting \ {e.id}
<1>1. Handling /\ t = ready[1] /\ t.kind \in {"matchInsert", "matchUpdate"}
  BY SomethingRuns DEF MatchInsert, MatchUpdateOutside
<1>2. /\ t \in Task /\ Handles(t) /\ Head(t.rows) = e /\ t.matches = store[e.id].ok
      /\ e.id \in Id /\ store[e.id] # Absent
      /\ t.kind = "matchUpdate" => Len(ready) = 1
  BY <1>1, HandlingFacts
<1>3. ~Has(window, e.id)
  BY <1>1, <1>2 DEF MatchInsert, MatchUpdateOutside, Handles
<1>4. UNCHANGED <<store, outbox, tracked, matched, window, seeded, reads, phase,
                  view, threw, failures>>
  BY DEF MatchInsert, MatchUpdateOutside
<1>5. Calm'
  BY <1>4 DEF Calm, Subscribed
<1>6. ASSUME t.matches PROVE Handling'
  <2>1. \E k \in {"placeInsert", "scopeIn"} :
          /\ k = "scopeIn" => Len(ready) = 1
          /\ ready' = Append(Tail(ready), [t EXCEPT !.kind = k])
    BY <1>2, <1>6 DEF MatchInsert, MatchUpdateOutside, DoneThen
  <2>2. QED
    BY <1>1, <1>3, <1>4, <1>6, <2>1, HeadRequeued
<1>7. ASSUME ~t.matches PROVE Stage'
  <2>1. ready' = Tail(ready)
    BY <1>7 DEF MatchInsert, MatchUpdateOutside, Done
  <2>2. e.id \in Waiting /\ Waiting = rest \cup {e.id} /\ At(Waiting) /\ Subscribed # {}
    BY <1>1, HandlingFacts DEF Handling
  <2> HIDE DEF rest
  <2>3. store \in [Id -> Row \cup {Absent}] /\ ~store[e.id].ok
        /\ window \in Windows /\ WellFormed(window)
    BY <1>2, <1>7, StateFacts
  <2>4. Known(store, Waiting) = Known(store, rest)
    <3> DEFINE i == e.id
    <3>1. i \in Id /\ store[i] # Absent /\ ~store[i].ok /\ Waiting = rest \cup {i}
      BY <1>2, <2>2, <2>3
    <3> HIDE DEF i
    <3>2. QED
      BY <2>3, <3>1, KnownOut
  <2>5. \A x \in Elems(window) : x.id # e.id
    BY <1>3, <2>3, WindowElems
  <2>6. HeldIn(window, store, rest)
    BY <2>2, <2>5 DEF At, HeldIn
  <2>7. failures = 0 => /\ Leads(window, <<>>, Known(store, rest))
                   /\ matched = Ids(window)
                   /\ \A c \in Client : phase[c] = "in" => view[c] = Ids(window)
    BY <2>2, <2>4 DEF At, Agreed
  <2>8. QED
    BY <1>1, <1>4, <2>1, <2>6, <2>7, HeadDone DEF rest
<1>8. QED
  BY <1>5, <1>6, <1>7 DEF Stage

\* What insert tells its caller is what happens to the ids that are held.
LEMMA PlacedIds ==
  ASSUME NEW w \in Windows, WellFormed(w), NEW e \in Entry, ~Has(w, e.id)
  PROVE  LET r == InsertEntry(w, e)
             in == IF r.inserted THEN {e.id} ELSE {}
             out == {x.id : x \in r.evicted}
         IN  /\ r.threw = FALSE /\ r.window \in Windows /\ WellFormed(r.window)
             /\ Elems(r.window) \subseteq Elems(w) \cup {e}
             /\ Ids(r.window) = (Ids(w) \cup in) \ out
<1> DEFINE r == InsertEntry(w, e)
           in == IF r.inserted THEN {e.id} ELSE {}
           out == {x.id : x \in r.evicted}
           S == Elems(w)
           T == Elems(r.window)
<1>1. /\ r.threw = FALSE /\ r.window \in Windows /\ WellFormed(r.window)
      /\ AddsWithin(S, T, r, e) \/ Refuses(S, T, r, e) \/ Displaces(S, T, r, e)
  BY TakesIn
<1>2. /\ Ids(r.window) = IdsOf(T) /\ Ids(w) = IdsOf(S)
      /\ \A x, y \in S : x.id = y.id => x = y
      /\ \A x \in S : x.id # e.id
  BY <1>1, WindowElems
<1> HIDE DEF r, S, T
<1>3. ASSUME AddsWithin(S, T, r, e)
      PROVE  T \subseteq S \cup {e} /\ IdsOf(T) = (IdsOf(S) \cup in) \ out
  BY <1>3 DEF AddsWithin, IdsOf
<1>4. ASSUME Refuses(S, T, r, e)
      PROVE  T \subseteq S \cup {e} /\ IdsOf(T) = (IdsOf(S) \cup in) \ out
  BY <1>4 DEF Refuses, IdsOf
<1>5. ASSUME Displaces(S, T, r, e)
      PROVE  T \subseteq S \cup {e} /\ IdsOf(T) = (IdsOf(S) \cup in) \ out
  <2>1. PICK last \in S : T = (S \cup {e}) \ {last} /\ r.inserted = TRUE /\ r.evicted = {last}
    BY <1>5 DEF Displaces
  <2>2. IdsOf(T) = (IdsOf(S) \cup {e.id}) \ {last.id}
    BY <1>2, <2>1 DEF IdsOf
  <2>3. out = {last.id} /\ in = {e.id}
    BY <2>1
  <2>4. QED
    BY <2>1, <2>2, <2>3
<1>6. T \subseteq S \cup {e} /\ Ids(r.window) = (Ids(w) \cup in) \ out
  BY <1>1, <1>2, <1>3, <1>4, <1>5
<1>7. QED
  BY <1>1, <1>6, Zenon DEF r, S, T

LEMMA PlaceSerial ==
  ASSUME IInv, Calm, Stage, NEW t \in Current, Place(t)
  PROVE  Calm' /\ Stage'
<1> DEFINE e == t.rows[1]
           r == InsertEntry(window, e)
           in == IF r.inserted THEN {e.id} ELSE {}
           out == {x.id : x \in r.evicted}
           rest == Waiting \ {e.id}
<1>1. Handling /\ t = ready[1] /\ t.kind \in {"placeInsert", "scopeIn"}
  BY SomethingRuns DEF Place
<1>2. /\ t \in Task /\ Handles(t) /\ Head(t.rows) = e
      /\ e \in Entry /\ e.id \in Id /\ store[e.id] # Absent /\ e = EntryOf(e.id, store[e.id])
      /\ t.matches = store[e.id].ok /\ e.id \in Waiting
  BY <1>1, HandlingFacts
<1>3. ~Has(window, e.id) /\ store[e.id].ok
  BY <1>1, <1>2 DEF Handles
<1>4. /\ window' = r.window /\ threw' = (threw \/ r.threw)
      /\ matched' = (matched \cup in) \ out /\ tracked' = tracked \cup in
      /\ view' = Told(in, out) /\ ready' = Tail(ready)
      /\ UNCHANGED <<store, outbox, seeded, reads, phase, failures>>
  BY <1>2, Zenon DEF Place, Done
<1>5. /\ window \in Windows /\ WellFormed(window) /\ store \in [Id -> Row \cup {Absent}]
      /\ tracked \subseteq Id
  BY StateFacts DEF IInv, TypeOK
<1>6. At(Waiting) /\ Subscribed # {} /\ NobodyReads
  BY <1>1 DEF Handling, At
<1>a. r = InsertEntry(window, e)
  OBVIOUS
<1> HIDE DEF e, r
<1>c. in = (IF r.inserted THEN {e.id} ELSE {}) /\ out = {x.id : x \in r.evicted}
  OBVIOUS
<1> HIDE DEF in, out
<1>b. window \in Windows /\ WellFormed(window) /\ e \in Entry /\ ~Has(window, e.id)
  BY <1>2, <1>3, <1>5
<1>7. /\ r.threw = FALSE /\ r.window \in Windows /\ WellFormed(r.window)
      /\ Elems(r.window) \subseteq Elems(window) \cup {e}
      /\ Ids(r.window) = (Ids(window) \cup in) \ out
  <2>1. r.threw = FALSE /\ r.window \in Windows /\ WellFormed(r.window)
    BY <1>a, <1>b, PlacedIds
  <2>2. Elems(r.window) \subseteq Elems(window) \cup {e}
    BY <1>a, <1>b, PlacedIds
  <2>3. Ids(r.window) = (Ids(window) \cup in) \ out
    BY <1>a, <1>b, <1>c, PlacedIds
  <2>4. QED
    BY <2>1, <2>2, <2>3
<1>8. in \subseteq {e.id}
  BY <1>c
<1>9. e \in InScope(store)
  BY <1>2, <1>3, <1>5, ScopeFacts
<1>10. /\ Waiting = rest \cup {e.id} /\ e.id \notin rest
       /\ \A x \in Elems(window) : x.id # e.id
  BY <1>2, <1>3, <1>5, WindowElems
<1> HIDE DEF rest
<1>11. HeldIn(window', store, rest)
  <2>1. \A x \in Elems(window) : x \in InScope(store) \/ x.id \in rest
    BY <1>6, <1>10 DEF At, HeldIn
  <2>2. QED
    BY <1>4, <1>7, <1>9, <2>1 DEF HeldIn
<1>12. ASSUME NEW id \in rest, ~Has(window, id) PROVE ~Has(window', id)
  BY <1>4, <1>5, <1>7, <1>10, <1>12, WindowElems
<1>13. ASSUME failures = 0
       PROVE  /\ Leads(window', <<>>, Known(store, rest))
              /\ matched' = Ids(window')
              /\ \A c \in Client : phase[c] = "in" => view'[c] = Ids(window')
  <2>1. Leads(window, <<>>, Known(store, Waiting)) /\ Agreed({})
    BY <1>6, <1>13 DEF At
  <2>2. Known(store, rest) = Known(store, Waiting) \cup {e}
    <3> DEFINE i == e.id
    <3>1. i \in Id /\ i \notin rest /\ store[i] # Absent /\ store[i].ok /\ Waiting = rest \cup {i}
      BY <1>2, <1>3, <1>10
    <3>2. EntryOf(i, store[i]) = e
      BY <1>2
    <3> HIDE DEF i
    <3>3. Known(store, rest) = Known(store, Waiting) \cup {EntryOf(i, store[i])}
      BY <1>5, <3>1, KnownIn
    <3>4. QED
      BY <3>2, <3>3
  <2>3. Known(store, Waiting) \in SUBSET Entry
    BY <1>2, <1>5, KnownFacts
  <2>4. Leads(r.window, <<>>, Known(store, Waiting) \cup {e})
    BY <1>2, <1>3, <1>5, <2>1, <2>3, PlacedLeads DEF r
  <2>5. matched' = Ids(window')
    BY <1>4, <1>7, <2>1 DEF Agreed
  <2>6. ASSUME NEW c \in Client, phase[c] = "in" PROVE view'[c] = Ids(window')
    <3>1. c \in Subscribed /\ view[c] = Ids(window)
      BY <2>1, <2>6 DEF Subscribed, Agreed
    <3>2. QED
      BY <1>4, <1>7, <3>1 DEF Told
  <2>7. QED
    BY <1>4, <2>2, <2>4, <2>5, <2>6
<1>14. Stage'
  BY <1>1, <1>4, <1>11, <1>12, <1>13, HeadDone DEF e, rest
<1>15. Calm'
  <2>1. \A id \in tracked' : store'[id] # Absent
    BY <1>2, <1>4, <1>8 DEF Calm
  <2>2. Subscribed' = Subscribed
    BY <1>4 DEF Subscribed
  <2>3. ASSUME NEW c \in Client, phase'[c] \in {"out", "reading"} PROVE view'[c] = {}
    <3>1. phase[c] = "out" /\ view[c] = {}
      BY <1>4, <1>6, <2>3 DEF NobodyReads, Calm
    <3>2. QED
      BY <1>4, <3>1 DEF Told, Subscribed
  <2>4. threw' = threw
    BY <1>4, <1>7, <1>5 DEF IInv, TypeOK
  <2>5. QED
    BY <1>6, <2>1, <2>2, <2>3, <2>4 DEF Calm
<1>16. QED
  BY <1>14, <1>15

-----------------------------------------------------------------------------
(* A held row leaves, or is held under a new key.                          *)

LEMMA WithoutIds ==
  ASSUME NEW w \in Windows, WellFormed(w), NEW id, Has(w, id)
  PROVE  Ids(RemoveEntry(w, id)) = Ids(w) \ {id}
<1> DEFINE v == RemoveEntry(w, id)
<1>1. v \in Windows /\ WellFormed(v) /\ Elems(v) = {x \in Elems(w) : x.id # id}
  BY TakesOut
<1> HIDE DEF v
<1>2. Ids(v) = IdsOf(Elems(v)) /\ Ids(w) = IdsOf(Elems(w))
  BY <1>1, WindowElems
<1>3. QED
  BY <1>1, <1>2 DEF IdsOf, v

\* What refreshInWindow and reconcileDemotion do to the held rows.
LEMMA RefreshedHolds ==
  ASSUME NEW w \in Windows, WellFormed(w), NEW e \in Entry, Has(w, e.id)
  PROVE  LET without == RemoveEntry(w, e.id)
             again == InsertEntry(without, e).window
             left == RemoveEntry(again, e.id)
         IN  /\ again \in Windows /\ WellFormed(again)
             /\ Elems(again) = {x \in Elems(w) : x.id # e.id} \cup {e} /\ Ids(again) = Ids(w)
             /\ left \in Windows /\ WellFormed(left) /\ ~Has(left, e.id)
             /\ Elems(left) = {x \in Elems(w) : x.id # e.id} /\ Ids(w) = Ids(left) \cup {e.id}
<1> DEFINE v == RemoveEntry(w, e.id)
           u == InsertEntry(v, e).window
           left == RemoveEntry(u, e.id)
           rest == {x \in Elems(w) : x.id # e.id}
           m == Len(v.entries)
           n == Len(w.entries)
<1>1. v \in Windows /\ WellFormed(v) /\ m = n - 1 /\ Elems(v) = rest /\ ~Has(v, e.id)
  BY TakesOut
<1>2. n \in Nat /\ n <= Limit /\ Limit \in Nat
  BY WindowElems
<1> HIDE DEF v, m, n
<1>3. /\ u \in Windows /\ WellFormed(u)
      /\ m = Limit \/ Elems(u) = Elems(v) \cup {e}
  BY <1>1, TakesIn DEF AddsWithin, m
<1>4. Elems(u) = rest \cup {e}
  BY <1>1, <1>2, <1>3
<1> HIDE DEF u
<1>5. Has(u, e.id)
  BY <1>3, <1>4, WindowElems
<1>6. left \in Windows /\ WellFormed(left) /\ ~Has(left, e.id) /\ Elems(left) = {x \in Elems(u) : x.id # e.id}
  BY <1>3, <1>5, TakesOut
<1>7. Elems(left) = rest
  BY <1>4, <1>6
<1> HIDE DEF left
<1>8. Ids(u) = IdsOf(Elems(u)) /\ Ids(w) = IdsOf(Elems(w)) /\ Ids(left) = IdsOf(Elems(left))
  BY <1>3, <1>6, WindowElems
<1>9. \E x \in Elems(w) : x.id = e.id
  BY WindowElems
<1>10. Ids(u) = Ids(w)
  BY <1>4, <1>8, <1>9 DEF IdsOf
<1>11. Ids(w) = Ids(left) \cup {e.id}
  BY <1>7, <1>8, <1>9 DEF IdsOf
<1>12. QED
  BY <1>3, <1>4, <1>6, <1>7, <1>10, <1>11 DEF left, u, v

\* The update of a held row runs alone.
LEMMA UpdateFacts ==
  ASSUME IInv, Calm, Stage, NEW t \in Current, t.kind = "matchUpdate", NEW e, e = t.rows[1]
  PROVE  /\ Handling /\ t = ready[1] /\ Tail(ready) = <<>> /\ outbox = <<>> /\ reads = <<>>
         /\ Subscribed # {} /\ NobodyReads /\ (failures # 0 \/ seeded)
         /\ Head(t.rows) = e /\ e \in Entry /\ e.id \in Id /\ t.matches = store[e.id].ok
         /\ store[e.id] # Absent /\ e = EntryOf(e.id, store[e.id])
         /\ store[e.id].ok => e \in InScope(store)
         /\ ~store[e.id].ok => Known(store, {e.id}) = InScope(store)
         /\ store[e.id].ok => Known(store, {e.id}) \cup {e} = InScope(store)
         /\ Known(store, {e.id}) \in SUBSET Entry
         /\ \A x \in Known(store, {e.id}) : x.id # e.id
         /\ \A x \in Elems(window) : x.id # e.id => x \in InScope(store)
         /\ failures = 0 => Leads(window, <<>>, Known(store, {e.id})) /\ Agreed({})
<1>1. Handling /\ t = ready[1] /\ outbox = <<>> /\ reads = <<>>
  BY SomethingRuns
<1>2. /\ Tail(ready) = <<>> /\ Waiting = {e.id} /\ Head(t.rows) = e
      /\ e \in Entry /\ e.id \in Id /\ t.matches = store[e.id].ok
      /\ store[e.id] # Absent /\ e = EntryOf(e.id, store[e.id])
  BY <1>1, HandlingFacts
<1>3. Subscribed # {} /\ At({e.id})
  BY <1>1, <1>2 DEF Handling
<1>4. store \in [Id -> Row \cup {Absent}]
  BY StateFacts
<1>5. store[e.id].ok => e \in InScope(store)
  BY <1>2, <1>4, ScopeFacts
<1>6. Known(store, {}) = InScope(store) /\ {e.id} = {} \cup {e.id}
  BY DEF Known
<1>7. ~store[e.id].ok => Known(store, {e.id}) = InScope(store)
  <2> DEFINE id == e.id
             more == {id}
  <2>1. id \in Id /\ store[id] # Absent /\ more = {} \cup {id}
    BY <1>2
  <2> HIDE DEF id, more
  <2>2. ~store[id].ok => Known(store, more) = Known(store, {})
    BY <1>4, <2>1, KnownOut
  <2>3. QED
    BY <1>6, <2>2 DEF more, id
<1>8. store[e.id].ok => Known(store, {e.id}) \cup {e} = InScope(store)
  <2> DEFINE id == e.id
             more == {id}
  <2>1. id \in Id /\ store[id] # Absent /\ more = {} \cup {id} /\ e = EntryOf(id, store[id])
    BY <1>2
  <2> HIDE DEF id, more
  <2>2. store[id].ok => Known(store, {}) = Known(store, more) \cup {EntryOf(id, store[id])}
    BY <1>4, <2>1, KnownIn
  <2>3. QED
    BY <1>6, <2>1, <2>2 DEF more, id
<1>9. Known(store, {e.id}) \in SUBSET Entry /\ \A x \in Known(store, {e.id}) : x.id # e.id
  BY <1>4, ScopeFacts DEF Known
<1>10. \A x \in Elems(window) : x.id # e.id => x \in InScope(store)
  BY <1>3 DEF At, HeldIn
<1>11. NobodyReads /\ (failures # 0 \/ seeded)
       /\ (failures = 0 => Leads(window, <<>>, Known(store, {e.id})) /\ Agreed({}))
  BY <1>3 DEF At
<1>12. QED
  BY <1>1, <1>2, <1>3, <1>5, <1>7, <1>8, <1>9, <1>10, <1>11, Zenon

LEMMA ScopeOutSerial ==
  ASSUME IInv, Calm, Stage, NEW t \in Current, ScopeOut(t)
  PROVE  Calm' /\ Stage'
<1> DEFINE e == t.rows[1]
           w == RemoveEntry(window, e.id)
           r == Read("fill", {}, {}, Boundary(w), BackfillCount(w))
           S == InScope(store)
<1>1. t.kind = "matchUpdate" /\ ~t.matches
  BY DEF ScopeOut
<1>2. /\ Tail(ready) = <<>> /\ outbox = <<>> /\ reads = <<>> /\ Head(t.rows) = e
      /\ Subscribed # {} /\ NobodyReads /\ (failures # 0 \/ seeded) /\ t.matches = store[e.id].ok
  BY <1>1, UpdateFacts, Zenon
<1>3. /\ \A x \in Elems(window) : x.id # e.id => x \in S
      /\ failures = 0 => Leads(window, <<>>, Known(store, {e.id})) /\ Agreed({})
      /\ ~store[e.id].ok => Known(store, {e.id}) = S
      /\ \A x \in Known(store, {e.id}) : x.id # e.id
  BY <1>1, UpdateFacts, Zenon
<1> HIDE DEF e
<1>4. /\ Has(window, e.id) /\ window' = w /\ matched' = matched \ {e.id}
      /\ view' = Told({}, {e.id}) /\ reads' = Append(reads, r) /\ ready' = Tail(ready)
      /\ UNCHANGED <<store, outbox, tracked, seeded, phase, threw, failures>>
  BY <1>2, Zenon DEF ScopeOut, Done
<1>5. /\ window \in Windows /\ WellFormed(window) /\ S \in SUBSET Entry
  BY StateFacts
<1>6. /\ w \in Windows /\ WellFormed(w) /\ Elems(w) = {x \in Elems(window) : x.id # e.id}
      /\ Ids(w) = Ids(window) \ {e.id}
  BY <1>4, <1>5, TakesOut, WithoutIds
<1>7. /\ r.kind = "fill" /\ r.clients = {} /\ r.cursor = Boundary(w)
      /\ r.limit = BackfillCount(w) /\ r.rows = Unanswered
  BY DEF Read
<1>8. failures = 0 => Below(w, S) /\ Len(w.entries) + BackfillCount(w) = Limit
  <2>1. ASSUME failures = 0 PROVE Leads(window, <<>>, S) /\ \A x \in S : x.id # e.id
    BY <1>1, <1>2, <1>3, <2>1
  <2>2. QED
    BY <1>4, <1>5, <2>1, LeftBelow
<1> HIDE DEF r, w
<1>9. reads' = <<r>> /\ ready' = <<>> /\ Len(reads') = 1 /\ reads'[1] = r
  <2>1. reads' = <<r>> /\ ready' = <<>>
    BY <1>2, <1>4, AppendedTo
  <2>2. QED
    BY <2>1, OneAndTwo
<1>10. Subscribed' = Subscribed /\ (NobodyReads' <=> NobodyReads)
  BY <1>4 DEF Subscribed, NobodyReads
<1>11. HeldIn(window', store', {})
  BY <1>3, <1>4, <1>6 DEF HeldIn
<1>12. Asking("fill")'
  BY <1>2, <1>4, <1>7, <1>9, <1>11 DEF Asking
<1>13. ASSUME failures = 0 PROVE Agreed({})'
  <2>1. matched = Ids(window) /\ \A c \in Client : phase[c] = "in" => view[c] = Ids(window)
    BY <1>3, <1>13 DEF Agreed
  <2>2. ASSUME NEW c \in Client, phase[c] = "in" PROVE view'[c] = Ids(window) \ {e.id}
    BY <1>4, <2>1, <2>2 DEF Told, Subscribed
  <2>3. QED
    BY <1>4, <1>6, <2>1, <2>2 DEF Agreed
<1>14. Filling'
  <2>1. failures = 0 => /\ seeded /\ Agreed({})' /\ Below(w, S)
                   /\ Len(w.entries) + BackfillCount(w) = Limit
    BY <1>2, <1>8, <1>13
  <2>2. QED
    BY <1>2, <1>4, <1>7, <1>9, <1>10, <1>12, <2>1 DEF Filling
<1>15. Calm'
  <2>1. ASSUME NEW c \in Client, phase'[c] \in {"out", "reading"} PROVE view'[c] = {}
    <3>1. phase[c] = "out" /\ view[c] = {}
      BY <1>2, <1>4, <2>1 DEF NobodyReads, Calm
    <3>2. QED
      BY <1>4, <3>1 DEF Told, Subscribed
  <2>2. QED
    BY <1>2, <1>4, <1>10, <2>1 DEF Calm
<1>16. QED
  BY <1>14, <1>15 DEF Stage

LEMMA RefreshSerial ==
  ASSUME IInv, Calm, Stage, NEW t \in Current, Refresh(t)
  PROVE  Calm' /\ Stage'
<1> DEFINE e == t.rows[1]
           w == InsertEntry(RemoveEntry(window, e.id), e).window
           left == RemoveEntry(w, e.id)
           demoted == /\ IsFull(w) /\ Boundary(w) = {e}
                      /\ window.index[e.id].sortKey # e.sortKey
           r == Read("demote", {}, {e}, Boundary(left), 2)
           S == InScope(store)
           K == Known(store, {e.id})
<1>1. t.kind = "matchUpdate" /\ t.matches
  BY DEF Refresh
<1>a. t.kind = "matchUpdate" /\ e = t.rows[1]
  BY <1>1
<1> HIDE DEF e, K, S
<1>2. /\ Tail(ready) = <<>> /\ outbox = <<>> /\ reads = <<>> /\ Head(t.rows) = e
      /\ Subscribed # {} /\ NobodyReads /\ (failures # 0 \/ seeded) /\ t.matches = store[e.id].ok
      /\ e \in Entry
  BY <1>a, UpdateFacts, Zenon
<1>3. /\ \A x \in Elems(window) : x.id # e.id => x \in S
      /\ failures = 0 => Leads(window, <<>>, K) /\ Agreed({})
      /\ store[e.id].ok => K \cup {e} = S
      /\ store[e.id].ok => e \in S
      /\ K \in SUBSET Entry /\ \A x \in K : x.id # e.id
  <2>1. failures = 0 => Leads(window, <<>>, K) /\ Agreed({})
    BY <1>a, UpdateFacts, Zenon DEF K
  <2>2. \A x \in Elems(window) : x.id # e.id => x \in S
    BY <1>a, UpdateFacts, Zenon DEF S
  <2>3. store[e.id].ok => K \cup {e} = S
    BY <1>a, UpdateFacts, Zenon DEF K, S
  <2>4. store[e.id].ok => e \in S
    BY <2>3
  <2>5. K \in SUBSET Entry
    BY <1>a, UpdateFacts, Zenon DEF K
  <2>6. \A x \in K : x.id # e.id
    BY DEF K, Known
  <2>7. QED
    BY <2>1, <2>2, <2>3, <2>4, <2>5, <2>6, Zenon
<1>4. /\ Has(window, e.id) /\ window' = (IF demoted THEN left ELSE w)
      /\ reads' = (IF demoted THEN Append(reads, r) ELSE reads)
      /\ ready' = Tail(ready)
      /\ UNCHANGED <<store, outbox, tracked, matched, seeded, phase, view, threw, failures>>
  BY <1>2, Zenon DEF Refresh, Done
<1>5. window \in Windows /\ WellFormed(window)
  BY StateFacts
<1>6. /\ w \in Windows /\ WellFormed(w)
      /\ Elems(w) = {x \in Elems(window) : x.id # e.id} \cup {e} /\ Ids(w) = Ids(window)
      /\ left \in Windows /\ WellFormed(left) /\ ~Has(left, e.id)
      /\ Elems(left) = {x \in Elems(window) : x.id # e.id} /\ Ids(window) = Ids(left) \cup {e.id}
  BY <1>2, <1>4, <1>5, RefreshedHolds
<1>7. e \in S /\ K \cup {e} = S
  BY <1>1, <1>2, <1>3
<1>8. ASSUME failures = 0
      PROVE  /\ ~demoted => Leads(w, <<>>, S)
             /\ demoted => Below(left, S) /\ Len(left.entries) = Limit - 1
  <2>1. Leads(window, <<>>, K)
    BY <1>3, <1>8
  <2>2. /\ ~demoted => Leads(w, <<>>, K \cup {e})
        /\ demoted => Below(left, K \cup {e}) /\ Len(left.entries) = Limit - 1
    BY <1>2, <1>3, <1>4, <1>5, <2>1, RefreshedLeads
  <2>3. QED
    BY <1>7, <2>2
<1>9. r.kind = "demote" /\ r.clients = {} /\ r.moved = {e} /\ r.cursor = Boundary(left)
      /\ r.limit = 2 /\ r.rows = Unanswered
  BY DEF Read
<1> HIDE DEF r, left, w, demoted
<1>10. Subscribed' = Subscribed /\ (NobodyReads' <=> NobodyReads)
  BY <1>4 DEF Subscribed, NobodyReads
<1>11. HeldIn(w, store, {}) /\ HeldIn(left, store, {})
  BY <1>3, <1>6, <1>7 DEF HeldIn, S
<1>12. ASSUME failures = 0
       PROVE  matched = Ids(window) /\ \A c \in Client : phase[c] = "in" => view[c] = Ids(window)
  BY <1>3, <1>12 DEF Agreed
<1>13. ASSUME ~demoted PROVE Resting'
  <2>1. window' = w /\ reads' = <<>> /\ ready' = <<>> /\ outbox' = <<>> /\ Known(store', {}) = S
    BY <1>2, <1>4, <1>13 DEF Known, S
  <2>2. failures = 0 => seeded' /\ Leads(window', <<>>, Known(store', {})) /\ Agreed({})'
    BY <1>2, <1>4, <1>6, <1>8, <1>12, <1>13, <2>1 DEF Agreed
  <2>3. HeldIn(window', store', {})
    BY <1>4, <1>11, <2>1
  <2>4. At({})'
    BY <1>2, <1>4, <1>10, <2>2, <2>3 DEF At
  <2>5. QED
    BY <2>1, <2>4 DEF Resting
<1>14. ASSUME demoted PROVE Demoting'
  <2>1. window' = left /\ reads' = <<r>> /\ ready' = <<>> /\ outbox' = <<>>
    BY <1>2, <1>4, <1>14, AppendedTo
  <2>2. Len(reads') = 1 /\ reads'[1] = r
    BY <2>1, OneAndTwo
  <2>3. HeldIn(window', store', {})
    BY <1>4, <1>11, <2>1
  <2>4. Asking("demote")'
    BY <1>9, <2>1, <2>2, <2>3 DEF Asking
  <2>5. ASSUME failures = 0 PROVE Agreed({e.id})'
    BY <1>4, <1>6, <1>12, <2>1, <2>5 DEF Agreed
  <2>6. failures = 0 => /\ seeded' /\ Agreed({e.id})' /\ Below(window', InScope(store'))
                   /\ Len(window'.entries) = Limit - 1
    BY <1>2, <1>4, <1>8, <1>14, <2>1, <2>5 DEF S
  <2>7. /\ e \in InScope(store') /\ reads'[1].moved = {e} /\ ~Has(window', e.id)
        /\ reads'[1].rows = Unanswered /\ reads'[1].cursor = Boundary(window') /\ reads'[1].limit = 2
        /\ reads'[1].clients = {} /\ failures' = failures
    BY <1>4, <1>6, <1>7, <1>9, <2>1, <2>2 DEF S
  <2>8. QED
    BY <1>2, <1>10, <2>4, <2>6, <2>7 DEF Demoting
<1>15. Calm'
  BY <1>2, <1>4, <1>10 DEF Calm
<1>16. QED
  BY <1>13, <1>14, <1>15 DEF Stage

-----------------------------------------------------------------------------
(* The rows of a read are taken in.                                        *)

\* Of a window only the entries matter.
LEMMA LeadsAlike ==
  ASSUME NEW v, NEW w, v.entries = w.entries, NEW rows, NEW S, Leads(v, rows, S)
  PROVE  Leads(w, rows, S)
BY DEF Leads, Below, Elems

\* The answer of a new client, seen from a window that is already seeded.
LEMMA AnswerIsWindow ==
  ASSUME NEW w \in Windows, WellFormed(w), NEW S \in SUBSET Entry, Elems(w) \subseteq S,
         Leads(w, <<>>, S), NEW rows \in Seq(Entry), Leads(EmptyWindow, rows, S)
  PROVE  IdsOf(ToSet(rows)) = Ids(w)
<1>1. Elems(EmptyWindow) = {} /\ Len(EmptyWindow.entries) = 0
  BY NoRows DEF EmptyWindow, Elems
<1>2. Len(rows) \in Nat /\ Limit \in Nat
  BY LimitAssumption
<1>3. /\ Sorted(rows) /\ ToSet(rows) \subseteq S
      /\ \A x \in ToSet(rows), y \in S \ ToSet(rows) : Before(x, y)
  BY <1>1 DEF Leads
<1>4. Len(rows) <= Limit /\ (Len(rows) < Limit => S \subseteq ToSet(rows))
  <2> DEFINE a == Len(EmptyWindow.entries)
             n == Len(rows)
             T == ToSet(rows)
  <2>1. a + n <= Limit /\ (a + n < Limit => S \subseteq T)
    BY <1>1 DEF Leads
  <2>2. a = 0 /\ n \in Nat
    BY <1>1, <1>2
  <2> HIDE DEF a, n, T
  <2>3. n <= Limit /\ (n < Limit => S \subseteq T)
    BY <1>2, <2>1, <2>2
  <2>4. QED
    BY <2>3 DEF n, T
<1>5. ToSet(rows) = Elems(w)
  BY <1>3, <1>4, LeadsIsTop
<1>6. QED
  BY <1>5, WindowElems

LEMMA DeliverSeedSerial ==
  ASSUME IInv, Calm, Stage, NEW i \in DOMAIN reads, DeliverSeed(i)
  PROVE  Calm' /\ Stage'
<1> DEFINE rows == reads[1].rows
           ids == {rows[j].id : j \in DOMAIN rows}
           S == InScope(store)
<1>1. /\ i = 1 /\ ready = <<>> /\ outbox = <<>> /\ RemoveAt(reads, 1) = <<>> /\ Seeking
  BY SomethingRead DEF DeliverSeed
<1>2. rows \in Seq(Entry) /\ rows # Unanswered
  BY <1>1, DeliveredType DEF DeliverSeed, Delivered
<1>3. /\ reads' = <<>> /\ tracked' = tracked \cup ids /\ matched' = matched \cup ids
      /\ view' = [c \in Client |-> IF c \in reads[1].clients THEN view[c] \cup ids ELSE view[c]]
      /\ phase' = [c \in Client |-> IF c \in reads[1].clients THEN "in" ELSE phase[c]]
      /\ ready' = (IF seeded THEN <<>> ELSE <<RowsTask("seed", rows)>>)
      /\ UNCHANGED <<store, outbox, window, seeded, threw, failures>>
  BY <1>1 DEF DeliverSeed, Delivered
<1>4. ids = IdsOf(ToSet(rows))
  BY <1>2, Elements DEF IdsOf
<1> HIDE DEF ids, rows
<1>5. PICK c \in Client : /\ reads[1].clients = {c} /\ phase[c] = "reading"
                          /\ \A d \in Client : phase[d] = "reading" => d = c
  BY <1>1 DEF Seeking
<1>6. /\ HeldIn(window, store, {}) /\ ToSet(rows) \subseteq S
      /\ Leads(EmptyWindow, rows, S)
  BY <1>1, <1>2 DEF Seeking, Asking, rows
<1>7. \/ failures # 0
      \/ seeded /\ Leads(window, <<>>, S) /\ Agreed({})
      \/ ~seeded /\ window.entries = <<>> /\ Agreed({}) /\ \A d \in Client : phase[d] # "in"
  BY <1>1 DEF Seeking
<1>8. /\ window \in Windows /\ WellFormed(window) /\ S \in SUBSET Entry
      /\ store \in [Id -> Row \cup {Absent}]
  BY StateFacts
<1>9. /\ view'[c] = ids /\ phase'[c] = "in"
      /\ \A d \in Client : d # c => view'[d] = view[d] /\ phase'[d] = phase[d]
  BY <1>3, <1>5 DEF Calm
<1>10. NobodyReads' /\ Subscribed' # {}
  BY <1>5, <1>9 DEF NobodyReads, Subscribed
<1>11. Elems(window) \subseteq S
  BY <1>6 DEF HeldIn
<1>12. ASSUME seeded PROVE Resting'
  <2>1. ASSUME failures = 0 PROVE Leads(window, <<>>, S) /\ Agreed({})'
    <3>1. Leads(window, <<>>, S) /\ Agreed({})
      BY <1>7, <1>12, <2>1
    <3>2. ids = Ids(window)
      BY <1>2, <1>4, <1>6, <1>8, <1>11, <3>1, AnswerIsWindow
    <3>3. matched' = Ids(window)
      BY <1>3, <3>1, <3>2 DEF Agreed
    <3>4. \A d \in Client : phase'[d] = "in" => view'[d] = Ids(window)
      BY <1>9, <3>1, <3>2 DEF Agreed
    <3>5. QED
      BY <1>3, <3>1, <3>3, <3>4 DEF Agreed
  <2>2. Known(store', {}) = S
    BY <1>3 DEF Known
  <2>3. At({})'
    BY <1>3, <1>6, <1>10, <1>12, <2>1, <2>2 DEF At
  <2>4. QED
    BY <1>1, <1>3, <1>12, <2>3 DEF Resting
<1>13. ASSUME ~seeded PROVE Seeding'
  <2> DEFINE u == RowsTask("seed", rows)
  <2>1. u.kind = "seed" /\ u.rows = rows
    BY DEF RowsTask
  <2>2. ready' = <<u>>
    BY <1>3, <1>13
  <2> HIDE DEF u
  <2>3. Len(ready') = 1 /\ ready'[1] = u
    BY <2>2, OneAndTwo
  <2>4. ASSUME failures = 0 PROVE Leads(window, rows, S) /\ Agreed(IdsOf(ToSet(ready[1].rows)))'
    <3>1. window.entries = <<>> /\ Agreed({}) /\ \A d \in Client : phase[d] # "in"
      BY <1>7, <1>13, <2>4
    <3>2. Leads(window, rows, S)
      <4>1. EmptyWindow.entries = window.entries
        BY <3>1 DEF EmptyWindow
      <4>2. QED
        BY <1>6, <4>1, LeadsAlike
    <3>3. Ids(window) = {}
      BY <3>1, EmptyLength DEF Ids
    <3>4. matched' = Ids(window) \cup ids
      BY <1>3, <3>1 DEF Agreed
    <3>5. \A d \in Client : phase'[d] = "in" => view'[d] = Ids(window) \cup ids
      BY <1>9, <3>1, <3>3
    <3>6. QED
      BY <1>3, <1>4, <2>1, <2>3, <3>2, <3>4, <3>5 DEF Agreed
  <2>5. Looping("seed")'
    BY <1>1, <1>3, <1>6, <1>10, <2>1, <2>3, <2>4 DEF Looping
  <2>6. QED
    BY <1>3, <1>13, <2>4, <2>5 DEF Seeding
<1>14. Calm'
  <2>1. \A x \in S : store[x.id] # Absent
    BY <1>8, ScopeFacts
  <2>2. \A id \in tracked' : store'[id] # Absent
    BY <1>3, <1>4, <1>6, <2>1 DEF Calm, IdsOf
  <2>3. \A d \in Client : phase'[d] \in {"out", "reading"} => view'[d] = {}
    BY <1>9 DEF Calm
  <2>4. QED
    BY <1>3, <1>10, <2>2, <2>3 DEF Calm
<1>15. QED
  BY <1>12, <1>13, <1>14 DEF Stage

\* What the loops have in common: the next row is inserted unless it is held.
WithNext(w, rows) ==
  IF Has(w, Head(rows).id) THEN w ELSE InsertEntry(w, Head(rows)).window

LEMMA NextRow ==
  ASSUME NEW w \in Windows, WellFormed(w), NEW S \in SUBSET Entry,
         \A x, y \in S : x.id = y.id => x = y, Elems(w) \subseteq S,
         NEW rows \in Seq(Entry), rows # <<>>, ToSet(rows) \subseteq S
  PROVE  /\ Head(rows).id \in IdsOf(S)
         /\ Elems(WithNext(w, rows)) \subseteq S /\ ToSet(Tail(rows)) \subseteq S
         /\ IdsOf(ToSet(rows)) = {Head(rows).id} \cup IdsOf(ToSet(Tail(rows)))
         /\ Leads(w, rows, S) => /\ ~Has(w, Head(rows).id) /\ Leads(WithNext(w, rows), Tail(rows), S)
                                 /\ Ids(WithNext(w, rows)) = Ids(w) \cup {Head(rows).id}
<1> DEFINE e == Head(rows)
           q == Tail(rows)
           v == WithNext(w, rows)
<1>1. e \in Entry /\ q \in Seq(Entry) /\ ToSet(rows) = {e} \cup ToSet(q)
  BY FirstOfRows
<1>2. e \in S /\ ToSet(q) \subseteq S
  BY <1>1
<1>3. IdsOf(ToSet(rows)) = {e.id} \cup IdsOf(ToSet(q))
  BY <1>1 DEF IdsOf
<1>4. Elems(v) \subseteq S
  <2>1. ~Has(w, e.id) => Elems(InsertEntry(w, e).window) \subseteq Elems(w) \cup {e}
    BY <1>1, PlacedIds
  <2>2. QED
    BY <1>2, <2>1 DEF WithNext
<1>5. ASSUME Leads(w, rows, S)
      PROVE  ~Has(w, e.id) /\ Leads(v, q, S) /\ Ids(v) = Ids(w) \cup {e.id}
  <2>1. /\ ~Has(w, e.id) /\ Elems(InsertEntry(w, e).window) = Elems(w) \cup {e}
        /\ Leads(InsertEntry(w, e).window, q, S)
    BY <1>5, NextRowLeads
  <2>2. v = InsertEntry(w, e).window
    BY <2>1 DEF WithNext
  <2>3. v \in Windows /\ WellFormed(v)
    BY <1>1, <2>2, InsertEntryPreserves
  <2>4. Ids(v) = IdsOf(Elems(v)) /\ Ids(w) = IdsOf(Elems(w))
    BY <2>3, WindowElems
  <2> HIDE DEF e, q
  <2>5. Ids(v) = Ids(w) \cup {e.id}
    BY <2>1, <2>2, <2>4 DEF IdsOf
  <2>6. QED
    BY <2>1, <2>2, <2>5
<1>6. e.id \in IdsOf(S)
  BY <1>2 DEF IdsOf
<1>7. QED
  BY <1>2, <1>3, <1>4, <1>5, <1>6

\* What is known of the continuation of a loop.
LEMMA LoopFacts ==
  ASSUME IInv, NEW k, Looping(k), NEW t, t = ready[1]
  PROVE  /\ t \in Task /\ t.kind = k /\ t.rows \in Seq(Entry) /\ ToSet(t.rows) \subseteq InScope(store)
         /\ outbox = <<>> /\ reads = <<>> /\ Tail(ready) = <<>> /\ NobodyReads /\ Subscribed # {}
         /\ window \in Windows /\ WellFormed(window) /\ InScope(store) \in SUBSET Entry
         /\ \A x, y \in InScope(store) : x.id = y.id => x = y
         /\ Elems(window) \subseteq InScope(store)
         /\ \A id \in IdsOf(InScope(store)) : store[id] # Absent
         /\ failures # 0 \/ Leads(window, t.rows, InScope(store))
<1>1. /\ outbox = <<>> /\ reads = <<>> /\ Len(ready) = 1 /\ t.kind = k
      /\ NobodyReads /\ Subscribed # {}
      /\ HeldIn(window, store, {}) /\ ToSet(t.rows) \subseteq InScope(store)
      /\ failures # 0 \/ Leads(window, t.rows, InScope(store))
  BY DEF Looping
<1>2. /\ window \in Windows /\ WellFormed(window) /\ InScope(store) \in SUBSET Entry
      /\ store \in [Id -> Row \cup {Absent}] /\ ready \in Seq(Task)
  BY StateFacts
<1>3. t \in Task /\ Tail(ready) = <<>>
  BY <1>1, <1>2, OneElement
<1>4. /\ \A x, y \in InScope(store) : x.id = y.id => x = y
      /\ \A x \in InScope(store) : store[x.id] # Absent
  BY <1>2, ScopeFacts
<1>5. \A id \in IdsOf(InScope(store)) : store[id] # Absent
  BY <1>4 DEF IdsOf
<1>6. Elems(window) \subseteq InScope(store)
  BY <1>1 DEF HeldIn
<1>7. t.rows \in Seq(Entry)
  BY <1>3 DEF Task
<1>8. QED
  BY <1>1, <1>2, <1>3, <1>4, <1>5, <1>6, <1>7, Zenon

LEMMA SeedRowSerial ==
  ASSUME IInv, Calm, Stage, NEW t \in Current, SeedRow(t)
  PROVE  Calm' /\ Stage'
<1> DEFINE rows == t.rows
           q == Tail(rows)
           u == [t EXCEPT !.rows = q]
           S == InScope(store)
<1>1. Seeding /\ t = ready[1] /\ t.kind = "seed"
  BY SomethingRuns DEF SeedRow, Handling, Handles
<1>2. Looping("seed") /\ ~seeded /\ (failures # 0 \/ Agreed(IdsOf(ToSet(rows))))
  BY <1>1 DEF Seeding
<1>3. /\ t \in Task /\ rows \in Seq(Entry) /\ ToSet(rows) \subseteq S
      /\ outbox = <<>> /\ reads = <<>> /\ Tail(ready) = <<>> /\ NobodyReads /\ Subscribed # {}
      /\ window \in Windows /\ WellFormed(window) /\ S \in SUBSET Entry
      /\ \A x, y \in S : x.id = y.id => x = y
      /\ Elems(window) \subseteq S
      /\ failures # 0 \/ Leads(window, rows, S)
  BY <1>1, <1>2, LoopFacts
<1>4. /\ rows # <<>>
      /\ window' = (IF Has(window, Head(rows).id) THEN window ELSE InsertEntry(window, Head(rows)).window)
      /\ ready' = <<u>> \o <<>>
      /\ UNCHANGED <<store, outbox, tracked, matched, seeded, reads, phase, view, threw, failures>>
  BY <1>3, Zenon DEF SeedRow
<1>5. u.kind = "seed" /\ u.rows = q
  BY <1>1, <1>3 DEF Task
<1> HIDE DEF rows
<1>6. /\ Elems(window') \subseteq S /\ ToSet(q) \subseteq S
      /\ IdsOf(ToSet(rows)) = {Head(rows).id} \cup IdsOf(ToSet(q))
      /\ Leads(window, rows, S) => /\ Leads(window', q, S)
                                   /\ Ids(window') = Ids(window) \cup {Head(rows).id}
  <2>1. window' = WithNext(window, rows)
    BY <1>4 DEF WithNext
  <2> HIDE DEF S
  <2>2. Elems(WithNext(window, rows)) \subseteq S /\ ToSet(Tail(rows)) \subseteq S
    BY <1>3, <1>4, NextRow
  <2>3. IdsOf(ToSet(rows)) = {Head(rows).id} \cup IdsOf(ToSet(Tail(rows)))
    BY <1>3, <1>4, NextRow
  <2>4. Leads(window, rows, S) =>
          /\ Leads(WithNext(window, rows), Tail(rows), S)
          /\ Ids(WithNext(window, rows)) = Ids(window) \cup {Head(rows).id}
    BY <1>3, <1>4, NextRow
  <2>5. QED
    BY <2>1, <2>2, <2>3, <2>4, Zenon
<1> HIDE DEF u, q
<1>7. Len(ready') = 1 /\ ready'[1] = u
  BY <1>4, OneAndTwo
<1>8. Subscribed' = Subscribed /\ (NobodyReads' <=> NobodyReads)
  BY <1>4 DEF Subscribed, NobodyReads
<1>9. HeldIn(window', store', {})
  BY <1>4, <1>6 DEF HeldIn
<1>10. ASSUME failures = 0 PROVE Leads(window', q, S) /\ Agreed(IdsOf(ToSet(ready[1].rows)))'
  <2>1. Ids(window') \cup IdsOf(ToSet(q)) = Ids(window) \cup IdsOf(ToSet(rows)) /\ Leads(window', q, S)
    BY <1>3, <1>6, <1>10
  <2>2. QED
    BY <1>2, <1>4, <1>5, <1>7, <1>10, <2>1 DEF Agreed
<1>11. Looping("seed")'
  BY <1>3, <1>4, <1>5, <1>6, <1>7, <1>8, <1>9, <1>10 DEF Looping
<1>12. Seeding'
  BY <1>2, <1>4, <1>10, <1>11 DEF Seeding
<1>13. Calm'
  BY <1>3, <1>4, <1>8 DEF Calm
<1>14. QED
  BY <1>12, <1>13 DEF Stage

LEMMA SeedDoneSerial ==
  ASSUME IInv, Calm, Stage, NEW t \in Current, SeedDone(t)
  PROVE  Calm' /\ Stage'
<1>1. Seeding /\ t = ready[1] /\ t.rows = <<>>
  BY SomethingRuns DEF SeedDone, Handling, Handles
<1>2. Looping("seed") /\ (failures # 0 \/ Agreed(IdsOf(ToSet(t.rows))))
  BY <1>1 DEF Seeding
<1>3. /\ outbox = <<>> /\ reads = <<>> /\ Tail(ready) = <<>> /\ NobodyReads /\ Subscribed # {}
      /\ Elems(window) \subseteq InScope(store)
      /\ failures # 0 \/ Leads(window, <<>>, InScope(store))
  BY <1>1, <1>2, LoopFacts
<1>4. /\ ready' = <<>> /\ seeded' = TRUE
      /\ UNCHANGED <<store, outbox, tracked, matched, window, reads, phase, view, threw, failures>>
  BY <1>3 DEF SeedDone, Done
<1>5. IdsOf(ToSet(t.rows)) = {}
  BY <1>1, NoRows DEF IdsOf
<1>6. Subscribed' = Subscribed /\ (NobodyReads' <=> NobodyReads) /\ Known(store', {}) = InScope(store)
  BY <1>4 DEF Subscribed, NobodyReads, Known
<1>7. HeldIn(window', store', {})
  BY <1>3, <1>4 DEF HeldIn
<1>8. ASSUME failures = 0 PROVE Agreed({})'
  BY <1>2, <1>4, <1>5, <1>8 DEF Agreed
<1>9. Resting'
  BY <1>3, <1>4, <1>6, <1>7, <1>8 DEF Resting, At
<1>10. Calm'
  BY <1>3, <1>4, <1>6 DEF Calm
<1>11. QED
  BY <1>9, <1>10 DEF Stage

LEMMA DeliverFillSerial ==
  ASSUME IInv, Calm, Stage, NEW i \in DOMAIN reads, DeliverFill(i)
  PROVE  Calm' /\ Stage'
<1> DEFINE rows == reads[1].rows
           u == RowsTask("fill", rows)
           S == InScope(store)
<1>1. /\ i = 1 /\ ready = <<>> /\ outbox = <<>> /\ RemoveAt(reads, 1) = <<>> /\ Filling
  BY SomethingRead DEF DeliverFill
<1>2. rows # Unanswered
  BY <1>1 DEF DeliverFill, Delivered
<1>3. /\ reads' = <<>> /\ ready' = (IF rows = <<>> THEN <<>> ELSE <<u>>)
      /\ UNCHANGED <<store, outbox, tracked, matched, window, seeded, phase, view, threw, failures>>
  BY <1>1 DEF DeliverFill, Delivered
<1>4. /\ HeldIn(window, store, {}) /\ ToSet(rows) \subseteq S /\ NobodyReads /\ Subscribed # {}
      /\ failures = 0 => seeded /\ Agreed({}) /\ Leads(window, rows, S)
  BY <1>1, <1>2 DEF Filling, Asking
<1>5. u.kind = "fill" /\ u.rows = rows
  BY DEF RowsTask
<1> HIDE DEF rows, u
<1>6. Subscribed' = Subscribed /\ (NobodyReads' <=> NobodyReads) /\ Known(store', {}) = S
  BY <1>3 DEF Subscribed, NobodyReads, Known
<1>7. Agreed({})' <=> Agreed({})
  BY <1>3 DEF Agreed
<1>8. ASSUME rows = <<>> PROVE Resting'
  <2>1. failures = 0 => seeded' /\ Leads(window', <<>>, Known(store', {})) /\ Agreed({})'
    BY <1>3, <1>4, <1>6, <1>7, <1>8
  <2>2. At({})'
    BY <1>3, <1>4, <1>6, <2>1 DEF At
  <2>3. QED
    BY <1>1, <1>3, <1>8, <2>2 DEF Resting
<1>9. ASSUME rows # <<>> PROVE Refilling'
  <2>1. Len(ready') = 1 /\ ready'[1] = u
    BY <1>3, <1>9, OneAndTwo
  <2>2. Looping("fill")'
    BY <1>1, <1>3, <1>4, <1>5, <1>6, <2>1 DEF Looping
  <2>3. QED
    BY <1>3, <1>4, <1>7, <2>2 DEF Refilling
<1>10. Calm'
  BY <1>3, <1>4, <1>6 DEF Calm
<1>11. QED
  BY <1>8, <1>9, <1>10 DEF Stage

LEMMA FillRowSerial ==
  ASSUME IInv, Calm, Stage, NEW t \in Current, FillRow(t)
  PROVE  Calm' /\ Stage'
<1> DEFINE rows == t.rows
           q == Tail(rows)
           u == [t EXCEPT !.rows = q]
           e == Head(rows)
           in == IF Has(window, e.id) THEN {} ELSE {e.id}
           S == InScope(store)
<1>1. Refilling /\ t = ready[1] /\ t.kind = "fill"
  BY SomethingRuns DEF FillRow, Handling, Handles
<1>2. Looping("fill") /\ (failures # 0 \/ (seeded /\ Agreed({})))
  BY <1>1 DEF Refilling
<1>3. /\ t \in Task /\ rows \in Seq(Entry) /\ ToSet(rows) \subseteq S
      /\ outbox = <<>> /\ reads = <<>> /\ Tail(ready) = <<>> /\ NobodyReads /\ Subscribed # {}
      /\ window \in Windows /\ WellFormed(window) /\ S \in SUBSET Entry
      /\ \A x, y \in S : x.id = y.id => x = y
      /\ Elems(window) \subseteq S
      /\ \A id \in IdsOf(S) : store[id] # Absent
      /\ failures # 0 \/ Leads(window, rows, S)
  BY <1>1, <1>2, LoopFacts
<1>4. rows # <<>>
  BY <1>1, CurrentType
<1>5. /\ window' = (IF in = {} THEN window ELSE InsertEntry(window, e).window)
      /\ matched' = matched \cup in /\ tracked' = tracked \cup in /\ view' = Told(in, {})
      /\ ready' = (IF Len(rows) = 1 THEN <<>> ELSE <<u>> \o <<>>)
      /\ UNCHANGED <<store, outbox, seeded, reads, phase, threw, failures>>
  BY <1>3, Zenon DEF FillRow
<1>6. window' = WithNext(window, rows) /\ in \subseteq {e.id}
  BY <1>5 DEF WithNext
<1>7. u.kind = "fill" /\ u.rows = q
  BY <1>1, <1>3 DEF Task
<1>8. (Has(window, e.id) => in = {}) /\ (~Has(window, e.id) => in = {e.id})
  OBVIOUS
<1>9. Len(rows) = 1 => q = <<>>
  BY <1>3, OneElement
<1> HIDE DEF rows, S, in
<1>10. /\ e.id \in IdsOf(S)
       /\ Elems(window') \subseteq S /\ ToSet(q) \subseteq S
       /\ Leads(window, rows, S) => /\ ~Has(window, e.id) /\ Leads(window', q, S)
                                    /\ Ids(window') = Ids(window) \cup {e.id}
  <2>1. e.id \in IdsOf(S)
    BY <1>3, <1>4, NextRow
  <2>2. Elems(WithNext(window, rows)) \subseteq S /\ ToSet(Tail(rows)) \subseteq S
    BY <1>3, <1>4, NextRow
  <2>3. Leads(window, rows, S) =>
          /\ ~Has(window, Head(rows).id)
          /\ Leads(WithNext(window, rows), Tail(rows), S)
          /\ Ids(WithNext(window, rows)) = Ids(window) \cup {Head(rows).id}
    BY <1>3, <1>4, NextRow
  <2>4. QED
    BY <1>6, <2>1, <2>2, <2>3, Zenon
<1> HIDE DEF u, q, e
<1>11. Subscribed' = Subscribed /\ (NobodyReads' <=> NobodyReads) /\ Known(store', {}) = S
  BY <1>5 DEF Subscribed, NobodyReads, Known, S
<1>12. HeldIn(window', store', {})
  BY <1>5, <1>10 DEF HeldIn, S
<1>13. ASSUME failures = 0 PROVE seeded' /\ Leads(window', q, S) /\ Agreed({})'
  <2>1. in = {e.id} /\ Leads(window', q, S) /\ Ids(window') = Ids(window) \cup {e.id}
    BY <1>3, <1>8, <1>10, <1>13
  <2>2. matched = Ids(window) /\ \A c \in Client : phase[c] = "in" => view[c] = Ids(window)
    BY <1>2, <1>13 DEF Agreed
  <2>3. ASSUME NEW c \in Client, phase[c] = "in" PROVE view'[c] = Ids(window')
    <3>1. c \in Subscribed
      BY <2>3 DEF Subscribed
    <3>2. QED
      BY <1>5, <2>1, <2>2, <2>3, <3>1 DEF Told
  <2>4. QED
    BY <1>2, <1>5, <1>13, <2>1, <2>2, <2>3 DEF Agreed
<1>14. ASSUME Len(rows) = 1 PROVE Resting'
  <2>1. q = <<>> /\ ready' = <<>>
    BY <1>5, <1>9, <1>14
  <2>2. At({})'
    BY <1>3, <1>5, <1>11, <1>12, <1>13, <2>1 DEF At
  <2>3. QED
    BY <1>3, <1>5, <2>1, <2>2 DEF Resting
<1>15. ASSUME Len(rows) # 1 PROVE Refilling'
  <2>1. Len(ready') = 1 /\ ready'[1] = u
    BY <1>5, <1>15, OneAndTwo
  <2>2. /\ ToSet(ready'[1].rows) \subseteq InScope(store')
        /\ failures' # 0 \/ Leads(window', ready'[1].rows, InScope(store'))
    BY <1>5, <1>7, <1>10, <1>13, <2>1 DEF S
  <2>3. Looping("fill")'
    BY <1>3, <1>5, <1>7, <1>11, <1>12, <2>1, <2>2 DEF Looping
  <2>4. QED
    BY <1>5, <1>13, <2>3 DEF Refilling
<1>16. Calm'
  <2>1. \A id \in tracked' : store'[id] # Absent
    BY <1>3, <1>5, <1>6, <1>10 DEF Calm
  <2>2. ASSUME NEW c \in Client, phase'[c] \in {"out", "reading"} PROVE view'[c] = {}
    <3>1. phase[c] = "out" /\ view[c] = {}
      BY <1>3, <1>5, <2>2 DEF NobodyReads, Calm
    <3>2. QED
      BY <1>5, <3>1 DEF Told, Subscribed
  <2>3. QED
    BY <1>3, <1>5, <1>11, <2>1, <2>2 DEF Calm
<1>17. QED
  BY <1>14, <1>15, <1>16 DEF Stage

-----------------------------------------------------------------------------
(* The slot of a demoted row is given.                                     *)

\* What reconcileDemotion comes back to.
LEMMA DemotionFacts ==
  ASSUME IInv, Calm, Stage, NEW i \in DOMAIN reads, reads[i].kind = "demote", Delivered(i),
         NEW e \in reads[i].moved, NEW rows, rows = reads[i].rows
  PROVE  /\ ready = <<>> /\ outbox = <<>> /\ reads' = <<>> /\ NobodyReads /\ Subscribed # {}
         /\ rows \in Seq(Entry) /\ ToSet(rows) \subseteq InScope(store)
         /\ window \in Windows /\ WellFormed(window) /\ InScope(store) \in SUBSET Entry
         /\ e \in InScope(store) /\ ~Has(window, e.id)
         /\ Elems(window) \subseteq InScope(store)
         /\ Candidates(rows, e) = Competing(window, rows, e)
         /\ failures = 0 => seeded /\ Agreed({e.id}) /\ Contest(window, rows, e, InScope(store))
<1>1. /\ i = 1 /\ ready = <<>> /\ outbox = <<>> /\ RemoveAt(reads, 1) = <<>> /\ Demoting
  BY SomethingRead
<1>2. reads' = <<>> /\ rows # Unanswered
  BY <1>1 DEF Delivered
<1>3. rows \in Seq(Entry)
  BY DeliveredType
<1>4. /\ window \in Windows /\ WellFormed(window) /\ InScope(store) \in SUBSET Entry
      /\ store \in [Id -> Row \cup {Absent}]
  BY StateFacts
<1>5. /\ NobodyReads /\ Subscribed # {} /\ HeldIn(window, store, {})
      /\ ToSet(rows) \subseteq InScope(store)
  BY <1>1, <1>2 DEF Demoting, Asking
<1>6. Elems(window) \subseteq InScope(store)
  BY <1>5 DEF HeldIn
<1>7. /\ e \in InScope(store) /\ ~Has(window, e.id)
      /\ failures = 0 => /\ seeded /\ Agreed({e.id}) /\ Below(window, InScope(store))
                    /\ Len(window.entries) = Limit - 1
                    /\ IsFirst(rows, InScope(store) \ Elems(window), 2)
                    /\ ToSet(rows) \cap Elems(window) = {}
  BY <1>1, <1>2 DEF Demoting
<1>8. \A x, y \in InScope(store) : x.id = y.id => x = y
  BY <1>4, ScopeFacts
<1>9. failures = 0 => Contest(window, rows, e, InScope(store))
  BY <1>5, <1>6, <1>7, <1>8 DEF Contest
<1>10. Candidates(rows, e) = Competing(window, rows, e)
  BY DEF Candidates, Competing
<1>11. QED
  BY <1>1, <1>2, <1>3, <1>4, <1>5, <1>6, <1>7, <1>9, <1>10, Zenon

\* With the slot given, nothing is in flight.
LEMMA DemotionEnds ==
  ASSUME IInv, Calm, ready = <<>>, outbox = <<>>, reads' = <<>>, NobodyReads, Subscribed # {},
         UNCHANGED <<store, outbox, seeded, ready, phase, failures>>, threw' = threw,
         Elems(window') \subseteq InScope(store),
         \A id \in tracked' : store[id] # Absent,
         \A c \in Client \ Subscribed : view'[c] = view[c],
         failures = 0 => seeded /\ Leads(window', <<>>, InScope(store)) /\ Agreed({})'
  PROVE  Calm' /\ Stage'
<1>1. Subscribed' = Subscribed /\ (NobodyReads' <=> NobodyReads) /\ Known(store', {}) = InScope(store)
  BY DEF Subscribed, NobodyReads, Known
<1>2. HeldIn(window', store', {})
  BY DEF HeldIn
<1>3. At({})'
  BY <1>1, <1>2 DEF At
<1>4. Resting'
  BY <1>3 DEF Resting
<1>5. ASSUME NEW c \in Client, phase'[c] \in {"out", "reading"} PROVE view'[c] = {}
  BY <1>5 DEF NobodyReads, Calm, Subscribed
<1>6. Calm'
  BY <1>1, <1>5 DEF Calm
<1>7. QED
  BY <1>4, <1>6 DEF Stage

LEMMA KeepDemotedSerial ==
  ASSUME IInv, Calm, Stage, NEW i \in DOMAIN reads, KeepDemoted(i)
  PROVE  Calm' /\ Stage'
<1> DEFINE rows == reads[i].rows
           S == InScope(store)
<1>1. reads[i].kind = "demote" /\ Delivered(i)
  BY DEF KeepDemoted
<1>2. PICK e \in reads[i].moved :
        /\ Candidates(rows, e) = {}
        /\ window' = InsertEntry(window, e).window
        /\ threw' = (threw \/ InsertEntry(window, e).threw)
  BY DEF KeepDemoted
<1>3. UNCHANGED <<store, outbox, tracked, matched, seeded, ready, phase, view, failures>>
  BY DEF KeepDemoted
<1>4. /\ ready = <<>> /\ outbox = <<>> /\ reads' = <<>> /\ NobodyReads /\ Subscribed # {}
      /\ rows \in Seq(Entry)
      /\ window \in Windows /\ WellFormed(window) /\ S \in SUBSET Entry
      /\ e \in S /\ ~Has(window, e.id) /\ Elems(window) \subseteq S
      /\ Candidates(rows, e) = Competing(window, rows, e)
      /\ failures = 0 => seeded /\ Agreed({e.id}) /\ Contest(window, rows, e, S)
  BY <1>1, DemotionFacts
<1> HIDE DEF rows, S
<1>5. /\ InsertEntry(window, e).threw = FALSE
      /\ window' \in Windows /\ WellFormed(window') /\ Elems(window') \subseteq S
  <2> DEFINE r == InsertEntry(window, e)
  <2>1. e \in Entry
    BY <1>4
  <2>2. r.threw = FALSE /\ r.window \in Windows /\ WellFormed(r.window)
    BY <1>4, <2>1, PlacedIds
  <2>3. Elems(r.window) \subseteq Elems(window) \cup {e}
    BY <1>4, <2>1, PlacedIds
  <2>4. window' = r.window
    BY <1>2
  <2> HIDE DEF r
  <2>5. window' \in Windows /\ WellFormed(window') /\ Elems(window') \subseteq S
    BY <1>4, <2>2, <2>3, <2>4
  <2>6. QED
    BY <2>2, <2>5 DEF r
<1>6. threw' = threw
  BY <1>2, <1>5 DEF IInv, TypeOK
<1>7. ASSUME failures = 0 PROVE Leads(window', <<>>, S) /\ Agreed({})'
  <2>1. /\ Elems(window') = Elems(window) \cup {e}
        /\ Leads(window', <<>>, S)
    BY <1>2, <1>4, <1>7, KeptLeads
  <2>2. Ids(window') = IdsOf(Elems(window')) /\ Ids(window) = IdsOf(Elems(window))
    BY <1>4, <1>5, WindowElems
  <2>3. Ids(window') = Ids(window) \cup {e.id}
    BY <2>1, <2>2 DEF IdsOf
  <2>4. QED
    BY <1>3, <1>4, <1>7, <2>1, <2>3 DEF Agreed
<1>8. \A id \in tracked' : store[id] # Absent
  BY <1>3 DEF Calm
<1>9. QED
  BY <1>3, <1>4, <1>5, <1>6, <1>7, <1>8, DemotionEnds DEF S

LEMMA SwapDemotedSerial ==
  ASSUME IInv, Calm, Stage, NEW i \in DOMAIN reads, SwapDemoted(i)
  PROVE  Calm' /\ Stage'
<1> DEFINE rows == reads[i].rows
           S == InScope(store)
<1>1. reads[i].kind = "demote" /\ Delivered(i)
  BY DEF SwapDemoted
<1>2. PICK e \in reads[i].moved :
        LET c == rows[Min(Candidates(rows, e))]
            w == InsertEntry(window, c).window
            again == InsertEntry(w, e)
            swapped == ~again.inserted /\ ~again.threw
        IN  /\ Candidates(rows, e) # {}
            /\ window' = again.window
            /\ threw' = (threw \/ again.threw)
            /\ matched' = IF swapped THEN (matched \cup {c.id}) \ {e.id} ELSE matched
            /\ tracked' = IF swapped THEN tracked \cup {c.id} ELSE tracked
            /\ view' = IF swapped THEN Told({c.id}, {e.id}) ELSE view
  BY DEF SwapDemoted
<1>3. UNCHANGED <<store, outbox, seeded, ready, phase, failures>>
  BY DEF SwapDemoted
<1>4. /\ ready = <<>> /\ outbox = <<>> /\ reads' = <<>> /\ NobodyReads /\ Subscribed # {}
      /\ rows \in Seq(Entry) /\ ToSet(rows) \subseteq S
      /\ window \in Windows /\ WellFormed(window) /\ S \in SUBSET Entry
      /\ e \in S /\ ~Has(window, e.id) /\ Elems(window) \subseteq S
      /\ Candidates(rows, e) = Competing(window, rows, e)
      /\ failures = 0 => seeded /\ Agreed({e.id}) /\ Contest(window, rows, e, S)
  BY <1>1, DemotionFacts
<1> DEFINE c == rows[Min(Competing(window, rows, e))]
           w == InsertEntry(window, c).window
           again == InsertEntry(w, e)
           swapped == ~again.inserted /\ ~again.threw
<1>5. /\ Competing(window, rows, e) # {}
      /\ window' = again.window
      /\ threw' = (threw \/ again.threw)
      /\ matched' = (IF swapped THEN (matched \cup {c.id}) \ {e.id} ELSE matched)
      /\ tracked' = (IF swapped THEN tracked \cup {c.id} ELSE tracked)
      /\ view' = (IF swapped THEN Told({c.id}, {e.id}) ELSE view)
  BY <1>2, <1>4
<1> HIDE DEF rows
<1>6. c \in Entry /\ c \in S /\ c.id # e.id /\ ~Has(window, c.id)
  BY <1>4, <1>5, BestCompetitor
<1>7. ASSUME failures = 0
      PROVE  /\ \/ again.inserted = FALSE /\ Elems(again.window) = Elems(window) \cup {c}
                \/ again.inserted = TRUE /\ Elems(again.window) = Elems(window) \cup {e}
             /\ Leads(again.window, <<>>, S)
  BY <1>4, <1>5, <1>7, SwappedLeads
<1> HIDE DEF c, S
<1>8. w \in Windows /\ WellFormed(w) /\ Elems(w) \subseteq Elems(window) \cup {c}
  BY <1>4, <1>6, PlacedIds
<1> HIDE DEF w
<1>9. ~Has(w, e.id)
  BY <1>4, <1>6, <1>8, WindowElems
<1>10. /\ again.threw = FALSE /\ again.window \in Windows /\ WellFormed(again.window)
       /\ Elems(again.window) \subseteq Elems(w) \cup {e}
  BY <1>4, <1>8, <1>9, PlacedIds
<1> HIDE DEF again
<1>11. Elems(window') \subseteq S
  BY <1>4, <1>5, <1>6, <1>8, <1>10
<1>12. threw' = threw
  BY <1>5, <1>10 DEF IInv, TypeOK
<1>13. \A id \in tracked' : store[id] # Absent
  <2>1. store[c.id] # Absent
    BY <1>6, StateFacts, ScopeFacts DEF S
  <2>2. QED
    BY <1>5, <2>1 DEF Calm
<1>14. \A d \in Client \ Subscribed : view'[d] = view[d]
  <2>1. view \in [Client -> SUBSET Id]
    BY StateFacts
  <2>2. QED
    BY <1>5, <2>1 DEF Told
<1>15. ASSUME failures = 0 PROVE Leads(window', <<>>, S) /\ Agreed({})'
  <2>1. /\ Ids(again.window) = IdsOf(Elems(again.window)) /\ Ids(window) = IdsOf(Elems(window))
        /\ e.id \notin Ids(window)
    BY <1>4, <1>10, WindowElems DEF IdsOf
  <2>2. /\ matched = Ids(window) \cup {e.id}
        /\ \A d \in Client : phase[d] = "in" => view[d] = Ids(window) \cup {e.id}
    BY <1>4, <1>15 DEF Agreed
  <2>3. CASE again.inserted = TRUE
    <3>1. Elems(again.window) = Elems(window) \cup {e} /\ ~swapped
      BY <1>7, <1>15, <2>3
    <3>2. Ids(again.window) = Ids(window) \cup {e.id}
      BY <2>1, <3>1 DEF IdsOf
    <3>3. QED
      BY <1>3, <1>5, <1>7, <1>15, <2>2, <3>1, <3>2 DEF Agreed
  <2>4. CASE again.inserted = FALSE
    <3>1. Elems(again.window) = Elems(window) \cup {c} /\ swapped
      BY <1>7, <1>10, <1>15, <2>4
    <3>2. Ids(again.window) = Ids(window) \cup {c.id}
      BY <2>1, <3>1 DEF IdsOf
    <3>3. (Ids(window) \cup {e.id} \cup {c.id}) \ {e.id} = Ids(window) \cup {c.id}
      BY <1>6, <2>1
    <3>4. matched' = Ids(window')
      BY <1>5, <2>2, <3>1, <3>2, <3>3
    <3>5. ASSUME NEW d \in Client, phase[d] = "in" PROVE view'[d] = Ids(window')
      <4>1. d \in Subscribed
        BY <3>5 DEF Subscribed
      <4>2. view'[d] = (view[d] \cup {c.id}) \ {e.id}
        BY <1>5, <3>1, <4>1 DEF Told
      <4>3. QED
        BY <1>5, <2>2, <3>2, <3>3, <3>5, <4>2
    <3>6. QED
      BY <1>3, <1>5, <1>7, <1>15, <3>4, <3>5 DEF Agreed
  <2>5. QED
    BY <1>7, <1>15, <2>3, <2>4
<1>16. QED
  BY <1>3, <1>4, <1>11, <1>12, <1>13, <1>14, <1>15, DemotionEnds DEF S

-----------------------------------------------------------------------------
(* Every step, and what the stages say of a scope that is idle.            *)

LEMMA StutterSerial ==
  ASSUME Calm, Stage, UNCHANGED vars
  PROVE  Calm' /\ Stage'
<1>1. Calm'
  BY DEF Calm, Subscribed, vars
<1>2. Resting => Resting'
  BY DEF vars, Resting, At, Agreed, NobodyReads, Subscribed
<1>3. Seeking => Seeking'
  BY DEF vars, Seeking, Asking, Agreed
<1>4. Filling => Filling'
  BY DEF vars, Filling, Asking, Agreed, NobodyReads, Subscribed
<1>5. Demoting => Demoting'
  BY DEF vars, Demoting, Asking, Agreed, NobodyReads, Subscribed
<1>6. Notifying => Notifying'
  BY DEF vars, Notifying, Written, At, Agreed, NobodyReads, Subscribed
<1>7. Handling => Handling'
  BY DEF vars, Handling, Handles, Waiting, At, Agreed, NobodyReads, Subscribed
<1>8. (Seeding => Seeding') /\ (Refilling => Refilling')
  BY DEF vars, Seeding, Refilling, Looping, Agreed, NobodyReads, Subscribed
<1>9. QED
  <2>1. CASE Resting \/ Seeking \/ Filling \/ Demoting
    <3>1. CASE Resting
      BY <1>1, <1>2, <3>1 DEF Stage
    <3>2. CASE Seeking
      BY <1>1, <1>3, <3>2 DEF Stage
    <3>3. CASE Filling
      BY <1>1, <1>4, <3>3 DEF Stage
    <3>4. CASE Demoting
      BY <1>1, <1>5, <3>4 DEF Stage
    <3>5. QED
      BY <2>1, <3>1, <3>2, <3>3, <3>4
  <2>2. CASE Notifying
    BY <1>1, <1>6, <2>2 DEF Stage
  <2>3. CASE Handling
    BY <1>1, <1>7, <2>3 DEF Stage
  <2>4. CASE Seeding \/ Refilling
    BY <1>1, <1>8, <2>4 DEF Stage
  <2>5. QED
    BY <2>1, <2>2, <2>3, <2>4 DEF Stage

LEMMA NextSerial ==
  ASSUME OneAtATime, SerialInv, [Next]_vars
  PROVE  SerialInv'
<1>1. IInv /\ Calm /\ Stage
  BY DEF SerialInv
<1>2. IInv'
  BY <1>1, NextIInv
<1>3. ASSUME NEW t \in Current, Run(t) PROVE Calm' /\ Stage'
  <2>1. CASE MatchInsert(t) \/ MatchUpdateOutside(t)
    BY <1>1, <2>1, MatchSerial
  <2>2. CASE Place(t)
    BY <1>1, <2>2, PlaceSerial
  <2>3. CASE ScopeOut(t)
    BY <1>1, <2>3, ScopeOutSerial
  <2>4. CASE Refresh(t)
    BY <1>1, <2>4, RefreshSerial
  <2>5. CASE SeedRow(t)
    BY <1>1, <2>5, SeedRowSerial
  <2>6. CASE SeedDone(t)
    BY <1>1, <2>6, SeedDoneSerial
  <2>7. CASE FillRow(t)
    BY <1>1, <2>7, FillRowSerial
  <2>8. QED
    BY <1>3, <2>1, <2>2, <2>3, <2>4, <2>5, <2>6, <2>7 DEF Run
<1>4. ASSUME NEW i \in DOMAIN reads, Answer(i) \/ Deliver(i) PROVE Calm' /\ Stage'
  <2>1. CASE Answer(i)
    BY <1>1, <2>1, AnswerSerial
  <2>2. CASE DeliverSeed(i)
    BY <1>1, <2>2, DeliverSeedSerial
  <2>3. CASE DeliverFill(i)
    BY <1>1, <2>3, DeliverFillSerial
  <2>4. CASE KeepDemoted(i)
    BY <1>1, <2>4, KeepDemotedSerial
  <2>5. CASE SwapDemoted(i)
    BY <1>1, <2>5, SwapDemotedSerial
  <2>6. QED
    BY <1>4, <2>1, <2>2, <2>3, <2>4, <2>5 DEF Deliver
<1>5. ASSUME NEW i \in DOMAIN outbox, Reread(i) \/ Notify(i) PROVE Calm' /\ Stage'
  BY <1>1, <1>5, RereadSerial, NotifySerial
<1>6. ASSUME NEW i \in DOMAIN reads, FailRead(i) PROVE Calm' /\ Stage'
  BY <1>1, <1>6, FailReadSerial
<1>7. ASSUME NEW c \in Client, Subscribe(c) PROVE Calm' /\ Stage'
  BY <1>1, <1>7, SubscribeSerial
<1>8. ASSUME NEW w \in Write, Commit(w) PROVE Calm' /\ Stage'
  BY <1>1, <1>8, CommitSerial
<1>9. ASSUME NEW w1 \in Together, NEW w2 \in Together, CommitTransaction(w1, w2)
      PROVE  Calm' /\ Stage'
  BY <1>1, <1>9, CommitTransactionSerial
<1>10. ASSUME UNCHANGED vars PROVE Calm' /\ Stage'
  BY <1>1, <1>10, StutterSerial
<1>11. Calm' /\ Stage'
  BY <1>3, <1>4, <1>5, <1>6, <1>7, <1>8, <1>9, <1>10 DEF Next, Engine
<1>12. QED
  BY <1>2, <1>11 DEF SerialInv

\* When nothing is in flight, the stage is the resting one.
LEMMA IdleRests ==
  ASSUME SerialInv, Idle
  PROVE  Resting /\ HeldIn(window, store, {})
         /\ (failures # 0 \/ Subscribed = {} \/ (Leads(window, <<>>, InScope(store)) /\ Agreed({})))
<1>1. Len(outbox) \in Nat /\ Len(ready) \in Nat /\ Len(reads) \in Nat
  BY StateFacts DEF SerialInv
<1>2. Len(outbox) = 0 /\ Len(ready) = 0 /\ Len(reads) = 0
  BY <1>1 DEF Idle, InFlight
<1>3. Resting
  BY <1>2, StageShape DEF SerialInv
<1>4. Known(store, {}) = InScope(store)
  BY DEF Known
<1>5. QED
  BY <1>3, <1>4 DEF Resting, At

\* What leads is the top of the query.
LEMMA LeadingIsTop ==
  ASSUME NEW w \in Windows, WellFormed(w), NEW S \in SUBSET Entry, Elems(w) \subseteq S,
         Leads(w, <<>>, S)
  PROVE  UNION {ToSet(rows) : rows \in FirstRows(S, Limit)} = Elems(w)
<1>1. ASSUME NEW rows \in FirstRows(S, Limit) PROVE ToSet(rows) = Elems(w)
  <2>1. /\ rows \in Seq(Entry) /\ Len(rows) <= Limit /\ Sorted(rows) /\ ToSet(rows) \subseteq S
        /\ Len(rows) < Limit => S \subseteq ToSet(rows)
        /\ \A x \in ToSet(rows), y \in S \ ToSet(rows) : Before(x, y)
    BY FirstRowsFacts, LimitAssumption
  <2>2. QED
    BY <2>1, LeadsIsTop
<1>2. w.entries \in FirstRows(S, Limit)
  BY LeadsIsFirst
<1>3. QED
  BY <1>1, <1>2

LEMMA SerialProperties ==
  ASSUME SerialInv
  PROVE  HeldRowsAreCurrent /\ NoThrow /\ WindowIsTop /\ ViewIsWindow
<1>1. /\ IInv /\ Calm /\ Stage
      /\ window \in Windows /\ WellFormed(window) /\ InScope(store) \in SUBSET Entry
  BY StateFacts DEF SerialInv
<1>2. NoThrow
  BY <1>1 DEF NoThrow, Calm
<1>3. HeldRowsAreCurrent
  <2>1. ASSUME Idle PROVE Elems(window) \subseteq InScope(store)
    BY <2>1, IdleRests DEF HeldIn
  <2>2. QED
    BY <2>1 DEF HeldRowsAreCurrent, Elems
<1>4. WindowIsTop
  <2> SUFFICES ASSUME Idle, seeded, failures = 0
               PROVE  ToSet(window.entries) = Top /\ matched = Ids(window)
    BY DEF WindowIsTop
  <2>1. Subscribed # {}
    BY <1>1 DEF Calm
  <2>2. HeldIn(window, store, {}) /\ Leads(window, <<>>, InScope(store)) /\ Agreed({})
    BY <2>1, IdleRests
  <2>3. Elems(window) \subseteq InScope(store)
    BY <2>2 DEF HeldIn
  <2>4. Top = Elems(window)
    BY <1>1, <2>2, <2>3, LeadingIsTop DEF Top
  <2>5. QED
    BY <2>2, <2>4 DEF Elems, Agreed
<1>5. ViewIsWindow
  <2> SUFFICES ASSUME Idle, failures = 0, NEW c \in Client, phase[c] = "in"
               PROVE  view[c] = Ids(window)
    BY DEF ViewIsWindow
  <2>1. Subscribed # {}
    BY DEF Subscribed
  <2>2. QED
    BY <2>1, IdleRests DEF Agreed
<1>6. QED
  BY <1>2, <1>3, <1>4, <1>5

LEMMA AlwaysSerial ==
  ASSUME OneAtATime
  PROVE  Spec => []SerialInv
<1>1. Init => SerialInv
  BY InitIInv, InitSerial DEF SerialInv
<1>2. SerialInv /\ [Next]_vars => SerialInv'
  BY NextSerial
<1>3. QED
  BY <1>1, <1>2, PTL DEF Spec

-----------------------------------------------------------------------------
(* The theorems about one operation at a time.                             *)

\* While writes and subscribes come one at a time and no transaction updates two
\* rows: when the engine has caught up, whatever reads were rejected on the way,
\* every row the window holds is in scope under the key storage has
\* (handleWindowedUpdate, backfillWindow and reconcileDemotion).
THEOREM HeldAlwaysCurrent ==
  ASSUME OneAtATime
  PROVE  Spec => []HeldRowsAreCurrent
<1>1. SerialInv => HeldRowsAreCurrent
  BY SerialProperties
<1>2. QED
  BY <1>1, AlwaysSerial, PTL

\* Under the same schedule no handler offers the window an id that it holds,
\* whatever reads are rejected: handleWindowedInsert, scopeInViaUpdate and
\* reconcileDemotion never meet insert's throw.
THEOREM NeverThrows ==
  ASSUME OneAtATime
  PROVE  Spec => []NoThrow
<1>1. SerialInv => NoThrow
  BY SerialProperties
<1>2. QED
  BY <1>1, AlwaysSerial, PTL

\* Under the same schedule, for every limit, orderBy and number of rows and
\* subscribers: when the engine has caught up and no read was rejected, the
\* window is the first rows of the query in storage, and the graph has matched
\* exactly those. Evictions, scope-outs, backfills and demotions together lose
\* no row and keep none too long.
THEOREM WindowAlwaysTop ==
  ASSUME OneAtATime
  PROVE  Spec => []WindowIsTop
<1>1. SerialInv => WindowIsTop
  BY SerialProperties
<1>2. QED
  BY <1>1, AlwaysSerial, PTL

\* Under the same schedule each subscriber that was answered holds exactly what
\* the window holds: its reply and the deltas of emitToSubscribers add up,
\* whenever it joined.
THEOREM ViewAlwaysWindow ==
  ASSUME OneAtATime
  PROVE  Spec => []ViewIsWindow
<1>1. SerialInv => ViewIsWindow
  BY SerialProperties
<1>2. QED
  BY <1>1, AlwaysSerial, PTL
=============================================================================
