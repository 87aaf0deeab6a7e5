--------------------------- MODULE ClientSyncProofs ---------------------------
(***************************************************************************)
(* For any rows, mutations, writes of others, lost connections and reloads *)
(* the state has its type, the client's confirmed values are behind the    *)
(* server's, and what the server has reaches a subscribed client. If the   *)
(* page mutates only when its storage has loaded, what it shows is the     *)
(* server's rows with the pending writes on top, every pending write has   *)
(* somebody to settle it, and the page converges.                          *)
(***************************************************************************)
EXTENDS ClientSync, SequenceTheorems, WellFoundedInduction, TLAPS

\* A non-empty set of naturals has a least element.
LEMMA LeastNatural ==
  ASSUME NEW M, M \subseteq Nat, M # {}
  PROVE  \E m \in M : \A k \in M : m <= k
<1> DEFINE R == OpToRel(<, Nat)
<1>1. \A a \in Nat : \A b \in Nat : a < b => <<a, b>> \in R
  BY DEF OpToRel
<1>2. IsWellFoundedOn(R, Nat)
  BY NatLessThanWellFounded
<1> HIDE DEF R
<1>3. PICK x \in M : \A y \in M : ~(<<y, x>> \in R)
  BY <1>2, WFMin, Zenon
<1>4. ASSUME NEW y \in M PROVE x <= y
  <2>1. ~(<<y, x>> \in R)
    BY <1>3
  <2>2. x \in Nat /\ y \in Nat
    OBVIOUS
  <2>3. ~(y < x)
    BY <2>1, <2>2, <1>1
  <2>4. QED
    BY <2>2, <2>3
<1>5. QED
  BY <1>4

-----------------------------------------------------------------------------
(* Entries and overlays.                                                   *)

\* An entry predicts a write of its mutation.
LEMMA EntryFacts ==
  ASSUME NEW e \in Entry
  PROVE  /\ e.msg \in Message /\ e.k \in DOMAIN Ops[e.msg]
         /\ RowOf(e) \in Row /\ OpOf(e) \in {"INSERT", "UPDATE"}
<1>1. PICK m \in Message : e \in {[msg |-> m, k |-> k] : k \in DOMAIN Ops[m]}
  BY DEF Entry
<1>2. PICK k \in DOMAIN Ops[m] : e = [msg |-> m, k |-> k]
  BY <1>1
<1>3. Ops[m] \in Seq(Write)
  BY ClientAssumption
<1>4. Ops[m][k] \in Write
  BY <1>3
<1>5. QED
  BY <1>2, <1>4 DEF RowOf, OpOf, Write

\* The overlay exists: of the writes merged, one is the last, since the numbers of
\* writes are bounded.
LEMMA OverlayIsNatural ==
  ASSUME NEW r \in Row, NEW rw \in [Row -> Nat], NEW st \in SUBSET Entry
  PROVE  Overlay(r, rw, st) \in Nat
<1> DEFINE merged == {rw[r]} \cup {e.msg : e \in {f \in st : RowOf(f) = r}}
           b == rw[r] + MaxTime
           M == {b - u : u \in merged}
<1>1. rw[r] \in Nat /\ MaxTime \in Nat
  BY ClientAssumption
<1>2. ASSUME NEW u \in merged PROVE u \in Nat /\ u <= b
  <2>1. CASE u = rw[r]
    BY <1>1, <2>1
  <2>2. CASE u \in {e.msg : e \in {f \in st : RowOf(f) = r}}
    <3>1. u \in Message
      BY <2>2, EntryFacts
    <3>2. u \in 1..MaxTime
      BY <3>1, ClientAssumption
    <3>3. QED
      BY <1>1, <3>2
  <2>3. QED
    BY <2>1, <2>2
<1>3. rw[r] \in merged /\ b \in Nat
  BY <1>1
<1> HIDE DEF merged, b
<1>4. M \subseteq Nat /\ M # {}
  BY <1>2, <1>3
<1>5. PICK l \in M : \A k \in M : l <= k
  BY <1>4, LeastNatural
<1>6. PICK v \in merged : l = b - v
  BY <1>5
<1>7. ASSUME NEW u \in merged PROVE u <= v
  <2>1. b - v <= b - u
    BY <1>5, <1>6
  <2>2. QED
    BY <1>2, <1>3, <2>1
<1>8. \E x \in merged : \A u \in merged : u <= x
  BY <1>7
<1>9. Overlay(r, rw, st) = CHOOSE x \in merged : \A u \in merged : u <= x
  BY DEF Overlay, merged
<1>10. Overlay(r, rw, st) \in merged
  BY <1>8, <1>9
<1>11. QED
  BY <1>2, <1>10

\* The overlay of a row depends on the row's own value and entries only.
LEMMA OverlayIsLocal ==
  ASSUME NEW r, NEW rw1, NEW rw2, NEW st1, NEW st2, rw1[r] = rw2[r],
         \A e : RowOf(e) = r => (e \in st1 <=> e \in st2)
  PROVE  Overlay(r, rw1, st1) = Overlay(r, rw2, st2)
<1>1. {f \in st1 : RowOf(f) = r} = {f \in st2 : RowOf(f) = r}
  OBVIOUS
<1>2. QED
  BY <1>1 DEF Overlay

LEMMA RefreshedType ==
  ASSUME NEW rs, NEW rw \in [Row -> Nat], NEW st \in SUBSET Entry, shown \in [Row -> Nat]
  PROVE  Refreshed(rs, rw, st) \in [Row -> Nat]
BY OverlayIsNatural DEF Refreshed

-----------------------------------------------------------------------------
(* Types.                                                                  *)

Disk == [rows : [Row -> Nat], stack : SUBSET Entry, saved : BOOLEAN,
         index : SUBSET Message, queue : SUBSET Message]

LEMMA EntriesAreEntries ==
  ASSUME NEW m PROVE EntriesOf(m) \subseteq Entry
BY DEF EntriesOf

LEMMA LatestType ==
  ASSUME NEW a \in Nat, NEW b \in Nat
  PROVE  Latest(a, b) \in Nat /\ Latest(a, b) >= a /\ Latest(a, b) >= b
         /\ Latest(a, b) \in {a, b}
BY DEF Latest

LEMMA SettleType ==
  ASSUME TypeOK, NEW m \in Message, Settle(m)
  PROVE  /\ stack' \subseteq Entry /\ index' \subseteq Message /\ queue' \subseteq Message
         /\ raw' = raw /\ shown' \in [Row -> Nat] /\ disk' \in Disk
<1>1. CASE m \notin index
  BY <1>1 DEF Settle, TypeOK, Disk
<1>2. CASE m \in index
  <2> DEFINE gone == stack \cap EntriesOf(m)
  <2>1. /\ stack' = stack \ gone /\ index' = index \ {m} /\ queue' = queue \ {m}
        /\ shown' = Refreshed(RowsOf(gone), raw, stack')
        /\ Save([disk EXCEPT !.stack = IF gone = {} THEN @ ELSE stack',
                             !.saved = @ \/ gone # {},
                             !.index = index', !.queue = queue'])
        /\ raw' = raw
    BY <1>2 DEF Settle
  <2> HIDE DEF gone
  <2>2. stack' \in SUBSET Entry /\ index' \subseteq Message /\ queue' \subseteq Message
    BY <2>1 DEF TypeOK
  <2>3. shown' \in [Row -> Nat]
    BY <2>1, <2>2, RefreshedType DEF TypeOK
  <2>4. disk' \in Disk
    BY <2>1, <2>2 DEF TypeOK, Save, Disk
  <2>5. QED
    BY <2>1, <2>2, <2>3, <2>4
<1>3. QED
  BY <1>1, <1>2

LEMMA ConsolidateType ==
  ASSUME TypeOK, NEW loaded \in [Row -> Nat], Consolidate(loaded)
  PROVE  raw' \in [Row -> Nat] /\ (stack' = stack => shown' \in [Row -> Nat] /\ disk' \in Disk)
<1> DEFINE given == {r \in Row : loaded[r] # None}
<1>1. /\ raw' = [r \in Row |-> Latest(raw[r], loaded[r])]
      /\ shown' = Refreshed(given, raw', stack)
      /\ Save([disk EXCEPT !.rows = [r \in Row |-> IF r \in given THEN raw'[r] ELSE @[r]],
                          !.stack = IF given = {} THEN @ ELSE stack,
                          !.saved = @ \/ given # {}])
  BY DEF Consolidate
<1> HIDE DEF given
<1>2. raw' \in [Row -> Nat]
  BY <1>1, LatestType DEF TypeOK
<1>3. shown' \in [Row -> Nat]
  BY <1>1, <1>2, RefreshedType DEF TypeOK
<1>4. [r \in Row |-> IF r \in given THEN raw'[r] ELSE disk.rows[r]] \in [Row -> Nat]
  BY <1>2 DEF TypeOK
<1>5. disk' \in Disk
  BY <1>1, <1>4 DEF TypeOK, Save, Disk
<1>6. QED
  BY <1>2, <1>3, <1>5

LEMMA ReplayType ==
  ASSUME TypeOK, NEW q \in SUBSET Message, Replay(q)
  PROVE  inbox' \in [Message -> Nat] /\ handlers' \subseteq Message
<1>1. inbox \in [Message -> Nat] /\ handlers \subseteq Message
  BY DEF TypeOK
<1>2. CASE online'
  <2>1. /\ inbox' = [m \in Message |-> inbox[m] + IF m \in q THEN 1 ELSE 0]
        /\ handlers' = handlers \cup q
    BY <1>2 DEF Replay
  <2>2. ASSUME NEW m \in Message PROVE (inbox[m] + IF m \in q THEN 1 ELSE 0) \in Nat
    BY <1>1
  <2>3. inbox' \in [Message -> Nat]
    BY <2>1, <2>2
  <2>4. QED
    BY <1>1, <2>1, <2>3
<1>3. CASE ~online'
  BY <1>1, <1>3 DEF Replay
<1>4. QED
  BY <1>2, <1>3

LEMMA TellType ==
  ASSUME TypeOK, NEW ds \in Seq(Delivered), Tell(ds)
  PROVE  deltas' \in Seq(Delivered)
BY ConcatProperties DEF Tell, TypeOK

LEMMA InitType == Init => TypeOK
<1> SUFFICES ASSUME Init PROVE TypeOK
  OBVIOUS
<1>1. Blank \in [Row -> Nat]
  BY DEF Blank, None
<1>2. deltas \in Seq(Delivered)
  BY DEF Init
<1>3. inbox \in [Message -> Nat]
  BY DEF Init
<1>4. rows \in [Row -> Nat] /\ breaks \in 0..MaxBreaks
  BY ClientAssumption DEF Init
<1>5. QED
  BY <1>1, <1>2, <1>3, <1>4 DEF Init, TypeOK

LEMMA WriteFacts ==
  ASSUME NEW m \in Message, NEW i \in DOMAIN Ops[m]
  PROVE  /\ Len(Ops[m]) \in Nat /\ DOMAIN Ops[m] = 1..Len(Ops[m])
         /\ Ops[m][i].op \in {"INSERT", "UPDATE"} /\ Ops[m][i].row \in Row
<1>1. Ops[m] \in Seq(Write)
  BY ClientAssumption
<1>2. Ops[m][i] \in Write
  BY <1>1
<1>3. QED
  BY <1>1, <1>2 DEF Write

LEMMA MessageIsNatural ==
  ASSUME NEW m \in Message PROVE m \in Nat
<1>1. m \in 1..MaxTime /\ MaxTime \in Nat
  BY ClientAssumption
<1>2. QED
  BY <1>1

LEMMA PerformType ==
  ASSUME TypeOK, NEW m \in Message, NEW n \in 0..Len(Ops[m]), Perform(m, n)
  PROVE  rows' \in [Row -> Nat] /\ deltas' \in Seq(Delivered)
<1> DEFINE left(i) == Latest(rows[Ops[m][i].row], m)
           ds == [i \in 1..n |-> Delta(Ops[m][i].op, Ops[m][i].row, left(i), m)]
<1>1. rows \in [Row -> Nat] /\ m \in Nat
  BY MessageIsNatural DEF TypeOK
<1>2. /\ rows' = [r \in Row |-> IF \E i \in 1..n : Ops[m][i].row = r
                                THEN Latest(rows[r], m) ELSE rows[r]]
      /\ Tell(ds)
  BY DEF Perform
<1>3. rows' \in [Row -> Nat]
  BY <1>1, <1>2, LatestType
<1>4. ASSUME NEW i \in 1..n
      PROVE  Delta(Ops[m][i].op, Ops[m][i].row, left(i), m) \in Delivered
  <2>1. Ops[m] \in Seq(Write)
    BY ClientAssumption
  <2>2. i \in DOMAIN Ops[m]
    BY <2>1
  <2>3. Ops[m][i].op \in {"INSERT", "UPDATE"} /\ Ops[m][i].row \in Row
    BY <2>2, WriteFacts
  <2>4. left(i) \in Nat
    BY <1>1, <2>3, LatestType
  <2>5. Copies \in Nat
    BY ClientAssumption
  <2> HIDE DEF left
  <2>6. QED
    BY <2>3, <2>4, <2>5 DEF Delta, Delivered
<1> HIDE DEF left
<1>5. n \in Nat
  BY ClientAssumption
<1>6. ds \in Seq(Delivered)
  BY <1>4, <1>5
<1> HIDE DEF ds
<1>7. QED
  BY <1>2, <1>3, <1>6, TellType

LEMMA BreakType ==
  ASSUME TypeOK, NEW received \in SUBSET Message, Break(received)
  PROVE  /\ breaks' \in 0..MaxBreaks /\ online' = FALSE /\ subscribed' = FALSE
         /\ deltas' \in Seq(Delivered) /\ answers' \subseteq Answer
         /\ inbox' \in [Message -> Nat] /\ stray' \subseteq Message
<1>1. MaxBreaks \in Nat
  BY ClientAssumption
<1>2. breaks' \in 0..MaxBreaks
  BY <1>1 DEF TypeOK, Break
<1>3. inbox' \in [Message -> Nat]
  BY DEF Break
<1>4. QED
  BY <1>2, <1>3 DEF TypeOK, Break

\* Every action keeps the types.
LEMMA TypeStep ==
  ASSUME TypeOK, [Next]_vars PROVE TypeOK'
<1> USE DEF memory, wire, server, history
<1>1. CASE LoadStacks
  <2>1. /\ phase' = "stacks"
        /\ stack' = (IF disk.saved THEN disk.stack ELSE stack)
        /\ index' = (IF disk.index # {} THEN disk.index ELSE index)
        /\ queue' = (IF disk.queue # {} THEN disk.queue ELSE queue)
        /\ Replay(queue')
        /\ restored' = (IF disk.saved THEN {e.msg : e \in disk.stack} ELSE {})
        /\ UNCHANGED <<online, issued, raw, shown, disk, subscribed, stray, deltas, answers,
                       server, breaks, abandoned>>
    BY <1>1 DEF LoadStacks
  <2>2. /\ disk.stack \subseteq Entry /\ disk.index \subseteq Message
        /\ disk.queue \subseteq Message
    BY DEF TypeOK
  <2>3. stack' \subseteq Entry /\ index' \subseteq Message /\ queue' \subseteq Message
    BY <2>1, <2>2 DEF TypeOK
  <2>4. inbox' \in [Message -> Nat] /\ handlers' \subseteq Message
    BY <2>1, <2>3, ReplayType
  <2>5. restored' \subseteq Message
    BY <2>1, <2>2, EntryFacts
  <2>6. QED
    BY <2>1, <2>3, <2>4, <2>5 DEF TypeOK
<1>2. CASE LoadRows
  <2>1. phase' = "ready" /\ Consolidate(disk.rows)
        /\ UNCHANGED <<issued, stack, index, queue, handlers, wire, server, history>>
    BY <1>2 DEF LoadRows
  <2>2. disk.rows \in [Row -> Nat]
    BY DEF TypeOK
  <2>3. raw' \in [Row -> Nat] /\ shown' \in [Row -> Nat] /\ disk' \in Disk
    BY <2>1, <2>2, ConsolidateType
  <2>4. QED
    BY <2>1, <2>3 DEF TypeOK, Disk
<1>3. CASE Connect
  <2>1. online' = TRUE /\ Replay(queue)
        /\ UNCHANGED <<issued, stack, index, queue, raw, shown, phase, disk, subscribed,
                       stray, deltas, answers, server, history>>
    BY <1>3 DEF Connect
  <2>2. inbox' \in [Message -> Nat] /\ handlers' \subseteq Message
    BY <2>1, ReplayType DEF TypeOK
  <2>3. QED
    BY <2>1, <2>2 DEF TypeOK
<1>4. CASE ReceiveDelta
  <2> DEFINE d == deltas[1]
             gone == Matched(d)
  <2>1. /\ deltas # <<>>
        /\ deltas' = IF d.copies > 1 THEN [deltas EXCEPT ![1].copies = @ - 1]
                     ELSE Tail(deltas)
        /\ stack' = stack \ gone
        /\ raw' = [raw EXCEPT ![d.row] = Latest(@, d.value)]
        /\ shown' = Refreshed({d.row} \cup RowsOf(gone), raw', stack')
        /\ Save([disk EXCEPT !.rows = [@ EXCEPT ![d.row] = raw'[d.row]],
                              !.stack = stack', !.saved = TRUE])
        /\ UNCHANGED <<issued, index, queue, handlers, phase, online, subscribed, inbox, stray,
                       answers, server, history>>
    BY <1>4 DEF ReceiveDelta
  <2>2. deltas \in Seq(Delivered) /\ d \in Delivered
    BY <2>1 DEF TypeOK
  <2>3. d.row \in Row /\ d.value \in Nat /\ d.copies \in Nat
    BY <2>2 DEF Delivered
  <2>5. deltas' \in Seq(Delivered)
    <3>1. CASE d.copies > 1
      <4> DEFINE x == [d EXCEPT !.copies = @ - 1]
      <4>1. d.copies - 1 \in Nat
        BY <2>3, <3>1
      <4>2. x \in Delivered
        BY <2>2, <4>1 DEF Delivered
      <4>3. deltas' = [deltas EXCEPT ![1] = x]
        BY <2>1, <3>1
      <4> HIDE DEF x, d
      <4>4. QED
        BY <2>1, <2>2, <4>2, <4>3
    <3>2. CASE ~(d.copies > 1)
      BY <2>1, <2>2, <3>2
    <3>3. QED
      BY <3>1, <3>2
  <2> HIDE DEF d, gone
  <2>6. stack' \in SUBSET Entry
    BY <2>1 DEF TypeOK
  <2>7. raw' \in [Row -> Nat]
    BY <2>1, <2>3, LatestType DEF TypeOK
  <2>8. shown' \in [Row -> Nat]
    BY <2>1, <2>6, <2>7, RefreshedType DEF TypeOK
  <2>9. [disk.rows EXCEPT ![d.row] = raw'[d.row]] \in [Row -> Nat]
    BY <2>3, <2>7 DEF TypeOK
  <2>10. disk' \in Disk
    BY <2>1, <2>6, <2>9 DEF TypeOK, Save, Disk
  <2>11. QED
    BY <2>1, <2>5, <2>6, <2>7, <2>8, <2>10 DEF TypeOK, Disk
<1>5. CASE ReceiveAnswer
  <2>1. PICK a \in answers : answers' = answers \ {a} /\ (ReceiveVerdict(a) \/ ReceiveLoad(a))
    BY <1>5 DEF ReceiveAnswer
  <2>2. UNCHANGED <<issued, phase, online, subscribed, inbox, stray, deltas, server, history>>
    BY <1>5 DEF ReceiveAnswer
  <2>3. a \in Answer
    BY DEF TypeOK
  <2>4. CASE ReceiveVerdict(a)
    <3>1. a.kind = "VERDICT" /\ handlers' = handlers \ {a.msg}
      BY <2>4 DEF ReceiveVerdict
    <3>2. a.msg \in Message
      BY <2>3, <3>1 DEF Answer
    <3>3. CASE a.msg \in handlers
      <4>1. Settle(a.msg)
        BY <2>4, <3>3 DEF ReceiveVerdict
      <4>2. QED
        BY <2>1, <2>2, <3>1, <3>2, <4>1, SettleType DEF TypeOK, Disk
    <3>4. CASE a.msg \notin handlers
      BY <2>1, <2>2, <2>4, <3>1, <3>4 DEF ReceiveVerdict, TypeOK
    <3>5. QED
      BY <3>3, <3>4
  <2>5. CASE ReceiveLoad(a)
    <3>1. a.kind = "LOAD" /\ Consolidate(a.rows) /\ UNCHANGED <<stack, index, queue, handlers>>
      BY <2>5 DEF ReceiveLoad
    <3>2. a.rows \in [Row -> Nat]
      BY <2>3, <3>1 DEF Answer
    <3>3. raw' \in [Row -> Nat] /\ shown' \in [Row -> Nat] /\ disk' \in Disk
      BY <3>1, <3>2, ConsolidateType
    <3>4. QED
      BY <2>1, <2>2, <3>1, <3>3 DEF TypeOK, Disk
  <2>6. QED
    BY <2>1, <2>4, <2>5
<1>6. ASSUME NEW m \in Message, Mutate(m) PROVE TypeOK'
  <2>1. /\ issued' = issued \cup {m}
        /\ stack' = stack \cup EntriesOf(m)
        /\ index' = index \cup {m}
        /\ shown' = Refreshed(RowsOf(EntriesOf(m)), raw, stack')
        /\ Save([disk EXCEPT !.stack = stack', !.saved = TRUE, !.index = index',
                              !.queue = IF online THEN @ ELSE queue'])
        /\ UNCHANGED <<raw, phase, online, subscribed, stray, deltas, answers, server, history>>
    BY <1>6 DEF Mutate
  <2> DEFINE q == IF online THEN disk.queue ELSE queue'
  <2>3. /\ inbox' \in [Message -> Nat] /\ handlers' \subseteq Message
        /\ queue' \subseteq Message /\ q \subseteq Message
    <3>1. CASE online
      <4>1. /\ inbox' = [inbox EXCEPT ![m] = @ + 1] /\ handlers' = handlers \cup {m}
            /\ queue' = queue
        BY <1>6, <3>1 DEF Mutate
      <4>2. inbox[m] + 1 \in Nat
        BY DEF TypeOK
      <4>3. inbox' \in [Message -> Nat]
        BY <4>1, <4>2 DEF TypeOK
      <4>4. QED
        BY <3>1, <4>1, <4>3 DEF TypeOK
    <3>2. CASE ~online
      BY <1>6, <3>2 DEF Mutate, TypeOK
    <3>3. QED
      BY <3>1, <3>2
  <2>4. stack' \in SUBSET Entry /\ index' \subseteq Message
    BY <2>1, EntriesAreEntries DEF TypeOK
  <2>5. shown' \in [Row -> Nat]
    BY <2>1, <2>4, RefreshedType DEF TypeOK
  <2>6. disk' \in Disk
    <3>1. Save([disk EXCEPT !.stack = stack', !.saved = TRUE, !.index = index', !.queue = q])
      BY <2>1
    <3> HIDE DEF q
    <3>2. QED
      BY <2>3, <2>4, <3>1 DEF TypeOK, Save, Disk
  <2>7. QED
    BY <2>1, <2>3, <2>4, <2>5, <2>6 DEF TypeOK, Disk
<1>7. ASSUME NEW m \in Message, Timeout(m) PROVE TypeOK'
  <2>1. handlers' = handlers \ {m} /\ Settle(m)
        /\ UNCHANGED <<issued, phase, wire, server, history>>
    BY <1>7 DEF Timeout
  <2>2. QED
    BY <2>1, SettleType DEF TypeOK, Disk
<1>8. ASSUME NEW m \in Message, Execute(m) PROVE TypeOK'
  <2>1. PICK n \in 0..Len(Ops[m]) : Perform(m, n)
    BY <1>8 DEF Execute
  <2>2. rows' \in [Row -> Nat] /\ deltas' \in Seq(Delivered)
    BY <2>1, PerformType
  <2>3. UNCHANGED <<issued, memory, phase, disk, online, subscribed, told, history>>
    BY <1>8 DEF Execute
  <2>4. inbox' \in [Message -> Nat] /\ stray' \subseteq Message /\ answers' \subseteq Answer
    <3>1. CASE /\ inbox[m] > 0
               /\ inbox' = [inbox EXCEPT ![m] = @ - 1]
               /\ answers' = answers \cup {[kind |-> "VERDICT", msg |-> m]}
               /\ UNCHANGED stray
      <4>1. inbox[m] - 1 \in Nat
        BY <3>1 DEF TypeOK
      <4>2. [kind |-> "VERDICT", msg |-> m] \in Answer
        BY DEF Answer
      <4>3. QED
        BY <3>1, <4>1, <4>2 DEF TypeOK
    <3>2. CASE m \in stray /\ stray' = stray \ {m} /\ UNCHANGED <<inbox, answers>>
      BY <3>2 DEF TypeOK
    <3>3. QED
      BY <1>8, <3>1, <3>2 DEF Execute
  <2>5. QED
    BY <2>2, <2>3, <2>4 DEF TypeOK
<1>9. CASE Disconnect
  <2>1. PICK received \in SUBSET {m \in Message : inbox[m] > 0} : Break(received)
    BY <1>9 DEF Disconnect
  <2>2. received \in SUBSET Message
    BY <2>1
  <2>3. UNCHANGED <<issued, memory, phase, disk, server, abandoned, restored>>
    BY <1>9 DEF Disconnect
  <2>4. QED
    BY <2>1, <2>2, <2>3, BreakType DEF TypeOK
<1>10. CASE Reload
  <2>1. PICK received \in SUBSET {m \in Message : inbox[m] > 0} : Break(received)
    BY <1>10 DEF Reload
  <2>2. received \in SUBSET Message
    BY <2>1
  <2>3. /\ abandoned' = abandoned \cup (handlers \ queue)
        /\ stack' = {} /\ index' = {} /\ queue' = {} /\ handlers' = {}
        /\ raw' = Blank /\ shown' = Blank /\ phase' = "opening"
        /\ UNCHANGED <<issued, disk, server, restored>>
    BY <1>10 DEF Reload
  <2>4. Blank \in [Row -> Nat]
    BY DEF Blank, None
  <2>5. QED
    BY <2>1, <2>2, <2>3, <2>4, BreakType DEF TypeOK
<1>11. CASE Subscribe
  <2>1. [kind |-> "LOAD", rows |-> rows] \in Answer
    BY DEF Answer, TypeOK
  <2>2. QED
    BY <1>11, <2>1 DEF Subscribe, TypeOK
<1>12. ASSUME NEW f \in DOMAIN Foreign, ForeignWrite(f) PROVE TypeOK'
  <2> DEFINE d == Delta("UPDATE", Foreign[f], rows'[Foreign[f]], None)
  <2>1. /\ told' = told \cup {f}
        /\ rows' = [rows EXCEPT ![Foreign[f]] = Latest(@, f)]
        /\ Tell(<<d>>)
        /\ UNCHANGED <<issued, memory, phase, disk, online, subscribed, inbox, stray, answers,
                       history>>
    BY <1>12 DEF ForeignWrite
  <2>2. Foreign[f] \in Row /\ f \in Nat /\ Copies \in Nat
    BY ClientAssumption
  <2>3. rows' \in [Row -> Nat]
    BY <2>1, <2>2, LatestType DEF TypeOK
  <2>4. d \in Delivered
    BY <2>2, <2>3 DEF Delta, Delivered
  <2> HIDE DEF d
  <2>5. <<d>> \in Seq(Delivered)
    BY <2>4
  <2>6. deltas' \in Seq(Delivered)
    BY <2>1, <2>5, TellType
  <2>7. QED
    BY <2>1, <2>3, <2>6 DEF TypeOK
<1>13. CASE UNCHANGED vars
  BY <1>13 DEF vars, TypeOK
<1>14. QED
  BY <1>1, <1>2, <1>3, <1>4, <1>5, <1>6, <1>7, <1>8, <1>9, <1>10, <1>11, <1>12, <1>13
     DEF Next

-----------------------------------------------------------------------------
(* Confirmed values.                                                       *)

DeltasAreBehind(ds, rw) == \A i \in DOMAIN ds : ds[i].value <= rw[ds[i].row]

\* What is on its way to the client is no further than the server either.
MessagesAreBehind ==
  /\ DeltasAreBehind(deltas, rows)
  /\ \A a \in answers : a.kind = "LOAD" => \A r \in Row : a.rows[r] <= rows[r]

Behind == ConfirmedIsBehind /\ MessagesAreBehind

LEMMA SettleRows ==
  ASSUME TypeOK, NEW m, Settle(m)
  PROVE  raw' = raw /\ disk'.rows = disk.rows
BY DEF Settle, Save, TypeOK

LEMMA ConsolidateBehind ==
  ASSUME TypeOK, Behind, NEW loaded \in [Row -> Nat], Consolidate(loaded),
         \A r \in Row : loaded[r] <= rows[r]
  PROVE  \A r \in Row : raw'[r] <= rows[r] /\ disk'.rows[r] <= rows[r]
<1> DEFINE given == {r \in Row : loaded[r] # None}
           kept == [r \in Row |-> IF r \in given THEN raw'[r] ELSE disk.rows[r]]
<1>1. raw' = [r \in Row |-> Latest(raw[r], loaded[r])]
  BY DEF Consolidate
<1>2. Save([disk EXCEPT !.rows = kept, !.stack = IF given = {} THEN @ ELSE stack,
                        !.saved = @ \/ given # {}])
  BY DEF Consolidate
<1>3. ASSUME NEW r \in Row
      PROVE  /\ raw[r] \in Nat /\ loaded[r] \in Nat /\ rows[r] \in Nat
             /\ raw[r] <= rows[r] /\ disk.rows[r] <= rows[r]
  BY DEF TypeOK, Behind, ConfirmedIsBehind
<1>4. ASSUME NEW r \in Row PROVE raw'[r] <= rows[r]
  BY <1>1, <1>3 DEF Latest
<1>5. ASSUME NEW r \in Row PROVE kept[r] <= rows[r]
  BY <1>3, <1>4
<1> HIDE DEF given, kept
<1>6. disk'.rows = disk.rows \/ disk'.rows = kept
  BY <1>2 DEF Save, TypeOK
<1>7. QED
  BY <1>3, <1>4, <1>5, <1>6

LEMMA TellBehind ==
  ASSUME TypeOK, NEW ds \in Seq(Delivered), Tell(ds), NEW rw,
         DeltasAreBehind(deltas, rw), DeltasAreBehind(ds, rw)
  PROVE  DeltasAreBehind(deltas', rw)
<1>1. deltas \in Seq(Delivered)
  BY DEF TypeOK
<1>2. CASE subscribed
  <2>1. deltas' = deltas \o ds
    BY <1>2 DEF Tell
  <2> DEFINE n == Len(deltas)
  <2>2. ASSUME NEW i \in DOMAIN deltas'
        PROVE  deltas'[i].value <= rw[deltas'[i].row]
    <3>1. /\ n \in Nat /\ Len(ds) \in Nat /\ i \in 1..n + Len(ds)
          /\ deltas'[i] = IF i <= n THEN deltas[i] ELSE ds[i - n]
      BY <1>1, <2>1, ConcatProperties
    <3>2. CASE i <= n
      <4>1. i \in DOMAIN deltas /\ deltas'[i] = deltas[i]
        BY <1>1, <3>1, <3>2
      <4>2. QED
        BY <4>1 DEF DeltasAreBehind
    <3>3. CASE ~(i <= n)
      <4>1. i - n \in DOMAIN ds /\ deltas'[i] = ds[i - n]
        BY <3>1, <3>3
      <4>2. QED
        BY <4>1 DEF DeltasAreBehind
    <3>4. QED
      BY <3>2, <3>3
  <2>3. QED
    BY <2>2 DEF DeltasAreBehind
<1>3. CASE ~subscribed
  BY <1>3 DEF Tell
<1>4. QED
  BY <1>2, <1>3

\* The server's rows only advance, and what was behind them stays behind.
LEMMA RowsAdvance ==
  ASSUME TypeOK, Behind, rows' \in [Row -> Nat], \A r \in Row : rows[r] <= rows'[r]
  PROVE  /\ \A r \in Row : raw[r] <= rows'[r] /\ disk.rows[r] <= rows'[r]
         /\ DeltasAreBehind(deltas, rows')
         /\ \A a \in answers : a.kind = "LOAD" => \A r \in Row : a.rows[r] <= rows'[r]
<1>1. ASSUME NEW r \in Row, NEW v \in Nat, v <= rows[r] PROVE v <= rows'[r]
  <2>1. rows[r] \in Nat /\ rows'[r] \in Nat /\ rows[r] <= rows'[r]
    BY DEF TypeOK
  <2>2. QED
    BY <1>1, <2>1
<1>2. \A r \in Row : raw[r] <= rows'[r] /\ disk.rows[r] <= rows'[r]
  BY <1>1 DEF TypeOK, Behind, ConfirmedIsBehind
<1>3. ASSUME NEW i \in DOMAIN deltas PROVE deltas[i].value <= rows'[deltas[i].row]
  <2>1. deltas[i] \in Delivered
    BY DEF TypeOK
  <2>2. deltas[i].row \in Row /\ deltas[i].value \in Nat
    BY <2>1 DEF Delivered
  <2>3. deltas[i].value <= rows[deltas[i].row]
    BY DEF Behind, MessagesAreBehind, DeltasAreBehind
  <2>4. QED
    BY <1>1, <2>2, <2>3
<1>4. ASSUME NEW a \in answers, a.kind = "LOAD", NEW r \in Row PROVE a.rows[r] <= rows'[r]
  <2>1. a \in Answer
    BY DEF TypeOK
  <2>2. a.rows[r] \in Nat
    BY <1>4, <2>1 DEF Answer
  <2>3. a.rows[r] <= rows[r]
    BY <1>4 DEF Behind, MessagesAreBehind
  <2>4. QED
    BY <1>1, <2>2, <2>3
<1>5. QED
  BY <1>2, <1>3, <1>4 DEF DeltasAreBehind

LEMMA PerformBehind ==
  ASSUME TypeOK, Behind, NEW m \in Message, NEW n \in 0..Len(Ops[m]), Perform(m, n)
  PROVE  (\A r \in Row : rows[r] <= rows'[r]) /\ DeltasAreBehind(deltas', rows')
<1> DEFINE left(i) == Latest(rows[Ops[m][i].row], m)
           ds == [i \in 1..n |-> Delta(Ops[m][i].op, Ops[m][i].row, left(i), m)]
<1>1. rows \in [Row -> Nat] /\ m \in Nat /\ rows' \in [Row -> Nat]
  BY MessageIsNatural, PerformType DEF TypeOK
<1>2. /\ rows' = [r \in Row |-> IF \E i \in 1..n : Ops[m][i].row = r
                                THEN Latest(rows[r], m) ELSE rows[r]]
      /\ Tell(ds)
  BY DEF Perform
<1>3. \A r \in Row : rows[r] <= rows'[r]
  BY <1>1, <1>2, LatestType
<1>4. ASSUME NEW i \in 1..n
      PROVE  /\ ds[i] \in Delivered /\ ds[i].value <= rows'[ds[i].row]
  <2>1. Ops[m] \in Seq(Write) /\ Copies \in Nat
    BY ClientAssumption
  <2>2. i \in DOMAIN Ops[m]
    BY <2>1
  <2>3. Ops[m][i].op \in {"INSERT", "UPDATE"} /\ Ops[m][i].row \in Row
    BY <2>2, WriteFacts
  <2>4. left(i) \in Nat /\ rows'[Ops[m][i].row] = left(i)
    BY <1>1, <1>2, <2>3, LatestType
  <2> HIDE DEF left
  <2>5. ds[i] = Delta(Ops[m][i].op, Ops[m][i].row, left(i), m)
    OBVIOUS
  <2> HIDE DEF ds
  <2>6. ds[i].value = left(i) /\ ds[i].row = Ops[m][i].row
    BY <2>5 DEF Delta
  <2>7. ds[i] \in Delivered
    BY <2>1, <2>3, <2>4, <2>5 DEF Delta, Delivered
  <2>8. QED
    BY <2>4, <2>6, <2>7
<1>5. n \in Nat /\ DOMAIN ds = 1..n /\ ds = [i \in 1..n |-> ds[i]]
  BY ClientAssumption
<1> HIDE DEF ds
<1>6. ds \in Seq(Delivered) /\ DeltasAreBehind(ds, rows')
  BY <1>4, <1>5 DEF DeltasAreBehind
<1>7. DeltasAreBehind(deltas, rows')
  BY <1>1, <1>3, RowsAdvance
<1>8. QED
  BY <1>2, <1>3, <1>6, <1>7, TellBehind

LEMMA InitBehind == Init => Behind
<1> SUFFICES ASSUME Init PROVE Behind
  OBVIOUS
<1>1. \A r \in Row : rows[r] \in Nat /\ raw[r] = 0 /\ disk.rows[r] = 0
  BY ClientAssumption DEF Init, Blank, None
<1>2. ASSUME NEW r \in Row PROVE raw[r] <= rows[r] /\ disk.rows[r] <= rows[r]
  <2>1. rows[r] \in Nat /\ raw[r] = 0 /\ disk.rows[r] = 0
    BY <1>1
  <2>2. QED
    BY <2>1
<1>3. deltas = <<>> /\ answers = {}
  BY DEF Init
<1>4. QED
  BY <1>2, <1>3 DEF Behind, ConfirmedIsBehind, MessagesAreBehind, DeltasAreBehind

\* Deltas and loads carry values the server has, so the client stays behind it.
LEMMA BehindStep ==
  ASSUME TypeOK, Behind, [Next]_vars PROVE Behind'
<1> USE DEF memory, wire, server, history
<1> DEFINE Held == \A r \in Row : raw'[r] <= rows'[r] /\ disk'.rows[r] <= rows'[r]
           Sent == DeltasAreBehind(deltas', rows')
           Answered == \A a \in answers' : a.kind = "LOAD" => \A r \in Row : a.rows[r] <= rows'[r]
<1>0. ASSUME Held, Sent, Answered PROVE Behind'
  BY <1>0 DEF Behind, ConfirmedIsBehind, MessagesAreBehind, DeltasAreBehind
<1>a. /\ \A r \in Row : raw[r] <= rows[r] /\ disk.rows[r] <= rows[r]
      /\ DeltasAreBehind(deltas, rows)
      /\ \A a \in answers : a.kind = "LOAD" => \A r \in Row : a.rows[r] <= rows[r]
  BY DEF Behind, ConfirmedIsBehind, MessagesAreBehind
<1>1. CASE LoadStacks
  <2>1. UNCHANGED <<raw, disk, rows, deltas, answers>>
    BY <1>1 DEF LoadStacks
  <2>2. QED
    BY <1>0, <1>a, <2>1
<1>2. CASE LoadRows
  <2>1. Consolidate(disk.rows) /\ UNCHANGED <<rows, deltas, answers>>
    BY <1>2 DEF LoadRows
  <2>2. disk.rows \in [Row -> Nat]
    BY DEF TypeOK
  <2>3. Held
    BY <1>a, <2>1, <2>2, ConsolidateBehind
  <2>4. QED
    BY <1>0, <1>a, <2>1, <2>3
<1>3. CASE Connect
  <2>1. UNCHANGED <<raw, disk, rows, deltas, answers>>
    BY <1>3 DEF Connect
  <2>2. QED
    BY <1>0, <1>a, <2>1
<1>4. CASE ReceiveDelta
  <2> DEFINE d == deltas[1]
             kept == [disk.rows EXCEPT ![d.row] = raw'[d.row]]
  <2>1. /\ deltas # <<>>
        /\ deltas' = IF d.copies > 1 THEN [deltas EXCEPT ![1].copies = @ - 1]
                     ELSE Tail(deltas)
        /\ raw' = [raw EXCEPT ![d.row] = Latest(@, d.value)]
        /\ Save([disk EXCEPT !.rows = kept, !.stack = stack', !.saved = TRUE])
        /\ UNCHANGED <<rows, answers>>
    BY <1>4 DEF ReceiveDelta
  <2>2. deltas \in Seq(Delivered) /\ 1 \in DOMAIN deltas /\ d \in Delivered
    BY <2>1 DEF TypeOK
  <2>3. d.row \in Row /\ d.value \in Nat
    BY <2>2 DEF Delivered
  <2>4. d.value <= rows[d.row]
    BY <1>a, <2>2 DEF DeltasAreBehind
  <2>5. Sent
    <3>1. CASE d.copies > 1
      <4>1. deltas' = [deltas EXCEPT ![1].copies = @ - 1]
        BY <2>1, <3>1
      <4>2. ASSUME NEW i \in DOMAIN deltas' PROVE deltas'[i].value <= rows'[deltas'[i].row]
        <5>1. i \in DOMAIN deltas /\ deltas[i] \in Delivered
          BY <2>2, <4>1
        <5>2. deltas'[i].value = deltas[i].value /\ deltas'[i].row = deltas[i].row
          BY <4>1, <5>1 DEF Delivered
        <5>3. QED
          BY <1>a, <2>1, <5>1, <5>2 DEF DeltasAreBehind
      <4>3. QED
        BY <4>2 DEF DeltasAreBehind
    <3>2. CASE ~(d.copies > 1)
      <4>1. deltas' = Tail(deltas)
        BY <2>1, <3>2
      <4>2. ASSUME NEW i \in DOMAIN deltas' PROVE deltas'[i].value <= rows'[deltas'[i].row]
        <5>1. i + 1 \in DOMAIN deltas /\ deltas'[i] = deltas[i + 1]
          BY <2>1, <2>2, <4>1
        <5>2. QED
          BY <1>a, <2>1, <5>1 DEF DeltasAreBehind
      <4>3. QED
        BY <4>2 DEF DeltasAreBehind
    <3>3. QED
      BY <3>1, <3>2
  <2> HIDE DEF d, Sent
  <2>6. ASSUME NEW r \in Row PROVE raw'[r] <= rows'[r]
    BY <1>a, <2>1, <2>3, <2>4 DEF Latest, TypeOK
  <2>7. ASSUME NEW r \in Row PROVE kept[r] <= rows'[r]
    BY <1>a, <2>1, <2>3, <2>6 DEF TypeOK
  <2> HIDE DEF kept
  <2>8. disk'.rows = kept \/ disk'.rows = disk.rows
    BY <2>1 DEF Save, TypeOK
  <2>9. Held
    BY <1>a, <2>1, <2>6, <2>7, <2>8
  <2>10. Answered
    BY <1>a, <2>1
  <2>11. QED
    BY <1>0, <2>5, <2>9, <2>10
<1>5. CASE ReceiveAnswer
  <2>1. PICK a \in answers : answers' = answers \ {a} /\ (ReceiveVerdict(a) \/ ReceiveLoad(a))
    BY <1>5 DEF ReceiveAnswer
  <2>2. UNCHANGED <<deltas, rows>>
    BY <1>5 DEF ReceiveAnswer
  <2>3. a \in Answer
    BY DEF TypeOK
  <2>4. Sent /\ Answered
    BY <1>a, <2>1, <2>2
  <2>5. CASE ReceiveVerdict(a)
    <3>1. raw' = raw /\ disk'.rows = disk.rows
      BY <2>5, SettleRows DEF ReceiveVerdict
    <3>2. Held
      BY <1>a, <2>2, <3>1
    <3>3. QED
      BY <1>0, <2>4, <3>2
  <2>6. CASE ReceiveLoad(a)
    <3>1. a.kind = "LOAD" /\ Consolidate(a.rows)
      BY <2>6 DEF ReceiveLoad
    <3>2. a.rows \in [Row -> Nat]
      BY <2>3, <3>1 DEF Answer
    <3>3. \A r \in Row : a.rows[r] <= rows[r]
      BY <1>a, <3>1
    <3>4. Held
      BY <2>2, <3>1, <3>2, <3>3, ConsolidateBehind
    <3>5. QED
      BY <1>0, <2>4, <3>4
  <2>7. QED
    BY <2>1, <2>5, <2>6
<1>6. ASSUME NEW m \in Message, Mutate(m) PROVE Behind'
  <2>1. UNCHANGED <<raw, rows, deltas, answers>>
    BY <1>6 DEF Mutate
  <2>2. disk'.rows = disk.rows
    BY <1>6 DEF Mutate, Save, TypeOK
  <2>3. QED
    BY <1>0, <1>a, <2>1, <2>2
<1>7. ASSUME NEW m \in Message, Timeout(m) PROVE Behind'
  <2>1. UNCHANGED <<rows, deltas, answers>> /\ Settle(m)
    BY <1>7 DEF Timeout
  <2>2. raw' = raw /\ disk'.rows = disk.rows
    BY <2>1, SettleRows
  <2>3. QED
    BY <1>0, <1>a, <2>1, <2>2
<1>8. ASSUME NEW m \in Message, Execute(m) PROVE Behind'
  <2>1. PICK n \in 0..Len(Ops[m]) : Perform(m, n)
    BY <1>8 DEF Execute
  <2>2. UNCHANGED <<raw, disk>>
    BY <1>8 DEF Execute
  <2>3. /\ \A r \in Row : rows[r] <= rows'[r]
        /\ Sent /\ rows' \in [Row -> Nat]
    BY <2>1, PerformBehind, PerformType
  <2>4. Held
    BY <2>2, <2>3, RowsAdvance
  <2>5. \A a \in answers' \ answers : a.kind = "VERDICT"
    BY <1>8 DEF Execute
  <2>6. Answered
    BY <2>3, <2>5, RowsAdvance
  <2>7. QED
    BY <1>0, <2>3, <2>4, <2>6
<1>9. CASE Disconnect
  <2>1. UNCHANGED <<raw, disk, rows>> /\ deltas' = <<>> /\ answers' = {}
    BY <1>9 DEF Disconnect, Break
  <2>2. QED
    BY <1>0, <1>a, <2>1 DEF DeltasAreBehind
<1>10. CASE Reload
  <2>1. UNCHANGED <<disk, rows>> /\ deltas' = <<>> /\ answers' = {} /\ raw' = Blank
    BY <1>10 DEF Reload, Break
  <2>2. \A r \in Row : raw'[r] <= rows'[r]
    BY <2>1 DEF TypeOK, Blank, None
  <2>3. QED
    BY <1>0, <1>a, <2>1, <2>2 DEF DeltasAreBehind
<1>11. CASE Subscribe
  <2>1. /\ answers' = answers \cup {[kind |-> "LOAD", rows |-> rows]}
        /\ UNCHANGED <<raw, disk, rows, deltas>>
    BY <1>11 DEF Subscribe
  <2>2. \A r \in Row : rows[r] <= rows[r]
    BY DEF TypeOK
  <2>3. Answered
    BY <1>a, <2>1, <2>2
  <2>4. QED
    BY <1>0, <1>a, <2>1, <2>3
<1>12. ASSUME NEW f \in DOMAIN Foreign, ForeignWrite(f) PROVE Behind'
  <2> DEFINE d == Delta("UPDATE", Foreign[f], rows'[Foreign[f]], None)
  <2>1. /\ rows' = [rows EXCEPT ![Foreign[f]] = Latest(@, f)]
        /\ Tell(<<d>>)
        /\ UNCHANGED <<raw, disk, answers>>
    BY <1>12 DEF ForeignWrite
  <2>2. Foreign[f] \in Row /\ f \in Nat /\ Copies \in Nat
    BY ClientAssumption
  <2>3. rows \in [Row -> Nat] /\ rows' \in [Row -> Nat]
    BY <2>1, <2>2, LatestType DEF TypeOK
  <2>4. \A r \in Row : rows[r] <= rows'[r]
    BY <2>1, <2>2, <2>3, LatestType
  <2>5. d \in Delivered /\ d.value <= rows'[d.row]
    BY <2>2, <2>3 DEF Delta, Delivered
  <2> HIDE DEF d
  <2>6. <<d>> \in Seq(Delivered) /\ DeltasAreBehind(<<d>>, rows')
    BY <2>5 DEF DeltasAreBehind
  <2>7. DeltasAreBehind(deltas, rows')
    BY <2>3, <2>4, RowsAdvance
  <2>8. Sent
    BY <2>1, <2>6, <2>7, TellBehind
  <2>9. Held /\ Answered
    BY <2>1, <2>3, <2>4, RowsAdvance
  <2>10. QED
    BY <1>0, <2>8, <2>9
<1>13. CASE UNCHANGED vars
  BY <1>0, <1>a, <1>13 DEF vars
<1>14. QED
  BY <1>1, <1>2, <1>3, <1>4, <1>5, <1>6, <1>7, <1>8, <1>9, <1>10, <1>11, <1>12, <1>13
     DEF Next

-----------------------------------------------------------------------------
(* Pending entries, of a page that mutates only when its storage has loaded. *)

\* A page whose stacks are still in the database has none.
OpeningIsEmpty ==
  phase = "opening" => stack = {} /\ index = {} /\ queue = {} /\ handlers = {}
\* From then on the database has what the page has.
StoredIsHeld ==
  phase # "opening" => disk.stack = stack /\ disk.index = index /\ disk.queue = queue
\* What the database holds can be settled by whoever takes it up.
StoredIsAwaited ==
  /\ ~disk.saved => disk.stack = {}
  /\ \A e \in disk.stack :
       e.msg \in disk.index /\ e.msg \in disk.queue \cup handlers \cup abandoned

Kept == OpeningIsEmpty /\ StoredIsHeld /\ StoredIsAwaited

LEMMA InitKept == Init => Kept
BY DEF Init, Kept, OpeningIsEmpty, StoredIsHeld, StoredIsAwaited

LEMMA KeptIsAwaited ==
  ASSUME TypeOK, Kept PROVE PendingIsAwaited
BY DEF Kept, OpeningIsEmpty, StoredIsHeld, StoredIsAwaited, PendingIsAwaited

\* A mutation is settled: nothing else loses who it waits for.
LEMMA SettleKept ==
  ASSUME TypeOK, Kept, NEW m \in Message, Settle(m), handlers' = handlers \ {m},
         phase' = phase, abandoned' = abandoned
  PROVE  Kept'
<1>1. CASE m \notin index
  <2>1. UNCHANGED <<stack, index, queue, disk>>
    BY <1>1 DEF Settle
  <2>2. \A e \in disk.stack : e.msg # m \/ phase = "opening"
    BY <1>1 DEF Kept, StoredIsHeld, StoredIsAwaited
  <2>3. CASE phase = "opening"
    BY <2>1, <2>3 DEF Kept, OpeningIsEmpty, StoredIsHeld, StoredIsAwaited
  <2>4. CASE phase # "opening"
    BY <2>1, <2>2, <2>4 DEF Kept, OpeningIsEmpty, StoredIsHeld, StoredIsAwaited
  <2>5. QED
    BY <2>3, <2>4
<1>2. CASE m \in index
  <2> DEFINE gone == stack \cap EntriesOf(m)
  <2>1. phase # "opening"
    BY <1>2 DEF Kept, OpeningIsEmpty
  <2>2. /\ stack' = stack \ gone /\ index' = index \ {m} /\ queue' = queue \ {m}
        /\ disk' = [disk EXCEPT !.stack = IF gone = {} THEN @ ELSE stack',
                                !.saved = @ \/ gone # {},
                                !.index = index', !.queue = queue']
    BY <1>2, <2>1 DEF Settle, Save
  <2>3. ASSUME NEW e \in stack \ gone PROVE e.msg # m
    BY DEF EntriesOf, TypeOK
  <2> HIDE DEF gone
  <2>4. /\ disk.stack = stack /\ disk.index = index /\ disk.queue = queue
        /\ ~disk.saved => disk.stack = {}
        /\ \A e \in disk.stack :
             e.msg \in disk.index /\ e.msg \in disk.queue \cup handlers \cup abandoned
    BY <2>1 DEF Kept, StoredIsHeld, StoredIsAwaited
  <2>5. disk'.stack = stack' /\ disk'.index = index' /\ disk'.queue = queue'
    BY <2>2, <2>4 DEF TypeOK
  <2>6. ~disk'.saved => disk'.stack = {}
    BY <2>2, <2>4 DEF TypeOK
  <2>7. \A e \in disk'.stack :
          e.msg \in disk'.index /\ e.msg \in disk'.queue \cup handlers' \cup abandoned'
    BY <2>2, <2>3, <2>4, <2>5
  <2>8. QED
    BY <2>1, <2>5, <2>6, <2>7 DEF Kept, OpeningIsEmpty, StoredIsHeld, StoredIsAwaited
<1>3. QED
  BY <1>1, <1>2

\* Rows are loaded: the stacks stay.
LEMMA ConsolidateKept ==
  ASSUME TypeOK, Kept, NEW loaded, Consolidate(loaded),
         UNCHANGED <<stack, index, queue, handlers, abandoned>>,
         phase' = phase \/ (phase = "stacks" /\ phase' = "ready")
  PROVE  Kept'
<1> DEFINE given == {r \in Row : loaded[r] # None}
           kept == [r \in Row |-> IF r \in given THEN raw'[r] ELSE disk.rows[r]]
<1>1. Save([disk EXCEPT !.rows = kept, !.stack = IF given = {} THEN @ ELSE stack,
                        !.saved = @ \/ given # {}])
  BY DEF Consolidate
<1> HIDE DEF given, kept
<1>2. CASE phase = "opening"
  BY <1>1, <1>2 DEF Save, Kept, OpeningIsEmpty, StoredIsHeld, StoredIsAwaited
<1>3. CASE phase # "opening"
  <2>1. disk' = [disk EXCEPT !.rows = kept, !.stack = IF given = {} THEN @ ELSE stack,
                             !.saved = @ \/ given # {}]
    BY <1>1, <1>3 DEF Save
  <2>2. disk.stack = stack
    BY <1>3 DEF Kept, StoredIsHeld
  <2>3. /\ disk'.stack = disk.stack /\ disk'.index = disk.index /\ disk'.queue = disk.queue
        /\ disk'.saved = disk.saved \/ disk'.saved
    BY <2>1, <2>2 DEF TypeOK
  <2>4. QED
    BY <1>3, <2>3 DEF Kept, OpeningIsEmpty, StoredIsHeld, StoredIsAwaited
<1>4. QED
  BY <1>2, <1>3

\* Memory and database agree on what is pending, and on who settles it.
LEMMA KeptStep ==
  ASSUME TypeOK, Kept, ~EarlyMutations, [Next]_vars PROVE Kept'
<1> USE DEF memory, wire, server, history
<1>a. /\ phase = "opening" => stack = {} /\ index = {} /\ queue = {} /\ handlers = {}
      /\ phase # "opening" => disk.stack = stack /\ disk.index = index /\ disk.queue = queue
      /\ ~disk.saved => disk.stack = {}
      /\ \A e \in disk.stack :
           e.msg \in disk.index /\ e.msg \in disk.queue \cup handlers \cup abandoned
  BY DEF Kept, OpeningIsEmpty, StoredIsHeld, StoredIsAwaited
<1>b. ASSUME UNCHANGED <<phase, stack, index, queue, disk>>,
             handlers \subseteq handlers', phase = "opening" => handlers' = handlers,
             abandoned' = abandoned
      PROVE  Kept'
  BY <1>b DEF Kept, OpeningIsEmpty, StoredIsHeld, StoredIsAwaited
<1>1. CASE LoadStacks
  <2>1. /\ phase = "opening" /\ phase' = "stacks"
        /\ stack' = (IF disk.saved THEN disk.stack ELSE stack)
        /\ index' = (IF disk.index # {} THEN disk.index ELSE index)
        /\ queue' = (IF disk.queue # {} THEN disk.queue ELSE queue)
        /\ UNCHANGED <<disk, abandoned>>
    BY <1>1 DEF LoadStacks
  <2>2. handlers \subseteq handlers'
    BY <1>1 DEF LoadStacks, Replay
  <2>3. stack' = disk.stack /\ index' = disk.index /\ queue' = disk.queue
    BY <1>a, <2>1
  <2>4. QED
    BY <1>a, <2>1, <2>2, <2>3 DEF Kept, OpeningIsEmpty, StoredIsHeld, StoredIsAwaited
<1>2. CASE LoadRows
  BY <1>2, ConsolidateKept DEF LoadRows
<1>3. CASE Connect
  <2>1. UNCHANGED <<phase, stack, index, queue, disk, abandoned>> /\ Replay(queue)
    BY <1>3 DEF Connect
  <2>2. handlers' = handlers \/ handlers' = handlers \cup queue
    BY <2>1 DEF Replay
  <2>3. QED
    BY <1>a, <1>b, <2>1, <2>2
<1>4. CASE ReceiveDelta
  <2> DEFINE d == deltas[1]
             kept == [disk.rows EXCEPT ![d.row] = raw'[d.row]]
  <2>1. /\ stack' = stack \ Matched(d)
        /\ Save([disk EXCEPT !.rows = kept, !.stack = stack', !.saved = TRUE])
        /\ UNCHANGED <<index, queue, handlers, phase, abandoned>>
    BY <1>4 DEF ReceiveDelta
  <2> HIDE DEF d, kept
  <2>2. CASE phase = "opening"
    BY <1>a, <2>1, <2>2 DEF Save, Kept, OpeningIsEmpty, StoredIsHeld, StoredIsAwaited
  <2>3. CASE phase # "opening"
    <3>1. disk' = [disk EXCEPT !.rows = kept, !.stack = stack', !.saved = TRUE]
      BY <2>1, <2>3 DEF Save
    <3>2. /\ disk'.stack = stack' /\ disk'.index = disk.index /\ disk'.queue = disk.queue
          /\ disk'.saved
      BY <3>1 DEF TypeOK
    <3>3. QED
      BY <1>a, <2>1, <2>3, <3>2 DEF Kept, OpeningIsEmpty, StoredIsHeld, StoredIsAwaited
  <2>4. QED
    BY <2>2, <2>3
<1>5. CASE ReceiveAnswer
  <2>1. PICK a \in answers : ReceiveVerdict(a) \/ ReceiveLoad(a)
    BY <1>5 DEF ReceiveAnswer
  <2>2. phase' = phase /\ abandoned' = abandoned
    BY <1>5 DEF ReceiveAnswer
  <2>3. a \in Answer
    BY DEF TypeOK
  <2>4. CASE ReceiveVerdict(a)
    <3>1. a.msg \in Message
      BY <2>3, <2>4 DEF Answer, ReceiveVerdict
    <3>2. CASE a.msg \in handlers
      BY <2>2, <2>4, <3>1, <3>2, SettleKept DEF ReceiveVerdict
    <3>3. CASE a.msg \notin handlers
      BY <1>b, <2>2, <2>4, <3>3 DEF ReceiveVerdict
    <3>4. QED
      BY <3>2, <3>3
  <2>5. CASE ReceiveLoad(a)
    BY <2>2, <2>5, ConsolidateKept DEF ReceiveLoad
  <2>6. QED
    BY <2>1, <2>4, <2>5
<1>6. ASSUME NEW m \in Message, Mutate(m) PROVE Kept'
  <2> DEFINE q == IF online THEN disk.queue ELSE queue'
  <2>1. /\ phase = "ready" /\ phase' = phase /\ abandoned' = abandoned
        /\ stack' = stack \cup EntriesOf(m) /\ index' = index \cup {m}
        /\ Save([disk EXCEPT !.stack = stack', !.saved = TRUE, !.index = index', !.queue = q])
    BY <1>6 DEF Mutate
  <2>2. \/ online /\ handlers' = handlers \cup {m} /\ queue' = queue
        \/ ~online /\ handlers' = handlers /\ queue' = queue \cup {m}
    BY <1>6 DEF Mutate
  <2>3. q = queue'
    BY <1>a, <2>1, <2>2
  <2> HIDE DEF q
  <2>4. disk'.stack = stack' /\ disk'.index = index' /\ disk'.queue = queue' /\ disk'.saved
    BY <2>1, <2>3 DEF Save, TypeOK
  <2>5. \A e \in EntriesOf(m) : e.msg = m
    BY DEF EntriesOf
  <2>6. \A e \in disk'.stack :
          e.msg \in disk'.index /\ e.msg \in disk'.queue \cup handlers' \cup abandoned'
    <3>1. disk.stack = stack /\ disk.index = index /\ disk.queue = queue
      BY <1>a, <2>1
    <3>2. \A e \in stack : e.msg \in index /\ e.msg \in queue \cup handlers \cup abandoned
      BY <1>a, <3>1
    <3>3. m \in index' /\ m \in queue' \cup handlers'
      BY <2>1, <2>2
    <3>4. queue \cup handlers \cup abandoned \subseteq queue' \cup handlers' \cup abandoned'
      BY <2>1, <2>2
    <3>5. QED
      BY <2>1, <2>4, <2>5, <3>2, <3>3, <3>4
  <2>7. QED
    BY <2>1, <2>4, <2>6 DEF Kept, OpeningIsEmpty, StoredIsHeld, StoredIsAwaited
<1>7. ASSUME NEW m \in Message, Timeout(m) PROVE Kept'
  BY <1>7, SettleKept DEF Timeout
<1>8. ASSUME NEW m \in Message, Execute(m) PROVE Kept'
  BY <1>b, <1>8 DEF Execute
<1>9. CASE Disconnect
  BY <1>b, <1>9 DEF Disconnect
<1>10. CASE Reload
  <2>1. /\ abandoned' = abandoned \cup (handlers \ queue)
        /\ stack' = {} /\ index' = {} /\ queue' = {} /\ handlers' = {}
        /\ phase' = "opening" /\ disk' = disk
    BY <1>10 DEF Reload
  <2>2. ASSUME NEW e \in disk.stack, e.msg \in handlers
        PROVE  e.msg \in disk.queue \cup abandoned'
    BY <1>a, <2>1, <2>2
  <2>3. \A e \in disk'.stack :
          e.msg \in disk'.index /\ e.msg \in disk'.queue \cup handlers' \cup abandoned'
    BY <1>a, <2>1, <2>2
  <2>4. QED
    BY <1>a, <2>1, <2>3 DEF Kept, OpeningIsEmpty, StoredIsHeld, StoredIsAwaited
<1>11. CASE Subscribe
  BY <1>b, <1>11 DEF Subscribe
<1>12. ASSUME NEW f \in DOMAIN Foreign, ForeignWrite(f) PROVE Kept'
  BY <1>b, <1>12 DEF ForeignWrite
<1>13. CASE UNCHANGED vars
  BY <1>b, <1>13 DEF vars
<1>14. QED
  BY <1>1, <1>2, <1>3, <1>4, <1>5, <1>6, <1>7, <1>8, <1>9, <1>10, <1>11, <1>12, <1>13
     DEF Next

-----------------------------------------------------------------------------
(* What is shown.                                                          *)

\* A row is rendered anew, or neither its value nor its entries have changed.
LEMMA RowStaysOverlay ==
  ASSUME ShownIsOverlay, NEW r \in Row, restored' = restored,
         \/ shown'[r] = Overlay(r, raw', stack')
         \/ /\ shown'[r] = shown[r] /\ raw'[r] = raw[r]
            /\ \A e : RowOf(e) = r => (e \in stack <=> e \in stack')
  PROVE  \/ shown'[r] = Overlay(r, raw', stack')
         \/ shown'[r] = Overlay(r, raw', {e \in stack' : e.msg \notin restored'})
<1>1. CASE shown'[r] = Overlay(r, raw', stack')
  BY <1>1
<1>2. CASE /\ shown'[r] = shown[r] /\ raw'[r] = raw[r]
           /\ \A e : RowOf(e) = r => (e \in stack <=> e \in stack')
  <2> DEFINE old == {e \in stack : e.msg \notin restored}
             new == {e \in stack' : e.msg \notin restored'}
  <2>1. \A e : RowOf(e) = r => (e \in old <=> e \in new)
    BY <1>2
  <2>2. shown[r] = Overlay(r, raw, stack) \/ shown[r] = Overlay(r, raw, old)
    BY DEF ShownIsOverlay
  <2> HIDE DEF old, new
  <2>3. Overlay(r, raw, stack) = Overlay(r, raw', stack')
    BY <1>2, OverlayIsLocal
  <2>4. Overlay(r, raw, old) = Overlay(r, raw', new)
    BY <1>2, <2>1, OverlayIsLocal
  <2>5. QED
    BY <1>2, <2>2, <2>3, <2>4 DEF new
<1>3. QED
  BY <1>1, <1>2

\* The same of all rows, when those of rs are rendered anew.
LEMMA RefreshedIsOverlay ==
  ASSUME TypeOK, ShownIsOverlay, restored' = restored, NEW rs,
         shown' = Refreshed(rs, raw', stack'),
         \A r \in Row : r \notin rs =>
           raw'[r] = raw[r] /\ \A e : RowOf(e) = r => (e \in stack <=> e \in stack')
  PROVE  ShownIsOverlay'
<1>1. ASSUME NEW r \in Row
      PROVE  \/ shown'[r] = Overlay(r, raw', stack')
             \/ shown'[r] = Overlay(r, raw', {e \in stack' : e.msg \notin restored'})
  <2>1. CASE r \in rs
    BY <2>1 DEF Refreshed
  <2>2. CASE r \notin rs
    <3>1. shown'[r] = shown[r]
      BY <2>2 DEF Refreshed
    <3>2. QED
      BY <2>2, <3>1, RowStaysOverlay
  <2>3. QED
    BY <2>1, <2>2
<1>2. QED
  BY <1>1 DEF ShownIsOverlay, Overlay

LEMMA UnchangedIsOverlay ==
  ASSUME ShownIsOverlay, UNCHANGED <<raw, shown, stack, restored>>
  PROVE  ShownIsOverlay'
<1>1. ASSUME NEW r \in Row
      PROVE  \/ shown'[r] = Overlay(r, raw', stack')
             \/ shown'[r] = Overlay(r, raw', {e \in stack' : e.msg \notin restored'})
  BY RowStaysOverlay
<1>2. QED
  BY <1>1 DEF ShownIsOverlay, Overlay

LEMMA SettleIsOverlay ==
  ASSUME TypeOK, ShownIsOverlay, NEW m \in Message, Settle(m), restored' = restored
  PROVE  ShownIsOverlay'
<1>1. CASE m \notin index
  BY <1>1, UnchangedIsOverlay DEF Settle
<1>2. CASE m \in index
  <2> DEFINE gone == stack \cap EntriesOf(m)
  <2>1. /\ stack' = stack \ gone /\ raw' = raw
        /\ shown' = Refreshed(RowsOf(gone), raw', stack')
    BY <1>2 DEF Settle
  <2> HIDE DEF gone
  <2>2. \A r : r \notin RowsOf(gone) => \A e : RowOf(e) = r => (e \in stack <=> e \in stack')
    BY <2>1 DEF RowsOf
  <2>3. QED
    BY <2>1, <2>2, RefreshedIsOverlay
<1>3. QED
  BY <1>1, <1>2

LEMMA ConsolidateIsOverlay ==
  ASSUME TypeOK, ShownIsOverlay, NEW loaded \in [Row -> Nat], Consolidate(loaded),
         stack' = stack, restored' = restored
  PROVE  ShownIsOverlay'
<1> DEFINE given == {r \in Row : loaded[r] # None}
<1>1. /\ raw' = [r \in Row |-> Latest(raw[r], loaded[r])]
      /\ shown' = Refreshed(given, raw', stack')
  BY DEF Consolidate
<1>2. ASSUME NEW r \in Row, r \notin given PROVE raw'[r] = raw[r]
  BY <1>1, <1>2 DEF Latest, None, TypeOK
<1> HIDE DEF given
<1>3. QED
  BY <1>1, <1>2, RefreshedIsOverlay

LEMMA InitIsOverlay == Init => ShownIsOverlay
<1> SUFFICES ASSUME Init PROVE ShownIsOverlay
  OBVIOUS
<1>1. ASSUME NEW r \in Row PROVE shown[r] = Overlay(r, raw, stack)
  <2>1. raw[r] = 0 /\ shown[r] = 0 /\ stack = {}
    BY DEF Init, Blank, None
  <2>2. QED
    BY <2>1 DEF Overlay
<1>2. QED
  BY <1>1 DEF ShownIsOverlay

\* Every action renders the rows whose value or entries it changes.
LEMMA OverlayStep ==
  ASSUME TypeOK, Kept, ShownIsOverlay, ~EarlyMutations, [Next]_vars
  PROVE  ShownIsOverlay'
<1> USE DEF memory, wire, server, history
<1>a. ASSUME UNCHANGED <<raw, shown, stack, restored>> PROVE ShownIsOverlay'
  BY <1>a, UnchangedIsOverlay
<1>1. CASE LoadStacks
  <2>1. /\ phase = "opening"
        /\ stack' = (IF disk.saved THEN disk.stack ELSE stack)
        /\ restored' = (IF disk.saved THEN {e.msg : e \in disk.stack} ELSE {})
        /\ UNCHANGED <<raw, shown>>
    BY <1>1 DEF LoadStacks
  <2>2. stack = {}
    BY <2>1 DEF Kept, OpeningIsEmpty
  <2>3. {e \in stack' : e.msg \notin restored'} = {}
    BY <2>1, <2>2
  <2>4. ASSUME NEW r \in Row PROVE shown'[r] = Overlay(r, raw', {})
    <3>1. {e \in stack : e.msg \notin restored} = {}
      BY <2>2
    <3>2. shown[r] = Overlay(r, raw, {})
      BY <2>2, <3>1 DEF ShownIsOverlay
    <3>3. QED
      BY <2>1, <3>2
  <2>5. QED
    BY <2>3, <2>4 DEF ShownIsOverlay, Overlay
<1>2. CASE LoadRows
  <2>1. Consolidate(disk.rows) /\ stack' = stack /\ restored' = restored
    BY <1>2 DEF LoadRows
  <2>2. disk.rows \in [Row -> Nat]
    BY DEF TypeOK
  <2>3. QED
    BY <2>1, <2>2, ConsolidateIsOverlay
<1>3. CASE Connect
  BY <1>a, <1>3 DEF Connect
<1>4. CASE ReceiveDelta
  <2> DEFINE d == deltas[1]
             gone == Matched(d)
  <2>1. /\ deltas # <<>> /\ stack' = stack \ gone /\ restored' = restored
        /\ raw' = [raw EXCEPT ![d.row] = Latest(@, d.value)]
        /\ shown' = Refreshed({d.row} \cup RowsOf(gone), raw', stack')
    BY <1>4 DEF ReceiveDelta
  <2> HIDE DEF d, gone
  <2>2. ASSUME NEW r \in Row, r \notin {d.row} \cup RowsOf(gone)
        PROVE  raw'[r] = raw[r] /\ \A e : RowOf(e) = r => (e \in stack <=> e \in stack')
    BY <2>1, <2>2 DEF RowsOf, TypeOK
  <2>3. QED
    BY <2>1, <2>2, RefreshedIsOverlay
<1>5. CASE ReceiveAnswer
  <2>1. PICK a \in answers : ReceiveVerdict(a) \/ ReceiveLoad(a)
    BY <1>5 DEF ReceiveAnswer
  <2>2. restored' = restored
    BY <1>5 DEF ReceiveAnswer
  <2>3. a \in Answer
    BY DEF TypeOK
  <2>4. CASE ReceiveVerdict(a)
    <3>1. a.msg \in Message
      BY <2>3, <2>4 DEF Answer, ReceiveVerdict
    <3>2. QED
      BY <1>a, <2>2, <2>4, <3>1, SettleIsOverlay DEF ReceiveVerdict
  <2>5. CASE ReceiveLoad(a)
    <3>1. a.rows \in [Row -> Nat]
      BY <2>3, <2>5 DEF Answer, ReceiveLoad
    <3>2. QED
      BY <2>2, <2>5, <3>1, ConsolidateIsOverlay DEF ReceiveLoad
  <2>6. QED
    BY <2>1, <2>4, <2>5
<1>6. ASSUME NEW m \in Message, Mutate(m) PROVE ShownIsOverlay'
  <2>1. /\ stack' = stack \cup EntriesOf(m) /\ raw' = raw /\ restored' = restored
        /\ shown' = Refreshed(RowsOf(EntriesOf(m)), raw', stack')
    BY <1>6 DEF Mutate
  <2>2. \A r : r \notin RowsOf(EntriesOf(m)) =>
          \A e : RowOf(e) = r => (e \in stack <=> e \in stack')
    BY <2>1 DEF RowsOf
  <2>3. QED
    BY <2>1, <2>2, RefreshedIsOverlay
<1>7. ASSUME NEW m \in Message, Timeout(m) PROVE ShownIsOverlay'
  BY <1>7, SettleIsOverlay DEF Timeout
<1>8. ASSUME NEW m \in Message, Execute(m) PROVE ShownIsOverlay'
  BY <1>a, <1>8 DEF Execute
<1>9. CASE Disconnect
  BY <1>a, <1>9 DEF Disconnect
<1>10. CASE Reload
  <2>1. stack' = {} /\ raw' = Blank /\ shown' = Blank
    BY <1>10 DEF Reload
  <2>2. ASSUME NEW r \in Row PROVE shown'[r] = Overlay(r, raw', stack')
    <3>1. raw'[r] = 0 /\ shown'[r] = 0
      BY <2>1 DEF Blank, None
    <3>2. QED
      BY <2>1, <3>1 DEF Overlay
  <2>3. QED
    BY <2>2 DEF ShownIsOverlay, Overlay
<1>11. CASE Subscribe
  BY <1>a, <1>11 DEF Subscribe
<1>12. ASSUME NEW f \in DOMAIN Foreign, ForeignWrite(f) PROVE ShownIsOverlay'
  BY <1>a, <1>12 DEF ForeignWrite
<1>13. CASE UNCHANGED vars
  BY <1>a, <1>13 DEF vars
<1>14. QED
  BY <1>1, <1>2, <1>3, <1>4, <1>5, <1>6, <1>7, <1>8, <1>9, <1>10, <1>11, <1>12, <1>13
     DEF Next

-----------------------------------------------------------------------------
(* What the server has reaches a subscribed client.                        *)

\* A value of row r that is not older than v is held, or in one of the deltas ds
\* or the data loads among the answers as.
Arrives(v, r, rw, ds, as) ==
  \/ v <= rw[r]
  \/ \E i \in DOMAIN ds : ds[i].row = r /\ v <= ds[i].value
  \/ \E a \in as : a.kind = "LOAD" /\ v <= a.rows[r]
AllArrives == subscribed => \A r \in Row : Arrives(rows[r], r, raw, deltas, answers)

LEMMA TellArrives ==
  ASSUME TypeOK, NEW ds \in Seq(Delivered), Tell(ds), subscribed
  PROVE  /\ \A i \in DOMAIN deltas : i \in DOMAIN deltas' /\ deltas'[i] = deltas[i]
         /\ \A i \in DOMAIN ds : \E j \in DOMAIN deltas' : deltas'[j] = ds[i]
<1> DEFINE n == Len(deltas)
<1>1. deltas \in Seq(Delivered) /\ deltas' = deltas \o ds
  BY DEF TypeOK, Tell
<1>2. /\ n \in Nat /\ Len(ds) \in Nat /\ DOMAIN deltas' = 1..n + Len(ds)
      /\ DOMAIN deltas = 1..n /\ DOMAIN ds = 1..Len(ds)
      /\ \A i \in 1..n + Len(ds) : deltas'[i] = IF i <= n THEN deltas[i] ELSE ds[i - n]
  BY <1>1, ConcatProperties
<1> HIDE DEF n
<1>3. ASSUME NEW i \in DOMAIN ds PROVE \E j \in DOMAIN deltas' : deltas'[j] = ds[i]
  <2>1. n + i \in DOMAIN deltas' /\ ~(n + i <= n) /\ n + i - n = i
    BY <1>2
  <2>2. QED
    BY <1>2, <2>1
<1>4. QED
  BY <1>2, <1>3

\* A write that is told arrives, and what was on its way still does.
LEMMA ToldArrives ==
  ASSUME TypeOK, AllArrives, subscribed, UNCHANGED <<raw, subscribed>>, answers \subseteq answers',
         NEW ds \in Seq(Delivered), Tell(ds),
         \A r \in Row : \/ rows'[r] = rows[r]
                        \/ \E i \in DOMAIN ds : ds[i].row = r /\ ds[i].value = rows'[r]
  PROVE  AllArrives'
<1>1. /\ \A i \in DOMAIN deltas : i \in DOMAIN deltas' /\ deltas'[i] = deltas[i]
      /\ \A i \in DOMAIN ds : \E j \in DOMAIN deltas' : deltas'[j] = ds[i]
  BY TellArrives
<1>2. ASSUME NEW r \in Row PROVE Arrives(rows'[r], r, raw', deltas', answers')
  <2>1. CASE rows'[r] = rows[r]
    BY <1>1, <2>1 DEF AllArrives, Arrives
  <2>2. ASSUME NEW i \in DOMAIN ds, ds[i].row = r, ds[i].value = rows'[r]
        PROVE  Arrives(rows'[r], r, raw', deltas', answers')
    <3>1. PICK j \in DOMAIN deltas' : deltas'[j] = ds[i]
      BY <1>1
    <3>2. ds[i] \in Delivered
      OBVIOUS
    <3>3. ds[i].value <= ds[i].value
      BY <3>2 DEF Delivered
    <3>4. QED
      BY <2>2, <3>1, <3>3 DEF Arrives
  <2>3. QED
    BY <2>1, <2>2
<1>3. QED
  BY <1>2 DEF AllArrives

LEMMA PerformArrives ==
  ASSUME TypeOK, AllArrives, NEW m \in Message, NEW n \in 0..Len(Ops[m]), Perform(m, n),
         subscribed, UNCHANGED <<raw, subscribed>>, answers \subseteq answers'
  PROVE  AllArrives'
<1> DEFINE left(i) == Latest(rows[Ops[m][i].row], m)
           ds == [i \in 1..n |-> Delta(Ops[m][i].op, Ops[m][i].row, left(i), m)]
<1>1. rows \in [Row -> Nat] /\ m \in Nat
  BY MessageIsNatural DEF TypeOK
<1>2. /\ rows' = [r \in Row |-> IF \E i \in 1..n : Ops[m][i].row = r
                                THEN Latest(rows[r], m) ELSE rows[r]]
      /\ Tell(ds)
  BY DEF Perform
<1>3. ASSUME NEW i \in 1..n
      PROVE  ds[i] \in Delivered /\ ds[i].value = left(i) /\ ds[i].row = Ops[m][i].row
  <2>1. Ops[m] \in Seq(Write) /\ Copies \in Nat
    BY ClientAssumption
  <2>2. i \in DOMAIN Ops[m]
    BY <2>1
  <2>3. Ops[m][i].op \in {"INSERT", "UPDATE"} /\ Ops[m][i].row \in Row
    BY <2>2, WriteFacts
  <2>4. left(i) \in Nat
    BY <1>1, <2>3, LatestType
  <2> HIDE DEF left
  <2>5. ds[i] = Delta(Ops[m][i].op, Ops[m][i].row, left(i), m)
    OBVIOUS
  <2> HIDE DEF ds
  <2>6. QED
    BY <2>1, <2>3, <2>4, <2>5 DEF Delta, Delivered
<1>4. n \in Nat /\ DOMAIN ds = 1..n /\ ds = [i \in 1..n |-> ds[i]]
  BY ClientAssumption
<1>5. ASSUME NEW r \in Row, rows'[r] # rows[r]
      PROVE  \E i \in DOMAIN ds : ds[i].row = r /\ ds[i].value = rows'[r]
  <2>1. PICK i \in 1..n : Ops[m][i].row = r
    BY <1>2, <1>5
  <2>2. rows'[r] = left(i)
    BY <1>2, <2>1
  <2>3. QED
    BY <1>3, <1>4, <2>1, <2>2
<1> HIDE DEF ds
<1>6. ds \in Seq(Delivered)
  BY <1>3, <1>4
<1>7. QED
  BY <1>2, <1>5, <1>6, ToldArrives

\* What was on its way and has been merged is held.
LEMMA MergedArrives ==
  ASSUME TypeOK, AllArrives, UNCHANGED <<rows, subscribed>>,
         raw' \in [Row -> Nat], \A r \in Row : raw[r] <= raw'[r],
         \A i \in DOMAIN deltas :
           \/ \E j \in DOMAIN deltas' : /\ deltas'[j].row = deltas[i].row
                                        /\ deltas'[j].value = deltas[i].value
           \/ deltas[i].value <= raw'[deltas[i].row],
         \A a \in answers : a.kind = "LOAD" =>
           a \in answers' \/ \A r \in Row : a.rows[r] <= raw'[r]
  PROVE  AllArrives'
<1>1. ASSUME NEW r \in Row, subscribed PROVE Arrives(rows[r], r, raw', deltas', answers')
  <2>0. /\ rows[r] \in Nat /\ raw[r] \in Nat /\ raw'[r] \in Nat
        /\ Arrives(rows[r], r, raw, deltas, answers)
    BY <1>1 DEF TypeOK, AllArrives
  <2>1. CASE rows[r] <= raw[r]
    <3>1. rows[r] <= raw'[r]
      BY <2>0, <2>1
    <3>2. QED
      BY <3>1 DEF Arrives
  <2>2. ASSUME NEW i \in DOMAIN deltas, deltas[i].row = r, rows[r] <= deltas[i].value
        PROVE  Arrives(rows[r], r, raw', deltas', answers')
    <3>1. deltas[i] \in Delivered
      BY DEF TypeOK
    <3>2. deltas[i].value \in Nat
      BY <3>1 DEF Delivered
    <3>3. CASE deltas[i].value <= raw'[deltas[i].row]
      <4>1. rows[r] <= raw'[r]
        BY <2>0, <2>2, <3>2, <3>3
      <4>2. QED
        BY <4>1 DEF Arrives
    <3>4. CASE \E j \in DOMAIN deltas' : /\ deltas'[j].row = deltas[i].row
                                         /\ deltas'[j].value = deltas[i].value
      BY <2>2, <3>4 DEF Arrives
    <3>5. QED
      BY <3>3, <3>4
  <2>3. ASSUME NEW a \in answers, a.kind = "LOAD", rows[r] <= a.rows[r]
        PROVE  Arrives(rows[r], r, raw', deltas', answers')
    <3>1. a \in Answer
      BY DEF TypeOK
    <3>2. a.rows[r] \in Nat
      BY <2>3, <3>1 DEF Answer
    <3>3. CASE \A q \in Row : a.rows[q] <= raw'[q]
      <4>1. a.rows[r] <= raw'[r]
        BY <3>3
      <4>2. rows[r] <= raw'[r]
        BY <2>0, <2>3, <3>2, <4>1
      <4>3. QED
        BY <4>2 DEF Arrives
    <3>4. CASE a \in answers'
      BY <2>3, <3>4 DEF Arrives
    <3>5. QED
      BY <2>3, <3>3, <3>4
  <2>4. QED
    BY <2>0, <2>1, <2>2, <2>3 DEF Arrives
<1>2. QED
  BY <1>1 DEF AllArrives

LEMMA ConsolidateArrives ==
  ASSUME TypeOK, NEW loaded \in [Row -> Nat], Consolidate(loaded)
  PROVE  /\ raw' \in [Row -> Nat]
         /\ \A r \in Row : raw[r] <= raw'[r] /\ loaded[r] <= raw'[r]
<1>1. raw' = [r \in Row |-> Latest(raw[r], loaded[r])] /\ raw \in [Row -> Nat]
  BY DEF Consolidate, TypeOK
<1>2. QED
  BY <1>1, LatestType

\* Every write is told or loaded while the client is subscribed, and nothing that
\* is on its way is lost but with the connection.
LEMMA ArrivesStep ==
  ASSUME TypeOK, AllArrives, [Next]_vars PROVE AllArrives'
<1> USE DEF memory, wire, server, history
<1>0. ASSUME UNCHANGED <<subscribed, raw, deltas, answers, rows>> PROVE AllArrives'
  BY <1>0 DEF AllArrives
<1>n. \A r \in Row : raw[r] <= raw[r]
  BY DEF TypeOK
<1>1. CASE LoadStacks \/ Connect \/ UNCHANGED vars
  BY <1>0, <1>1 DEF LoadStacks, Connect, vars
<1>2. CASE LoadRows
  <2>1. Consolidate(disk.rows) /\ UNCHANGED <<rows, subscribed, deltas, answers>>
    BY <1>2 DEF LoadRows
  <2>2. disk.rows \in [Row -> Nat]
    BY DEF TypeOK
  <2>3. raw' \in [Row -> Nat] /\ \A r \in Row : raw[r] <= raw'[r]
    BY <2>1, <2>2, ConsolidateArrives
  <2>4. QED
    BY <2>1, <2>3, MergedArrives
<1>3. CASE ReceiveDelta
  <2> DEFINE d == deltas[1]
  <2>1. /\ deltas # <<>>
        /\ deltas' = IF d.copies > 1 THEN [deltas EXCEPT ![1].copies = @ - 1]
                     ELSE Tail(deltas)
        /\ raw' = [raw EXCEPT ![d.row] = Latest(@, d.value)]
        /\ UNCHANGED <<rows, answers, subscribed>>
    BY <1>3 DEF ReceiveDelta
  <2>2. deltas \in Seq(Delivered) /\ 1 \in DOMAIN deltas /\ d \in Delivered
    BY <2>1 DEF TypeOK
  <2>3. d.row \in Row /\ d.value \in Nat
    BY <2>2 DEF Delivered
  <2> HIDE DEF d
  <2>4. /\ raw' \in [Row -> Nat] /\ d.value <= raw'[d.row]
        /\ \A r \in Row : raw[r] <= raw'[r]
    BY <1>n, <2>1, <2>3, LatestType DEF TypeOK
  <2>5. ASSUME NEW i \in DOMAIN deltas
        PROVE  \/ \E j \in DOMAIN deltas' : /\ deltas'[j].row = deltas[i].row
                                            /\ deltas'[j].value = deltas[i].value
               \/ deltas[i].value <= raw'[deltas[i].row]
    <3>1. CASE i = 1
      BY <2>4, <3>1 DEF d
    <3>2. CASE i # 1 /\ d.copies > 1
      <4>1. deltas' = [deltas EXCEPT ![1].copies = @ - 1]
        BY <2>1, <3>2
      <4>2. i \in DOMAIN deltas' /\ deltas'[i] = deltas[i]
        BY <2>2, <3>2, <4>1
      <4>3. QED
        BY <4>2
    <3>3. CASE i # 1 /\ ~(d.copies > 1)
      <4>1. deltas' = Tail(deltas)
        BY <2>1, <3>3
      <4>2. i - 1 \in DOMAIN deltas' /\ deltas'[i - 1] = deltas[i]
        BY <2>1, <2>2, <3>3, <4>1
      <4>3. QED
        BY <4>2
    <3>4. QED
      BY <3>1, <3>2, <3>3
  <2>6. QED
    BY <2>1, <2>4, <2>5, MergedArrives
<1>4. CASE ReceiveAnswer
  <2>1. PICK a \in answers : answers' = answers \ {a} /\ (ReceiveVerdict(a) \/ ReceiveLoad(a))
    BY <1>4 DEF ReceiveAnswer
  <2>2. UNCHANGED <<deltas, rows, subscribed>>
    BY <1>4 DEF ReceiveAnswer
  <2>3. a \in Answer
    BY DEF TypeOK
  <2>4. CASE ReceiveVerdict(a)
    <3>1. raw' = raw /\ a.kind = "VERDICT"
      BY <2>4, SettleRows DEF ReceiveVerdict
    <3>2. raw' \in [Row -> Nat] /\ \A r \in Row : raw[r] <= raw'[r]
      BY <1>n, <3>1 DEF TypeOK
    <3>3. QED
      BY <2>1, <2>2, <3>1, <3>2, MergedArrives
  <2>5. CASE ReceiveLoad(a)
    <3>1. a.kind = "LOAD" /\ Consolidate(a.rows)
      BY <2>5 DEF ReceiveLoad
    <3>2. a.rows \in [Row -> Nat]
      BY <2>3, <3>1 DEF Answer
    <3>3. raw' \in [Row -> Nat] /\ \A r \in Row : raw[r] <= raw'[r] /\ a.rows[r] <= raw'[r]
      BY <3>1, <3>2, ConsolidateArrives
    <3>4. QED
      BY <2>1, <2>2, <3>3, MergedArrives
  <2>6. QED
    BY <2>1, <2>4, <2>5
<1>5. ASSUME NEW m \in Message, Mutate(m) PROVE AllArrives'
  BY <1>0, <1>5 DEF Mutate
<1>6. ASSUME NEW m \in Message, Timeout(m) PROVE AllArrives'
  <2>1. UNCHANGED <<subscribed, deltas, answers, rows>> /\ Settle(m)
    BY <1>6 DEF Timeout
  <2>2. QED
    BY <1>0, <2>1, SettleRows
<1>7. ASSUME NEW m \in Message, Execute(m) PROVE AllArrives'
  <2>1. PICK n \in 0..Len(Ops[m]) : Perform(m, n)
    BY <1>7 DEF Execute
  <2>2. UNCHANGED <<raw, subscribed>> /\ answers \subseteq answers'
    BY <1>7 DEF Execute
  <2>3. CASE subscribed
    BY <2>1, <2>2, <2>3, PerformArrives
  <2>4. CASE ~subscribed
    BY <2>2, <2>4 DEF AllArrives
  <2>5. QED
    BY <2>3, <2>4
<1>8. CASE Disconnect \/ Reload
  <2>1. subscribed' = FALSE
    BY <1>8 DEF Disconnect, Reload, Break
  <2>2. QED
    BY <2>1 DEF AllArrives
<1>9. CASE Subscribe
  <2> DEFINE a == [kind |-> "LOAD", rows |-> rows]
  <2>1. answers' = answers \cup {a} /\ UNCHANGED rows
    BY <1>9 DEF Subscribe
  <2>2. \A r \in Row : rows[r] <= a.rows[r]
    BY DEF TypeOK
  <2>3. a \in answers' /\ a.kind = "LOAD"
    BY <2>1
  <2> HIDE DEF a
  <2>4. \A r \in Row : Arrives(rows[r], r, raw', deltas', answers')
    BY <2>2, <2>3 DEF Arrives
  <2>5. QED
    BY <2>1, <2>4 DEF AllArrives
<1>10. ASSUME NEW f \in DOMAIN Foreign, ForeignWrite(f) PROVE AllArrives'
  <2> DEFINE d == Delta("UPDATE", Foreign[f], rows'[Foreign[f]], None)
  <2>1. /\ rows' = [rows EXCEPT ![Foreign[f]] = Latest(@, f)]
        /\ Tell(<<d>>)
        /\ UNCHANGED <<raw, subscribed, answers>>
    BY <1>10 DEF ForeignWrite
  <2>2. Foreign[f] \in Row /\ f \in Nat /\ Copies \in Nat
    BY ClientAssumption
  <2>3. rows \in [Row -> Nat] /\ rows' \in [Row -> Nat]
    BY <2>1, <2>2, LatestType DEF TypeOK
  <2>4. d \in Delivered /\ d.row = Foreign[f] /\ d.value = rows'[Foreign[f]]
    BY <2>2, <2>3 DEF Delta, Delivered
  <2> HIDE DEF d
  <2>5. <<d>> \in Seq(Delivered) /\ DOMAIN <<d>> = {1} /\ <<d>>[1] = d
    BY <2>4
  <2>6. \A r \in Row : \/ rows'[r] = rows[r]
                       \/ \E i \in DOMAIN <<d>> : <<d>>[i].row = r /\ <<d>>[i].value = rows'[r]
    BY <2>1, <2>3, <2>4, <2>5
  <2>7. CASE subscribed
    BY <2>1, <2>5, <2>6, <2>7, ToldArrives
  <2>8. CASE ~subscribed
    BY <2>1, <2>8 DEF AllArrives
  <2>9. QED
    BY <2>7, <2>8
<1>11. QED
  BY <1>1, <1>2, <1>3, <1>4, <1>5, <1>6, <1>7, <1>8, <1>9, <1>10 DEF Next

\* The inductive invariant.
IInv == TypeOK /\ Behind /\ (~EarlyMutations => Kept /\ ShownIsOverlay)

LEMMA InitIInv == Init => IInv
BY InitType, InitBehind, InitKept, InitIsOverlay DEF IInv

LEMMA NextIInv == IInv /\ [Next]_vars => IInv'
<1> SUFFICES ASSUME IInv, [Next]_vars PROVE IInv'
  OBVIOUS
<1>1. TypeOK' /\ Behind'
  BY TypeStep, BehindStep DEF IInv
<1>2. ASSUME ~EarlyMutations PROVE Kept' /\ ShownIsOverlay'
  BY <1>2, KeptStep, OverlayStep DEF IInv
<1>3. QED
  BY <1>1, <1>2 DEF IInv

LEMMA AlwaysIInv == Spec => []IInv
<1>1. Spec => Init /\ [][Next]_vars
  BY DEF Spec
<1>2. QED
  BY <1>1, InitIInv, NextIInv, PTL

\* The state has its type: the merge of what is pending always has a last write.
THEOREM TypeCorrect == Spec => []TypeOK
<1>1. IInv => TypeOK
  BY DEF IInv
<1>2. QED
  BY <1>1, AlwaysIInv, PTL

\* The client never holds as confirmed, nor keeps in its database, a value the
\* server does not have, whatever is lost, repeated or late (ConfirmedIsBehind).
THEOREM ConfirmedAlwaysBehind == Spec => []ConfirmedIsBehind
<1>1. IInv => ConfirmedIsBehind
  BY DEF IInv, Behind
<1>2. QED
  BY <1>1, AlwaysIInv, PTL

\* A page that mutates only when its storage has loaded shows of every row the
\* server's value with the pending writes on top (ShownIsOverlay).
THEOREM ShownIsAlwaysOverlay == Spec => [](~EarlyMutations => ShownIsOverlay)
<1>1. IInv => (~EarlyMutations => ShownIsOverlay)
  BY DEF IInv
<1>2. QED
  BY <1>1, AlwaysIInv, PTL

\* On such a page every pending entry has a timer, a place in the queue, or was in
\* flight when a page went away (PendingIsAwaited).
THEOREM PendingIsAlwaysAwaited == Spec => [](~EarlyMutations => PendingIsAwaited)
<1>1. IInv => (~EarlyMutations => PendingIsAwaited)
  BY KeptIsAwaited DEF IInv
<1>2. QED
  BY <1>1, AlwaysIInv, PTL

LEMMA AlwaysArrives == Spec => []AllArrives
<1>1. Spec => Init /\ [][Next]_vars
  BY DEF Spec
<1>2. Init => AllArrives
  BY DEF Init, AllArrives
<1>3. TypeOK /\ AllArrives /\ [Next]_vars => AllArrives'
  BY ArrivesStep
<1>4. QED
  BY <1>1, <1>2, <1>3, TypeCorrect, PTL

\* When nothing is pending or on its way, such a page shows the server's rows,
\* whatever was lost, repeated or late before (Converges).
THEOREM AlwaysConverges == Spec => [](~EarlyMutations => Converges)
<1>1. IInv /\ AllArrives => (~EarlyMutations => Converges)
  <2> SUFFICES ASSUME TypeOK, Behind, ShownIsOverlay, AllArrives, Quiet PROVE shown = rows
    BY DEF IInv, Converges
  <2>1. /\ subscribed /\ DOMAIN deltas = {} /\ answers = {} /\ stack = {}
    BY DEF Quiet
  <2>2. shown \in [Row -> Nat] /\ rows \in [Row -> Nat] /\ raw \in [Row -> Nat]
    BY DEF TypeOK
  <2>3. ASSUME NEW r \in Row PROVE shown[r] = rows[r]
    <3>1. rows[r] <= raw[r] /\ raw[r] <= rows[r]
      BY <2>1 DEF AllArrives, Arrives, Behind, ConfirmedIsBehind
    <3>2. Overlay(r, raw, {}) = raw[r]
      <4>1. Overlay(r, raw, {}) = CHOOSE v \in {raw[r]} : \A u \in {raw[r]} : u <= v
        BY DEF Overlay
      <4>2. raw[r] <= raw[r]
        BY <2>2
      <4>3. QED
        BY <4>1, <4>2
    <3>3. shown[r] = Overlay(r, raw, {})
      <4>1. {e \in stack : e.msg \notin restored} = {}
        BY <2>1
      <4>2. QED
        BY <2>1, <4>1 DEF ShownIsOverlay
    <3>4. QED
      BY <2>2, <3>1, <3>2, <3>3
  <2>4. QED
    BY <2>2, <2>3
<1>2. QED
  BY <1>1, AlwaysIInv, AlwaysArrives, PTL
=============================================================================
