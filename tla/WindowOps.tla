------------------------------ MODULE WindowOps ------------------------------
(***************************************************************************)
(* WindowIndex (core/query-engine/window-index.ts) as a value and the      *)
(* operators its methods are: the entries of one windowed scope in order,  *)
(* capped at Limit, and the map from row id to entry kept beside them.     *)
(***************************************************************************)
EXTENDS SortOrder, SequencesExt

CONSTANT Limit

ASSUME LimitAssumption == Limit \in Nat

EmptyWindow == [entries |-> <<>>, index |-> [i \in {} |-> {}]]

Has(w, id) == id \in DOMAIN w.index
\* (Mutant: one entry too many before the window counts as full.)
IsFullLate(w) == Len(w.entries) > Limit
IsFull(w) == Len(w.entries) >= Limit
Ids(w) == {w.entries[i].id : i \in DOMAIN w.entries}
\* The last entry, which is the cursor of a read.
Boundary(w) == IF w.entries = <<>> THEN {} ELSE {w.entries[Len(w.entries)]}
BackfillCount(w) == IF IsFull(w) THEN 0 ELSE Limit - Len(w.entries)

\* What the binary search of lowerBound returns: p entries are before the
\* position, the p-th sorts before e and the next does not.
IsLowerBound(s, e, p) ==
  /\ p > 0 => Before(s[p], e)
  /\ p < Len(s) => ~Before(s[p + 1], e)

LowerBound(s, e) == CHOOSE p \in 0..Len(s) : IsLowerBound(s, e, p)

\* splice(pos, 1) removes nothing past the end.
Splice(s, p) == IF p < Len(s) THEN RemoveAt(s, p + 1) ELSE s

\* (Mutant: the map is not updated.)
DropIndexForgotten(f, id) == f

SetIndex(f, e) == [i \in DOMAIN f \cup {e.id} |-> IF i = e.id THEN e ELSE f[i]]
DropIndex(f, id) == [i \in DOMAIN f \ {id} |-> f[i]]

\* insert once its position is known: what the window becomes, and what the
\* caller is told. A full window refuses the last position, and any other
\* displaces its last entry.
InsertAtPosition(w, e, p) ==
  LET grown == InsertAt(w.entries, p + 1, e)
      last == grown[Len(grown)]
      result(win, in, out) ==
        [window |-> win, inserted |-> in, evicted |-> out, threw |-> FALSE]
  IN  IF IsFull(w) /\ p >= Limit THEN result(w, FALSE, {})
      ELSE IF Len(grown) > Limit
           THEN result([entries |-> Front(grown),
                        index |-> DropIndex(SetIndex(w.index, e), last.id)],
                       TRUE, {last})
           ELSE result([entries |-> grown, index |-> SetIndex(w.index, e)], TRUE, {})

Unchanged(w, thrown) ==
  [window |-> w, inserted |-> FALSE, evicted |-> {}, threw |-> thrown]

\* insert. Offering an id that is already held throws and changes nothing.
InsertEntry(w, e) ==
  IF Limit = 0 THEN Unchanged(w, FALSE)
  ELSE IF Has(w, e.id) THEN Unchanged(w, TRUE)
  ELSE InsertAtPosition(w, e, LowerBound(w.entries, e))

\* remove once the position is known; a splice past the end takes nothing out.
RemoveAtPosition(w, id, p) ==
  [entries |-> Splice(w.entries, p), index |-> DropIndex(w.index, id)]

\* remove: an unknown id is a no-op; a known one is located by its own entry.
RemoveEntry(w, id) ==
  IF Has(w, id)
  THEN RemoveAtPosition(w, id, LowerBound(w.entries, w.index[id]))
  ELSE w

Sorted(s) == \A i, j \in 1..Len(s) : i < j => Before(s[i], s[j])

\* A windowed read of the rows S: the first n after the cursor (none: from the
\* top) in the total order.
\* (Mutant: the cursor's comparison the wrong way round.)
AfterReversed(S, cursor) == {e \in S : \A c \in cursor : Before(e, c)}
After(S, cursor) == {e \in S : \A c \in cursor : Before(c, e)}
IsFirst(rows, S, n) ==
  /\ Sorted(rows)
  /\ Len(rows) < n => S \subseteq ToSet(rows)
  /\ \A e \in S \ ToSet(rows) : \A i \in 1..Len(rows) : Before(rows[i], e)
FirstRows(S, n) == {rows \in UNION {[1..k -> S] : k \in 0..n} : IsFirst(rows, S, n)}

(***************************************************************************)
(* What a window must be between two calls.                                *)
(***************************************************************************)
Windows ==
  [entries : Seq(Entry), index : UNION {[S -> Entry] : S \in SUBSET Id}]

IndexAgrees(w) ==
  /\ DOMAIN w.index = Ids(w)
  /\ \A i \in 1..Len(w.entries) : w.index[w.entries[i].id] = w.entries[i]

WellFormed(w) ==
  /\ Sorted(w.entries)
  /\ IndexAgrees(w)
  /\ Len(w.entries) <= Limit
=============================================================================
