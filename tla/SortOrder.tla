------------------------------ MODULE SortOrder ------------------------------
(***************************************************************************)
(* The total order [...orderBy, id] that the query engine's windows, the   *)
(* storage reads that seed them and the boundary cursors all rely on.      *)
(* Cells of a sort key are integers (any type whose values the comparator  *)
(* orders as the database does) or Nil (null and undefined); row ids are   *)
(* integers standing for strings in their code-unit order.                 *)
(***************************************************************************)
EXTENDS Integers, Sequences, FiniteSetsExt

CONSTANTS
  Id,           \* row ids
  Value,        \* the non-null cells of a sort key
  Nil,          \* null or undefined
  Directions    \* one "asc" or "desc" per orderBy key

ASSUME SortAssumption ==
  /\ Id \subseteq Int
  /\ Value \subseteq Int
  /\ Nil \notin Int
  /\ Directions \in Seq({"asc", "desc"})

Cell == Value \cup {Nil}
SortKey == [1..Len(Directions) -> Cell]
Entry == [id : Id, sortKey : SortKey]

\* compareValues: nil sorts before every value.
CellBefore(a, b) ==
  /\ b # Nil
  /\ a = Nil \/ a < b

\* The loop of compare: the first key on which the two entries differ decides,
\* in its own direction; the id is an ascending tiebreaker.
Differing(a, b) == {i \in 1..Len(Directions) : a.sortKey[i] # b.sortKey[i]}

Before(a, b) ==
  IF Differing(a, b) = {}
  THEN a.id < b.id
  ELSE LET i == Min(Differing(a, b))
       IN  IF Directions[i] = "desc"
           THEN CellBefore(b.sortKey[i], a.sortKey[i])
           ELSE CellBefore(a.sortKey[i], b.sortKey[i])
=============================================================================
