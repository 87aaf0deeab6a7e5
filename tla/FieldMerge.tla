----------------------------- MODULE FieldMerge -----------------------------
(***************************************************************************)
(* The last-writer-wins merge of a record (schema/atomic.ts,               *)
(* schema/collection.ts). A cell is a value and the time it was written;   *)
(* a partial record has a cell for some of the fields.  The server merges  *)
(* a write into the stored row with it, and every client a delta into its  *)
(* copy.                                                                   *)
(***************************************************************************)
EXTENDS Integers

CONSTANTS
  Field,    \* the fields of the resource
  Coerced,  \* those whose type converts what it is given: numbers and booleans
  Datum,    \* the values written
  Null,     \* null
  Zero      \* what a converted null becomes: 0 or false

ASSUME MergeAssumption ==
  /\ Coerced \subseteq Field
  /\ Null # Zero /\ {Null, Zero} \cap Datum = {}

Value == Datum \cup {Null, Zero}

\* The timestamp 0 stands for a missing one: the field was never written, or
\* its row in the meta table is not there.
Unstamped == 0
Cell == [value : Value, stamp : Nat]
IsPartial(rec) == DOMAIN rec \subseteq Field /\ rec \in [DOMAIN rec -> Cell]

Stamped(rec) == {f \in DOMAIN rec : rec[f].stamp # Unstamped}

\* A write is late when both times are known and the held one is later: a tie
\* is accepted. (Mutants: it never is; it is without a known time.)
NeverLate(held, cell) == FALSE
Late(held, cell) ==
  /\ held.stamp # Unstamped /\ cell.stamp # Unstamped
  /\ held.stamp > cell.stamp

\* convertFunc, which NullableLiveType does not keep null from.
Converted(f, v) == IF f \in Coerced /\ v = Null THEN Zero ELSE v

\* The merge of one field, with nothing held or with a cell held.
\* (Mutants: the value held gets the time of the late write; the clock of the
\* later write is kept with the value of the earlier.)
Accepted(f, cell) == [cell EXCEPT !.value = Converted(f, cell.value)]
MergedTorn(f, held, cell) ==
  IF Late(held, cell) THEN [held EXCEPT !.stamp = cell.stamp] ELSE Accepted(f, cell)
MergedField(f, held, cell) == IF Late(held, cell) THEN held ELSE Accepted(f, cell)

\* The merge of a record: the fields of both, each merged on its own.
Merged(held, write) ==
  [f \in DOMAIN held \cup DOMAIN write |->
     IF f \notin DOMAIN write THEN held[f]
     ELSE IF f \notin DOMAIN held THEN Accepted(f, write[f])
     ELSE MergedField(f, held[f], write[f])]
=============================================================================
