------------------------------ MODULE TopWindow ------------------------------
(***************************************************************************)
(* What a window promises its caller, with no sequence, no index map and   *)
(* no search: a set of entries with distinct ids that keeps the first      *)
(* Limit of what it is offered under the total order, and reports the one  *)
(* entry an insert displaced.                                              *)
(***************************************************************************)
EXTENDS SortOrder, FiniteSets

CONSTANT Limit

VARIABLES
  members,   \* the entries held
  outcome    \* what the last call reported

vars == <<members, outcome>>

Reported(in, out, thrown) == [inserted |-> in, evicted |-> out, threw |-> thrown]

Holds(id) == \E m \in members : m.id = id
IsLast(e, S) == e \in S /\ \A x \in S \ {e} : Before(x, e)

Init ==
  /\ members = {}
  /\ outcome = Reported(FALSE, {}, FALSE)

\* The offered entry fits.
AddWithin(e) ==
  /\ ~Holds(e.id)
  /\ Cardinality(members) < Limit
  /\ members' = members \cup {e}
  /\ outcome' = Reported(TRUE, {}, FALSE)

\* The window is at its limit: whichever of the members and the newcomer is
\* last loses its place, and only a member that does is reported as evicted.
AddAtLimit(e) ==
  /\ ~Holds(e.id)
  /\ Cardinality(members) = Limit
  /\ \E last \in members \cup {e} :
       /\ IsLast(last, members \cup {e})
       /\ members' = (members \cup {e}) \ {last}
       /\ outcome' = IF last = e THEN Reported(FALSE, {}, FALSE)
                     ELSE Reported(TRUE, {last}, FALSE)

\* An id already held is refused loudly.
AddHeld(e) ==
  /\ Holds(e.id)
  /\ outcome' = Reported(FALSE, {}, TRUE)
  /\ UNCHANGED members

Drop(id) ==
  /\ members' = {m \in members : m.id # id}
  /\ outcome' = Reported(FALSE, {}, FALSE)

Next ==
  \/ \E e \in Entry : AddWithin(e) \/ AddAtLimit(e) \/ AddHeld(e)
  \/ \E id \in Id : Drop(id)

Spec == Init /\ [][Next]_vars
=============================================================================
