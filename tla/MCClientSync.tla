----------------------------- MODULE MCClientSync -----------------------------
EXTENDS ClientSync, TLC

CONSTANTS a, b

Insert(r) == [op |-> "INSERT", row |-> r]
Update(r) == [op |-> "UPDATE", row |-> r]

\* One mutation inserts a row, a later one updates it and another.
MCOps == (2 :> <<Insert(a)>>) @@ (4 :> <<Update(a), Update(b)>>)
\* Another client writes between the two, by the clock.
MCForeign == 3 :> b
MCInitial == (a :> 0) @@ (b :> 1)

\* One mutation updates two rows that are there.
TwoUpdates == 4 :> <<Update(a), Update(b)>>
BothThere == (a :> 1) @@ (b :> 1)
=============================================================================
