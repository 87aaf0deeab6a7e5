----------------------------- MODULE WindowIndex -----------------------------
(***************************************************************************)
(* A WindowIndex in use: any sequence of insert and remove calls, each cut *)
(* at the iterations of the binary search that finds its position. The     *)
(* engine calls both synchronously, so one call ends before the next.      *)
(***************************************************************************)
EXTENDS WindowOps

VARIABLES
  windowIndex,  \* the entries and the id map of the index
  outcome,      \* what the last call returned (or that it threw)
  method,       \* the call that is searching: "insert" or "remove", else "none"
  target,       \* the entry it searches for
  lo, hi        \* the variables of its loop

indexVars == <<windowIndex, outcome, method, target, lo, hi>>

Reported(r) == [inserted |-> r.inserted, evicted |-> r.evicted, threw |-> r.threw]
Nothing == Reported(Unchanged(EmptyWindow, FALSE))

NoCall == method = "none" /\ target = Nil /\ lo = 0 /\ hi = 0

IndexInit ==
  /\ windowIndex = EmptyWindow
  /\ outcome = Nothing
  /\ NoCall

\* The calls that return before they search: insert into a window of limit 0,
\* insert of a held id (which throws), remove of an unknown one.
ReturnEarly(r) ==
  /\ outcome' = Reported(r)
  /\ UNCHANGED <<windowIndex, method, target, lo, hi>>

Search(m, e) ==
  /\ method' = m
  /\ target' = e
  /\ lo' = 0
  /\ hi' = Len(windowIndex.entries)
  /\ UNCHANGED <<windowIndex, outcome>>

InsertRow(e) ==
  /\ NoCall
  /\ \/ Limit = 0 /\ ReturnEarly(Unchanged(windowIndex, FALSE))
     \/ Limit # 0 /\ Has(windowIndex, e.id) /\ ReturnEarly(Unchanged(windowIndex, TRUE))
     \/ Limit # 0 /\ ~Has(windowIndex, e.id) /\ Search("insert", e)

RemoveRow(id) ==
  /\ NoCall
  /\ \/ ~Has(windowIndex, id) /\ ReturnEarly(Unchanged(windowIndex, FALSE))
     \/ Has(windowIndex, id) /\ Search("remove", windowIndex.index[id])

\* (Mutant: the upper half keeps the probe.)
ProbeAgain ==
  /\ method # "none"
  /\ lo < hi
  /\ LET mid == (lo + hi) \div 2
     IN  IF Before(windowIndex.entries[mid + 1], target)
         THEN lo' = mid /\ hi' = hi
         ELSE lo' = lo /\ hi' = mid
  /\ UNCHANGED <<windowIndex, outcome, method, target>>

\* One iteration of lowerBound. Array positions are zero-based in the code,
\* sequences start at 1.
Probe ==
  /\ method # "none"
  /\ lo < hi
  /\ LET mid == (lo + hi) \div 2
     IN  IF Before(windowIndex.entries[mid + 1], target)
         THEN lo' = mid + 1 /\ hi' = hi
         ELSE lo' = lo /\ hi' = mid
  /\ UNCHANGED <<windowIndex, outcome, method, target>>

Return == method' = "none" /\ target' = Nil /\ lo' = 0 /\ hi' = 0

EndInsert ==
  /\ method = "insert"
  /\ lo >= hi
  /\ LET r == InsertAtPosition(windowIndex, target, lo)
     IN  windowIndex' = r.window /\ outcome' = Reported(r)
  /\ Return

EndRemove ==
  /\ method = "remove"
  /\ lo >= hi
  /\ windowIndex' = RemoveAtPosition(windowIndex, target.id, lo)
  /\ outcome' = Nothing
  /\ Return

IndexNext ==
  \/ \E e \in Entry : InsertRow(e)
  \/ \E id \in Id : RemoveRow(id)
  \/ Probe \/ EndInsert \/ EndRemove

IndexSpec == IndexInit /\ [][IndexNext]_indexVars

\* A call that has begun runs on: the code is synchronous.
FairIndexSpec == IndexSpec /\ WF_indexVars(Probe \/ EndInsert \/ EndRemove)

-----------------------------------------------------------------------------
Outcomes == [inserted : BOOLEAN, evicted : SUBSET Entry, threw : BOOLEAN]

\* The state has its type; in particular the bounds of the search stay inside
\* the array, so that a probe always finds an entry.
IndexTypeOK ==
  /\ windowIndex \in Windows
  /\ outcome \in Outcomes
  /\ method \in {"none", "insert", "remove"}
  /\ method = "none" => NoCall
  /\ method # "none" => target \in Entry
  /\ {lo, hi} \subseteq 0..Len(windowIndex.entries)

\* After any sequence of calls the entries are in strict order and at most
\* Limit, and the id map holds exactly the entries: the map and the array are
\* updated apart, and remove finds its entry only by searching for its order.
IndexWellFormed == WellFormed(windowIndex)

\* What the loop keeps true of its two bounds, and what a call that searches
\* knows of its target.
SearchInv ==
  method # "none" =>
    /\ lo <= hi
    /\ lo > 0 => Before(windowIndex.entries[lo], target)
    /\ hi < Len(windowIndex.entries) => ~Before(windowIndex.entries[hi + 1], target)
    /\ method = "insert" => Limit # 0 /\ ~Has(windowIndex, target.id)
    /\ method = "remove" => Has(windowIndex, target.id) /\ windowIndex.index[target.id] = target

\* Where the search stops, exactly the entries that sort before the target are
\* to the left: the position insert splices at and remove splices out.
FoundPosition ==
  method # "none" /\ lo = hi =>
    \A i \in 1..Len(windowIndex.entries) : i <= lo <=> Before(windowIndex.entries[i], target)

\* Every call returns: each probe shrinks the range.
CallsReturn == (method # "none") ~> (method = "none")

\* The array, the map and the binary search together are a top-N set: what is
\* kept, what is evicted, what is refused.
Abstract == INSTANCE TopWindow WITH members <- ToSet(windowIndex.entries)
ImplementsTopWindow == Abstract!Spec
=============================================================================
