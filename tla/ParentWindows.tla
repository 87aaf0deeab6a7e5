---------------------------- MODULE ParentWindows ----------------------------
(***************************************************************************)
(* A Tracked Query whose include declares a limit and is ordered by a      *)
(* field of a related object: every project with its first Limit tasks by  *)
(* the name of their assignee.  The engine keeps a window for each parent, *)
(* moves a child between them when it is re-parented, and reads every      *)
(* window again when the name of a user changes.                           *)
(*                                                                         *)
(* One write at a time: a step is a commit with its whole handler, so that *)
(* what the handler reads is what was committed.  (WindowedScope cuts the  *)
(* same handlers at their awaits, for one window.)  The rows a read        *)
(* returns all have a key: a task has an assignee and a user a name.       *)
(***************************************************************************)
EXTENDS WindowOps, Functions

CONSTANTS
  Parent, User,
  Client,
  Leaves,    \* whether a parent with a window may leave the scope of the query
  Absent     \* a row that is not there

ASSUME ParentAssumption ==
  /\ Directions = <<"asc">> /\ Limit > 0 /\ Leaves \in BOOLEAN
  /\ Absent \notin [parent : Parent, assignee : User, ok : BOOLEAN]

VARIABLES
  name,      \* of each user
  task,      \* the committed tasks
  parents,   \* per parent: "absent", "out" or "in" the scope of the query
  marked,    \* the parents matched to the root node
  windows,   \* windowIndexes: a window for some of the parents
  seeded,    \* seededParents
  view       \* per subscriber: the tasks it has been given and not taken away

store == <<name, task, parents>>
vars == <<store, marked, windows, seeded, view>>

Task == [parent : Parent, assignee : User, ok : BOOLEAN]
Subscribed == DOMAIN view

-----------------------------------------------------------------------------
(* Storage.                                                                *)

\* The order of a task: the relational key is its assignee's name, which is read
\* with the task (resolveSortRelations).
NameRead(names, tasks, t) == names[tasks[t].assignee]
EntryOf(names, tasks, t) == [id |-> t, sortKey |-> <<NameRead(names, tasks, t)>>]

\* ownWriteTouchesSortRelationFk, and the tasks a name orders.
Reassigned(t, row) == row.assignee # task[t].assignee
OrderedBy(u) == {t \in Id : task[t] # Absent /\ task[t].assignee = u}

\* A windowed read of one parent: the rows there are, in order, up to the limit.
Rows(names, tasks, p) ==
  {EntryOf(names, tasks, t) : t \in {x \in Id : tasks[x] # Absent /\ tasks[x].parent = p /\ tasks[x].ok}}
FirstOf(S, n) == CHOOSE rows \in FirstRows(S, n) : TRUE
Top(names, tasks, p) == FirstOf(Rows(names, tasks, p), Limit)

-----------------------------------------------------------------------------
(* The handlers, on the windows and the subscribers' views: [windows,      *)
(* view].                                                                  *)

\* ensureParentWindow.
WindowOf(a, p) == IF p \in DOMAIN a.windows THEN a.windows[p] ELSE EmptyWindow
WithWindow(a, p, w) ==
  [a EXCEPT !.windows = [q \in DOMAIN @ \cup {p} |-> IF q = p THEN w ELSE @[q]]]

\* emitToSubscribers, of INSERTs and of the DELETEs of emitScopeOut.
Told(a, in, out) == [a EXCEPT !.view = [s \in DOMAIN @ |-> (@[s] \cup in) \ out]]

\* handleWindowedInsert and scopeInViaUpdate. (Mutant: the row that is displaced
\* is not scoped out.)
PlacedOnly(a, p, e) ==
  LET r == InsertEntry(WindowOf(a, p), e)
  IN  Told(WithWindow(a, p, r.window), IF r.inserted THEN {e.id} ELSE {}, {})
Placed(a, p, e) ==
  LET r == InsertEntry(WindowOf(a, p), e)
  IN  Told(WithWindow(a, p, r.window), IF r.inserted THEN {e.id} ELSE {}, {x.id : x \in r.evicted})

\* The rows of a read that the window does not hold are inserted (trackObjects,
\* backfillWindow).
Filled(w, rows) ==
  FoldLeft(LAMBDA x, e : IF Has(x, e.id) THEN x ELSE InsertEntry(x, e).window, w, rows)

\* backfillWindow, with the rows of the parent.
Backfilled(a, p, S) ==
  LET w == a.windows[p]
      rows == FirstOf(After(S, Boundary(w)), BackfillCount(w))
  IN  Told(WithWindow(a, p, Filled(w, rows)), {e.id : e \in ToSet(rows)} \ Ids(w), {})

\* A row that leaves the list of p. (Mutant: the slot is not filled again.)
LeftEmpty(a, p, id, S) == Told(WithWindow(a, p, RemoveEntry(a.windows[p], id)), {}, {id})
Left(a, p, id, S) ==
  Backfilled(Told(WithWindow(a, p, RemoveEntry(a.windows[p], id)), {}, {id}), p, S)

\* reconcileDemotion of the boundary e of a full window: the best of the rows
\* past the others takes its place if it comes before.
Candidates(w, rows, e) == {j \in DOMAIN rows : rows[j].id # e.id /\ ~Has(w, rows[j].id)}
Demoted(a, p, e, S) ==
  LET rest == RemoveEntry(a.windows[p], e.id)
      rows == FirstOf(After(S, Boundary(rest)), 2)
      best == rows[Min(Candidates(rest, rows, e))]
      swapped == InsertEntry(InsertEntry(rest, best).window, e)
  IN  IF Candidates(rest, rows, e) = {} THEN WithWindow(a, p, InsertEntry(rest, e).window)
      ELSE IF swapped.inserted THEN WithWindow(a, p, swapped.window)
      ELSE Told(WithWindow(a, p, swapped.window), {best.id}, {e.id})

\* The row takes the place of a new key.
Put(w, e) == InsertEntry(RemoveEntry(w, e.id), e).window

\* refreshInWindow: the row takes the place of its new key. A write that leaves
\* the assignee alone has no name to give: the key is the one it had.
Refreshed(a, p, id, names, tasks, reassigned) ==
  LET old == a.windows[p].index[id]
      e == IF reassigned THEN EntryOf(names, tasks, id) ELSE old
      w == Put(a.windows[p], e)
      b == WithWindow(a, p, w)
  IN  IF IsFull(w) /\ Boundary(w) = {e} /\ old.sortKey # e.sortKey
      THEN Demoted(b, p, e, Rows(names, tasks, p)) ELSE b

\* parentWindowHolding.
Holding(a, id) == {p \in DOMAIN a.windows : Has(a.windows[p], id)}

\* handleWindowedIncludeUpdate, of a row that now belongs to the list of p if it
\* matches: it stays in the list it is in, or leaves the one and enters the other.
Quit(a, id, names, tasks) ==
  LET p == CHOOSE q \in Holding(a, id) : TRUE
  IN  IF Holding(a, id) = {} THEN a ELSE Left(a, p, id, Rows(names, tasks, p))
Entered(a, p, id, names, tasks) ==
  IF Has(WindowOf(a, p), id) THEN a ELSE Placed(a, p, EntryOf(names, tasks, id))
Moved(a, id, p, matches, names, tasks, reassigned) ==
  IF matches /\ p \in Holding(a, id) THEN Refreshed(a, p, id, names, tasks, reassigned)
  ELSE IF matches THEN Entered(Quit(a, id, names, tasks), p, id, names, tasks)
  ELSE Quit(a, id, names, tasks)

\* repositionForRelationalChange, of the rows of window w whose assignee's name
\* has changed.
Repositioned(w, ids, v) ==
  FoldLeft(LAMBDA x, id : Put(x, [id |-> id, sortKey |-> <<v>>]), w, SetToSeq(ids \cap Ids(w)))

\* reconcilePromotions: the window becomes the rows that are first now. Those it
\* holds that are not first any more leave it, and each that is takes its place.
Demotions(a, p, fresh) ==
  LET gone == Ids(a.windows[p]) \ {e.id : e \in ToSet(fresh)}
  IN  Told(WithWindow(a, p, FoldLeft(RemoveEntry, a.windows[p], SetToSeq(gone))), {}, gone)
Promoted(a, p, e) ==
  IF Has(a.windows[p], e.id) THEN WithWindow(a, p, Put(a.windows[p], e)) ELSE Placed(a, p, e)
Reconciled(a, p, fresh) ==
  FoldLeft(LAMBDA b, e : Promoted(b, p, e), Demotions(a, p, fresh), fresh)

\* handleRelationalSortFanout: the tasks of the user that a window holds are moved,
\* and every window is read again.
Fanned(a, ids, v) == [a EXCEPT !.windows = [p \in DOMAIN @ |-> Repositioned(@[p], ids, v)]]
Reread(a, names, tasks) ==
  FoldLeft(LAMBDA b, p : Reconciled(b, p, Top(names, tasks, p)), a, SetToSeq(DOMAIN a.windows))

Acc == [windows |-> windows, view |-> view]
Becomes(a) == windows' = a.windows /\ view' = a.view

-----------------------------------------------------------------------------
(* Writes, each with its handler.                                          *)

Init ==
  /\ name \in [User -> Value]
  /\ task = [t \in Id |-> Absent]
  /\ parents = [p \in Parent |-> "absent"]
  /\ marked = {} /\ seeded = {}
  /\ windows = [p \in {} |-> EmptyWindow]
  /\ view = [s \in {} |-> {}]

\* An INSERT of a task matches if its parent is matched and it passes the where
\* of the include; the name is read (resolveSortRelations).
InsertTask(t, row) ==
  /\ task[t] = Absent /\ parents[row.parent] # "absent"
  /\ task' = [task EXCEPT ![t] = row]
  /\ Becomes(IF Subscribed # {} /\ row.parent \in marked /\ row.ok
             THEN Placed(Acc, row.parent, EntryOf(name, task', t)) ELSE Acc)
  /\ UNCHANGED <<name, parents, marked, seeded>>

\* An UPDATE of a task, of its parent, its assignee or whether it passes.
UpdateTask(t, row) ==
  /\ task[t] \notin {Absent, row} /\ parents[row.parent] # "absent"
  /\ task' = [task EXCEPT ![t] = row]
  /\ LET matches == row.parent \in marked /\ row.ok
     IN  Becomes(IF Subscribed = {} THEN Acc
                 ELSE Moved(Acc, t, row.parent, matches, name, task', Reassigned(t, row)))
  /\ UNCHANGED <<name, parents, marked, seeded>>

\* A write of the name of a user.
Rename(u, v) ==
  /\ name[u] # v
  /\ name' = [name EXCEPT ![u] = v]
  /\ Becomes(Reread(Fanned(Acc, OrderedBy(u), v), name', task))
  /\ UNCHANGED <<task, parents, marked, seeded>>

\* A parent's tree is read and sent: its children are tracked (trackObjects: the
\* window is filled once) and given.
TreeSent(p, a) ==
  LET rows == Top(name, task, p)
      w == IF p \in seeded \/ rows = <<>> THEN a ELSE WithWindow(a, p, Filled(WindowOf(a, p), rows))
  IN  Told(w, {e.id : e \in ToSet(rows)}, {})
NowSeeded(ps) == seeded \cup {p \in ps : Rows(name, task, p) # {}}

InsertParent(p, to) ==
  /\ parents[p] = "absent" /\ to # "absent"
  /\ parents' = [parents EXCEPT ![p] = to]
  /\ marked' = IF to = "in" /\ Subscribed # {} THEN marked \cup {p} ELSE marked
  /\ UNCHANGED <<name, task, windows, seeded, view>>

\* A parent that comes into scope is read with its children.
ParentScopesIn(p) ==
  /\ parents[p] = "out"
  /\ parents' = [parents EXCEPT ![p] = "in"]
  /\ IF Subscribed = {} THEN UNCHANGED <<marked, windows, seeded, view>>
     ELSE /\ marked' = marked \cup {p}
          /\ Becomes(TreeSent(p, Acc))
          /\ seeded' = NowSeeded({p})
  /\ UNCHANGED <<name, task>>

\* One that leaves is no longer matched; its window stays, and is not kept up.
ParentScopesOut(p) ==
  /\ parents[p] = "in" /\ (Leaves \/ p \notin DOMAIN windows)
  /\ parents' = [parents EXCEPT ![p] = "out"]
  /\ marked' = marked \ {p}
  /\ UNCHANGED <<name, task, windows, seeded, view>>

\* subscribe and get: the parents in scope with their first children.
Subscribe(s) ==
  LET ps == {p \in Parent : parents[p] = "in"}
      fresh == {p \in ps : Rows(name, task, p) # {} /\ p \notin seeded}
  IN  /\ s \notin Subscribed
      /\ marked' = marked \cup ps
      /\ windows' = [p \in DOMAIN windows \cup fresh |->
                       IF p \in fresh THEN Filled(WindowOf(Acc, p), Top(name, task, p)) ELSE windows[p]]
      /\ seeded' = NowSeeded(ps)
      /\ view' = [x \in Subscribed \cup {s} |->
                    IF x = s THEN UNION {{e.id : e \in ToSet(Top(name, task, p))} : p \in ps} ELSE view[x]]
      /\ UNCHANGED store

\* The query nodes go with the last subscriber, the graph's matches do not.
Unsubscribe(s) ==
  /\ s \in Subscribed
  /\ view' = Restrict(view, Subscribed \ {s})
  /\ IF Subscribed = {s} THEN windows' = [p \in {} |-> EmptyWindow] /\ seeded' = {}
     ELSE UNCHANGED <<windows, seeded>>
  /\ UNCHANGED <<store, marked>>

Next ==
  \/ \E t \in Id, row \in Task : InsertTask(t, row) \/ UpdateTask(t, row)
  \/ \E u \in User, v \in Value : Rename(u, v)
  \/ \E p \in Parent, to \in {"in", "out"} : InsertParent(p, to)
  \/ \E p \in Parent : ParentScopesIn(p) \/ ParentScopesOut(p)
  \/ \E s \in Client : Subscribe(s) \/ Unsubscribe(s)

Spec == Init /\ [][Next]_vars

-----------------------------------------------------------------------------
(* Properties.                                                             *)

InScope == {p \in Parent : parents[p] = "in"}

TypeOK ==
  /\ name \in [User -> Value] /\ task \in [Id -> Task \cup {Absent}]
  /\ parents \in [Parent -> {"absent", "in", "out"}]
  /\ marked \subseteq Parent /\ (Subscribed # {} => marked = InScope)
  /\ DOMAIN windows \subseteq Parent /\ seeded \subseteq DOMAIN windows
  /\ \A p \in DOMAIN windows : WellFormed(windows[p])
  /\ Subscribed \subseteq Client /\ \A s \in Subscribed : view[s] \subseteq Id

\* The state has its type, a child is in the window of one parent at most, and
\* the window of every parent in scope is the first Limit of its children, in
\* order and under their current keys.
ParentWindowsAreTop ==
  /\ TypeOK
  /\ \A t \in Id : Cardinality(Holding(Acc, t)) <= 1
  /\ Subscribed # {} => \A p \in InScope : WindowOf(Acc, p).entries = Top(name, task, p)

\* A subscriber holds, of each parent in scope, the children that are its first,
\* whatever was moved, renamed, displaced or filled in, and no others.
ViewsAreWindows ==
  \A s \in Subscribed : \A p \in InScope :
    {t \in view[s] : task[t].parent = p} = {e.id : e \in ToSet(Top(name, task, p))}
=============================================================================
