------------------------------ MODULE WhereQuery ------------------------------
(***************************************************************************)
(* A plain query with a where clause: it is built with where() and first() *)
(* (core/query.ts), read from the database when a client subscribes, and   *)
(* kept by the engine, which decides for each written row of the query's   *)
(* resource, in memory, whether the row is in scope.  One write at a time: *)
(* the module is about what is decided, not about when.                    *)
(***************************************************************************)
EXTENDS WhereClause

CONSTANTS
  Root,        \* the resource of the query
  Condition,   \* the clauses handed to where() and first(), a sequence
  Databases,   \* the databases to begin with
  Inserted,    \* rows of Root to insert: [row, missing], the fields left out
  Updated,     \* rows to write over those there are: [res, row]
  NotNull,     \* for each resource the fields that hold no null
  MaxChain,    \* bound on the calls of where() and first()
  MaxWrites    \* bound on the writes

ASSUME WhereAssumption ==
  /\ Root \in Resource /\ MaxChain \in Nat /\ MaxWrites \in Nat
  /\ \A res \in Resource : Wordy[res] \subseteq Field[res] \cup {"id"}
  /\ \A i \in Inserted : i.missing \subseteq Field[Root] \ NotNull[Root]

VARIABLES
  db,       \* for each resource its rows
  where,    \* the clause of the query
  given,    \* history: the clauses it was built from
  phase,    \* "building" or "live"
  members,  \* the ids the engine has marked as matched
  writes,   \* history: the number of writes
  stale,    \* history: a row of a resource the clause follows was written
  bare      \* history: a row was inserted without a field tested for null

vars == <<db, where, given, phase, members, writes, stale, bare>>

Init ==
  /\ db \in Databases
  /\ where = <<>> /\ given = <<>> /\ phase = "building" /\ members = {}
  /\ writes = 0 /\ stale = FALSE /\ bare = FALSE

\* { ...old, ...new }: a key of both keeps its place and takes the new value.
\* (Mutant: the new clause alone.)
SpreadNew(old, new) == new
Spread(old, new) ==
  [i \in DOMAIN old |->
     IF HasKey(new, old[i].key) THEN new[CHOOSE j \in Entries(new, old[i].key) : TRUE] ELSE old[i]]
  \o SelectSeq(new, LAMBDA e : ~HasKey(old, e.key))

\* where(): chained on what there is.
Where(c) ==
  /\ phase = "building" /\ Len(given) < MaxChain
  /\ where' = Spread(where, c)
  /\ given' = Append(given, c)
  /\ UNCHANGED <<db, phase, members, writes, stale, bare>>

\* first(): in the place of what there is.
First(c) ==
  /\ phase = "building" /\ Len(given) < MaxChain
  /\ where' = c /\ given' = <<c>>
  /\ UNCHANGED <<db, phase, members, writes, stale, bare>>

\* subscribe and get: the rows of the answer are matched.
Subscribe ==
  /\ phase = "building" /\ phase' = "live"
  /\ members' = IdsSelected(db, Root, where)
  /\ UNCHANGED <<db, where, given, writes, stale, bare>>

\* The row is matched, or no longer.
Judged(newDb, obj) ==
  IF Matches(newDb, Root, where, obj) THEN members \cup {obj.id} ELSE members \ {obj.id}

TestedForNull(fs) ==
  \E i \in DOMAIN where : where[i].key \in fs /\ Null \in UNION Range(where[i].test)

\* handleMutation of an INSERT: the object is what the writer gave.
Insert(i) ==
  /\ phase = "live" /\ writes < MaxWrites
  /\ i.row.id \notin {r.id : r \in db[Root]}
  /\ db' = [db EXCEPT ![Root] = @ \cup {[f \in DOMAIN i.row |-> IF f \in i.missing THEN Null ELSE i.row[f]]}]
  /\ members' = Judged(db', [f \in DOMAIN i.row \ i.missing |-> i.row[f]])
  /\ writes' = writes + 1
  /\ bare' = (bare \/ TestedForNull(i.missing))
  /\ UNCHANGED <<where, given, phase, stale>>

Follows(res) ==
  \E s \in Subclauses(Root, where) : \E i \in DOMAIN s.clause :
    IsRelation(s.res, s.clause[i].key) /\ Schema[s.res][s.clause[i].key].entity = res

\* handleMutation of an UPDATE: the object is the row as it is read back. A row
\* of another resource matches no query of this one.
Update(u) ==
  /\ phase = "live" /\ writes < MaxWrites
  /\ u.row \notin db[u.res]
  /\ \E r \in db[u.res] :
       /\ r.id = u.row.id
       /\ db' = [db EXCEPT ![u.res] = (@ \ {r}) \cup {u.row}]
  /\ members' = IF u.res = Root THEN Judged(db', u.row) ELSE members
  /\ writes' = writes + 1
  /\ stale' = (stale \/ Follows(u.res))
  /\ UNCHANGED <<where, given, phase, bare>>

Next ==
  \/ \E c \in Range(Condition) : Where(c) \/ First(c)
  \/ Subscribe
  \/ \E i \in Inserted : Insert(i)
  \/ \E u \in Updated : Update(u)

Spec == Init /\ [][Next]_vars

-----------------------------------------------------------------------------
(* Where the two evaluations agree.                                        *)

Parts == Subclauses(Root, where)
Followed ==
  UNION {{[from |-> s.res, key |-> s.clause[i].key, entity |-> Schema[s.res][s.clause[i].key].entity] :
            i \in {j \in DOMAIN s.clause : IsRelation(s.res, s.clause[j].key)}} : s \in Parts}

\* Nothing beside $and and $or: the SQL has only the one of them.
NothingBeside ==
  \A s \in Parts : HasKey(s.clause, "$and") \/ HasKey(s.clause, "$or") => Len(s.clause) = 1

\* No null in a list, and no negation of a field that may be null, but for the
\* test that it is not: SQL holds neither of them true of a null, nor "not in"
\* true of anything if the list has one.
NullsAside ==
  \A s \in Parts : \A i \in DOMAIN s.clause :
    LET e == s.clause[i]
    IN  e.test # <<>> =>
          /\ OperatorOf(e.test) \in {"in", "notIn"} => Null \notin e.test[OperatorOf(e.test)]
          /\ OperatorOf(e.test) = "notIn" => e.key \in NotNull[s.res]
          /\ OperatorOf(e.test) = "not" => e.key \in NotNull[s.res] \/ Operand(e.test) = Null

\* Only numbers are ordered in memory.
NumbersOrdered ==
  \A s \in Parts : \A i \in DOMAIN s.clause :
    LET e == s.clause[i]
    IN  e.test # <<>> /\ OperatorOf(e.test) \in {"gt", "gte", "lt", "lte"} => e.key \notin Wordy[s.res]

\* Under a relation to one row no test a missing row would pass.
NoMissingRow ==
  \A s \in Parts : \A i \in DOMAIN s.clause :
    IsRelation(s.res, s.clause[i].key) /\ Schema[s.res][s.clause[i].key].type = "one" =>
      \A t \in Subclauses(Schema[s.res][s.clause[i].key].entity, s.clause[i].sub[1]) :
        /\ t.clause # <<>>
        /\ \A test \in {t.clause[j].test : j \in DOMAIN t.clause} \ {<<>>} :
             OperatorOf(test) \in {"eq", "plain"} => Operand(test) # Null

\* One relation to each table, and none back to the query's own.
OwnTables ==
  /\ \A f, g \in Followed : f.entity = g.entity => f = g
  /\ \A f \in Followed : f.entity # Root

\* What the branches ask for under a relation is the same.
SameUnder ==
  \A s, t \in Parts : \A i \in DOMAIN s.clause, j \in DOMAIN t.clause :
    s.res = t.res /\ s.clause[i].key = t.clause[j].key /\ IsRelation(s.res, s.clause[i].key) =>
      LET below == Schema[s.res][s.clause[i].key].entity
      IN  DOMAIN IncludeOf(below, s.clause[i].sub[1], <<>>) = DOMAIN IncludeOf(below, t.clause[j].sub[1], <<>>)

Agreeable == NothingBeside /\ NullsAside /\ NumbersOrdered /\ NoMissingRow /\ SameUnder

-----------------------------------------------------------------------------
(* Properties.                                                             *)

TypeOK ==
  /\ DOMAIN db = Resource /\ \A res \in Resource : \A r \in db[res] : DOMAIN r = Field[res] \cup {"id"}
  /\ phase \in {"building", "live"} /\ writes \in 0..MaxWrites
  /\ members \subseteq {r.id : r \in db[Root]}
  /\ stale \in BOOLEAN /\ bare \in BOOLEAN

Live == phase = "live" /\ ~stale /\ ~bare

\* The state has its type, and what the engine holds to be in scope, row by row
\* and in memory, is what the query would return if it were read again.
MembersAreSelected ==
  /\ TypeOK
  /\ Live /\ Agreeable /\ OwnTables => members = IdsSelected(db, Root, where)

\* A query that follows no relation to many rows returns each row once.
RowsComeOnce ==
  (\A f \in Followed : Schema[f.from][f.key].type = "one") =>
    Cardinality(Selected(db, Root, where)) = Cardinality(IdsSelected(db, Root, where))

\* A row that is selected passes every clause the query was built from, if no
\* two have a key in common, none has $and or $or and each relation has a table
\* of its own.
ChainNarrows ==
  OwnTables /\ (\A i, j \in DOMAIN given : \A e \in Range(given[i]) :
      e.key \notin {"$and", "$or"} /\ (i # j => ~HasKey(given[j], e.key))) =>
    \A c \in Range(given) : IdsSelected(db, Root, where) \subseteq IdsSelected(db, Root, c)
=============================================================================
