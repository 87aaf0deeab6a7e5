----------------------------- MODULE WhereClause -----------------------------
(***************************************************************************)
(* A where clause is evaluated twice: by the database, as the SQL that     *)
(* server/storage/sql-utils.ts writes, when a query is read, and in        *)
(* memory, by applyWhere (utils.ts), when the query engine asks whether a  *)
(* written row belongs to a query.                                         *)
(*                                                                         *)
(* A clause is the sequence of an object's entries [key, test, sub]: a     *)
(* test maps operators to the set of their operands (one, but for "in"),   *)
(* sub holds the clauses under $and, $or or a relation.                    *)
(***************************************************************************)
EXTENDS Integers, Sequences, SequencesExt, FiniteSets, TLC

CONSTANTS
  Schema,  \* for each resource its relations, by name: [type, entity, column]
  Field,   \* for each resource its fields
  Wordy,   \* for each resource the fields that hold no numbers: ids, text, times
  Null

Resource == DOMAIN Schema
Undefined == -1   \* what an object has no field for
Operator == {"eq", "in", "not", "notIn", "gt", "gte", "lt", "lte", "plain"}
\* The order in which both evaluations look for the operator of a test.
Precedence == <<"eq", "in", "notIn", "not", "gt", "gte", "lt", "lte", "plain">>

\* A row and its related rows are in the database: for each resource its rows,
\* functions from the fields and "id".
Relations(res) == DOMAIN Schema[res]
IsRelation(res, key) == key \in Relations(res)

Entries(clause, key) == {i \in DOMAIN clause : clause[i].key = key}
HasKey(clause, key) == Entries(clause, key) # {}
Sub(clause, key) == clause[CHOOSE i \in Entries(clause, key) : TRUE].sub

\* Only the first operator of a test counts.
OperatorOf(test) == Precedence[CHOOSE i \in 1..9 :
  Precedence[i] \in DOMAIN test /\ \A j \in 1..(i - 1) : Precedence[j] \notin DOMAIN test]
Operand(test) == CHOOSE v \in test[OperatorOf(test)] : TRUE

-----------------------------------------------------------------------------
(* The database (sql-utils.ts). A scope maps the tables of the statement   *)
(* to a row each; a row a left join found nothing for is NoRow.  A name is *)
(* looked up in the innermost scope.                                       *)

NoRow == <<>>
Cell(scope, table, field) == IF scope[table] = NoRow THEN Null ELSE scope[table][field]

\* applyJoins: a join for each relation of the clause, unless its table is
\* joined already.
RECURSIVE Joins(_, _, _)
Joins(res, clause, joined) ==
  LET under(key) ==
        FoldLeft(LAMBDA js, c : Joins(res, c, js), joined, Sub(clause, key))
      step(js, e) ==
        IF ~IsRelation(res, e.key) THEN js
        ELSE LET rel == Schema[res][e.key]
                 join == [table |-> rel.entity,
                          on |-> IF rel.type = "one" THEN "id" ELSE rel.column,
                          self |-> res,
                          column |-> IF rel.type = "one" THEN rel.column ELSE "id"]
                 more == IF \E i \in DOMAIN js : js[i].table = rel.entity THEN js
                         ELSE Append(js, join)
             IN  Joins(rel.entity, e.sub[1], more)
  IN  IF HasKey(clause, "$and") THEN under("$and")
      ELSE IF HasKey(clause, "$or") THEN under("$or")
      ELSE FoldLeft(step, joined, clause)

\* (Mutant: a join on nothing.)
CrossJoin(db, scopes, j) ==
  UNION {{(j.table :> r) @@ s : r \in db[j.table]} : s \in scopes}
LeftJoin(db, scopes, j) ==
  UNION {LET ms == {r \in db[j.table] : r[j.on] = Cell(s, j.self, j.column) /\ r[j.on] # Null}
         IN  {(j.table :> r) @@ s : r \in IF ms = {} THEN {NoRow} ELSE ms} : s \in scopes}

\* SQL's logic has three values; a comparison with null is Unknown.
Known(b) == IF b THEN "true" ELSE "false"
Compared(cell, known) == IF cell = Null THEN "unknown" ELSE Known(known)
\* A list is compared with one by one.
Listed(cell, vs, known) ==
  IF cell \notin vs /\ Null \in vs THEN "unknown" ELSE Compared(cell, known)
TestSQL(cell, test) ==
  LET op == OperatorOf(test)
      v == Operand(test)
  IN  CASE op \in {"eq", "plain"} -> IF v = Null THEN Known(cell = Null) ELSE Compared(cell, cell = v)
        [] op = "not" -> IF v = Null THEN Known(cell # Null) ELSE Compared(cell, cell # v)
        [] op = "in" -> Listed(cell, test[op], cell \in test[op])
        [] op = "notIn" -> Listed(cell, test[op], cell \notin test[op])
        [] op = "gt" -> IF cell = Null THEN "unknown" ELSE Known(cell > v)
        [] op = "gte" -> IF cell = Null THEN "unknown" ELSE Known(cell >= v)
        [] op = "lt" -> IF cell = Null THEN "unknown" ELSE Known(cell < v)
        [] op = "lte" -> IF cell = Null THEN "unknown" ELSE Known(cell <= v)

And3(vs) == IF "false" \in vs THEN "false" ELSE IF "unknown" \in vs THEN "unknown" ELSE "true"
Or3(vs) == IF "true" \in vs THEN "true" ELSE IF "unknown" \in vs THEN "unknown" ELSE "false"

\* innerApplyWhere: $or alone if it is there, else $and alone, else the keys.
RECURSIVE HoldsSQL(_, _, _, _)
HoldsSQL(db, res, clause, scope) ==
  LET under(key) == {HoldsSQL(db, res, c, scope) : c \in Range(Sub(clause, key))}
      exists(rel, c) ==
        LET rows == {(rel.entity :> r) @@ scope : r \in db[rel.entity]}
            scopes == FoldLeft(LAMBDA ss, j : LeftJoin(db, ss, j), rows, Joins(rel.entity, c, <<>>))
        IN  Known(\E s \in scopes :
                    /\ Cell(s, rel.entity, rel.column) = Cell(s, res, "id")
                    /\ Cell(s, res, "id") # Null
                    /\ HoldsSQL(db, rel.entity, c, s) = "true")
      entry(e) ==
        IF e.key \in Field[res] \cup {"id"} THEN TestSQL(Cell(scope, res, e.key), e.test)
        ELSE IF ~IsRelation(res, e.key) THEN "true"
        ELSE LET rel == Schema[res][e.key]
             IN  IF rel.type = "many" THEN exists(rel, e.sub[1])
                 ELSE HoldsSQL(db, rel.entity, e.sub[1], scope)
  IN  IF HasKey(clause, "$or") THEN Or3(under("$or"))
      ELSE IF HasKey(clause, "$and") THEN And3(under("$and"))
      ELSE And3({entry(e) : e \in Range(clause)})

\* applyWhere: a row of the result for each row of the joins.
Selected(db, res, clause) ==
  LET rows == {res :> r : r \in db[res]}
      scopes == FoldLeft(LAMBDA ss, j : LeftJoin(db, ss, j), rows, Joins(res, clause, <<>>))
  IN  IF clause = <<>> THEN rows ELSE {s \in scopes : HoldsSQL(db, res, clause, s) = "true"}
\* The columns of the resource are selected, those of the joined tables are not.
IdsSelected(db, res, clause) == {s[res].id : s \in Selected(db, res, clause)}

-----------------------------------------------------------------------------
(* In memory (utils.ts).                                                   *)

\* extractIncludeFromWhere: the relations of a clause, each with those under
\* it. What a later branch of the clause asks for replaces what an earlier
\* one did.
RECURSIVE IncludeOf(_, _, _)
IncludeOf(res, clause, include) ==
  LET under(key) ==
        FoldLeft(LAMBDA inc, c : IncludeOf(res, c, inc), include, Sub(clause, key))
      step(inc, e) ==
        IF ~IsRelation(res, e.key) THEN inc
        ELSE (e.key :> IncludeOf(Schema[res][e.key].entity, e.sub[1], <<>>)) @@ inc
  IN  IF HasKey(clause, "$and") THEN under("$and")
      ELSE IF HasKey(clause, "$or") THEN under("$or")
      ELSE FoldLeft(step, include, clause)

\* typeof value === "number": only numbers are ordered.
TestJS(v, test, wordy) ==
  LET op == OperatorOf(test)
      w == Operand(test)
      number == ~wordy /\ v # Null /\ v # Undefined
  IN  CASE op \in {"eq", "plain"} -> v = w
        [] op = "not" -> v # w
        [] op = "in" -> v # Undefined /\ v \in test[op]
        [] op = "notIn" -> v # Undefined /\ v \notin test[op]
        [] op = "gt" -> number /\ v > w
        [] op = "gte" -> number /\ v >= w
        [] op = "lt" -> number /\ v < w
        [] op = "lte" -> number /\ v <= w

\* The rows under a relation of an object, if they were included with it.
Related(db, res, obj, name) ==
  LET rel == Schema[res][name]
  IN  IF rel.type = "many" THEN {r \in db[rel.entity] : r[rel.column] = obj.id}
      ELSE {r \in db[rel.entity] : r.id = obj[rel.column]}

\* applyWhere: every entry of the object, $and and $or among them.
RECURSIVE HoldsJS(_, _, _, _, _)
HoldsJS(db, res, clause, obj, include) ==
  \A i \in DOMAIN clause :
    LET e == clause[i]
    IN  IF e.key = "$and" THEN \A c \in Range(e.sub) : HoldsJS(db, res, c, obj, include)
        ELSE IF e.key = "$or" THEN \E c \in Range(e.sub) : HoldsJS(db, res, c, obj, include)
        ELSE IF IsRelation(res, e.key)
        THEN /\ e.key \in DOMAIN include
             /\ \E r \in Related(db, res, obj, e.key) :
                  HoldsJS(db, Schema[res][e.key].entity, e.sub[1], r, include[e.key])
        ELSE TestJS(IF e.key \in DOMAIN obj THEN obj[e.key] ELSE Undefined, e.test,
                    e.key \in Wordy[res])

\* getMatchingQueries, for a query of a resource: the object that came with the
\* write, or the row read again when the clause follows relations. (Mutant: the
\* former whatever the clause.)
MatchesGiven(db, res, clause, obj) == HoldsJS(db, res, clause, obj, <<>>)
Matches(db, res, clause, obj) ==
  LET include == IncludeOf(res, clause, <<>>)
      again == {r \in db[res] : r.id = obj.id}
  IN  IF include = <<>> THEN HoldsJS(db, res, clause, obj, <<>>)
      ELSE \E r \in again : HoldsJS(db, res, clause, r, include)

RECURSIVE Subclauses(_, _)   \* the clauses in a clause, with their resources
Subclauses(res, clause) ==
  {[res |-> res, clause |-> clause]} \cup
    UNION {LET e == clause[i]
               below == IF IsRelation(res, e.key) THEN Schema[res][e.key].entity ELSE res
           IN  UNION {Subclauses(below, c) : c \in Range(e.sub)} : i \in DOMAIN clause}
=============================================================================
