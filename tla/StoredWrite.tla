----------------------------- MODULE StoredWrite -----------------------------
(***************************************************************************)
(* A procedure writes a row (server/router.ts, server/storage/): rawInsert *)
(* and rawUpdate read the row, merge, call the hooks and write two tables, *)
(* the values and their timestamps, outside a transaction, while other     *)
(* requests do the same.  What was written is told to the query engine,    *)
(* which tells the subscribers, and each merges it into its own copy.      *)
(*                                                                         *)
(* One row, and one subscriber of every row of the resource. A request has *)
(* one write, and the value it writes is the request's own name.           *)
(***************************************************************************)
EXTENDS FieldMerge, FiniteSets

CONSTANTS
  Request,    \* what may be asked: [kind, fields, nulls, stamp]
  Kept,       \* the sets of fields a hook before the write may leave
  Starts,     \* whether the row may be there, or may not be, at the start
  MaxFailures \* bound on the statements the database refuses and hooks that throw

Op == Datum
Nothing == <<>>
Table == {"row", "meta"}
Stage == {"new", "admitted", "read", "writing", "written", "told", "replied", "rejected"}
Asked == [kind : {"insert", "update"}, fields : SUBSET Field, nulls : SUBSET Field, stamp : Nat \ {0}]

ASSUME WriteAssumption ==
  /\ Request \subseteq Asked /\ Kept \subseteq SUBSET Field
  /\ Starts \subseteq BOOLEAN /\ MaxFailures \in Nat

VARIABLES
  \* the database
  hasRow, row,    \* the row of the resource's table
  hasMeta, meta,  \* its row of the meta table: a timestamp for each field
  \* the requests
  stage,      \* how far each is
  asked,      \* what it asks for
  held,       \* the record rawUpdate read, or Nothing
  processed,  \* the merged record, as the hooks left it
  pending,    \* the statements it has sent to the database
  \* the query engine and the subscriber
  known,      \* the graph has the row
  fetching,   \* the engine is reading a row that came into scope
  heard,      \* the subscriber's copy
  \* history
  failures,   \* statements refused and hooks that threw
  overlapped, \* requests that did not have the row to themselves
  done,       \* the statements of each that were done
  wrote,      \* the requests whose values were put in the row
  broken      \* requests one of whose statements was not

database == <<hasRow, row, hasMeta, meta>>
requests == <<stage, asked, held, processed, pending>>
subscriber == <<known, fetching, heard>>
history == <<failures, overlapped, done, wrote, broken>>
vars == <<database, requests, subscriber, history>>

\* The row as it is at the start: every field null, written at time 1.
Init ==
  /\ hasRow \in Starts /\ row = [f \in Field |-> Null]
  /\ hasMeta = hasRow /\ meta = [f \in Field |-> IF hasRow THEN 1 ELSE Unstamped]
  /\ stage = [o \in Op |-> "new"]
  /\ asked = [o \in Op |-> [kind |-> "update", fields |-> {}, nulls |-> {}, stamp |-> 1]]
  /\ held = [o \in Op |-> Nothing] /\ processed = [o \in Op |-> Nothing]
  /\ pending = [o \in Op |-> {}]
  /\ known = hasRow /\ fetching = FALSE
  /\ heard = IF hasRow THEN [f \in Field |-> [value |-> Converted(f, Null), stamp |-> 1]] ELSE Nothing
  /\ failures = 0 /\ overlapped = {}
  /\ done = [o \in Op |-> {}] /\ wrote = {} /\ broken = {}

-----------------------------------------------------------------------------

\* rawFindById: the row with its timestamps, in one statement. (Mutant: the
\* timestamps are left out.)
StoredBare ==
  IF ~hasRow THEN Nothing
  ELSE [f \in Field |-> [value |-> row[f], stamp |-> Unstamped]]
Stored ==
  IF ~hasRow THEN Nothing
  ELSE [f \in Field |-> [value |-> row[f],
                         stamp |-> IF hasMeta THEN meta[f] ELSE Unstamped]]

\* What a procedure hands to the storage: each field with the time of the
\* request, which is the client's when it sent one. (router.ts:237)
Write(a, o) ==
  [f \in a.fields |-> [value |-> IF f \in a.nulls THEN Null ELSE o, stamp |-> a.stamp]]

\* A request has the row in its hands from its read, or from the merge of an
\* insert, until it has told the engine.
Busy(o) == stage[o] \in {"read", "writing", "written"} \/ pending[o] # {}
Meets(o) ==
  LET others == {p \in Op \ {o} : Busy(p)}
  IN  overlapped' = IF others = {} THEN overlapped ELSE overlapped \cup others \cup {o}

Fails(o) ==
  /\ failures < MaxFailures
  /\ failures' = failures + 1
  /\ stage' = [stage EXCEPT ![o] = "rejected"]

\* Server.handleMutation and Route.handleMutation: a middleware, the lookup of
\* the procedure or the validation of the input may refuse the request.
Begin(o, a) ==
  /\ stage[o] = "new"
  /\ asked' = [asked EXCEPT ![o] = a]
  /\ \/ stage' = [stage EXCEPT ![o] = "admitted"] /\ UNCHANGED failures
     \/ Fails(o)
  /\ UNCHANGED <<database, held, processed, pending, subscriber, overlapped, done, wrote, broken>>

\* rawUpdate reads the row.
Read(o) ==
  /\ stage[o] = "admitted" /\ asked[o].kind = "update"
  /\ stage' = [stage EXCEPT ![o] = "read"]
  /\ held' = [held EXCEPT ![o] = Stored]
  /\ Meets(o)
  /\ UNCHANGED <<database, asked, processed, pending, subscriber, failures, done, wrote, broken>>

\* The merge and the hook before the write, which leaves the fields of keep.
\* An update with nothing to write is answered at once.
BeforeUpdate(o, keep) ==
  LET merged == Merged(held[o], Write(asked[o], o))
      rec == [f \in DOMAIN merged \cap keep |-> merged[f]]
      idle == Stamped(rec) = {}
  IN  /\ stage[o] = "read"
      /\ \/ /\ processed' = [processed EXCEPT ![o] = rec]
            /\ stage' = [stage EXCEPT ![o] = IF idle THEN "replied" ELSE "writing"]
            /\ pending' = [pending EXCEPT ![o] = IF idle THEN {} ELSE Table]
            /\ UNCHANGED failures
         \/ Fails(o) /\ UNCHANGED <<processed, pending>>
      /\ UNCHANGED <<database, asked, held, subscriber, overlapped, done, wrote, broken>>

\* An insert is merged with nothing.
BeforeInsert(o, keep) ==
  LET merged == Merged(Nothing, Write(asked[o], o))
  IN  /\ stage[o] = "admitted" /\ asked[o].kind = "insert"
      /\ \/ /\ processed' = [processed EXCEPT ![o] = [f \in DOMAIN merged \cap keep |-> merged[f]]]
            /\ stage' = [stage EXCEPT ![o] = "writing"]
            /\ pending' = [pending EXCEPT ![o] = {"row"}]
            /\ Meets(o) /\ UNCHANGED failures
         \/ Fails(o) /\ UNCHANGED <<processed, pending, overlapped>>
      /\ UNCHANGED <<database, asked, held, subscriber, done, wrote, broken>>

\* The fields with a time are written, the others left as they are.
Overwritten(old, new, fs) == [f \in Field |-> IF f \in fs THEN new[f] ELSE old[f]]
Values(rec) == [f \in DOMAIN rec |-> rec[f].value]
Stamps(rec) == [f \in DOMAIN rec |-> rec[f].stamp]

\* The statements of an update: both sent at once, done in either order.
\* An UPDATE of a row that is not there changes nothing, the upsert of its
\* timestamps inserts them all the same, where no foreign key refuses it.
UpdateRow(o) ==
  LET rec == processed[o]
  IN  row' = IF hasRow THEN Overwritten(row, Values(rec), Stamped(rec)) ELSE row
UpdateMeta(o) ==
  LET rec == processed[o]
  IN  /\ meta' = Overwritten(IF hasMeta THEN meta ELSE [f \in Field |-> Unstamped],
                             Stamps(rec), Stamped(rec))
      /\ hasMeta' = TRUE

\* A statement of an update is done. The request goes on when both are.
Update(o, t) ==
  /\ asked[o].kind = "update" /\ t \in pending[o]
  /\ IF t = "row" THEN UpdateRow(o) /\ UNCHANGED <<hasRow, hasMeta, meta>>
                  ELSE UpdateMeta(o) /\ UNCHANGED <<hasRow, row>>
  /\ pending' = [pending EXCEPT ![o] = @ \ {t}]
  /\ done' = [done EXCEPT ![o] = @ \cup {t}]
  /\ wrote' = IF t = "row" /\ hasRow THEN wrote \cup {o} ELSE wrote
  /\ IF stage[o] = "writing" /\ pending[o] = {t}
     THEN stage' = [stage EXCEPT ![o] = "written"] ELSE UNCHANGED stage
  /\ UNCHANGED <<asked, held, processed, subscriber, failures, overlapped, broken>>

\* The statements of an insert: the row, then its timestamps. Each fails when
\* the table has the id already.
Insert(o) ==
  LET rec == processed[o]
  IN  /\ asked[o].kind = "insert"
      /\ \/ /\ pending[o] = {"row"} /\ ~hasRow
            /\ hasRow' = TRUE
            /\ row' = Overwritten([f \in Field |-> Null], Values(rec), Stamped(rec))
            /\ pending' = [pending EXCEPT ![o] = {"meta"}]
            /\ done' = [done EXCEPT ![o] = {"row"}] /\ wrote' = wrote \cup {o}
            /\ UNCHANGED <<hasMeta, meta, stage>>
         \/ /\ pending[o] = {"meta"} /\ ~hasMeta
            /\ hasMeta' = TRUE
            /\ meta' = Overwritten([f \in Field |-> Unstamped], Stamps(rec), Stamped(rec))
            /\ pending' = [pending EXCEPT ![o] = {}]
            /\ stage' = [stage EXCEPT ![o] = "written"]
            /\ done' = [done EXCEPT ![o] = Table]
            /\ UNCHANGED <<hasRow, row, wrote>>
      /\ UNCHANGED <<asked, held, processed, subscriber, failures, overlapped, broken>>

\* The id is there already: the statement throws, and an insert stops.
Duplicate(o) ==
  /\ asked[o].kind = "insert"
  /\ \/ pending[o] = {"row"} /\ hasRow
     \/ pending[o] = {"meta"} /\ hasMeta
  /\ pending' = [pending EXCEPT ![o] = {}]
  /\ stage' = [stage EXCEPT ![o] = "rejected"]
  /\ broken' = broken \cup {o}
  /\ UNCHANGED <<database, asked, held, processed, subscriber, failures, overlapped, done, wrote>>

\* The key of the meta table refers to the row's, on a dialect that has it.
Unreferenced(o, t) ==
  /\ t = "meta" /\ asked[o].kind = "update" /\ ~hasRow
  /\ stage' = [stage EXCEPT ![o] = "rejected"] /\ UNCHANGED failures

\* The database refuses a statement: the request is rejected, and the other
\* statement of an update is done all the same. (Mutant: the request goes on.)
RefuseUnseen(o, t) ==
  /\ t \in pending[o]
  /\ pending' = [pending EXCEPT ![o] = @ \ {t}]
  /\ broken' = broken \cup {o}
  /\ stage' = [stage EXCEPT ![o] = IF pending[o] = {t} THEN "written" ELSE @]
  /\ UNCHANGED <<database, asked, held, processed, subscriber, failures, overlapped, done, wrote>>
Refuse(o, t) ==
  /\ t \in pending[o]
  /\ pending' = [pending EXCEPT ![o] = @ \ {t}]
  /\ broken' = broken \cup {o}
  /\ Fails(o) \/ Unreferenced(o, t)
  /\ UNCHANGED <<database, asked, held, processed, subscriber, overlapped, done, wrote>>

-----------------------------------------------------------------------------

\* buildMutation: the fields with a time. Without one there is no mutation.
\* (Mutant: what was asked, not what the hooks left.)
DeltaAsked(o) == Write(asked[o], o)
Delta(o) == [f \in Stamped(processed[o]) |-> processed[o][f]]

\* The engine ignores an INSERT of a row it knows. An UPDATE of a row it does
\* not know brings it into scope, and it is read again to tell it whole.
Notified(o) ==
  /\ known' = TRUE
  /\ CASE known /\ asked[o].kind = "insert" -> UNCHANGED <<fetching, heard>>
       [] ~known /\ asked[o].kind = "update" -> fetching' = TRUE /\ UNCHANGED heard
       [] OTHER -> heard' = Merged(heard, Delta(o)) /\ UNCHANGED fetching

\* buildMutation, trackMutation and notifyMutations. An update reads the row
\* once more and tells nothing when it is not there.
Tell(o) ==
  /\ stage[o] = "written"
  /\ stage' = [stage EXCEPT ![o] = "told"]
  /\ IF Stamped(processed[o]) # {} /\ (asked[o].kind = "insert" \/ hasRow)
     THEN Notified(o) ELSE UNCHANGED subscriber
  /\ UNCHANGED <<database, asked, held, processed, pending, history>>

\* get and sendInsertsForTree: the whole stored row is told as an INSERT.
Fetch ==
  /\ fetching
  /\ fetching' = FALSE
  /\ heard' = Merged(heard, Stored)
  /\ UNCHANGED <<database, requests, known, history>>

\* The hook after the write, and the answer.
Answer(o) ==
  /\ stage[o] = "told"
  /\ \/ stage' = [stage EXCEPT ![o] = "replied"] /\ UNCHANGED failures
     \/ Fails(o)
  /\ UNCHANGED <<database, asked, held, processed, pending, subscriber, overlapped, done, wrote, broken>>

Next ==
  \/ \E o \in Op :
       \/ \E a \in Request : Begin(o, a)
       \/ \E keep \in Kept : BeforeUpdate(o, keep) \/ BeforeInsert(o, keep)
       \/ \E t \in Table : Update(o, t) \/ Refuse(o, t)
       \/ Read(o) \/ Insert(o) \/ Duplicate(o) \/ Tell(o) \/ Answer(o)
  \/ Fetch

Spec == Init /\ [][Next]_vars

-----------------------------------------------------------------------------
(* Properties.                                                             *)

TypeOK ==
  /\ hasRow \in BOOLEAN /\ row \in [Field -> Value]
  /\ hasMeta \in BOOLEAN /\ meta \in [Field -> Nat]
  /\ stage \in [Op -> Stage] /\ asked \in [Op -> Asked]
  /\ DOMAIN held = Op /\ DOMAIN processed = Op
  /\ \A o \in Op : IsPartial(held[o]) /\ IsPartial(processed[o])
  /\ pending \in [Op -> SUBSET Table]
  /\ known \in BOOLEAN /\ fetching \in BOOLEAN /\ IsPartial(heard)
  /\ failures \in 0..MaxFailures /\ overlapped \subseteq Op
  /\ done \in [Op -> SUBSET Table] /\ wrote \subseteq Op /\ broken \subseteq Op

\* The write of o on f has no rival: the hooks kept it, the row was there to be
\* written, and every other request for f carries an earlier time.
Newest(o, f) ==
  /\ f \in asked[o].fields \cap DOMAIN processed[o]
  /\ asked[o].kind = "insert" \/ held[o] # Nothing
  /\ asked[o].stamp > 1
  /\ \A p \in Op \ {o} :
       stage[p] # "new" /\ f \in asked[p].fields => asked[p].stamp < asked[o].stamp

\* The newest write of a field stays. If it was stored while no other request
\* had the row in its hands, no later request changes the field: not one that
\* is late, nor one of another field, which writes the whole record back, nor
\* two that overlap, nor one that fails halfway.
LoneNewestWriteStays ==
  \A o \in Op \ overlapped, f \in Field :
    done[o] = Table /\ Newest(o, f) =>
      /\ hasRow /\ row[f] = Converted(f, IF f \in asked[o].nulls THEN Null ELSE o)
      /\ hasMeta /\ meta[f] = asked[o].stamp

Undisturbed == overlapped = {} /\ broken = {}

\* A value and its time come from one write, though they are in two tables,
\* unless requests overlapped, a statement was refused, or a request is
\* between its two statements.
TimeIsOfItsValue ==
  Undisturbed /\ hasRow /\ (\A o \in Op : pending[o] = {}) =>
    /\ hasMeta
    /\ \A f \in Field :
         \/ row[f] = Null /\ meta[f] \in {Unstamped, 1}
         \/ \E o \in Op :
              /\ f \in asked[o].fields /\ done[o] = Table
              /\ row[f] = Converted(f, IF f \in asked[o].nulls THEN Null ELSE o)
              /\ meta[f] = asked[o].stamp

\* The subscriber's copy is the stored row, once every request is answered and
\* nothing is on its way, but for a null that its merge converts, unless
\* requests overlapped or a statement was refused.
SubscriberHasTheRow ==
  Undisturbed /\ ~fetching /\ (\A o \in Op : ~Busy(o)) =>
    \A f \in Field :
      IF f \in DOMAIN heard
      THEN hasRow /\ heard[f] = Accepted(f, Stored[f])
      ELSE row[f] = Null

\* Whatever goes wrong, a subscriber is told no value that was never in the row,
\* but for an UPDATE that found no row and overlapped with the request that
\* inserted it: it may have changed nothing, and is told once the row is there.
HeardWasStored ==
  \A f \in DOMAIN heard : heard[f].value \in Op =>
    LET o == heard[f].value
    IN  o \in wrote \/ (asked[o].kind = "update" /\ held[o] = Nothing /\ o \in overlapped)

\* The time of a field does not go back, unless requests overlapped.
TimesGoOn ==
  [][overlapped' = {} /\ hasRow /\ hasMeta => \A f \in Field : meta'[f] >= meta[f]]_vars
=============================================================================
