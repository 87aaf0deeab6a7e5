----------------------------- MODULE Transaction -----------------------------
(***************************************************************************)
(* SQLStorage.transaction (server/storage/sql-storage.ts): the stacks of   *)
(* mutations a transaction and the transactions nested in it record, which *)
(* are notified to the subscribers when the database has committed, and    *)
(* the database transaction and its savepoints that they shadow.           *)
(*                                                                         *)
(* The callback of a transaction is arbitrary code: it writes, nests,      *)
(* calls commit or rollback, returns or throws. Nested callbacks are       *)
(* awaited, so only the innermost runs. Each step is one awaited call.     *)
(***************************************************************************)
EXTENDS Integers, SequencesExt

CONSTANTS
  MaxWrites,       \* bound on the writes of a behaviour
  MaxDepth,        \* bound on the nesting
  Settings         \* the databases and callbacks considered: see Setting

\* aborts: a failed statement aborts the transaction (Postgres, not SQLite);
\* swallows: callbacks may go on after a call of theirs was rejected;
\* lingers: nested callbacks may go on after they called commit or rollback.
Setting == [aborts : BOOLEAN, swallows : BOOLEAN, lingers : BOOLEAN]

ASSUME TransactionAssumption ==
  /\ MaxWrites \in Nat /\ MaxDepth \in Nat \ {0}
  /\ Settings \subseteq Setting

VARIABLES
  setting,    \* the database and the callbacks of this behaviour: constant
  issued,     \* how many writes have been made: they are numbered
  uncommitted,  \* the writes of the database transaction, so far
  aborted,    \* the database refuses every statement until a rollback
  durable,    \* the committed writes
  closed,     \* isCommitted or isRolledBack of the controlled transaction
  frames,     \* the calls of transaction that are running, outermost first
  target,     \* this.mutationStack: the frame it belongs to, 0 if no frame's
  raised,     \* an exception is on its way out of the innermost callback
  notified    \* the mutations passed to notifySubscribers, in order

txVars == <<setting, issued, uncommitted, aborted, durable, closed, frames, target, raised,
            notified>>

\* A running call: its stack, its parentStack, where its savepoint was set,
\* whether the database still knows the savepoint, and its two flags.
NewFrame(p, mark) ==
  [stack |-> <<>>, parent |-> p, mark |-> mark, live |-> TRUE,
   released |-> FALSE, rolledBack |-> FALSE]

Depth == Len(frames)
Inner == frames[Depth]
Running == Depth > 0 /\ ~raised /\ ~closed
InnerSettled == Inner.released \/ Inner.rolledBack
May == Running /\ (setting.lingers \/ ~InnerSettled)

\* Pushing onto a stack that belongs to no frame has no effect.
Push(fs, t, ms) == IF t = 0 THEN fs ELSE [fs EXCEPT ![t].stack = @ \o ms]

\* A call was rejected: the database may abort, the callback throws or goes on.
Rejected ==
  /\ aborted' = (aborted \/ setting.aborts)
  /\ \/ raised' = TRUE
     \/ setting.swallows /\ raised' = FALSE

TxInit ==
  /\ setting \in Settings
  /\ issued = 0
  /\ uncommitted = <<>> /\ durable = <<>> /\ notified = <<>>
  /\ frames = <<>>
  /\ target = 0
  /\ aborted = FALSE /\ closed = FALSE /\ raised = FALSE

-----------------------------------------------------------------------------
(* What callbacks do.                                                      *)

BeginTop ==
  /\ Depth = 0
  /\ issued < MaxWrites
  /\ frames' = <<NewFrame(0, 0)>>
  /\ target' = 1
  /\ UNCHANGED <<setting, issued, uncommitted, aborted, durable, closed, raised, notified>>

\* rawInsert or rawUpdate inside the transaction, and its trackMutation.
TrackedWrite ==
  /\ May
  /\ ~aborted
  /\ issued < MaxWrites
  /\ issued' = issued + 1
  /\ uncommitted' = Append(uncommitted, issued + 1)
  /\ frames' = Push(frames, target, <<issued + 1>>)
  /\ UNCHANGED <<setting, aborted, durable, closed, target, raised, notified>>

\* A statement the database refuses: a violated constraint, or any once aborted.
WriteRejected ==
  /\ May
  /\ Rejected
  /\ UNCHANGED <<setting, issued, uncommitted, durable, closed, frames, target, notified>>

\* A nested transaction. mutationStack is switched before the savepoint is
\* awaited and outside the try: a savepoint that fails leaves it switched.
Nest ==
  /\ May
  /\ Depth < MaxDepth
  /\ ~aborted
  /\ frames' = Append(frames, NewFrame(target, Len(uncommitted)))
  /\ target' = Depth + 1
  /\ UNCHANGED <<setting, issued, uncommitted, aborted, durable, closed, raised, notified>>

NestRejected ==
  /\ May
  /\ Depth < MaxDepth
  /\ aborted
  /\ Rejected
  /\ target' = 0
  /\ UNCHANGED <<setting, issued, uncommitted, durable, closed, frames, notified>>

-----------------------------------------------------------------------------
(* Settling a nested transaction.                                          *)

Nested == Depth > 1
Releasable == Inner.live /\ ~aborted

\* The parent's stack takes over what the nested one recorded.
HandedOver == Push(frames, Inner.parent, Inner.stack)

CommitNested ==
  /\ May /\ Nested
  /\ \/ /\ Releasable
        /\ frames' = [HandedOver EXCEPT ![Depth].live = FALSE, ![Depth].released = TRUE]
        /\ UNCHANGED <<aborted, raised>>
     \/ /\ ~Releasable
        /\ Rejected
        /\ UNCHANGED frames
  /\ UNCHANGED <<setting, issued, uncommitted, durable, closed, target, notified>>

\* (Mutant: the stack is not emptied.)
RollbackNestedKeepsStack ==
  /\ May /\ Nested
  /\ \/ /\ Inner.live
        /\ uncommitted' = SubSeq(uncommitted, 1, Inner.mark)
        /\ aborted' = FALSE
        /\ frames' = [frames EXCEPT ![Depth].rolledBack = TRUE]
        /\ UNCHANGED raised
     \/ /\ ~Inner.live
        /\ Rejected
        /\ UNCHANGED <<uncommitted, frames>>
  /\ UNCHANGED <<setting, issued, durable, closed, target, notified>>

\* A rollback to a savepoint keeps the savepoint and revives the transaction.
RollbackNested ==
  /\ May /\ Nested
  /\ \/ /\ Inner.live
        /\ uncommitted' = SubSeq(uncommitted, 1, Inner.mark)
        /\ aborted' = FALSE
        /\ frames' = [frames EXCEPT ![Depth].rolledBack = TRUE, ![Depth].stack = <<>>]
        /\ UNCHANGED raised
     \/ /\ ~Inner.live
        /\ Rejected
        /\ UNCHANGED <<uncommitted, frames>>
  /\ UNCHANGED <<setting, issued, durable, closed, target, notified>>

\* The nested call ends and mutationStack is its parent's again.
Leave(fs) ==
  /\ frames' = Front(fs)
  /\ target' = Inner.parent

\* The callback returned and had settled its transaction.
ReturnSettled ==
  /\ Running /\ Nested
  /\ InnerSettled
  /\ Leave(frames)
  /\ UNCHANGED <<setting, issued, uncommitted, aborted, durable, closed, raised, notified>>

\* (Mutant: the nested stack is not handed to the parent.)
ReturnNestedUnmerged ==
  /\ Running /\ Nested
  /\ ~InnerSettled
  /\ Releasable
  /\ Leave(frames)
  /\ UNCHANGED <<setting, issued, uncommitted, aborted, durable, closed, raised, notified>>
\* It had not: the savepoint is released now.
ReturnNested ==
  /\ Running /\ Nested
  /\ ~InnerSettled
  /\ Releasable
  /\ Leave(HandedOver)
  /\ UNCHANGED <<setting, issued, uncommitted, aborted, durable, closed, raised, notified>>

\* The callback threw, or the release after it did: back to the savepoint
\* unless rollback did that; the error of an unknown savepoint is ignored. The
\* caller's await throws, and the caller goes on if it catches.
ThrowNested ==
  /\ Nested /\ ~closed
  /\ IF Inner.rolledBack
     THEN UNCHANGED <<uncommitted, aborted>>
     ELSE IF Inner.live
     THEN /\ uncommitted' = SubSeq(uncommitted, 1, Inner.mark)
          /\ aborted' = FALSE
     ELSE /\ aborted' = (aborted \/ setting.aborts)
          /\ UNCHANGED uncommitted
  /\ \/ raised' = TRUE
     \/ setting.swallows /\ raised' = FALSE
  /\ Leave(frames)
  /\ UNCHANGED <<setting, issued, durable, closed, notified>>

-----------------------------------------------------------------------------
(* Settling the outermost transaction.                                     *)

\* The COMMIT of an aborted transaction rolls it back and reports no error.
Flush ==
  /\ durable' = IF aborted THEN durable ELSE durable \o uncommitted
  /\ notified' = notified \o Inner.stack
  /\ uncommitted' = <<>>
  /\ aborted' = FALSE

End ==
  /\ frames' = <<>>
  /\ target' = 0
  /\ closed' = FALSE
  /\ raised' = FALSE

CommitTop ==
  /\ Running /\ Depth = 1
  /\ Flush
  /\ closed' = TRUE
  /\ UNCHANGED <<setting, issued, frames, target, raised>>

RollbackTop ==
  /\ Running /\ Depth = 1
  /\ uncommitted' = <<>>
  /\ aborted' = FALSE
  /\ frames' = [frames EXCEPT ![1].stack = <<>>]
  /\ closed' = TRUE
  /\ UNCHANGED <<setting, issued, durable, target, raised, notified>>

\* The callback returned without settling: the transaction commits now.
ReturnTop ==
  /\ Running /\ Depth = 1
  /\ Flush
  /\ End
  /\ UNCHANGED <<setting, issued>>

\* It returned or threw after commit or rollback: there is nothing to undo.
ReturnClosed ==
  /\ Depth = 1
  /\ closed
  /\ End
  /\ UNCHANGED <<setting, issued, uncommitted, aborted, durable, notified>>

ThrowTop ==
  /\ Depth = 1 /\ ~closed
  /\ uncommitted' = <<>>
  /\ aborted' = FALSE
  /\ End
  /\ UNCHANGED <<setting, issued, durable, notified>>

-----------------------------------------------------------------------------
TxNext ==
  \/ BeginTop \/ TrackedWrite \/ WriteRejected \/ Nest \/ NestRejected
  \/ CommitNested \/ RollbackNested \/ ReturnSettled \/ ReturnNested \/ ThrowNested
  \/ CommitTop \/ RollbackTop \/ ReturnTop \/ ReturnClosed \/ ThrowTop

TxSpec == TxInit /\ [][TxNext]_txVars

-----------------------------------------------------------------------------
(* Properties.                                                             *)

Number == 1..MaxWrites

\* The state has its type; in particular a frame's parentStack is that of a
\* frame below it or of none.
TxTypeOK ==
  /\ setting \in Settings
  /\ issued \in 0..MaxWrites
  /\ {uncommitted, durable, notified} \subseteq Seq(Number)
  /\ {aborted, closed, raised} \subseteq BOOLEAN
  /\ target \in 0..Depth
  /\ frames \in Seq([stack : Seq(Number), parent : 0..MaxDepth, mark : 0..MaxWrites,
                     live : BOOLEAN, released : BOOLEAN, rolledBack : BOOLEAN])
  /\ \A i \in 1..Depth : frames[i].parent < i

\* A callback that catches an error on a database where the error aborts.
CatchesAbort == setting.aborts /\ setting.swallows

\* While callbacks keep to the discipline, what a call recorded is what the
\* database would lose by rolling back to its savepoint and no further: the
\* writes between its mark and the mark of the call nested in it.
Upto(i) ==
  IF i = Depth \/ frames[i + 1].released THEN Len(uncommitted) ELSE frames[i + 1].mark
StacksFollowSavepoints ==
  /\ TxTypeOK
  /\ ~closed /\ ~setting.lingers /\ ~CatchesAbort =>
       \A i \in 1..Depth :
         frames[i].stack = SubSeq(uncommitted, frames[i].mark + 1, Upto(i)) \/ frames[i].released

\* Then also, once a transaction has ended, the subscribers have heard of exactly
\* the committed writes, once and in the order they were made. A callback that
\* writes on after it has committed or rolled back can make notifications go
\* missing, but none is sent of a write that was rolled back.
NotifiedIsDurable ==
  ~CatchesAbort =>
    /\ ToSet(notified) \subseteq ToSet(durable)
    /\ Depth = 0 /\ ~setting.lingers => notified = durable
=============================================================================
