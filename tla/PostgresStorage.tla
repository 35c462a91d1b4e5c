-------------------------- MODULE PostgresStorage --------------------------
(***************************************************************************)
(* PostgresStorageProvider: several processes load, save and delete the    *)
(* snapshot of one saga against one PostgreSQL database, statement by      *)
(* statement.  Every statement of the provider names one saga_id, so sagas *)
(* do not meet and one is enough.                                          *)
(*                                                                         *)
(* What is assumed of PostgreSQL, at its default READ COMMITTED isolation: *)
(*   - a statement sees what was committed when it began, plus its own     *)
(*     transaction's writes;                                               *)
(*   - FOR UPDATE, an upsert and a DELETE wait for the transaction that    *)
(*     holds the row, and then act on the row's last committed version, or *)
(*     find no row if that transaction deleted it;                         *)
(*   - a row another transaction has inserted but not committed is         *)
(*     invisible to SELECT and DELETE, and makes an upsert wait;           *)
(*   - a transaction's writes become visible together at COMMIT, or never. *)
(* A statement that would wait is an action that is not enabled.           *)
(***************************************************************************)
EXTENDS LifecycleHistory

CONSTANTS
  Clients,    \* processes (or threads) using a provider on the same database
  Deleters,   \* the clients that call delete
  Editors,    \* the clients that change a saga's fields between transitions
  NoClient,   \* nobody
  MaxCalls,   \* bound on the calls made, over all clients
  FirstNumbers \* the numbers a history may begin with, in SagaStore

ASSUME ClientsAssumption ==
  /\ NoClient \notin Clients
  /\ Deleters \subseteq Clients
  /\ Editors \subseteq Clients
ASSUME MaxCallsAssumption == MaxCalls \in Nat
ASSUME FirstNumbersAssumption == FirstNumbers \subseteq Nat

VARIABLES
  row,          \* committed saga_instance row, or NoRow
  associations, \* committed saga_association rows
  history,      \* committed saga_lifecycle_history rows
  locked,       \* the client whose transaction holds the row, or NoClient
  pc,           \* the statement each client runs next
  base,         \* the snapshot each client has loaded, or NoRow
  incoming,     \* the snapshot each client saves, or NoRow
  previous,     \* what each client's transaction read FOR UPDATE
  next,         \* the sequence number each client's transaction read
  replaced,     \* the association rows each client's transaction deleted
  calls         \* calls made so far

database == <<row, associations, history>>
local == <<base, incoming, previous, next, replaced>>
vars == <<database, locked, pc, local, calls>>

Statements == {"lockPrevious", "nextSequenceNumber", "upsertInstance",
               "replaceAssociations", "insertHistory", "commit"}

Init ==
  /\ row = NoRow
  /\ associations = {}
  /\ history = {}
  /\ locked = NoClient
  /\ pc = [c \in Clients |-> "idle"]
  /\ base = [c \in Clients |-> NoRow]
  /\ incoming = [c \in Clients |-> NoRow]
  /\ previous = [c \in Clients |-> NoRow]
  /\ next = [c \in Clients |-> 0]
  /\ replaced = [c \in Clients |-> {}]
  /\ calls = 0

-----------------------------------------------------------------------------
\* Mutant of RowFree: the row is read without FOR UPDATE.
NoRowLock == TRUE

\* No transaction holds the row: a statement that locks it need not wait.
RowFree == locked = NoClient

Goto(c, from, to) ==
  /\ pc[c] = from
  /\ pc' = [pc EXCEPT ![c] = to]

Call ==
  /\ calls < MaxCalls
  /\ calls' = calls + 1

\* Mutant of EndTransaction: the connection goes back to its pool with the
\* transaction open.
LeaveTransactionOpen(c) ==
  /\ previous' = [previous EXCEPT ![c] = NoRow]
  /\ next' = [next EXCEPT ![c] = 0]
  /\ replaced' = [replaced EXCEPT ![c] = {}]
  /\ UNCHANGED locked

\* The end of a client's transaction, whatever its outcome: the row is
\* released and what the transaction read is forgotten.
EndTransaction(c) ==
  /\ locked' = IF locked = c THEN NoClient ELSE locked
  /\ previous' = [previous EXCEPT ![c] = NoRow]
  /\ next' = [next EXCEPT ![c] = 0]
  /\ replaced' = [replaced EXCEPT ![c] = {}]

\* The caller is done with what it loaded and what it made of it.
Forget(c) ==
  /\ base' = [base EXCEPT ![c] = NoRow]
  /\ incoming' = [incoming EXCEPT ![c] = NoRow]

\* The rows this client's transaction appends to the history.
Derived(c) == Derive(previous[c], incoming[c].row, next[c])

-----------------------------------------------------------------------------
(* The callers: a snapshot is created, or loaded and then moved on.         *)

\* findById and findByAssociation: one statement reads the row together with
\* its associations, and returns nothing when no row is committed.
Find(c) ==
  /\ pc[c] = "idle"
  /\ base[c] = NoRow
  /\ row # NoRow
  /\ base' = [base EXCEPT ![c] = [row |-> row, associations |-> associations]]
  /\ UNCHANGED <<database, locked, pc, incoming, previous, next, replaced, calls>>

SaveCall(c, snapshot) ==
  /\ Call
  /\ Goto(c, "idle", "lockPrevious")
  /\ incoming' = [incoming EXCEPT ![c] = snapshot]
  /\ UNCHANGED <<database, locked, base, previous, next, replaced>>

\* SagaLifecycle.start
CallStart(c) ==
  /\ base[c] = NoRow
  /\ \E state \in States, set \in AssociationSets : SaveCall(c, Started(state, set))

\* Any other transition, refused on a terminal snapshot.
CallTransition(c) ==
  /\ base[c] # NoRow
  /\ Active(base[c])
  /\ \E snapshot \in Transitions(base[c]) : SaveCall(c, snapshot)

CallEdit(c) ==
  /\ c \in Editors
  /\ base[c] # NoRow
  /\ \E snapshot \in Edits(base[c]) : SaveCall(c, snapshot)

CallDelete(c) ==
  /\ Goto(c, "idle", "delete")
  /\ c \in Deleters
  /\ Call
  /\ UNCHANGED <<database, locked, local>>

-----------------------------------------------------------------------------
(* save: one action per statement of its transaction.                       *)

Rollback(c, to) ==
  /\ pc' = [pc EXCEPT ![c] = to]
  /\ EndTransaction(c)
  /\ UNCHANGED <<database, calls>>

\* SELECT ... FOR UPDATE OF i, with no row to lock.
LockNothing(c) ==
  /\ Goto(c, "lockPrevious", "nextSequenceNumber")
  /\ row = NoRow
  /\ UNCHANGED <<database, locked, local, calls>>

\* SELECT ... FOR UPDATE OF i, then requireForwardTransition holds.
LockPrevious(c) ==
  /\ Goto(c, "lockPrevious", "nextSequenceNumber")
  /\ row # NoRow
  /\ RowFree
  /\ ForwardTransition(row, incoming[c].row)
  /\ locked' = c
  /\ previous' = [previous EXCEPT ![c] = row]
  /\ UNCHANGED <<database, base, incoming, next, replaced, calls>>

\* SELECT ... FOR UPDATE OF i, then requireForwardTransition throws.
RejectBackward(c) ==
  /\ pc[c] = "lockPrevious"
  /\ row # NoRow
  /\ RowFree
  /\ ~ ForwardTransition(row, incoming[c].row)
  /\ Rollback(c, "idle")
  /\ Forget(c)

\* A statement of its own, with a snapshot of its own.
ReadNextSequenceNumber(c) ==
  /\ Goto(c, "nextSequenceNumber", "upsertInstance")
  /\ next' = [next EXCEPT ![c] = NextSequenceNumber(history)]
  /\ UNCHANGED <<database, locked, base, incoming, previous, replaced, calls>>

\* The upsert updates the row read before, or inserts one where none was read.
UpsertGoesOn(c) ==
  \/ previous[c] # NoRow
  \/ row = NoRow /\ RowFree

\* INSERT ... ON CONFLICT DO UPDATE
UpsertInstance(c) ==
  /\ Goto(c, "upsertInstance", "replaceAssociations")
  /\ UpsertGoesOn(c)
  /\ locked' = c
  /\ UNCHANGED <<database, local, calls>>

\* The upsert updates a row where none was read: inserted is false.
RejectFirstSave(c) ==
  /\ pc[c] = "upsertInstance"
  /\ previous[c] = NoRow
  /\ row # NoRow
  /\ RowFree
  /\ Rollback(c, "idle")
  /\ Forget(c)

\* DELETE FROM saga_association, then one INSERT per association.
ReplaceAssociations(c) ==
  /\ Goto(c, "replaceAssociations", "insertHistory")
  /\ replaced' = [replaced EXCEPT ![c] = associations]
  /\ UNCHANGED <<database, locked, base, incoming, previous, next, calls>>

\* The primary key (saga_id, sequence_number) refuses a number in use.
InsertHistory(c) ==
  /\ Goto(c, "insertHistory", "commit")
  /\ \A e \in Derived(c), old \in history : e.seq # old.seq
  /\ UNCHANGED <<database, locked, local, calls>>

\* Mutant of Publish: associations are added and none removed.
PublishAddingAssociations(c) ==
  /\ row' = incoming[c].row
  /\ associations' = associations \cup incoming[c].associations
  /\ history' = history \cup Derived(c)

\* What COMMIT makes visible.
Publish(c) ==
  /\ row' = incoming[c].row
  /\ associations' = (associations \ replaced[c]) \cup incoming[c].associations
  /\ history' = history \cup Derived(c)

Commit(c) ==
  /\ Goto(c, "commit", "idle")
  /\ Publish(c)
  /\ EndTransaction(c)
  /\ Forget(c)
  /\ UNCHANGED calls

-----------------------------------------------------------------------------
(* Failures: a statement fails, the connection breaks or the process dies.  *)

\* Before COMMIT reaches the server the transaction rolls back, and its
\* caller gets an UncheckedSqlException.
FailStatement(c) ==
  /\ pc[c] \in Statements
  /\ Rollback(c, "failed")
  /\ UNCHANGED <<base, incoming>>

\* COMMIT took effect, but the connection broke before the answer arrived:
\* the caller gets the same exception.
LoseCommitAnswer(c) ==
  /\ Goto(c, "commit", "failed")
  /\ Publish(c)
  /\ EndTransaction(c)
  /\ UNCHANGED <<base, incoming, calls>>

\* The DELETE fails.  When only its answer is lost, Delete says what happened.
FailDelete(c) ==
  /\ Goto(c, "delete", "idle")
  /\ UNCHANGED <<database, locked, local, calls>>

\* After an exception the caller saves the same snapshot again, or gives up
\* (a process that died does).
Retry(c) ==
  /\ Call
  /\ Goto(c, "failed", "lockPrevious")
  /\ UNCHANGED <<database, locked, local>>

GiveUp(c) ==
  /\ Goto(c, "failed", "idle")
  /\ Forget(c)
  /\ UNCHANGED <<database, locked, previous, next, replaced, calls>>

-----------------------------------------------------------------------------
\* What DELETE FROM saga_instance removes: its foreign keys cascade.
RemoveSaga ==
  /\ row' = NoRow
  /\ associations' = {}
  /\ history' = {}

\* One auto-committed statement.
Delete(c) ==
  /\ Goto(c, "delete", "idle")
  /\ row = NoRow \/ RowFree
  /\ RemoveSaga
  /\ Forget(c)
  /\ UNCHANGED <<locked, previous, next, replaced, calls>>

\* What the database does for a client without the client deciding anything.
Statement(c) ==
  \/ LockNothing(c)
  \/ LockPrevious(c)
  \/ RejectBackward(c)
  \/ ReadNextSequenceNumber(c)
  \/ UpsertInstance(c)
  \/ RejectFirstSave(c)
  \/ ReplaceAssociations(c)
  \/ InsertHistory(c)
  \/ Commit(c)
  \/ Delete(c)

Caller(c) ==
  \/ Find(c)
  \/ CallStart(c)
  \/ CallTransition(c)
  \/ CallEdit(c)
  \/ CallDelete(c)
  \/ Retry(c)
  \/ GiveUp(c)

Fault(c) ==
  \/ FailStatement(c)
  \/ LoseCommitAnswer(c)
  \/ FailDelete(c)

Next == \E c \in Clients : Statement(c) \/ Caller(c) \/ Fault(c)

Spec == Init /\ [][Next]_vars

\* The server answers every statement it can answer.
FairSpec == Spec /\ \A c \in Clients : WF_vars(Statement(c))

-----------------------------------------------------------------------------
(* Properties.                                                              *)

TypeOK ==
  /\ row \in Rows \cup {NoRow}
  /\ associations \in SUBSET UNION AssociationSets
  /\ history \in SUBSET Entries
  /\ locked \in Clients \cup {NoClient}
  /\ pc \in [Clients -> Statements \cup {"idle", "delete", "failed"}]
  /\ base \in [Clients -> Instances \cup {NoRow}]
  /\ incoming \in [Clients -> Instances \cup {NoRow}]
  /\ previous \in [Clients -> Rows \cup {NoRow}]
  /\ next \in [Clients -> Nat]
  /\ replaced \in [Clients -> SUBSET UNION AssociationSets]
  /\ calls \in Nat

Writing == {"replaceAssociations", "insertHistory", "commit"}

\* A transaction that read a row holds it, and what it read stays the committed
\* row; one that has written holds the row, also where there was none; and only
\* a transaction under way holds it.
LockDiscipline ==
  /\ locked # NoClient => pc[locked] \in Statements \ {"lockPrevious"}
  /\ \A c \in Clients :
       /\ pc[c] \in Writing \/ previous[c] # NoRow =>
            /\ locked = c
            /\ row = previous[c]
       /\ previous[c] # NoRow =>
            /\ pc[c] \in Statements \ {"lockPrevious"}
            /\ ForwardTransition(previous[c], incoming[c].row)
       /\ pc[c] \in {"insertHistory", "commit"} => replaced[c] = associations
       /\ pc[c] \in Statements \cup {"failed"} => incoming[c] # NoRow

\* The rows of one saga belong together: what delete leaves behind is nothing,
\* and the committed associations are those of one snapshot, never a mix of two.
RowsBelongTogether ==
  /\ row = NoRow => associations = {} /\ history = {}
  /\ row # NoRow => associations \in AssociationSets

StepEntriesOf(h) == {e \in h : e.kind = "STEP_COMPLETED"}
TerminalEntriesOf(h) == {e \in h : IsTerminal(e.kind)}

\* The committed history never contradicts the committed row: each step entry
\* records what the row says of that step, each terminal entry has the row's
\* status, and there is a terminal entry exactly when the row is terminal.
HistoryAgreesWithRow ==
  /\ \A e \in StepEntriesOf(history) :
        row # NoRow /\ row.steps[e.step] = e.touched
  /\ \A e \in TerminalEntriesOf(history) :
        row # NoRow /\ row.status = e.kind
  /\ row # NoRow /\ IsTerminal(row.status) => TerminalEntriesOf(history) # {}

\* However saves race or are retried, no step completes twice in the history,
\* no saga is created or ends twice, and no number is given to two rows.
SameTransition(e, f) ==
  \/ e.kind = f.kind /\ e.step = f.step
  \/ IsTerminal(e.kind) /\ IsTerminal(f.kind)

NoDuplicateEntries ==
  \A e, f \in history : e.seq = f.seq \/ SameTransition(e, f) => e = f

\* Where nobody deletes: the history reconstructs the row (spec.md FR-007,
\* SC-003).  It is numbered from 0 without a gap, CREATED comes first, the
\* terminal entry last, and exactly the row's completed steps have an entry.
HistoryReconstructsRow ==
  row # NoRow =>
    /\ {e.seq : e \in history} = 0 .. Cardinality(history) - 1
    /\ \A e \in history :
          /\ e.kind = "CREATED" <=> e.seq = 0
          /\ IsTerminal(e.kind) => e.seq = Cardinality(history) - 1
    /\ {e.step : e \in StepEntriesOf(history)} = CompletedSteps(row)

\* However stale the snapshot a save was computed from, what it commits keeps
\* every completed step, what the step touched, and a terminal status.
ProgressIsKept ==
  [][row # NoRow /\ row' # NoRow => ForwardTransition(row, row')]_vars

\* The history only grows, until the saga is deleted; and a save that leaves
\* the row as it is (a retry of one already done) adds nothing to it.
HistoryIsAppendOnly ==
  [][row # NoRow /\ row' # NoRow =>
       /\ history \subseteq history'
       /\ row' = row => history' = history]_vars

\* Every call returns, with or without an exception: no transaction is left
\* holding the row, and no two of them wait for each other.
CallsReturn ==
  \A c \in Clients : pc[c] \in Statements \cup {"delete"} ~> pc[c] \in {"idle", "failed"}

\* save and delete take effect atomically, as SagaStore says.
Store == INSTANCE SagaStore

ImplementsStore == Store!Spec

-----------------------------------------------------------------------------
(* What the documents say of the program, and the program does not do.      *)

\* data-model.md:131: "A CREATED entry from step 2 is always first
\* (sequenceNumber = 0) when there was no previous row."
CreatedIsNumberedZero ==
  \A e \in history : e.kind = "CREATED" => e.seq = 0
=============================================================================
