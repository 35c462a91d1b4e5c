--------------------------- MODULE SagaInstances ---------------------------
(***************************************************************************)
(* The vocabulary every storage module and engine shares: the durable      *)
(* snapshot of one saga (SagaInstance, StepRecord, SagaStatus) and the     *)
(* transitions SagaLifecycle applies to it.                                *)
(*                                                                         *)
(* Payloads are opaque.  A step record is the list of aggregates a         *)
(* completed step touched, or NotRun; a name absent from the Java map is   *)
(* a step NotRun, which is how the code reads it too.                      *)
(***************************************************************************)
EXTENDS Naturals, FiniteSets

CONSTANTS
  Steps,            \* the @SagaStep names, numbered in String.compareTo order
  TouchLists,       \* possible touchedAggregates lists of a completed step
  NotRun,           \* the record of a step that has not run
  States,           \* possible serialized fields of the saga class
  AssociationSets,  \* possible association maps, as sets of (property, value)
  Failures,         \* possible SagaFailure values
  None              \* an absent (null) outcome, failure, step or list

ASSUME StepsAssumption == Steps \subseteq Nat /\ IsFiniteSet(Steps)
ASSUME NotRunAssumption == NotRun \notin TouchLists
ASSUME NoneAssumption == None \notin Steps /\ None \notin Failures /\ None \notin TouchLists

Statuses == {"CREATED", "RUNNING", "COMPENSATING", "COMPLETED", "FAILED"}

TerminalStatuses == {"COMPLETED", "FAILED"}

StepRecords == [Steps -> TouchLists \cup {NotRun}]

\* The columns of one snapshot but its associations, which Postgres keeps in
\* a table of their own.  The last two conjuncts are what the constructor of
\* SagaInstance and the CHECK constraints of saga_instance demand.
Rows ==
  { r \in [state   : States,
           status  : Statuses,
           steps   : StepRecords,
           outcome : Steps \cup {None},
           failure : Failures \cup {None}] :
      /\ (r.status = "COMPLETED") <=> (r.outcome # None)
      /\ (r.status = "FAILED")    <=> (r.failure # None) }

\* A snapshot as the SPI passes it around.
Instances == [row : Rows, associations : AssociationSets]

CompletedSteps(row) == {s \in Steps : row.steps[s] # NotRun}

IsTerminal(status) == status \in TerminalStatuses

-----------------------------------------------------------------------------
(* The transitions of SagaLifecycle.  Each but Started takes the snapshot   *)
(* the lifecycle has just loaded and is rejected on a terminal one.         *)

Active(instance) == ~ IsTerminal(instance.row.status)

Started(state, associations) ==
  [row |-> [state   |-> state,
            status  |-> "CREATED",
            steps   |-> [s \in Steps |-> NotRun],
            outcome |-> None,
            failure |-> None],
   associations |-> associations]

\* Records step as completed, whatever its record was, and keeps the status.
StepRecorded(instance, step, touched) ==
  [instance EXCEPT !.row.steps[step] = touched]

Advanced(instance) == [instance EXCEPT !.row.status = "RUNNING"]

\* Mutant of Completed: the reached step is forgotten.
CompletedWithoutOutcome(instance, outcomeStep) ==
  [instance EXCEPT !.row.status = "COMPLETED"]

Completed(instance, outcomeStep) ==
  [instance EXCEPT !.row.status = "COMPLETED", !.row.outcome = outcomeStep]

Failed(instance, failure) ==
  [instance EXCEPT !.row.status = "FAILED", !.row.failure = failure]

\* The snapshots one lifecycle transition makes of a loaded one.
Transitions(instance) ==
  {StepRecorded(instance, s, t) : s \in Steps, t \in TouchLists}
    \cup {Advanced(instance)}
    \cup {Completed(instance, s) : s \in Steps}
    \cup {Failed(instance, f) : f \in Failures}

\* The snapshots a caller of StorageProvider makes by changing the saga's own
\* fields or its associations: no lifecycle transition, any status.
Edits(instance) ==
  {[row |-> [instance.row EXCEPT !.state = state], associations |-> associations] :
      state \in States, associations \in AssociationSets}
=============================================================================
