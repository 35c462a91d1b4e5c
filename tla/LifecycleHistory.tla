-------------------------- MODULE LifecycleHistory -------------------------
(***************************************************************************)
(* LifecycleHistoryDerivation: which history rows a save appends, and      *)
(* which saves are refused because they do not go forward from the         *)
(* persisted snapshot.                                                     *)
(*                                                                         *)
(* A saga's history is the set of its saga_lifecycle_history rows, ordered *)
(* by sequence number.  Timestamps are left out.                           *)
(***************************************************************************)
EXTENDS SagaInstances, FiniteSetsExt

CONSTANT NoRow      \* no saga_instance row: the first save's "previous"

ASSUME NoRowAssumption == NoRow \notin Rows /\ NoRow \notin Instances

Kinds == {"CREATED", "STEP_COMPLETED", "COMPLETED", "FAILED"}

\* SagaLifecycleEntry; its constructor allows exactly these combinations.
Entries ==
  { e \in [seq     : Nat,
           kind    : Kinds,
           step    : Steps \cup {None},
           touched : TouchLists \cup {None},
           outcome : Steps \cup {None},
           failure : Failures \cup {None}] :
      /\ (e.kind = "STEP_COMPLETED") <=> (e.step # None)
      /\ (e.kind = "STEP_COMPLETED") <=> (e.touched # None)
      /\ (e.kind = "COMPLETED") <=> (e.outcome # None)
      /\ (e.kind = "FAILED") <=> (e.failure # None) }

CreatedEntry(seq) ==
  [seq |-> seq, kind |-> "CREATED", step |-> None, touched |-> None,
   outcome |-> None, failure |-> None]

StepEntry(seq, step, touched) ==
  [seq |-> seq, kind |-> "STEP_COMPLETED", step |-> step, touched |-> touched,
   outcome |-> None, failure |-> None]

TerminalEntry(seq, row) ==
  [seq |-> seq, kind |-> row.status, step |-> None, touched |-> None,
   outcome |-> row.outcome, failure |-> row.failure]

\* Mutant of ForwardTransition: a terminal status may be overwritten.
ForwardStepsOnly(previous, incoming) ==
  \A s \in CompletedSteps(previous) : incoming.steps[s] = previous.steps[s]

\* Every step previous completed is completed in incoming with the same
\* touched aggregates, and a terminal status stays.  Nothing else is compared.
ForwardTransition(previous, incoming) ==
  /\ \A s \in CompletedSteps(previous) : incoming.steps[s] = previous.steps[s]
  /\ IsTerminal(previous.status) => incoming.status = previous.status

NewlyCompletedSteps(previous, incoming) ==
  CompletedSteps(incoming) \ CompletedSteps(previous)

\* Position of step in the name order of the set it is in.
Rank(step, steps) == Cardinality({s \in steps : s < step})

StepEntries(previous, incoming, next) ==
  LET new == NewlyCompletedSteps(previous, incoming)
  IN  {StepEntry(next + Rank(s, new), s, incoming.steps[s]) : s \in new}

\* Mutant of Derive: every save of a terminal snapshot records its end.
DeriveEndAgain(previous, incoming, next) ==
  (IF previous = NoRow THEN {CreatedEntry(next)} ELSE {})
    \cup (IF IsTerminal(incoming.status)
             THEN {TerminalEntry(next + (IF previous = NoRow THEN 1 ELSE 0), incoming)}
             ELSE {})

\* The first save records its creation and none of the steps it has completed.
Derive(previous, incoming, next) ==
  LET first   == previous = NoRow
      head    == IF first THEN {CreatedEntry(next)}
                          ELSE StepEntries(previous, incoming, next)
      ended   == /\ IsTerminal(incoming.status)
                 /\ first \/ incoming.status # previous.status
      last    == next + (IF first THEN 1
                         ELSE Cardinality(NewlyCompletedSteps(previous, incoming)))
  IN  head \cup (IF ended THEN {TerminalEntry(last, incoming)} ELSE {})

\* Mutant of NextSequenceNumber: an empty history is numbered from 1.
NextNumberFromOne(history) ==
  IF history = {} THEN 1 ELSE Max({e.seq : e \in history}) + 1

\* COALESCE(MAX(sequence_number) + 1, 0)
NextSequenceNumber(history) ==
  IF history = {} THEN 0 ELSE Max({e.seq : e \in history}) + 1
=============================================================================
