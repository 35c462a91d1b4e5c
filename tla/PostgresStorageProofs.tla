----------------------- MODULE PostgresStorageProofs -----------------------
(***************************************************************************)
(* Safety of PostgresStorage for any number of clients and calls, and any  *)
(* steps, aggregates, associations and failures.                           *)
(*                                                                         *)
(* The inductive invariant is IInv: what a transaction read under its lock *)
(* is still the committed row when it commits (LockDiscipline), so         *)
(* requireForwardTransition, evaluated on what was read, also holds of     *)
(* what is overwritten.  HistoryBounded is there because the next number   *)
(* exists only if the numbers in use are bounded.                          *)
(*                                                                         *)
(* That a commit is one atomic save (SagaStore) needs NextIsCurrent: the   *)
(* number read under the lock still is the next one.  Without deletes      *)
(* NoDeletesInv also says that a history starts at 0 and has no gap.       *)
(***************************************************************************)
EXTENDS PostgresStorage, FiniteSetTheorems, WellFoundedInduction, TLAPS

-----------------------------------------------------------------------------
\* The derivation of history rows (LifecycleHistory), for every set of steps,
\* aggregates, associations and failures.

\* A bounded non-empty set of naturals has a maximum, which Max picks.
LEMMA MaxOfBounded ==
  ASSUME NEW S \in SUBSET Nat, S # {}, NEW n \in Nat, \A x \in S : x =< n
  PROVE  /\ Max(S) \in S
         /\ \A x \in S : Max(S) >= x
<1> DEFINE Bounds == {k \in Nat : \A x \in S : x =< k}
<1>1. PICK m \in Bounds : \A k \in Bounds : ~ (<<k, m>> \in OpToRel(<, Nat))
  <2>1. Bounds \subseteq Nat /\ n \in Bounds
    OBVIOUS
  <2> HIDE DEF Bounds
  <2> QED
    BY <2>1, NatLessThanWellFounded, WFMin, Zenon
<1>2. \A k \in Bounds : ~ (k < m)
  BY <1>1 DEF OpToRel
<1>3. m \in S
  <2> SUFFICES ASSUME m \notin S
               PROVE  FALSE
    OBVIOUS
  <2>1. \A x \in S : x =< m - 1
    OBVIOUS
  <2>2. PICK x \in S : TRUE
    OBVIOUS
  <2>3. m - 1 \in Nat
    BY <2>1, <2>2
  <2> QED
    BY <1>2, <2>1, <2>3
<1>4. \E x \in S : \A y \in S : x >= y
  BY <1>3
<1> QED
  BY <1>4 DEF Max

\* Every completed step of a snapshot has a finite rank.
LEMMA RankType ==
  ASSUME NEW T \in SUBSET Steps, NEW s \in T
  PROVE  /\ IsFiniteSet(T)
         /\ Cardinality(T) \in Nat
         /\ Rank(s, T) \in 0 .. Cardinality(T) - 1
<1> DEFINE Below == {r \in T : r < s}
<1>1. IsFiniteSet(T)
  BY FS_Subset, StepsAssumption
<1>2. /\ IsFiniteSet(Below)
      /\ Cardinality(Below) =< Cardinality(T)
      /\ Cardinality(Below) = Cardinality(T) => T = Below
  BY <1>1, FS_Subset
<1>3. Cardinality(T) \in Nat /\ Cardinality(Below) \in Nat
  BY <1>1, <1>2, FS_CardinalityType
<1>4. Below # T
  BY StepsAssumption
<1> QED
  BY <1>1, <1>2, <1>3, <1>4 DEF Rank

\* Two steps of a set have different ranks in it.
LEMMA RankInjective ==
  ASSUME NEW T \in SUBSET Steps, NEW s \in T, NEW t \in T, Rank(s, T) = Rank(t, T)
  PROVE  s = t
<1>1. ASSUME NEW a \in T, NEW b \in T, a < b
      PROVE  Rank(a, T) < Rank(b, T)
  <2> DEFINE Below(x) == {r \in T : r < x}
  <2>1. IsFiniteSet(Below(b))
    BY FS_Subset, StepsAssumption
  <2>2. Below(a) \in SUBSET Below(b) /\ Below(a) # Below(b)
    <3>1. a \in Below(b) /\ a \notin Below(a)
      BY <1>1, StepsAssumption
    <3>2. \A r \in Below(a) : r \in Below(b)
      BY <1>1, StepsAssumption
    <3> QED
      BY <3>1, <3>2
  <2> HIDE DEF Below
  <2>3. /\ IsFiniteSet(Below(a))
        /\ Cardinality(Below(a)) =< Cardinality(Below(b))
        /\ Cardinality(Below(a)) # Cardinality(Below(b))
    BY <2>1, <2>2, FS_Subset
  <2>4. Cardinality(Below(a)) \in Nat /\ Cardinality(Below(b)) \in Nat
    BY <2>1, <2>3, FS_CardinalityType
  <2> QED
    BY <2>3, <2>4 DEF Rank, Below
<1>2. Rank(s, T) \in Nat /\ Rank(t, T) \in Nat
  BY RankType
<1> QED
  BY <1>1, <1>2, StepsAssumption

\* The number a new entry starts at follows every number in use.
LEMMA NextSequenceNumberType ==
  ASSUME NEW h \in SUBSET Entries, NEW n \in Nat, \A e \in h : e.seq =< n
  PROVE  /\ NextSequenceNumber(h) \in 0 .. n + 1
         /\ \A e \in h : e.seq < NextSequenceNumber(h)
<1>1. CASE h = {}
  BY <1>1 DEF NextSequenceNumber
<1>2. CASE h # {}
  <2> DEFINE Numbers == {e.seq : e \in h}
  <2>1. Numbers \in SUBSET Nat /\ Numbers # {} /\ \A x \in Numbers : x =< n
    BY <1>2 DEF Entries
  <2> HIDE DEF Numbers
  <2>2. PICK m \in Numbers : m = Max(Numbers) /\ \A x \in Numbers : m >= x
    BY <2>1, MaxOfBounded
  <2>3. m \in Nat /\ m =< n
    BY <2>1
  <2>4. NextSequenceNumber(h) = m + 1
    BY <1>2, <2>2 DEF NextSequenceNumber, Numbers
  <2>5. \A e \in h : e.seq \in Nat /\ e.seq =< m
    BY <2>1, <2>2 DEF Numbers
  <2> QED
    BY <2>3, <2>4, <2>5
<1> QED
  BY <1>1, <1>2

\* What an appended row says, and how far it is numbered: CREATED belongs to
\* the first save, a step entry to a step that was not completed before, a
\* terminal entry to a status that was not there before.
LEMMA DeriveFacts ==
  ASSUME NEW before \in Rows \cup {NoRow}, NEW after \in Rows, NEW first \in Nat,
         NEW e \in Derive(before, after, first)
  PROVE  /\ e \in Entries
         /\ e.seq \in first .. first + Cardinality(Steps) + 1
         /\ e.kind = "CREATED" => before = NoRow
         /\ e.kind = "STEP_COMPLETED" =>
              /\ before # NoRow
              /\ e.step \in NewlyCompletedSteps(before, after)
              /\ e.touched = after.steps[e.step]
         /\ IsTerminal(e.kind) =>
              /\ e.kind = after.status
              /\ before # NoRow => before.status # after.status
<1> DEFINE New == NewlyCompletedSteps(before, after)
<1>1. Cardinality(Steps) \in Nat
  BY StepsAssumption, FS_CardinalityType
<1>2. New \in SUBSET Steps /\ \A s \in New : after.steps[s] \in TouchLists
  BY DEF NewlyCompletedSteps, CompletedSteps, Rows, StepRecords
<1>3. Cardinality(New) \in 0 .. Cardinality(Steps)
  BY <1>1, <1>2, FS_Subset, FS_CardinalityType, StepsAssumption
<1>4. CASE before = NoRow /\ e = CreatedEntry(first)
  BY <1>1, <1>4, NoneAssumption DEF CreatedEntry, Entries, Kinds, IsTerminal, TerminalStatuses
<1>5. CASE before # NoRow /\ \E s \in New :
             e = StepEntry(first + Rank(s, New), s, after.steps[s])
  <2>1. PICK s \in New : e = StepEntry(first + Rank(s, New), s, after.steps[s])
    BY <1>5
  <2>2. Rank(s, New) \in 0 .. Cardinality(Steps)
    BY <1>1, <1>2, <1>3, RankType
  <2>3. s \in Steps /\ s # None /\ after.steps[s] \in TouchLists /\ after.steps[s] # None
    BY <1>2, NoneAssumption
  <2> HIDE DEF New
  <2>4. /\ e.kind = "STEP_COMPLETED" /\ e.step = s /\ e.touched = after.steps[s]
        /\ e.seq = first + Rank(s, New)
    BY <2>1 DEF StepEntry
  <2>5. e \in Entries
    BY <1>1, <2>1, <2>2, <2>3 DEF StepEntry, Entries, Kinds
  <2>6. e.seq \in first .. first + Cardinality(Steps) + 1
    BY <1>1, <2>2, <2>4
  <2> QED
    BY <1>5, <2>4, <2>5, <2>6 DEF IsTerminal, TerminalStatuses, New
<1>6. CASE \E last \in first .. first + Cardinality(Steps) + 1 :
             /\ e = TerminalEntry(last, after)
             /\ IsTerminal(after.status)
             /\ before = NoRow \/ after.status # before.status
  BY <1>1, <1>6, NoneAssumption
  DEF TerminalEntry, Entries, Kinds, Rows, IsTerminal, TerminalStatuses
<1>7. \/ before = NoRow /\ e = CreatedEntry(first)
      \/ before # NoRow /\ \E s \in New : e = StepEntry(first + Rank(s, New), s, after.steps[s])
      \/ \E last \in {first + 1, first + Cardinality(New)} :
            /\ e = TerminalEntry(last, after)
            /\ IsTerminal(after.status)
            /\ before = NoRow \/ after.status # before.status
  BY DEF Derive, StepEntries
<1> QED
  BY <1>1, <1>3, <1>4, <1>5, <1>6, <1>7

\* The rows one save appends have different numbers and are different
\* transitions.
LEMMA DeriveDistinct ==
  ASSUME NEW before \in Rows \cup {NoRow}, NEW after \in Rows, NEW first \in Nat,
         NEW e \in Derive(before, after, first), NEW f \in Derive(before, after, first),
         \/ e.seq = f.seq
         \/ e.kind = f.kind /\ e.step = f.step
         \/ IsTerminal(e.kind) /\ IsTerminal(f.kind)
  PROVE  e = f
<1> DEFINE New  == NewlyCompletedSteps(before, after)
           head == IF before = NoRow THEN {CreatedEntry(first)}
                                     ELSE StepEntries(before, after, first)
           last == first + (IF before = NoRow THEN 1 ELSE Cardinality(New))
<1>1. New \in SUBSET Steps /\ Cardinality(New) \in Nat
  BY RankType, FS_Subset, FS_CardinalityType, StepsAssumption
  DEF NewlyCompletedSteps, CompletedSteps
<1>2. ASSUME NEW g \in Derive(before, after, first)
      PROVE  \/ g \in head
             \/ g = TerminalEntry(last, after) /\ IsTerminal(after.status)
  BY DEF Derive
<1>3. ASSUME NEW g \in head
      PROVE  /\ g.seq \in Nat /\ g.seq < last /\ ~ IsTerminal(g.kind)
             /\ before # NoRow =>
                  \E s \in New : g = StepEntry(first + Rank(s, New), s, after.steps[s])
  <2>1. CASE before = NoRow
    BY <2>1 DEF CreatedEntry, IsTerminal, TerminalStatuses
  <2>2. CASE before # NoRow
    <3>1. PICK s \in New : g = StepEntry(first + Rank(s, New), s, after.steps[s])
      BY <2>2, <1>3 DEF StepEntries
    <3>2. Rank(s, New) \in 0 .. Cardinality(New) - 1
      BY <1>1, RankType
    <3>3. g.seq = first + Rank(s, New) /\ g.kind = "STEP_COMPLETED"
      BY <3>1 DEF StepEntry
    <3> HIDE DEF New
    <3> QED
      BY <1>1, <2>2, <3>1, <3>2, <3>3 DEF IsTerminal, TerminalStatuses
  <2> QED
    BY <2>1, <2>2
<1>4. ASSUME NEW g \in head, NEW h \in head, g.seq = h.seq \/ g.step = h.step
      PROVE  g = h
  <2>1. CASE before = NoRow
    BY <1>4, <2>1
  <2>2. CASE before # NoRow
    <3>1. PICK s \in New : g = StepEntry(first + Rank(s, New), s, after.steps[s])
      BY <1>3, <2>2
    <3>2. PICK t \in New : h = StepEntry(first + Rank(t, New), t, after.steps[t])
      BY <1>3, <2>2
    <3>3. Rank(s, New) \in Nat /\ Rank(t, New) \in Nat
      BY <1>1, RankType
    <3>4. /\ g.seq = first + Rank(s, New) /\ g.step = s
          /\ h.seq = first + Rank(t, New) /\ h.step = t
      BY <3>1, <3>2 DEF StepEntry
    <3> HIDE DEF New, head
    <3>5. s = t
      BY <1>1, <1>4, <3>3, <3>4, RankInjective
    <3> QED
      BY <3>1, <3>2, <3>5
  <2> QED
    BY <2>1, <2>2
<1>5. TerminalEntry(last, after).seq = last /\ TerminalEntry(last, after).kind = after.status
  BY DEF TerminalEntry
<1>6. last \in Nat
  BY <1>1
<1> HIDE DEF head, last, New
<1> QED
  BY <1>2, <1>3, <1>4, <1>5, <1>6

\* A snapshot that ends the saga, or that starts it ended, adds a terminal
\* entry.
LEMMA DeriveEnds ==
  ASSUME NEW before \in Rows \cup {NoRow}, NEW after \in Rows, NEW first \in Nat,
         IsTerminal(after.status),
         before # NoRow => before.status # after.status
  PROVE  \E e \in Derive(before, after, first) : e.kind = after.status
<1> DEFINE last == first + (IF before = NoRow THEN 1
                           ELSE Cardinality(NewlyCompletedSteps(before, after)))
<1>1. TerminalEntry(last, after) \in Derive(before, after, first)
  BY DEF Derive
<1>2. TerminalEntry(last, after).kind = after.status
  BY DEF TerminalEntry
<1> QED
  BY <1>1, <1>2

\* The ranks of a set of steps are the numbers below its size: steps that
\* complete together are numbered without a gap.
LEMMA RanksFillInterval ==
  ASSUME NEW T \in SUBSET Steps
  PROVE  {Rank(s, T) : s \in T} = 0 .. Cardinality(T) - 1
<1> DEFINE f == [s \in T |-> Rank(s, T)]
           k == Cardinality(T)
<1>1. IsFiniteSet(T) /\ k \in Nat
  BY FS_Subset, FS_CardinalityType, StepsAssumption
<1>2. f \in Injection(T, 0 .. k - 1)
  <2>1. f \in [T -> 0 .. k - 1]
    BY RankType
  <2>2. \A s, t \in T : f[s] = f[t] => s = t
    BY RankInjective
  <2> QED
    BY <2>1, <2>2 DEF Injection, IsInjective
<1>3. IsFiniteSet(0 .. k - 1) /\ Cardinality(0 .. k - 1) = k
  <2>1. k - 1 \in Int /\ 0 \in Int
    BY <1>1
  <2> QED
    BY <1>1, <2>1, FS_Interval
<1>4. f \in Surjection(T, 0 .. k - 1)
  BY <1>1, <1>2, <1>3, FS_Injection
<1> QED
  BY <1>4 DEF Surjection

\* The numbers and the steps of the rows a later save appends: from next on
\* without a gap, the terminal row last, one row for each step newly completed.
LEMMA DeriveNumbers ==
  ASSUME NEW before \in Rows, NEW after \in Rows, NEW first \in Nat
  PROVE  /\ Cardinality(NewlyCompletedSteps(before, after)) \in Nat
         /\ IsTerminal(after.status) /\ after.status # before.status =>
              {e.seq : e \in Derive(before, after, first)}
                = first .. first + Cardinality(NewlyCompletedSteps(before, after))
         /\ ~ (IsTerminal(after.status) /\ after.status # before.status) =>
              {e.seq : e \in Derive(before, after, first)}
                = first .. first + Cardinality(NewlyCompletedSteps(before, after)) - 1
         /\ \A e \in Derive(before, after, first) :
              IsTerminal(e.kind) =>
                e.seq = first + Cardinality(NewlyCompletedSteps(before, after))
         /\ \A s \in NewlyCompletedSteps(before, after) :
              \E e \in Derive(before, after, first) : e.kind = "STEP_COMPLETED" /\ e.step = s
<1> DEFINE T    == NewlyCompletedSteps(before, after)
           k    == Cardinality(T)
           Ends == IsTerminal(after.status) /\ after.status # before.status
           New  == Derive(before, after, first)
<1>1. T \in SUBSET Steps /\ before # NoRow
  BY NoRowAssumption DEF NewlyCompletedSteps, CompletedSteps
<1>2. k \in Nat
  BY <1>1, FS_Subset, FS_CardinalityType, StepsAssumption
<1>3. New = {StepEntry(first + Rank(s, T), s, after.steps[s]) : s \in T}
              \cup (IF Ends THEN {TerminalEntry(first + k, after)} ELSE {})
  BY <1>1 DEF Derive, StepEntries
<1>4. {Rank(s, T) : s \in T} = 0 .. k - 1
  BY <1>1, RanksFillInterval
<1>5. \A s \in T : Rank(s, T) \in 0 .. k - 1
  BY <1>4
<1> HIDE DEF T, k, New, Ends
<1> DEFINE StepRow(s) == StepEntry(first + Rank(s, T), s, after.steps[s])
           EndRow     == TerminalEntry(first + k, after)
<1>6. /\ \A s \in T : StepRow(s) \in New
      /\ Ends => EndRow \in New
      /\ \A e \in New : (\E s \in T : e = StepRow(s)) \/ (Ends /\ e = EndRow)
  <2>1. New = {StepRow(s) : s \in T} \cup (IF Ends THEN {EndRow} ELSE {})
    BY <1>3
  <2> HIDE DEF StepRow, EndRow
  <2> QED
    BY <2>1
<1>7. /\ \A s \in T : /\ StepRow(s).seq = first + Rank(s, T)
                        /\ StepRow(s).kind = "STEP_COMPLETED"
                        /\ StepRow(s).step = s
      /\ EndRow.seq = first + k
  BY DEF StepEntry, TerminalEntry
<1> HIDE DEF StepRow, EndRow
<1>8. \A n \in first .. first + k - 1 : \E s \in T : n = first + Rank(s, T)
  <2> SUFFICES ASSUME NEW n \in first .. first + k - 1
               PROVE  \E s \in T : n = first + Rank(s, T)
    OBVIOUS
  <2>1. n - first \in 0 .. k - 1
    BY <1>2
  <2>2. PICK s \in T : n - first = Rank(s, T)
    BY <1>4, <2>1
  <2> QED
    BY <1>2, <2>2
<1>9. \A n \in first .. first + k - 1 : \E e \in New : e.seq = n
  BY <1>6, <1>7, <1>8
<1>10. \A e \in New : e.seq \in first .. first + k - 1 \/ (Ends /\ e.seq = first + k)
  BY <1>2, <1>6, <1>7, <1>5
<1>11. Ends => \E e \in New : e.seq = first + k
  BY <1>6, <1>7
<1>12. ASSUME Ends
       PROVE  {e.seq : e \in New} = first .. first + k
  <2>1. \A n \in first .. first + k : \E e \in New : e.seq = n
    BY <1>2, <1>9, <1>11, <1>12
  <2>2. \A e \in New : e.seq \in first .. first + k
    BY <1>2, <1>10
  <2> QED
    BY <2>1, <2>2
<1>13. ASSUME ~ Ends
       PROVE  {e.seq : e \in New} = first .. first + k - 1
  BY <1>9, <1>10, <1>13
<1>14. \A e \in New : IsTerminal(e.kind) => e.seq = first + k
  BY <1>6, <1>7 DEF IsTerminal, TerminalStatuses
<1>15. \A s \in T : \E e \in New : e.kind = "STEP_COMPLETED" /\ e.step = s
  BY <1>6, <1>7
<1> QED
  BY <1>2, <1>12, <1>13, <1>14, <1>15 DEF T, k, New, Ends

\* A snapshot that SagaLifecycle starts is a snapshot.
LEMMA StartedType ==
  ASSUME NEW state \in States, NEW set \in AssociationSets
  PROVE  Started(state, set) \in Instances
BY NoneAssumption DEF Started, Instances, Rows, Statuses, StepRecords

\* What SagaLifecycle makes of an active snapshot is a snapshot.
LEMMA TransitionsType ==
  ASSUME NEW instance \in Instances, Active(instance), NEW t \in Transitions(instance)
  PROVE  t \in Instances
<1> DEFINE r == instance.row
<1>1. /\ instance = [row |-> r, associations |-> instance.associations]
      /\ r = [state |-> r.state, status |-> r.status, steps |-> r.steps,
              outcome |-> r.outcome, failure |-> r.failure]
      /\ instance.associations \in AssociationSets /\ r \in Rows
  BY DEF Instances, Rows
<1>2. /\ r.state \in States /\ r.steps \in StepRecords
      /\ r.status \in Statuses \ TerminalStatuses /\ r.outcome = None /\ r.failure = None
  BY <1>1 DEF Rows, Active, IsTerminal, TerminalStatuses, Statuses
<1>3. CASE \E s \in Steps, touched \in TouchLists : t = StepRecorded(instance, s, touched)
  <2>1. PICK s \in Steps, touched \in TouchLists : t = StepRecorded(instance, s, touched)
    BY <1>3
  <2>2. t = [row |-> [state |-> r.state, status |-> r.status,
                      steps |-> [r.steps EXCEPT ![s] = touched],
                      outcome |-> r.outcome, failure |-> r.failure],
             associations |-> instance.associations]
    BY <1>1, <2>1 DEF StepRecorded
  <2>3. [r.steps EXCEPT ![s] = touched] \in StepRecords
    BY <1>2 DEF StepRecords
  <2> QED
    BY <1>1, <1>2, <2>2, <2>3, NoneAssumption DEF Instances, Rows, TerminalStatuses, Statuses
<1>4. CASE t = Advanced(instance)
  BY <1>1, <1>2, <1>4, NoneAssumption DEF Advanced, Instances, Rows, Statuses
<1>5. CASE \E s \in Steps : t = Completed(instance, s)
  <2>1. PICK s \in Steps : t = Completed(instance, s)
    BY <1>5
  <2>2. t = [row |-> [state |-> r.state, status |-> "COMPLETED", steps |-> r.steps,
                      outcome |-> s, failure |-> r.failure],
             associations |-> instance.associations]
    BY <1>1, <2>1 DEF Completed
  <2> QED
    BY <1>1, <1>2, <2>2, NoneAssumption DEF Instances, Rows, Statuses
<1>6. CASE \E f \in Failures : t = Failed(instance, f)
  <2>1. PICK f \in Failures : t = Failed(instance, f)
    BY <1>6
  <2>2. t = [row |-> [state |-> r.state, status |-> "FAILED", steps |-> r.steps,
                      outcome |-> r.outcome, failure |-> f],
             associations |-> instance.associations]
    BY <1>1, <2>1 DEF Failed
  <2> QED
    BY <1>1, <1>2, <2>2, NoneAssumption DEF Instances, Rows, Statuses
<1> QED
  BY <1>3, <1>4, <1>5, <1>6 DEF Transitions

\* A snapshot whose own fields or associations a caller changes stays one.
LEMMA EditsType ==
  ASSUME NEW instance \in Instances, NEW t \in Edits(instance)
  PROVE  t \in Instances
<1> DEFINE r == instance.row
<1>1. PICK state \in States, set \in AssociationSets :
        t = [row |-> [r EXCEPT !.state = state], associations |-> set]
  BY DEF Edits
<1>2. [r EXCEPT !.state = state] =
        [state |-> state, status |-> r.status, steps |-> r.steps,
         outcome |-> r.outcome, failure |-> r.failure]
  BY DEF Instances, Rows
<1> QED
  BY <1>1, <1>2 DEF Instances, Rows

\* The steps a transition or an edit leaves completed: those of the snapshot
\* it was made of, unless it stays active.
LEMMA TransitionSteps ==
  ASSUME NEW instance \in Instances, NEW t \in Instances
  PROVE  /\ t \in Transitions(instance) /\ Active(instance) =>
              Active(t) \/ CompletedSteps(t.row) = CompletedSteps(instance.row)
         /\ t \in Edits(instance) =>
              /\ CompletedSteps(t.row) = CompletedSteps(instance.row)
              /\ Active(t) <=> Active(instance)
<1>1. t.row.steps = instance.row.steps =>
        CompletedSteps(t.row) = CompletedSteps(instance.row)
  BY DEF CompletedSteps
<1>2. t.row.status = instance.row.status => (Active(t) <=> Active(instance))
  BY DEF Active
<1>3. ASSUME t \in Edits(instance)
      PROVE  t.row.steps = instance.row.steps /\ t.row.status = instance.row.status
  BY <1>3 DEF Edits, Instances, Rows
<1>4. ASSUME t \in Transitions(instance), Active(instance)
      PROVE  Active(t) \/ t.row.steps = instance.row.steps
  <2> USE DEF Instances, Rows
  <2>1. ASSUME NEW s \in Steps, NEW u \in TouchLists, t = StepRecorded(instance, s, u)
        PROVE  t.row.status = instance.row.status
    BY <2>1 DEF StepRecorded
  <2>2. ASSUME t = Advanced(instance)
        PROVE  t.row.steps = instance.row.steps
    BY <2>2 DEF Advanced
  <2>3. ASSUME NEW s \in Steps, t = Completed(instance, s)
        PROVE  t.row.steps = instance.row.steps
    BY <2>3 DEF Completed
  <2>4. ASSUME NEW f \in Failures, t = Failed(instance, f)
        PROVE  t.row.steps = instance.row.steps
    BY <2>4 DEF Failed
  <2> QED
    BY <1>2, <1>4, <2>1, <2>2, <2>3, <2>4 DEF Transitions
<1> QED
  BY <1>1, <1>2, <1>3, <1>4

-----------------------------------------------------------------------------
\* The provider.

HistoryBounded == \E n \in Nat : \A e \in history : e.seq =< n

IInv == TypeOK /\ LockDiscipline /\ RowsBelongTogether /\ HistoryBounded

\* The initial state satisfies the inductive invariant.
LEMMA InitIInv == Init => IInv
<1> SUFFICES ASSUME Init PROVE IInv
  OBVIOUS
<1>1. TypeOK
  BY DEF Init, TypeOK, Statements
<1>2. LockDiscipline
  BY DEF Init, LockDiscipline, Statements, Writing
<1>3. RowsBelongTogether /\ HistoryBounded
  BY DEF Init, RowsBelongTogether, HistoryBounded
<1> QED
  BY <1>1, <1>2, <1>3 DEF IInv

\* What a transaction that is about to commit publishes is well typed, and
\* bounded again.
LEMMA PublishType ==
  ASSUME IInv, NEW c \in Clients, pc[c] = "commit", Publish(c)
  PROVE  /\ row' \in Rows
         /\ associations' \in SUBSET UNION AssociationSets
         /\ history' \in SUBSET Entries
         /\ HistoryBounded'
<1>1. incoming[c] \in Instances /\ next[c] \in Nat /\ previous[c] \in Rows \cup {NoRow}
  BY DEF IInv, TypeOK, LockDiscipline, Statements
<1>2. row' \in Rows /\ incoming[c].associations \in AssociationSets
  BY <1>1 DEF Publish, Instances
<1>3. associations' \in SUBSET UNION AssociationSets
  BY <1>2 DEF Publish, IInv, TypeOK
<1>4. \A e \in Derived(c) : e \in Entries /\ e.seq \in next[c] .. next[c] + Cardinality(Steps) + 1
  BY <1>1, DeriveFacts DEF Derived, Instances
<1>5. history' \in SUBSET Entries
  BY <1>4 DEF Publish, IInv, TypeOK
<1>6. HistoryBounded'
  <2>1. PICK n \in Nat : \A e \in history : e.seq =< n
    BY DEF IInv, HistoryBounded
  <2>2. Cardinality(Steps) \in Nat
    BY StepsAssumption, FS_CardinalityType
  <2> DEFINE m == n + next[c] + Cardinality(Steps) + 1
  <2>3. m \in Nat
    BY <1>1, <2>1, <2>2
  <2>4. \A e \in history : e.seq \in Nat
    BY DEF IInv, TypeOK, Entries
  <2>5. \A e \in history' : e.seq =< m
    BY <1>1, <1>4, <2>1, <2>2, <2>4 DEF Publish
  <2> QED
    BY <2>3, <2>5 DEF HistoryBounded
<1> QED
  BY <1>2, <1>3, <1>5, <1>6

\* The end of a transaction keeps the types of what it resets.
LEMMA EndTransactionType ==
  ASSUME TypeOK, NEW c \in Clients, EndTransaction(c)
  PROVE  /\ locked' \in Clients \cup {NoClient}
         /\ previous' \in [Clients -> Rows \cup {NoRow}]
         /\ next' \in [Clients -> Nat]
         /\ replaced' \in [Clients -> SUBSET UNION AssociationSets]
BY DEF TypeOK, EndTransaction

\* A call of save passes a snapshot.
LEMMA SaveCallType ==
  ASSUME TypeOK, NEW c \in Clients, NEW snapshot \in Instances, SaveCall(c, snapshot)
  PROVE  TypeOK'
BY DEF TypeOK, SaveCall, Call, Goto, database, Statements

\* Every step keeps every variable in its type.
LEMMA TypeStep ==
  ASSUME IInv, [Next]_vars
  PROVE  TypeOK'
<1> USE DEF Statements, Goto, database, local
<1>0. TypeOK
  BY DEF IInv
<1>1. CASE UNCHANGED vars
  BY <1>0, <1>1 DEF TypeOK, vars
<1>2. CASE Next
  <2>0. PICK c \in Clients : Statement(c) \/ Caller(c) \/ Fault(c)
    BY <1>2 DEF Next
  <2>1. CASE LockNothing(c)
    BY <1>0, <2>1 DEF TypeOK, LockNothing
  <2>2. CASE LockPrevious(c)
    BY <1>0, <2>2 DEF TypeOK, LockPrevious
  <2>3. CASE RejectBackward(c)
    BY <1>0, <2>3, EndTransactionType DEF TypeOK, RejectBackward, Rollback, Forget
  <2>4. CASE ReadNextSequenceNumber(c)
    <3>1. NextSequenceNumber(history) \in Nat
      BY NextSequenceNumberType DEF IInv, TypeOK, HistoryBounded
    <3> QED
      BY <1>0, <2>4, <3>1 DEF TypeOK, ReadNextSequenceNumber
  <2>5. CASE UpsertInstance(c)
    BY <1>0, <2>5 DEF TypeOK, UpsertInstance
  <2>6. CASE RejectFirstSave(c)
    BY <1>0, <2>6, EndTransactionType DEF TypeOK, RejectFirstSave, Rollback, Forget
  <2>7. CASE ReplaceAssociations(c)
    BY <1>0, <2>7 DEF TypeOK, ReplaceAssociations
  <2>8. CASE InsertHistory(c)
    BY <1>0, <2>8 DEF TypeOK, InsertHistory
  <2>9. CASE Commit(c)
    BY <1>0, <2>9, PublishType, EndTransactionType DEF TypeOK, Commit, Forget
  <2>10. CASE Delete(c)
    BY <1>0, <2>10 DEF TypeOK, Delete, RemoveSaga, Forget
  <2>11. CASE Find(c)
    <3>1. row # NoRow => [row |-> row, associations |-> associations] \in Instances \cup {NoRow}
      BY <1>0 DEF IInv, TypeOK, RowsBelongTogether, Instances
    <3> QED
      BY <1>0, <2>11, <3>1 DEF TypeOK, Find
  <2>12. CASE CallStart(c)
    BY <1>0, <2>12, StartedType, SaveCallType DEF CallStart
  <2>13. CASE CallTransition(c)
    <3>1. base[c] \in Instances
      BY <1>0, <2>13 DEF TypeOK, CallTransition
    <3> QED
      BY <1>0, <2>13, <3>1, TransitionsType, SaveCallType DEF CallTransition
  <2>14. CASE CallEdit(c)
    <3>1. base[c] \in Instances
      BY <1>0, <2>14 DEF TypeOK, CallEdit
    <3> QED
      BY <1>0, <2>14, <3>1, EditsType, SaveCallType DEF CallEdit
  <2>15. CASE CallDelete(c)
    BY <1>0, <2>15 DEF TypeOK, CallDelete, Call
  <2>16. CASE Retry(c)
    BY <1>0, <2>16 DEF TypeOK, Retry, Call
  <2>17. CASE GiveUp(c)
    BY <1>0, <2>17 DEF TypeOK, GiveUp, Forget
  <2>18. CASE FailStatement(c)
    BY <1>0, <2>18, EndTransactionType DEF TypeOK, FailStatement, Rollback
  <2>19. CASE LoseCommitAnswer(c)
    BY <1>0, <2>19, PublishType, EndTransactionType DEF TypeOK, LoseCommitAnswer
  <2>20. CASE FailDelete(c)
    BY <1>0, <2>20 DEF TypeOK, FailDelete
  <2> QED
    BY <2>0, <2>1, <2>2, <2>3, <2>4, <2>5, <2>6, <2>7, <2>8, <2>9, <2>10, <2>11,
       <2>12, <2>13, <2>14, <2>15, <2>16, <2>17, <2>18, <2>19, <2>20
    DEF Statement, Caller, Fault
<1> QED
  BY <1>1, <1>2

\* A transaction that is about to commit holds the row, goes forward from it,
\* and publishes its own snapshot.
LEMMA PublishFacts ==
  ASSUME IInv, NEW c \in Clients, pc[c] = "commit", Publish(c)
  PROVE  /\ incoming[c] \in Instances
         /\ previous[c] \in Rows \cup {NoRow}
         /\ next[c] \in Nat
         /\ locked = c
         /\ row = previous[c]
         /\ row # NoRow => ForwardTransition(row, incoming[c].row)
         /\ row' = incoming[c].row
         /\ row' # NoRow
         /\ associations' = incoming[c].associations
         /\ history' = history \cup Derive(row, incoming[c].row, next[c])
<1>1. /\ incoming[c] \in Instances /\ next[c] \in Nat /\ previous[c] \in Rows \cup {NoRow}
      /\ locked = c /\ row = previous[c] /\ replaced[c] = associations
      /\ row # NoRow => ForwardTransition(row, incoming[c].row)
  BY DEF IInv, TypeOK, LockDiscipline, Statements, Writing
<1> QED
  BY <1>1, NoRowAssumption DEF Publish, Derived, Instances

\* Only the holder of the row, or nobody, is affected by a transaction's end.
LEMMA LockStep ==
  ASSUME IInv, [Next]_vars
  PROVE  LockDiscipline'
<1> USE DEF Statements, Writing, Goto, database, local
<1>0. TypeOK /\ LockDiscipline
  BY DEF IInv
<1>1. CASE UNCHANGED vars
  BY <1>0, <1>1 DEF LockDiscipline, vars
<1>2. CASE Next
  <2>0. PICK c \in Clients : Statement(c) \/ Caller(c) \/ Fault(c)
    BY <1>2 DEF Next
  <2>1. CASE LockNothing(c)
    BY <1>0, <2>1 DEF TypeOK, LockDiscipline, LockNothing
  <2>2. CASE LockPrevious(c)
    BY <1>0, <2>2, ClientsAssumption DEF TypeOK, LockDiscipline, LockPrevious, RowFree
  <2>3. CASE RejectBackward(c)
    BY <1>0, <2>3, ClientsAssumption
       DEF TypeOK, LockDiscipline, RejectBackward, Rollback, EndTransaction, Forget, RowFree
  <2>4. CASE ReadNextSequenceNumber(c)
    BY <1>0, <2>4 DEF TypeOK, LockDiscipline, ReadNextSequenceNumber
  <2>5. CASE UpsertInstance(c)
    BY <1>0, <2>5, ClientsAssumption DEF TypeOK, LockDiscipline, UpsertInstance, UpsertGoesOn, RowFree
  <2>6. CASE RejectFirstSave(c)
    BY <1>0, <2>6, ClientsAssumption
       DEF TypeOK, LockDiscipline, RejectFirstSave, Rollback, EndTransaction, Forget, RowFree
  <2>7. CASE ReplaceAssociations(c)
    BY <1>0, <2>7 DEF TypeOK, LockDiscipline, ReplaceAssociations
  <2>8. CASE InsertHistory(c)
    BY <1>0, <2>8 DEF TypeOK, LockDiscipline, InsertHistory
  <2>9. CASE Commit(c)
    BY <1>0, <2>9, ClientsAssumption
    DEF TypeOK, LockDiscipline, Commit, EndTransaction, Forget
  <2>10. CASE Delete(c)
    BY <1>0, <2>10, ClientsAssumption
       DEF IInv, RowsBelongTogether, TypeOK, LockDiscipline, Delete, RemoveSaga, Forget, RowFree
  <2>11. CASE Find(c)
    BY <1>0, <2>11 DEF TypeOK, LockDiscipline, Find
  <2>12. CASE CallStart(c)
    BY <1>0, <2>12, NoRowAssumption, StartedType DEF TypeOK, LockDiscipline, CallStart, SaveCall, Call
  <2>13. CASE CallTransition(c)
    <3>1. PICK snapshot \in Instances : SaveCall(c, snapshot)
      BY <1>0, <2>13, TransitionsType DEF CallTransition, TypeOK
    <3> QED
      BY <1>0, <3>1, NoRowAssumption DEF TypeOK, LockDiscipline, SaveCall, Call
  <2>14. CASE CallEdit(c)
    <3>1. PICK snapshot \in Instances : SaveCall(c, snapshot)
      BY <1>0, <2>14, EditsType DEF CallEdit, TypeOK
    <3> QED
      BY <1>0, <3>1, NoRowAssumption DEF TypeOK, LockDiscipline, SaveCall, Call
  <2>15. CASE CallDelete(c)
    BY <1>0, <2>15 DEF TypeOK, LockDiscipline, CallDelete, Call
  <2>16. CASE Retry(c)
    BY <1>0, <2>16 DEF TypeOK, LockDiscipline, Retry, Call
  <2>17. CASE GiveUp(c)
    BY <1>0, <2>17 DEF TypeOK, LockDiscipline, GiveUp, Forget
  <2>18. CASE FailStatement(c)
    BY <1>0, <2>18 DEF TypeOK, LockDiscipline, FailStatement, Rollback, EndTransaction
  <2>19. CASE LoseCommitAnswer(c)
    BY <1>0, <2>19, ClientsAssumption
    DEF TypeOK, LockDiscipline, LoseCommitAnswer, EndTransaction
  <2>20. CASE FailDelete(c)
    BY <1>0, <2>20 DEF TypeOK, LockDiscipline, FailDelete
  <2> QED
    BY <2>0, <2>1, <2>2, <2>3, <2>4, <2>5, <2>6, <2>7, <2>8, <2>9, <2>10, <2>11,
       <2>12, <2>13, <2>14, <2>15, <2>16, <2>17, <2>18, <2>19, <2>20
    DEF Statement, Caller, Fault
<1> QED
  BY <1>1, <1>2

\* What a step does to the committed rows: nothing, what a delete does, or what
\* one save publishes.
LEMMA DatabaseStep ==
  ASSUME IInv, [Next]_vars
  PROVE  \/ UNCHANGED database
         \/ row' = NoRow /\ associations' = {} /\ history' = {}
         \/ \E c \in Clients : pc[c] = "commit" /\ Publish(c)
<1>1. CASE UNCHANGED vars
  BY <1>1 DEF vars
<1>2. CASE Next
  BY <1>2
  DEF Next, Statement, Caller, Fault, LockNothing, LockPrevious, RejectBackward,
      ReadNextSequenceNumber, UpsertInstance, RejectFirstSave, ReplaceAssociations,
      InsertHistory, Commit, Delete, RemoveSaga, Find, CallStart, CallTransition, CallEdit,
      SaveCall, CallDelete, Retry, GiveUp, FailStatement, LoseCommitAnswer, FailDelete, Rollback, Goto
<1> QED
  BY <1>1, <1>2

\* The rows of the saga still belong together, and its numbers stay bounded.
LEMMA RowsStep ==
  ASSUME IInv, [Next]_vars
  PROVE  RowsBelongTogether' /\ HistoryBounded'
<1>1. CASE UNCHANGED database
  BY <1>1 DEF IInv, RowsBelongTogether, HistoryBounded, database
<1>2. CASE row' = NoRow /\ associations' = {} /\ history' = {}
  BY <1>2 DEF RowsBelongTogether, HistoryBounded
<1>3. ASSUME NEW c \in Clients, pc[c] = "commit", Publish(c)
      PROVE  RowsBelongTogether' /\ HistoryBounded'
  BY <1>3, PublishType, PublishFacts DEF RowsBelongTogether, Instances
<1> QED
  BY <1>1, <1>2, <1>3, DatabaseStep

\* The inductive invariant holds in every state of every behaviour.
THEOREM Invariant == Spec => []IInv
<1>1. IInv /\ [Next]_vars => IInv'
  BY TypeStep, LockStep, RowsStep DEF IInv
<1> QED
  BY InitIInv, <1>1, PTL DEF Spec

\* Every variable keeps its type (find, save and delete of
\* PostgresStorageProvider).
THEOREM TypeCorrect == Spec => []TypeOK
<1>1. IInv => TypeOK
  BY DEF IInv
<1> QED
  BY Invariant, <1>1, PTL

\* What save read FOR UPDATE is what it overwrites, and it holds the row from
\* its upsert to its COMMIT.
THEOREM Locking == Spec => []LockDiscipline
<1>1. IInv => LockDiscipline
  BY DEF IInv
<1> QED
  BY Invariant, <1>1, PTL

\* The committed rows are those of one snapshot, and delete leaves none.
THEOREM Together == Spec => []RowsBelongTogether
<1>1. IInv => RowsBelongTogether
  BY DEF IInv
<1> QED
  BY Invariant, <1>1, PTL

\* However stale the snapshot a save was computed from, what it commits keeps
\* every completed step and a terminal status (requireForwardTransition).
THEOREM Progress == Spec => ProgressIsKept
<1>1. IInv /\ [Next]_vars =>
        [row # NoRow /\ row' # NoRow => ForwardTransition(row, row')]_vars
  <2> SUFFICES ASSUME IInv, [Next]_vars, row # NoRow, row' # NoRow
               PROVE  ForwardTransition(row, row')
    OBVIOUS
  <2>1. CASE UNCHANGED database
    BY <2>1 DEF database, ForwardTransition
  <2>2. ASSUME NEW c \in Clients, pc[c] = "commit", Publish(c)
        PROVE  ForwardTransition(row, row')
    BY <2>2, PublishFacts
  <2> QED
    BY <2>1, <2>2, DatabaseStep
<1> QED
  BY Invariant, <1>1, PTL DEF Spec, ProgressIsKept

\* Nothing is removed from the history of a saga that stays, and a save that
\* leaves its row as it is appends nothing (LifecycleHistoryDerivation.derive).
THEOREM AppendOnly == Spec => HistoryIsAppendOnly
<1>1. IInv /\ [Next]_vars =>
        [row # NoRow /\ row' # NoRow =>
           /\ history \subseteq history'
           /\ row' = row => history' = history]_vars
  <2> SUFFICES ASSUME IInv, [Next]_vars, row # NoRow, row' # NoRow
               PROVE  /\ history \subseteq history'
                      /\ row' = row => history' = history
    OBVIOUS
  <2>1. CASE UNCHANGED database
    BY <2>1 DEF database
  <2>2. ASSUME NEW c \in Clients, pc[c] = "commit", Publish(c)
        PROVE  /\ history \subseteq history'
               /\ row' = row => history' = history
    <3>1. Derive(row, row, next[c]) = {}
      BY DEF Derive, StepEntries, NewlyCompletedSteps
    <3> QED
      BY <2>2, <3>1, PublishFacts
  <2> QED
    BY <2>1, <2>2, DatabaseStep
<1> QED
  BY Invariant, <1>1, PTL DEF Spec, HistoryIsAppendOnly

\* Every step keeps the history in agreement with the row.
LEMMA AgreementStep ==
  ASSUME IInv, HistoryAgreesWithRow, [Next]_vars
  PROVE  HistoryAgreesWithRow'
<1>1. CASE UNCHANGED database
  BY <1>1 DEF HistoryAgreesWithRow, database
<1>2. CASE row' = NoRow /\ associations' = {} /\ history' = {}
  BY <1>2 DEF HistoryAgreesWithRow, StepEntriesOf, TerminalEntriesOf
<1>3. ASSUME NEW c \in Clients, pc[c] = "commit", Publish(c)
      PROVE  HistoryAgreesWithRow'
  <2> DEFINE New == Derive(row, row', next[c])
  <2>1. /\ row' \in Rows /\ row \in Rows \cup {NoRow} /\ next[c] \in Nat /\ row' # NoRow
        /\ row # NoRow => ForwardTransition(row, row')
        /\ history' = history \cup New
    BY <1>3, PublishFacts DEF Instances
  <2>2. ASSUME NEW e \in history, e.kind = "STEP_COMPLETED"
        PROVE  row'.steps[e.step] = e.touched
    <3>1. row # NoRow /\ row.steps[e.step] = e.touched
      BY <2>2 DEF HistoryAgreesWithRow, StepEntriesOf
    <3>2. e.step \in Steps /\ e.touched \in TouchLists
      BY <2>2 DEF IInv, TypeOK, Entries
    <3>3. e.step \in CompletedSteps(row)
      BY <3>1, <3>2, NotRunAssumption DEF CompletedSteps
    <3> QED
      BY <2>1, <3>1, <3>3 DEF ForwardTransition
  <2>3. ASSUME NEW e \in history, IsTerminal(e.kind)
        PROVE  row'.status = e.kind
    BY <2>1, <2>3 DEF HistoryAgreesWithRow, TerminalEntriesOf, ForwardTransition
  <2>4. ASSUME NEW e \in New
        PROVE  /\ e.kind = "STEP_COMPLETED" => row'.steps[e.step] = e.touched
               /\ IsTerminal(e.kind) => row'.status = e.kind
    BY <2>1, DeriveFacts
  <2>5. ASSUME IsTerminal(row'.status)
        PROVE  TerminalEntriesOf(history') # {}
    <3>1. CASE row # NoRow /\ row.status = row'.status
      <4>1. PICK e \in history : IsTerminal(e.kind)
        BY <2>5, <3>1 DEF HistoryAgreesWithRow, TerminalEntriesOf
      <4> QED
        BY <2>1, <4>1 DEF TerminalEntriesOf
    <3>2. CASE row # NoRow => row.status # row'.status
      <4>1. PICK e \in New : e.kind = row'.status
        BY <2>1, <2>5, <3>2, DeriveEnds
      <4> QED
        BY <2>1, <2>5, <4>1 DEF TerminalEntriesOf
    <3> QED
      BY <3>1, <3>2
  <2> HIDE DEF New
  <2> QED
    BY <2>1, <2>2, <2>3, <2>4, <2>5 DEF HistoryAgreesWithRow, StepEntriesOf, TerminalEntriesOf
<1> QED
  BY <1>1, <1>2, <1>3, DatabaseStep

\* The committed history never contradicts the committed row.
THEOREM Agreement == Spec => []HistoryAgreesWithRow
<1>1. Init => HistoryAgreesWithRow
  BY DEF Init, HistoryAgreesWithRow, StepEntriesOf, TerminalEntriesOf
<1>2. IInv /\ HistoryAgreesWithRow /\ [Next]_vars => HistoryAgreesWithRow'
  BY AgreementStep
<1> QED
  BY Invariant, <1>1, <1>2, PTL DEF Spec

\* The numbers a transaction has inserted, and not yet committed, stay free.
NumbersAreFree ==
  \A c \in Clients : pc[c] = "commit" =>
    \A e \in Derived(c), old \in history : e.seq # old.seq

\* A client that reaches COMMIT has just inserted its history, or nobody wrote
\* any since.
LEMMA BeforeCommit ==
  ASSUME IInv, [Next]_vars, NEW c \in Clients, pc'[c] = "commit"
  PROVE  /\ UNCHANGED <<previous[c], incoming[c], next[c]>>
         /\ \/ pc[c] = "commit" /\ (history' = history \/ history' = {})
            \/ history' = history /\ \A e \in Derived(c), old \in history : e.seq # old.seq
<1> USE DEF Goto, database, local
<1>0. TypeOK /\ LockDiscipline
  BY DEF IInv
<1>1. CASE UNCHANGED vars
  BY <1>1 DEF vars
<1>2. ASSUME NEW d \in Clients, Statement(d) \/ Caller(d) \/ Fault(d), d = c
      PROVE  InsertHistory(c)
  BY <1>0, <1>2
  DEF TypeOK, Statement, Caller, Fault, LockNothing, LockPrevious, RejectBackward,
      ReadNextSequenceNumber, UpsertInstance, RejectFirstSave, ReplaceAssociations,
      Commit, Delete, Find, CallStart, CallTransition, CallEdit,
      SaveCall, CallDelete, Retry, GiveUp, FailStatement, LoseCommitAnswer, FailDelete, Rollback
<1>3. CASE InsertHistory(c)
  BY <1>3 DEF InsertHistory
<1>4. ASSUME NEW d \in Clients, Statement(d) \/ Caller(d) \/ Fault(d), d # c
      PROVE  /\ UNCHANGED <<previous[c], incoming[c], next[c]>>
             /\ pc[c] = "commit"
  BY <1>0, <1>4
  DEF TypeOK, Statement, Caller, Fault, LockNothing, LockPrevious, RejectBackward,
      ReadNextSequenceNumber, UpsertInstance, RejectFirstSave, ReplaceAssociations, InsertHistory,
      Commit, Delete, Find, CallStart, CallTransition, CallEdit, Forget, EndTransaction,
      SaveCall, CallDelete, Retry, GiveUp, FailStatement, LoseCommitAnswer, FailDelete, Rollback
<1>5. ASSUME NEW d \in Clients, Statement(d) \/ Caller(d) \/ Fault(d), d # c
      PROVE  history' = history \/ history' = {}
  <2>1. locked = c
    BY <1>0, <1>4, <1>5 DEF LockDiscipline, Writing
  <2>2. pc[d] # "commit"
    BY <1>0, <1>5, <2>1 DEF LockDiscipline, Writing
  <2> QED
    BY <1>5, <2>2
    DEF Statement, Caller, Fault, LockNothing, LockPrevious, RejectBackward,
      ReadNextSequenceNumber, UpsertInstance, RejectFirstSave, ReplaceAssociations, InsertHistory,
      Commit, Delete, RemoveSaga, Find, CallStart, CallTransition, CallEdit,
      SaveCall, CallDelete, Retry, GiveUp, FailStatement, LoseCommitAnswer, FailDelete, Rollback
<1> QED
  BY <1>1, <1>2, <1>3, <1>4, <1>5 DEF Next

\* Every step keeps inserted numbers free.
LEMMA NumbersStep ==
  ASSUME IInv, NumbersAreFree, [Next]_vars
  PROVE  NumbersAreFree'
<1> SUFFICES ASSUME NEW c \in Clients, pc'[c] = "commit",
                    NEW e \in Derived(c)', NEW old \in history'
             PROVE  e.seq # old.seq
  BY DEF NumbersAreFree
<1>1. Derived(c)' = Derived(c)
  BY BeforeCommit DEF Derived
<1> QED
  BY <1>1, BeforeCommit DEF NumbersAreFree

\* Every step keeps the history free of duplicates.
LEMMA DuplicatesStep ==
  ASSUME IInv, HistoryAgreesWithRow, NumbersAreFree, NoDuplicateEntries, [Next]_vars
  PROVE  NoDuplicateEntries'
<1>1. CASE UNCHANGED database
  BY <1>1 DEF NoDuplicateEntries, database
<1>2. CASE row' = NoRow /\ associations' = {} /\ history' = {}
  BY <1>2 DEF NoDuplicateEntries
<1>3. ASSUME NEW c \in Clients, pc[c] = "commit", Publish(c)
      PROVE  NoDuplicateEntries'
  <2> DEFINE New == Derive(row, row', next[c])
  <2>1. /\ row' \in Rows /\ row \in Rows \cup {NoRow} /\ next[c] \in Nat
        /\ row # NoRow => ForwardTransition(row, row')
        /\ history' = history \cup New
        /\ New = Derived(c)
    BY <1>3, PublishFacts DEF Instances, Derived
  <2>2. ASSUME NEW e \in New, NEW f \in New, e.seq = f.seq \/ SameTransition(e, f)
        PROVE  e = f
    BY <2>1, <2>2, DeriveDistinct DEF SameTransition
  <2>3. ASSUME NEW e \in New, NEW f \in history
        PROVE  e.seq # f.seq
    BY <1>3, <2>1 DEF NumbersAreFree
  <2>4. ASSUME NEW e \in New, NEW f \in history
        PROVE  ~ SameTransition(e, f) /\ ~ SameTransition(f, e)
    <3>1. row # NoRow
      BY <2>4 DEF IInv, RowsBelongTogether
    <3>2. e.kind # "CREATED" /\ e \in Entries
      BY <2>1, <3>1, DeriveFacts
    <3>3. ASSUME e.kind = "STEP_COMPLETED", f.kind = "STEP_COMPLETED"
          PROVE  e.step # f.step
      <4>1. e.step \notin CompletedSteps(row)
        BY <2>1, <3>3, DeriveFacts DEF NewlyCompletedSteps
      <4>2. f.step \in Steps /\ f.touched \in TouchLists /\ row.steps[f.step] = f.touched
        BY <3>3 DEF IInv, TypeOK, Entries, HistoryAgreesWithRow, StepEntriesOf
      <4> QED
        BY <4>1, <4>2, NotRunAssumption DEF CompletedSteps
    <3>4. ASSUME IsTerminal(e.kind), IsTerminal(f.kind)
          PROVE  FALSE
      <4>1. row.status = f.kind
        BY <3>4 DEF HistoryAgreesWithRow, TerminalEntriesOf
      <4>2. e.kind = row'.status /\ row.status # row'.status
        BY <2>1, <3>1, <3>4, DeriveFacts
      <4> QED
        BY <2>1, <3>1, <3>4, <4>1, <4>2 DEF ForwardTransition
    <3>5. e.kind \in {"STEP_COMPLETED", "COMPLETED", "FAILED"}
      BY <3>2 DEF Entries, Kinds
    <3> QED
      BY <3>3, <3>4, <3>5 DEF SameTransition, IsTerminal, TerminalStatuses
  <2> HIDE DEF New
  <2> QED
    BY <2>1, <2>2, <2>3, <2>4 DEF NoDuplicateEntries
<1> QED
  BY <1>1, <1>2, <1>3, DatabaseStep

\* However saves race, fail or are retried, no transition is recorded twice and
\* no sequence number is used twice.
THEOREM NoDuplicates == Spec => []NoDuplicateEntries
<1>1. Init => NumbersAreFree /\ NoDuplicateEntries
  BY DEF Init, NumbersAreFree, NoDuplicateEntries
<1>2. /\ IInv /\ HistoryAgreesWithRow /\ NumbersAreFree /\ NoDuplicateEntries
      /\ [Next]_vars
      => (NumbersAreFree /\ NoDuplicateEntries)'
  BY NumbersStep, DuplicatesStep
<1> QED
  BY Invariant, Agreement, <1>1, <1>2, PTL DEF Spec
-----------------------------------------------------------------------------
(* Implementation of SagaStore.                                             *)

\* A client's own data changes in its own steps only.
LEMMA OtherClient ==
  ASSUME TypeOK, NEW c \in Clients, NEW d \in Clients, d # c,
         Statement(d) \/ Caller(d) \/ Fault(d)
  PROVE  /\ UNCHANGED <<pc[c], base[c], incoming[c], previous[c], next[c]>>
BY DEF TypeOK, Goto, database, local,
      Statement, Caller, Fault, LockNothing, LockPrevious, RejectBackward,
      ReadNextSequenceNumber, UpsertInstance, RejectFirstSave, ReplaceAssociations, InsertHistory,
      Commit, Delete, Find, CallStart, CallTransition, CallEdit, Forget, EndTransaction,
      SaveCall, CallDelete, Retry, GiveUp, FailStatement, LoseCommitAnswer, FailDelete, Rollback

\* While a transaction holds the row it read, nobody else changes the rows.
LEMMA HolderIsAlone ==
  ASSUME IInv, NEW c \in Clients, NEW d \in Clients, d # c,
         Statement(d) \/ Caller(d) \/ Fault(d), previous[c] # NoRow
  PROVE  UNCHANGED database
<1>1. locked = c /\ row # NoRow /\ ~ RowFree
  BY ClientsAssumption DEF IInv, LockDiscipline, RowFree
<1>2. pc[d] # "commit"
  BY <1>1 DEF IInv, LockDiscipline, Writing
<1>3. ~ Delete(d)
  BY <1>1 DEF Delete
<1> QED
  BY <1>2, <1>3
  DEF Statement, Caller, Fault, LockNothing, LockPrevious, RejectBackward,
      ReadNextSequenceNumber, UpsertInstance, RejectFirstSave, ReplaceAssociations,
      InsertHistory, Commit, Find, CallStart, CallTransition, CallEdit,
      SaveCall, CallDelete, Retry, GiveUp, FailStatement, LoseCommitAnswer, FailDelete, Rollback, Goto

\* The statements between the read of the next number and COMMIT.
Numbered == {"upsertInstance"} \cup Writing

\* The number a transaction read under its lock is still the next one.
NextIsCurrent ==
  \A c \in Clients :
    (pc[c] \in Numbered /\ previous[c] # NoRow) => next[c] = NextSequenceNumber(history)

\* What a client's own step does on its way from the read of the next number
\* to COMMIT.
LEMMA NumberedStep ==
  ASSUME TypeOK, NEW c \in Clients, Statement(c) \/ Caller(c) \/ Fault(c),
         pc'[c] \in Numbered
  PROVE  /\ UNCHANGED <<database, previous[c], incoming[c]>>
         /\ \/ pc[c] = "nextSequenceNumber" /\ next'[c] = NextSequenceNumber(history)
            \/ pc[c] \in Numbered /\ next'[c] = next[c]
BY DEF TypeOK, Goto, database, local, Numbered, Writing, Statements,
      Statement, Caller, Fault, LockNothing, LockPrevious, RejectBackward,
      ReadNextSequenceNumber, UpsertInstance, RejectFirstSave, ReplaceAssociations, InsertHistory,
      Commit, Delete, Find, CallStart, CallTransition, CallEdit, Forget,
      SaveCall, CallDelete, Retry, GiveUp, FailStatement, LoseCommitAnswer, FailDelete, Rollback

\* Every step keeps the number read under the lock current.
LEMMA NextStep ==
  ASSUME IInv, NextIsCurrent, [Next]_vars
  PROVE  NextIsCurrent'
<1> SUFFICES ASSUME NEW c \in Clients, pc'[c] \in Numbered, previous'[c] # NoRow
             PROVE  next'[c] = NextSequenceNumber(history')
  BY DEF NextIsCurrent, Numbered, Writing
<1>0. TypeOK
  BY DEF IInv
<1>1. CASE UNCHANGED vars
  BY <1>1 DEF vars, local, database, NextIsCurrent
<1>2. CASE Statement(c) \/ Caller(c) \/ Fault(c)
  BY <1>0, <1>2, NumberedStep DEF NextIsCurrent, database
<1>3. ASSUME NEW d \in Clients, d # c, Statement(d) \/ Caller(d) \/ Fault(d)
      PROVE  next'[c] = NextSequenceNumber(history')
  <2>1. UNCHANGED <<pc[c], previous[c], next[c]>>
    BY <1>0, <1>3, OtherClient
  <2>2. UNCHANGED database
    BY <1>3, <2>1, HolderIsAlone
  <2> QED
    BY <2>1, <2>2 DEF NextIsCurrent, database
<1> QED
  BY <1>1, <1>2, <1>3 DEF Next

\* SagaStore's operators are the ones of LifecycleHistory.
LEMMA StoreOperators ==
  /\ Store!Instances = Instances
  /\ \A p, i, n : Store!Derive(p, i, n) = Derive(p, i, n)
  /\ \A p, i : Store!ForwardTransition(p, i) <=> ForwardTransition(p, i)
  /\ \A h : Store!NextSequenceNumber(h) = NextSequenceNumber(h)
<1>1. Store!Instances = Instances
  BY DEF Store!Instances, Instances, Store!Rows, Rows, Store!Statuses, Statuses,
         Store!StepRecords, StepRecords
<1>2. /\ \A st : Store!IsTerminal(st) <=> IsTerminal(st)
      /\ \A r : Store!CompletedSteps(r) = CompletedSteps(r)
  BY DEF Store!IsTerminal, IsTerminal, Store!TerminalStatuses, TerminalStatuses,
         Store!CompletedSteps, CompletedSteps
<1>3. \A p, i : Store!NewlyCompletedSteps(p, i) = NewlyCompletedSteps(p, i)
  BY <1>2 DEF Store!NewlyCompletedSteps, NewlyCompletedSteps
<1>4. \A T : Store!Cardinality(T) = Cardinality(T)
  BY DEF Store!Cardinality, Cardinality
<1>5. ASSUME NEW p, NEW i, NEW n
      PROVE  Store!StepEntries(p, i, n) = StepEntries(p, i, n)
  <2>1. \A s, T : Store!Rank(s, T) = Rank(s, T)
    BY <1>4 DEF Store!Rank, Rank
  <2>2. \A m, s, t : Store!StepEntry(m, s, t) = StepEntry(m, s, t)
    BY DEF Store!StepEntry, StepEntry
  <2> QED
    BY <1>3, <2>1, <2>2, Zenon DEF Store!StepEntries, StepEntries
<1>6. ASSUME NEW p, NEW i, NEW n
      PROVE  Store!Derive(p, i, n) = Derive(p, i, n)
  <2>1. \A m : Store!CreatedEntry(m) = CreatedEntry(m)
    BY DEF Store!CreatedEntry, CreatedEntry
  <2>2. \A m, r : Store!TerminalEntry(m, r) = TerminalEntry(m, r)
    BY DEF Store!TerminalEntry, TerminalEntry
  <2>3. /\ Store!StepEntries(p, i, n) = StepEntries(p, i, n)
        /\ Store!NewlyCompletedSteps(p, i) = NewlyCompletedSteps(p, i)
        /\ Store!IsTerminal(i.status) <=> IsTerminal(i.status)
    BY <1>2, <1>3, <1>5
  <2> QED
    BY <1>4, <2>1, <2>2, <2>3 DEF Store!Derive, Derive
<1>7. \A p, i : Store!ForwardTransition(p, i) <=> ForwardTransition(p, i)
  BY <1>2 DEF Store!ForwardTransition, ForwardTransition
<1>8. \A h : Store!NextSequenceNumber(h) = NextSequenceNumber(h)
  BY DEF Store!NextSequenceNumber, NextSequenceNumber, Store!Max, Max
<1> QED
  BY <1>1, <1>6, <1>7, <1>8

\* What a COMMIT publishes is a save of SagaStore, if a first save begins with a
\* number of FirstNumbers.
LEMMA PublishIsSave ==
  ASSUME IInv, NextIsCurrent, NEW c \in Clients, pc[c] = "commit", Publish(c),
         row = NoRow => next[c] \in FirstNumbers
  PROVE  Store!Save(incoming[c])
<1>1. /\ previous[c] = row
      /\ row # NoRow => ForwardTransition(row, incoming[c].row)
      /\ row' = incoming[c].row
      /\ associations' = incoming[c].associations
      /\ history' = history \cup Derive(row, incoming[c].row, next[c])
  BY PublishFacts
<1>2. CASE row = NoRow
  <2>1. history' = Derive(row, incoming[c].row, next[c])
    BY <1>1, <1>2 DEF IInv, RowsBelongTogether
  <2> QED
    BY <1>1, <1>2, <2>1, StoreOperators DEF Store!Save, Store!FirstSave, Store!Appended
<1>3. CASE row # NoRow
  <2>1. next[c] = NextSequenceNumber(history)
    BY <1>1, <1>3 DEF NextIsCurrent, Numbered, Writing
  <2> QED
    BY <1>1, <1>3, <2>1, StoreOperators DEF Store!Save, Store!NextSave, Store!Appended
<1> QED
  BY <1>2, <1>3

\* Every step is a step of SagaStore or leaves its variables unchanged.
LEMMA StoreStep ==
  ASSUME IInv, NextIsCurrent, [Next]_vars,
         \A c \in Clients : (pc[c] = "commit" /\ row = NoRow) => next[c] \in FirstNumbers
  PROVE  [Store!Next]_<<row, associations, history>>
<1>1. CASE UNCHANGED database
  BY <1>1 DEF database
<1>2. CASE row' = NoRow /\ associations' = {} /\ history' = {}
  BY <1>2 DEF Store!Next, Store!Delete
<1>3. ASSUME NEW c \in Clients, pc[c] = "commit", Publish(c)
      PROVE  Store!Next
  <2>1. incoming[c] \in Instances /\ Store!Save(incoming[c])
    BY <1>3, PublishFacts, PublishIsSave
  <2> QED
    BY <2>1, StoreOperators DEF Store!Next
<1> QED
  BY <1>1, <1>2, <1>3, DatabaseStep

\* save and delete are atomic, whoever else saves, deletes, fails or retries:
\* PostgresStorageProvider implements SagaStore, where a history may begin with
\* any number.
THEOREM Implements ==
  ASSUME FirstNumbers = Nat
  PROVE  Spec => ImplementsStore
<1>1. Init => NextIsCurrent /\ Store!Init
  BY DEF Init, NextIsCurrent, Store!Init
<1>2. IInv /\ NextIsCurrent /\ [Next]_vars => NextIsCurrent'
  BY NextStep
<1>3. IInv /\ NextIsCurrent /\ [Next]_vars => [Store!Next]_<<row, associations, history>>
  <2>1. ASSUME IInv, NEW c \in Clients
        PROVE  next[c] \in FirstNumbers
    BY <2>1 DEF IInv, TypeOK
  <2> QED
    BY <2>1, StoreStep
<1> QED
  BY Invariant, <1>1, <1>2, <1>3, PTL DEF Spec, ImplementsStore, Store!Spec

-----------------------------------------------------------------------------
(* Where nobody deletes.                                                    *)

\* What clients know of a saga nobody deletes: it was there when they loaded it,
\* and has since completed at least the steps it had; what they make of it ends
\* it only with the steps they saw; and the first save completes nothing.
SeenProgress ==
  \A c \in Clients :
    /\ pc[c] # "delete"
    /\ base[c] # NoRow =>
         row # NoRow /\ CompletedSteps(base[c].row) \subseteq CompletedSteps(row)
    /\ (incoming[c] # NoRow /\ row = NoRow) =>
         Active(incoming[c]) /\ CompletedSteps(incoming[c].row) = {}
    /\ (incoming[c] # NoRow /\ ~ Active(incoming[c])) =>
         CompletedSteps(incoming[c].row) \subseteq CompletedSteps(row)

\* A transaction that found no row, and would find none now, has read 0.
FirstIsZero ==
  \A c \in Clients :
    (pc[c] \in Numbered /\ previous[c] = NoRow /\ row = NoRow) => next[c] = 0

\* A saga that nobody deletes stays, and completes more and more steps.
LEMMA RowStays ==
  ASSUME IInv, SeenProgress, [Next]_vars
  PROVE  row # NoRow => /\ row' # NoRow
                        /\ CompletedSteps(row) \subseteq CompletedSteps(row')
<1> SUFFICES ASSUME row # NoRow
             PROVE  row' # NoRow /\ CompletedSteps(row) \subseteq CompletedSteps(row')
  OBVIOUS
<1>1. CASE UNCHANGED database
  BY <1>1 DEF database
<1>2. ASSUME NEW c \in Clients, pc[c] = "commit", Publish(c)
      PROVE  row' # NoRow /\ CompletedSteps(row) \subseteq CompletedSteps(row')
  <2>1. row' # NoRow /\ ForwardTransition(row, row')
    BY <1>2, PublishFacts
  <2> QED
    BY <2>1 DEF ForwardTransition, CompletedSteps
<1>3. UNCHANGED database \/ \E c \in Clients : pc[c] = "commit" /\ Publish(c)
  BY DEF SeenProgress, vars, database, local, Next, Statement, Caller, Fault,
      LockNothing, LockPrevious, RejectBackward,
      ReadNextSequenceNumber, UpsertInstance, RejectFirstSave, ReplaceAssociations,
      InsertHistory, Commit, Delete, Find, CallStart, CallTransition, CallEdit,
      SaveCall, CallDelete, Retry, GiveUp, FailStatement, LoseCommitAnswer, FailDelete, Rollback, Goto
<1> QED
  BY <1>1, <1>2, <1>3
\* Every step keeps what clients know of the saga.
LEMMA SeenStep ==
  ASSUME Deleters = {}, IInv, SeenProgress, [Next]_vars
  PROVE  SeenProgress'
<1> SUFFICES ASSUME NEW c \in Clients
    PROVE  /\ pc'[c] # "delete"
           /\ base'[c] # NoRow =>
                row' # NoRow /\ CompletedSteps(base'[c].row) \subseteq CompletedSteps(row')
           /\ (incoming'[c] # NoRow /\ row' = NoRow) =>
                Active(incoming'[c]) /\ CompletedSteps(incoming'[c].row) = {}
           /\ (incoming'[c] # NoRow /\ ~ Active(incoming'[c])) =>
                CompletedSteps(incoming'[c].row) \subseteq CompletedSteps(row')
  BY DEF SeenProgress, Active
<1>0. TypeOK
  BY DEF IInv
<1>1. row # NoRow => /\ row' # NoRow
                     /\ CompletedSteps(row) \subseteq CompletedSteps(row')
  BY RowStays
<1>2. ASSUME UNCHANGED <<base[c], incoming[c]>>
      PROVE  /\ base'[c] # NoRow =>
                  row' # NoRow /\ CompletedSteps(base'[c].row) \subseteq CompletedSteps(row')
             /\ (incoming'[c] # NoRow /\ row' = NoRow) =>
                  Active(incoming'[c]) /\ CompletedSteps(incoming'[c].row) = {}
             /\ (incoming'[c] # NoRow /\ ~ Active(incoming'[c])) =>
                  CompletedSteps(incoming'[c].row) \subseteq CompletedSteps(row')
  <2>1. (incoming[c] # NoRow /\ ~ Active(incoming[c])) => row # NoRow
    BY DEF SeenProgress
  <2> QED
    BY <1>1, <1>2, <2>1 DEF SeenProgress, Active
<1>3. CASE UNCHANGED vars
  BY <1>2, <1>3 DEF vars, local, SeenProgress
<1>4. ASSUME NEW d \in Clients, d # c, Statement(d) \/ Caller(d) \/ Fault(d)
      PROVE  UNCHANGED <<pc[c], base[c], incoming[c]>>
  BY <1>0, <1>4, OtherClient
<1>5. CASE Find(c)
  <2>1. /\ base'[c].row = row /\ row # NoRow /\ UNCHANGED <<pc, row, incoming>>
    BY <1>0, <1>5 DEF Find, TypeOK, database
  <2> QED
    BY <2>1 DEF SeenProgress
<1>6. CASE CallStart(c)
  <2>1. PICK state \in States, set \in AssociationSets : SaveCall(c, Started(state, set))
    BY <1>6 DEF CallStart
  <2>2. /\ incoming'[c] = Started(state, set) /\ pc'[c] # "delete"
        /\ UNCHANGED <<row, base>>
    BY <1>0, <2>1 DEF SaveCall, TypeOK, Goto, database
  <2>3. Active(Started(state, set)) /\ CompletedSteps(Started(state, set).row) = {}
    BY DEF Started, Active, IsTerminal, TerminalStatuses, CompletedSteps
  <2> QED
    BY <2>2, <2>3 DEF SeenProgress
<1>7. ASSUME base[c] # NoRow, NEW t \in Instances, SaveCall(c, t),
             (Active(base[c]) /\ t \in Transitions(base[c])) \/ t \in Edits(base[c])
      PROVE  /\ pc'[c] # "delete" /\ UNCHANGED <<row, base>> /\ incoming'[c] = t
             /\ row # NoRow
             /\ ~ Active(t) => CompletedSteps(t.row) \subseteq CompletedSteps(row)
  <2>1. /\ base[c] \in Instances /\ row # NoRow
        /\ CompletedSteps(base[c].row) \subseteq CompletedSteps(row)
    BY <1>0, <1>7 DEF TypeOK, SeenProgress
  <2>2. pc'[c] # "delete" /\ UNCHANGED <<row, base>> /\ incoming'[c] = t
    BY <1>0, <1>7 DEF SaveCall, TypeOK, Goto, database
  <2>3. ~ Active(t) => CompletedSteps(t.row) = CompletedSteps(base[c].row)
    BY <1>7, <2>1, TransitionSteps
  <2> QED
    BY <2>1, <2>2, <2>3
<1>8. CASE CallTransition(c)
  <2>1. base[c] # NoRow /\ base[c] \in Instances /\ Active(base[c])
    BY <1>0, <1>8 DEF CallTransition, TypeOK
  <2>2. PICK t \in Instances : t \in Transitions(base[c]) /\ SaveCall(c, t)
    BY <1>8, <2>1, TransitionsType DEF CallTransition
  <2> QED
    BY <1>7, <2>1, <2>2 DEF SeenProgress
<1>9. CASE CallEdit(c)
  <2>1. base[c] # NoRow /\ base[c] \in Instances
    BY <1>0, <1>9 DEF CallEdit, TypeOK
  <2>2. PICK t \in Instances : t \in Edits(base[c]) /\ SaveCall(c, t)
    BY <1>9, <2>1, EditsType DEF CallEdit
  <2> QED
    BY <1>7, <2>1, <2>2 DEF SeenProgress
<1>10. CASE Forget(c) /\ pc'[c] = "idle"
  BY <1>0, <1>10 DEF Forget, TypeOK
<1>11. ASSUME Statement(c) \/ Caller(c) \/ Fault(c),
              ~ Find(c), ~ CallStart(c), ~ CallTransition(c), ~ CallEdit(c)
       PROVE  \/ UNCHANGED <<base[c], incoming[c]>> /\ pc'[c] # "delete"
              \/ Forget(c) /\ pc'[c] = "idle"
  <2> USE <1>0, <1>11 DEF TypeOK, Goto, database, local, Rollback
  <2>1. CASE Statement(c)
    BY <2>1 DEF Statement, LockNothing, LockPrevious, RejectBackward,
      ReadNextSequenceNumber, UpsertInstance, RejectFirstSave, ReplaceAssociations, InsertHistory,
      Commit, Delete
  <2>2. CASE Caller(c)
    BY <2>2, ClientsAssumption DEF Caller, CallDelete, Retry, GiveUp
  <2>3. CASE Fault(c)
    BY <2>3 DEF Fault, FailStatement, LoseCommitAnswer, FailDelete
  <2> QED
    BY <2>1, <2>2, <2>3
<1> QED
  <2>1. ASSUME Statement(c) \/ Caller(c) \/ Fault(c)
        PROVE  \/ Find(c) \/ CallStart(c) \/ CallTransition(c) \/ CallEdit(c)
               \/ Forget(c) /\ pc'[c] = "idle"
               \/ UNCHANGED <<base[c], incoming[c]>> /\ pc'[c] # "delete"
    BY <1>11, <2>1
  <2>2. ASSUME UNCHANGED <<pc[c], base[c], incoming[c]>>
        PROVE  UNCHANGED <<base[c], incoming[c]>> /\ pc'[c] # "delete"
    BY <2>2 DEF SeenProgress
  <2> QED
    BY <1>2, <1>3, <1>4, <1>5, <1>6, <1>8, <1>9, <1>10, <2>1, <2>2 DEF Next
\* Every step keeps the number of a first save at 0.
LEMMA FirstStep ==
  ASSUME IInv, SeenProgress, FirstIsZero, [Next]_vars
  PROVE  FirstIsZero'
<1> SUFFICES ASSUME NEW c \in Clients, pc'[c] \in Numbered, previous'[c] = NoRow, row' = NoRow
             PROVE  next'[c] = 0
  BY DEF FirstIsZero, Numbered, Writing
<1>0. TypeOK
  BY DEF IInv
<1>1. row = NoRow /\ history = {}
  BY RowStays DEF IInv, RowsBelongTogether
<1>2. CASE UNCHANGED vars
  BY <1>2 DEF vars, local, database, FirstIsZero
<1>3. CASE Statement(c) \/ Caller(c) \/ Fault(c)
  BY <1>0, <1>1, <1>3, NumberedStep DEF FirstIsZero, NextSequenceNumber
<1>4. ASSUME NEW d \in Clients, d # c, Statement(d) \/ Caller(d) \/ Fault(d)
      PROVE  next'[c] = 0
  BY <1>0, <1>1, <1>4, OtherClient DEF FirstIsZero
<1> QED
  BY <1>2, <1>3, <1>4 DEF Next

\* A committed saga's history is numbered from 0 without a gap and is never
\* empty: CREATED comes first, a terminal row last, and the steps in it are the
\* row's completed steps.
Gapless(m) ==
  /\ {e.seq : e \in history} = 0 .. m - 1
  /\ \A e \in history :
       /\ e.kind = "CREATED" <=> e.seq = 0
       /\ IsTerminal(e.kind) => e.seq = m - 1
  /\ {e.step : e \in StepEntriesOf(history)} = CompletedSteps(row)

HistoryIsGapless == row # NoRow => \E m \in Nat \ {0} : Gapless(m)

\* After the numbers 0 .. m - 1 comes m.
LEMMA NextOfGapless ==
  ASSUME TypeOK, NEW m \in Nat \ {0}, Gapless(m)
  PROVE  NextSequenceNumber(history) = m
<1> DEFINE Numbers == {e.seq : e \in history}
<1>1. Numbers = 0 .. m - 1
  BY DEF Gapless
<1>2. history # {}
  BY <1>1
<1>3. NextSequenceNumber(history) = Max(Numbers) + 1
  BY <1>2 DEF NextSequenceNumber
<1> HIDE DEF Numbers
<1>4. Numbers \in SUBSET Nat /\ Numbers # {} /\ m - 1 \in Numbers /\ m - 1 \in Nat
  <2>1. m - 1 \in 0 .. m - 1 /\ m - 1 \in Nat
    OBVIOUS
  <2>2. \A x \in 0 .. m - 1 : x \in Nat
    OBVIOUS
  <2> QED
    BY <1>1, <2>1, <2>2
<1>5. Max(Numbers) \in Numbers /\ \A x \in Numbers : Max(Numbers) >= x
  <2>1. \A x \in Numbers : x =< m - 1
    BY <1>1
  <2> QED
    BY <1>4, <2>1, MaxOfBounded
<1> QED
  BY <1>1, <1>3, <1>4, <1>5

\* The first save of a saga nobody deletes records its creation as number 0.
LEMMA FirstPublish ==
  ASSUME IInv, SeenProgress, FirstIsZero, NEW c \in Clients, pc[c] = "commit", Publish(c),
         row = NoRow
  PROVE  Gapless(1)'
<1>1. /\ previous[c] = NoRow /\ incoming[c] \in Instances /\ incoming[c] # NoRow
      /\ row' = incoming[c].row
      /\ history' = history \cup Derive(row, incoming[c].row, next[c])
  BY PublishFacts, NoRowAssumption
<1>2. history = {} /\ next[c] = 0
  BY <1>1 DEF IInv, RowsBelongTogether, FirstIsZero, Numbered, Writing
<1>3. Active(incoming[c]) /\ CompletedSteps(row') = {}
  BY <1>1 DEF SeenProgress
<1>4. history' = {CreatedEntry(0)}
  BY <1>1, <1>2, <1>3 DEF Derive, Active
<1>5. CreatedEntry(0).seq = 0 /\ CreatedEntry(0).kind = "CREATED"
  BY DEF CreatedEntry
<1>6. StepEntriesOf(history') = {}
  BY <1>4, <1>5 DEF StepEntriesOf
<1>7. {e.seq : e \in history'} = 0 .. 1 - 1
  BY <1>4, <1>5
<1> QED
  BY <1>3, <1>4, <1>5, <1>6, <1>7 DEF Gapless, IsTerminal, TerminalStatuses

\* What a save appends to the history of an ended saga that nobody deletes is
\* nothing.
LEMMA EndedPublish ==
  ASSUME IInv, SeenProgress, NEW c \in Clients, pc[c] = "commit", Publish(c),
         row # NoRow, IsTerminal(row.status)
  PROVE  history' = history /\ CompletedSteps(row') = CompletedSteps(row)
<1>1. /\ incoming[c] \in Instances /\ incoming[c] # NoRow
      /\ ForwardTransition(row, incoming[c].row)
      /\ row' = incoming[c].row
      /\ history' = history \cup Derive(row, incoming[c].row, next[c])
  BY PublishFacts, NoRowAssumption
<1>2. incoming[c].row.status = row.status
  BY <1>1 DEF ForwardTransition
<1>3. CompletedSteps(incoming[c].row) \subseteq CompletedSteps(row)
  BY <1>1, <1>2 DEF SeenProgress, Active
<1>4. CompletedSteps(row) \subseteq CompletedSteps(incoming[c].row)
  BY <1>1 DEF ForwardTransition, CompletedSteps
<1>5. NewlyCompletedSteps(row, incoming[c].row) = {}
  BY <1>3 DEF NewlyCompletedSteps
<1>6. Derive(row, incoming[c].row, next[c]) = {}
  BY <1>2, <1>5 DEF Derive, StepEntries
<1> QED
  BY <1>1, <1>3, <1>4, <1>6

\* A later save of a saga that has not ended goes on from the last number.
LEMMA LaterPublish ==
  ASSUME IInv, NextIsCurrent, HistoryAgreesWithRow, NEW c \in Clients, pc[c] = "commit", Publish(c),
         row # NoRow, ~ IsTerminal(row.status), NEW m \in Nat \ {0}, Gapless(m)
  PROVE  \E n \in Nat \ {0} : Gapless(n)'
<1> DEFINE T    == NewlyCompletedSteps(row, row')
           New  == Derive(row, row', m)
           Ends == IsTerminal(row'.status) /\ row'.status # row.status
           k    == Cardinality(T)
<1>1. /\ previous[c] = row /\ row \in Rows /\ row' \in Rows
      /\ ForwardTransition(row, row')
      /\ history' = history \cup Derive(row, row', next[c])
  BY PublishFacts DEF IInv, TypeOK, Instances
<1>2. next[c] = m
  BY <1>1, NextOfGapless DEF IInv, NextIsCurrent, Numbered, Writing
<1>3. history' = history \cup New
  BY <1>1, <1>2
<1>4. /\ k \in Nat
      /\ Ends => {e.seq : e \in New} = m .. m + k
      /\ ~ Ends => {e.seq : e \in New} = m .. m + k - 1
      /\ \A e \in New : IsTerminal(e.kind) => e.seq = m + k
      /\ \A s \in T : \E e \in New : e.kind = "STEP_COMPLETED" /\ e.step = s
  BY <1>1, DeriveNumbers
<1>5. \A e \in New : /\ e.kind # "CREATED"
                     /\ e.kind = "STEP_COMPLETED" => e.step \in T
                     /\ IsTerminal(e.kind) => Ends
  BY <1>1, DeriveFacts
<1>6. \A e \in history : ~ IsTerminal(e.kind)
  BY DEF HistoryAgreesWithRow, TerminalEntriesOf
<1>7. CompletedSteps(row') = CompletedSteps(row) \cup T
  BY <1>1 DEF NewlyCompletedSteps, ForwardTransition, CompletedSteps
<1> HIDE DEF T, New, Ends, k
<1>8. PICK n \in Nat :
                      /\ m =< n
                      /\ \A e \in New : e.seq \in m .. n - 1
                      /\ \A x \in m .. n - 1 : \E e \in New : e.seq = x
                      /\ Ends => n = m + k + 1
  <2>0. PICK n \in Nat : /\ Ends => n = m + k + 1
                         /\ ~ Ends => n = m + k
    <3>1. m + k \in Nat /\ m + k + 1 \in Nat
      BY <1>4
    <3>2. CASE Ends
      BY <3>1, <3>2, Zenon
    <3>3. CASE ~ Ends
      BY <3>1, <3>3, Zenon
    <3> QED
      BY <3>2, <3>3
  <2>1. m =< n
    BY <1>4, <2>0
  <2>2. m .. n - 1 = IF Ends THEN m .. m + k ELSE m .. m + k - 1
    BY <1>4, <2>0
  <2>3. {e.seq : e \in New} = m .. n - 1
    BY <1>4, <2>2
  <2>4. /\ \A e \in New : e.seq \in m .. n - 1
        /\ \A x \in m .. n - 1 : \E e \in New : e.seq = x
    BY <2>3
  <2> QED
    BY <2>0, <2>1, <2>4
<1>9. {e.seq : e \in history'} = 0 .. n - 1
  <2>1. {e.seq : e \in history} = 0 .. m - 1
    BY DEF Gapless
  <2>2. ASSUME NEW e \in history'
        PROVE  e.seq \in 0 .. n - 1
    <3>1. CASE e \in history
      <4>1. e.seq \in 0 .. m - 1
        BY <2>1, <3>1
      <4> QED
        BY <1>8, <4>1
    <3>2. CASE e \in New
      <4>1. e.seq \in m .. n - 1
        BY <1>8, <3>2
      <4> QED
        BY <1>8, <4>1
    <3> QED
      BY <1>3, <3>1, <3>2
  <2>3. ASSUME NEW x \in 0 .. n - 1
        PROVE  \E e \in history' : e.seq = x
    <3>1. CASE x \in 0 .. m - 1
      BY <1>3, <2>1, <3>1
    <3>2. CASE x \in m .. n - 1
      BY <1>3, <1>8, <3>2
    <3> QED
      BY <1>8, <3>1, <3>2
  <2> QED
    BY <2>2, <2>3
<1>10. \A e \in history' : /\ e.kind = "CREATED" <=> e.seq = 0
                           /\ IsTerminal(e.kind) => e.seq = n - 1
  <2>1. ASSUME NEW e \in New
        PROVE  e.seq # 0 /\ (IsTerminal(e.kind) => e.seq = n - 1)
    <3>1. e.seq \in m .. n - 1 /\ (Ends => n = m + k + 1)
      BY <1>8
    <3> QED
      BY <1>4, <1>5, <3>1
  <2>2. ASSUME NEW e \in history
        PROVE  (e.kind = "CREATED" <=> e.seq = 0) /\ ~ IsTerminal(e.kind)
    BY <1>6 DEF Gapless
  <2> QED
    BY <1>3, <1>5, <2>1, <2>2
<1>11. {e.step : e \in StepEntriesOf(history')} = CompletedSteps(row')
  <2>1. \A e \in history : e.kind = "STEP_COMPLETED" => e.step \in CompletedSteps(row)
    BY DEF Gapless, StepEntriesOf
  <2>2. \A s \in CompletedSteps(row) : \E e \in history : e.kind = "STEP_COMPLETED" /\ e.step = s
    BY DEF Gapless, StepEntriesOf
  <2> QED
    BY <1>3, <1>4, <1>5, <1>7, <2>1, <2>2 DEF StepEntriesOf
<1>12. Gapless(n)'
  BY <1>9, <1>10, <1>11 DEF Gapless
<1>13. n \in Nat \ {0}
  BY <1>8
<1> QED
  BY <1>12, <1>13

\* Every step keeps the history of a saga nobody deletes without a gap.
LEMMA GaplessStep ==
  ASSUME IInv, NextIsCurrent, SeenProgress, FirstIsZero, HistoryAgreesWithRow,
         HistoryIsGapless, [Next]_vars
  PROVE  HistoryIsGapless'
<1>1. CASE UNCHANGED database
  BY <1>1 DEF HistoryIsGapless, Gapless, database
<1>2. CASE row' = NoRow
  BY <1>2 DEF HistoryIsGapless
<1>3. ASSUME NEW c \in Clients, pc[c] = "commit", Publish(c)
      PROVE  HistoryIsGapless'
  <2>1. CASE row = NoRow
    <3>1. Gapless(1)'
      BY <1>3, <2>1, FirstPublish
    <3>2. 1 \in Nat \ {0}
      OBVIOUS
    <3> QED
      BY <3>1, <3>2 DEF HistoryIsGapless
  <2>2. CASE row # NoRow
    <3>1. PICK m \in Nat \ {0} : Gapless(m)
      BY <2>2 DEF HistoryIsGapless
    <3>2. CASE IsTerminal(row.status)
      <4>1. history' = history /\ CompletedSteps(row') = CompletedSteps(row)
        BY <1>3, <2>2, <3>2, EndedPublish
      <4>2. Gapless(m)'
        BY <3>1, <4>1 DEF Gapless
      <4> QED
        BY <4>2 DEF HistoryIsGapless
    <3>3. CASE ~ IsTerminal(row.status)
      BY <1>3, <2>2, <3>1, <3>3, LaterPublish DEF HistoryIsGapless
    <3> QED
      BY <3>2, <3>3
  <2> QED
    BY <2>1, <2>2
<1> QED
  BY <1>1, <1>2, <1>3, DatabaseStep

\* A history without a gap and without duplicates has as many rows as numbers.
LEMMA GaplessSize ==
  ASSUME NEW m \in Nat \ {0}, Gapless(m), NoDuplicateEntries
  PROVE  Cardinality(history) = m
<1> DEFINE f == [e \in history |-> e.seq]
<1>1. {e.seq : e \in history} = 0 .. m - 1
  BY DEF Gapless
<1>2. IsFiniteSet(0 .. m - 1) /\ Cardinality(0 .. m - 1) = m
  <2>1. 0 \in Int /\ m - 1 \in Int /\ ~ (0 > m - 1)
    OBVIOUS
  <2> QED
    BY <2>1, FS_Interval
<1>3. f \in [history -> 0 .. m - 1] /\ \A a, b \in history : f[a] = f[b] => a = b
  BY <1>1 DEF NoDuplicateEntries
<1>4. \A t \in 0 .. m - 1 : \E e \in history : f[e] = t
  BY <1>1
<1> HIDE DEF f
<1>5. f \in Injection(history, 0 .. m - 1)
  BY <1>3 DEF Injection, IsInjective
<1>6. f \in Surjection(history, 0 .. m - 1)
  BY <1>3, <1>4 DEF Surjection
<1> QED
  BY <1>2, <1>5, <1>6, FS_Injection

\* What holds of a saga nobody deletes, beside the invariants above.
NoDeletesInv == NextIsCurrent /\ SeenProgress /\ FirstIsZero /\ HistoryIsGapless

\* It holds in every state of every behaviour without deletes.
THEOREM WithoutDeletes ==
  ASSUME Deleters = {}
  PROVE  Spec => []NoDeletesInv
<1>1. Init => NoDeletesInv
  BY DEF Init, NoDeletesInv, NextIsCurrent, SeenProgress, FirstIsZero, HistoryIsGapless, Numbered, Writing
<1>2. IInv /\ HistoryAgreesWithRow /\ NoDeletesInv /\ [Next]_vars => NoDeletesInv'
  BY NextStep, SeenStep, FirstStep, GaplessStep DEF NoDeletesInv
<1> QED
  BY Invariant, Agreement, <1>1, <1>2, PTL DEF Spec

\* Where nobody deletes, the history reconstructs the row (spec.md FR-007,
\* SC-003): however saves race, fail or are retried it is numbered from 0
\* without a gap, begins with CREATED, ends with the terminal row and names
\* exactly the completed steps.
THEOREM Reconstruction ==
  ASSUME Deleters = {}
  PROVE  Spec => []HistoryReconstructsRow
<1>1. NoDeletesInv /\ NoDuplicateEntries => HistoryReconstructsRow
  <2> SUFFICES ASSUME NoDeletesInv, NoDuplicateEntries, row # NoRow
               PROVE  HistoryReconstructsRow
    BY DEF HistoryReconstructsRow
  <2>1. PICK m \in Nat \ {0} : Gapless(m)
    BY DEF NoDeletesInv, HistoryIsGapless
  <2>2. Cardinality(history) = m
    BY <2>1, GaplessSize
  <2> QED
    BY <2>1, <2>2 DEF HistoryReconstructsRow, Gapless
<1> QED
  BY WithoutDeletes, NoDuplicates, <1>1, PTL

\* Where nobody deletes, save implements SagaStore with histories that begin
\* with the number 0 (LifecycleHistoryDerivation, data-model.md:131).
THEOREM ImplementsFromZero ==
  ASSUME Deleters = {}, FirstNumbers = {0}
  PROVE  Spec => ImplementsStore
<1>1. Init => Store!Init
  BY DEF Init, Store!Init
<1>2. IInv /\ NoDeletesInv /\ [Next]_vars => [Store!Next]_<<row, associations, history>>
  <2> SUFFICES ASSUME IInv, NoDeletesInv, [Next]_vars
               PROVE  [Store!Next]_<<row, associations, history>>
    OBVIOUS
  <2>1. ASSUME NEW c \in Clients, pc[c] = "commit", row = NoRow
        PROVE  next[c] \in FirstNumbers
    BY <2>1 DEF IInv, LockDiscipline, NoDeletesInv, FirstIsZero, Numbered, Writing
  <2> QED
    BY <2>1, StoreStep DEF NoDeletesInv
<1> QED
  BY Invariant, WithoutDeletes, <1>1, <1>2, PTL DEF Spec, ImplementsStore, Store!Spec
=============================================================================
