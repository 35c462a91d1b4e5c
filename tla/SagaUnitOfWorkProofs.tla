------------------------ MODULE SagaUnitOfWorkProofs ------------------------
(***************************************************************************)
(* Safety of the engine of SagaUnitOfWork, for any saga types, steps,      *)
(* storages and bounds.                                                    *)
(*                                                                         *)
(* The inductive invariant is EngineInv: the saga of the unit that runs is *)
(* as the unit found it but for its own steps, and what the loops on the   *)
(* stack have yet to visit is stored.  Outside of a unit nothing is in     *)
(* flight, so the steps that end one are the only ones AtomicUnits sees.   *)
(***************************************************************************)
EXTENDS SagaUnitOfWork, SequenceTheorems, FiniteSetTheorems, WellFoundedInduction, TLAPS

-----------------------------------------------------------------------------
(* Facts about the operators of the community modules.                      *)

\* A set of natural numbers has a least one.
LEMMA LeastElement ==
  ASSUME NEW T, T \subseteq Nat, T # {}
  PROVE  \E n \in T : \A m \in T : n <= m
<1> DEFINE R == OpToRel(<, Nat)
<1>1. IsWellFoundedOn(R, Nat)
  BY NatLessThanWellFounded
<1>2. \A m, n \in Nat : m < n => <<m, n>> \in R
  BY DEF OpToRel
<1> HIDE DEF R
<1>3. PICK x \in T : \A y \in T : ~ (<<y, x>> \in R)
  BY <1>1, WFMin
<1>4. ASSUME NEW y \in T PROVE x <= y
  <2>1. x \in Nat /\ y \in Nat /\ ~ (y < x)
    BY <1>2, <1>3
  <2> QED
    BY <2>1
<1> QED
  BY <1>4

\* Min is an element.
LEMMA MinIsIn ==
  ASSUME NEW T, T \subseteq Nat, T # {}
  PROVE  Min(T) \in T
BY LeastElement DEF Min

\* A set that contains 1 and with a number below n the next one goes up to n.
LEMMA UpTo ==
  ASSUME NEW n \in Nat, NEW T, n # 0 => 1 \in T,
         \A i \in 1 .. n - 1 : i \in T => i + 1 \in T
  PROVE  1 .. n \subseteq T
<1> DEFINE missing == (1 .. n) \ T
<1>1. SUFFICES ASSUME missing # {} PROVE FALSE
  OBVIOUS
<1>2. missing \subseteq Nat
  OBVIOUS
<1> HIDE DEF missing
<1>3. PICK i \in missing : \A j \in missing : i <= j
  BY <1>1, <1>2, LeastElement
<1>4. i \in 1 .. n /\ i \notin T /\ i # 1 /\ i - 1 \in 1 .. n - 1
  BY <1>3 DEF missing
<1>5. i - 1 \notin missing
  BY <1>3, <1>4, <1>2
<1>6. i - 1 \in T /\ (i - 1) + 1 = i
  BY <1>4, <1>5 DEF missing
<1> QED
  BY <1>4, <1>6

\* A finite set as a sequence of its elements, each once.
LEMMA SetToSeqIsSeq ==
  ASSUME NEW T, IsFiniteSet(T)
  PROVE  SetToSeq(T) \in Seq(T) /\ Len(SetToSeq(T)) = Cardinality(T)
<1>1. Cardinality(T) \in Nat /\ ExistsBijection(1 .. Cardinality(T), T)
  BY FS_CardinalityType
<1>2. \E f \in [1 .. Cardinality(T) -> T] : IsInjective(f)
  BY <1>1 DEF ExistsBijection, Bijection, Injection, IsInjective
<1>3. SetToSeq(T) \in [1 .. Cardinality(T) -> T]
  BY <1>2 DEF SetToSeq
<1> QED
  BY <1>1, <1>3

\* A sequence over a set is one over any larger set.
LEMMA SeqWider ==
  ASSUME NEW S, NEW T, S \subseteq T, NEW s \in Seq(S)
  PROVE  s \in Seq(T) /\ \A i \in DOMAIN s : s[i] \in S
<1>1. Len(s) \in Nat /\ s \in [1 .. Len(s) -> S] /\ DOMAIN s = 1 .. Len(s)
  OBVIOUS
<1>2. s \in [1 .. Len(s) -> T]
  BY <1>1
<1> QED
  BY <1>1, <1>2

\* Joining sequences.
LEMMA Joins ==
  ASSUME NEW S, NEW x \in Seq(S), NEW a \in Seq(S), NEW b \in Seq(S)
  PROVE  a \o b \in Seq(S) /\ (x \o a) \o b = x \o (a \o b)
<1>1. a \o b \in Seq(S)
  OBVIOUS
<1>2. (x \o a) \o b = x \o (a \o b)
  OBVIOUS
<1> QED
  BY <1>1, <1>2

\* The recursive function FlattenSeq is made of.
Flatten(seqs, f) ==
  f = [i \in 1 .. Len(seqs) |-> IF i = 1 THEN seqs[i] ELSE f[i - 1] \o seqs[i]]

\* Each of its values adds one sequence to the value before.
LEMMA FlattenUnfolds ==
  ASSUME NEW seqs, Len(seqs) \in Nat \ {0}, NEW f, Flatten(seqs, f)
  PROVE  f[1] = seqs[1] /\ \A i \in 1 .. Len(seqs) - 1 : f[i + 1] = f[i] \o seqs[i + 1]
<1>1. \A j \in 1 .. Len(seqs) : f[j] = IF j = 1 THEN seqs[j] ELSE f[j - 1] \o seqs[j]
  BY DEF Flatten
<1>2. f[1] = seqs[1]
  BY <1>1
<1>3. ASSUME NEW i \in 1 .. Len(seqs) - 1 PROVE f[i + 1] = f[i] \o seqs[i + 1]
  <2>1. i + 1 \in 1 .. Len(seqs) /\ i + 1 # 1 /\ (i + 1) - 1 = i
    OBVIOUS
  <2> QED
    BY <1>1, <2>1
<1> QED
  BY <1>2, <1>3

\* The function exists, takes sequences as values, and its last value is FlattenSeq.
LEMMA FlattenRecursion ==
  ASSUME NEW S, NEW seqs \in Seq(Seq(S)), Len(seqs) # 0
  PROVE  \E f \in [1 .. Len(seqs) -> Seq(S)] : Flatten(seqs, f) /\ FlattenSeq(seqs) = f[Len(seqs)]
<1> DEFINE n == Len(seqs)
           Def(v, i) == v \o seqs[i]
           f == CHOOSE g : g = [i \in 1 .. n |-> IF i = 1 THEN seqs[i] ELSE g[i - 1] \o seqs[i]]
           h == CHOOSE g : g = [i \in 1 .. n |-> IF i = 1 THEN seqs[1] ELSE g[i - 1] \o seqs[i]]
<1>1. n \in Nat /\ 1 \in Nat /\ seqs[1] \in Seq(S)
  OBVIOUS
<1>2. \A g : [i \in 1 .. n |-> IF i = 1 THEN seqs[i] ELSE g[i - 1] \o seqs[i]]
              = [i \in 1 .. n |-> IF i = 1 THEN seqs[1] ELSE g[i - 1] \o seqs[i]]
  OBVIOUS
<1>3. f = h
  BY <1>2
<1>4. FlattenSeq(seqs) = f[n]
  BY DEF FlattenSeq
<1>5. FiniteNatInductiveDefHypothesis(h, seqs[1], Def, 1, n)
  BY DEF FiniteNatInductiveDefHypothesis
<1>6. \A v \in Seq(S), i \in 2 .. n : Def(v, i) \in Seq(S)
  OBVIOUS
<1> HIDE DEF Def, f, h, n
<1>7. FiniteNatInductiveDefConclusion(h, seqs[1], Def, 1, n)
  BY <1>1, <1>5, FiniteNatInductiveDef
<1>8. h = [i \in 1 .. n |-> IF i = 1 THEN seqs[1] ELSE h[i - 1] \o seqs[i]]
  BY <1>7 DEF FiniteNatInductiveDefConclusion, Def
<1>9. h \in [1 .. n -> Seq(S)]
  <2> DEFINE T == {i \in 1 .. n : h[i] \in Seq(S)}
  <2>1. Flatten(seqs, h)
    BY <1>2, <1>8 DEF Flatten, n
  <2>2. h[1] = seqs[1] /\ \A i \in 1 .. n - 1 : h[i + 1] = h[i] \o seqs[i + 1]
    BY <2>1, <1>1, FlattenUnfolds DEF n
  <2>3. 1 \in T
    BY <1>1, <2>2 DEF n
  <2>4. ASSUME NEW i \in 1 .. n - 1, i \in T PROVE i + 1 \in T
    <3>1. i + 1 \in 1 .. n /\ seqs[i + 1] \in Seq(S)
      BY <1>1 DEF n
    <3>2. h[i] \in Seq(S) /\ h[i + 1] = h[i] \o seqs[i + 1]
      BY <2>2, <2>4
    <3>3. h[i] \o seqs[i + 1] \in Seq(S)
      BY <3>1, <3>2, Joins
    <3> QED
      BY <3>1, <3>2, <3>3
  <2>5. 1 .. n \subseteq T
    <3> HIDE DEF T
    <3> QED
      BY <1>1, <2>3, <2>4, UpTo
  <2> QED
    BY <1>8, <2>5
<1> QED
  BY <1>2, <1>3, <1>4, <1>8, <1>9 DEF Flatten, n

\* No sequences, no elements.
LEMMA FlattenNothing == FlattenSeq(<<>>) = <<>>
BY DEF FlattenSeq

\* Flattening is a sequence of the elements.
LEMMA FlattenType ==
  ASSUME NEW S, NEW seqs \in Seq(Seq(S))
  PROVE  FlattenSeq(seqs) \in Seq(S)
<1>1. CASE Len(seqs) = 0
  <2>1. seqs = <<>> /\ <<>> \in Seq(S)
    BY <1>1
  <2> QED
    BY <2>1, FlattenNothing
<1>2. CASE Len(seqs) # 0
  <2>1. PICK f \in [1 .. Len(seqs) -> Seq(S)] : FlattenSeq(seqs) = f[Len(seqs)]
    BY <1>2, FlattenRecursion
  <2>2. Len(seqs) \in 1 .. Len(seqs)
    BY <1>2
  <2> QED
    BY <2>1, <2>2
<1> QED
  BY <1>1, <1>2

\* What is put in front comes out in front.
LEMMA FlattenFront ==
  ASSUME NEW S, NEW x \in Seq(S), NEW seqs \in Seq(Seq(S))
  PROVE  FlattenSeq(<<x>> \o seqs) = x \o FlattenSeq(seqs)
<1> DEFINE all == <<x>> \o seqs
           n == Len(seqs)
<1>0. \A a, b \in Seq(S) : (x \o a) \o b = x \o (a \o b)
  <2> TAKE a, b \in Seq(S)
  <2> QED
    OBVIOUS
<1>1. /\ all \in Seq(Seq(S)) /\ Len(all) = n + 1 /\ n \in Nat
      /\ all[1] = x /\ \A i \in 1 .. n : all[i + 1] = seqs[i]
  OBVIOUS
<1> HIDE DEF all
<1>2. PICK g \in [1 .. Len(all) -> Seq(S)] : Flatten(all, g) /\ FlattenSeq(all) = g[Len(all)]
  BY <1>1, FlattenRecursion
<1>3. g[1] = x /\ \A i \in 1 .. n : g[i + 1] = g[i] \o seqs[i]
  <2>1. Len(all) \in Nat \ {0} /\ Len(all) - 1 = n
    BY <1>1
  <2>2. g[1] = all[1] /\ \A i \in 1 .. Len(all) - 1 : g[i + 1] = g[i] \o all[i + 1]
    BY <1>2, <2>1, FlattenUnfolds
  <2> QED
    BY <1>1, <2>1, <2>2
<1>4. CASE n = 0
  <2>1. seqs = <<>>
    BY <1>4
  <2> QED
    BY <1>1, <1>2, <1>3, <1>4, <2>1, FlattenNothing DEF all
<1>5. CASE n # 0
  <2>1. PICK f \in [1 .. n -> Seq(S)] : Flatten(seqs, f) /\ FlattenSeq(seqs) = f[n]
    BY <1>5, FlattenRecursion
  <2>2. f[1] = seqs[1] /\ \A i \in 1 .. n - 1 : f[i + 1] = f[i] \o seqs[i + 1]
    BY <1>1, <1>5, <2>1, FlattenUnfolds
  <2> DEFINE T == {i \in 1 .. n : g[i + 1] = x \o f[i]}
  <2>3. 1 \in T
    <3>1. 1 \in 1 .. n
      BY <1>1, <1>5
    <3>2. g[1 + 1] = g[1] \o seqs[1]
      BY <1>3, <3>1
    <3> QED
      BY <1>3, <2>2, <3>1, <3>2
  <2>4. ASSUME NEW i \in 1 .. n - 1, i \in T PROVE i + 1 \in T
    <3>1. i + 1 \in 1 .. n /\ i \in 1 .. n
      BY <1>1
    <3>2. g[(i + 1) + 1] = g[i + 1] \o seqs[i + 1]
      BY <1>3, <3>1
    <3>3. g[i + 1] = x \o f[i]
      BY <2>4
    <3>4. (x \o f[i]) \o seqs[i + 1] = x \o (f[i] \o seqs[i + 1])
      <4>1. f[i] \in Seq(S)
        BY <2>1, <3>1
      <4>2. seqs[i + 1] \in Seq(S)
        BY <3>1
      <4> QED
        BY <4>1, <4>2, <1>0, Zenon
    <3> QED
      BY <2>2, <3>1, <3>2, <3>3, <3>4
  <2>5. n \in T
    <3>1. 1 .. n \subseteq T
      <4> HIDE DEF T
      <4> QED
        BY <1>1, <2>3, <2>4, UpTo
    <3>2. n \in 1 .. n
      BY <1>1, <1>5
    <3> QED
      BY <3>1, <3>2
  <2> QED
    BY <1>1, <1>2, <2>1, <2>5 DEF all
<1> QED
  BY <1>4, <1>5

-----------------------------------------------------------------------------
(* The transitions of SagaLifecycle on a stored instance that is active.    *)

\* a is b at another moment.
SameSaga(a, b) == a.type = b.type /\ a.associations = b.associations

\* The parts of a stored instance.
LEMMA StoredParts ==
  ASSUME NEW saga \in Stored
  PROVE  /\ saga.type \in Range(TypeOf) /\ saga.associations \in AssociationSets
         /\ saga.row \in Rows
         /\ saga.row \in [state : States, status : Statuses, steps : StepRecords,
                          outcome : Steps \cup {None}, failure : Failures \cup {None}]
         /\ (saga.row.status = "COMPLETED") <=> (saga.row.outcome # None)
         /\ (saga.row.status = "FAILED") <=> (saga.row.failure # None)
         /\ saga # NoSaga
BY NoSagaAssumption DEF Stored, Rows

\* A step of an instance is recorded.
LEMMA RecordedIsStored ==
  ASSUME NEW saga \in Stored, NEW step \in Steps, NEW touched \in TouchLists
  PROVE  /\ StepRecorded(saga, step, touched) \in Stored
         /\ StepRecorded(saga, step, touched).row.status = saga.row.status
         /\ SameSaga(StepRecorded(saga, step, touched), saga)
         /\ CompletedSteps(StepRecorded(saga, step, touched).row)
              = CompletedSteps(saga.row) \cup {step}
<1> DEFINE row == [saga.row EXCEPT !.steps[step] = touched]
           after == StepRecorded(saga, step, touched)
<1>1. after = [saga EXCEPT !.row = row]
  BY DEF StepRecorded
<1>2. /\ row \in [state : States, status : Statuses, steps : StepRecords,
                  outcome : Steps \cup {None}, failure : Failures \cup {None}]
      /\ row.status = saga.row.status /\ row.outcome = saga.row.outcome
      /\ row.failure = saga.row.failure
      /\ row.steps = [saga.row.steps EXCEPT ![step] = touched]
      /\ saga.row.steps \in StepRecords
  BY StoredParts DEF StepRecords
<1> HIDE DEF row
<1>3. row \in Rows
  BY <1>2, StoredParts DEF Rows
<1>4. after \in Stored /\ after.row = row /\ SameSaga(after, saga)
  BY <1>1, <1>3, StoredParts DEF Stored, SameSaga
<1>5. CompletedSteps(row) = CompletedSteps(saga.row) \cup {step}
  BY <1>2, NotRunAssumption DEF CompletedSteps, StepRecords
<1> QED
  BY <1>2, <1>4, <1>5

\* An active instance moves on, reaches its end or fails.
LEMMA ActiveRow ==
  ASSUME NEW saga \in Stored, Active(saga)
  PROVE  saga.row.outcome = None /\ saga.row.failure = None
BY StoredParts DEF Active, IsTerminal, TerminalStatuses

\* Waiting again: the status is RUNNING.
LEMMA AdvancedIsStored ==
  ASSUME NEW saga \in Stored, Active(saga)
  PROVE  /\ Advanced(saga) \in Stored /\ SameSaga(Advanced(saga), saga)
         /\ Advanced(saga).row = [saga.row EXCEPT !.status = "RUNNING"]
<1> DEFINE row == [saga.row EXCEPT !.status = "RUNNING"]
<1>1. Advanced(saga) = [saga EXCEPT !.row = row]
  BY DEF Advanced
<1>2. row \in Rows
  BY StoredParts, ActiveRow DEF Rows, Statuses
<1> HIDE DEF row
<1>3. /\ Advanced(saga) \in Stored /\ Advanced(saga).row = row
      /\ SameSaga(Advanced(saga), saga)
  BY <1>1, <1>2, StoredParts DEF Stored, SameSaga
<1> QED
  BY <1>3 DEF row

\* Reaching an end: the status is COMPLETED and step is the outcome.
LEMMA CompletedIsStored ==
  ASSUME NEW saga \in Stored, Active(saga), NEW step \in Steps
  PROVE  /\ Completed(saga, step) \in Stored /\ SameSaga(Completed(saga, step), saga)
         /\ Completed(saga, step).row = [saga.row EXCEPT !.status = "COMPLETED", !.outcome = step]
<1> DEFINE row == [saga.row EXCEPT !.status = "COMPLETED", !.outcome = step]
<1>1. Completed(saga, step) = [saga EXCEPT !.row = row]
  BY StoredParts DEF Completed, Stored
<1>2. row \in Rows
  BY StoredParts, ActiveRow, NoneAssumption DEF Rows, Statuses
<1> HIDE DEF row
<1>3. /\ Completed(saga, step) \in Stored /\ Completed(saga, step).row = row
      /\ SameSaga(Completed(saga, step), saga)
  BY <1>1, <1>2, StoredParts DEF Stored, SameSaga
<1> QED
  BY <1>3 DEF row

\* Failing: the status is FAILED and the failure is kept.
LEMMA FailedIsStored ==
  ASSUME NEW saga \in Stored, Active(saga), NEW failure \in Failures
  PROVE  /\ Failed(saga, failure) \in Stored /\ SameSaga(Failed(saga, failure), saga)
         /\ Failed(saga, failure).row = [saga.row EXCEPT !.status = "FAILED", !.failure = failure]
<1> DEFINE row == [saga.row EXCEPT !.status = "FAILED", !.failure = failure]
<1>1. Failed(saga, failure) = [saga EXCEPT !.row = row]
  BY StoredParts DEF Failed, Stored
<1>2. row \in Rows
  BY StoredParts, ActiveRow, NoneAssumption DEF Rows, Statuses
<1> HIDE DEF row
<1>3. /\ Failed(saga, failure) \in Stored /\ Failed(saga, failure).row = row
      /\ SameSaga(Failed(saga, failure), saga)
  BY <1>1, <1>2, StoredParts DEF Stored, SameSaga
<1> QED
  BY <1>3 DEF row

\* A new instance of the type of step, for a start event with value.
NewSaga(step, value) ==
  [type |-> TypeOf[step],
   row |-> Started(EmptyState, {<<PropertyOf[step], value>>}).row,
   associations |-> Started(EmptyState, {<<PropertyOf[step], value>>}).associations]

\* It is CREATED, and no step has run.
LEMMA StartedIsStored ==
  ASSUME NEW step \in StartSteps, NEW value \in Values \ {None}
  PROVE  /\ NewSaga(step, value) \in Stored /\ Active(NewSaga(step, value))
         /\ CompletedSteps(NewSaga(step, value).row) = {}
         /\ NewSaga(step, value).type = TypeOf[step]
         /\ NewSaga(step, value).associations = {<<PropertyOf[step], value>>}
<1> DEFINE new == NewSaga(step, value)
           associations == {<<PropertyOf[step], value>>}
           row == [state |-> EmptyState, status |-> "CREATED", steps |-> [s \in Steps |-> NotRun],
                   outcome |-> None, failure |-> None]
<1>1. new = [type |-> TypeOf[step], row |-> row, associations |-> associations]
  BY DEF Started, NewSaga
<1>2. row \in Rows
  BY EmptyStateAssumption DEF Rows, Statuses, StepRecords
<1>3. row.status = "CREATED" /\ row.steps = [s \in Steps |-> NotRun]
  OBVIOUS
<1>4. TypeOf[step] \in Range(TypeOf)
  BY TypesAssumption, StartStepsAssumption DEF Range
<1>5. associations \in AssociationSets
  BY StartAssociationsAssumption
<1> HIDE DEF row, associations, new
<1>6. new \in Stored /\ new.type = TypeOf[step] /\ new.row = row /\ new.associations = associations
  BY <1>1, <1>2, <1>4, <1>5 DEF Stored
<1>7. Active(new)
  BY <1>3, <1>6 DEF Active, IsTerminal, TerminalStatuses
<1>8. CompletedSteps(new.row) = {}
  BY <1>3, <1>6 DEF CompletedSteps
<1> QED
  BY <1>6, <1>7, <1>8 DEF new, associations

-----------------------------------------------------------------------------
(* The invariant of the engine.                                             *)

\* The running unit's saga as the unit found or started it.
FoundSaga == IF unit.started = NoSaga THEN unit.before.storage[unit.id] ELSE unit.started

\* The unit's saga is stored and active, now and when the unit began, and only
\* steps have been recorded on it since; no other saga has changed.
UnitInv ==
  unit # NoUnit =>
    /\ storage[unit.id] # NoSaga /\ Active(storage[unit.id])
    /\ FoundSaga # NoSaga /\ Active(FoundSaga) /\ SameSaga(FoundSaga, storage[unit.id])
    /\ CompletedSteps(FoundSaga.row) \subseteq CompletedSteps(storage[unit.id].row)
    /\ unit.started # NoSaga =>
         unit.before.storage[unit.id] = NoSaga /\ CompletedSteps(unit.started.row) = {}
    /\ \A id \in Ids \ {unit.id} : storage[id] = unit.before.storage[id]

\* What a delivery loop still has to run exists, and it knows with which step.
FrameOK(frame) ==
  frame.kind = "deliver" =>
    /\ \A id \in frame.ids : storage[id] # NoSaga
    /\ frame.ids # {} => frame.steps # <<>>

FrameInv == \A i \in DOMAIN stack : FrameOK(stack[i])

ContextInv == \A id \in Ids : contexts[id] # None => storage[id] # NoSaga

EngineInv == TypeOK /\ UnitInv /\ FrameInv /\ ContextInv

\* A new harness.
LEMMA InitEngineInv == Init => EngineInv
<1> SUFFICES ASSUME Init PROVE EngineInv
  OBVIOUS
<1>1. TypeOK
  <2>1. storage \in Storages
    BY InitialStoragesAssumption DEF Init, Storages
  <2> QED
    BY <2>1, BoundsAssumption DEF Init, TypeOK
<1>2. UnitInv /\ FrameInv /\ ContextInv
  BY DEF Init, UnitInv, FrameInv, ContextInv
<1> QED
  BY <1>1, <1>2 DEF EngineInv

\* The loops the engine pushes.
LEMMA DeliveryIsFrame ==
  ASSUME NEW event \in Events
  PROVE  DeliveryOf(event) \in Frames /\ DeliveryOf(event).kind = "deliver" /\ DeliveryOf(event).ids = {}
<1>1. StepsOn[event.type] \in Seq(Steps)
  BY StepsOnAssumption DEF Events
<1> QED
  BY <1>1 DEF DeliveryOf, Frames

\* A loop that dispatches events.
LEMMA DispatchIsFrame ==
  ASSUME NEW events \in Seq(Events)
  PROVE  DispatchOf(events) \in Frames /\ DispatchOf(events).kind = "dispatch"
BY DEF DispatchOf, Frames

\* A loop on top of others, and what is left without the top one.
LEMMA PushFrame ==
  ASSUME NEW s \in Seq(Frames), NEW f \in Frames
  PROVE  /\ <<f>> \o s \in Seq(Frames)
         /\ \A i \in DOMAIN (<<f>> \o s) : \/ (<<f>> \o s)[i] = f
                                           \/ \E j \in DOMAIN s : (<<f>> \o s)[i] = s[j]
<1> DEFINE all == <<f>> \o s
<1>1. /\ all \in Seq(Frames) /\ DOMAIN all = 1 .. Len(s) + 1 /\ DOMAIN s = 1 .. Len(s)
      /\ all[1] = f /\ \A i \in 1 .. Len(s) : all[i + 1] = s[i]
      /\ Len(s) \in Nat
  OBVIOUS
<1> HIDE DEF all
<1>2. ASSUME NEW i \in DOMAIN all PROVE all[i] = f \/ \E j \in DOMAIN s : all[i] = s[j]
  <2>1. CASE i = 1
    BY <1>1, <2>1
  <2>2. CASE i # 1
    <3>1. i - 1 \in 1 .. Len(s) /\ (i - 1) + 1 = i
      BY <1>1, <2>2
    <3> QED
      BY <1>1, <3>1
  <2> QED
    BY <2>1, <2>2
<1> QED
  BY <1>1, <1>2 DEF all

\* The loops under the top one.
LEMMA PopFrame ==
  ASSUME NEW s \in Seq(Frames), s # <<>>
  PROVE  /\ Head(s) \in Frames /\ Tail(s) \in Seq(Frames) /\ 1 \in DOMAIN s /\ Head(s) = s[1]
         /\ s = <<Head(s)>> \o Tail(s)
         /\ \A i \in DOMAIN Tail(s) : \E j \in DOMAIN s : Tail(s)[i] = s[j]
<1>1. /\ Head(s) \in Frames /\ Tail(s) \in Seq(Frames) /\ 1 \in DOMAIN s /\ Head(s) = s[1]
  OBVIOUS
<1>2. s = <<Head(s)>> \o Tail(s)
  OBVIOUS
<1>3. \A i \in DOMAIN Tail(s) : \E j \in DOMAIN s : Tail(s)[i] = s[j]
  BY <1>1, <1>2, PushFrame
<1> QED
  BY <1>1, <1>2, <1>3

\* No saga is forgotten.
Kept == \A id \in Ids : storage[id] # NoSaga => storage'[id] # NoSaga

\* frame may go on after the step, and so may all of loops.
GoesOn(frame) ==
  frame.kind = "deliver" =>
    /\ \A id \in frame.ids : storage'[id] # NoSaga
    /\ frame.ids # {} => frame.steps # <<>>

LoopsGoOn(loops) ==
  /\ loops \in Seq(Frames)
  /\ \A i \in DOMAIN loops : GoesOn(loops[i])

\* Another loop on top of loops that go on.
LEMMA OneMore ==
  ASSUME NEW s, LoopsGoOn(s), NEW f \in Frames, GoesOn(f)
  PROVE  LoopsGoOn(<<f>> \o s)
<1>1. s \in Seq(Frames)
  BY DEF LoopsGoOn
<1>2. /\ <<f>> \o s \in Seq(Frames)
      /\ \A i \in DOMAIN (<<f>> \o s) : \/ (<<f>> \o s)[i] = f
                                        \/ \E j \in DOMAIN s : (<<f>> \o s)[i] = s[j]
  BY <1>1, PushFrame
<1> DEFINE all == <<f>> \o s
<1>3. all \in Seq(Frames) /\ \A i \in DOMAIN all : all[i] = f \/ \E j \in DOMAIN s : all[i] = s[j]
  BY <1>2
<1> HIDE DEF all
<1>4. \A j \in DOMAIN s : GoesOn(s[j])
  BY DEF LoopsGoOn
<1>5. \A i \in DOMAIN all : GoesOn(all[i])
  BY <1>3, <1>4
<1>6. LoopsGoOn(all)
  BY <1>3, <1>5 DEF LoopsGoOn
<1> QED
  BY <1>6 DEF all

\* The loops under way go on, and so do those around the innermost one.
LEMMA AllGoOn ==
  ASSUME TypeOK, FrameInv, Kept
  PROVE  LoopsGoOn(stack) /\ (stack # <<>> => LoopsGoOn(Tail(stack)))
<1>1. ASSUME NEW f \in Frames, FrameOK(f) PROVE GoesOn(f)
  BY <1>1 DEF FrameOK, GoesOn, Kept, Frames
<1>2. stack \in Seq(Frames) /\ \A i \in DOMAIN stack : FrameOK(stack[i])
  BY DEF TypeOK, FrameInv
<1>3. \A i \in DOMAIN stack : stack[i] \in Frames
  BY <1>2
<1>4. \A i \in DOMAIN stack : GoesOn(stack[i])
  BY <1>1, <1>2, <1>3
<1>5. LoopsGoOn(stack)
  BY <1>2, <1>4 DEF LoopsGoOn
<1>6. ASSUME stack # <<>> PROVE LoopsGoOn(Tail(stack))
  <2>1. /\ Tail(stack) \in Seq(Frames)
        /\ \A i \in DOMAIN Tail(stack) : \E j \in DOMAIN stack : Tail(stack)[i] = stack[j]
    BY <1>2, <1>6, PopFrame
  <2> DEFINE rest == Tail(stack)
  <2>2. /\ rest \in Seq(Frames)
        /\ \A i \in DOMAIN rest : \E j \in DOMAIN stack : rest[i] = stack[j]
    BY <2>1
  <2> HIDE DEF rest
  <2>3. LoopsGoOn(rest)
    BY <1>4, <2>2 DEF LoopsGoOn
  <2> QED
    BY <2>3 DEF rest
<1> QED
  BY <1>5, <1>6

\* The loop that runs, and those around it.
LEMMA Loops ==
  ASSUME TypeOK, stack # <<>>
  PROVE  /\ Head(stack) \in Frames /\ Tail(stack) \in Seq(Frames)
         /\ stack = <<Head(stack)>> \o Tail(stack)
         /\ \A i \in DOMAIN Tail(stack) : \E j \in DOMAIN stack : Tail(stack)[i] = stack[j]
         /\ FrameInv => FrameOK(Head(stack))
BY PopFrame DEF TypeOK, FrameInv

\* The loop that delivers an event, typed.
LEMMA RunningDelivery ==
  ASSUME TypeOK, Running("deliver")
  PROVE  /\ unit = NoUnit /\ stack # <<>>
         /\ Head(stack) \in [kind : {"deliver"}, event : Events, steps : Seq(Steps), ids : SUBSET Ids]
<1>1. unit = NoUnit /\ stack # <<>> /\ Head(stack).kind = "deliver"
  BY DEF Running
<1>2. Head(stack) \in Frames
  BY <1>1, Loops
<1> QED
  BY <1>1, <1>2 DEF Frames

\* The loop that dispatches events, typed.
LEMMA RunningDispatch ==
  ASSUME TypeOK, Running("dispatch")
  PROVE  /\ unit = NoUnit /\ stack # <<>>
         /\ Head(stack) \in [kind : {"dispatch"}, events : Seq(Events)]
<1>1. unit = NoUnit /\ stack # <<>> /\ Head(stack).kind = "dispatch"
  BY DEF Running
<1>2. Head(stack) \in Frames
  BY <1>1, Loops
<1> QED
  BY <1>1, <1>2 DEF Frames

\* A unit of work as it begins.
LEMMA BeginsTyped ==
  ASSUME TypeOK, NEW id \in Ids, NEW step \in Steps, NEW started \in Stored \cup {NoSaga},
         Begin(id, step, started)
  PROVE  /\ unit' \in UnitsOfWork /\ unit' # NoUnit /\ unit'.queue = <<>>
         /\ unit'.id = id /\ unit'.step = step /\ unit'.started = started
         /\ unit'.before.storage = storage /\ unit'.before.aggregates = aggregates
         /\ unit'.recorded = <<>> /\ unit'.rollbackOnly = FALSE
<1>1. /\ unit' \in UnitsOfWork /\ unit'.queue = <<>>
      /\ unit'.id = id /\ unit'.step = step /\ unit'.started = started
      /\ unit'.before.storage = storage /\ unit'.before.aggregates = aggregates
      /\ unit'.recorded = <<>> /\ unit'.rollbackOnly = FALSE
  BY DEF Begin, TypeOK, UnitsOfWork
<1> QED
  BY <1>1, NoUnitAssumption

\* A start event with value, which no active saga of the type has, begins the
\* first unit of work of the new saga id.
Starts(id, step, value, new) ==
  /\ storage[id] = NoSaga /\ storage' = [storage EXCEPT ![id] = new]
  /\ Active(new) /\ CompletedSteps(new.row) = {}
  /\ new.type = TypeOf[step] /\ new.associations = {<<PropertyOf[step], value>>}
  /\ \A other \in Ids :
       /\ storage[other] # NoSaga /\ storage[other].type = TypeOf[step]
       /\ <<PropertyOf[step], value>> \in storage[other].associations
       => ~ Active(storage[other])
  /\ Begin(id, step, new)

\* A @StartSaga step: refused, or a new instance and its first unit of work.
LEMMA StartSagaDoes ==
  ASSUME TypeOK, StartSaga
  PROVE  /\ Running("deliver") /\ Head(stack).ids = {}
         /\ \E f \in Frames : /\ f.kind = "deliver" /\ f.ids = {}
                              /\ stack' = <<f>> \o Tail(stack)
         /\ UNCHANGED <<aggregates, contexts, dispatched, deliveries, effects>>
         /\ \/ UNCHANGED <<storage, unit>>
            \/ \E id \in Ids, step \in StartSteps, value \in Values \ {None}, new \in Stored :
                 Starts(id, step, value, new)
<1> DEFINE frame == Head(stack)
           event == frame.event
           step  == Head(frame.steps)
           saga  == Started(EmptyState, {<<PropertyOf[step], event.value>>})
           new   == [type |-> TypeOf[step], row |-> saga.row, associations |-> saga.associations]
           id    == Min(Fresh)
           f     == [frame EXCEPT !.steps = Tail(@)]
<1>1. /\ NextStep /\ event.value # None /\ step \in StartSteps
      /\ stack' = <<f>> \o Tail(stack)
      /\ IF Duplicate(step, event)
           THEN UNCHANGED <<storage, unit>>
           ELSE /\ Fresh # {}
                /\ storage' = [storage EXCEPT ![id] = new]
                /\ Begin(id, step, new)
      /\ UNCHANGED <<aggregates, contexts, dispatched, deliveries, effects>>
  BY DEF StartSaga, GoOn
<1>2. Running("deliver") /\ frame.ids = {} /\ frame.steps # <<>>
  BY <1>1 DEF NextStep
<1>3. frame \in [kind : {"deliver"}, event : Events, steps : Seq(Steps), ids : SUBSET Ids]
  BY <1>2, RunningDelivery
<1>4. f \in Frames /\ f.kind = "deliver" /\ f.ids = {}
  <2>1. Tail(frame.steps) \in Seq(Steps)
    BY <1>2, <1>3
  <2>2. f \in [kind : {"deliver"}, event : Events, steps : Seq(Steps), ids : SUBSET Ids]
    BY <1>3, <2>1
  <2>3. f.kind = "deliver" /\ f.ids = {}
    BY <1>2, <1>3
  <2> QED
    BY <2>2, <2>3 DEF Frames
<1>5. ASSUME ~ Duplicate(step, event)
      PROVE  /\ id \in Ids /\ event.value \in Values \ {None} /\ new \in Stored
             /\ Starts(id, step, event.value, new)
  <2>1. Fresh # {} /\ Fresh \subseteq Ids /\ Fresh \subseteq Nat
    BY <1>1, <1>5, IdsAssumption DEF Fresh
  <2>2. id \in Fresh
    BY <2>1, MinIsIn
  <2>3. id \in Ids /\ storage[id] = NoSaga
    BY <2>1, <2>2 DEF Fresh
  <2>4. event.value \in Values \ {None}
    BY <1>1, <1>3 DEF Events
  <2>5. /\ new \in Stored /\ Active(new) /\ CompletedSteps(new.row) = {}
        /\ new.type = TypeOf[step] /\ new.associations = {<<PropertyOf[step], event.value>>}
    <3> DEFINE value == event.value
    <3>1. step \in StartSteps /\ value \in Values \ {None}
      BY <1>1, <2>4
    <3>2. new = NewSaga(step, value)
      BY DEF NewSaga
    <3> HIDE DEF value, step, new
    <3>3. /\ new \in Stored /\ Active(new) /\ CompletedSteps(new.row) = {}
          /\ new.type = TypeOf[step] /\ new.associations = {<<PropertyOf[step], value>>}
      BY <3>1, <3>2, StartedIsStored
    <3> QED
      BY <3>3 DEF value
  <2>6. \A other \in Ids :
          /\ storage[other] # NoSaga /\ storage[other].type = TypeOf[step]
          /\ <<PropertyOf[step], event.value>> \in storage[other].associations
          => ~ Active(storage[other])
    BY <1>1, <1>5 DEF Duplicate, ActiveIds, Correlated, Correlates
  <2>7. storage' = [storage EXCEPT ![id] = new] /\ Begin(id, step, new)
    BY <1>1, <1>5
  <2> HIDE DEF id, step, new, event
  <2> QED
    BY <2>3, <2>4, <2>5, <2>6, <2>7 DEF Starts
<1> HIDE DEF f, id, step, new, event
<1>6. CASE Duplicate(step, event)
  BY <1>1, <1>2, <1>4, <1>6
<1>7. CASE ~ Duplicate(step, event)
  BY <1>1, <1>2, <1>4, <1>5, <1>7
<1> QED
  BY <1>6, <1>7

-----------------------------------------------------------------------------
(* Steps that begin or end no unit of work.                                 *)

\* Nothing but the loops, the events dispatched and the bounds changes.
LEMMA QuietKeeps ==
  ASSUME EngineInv, UNCHANGED <<storage, aggregates, contexts, unit>>, LoopsGoOn(stack'),
         dispatched' \in Seq(Events), deliveries' \in 0 .. MaxDeliveries,
         effects' \in 0 .. MaxEffects
  PROVE  EngineInv'
<1>1. TypeOK'
  BY DEF EngineInv, TypeOK, LoopsGoOn
<1>2. UnitInv'
  BY DEF EngineInv, UnitInv, FoundSaga
<1>3. FrameInv'
  BY DEF LoopsGoOn, GoesOn, FrameInv, FrameOK
<1>4. ContextInv'
  BY DEF EngineInv, ContextInv
<1> QED
  BY <1>1, <1>2, <1>3, <1>4 DEF EngineInv

\* Nothing stored is lost if nothing stored changes.
LEMMA QuietKept == UNCHANGED storage => Kept
BY DEF Kept

\* The bounds and the events dispatched, if a step leaves them alone.
LEMMA QuietTypes ==
  ASSUME TypeOK
  PROVE  /\ dispatched \in Seq(Events) /\ deliveries \in 0 .. MaxDeliveries
         /\ effects \in 0 .. MaxEffects
BY DEF TypeOK

\* An event arrives from outside.
LEMMA ArriveKeeps ==
  ASSUME EngineInv, NEW event \in Events, Deliver(event) \/ Publish(event)
  PROVE  EngineInv'
<1>1. /\ Arrive(event)
      /\ dispatched' = dispatched \/ dispatched' = Append(dispatched, event)
  BY DEF Deliver, Publish
<1>2. /\ unit = NoUnit /\ stack = <<>> /\ deliveries < MaxDeliveries
      /\ deliveries' = deliveries + 1 /\ stack' = <<DeliveryOf(event)>>
      /\ UNCHANGED <<storage, aggregates, contexts, unit, effects>>
  BY <1>1 DEF Arrive
<1>3. /\ dispatched \in Seq(Events) /\ deliveries \in 0 .. MaxDeliveries
      /\ effects \in 0 .. MaxEffects
  BY QuietTypes DEF EngineInv
<1>4. dispatched' \in Seq(Events)
  BY <1>1, <1>3
<1>5. deliveries' \in 0 .. MaxDeliveries
  BY <1>2, <1>3, BoundsAssumption
<1>6. LoopsGoOn(stack')
  <2>1. /\ DeliveryOf(event) \in Frames /\ DeliveryOf(event).kind = "deliver"
        /\ DeliveryOf(event).ids = {}
    BY DeliveryIsFrame
  <2> DEFINE f == DeliveryOf(event)
  <2>2. f \in Frames /\ GoesOn(f)
    BY <2>1 DEF GoesOn
  <2> HIDE DEF f
  <2>3. <<f>> \in Seq(Frames) /\ DOMAIN <<f>> = {1} /\ <<f>>[1] = f
    BY <2>2
  <2>4. LoopsGoOn(<<f>>)
    BY <2>2, <2>3 DEF LoopsGoOn
  <2> QED
    BY <1>2, <2>4 DEF f
<1> QED
  BY <1>2, <1>3, <1>4, <1>5, <1>6, QuietKeeps

\* No loop goes on.
LEMMA StopKeeps ==
  ASSUME EngineInv, ThrowMissingValue \/ Resume
  PROVE  EngineInv'
<1>1. stack' = <<>> /\ UNCHANGED <<storage, aggregates, contexts, unit, dispatched, deliveries, effects>>
  BY DEF ThrowMissingValue, Resume
<1>2. <<>> \in Seq(Frames) /\ DOMAIN <<>> = {}
  OBVIOUS
<1>3. LoopsGoOn(stack')
  BY <1>1, <1>2 DEF LoopsGoOn
<1> QED
  BY <1>1, <1>3, QuietTypes, QuietKeeps DEF EngineInv

\* A loop is done.
LEMMA ReturnKeeps ==
  ASSUME EngineInv, Return
  PROVE  EngineInv'
<1>1. /\ stack # <<>> /\ stack' = Tail(stack)
      /\ UNCHANGED <<storage, aggregates, contexts, unit, dispatched, deliveries, effects>>
  BY DEF Return
<1>2. LoopsGoOn(stack')
  BY <1>1, AllGoOn, QuietKept DEF EngineInv
<1> QED
  BY <1>1, <1>2, QuietTypes, QuietKeeps DEF EngineInv

\* The instances a step reacts to.
LEMMA ResolveKeeps ==
  ASSUME EngineInv, Resolve
  PROVE  EngineInv'
<1> DEFINE frame == Head(stack)
           step  == Head(frame.steps)
           found == ActiveIds(Correlated(frame.event, step))
           next  == IF found = {} THEN [frame EXCEPT !.steps = Tail(@)]
                    ELSE [frame EXCEPT !.ids = found]
<1>1. /\ NextStep /\ stack' = <<next>> \o Tail(stack)
      /\ UNCHANGED <<storage, aggregates, contexts, unit, dispatched, deliveries, effects>>
  BY DEF Resolve, GoOn
<1>2. /\ Running("deliver") /\ frame.ids = {} /\ frame.steps # <<>>
  BY <1>1 DEF NextStep
<1>3. /\ stack # <<>>
      /\ frame \in [kind : {"deliver"}, event : Events, steps : Seq(Steps), ids : SUBSET Ids]
  BY <1>2, RunningDelivery DEF EngineInv
<1>4. found \subseteq Ids /\ \A id \in found : storage[id] # NoSaga
  BY DEF ActiveIds, Correlated
<1> HIDE DEF found, frame, step
<1>5. Tail(frame.steps) \in Seq(Steps)
  BY <1>2, <1>3
<1>6. next \in [kind : {"deliver"}, event : Events, steps : Seq(Steps), ids : SUBSET Ids]
  BY <1>3, <1>4, <1>5
<1>7. /\ next.ids \subseteq found
      /\ next.ids # {} => next.steps # <<>>
  BY <1>2, <1>3
<1> HIDE DEF next
<1>8. next \in Frames /\ GoesOn(next)
  BY <1>1, <1>4, <1>6, <1>7 DEF Frames, GoesOn
<1>9. LoopsGoOn(stack')
  BY <1>1, <1>3, <1>8, AllGoOn, QuietKept, OneMore DEF EngineInv
<1> QED
  BY <1>1, <1>9, QuietTypes, QuietKeeps DEF EngineInv

\* An event is handed to the dispatcher, and perhaps delivered again.
LEMMA DispatchKeeps ==
  ASSUME EngineInv, Dispatch
  PROVE  EngineInv'
<1> DEFINE events == Head(stack).events
           event == Head(events)
           rest  == <<DispatchOf(Tail(events))>> \o Tail(stack)
<1>1. /\ Running("dispatch") /\ events # <<>>
      /\ dispatched' = Append(dispatched, event)
      /\ stack' = rest \/ stack' = <<DeliveryOf(event)>> \o rest
      /\ UNCHANGED <<storage, aggregates, contexts, unit, deliveries, effects>>
  BY DEF Dispatch
<1>2. stack # <<>> /\ events \in Seq(Events)
  BY <1>1, RunningDispatch DEF EngineInv
<1> HIDE DEF events
<1>3. event \in Events /\ Tail(events) \in Seq(Events)
  BY <1>1, <1>2
<1>4. LoopsGoOn(rest)
  <2>1. DispatchOf(Tail(events)) \in Frames /\ GoesOn(DispatchOf(Tail(events)))
    BY <1>3, DispatchIsFrame DEF GoesOn
  <2>2. LoopsGoOn(Tail(stack))
    BY <1>1, <1>2, AllGoOn, QuietKept DEF EngineInv
  <2> QED
    BY <2>1, <2>2, OneMore
<1> HIDE DEF rest, event
<1>5. LoopsGoOn(stack')
  <2>1. DeliveryOf(event) \in Frames /\ GoesOn(DeliveryOf(event))
    BY <1>3, DeliveryIsFrame DEF GoesOn
  <2> QED
    BY <1>1, <1>4, <2>1, OneMore
<1>6. dispatched' \in Seq(Events)
  BY <1>1, <1>3, QuietTypes DEF EngineInv
<1> QED
  BY <1>1, <1>5, <1>6, QuietTypes, QuietKeeps DEF EngineInv

-----------------------------------------------------------------------------
(* Steps that begin a unit of work.                                         *)

\* The running unit, typed.
LEMMA RunningUnit ==
  ASSUME EngineInv, unit # NoUnit
  PROVE  /\ unit \in UnitsOfWork /\ unit.id \in Ids
         /\ \A i \in DOMAIN unit.queue : unit.queue[i].at \in DOMAIN unit.recorded
         /\ storage[unit.id] \in Stored /\ Active(storage[unit.id])
         /\ FoundSaga \in Stored /\ Active(FoundSaga) /\ SameSaga(FoundSaga, storage[unit.id])
         /\ CompletedSteps(FoundSaga.row) \subseteq CompletedSteps(storage[unit.id].row)
         /\ unit.started # NoSaga =>
              unit.before.storage[unit.id] = NoSaga /\ CompletedSteps(unit.started.row) = {}
         /\ \A id \in Ids \ {unit.id} : storage[id] = unit.before.storage[id]
<1>1. /\ unit \in UnitsOfWork /\ unit.id \in Ids
      /\ \A i \in DOMAIN unit.queue : unit.queue[i].at \in DOMAIN unit.recorded
  BY DEF EngineInv, TypeOK, UnitsOfWork
<1>2. storage[unit.id] \in Stored \cup {NoSaga} /\ FoundSaga \in Stored \cup {NoSaga}
  BY <1>1 DEF EngineInv, TypeOK, Storages, UnitsOfWork, FoundSaga
<1> QED
  BY <1>1, <1>2 DEF EngineInv, UnitInv

\* A @StartSaga step.
LEMMA StartSagaKeeps ==
  ASSUME EngineInv, StartSaga
  PROVE  EngineInv'
<1>1. /\ Running("deliver") /\ Head(stack).ids = {}
      /\ \E f \in Frames : /\ f.kind = "deliver" /\ f.ids = {}
                           /\ stack' = <<f>> \o Tail(stack)
      /\ UNCHANGED <<aggregates, contexts, dispatched, deliveries, effects>>
  BY StartSagaDoes DEF EngineInv
<1>2. PICK f \in Frames : f.kind = "deliver" /\ f.ids = {} /\ stack' = <<f>> \o Tail(stack)
  BY <1>1
<1>3. unit = NoUnit /\ stack # <<>> /\ GoesOn(f)
  BY <1>1, <1>2, RunningDelivery DEF EngineInv, GoesOn
<1>4. ASSUME Kept PROVE LoopsGoOn(stack')
  BY <1>2, <1>3, <1>4, AllGoOn, OneMore DEF EngineInv
<1>5. CASE UNCHANGED <<storage, unit>>
  BY <1>1, <1>4, <1>5, QuietKept, QuietTypes, QuietKeeps DEF EngineInv
<1>6. ASSUME NEW id \in Ids, NEW step \in StartSteps, NEW value \in Values \ {None},
             NEW new \in Stored, Starts(id, step, value, new)
      PROVE  EngineInv'
  <2>0. /\ storage[id] = NoSaga /\ storage' = [storage EXCEPT ![id] = new]
        /\ Active(new) /\ CompletedSteps(new.row) = {} /\ Begin(id, step, new)
    BY <1>6 DEF Starts
  <2>1. step \in Steps /\ new # NoSaga
    BY StartStepsAssumption, NoSagaAssumption
  <2>2. /\ unit' \in UnitsOfWork /\ unit' # NoUnit /\ unit'.queue = <<>>
        /\ unit'.id = id /\ unit'.started = new /\ unit'.before.storage = storage
    BY <2>0, <2>1, BeginsTyped DEF EngineInv
  <2>3. /\ storage' \in Storages /\ storage'[id] = new
        /\ \A other \in Ids \ {id} : storage'[other] = storage[other]
    BY <2>0 DEF EngineInv, TypeOK, Storages
  <2>4. Kept
    BY <2>1, <2>3 DEF Kept
  <2>5. TypeOK'
    BY <1>1, <1>4, <2>2, <2>3, <2>4 DEF EngineInv, TypeOK, LoopsGoOn
  <2>6. UnitInv'
    <3>1. FoundSaga' = new /\ SameSaga(new, new)
      BY <2>1, <2>2 DEF FoundSaga, SameSaga
    <3> QED
      BY <2>0, <2>1, <2>2, <2>3, <3>1 DEF UnitInv, SameSaga
  <2>7. FrameInv'
    BY <1>4, <2>4 DEF LoopsGoOn, GoesOn, FrameInv, FrameOK
  <2>8. ContextInv'
    BY <1>1, <2>4 DEF EngineInv, ContextInv, Kept
  <2> QED
    BY <2>5, <2>6, <2>7, <2>8 DEF EngineInv
<1> QED
  BY <1>5, <1>6, StartSagaDoes DEF EngineInv

\* The next resolved instance: passed over, or its step begins.
LEMMA ReactDoes ==
  ASSUME EngineInv, React
  PROVE  /\ Running("deliver") /\ UNCHANGED <<storage, aggregates, contexts, dispatched, deliveries, effects>>
         /\ \E f \in Frames : f.kind = "deliver" /\ GoesOn(f) /\ stack' = <<f>> \o Tail(stack)
         /\ \/ UNCHANGED unit
            \/ \E id \in Ids, step \in Steps :
                 storage[id] \in Stored /\ Active(storage[id]) /\ Begin(id, step, NoSaga)
<1> DEFINE frame == Head(stack)
           id    == Min(frame.ids)
           step  == Head(frame.steps)
           rest  == frame.ids \ {id}
           f     == [frame EXCEPT !.ids = rest, !.steps = IF rest = {} THEN Tail(@) ELSE @]
<1>1. /\ Running("deliver") /\ frame.ids # {} /\ stack' = <<f>> \o Tail(stack)
      /\ IF Active(storage[id]) THEN Begin(id, step, NoSaga) ELSE UNCHANGED unit
      /\ UNCHANGED <<storage, aggregates, contexts, dispatched, deliveries, effects>>
  BY DEF React, GoOn
<1>2. /\ stack # <<>>
      /\ frame \in [kind : {"deliver"}, event : Events, steps : Seq(Steps), ids : SUBSET Ids]
  BY <1>1, RunningDelivery DEF EngineInv
<1>3. (\A i \in frame.ids : storage[i] # NoSaga) /\ frame.steps # <<>>
  BY <1>1, <1>2, Loops DEF EngineInv, FrameOK
<1>4. id \in frame.ids
  <2> HIDE DEF frame
  <2> QED
    BY <1>1, <1>2, IdsAssumption, MinIsIn
<1> HIDE DEF id
<1>5. step \in Steps /\ Tail(frame.steps) \in Seq(Steps)
  BY <1>2, <1>3
<1> HIDE DEF step
<1>6. /\ f \in [kind : {"deliver"}, event : Events, steps : Seq(Steps), ids : SUBSET Ids]
      /\ f.ids \subseteq frame.ids /\ (f.ids # {} => f.steps # <<>>)
  BY <1>2, <1>3, <1>5
<1>7. id \in Ids /\ storage[id] \in Stored
  BY <1>2, <1>3, <1>4 DEF EngineInv, TypeOK, Storages
<1> HIDE DEF f, frame
<1>8. f \in Frames /\ f.kind = "deliver" /\ GoesOn(f)
  BY <1>1, <1>3, <1>6 DEF Frames, GoesOn
<1> QED
  BY <1>1, <1>5, <1>7, <1>8 DEF frame

\* A step of a resolved instance begins, or it is passed over.
LEMMA ReactKeeps ==
  ASSUME EngineInv, React
  PROVE  EngineInv'
<1>1. /\ Running("deliver") /\ UNCHANGED <<storage, aggregates, contexts, dispatched, deliveries, effects>>
      /\ \E f \in Frames : f.kind = "deliver" /\ GoesOn(f) /\ stack' = <<f>> \o Tail(stack)
      /\ \/ UNCHANGED unit
         \/ \E id \in Ids, step \in Steps :
              storage[id] \in Stored /\ Active(storage[id]) /\ Begin(id, step, NoSaga)
  BY ReactDoes
<1>2. stack # <<>> /\ Kept
  BY <1>1, RunningDelivery, QuietKept DEF EngineInv
<1>3. LoopsGoOn(stack')
  BY <1>1, <1>2, AllGoOn, OneMore DEF EngineInv
<1>4. CASE UNCHANGED unit
  BY <1>1, <1>3, <1>4, QuietTypes, QuietKeeps DEF EngineInv
<1>5. ASSUME NEW id \in Ids, NEW step \in Steps, storage[id] \in Stored, Active(storage[id]),
             Begin(id, step, NoSaga)
      PROVE  EngineInv'
  <2>1. /\ unit' \in UnitsOfWork /\ unit' # NoUnit /\ unit'.queue = <<>>
        /\ unit'.id = id /\ unit'.started = NoSaga /\ unit'.before.storage = storage
    BY <1>5, BeginsTyped DEF EngineInv
  <2>2. TypeOK'
    BY <1>1, <1>3, <2>1 DEF EngineInv, TypeOK, LoopsGoOn
  <2>3. UnitInv'
    <3>1. FoundSaga' = storage[id] /\ storage[id] # NoSaga
      BY <1>1, <1>5, <2>1, NoSagaAssumption DEF FoundSaga
    <3> QED
      BY <1>1, <1>5, <2>1, <3>1 DEF UnitInv, SameSaga
  <2>4. FrameInv'
    BY <1>3 DEF LoopsGoOn, GoesOn, FrameInv, FrameOK
  <2>5. ContextInv'
    BY <1>1 DEF EngineInv, ContextInv
  <2> QED
    BY <2>2, <2>3, <2>4, <2>5 DEF EngineInv
<1> QED
  BY <1>1, <1>4, <1>5

-----------------------------------------------------------------------------
(* Steps within a unit of work.                                             *)

\* What every effect of a step leaves alone.
LEMMA EffectTypes ==
  ASSUME EngineInv, Effect
  PROVE  /\ unit # NoUnit /\ UNCHANGED <<storage, stack, dispatched, deliveries>>
         /\ effects' \in 0 .. MaxEffects
         /\ LoopsGoOn(stack')
<1>1. /\ unit # NoUnit /\ UNCHANGED <<storage, stack, dispatched, deliveries>>
      /\ effects < MaxEffects /\ effects' = effects + 1
  BY DEF Effect
<1>2. effects' \in 0 .. MaxEffects
  BY <1>1, QuietTypes, BoundsAssumption DEF EngineInv
<1>3. LoopsGoOn(stack')
  BY <1>1, QuietKept, AllGoOn DEF EngineInv
<1> QED
  BY <1>1, <1>2, <1>3

\* The unit goes on with the same saga.
SameUnit(next) ==
  /\ next \in UnitsOfWork
  /\ \A i \in DOMAIN next.queue : next.queue[i].at \in DOMAIN next.recorded
  /\ next.id = unit.id /\ next.started = unit.started /\ next.before = unit.before

\* An effect that changes no storage keeps the invariant.
LEMMA EffectKeeps ==
  ASSUME EngineInv, Effect, SameUnit(unit'), aggregates' \in SUBSET Aggregated,
         contexts' \in [Ids -> Contexts \cup {None}],
         \A id \in Ids \ {unit.id} : contexts'[id] = contexts[id]
  PROVE  EngineInv'
<1>1. /\ unit # NoUnit /\ UNCHANGED <<storage, stack, dispatched, deliveries>>
      /\ effects' \in 0 .. MaxEffects /\ LoopsGoOn(stack')
  BY EffectTypes
<1>2. /\ unit' \in UnitsOfWork
      /\ \A i \in DOMAIN unit'.queue : unit'.queue[i].at \in DOMAIN unit'.recorded
      /\ unit'.id = unit.id /\ unit'.started = unit.started /\ unit'.before = unit.before
  BY DEF SameUnit
<1>3. TypeOK'
  BY <1>1, <1>2 DEF EngineInv, TypeOK
<1>4. UnitInv'
  BY <1>1, <1>2 DEF EngineInv, UnitInv, FoundSaga
<1>5. FrameInv'
  BY <1>1 DEF EngineInv, FrameInv, FrameOK
<1>6. ContextInv'
  BY <1>1, RunningUnit, NoSagaAssumption DEF EngineInv, ContextInv
<1> QED
  BY <1>3, <1>4, <1>5, <1>6 DEF EngineInv

\* The steps that wait in the unit for a recorded event, in some order.
LEMMA PendingSteps ==
  ASSUME NEW here \in SUBSET Steps, NEW at \in Nat
  PROVE  SetToSeq({[step |-> s, at |-> at] : s \in here}) \in Seq([step : Steps, at : {at}])
<1> DEFINE pending == {[step |-> s, at |-> at] : s \in here}
<1>1. IsFiniteSet(here)
  BY StepsAssumption, FS_Subset
<1>2. IsFiniteSet(pending)
  <2> DEFINE f == [s \in here |-> [step |-> s, at |-> at]]
  <2>1. f \in Surjection(here, pending)
    BY DEF Surjection
  <2> HIDE DEF pending, f
  <2> QED
    BY <1>1, <2>1, FS_Surjection
<1>3. pending \subseteq [step : Steps, at : {at}]
  OBVIOUS
<1> HIDE DEF pending
<1>4. SetToSeq(pending) \in Seq(pending)
  BY <1>2, SetToSeqIsSeq
<1>5. SetToSeq(pending) \in Seq([step : Steps, at : {at}])
  BY <1>3, <1>4, SeqWider
<1> QED
  BY <1>5 DEF pending

\* Recording an event.
LEMMA RecordDoes ==
  ASSUME EngineInv, NEW event \in Events, Record(event)
  PROVE  SameUnit(unit')
<1> DEFINE entry == [event |-> event, delivered |-> FALSE]
           at    == Len(unit.recorded) + 1
           here  == InProcessSteps(event)
           pending == SetToSeq({[step |-> s, at |-> at] : s \in here})
<1>1. /\ Effect /\ UNCHANGED <<aggregates, contexts>>
      /\ unit' = [unit EXCEPT !.touched = @ \cup {event.aggregate},
                              !.recorded = Append(@, entry),
                              !.queue = @ \o pending]
  BY DEF Record
<1>2. /\ unit # NoUnit /\ unit \in UnitsOfWork
      /\ \A i \in DOMAIN unit.queue : unit.queue[i].at \in DOMAIN unit.recorded
  BY <1>1, EffectTypes, RunningUnit
<1>3. /\ entry \in [event : Events, delivered : BOOLEAN]
      /\ unit.recorded \in Seq([event : Events, delivered : BOOLEAN])
      /\ unit.queue \in Seq([step : Steps, at : Nat])
      /\ event.aggregate \in Touchable
  BY <1>2 DEF UnitsOfWork, Events
<1>4. here \in SUBSET Steps
  BY StepsOnAssumption DEF InProcessSteps, Range, Events
<1>5. at \in Nat
  BY <1>3
<1>6. pending \in Seq([step : Steps, at : {at}])
  <2> HIDE DEF here, at
  <2> QED
    BY <1>4, <1>5, PendingSteps
<1> HIDE DEF pending, entry
<1> DEFINE recorded == Append(unit.recorded, entry)
           queue == unit.queue \o pending
<1>7. /\ recorded \in Seq([event : Events, delivered : BOOLEAN])
      /\ DOMAIN recorded = 1 .. at /\ at \in DOMAIN recorded
      /\ DOMAIN unit.recorded \subseteq DOMAIN recorded
  BY <1>3
<1>8. /\ queue \in Seq([step : Steps, at : Nat])
      /\ \A i \in DOMAIN queue : queue[i].at \in DOMAIN recorded
  <2> HIDE DEF recorded
  <2>0. pending \in Seq([step : Steps, at : Nat])
    <3> DEFINE narrow == [step : Steps, at : {at}]
               wide  == [step : Steps, at : Nat]
    <3>1. narrow \subseteq wide /\ pending \in Seq(narrow)
      BY <1>5, <1>6
    <3> HIDE DEF narrow, wide
    <3>2. pending \in Seq(wide)
      BY <3>1, SeqWider
    <3> QED
      BY <3>2 DEF wide
  <2>1. queue \in Seq([step : Steps, at : Nat])
    BY <1>3, <2>0
  <2>2. \A i \in DOMAIN pending : pending[i].at = at
    <3>1. [step : Steps, at : {at}] \subseteq [step : Steps, at : {at}]
      OBVIOUS
    <3>2. \A i \in DOMAIN pending : pending[i] \in [step : Steps, at : {at}]
      <4> HIDE DEF at
      <4> QED
        BY <1>6, <3>1, SeqWider
    <3> QED
      BY <3>2
  <2> HIDE DEF at
  <2>3. ASSUME NEW i \in DOMAIN queue PROVE queue[i].at \in DOMAIN recorded
    <3>1. \/ i \in DOMAIN unit.queue /\ queue[i] = unit.queue[i]
          \/ i - Len(unit.queue) \in DOMAIN pending /\ queue[i] = pending[i - Len(unit.queue)]
      BY <1>3, <2>0
    <3> QED
      BY <1>2, <1>7, <2>2, <3>1
  <2> QED
    BY <2>1, <2>3
<1> HIDE DEF recorded, queue
<1>9. unit' = [unit EXCEPT !.touched = @ \cup {event.aggregate}, !.recorded = recorded, !.queue = queue]
  BY <1>1, <1>2 DEF recorded, queue, UnitsOfWork
<1> QED
  BY <1>2, <1>3, <1>7, <1>8, <1>9 DEF SameUnit, UnitsOfWork

\* So the invariant is kept.
LEMMA RecordKeeps ==
  ASSUME EngineInv, NEW event \in Events, Record(event)
  PROVE  EngineInv'
<1>1. Effect /\ UNCHANGED <<aggregates, contexts>>
  BY DEF Record
<1>2. /\ aggregates' \in SUBSET Aggregated /\ contexts' \in [Ids -> Contexts \cup {None}]
      /\ \A id \in Ids \ {unit.id} : contexts'[id] = contexts[id]
  BY <1>1 DEF EngineInv, TypeOK
<1> QED
  BY <1>1, <1>2, RecordDoes, EffectKeeps

\* Commands, and writes of the context store.
LEMMA ClientKeeps ==
  ASSUME EngineInv, SendCommand \/ FailCommand \/ PutState
  PROVE  EngineInv'
<1>0. /\ aggregates \in SUBSET Aggregated
      /\ contexts \in [Ids -> Contexts \cup {None}]
  BY DEF EngineInv, TypeOK
<1>1. ASSUME unit # NoUnit PROVE SameUnit(unit)
  BY <1>1, RunningUnit DEF SameUnit
<1>2. CASE SendCommand
  <2>1. /\ Effect /\ UNCHANGED <<contexts, unit>>
        /\ \E part \in Aggregated : aggregates' = aggregates \cup {part}
    BY <1>2 DEF SendCommand
  <2>2. SameUnit(unit')
    BY <1>1, <2>1, EffectTypes
  <2> QED
    BY <1>0, <2>1, <2>2, EffectKeeps
<1>3. CASE FailCommand
  <2>1. /\ Effect /\ UNCHANGED contexts /\ unit' = [unit EXCEPT !.rollbackOnly = TRUE]
        /\ aggregates' \in SUBSET Aggregated
    BY <1>0, <1>3 DEF FailCommand
  <2>2. unit # NoUnit
    BY <2>1, EffectTypes
  <2>3. SameUnit(unit')
    BY <1>1, <2>1, <2>2 DEF SameUnit, UnitsOfWork
  <2> QED
    BY <1>0, <2>1, <2>3, EffectKeeps
<1>4. CASE PutState
  <2>1. /\ Effect /\ UNCHANGED <<aggregates, unit>>
        /\ \E c \in Contexts : contexts' = [contexts EXCEPT ![unit.id] = c]
    BY <1>4 DEF PutState
  <2>2. SameUnit(unit') /\ unit.id \in Ids
    BY <1>1, <2>1, EffectTypes, RunningUnit
  <2> QED
    BY <1>0, <2>1, <2>2, EffectKeeps
<1> QED
  BY <1>2, <1>3, <1>4

-----------------------------------------------------------------------------
(* The ends of a step.                                                      *)

\* What a unit of work has recorded, and what waits in it.
Entries == [event : Events, delivered : BOOLEAN]

Waiting == [step : Steps, at : Nat]

\* The two lists of a unit of work, typed.
LEMMA UnitLists ==
  ASSUME NEW u \in UnitsOfWork
  PROVE  u.recorded \in Seq(Entries) /\ u.queue \in Seq(Waiting)
BY DEF UnitsOfWork, Entries, Waiting

\* The record of a step that returns.
LEMMA AfterStepIsStored ==
  ASSUME EngineInv, unit # NoUnit
  PROVE  /\ AfterStep \in Stored /\ Active(AfterStep) /\ SameSaga(AfterStep, FoundSaga)
         /\ AfterStep.row.status = storage[unit.id].row.status
         /\ CompletedSteps(AfterStep.row) = CompletedSteps(storage[unit.id].row) \cup {unit.step}
         /\ CompletedSteps(FoundSaga.row) \subseteq CompletedSteps(AfterStep.row)
         /\ unit.step \in CompletedSteps(AfterStep.row) /\ unit.step \in Steps
<1> DEFINE saga == storage[unit.id]
           touched == TouchListOf[unit.touched]
<1>1. /\ unit \in UnitsOfWork /\ saga \in Stored /\ Active(saga)
      /\ SameSaga(FoundSaga, saga)
      /\ CompletedSteps(FoundSaga.row) \subseteq CompletedSteps(saga.row)
  BY RunningUnit
<1>2. unit.step \in Steps /\ touched \in TouchLists
  BY <1>1, TouchListsAssumption DEF UnitsOfWork
<1>3. AfterStep = StepRecorded(saga, unit.step, touched)
  BY DEF AfterStep
<1> HIDE DEF saga, touched
<1>4. /\ AfterStep \in Stored /\ AfterStep.row.status = saga.row.status
      /\ SameSaga(AfterStep, saga)
      /\ CompletedSteps(AfterStep.row) = CompletedSteps(saga.row) \cup {unit.step}
  BY <1>1, <1>2, <1>3, RecordedIsStored
<1>5. Active(AfterStep)
  BY <1>1, <1>4 DEF Active
<1>6. SameSaga(AfterStep, FoundSaga)
  BY <1>1, <1>4 DEF SameSaga
<1> QED
  BY <1>1, <1>2, <1>4, <1>5, <1>6 DEF saga

\* What is left to dispatch are events.
LEMMA UndeliveredEvents ==
  ASSUME EngineInv, unit # NoUnit
  PROVE  Undelivered \in Seq(Events)
<1> DEFINE left  == {i \in DOMAIN unit.recorded : ~ unit.recorded[i].delivered}
           parts == [i \in DOMAIN unit.recorded |->
                       IF i \in left THEN <<unit.recorded[i].event>> ELSE <<>>]
<1>1. unit.recorded \in Seq(Entries)
  BY RunningUnit, UnitLists
<1>2. /\ DOMAIN unit.recorded = 1 .. Len(unit.recorded) /\ Len(unit.recorded) \in Nat
      /\ \A i \in DOMAIN unit.recorded : unit.recorded[i].event \in Events
  <2>1. /\ DOMAIN unit.recorded = 1 .. Len(unit.recorded) /\ Len(unit.recorded) \in Nat
        /\ \A i \in DOMAIN unit.recorded : unit.recorded[i] \in Entries
    BY <1>1
  <2> QED
    BY <2>1 DEF Entries
<1>3. \A i \in DOMAIN unit.recorded : parts[i] \in Seq(Events)
  BY <1>2
<1>4. parts \in Seq(Seq(Events))
  <2>1. parts \in [1 .. Len(unit.recorded) -> Seq(Events)]
    BY <1>2, <1>3
  <2> QED
    BY <1>2, <2>1
<1>5. Undelivered = FlattenSeq(parts)
  BY DEF Undelivered, EventsAt
<1> HIDE DEF parts
<1> QED
  BY <1>4, <1>5, FlattenType

\* The unit of work is over, and its saga stays.
LEMMA EndKeeps ==
  ASSUME EngineInv, unit # NoUnit, unit' = NoUnit,
         storage' \in Storages, storage'[unit.id] \in Stored,
         \A id \in Ids \ {unit.id} : storage'[id] = storage[id],
         LoopsGoOn(stack'), aggregates' \in SUBSET Aggregated,
         UNCHANGED <<contexts, dispatched, deliveries, effects>>
  PROVE  EngineInv'
<1>1. TypeOK'
  BY DEF EngineInv, TypeOK, LoopsGoOn
<1>2. UnitInv'
  BY DEF UnitInv
<1>3. FrameInv'
  BY DEF LoopsGoOn, GoesOn, FrameInv, FrameOK
<1>4. ContextInv'
  BY NoSagaAssumption DEF EngineInv, ContextInv
<1> QED
  BY <1>1, <1>2, <1>3, <1>4 DEF EngineInv

\* Storing an instance of the running saga forgets none.
LEMMA StoresUnit ==
  ASSUME EngineInv, unit # NoUnit, NEW saga \in Stored, storage' = [storage EXCEPT ![unit.id] = saga]
  PROVE  /\ storage' \in Storages /\ storage'[unit.id] = saga
         /\ \A id \in Ids \ {unit.id} : storage'[id] = storage[id]
         /\ Kept
<1>1. /\ storage' \in Storages /\ storage'[unit.id] = saga
      /\ \A id \in Ids \ {unit.id} : storage'[id] = storage[id]
  BY RunningUnit DEF EngineInv, TypeOK, Storages
<1> QED
  BY <1>1, NoSagaAssumption DEF Kept

\* A commit.
LEMMA CommitKeeps ==
  ASSUME EngineInv, unit # NoUnit, NEW saga \in Stored, CommitAs(saga)
  PROVE  EngineInv'
<1>1. /\ storage' = [storage EXCEPT ![unit.id] = saga] /\ unit' = NoUnit
      /\ stack' = <<DispatchOf(Undelivered)>> \o stack
      /\ UNCHANGED <<aggregates, contexts, dispatched, deliveries, effects>>
  BY DEF CommitAs
<1>2. /\ storage' \in Storages /\ storage'[unit.id] = saga
      /\ \A id \in Ids \ {unit.id} : storage'[id] = storage[id]
      /\ Kept
  BY <1>1, StoresUnit
<1>3. DispatchOf(Undelivered) \in Frames /\ GoesOn(DispatchOf(Undelivered))
  BY UndeliveredEvents, DispatchIsFrame DEF GoesOn
<1>4. LoopsGoOn(stack')
  BY <1>1, <1>2, <1>3, AllGoOn, OneMore DEF EngineInv
<1>5. aggregates' \in SUBSET Aggregated
  BY <1>1 DEF EngineInv, TypeOK
<1> QED
  BY <1>1, <1>2, <1>4, <1>5, EndKeeps

\* A step that waits or reaches the end of its saga.
LEMMA ReturnsKeep ==
  ASSUME EngineInv, ReachEnd \/ Wait
  PROVE  EngineInv'
<1>1. CASE ReachEnd
  <2>1. unit # NoUnit /\ CommitAs(Completed(AfterStep, unit.step))
    BY <1>1 DEF ReachEnd, StepReturns
  <2>2. Completed(AfterStep, unit.step) \in Stored
    BY <2>1, AfterStepIsStored, CompletedIsStored
  <2> QED
    BY <2>1, <2>2, CommitKeeps
<1>2. CASE Wait
  <2>1. unit # NoUnit /\ CommitAs(Advanced(AfterStep))
    BY <1>2 DEF Wait, StepReturns
  <2>2. Advanced(AfterStep) \in Stored
    BY <2>1, AfterStepIsStored, AdvancedIsStored
  <2> QED
    BY <2>1, <2>2, CommitKeeps
<1> QED
  BY <1>1, <1>2

\* The next queued event runs in the unit.
LEMMA RunQueuedDoes ==
  ASSUME EngineInv, RunQueued
  PROVE  SameUnit(unit')
<1> DEFINE next == Head(unit.queue)
<1>1. /\ unit # NoUnit /\ unit.queue # <<>>
      /\ storage' = [storage EXCEPT ![unit.id] = AfterStep]
      /\ unit' = [unit EXCEPT !.step = next.step, !.queue = Tail(@), !.touched = {},
                              !.recorded[next.at].delivered = TRUE]
      /\ UNCHANGED <<aggregates, contexts, stack, dispatched, deliveries, effects>>
  BY DEF RunQueued, StepReturns
<1>2. /\ unit \in UnitsOfWork
      /\ \A i \in DOMAIN unit.queue : unit.queue[i].at \in DOMAIN unit.recorded
  BY <1>1, RunningUnit
<1>3. unit.queue \in Seq(Waiting) /\ unit.recorded \in Seq(Entries)
  BY <1>2, UnitLists
<1>4. next \in Waiting /\ next.at \in DOMAIN unit.recorded
  <2>1. 1 \in DOMAIN unit.queue /\ next = unit.queue[1] /\ next \in Waiting
    BY <1>1, <1>3
  <2> QED
    BY <1>2, <2>1
<1> DEFINE queue    == Tail(unit.queue)
           recorded == [unit.recorded EXCEPT ![next.at].delivered = TRUE]
<1>5. /\ queue \in Seq(Waiting)
      /\ \A i \in DOMAIN queue : queue[i].at \in DOMAIN unit.recorded
  <2>1. queue \in Seq(Waiting)
    BY <1>1, <1>3
  <2>2. \A i \in DOMAIN queue : i + 1 \in DOMAIN unit.queue /\ queue[i] = unit.queue[i + 1]
    BY <1>1, <1>3
  <2> QED
    BY <1>2, <2>1, <2>2
<1>6. recorded \in Seq(Entries) /\ DOMAIN recorded = DOMAIN unit.recorded
  <2> DEFINE entry == [unit.recorded[next.at] EXCEPT !.delivered = TRUE]
  <2>1. entry \in Entries
    <3>1. unit.recorded[next.at] \in Entries
      BY <1>3, <1>4
    <3> QED
      BY <3>1 DEF Entries
  <2>2. recorded = [unit.recorded EXCEPT ![next.at] = entry]
    OBVIOUS
  <2> HIDE DEF entry, next, recorded
  <2> QED
    BY <1>3, <1>4, <2>1, <2>2
<1>7. unit' = [unit EXCEPT !.step = next.step, !.queue = queue, !.touched = {}, !.recorded = recorded]
  BY <1>1, <1>2 DEF UnitsOfWork
<1> HIDE DEF queue, recorded, next
<1>8. /\ unit' \in UnitsOfWork /\ unit'.queue = queue /\ unit'.recorded = recorded
      /\ unit'.id = unit.id /\ unit'.started = unit.started /\ unit'.before = unit.before
  BY <1>2, <1>4, <1>5, <1>6, <1>7 DEF UnitsOfWork, Entries, Waiting
<1> QED
  BY <1>5, <1>6, <1>8 DEF SameUnit

\* The step it ran before is recorded, and its saga stays active.
LEMMA RunQueuedKeeps ==
  ASSUME EngineInv, RunQueued
  PROVE  EngineInv'
<1>1. /\ unit # NoUnit /\ storage' = [storage EXCEPT ![unit.id] = AfterStep]
      /\ UNCHANGED <<aggregates, contexts, stack, dispatched, deliveries, effects>>
  BY DEF RunQueued, StepReturns
<1>2. /\ AfterStep \in Stored /\ Active(AfterStep) /\ SameSaga(AfterStep, FoundSaga)
      /\ CompletedSteps(FoundSaga.row) \subseteq CompletedSteps(AfterStep.row)
  BY <1>1, AfterStepIsStored
<1>3. /\ storage' \in Storages /\ storage'[unit.id] = AfterStep
      /\ \A id \in Ids \ {unit.id} : storage'[id] = storage[id]
      /\ Kept
  BY <1>1, <1>2, StoresUnit
<1>4. /\ unit' \in UnitsOfWork /\ unit' # NoUnit
      /\ \A i \in DOMAIN unit'.queue : unit'.queue[i].at \in DOMAIN unit'.recorded
      /\ unit'.id = unit.id /\ unit'.started = unit.started /\ unit'.before = unit.before
  BY RunQueuedDoes, NoUnitAssumption DEF SameUnit
<1>5. LoopsGoOn(stack')
  BY <1>1, <1>3, AllGoOn DEF EngineInv
<1>6. TypeOK'
  BY <1>1, <1>3, <1>4, <1>5 DEF EngineInv, TypeOK, LoopsGoOn
<1>7. UnitInv'
  <2>1. FoundSaga' = FoundSaga
    BY <1>4 DEF FoundSaga
  <2>2. FoundSaga # NoSaga /\ Active(FoundSaga) /\ AfterStep # NoSaga
    BY <1>1, <1>2, RunningUnit, NoSagaAssumption
  <2>3. SameSaga(FoundSaga, AfterStep)
    BY <1>2 DEF SameSaga
  <2>4. /\ unit.started # NoSaga =>
             unit.before.storage[unit.id] = NoSaga /\ CompletedSteps(unit.started.row) = {}
        /\ \A id \in Ids \ {unit.id} : storage[id] = unit.before.storage[id]
    BY <1>1, RunningUnit
  <2> HIDE DEF AfterStep, FoundSaga
  <2> QED
    BY <1>2, <1>3, <1>4, <2>1, <2>2, <2>3, <2>4 DEF UnitInv
<1>8. FrameInv'
  BY <1>5 DEF LoopsGoOn, GoesOn, FrameInv, FrameOK
<1>9. ContextInv'
  BY <1>1, <1>3 DEF EngineInv, ContextInv, Kept
<1> QED
  BY <1>6, <1>7, <1>8, <1>9 DEF EngineInv

\* A rollback puts back every saga but its own, which is FAILED.
LEMMA RollBackDoes ==
  ASSUME EngineInv, RollBack
  PROVE  /\ unit # NoUnit /\ unit.step \in Failures
         /\ Failed(FoundSaga, unit.step) \in Stored
         /\ storage' \in Storages /\ storage'[unit.id] = Failed(FoundSaga, unit.step)
         /\ \A id \in Ids \ {unit.id} : storage'[id] = storage[id]
         /\ aggregates' = unit.before.aggregates /\ unit' = NoUnit
         /\ UNCHANGED <<contexts, stack, dispatched, deliveries, effects>>
<1>1. /\ unit # NoUnit /\ unit' = NoUnit /\ aggregates' = unit.before.aggregates
      /\ storage' = [unit.before.storage EXCEPT ![unit.id] = Failed(FoundSaga, unit.step)]
      /\ UNCHANGED <<contexts, stack, dispatched, deliveries, effects>>
  BY DEF RollBack, Restore, FoundSaga
<1>2. /\ unit \in UnitsOfWork /\ FoundSaga \in Stored /\ Active(FoundSaga)
      /\ \A id \in Ids \ {unit.id} : storage[id] = unit.before.storage[id]
  BY <1>1, RunningUnit
<1>3. unit.step \in Failures /\ unit.id \in Ids /\ unit.before.storage \in Storages
  BY <1>2, FailuresAssumption DEF UnitsOfWork
<1> DEFINE failed == Failed(FoundSaga, unit.step)
<1>4. failed \in Stored
  BY <1>2, <1>3, FailedIsStored
<1> HIDE DEF failed
<1>5. /\ storage' \in Storages /\ storage'[unit.id] = failed
      /\ \A id \in Ids \ {unit.id} : storage'[id] = unit.before.storage[id]
  BY <1>1, <1>3, <1>4 DEF Storages, failed
<1> QED
  BY <1>1, <1>2, <1>3, <1>4, <1>5 DEF failed

\* So the invariant is kept.
LEMMA RollBackKeeps ==
  ASSUME EngineInv, RollBack
  PROVE  EngineInv'
<1>1. /\ unit # NoUnit /\ storage' \in Storages /\ storage'[unit.id] \in Stored
      /\ \A id \in Ids \ {unit.id} : storage'[id] = storage[id]
      /\ aggregates' = unit.before.aggregates /\ unit' = NoUnit
      /\ UNCHANGED <<contexts, stack, dispatched, deliveries, effects>>
  BY RollBackDoes
<1>2. Kept
  BY <1>1, NoSagaAssumption DEF Kept
<1>3. LoopsGoOn(stack')
  BY <1>1, <1>2, AllGoOn DEF EngineInv
<1>4. aggregates' \in SUBSET Aggregated
  BY <1>1, RunningUnit DEF UnitsOfWork
<1> QED
  BY <1>1, <1>3, <1>4, EndKeeps

\* Every step.
LEMMA StepKeeps == EngineInv /\ [Next]_vars => EngineInv'
<1> SUFFICES ASSUME EngineInv, [Next]_vars PROVE EngineInv'
  OBVIOUS
<1>1. CASE UNCHANGED vars
  <2>1. Kept /\ UNCHANGED <<storage, aggregates, contexts, unit, stack, dispatched, deliveries, effects>>
    BY <1>1, QuietKept DEF vars
  <2> QED
    BY <2>1, AllGoOn, QuietTypes, QuietKeeps DEF EngineInv
<1>2. ASSUME NEW event \in Events, Deliver(event) \/ Publish(event) PROVE EngineInv'
  BY <1>2, ArriveKeeps
<1>3. CASE Loop
  BY <1>3, StopKeeps, StartSagaKeeps, ResolveKeeps, ReactKeeps, ReturnKeeps, DispatchKeeps DEF Loop
<1>4. CASE Client
  BY <1>4, RecordKeeps, ClientKeeps DEF Client
<1>5. CASE StepEnds
  BY <1>5, ReturnsKeep, RunQueuedKeeps, RollBackKeeps DEF StepEnds
<1>6. CASE Resume
  BY <1>6, StopKeeps
<1> QED
  BY <1>1, <1>2, <1>3, <1>4, <1>5, <1>6 DEF Next

\* The invariant of the engine.
LEMMA Invariant == Spec => []EngineInv
<1>1. Init => EngineInv
  BY InitEngineInv
<1>2. EngineInv /\ [Next]_vars => EngineInv'
  BY StepKeeps
<1> QED
  BY <1>1, <1>2, PTL DEF Spec

\* The types of the engine's state.
THEOREM Typed == Spec => []TypeOK
<1>1. EngineInv => TypeOK
  BY DEF EngineInv
<1> QED
  BY <1>1, Invariant, PTL

\* However deliveries nest, units roll back and steps end sagas, a unit of work
\* runs on an instance that is not terminal, and found it so: no call of
\* SagaLifecycle in a unit of work is rejected, nor is the FAILED write.
THEOREM RunsOnActive == Spec => []UnitRunsOnActive
<1>1. EngineInv => UnitRunsOnActive
  BY DEF EngineInv, UnitInv, FoundSaga, UnitRunsOnActive
<1> QED
  BY <1>1, Invariant, PTL

\* Every context record belongs to a stored instance.
THEOREM ContextsBelong == Spec => []ContextsHaveSagas
<1>1. EngineInv => ContextsHaveSagas
  BY DEF EngineInv, ContextInv, ContextsHaveSagas
<1> QED
  BY <1>1, Invariant, PTL

-----------------------------------------------------------------------------
(* One active saga per association.                                         *)

\* OneActivePerAssociation of the stores s.
OneActiveIn(s) ==
  \A a, b \in Ids :
    /\ s[a] # NoSaga /\ s[b] # NoSaga
    /\ SameSaga(s[a], s[b])
    /\ Active(s[a]) /\ Active(s[b])
    => a = b

\* Every saga that is active after the step was so before, as the same saga.
OnlyMoves ==
  \A id \in Ids :
    storage'[id] # NoSaga /\ Active(storage'[id]) =>
      storage[id] # NoSaga /\ Active(storage[id]) /\ SameSaga(storage'[id], storage[id])

\* The two forms of the property.
LEMMA OneActiveForms == OneActivePerAssociation <=> OneActiveIn(storage)
BY DEF OneActivePerAssociation, OneActiveIn, SameSaga

\* Sagas that move on get no double.
LEMMA MovesKeepOne ==
  ASSUME OneActivePerAssociation, OnlyMoves
  PROVE  OneActivePerAssociation'
BY DEF OneActivePerAssociation, OnlyMoves, SameSaga

\* Storing what the running saga has become moves it.
LEMMA StoringMoves ==
  ASSUME EngineInv, unit # NoUnit, NEW saga \in Stored,
         SameSaga(saga, FoundSaga) \/ ~ Active(saga),
         storage'[unit.id] = saga, \A id \in Ids \ {unit.id} : storage'[id] = storage[id]
  PROVE  OnlyMoves
<1>1. /\ unit.id \in Ids /\ storage[unit.id] \in Stored /\ Active(storage[unit.id])
      /\ SameSaga(FoundSaga, storage[unit.id])
  BY RunningUnit
<1> HIDE DEF FoundSaga
<1>2. SameSaga(saga, FoundSaga) => SameSaga(saga, storage[unit.id])
  BY <1>1 DEF SameSaga
<1>3. \A id \in Ids : SameSaga(storage[id], storage[id])
  BY DEF SameSaga
<1> QED
  BY <1>1, <1>2, <1>3, NoSagaAssumption DEF OnlyMoves

\* The ends of a step move its saga.
LEMMA EndsMove ==
  ASSUME EngineInv, StepEnds
  PROVE  OnlyMoves
<1>1. ASSUME unit # NoUnit, NEW saga \in Stored, SameSaga(saga, FoundSaga),
             storage' = [storage EXCEPT ![unit.id] = saga]
      PROVE  OnlyMoves
  BY <1>1, StoresUnit, StoringMoves
<1>2. CASE ReachEnd
  <2>1. unit # NoUnit /\ storage' = [storage EXCEPT ![unit.id] = Completed(AfterStep, unit.step)]
    BY <1>2 DEF ReachEnd, StepReturns, CommitAs
  <2>2. Completed(AfterStep, unit.step) \in Stored /\ SameSaga(Completed(AfterStep, unit.step), FoundSaga)
    BY <2>1, AfterStepIsStored, CompletedIsStored DEF SameSaga
  <2> QED
    BY <1>1, <2>1, <2>2
<1>3. CASE Wait
  <2>1. unit # NoUnit /\ storage' = [storage EXCEPT ![unit.id] = Advanced(AfterStep)]
    BY <1>3 DEF Wait, StepReturns, CommitAs
  <2>2. Advanced(AfterStep) \in Stored /\ SameSaga(Advanced(AfterStep), FoundSaga)
    BY <2>1, AfterStepIsStored, AdvancedIsStored DEF SameSaga
  <2> QED
    BY <1>1, <2>1, <2>2
<1>4. CASE RunQueued
  BY <1>1, <1>4, AfterStepIsStored DEF RunQueued, StepReturns
<1>5. CASE RollBack
  BY <1>5, RollBackDoes, RunningUnit, FailedIsStored, StoringMoves
<1> QED
  BY <1>2, <1>3, <1>4, <1>5 DEF StepEnds

\* A new saga has no double, for start looks for one.
LEMMA StartSagaKeepsOne ==
  ASSUME EngineInv, OneActivePerAssociation, StartSaga
  PROVE  OneActivePerAssociation'
<1>1. CASE UNCHANGED <<storage, unit>>
  BY <1>1 DEF OneActivePerAssociation
<1>2. ASSUME NEW id \in Ids, NEW step \in StartSteps, NEW value \in Values \ {None},
             NEW new \in Stored, Starts(id, step, value, new)
      PROVE  OneActivePerAssociation'
  <2>1. storage'[id] = new /\ \A other \in Ids \ {id} : storage'[other] = storage[other]
    BY <1>2 DEF Starts, EngineInv, TypeOK, Storages
  <2>2. \A other \in Ids \ {id} :
          /\ storage[other] # NoSaga /\ storage[other].type = new.type
          /\ storage[other].associations = new.associations
          => ~ Active(storage[other])
    BY <1>2 DEF Starts
  <2> QED
    BY <2>1, <2>2 DEF OneActivePerAssociation
<1> QED
  BY <1>1, <1>2, StartSagaDoes DEF EngineInv

\* Every step.
LEMMA StepKeepsOne ==
  EngineInv /\ OneActivePerAssociation /\ [Next]_vars => OneActivePerAssociation'
<1> SUFFICES ASSUME EngineInv, OneActivePerAssociation, [Next]_vars PROVE OneActivePerAssociation'
  OBVIOUS
<1>1. ASSUME UNCHANGED storage PROVE OneActivePerAssociation'
  BY <1>1 DEF OneActivePerAssociation
<1>2. CASE StartSaga
  BY <1>2, StartSagaKeepsOne
<1>3. CASE StepEnds
  BY <1>3, EndsMove, MovesKeepOne
<1>4. CASE UNCHANGED vars
  BY <1>1, <1>4 DEF vars
<1>5. ASSUME NEW event \in Events, Deliver(event) \/ Publish(event) \/ Record(event)
      PROVE  UNCHANGED storage
  BY <1>5 DEF Deliver, Publish, Arrive, Record, Effect
<1>6. ASSUME SendCommand \/ FailCommand \/ PutState PROVE UNCHANGED storage
  BY <1>6 DEF SendCommand, FailCommand, PutState, Effect
<1>7. ASSUME ThrowMissingValue \/ Resolve \/ React \/ Return \/ Dispatch \/ Resume
      PROVE  UNCHANGED storage
  BY <1>7 DEF ThrowMissingValue, Resolve, React, Return, Dispatch, Resume
<1> QED
  BY <1>1, <1>2, <1>3, <1>4, <1>5, <1>6, <1>7 DEF Next, Loop, Client

\* However often start events are delivered, published again or rolled back,
\* two active sagas of a type never have the same association map, if what the
\* harness starts with has no such pair.
THEOREM OneActive ==
  ASSUME \A s \in InitialStorages : OneActiveIn(s)
  PROVE  Spec => []OneActivePerAssociation
<1>1. Init => OneActivePerAssociation
  BY OneActiveForms DEF Init
<1>2. EngineInv /\ OneActivePerAssociation /\ [Next]_vars => OneActivePerAssociation'
  BY StepKeepsOne
<1> QED
  BY <1>1, <1>2, Invariant, PTL DEF Spec

-----------------------------------------------------------------------------
(* Units of work are atomic: every step is one of AtomicUnits, or none.     *)

\* A stored instance without its type.
View(saga) ==
  IF saga = NoSaga THEN NoSaga ELSE [row |-> saga.row, associations |-> saga.associations]

\* The storage and the aggregates that the running unit found.
FoundStorage == IF unit = NoUnit THEN storage ELSE unit.before.storage

FoundAggregates == IF unit = NoUnit THEN aggregates ELSE unit.before.aggregates

\* What a loop still has to dispatch, and what loops have.
EventsOf(frame) == IF frame.kind = "dispatch" THEN frame.events ELSE <<>>

OutboxOf(loops) == FlattenSeq([i \in DOMAIN loops |-> EventsOf(loops[i])])

\* Committed, saga by saga.
LEMMA CommittedIs ==
  /\ Committed = [id \in Ids |-> View(FoundStorage[id])]
  /\ \A id \in Ids : Committed[id] = View(FoundStorage[id])
BY DEF Committed, View, FoundStorage

\* An instance as the contract sees it.
LEMMA ViewIsInstance ==
  ASSUME NEW saga \in Stored
  PROVE  /\ View(saga) \in Instances /\ View(saga) # NoSaga /\ saga # NoSaga
         /\ View(saga).row = saga.row /\ View(saga).associations = saga.associations
<1>1. saga # NoSaga /\ saga.row \in Rows /\ saga.associations \in AssociationSets
  BY StoredParts
<1>2. View(saga) = [row |-> saga.row, associations |-> saga.associations]
  BY <1>1 DEF View
<1>3. View(saga) \in Instances
  BY <1>1, <1>2 DEF Instances
<1> QED
  BY <1>1, <1>2, <1>3, NoSagaAssumption

\* The events of a loop, and of a loop on top of others.
LEMMA EventsOfType ==
  ASSUME NEW frame \in Frames
  PROVE  EventsOf(frame) \in Seq(Events)
<1>1. <<>> \in Seq(Events)
  OBVIOUS
<1> QED
  BY <1>1 DEF EventsOf, Frames

\* The outbox of loops is what the innermost holds, and then the rest.
LEMMA OutboxPush ==
  ASSUME NEW f \in Frames, NEW loops \in Seq(Frames)
  PROVE  /\ OutboxOf(loops) \in Seq(Events)
         /\ OutboxOf(<<f>> \o loops) = EventsOf(f) \o OutboxOf(loops)
<1> DEFINE each == [i \in DOMAIN loops |-> EventsOf(loops[i])]
           all  == <<f>> \o loops
           eachOfAll == [i \in DOMAIN all |-> EventsOf(all[i])]
<1>1. EventsOf(f) \in Seq(Events)
  BY EventsOfType
<1>2. each \in Seq(Seq(Events)) /\ Len(each) = Len(loops)
  <2>1. DOMAIN loops = 1 .. Len(loops) /\ Len(loops) \in Nat
    OBVIOUS
  <2>2. \A i \in DOMAIN loops : EventsOf(loops[i]) \in Seq(Events)
    BY EventsOfType
  <2>3. each \in [1 .. Len(loops) -> Seq(Events)]
    BY <2>1, <2>2
  <2> QED
    BY <2>1, <2>3
<1>3. /\ DOMAIN all = 1 .. Len(loops) + 1 /\ all[1] = f
      /\ \A i \in 1 .. Len(loops) : all[i + 1] = loops[i]
      /\ Len(loops) \in Nat /\ DOMAIN loops = 1 .. Len(loops)
  OBVIOUS
<1> DEFINE joined == <<EventsOf(f)>> \o each
<1>4. eachOfAll = joined
  <2>1. /\ DOMAIN joined = 1 .. Len(loops) + 1 /\ joined[1] = EventsOf(f)
        /\ \A i \in 1 .. Len(loops) : joined[i + 1] = each[i]
        /\ joined = [i \in 1 .. Len(loops) + 1 |-> joined[i]]
    <3> HIDE DEF each
    <3> QED
      BY <1>1, <1>2
  <2> HIDE DEF joined, all
  <2>2. ASSUME NEW i \in 1 .. Len(loops) + 1 PROVE joined[i] = EventsOf(all[i])
    <3>1. CASE i = 1
      BY <1>3, <2>1, <3>1
    <3>2. CASE i # 1
      <4>1. i - 1 \in 1 .. Len(loops) /\ (i - 1) + 1 = i
        BY <1>3, <3>2
      <4>2. joined[i] = each[i - 1] /\ all[i] = loops[i - 1]
        BY <1>3, <2>1, <4>1
      <4> QED
        BY <1>3, <4>1, <4>2
    <3> QED
      BY <3>1, <3>2
  <2>3. joined = [i \in 1 .. Len(loops) + 1 |-> EventsOf(all[i])]
    BY <2>1, <2>2
  <2> QED
    BY <1>3, <2>3
<1>5. FlattenSeq(joined) = EventsOf(f) \o FlattenSeq(each)
  <2> HIDE DEF each
  <2> QED
    BY <1>1, <1>2, FlattenFront
<1>6. FlattenSeq(each) \in Seq(Events)
  <2> HIDE DEF each
  <2> QED
    BY <1>2, FlattenType
<1>7. OutboxOf(all) = FlattenSeq(eachOfAll) /\ OutboxOf(loops) = FlattenSeq(each)
  BY DEF OutboxOf
<1> HIDE DEF each, eachOfAll, joined
<1> QED
  BY <1>4, <1>5, <1>6, <1>7

\* No loop, nothing to dispatch.
LEMMA OutboxNothing == OutboxOf(<<>>) = <<>>
<1>1. [i \in DOMAIN <<>> |-> EventsOf(<<>>[i])] = <<>>
  OBVIOUS
<1> QED
  BY <1>1, FlattenNothing DEF OutboxOf

\* The outbox before and after a step.
LEMMA OutboxIs == Outbox = OutboxOf(stack) /\ Outbox' = OutboxOf(stack')
BY DEF Outbox, OutboxOf, EventsOf

\* Adding nothing.
LEMMA NothingJoins ==
  ASSUME NEW S, NEW s \in Seq(S)
  PROVE  <<>> \o s = s
OBVIOUS

\* A loop that delivers, or has nothing left, holds back no event.
LEMMA QuietPush ==
  ASSUME NEW f \in Frames, EventsOf(f) = <<>>, NEW loops \in Seq(Frames)
  PROVE  OutboxOf(<<f>> \o loops) = OutboxOf(loops)
BY OutboxPush, NothingJoins

\* The outbox of the innermost loop and of those around it.
LEMMA OutboxSplits ==
  ASSUME TypeOK, stack # <<>>
  PROVE  /\ Head(stack) \in Frames /\ Tail(stack) \in Seq(Frames)
         /\ Outbox = EventsOf(Head(stack)) \o OutboxOf(Tail(stack))
<1>1. /\ Head(stack) \in Frames /\ Tail(stack) \in Seq(Frames)
      /\ stack = <<Head(stack)>> \o Tail(stack)
  BY Loops
<1>2. OutboxOf(<<Head(stack)>> \o Tail(stack)) = EventsOf(Head(stack)) \o OutboxOf(Tail(stack))
  BY <1>1, OutboxPush
<1> QED
  BY <1>1, <1>2, OutboxIs

\* The state of AtomicUnits does not change.
Unseen ==
  /\ FoundStorage' = FoundStorage /\ FoundAggregates' = FoundAggregates
  /\ contexts' = contexts /\ Outbox' = Outbox /\ dispatched' = dispatched

\* Then AtomicUnits stutters.
LEMMA UnseenStutters == Unseen => UNCHANGED Units!vars
<1> SUFFICES ASSUME Unseen PROVE UNCHANGED Units!vars
  OBVIOUS
<1>1. Committed' = Committed
  BY CommittedIs DEF Unseen, Committed, FoundStorage
<1>2. FoundAggregates' = FoundAggregates /\ UNCHANGED <<contexts, Outbox, dispatched>>
  BY DEF Unseen
<1> QED
  BY <1>1, <1>2 DEF Units!vars, FoundAggregates

\* Outside units of work, what is stored is what is found; and beginning one
\* changes nothing that is found.
LEMMA FoundOutside ==
  ASSUME unit = NoUnit
  PROVE  /\ FoundStorage = storage /\ FoundAggregates = aggregates
         /\ UNCHANGED <<storage, aggregates, unit>>
              => FoundStorage' = FoundStorage /\ FoundAggregates' = FoundAggregates
         /\ unit' # NoUnit /\ unit'.before.storage = storage /\ unit'.before.aggregates = aggregates
              => FoundStorage' = FoundStorage /\ FoundAggregates' = FoundAggregates
BY DEF FoundStorage, FoundAggregates

\* A new harness.
LEMMA InitIsAtomic == Init => Units!Init
<1> SUFFICES ASSUME Init PROVE Units!Init
  OBVIOUS
<1>1. /\ storage \in [Ids -> Stored \cup {NoSaga}] /\ aggregates = {} /\ unit = NoUnit
      /\ contexts = [id \in Ids |-> None] /\ stack = <<>> /\ dispatched = <<>>
  BY InitialStoragesAssumption DEF Init
<1>2. \A id \in Ids : View(storage[id]) \in Instances \cup {NoSaga}
  BY <1>1, ViewIsInstance DEF View
<1>3. Committed = [id \in Ids |-> View(storage[id])]
  BY <1>1, CommittedIs DEF FoundStorage
<1>4. Committed \in [Ids -> Instances \cup {NoSaga}]
  BY <1>2, <1>3
<1>5. Outbox = <<>>
  BY <1>1, OutboxIs, OutboxNothing
<1> QED
  BY <1>1, <1>4, <1>5 DEF Units!Init, Units!Instances, Instances, Units!Rows, Rows,
     Units!StepRecords, StepRecords, Units!Statuses, Statuses

\* An event from outside.
LEMMA ArriveIsAtomic ==
  ASSUME EngineInv, NEW event \in Events, Deliver(event) \/ Publish(event)
  PROVE  [Units!Next]_Units!vars
<1>1. /\ unit = NoUnit /\ stack = <<>> /\ stack' = <<DeliveryOf(event)>>
      /\ UNCHANGED <<storage, aggregates, contexts, unit>>
      /\ \/ dispatched' = dispatched
         \/ dispatched' = Append(dispatched, event)
  BY DEF Deliver, Publish, Arrive
<1>2. FoundStorage' = FoundStorage /\ FoundAggregates' = FoundAggregates
  BY <1>1, FoundOutside
<1>3. Outbox' = Outbox
  <2> DEFINE f == DeliveryOf(event)
  <2>1. f \in Frames /\ f.kind = "deliver"
    BY DeliveryIsFrame
  <2>2. EventsOf(f) = <<>>
    BY <2>1 DEF EventsOf
  <2> HIDE DEF f
  <2>3. <<>> \in Seq(Frames) /\ <<f>> = <<f>> \o <<>>
    BY <2>1
  <2>4. OutboxOf(<<f>>) = OutboxOf(<<>>)
    BY <2>1, <2>2, <2>3, QuietPush
  <2> QED
    BY <1>1, <2>4, OutboxIs DEF f
<1>4. CASE dispatched' = dispatched
  BY <1>1, <1>2, <1>3, <1>4, UnseenStutters DEF Unseen
<1>5. CASE dispatched' = Append(dispatched, event)
  <2>1. Committed' = Committed
    BY <1>2 DEF Committed, FoundStorage
  <2>2. Units!Publish(event)
    BY <1>1, <1>2, <1>3, <1>5, <2>1 DEF Units!Publish, FoundAggregates
  <2> QED
    BY <2>2 DEF Units!Next
<1> QED
  BY <1>1, <1>4, <1>5

\* Loops end without having dispatched all.
LEMMA StopIsAtomic ==
  ASSUME EngineInv, ThrowMissingValue \/ Resume
  PROVE  [Units!Next]_Units!vars
<1>1. /\ unit = NoUnit /\ stack' = <<>>
      /\ UNCHANGED <<storage, aggregates, contexts, unit, dispatched>>
  BY DEF ThrowMissingValue, Resume, NextStep, Running
<1>2. FoundStorage' = FoundStorage /\ FoundAggregates' = FoundAggregates
  BY <1>1, FoundOutside
<1>3. Committed' = Committed
  BY <1>2 DEF Committed, FoundStorage
<1>4. Outbox' = <<>>
  BY <1>1, OutboxIs, OutboxNothing
<1>5. Units!Abandon
  BY <1>1, <1>2, <1>3, <1>4 DEF Units!Abandon, FoundAggregates
<1> QED
  BY <1>5 DEF Units!Next

\* A delivery loop goes on.
LEMMA DeliveryGoesOn ==
  ASSUME TypeOK, Running("deliver"), NEW f \in Frames, f.kind = "deliver",
         stack' = <<f>> \o Tail(stack)
  PROVE  Outbox' = Outbox
<1>1. stack # <<>> /\ Head(stack).kind = "deliver"
  BY DEF Running
<1>2. /\ Head(stack) \in Frames /\ Tail(stack) \in Seq(Frames)
      /\ Outbox = EventsOf(Head(stack)) \o OutboxOf(Tail(stack))
  BY <1>1, OutboxSplits
<1>3. EventsOf(Head(stack)) = <<>> /\ EventsOf(f) = <<>>
  BY <1>1 DEF EventsOf
<1>4. OutboxOf(Tail(stack)) \in Seq(Events)
  BY <1>2, OutboxPush
<1>5. Outbox = OutboxOf(Tail(stack))
  BY <1>2, <1>3, <1>4, NothingJoins
<1>6. OutboxOf(stack') = OutboxOf(Tail(stack))
  BY <1>2, <1>3, QuietPush
<1> QED
  BY <1>5, <1>6, OutboxIs

\* A unit of work begins, or none does.
LEMMA BeginIsUnseen ==
  ASSUME TypeOK, unit = NoUnit, UNCHANGED <<aggregates, contexts, dispatched>>, Outbox' = Outbox,
         \/ UNCHANGED <<storage, unit>>
         \/ \E id \in Ids, step \in Steps, started \in Stored \cup {NoSaga} : Begin(id, step, started)
  PROVE  UNCHANGED Units!vars
<1>1. ASSUME NEW id \in Ids, NEW step \in Steps, NEW started \in Stored \cup {NoSaga},
             Begin(id, step, started)
      PROVE  FoundStorage' = FoundStorage /\ FoundAggregates' = FoundAggregates
  BY <1>1, BeginsTyped, FoundOutside
<1>2. CASE UNCHANGED <<storage, unit>>
  BY <1>2, FoundOutside, UnseenStutters DEF Unseen
<1>3. CASE \E id \in Ids, step \in Steps, started \in Stored \cup {NoSaga} : Begin(id, step, started)
  BY <1>1, <1>3, UnseenStutters DEF Unseen
<1> QED
  BY <1>2, <1>3

\* The steps of a delivery loop.
LEMMA DeliveryIsAtomic ==
  ASSUME EngineInv, StartSaga \/ Resolve \/ React
  PROVE  UNCHANGED Units!vars
<1>1. CASE StartSaga
  <2>1. /\ Running("deliver") /\ UNCHANGED <<aggregates, contexts, dispatched>>
        /\ \E f \in Frames : f.kind = "deliver" /\ stack' = <<f>> \o Tail(stack)
    BY <1>1, StartSagaDoes DEF EngineInv
  <2>2. Outbox' = Outbox /\ unit = NoUnit
    BY <2>1, DeliveryGoesOn, RunningDelivery DEF EngineInv
  <2>3. CASE UNCHANGED <<storage, unit>>
    BY <2>1, <2>2, <2>3, BeginIsUnseen DEF EngineInv
  <2>4. ASSUME NEW id \in Ids, NEW step \in StartSteps, NEW value \in Values \ {None},
               NEW new \in Stored, Starts(id, step, value, new)
        PROVE  UNCHANGED Units!vars
    <3>1. Begin(id, step, new) /\ step \in Steps /\ new \in Stored \cup {NoSaga}
      BY <2>4, StartStepsAssumption DEF Starts
    <3> QED
      BY <2>1, <2>2, <3>1, BeginIsUnseen DEF EngineInv
  <2> QED
    BY <1>1, <2>3, <2>4, StartSagaDoes DEF EngineInv
<1>2. CASE Resolve
  <2> DEFINE frame == Head(stack)
             step  == Head(frame.steps)
             found == ActiveIds(Correlated(frame.event, step))
             next  == IF found = {} THEN [frame EXCEPT !.steps = Tail(@)]
                      ELSE [frame EXCEPT !.ids = found]
  <2>1. /\ NextStep /\ stack' = <<next>> \o Tail(stack)
        /\ UNCHANGED <<storage, aggregates, contexts, unit, dispatched>>
    BY <1>2 DEF Resolve, GoOn
  <2>2. Running("deliver") /\ frame.steps # <<>>
    BY <2>1 DEF NextStep
  <2>3. /\ unit = NoUnit
        /\ frame \in [kind : {"deliver"}, event : Events, steps : Seq(Steps), ids : SUBSET Ids]
    BY <2>2, RunningDelivery DEF EngineInv
  <2>4. found \subseteq Ids
    BY DEF ActiveIds, Correlated
  <2> HIDE DEF found, frame
  <2>5. Tail(frame.steps) \in Seq(Steps)
    BY <2>2, <2>3
  <2>6. next \in [kind : {"deliver"}, event : Events, steps : Seq(Steps), ids : SUBSET Ids]
    BY <2>3, <2>4, <2>5
  <2> HIDE DEF next
  <2>7. next \in Frames /\ next.kind = "deliver"
    BY <2>6 DEF Frames
  <2>8. Outbox' = Outbox
    BY <2>1, <2>2, <2>7, DeliveryGoesOn DEF EngineInv
  <2> QED
    BY <2>1, <2>3, <2>8, BeginIsUnseen DEF EngineInv
<1>3. CASE React
  <2>1. /\ Running("deliver") /\ UNCHANGED <<storage, aggregates, contexts, dispatched>>
        /\ \E f \in Frames : f.kind = "deliver" /\ stack' = <<f>> \o Tail(stack)
        /\ \/ UNCHANGED unit
           \/ \E id \in Ids, step \in Steps : Begin(id, step, NoSaga)
    BY <1>3, ReactDoes
  <2>2. Outbox' = Outbox /\ unit = NoUnit
    BY <2>1, DeliveryGoesOn, RunningDelivery DEF EngineInv
  <2> QED
    BY <2>1, <2>2, BeginIsUnseen DEF EngineInv
<1> QED
  BY <1>1, <1>2, <1>3

\* A loop with nothing left returns.
LEMMA ReturnIsAtomic ==
  ASSUME EngineInv, Return
  PROVE  UNCHANGED Units!vars
<1>1. /\ unit = NoUnit /\ stack # <<>> /\ stack' = Tail(stack)
      /\ UNCHANGED <<storage, aggregates, contexts, unit, dispatched>>
      /\ Head(stack) \in [kind : {"deliver"}, event : Events, steps : {<<>>}, ids : {{}}]
                           \cup {DispatchOf(<<>>)}
  BY DEF Return
<1>2. EventsOf(Head(stack)) = <<>>
  BY <1>1 DEF EventsOf, DispatchOf
<1>3. /\ Head(stack) \in Frames /\ Tail(stack) \in Seq(Frames)
      /\ Outbox = EventsOf(Head(stack)) \o OutboxOf(Tail(stack))
  BY <1>1, OutboxSplits DEF EngineInv
<1>4. OutboxOf(Tail(stack)) \in Seq(Events)
  BY <1>3, OutboxPush
<1>5. Outbox = OutboxOf(Tail(stack))
  BY <1>2, <1>3, <1>4, NothingJoins
<1>6. Outbox' = Outbox
  BY <1>1, <1>5, OutboxIs
<1> QED
  BY <1>1, <1>6, BeginIsUnseen DEF EngineInv

\* A non-empty sequence in front of another gives its head first.
LEMMA HeadFirst ==
  ASSUME NEW S, NEW a \in Seq(S), a # <<>>, NEW b \in Seq(S)
  PROVE  /\ a \o b # <<>> /\ Head(a \o b) = Head(a) /\ Tail(a \o b) = Tail(a) \o b
         /\ Tail(a) \in Seq(S)
<1>1. a \o b # <<>> /\ Head(a \o b) = Head(a) /\ Tail(a) \in Seq(S)
  OBVIOUS
<1>2. Tail(a \o b) = Tail(a) \o b
  OBVIOUS
<1> QED
  BY <1>1, <1>2

\* The next event of a dispatch loop is the next of the outbox.
LEMMA DispatchIsAtomic ==
  ASSUME EngineInv, Dispatch
  PROVE  Units!Dispatch
<1> DEFINE events == Head(stack).events
           event  == Head(events)
           less   == DispatchOf(Tail(events))
           rest   == <<less>> \o Tail(stack)
           again  == DeliveryOf(event)
<1>1. /\ Running("dispatch") /\ events # <<>>
      /\ dispatched' = Append(dispatched, event)
      /\ stack' = rest \/ stack' = <<again>> \o rest
      /\ UNCHANGED <<storage, aggregates, contexts, unit>>
  BY DEF Dispatch
<1>2. /\ unit = NoUnit /\ stack # <<>> /\ events \in Seq(Events)
      /\ Head(stack).kind = "dispatch"
  BY <1>1, RunningDispatch DEF EngineInv, Running
<1>3. EventsOf(Head(stack)) = events
  BY <1>2 DEF EventsOf
<1> DEFINE inner == OutboxOf(Tail(stack))
<1>4. Tail(stack) \in Seq(Frames) /\ Outbox = events \o inner
  BY <1>2, <1>3, OutboxSplits DEF EngineInv
<1>5. inner \in Seq(Events)
  BY <1>2, <1>4, OutboxPush, OutboxSplits DEF EngineInv
<1> HIDE DEF events, inner
<1>6. /\ Outbox # <<>> /\ Head(Outbox) = event /\ Tail(Outbox) = Tail(events) \o inner
      /\ Tail(events) \in Seq(Events) /\ event \in Events
  BY <1>1, <1>2, <1>4, <1>5, HeadFirst
<1>7. less \in Frames /\ EventsOf(less) = Tail(events)
  <2>1. less \in Frames /\ less.kind = "dispatch"
    BY <1>6, DispatchIsFrame
  <2> QED
    BY <2>1 DEF EventsOf, DispatchOf
<1>8. again \in Frames /\ EventsOf(again) = <<>>
  BY <1>6, DeliveryIsFrame DEF EventsOf
<1> HIDE DEF less, again
<1>9. OutboxOf(rest) = Tail(events) \o inner /\ rest \in Seq(Frames)
  <2>1. PICK loops : loops = Tail(stack)
    OBVIOUS
  <2>2. loops \in Seq(Frames) /\ rest = <<less>> \o loops /\ inner = OutboxOf(loops)
    BY <1>4, <2>1 DEF inner
  <2>3. OutboxOf(<<less>> \o loops) = EventsOf(less) \o OutboxOf(loops)
    BY <1>7, <2>2, OutboxPush
  <2>4. <<less>> \o loops \in Seq(Frames)
    BY <1>7, <2>2, PushFrame
  <2> HIDE DEF rest
  <2> QED
    BY <1>7, <2>2, <2>3, <2>4
<1> HIDE DEF rest
<1>10. OutboxOf(<<again>> \o rest) = OutboxOf(rest)
  BY <1>8, <1>9, QuietPush
<1>11. Outbox' = Tail(Outbox)
  BY <1>1, <1>6, <1>9, <1>10, OutboxIs
<1>12. /\ FoundStorage' = FoundStorage /\ FoundAggregates' = FoundAggregates
  BY <1>1, <1>2, FoundOutside
<1>13. Committed' = Committed
  BY <1>12 DEF Committed, FoundStorage
<1> QED
  BY <1>1, <1>6, <1>11, <1>12, <1>13 DEF Units!Dispatch, FoundAggregates

\* Within a unit of work nothing is seen but the writes of the context store.
LEMMA WithinIsUnseen ==
  ASSUME EngineInv, unit # NoUnit, SameUnit(unit'), UNCHANGED <<stack, dispatched>>
  PROVE  /\ Committed' = Committed /\ FoundAggregates' = FoundAggregates
         /\ Outbox' = Outbox /\ dispatched' = dispatched
         /\ UNCHANGED contexts => UNCHANGED Units!vars
<1>1. unit' # NoUnit /\ unit'.before = unit.before
  BY NoUnitAssumption DEF SameUnit
<1>2. FoundStorage' = FoundStorage /\ FoundAggregates' = FoundAggregates
  BY <1>1 DEF FoundStorage, FoundAggregates
<1>3. Committed' = Committed
  BY <1>2 DEF Committed, FoundStorage
<1>4. Outbox' = Outbox
  BY OutboxIs
<1> QED
  BY <1>2, <1>3, <1>4, UnseenStutters DEF Unseen

\* What client code does in a unit of work.
LEMMA ClientIsAtomic ==
  ASSUME EngineInv, Client
  PROVE  [Units!Next]_Units!vars
<1>1. /\ unit # NoUnit /\ UNCHANGED <<stack, dispatched>>
  BY DEF Client, Record, SendCommand, FailCommand, PutState, Effect
<1>2. SameUnit(unit)
  BY <1>1, RunningUnit DEF SameUnit
<1>3. SameUnit(unit')
  <2>1. [unit EXCEPT !.rollbackOnly = TRUE] \in UnitsOfWork
    BY <1>2 DEF SameUnit, UnitsOfWork
  <2>2. SameUnit([unit EXCEPT !.rollbackOnly = TRUE])
    BY <1>2, <2>1 DEF SameUnit, UnitsOfWork
  <2> QED
    BY <1>2, <2>2, RecordDoes DEF Client, SendCommand, FailCommand, PutState
<1>4. CASE UNCHANGED contexts
  BY <1>1, <1>3, <1>4, WithinIsUnseen
<1>5. CASE PutState
  <2>1. unit.id \in Ids
    BY <1>1, RunningUnit
  <2>2. PICK c \in Contexts : contexts' = [contexts EXCEPT ![unit.id] = c]
    BY <1>5 DEF PutState
  <2>3. Units!WriteContext(unit.id)
    BY <1>1, <1>3, <2>2, WithinIsUnseen DEF Units!WriteContext, FoundAggregates
  <2> QED
    BY <2>1, <2>3 DEF Units!Next
<1>6. UNCHANGED contexts \/ PutState
  BY DEF Client, Record, SendCommand, FailCommand
<1> QED
  BY <1>4, <1>5, <1>6

\* The next step of a unit of work is not seen either.
LEMMA RunQueuedIsUnseen ==
  ASSUME EngineInv, RunQueued
  PROVE  UNCHANGED Units!vars
<1>1. unit # NoUnit /\ UNCHANGED <<aggregates, contexts, stack, dispatched>>
  BY DEF RunQueued, StepReturns
<1>2. SameUnit(unit')
  BY RunQueuedDoes
<1> QED
  BY <1>1, <1>2, WithinIsUnseen

\* A unit of work commits the progress of its saga with everything else.
LEMMA CommitIsAtomic ==
  ASSUME EngineInv, unit # NoUnit, NEW saga \in Stored, CommitAs(saga),
         SameSaga(saga, FoundSaga), saga.row.status \in {"RUNNING", "COMPLETED"},
         CompletedSteps(FoundSaga.row) \subseteq CompletedSteps(saga.row),
         unit.step \in CompletedSteps(saga.row), saga.row.outcome \in {unit.step, None}
  PROVE  Units!Commit(unit.id)
<1>1. /\ storage' = [storage EXCEPT ![unit.id] = saga] /\ unit' = NoUnit
      /\ stack' = <<DispatchOf(Undelivered)>> \o stack
      /\ UNCHANGED <<aggregates, contexts, dispatched>>
  BY DEF CommitAs
<1> DEFINE id == unit.id
           found == unit.before.storage[id]
<1>2. /\ unit \in UnitsOfWork /\ id \in Ids
      /\ FoundSaga \in Stored /\ Active(FoundSaga)
      /\ unit.started # NoSaga => found = NoSaga
      /\ \A other \in Ids \ {id} : storage[other] = unit.before.storage[other]
  BY RunningUnit
<1>3. /\ storage'[id] = saga
      /\ \A other \in Ids \ {id} : storage'[other] = storage[other]
  BY <1>1, StoresUnit
<1>4. /\ found = NoSaga \/ found = FoundSaga
  BY <1>2 DEF FoundSaga
<1>5. /\ Committed[id] = View(found)
      /\ \A other \in Ids : Committed[other] = View(unit.before.storage[other])
  BY <1>2, CommittedIs DEF FoundStorage
<1>6. /\ Committed'[id] = View(saga)
      /\ \A other \in Ids : Committed'[other] = View(storage'[other])
  <2>1. Committed' = [i \in Ids |-> View(storage'[i])]
    BY <1>1 DEF Committed, View
  <2> QED
    BY <1>2, <1>3, <2>1
<1>7. \A other \in Ids \ {id} : Committed'[other] = Committed[other]
  BY <1>2, <1>3, <1>5, <1>6
<1> HIDE DEF id, found, FoundSaga
<1>8. /\ View(saga) \in Instances /\ View(saga) # NoSaga
      /\ View(saga).row = saga.row /\ View(saga).associations = saga.associations
  BY ViewIsInstance
<1>9. /\ Committed[id] # NoSaga =>
           /\ Committed[id].row = FoundSaga.row
           /\ Committed[id].associations = FoundSaga.associations
  BY <1>2, <1>4, <1>5, ViewIsInstance DEF View
<1>10. Units!Changes(id, Committed'[id])
  <2>1. Committed[id] = NoSaga \/ Units!Active(Committed[id])
    BY <1>2, <1>9 DEF Units!Active, Units!IsTerminal, Units!TerminalStatuses,
       Active, IsTerminal, TerminalStatuses
  <2>2. Committed'[id] \in Units!Instances
    BY <1>6, <1>8 DEF Units!Instances, Instances, Units!Rows, Rows,
       Units!StepRecords, StepRecords, Units!Statuses, Statuses
  <2> QED
    BY <1>7, <2>1, <2>2 DEF Units!Changes
<1>11. Units!CompletedBefore(id) \subseteq Units!CompletedSteps(Committed'[id].row)
  BY <1>6, <1>8, <1>9 DEF Units!CompletedBefore, Units!CompletedSteps, CompletedSteps
<1>12. /\ unit.step \in Units!CompletedSteps(Committed'[id].row)
       /\ Committed'[id].row.outcome \in Units!CompletedSteps(Committed'[id].row) \cup {None}
       /\ Committed'[id].row.status \in {"RUNNING", "COMPLETED"}
  BY <1>6, <1>8 DEF Units!CompletedSteps, CompletedSteps
<1>13. Committed[id] # NoSaga => Committed'[id].associations = Committed[id].associations
  BY <1>6, <1>8, <1>9 DEF SameSaga
<1>14. FoundAggregates' \in SUBSET Aggregated
  BY <1>1 DEF EngineInv, TypeOK, FoundAggregates
<1>15. LET added == Len(Outbox') - Len(Outbox)
       IN  added >= 0 /\ SubSeq(Outbox', added + 1, Len(Outbox')) = Outbox
  <2> DEFINE new == Undelivered
  <2>1. new \in Seq(Events)
    BY UndeliveredEvents
  <2>2. /\ DispatchOf(new) \in Frames /\ EventsOf(DispatchOf(new)) = new
    BY <2>1, DispatchIsFrame DEF EventsOf, DispatchOf
  <2>3. stack \in Seq(Frames)
    BY DEF EngineInv, TypeOK
  <2>4. Outbox' = new \o Outbox /\ Outbox \in Seq(Events)
    BY <1>1, <2>2, <2>3, OutboxPush, OutboxIs
  <2> HIDE DEF new
  <2> DEFINE old == Outbox
             all == new \o old
  <2>5. old \in Seq(Events) /\ Outbox' = all /\ Outbox = old
    BY <2>4
  <2> HIDE DEF old
  <2>6. Len(all) - Len(old) = Len(new) /\ Len(new) >= 0 /\ SubSeq(all, Len(new) + 1, Len(all)) = old
    BY <2>1, <2>5
  <2> QED
    BY <2>5, <2>6
<1> HIDE DEF Committed, FoundAggregates, Outbox
<1> QED
  BY <1>1, <1>10, <1>11, <1>12, <1>13, <1>14, <1>15 DEF Units!Commit, FoundAggregates, id

\* A unit of work that rolls back leaves its saga FAILED, and nothing else.
LEMMA RollBackIsAtomic ==
  ASSUME EngineInv, RollBack
  PROVE  Units!Fail(unit.id)
<1> DEFINE id == unit.id
           found == unit.before.storage[id]
           failed == Failed(FoundSaga, unit.step)
<1>1. /\ unit # NoUnit /\ unit.step \in Failures /\ failed \in Stored
      /\ storage'[id] = failed
      /\ \A other \in Ids \ {id} : storage'[other] = storage[other]
      /\ aggregates' = unit.before.aggregates /\ unit' = NoUnit
      /\ UNCHANGED <<contexts, stack, dispatched>>
  BY RollBackDoes
<1>2. /\ unit \in UnitsOfWork /\ id \in Ids
      /\ FoundSaga \in Stored /\ Active(FoundSaga)
      /\ unit.started # NoSaga => found = NoSaga /\ CompletedSteps(unit.started.row) = {}
      /\ \A other \in Ids \ {id} : storage[other] = unit.before.storage[other]
  BY <1>1, RunningUnit
<1>3. \/ found = NoSaga /\ CompletedSteps(FoundSaga.row) = {}
      \/ found = FoundSaga /\ found # NoSaga
  BY <1>2, NoSagaAssumption DEF FoundSaga
<1>4. /\ SameSaga(failed, FoundSaga)
      /\ failed.row = [FoundSaga.row EXCEPT !.status = "FAILED", !.failure = unit.step]
  BY <1>1, <1>2, FailedIsStored
<1>5. /\ Committed[id] = View(found)
      /\ \A other \in Ids : Committed[other] = View(unit.before.storage[other])
  BY <1>1, <1>2, CommittedIs DEF FoundStorage
<1>6. /\ Committed'[id] = View(failed)
      /\ \A other \in Ids : Committed'[other] = View(storage'[other])
  <2>1. Committed' = [i \in Ids |-> View(storage'[i])]
    BY <1>1 DEF Committed, View
  <2> QED
    BY <1>1, <1>2, <2>1
<1>7. \A other \in Ids \ {id} : Committed'[other] = Committed[other]
  BY <1>1, <1>2, <1>5, <1>6
<1> HIDE DEF id, found, failed, FoundSaga
<1>8. /\ View(failed) \in Instances /\ View(failed) # NoSaga
      /\ View(failed).row = failed.row /\ View(failed).associations = failed.associations
      /\ View(failed) = [row |-> failed.row, associations |-> failed.associations]
  BY <1>1, ViewIsInstance DEF View
<1>9. /\ failed.row.status = "FAILED" /\ failed.row.failure = unit.step
      /\ failed.row.steps = FoundSaga.row.steps
  BY <1>2, <1>4, StoredParts
<1>10. Units!Changes(id, Committed'[id])
  <2>1. Committed[id] = NoSaga \/ Units!Active(Committed[id])
    BY <1>2, <1>3, <1>5, ViewIsInstance DEF View, Units!Active, Units!IsTerminal,
       Units!TerminalStatuses, Active, IsTerminal, TerminalStatuses
  <2>2. Committed'[id] \in Units!Instances
    BY <1>6, <1>8 DEF Units!Instances, Instances, Units!Rows, Rows,
       Units!StepRecords, StepRecords, Units!Statuses, Statuses
  <2> QED
    BY <1>7, <2>1, <2>2 DEF Units!Changes
<1>11. IF Committed[id] = NoSaga
         THEN Units!CompletedSteps(Committed'[id].row) = {}
         ELSE Committed'[id] = Units!Failed(Committed[id], Committed'[id].row.failure)
  <2>1. CASE found = NoSaga
    <3>1. Committed[id] = NoSaga
      BY <1>5, <2>1 DEF View
    <3>2. CompletedSteps(FoundSaga.row) = {}
      BY <1>3, <2>1
    <3>3. Units!CompletedSteps(Committed'[id].row) = {}
      BY <1>6, <1>8, <1>9, <3>2 DEF Units!CompletedSteps, CompletedSteps
    <3> QED
      BY <3>1, <3>3
  <2>2. CASE found # NoSaga
    <3>1. Committed[id] = [row |-> FoundSaga.row, associations |-> FoundSaga.associations]
      BY <1>3, <1>5, <2>2 DEF View
    <3>2. Committed[id] # NoSaga
      BY <1>2, <1>3, <1>5, <2>2, ViewIsInstance
    <3>3. Committed'[id] = [row |-> failed.row, associations |-> FoundSaga.associations]
      BY <1>4, <1>6, <1>8 DEF SameSaga
    <3>4. Committed'[id].row.failure = unit.step
      BY <1>6, <1>8, <1>9
    <3> DEFINE row == FoundSaga.row
    <3>5. Units!Failed(Committed[id], unit.step)
            = [row |-> [row EXCEPT !.status = "FAILED", !.failure = unit.step],
               associations |-> FoundSaga.associations]
      <4> DEFINE c == Committed[id]
                 after == [row EXCEPT !.status = "FAILED", !.failure = unit.step]
      <4>1. row \in [state : States, status : Statuses, steps : StepRecords,
                     outcome : Steps \cup {None}, failure : Failures \cup {None}]
        BY <1>2, StoredParts
      <4>2. c = [row |-> row, associations |-> FoundSaga.associations]
        BY <3>1
      <4> HIDE DEF c, row
      <4>3. Units!Failed(c, unit.step) = [c EXCEPT !.row = after]
        BY <4>1, <4>2 DEF Units!Failed
      <4> HIDE DEF after
      <4>4. [c EXCEPT !.row = after] = [row |-> after, associations |-> FoundSaga.associations]
        BY <4>2
      <4> QED
        BY <4>3, <4>4 DEF c, after
    <3> QED
      BY <1>4, <3>2, <3>3, <3>4, <3>5
  <2> QED
    BY <2>1, <2>2
<1>12. Outbox' = Outbox
  BY <1>1, OutboxIs
<1>13. Committed'[id].row.status = "FAILED"
  BY <1>6, <1>8, <1>9
<1>14. FoundAggregates' = FoundAggregates
  BY <1>1 DEF FoundAggregates
<1> QED
  BY <1>1, <1>10, <1>11, <1>12, <1>13, <1>14 DEF Units!Fail, FoundAggregates, id

\* The end of a unit of work, or the next step in it.
LEMMA EndIsAtomic ==
  ASSUME EngineInv, StepEnds
  PROVE  [Units!Next]_Units!vars
<1>1. CASE ReachEnd
  <2> DEFINE saga == Completed(AfterStep, unit.step)
  <2>1. unit # NoUnit /\ CommitAs(saga)
    BY <1>1 DEF ReachEnd, StepReturns
  <2>2. /\ AfterStep \in Stored /\ Active(AfterStep) /\ SameSaga(AfterStep, FoundSaga)
        /\ CompletedSteps(FoundSaga.row) \subseteq CompletedSteps(AfterStep.row)
        /\ unit.step \in CompletedSteps(AfterStep.row) /\ unit.step \in Steps
    BY <2>1, AfterStepIsStored
  <2>3. /\ saga \in Stored /\ SameSaga(saga, AfterStep)
        /\ saga.row = [AfterStep.row EXCEPT !.status = "COMPLETED", !.outcome = unit.step]
    BY <2>2, CompletedIsStored
  <2> HIDE DEF saga
  <2>4. /\ saga.row.status = "COMPLETED" /\ saga.row.outcome = unit.step
        /\ saga.row.steps = AfterStep.row.steps
    BY <2>2, <2>3, StoredParts
  <2>5. CompletedSteps(saga.row) = CompletedSteps(AfterStep.row) /\ SameSaga(saga, FoundSaga)
    BY <2>2, <2>3, <2>4 DEF CompletedSteps, SameSaga
  <2>6. Units!Commit(unit.id)
    BY <2>1, <2>2, <2>3, <2>4, <2>5, CommitIsAtomic
  <2> QED
    BY <2>1, <2>6, RunningUnit DEF Units!Next
<1>2. CASE Wait
  <2> DEFINE saga == Advanced(AfterStep)
  <2>1. unit # NoUnit /\ CommitAs(saga)
    BY <1>2 DEF Wait, StepReturns
  <2>2. /\ AfterStep \in Stored /\ Active(AfterStep) /\ SameSaga(AfterStep, FoundSaga)
        /\ CompletedSteps(FoundSaga.row) \subseteq CompletedSteps(AfterStep.row)
        /\ unit.step \in CompletedSteps(AfterStep.row)
    BY <2>1, AfterStepIsStored
  <2>3. /\ saga \in Stored /\ SameSaga(saga, AfterStep)
        /\ saga.row = [AfterStep.row EXCEPT !.status = "RUNNING"]
    BY <2>2, AdvancedIsStored
  <2> HIDE DEF saga
  <2>4. /\ saga.row.status = "RUNNING" /\ saga.row.outcome = None
        /\ saga.row.steps = AfterStep.row.steps
    BY <2>2, <2>3, StoredParts, ActiveRow
  <2>5. CompletedSteps(saga.row) = CompletedSteps(AfterStep.row) /\ SameSaga(saga, FoundSaga)
    BY <2>2, <2>3, <2>4 DEF CompletedSteps, SameSaga
  <2>6. Units!Commit(unit.id)
    BY <2>1, <2>2, <2>3, <2>4, <2>5, CommitIsAtomic
  <2> QED
    BY <2>1, <2>6, RunningUnit DEF Units!Next
<1>3. CASE RunQueued
  BY <1>3, RunQueuedIsUnseen
<1>4. CASE RollBack
  BY <1>4, RollBackIsAtomic, RollBackDoes, RunningUnit DEF Units!Next
<1> QED
  BY <1>1, <1>2, <1>3, <1>4 DEF StepEnds

\* Every step of the engine is a step of AtomicUnits, or none.
LEMMA StepIsAtomic == EngineInv /\ [Next]_vars => [Units!Next]_Units!vars
<1> SUFFICES ASSUME EngineInv, [Next]_vars PROVE [Units!Next]_Units!vars
  OBVIOUS
<1>1. CASE UNCHANGED vars
  <2>1. Unseen
    BY <1>1 DEF vars, Unseen, FoundStorage, FoundAggregates, Outbox
  <2> QED
    BY <2>1, UnseenStutters
<1>2. ASSUME NEW event \in Events, Deliver(event) \/ Publish(event) PROVE [Units!Next]_Units!vars
  BY <1>2, ArriveIsAtomic
<1>3. CASE Loop
  <2>1. CASE Dispatch
    BY <2>1, DispatchIsAtomic DEF Units!Next
  <2> QED
    BY <1>3, <2>1, StopIsAtomic, DeliveryIsAtomic, ReturnIsAtomic DEF Loop
<1>4. CASE Client
  BY <1>4, ClientIsAtomic
<1>5. CASE StepEnds
  BY <1>5, EndIsAtomic
<1>6. CASE Resume
  BY <1>6, StopIsAtomic
<1> QED
  BY <1>1, <1>2, <1>3, <1>4, <1>5, <1>6 DEF Next

\* However steps fail, nest and record events, a unit of work commits its saga,
\* its aggregates and its events as one, or marks the saga FAILED and does
\* nothing else: the engine implements AtomicUnits.
THEOREM ImplementsUnits == Spec => ImplementsAtomicUnits
<1>1. Init => Units!Init
  BY InitIsAtomic
<1>2. EngineInv /\ [Next]_vars => [Units!Next]_Units!vars
  BY StepIsAtomic
<1> QED
  BY <1>1, <1>2, Invariant, PTL DEF Spec, ImplementsAtomicUnits, Units!Spec

-----------------------------------------------------------------------------
(* Where the events of a unit of work go.                                   *)

\* The steps of a saga that react to event.
Reacting(saga, event) ==
  {step \in Range(StepsOn[event.type]) :
     /\ TypeOf[step] = saga.type
     /\ step \notin StartSteps
     /\ Correlates(event, step, saga.associations)}

\* Something waits in the queue for the event at position i.
Waits(queue, i) == \E k \in DOMAIN queue : queue[k].at = i

\* An event that ran its step: the step runs now or is completed, and whatever
\* waits was recorded later.
HasRun(u, saga, i) ==
  /\ Reacting(saga, u.recorded[i].event) # {}
  /\ Reacting(saga, u.recorded[i].event) \subseteq CompletedSteps(saga.row) \cup {u.step}
  /\ \A k \in DOMAIN u.queue : i < u.queue[k].at

\* One that did not: nothing reacts to it, or it waits.
HasNotRun(u, saga, i) ==
  Reacting(saga, u.recorded[i].event) = {} \/ Waits(u.queue, i)

\* The queue holds the reacting steps in the order of their events.
QueueOK(u, saga) ==
  /\ \A k \in DOMAIN u.queue :
       u.queue[k].step \in Reacting(saga, u.recorded[u.queue[k].at].event)
  /\ \A k, l \in DOMAIN u.queue : k < l => u.queue[k].at < u.queue[l].at
  /\ \A i \in DOMAIN u.recorded :
       IF u.recorded[i].delivered THEN HasRun(u, saga, i) ELSE HasNotRun(u, saga, i)

QueueInv == unit # NoUnit => QueueOK(unit, storage[unit.id])

\* At most one step of a saga reacts to an event.
LEMMA OneReacts ==
  ASSUME NEW saga, NEW event \in Events
  PROVE  /\ Reacting(saga, event) \in SUBSET Steps
         /\ \A a, b \in Reacting(saga, event) : a = b
<1>1. event.type \in EventTypes
  BY DEF Events
<1>2. Reacting(saga, event) \subseteq Range(StepsOn[event.type])
  BY DEF Reacting
<1>3. Range(StepsOn[event.type]) \subseteq Steps
  BY <1>1, StepsOnAssumption DEF Range
<1>4. ASSUME NEW a \in Reacting(saga, event), NEW b \in Reacting(saga, event) PROVE a = b
  <2>1. TypeOf[a] = TypeOf[b] /\ a \in Range(StepsOn[event.type]) /\ b \in Range(StepsOn[event.type])
    BY <1>4 DEF Reacting
  <2> QED
    BY <1>1, <2>1, UniqueStepEventTypes
<1> QED
  BY <1>2, <1>3, <1>4

\* Sagas that differ in their rows only react to the same events.
LEMMA SameReacting ==
  ASSUME NEW a, NEW b, SameSaga(a, b), NEW event
  PROVE  Reacting(a, event) = Reacting(b, event)
BY DEF SameSaga, Reacting

\* What a recorded event adds to the queue.
Added(here, at) == SetToSeq({[step |-> s, at |-> at] : s \in here})

\* It is at most one step.
LEMMA AddedIs ==
  ASSUME NEW here \in SUBSET Steps, NEW at \in Nat, \A a, b \in here : a = b
  PROVE  /\ Added(here, at) \in Seq([step : Steps, at : {at}])
         /\ \A k \in DOMAIN Added(here, at) :
              Added(here, at)[k].step \in here /\ Added(here, at)[k].at = at
         /\ \A k, l \in DOMAIN Added(here, at) : k = l
         /\ here # {} => 1 \in DOMAIN Added(here, at)
<1> DEFINE set     == {[step |-> s, at |-> at] : s \in here}
           pending == SetToSeq(set)
<1>1. pending \in Seq([step : Steps, at : {at}])
  BY PendingSteps
<1>2. IsFiniteSet(set) /\ Cardinality(set) \in {0, 1} /\ (here # {} => Cardinality(set) = 1)
  <2>1. CASE here = {}
    <3>1. set = {}
      BY <2>1
    <3> HIDE DEF set
    <3> QED
      BY <2>1, <3>1, FS_EmptySet
  <2>2. CASE here # {}
    <3>1. PICK s : s \in here
      BY <2>2
    <3>2. here = {s}
      BY <3>1
    <3>3. set = {[step |-> s, at |-> at]}
      BY <3>2
    <3> HIDE DEF set
    <3> QED
      BY <3>3, FS_Singleton
  <2> QED
    BY <2>1, <2>2
<1> HIDE DEF set
<1>3. pending \in Seq(set) /\ Len(pending) = Cardinality(set)
  BY <1>2, SetToSeqIsSeq
<1> HIDE DEF pending
<1>4. DOMAIN pending = 1 .. Len(pending) /\ \A k \in DOMAIN pending : pending[k] \in set
  BY <1>3
<1>5. \A k \in DOMAIN pending : pending[k].step \in here /\ pending[k].at = at
  BY <1>4 DEF set
<1>6. (\A k, l \in DOMAIN pending : k = l) /\ (here # {} => 1 \in DOMAIN pending)
  BY <1>2, <1>3, <1>4
<1> QED
  BY <1>1, <1>5, <1>6 DEF Added, pending, set

\* A unit of work begins with nothing recorded.
LEMMA BeginKeepsQueue ==
  ASSUME TypeOK, NEW id \in Ids, NEW step \in Steps, NEW started \in Stored \cup {NoSaga},
         Begin(id, step, started)
  PROVE  QueueInv'
<1>1. unit'.queue = <<>> /\ unit'.recorded = <<>>
  BY BeginsTyped
<1>2. DOMAIN unit'.queue = {} /\ DOMAIN unit'.recorded = {}
  BY <1>1
<1> QED
  BY <1>2 DEF QueueInv, QueueOK

\* Recording an event: it waits last, or nothing reacts to it.
LEMMA RecordKeepsQueue ==
  ASSUME EngineInv, QueueInv, NEW event \in Events, Record(event)
  PROVE  QueueInv'
<1> DEFINE saga  == storage[unit.id]
           entry == [event |-> event, delivered |-> FALSE]
           at    == Len(unit.recorded) + 1
           here  == Reacting(saga, event)
           pending  == Added(here, at)
           recorded == Append(unit.recorded, entry)
           queue    == unit.queue \o pending
<1>1. /\ Effect /\ unit # NoUnit /\ UNCHANGED storage
      /\ unit' = [unit EXCEPT !.touched = @ \cup {event.aggregate},
                              !.recorded = recorded, !.queue = queue]
  <2>1. here = InProcessSteps(event)
    BY DEF Reacting, InProcessSteps
  <2>2. Effect /\ unit' = [unit EXCEPT !.touched = @ \cup {event.aggregate},
                                      !.recorded = Append(@, entry), !.queue = @ \o pending]
    BY <2>1, Zenon DEF Record, Added
  <2>3. unit # NoUnit /\ UNCHANGED storage /\ unit \in UnitsOfWork
    BY <2>2, EffectTypes, RunningUnit
  <2> HIDE DEF pending, entry
  <2> QED
    BY <2>2, <2>3 DEF UnitsOfWork
<1>2. /\ unit \in UnitsOfWork /\ saga \in Stored
      /\ \A i \in DOMAIN unit.queue : unit.queue[i].at \in DOMAIN unit.recorded
      /\ QueueOK(unit, saga)
  BY <1>1, RunningUnit DEF QueueInv
<1>3. /\ unit.recorded \in Seq(Entries) /\ unit.queue \in Seq(Waiting)
      /\ entry \in Entries
  BY <1>2, UnitLists DEF Entries
<1>4. at \in Nat \ {0} /\ DOMAIN unit.recorded = 1 .. at - 1
  BY <1>3
<1>5. here \in SUBSET Steps /\ \A a, b \in here : a = b
  BY OneReacts
<1> HIDE DEF here, at, saga
<1>6. /\ pending \in Seq([step : Steps, at : {at}])
      /\ \A k \in DOMAIN pending : pending[k].step \in here /\ pending[k].at = at
      /\ \A k, l \in DOMAIN pending : k = l
      /\ here # {} => 1 \in DOMAIN pending
  BY <1>4, <1>5, AddedIs
<1> HIDE DEF pending, entry
<1>7. /\ DOMAIN recorded = 1 .. at /\ recorded[at] = entry
      /\ \A i \in 1 .. at - 1 : recorded[i] = unit.recorded[i]
  BY <1>3, <1>4 DEF at
<1>8. /\ DOMAIN queue = 1 .. Len(unit.queue) + Len(pending)
      /\ Len(unit.queue) \in Nat /\ Len(pending) \in Nat
      /\ DOMAIN unit.queue = 1 .. Len(unit.queue) /\ DOMAIN pending = 1 .. Len(pending)
      /\ \A k \in DOMAIN unit.queue : queue[k] = unit.queue[k]
      /\ \A k \in DOMAIN pending : queue[Len(unit.queue) + k] = pending[k]
      /\ \A k \in DOMAIN queue \ DOMAIN unit.queue :
           k - Len(unit.queue) \in DOMAIN pending /\ queue[k] = pending[k - Len(unit.queue)]
  BY <1>3, <1>6
<1> HIDE DEF recorded, queue
<1>9. unit'.recorded = recorded /\ unit'.queue = queue /\ unit'.step = unit.step /\ unit'.id = unit.id
  BY <1>1, <1>2 DEF UnitsOfWork
<1>10. entry.event = event /\ entry.delivered = FALSE
  BY DEF entry
<1>11. ASSUME NEW k \in DOMAIN queue
       PROVE  /\ queue[k].step \in Reacting(saga, recorded[queue[k].at].event)
              /\ IF k \in DOMAIN unit.queue THEN queue[k].at \in 1 .. at - 1 ELSE queue[k].at = at
  <2>1. CASE k \in DOMAIN unit.queue
    BY <1>2, <1>4, <1>7, <1>8, <2>1 DEF QueueOK
  <2>2. CASE k \notin DOMAIN unit.queue
    BY <1>6, <1>7, <1>8, <1>10, <2>2 DEF here
  <2> QED
    BY <2>1, <2>2
<1>12. ASSUME NEW k \in DOMAIN queue, NEW l \in DOMAIN queue, k < l PROVE queue[k].at < queue[l].at
  <2>1. CASE l \in DOMAIN unit.queue
    <3>1. k \in DOMAIN unit.queue
      BY <1>8, <1>12, <2>1
    <3> QED
      BY <1>2, <1>8, <1>12, <2>1, <3>1 DEF QueueOK
  <2>2. CASE l \notin DOMAIN unit.queue /\ k \in DOMAIN unit.queue
    BY <1>4, <1>11, <2>2
  <2>3. CASE l \notin DOMAIN unit.queue /\ k \notin DOMAIN unit.queue
    <3>1. k - Len(unit.queue) = l - Len(unit.queue)
      BY <1>6, <1>8, <2>3
    <3> QED
      BY <1>8, <1>12, <3>1
  <2> QED
    BY <2>1, <2>2, <2>3
<1>13. ASSUME NEW i \in DOMAIN recorded
       PROVE  IF recorded[i].delivered THEN HasRun(unit', saga, i) ELSE HasNotRun(unit', saga, i)
  <2>1. CASE i = at
    <3>1. recorded[i] = entry
      BY <1>7, <2>1
    <3>2. here # {} => Len(unit.queue) + 1 \in DOMAIN queue /\ queue[Len(unit.queue) + 1].at = at
      BY <1>6, <1>8
    <3> QED
      BY <1>9, <1>10, <2>1, <3>1, <3>2 DEF HasNotRun, Waits, here
  <2>2. CASE i # at
    <3>1. i \in DOMAIN unit.recorded /\ i < at /\ recorded[i] = unit.recorded[i]
      BY <1>4, <1>7, <2>2
    <3>2. IF unit.recorded[i].delivered THEN HasRun(unit, saga, i) ELSE HasNotRun(unit, saga, i)
      BY <1>2, <3>1 DEF QueueOK
    <3>3. HasRun(unit, saga, i) => HasRun(unit', saga, i)
      <4> SUFFICES ASSUME HasRun(unit, saga, i) PROVE HasRun(unit', saga, i)
        OBVIOUS
      <4>1. \A k \in DOMAIN queue : i < queue[k].at
        BY <1>8, <1>11, <3>1 DEF HasRun
      <4> QED
        BY <1>9, <3>1, <4>1 DEF HasRun
    <3>4. HasNotRun(unit, saga, i) => HasNotRun(unit', saga, i)
      BY <1>8, <1>9, <3>1 DEF HasNotRun, Waits
    <3> QED
      BY <3>1, <3>2, <3>3, <3>4
  <2> QED
    BY <2>1, <2>2
<1>14. QueueOK(unit', saga)
  BY <1>9, <1>11, <1>12, <1>13 DEF QueueOK
<1> QED
  BY <1>1, <1>9, <1>14 DEF QueueInv, saga

\* The first of the queue runs: its event has run, and its step is the one that
\* runs now.
LEMMA RunQueuedKeepsQueue ==
  ASSUME EngineInv, QueueInv, RunQueued
  PROVE  QueueInv'
<1> DEFINE next     == Head(unit.queue)
           queue    == Tail(unit.queue)
           recorded == [unit.recorded EXCEPT ![next.at].delivered = TRUE]
           saga     == storage[unit.id]
<1>1. /\ unit # NoUnit /\ unit.queue # <<>>
      /\ storage' = [storage EXCEPT ![unit.id] = AfterStep]
      /\ unit' = [unit EXCEPT !.step = next.step, !.queue = Tail(@), !.touched = {},
                              !.recorded[next.at].delivered = TRUE]
  BY DEF RunQueued, StepReturns
<1>2. /\ unit \in UnitsOfWork /\ saga \in Stored
      /\ \A i \in DOMAIN unit.queue : unit.queue[i].at \in DOMAIN unit.recorded
      /\ QueueOK(unit, saga) /\ SameSaga(FoundSaga, saga)
  BY <1>1, RunningUnit DEF QueueInv
<1>3. /\ AfterStep \in Stored /\ SameSaga(AfterStep, FoundSaga)
      /\ CompletedSteps(AfterStep.row) = CompletedSteps(saga.row) \cup {unit.step}
  BY <1>1, AfterStepIsStored
<1>4. storage'[unit.id] = AfterStep /\ \A event : Reacting(AfterStep, event) = Reacting(saga, event)
  <2>1. storage'[unit.id] = AfterStep
    BY <1>1, <1>3, StoresUnit
  <2>2. SameSaga(AfterStep, saga)
    BY <1>2, <1>3 DEF SameSaga
  <2> HIDE DEF saga, AfterStep
  <2> QED
    BY <2>1, <2>2, SameReacting
<1>5. unit.queue \in Seq(Waiting) /\ unit.recorded \in Seq(Entries)
  BY <1>2, UnitLists
<1>6. /\ DOMAIN unit.queue = 1 .. Len(unit.queue) /\ Len(unit.queue) \in Nat \ {0}
      /\ next = unit.queue[1] /\ 1 \in DOMAIN unit.queue
      /\ DOMAIN queue = 1 .. Len(unit.queue) - 1
      /\ \A k \in DOMAIN queue : k + 1 \in DOMAIN unit.queue /\ queue[k] = unit.queue[k + 1]
      /\ \A k \in DOMAIN unit.queue \ {1} : k - 1 \in DOMAIN queue /\ queue[k - 1] = unit.queue[k]
  BY <1>1, <1>5
<1>7. /\ next.at \in DOMAIN unit.recorded
      /\ next.step \in Reacting(saga, unit.recorded[next.at].event)
      /\ \A k \in DOMAIN queue : next.at < queue[k].at
  BY <1>2, <1>6 DEF QueueOK
<1>8. /\ DOMAIN recorded = DOMAIN unit.recorded
      /\ \A i \in DOMAIN recorded :
           /\ recorded[i].event = unit.recorded[i].event
           /\ recorded[i].delivered = (i = next.at \/ unit.recorded[i].delivered)
  <2>1. \A i \in DOMAIN unit.recorded : unit.recorded[i] \in Entries
    BY <1>5
  <2> HIDE DEF next
  <2> QED
    BY <1>7, <2>1 DEF Entries
<1>9. /\ unit'.recorded = recorded /\ unit'.queue = queue
      /\ unit'.step = next.step /\ unit'.id = unit.id
  BY <1>1, <1>2 DEF UnitsOfWork
<1> HIDE DEF queue, recorded, next, saga, AfterStep
<1>10. \A k \in DOMAIN queue : queue[k].step \in Reacting(AfterStep, recorded[queue[k].at].event)
  BY <1>2, <1>4, <1>6, <1>8 DEF QueueOK
<1>11. ASSUME NEW k \in DOMAIN queue, NEW l \in DOMAIN queue, k < l PROVE queue[k].at < queue[l].at
  <2>1. k + 1 \in DOMAIN unit.queue /\ l + 1 \in DOMAIN unit.queue /\ k + 1 < l + 1
    BY <1>6, <1>11
  <2> QED
    BY <1>2, <1>6, <2>1 DEF QueueOK
<1>12. ASSUME NEW i \in DOMAIN recorded
       PROVE  IF recorded[i].delivered THEN HasRun(unit', AfterStep, i) ELSE HasNotRun(unit', AfterStep, i)
  <2>1. Reacting(AfterStep, recorded[i].event) = Reacting(saga, unit.recorded[i].event)
    BY <1>4, <1>8
  <2>2. CASE i = next.at
    <3>1. unit.recorded[i].event \in Events
      <4>1. unit.recorded[i] \in Entries
        BY <1>5, <1>8
      <4> QED
        BY <4>1 DEF Entries
    <3>2. Reacting(saga, unit.recorded[i].event) = {next.step}
      <4>1. \A a, b \in Reacting(saga, unit.recorded[i].event) : a = b
        BY <3>1, OneReacts
      <4> QED
        BY <1>7, <2>2, <4>1
    <3>3. HasRun(unit', AfterStep, i)
      BY <1>7, <1>9, <2>1, <2>2, <3>2 DEF HasRun
    <3> QED
      BY <1>8, <2>2, <3>3
  <2>3. CASE i # next.at /\ unit.recorded[i].delivered
    <3>1. HasRun(unit, saga, i)
      BY <1>2, <1>8, <2>3 DEF QueueOK
    <3>2. \A k \in DOMAIN queue : i < queue[k].at
      BY <1>6, <3>1 DEF HasRun
    <3>3. HasRun(unit', AfterStep, i)
      BY <1>3, <1>9, <2>1, <3>1, <3>2 DEF HasRun
    <3> QED
      BY <1>8, <2>3, <3>3
  <2>4. CASE i # next.at /\ ~ unit.recorded[i].delivered
    <3>1. HasNotRun(unit, saga, i)
      BY <1>2, <1>8, <2>4 DEF QueueOK
    <3>2. Waits(unit.queue, i) => Waits(queue, i)
      BY <1>6, <2>4 DEF Waits
    <3>3. HasNotRun(unit', AfterStep, i)
      BY <1>9, <2>1, <3>1, <3>2 DEF HasNotRun
    <3> QED
      BY <1>8, <2>4, <3>3
  <2> QED
    BY <2>2, <2>3, <2>4
<1>13. QueueOK(unit', AfterStep)
  BY <1>9, <1>10, <1>11, <1>12 DEF QueueOK
<1> QED
  BY <1>4, <1>9, <1>13 DEF QueueInv

\* Every step keeps the queue in order.
LEMMA StepKeepsQueue == EngineInv /\ QueueInv /\ [Next]_vars => QueueInv'
<1> SUFFICES ASSUME EngineInv, QueueInv, [Next]_vars PROVE QueueInv'
  OBVIOUS
<1>0. ASSUME UNCHANGED <<storage, unit>> PROVE QueueInv'
  BY <1>0 DEF QueueInv, QueueOK, HasRun, HasNotRun, Waits
<1>1. ASSUME unit' = NoUnit PROVE QueueInv'
  BY <1>1 DEF QueueInv
<1>2. CASE UNCHANGED vars
  BY <1>0, <1>2 DEF vars
<1>3. ASSUME NEW event \in Events, Deliver(event) \/ Publish(event) PROVE QueueInv'
  BY <1>0, <1>3 DEF Deliver, Publish, Arrive
<1>4. CASE Loop
  <2>1. CASE StartSaga
    <3>1. \/ UNCHANGED <<storage, unit>>
          \/ \E id \in Ids, step \in StartSteps, value \in Values \ {None}, new \in Stored :
               Starts(id, step, value, new)
      BY <2>1, StartSagaDoes DEF EngineInv
    <3>2. ASSUME NEW id \in Ids, NEW step \in StartSteps, NEW value \in Values \ {None},
                 NEW new \in Stored, Starts(id, step, value, new)
          PROVE  QueueInv'
      <4>1. step \in Steps /\ Begin(id, step, new)
        BY <3>2, StartStepsAssumption DEF Starts
      <4> QED
        BY <4>1, BeginKeepsQueue DEF EngineInv
    <3> QED
      BY <1>0, <3>1, <3>2
  <2>2. CASE React
    <3>1. /\ UNCHANGED storage
          /\ \/ UNCHANGED unit
             \/ \E id \in Ids, step \in Steps : Begin(id, step, NoSaga)
      BY <2>2, ReactDoes
    <3> QED
      BY <1>0, <3>1, BeginKeepsQueue DEF EngineInv
  <2>3. CASE ThrowMissingValue \/ Resolve \/ Return \/ Dispatch
    BY <1>0, <2>3 DEF ThrowMissingValue, Resolve, Return, Dispatch
  <2> QED
    BY <1>4, <2>1, <2>2, <2>3 DEF Loop
<1>5. CASE Client
  <2>1. CASE \E event \in Events : Record(event)
    BY <2>1, RecordKeepsQueue
  <2>2. CASE SendCommand \/ PutState
    BY <1>0, <2>2 DEF SendCommand, PutState, Effect
  <2>3. CASE FailCommand
    <3>1. /\ UNCHANGED storage /\ unit # NoUnit /\ unit \in UnitsOfWork
          /\ unit' = [unit EXCEPT !.rollbackOnly = TRUE]
      BY <2>3, RunningUnit DEF FailCommand, Effect
    <3>2. /\ unit'.queue = unit.queue /\ unit'.recorded = unit.recorded
          /\ unit'.step = unit.step /\ unit'.id = unit.id
      BY <3>1 DEF UnitsOfWork
    <3> QED
      BY <3>1, <3>2 DEF QueueInv, QueueOK, HasRun, HasNotRun, Waits
  <2> QED
    BY <1>5, <2>1, <2>2, <2>3 DEF Client
<1>6. CASE StepEnds
  BY <1>1, <1>6, RunQueuedKeepsQueue DEF StepEnds, ReachEnd, Wait, CommitAs, RollBack
<1>7. CASE Resume
  BY <1>0, <1>7 DEF Resume
<1> QED
  BY <1>2, <1>3, <1>4, <1>5, <1>6, <1>7 DEF Next

\* So the queue is always in order.
LEMMA QueueInvariant == Spec => []QueueInv
<1>1. Init => QueueInv
  BY DEF Init, QueueInv
<1> QED
  BY <1>1, StepKeepsQueue, Invariant, PTL DEF Spec

\* Only a commit puts a loop on top while a unit of work runs.
LEMMA OnlyCommitsPush ==
  ASSUME EngineInv, unit # NoUnit, [Next]_vars, Len(stack') > Len(stack)
  PROVE  /\ stack' = <<DispatchOf(Undelivered)>> \o stack
         /\ storage'[unit.id] \in Stored
         /\ CompletedSteps(storage'[unit.id].row) = CompletedSteps(storage[unit.id].row) \cup {unit.step}
<1>1. ~ UNCHANGED stack
  BY DEF EngineInv, TypeOK
<1>2. \A event \in Events : ~ Deliver(event) /\ ~ Publish(event)
  BY DEF Deliver, Publish, Arrive
<1>3. ~ Loop
  BY DEF Loop, ThrowMissingValue, StartSaga, Resolve, React, Return, Dispatch, NextStep, Running
<1>4. ~ Client
  BY <1>1 DEF Client, Record, SendCommand, FailCommand, PutState, Effect
<1>5. ~ Resume
  BY DEF Resume, Running
<1>6. ~ RunQueued /\ ~ RollBack /\ ~ UNCHANGED vars
  BY <1>1 DEF RunQueued, RollBack, vars
<1>7. ReachEnd \/ Wait
  BY <1>2, <1>3, <1>4, <1>5, <1>6 DEF Next, StepEnds
<1>8. /\ AfterStep \in Stored /\ Active(AfterStep) /\ unit.step \in Steps
      /\ CompletedSteps(AfterStep.row) = CompletedSteps(storage[unit.id].row) \cup {unit.step}
  BY AfterStepIsStored
<1>9. PICK saga \in Stored :
        /\ CommitAs(saga) /\ CompletedSteps(saga.row) = CompletedSteps(AfterStep.row)
  <2>1. CASE ReachEnd
    <3>1. /\ Completed(AfterStep, unit.step) \in Stored
          /\ Completed(AfterStep, unit.step).row.steps = AfterStep.row.steps
      <4>1. AfterStep.row \in Rows
        BY <1>8, StoredParts
      <4>2. /\ Completed(AfterStep, unit.step) \in Stored
            /\ Completed(AfterStep, unit.step).row = [AfterStep.row EXCEPT !.status = "COMPLETED", !.outcome = unit.step]
        BY <1>8, CompletedIsStored
      <4> QED
        BY <4>1, <4>2 DEF Rows
    <3> QED
      BY <2>1, <3>1 DEF ReachEnd, CompletedSteps
  <2>2. CASE Wait
    <3>1. Advanced(AfterStep) \in Stored /\ Advanced(AfterStep).row.steps = AfterStep.row.steps
      <4>1. AfterStep.row \in Rows
        BY <1>8, StoredParts
      <4>2. /\ Advanced(AfterStep) \in Stored
            /\ Advanced(AfterStep).row = [AfterStep.row EXCEPT !.status = "RUNNING"]
        BY <1>8, AdvancedIsStored
      <4> QED
        BY <4>1, <4>2 DEF Rows
    <3> QED
      BY <2>2, <3>1 DEF Wait, CompletedSteps
  <2> QED
    BY <1>7, <2>1, <2>2
<1> QED
  BY <1>8, <1>9, StoresUnit DEF CommitAs

\* Each event of a unit of work that commits goes one way, once: it is handed to
\* the dispatcher, in recording order, because nothing reacts to it or because it
\* waits behind an @EndSaga step, or the step that reacts to it is completed in
\* the saga that is committed, and none before one that was recorded earlier.
THEOREM OneWay == Spec => EachEventGoesOneWay
<1> DEFINE reacts(i) == InProcessSteps(unit.recorded[i].event)
           left == {i \in DOMAIN unit.recorded :
                      reacts(i) = {} \/ \E k \in DOMAIN unit.queue : unit.queue[k].at = i}
<1>1. EngineInv /\ QueueInv /\ [Next]_vars =>
        [unit # NoUnit /\ Len(stack') > Len(stack) => EventsGoOneWay]_vars
  <2> SUFFICES ASSUME EngineInv, QueueInv, [Next]_vars, unit # NoUnit, Len(stack') > Len(stack)
               PROVE  EventsGoOneWay
    OBVIOUS
  <2> DEFINE saga == storage[unit.id]
  <2>1. /\ stack' = <<DispatchOf(Undelivered)>> \o stack /\ stack \in Seq(Frames)
        /\ CompletedSteps(storage'[unit.id].row) = CompletedSteps(saga.row) \cup {unit.step}
    BY OnlyCommitsPush DEF EngineInv, TypeOK
  <2>2. Head(stack').events = Undelivered
    <3> DEFINE f == DispatchOf(Undelivered)
    <3>1. stack' = <<f>> \o stack /\ f.events = Undelivered
      BY <2>1 DEF DispatchOf
    <3>2. f \in Frames
      BY UndeliveredEvents, DispatchIsFrame
    <3> HIDE DEF f
    <3>3. Head(<<f>> \o stack) = f
      BY <2>1, <3>2
    <3> QED
      BY <3>1, <3>3
  <2>3. \A i : reacts(i) = Reacting(saga, unit.recorded[i].event)
    BY DEF InProcessSteps, Reacting
  <2>4. QueueOK(unit, saga)
    BY DEF QueueInv
  <2>5. /\ \A k \in DOMAIN unit.queue : unit.queue[k].at \in DOMAIN unit.recorded
        /\ unit.recorded \in Seq(Entries) /\ unit.queue \in Seq(Waiting)
    BY RunningUnit, UnitLists
  <2> HIDE DEF reacts, saga
  <2>6. left = {i \in DOMAIN unit.recorded : ~ unit.recorded[i].delivered}
    <3>1. ASSUME NEW i \in DOMAIN unit.recorded PROVE i \in left <=> ~ unit.recorded[i].delivered
      <4>1. CASE unit.recorded[i].delivered
        <5>1. HasRun(unit, saga, i)
          BY <2>4, <4>1 DEF QueueOK
        <5>2. reacts(i) # {} /\ \A k \in DOMAIN unit.queue : i < unit.queue[k].at
          BY <2>3, <5>1 DEF HasRun
        <5>3. \A k \in DOMAIN unit.queue : unit.queue[k].at # i
          BY <2>5, <5>2
        <5> QED
          BY <4>1, <5>2, <5>3
      <4>2. CASE ~ unit.recorded[i].delivered
        BY <2>3, <2>4, <4>2 DEF QueueOK, HasNotRun, Waits
      <4> QED
        BY <4>1, <4>2
    <3> QED
      BY <3>1
  <2>7. Undelivered = EventsAt(left)
    <3> HIDE DEF left
    <3> QED
      BY <2>6 DEF Undelivered
  <2>8. ASSUME NEW i \in DOMAIN unit.recorded \ left
        PROVE  /\ reacts(i) \subseteq CompletedSteps(storage'[unit.id].row)
               /\ \A j \in left : j < i => reacts(j) = {}
    <3>1. HasRun(unit, saga, i)
      BY <2>4, <2>6, <2>8 DEF QueueOK
    <3>2. reacts(i) \subseteq CompletedSteps(saga.row) \cup {unit.step}
      BY <2>3, <3>1 DEF HasRun
    <3>3. ASSUME NEW j \in left, j < i, reacts(j) # {} PROVE FALSE
      <4>1. PICK k \in DOMAIN unit.queue : unit.queue[k].at = j
        BY <3>3
      <4>2. i < j
        BY <3>1, <4>1 DEF HasRun
      <4> QED
        BY <2>5, <3>3, <4>2
    <3> QED
      BY <2>1, <3>2, <3>3
  <2> QED
    BY <2>2, <2>7, <2>8 DEF EventsGoOneWay, reacts
<1> QED
  BY <1>1, Invariant, QueueInvariant, PTL DEF Spec, EachEventGoesOneWay
=============================================================================
