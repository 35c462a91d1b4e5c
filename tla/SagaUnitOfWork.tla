--------------------------- MODULE SagaUnitOfWork --------------------------
(***************************************************************************)
(* The engine that runs sagas, as SagaTestHarness implements the contract  *)
(* specs/002-transactional-step-sequence/contracts/saga-unit-of-work.md:   *)
(* events are delivered to saga types, correlated to instances, and run    *)
(* steps inside units of work that commit or roll back.                    *)
(*                                                                         *)
(* One thread runs everything, but deliveries nest: after a commit every   *)
(* event that is dispatched may be delivered again at once                 *)
(* (redeliverDispatched), while the loops that led to it are unfinished.   *)
(* The stack holds those loops, the innermost first.                       *)
(*                                                                         *)
(* The client's step methods, command handlers and aggregates are not in   *)
(* the repository: they may do anything the engine lets them, one effect   *)
(* at a time.                                                              *)
(***************************************************************************)
EXTENDS SagaInstances, SequencesExt

CONSTANTS
  Ids,            \* saga ids, natural numbers in the order they are generated
  NoSaga,         \* no stored instance
  NoUnit,         \* no unit of work is running
  TypeOf,         \* the saga type of each step
  StepsOn,        \* event type -> its step in each saga type, in order
  StartSteps,     \* the @StartSaga steps
  EndSteps,       \* the @EndSaga steps
  PropertyOf,     \* the associationProperty of each step
  Values,         \* association values events carry; None if the property is null
  Aggregated,     \* parts of the client's aggregates that commands change
  Touchable,      \* aggregates an event can name
  TouchListOf,    \* the touchedAggregates list of a set of them
  Contexts,       \* possible SagaContext values
  InitialStorages,\* what the storage provider of a new harness may hold
  EmptyState,     \* the empty state map of a new instance
  MaxDeliveries,  \* bound on the events delivered from outside
  MaxEffects      \* bound on the events, commands and context writes of steps

EventTypes == DOMAIN StepsOn

Events == [type : EventTypes, value : Values, aggregate : Touchable]

ASSUME StartStepsAssumption == StartSteps \cup EndSteps \subseteq Steps
ASSUME StepsOnAssumption ==
  \A type \in EventTypes : StepsOn[type] \in Seq(Steps) /\ IsInjective(StepsOn[type])
ASSUME TypesAssumption == Steps \subseteq DOMAIN TypeOf
\* No two steps of a saga type react to one event type (validateUniqueStepEventTypes).
ASSUME UniqueStepEventTypes ==
  \A type \in EventTypes : \A a, b \in Range(StepsOn[type]) : TypeOf[a] = TypeOf[b] => a = b
ASSUME IdsAssumption == Ids \subseteq Nat
ASSUME BoundsAssumption == MaxDeliveries \in Nat /\ MaxEffects \in Nat
ASSUME TouchListsAssumption == TouchListOf \in [SUBSET Touchable -> TouchLists]
ASSUME FailuresAssumption == Failures = Steps
ASSUME EmptyStateAssumption == EmptyState \in States

\* A saga instance with its type, which is the type of its steps.
Stored == [type : Range(TypeOf), row : Rows, associations : AssociationSets]

\* What a start event makes of itself is an association map.
ASSUME StartAssociationsAssumption ==
  \A step \in StartSteps, value \in Values \ {None} :
    {<<PropertyOf[step], value>>} \in AssociationSets

ASSUME NoSagaAssumption == NoSaga \notin Stored \cup Instances

ASSUME InitialStoragesAssumption == InitialStorages \subseteq [Ids -> Stored \cup {NoSaga}]

VARIABLES
  storage,     \* InMemoryStorageProvider: the instance of each saga id
  aggregates,  \* what commands have changed in the client's aggregates
  contexts,    \* InMemorySagaContextStore: the context of each saga id
  unit,        \* the active HarnessUnitOfWork, or NoUnit
  stack,       \* the delivery and dispatch loops under way
  dispatched,  \* the events handed to the EventDispatcher
  deliveries,  \* events delivered from outside so far
  effects      \* effects of client code so far

vars == <<storage, aggregates, contexts, unit, stack, dispatched, deliveries, effects>>

Init ==
  /\ storage \in InitialStorages
  /\ aggregates = {}
  /\ contexts = [id \in Ids |-> None]
  /\ unit = NoUnit
  /\ stack = <<>>
  /\ dispatched = <<>>
  /\ deliveries = 0
  /\ effects = 0

-----------------------------------------------------------------------------
(* Loops: deliverAll over saga types, deliverTo over instances, and         *)
(* dispatchPending over events.                                             *)

DeliveryOf(event) ==
  [kind |-> "deliver", event |-> event, steps |-> StepsOn[event.type], ids |-> {}]

DispatchOf(events) == [kind |-> "dispatch", events |-> events]

Running(kind) == unit = NoUnit /\ stack # <<>> /\ Head(stack).kind = kind

\* The innermost loop goes on as frame.
GoOn(frame) == stack' = <<frame>> \o Tail(stack)

Correlates(event, step, associations) ==
  event.value # None /\ <<PropertyOf[step], event.value>> \in associations

Correlated(event, step) ==
  {id \in Ids : /\ storage[id] # NoSaga
                /\ storage[id].type = TypeOf[step]
                /\ Correlates(event, step, storage[id].associations)}

ActiveIds(ids) == {id \in ids : Active(storage[id])}

-----------------------------------------------------------------------------
(* Units of work.                                                           *)

\* The unit that runs step of id, having snapshot every participant but the
\* context store.
Begin(id, step, started) ==
  unit' = [id |-> id, step |-> step, started |-> started,
           before |-> [storage |-> storage, aggregates |-> aggregates],
           queue |-> <<>>, recorded |-> <<>>, touched |-> {}, rollbackOnly |-> FALSE]

\* Mutant of Duplicate: a saga may be started twice.
NeverDuplicate(step, event) == FALSE

\* start: an active instance of the type has the association already.
Duplicate(step, event) == ActiveIds(Correlated(event, step)) # {}

Fresh == {id \in Ids : storage[id] = NoSaga}

\* deliverAll, called from outside.
Arrive(event) ==
  /\ unit = NoUnit /\ stack = <<>>
  /\ deliveries < MaxDeliveries
  /\ deliveries' = deliveries + 1
  /\ stack' = <<DeliveryOf(event)>>
  /\ UNCHANGED <<storage, aggregates, contexts, unit, effects>>

Deliver(event) ==
  /\ Arrive(event)
  /\ UNCHANGED dispatched

\* EventPublisher.publish outside a unit of work: the dispatcher gets the event,
\* its redelivery is suppressed, and then it is delivered once.
Publish(event) ==
  /\ Arrive(event)
  /\ dispatched' = Append(dispatched, event)

NextStep ==
  /\ Running("deliver")
  /\ Head(stack).ids = {}
  /\ Head(stack).steps # <<>>

\* The event has no value for the association property: deliverTo throws, and
\* every loop under way ends.
ThrowMissingValue ==
  /\ NextStep
  /\ Head(stack).event.value = None
  /\ stack' = <<>>
  /\ UNCHANGED <<storage, aggregates, contexts, unit, dispatched, deliveries, effects>>

\* A @StartSaga step begins a unit of work of a new instance, unless start
\* throws DuplicateSagaInstanceException: then nothing is written.
StartSaga ==
  LET frame == Head(stack)
      event == frame.event
      step  == Head(frame.steps)
      saga  == Started(EmptyState, {<<PropertyOf[step], event.value>>})
      new   == [type |-> TypeOf[step], row |-> saga.row, associations |-> saga.associations]
      id    == Min(Fresh)
  IN  /\ NextStep
      /\ event.value # None
      /\ step \in StartSteps
      /\ GoOn([frame EXCEPT !.steps = Tail(@)])
      /\ IF Duplicate(step, event)
           THEN UNCHANGED <<storage, unit>>
           ELSE /\ Fresh # {}
                /\ storage' = [storage EXCEPT ![id] = new]
                /\ Begin(id, step, new)
      /\ UNCHANGED <<aggregates, contexts, dispatched, deliveries, effects>>

\* Mutant of Resolve: nothing found leaves the loop where it is.
ResolveAgain ==
  LET frame == Head(stack)
      found == ActiveIds(Correlated(frame.event, Head(frame.steps)))
  IN  /\ NextStep
      /\ frame.event.value # None
      /\ Head(frame.steps) \notin StartSteps
      /\ GoOn(IF found = {} THEN frame ELSE [frame EXCEPT !.ids = found])
      /\ UNCHANGED <<storage, aggregates, contexts, unit, dispatched, deliveries, effects>>

\* Any other step finds the active instances correlated to the event; none at
\* all is UNEXPECTED or UNMATCHED.
Resolve ==
  LET frame == Head(stack)
      step  == Head(frame.steps)
      found == ActiveIds(Correlated(frame.event, step))
  IN  /\ NextStep
      /\ frame.event.value # None
      /\ step \notin StartSteps
      /\ GoOn(IF found = {} THEN [frame EXCEPT !.steps = Tail(@)]
              ELSE [frame EXCEPT !.ids = found])
      /\ UNCHANGED <<storage, aggregates, contexts, unit, dispatched, deliveries, effects>>

\* Mutant of React: the instance is not read again.
ReactToResolved ==
  LET frame == Head(stack)
      id    == Min(frame.ids)
      rest  == frame.ids \ {id}
  IN  /\ Running("deliver")
      /\ frame.ids # {}
      /\ GoOn([frame EXCEPT !.ids = rest,
                            !.steps = IF rest = {} THEN Tail(@) ELSE @])
      /\ Begin(id, Head(frame.steps), NoSaga)
      /\ UNCHANGED <<storage, aggregates, contexts, dispatched, deliveries, effects>>

\* The step of the next resolved instance, in storage order, begins if it is
\* still active.
React ==
  LET frame == Head(stack)
      id    == Min(frame.ids)
      step  == Head(frame.steps)
      rest  == frame.ids \ {id}
  IN  /\ Running("deliver")
      /\ frame.ids # {}
      /\ GoOn([frame EXCEPT !.ids = rest,
                            !.steps = IF rest = {} THEN Tail(@) ELSE @])
      /\ IF Active(storage[id]) THEN Begin(id, step, NoSaga) ELSE UNCHANGED unit
      /\ UNCHANGED <<storage, aggregates, contexts, dispatched, deliveries, effects>>

\* A loop that is done returns to the one around it.
Return ==
  /\ unit = NoUnit /\ stack # <<>>
  /\ Head(stack) \in [kind : {"deliver"}, event : Events, steps : {<<>>}, ids : {{}}]
                       \cup {DispatchOf(<<>>)}
  /\ stack' = Tail(stack)
  /\ UNCHANGED <<storage, aggregates, contexts, unit, dispatched, deliveries, effects>>

-----------------------------------------------------------------------------
(* What a step method and the handlers it reaches may do, while it runs.    *)

Effect ==
  /\ unit # NoUnit
  /\ effects < MaxEffects
  /\ effects' = effects + 1
  /\ UNCHANGED <<storage, stack, dispatched, deliveries>>

\* The step of the running saga that reacts to event inside the unit of work.
InProcessSteps(event) ==
  {step \in Range(StepsOn[event.type]) :
     /\ TypeOf[step] = storage[unit.id].type
     /\ step \notin StartSteps
     /\ Correlates(event, step, storage[unit.id].associations)}

\* Mutant of Record: an event that a step waits for is marked at once.
RecordMarked(event) ==
  LET pending == SetToSeq({[step |-> s, at |-> Len(unit.recorded) + 1] : s \in InProcessSteps(event)})
      entry   == [event |-> event, delivered |-> pending # <<>>]
  IN  /\ Effect
      /\ unit' = [unit EXCEPT !.touched = @ \cup {event.aggregate},
                              !.recorded = Append(@, entry),
                              !.queue = @ \o pending]
      /\ UNCHANGED <<aggregates, contexts>>

\* DomainEvents.record
Record(event) ==
  LET entry   == [event |-> event, delivered |-> FALSE]
      at      == Len(unit.recorded) + 1
      pending == SetToSeq({[step |-> s, at |-> at] : s \in InProcessSteps(event)})
  IN  /\ Effect
      /\ unit' = [unit EXCEPT !.touched = @ \cup {event.aggregate},
                              !.recorded = Append(@, entry),
                              !.queue = @ \o pending]
      /\ UNCHANGED <<aggregates, contexts>>

\* CommandGateway.send, when its handler returns.
SendCommand ==
  /\ Effect
  /\ \E part \in Aggregated : aggregates' = aggregates \cup {part}
  /\ UNCHANGED <<contexts, unit>>

\* send or record throws, perhaps after the handler has changed something: the
\* unit of work is rollback-only even if the step goes on.
FailCommand ==
  /\ Effect
  /\ aggregates' \in {aggregates} \cup {aggregates \cup {part} : part \in Aggregated}
  /\ unit' = [unit EXCEPT !.rollbackOnly = TRUE]
  /\ UNCHANGED contexts

\* putState and updateStateAttribute write through at once.
PutState ==
  /\ Effect
  /\ \E c \in Contexts : contexts' = [contexts EXCEPT ![unit.id] = c]
  /\ UNCHANGED <<aggregates, unit>>

-----------------------------------------------------------------------------
(* The end of a step.                                                       *)

\* The events recorded at these positions, in recording order.
EventsAt(positions) ==
  FlattenSeq([i \in DOMAIN unit.recorded |->
                IF i \in positions THEN <<unit.recorded[i].event>> ELSE <<>>])

\* The recorded events that no step of the unit of work has run on.
Undelivered == EventsAt({i \in DOMAIN unit.recorded : ~ unit.recorded[i].delivered})

\* recordStepCompleted for the step that returns.
AfterStep == StepRecorded(storage[unit.id], unit.step, TouchListOf[unit.touched])

CommitAs(instance) ==
  /\ storage' = [storage EXCEPT ![unit.id] = instance]
  /\ unit' = NoUnit
  /\ stack' = <<DispatchOf(Undelivered)>> \o stack
  /\ UNCHANGED <<aggregates, contexts, dispatched, deliveries, effects>>

StepReturns == unit # NoUnit /\ ~ unit.rollbackOnly

\* The first @EndSaga step commits, whatever is still queued.
ReachEnd ==
  /\ StepReturns
  /\ unit.step \in EndSteps
  /\ CommitAs(Completed(AfterStep, unit.step))

\* A wait point: no queued event is left.
Wait ==
  /\ StepReturns
  /\ unit.step \notin EndSteps
  /\ unit.queue = <<>>
  /\ CommitAs(Advanced(AfterStep))

\* The next queued event runs its step in the same unit of work.
RunQueued ==
  /\ StepReturns
  /\ unit.step \notin EndSteps
  /\ unit.queue # <<>>
  /\ storage' = [storage EXCEPT ![unit.id] = AfterStep]
  /\ LET next == Head(unit.queue)
     IN  unit' = [unit EXCEPT !.step = next.step,
                              !.queue = Tail(@),
                              !.touched = {},
                              !.recorded[next.at].delivered = TRUE]
  /\ UNCHANGED <<aggregates, contexts, stack, dispatched, deliveries, effects>>

\* Mutant of Restore: the FAILED write loses the instance that the unit of work
\* started.
RestoreWithoutStarted(instance) ==
  /\ storage' = IF unit.started = NoSaga
                  THEN [unit.before.storage EXCEPT ![unit.id] = instance]
                  ELSE unit.before.storage
  /\ aggregates' = unit.before.aggregates

\* Every participant is restored, and then the instance is written as FAILED.
Restore(instance) ==
  /\ storage' = [unit.before.storage EXCEPT ![unit.id] = instance]
  /\ aggregates' = unit.before.aggregates

\* Mutant of RollBack: the recorded events are not discarded.
RollBackDispatching ==
  /\ unit # NoUnit
  /\ Restore(Failed(IF unit.started = NoSaga THEN unit.before.storage[unit.id]
                                             ELSE unit.started, unit.step))
  /\ unit' = NoUnit
  /\ stack' = <<DispatchOf(Undelivered)>> \o stack
  /\ UNCHANGED <<contexts, dispatched, deliveries, effects>>

\* The step throws, or returns in a unit of work that is rollback-only.
RollBack ==
  /\ unit # NoUnit
  /\ Restore(Failed(IF unit.started = NoSaga THEN unit.before.storage[unit.id]
                                             ELSE unit.started, unit.step))
  /\ unit' = NoUnit
  /\ UNCHANGED <<contexts, stack, dispatched, deliveries, effects>>

-----------------------------------------------------------------------------
(* After the commit.                                                        *)

\* The dispatcher gets the next event, and its listener may deliver it again:
\* redeliverDispatched() always does.
Dispatch ==
  LET event == Head(Head(stack).events)
      rest  == <<DispatchOf(Tail(Head(stack).events))>> \o Tail(stack)
  IN  /\ Running("dispatch")
      /\ Head(stack).events # <<>>
      /\ dispatched' = Append(dispatched, event)
      /\ stack' \in {rest, <<DeliveryOf(event)>> \o rest}
      /\ UNCHANGED <<storage, aggregates, contexts, unit, deliveries, effects>>

\* A listener captures persistedState() and a new harness goes on from it: the
\* stores survive, the loops do not.
Resume ==
  /\ Running("dispatch")
  /\ stack' = <<>>
  /\ UNCHANGED <<storage, aggregates, contexts, unit, dispatched, deliveries, effects>>

Loop == ThrowMissingValue \/ StartSaga \/ Resolve \/ React \/ Return \/ Dispatch

StepEnds == ReachEnd \/ Wait \/ RunQueued \/ RollBack

Client ==
  \/ \E event \in Events : Record(event)
  \/ SendCommand
  \/ FailCommand
  \/ PutState

Next ==
  \/ \E event \in Events : Deliver(event) \/ Publish(event)
  \/ Loop
  \/ Client
  \/ StepEnds
  \/ Resume

Spec == Init /\ [][Next]_vars

\* The harness does not stop by itself, and a step method returns or throws.
FairSpec == Spec /\ WF_vars(Loop) /\ WF_vars(StepEnds)

-----------------------------------------------------------------------------
(* Properties.                                                              *)

Storages == [Ids -> Stored \cup {NoSaga}]

Frames ==
  [kind : {"deliver"}, event : Events, steps : Seq(Steps), ids : SUBSET Ids]
    \cup [kind : {"dispatch"}, events : Seq(Events)]

UnitsOfWork ==
  [id : Ids, step : Steps, started : Stored \cup {NoSaga},
   before : [storage : Storages, aggregates : SUBSET Aggregated],
   queue : Seq([step : Steps, at : Nat]),
   recorded : Seq([event : Events, delivered : BOOLEAN]),
   touched : SUBSET Touchable, rollbackOnly : BOOLEAN]

ASSUME NoUnitAssumption == NoUnit \notin UnitsOfWork

TypeOK ==
  /\ storage \in Storages
  /\ aggregates \in SUBSET Aggregated
  /\ contexts \in [Ids -> Contexts \cup {None}]
  /\ unit # NoUnit =>
       /\ unit \in UnitsOfWork
       /\ \A i \in DOMAIN unit.queue : unit.queue[i].at \in DOMAIN unit.recorded
  /\ stack \in Seq(Frames)
  /\ dispatched \in Seq(Events)
  /\ deliveries \in 0 .. MaxDeliveries
  /\ effects \in 0 .. MaxEffects

\* FR-006: however often start events are delivered, published again or rolled
\* back, no two active instances of one type have the same association.
OneActivePerAssociation ==
  \A a, b \in Ids :
    /\ storage[a] # NoSaga /\ storage[b] # NoSaga
    /\ storage[a].type = storage[b].type
    /\ storage[a].associations = storage[b].associations
    /\ Active(storage[a]) /\ Active(storage[b])
    => a = b

\* Every step runs on an instance that is not terminal, in the unit of work and
\* before it: no SagaLifecycle call of a unit of work is ever rejected, not even
\* the separate FAILED write.
UnitRunsOnActive ==
  unit # NoUnit =>
    /\ Active(storage[unit.id])
    /\ unit.started = NoSaga => Active(unit.before.storage[unit.id])

\* No context record outlives, or precedes, the instance it belongs to: also a
\* first unit of work that rolls back leaves an instance behind (FR-023).
ContextsHaveSagas ==
  unit = NoUnit => \A id \in Ids : contexts[id] # None => storage[id] # NoSaga

\* The dispatcher gets, in recording order, the events the saga does not react to
\* and those that still wait behind an @EndSaga step; of every other the reacting
\* step is completed in the saga that is committed, and none of these was recorded
\* after one that waits.
EventsGoOneWay ==
  LET reacts(i) == InProcessSteps(unit.recorded[i].event)
      left == {i \in DOMAIN unit.recorded :
                 reacts(i) = {} \/ \E k \in DOMAIN unit.queue : unit.queue[k].at = i}
  IN  /\ Head(stack').events = EventsAt(left)
      /\ \A i \in DOMAIN unit.recorded \ left :
           /\ reacts(i) \subseteq CompletedSteps(storage'[unit.id].row)
           /\ \A j \in left : j < i => reacts(j) = {}

\* Each event of a unit that commits is dispatched or runs its step, never both
\* and never neither, and no event runs before one recorded earlier.
EachEventGoesOneWay ==
  [][unit # NoUnit /\ Len(stack') > Len(stack) => EventsGoOneWay]_vars

\* Every delivery returns: nested deliveries, in-process events and rollbacks
\* come to an end once the steps have no more effects.
DeliveriesReturn == stack # <<>> ~> stack = <<>>

\* Each unit of work is one step of AtomicUnits: until it ends, what is
\* committed is what it found.
Committed ==
  LET found == IF unit = NoUnit THEN storage ELSE unit.before.storage
  IN  [id \in Ids |->
         IF found[id] = NoSaga THEN NoSaga
         ELSE [row |-> found[id].row, associations |-> found[id].associations]]

Outbox ==
  FlattenSeq([i \in DOMAIN stack |->
                IF stack[i].kind = "dispatch" THEN stack[i].events ELSE <<>>])

Units == INSTANCE AtomicUnits WITH
  storage    <- Committed,
  aggregates <- IF unit = NoUnit THEN aggregates ELSE unit.before.aggregates,
  outbox     <- Outbox

ImplementsAtomicUnits == Units!Spec
=============================================================================
