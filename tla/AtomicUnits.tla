---------------------------- MODULE AtomicUnits ----------------------------
(***************************************************************************)
(* What specs/002's contract "saga-scoped unit of work" promises of units  *)
(* of work, each seen as one step: it commits the progress of one saga     *)
(* instance, the aggregate changes and the events to dispatch together, or *)
(* it marks the instance FAILED and changes nothing else.  SagaContext     *)
(* writes take effect on their own.                                        *)
(***************************************************************************)
EXTENDS SagaInstances, Sequences

CONSTANTS Ids, NoSaga, Aggregated, Contexts, Events

VARIABLES
  storage,     \* the stored instance of each saga id, or NoSaga
  aggregates,  \* the state of the client's aggregates
  contexts,    \* the SagaContext record of each saga id, or None
  outbox,      \* committed events that are still to be dispatched
  dispatched   \* the events dispatched, in order

vars == <<storage, aggregates, contexts, outbox, dispatched>>

Init ==
  /\ storage \in [Ids -> Instances \cup {NoSaga}]
  /\ aggregates = {}
  /\ contexts = [id \in Ids |-> None]
  /\ outbox = <<>>
  /\ dispatched = <<>>

CompletedBefore(id) ==
  IF storage[id] = NoSaga THEN {} ELSE CompletedSteps(storage[id].row)

\* Only the instance of one saga changes, and was not terminal.
Changes(id, instance) ==
  /\ storage[id] = NoSaga \/ Active(storage[id])
  /\ instance \in Instances
  /\ \A other \in Ids \ {id} : storage'[other] = storage[other]

\* Steps have run, none is undone, and the saga waits or has reached its end in
\* a completed step.
Commit(id) ==
  /\ LET instance == storage'[id]
     IN  /\ Changes(id, instance)
         /\ instance.row.status \in {"RUNNING", "COMPLETED"}
         /\ CompletedBefore(id) \subseteq CompletedSteps(instance.row)
         /\ CompletedSteps(instance.row) # {}
         /\ instance.row.outcome \in CompletedSteps(instance.row) \cup {None}
         /\ storage[id] # NoSaga => instance.associations = storage[id].associations
  /\ aggregates' \in SUBSET Aggregated
  /\ LET added == Len(outbox') - Len(outbox)
     IN  added >= 0 /\ SubSeq(outbox', added + 1, Len(outbox')) = outbox
  /\ UNCHANGED <<contexts, dispatched>>

\* Only the status and the failure are recorded: no step that ran in the unit,
\* no aggregate it changed, no event it recorded.
Fail(id) ==
  /\ LET instance == storage'[id]
     IN  /\ Changes(id, instance)
         /\ instance.row.status = "FAILED"
         /\ IF storage[id] = NoSaga
              THEN CompletedSteps(instance.row) = {}
              ELSE instance = Failed(storage[id], instance.row.failure)
  /\ UNCHANGED <<aggregates, contexts, outbox, dispatched>>

WriteContext(id) ==
  /\ contexts' \in {[contexts EXCEPT ![id] = c] : c \in Contexts}
  /\ UNCHANGED <<storage, aggregates, outbox, dispatched>>

\* An event published outside every unit of work is dispatched at once.
Publish(event) ==
  /\ dispatched' = Append(dispatched, event)
  /\ UNCHANGED <<storage, aggregates, contexts, outbox>>

Dispatch ==
  /\ outbox # <<>>
  /\ dispatched' = Append(dispatched, Head(outbox))
  /\ outbox' = Tail(outbox)
  /\ UNCHANGED <<storage, aggregates, contexts>>

\* The process stops, or a delivery throws, before everything is dispatched.
Abandon ==
  /\ outbox' = <<>>
  /\ UNCHANGED <<storage, aggregates, contexts, dispatched>>

Next ==
  \/ \E id \in Ids : Commit(id) \/ Fail(id) \/ WriteContext(id)
  \/ \E event \in Events : Publish(event)
  \/ Dispatch
  \/ Abandon

Spec == Init /\ [][Next]_vars
=============================================================================
