----------------------------- MODULE SagaStore -----------------------------
(***************************************************************************)
(* What a StorageProvider that keeps a lifecycle history promises of one   *)
(* saga: a save takes effect at one instant, against the snapshot that is  *)
(* persisted at that instant, and changes the row, its associations and    *)
(* its history together; a delete removes all three.                       *)
(***************************************************************************)
EXTENDS LifecycleHistory

CONSTANT FirstNumbers   \* the numbers a new history may begin with

VARIABLES row, associations, history

Init ==
  /\ row = NoRow
  /\ associations = {}
  /\ history = {}

\* The rows saving incoming appends, given what is persisted now.
Appended(incoming, number) == Derive(row, incoming.row, number)

FirstSave(incoming) ==
  /\ row = NoRow
  /\ \E number \in FirstNumbers : history' = Appended(incoming, number)

NextSave(incoming) ==
  /\ row # NoRow
  /\ ForwardTransition(row, incoming.row)
  /\ history' = history \cup Appended(incoming, NextSequenceNumber(history))

Save(incoming) ==
  /\ FirstSave(incoming) \/ NextSave(incoming)
  /\ row' = incoming.row
  /\ associations' = incoming.associations

Delete ==
  /\ row' = NoRow
  /\ associations' = {}
  /\ history' = {}

Next == Delete \/ \E incoming \in Instances : Save(incoming)

Spec == Init /\ [][Next]_<<row, associations, history>>
=============================================================================
