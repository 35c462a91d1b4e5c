SPECIFICATION FairSpec
CONSTANTS
  Steps = {1, 2, 3, 4, 5}
  TouchLists = {"none", "some"}
  TouchListOf <- MCTouchListOf
  NotRun = NotRun
  States = {s0}
  AssociationSets <- MCAssociationSets
  Failures = {1, 2, 3, 4, 5}
  None = None
  Ids = {1, 2, 3, 4, 5, 6}
  NoSaga = NoSaga
  NoUnit = NoUnit
  TypeOf <- MCTypeOf
  StepsOn <- MCStepsOn
  StartSteps = {1, 4}
  EndSteps = {3, 5}
  PropertyOf <- MCPropertyOf
  Values = {1, None}
  Aggregated = {k1}
  Touchable = {g1}
  Contexts = {x1}
  InitialStorages <- MCStorages
  EmptyState = s0
  MaxDeliveries = 2
  MaxEffects = 2
INVARIANTS TypeOK OneActivePerAssociation UnitRunsOnActive ContextsHaveSagas
PROPERTIES DeliveriesReturn EachEventGoesOneWay ImplementsAtomicUnits
CHECK_DEADLOCK FALSE
