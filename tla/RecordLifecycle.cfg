SPECIFICATION FairSpec
CONSTANTS
  t1 = t1
  t2 = t2
  None = None
  Steps = {"tasks", "implement"}
  Substeps = {None}
  Tasks = {t1, t2}
  Calls <- AllCalls
  MaxEntries = 2
INVARIANTS RepeatsAddNothing NoFinishIsLost FoldEqualsLive
PROPERTIES StatusMovesForward DoneSpecsShip
CONSTRAINTS FirstTaskFirst OneLineAfterOverlap
CHECK_DEADLOCK FALSE
