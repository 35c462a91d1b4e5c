SPECIFICATION FairSpec
CONSTANTS
  Steps = {1, 2}
  TouchLists = {t1}
  NotRun = NotRun
  States = {s1}
  AssociationSets <- MCAssociationSets
  Failures = {f1}
  None = None
  NoRow = NoRow
  c1 = c1
  c2 = c2
  c3 = c3
  a1 = a1
  a2 = a2
  Clients = {c1, c2, c3}
  Deleters = {c1, c2, c3}
  Editors = {}
  NoClient = NoClient
  FirstNumbers = {0, 1, 2, 3, 4, 5}
  MaxCalls = 3
INVARIANTS LockDiscipline RowsBelongTogether
PROPERTIES ImplementsStore CallsReturn
CHECK_DEADLOCK FALSE
