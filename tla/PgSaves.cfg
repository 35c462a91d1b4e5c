SPECIFICATION Spec
CONSTANTS
  Steps = {1, 2}
  TouchLists = {t1, t2}
  NotRun = NotRun
  States = {s1}
  AssociationSets <- MCOneAssociationSet
  Failures = {f1}
  None = None
  NoRow = NoRow
  c1 = c1
  c2 = c2
  c3 = c3
  a1 = a1
  a2 = a2
  Clients = {c1, c2, c3}
  Deleters = {}
  Editors = {c1, c2, c3}
  NoClient = NoClient
  FirstNumbers = {0}
  MaxCalls = 4
INVARIANTS TypeOK HistoryAgreesWithRow HistoryReconstructsRow
PROPERTIES ProgressIsKept HistoryIsAppendOnly
SYMMETRY MCSymmetry
CHECK_DEADLOCK FALSE
