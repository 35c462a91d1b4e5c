SPECIFICATION Spec
CONSTANTS
  t1 = t1
  t2 = t2
  None = None
  Steps = {"tasks", "implement", "converge"}
  Substeps = {None}
  Tasks = {t1, t2}
  Calls <- AllCalls
  MaxEntries = 3
PROPERTY DeriveNeverDragsBack
CHECK_DEADLOCK FALSE
