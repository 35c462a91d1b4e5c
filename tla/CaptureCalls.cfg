SPECIFICATION Spec
CONSTANTS
  Callers = {main, worker}
  main = main
  worker = worker
  Calls <- CallsOf
  Results = {"passed", "failed"}
  Malformed = Malformed
  CapLines = 2
  MaxCalls <- CallCounts
  Earlier <- EarlierLine
  MaxMishaps = 1
  None = None
INVARIANTS RepeatCompletes OkMeansLanded ExactIsComplete
CHECK_DEADLOCK FALSE
