SPECIFICATION FairSpec
CONSTANTS
  a = a
  b = b
  c = c
  Proc = {a, b, c}
  Missing = Missing
  Blank = Blank
  Fleets <- SafeCrews
INVARIANTS HoldersOwnTheLock
PROPERTIES ImplementsTurns EveryWriterReturns
