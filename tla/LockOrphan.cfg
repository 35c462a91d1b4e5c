SPECIFICATION Spec
CONSTANTS
  a = a
  b = b
  c = c
  Proc = {a, b, c}
  Missing = Missing
  Blank = Blank
  Fleets <- OrphanCrews
INVARIANTS HoldersOwnTheLock
