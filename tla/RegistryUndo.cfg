SPECIFICATION Spec
CONSTANTS
  None = None
  Names = {"billing", "store"}
  Writers = {1}
  Home <- HomeOf
  Origins <- SomeOrigins
  DiskOf <- SomeDisks
  Interruptible = {"write", "undo"}
  MaxKills = 0
INVARIANT NeverOutOfSync
