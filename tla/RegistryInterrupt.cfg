SPECIFICATION Spec
CONSTANTS
  None = None
  Names = {"billing", "store"}
  Writers = {1}
  Home <- HomeOf
  Origins <- SomeOrigins
  DiskOf <- SomeDisks
  Interruptible = {"dropped"}
  MaxKills = 0
INVARIANT NothingIsDropped
