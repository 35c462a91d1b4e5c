SPECIFICATION FairSpec
CONSTANTS
  None = None
  Names = {"billing", "store"}
  Writers = {1}
  Home <- HomeOf
  Origins <- SomeOrigins
  DiskOf <- SomeDisks
  Interruptible = {"move", "write", "drop", "end", "undo"}
  MaxKills = 1
INVARIANTS ConfigAndDiskAgree NothingIsDropped
PROPERTIES CallsTouchOnlyTheirOwn KilledRelocationHeals
CONSTRAINT OnlyBillingAstray
