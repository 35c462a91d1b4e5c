SPECIFICATION Spec
CONSTANTS
  None = None
  Names = {"billing", "store"}
  Writers = {1}
  Home <- HomeOf
  Origins <- SomeOrigins
  DiskOf <- SomeDisks
  Interruptible = {}
  MaxKills = 0
PROPERTY PermissionsStay
