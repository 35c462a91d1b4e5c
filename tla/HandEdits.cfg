SPECIFICATION HSpec
CONSTANTS
  None = None
  Caps = {"a"}
  Code = {"f", "g"}
  Dir <- OneDir
  Claims <- AllPaths
  Exempt = {}
  Marks <- NoMarks
  Likeness <- Alike
  Turn <- AnyOrder
  Runs = {"r"}
  Contents = {0, 1}
  Initial <- FirstCommits
  MaxCommits = 3
  MaxEdits = 5
INVARIANT HandEditsAreDrift
CHECK_DEADLOCK FALSE
