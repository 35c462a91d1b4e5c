SPECIFICATION Spec
CONSTANTS
  None = None
  Caps = {"a", "b"}
  Code = {"f", "g"}
  Dir <- OneDir
  Claims <- TwoClaims
  Exempt = {}
  Marks <- TwoMarks
  Likeness <- Alike
  Turn <- Order
  Runs = {"r"}
  Contents = {0, 1}
  Initial <- FirstCommits
  MaxCommits = 3
  MaxEdits = 4
INVARIANT DeletionsAreListed
CHECK_DEADLOCK FALSE
