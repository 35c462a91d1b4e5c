SPECIFICATION FairSpec
CONSTANTS
  None = "none"
  Headings = {"A", "B", "C"}
  Bodies = {"a0", "b0", "x", "y", "z", "half"}
  Files = {"f", "g"}
  Caps <- TwoCaps
  Claims <- TwoClaims
  Enrolled = {"checkout"}
  Initial <- SomeSpecs
  Drafts <- TwoTexts
  Change = {"f", "g"}
  Halved = {"half"}
  MaxDrafts = 1
  Loads = {{"f", "g"}}
INVARIANT AnyRefoldIsNoOp
CHECK_DEADLOCK FALSE
