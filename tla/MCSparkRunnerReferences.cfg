SPECIFICATION MCSpec
CONSTANTS
  Transformations = {"t", "u"}
  Assets = {"a", "b", "c"}
  RuleIds = {"r1", "r2"}
  Files = {"a0", "b0", "x", "y"}
  None = None
  Draws = {0, 1}
INVARIANT
  AcceptedSuitesCanRun
