SPECIFICATION Spec
CONSTANTS
  r1 = r1
  r2 = r2
  None = None
  Recs = {r1, r2}
  Blocks <- MCBlocks
  Faults = {"fork", "strip", "rename"}
  MaxDepth = 3
  MaxRuns = 1
INVARIANTS OwnModeAtExit
CHECK_DEADLOCK FALSE
