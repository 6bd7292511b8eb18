SPECIFICATION Spec
CONSTANTS
  NrBlocks = 12
  Radius = 1
  Limit = 5
  DWord = 100
  ForceSpecialEnd = FALSE
  DisableSpecialEnd = FALSE
  NrCuts = 4
  MarkerLists <- MCMarkerLists
  Taken = {2}
  Spacing = 4
  Lag = 0
  SplitGap = 3
  NameOverwritten = {FALSE}
  Faults = {"off"}
  MaxRuns = 2
INVARIANTS NothingLost
CHECK_DEADLOCK FALSE
