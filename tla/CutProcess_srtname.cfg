SPECIFICATION Spec
CONSTANTS
  NrBlocks = 12
  Radius = 1
  Limit = 5
  DWord = 100
  ForceSpecialEnd = FALSE
  DisableSpecialEnd = FALSE
  NrCuts = 4
  MarkerLists <- MCMarkerLists
  Taken = {2}
  Spacing = 4
  Lag = 0
  SplitGap = 3
  NameOverwritten = {TRUE}
  Faults = {}
  MaxRuns = 1
INVARIANTS FailsOnlyOnFaults
CHECK_DEADLOCK FALSE
