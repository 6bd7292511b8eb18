SPECIFICATION Spec
CONSTANTS
  NrBlocks = 18
  Radius = 1
  Limit = 9
  DWord = 100
  ForceSpecialEnd = FALSE
  DisableSpecialEnd = FALSE
  NrCuts = 4
  MarkerLists <- MCMarkerLists
  Taken = {2}
  Spacing = 4
  Lag = 0
  SplitGap = 3
  NameOverwritten = {FALSE}
  Faults = {}
  MaxRuns = 1
INVARIANTS DoneAsAsked MarkersFollow SyncBytesRestored FailsOnlyOnFaults
CHECK_DEADLOCK FALSE
