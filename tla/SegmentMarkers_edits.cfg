SPECIFICATION HSpec
CONSTANTS
  TotalBlock = 4
  Margin = 0
  NRSEGMENTMARKER = 4
  MaxBookmarks = 2
  NRUNDOEVENTS = 2
  NavBlocks = {}
  NavBlock <- MCNavBlock
  IFrameLead = 1
  MediaFileMode = FALSE
  Captions = {c1, c2}
  NoCaption = NoCaption
  Positions = {0, 1, 3}
  JumpWidths = {}
  BlockNrLast10Seconds = 3
  FlickerBlocks = 0
  LoadableMarkers <- NoMarkers
  LoadableBookmarks <- TwoBookmarks
CONSTRAINT OneKind
INVARIANTS CaptionsOwnedOnce MarkersSorted
PROPERTIES UndoRestoresMarkers OrderKept UndoRestoresBookmarks
SYMMETRY Symmetry
