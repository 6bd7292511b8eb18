SPECIFICATION HSpec
CONSTANTS
  TotalBlock = 4
  Margin = 0
  NRSEGMENTMARKER = 4
  MaxBookmarks = 1
  NRUNDOEVENTS = 3
  NavBlocks = {}
  NavBlock <- MCNavBlock
  IFrameLead = 1
  MediaFileMode = TRUE
  Captions = {}
  NoCaption = NoCaption
  Positions = {0, 2, 3, 4}
  JumpWidths = {}
  BlockNrLast10Seconds = 3
  FlickerBlocks = 0
  LoadableMarkers <- NoMarkers
  LoadableBookmarks <- NoBookmarks
CONSTRAINT EditsOnly
PROPERTIES UndoRestoresEveryMarker
