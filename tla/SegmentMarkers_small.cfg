SPECIFICATION PlainSpec
CONSTANTS
  TotalBlock = 8
  Margin = 1
  NRSEGMENTMARKER = 5
  MaxBookmarks = 1
  NRUNDOEVENTS = 1
  NavBlocks = {}
  NavBlock <- MCNavBlock
  IFrameLead = 1
  MediaFileMode = FALSE
  Captions = {}
  NoCaption = NoCaption
  Positions = {3, 4}
  JumpWidths = {}
  BlockNrLast10Seconds = 6
  FlickerBlocks = 0
  LoadableMarkers <- NoMarkers
  LoadableBookmarks <- NoBookmarks
CONSTRAINT EditsOnly
PROPERTIES AddLeavesNoSmallSegment
