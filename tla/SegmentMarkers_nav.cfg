SPECIFICATION PlainSpec
CONSTANTS
  TotalBlock = 5
  Margin = 1
  NRSEGMENTMARKER = 4
  MaxBookmarks = 1
  NRUNDOEVENTS = 1
  NavBlocks = {4}
  NavBlock <- MCNavBlock
  IFrameLead = 1
  MediaFileMode = TRUE
  Captions = {}
  NoCaption = NoCaption
  Positions = {0, 2, 3, 4}
  JumpWidths = {2}
  BlockNrLast10Seconds = 3
  FlickerBlocks = 1
  LoadableMarkers <- OneMarker
  LoadableBookmarks <- NoBookmarks
INVARIANTS TypeOK EndsFixed IndicesInRange EndNotSelected NearestIsNearest
PROPERTIES MoveLeavesNoSmallSegment
