SPECIFICATION PlainSpec
CONSTANTS
  TotalBlock = 5
  Margin = 0
  NRSEGMENTMARKER = 5
  MaxBookmarks = 2
  NRUNDOEVENTS = 2
  NavBlocks = {}
  NavBlock <- MCNavBlock
  IFrameLead = 1
  MediaFileMode = FALSE
  Captions = {}
  NoCaption = NoCaption
  Positions = {2, 4}
  JumpWidths = {}
  BlockNrLast10Seconds = 3
  FlickerBlocks = 0
  LoadableMarkers <- OneMarker
  LoadableBookmarks <- TwoBookmarks
CONSTRAINT MarkerEditsOnly
PROPERTIES OrderKept
