SPECIFICATION Spec
CONSTANTS
  None = None
  Navs <- MCNavs
  Duration <- MCDuration
  Discrepancy = 18
  Gap = 3
  Step = 1
  Blocks = {0, 1, 5, 9, 13}
  PerBlock = 3
  BookmarkLists <- MCBookmarkLists
  MaxBookmarks = 4
  Margin = 2
  Cuts <- MCCuts
  DWord = 64
  Faults = {"rename", "open", "close", "inf", "off", "write"}
  MaxCuts = 2
PROPERTIES GapsClosed
