SPECIFICATION Spec
CONSTANTS
  r1 = r1  r2 = r2  v1 = v1  v2 = v2  v3 = v3  None = None
  Recs = {r1, r2}
  Media = {}
  Versions = {v1, v2, v3}
  Total <- MCTotal  Size <- MCSize  Nav <- MCNav
  Contents <- MCContents
  FirstVersion <- MCFirst
  UserLists <- MCUserLists
  UserBookmarks <- MCUserBookmarks
  NRSEGMENTMARKER = 4
  NRBOOKMARKS = 13
  MaxBookmarks = 2
  TAPID = 77
  FirstTMSC = FALSE
  MaxReplace = 0
PROPERTIES EndedListComesBack
CHECK_DEADLOCK FALSE
