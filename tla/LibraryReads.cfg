SPECIFICATION Spec
CONSTANTS
  Folders <- MCFolders
  Bookmarks <- MCBookmarks
  Root = 0
  Inbox = 10
  Names = {"inbox", "n"}
  Places = {0, 1}
  Writers = {w1, w2}
  Libraries <- MCLibraries
  Orders <- MCOrders
  Items <- MCItems
  MaxWrites = 2
  PageSize = 1
  Beside <- MCBeside
  FeedSize = 1
INVARIANTS
  PagesTrue
  FilesTrue
  FeedSound
CHECK_DEADLOCK FALSE
SYMMETRY MCSymmetry
VIEW MCView
