SPECIFICATION Spec
CONSTANTS
  r1 = r1
  inbox = inbox
  f0 = f0
  f1 = f1
  f2 = f2
  b0 = b0
  b1 = b1
  b2 = b2
  Folders = {inbox, f0, f1, f2}
  Bookmarks = {b0, b1, b2}
  Inbox = inbox
  Root = root
  Same = same
  Restores = {r1}
  Writers = {w1}
  Seed = seed
  FolderOf <- MCFolders
  BookmarkOf <- MCBookmarks
  MaxDepth = 3
  MaxRequests = 2
  MaxBatch = 2
  Dialects = {"sqlite", "postgres"}
INVARIANTS
  InboxSafe
  TreeSound
PROPERTIES
  GcWorks
  KeepsPromise
