SPECIFICATION Spec
CONSTANTS
  Inbox = inbox
  Root = root
  Folders = {inbox, a, b}
  Bookmarks = {}
  Requests = {q1, q2}
  MaxDepth = 1
  MayBeKilled = TRUE
SYMMETRY Symmetry
INVARIANTS
  InboxSafe
