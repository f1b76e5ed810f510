SPECIFICATION Spec
CONSTANTS
  Inbox = inbox
  Root = root
  Folders = {inbox, a, b, c}
  Bookmarks = {m}
  Requests = {q1}
  MaxDepth = 2
  MayBeKilled = FALSE
SYMMETRY Symmetry
INVARIANTS
  TreeSound
PROPERTIES
  GcDeepestFirst
