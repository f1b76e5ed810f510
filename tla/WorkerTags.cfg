SPECIFICATION Spec
CONSTANTS
  Bookmarks = {b1, b2}
  Tags = {t1, t2}
  Names = {n1, n2}
  Texts = {x1, x2}
  Present = {b1}
  Requests = {q1, q2}
  MaxRequests = 2
SYMMETRY Symmetry
INVARIANTS
  AsAsked
  SearchTrue
CHECK_DEADLOCK FALSE
