SPECIFICATION Spec
CONSTANTS
  Imports = {i1, i2}
  Urls = {"u", "v"}
  Exports = {"e", "f"}
  Paths <- MCPaths
  Files <- MCFiles
  Libraries <- MCLibraries
  MaxEdits = 1
SYMMETRY Symmetry
INVARIANTS
  FoldersTrue
PROPERTIES
  Arrives
  Repeatable
CHECK_DEADLOCK FALSE
