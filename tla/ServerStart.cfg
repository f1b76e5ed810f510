SPECIFICATION FairBoot
CONSTANTS
  Dialects = {"sqlite", "postgres"}
  MaxFailures = 3
INVARIANTS
  LedgerTrue
  ServesMigrated
  SeededOnce
PROPERTIES
  LibraryKept
  ServesAgain
