SPECIFICATION FairSpec
CONSTANTS
  Passwords = {p1, p2}
  FirstPassword = p1
  NoPassword = none
  MaxKills = 1
  MaxActs = 2
INVARIANTS
  PageTrue
  DataAfterChange
  BootstrapWhole
PROPERTIES
  HomeAppears
  ChangeSticks
CHECK_DEADLOCK FALSE
