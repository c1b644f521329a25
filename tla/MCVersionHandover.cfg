CONSTANTS
  Starters = {p1, p2}
  Incumbent = old
  Nobody = Nobody
  Versions = {1, 2}
SPECIFICATION FairSpec
PROPERTIES
  UpToDateStays
  EveryStarterSettles
  SurvivorServes
CHECK_DEADLOCK FALSE
