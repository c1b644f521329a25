CONSTANTS
  Starters = {p1}
  Incumbent = old
  Nobody = Nobody
  Versions = {1, 2}
SPECIFICATION FairSpec
PROPERTIES
  ReplacementServes
CHECK_DEADLOCK FALSE
