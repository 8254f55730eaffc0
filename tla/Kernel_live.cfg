SPECIFICATION FairSpec
CONSTANTS
  MAXPROCESS = 3
  MAXSERVICE = 1
  WORD = 3
  PeriodArgs = {2}
  WcetArgs = {1}
  Values = {0}
VIEW Read
PROPERTIES
  ReleaseServed
  RRNotStarved
