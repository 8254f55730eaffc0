SPECIFICATION Spec
CONSTANTS
  MAXPROCESS = 3
  MAXPERIODICPRO = 2
  MAXSERVICES = 0
  WORD = 4
  PeriodArgs = {3}
  StartArgs = {0, 1}
  WcetArgs = {1}
PROPERTY CreatedAsAsked
