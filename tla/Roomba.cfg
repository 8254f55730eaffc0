SPECIFICATION HSpec
CONSTANTS
  MAXPROCESS = 3
  MAXPERIODICPRO = 2
  MAXSERVICES = 1
  WORD = 3
  PeriodArgs = {0, 2}
  StartArgs = {0, 1}
  WcetArgs = {1}
VIEW Live
INVARIANTS
  TasksAccounted
  BlocksAccounted
  RemticksNeverWrap
  NoPriorityInversion
  OnTimeOrdered
PROPERTIES
  QueueDiscipline
