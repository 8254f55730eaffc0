SPECIFICATION HSpec
CONSTANTS
  MAXPROCESS = 3
  MAXSERVICE = 1
  WORD = 5
  PeriodArgs = {0, 3}
  WcetArgs = {0, 2, 4}
  Values = {0, 1}
VIEW Live
INVARIANTS
  DescriptorsAccounted
  NoPriorityInversion
  IInv
  OverrunCaught
PROPERTIES
  SystemRunsToCompletion
  PreemptionKeepsTurn
  NoOvertaking
  DeliveredIsLatest
  PhaseKept
