SPECIFICATION Spec
CONSTANTS
  Tasks = {t1, t2, t3}
  Idle = idle
  MAXEVENT = 1
  TICK = 2
  QUANTUM = 1
  WORD = 4
  Periods = {2, 3}
  Starts = {0, 2}
  Wcets = {1}
SYMMETRY Alike
INVARIANTS SystemTasksKept
