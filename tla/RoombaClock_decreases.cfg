SPECIFICATION Spec
CONSTANTS
  TICK = 3
  CYCLES_PER_MS = 2
  LATENCY = 1
  TIMER_WORD = 16
  WORD = 16
PROPERTY NowNeverDecreases
