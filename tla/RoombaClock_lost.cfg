SPECIFICATION Spec
VIEW Live
CONSTANTS
  TICK = 1
  CYCLES_PER_MS = 2
  LATENCY = 3
  TIMER_WORD = 16
  WORD = 16
PROPERTY NowTracksTime
