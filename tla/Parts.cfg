CONSTANTS
  WORD = 8
  BITS = 3
  GAP = 8
  MAXTASKS = 4
  Delays <- RemoteDelays
  Periods <- RemotePeriods
  MAXRUN = 5
  Hyperperiod = 100
  Own = "remote"
  Remotes = {"robot"}
  Kinds = {"SENSOR_DATA"}
  MaxPackets = 4
  MAXPROCESS = 4
  Queues = {"dead_pool_queue", "rr_queue", "service_queue"}
  ROBOT_MAXPROCESS = 3
  RobotQueues = {"dead_pool_queue", "roundrobin_task_queue", "task_queue"}
  MAXPERIODICPRO = 3
  RELEASE_WORD = 3
  TICK = 2
  CYCLES_PER_MS = 4
  CLOCK_WORD = 8
  ROBOT_TICK = 3
  ROBOT_CYCLES_PER_MS = 2
  LATENCY = 1
  TIMER_WORD = 16
  ROBOT_WORD = 4
  BYTE = 3
  Tables <- SmallTables
SPECIFICATION PartsSpec
VIEW Live
INVARIANTS
  PppScheduled
  PppTimetableKept
  TimerIsRunningTime
  IrHeardAsSent
  SketchOnTime
  RemoteSpiUninterrupted
  RemoteRxflagTellsPackets
  RemoteWaitHasEnd
  RemoteNoStaleOrder
  SketchSentAsAsked
PROPERTIES
  ListsImplementFifo
  BlocksInOrder
  ClocksTrackTime
  SkeletonTakesTurns
