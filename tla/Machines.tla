------------------------------ MODULE Machines ------------------------------
(***************************************************************************)
(* The small machines around the kernels, each on its own: the lists and   *)
(* the clocks under them, and the two older kernels.  They have no state   *)
(* in common.  The one that machine names takes all the steps, the others  *)
(* rest; Parts puts the programs of Sketches beside them.  Each property   *)
(* is that of the machine's own module.                                    *)
(***************************************************************************)
EXTENDS Integers

CONSTANTS
  MAXPROCESS,                           \* TaskQueue, PppKernel and ActiveKernel
  Queues,                               \* TaskQueue
  ROBOT_MAXPROCESS, RobotQueues,        \* RoombaQueue
  MAXPERIODICPRO, RELEASE_WORD,         \* ReleaseQueue
  TICK, CYCLES_PER_MS, CLOCK_WORD,      \* RtosClock
  ROBOT_TICK, ROBOT_CYCLES_PER_MS, LATENCY, TIMER_WORD, ROBOT_WORD,   \* RoombaClock
  BYTE, Tables                          \* PppKernel

VARIABLES
  machine,  \* which of them runs
  \* TaskQueue
  head, tail, size, next, outside,
  \* RoombaQueue
  robot_head, robot_tail, robot_next, robot_outside,
  \* ReleaseQueue
  first_block, last_block, nextT, release, blocks_outside, tick,
  \* RtosClock
  TCNT1, OCF1A, ticks_since_boot, clock_pc, time, answer,
  \* RoombaClock
  robot_TCNT1, OCR1A, waiting, ticks_from_start, current_timer_val,
  reads, in_now, robot_time, at, torn, robot_answer, since,
  \* PppKernel
  PPP, cur_task, state, level, name, dead_pool_queue, system_queue, rr_queue,
  name_to_task_ptr, slot, ticks_remaining, slot_task_finished, inKernel,
  error_msg, elapsed,
  \* ActiveKernel
  active_state, Cp, request, NextP, KernelActive, Tasks, dispatching

\* The release queue and the free list of blocks.
BlockQueues == {"periodic_dead_pool_queue", "periodic_task_queue"}

Queue == INSTANCE TaskQueue WITH DeadPool <- "dead_pool_queue"

RobotQueue == INSTANCE RoombaQueue
  WITH MAXPROCESS <- ROBOT_MAXPROCESS, Queues <- RobotQueues,
       DeadPool <- "dead_pool_queue",
       head <- robot_head, tail <- robot_tail, next <- robot_next,
       outside <- robot_outside

Releases == INSTANCE ReleaseQueue
  WITH DeadPool <- "periodic_dead_pool_queue", WORD <- RELEASE_WORD,
       Queues <- BlockQueues,
       head <- first_block, tail <- last_block, next <- release,
       outside <- blocks_outside, ticks_from_start <- tick

Clock == INSTANCE RtosClock WITH WORD <- CLOCK_WORD, pc <- clock_pc

RobotClock == INSTANCE RoombaClock
  WITH TICK <- ROBOT_TICK, CYCLES_PER_MS <- ROBOT_CYCLES_PER_MS, WORD <- ROBOT_WORD,
       TCNT1 <- robot_TCNT1, time <- robot_time, answer <- robot_answer

Ppp == INSTANCE PppKernel

Active == INSTANCE ActiveKernel WITH state <- active_state

ASSUME MachinesAssumption ==
  /\ Queue!QueueAssumption /\ RobotQueue!RoombaQueueAssumption
  /\ Releases!ReleaseQueueAssumption
  /\ Clock!ClockAssumption /\ RobotClock!RoombaClockAssumption
  /\ Ppp!PppAssumption /\ Active!SkeletonAssumption

queue_vars  == <<head, tail, size, next, outside>>
list_vars   == <<robot_head, robot_tail, robot_next, robot_outside>>
block_vars  == <<first_block, last_block, nextT, release, blocks_outside, tick>>
clock_vars  == <<TCNT1, OCF1A, ticks_since_boot, clock_pc, time, answer>>
robot_vars  == <<robot_TCNT1, OCR1A, waiting, ticks_from_start, current_timer_val,
                 reads, in_now, robot_time, at, torn, robot_answer, since>>
ppp_vars    == <<PPP, cur_task, state, level, name, dead_pool_queue, system_queue,
                 rr_queue, name_to_task_ptr, slot, ticks_remaining,
                 slot_task_finished, inKernel, error_msg, elapsed>>
active_vars == <<active_state, Cp, request, NextP, KernelActive, Tasks, dispatching>>
machine_vars == <<machine, queue_vars, list_vars, block_vars, clock_vars, robot_vars,
                  ppp_vars, active_vars>>

MachinesInit ==
  /\ Queue!Init /\ RobotQueue!Init /\ Releases!Init
  /\ Clock!Init /\ RobotClock!Init /\ Ppp!Init /\ Active!Init

MachinesNext ==
  /\ \/ machine = "queue" /\ Queue!Next
     \/ machine = "robot queue" /\ RobotQueue!Next
     \/ machine = "releases" /\ Releases!Next
     \/ machine = "clock" /\ Clock!Next
     \/ machine = "robot clock" /\ RobotClock!Next
     \/ machine = "ppp" /\ Ppp!Next
     \/ machine = "active" /\ Active!Next
  /\ machine' = machine
  /\ machine # "queue" => UNCHANGED queue_vars
  /\ machine # "robot queue" => UNCHANGED list_vars
  /\ machine # "releases" => UNCHANGED block_vars
  /\ machine # "clock" => UNCHANGED clock_vars
  /\ machine # "robot clock" => UNCHANGED robot_vars
  /\ machine # "ppp" => UNCHANGED ppp_vars
  /\ machine # "active" => UNCHANGED active_vars

MachinesSpec == MachinesInit /\ [][MachinesNext]_machine_vars

-----------------------------------------------------------------------------
(* TaskQueue, RoombaQueue and ReleaseQueue.                                *)

\* The linked lists, whose next fields are shared and whose tails go stale,
\* implement FIFO queues: no operation loses, duplicates or reorders a task.  So do
\* the lists of the robots' kernel, which only their tails end.  The size field,
\* which the timing checks of Project 2 read, is the length of the list after
\* every operation.
ListsImplementFifo ==
  /\ Queue!ImplementsFifo /\ RobotQueue!ImplementsFifo
  /\ [][Queue!SizeIsLength']_queue_vars

\* The robots' release queue and free list of blocks keep the order in which the blocks
\* were due when they were put in.
BlocksInOrder == Releases!ImplementsOrder

(* RtosClock and RoombaClock.                                              *)

\* The answer of Now() of Project 2 is the time since boot, up to rounding, the
\* drift of a cycle per tick and a tick not yet counted.  That of the robots is
\* the time at which it read the timer, if no tick comes between its reads: late
\* ticks do not add up.
ClocksTrackTime == Clock!NowTracksTime /\ RobotClock!NowTracksTime

(* PppKernel.                                                              *)

\* Every descriptor is in one place: running, in one queue, or under its name.
\* A PERIODIC task runs in a slot of its name only, once, whatever preempted it,
\* and no task runs while one that comes before it could.
PppScheduled ==
  Ppp!TasksAccounted /\ Ppp!RunsInOwnSlot /\ Ppp!RunsMostUrgent

\* The slots begin and end when the table says so.
PppTimetableKept == Ppp!TimetableKept

(* ActiveKernel.                                                           *)

\* The kernel with a stack of its own does what the shared one does, and READY
\* tasks take turns.  While the count of tasks allows a creation there is a
\* descriptor for it.
SkeletonTakesTurns ==
  /\ Active!ImplementsShared /\ Active!NoneSkipped
  /\ [][Active!DeadOneFound']_active_vars

=============================================================================
