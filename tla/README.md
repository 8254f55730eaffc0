# Verification of the csc460 real-time systems

The repository holds several real-time operating systems for AVR
microcontrollers, written in one course, and the programs that run on them: a
remote-controlled game with iRobot Create robots, its radio and its infrared
guns.  This directory holds TLA+ models of the kernels, the radio driver, the
robot's program and the sketches of the remote control, TLC runs that check them
on small instances, and TLAPS proofs for instances of every size.

## 1. The system

A kernel runs on one microcontroller with one processor and no memory
protection.  Application tasks are C functions at three levels: SYSTEM (run to
completion, first come first served), PERIODIC (released every `period` ticks
with a worst-case execution time), ROUND_ROBIN (a quantum of one tick).  They
enter the kernel through system calls, the timer through an interrupt; the kernel
runs with interrupts disabled on a stack of its own, handles one request, chooses
a task and leaves.  Services (or events) wake waiting tasks.  A kernel that finds
a timing violation or a wrong call stops the machine in `OS_Abort`.

On a robot, `r_main` creates one ROUND_ROBIN task, the controller, which waits for
the service of the radio, drains the radio and answers; interrupt handlers
publish to that service and to the one of the infrared receiver.  The remote
control has no kernel: a cooperative scheduler calls four functions, and the
radio interrupts them.

| Component (sources) | State | Operations | Interacts through |
|---|---|---|---|
| K2 kernel (`Project2/GccApplication3/GccApplication3/os.cpp`) | descriptors, dead pool, three ready queues, `periodic_tasks` with counters, services, tick count | create (three levels), next, terminate, subscribe, publish, service init, tick, abort | system calls; tick interrupt; publications from interrupt handlers |
| K2 task queues (same file) | linked lists through the descriptors' `next` | `enqueue`, `queue_push`, `dequeue` | the kernel's queues share the descriptors |
| K2 clock (same file) | Timer 1 (CTC), `ticks_since_boot` | tick, `Now` | interrupt mask |
| K3 kernel (`Project3/RoombaVer3/rtos/os.c`) | descriptors, metadata blocks, budget of the running periodic task, preemption mask, global argument block | as K2, and `OS_DisablePreemption` | as K2; the argument block is shared by all callers |
| K3 queues (same file) | lists of descriptors that only `tail` ends; lists of blocks sorted at insertion | `enqueue`, `budgequeue`, `dequeue`, `periodic_enqueue`, `periodic_dequeue` | the kernel |
| K3 clock (same file) | Timer 1 (free running), `ticks_from_start`, `current_timer_val` | tick, `Now` | interrupts stay enabled |
| OS timers (`rtos/timer.c`) | elapsed time, last update, paused | value, reset, pause, resume | `Now` |
| Daniels kernel (`rtos_daniels/`) | ready queues, delta list of sleepers, execution timers, events | as K2, events, signals from handlers | system calls, asynchronous signals |
| PPP kernel (`Project2/rtos/os.cpp`) | a cyclic table of time slots, names, ready queues | create, next, terminate, tick through the table | system calls |
| Skeleton kernels (`Project2/rtos/active`, `shared`) | descriptors, current and next task | create, next, terminate, dispatch | system calls |
| Radio driver (`RoombaVer3/radio/`, copy in `src/radio/`) | `transmit_lock`, pipe-0 address, the chip's registers, flags and FIFOs | configure, transmit, receive, interrupt handler | SPI, INT4, services |
| Robot application (`RoombaVer3.c`) | status of the robot, last infrared value | `r_main`, controller task, two handlers | services, shared variables, radio |
| Infrared link (`ir/`) | bit counter, byte, `is_receiving` | two interrupt handlers, transmit | services, interrupt mask |
| Cooperative scheduler (`scheduler/`) | remaining times | start, dispatch by polling | the sketches' loop |
| Remote control (`Project 1/Phase 2`) | `rxflag`, `txflag`, `send_packet` | four tasks, setup, radio handler | scheduler, radio |
| Infrared sketch (`Project 1/Phase 1`) | bit sequence and index, timer 3 | transmit, timer handler | scheduler |
| Serial port, Roomba driver, base station, analog input, trace, kernel copies, examples | see section 5 | | |

What is hard here, and what makes each part correct:

* *Kernels.*  Any call may come at any moment, the tick and publications by
  interrupt handlers between any two of them, and the state a request leaves the
  running task in decides what the dispatcher does next.  Correct: no task is
  lost or queued twice through any sequence of calls; no task runs while a more
  urgent one is ready; SYSTEM tasks run to completion; a preempted ROUND_ROBIN
  task keeps its turn and nobody is overtaken or starved; periodic tasks are
  released on time or the system aborts; overruns abort; words wrap safely; a
  timetable does not shift.
* *Queues.*  One link field per element, stale pointers after a removal,
  differences instead of times.  Correct: each behaves as the sequence, or as the
  set of alarms, that its kernel takes it for.
* *Clocks.*  Hardware counts while software reads.  Correct: `Now` is the time
  since boot and never goes back.
* *Radio and robot.*  The handler publishes in mid-work and is suspended by its
  own publication; it and the driver share the SPI port, the pipe-0 address and
  the flags.  Correct: their commands never interleave, every accepted packet is
  taken, the controller never reads an empty FIFO, the radio comes back to listen.
* *Sketches.*  Flags shared by tasks and handlers, a lock spun on, a polling loop.
  Correct: no packet is forgotten, the spin ends, an order to shoot stands, tasks
  are called in time, a byte is sent whole.

`PROJECT.json` lists every component with its status and every hazard with its
line and the properties that watch it.

## 2. Modules

| Module | Models | Built on |
|---|---|---|
| `TaskSequences` | operators on the sequences that stand for queues: what one holds, who is ahead, the elements at some positions, the sequence a linked list stands for | |
| `KernelLemmas` | TLAPS lemmas about those sequences, linked lists, recursive functions on the naturals and remainders, for all the proofs | `TaskSequences` |
| `RtosKernel` | the K2 kernel, its invariants, liveness, the inductive invariant `IInv` | `TaskSequences` |
| `RtosKernelHistory` | `RtosKernel` observed: values published while a task was waiting, ticks a periodic task has executed and ticks since its start; the inductive invariant `HInv` | `RtosKernel` |
| `RtosKernelProofs` | the TLAPS proofs of `RtosKernel`'s safety and action properties, and of `RtosKernelHistory` | `RtosKernelHistory`, `KernelLemmas` |
| `TaskFifo` | abstract specification: independent FIFO queues that share a set of tasks | |
| `TaskQueue`, `RoombaQueue` | the linked lists of K2 and of K3; each implements `TaskFifo` | `TaskFifo` (INSTANCE) |
| `ReleaseOrder` | abstract specification: queues of blocks ordered by the time left to each release when it was put in | |
| `ReleaseQueue` | the K3 lists of periodic metadata; implements `ReleaseOrder` | `ReleaseOrder` (INSTANCE) |
| `RtosClock`, `RoombaClock` | the timers, the tick interrupts and `Now` of K2 and K3 | |
| `RoombaKernel` | the K3 kernel, its inductive invariant | `TaskSequences` |
| `RoombaKernelHistory` | `RoombaKernel` observed: use of the preemption mask, missed releases, preempted periodic tasks; the inductive invariant `HInv` | `RoombaKernel` |
| `RoombaKernelProofs` | the TLAPS proofs of `RoombaKernel`'s safety and queue discipline, and of `RoombaKernelHistory` | `RoombaKernelHistory`, `KernelLemmas` |
| `SleepQueue` | the delta list of the Daniels kernel, as operators on sequences | |
| `SleepTimers` | abstract specification: a tick counter, and for each periodic task a countdown to its start and then of its period | |
| `DanielsKernel` | the Daniels kernel, its inductive invariant; its sleepers implement `SleepTimers` | `SleepQueue`, `TaskSequences`, `SleepTimers` (INSTANCE) |
| `DanielsProofs` | the TLAPS proofs of its safety and of that refinement | `DanielsKernel`, `KernelLemmas` |
| `PppKernel` | the PPP kernel | |
| `SharedKernel` | the skeleton whose calls run on the callers' stacks | |
| `ActiveKernel` | the skeleton with a kernel stack; implements `SharedKernel` | `SharedKernel` (INSTANCE) |
| `OsTimer` | the stopwatches, with an inductive invariant | |
| `Radio` | the transceiver, and what each SPI command of the driver does to it | |
| `Robot` | `r_main`, the controller, the handlers, their inductive invariant | `Radio` |
| `RobotProofs` | the TLAPS proofs of their safety | `Robot` |
| `Remote` | the remote control's tasks and handler over the C++ driver, their inductive invariant | `Radio` |
| `RemoteProofs` | the TLAPS proofs of their safety | `Remote` |
| `IrLink` | sender and receiver of an infrared byte, with an inductive invariant | |
| `IrSketch` | the earlier infrared transmitter, with an inductive invariant | |
| `Scheduler` | the cooperative scheduler in the sketch's loop | |
| `Sketches` | five small programs, which have no state in common, in one specification: stopwatches, infrared link, scheduler, remote control, infrared sketch; a variable says which one runs | those (INSTANCE) |
| `SketchesProofs` | the TLAPS proofs of the properties of `Sketches` | `Sketches`, `KernelLemmas`, `RemoteProofs` (INSTANCE) |
| `Machines` | in the same way, the seven small machines around the kernels: three kinds of lists, two clocks, the PPP kernel, the skeleton | those (INSTANCE) |
| `MachinesProofs` | the TLAPS proofs of the properties of `Machines` | `Machines`, `KernelLemmas` |
| `Parts` | `Sketches` and `Machines` side by side, for TLC | `Sketches`, `Machines` |

### RtosKernel and the code

A pass through `kernel_main_loop` (handle the request, dispatch) is one action,
because interrupts are disabled from `enter_kernel` to `exit_kernel`.  The
exceptions follow the data: the loop of `kernel_service_publish` takes one step
per woken task (`Service_Publish`, `WakeSubscriber`, `EndPublish`), while nothing
else is enabled but an abort; and `Service_Subscribe` reads the value after it
has been resumed, when the task next runs (`resuming`, `received`).

Tasks are arbitrary programs: the running task may make any call whenever it
runs.  `Dispatch(st, sq, pq, rq)` is `kernel_dispatch` on the states and queues
the request leaves; `Preempt` is the re-queueing of the running task that
creation and publication share.  A descriptor's index is its identity, `Idle` is
the last one, `NoTask` and `NoService` are null.  Ticks and counters are modulo
`WORD` (2^16 in the code), the comparisons `<= 0` on unsigned words are kept.
An aborting pass records its error code and changes nothing else: interrupts are
off for good and nothing reads the rest.  Stacks, contexts and arguments are
left out.

Two things the model keeps although they look odd: a PERIODIC task that calls
`Task_Next` is READY but in no queue (the code assigns WAITING and overwrites it),
and two releases on one tick are found by the size of the queue, after the loop.

### RoombaKernel and the code

The same layout: one action per pass, `Dispatch` and `Preempt` for the common
end of the requests.  `kernel_should_preempt` and `periodic_task_ready` may abort
when called, so `PreemptAborts` and the second branch of `Dispatch` say when.
Periodic tasks are blocks in one queue sorted by `Remaining`, the unsigned
difference of release and current tick.  `Task_Create_Periodic` assigns three
fields of a global with interrupts enabled before it enters the kernel, so it is
four actions (`Task_Create_Periodic`, `AssignNext`, `AssignWcet`,
`kernel_create_helper`), between which ticks and handlers may switch tasks;
`creating` is the caller's local state.  Published values are left out: the
kernel copies them in the pass that wakes the subscriber, so no later step can
change what it gets.  A publication readies all subscribers in one pass, level by
level; `Woken` picks those of a level by their positions in the service's queue
(`Subsequence`), since an operator given to `SelectSeq` is out of the provers' reach.

### The lists and the clocks

`TaskQueue` has `next` per descriptor and head, tail and size per queue, and
calls the three operations where the kernel does: a task is in one queue at a
time.  The refinement mapping (`Linked`) is the sequence of the elements met along the
links from the head, at most one more than there are, so that a cycle would show; in
`RoombaQueue` the links end at the tail (`UpToTail`).  `ReleaseQueue` walks the list as
`periodic_enqueue` does, to NULL, although `periodic_dequeue` goes by the tail: that the two agree is what
the refinement shows.  The clocks have one step per timer cycle.  In `RtosClock`
`Now` runs with interrupts disabled; in `RoombaClock` each of its three volatile
reads is a step, in any order, since C leaves the order open.

### DanielsKernel, PppKernel, ActiveKernel

Both kernels take two steps for a pass, handle and dispatch, because in both a
request can leave something for the dispatcher to decide: `preempt_async` in the
first, the slot's task in the second.  `inKernel` says which is next.  The delta
list is a sequence of entries, a task and the ticks after the one before it; the
refinement mapping adds them up to a countdown per task and takes the tick counter
and the periods as they are; `SleepTimers` says that each tick counts for all of them,
that a task counts first the ticks to its start, or to the first of the later starts
that the counter has not passed (`Delays`), and then its own period over and over.  Creating a periodic task within the
last period before the tick counter wraps loops for ever with interrupts off
(os.c:206), which the model records as the abort `HANG`.  Milliseconds pass, and
execution timers run, only while a task does.

`PppKernel` keeps the table as a sequence of names and ticks; a duration of 0
stands for 256 ticks, since the counter is decremented first.  The file does not
compile (a missing semicolon at line 67, an undeclared error code): the model is
of the evident program.

The skeletons have no interrupts.  In `ActiveKernel` a system call leaves a request
that the kernel serves later; in `SharedKernel` it takes effect at once.  The
mapping is the identity but for one name: a request changes none of the shared
variables until it is served.

### Radio, Robot, Remote

An SPI command is one step, and between two of them the chip may act: a packet
arrives, a transmission ends with or without acknowledgement.  The chip is external
code, modelled from what the driver relies on: FIFOs of three, three flags whose
rise pulls the interrupt pin, so that a flag that is already up gives no edge,
reception only while CE is high in receive mode.  Pipe 0 is modelled with its
address, since the driver overwrites it for acknowledgements.

In `Robot` the kernel appears as what it does to this program: the controller is
its only ROUND_ROBIN task, a publication while it waits puts it on the processor
in the middle of the interrupt handler, and the handler goes on when it waits
again.  `isr` keeps a suspended handler per context.  `Remote` uses the same
`Radio`, but the handler runs to its end and sets `rxflag`; its tasks are called one
at a time.  Two facts about time are assumed there: a pending interrupt is taken
before the next SPI command, and a packet cannot arrive within 130 us of CE rising
(`settled`).  In `setup`, `Radio_Configure_Rx` is two steps and `Radio_Configure` one,
with CE high and interrupts enabled: a packet may arrive between them and the handler
run, and the commands of one step are taken to be over within those 130 us.  They touch
no register that the handler writes but the address of pipe 0, and no order is being sent.

### IrLink, IrSketch, Scheduler, OsTimer

`IrLink` counts half bits and has both robots' handlers; when the carrier changes at
the moment of a sample, either value may be read.  `IrSketch` counts bit times; its
`GAP` is what the scheduler's period, less its lateness, leaves between two calls.
`Scheduler` has the remote control's own table of delays and periods, and tasks that
take up to `MAXRUN` milliseconds; `SketchOnTime` says that they are called in time
(`CalledInTime`) and that lateness does not move later calls (`PhaseKept`).

## 3. What is checked

Passing runs:

| Run | Instance | Shows |
|---|---|---|
| `Kernel` | K2: 3 descriptors, 1 service, words modulo 5, periods 0 and 3, WCETs 0, 2, 4, two values; 0.4 million states | the inductive invariant, which holds the type invariant and the accounting of periodic slots and counters; descriptors accounted for; no priority inversion; queue disciplines; a task is released at its start and every period after it and at no other tick, the tick counter wrapping in the middle of a period; the tick that completes a WCET aborts although executions are preempted between ticks; a subscriber comes back with the value published last |
| `Kernel_live` | K2: 3 descriptors, 1 service, words modulo 3, period 2, WCET 1 | liveness: a released task runs or the system aborts; ready ROUND_ROBIN tasks take turns |
| `Roomba` | K3: 3 descriptors, 2 blocks, 1 service, words modulo 3, periods 0 and 2, two phases, WCET 1; 1.1 million states | every task and every block in one place, the budget never wraps, only the mask inverts priorities, the release queue stays sorted while nothing is missed, the queue disciplines |
| `Parts` | twelve small machines, below; 0.3 million states | see below |
| `Robot` | 2 remotes, 3 kinds of packets, 3 packets from the air; 0.4 million states | SPI commands of driver and handler never interleave; the controller is only woken with a packet; no flag is stuck; at rest the radio listens; liveness: every accepted packet is taken |
| `Daniels` | 3 interchangeable tasks, 1 event, words modulo 4, periods 2 and 3; 0.4 million states | every task in one place, execution timers run, the most urgent task is dispatched, every tick counts for every sleeper and each wakes when its own start or period has passed |

`Parts` has one initial state per machine (and per PPP table), and each property is
that of its machine:

| Machine | Instance | Property |
|---|---|---|
| `TaskQueue` | 4 descriptors, 3 queues | `ListsImplementFifo`: the lists of both kernels implement FIFO queues, sizes are lengths |
| `RoombaQueue` | 3 descriptors, 3 queues | the same |
| `ReleaseQueue` | 3 blocks, 2 queues, words modulo 3 | `BlocksInOrder` |
| `RtosClock` | 2 ms ticks, 4 cycles per ms, words modulo 8 | `ClocksTrackTime` |
| `RoombaClock` | 3 ms ticks, 2 cycles per ms, one cycle of latency, timer modulo 16, words modulo 4 | the same |
| `PppKernel` | 4 descriptors, bytes modulo 3; no table, one with an idle slot, one with a name twice and a slot of 0, one with a wrong name | `PppScheduled`, `PppTimetableKept` |
| `ActiveKernel` | 4 descriptors | `SkeletonTakesTurns` |
| `OsTimer` | words modulo 8 | `TimerIsRunningTime` |
| `IrLink` | 3 bits | `IrHeardAsSent` |
| `Scheduler` | the remote's table, calls of up to 5 ms | `SketchOnTime` |
| `Remote` | 1 station, 4 packets | `RemoteSpiUninterrupted`, `RemoteRxflagTellsPackets`, `RemoteWaitHasEnd`, `RemoteNoStaleOrder` |
| `IrSketch` | 3 bits, 8 bit times between two calls | `SketchSentAsAsked` |

Why these bounds suffice for the cases of interest.  Three descriptors are the
fewest with a running task, a ready one and a third that is created, woken or
released meanwhile; with them every queue reaches length two, the descriptors
run out, and `r_main` ends and its descriptor is used again.  Words modulo 3 to
6 make tick counts, releases and counters wrap several times within a
behaviour, which 16-bit words do after 65536 ticks.  Four descriptors in three
lists let a stale tail of one list be linked from a second and reached through a
third.  Three packets fill the radio's FIFO, and a fourth, in `Remote`, finds room
again after a first has been taken.  Two remotes let a reply go to the wrong one.
Two periods of the Daniels kernel give a list in which an insertion splits a
difference.  The bits of a byte differ only in being first, in between or last.

Fairness.  `Kernel_live`: `WF(WakeSubscriber)` and `WF(EndPublish)`, the kernel's own
loop runs on; `SF(TIMER_EXPIRED)`, the timer interrupts for ever, and a pending
request stays set in hardware, so that an interrupt disabled again and again by
system calls is still taken between two of them.  Nothing is assumed of tasks:
they may compute for ever.  `RRNotStarved` supposes what SYSTEM and PERIODIC tasks
can prevent: quanta keep ending.  `Robot`: weak fairness of the code (`r_main`,
`StartController`, `Controller`) and of taking an enabled interrupt (`INT4_vect`): the
processor executes instructions.  Nothing is assumed of the chip and the air.
`AcceptedIsTaken` leaves out what the run would refute: a packet that arrives between
the last look at the FIFO and the clearing of the flags (`rx_missed`) waits for the
next one.

A VIEW (`Live`, and `Read` in `Kernel_live`) merges states that differ in data that
is dead (an aborted kernel's, a free descriptor's level, a free block's parameters,
arguments before their assignment or after, a torn reading) or in the order in which
free descriptors will be taken.  No action reads the former before writing it, and
descriptors and blocks are interchangeable: two merged states allow the same steps
but for the names of free descriptors, so that a task that waits for ever in one
behaviour waits under the same name in the merged one.  `Daniels` uses the
symmetry of its tasks.  `Robot` does not check deadlock: a publication to a service
that does not exist stops the program.

Every property of a passing run is shown to bite: `PROJECT.json` names a bug
(the operators marked BUG beside the ones they replace) under which TLC finds it
violated, and one per part for the properties that join several.

Disagreements between the code and what the repository says of it, each shown by
a run that ends in a counterexample:

| Run | The code does | against |
|---|---|---|
| `Roomba_race` | a new periodic task gets a mixture of two callers' parameters, because the tick can interrupt the assignments to the global argument block | K3 os.h:247-249 |
| `Roomba_preempted` | a PERIODIC task preempted after its release tick is not due any more, and ROUND_ROBIN tasks run before it | K3 os.h:104 |
| `RoombaClock_decreases` | `Now` mixes two ticks when interrupted between its reads, and goes back | K3 os.h:321 |
| `RoombaClock_lost` | a tick handled more than a tick late, as after `IR_transmit`, sets a compare value already past: no tick is counted until the timer has gone round | K3 os.h:316 |
| `Robot_pipe0` | the handler clears flags it has not read: the end of a transmission is lost, the radio stays a transmitter and pipe 0 keeps the other side's address | radio.h:84-86 |
| `Daniels_preempt` | `preempt_async` is never cleared: from the first signal on, SYSTEM tasks lose the processor | rtos_daniels/kernel.c:612, 620 |

Further differences met while modelling, which follow from the models without a
run of their own:

* K2: a subscriber woken by one publication reads the value when it next runs
  and may get a later one (os.h:322, "obtain the same value"); what it can rely
  on is `DeliveredIsLatest`.  A WCET equal to the period is accepted (os.h:276).
  Creation aborts when no descriptor is free (os.h:264, "0 is returned").  `Now`
  is a tick behind while one is pending, and a tick lasts one cycle longer than
  `TICK` milliseconds: `ClocksTrackTime` states both allowances (os.h:340, 345).
  The answer wraps after 65536 ms, not 65536 ticks (os.cpp:1491).
* K3: a release whose tick passes while other tasks run is not noticed until the
  ticks wrap (os.h:91); it sets `late` in `RoombaKernelHistory`, and the
  properties about order hold only until then.  A WCET of 0 is accepted, and the
  budget then counts down from its wrap (os.h:90); the run `Roomba` gives a
  WCET of 1.  os.h describes the return values of the creation calls in two opposite
  ways.
* Robot: three packets accepted before the controller first subscribes fill the
  FIFO, and the robot is deaf for ever.  A second reply queued while the radio
  transmits may stay in the TX FIFO, and when two senders' packets are drained in a
  row the first reply goes to the second sender.  The test of the status and the
  sending of the command are apart (RoombaVer3.c:96).  `ir_rxhandler` acts on the
  value received before (RoombaVer3.c:68), and SHOOT and WAKE values are never
  replaced.  A packet or an infrared byte between `sei()` (line 293) and
  `Service_Init` aborts.  `Radio_Success_Rate` returns the rate of failures.
* Infrared: a byte with bit 7 set is followed by a byte 0 that nobody sent.
* Remote: `txflag` is not reset by sending, so a shot is repeated every 100 ms until a
  packet comes; and the reply to an earlier move cancels a shot that is pending
  (phase2.ino:95), which no document or comment rules out: no property speaks of it.
* PPP: a PERIODIC task preempted by a SYSTEM task at the end of its slot resumes in
  its next one; a ROUND_ROBIN task that creates a PERIODIC one in a finished slot
  loses its turn.
* Daniels: a task's timer is charged with the time of those it runs after when it
  has just been created (kernel.c:218-231); the test for DEAD at kernel.c:354 never
  holds.

## 4. What is proved

The theorems say of every value of the constants what the runs show on one instance.
Each module's constants are constrained by one assumption (`KernelAssumption`,
`RoombaKernelAssumption`, `DanielsAssumption`, `RadioAssumption`, `SketchesAssumption`, and
`MachinesAssumption`, which joins those of the seven machines): there is at least one
descriptor, handles fit a byte where the code keeps them in one, arguments fit a word,
the null values are nobody's, a timer does not go round within a tick and two delays
(`RoombaClockAssumption`), two calls of the infrared transmitter are further apart than a
frame is long (`GAP`).  Two theorems suppose more, each explained below:

| Theorem | Supposes | Because |
|---|---|---|
| `ClocksTrack` | `LATENCY < TICK_CYCLES`: no tick waits for as long as a tick | otherwise ticks are lost: `RoombaClock_lost` |
| `SketchIsOnTime` | `Schedulable`: a call of every task fits into the shortest period | otherwise no schedule could keep up |

Where an invariant is not inductive, its strengthening is defined in the component's module
(`IInv`, or `HInv` with the history variables), where TLC can evaluate it and has
checked it on the instance of that module's run before it was proved; the
strengthenings for the scheduler and for `Machines` are defined with their proofs, because some of
them say that a list, or a multiple of the clock's period, exists, which TLC cannot look for.

### The Project 2 kernel

`RtosKernelProofs` proves of `RtosKernel`, for every number of descriptors and
services, every word size and all sets of arguments that satisfy
`KernelAssumption`:

| Theorem | `Spec => []...` |
|---|---|
| `Invariance` | `IInv` |
| `TypeCorrect` | `TypeOK` |
| `NoDescriptorLost` | `DescriptorsAccounted` |
| `NoSlotLost` | `SlotsMatchTasks` |
| `NoInversion` | `NoPriorityInversion` |
| `OneActive` | `OnePeriodicActive` |
| `NoWrap` | `CountersNeverWrap` |
| `KernelNeverAtFault` | `NoInternalError` |

The argument.  None of these is inductive alone.  `NoPriorityInversion` speaks of
moments when no publication is in progress; a step that ends one needs to know
what the loop has done, so `Scheduled` strengthens it: during the loop only the
SYSTEM tasks it has woken, recorded in `will_be_preempted`, may wait above the
running task.  That a periodic task is never found waiting on a service needs the
descriptors accounted for, whose own preservation by the tick needs at most one
periodic task active; and that a release never misses its counter needs the
slots to match the tasks.  `IInv` is the conjunction of all of them, and
the run `Kernel` checks it too.

The proof splits `IInv` into the part about the scheduler, the part about timing
and the part about services (lemma `Parts`).  Lemmas about queues (`AppendHolds`,
`ConsHolds`, `TailHolds`) say how `Holds(q, S)` follows the operations;
`DispatchLemma` says once and for all that any outcome of `Dispatch` re-establishes
the scheduler part, provided the request has left states and queues that fit;
`YieldLemma`, `PassLemma` and `PreemptLemma` bring the three ways a request ends
into that form.  Then there is one lemma per action, and `NextInv` collects them.
The assumptions used are those of `KernelAssumption`, and that a task is not the
idle descriptor.

The same module goes on with what single steps may not do, and with what the history
variables of `RtosKernelHistory` observe:

| Theorem | |
|---|---|
| `SystemTasksComplete` | `Spec => SystemRunsToCompletion` |
| `PreemptedKeepTheirTurn` | `Spec => PreemptionKeepsTurn` |
| `NobodyOvertakes` | `Spec => NoOvertaking` |
| `HistoryInvariance` | `HSpec => []HInv` |
| `OverrunsAreCaught` | `HSpec => []OverrunCaught` |
| `SubscribersAreUpToDate` | `HSpec => DeliveredIsLatest` |
| `PhasesKept` | `HSpec => PhaseKept`, for all periods, starts and word sizes |

Each action is put in one of a few classes (`StepClass`): the running task stays, it is
preempted by a request of its own, or it leaves; the class says what happens to each
queue, and the three properties of queues follow from it once for all actions.
`OverrunsAreCaught` rests on `RanInv`: the kernel's count-down and the ticks a task
has executed add up to its WCET, whoever ran in between.  `SubscribersAreUpToDate` rests on
`HeardInv`: a task that will resume has heard last what the service holds now, and
so have those the loop of `kernel_service_publish` has still to wake.

`PhaseKept` is about `age`, which counts the ticks since the start that a task asked for,
modulo its period, without a look at the kernel's counter: the task is released when it is
0 and at no other tick.  `PhasesKept` rests on `AgeInv`: the counter is what is missing to
the start and then to the end of the period.  That a task becomes active only by being
created or released comes from the classes of steps (`Starts`), and that a release makes it
active from the test for a second one (`ReleasedActivated`).  The tick count is read when a
task is created and never after, so its wrap moves no release.

### The Project 3 kernel

`RoombaKernelProofs`, under `RoombaKernelAssumption`:

| Theorem | |
|---|---|
| `Invariance` | `Spec => []IInv` |
| `DescriptorsKept` | `Spec => []TasksAccounted` |
| `BlocksKept` | `Spec => []BlocksAccounted` |
| `BudgetNeverWraps` | `Spec => []RemticksNeverWrap` |
| `QueuesKeepTheRules` | `Spec => QueueDiscipline` |
| `HistoryInvariance` | `HSpec => []HInv` |
| `ReleasesInOrder` | `HSpec => []OnTimeOrdered` |
| `MostUrgentRuns` | `HSpec => []NoPriorityInversion` |

`BlocksAccounted` alone is not inductive: it does not exclude a block that is queued and free
at once, which the next creation would queue a second time (`QueuedInUse`).  The proof
separates requests from the dispatcher.  A step rests (it changes no queue), passes (the
request leaves states and queues, and the dispatcher chooses) or readies tasks and
perhaps preempts; `StepClass` puts every action in its class with the queues it leaves,
and says that these hold every task and every block once (`TasksIn`, `BlocksIn`);
`DispatchLemma`, `PreemptLemma` and `ClassInv` do the rest.  The same classes, with what the
dispatcher picks, give `QueueDiscipline`.

The order of the releases and the place of the processor need each other.  That no more
urgent task waits is decided by a look at the head of the release queue, which is right
only if the queue is sorted; and it stays sorted over a tick only if no release that
falls due is passed by, or else `late` is set and the claim ends.  `ClockDistance` says how the
unsigned difference of a release and the current tick moves with a tick: all
distances shrink by one, except that 0 becomes `WORD - 1`.  So an order by distance survives a
tick unless somebody was at 0, and the head that is at 0 is dispatched, or the running task
is one the claim excludes.

A publication wakes several tasks in one pass, and `SubsequenceHolds` says that the
subsequence of a queue at given positions holds what is there, in that order.  Its
statement is about counting (the k-th position), and its proof an induction; the
library's induction rules take an operator and cannot be cited, so `LeastOne`
states instead, from the well-foundedness of the naturals, that a nonempty set of
naturals has a least element, and such proofs refute a least counterexample.

### The Daniels kernel

`DanielsProofs`, under `DanielsAssumption`:

| Theorem | |
|---|---|
| `Invariance` | `Spec => []IInv` |
| `TasksInPlace` | `Spec => []TasksAccounted` |
| `ExecutionTimed` | `Spec => []RunningIsTimed` |
| `DispatchIsUrgent` | `Spec => DispatchesMostUrgent` |
| `SleepersRefineTimers` | `Spec => SleepersOnTime`: the delta list implements `SleepTimers` |

`SleepersRefineTimers` is the theorem about the list, of any length: the entry `i` wakes after
the sum of the first `i` differences (`TicksTo`), and inserting a sleeper before another,
removing one from the middle and counting down the head alone leave every other
task's sum as it was, or take one from it (`EnqueueStarts`, `RemoveStops`,
`TickPasses`).  A tick of the kernel advances the tick counter, so it is a tick of
`SleepTimers` and never a stuttering step; a creation finds its first start in `Delays`
(`FillCycles`, `CreateTimers`).  The sums are a recursive function, whose existence (`SumsExist`) and one
unfolding (`TicksToStep`) are proved with `LeastOne`; then the lemmas speak of `TicksTo`
only.  `Place` has a position to choose because the sums grow along the list, and the sums
stay below `WORD` because a period does.

`IInv` speaks of a task whose *state* is RUNNING where one would say "the task on the
processor": between a request and its dispatch the caller may already be DEAD, WAITING
or READY.  Its last part, `UrgencyKept`, is what lets `kernel_dispatch` keep a RUNNING caller
without a look at the queues: each request either stops the caller or leaves nobody more
urgent.  Once `preempt_async` has been set the dispatcher can lose a SYSTEM task from
its queue (`Daniels_preempt` shows the cause), and the invariant, like `TasksAccounted`, then
says of that queue only that it holds READY tasks.

### The robot

`RobotProofs`, under `RadioAssumption`, for any set of remotes and of packets and any number of
packets from the air:

| Theorem | |
|---|---|
| `Invariance` | `Spec => []IInv` |
| `DriverNotInterrupted` | `Spec => []DriverUninterrupted` |
| `AlwaysWokenWithPacket` | `Spec => []WokenWithPacket` |
| `NoFlagStuck` | `Spec => []NoStuckFlag` |
| `ListensAtRest` | `Spec => []ListensWhenQuiet` |

`DriverUninterrupted` looks local and is not: the driver masks nothing, and the controller
runs with interrupts enabled.  It works while the handler that woke it is suspended
in the idle task, before that handler has cleared the flags; a pin that is low gives
no second edge (`PinLow`), so no second handler starts.  To say this one must know who
can lie on whose stack (`Stacked`): only before its first wait does the controller run
over no handler, and then it is not in the driver.  That the controller is woken with a
packet needs a count (`taken + Len(chip.rx) = received`) and what each point of the
controller's loop knows of the FIFO (`PacketWaits`).  That the radio comes back to listen
needs, at every step of a transmission, that its end is still to come or still to be read
(`ComesBack`).

### The small programs

`SketchesProofs`, under `SketchesAssumption`, for every width of a word and of a byte, any
stations and any number of packets:

| Theorem | |
|---|---|
| `TimerRight` | `Spec => []TimerIsRunningTime` |
| `BytesSentWhole` | `Spec => []SketchSentAsAsked` |
| `BytesHeardOnce` | `Spec => []IrHeardAsSent` |
| `RemoteCommandsWhole` | `Spec => []RemoteSpiUninterrupted` |
| `RemoteForgetsNoPacket` | `Spec => []RemoteRxflagTellsPackets` |
| `RemoteSpinEnds` | `Spec => []RemoteWaitHasEnd` |
| `RemoteSendsNothingStale` | `Spec => []RemoteNoStaleOrder` |
| `SketchIsOnTime` | `Spec => []SketchOnTime`, for tasks that are `Schedulable` |

A behaviour of `Sketches` is one of each program, which may rest (`TimerSpec`, `IrSpec`,
`SketchSpec`, `LightSpec`, `ControlSpec`), and one of `Parts` is one of `Sketches` and one of
`Machines`; so what a program's module promises holds in all of them.

*Stopwatches.*  While a stopwatch runs, the running time is `elapsed_time + now - last_update`,
modulo a word (`IInv`).  The sum wraps whenever the clock does, and pausing stores it reduced:
`RemainderInSum` says that a remainder may be taken at any place in a sum.

*Transmitter.*  The handler has sent the first `bit_index` bits of the frame, and a
call that comes `GAP` bit times after the last finds it done, because it goes on at every
bit time (`since <= Len(sent) + 1`).  That is all that keeps a call from rewriting the byte under
the handler.

*Infrared link.*  The invariant gives the position in the frame for each phase of the
receiver: before the first edge, in the byte (the next sample is in the middle of bit
`currentBit`, at a half bit where the carrier is the same on both sides), after it, and in the
echo, which starts at the end of a last bit that is 1 and hears nothing but silence.
`CarrierAt` says where in the frame there is carrier.

*Remote control.*  `RemoteProofs` proves `IInv` of `Remote`.  `SpiUninterrupted` follows from
`FlagsServed` and `DeafInCall`: the pin is low exactly while a flag is up that no handler has read,
and a call from the loop switches the radio off first, so that no flag rises inside it but the
end of the transmission it has started itself.  `WaitHasEnd` needs `OneTransmission`: with the lock
set the packet is in the FIFO and the radio transmits, or the flag of its end is up.
`NoStaleOrder` holds because a failed packet is flushed before the spin ends, and until then
nobody changes the order (`OrderInForce`).
`RxflagTellsPackets` needs what a handler in progress has still to tell (`PacketsTold`).
`Sketches` and `RemoteProofs` have an instance of `Remote` each; `SameControl` says that they are the
same.

*Cooperative scheduler.*  A pass calls one task only, always the first that is due, and while
that task runs others become due.  `SketchLate(C, x)` bounds how far this can go: it is
`x` milliseconds since every task was last on time, and since then each task of `C` has been
called once.  Only calls take time while somebody is late, so `x` is at most `MAXRUN` per
task of `C`; a task called a second time would have a period shorter than all the calls, against
`Schedulable`.  `SketchSleepInv` says that the loop never sleeps over a task that is due.
`PhaseKept` needs no such hypothesis: the remaining time is increased by the period,
never set to it.

### The small machines

`MachinesProofs`, under `MachinesAssumption`, for every number of descriptors, blocks
and queues, every length of a tick, width of a word and set of tables:

| Theorem | |
|---|---|
| `QueuesAreFifo` | `MachinesSpec => ListsImplementFifo`: the lists of both kernels implement `TaskFifo`, sizes are lengths |
| `BlocksAreInOrder` | `MachinesSpec => BlocksInOrder`: the lists of blocks implement `ReleaseOrder` |
| `ClocksTrack` | `MachinesSpec => ClocksTrackTime`, if no tick waits for as long as a tick |
| `PppTasksScheduled` | `MachinesSpec => []PppScheduled` |
| `PppSlotsOnTime` | `MachinesSpec => []PppTimetableKept` |
| `SkeletonsAgree` | `MachinesSpec => SkeletonTakesTurns`: one skeleton implements the other, tasks take turns, a free descriptor is found |

*Lists.*  The invariant says that there are sequences of which no element is in two,
each a chain of links from the head of its list, with the tail at its last element
(`QueueLists`, `RobotQueueLists`, `ReleaseLists`).  The links of a descriptor in no list
are arbitrary, and so is, in K2, the tail of an empty list; in K3 the link of the last
one is too, and the chain is one of the links cut off at the tail.  `LinkedChain`
connects this with the refinement mapping: along a chain the recursive function `Linked`
yields the sequence itself, because a least number of steps at which it did not is
refuted.  Then each operation is an insertion at some position or the removal of the
head (`ChainInserted`, `ChainTail`), and leaves the other chains alone because no
element of theirs has changed its link (`ChainSame`).  For the insertion of
`periodic_enqueue`, `ReleasePlaceIs` proves that the walk along the links stops where
`ReleaseOrder` puts the block.

*Clocks.*  In K2 the ticks requested, counted or pending, times the length of a tick,
and the timer's count make up the time, modulo the clock's period (`ClockIInv`).  In K3
the compare value moves on by a tick from itself and not from the moment of the
interrupt: the matches are `TICK_CYCLES` apart, late by the delay of the first only
(`RobotMatchAt`), while the noted count is late by the delay of the last.  That is why
late ticks do not add up, and it holds as long as the next match still lies ahead when a
tick is counted, which is the hypothesis.  `RobotReadInv` says what the reads made so
far amount to, in any order.

*PPP kernel.*  `PppIInv` has the queues and the names (`PppPlaceInv`, `PppStateInv`)
and, for the task that has the processor or will have it back, that nobody before it
waits and that a PERIODIC one has the name of the slot (`PppRunInv`).  While a PERIODIC
task runs, the work of the slot is not finished (`~slot_task_finished`); so at the end
of the slot the kernel aborts instead of leaving it in another's, and a task that was
preempted resumes only in a slot of its name.  The timetable needs that the ticks passed
in a cycle are those of the slots before, plus the slot's duration, less what is left of
it (`PppTimeInv`), and that the starts of the slots grow along the table
(`PppStartsGrow`).

*Skeletons.*  The refinement needs to know that while a request is unserved nobody looks
for a task to run, and that whoever has the processor is RUNNING (`ActiveIInv`).  The
search for a free descriptor has no end of its own; it finds one because the descriptors
in use are no more than the tasks created (`ActiveCountInv`): the count is never
decremented, which is why the search is safe and why the kernel runs out of tasks.  That
nobody is skipped rests on `ActiveTurnInv`: the search has passed no READY task on its
way round from the caller.

### What is only model-checked

* Liveness (`ReleaseServed`, `RRNotStarved`, `AcceptedIsTaken`): it needs fairness and
  ENABLED, beyond this prover.
* The runs that end in a counterexample, by their nature.

## 5. Not modelled, and the plan

Left out, and why:

* Serial port: sending waits on a register, and the receiver is never enabled
  (`UCSR1B = TXEN1` only), so its ring never fills.
* Roomba driver: sequences of command bytes; its only state belongs to the sensor
  read, which nobody calls.
* Base station (`BaseStation.cpp`): outside the project file; converts input and
  transmits, with a handler that never drains the radio.
* Of the robot's program: the timeout task and the LED tasks, which `r_main` never
  creates.
* `rtos_jordan` differs from the K2 kernel in 19 lines and `rtos_hunter` from the K3
  kernel in 17, in no decision the models make; `phase2_nospam` and `phase2_music`
  are earlier variants of the remote control; `testing/RoombaVer3.c` is an older
  robot program.
* Analog input, trace buffers, profiling pins, LED patterns: pure I/O.  Register
  save and restore below the level of "the context is switched".  Third-party and
  course examples.

What would come next:

1. An abstract preemptive scheduler (a set of ready tasks per level, no queues)
   that the kernels implement up to their known deviations.
2. The kernels over the linked lists instead of sequences: `TasksAccounted` and
   `DescriptorsAccounted` are what the lists need of their callers.
