---------------------------- MODULE RoombaKernel ----------------------------
(***************************************************************************)
(* The kernel of the Project 3 robots (Project3/RoombaVer3/rtos/os.c).     *)
(* It has the system calls of the Project 2 kernel (RtosKernel), but       *)
(* schedules periodic tasks from one queue sorted by release tick, out of  *)
(* a pool of MAXPERIODICPRO metadata blocks, and lets a task mask          *)
(* preemption for one kernel pass.  A pass through kernel_main_loop is one *)
(* action.  Task_Create_Periodic hands its arguments to the kernel through *)
(* a global variable that it fills with interrupts enabled, so it takes    *)
(* one step per field before the step that enters the kernel.              *)
(*                                                                         *)
(* The published values are left out: a publication copies its value to    *)
(* every waiting task in the pass that wakes them.  After an abort nothing *)
(* reads the kernel's data: an abort found before the request has changed  *)
(* anything leaves them alone.  An operator marked BUG is a variant of the *)
(* one that follows it, used to check that a property rules it out.        *)
(***************************************************************************)
EXTENDS TaskSequences

CONSTANTS
  MAXPROCESS,      \* number of task descriptors, the idle task's not counted
  MAXPERIODICPRO,  \* number of metadata blocks for periodic tasks
  MAXSERVICES,     \* number of services
  WORD,            \* ticks are uint16_t: arithmetic modulo WORD
  PeriodArgs,      \* the periods tasks may ask for
  StartArgs,       \* the start ticks tasks may ask for
  WcetArgs         \* the worst-case execution times tasks may ask for

ASSUME RoombaKernelAssumption ==
  /\ MAXPROCESS \in Nat \ {0}
  /\ MAXPERIODICPRO \in Nat \ {0}
  /\ MAXSERVICES \in 0 .. 255            \* num_services is a uint8_t
  /\ WORD \in Nat \ {0}
  /\ PeriodArgs \subseteq 0 .. WORD - 1
  /\ StartArgs \subseteq 0 .. WORD - 1
  /\ WcetArgs \subseteq 0 .. WORD - 1

Tasks    == 1 .. MAXPROCESS       \* task_desc[0 .. MAXPROCESS-1]
Idle     == MAXPROCESS + 1        \* idle_task, the last descriptor
Metas    == 1 .. MAXPERIODICPRO   \* periodic_task_desc
Services == 1 .. MAXSERVICES      \* service_list
Word     == 0 .. WORD - 1
NULL     == 0

\* task_priority_t: a smaller number is more urgent, except IDLE.
SYSTEM == 0
PERIODIC == 1
ROUND_ROBIN == 2
IDLE == -1

Errors == {"NONE", "USER_CALLED_OS_ABORT", "TOO_MANY_TASKS",
           "TOO_MANY_PERIODIC_TASKS", "PERIODIC_INVALID_CONFIGURATION",
           "PERIODIC_TOOK_TOO_LONG", "PERIODIC_TASKS_SCHEDULED_AST",
           "SERVICE_CAPACITY_REACHED", "INVALID_SERVICE", "PERIODIC_SUBSCRIBE",
           "PERIODIC_FOUND_WHEN_PUBLISHING"}

VARIABLES
  cur_task,                   \* the task on the processor
  state,                      \* DEAD, RUNNING, READY or WAITING, per descriptor
  priority,                   \* scheduling level, per descriptor
  periodic_desc,              \* the metadata block of a periodic task
  dead_pool_queue,            \* free descriptors
  system_task_queue,          \* ready SYSTEM tasks
  roundrobin_task_queue,      \* ready ROUND_ROBIN tasks
  periodic_task_queue,        \* blocks of the periodic tasks awaiting a release
  periodic_dead_pool_queue,   \* free blocks
  meta,                       \* per block: task, period, wcet, next release
  cur_per_metadata,           \* block of the periodic task dispatched last
  periodic_task_remticks,     \* ticks of execution left to that task
  kernel_period_create_meta,  \* arguments of the next periodic task
  creating,                   \* how far each task is in Task_Create_Periodic
  kernel_preemption_disabled, \* no preemption in the next kernel pass
  service_queue,              \* tasks waiting on each service
  num_services,               \* services handed out so far
  ticks_from_start,           \* timer ticks, modulo WORD
  error_msg                   \* the code OS_Abort was called with, or "NONE"

ready_queues  == <<system_task_queue, periodic_task_queue, roundrobin_task_queue>>
pools         == <<dead_pool_queue, periodic_dead_pool_queue>>
descriptors   == <<priority, periodic_desc, meta>>
dispatch_vars == <<cur_task, state, ready_queues, cur_per_metadata,
                   periodic_task_remticks, kernel_preemption_disabled>>
create_vars   == <<kernel_period_create_meta, creating>>
service_vars  == <<service_queue, num_services>>
vars == <<dispatch_vars, pools, descriptors, create_vars, service_vars,
          ticks_from_start, error_msg>>

NoCall == [stage |-> 0, period |-> 0, next |-> 0, wcet |-> 0]

-----------------------------------------------------------------------------
(* kernel_init: r_main is the SYSTEM task in the first descriptor, and runs. *)

Init ==
  /\ cur_task = 1
  /\ state = [t \in Tasks |-> IF t = 1 THEN "RUNNING" ELSE "DEAD"]
  /\ priority = [t \in Tasks |-> SYSTEM]          \* zeroed memory
  /\ periodic_desc = [t \in Tasks |-> NULL]
  /\ dead_pool_queue = [i \in 1 .. MAXPROCESS - 1 |-> i + 1]
  /\ system_task_queue = <<>>
  /\ roundrobin_task_queue = <<>>
  /\ periodic_task_queue = <<>>
  /\ periodic_dead_pool_queue = [i \in Metas |-> i]
  /\ meta = [m \in Metas |-> [task |-> NULL, period |-> 0, wcet |-> 0, next |-> 0]]
  /\ cur_per_metadata = NULL
  /\ periodic_task_remticks = 0
  /\ kernel_period_create_meta = [period |-> 0, next |-> 0, wcet |-> 0]
  /\ creating = [t \in Tasks |-> NoCall]
  /\ kernel_preemption_disabled = FALSE
  /\ service_queue = [s \in Services |-> <<>>]
  /\ num_services = 0
  /\ ticks_from_start = 0
  /\ error_msg = "NONE"

-----------------------------------------------------------------------------
(* The queue of periodic tasks.                                            *)

\* Ticks until block m is due, in the unsigned arithmetic of the code: a tick
\* that has passed is almost WORD ticks away.
Remaining(mt, now, m) == (mt[m].next - now) % WORD

\* periodic_enqueue: before the first block with more ticks remaining.
Later_Clipped(mt, now, m, r) == mt[m].next < mt[r].next    \* BUG: absolute ticks
Later(mt, now, m, r) == Remaining(mt, now, m) < Remaining(mt, now, r)

PeriodicEnqueue(mt, now, q, m) ==
  LET later == {i \in DOMAIN q : Later(mt, now, m, q[i])}
  IN  IF later = {} THEN Append(q, m)
      ELSE InsertAt(q, CHOOSE i \in later : \A j \in later : i <= j, m)

\* periodic_task_ready: aborts if the two blocks at the head share their tick.
SameTick(mt, q) == Len(q) >= 2 /\ mt[q[1]].next = mt[q[2]].next
Due(mt, now, q) == q # <<>> /\ mt[Head(q)].next = now

-----------------------------------------------------------------------------
(* The scheduler.                                                          *)

CurPriority == IF cur_task = Idle THEN IDLE ELSE priority[cur_task]

InTask == error_msg = "NONE"

Abort(code) ==
  /\ error_msg' = code
  /\ UNCHANGED <<dispatch_vars, pools, descriptors, create_vars, service_vars,
                 ticks_from_start>>

SwitchTo(t, st) ==
  /\ cur_task' = t
  /\ state' = IF t = Idle THEN st ELSE [st EXCEPT ![t] = "RUNNING"]

Ready(sq, pq, rq) ==
  /\ system_task_queue' = sq
  /\ periodic_task_queue' = pq
  /\ roundrobin_task_queue' = rq

\* kernel_dispatch, when the request has left the task states st, the ready
\* queues sq, pq and rq, and rem ticks to the periodic task on the processor.
Dispatch(st, sq, pq, rq, rem) ==
  /\ kernel_preemption_disabled' = FALSE
  /\ IF IF cur_task = Idle THEN kernel_preemption_disabled
                           ELSE st[cur_task] = "RUNNING"
     THEN /\ state' = st
          /\ Ready(sq, pq, rq)
          /\ periodic_task_remticks' = rem
          /\ UNCHANGED <<cur_task, cur_per_metadata, error_msg>>
     ELSE IF sq = <<>> /\ SameTick(meta', pq)
     THEN /\ error_msg' = "PERIODIC_TASKS_SCHEDULED_AST"
          /\ state' = st
          /\ Ready(sq, pq, rq)
          /\ UNCHANGED <<cur_task, cur_per_metadata, periodic_task_remticks>>
     ELSE IF sq = <<>> /\ Due(meta', ticks_from_start', pq)
     THEN /\ SwitchTo(meta'[Head(pq)].task, st)
          /\ Ready(sq, Tail(pq), rq)
          /\ cur_per_metadata' = Head(pq)
          /\ periodic_task_remticks' = meta'[Head(pq)].wcet
          /\ UNCHANGED error_msg
     ELSE /\ \/ /\ sq # <<>>
                /\ SwitchTo(Head(sq), st)
                /\ Ready(Tail(sq), pq, rq)
             \/ /\ sq = <<>> /\ rq # <<>>
                /\ SwitchTo(Head(rq), st)
                /\ Ready(sq, pq, Tail(rq))
             \/ /\ sq = <<>> /\ rq = <<>>
                /\ SwitchTo(Idle, st)
                /\ Ready(sq, pq, rq)
          /\ periodic_task_remticks' = rem
          /\ UNCHANGED <<cur_per_metadata, error_msg>>

\* kernel_should_preempt.  IDLE is below SYSTEM in this order, so the last two
\* conditions never hold of the idle task: Dispatch replaces it anyway.
ShouldPreempt_System(sq, pq, rq) ==                        \* BUG: SYSTEM too
  ~kernel_preemption_disabled /\ sq # <<>>
ShouldPreempt(sq, pq, rq) ==
  /\ ~kernel_preemption_disabled
  /\ \/ sq # <<>> /\ CurPriority # SYSTEM
     \/ Due(meta', ticks_from_start', pq) /\ CurPriority > PERIODIC
     \/ rq # <<>> /\ CurPriority > ROUND_ROBIN

\* Its call of periodic_task_ready finds two blocks due on the same tick.
PreemptAborts(sq, pq) ==
  /\ ~kernel_preemption_disabled
  /\ ~(sq # <<>> /\ CurPriority # SYSTEM)
  /\ SameTick(meta', pq)

\* The end of a request that may have readied a task: a preempted ROUND_ROBIN
\* task is put first in its queue, the block m of a PERIODIC one is queued with
\* the release tick it has.
Preempt_Back(st, sq, pq, rq, m) ==                         \* BUG: RR loses its turn
  IF ~ShouldPreempt(sq, pq, rq) \/ cur_task = Idle
  THEN Dispatch(st, sq, pq, rq, periodic_task_remticks)
  ELSE Dispatch([st EXCEPT ![cur_task] = "READY"], sq,
                IF CurPriority = PERIODIC
                THEN PeriodicEnqueue(meta', ticks_from_start', pq, m) ELSE pq,
                IF CurPriority = ROUND_ROBIN THEN Append(rq, cur_task) ELSE rq,
                periodic_task_remticks)
Preempt_Never(st, sq, pq, rq, m) ==                        \* BUG: no preemption
  Dispatch(st, sq, pq, rq, periodic_task_remticks)
Preempt(st, sq, pq, rq, m) ==
  IF PreemptAborts(sq, pq)
  THEN /\ error_msg' = "PERIODIC_TASKS_SCHEDULED_AST"
       /\ Ready(sq, pq, rq)
       /\ state' = st
       /\ UNCHANGED <<cur_task, cur_per_metadata, periodic_task_remticks,
                      kernel_preemption_disabled>>
  ELSE IF ~ShouldPreempt(sq, pq, rq) \/ cur_task = Idle
  THEN Dispatch(st, sq, pq, rq, periodic_task_remticks)
  ELSE Dispatch([st EXCEPT ![cur_task] = "READY"], sq,
                IF CurPriority = PERIODIC
                THEN PeriodicEnqueue(meta', ticks_from_start', pq, m) ELSE pq,
                IF CurPriority = ROUND_ROBIN THEN Cons(cur_task, rq) ELSE rq,
                periodic_task_remticks)

-----------------------------------------------------------------------------
(* The timer interrupt.                                                    *)

\* A round-robin quantum ends with the tick.
QuantumQueue_Front ==                                      \* BUG: to the front
  IF CurPriority = ROUND_ROBIN THEN Cons(cur_task, roundrobin_task_queue)
                               ELSE roundrobin_task_queue
QuantumQueue_Lost == roundrobin_task_queue                 \* BUG: not queued
QuantumQueue ==
  IF CurPriority = ROUND_ROBIN THEN Append(roundrobin_task_queue, cur_task)
                               ELSE roundrobin_task_queue

TicksLeft == (periodic_task_remticks - 1) % WORD

TookTooLong_Late == periodic_task_remticks = 0             \* BUG: tested first
TookTooLong == TicksLeft = 0

TIMER_EXPIRED ==
  /\ InTask
  /\ IF CurPriority = PERIODIC /\ TookTooLong
     THEN Abort("PERIODIC_TOOK_TOO_LONG")
     ELSE /\ ticks_from_start' = (ticks_from_start + 1) % WORD
          /\ UNCHANGED <<pools, descriptors, create_vars, service_vars>>
          /\ Dispatch([t \in Tasks |->
                         IF t = cur_task /\ priority[t] = ROUND_ROBIN
                         THEN "READY" ELSE state[t]],
                      system_task_queue, periodic_task_queue, QuantumQueue,
                      IF CurPriority = PERIODIC THEN TicksLeft
                                                ELSE periodic_task_remticks)

-----------------------------------------------------------------------------
(* Task creation.                                                          *)

\* The running task calls the kernel.
InCall == InTask /\ cur_task # Idle /\ creating[cur_task] = NoCall

Task_Create_Periodic(per, wc, st) ==
  /\ InCall
  /\ IF per = 0 \/ per <= wc THEN Abort("PERIODIC_INVALID_CONFIGURATION")
     ELSE /\ kernel_period_create_meta' =
               [kernel_period_create_meta EXCEPT !.period = per]
          /\ creating' = [creating EXCEPT ![cur_task] =
               [stage |-> 1, period |-> per, next |-> st, wcet |-> wc]]
          /\ UNCHANGED <<dispatch_vars, pools, descriptors, service_vars,
                         ticks_from_start, error_msg>>

\* The running task assigns the next field of kernel_period_create_meta.
Assign(stage, assigned) ==
  /\ InTask /\ cur_task # Idle /\ creating[cur_task].stage = stage
  /\ kernel_period_create_meta' = assigned
  /\ creating' = [creating EXCEPT ![cur_task].stage = stage + 1]
  /\ UNCHANGED <<dispatch_vars, pools, descriptors, service_vars,
                 ticks_from_start, error_msg>>

AssignNext == cur_task # Idle /\
  Assign(1, [kernel_period_create_meta EXCEPT !.next = creating[cur_task].next])
AssignWcet == cur_task # Idle /\
  Assign(2, [kernel_period_create_meta EXCEPT !.wcet = creating[cur_task].wcet])

\* kernel_create_task for task p of priority prio, then the preemption test.
Create(prio) ==
  IF dead_pool_queue = <<>> THEN Abort("TOO_MANY_TASKS")
  ELSE IF prio = PERIODIC /\ periodic_dead_pool_queue = <<>>
  THEN Abort("TOO_MANY_PERIODIC_TASKS")
  ELSE
    LET p   == Head(dead_pool_queue)
        pt  == Head(periodic_dead_pool_queue)
        new == [state EXCEPT ![p] = "READY"]
    IN  /\ dead_pool_queue' = Tail(dead_pool_queue)
        /\ priority' = [priority EXCEPT ![p] = prio]
        /\ creating' = [creating EXCEPT ![cur_task] = NoCall]
        /\ IF prio = PERIODIC
           THEN /\ periodic_dead_pool_queue' = Tail(periodic_dead_pool_queue)
                /\ periodic_desc' = [periodic_desc EXCEPT ![p] = pt]
                /\ meta' = [meta EXCEPT ![pt] =
                     [task |-> p,
                      period |-> kernel_period_create_meta.period,
                      wcet |-> kernel_period_create_meta.wcet,
                      next |-> kernel_period_create_meta.next]]
           ELSE UNCHANGED <<periodic_dead_pool_queue, periodic_desc, meta>>
        /\ UNCHANGED <<kernel_period_create_meta, service_vars, ticks_from_start>>
        /\ Preempt(new,
             IF prio = SYSTEM THEN Append(system_task_queue, p)
                              ELSE system_task_queue,
             IF prio = PERIODIC
             THEN PeriodicEnqueue(meta', ticks_from_start, periodic_task_queue, pt)
             ELSE periodic_task_queue,
             IF prio = ROUND_ROBIN THEN Append(roundrobin_task_queue, p)
                                   ELSE roundrobin_task_queue,
             periodic_desc[cur_task])

Task_Create_System == InCall /\ Create(SYSTEM)
Task_Create_RR     == InCall /\ Create(ROUND_ROBIN)

\* Task_Create_Periodic enters the kernel once the arguments are in place.
kernel_create_helper ==
  /\ InTask /\ cur_task # Idle /\ creating[cur_task].stage = 3
  /\ Create(PERIODIC)

-----------------------------------------------------------------------------
(* The other task calls.                                                   *)

OS_DisablePreemption ==
  /\ InCall
  /\ kernel_preemption_disabled' = TRUE
  /\ UNCHANGED <<cur_task, state, ready_queues, cur_per_metadata,
                 periodic_task_remticks, pools, descriptors, create_vars,
                 service_vars, ticks_from_start, error_msg>>

\* The tick of a periodic task's next release.
NextRelease_Wide(m) == meta[m].next + meta[m].period       \* BUG: no wrap-around
NextRelease(m) == (meta[m].next + meta[m].period) % WORD

Task_Next ==
  /\ InCall
  /\ meta' = IF CurPriority = PERIODIC
             THEN [meta EXCEPT ![cur_per_metadata].next = NextRelease(cur_per_metadata)]
             ELSE meta
  /\ UNCHANGED <<pools, priority, periodic_desc, create_vars, service_vars,
                 ticks_from_start>>
  /\ Dispatch([state EXCEPT ![cur_task] = "READY"],
       IF CurPriority = SYSTEM THEN Append(system_task_queue, cur_task)
                               ELSE system_task_queue,
       IF CurPriority = PERIODIC
       THEN PeriodicEnqueue(meta', ticks_from_start, periodic_task_queue,
                            cur_per_metadata)
       ELSE periodic_task_queue,
       IF CurPriority = ROUND_ROBIN THEN Append(roundrobin_task_queue, cur_task)
                                    ELSE roundrobin_task_queue,
       periodic_task_remticks)

\* The free blocks once the running task is gone.
FreedBlocks_Kept == periodic_dead_pool_queue               \* BUG: block not freed
FreedBlocks ==
  IF CurPriority = PERIODIC
  THEN PeriodicEnqueue(meta, ticks_from_start, periodic_dead_pool_queue,
                       periodic_desc[cur_task])
  ELSE periodic_dead_pool_queue

Task_Terminate ==
  /\ InCall
  /\ dead_pool_queue' = Append(dead_pool_queue, cur_task)
  /\ periodic_dead_pool_queue' = FreedBlocks
  /\ meta' = IF CurPriority = PERIODIC
             THEN [meta EXCEPT ![periodic_desc[cur_task]].task = NULL] ELSE meta
  /\ UNCHANGED <<priority, periodic_desc, create_vars, service_vars,
                 ticks_from_start>>
  /\ Dispatch([state EXCEPT ![cur_task] = "DEAD"], system_task_queue,
              periodic_task_queue, roundrobin_task_queue, periodic_task_remticks)

\* OS_Abort called by the application.
OS_Abort == InTask /\ Abort("USER_CALLED_OS_ABORT")

-----------------------------------------------------------------------------
(* Services.  A handle is the address of a service, or NULL.               *)

Handles == 0 .. num_services

Service_Init ==
  /\ InCall
  /\ IF num_services >= MAXSERVICES THEN Abort("SERVICE_CAPACITY_REACHED")
     ELSE /\ num_services' = num_services + 1
          /\ UNCHANGED <<pools, descriptors, create_vars, service_queue,
                         ticks_from_start>>
          /\ Dispatch(state, system_task_queue, periodic_task_queue,
                      roundrobin_task_queue, periodic_task_remticks)

Service_Subscribe(h) ==
  /\ InCall
  /\ IF h = NULL THEN Abort("INVALID_SERVICE")
     ELSE IF CurPriority = PERIODIC THEN Abort("PERIODIC_SUBSCRIBE")
     ELSE /\ service_queue' = [service_queue EXCEPT ![h] = Append(@, cur_task)]
          /\ UNCHANGED <<pools, descriptors, create_vars, num_services,
                         ticks_from_start>>
          /\ Dispatch([state EXCEPT ![cur_task] = "WAITING"], system_task_queue,
                      periodic_task_queue, roundrobin_task_queue,
                      periodic_task_remticks)

\* The waiting tasks of service h at level l, in their order.
Woken(h, l) ==
  LET q == service_queue[h]
  IN  Subsequence(q, {i \in DOMAIN q : priority[q[i]] = l})

\* Called by the running task, or by an interrupt handler on its stack.
Service_Publish(h) ==
  /\ InTask
  /\ IF h = NULL THEN Abort("INVALID_SERVICE")
     ELSE IF Woken(h, PERIODIC) # <<>> THEN Abort("PERIODIC_FOUND_WHEN_PUBLISHING")
     ELSE /\ service_queue' = [service_queue EXCEPT ![h] = <<>>]
          /\ UNCHANGED <<pools, descriptors, create_vars, num_services,
                         ticks_from_start>>
          /\ Preempt([t \in Tasks |-> IF t \in Range(service_queue[h])
                                      THEN "READY" ELSE state[t]],
                     system_task_queue \o Woken(h, SYSTEM),
                     periodic_task_queue,
                     roundrobin_task_queue \o Woken(h, ROUND_ROBIN),
                     cur_per_metadata)

-----------------------------------------------------------------------------

\* After OS_Abort the processor flashes the error code for ever.
Aborted == error_msg # "NONE" /\ UNCHANGED vars

Next ==
  \/ TIMER_EXPIRED
  \/ Task_Create_System \/ Task_Create_RR
  \/ \E per \in PeriodArgs, wc \in WcetArgs, st \in StartArgs :
       Task_Create_Periodic(per, wc, st)
  \/ AssignNext \/ AssignWcet \/ kernel_create_helper
  \/ OS_DisablePreemption \/ Task_Next \/ Task_Terminate \/ OS_Abort
  \/ Service_Init
  \/ \E h \in Handles : Service_Subscribe(h) \/ Service_Publish(h)
  \/ Aborted

Spec == Init /\ [][Next]_vars

-----------------------------------------------------------------------------
(* Properties.                                                             *)

TypeOK ==
  /\ cur_task \in Tasks \cup {Idle}
  /\ state \in [Tasks -> {"DEAD", "RUNNING", "READY", "WAITING"}]
  /\ priority \in [Tasks -> {SYSTEM, PERIODIC, ROUND_ROBIN}]
  /\ periodic_desc \in [Tasks -> Metas \cup {NULL}]
  /\ dead_pool_queue \in Seq(Tasks)
  /\ system_task_queue \in Seq(Tasks)
  /\ roundrobin_task_queue \in Seq(Tasks)
  /\ periodic_task_queue \in Seq(Metas)
  /\ periodic_dead_pool_queue \in Seq(Metas)
  /\ meta \in [Metas -> [task : Tasks \cup {NULL}, period : Word, wcet : Word,
                         next : Word]]
  /\ cur_per_metadata \in Metas \cup {NULL}
  /\ periodic_task_remticks \in Word
  /\ kernel_period_create_meta \in [period : Word, next : Word, wcet : Word]
  /\ creating \in [Tasks -> [stage : 0 .. 3, period : Word, next : Word, wcet : Word]]
  /\ kernel_preemption_disabled \in BOOLEAN
  /\ service_queue \in [Services -> Seq(Tasks)]
  /\ num_services \in 0 .. MAXSERVICES
  /\ ticks_from_start \in Word
  /\ error_msg \in Errors

At(l, st) == {t \in Tasks : priority[t] = l /\ state[t] = st}

\* Every variable is of its type, and every descriptor is free, running, or in the
\* one queue its state and level call for; a waiting task waits on one service
\* and is never periodic.
TasksAccounted ==
  /\ TypeOK
  /\ error_msg = "NONE" =>
       /\ \A t \in Tasks : state[t] = "RUNNING" <=> cur_task = t
       /\ Holds(dead_pool_queue, {t \in Tasks : state[t] = "DEAD"})
       /\ Holds(system_task_queue, At(SYSTEM, "READY"))
       /\ Holds(roundrobin_task_queue, At(ROUND_ROBIN, "READY"))
       /\ At(PERIODIC, "WAITING") = {}
       /\ \A s \in Services : IsInjective(service_queue[s])
       /\ \A r, s \in Services :
            r # s => Range(service_queue[r]) \cap Range(service_queue[s]) = {}
       /\ {t \in Tasks : state[t] = "WAITING"}
            = UNION {Range(service_queue[s]) : s \in Services}

\* Every metadata block is free, in the release queue, or with the periodic task
\* on the processor, and it and its task point at each other: creations,
\* preemptions and terminations neither leak a block nor let two tasks share
\* one, and Task_Next advances the block of its caller.
BlocksAccounted ==
  error_msg = "NONE" =>
    /\ Holds(periodic_dead_pool_queue, {m \in Metas : meta[m].task = NULL})
    /\ IsInjective(periodic_task_queue)
    /\ \A m \in Metas : meta[m].task # NULL =>
         /\ periodic_desc[meta[m].task] = m
         /\ meta[m].task \in At(PERIODIC, IF m \in Range(periodic_task_queue)
                                          THEN "READY" ELSE "RUNNING")
    /\ \A t \in Tasks : priority[t] = PERIODIC /\ state[t] # "DEAD" =>
         periodic_desc[t] # NULL /\ meta[periodic_desc[t]].task = t
    /\ CurPriority = PERIODIC => cur_per_metadata = periodic_desc[cur_task]

\* The ticks left to a periodic task never reach 0 between two passes, so the
\* uint16_t counter of a task with a WCET never wraps past its limit.
RemticksNeverWrap ==
  CurPriority = PERIODIC /\ meta[cur_per_metadata].wcet > 0 =>
    periodic_task_remticks \in 1 .. meta[cur_per_metadata].wcet

\* SYSTEM tasks run to completion: one leaves the processor only by terminating,
\* blocking or yielding to the next in line.
SystemRunsToCompletion ==
  [][CurPriority = SYSTEM /\ cur_task' # cur_task =>
       \/ state'[cur_task] \in {"DEAD", "WAITING"}
       \/ /\ ticks_from_start' = ticks_from_start /\ system_task_queue # <<>>
          /\ cur_task' = Head(system_task_queue)
          /\ system_task_queue' = Append(Tail(system_task_queue), cur_task)]_vars

\* No ROUND_ROBIN task overtakes another (os.h:104): the only one that enters
\* the queue ahead of a waiting task is one preempted inside its quantum.
NoOvertaking ==
  [][\A a \in Range(roundrobin_task_queue), b \in Range(roundrobin_task_queue') :
       Before(roundrobin_task_queue', b, a) =>
         \/ Before(roundrobin_task_queue, b, a)
         \/ /\ b = cur_task
            /\ CurPriority' \in {SYSTEM, PERIODIC}
            /\ ticks_from_start' = ticks_from_start]_vars

\* A ROUND_ROBIN task preempted within its quantum "re-enters at the front of its
\* queue" (os.h:108), ahead of the tasks that the call which preempts it readies.
PreemptionKeepsTurn ==
  [][CurPriority = ROUND_ROBIN /\ state'[cur_task] = "READY"
       /\ <<dead_pool_queue, service_queue>>' # <<dead_pool_queue, service_queue>>
       /\ error_msg' = "NONE" =>
         Head(roundrobin_task_queue') = cur_task]_vars

\* The three rules of the queues.
QueueDiscipline == SystemRunsToCompletion /\ NoOvertaking /\ PreemptionKeepsTurn

RemainingNow(m) == Remaining(meta, ticks_from_start, m)

\* The periodic tasks "are ordered by next execution time" (os.c:81).
QueueOrdered ==
  \A i, j \in DOMAIN periodic_task_queue : i <= j =>
    RemainingNow(periodic_task_queue[i]) <= RemainingNow(periodic_task_queue[j])

\* The periodic tasks still queued that were due on the tick that ends with this
\* step.
Missed == IF ticks_from_start' = ticks_from_start THEN {}
          ELSE {m \in Range(periodic_task_queue') : meta[m].next = ticks_from_start}

\* A periodic task is created with the parameters its creator asked for (os.h:247).
CreatedAsAsked ==
  [][\A t \in Tasks : creating[t].stage = 3 /\ creating'[t] = NoCall =>
       LET made == meta'[Head(periodic_dead_pool_queue)]
       IN  [period |-> made.period, next |-> made.next, wcet |-> made.wcet]
             = [period |-> creating[t].period, next |-> creating[t].next,
                wcet |-> creating[t].wcet]]_vars

-----------------------------------------------------------------------------
(* The inductive invariant behind the theorems of RoombaKernelProofs.      *)

\* A block is not queued and free at once.
QueuedInUse ==
  error_msg = "NONE" =>
    \A m \in Range(periodic_task_queue) : meta[m].task # NULL

IInv == TasksAccounted /\ BlocksAccounted /\ QueuedInUse /\ RemticksNeverWrap

=============================================================================
