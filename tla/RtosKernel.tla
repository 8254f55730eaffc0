----------------------------- MODULE RtosKernel -----------------------------
(***************************************************************************)
(* The kernel of the Project 2 RTOS (Project2/GccApplication3/             *)
(* GccApplication3/os.cpp).  One CPU; a task runs until it makes a system  *)
(* call or an interrupt takes it into the kernel.  The kernel runs with    *)
(* interrupts disabled, handles the request and dispatches the next task,  *)
(* so one pass through kernel_main_loop is one action here, except that    *)
(* the wake-up loop of Service_Publish takes one step per woken task.      *)
(*                                                                         *)
(* The tasks are arbitrary programs: the task on the processor may make    *)
(* any call at any moment.  OS_Abort disables interrupts and never         *)
(* returns, so nothing reads what an aborting pass wrote before aborting;  *)
(* an abort therefore records its error code and leaves the rest alone.    *)
(* The fields of a descriptor that no decision reads once the task exists  *)
(* (sp, stack, name, arg, start) are left out.                             *)
(*                                                                         *)
(* An operator marked BUG is a variant of the one that follows it, used to *)
(* check that a property rules that bug out; no action uses it.            *)
(***************************************************************************)
EXTENDS TaskSequences

CONSTANTS
  MAXPROCESS,    \* number of task descriptors, the idle task's not counted
  MAXSERVICE,    \* number of services
  WORD,          \* ticks and counters are uint16_t: arithmetic modulo WORD
  PeriodArgs,    \* the periods tasks may ask for
  WcetArgs,      \* the worst-case execution times tasks may ask for
  Values         \* the values tasks may publish

ASSUME KernelAssumption ==
  /\ MAXPROCESS \in Nat \ {0}
  /\ MAXSERVICE \in 0 .. 255            \* num_services is a uint8_t
  /\ WORD \in Nat \ {0}
  /\ PeriodArgs \subseteq 0 .. WORD - 1
  /\ WcetArgs \subseteq 0 .. WORD - 1
  /\ 0 \in Values

Tasks    == 1 .. MAXPROCESS       \* the descriptors task_desc[0 .. MAXPROCESS-1]
Idle     == MAXPROCESS + 1        \* the idle task's descriptor, the last one
Slots    == 1 .. MAXPROCESS       \* the indices of periodic_tasks
Services == 1 .. MAXSERVICE       \* a service handle is its index plus one
Word     == 0 .. WORD - 1

NoTask    == 0                    \* NULL in periodic_tasks
NoService == 0                    \* the NULL service handle
Handles   == 0 .. MAXSERVICE + 1  \* what a caller may pass as a handle

States == {"DEAD", "RUNNING", "READY", "WAITING"}
Levels == {"IDLE", "RR", "PERIODIC", "SYSTEM"}
Errors == {"NONE", "USER_CALLED_OS_ABORT", "RTOS_INTERNAL_ERROR",
           "TOO_MANY_TASKS", "INVALID_WCET_AND_PERIOD", "INVALID_START_TIME",
           "PERIODIC_TOOK_TOO_LONG", "TWO_PERIODIC_TASKS_READY",
           "PERIODIC_TASK_TIME_CONFLICT", "NO_FREE_PERIODIC_BLOCK",
           "TOO_MANY_SERVICES", "PERIODIC_CANT_SUBSCRIBE",
           "INVALID_SERVICE_DESCRIPTOR"}

VARIABLES
  cur_task,          \* the task on the processor
  state,             \* its place in the life cycle, per descriptor
  level,             \* scheduling level, per descriptor (stale once DEAD)
  dead_pool_queue,   \* free descriptors
  system_queue,      \* ready SYSTEM tasks
  periodic_queue,    \* ready PERIODIC tasks
  rr_queue,          \* ready RR tasks
  periodic_tasks,    \* slot -> the periodic task that occupies it
  period, wcet,      \* the parameters of a periodic task
  counter,           \* ticks until a periodic task's next release
  wcet_counter,      \* ticks of execution it has left in this release
  service_queue,     \* tasks waiting on each service
  service_data,      \* the value each service published last
  num_services,      \* services handed out so far
  publishing,        \* service whose waiters the kernel is waking, or NoService
  will_be_preempted, \* that loop has woken a SYSTEM task
  resuming,          \* the service that woke a task which has not run since
  received,          \* the value a task's last Service_Subscribe gave it
  ticks_since_boot,  \* timer ticks, modulo WORD
  error_msg          \* the code OS_Abort was called with, "NONE" while running

ready_queues  == <<system_queue, periodic_queue, rr_queue>>
periodic_args == <<period, wcet>>
periodic_vars == <<periodic_tasks, periodic_args, counter, wcet_counter>>
service_vars  == <<service_queue, service_data, num_services>>
publish_vars  == <<publishing, will_be_preempted>>
vars == <<cur_task, state, level, dead_pool_queue, ready_queues, periodic_vars,
          service_vars, publish_vars, resuming, received, ticks_since_boot,
          error_msg>>

-----------------------------------------------------------------------------
(* OS_Init: r_main is the SYSTEM task in the first descriptor, and runs.   *)

Init ==
  /\ cur_task = 1
  /\ state = [t \in Tasks |-> IF t = 1 THEN "RUNNING" ELSE "DEAD"]
  /\ level = [t \in Tasks |-> IF t = 1 THEN "SYSTEM" ELSE "IDLE"]
  /\ dead_pool_queue = [i \in 1 .. MAXPROCESS - 1 |-> i + 1]
  /\ system_queue = <<>> /\ periodic_queue = <<>> /\ rr_queue = <<>>
  /\ periodic_tasks = [i \in Slots |-> NoTask]
  /\ period = [t \in Tasks |-> 0]
  /\ wcet = [t \in Tasks |-> 0]
  /\ counter = [t \in Tasks |-> 0]
  /\ wcet_counter = [t \in Tasks |-> 0]
  /\ service_queue = [s \in Services |-> <<>>]
  /\ service_data = [s \in Services |-> 0]
  /\ num_services = 0
  /\ publishing = NoService /\ will_be_preempted = FALSE
  /\ resuming = [t \in Tasks |-> NoService]
  /\ received = [t \in Tasks |-> 0]
  /\ ticks_since_boot = 0
  /\ error_msg = "NONE"

-----------------------------------------------------------------------------
(* The scheduler.                                                          *)

CurLevel == IF cur_task = Idle THEN "IDLE" ELSE level[cur_task]

\* A task (or the idle task) is executing: the kernel is not, nor has it aborted.
InTask == publishing = NoService /\ error_msg = "NONE"

Abort(code) ==
  /\ error_msg' = code
  /\ UNCHANGED <<cur_task, state, level, dead_pool_queue, ready_queues,
                 periodic_vars, service_vars, publish_vars, resuming,
                 received, ticks_since_boot>>

\* The processor goes to task t.  A task that was blocked in Service_Subscribe
\* reads the service's data as soon as it is back, interrupts still disabled.
SwitchTo(t, st) ==
  /\ cur_task' = t
  /\ state' = [st EXCEPT ![t] = "RUNNING"]
  /\ resuming' = [resuming EXCEPT ![t] = NoService]
  /\ received' = [received EXCEPT ![t] =
       IF resuming[t] = NoService THEN @ ELSE service_data[resuming[t]]]

Ready(sq, pq, rq) ==
  system_queue' = sq /\ periodic_queue' = pq /\ rr_queue' = rq

\* kernel_dispatch, when the request has left the task states st and the ready
\* queues sq, pq, rq.
Dispatch(st, sq, pq, rq) ==
  IF cur_task # Idle /\ st[cur_task] = "RUNNING"
  THEN /\ state' = st
       /\ Ready(sq, pq, rq)
       /\ UNCHANGED <<cur_task, resuming, received>>
  ELSE \/ /\ sq # <<>>
          /\ SwitchTo(Head(sq), st)
          /\ Ready(Tail(sq), pq, rq)
       \/ /\ sq = <<>> /\ pq # <<>>
          /\ SwitchTo(Head(pq), st)
          /\ Ready(sq, Tail(pq), rq)
       \/ /\ sq = <<>> /\ pq = <<>> /\ rq # <<>>
          /\ SwitchTo(Head(rq), st)
          /\ Ready(sq, pq, Tail(rq))
       \/ /\ sq = <<>> /\ pq = <<>> /\ rq = <<>>
          /\ cur_task' = Idle
          /\ state' = st
          /\ Ready(sq, pq, rq)
          /\ UNCHANGED <<resuming, received>>

\* Dispatch after a higher-priority task has become ready: an RR or PERIODIC
\* task goes back to the front of its ready queue, a SYSTEM task stays.
\* (Task_Create_System appends a PERIODIC task instead of pushing it: the
\* queue is empty then, or the caller has aborted.)
Preempt_Never(st, sq, pq, rq) == Dispatch(st, sq, pq, rq)  \* BUG: no preemption
Preempt_Back(st, sq, pq, rq) ==                            \* BUG: loses its turn
  LET yielded == [st EXCEPT ![cur_task] = "READY"] IN
  CASE CurLevel = "RR"       -> Dispatch(yielded, sq, pq, Append(rq, cur_task))
    [] CurLevel = "PERIODIC" -> Dispatch(yielded, sq, Append(pq, cur_task), rq)
    [] OTHER                 -> Dispatch(st, sq, pq, rq)
Preempt_System(st, sq, pq, rq) ==                          \* BUG: SYSTEM yields too
  LET yielded == [st EXCEPT ![cur_task] = "READY"] IN
  CASE CurLevel = "RR"       -> Dispatch(yielded, sq, pq, Cons(cur_task, rq))
    [] CurLevel = "PERIODIC" -> Dispatch(yielded, sq, Cons(cur_task, pq), rq)
    [] CurLevel = "SYSTEM"   -> Dispatch(yielded, Append(sq, cur_task), pq, rq)
    [] OTHER                 -> Dispatch(st, sq, pq, rq)

Preempt(st, sq, pq, rq) ==
  LET yielded == [st EXCEPT ![cur_task] = "READY"] IN
  CASE CurLevel = "RR"       -> Dispatch(yielded, sq, pq, Cons(cur_task, rq))
    [] CurLevel = "PERIODIC" -> Dispatch(yielded, sq, Cons(cur_task, pq), rq)
    [] OTHER                 -> Dispatch(st, sq, pq, rq)

-----------------------------------------------------------------------------
(* The timer interrupt.                                                    *)

Inc_NoWrap(n) == n + 1                        \* BUG: wider than 16 bits
Inc(n) == IF n = WORD - 1 THEN 0 ELSE n + 1   \* uint16_t increment
Dec(n) == IF n = 0 THEN WORD - 1 ELSE n - 1   \* uint16_t decrement

Periodics == {t \in Tasks : \E i \in Slots : periodic_tasks[i] = t}

\* The periodic tasks this tick releases.
Released == {t \in Periodics : Dec(counter[t]) <= 0}

CounterAfterTick_Late(t) ==                   \* BUG: stops while the task waits
  IF t \in Released THEN period[t]
  ELSE IF t \in Periodics \ Range(periodic_queue) THEN Dec(counter[t])
  ELSE counter[t]
CounterAfterTick_Short(t) ==                  \* BUG: the release tick counted twice
  IF t \in Released THEN Dec(period[t])
  ELSE IF t \in Periodics THEN Dec(counter[t])
  ELSE counter[t]
CounterAfterTick(t) ==
  IF t \in Released THEN period[t]
  ELSE IF t \in Periodics THEN Dec(counter[t])
  ELSE counter[t]

\* Execution time is charged to the task the tick interrupts.
WcetAfterTick(t) ==
  IF t \in Released THEN wcet[t]
  ELSE IF t = cur_task /\ level[t] = "PERIODIC" THEN Dec(wcet_counter[t])
  ELSE wcet_counter[t]

\* A round-robin quantum ends with the tick.
QuantumQueue_Lost == rr_queue                 \* BUG: not queued again
QuantumQueue_Front ==                         \* BUG: back to the front
  IF CurLevel = "RR" THEN Cons(cur_task, rr_queue) ELSE rr_queue
QuantumQueue == IF CurLevel = "RR" THEN Append(rr_queue, cur_task) ELSE rr_queue

\* The tick finds the running periodic task at the end of its WCET.
Overrun_Unsigned ==                           \* BUG: a uint16_t is never negative
  CurLevel = "PERIODIC" /\ Dec(wcet_counter[cur_task]) < 0
Overrun == CurLevel = "PERIODIC" /\ Dec(wcet_counter[cur_task]) <= 0

\* The size of periodic_queue once the released tasks are in it.
ReadyAfterTick_New == Cardinality(Released)   \* BUG: forgets the preempted task
ReadyAfterTick == Len(periodic_queue) + Cardinality(Released)

\* kernel_update_ticker, then the end of an RR task's quantum.  At most one
\* task is released when neither abort is taken.
TIMER_EXPIRED ==
  /\ InTask
  /\ IF Overrun THEN Abort("PERIODIC_TOOK_TOO_LONG")
     ELSE IF ReadyAfterTick >= 2 THEN Abort("TWO_PERIODIC_TASKS_READY")
     ELSE IF CurLevel = "PERIODIC" /\ ReadyAfterTick >= 1
     THEN Abort("PERIODIC_TASK_TIME_CONFLICT")
     ELSE /\ ticks_since_boot' = Inc(ticks_since_boot)
          /\ counter' = [t \in Tasks |-> CounterAfterTick(t)]
          /\ wcet_counter' = [t \in Tasks |-> WcetAfterTick(t)]
          /\ Dispatch([t \in Tasks |->
                         IF t \in Released \/ (t = cur_task /\ level[t] = "RR")
                         THEN "READY" ELSE state[t]],
                      system_queue,
                      IF Released = {} THEN periodic_queue
                      ELSE Append(periodic_queue, CHOOSE t \in Released : TRUE),
                      QuantumQueue)
          /\ UNCHANGED <<level, dead_pool_queue, periodic_tasks, periodic_args,
                         service_vars, publish_vars, error_msg>>

-----------------------------------------------------------------------------
(* Task creation: kernel_create_task and the TASK_CREATE case of           *)
(* kernel_handle_request, which decides whether the creator is preempted.  *)

\* A task calls the kernel.
InCall == InTask /\ cur_task # Idle

Claim(p, l) ==
  /\ dead_pool_queue' = Tail(dead_pool_queue)
  /\ level' = [level EXCEPT ![p] = l]

Task_Create_System ==
  /\ InCall
  /\ IF dead_pool_queue = <<>> THEN Abort("TOO_MANY_TASKS")
     ELSE IF CurLevel = "PERIODIC" /\ Len(periodic_queue) >= 1
     THEN Abort("PERIODIC_TASK_TIME_CONFLICT")
     ELSE LET p == Head(dead_pool_queue)
          IN  /\ Claim(p, "SYSTEM")
              /\ Preempt([state EXCEPT ![p] = "READY"],
                         Append(system_queue, p), periodic_queue, rr_queue)
              /\ UNCHANGED <<periodic_vars, service_vars, publish_vars,
                             ticks_since_boot, error_msg>>

Task_Create_RR ==
  /\ InCall
  /\ IF dead_pool_queue = <<>> THEN Abort("TOO_MANY_TASKS")
     ELSE LET p == Head(dead_pool_queue)
          IN  /\ Claim(p, "RR")
              /\ Dispatch([state EXCEPT ![p] = "READY"],
                          system_queue, periodic_queue, Append(rr_queue, p))
              /\ UNCHANGED <<periodic_vars, service_vars, publish_vars,
                             ticks_since_boot, error_msg>>

InvalidTiming_Zero(per, wc) == per <= 0 \/ wc > per   \* BUG: WCET 0 accepted
InvalidTiming(per, wc) == wc <= 0 \/ per <= 0 \/ wc > per

FirstFree_Any(k) == \A j \in 1 .. k - 1 : FALSE       \* BUG: always the first slot
FirstFree(k) ==
  periodic_tasks[k] = NoTask /\ \A j \in 1 .. k - 1 : periodic_tasks[j] # NoTask

\* The scheduling data of a new periodic task p that starts at tick st.
SetTiming(p, per, wc, st) ==
  /\ \E k \in Slots :
       FirstFree(k) /\ periodic_tasks' = [periodic_tasks EXCEPT ![k] = p]
  /\ period' = [period EXCEPT ![p] = per]
  /\ wcet' = [wcet EXCEPT ![p] = wc]
  /\ counter' = [counter EXCEPT ![p] =
       IF st = ticks_since_boot THEN per ELSE st - ticks_since_boot]
  /\ wcet_counter' = [wcet_counter EXCEPT ![p] = wc]

Task_Create_Periodic(per, wc, st) ==
  /\ InCall
  /\ IF dead_pool_queue = <<>> THEN Abort("TOO_MANY_TASKS")
     ELSE IF InvalidTiming(per, wc) THEN Abort("INVALID_WCET_AND_PERIOD")
     ELSE IF st < ticks_since_boot THEN Abort("INVALID_START_TIME")
     ELSE IF \A k \in Slots : periodic_tasks[k] # NoTask
     THEN Abort("NO_FREE_PERIODIC_BLOCK")
     ELSE LET p   == Head(dead_pool_queue)
              now == st = ticks_since_boot
              pq  == IF now THEN Append(periodic_queue, p) ELSE periodic_queue
              new == [state EXCEPT ![p] = IF now THEN "READY" ELSE "WAITING"]
          IN  IF CurLevel = "PERIODIC" /\ now
              THEN Abort("PERIODIC_TASK_TIME_CONFLICT")
              ELSE IF CurLevel \in {"SYSTEM", "PERIODIC"} /\ Len(pq) >= 2
              THEN Abort("TWO_PERIODIC_TASKS_READY")
              ELSE /\ Claim(p, "PERIODIC")
                   /\ SetTiming(p, per, wc, st)
                   /\ IF CurLevel = "RR" /\ now
                      THEN Preempt(new, system_queue, pq, rr_queue)
                      ELSE Dispatch(new, system_queue, pq, rr_queue)
                   /\ UNCHANGED <<service_vars, publish_vars, ticks_since_boot,
                                  error_msg>>

-----------------------------------------------------------------------------
(* The other task calls.                                                   *)

\* TASK_NEXT.  A PERIODIC task waits for its next release in no queue; its
\* state is READY, the code overwriting the WAITING it has just assigned.
Task_Next ==
  /\ InCall
  /\ Dispatch([state EXCEPT ![cur_task] = "READY"],
              IF CurLevel = "SYSTEM" THEN Append(system_queue, cur_task)
                                     ELSE system_queue,
              periodic_queue,
              IF CurLevel = "RR" THEN Append(rr_queue, cur_task) ELSE rr_queue)
  /\ UNCHANGED <<level, dead_pool_queue, periodic_vars, service_vars,
                 publish_vars, ticks_since_boot, error_msg>>

\* The slots of periodic_tasks once task t is gone.
WithoutTask_Leak(t) == periodic_tasks                 \* BUG: slot not cleared
WithoutTask(t) ==
  [i \in Slots |-> IF level[t] = "PERIODIC" /\ periodic_tasks[i] = t
                   THEN NoTask ELSE periodic_tasks[i]]

\* TASK_TERMINATE: an explicit call, or the task's function returns into it.
Task_Terminate ==
  /\ InCall
  /\ periodic_tasks' = WithoutTask(cur_task)
  /\ dead_pool_queue' = Append(dead_pool_queue, cur_task)
  /\ Dispatch([state EXCEPT ![cur_task] = "DEAD"],
              system_queue, periodic_queue, rr_queue)
  /\ UNCHANGED <<level, periodic_args, counter, wcet_counter, service_vars,
                 publish_vars, ticks_since_boot, error_msg>>

\* OS_Abort called by the application.
OS_Abort == InTask /\ Abort("USER_CALLED_OS_ABORT")

-----------------------------------------------------------------------------
(* Services.                                                               *)

Service_Init ==
  /\ InCall
  /\ IF num_services < MAXSERVICE
     THEN /\ num_services' = num_services + 1
          /\ UNCHANGED <<cur_task, state, level, dead_pool_queue, ready_queues,
                         periodic_vars, service_queue, service_data, publish_vars,
                         resuming, received, ticks_since_boot, error_msg>>
     ELSE Abort("TOO_MANY_SERVICES")

\* The uint8_t index h - 1 of handle h is not below num_services.
InvalidHandle(h) == (h - 1) % 256 >= num_services

Service_Subscribe(h) ==
  /\ InCall
  /\ IF InvalidHandle(h) THEN Abort("INVALID_SERVICE_DESCRIPTOR")
     ELSE IF CurLevel = "PERIODIC" THEN Abort("PERIODIC_CANT_SUBSCRIBE")
     ELSE /\ service_queue' = [service_queue EXCEPT ![h] = Append(@, cur_task)]
          /\ Dispatch([state EXCEPT ![cur_task] = "WAITING"],
                      system_queue, periodic_queue, rr_queue)
          /\ UNCHANGED <<level, dead_pool_queue, periodic_vars, service_data,
                         num_services, publish_vars, ticks_since_boot, error_msg>>

Record_IfHeard(h, v) ==                               \* BUG: lost without waiters
  IF service_queue[h] = <<>> THEN service_data
                             ELSE [service_data EXCEPT ![h] = v]
Record(h, v) == [service_data EXCEPT ![h] = v]

\* Service_Publish, called by the running task or by an interrupt handler on
\* its stack (the idle task's included): record the data, start the loop.
Service_Publish(h, v) ==
  /\ InTask
  /\ IF InvalidHandle(h) THEN Abort("INVALID_SERVICE_DESCRIPTOR")
     ELSE /\ service_data' = Record(h, v)
          /\ publishing' = h
          /\ will_be_preempted' = FALSE
          /\ UNCHANGED <<cur_task, state, level, dead_pool_queue, ready_queues,
                         periodic_vars, service_queue, num_services, resuming,
                         received, ticks_since_boot, error_msg>>

InPublish == publishing # NoService /\ error_msg = "NONE"

\* One iteration of the loop in kernel_service_publish.
WakeSubscriber ==
  /\ InPublish
  /\ service_queue[publishing] # <<>>
  /\ LET t == Head(service_queue[publishing])
     IN  IF level[t] \notin {"SYSTEM", "RR"} THEN Abort("RTOS_INTERNAL_ERROR")
         ELSE /\ service_queue' = [service_queue EXCEPT ![publishing] = Tail(@)]
              /\ state' = [state EXCEPT ![t] = "READY"]
              /\ resuming' = [resuming EXCEPT ![t] = publishing]
              /\ IF level[t] = "SYSTEM"
                 THEN /\ will_be_preempted' = TRUE
                      /\ Ready(Append(system_queue, t), periodic_queue, rr_queue)
                 ELSE /\ Ready(system_queue, periodic_queue, Append(rr_queue, t))
                      /\ UNCHANGED will_be_preempted
              /\ UNCHANGED <<cur_task, level, dead_pool_queue, periodic_vars,
                             service_data, num_services, publishing, received,
                             ticks_since_boot, error_msg>>

\* The loop is over: a woken SYSTEM task preempts the publisher.
EndPublish ==
  /\ InPublish
  /\ service_queue[publishing] = <<>>
  /\ IF will_be_preempted /\ CurLevel = "PERIODIC" /\ Len(periodic_queue) >= 1
     THEN Abort("TWO_PERIODIC_TASKS_READY")
     ELSE /\ publishing' = NoService
          /\ will_be_preempted' = FALSE
          /\ IF will_be_preempted
             THEN Preempt(state, system_queue, periodic_queue, rr_queue)
             ELSE Dispatch(state, system_queue, periodic_queue, rr_queue)
          /\ UNCHANGED <<level, dead_pool_queue, periodic_vars, service_vars,
                         ticks_since_boot, error_msg>>

-----------------------------------------------------------------------------

\* After OS_Abort the processor flashes the error code for ever.
Aborted == error_msg # "NONE" /\ UNCHANGED vars

\* Every step but the two that RtosKernelHistory observes closely.
OtherStep ==
  \/ TIMER_EXPIRED
  \/ Task_Create_System
  \/ Task_Create_RR
  \/ Task_Next
  \/ Task_Terminate
  \/ OS_Abort
  \/ Service_Init
  \/ \E h \in Handles : Service_Subscribe(h)
  \/ WakeSubscriber
  \/ EndPublish
  \/ Aborted

Next ==
  \/ OtherStep
  \/ \E per \in PeriodArgs, wc \in WcetArgs, st \in Word :
       Task_Create_Periodic(per, wc, st)
  \/ \E h \in Handles, v \in Values : Service_Publish(h, v)

Spec == Init /\ [][Next]_vars

\* The kernel leaves its own loops, and a pending timer interrupt is taken once
\* interrupts are enabled, however often the kernel disables them in between.
Fairness ==
  /\ WF_vars(WakeSubscriber) /\ WF_vars(EndPublish)
  /\ SF_vars(TIMER_EXPIRED)

FairSpec == Spec /\ Fairness

\* For TLC's VIEW, the part of the state that later steps read: nothing after an
\* abort, no level of a free descriptor and no timing but of periodic tasks.
\* Which of the free descriptors is taken next makes no difference either.
Read ==
  IF error_msg # "NONE" THEN <<error_msg>>
  ELSE <<cur_task, state, ready_queues, periodic_tasks, service_vars,
         publish_vars, resuming, ticks_since_boot,
         Len(dead_pool_queue), Range(dead_pool_queue),
         [t \in Tasks |-> IF state[t] = "DEAD" THEN "IDLE" ELSE level[t]],
         [t \in Periodics |-> <<period[t], wcet[t], counter[t], wcet_counter[t]>>]>>

-----------------------------------------------------------------------------
(* Properties.                                                             *)

TypeOK ==
  /\ cur_task \in Tasks \cup {Idle}
  /\ state \in [Tasks -> States]
  /\ level \in [Tasks -> Levels]
  /\ dead_pool_queue \in Seq(Tasks)
  /\ system_queue \in Seq(Tasks)
  /\ periodic_queue \in Seq(Tasks)
  /\ rr_queue \in Seq(Tasks)
  /\ periodic_tasks \in [Slots -> Tasks \cup {NoTask}]
  /\ period \in [Tasks -> Word]
  /\ wcet \in [Tasks -> Word]
  /\ counter \in [Tasks -> Word]
  /\ wcet_counter \in [Tasks -> Word]
  /\ service_queue \in [Services -> Seq(Tasks)]
  /\ service_data \in [Services -> Values]
  /\ num_services \in 0 .. MAXSERVICE
  /\ publishing \in Services \cup {NoService}
  /\ will_be_preempted \in BOOLEAN
  /\ resuming \in [Tasks -> Services \cup {NoService}]
  /\ received \in [Tasks -> Values]
  /\ ticks_since_boot \in Word
  /\ error_msg \in Errors

ReadyAt(st, lv, l) == {t \in Tasks : st[t] = "READY" /\ lv[t] = l}

\* Every descriptor is accounted for: it is free, running, in the one queue its
\* state and level call for, or a periodic task between two releases.  No call
\* sequence loses a task, queues it twice or frees it while it is queued.
DescriptorsAccounted ==
  /\ \A t \in Tasks : state[t] = "RUNNING" <=> cur_task = t
  /\ Holds(dead_pool_queue, {t \in Tasks : state[t] = "DEAD"})
  /\ Holds(system_queue, ReadyAt(state, level, "SYSTEM"))
  /\ Holds(rr_queue, ReadyAt(state, level, "RR"))
  /\ Range(periodic_queue) \subseteq ReadyAt(state, level, "PERIODIC")
  /\ \A s \in Services : IsInjective(service_queue[s])
  /\ \A r, s \in Services :
       r # s => Range(service_queue[r]) \cap Range(service_queue[s]) = {}
  /\ \A t \in Tasks : state[t] = "WAITING" /\ level[t] # "PERIODIC"
                        <=> \E s \in Services : t \in Range(service_queue[s])
  /\ \A t \in Tasks : level[t] = "IDLE" => state[t] = "DEAD"

\* periodic_tasks holds each live periodic task in exactly one slot: a slot is
\* neither leaked nor kept by a dead task through any number of creations and
\* terminations.
SlotsMatchTasks ==
  /\ Periodics = {t \in Tasks : level[t] = "PERIODIC" /\ state[t] # "DEAD"}
  /\ \A i, j \in Slots : periodic_tasks[i] = periodic_tasks[j] =>
                           i = j \/ periodic_tasks[i] = NoTask

\* Whenever a task executes, no task of a higher level is ready, and the idle
\* task executes only when nothing is ready ("as soon as a higher priority task
\* becomes ready, it preempts all lower priority tasks").
NoPriorityInversion ==
  publishing = NoService =>
    /\ CurLevel # "SYSTEM" => system_queue = <<>>
    /\ CurLevel \in {"RR", "IDLE"} => periodic_queue = <<>>
    /\ CurLevel = "IDLE" => rr_queue = <<>>

\* At most one periodic task is released and unfinished on the processor or in
\* its ready queue; a second one is a timing violation and aborts.
OnePeriodicActive ==
  Len(periodic_queue) + (IF CurLevel = "PERIODIC" THEN 1 ELSE 0) <= 1

\* The uint16_t counters of a live periodic task never reach 0 between two
\* kernel passes, so no decrement wraps round and misses a release or an overrun.
CountersNeverWrap ==
  \A t \in Periodics :
    /\ counter[t] > 0
    /\ 0 < wcet_counter[t] /\ wcet_counter[t] <= wcet[t] /\ wcet[t] <= period[t]

\* The aborts that report a bug of the kernel itself are never taken: a periodic
\* task is never found waiting on a service, and a free descriptor always comes
\* with a free periodic slot.
NoInternalError ==
  error_msg \notin {"RTOS_INTERNAL_ERROR", "NO_FREE_PERIODIC_BLOCK"}

\* Priorities while the kernel is waking subscribers: nothing of a higher level
\* than the running task is ready but the SYSTEM tasks it has just woken.
Scheduled ==
  /\ CurLevel # "SYSTEM" => periodic_queue = <<>>
  /\ CurLevel # "SYSTEM" /\ ~will_be_preempted => system_queue = <<>>
  /\ publishing = NoService =>
       ~will_be_preempted /\ (CurLevel = "IDLE" => rr_queue = <<>>)

\* The inductive invariant behind the theorems of RtosKernelProofs.
IInv ==
  /\ TypeOK
  /\ DescriptorsAccounted
  /\ SlotsMatchTasks
  /\ Scheduled
  /\ OnePeriodicActive
  /\ CountersNeverWrap
  /\ NoInternalError

\* SYSTEM tasks run to completion, first come first served: one leaves the
\* processor only by terminating, blocking or yielding to the next in line.
SystemRunsToCompletion ==
  [][CurLevel = "SYSTEM" /\ cur_task' # cur_task =>
       \/ state'[cur_task] \in {"DEAD", "WAITING"}
       \/ /\ ticks_since_boot' = ticks_since_boot /\ system_queue # <<>>
          /\ cur_task' = Head(system_queue)
          /\ system_queue' = Append(Tail(system_queue), cur_task)]_vars

\* A preempted task keeps its turn: an RR task that loses the processor to a
\* higher level before its quantum ends is first in the RR queue, and a
\* preempted PERIODIC task is next of its level.
PreemptionKeepsTurn ==
  [][cur_task' # cur_task /\ ticks_since_boot' = ticks_since_boot =>
       /\ CurLevel = "RR" /\ CurLevel' \in {"SYSTEM", "PERIODIC"} =>
            rr_queue' = Cons(cur_task, rr_queue)
       /\ CurLevel = "PERIODIC" /\ CurLevel' = "SYSTEM" =>
            periodic_queue' = <<cur_task>>]_vars

\* No RR task overtakes another: the only one that may enter the queue ahead of
\* a waiting task is the one preempted in the middle of its quantum.
NoOvertaking ==
  [][\A a \in Range(rr_queue), b \in Range(rr_queue') :
       Before(rr_queue', b, a) =>
         \/ Before(rr_queue, b, a)
         \/ /\ b = cur_task
            /\ CurLevel' \in {"SYSTEM", "PERIODIC"}
            /\ ticks_since_boot' = ticks_since_boot]_vars

\* A released periodic task runs before long, or the missed release is caught:
\* even a SYSTEM task that never yields ends in an abort.
ReleaseServed ==
  \A t \in Tasks :
    (t \in Range(periodic_queue)) ~> (cur_task = t \/ error_msg # "NONE")

\* If quanta keep ending, every ready RR task gets the processor in turn.
RRNotStarved ==
  []<><<TIMER_EXPIRED /\ CurLevel = "RR">>_vars =>
    \A t \in Tasks :
      (t \in Range(rr_queue)) ~> (cur_task = t \/ error_msg # "NONE")

=============================================================================
