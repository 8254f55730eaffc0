---------------------------- MODULE DanielsKernel ----------------------------
(***************************************************************************)
(* The event-based kernel a second team wrote for the same robots          *)
(* (Project3/RoombaVer3/rtos_daniels): SYSTEM, PERIODIC and round-robin    *)
(* tasks, a delta list of sleeping PERIODIC tasks, an execution timer per  *)
(* task and events of one bit.  A pass through kernel_main_loop is two     *)
(* steps, both with interrupts disabled: a system call, a tick or an       *)
(* asynchronous signal enters the kernel and kernel_handle_request serves  *)
(* it; then kernel_dispatch runs and the kernel is left.  An asynchronous  *)
(* signal skips the dispatch.                                              *)
(*                                                                         *)
(* Milliseconds pass only while a task runs.  An execution timer is the    *)
(* value timer_value would return, up to TimerMax (timer.c is modelled by  *)
(* OsTimer); those of SYSTEM tasks and the idle task are never read and    *)
(* are left out.  The data of a DEAD descriptor are never read and are     *)
(* reset.  An operator marked BUG is a variant of the one that follows     *)
(* it, used to check that a property rules it out.                         *)
(***************************************************************************)
EXTENDS SleepQueue, TaskSequences

CONSTANTS
  Tasks,      \* task_desc[0 .. MAXPROCESS-1]
  Idle,       \* idle_task, the descriptor at the end
  MAXEVENT,   \* number of events
  TICK,       \* milliseconds per tick
  QUANTUM,    \* ticks a round-robin task runs for
  WORD,       \* cur_ticks is an unsigned int: arithmetic modulo WORD
  Periods,    \* the periods, starts and worst-case execution times,
  Starts,     \*   in ticks, that tasks ask for
  Wcets

NULL == "NULL"     \* no task

ASSUME DanielsAssumption ==
  /\ Idle \notin Tasks /\ NULL \notin Tasks \cup {Idle}
  /\ MAXEVENT \in Nat /\ TICK \in Nat \ {0} /\ QUANTUM \in Nat \ {0}
  /\ WORD \in Nat \ {0, 1}
  /\ Periods \cup Starts \cup Wcets \subseteq 0 .. WORD - 1

Events   == 1 .. MAXEVENT
Errors   == {"NONE", "USER_CALLED_OS_ABORT", "PERIODIC_TOOK_TOO_LONG",
             "SIGNAL_ON_BAD_EVENT", "WAIT_ON_BAD_EVENT", "PERIODIC_CALLED_WAIT",
             "PERIODIC_CONFLICT", "MULTIPLE_EVENTS_WAITING",
             "PERIODIC_AFTER_ROLL_OVER", "HANG"}
(* Timers are compared with wcet * TICK and looked at every tick: a value  *)
(* beyond TimerMax is as good as TimerMax.                                 *)
TimerMax == TICK * (1 + CHOOSE w \in Wcets \cup {QUANTUM} :
                            \A v \in Wcets \cup {QUANTUM} : v <= w)

VARIABLES
  cur_task,                \* the task on the processor
  state, level,            \* per descriptor
  wcet, period,            \* in ticks, per descriptor
  timer,                   \* execution timer: paused or not, and its value
  system_queue, rr_queue,  \* queues of tasks
  sleep_queue,             \* delta list of the PERIODIC tasks
  current_periodic_task,
  num_events_created,
  events_state,            \* the events signalled and not consumed
  events_waiting,          \* the task that waits for each event
  preempt_async,           \* an asynchronous signal wants a preemption
  cur_ticks, tick_overflow_flag,
  ms,                      \* milliseconds since the last tick
  inKernel,                \* the request is served, the dispatch is to come
  error_msg                \* why OS_Abort was called

tasks  == <<state, level, wcet, period>>
queues == <<system_queue, rr_queue>>
events == <<num_events_created, events_state, events_waiting>>
clock  == <<cur_ticks, tick_overflow_flag>>
vars   == <<cur_task, tasks, timer, queues, sleep_queue, current_periodic_task,
            events, preempt_async, clock, ms, inKernel, error_msg>>

Stopped == [paused |-> TRUE, value |-> 0]       \* timer_reset

Init ==
  /\ cur_task \in Tasks                         \* r_main, a SYSTEM task
  /\ state = [t \in Tasks \cup {Idle} |->
                 IF t = cur_task THEN "RUNNING" ELSE IF t = Idle THEN "READY" ELSE "DEAD"]
  /\ level = [t \in Tasks \cup {Idle} |-> IF t = cur_task THEN "SYSTEM" ELSE "NULL"]
  /\ wcet = [t \in Tasks |-> 0] /\ period = [t \in Tasks |-> 0]
  /\ timer = [t \in Tasks |-> Stopped]
  /\ system_queue = <<>> /\ rr_queue = <<>> /\ sleep_queue = <<>>
  /\ current_periodic_task = NULL
  /\ num_events_created = 0 /\ events_state = {}
  /\ events_waiting = [e \in Events |-> NULL]
  /\ preempt_async = FALSE
  /\ cur_ticks = 0 /\ tick_overflow_flag = FALSE /\ ms = 0
  /\ inKernel = FALSE /\ error_msg = "NONE"
-----------------------------------------------------------------------------
(* Helpers of the kernel. *)

Level == level[cur_task]
Timed(t) == t \in Tasks /\ level[t] \in {"PERIODIC", "RR"}

timer_pause(t) == [timer EXCEPT ![t].paused = TRUE]
timer_reset(t) == [timer EXCEPT ![t] = Stopped]

has_execution_time_elapsed(t) ==
  timer[t].value >= wcet[t] * TICK - (IF level[t] = "RR" THEN 1 ELSE 0)

InTask   == error_msg = "NONE" /\ ~inKernel
InCall   == InTask /\ cur_task # Idle           \* the idle task calls nothing
Enter    == inKernel' = TRUE /\ UNCHANGED error_msg
Abort(e) == /\ error_msg' = e
            /\ UNCHANGED <<cur_task, tasks, timer, queues, sleep_queue,
                           current_periodic_task, events, preempt_async, clock, ms, inKernel>>
-----------------------------------------------------------------------------
(* kernel_dispatch *)

(* An asynchronous signal, at any time in the past, preempts the running task. *)
AsyncPreempts == preempt_async /\ state[cur_task] = "RUNNING"

Chosen(rr) ==
  IF system_queue # <<>> THEN Head(system_queue)
  ELSE IF current_periodic_task # NULL THEN current_periodic_task
  ELSE IF rr # <<>> THEN Head(rr)
  ELSE Idle

timer_resume_RR(t, timers) ==                                           \* BUG
  IF level[t] = "RR" THEN [timers EXCEPT ![t].paused = FALSE] ELSE timers
timer_resume(t, timers) == IF Timed(t) THEN [timers EXCEPT ![t].paused = FALSE] ELSE timers

Dispatch ==
  LET rr == IF AsyncPreempts /\ Level = "RR" THEN Cons(cur_task, rr_queue) ELSE rr_queue
      t  == Chosen(rr)
  IN  /\ inKernel /\ error_msg = "NONE"
      /\ IF state[cur_task] # "RUNNING" \/ AsyncPreempts \/ cur_task = Idle
         THEN /\ cur_task' = t
              /\ state' = [state EXCEPT ![cur_task] =
                              IF @ = "RUNNING" THEN "READY" ELSE @,
                                        ![t] = "RUNNING"]
              /\ system_queue' = IF level[t] = "SYSTEM" THEN Tail(system_queue)
                                 ELSE system_queue
              /\ rr_queue' = IF level[t] = "RR" THEN Tail(rr) ELSE rr
              /\ timer' = timer_resume(t, IF AsyncPreempts /\ Timed(cur_task)
                                          THEN timer_pause(cur_task) ELSE timer)
         ELSE UNCHANGED <<cur_task, state, queues, timer>>
      /\ inKernel' = FALSE
      /\ UNCHANGED <<level, wcet, period, sleep_queue, current_periodic_task, events,
                     preempt_async, clock, ms, error_msg>>
-----------------------------------------------------------------------------
(* Time *)

(* A millisecond of the running task, not the last of a tick. *)
TimersAfterMs ==
  [t \in Tasks |-> IF ~timer[t].paused /\ timer[t].value < TimerMax
                   THEN [timer[t] EXCEPT !.value = @ + 1] ELSE timer[t]]

Millisecond ==
  /\ InTask /\ ms < TICK - 1
  /\ ms' = ms + 1
  /\ timer' = TimersAfterMs
  /\ UNCHANGED <<cur_task, tasks, queues, sleep_queue, current_periodic_task, events,
                 preempt_async, clock, inKernel, error_msg>>

(* TIMER_EXPIRED: kernel_update_ticker, then the limits of the current     *)
(* task.  All sleepers are PERIODIC.  Two that wake together conflict; so  *)
(* does one that wakes while another is still the current periodic task.   *)
WakeConflicts(due) ==
  Cardinality(due) > 1 \/ (due # {} /\ current_periodic_task # NULL)

Elapsed == TimersAfterMs[cur_task].value >=
             wcet[cur_task] * TICK - (IF Level = "RR" THEN 1 ELSE 0)

(* A round-robin task whose quantum is over goes to the back, one that is  *)
(* preempted by the PERIODIC task that wakes goes to the front.            *)
RrAfterTick_Preempted(due) ==                                           \* BUG
  IF Level = "RR" /\ due # {} THEN Cons(cur_task, rr_queue) ELSE rr_queue
RrAfterTick(due) ==
  IF Level # "RR" THEN rr_queue
  ELSE IF Elapsed THEN Append(rr_queue, cur_task)
  ELSE IF due # {} THEN Cons(cur_task, rr_queue)
  ELSE rr_queue

Tick ==
  LET ticked == TickHead(sleep_queue)
      due    == Waking(ticked)
      woken  == Head(ticked).task
      stops  == Level = "RR" /\ (Elapsed \/ due # {})
  IN  /\ InTask /\ ms = TICK - 1
      /\ IF WakeConflicts(due) THEN Abort("PERIODIC_CONFLICT")
         ELSE IF Level = "PERIODIC" /\ Elapsed THEN Abort("PERIODIC_TOOK_TOO_LONG")
         ELSE /\ ms' = 0
              /\ cur_ticks' = (cur_ticks + 1) % WORD
              /\ tick_overflow_flag' = (tick_overflow_flag \/ cur_ticks' = WORD - 1)
              /\ sleep_queue' = IF due = {} THEN ticked
                                ELSE sleep_enqueue(Tail(ticked), woken, period[woken])
              /\ current_periodic_task' = IF due = {} THEN current_periodic_task ELSE woken
              /\ state' = [t \in Tasks \cup {Idle} |->
                              IF t \in due \/ (t = cur_task /\ stops) THEN "READY"
                              ELSE state[t]]
              /\ rr_queue' = RrAfterTick(due)
              /\ timer' = IF ~stops THEN TimersAfterMs
                          ELSE IF Elapsed THEN [TimersAfterMs EXCEPT ![cur_task] = Stopped]
                          ELSE [TimersAfterMs EXCEPT ![cur_task].paused = TRUE]
              /\ Enter
              /\ UNCHANGED <<cur_task, level, wcet, period, system_queue, events,
                             preempt_async>>
-----------------------------------------------------------------------------
(* Task_Create and kernel_create_task *)

Dead == {t \in Tasks : state[t] = "DEAD"}      \* the dead pool

(* Does the creator stop?  A SYSTEM task preempts the others, a PERIODIC   *)
(* one, even if it is to start later, preempts a round-robin task.         *)
CreatorStops_System(lev) == lev = "SYSTEM" /\ Level # "SYSTEM"          \* BUG
CreatorStops(lev) == (lev = "SYSTEM" /\ Level # "SYSTEM") \/ (lev = "PERIODIC" /\ Level = "RR")

(* The descriptor that is filled in; tasks of a level other than PERIODIC  *)
(* have no period.                                                         *)
Fill(p, lev, w, per) ==
  /\ state' = [state EXCEPT ![p] = "READY", ![cur_task] = IF CreatorStops(lev) THEN "READY" ELSE @]
  /\ level' = [level EXCEPT ![p] = lev]
  /\ wcet' = [wcet EXCEPT ![p] = w]
  /\ period' = [period EXCEPT ![p] = per]
  /\ timer' = timer_reset(p)
  /\ Enter
  /\ UNCHANGED <<cur_task, events, preempt_async, clock, ms>>

(* The creator goes to the front of its queue, after the new task, if it   *)
(* is a round-robin task, went to the back.                                *)
RrAfterCreate(q, lev) == IF CreatorStops(lev) /\ Level = "RR" THEN Cons(cur_task, q) ELSE q

CreateFails == /\ Dead = {}
               /\ Enter
               /\ UNCHANGED <<cur_task, tasks, timer, queues, sleep_queue,
                              current_periodic_task, events, preempt_async, clock, ms>>

Task_Create_System ==
  /\ InCall
  /\ \/ CreateFails
     \/ \E p \in Dead : /\ Fill(p, "SYSTEM", 0, 0)
                        /\ system_queue' = Append(system_queue, p)
                        /\ rr_queue' = RrAfterCreate(rr_queue, "SYSTEM")
                        /\ UNCHANGED <<sleep_queue, current_periodic_task>>

Task_Create_RR ==
  /\ InCall
  /\ \/ CreateFails
     \/ \E p \in Dead : /\ Fill(p, "RR", QUANTUM, 0)
                        /\ rr_queue' = Append(rr_queue, p)
                        /\ UNCHANGED <<system_queue, sleep_queue, current_periodic_task>>

(* A start in the past is advanced period by period, modulo WORD, until it *)
(* is not before cur_ticks any more; it may step over the few values left. *)
StartsTried(start, per) == [k \in 0 .. WORD - 1 |-> (start + k * per) % WORD]
Reached_After(start, per) ==                                            \* BUG
  {k \in 0 .. WORD - 1 : StartsTried(start, per)[k] > cur_ticks}
Reached(start, per) == {k \in 0 .. WORD - 1 : StartsTried(start, per)[k] >= cur_ticks}
FirstStart(start, per) ==
  StartsTried(start, per)[CHOOSE k \in Reached(start, per) :
                             \A j \in Reached(start, per) : k <= j]

Task_Create_Period ==
  /\ InCall
  /\ \E start \in Starts, per \in Periods, w \in Wcets :
       LET offset == FirstStart(start, per) - cur_ticks
       IN  IF per = 0 THEN Abort("PERIODIC_CONFLICT")
           ELSE IF Reached(start, per) = {} THEN Abort("HANG")
           ELSE IF Dead = {} THEN CreateFails
           ELSE IF tick_overflow_flag THEN Abort("PERIODIC_AFTER_ROLL_OVER")
           ELSE IF offset = 0 /\ current_periodic_task # NULL THEN Abort("PERIODIC_CONFLICT")
           ELSE \E p \in Dead :
                  /\ Fill(p, "PERIODIC", w, per)
                  /\ sleep_queue' = sleep_enqueue(sleep_queue, p, IF offset = 0 THEN per ELSE offset)
                  /\ current_periodic_task' = IF offset = 0 THEN p ELSE current_periodic_task
                  /\ rr_queue' = RrAfterCreate(rr_queue, "PERIODIC")
                  /\ UNCHANGED system_queue
-----------------------------------------------------------------------------
(* Task_Terminate, Task_Next, OS_Abort *)

Task_Terminate ==
  /\ InCall
  /\ state' = [state EXCEPT ![cur_task] = "DEAD"]
  /\ level' = [level EXCEPT ![cur_task] = "NULL"]
  /\ wcet' = [wcet EXCEPT ![cur_task] = 0]
  /\ period' = [period EXCEPT ![cur_task] = 0]
  /\ timer' = timer_reset(cur_task)
  /\ sleep_queue' = remove_from_sleep_queue(sleep_queue, cur_task)
  /\ current_periodic_task' = IF Level = "PERIODIC" THEN NULL ELSE current_periodic_task
  /\ Enter
  /\ UNCHANGED <<cur_task, queues, events, preempt_async, clock, ms>>

Task_Next ==
  /\ InCall
  /\ IF Level = "PERIODIC" /\ has_execution_time_elapsed(cur_task)
     THEN Abort("PERIODIC_TOOK_TOO_LONG")
     ELSE /\ system_queue' = IF Level = "SYSTEM" THEN Append(system_queue, cur_task)
                             ELSE system_queue
          /\ rr_queue' = IF Level = "RR" THEN Append(rr_queue, cur_task) ELSE rr_queue
          /\ current_periodic_task' = IF Level = "PERIODIC" THEN NULL
                                      ELSE current_periodic_task
          /\ timer' = timer_reset(cur_task)
          /\ state' = [state EXCEPT ![cur_task] = "READY"]
          /\ Enter
          /\ UNCHANGED <<cur_task, level, wcet, period, sleep_queue, events,
                         preempt_async, clock, ms>>

OS_Abort == InCall /\ Abort("USER_CALLED_OS_ABORT")
-----------------------------------------------------------------------------
(* Events.  A handle beyond the events created so far is a bad one. *)

Event_Init ==
  /\ InCall
  /\ num_events_created' = IF num_events_created < MAXEVENT THEN num_events_created + 1
                           ELSE num_events_created
  /\ Enter
  /\ UNCHANGED <<cur_task, tasks, timer, queues, sleep_queue, current_periodic_task,
                 events_state, events_waiting, preempt_async, clock, ms>>

Event_Clear(e) ==
  /\ InCall
  /\ events_state' = events_state \ {e}
  /\ Enter
  /\ UNCHANGED <<cur_task, tasks, timer, queues, sleep_queue, current_periodic_task,
                 num_events_created, events_waiting, preempt_async, clock, ms>>

(* kernel_event_wait, with the signals that are set. *)
kernel_event_wait(e, signalled) ==
  IF e > num_events_created THEN Abort("WAIT_ON_BAD_EVENT")
  ELSE IF Level = "PERIODIC" THEN Abort("PERIODIC_CALLED_WAIT")
  ELSE IF e \notin signalled /\ events_waiting[e] # NULL THEN Abort("MULTIPLE_EVENTS_WAITING")
  ELSE /\ events_state' = signalled \ {e}
       /\ IF e \in signalled
          THEN UNCHANGED <<state, events_waiting>>
          ELSE /\ state' = [state EXCEPT ![cur_task] = "WAITING"]
               /\ events_waiting' = [events_waiting EXCEPT ![e] = cur_task]
       /\ Enter
       /\ UNCHANGED <<cur_task, level, wcet, period, timer, queues, sleep_queue,
                      current_periodic_task, num_events_created, preempt_async, clock, ms>>

Event_Wait(e)      == InCall /\ kernel_event_wait(e, events_state)
Event_Wait_Next(e) == InCall /\ kernel_event_wait(e, events_state \ {e})

(* The queues once the waiting task is back in its queue. *)
SystemWith(t) == IF level[t] = "SYSTEM" THEN Append(system_queue, t) ELSE system_queue
RrWith(t)     == IF level[t] = "SYSTEM" THEN rr_queue ELSE Append(rr_queue, t)

Record(e) == /\ events_state' = events_state \cup {e}
             /\ UNCHANGED <<cur_task, tasks, timer, queues, sleep_queue,
                            current_periodic_task, num_events_created, events_waiting,
                            preempt_async, clock, ms>>

(* A signal from a task: a SYSTEM task goes on, any other is put back.     *)
SignallerStops == Level # "SYSTEM"

Event_Signal(e) ==
  LET t == events_waiting[e]
  IN  /\ InCall
      /\ IF e > num_events_created THEN Abort("SIGNAL_ON_BAD_EVENT")
         ELSE /\ Enter
              /\ IF t = NULL THEN Record(e)
                 ELSE /\ events_waiting' = [events_waiting EXCEPT ![e] = NULL]
                      /\ state' = [state EXCEPT ![t] = "READY",
                                     ![cur_task] = IF SignallerStops THEN "READY" ELSE @]
                      /\ system_queue' = SystemWith(t)
                      /\ rr_queue' = IF SignallerStops /\ Level = "RR"
                                     THEN Cons(cur_task, RrWith(t)) ELSE RrWith(t)
                      /\ timer' = IF SignallerStops THEN timer_pause(cur_task) ELSE timer
                      /\ UNCHANGED <<cur_task, level, wcet, period, sleep_queue,
                                     current_periodic_task, num_events_created,
                                     events_state, preempt_async, clock, ms>>

(* A signal from an interrupt handler, or from a task that does not want   *)
(* to be preempted at once: the kernel is left without a dispatch.         *)
Event_Async_Signal(e) ==
  LET t == events_waiting[e]
  IN  /\ InTask
      /\ IF e > num_events_created THEN Abort("SIGNAL_ON_BAD_EVENT")
         ELSE /\ UNCHANGED <<inKernel, error_msg>>
              /\ IF t = NULL THEN Record(e)
                 ELSE /\ events_waiting' = [events_waiting EXCEPT ![e] = NULL]
                      /\ state' = [state EXCEPT ![t] = "READY"]
                      /\ system_queue' = SystemWith(t)
                      /\ rr_queue' = RrWith(t)
                      /\ preempt_async' = (preempt_async \/ Level # "SYSTEM")
                      /\ UNCHANGED <<cur_task, level, wcet, period, timer, sleep_queue,
                                     current_periodic_task, num_events_created,
                                     events_state, clock, ms>>
-----------------------------------------------------------------------------
(* OS_Abort flashes a light for ever. *)
Aborted == error_msg # "NONE" /\ UNCHANGED vars

Create == Task_Create_System \/ Task_Create_RR \/ Task_Create_Period
Call(e) == Event_Clear(e) \/ Event_Wait(e) \/ Event_Wait_Next(e) \/ Event_Signal(e)

Next ==
  \/ Dispatch \/ Millisecond \/ Tick
  \/ Create \/ Task_Terminate \/ Task_Next \/ OS_Abort
  \/ Event_Init \/ (\E e \in Events : Call(e) \/ Event_Async_Signal(e))
  \/ Aborted

Spec == Init /\ [][Next]_vars
-----------------------------------------------------------------------------
Located == Tasks \cup {NULL}

TypeOK ==
  /\ cur_task \in Tasks \cup {Idle}
  /\ state \in [Tasks \cup {Idle} -> {"DEAD", "RUNNING", "READY", "WAITING"}]
  /\ level \in [Tasks \cup {Idle} -> {"NULL", "SYSTEM", "PERIODIC", "RR"}]
  /\ wcet \in [Tasks -> {0, QUANTUM} \cup Wcets] /\ period \in [Tasks -> {0} \cup Periods]
  /\ timer \in [Tasks -> [paused : BOOLEAN, value : 0 .. TimerMax]]
  /\ system_queue \in Seq(Tasks) /\ rr_queue \in Seq(Tasks)
  /\ sleep_queue \in Seq([task : Tasks, diff : 0 .. WORD - 1])
  /\ current_periodic_task \in Located
  /\ num_events_created \in 0 .. MAXEVENT /\ events_state \subseteq Events
  /\ events_waiting \in [Events -> Located]
  /\ preempt_async \in BOOLEAN /\ tick_overflow_flag \in BOOLEAN /\ inKernel \in BOOLEAN
  /\ cur_ticks \in 0 .. WORD - 1 /\ ms \in 0 .. TICK - 1
  /\ error_msg \in Errors

(* Every variable is of its type, and                                      *)
(* every task is where the kernel will look for it: a READY round-robin    *)
(* task once in its queue, a waiting task at exactly one event, a PERIODIC *)
(* one once in the sleep queue, released or not.  A READY SYSTEM task is   *)
(* in its queue as long as no asynchronous signal has set preempt_async    *)
(* (see SystemTasksKept).                                                  *)
Times(t, q) == Cardinality({i \in DOMAIN q : q[i] = t})
Names(q)    == [i \in DOMAIN q |-> q[i].task]
Sleepers    == Names(sleep_queue)

TasksAccounted ==
  /\ TypeOK
  /\ \A t \in Tasks :
       /\ Times(t, rr_queue) = IF level[t] = "RR" /\ state[t] = "READY" THEN 1 ELSE 0
       /\ Times(t, system_queue) <= IF level[t] = "SYSTEM" /\ state[t] = "READY" THEN 1 ELSE 0
       /\ ~preempt_async /\ level[t] = "SYSTEM" /\ state[t] = "READY" => Times(t, system_queue) = 1
       /\ Times(t, Sleepers) = IF level[t] = "PERIODIC" THEN 1 ELSE 0
       /\ state[t] = "WAITING" <=> t \in {events_waiting[e] : e \in Events}
       /\ state[t] = "RUNNING" => t = cur_task

(* The kernel's own comments, kernel.c:612 "async preempts on next         *)
(* dispatch only. Clear the flag during the next dispatch if set." and     *)
(* kernel.c:620 "System tasks never get preempted": a SYSTEM task that is  *)
(* READY is in its queue.  preempt_async is never cleared, so every later  *)
(* dispatch takes the processor from a SYSTEM task and puts it nowhere.    *)
SystemTasksKept ==
  \A t \in Tasks : level[t] = "SYSTEM" /\ state[t] = "READY" => Times(t, system_queue) = 1

(* The timer of a PERIODIC or round-robin task runs while the task does,   *)
(* however it came to the processor: its limit is measured on all of it.   *)
RunningIsTimed == InTask /\ Timed(cur_task) => ~timer[cur_task].paused

(* A dispatch leaves no more urgent task waiting, whatever request it      *)
(* follows: the requests made before it have put back whom they preempt.   *)
MostUrgent ==
  /\ Level # "SYSTEM" => system_queue = <<>>
  /\ Level \in {"RR", "NULL"} => current_periodic_task = NULL
  /\ Level = "PERIODIC" => cur_task = current_periodic_task
  /\ Level = "NULL" => rr_queue = <<>>
DispatchesMostUrgent == [][inKernel /\ ~inKernel' => MostUrgent']_vars

(* The delta list implements a countdown per PERIODIC task, and releases   *)
(* are what those countdowns say: each tick takes one from every one of    *)
(* them, a task becomes the current one when its own start or period has   *)
(* passed and at no other tick, and it counts the period it asked for      *)
(* again, whatever other tasks are inserted, woken or removed around it.   *)
Asleep == 0
Countdown(q) ==
  [t \in Tasks |-> IF t \notin Range(Names(q)) THEN Asleep
                   ELSE TicksTo(q, CHOOSE i \in DOMAIN q : q[i].task = t)]
Cycles == [t \in Tasks |-> IF level[t] = "PERIODIC" THEN period[t] ELSE 0]
Timers == INSTANCE SleepTimers WITH
            None      <- NULL,
            now       <- cur_ticks,
            countdown <- Countdown(sleep_queue),
            period    <- Cycles,
            released  <- current_periodic_task,
            halted    <- error_msg # "NONE"
SleepersOnTime == Timers!Spec

-----------------------------------------------------------------------------
(* The inductive invariant.  Between a request and its dispatch the task   *)
(* on the processor need not be RUNNING, so what holds of a running task   *)
(* is said of one whose state is RUNNING.                                  *)

Ready(lev) == {t \in Tasks : level[t] = lev /\ state[t] = "READY"}

DescriptorsKept ==
  /\ level[Idle] = "NULL" /\ state[Idle] = IF cur_task = Idle THEN "RUNNING" ELSE "READY"
  /\ \A t \in Tasks : state[t] = "DEAD" <=> level[t] = "NULL"
  /\ \A t \in Tasks : state[t] = "RUNNING" => t = cur_task
  /\ ~inKernel => state[cur_task] = "RUNNING"

QueuesKept ==
  /\ Holds(rr_queue, Ready("RR"))
  /\ IsInjective(system_queue) /\ Range(system_queue) \subseteq Ready("SYSTEM")
  /\ ~preempt_async => Range(system_queue) = Ready("SYSTEM")

(* No task is in the delta list twice, and each wakes in the future. *)
Entries == [task : Tasks, diff : Nat]
DeltaList(q) ==
  /\ q \in Seq(Entries) /\ IsInjective(Names(q))
  /\ \A i \in 1 .. Len(q) : TicksTo(q, i) \in 1 .. WORD - 1

SleepersKept ==
  /\ DeltaList(sleep_queue)
  /\ Range(Sleepers) = {t \in Tasks : level[t] = "PERIODIC"}
  /\ \A t \in Tasks : level[t] = "PERIODIC" => period[t] # 0

WaitersKept ==
  /\ \A t \in Tasks : state[t] = "WAITING" <=> \E e \in Events : events_waiting[e] = t
  /\ \A t \in Tasks : state[t] = "WAITING" => level[t] \in {"SYSTEM", "RR"}
  /\ \A e, f \in Events : events_waiting[e] = events_waiting[f] /\ e # f => events_waiting[e] = NULL

ReleasedKept ==
  /\ current_periodic_task # NULL => level[current_periodic_task] = "PERIODIC"
  /\ state[cur_task] = "RUNNING" /\ Level = "PERIODIC" => cur_task = current_periodic_task

TimersKept  == state[cur_task] = "RUNNING" /\ Timed(cur_task) => ~timer[cur_task].paused
UrgencyKept == state[cur_task] = "RUNNING" /\ ~preempt_async /\ cur_task # Idle => MostUrgent

IInv ==
  /\ TypeOK /\ DescriptorsKept /\ QueuesKept /\ SleepersKept /\ WaitersKept
  /\ ReleasedKept /\ TimersKept /\ UrgencyKept
-----------------------------------------------------------------------------
(* The descriptors are alike. *)
Alike == Permutations(Tasks)
=============================================================================
