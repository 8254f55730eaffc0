----------------------------- MODULE PppKernel ------------------------------
(***************************************************************************)
(* The first kernel of Project 2 (Project2/rtos/os.cpp).  Its PERIODIC     *)
(* tasks are scheduled by a table: PPP is a cycle of PT time slots, each   *)
(* with a name, or IDLE, and a number of ticks, and the PERIODIC task of   *)
(* that name runs once in the slot.  SYSTEM tasks come before it, round-   *)
(* robin (RR) tasks use what is left.                                      *)
(*                                                                         *)
(* A pass through kernel_main_loop is two steps, both with interrupts      *)
(* disabled: a system call or a tick is served by kernel_handle_request,   *)
(* then kernel_dispatch runs and the kernel is left.  An operator marked   *)
(* BUG is a variant of the one that follows it, used to check that a       *)
(* property rules it out.                                                  *)
(***************************************************************************)
EXTENDS Integers, SequencesExt

CONSTANTS
  MAXPROCESS,   \* number of task descriptors, and the greatest name (MAXNAME)
  BYTE,         \* ticks_remaining is a uint8_t: arithmetic modulo BYTE
  Tables        \* the PPP arrays of applications: sequences of [name, ticks]

Tasks == 1 .. MAXPROCESS     \* task_desc[0 .. MAXPROCESS-1]
Idle  == MAXPROCESS + 1      \* idle_task, the descriptor at the end
NULL  == 0                   \* no task
IDLE  == 0                   \* the name of a slot left to RR tasks
Names == 1 .. MAXPROCESS

PppAssumption ==
  /\ MAXPROCESS \in Nat \ {0} /\ BYTE \in Nat \ {0, 1}
  /\ \A table \in Tables :
       /\ table \in Seq([name : Nat, ticks : Nat])
       /\ \A i \in DOMAIN table : table[i].ticks < BYTE

VARIABLES
  PPP,                  \* the table of this application
  cur_task,
  state, level, name,   \* per descriptor
  dead_pool_queue, system_queue, rr_queue,
  name_to_task_ptr,     \* the PERIODIC task of each name
  slot,                 \* slot_name_index/2 + 1
  ticks_remaining, slot_task_finished,
  inKernel,             \* the request is served, the dispatch is to come
  error_msg,            \* why OS_Abort was called
  elapsed               \* ticks since boot, modulo the cycle; observes only

tasks  == <<state, level, name, name_to_task_ptr>>
queues == <<dead_pool_queue, system_queue, rr_queue>>
slots  == <<slot, ticks_remaining, slot_task_finished>>
vars   == <<PPP, cur_task, tasks, queues, slots, inKernel, error_msg, elapsed>>

PT == Len(PPP)

\* A slot of 0 ticks lasts as long as the counter takes to come back to 0.
Duration(s) == IF PPP[s].ticks = 0 THEN BYTE ELSE PPP[s].ticks
StartOf(s)  ==
  LET end[i \in 0 .. PT] == IF i = 0 THEN 0 ELSE end[i - 1] + Duration(i)
  IN  end[s - 1]
Cycle       == StartOf(PT + 1)

\* OS_Init: check_PPP_names, then r_main is the first task.
Init ==
  /\ PPP \in Tables
  /\ cur_task = 1
  /\ state = [t \in Tasks \cup {Idle} |->
                 IF t = 1 THEN "RUNNING" ELSE IF t = Idle THEN "READY" ELSE "DEAD"]
  /\ level = [t \in Tasks \cup {Idle} |-> IF t = 1 THEN "SYSTEM" ELSE "NULL"]
  /\ name = [t \in Tasks |-> IDLE]
  /\ dead_pool_queue = [i \in 1 .. MAXPROCESS - 1 |-> i + 1]
  /\ system_queue = <<>> /\ rr_queue = <<>>
  /\ name_to_task_ptr = [n \in {IDLE} \cup Names |-> NULL]
  /\ slot = 1
  /\ ticks_remaining = IF PT > 0 THEN PPP[1].ticks ELSE 0
  /\ slot_task_finished = FALSE
  /\ inKernel = FALSE
  /\ error_msg = IF \E i \in 1 .. PT : PPP[i].name \notin {IDLE} \cup Names
                 THEN "PPP_NAME_OUT_OF_RANGE" ELSE "NONE"
  /\ elapsed = 0

Level    == level[cur_task]
InTask   == error_msg = "NONE" /\ ~inKernel
InCall   == InTask /\ cur_task # Idle     \* the idle task calls nothing
Enter    == inKernel' = TRUE /\ UNCHANGED <<PPP, error_msg>>
Abort(e) ==
  error_msg' = e /\ UNCHANGED <<PPP, cur_task, tasks, queues, slots, inKernel, elapsed>>
-----------------------------------------------------------------------------
(* kernel_dispatch *)

SlotTask == IF PT > 0 THEN name_to_task_ptr[PPP[slot].name] ELSE NULL

SlotTaskDue_Always == SlotTask # NULL                      \* BUG
SlotTaskDue == ~slot_task_finished /\ SlotTask # NULL

Chosen ==
  IF system_queue # <<>> THEN Head(system_queue)
  ELSE IF SlotTaskDue THEN SlotTask
  ELSE IF rr_queue # <<>> THEN Head(rr_queue)
  ELSE Idle

\* A task still RUNNING runs on.
Dispatch ==
  /\ inKernel /\ error_msg = "NONE"
  /\ IF state[cur_task] = "RUNNING" /\ cur_task # Idle
     THEN UNCHANGED <<cur_task, state, system_queue, rr_queue>>
     ELSE /\ cur_task' = Chosen
          /\ state' = [state EXCEPT ![Chosen] = "RUNNING"]
          /\ system_queue' = IF level[Chosen] = "SYSTEM" THEN Tail(system_queue)
                             ELSE system_queue
          /\ rr_queue' = IF level[Chosen] = "RR" THEN Tail(rr_queue) ELSE rr_queue
  /\ inKernel' = FALSE
  /\ UNCHANGED <<PPP, level, name, name_to_task_ptr, dead_pool_queue, slots, error_msg,
                 elapsed>>
-----------------------------------------------------------------------------
(* TIMER_EXPIRED: kernel_update_ticker, then RR tasks give way. *)

Left      == (ticks_remaining - 1) % BYTE
SlotEnds  == PT > 0 /\ Left = 0
NextSlot  == (slot % PT) + 1

TicksOfSlot_Kept(s) == Left                                \* BUG: not reloaded
TicksOfSlot(s) == PPP[s].ticks

RrAfterTick_Running == rr_queue                            \* BUG: runs on as READY
RrAfterTick == IF Level = "RR" THEN Append(rr_queue, cur_task) ELSE rr_queue

Tick ==
  /\ InTask
  /\ IF SlotEnds /\ Level = "PERIODIC" /\ ~slot_task_finished
     THEN Abort("PERIODIC_TOOK_TOO_LONG")
     ELSE /\ IF SlotEnds
             THEN /\ slot' = NextSlot
                  /\ ticks_remaining' = TicksOfSlot(NextSlot)
                  /\ slot_task_finished' =
                        (name_to_task_ptr[PPP[NextSlot].name] = NULL)
             ELSE /\ ticks_remaining' = IF PT > 0 THEN Left ELSE ticks_remaining
                  /\ UNCHANGED <<slot, slot_task_finished>>
          /\ state' = [state EXCEPT ![cur_task] = IF Level = "RR" THEN "READY" ELSE @]
          /\ rr_queue' = RrAfterTick
          /\ elapsed' = IF PT > 0 THEN (elapsed + 1) % Cycle ELSE 0
          /\ Enter
          /\ UNCHANGED <<cur_task, level, name, name_to_task_ptr, dead_pool_queue,
                         system_queue>>
-----------------------------------------------------------------------------
(* The system calls of tasks. *)

\* The creator stops for a SYSTEM task, and an RR creator for the PERIODIC task
\* of the current slot, whether or not the slot is still open for it.
CreatorStops_PERIODIC(l, n) == l = "SYSTEM" /\ Level # "SYSTEM"   \* BUG
CreatorStops(l, n) ==
  \/ l = "SYSTEM" /\ Level # "SYSTEM"
  \/ l = "PERIODIC" /\ Level = "RR" /\ PT > 0 /\ PPP[slot].name = n

\* kernel_create_task and the rest of the TASK_CREATE request.
Create(l, n) ==
  LET t      == Head(dead_pool_queue)
      ready  == IF l = "RR" THEN Append(rr_queue, t) ELSE rr_queue
  IN  /\ state' = [state EXCEPT ![t] = "READY",
                                ![cur_task] = IF CreatorStops(l, n) THEN "READY" ELSE @]
      /\ level' = [level EXCEPT ![t] = l]
      /\ name' = [name EXCEPT ![t] = n]
      /\ dead_pool_queue' = Tail(dead_pool_queue)
      /\ name_to_task_ptr' =
            IF l = "PERIODIC" THEN [name_to_task_ptr EXCEPT ![n] = t] ELSE name_to_task_ptr
      /\ system_queue' = IF l = "SYSTEM" THEN Append(system_queue, t) ELSE system_queue
      /\ rr_queue' = IF CreatorStops(l, n) /\ Level = "RR" THEN Append(ready, cur_task)
                     ELSE ready
      /\ Enter
      /\ UNCHANGED <<cur_task, slots, elapsed>>

\* Without a free descriptor the call returns 0; a bad name aborts.
Task_Create(l, n) ==
  /\ InCall
  /\ IF dead_pool_queue = <<>>
     THEN Enter /\ UNCHANGED <<cur_task, tasks, queues, slots, elapsed>>
     ELSE IF l = "PERIODIC" /\ n \notin Names THEN Abort("CREATE_NAME_OUT_OF_RANGE")
     ELSE IF l = "PERIODIC" /\ \A i \in 1 .. PT : PPP[i].name # n THEN Abort("NAME_NOT_IN_PPP")
     ELSE IF l = "PERIODIC" /\ name_to_task_ptr[n] # NULL THEN Abort("PERIODIC_NAME_IN_USE")
     ELSE Create(l, n)

Task_Next ==
  /\ InCall
  /\ state' = [state EXCEPT ![cur_task] = "READY"]
  /\ system_queue' = IF Level = "SYSTEM" THEN Append(system_queue, cur_task)
                     ELSE system_queue
  /\ rr_queue' = IF Level = "RR" THEN Append(rr_queue, cur_task) ELSE rr_queue
  /\ slot_task_finished' = (slot_task_finished \/ Level = "PERIODIC")
  /\ Enter
  /\ UNCHANGED <<cur_task, level, name, name_to_task_ptr, dead_pool_queue, slot,
                 ticks_remaining, elapsed>>

PointersWithout(t) == IF level[t] = "PERIODIC"
                      THEN [name_to_task_ptr EXCEPT ![name[t]] = NULL]
                      ELSE name_to_task_ptr

\* kernel_terminate_task; the data of a DEAD descriptor are never read.
Task_Terminate ==
  /\ InCall
  /\ state' = [state EXCEPT ![cur_task] = "DEAD"]
  /\ level' = [level EXCEPT ![cur_task] = "NULL"]
  /\ name' = [name EXCEPT ![cur_task] = IDLE]
  /\ name_to_task_ptr' = PointersWithout(cur_task)
  /\ dead_pool_queue' = Append(dead_pool_queue, cur_task)
  /\ Enter
  /\ UNCHANGED <<cur_task, system_queue, rr_queue, slots, elapsed>>

OS_Abort == InCall /\ Abort("USER_CALLED_OS_ABORT")

\* OS_Abort flashes its message for ever, interrupts disabled.
Aborted == error_msg # "NONE" /\ UNCHANGED vars

Next ==
  \/ Dispatch \/ Tick
  \/ \E l \in {"SYSTEM", "RR"} : Task_Create(l, IDLE)
  \/ \E n \in 0 .. MAXPROCESS + 1 : Task_Create("PERIODIC", n)
  \/ Task_Next \/ Task_Terminate \/ OS_Abort \/ Aborted

Spec == Init /\ [][Next]_vars

-----------------------------------------------------------------------------

\* Every descriptor is in one place: running, in the dead pool, in one queue
\* once, or, a PERIODIC task, under its name.  A name stands for a live task.
TasksAccounted ==
  LET queued == dead_pool_queue \o system_queue \o rr_queue
      named  == {n \in Names : name_to_task_ptr[n] # NULL}
  IN  /\ IsInjective(queued)
      /\ \A t \in Tasks :
           /\ (state[t] = "DEAD") = (t \in ToSet(dead_pool_queue))
           /\ level[t] = "PERIODIC" =>
                name_to_task_ptr[name[t]] = t /\ t \notin ToSet(queued)
           /\ level[t] \in {"SYSTEM", "RR"} =>
                (t \in ToSet(queued)) = (t # cur_task \/ state[t] # "RUNNING")
      /\ \A n \in named : LET t == name_to_task_ptr[n]
                          IN  level[t] = "PERIODIC" /\ name[t] = n

\* A PERIODIC task runs in a slot of its name only, and not again once it has
\* finished there, whatever it and the others created, ended and preempted.
RunsInOwnSlot ==
  InTask /\ Level = "PERIODIC" => PPP[slot].name = name[cur_task] /\ ~slot_task_finished

\* No task runs while a more urgent one could: SYSTEM, then the PERIODIC task
\* of the slot, then RR.  The kernel only reconsiders when the running task has
\* stopped, so each event that readies a task must have stopped it.
RunsMostUrgent ==
  InTask => /\ Level # "SYSTEM" => system_queue = <<>>
            /\ Level \notin {"SYSTEM", "PERIODIC"} => ~SlotTaskDue
            /\ cur_task = Idle => rr_queue = <<>>

\* The slot and the ticks left of it are always those of the timetable: no
\* call, no preemption and no 0 in the table delays or skips a slot.
TimetableKept ==
  error_msg = "NONE" /\ PT > 0 =>
    elapsed = StartOf(slot) + Duration(slot)
                - (IF ticks_remaining = 0 THEN BYTE ELSE ticks_remaining)

=============================================================================
