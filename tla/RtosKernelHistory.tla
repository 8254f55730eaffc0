-------------------------- MODULE RtosKernelHistory --------------------------
(***************************************************************************)
(* RtosKernel with three variables that observe it: what was published on  *)
(* a service while a task was inside Service_Subscribe, how many ticks a   *)
(* periodic task has executed since its last release, and how many ticks   *)
(* have passed since the start it was created with.                        *)
(***************************************************************************)
EXTENDS RtosKernel

VARIABLES
  heard,   \* per task: <<>>, or the first and the last value published since
           \* it subscribed (one element when they are the same publication)
  ran,     \* per task: timer ticks that found it executing in this release
  age      \* per periodic task: timer ticks since its start, modulo its period
           \* (before the start, minus the ticks that are left)

hvars == <<vars, heard, ran, age>>

HInit ==
  /\ Init
  /\ heard = [t \in Tasks |-> <<>>]
  /\ ran = [t \in Tasks |-> 0]
  /\ age = [t \in Tasks |-> 0]

Ticked == ticks_since_boot' # ticks_since_boot

Hear(h, v) ==
  heard' = [t \in Tasks |->
              IF error_msg' = "NONE" /\ (resuming[t] = h \/ t \in Range(service_queue[h]))
              THEN IF heard[t] = <<>> THEN <<v>> ELSE <<heard[t][1], v>>
              ELSE heard[t]]

\* The values heard are forgotten when Service_Subscribe returns.
Forget ==
  heard' = [t \in Tasks |-> IF cur_task' = t THEN <<>> ELSE heard[t]]

\* A release makes task t ready, or puts it on the processor at once.
Activated(t) ==
  /\ t \in Range(periodic_queue') \cup {cur_task'}
  /\ t \notin Range(periodic_queue) \cup {cur_task}

Count ==
  ran' = [t \in Tasks |->
            IF t \notin Periodics' \/ Activated(t) THEN 0
            ELSE IF Ticked /\ cur_task = t /\ level[t] = "PERIODIC" THEN ran[t] + 1
            ELSE ran[t]]

\* Every tick makes the periodic tasks a tick older, whatever they are doing.
Grow ==
  age' = [t \in Tasks |->
            IF t \notin Periodics' THEN 0
            ELSE IF ~Ticked THEN age[t]
            ELSE IF age[t] + 1 = period[t] THEN 0 ELSE age[t] + 1]

\* A task was created with the start st, now or to come.
Begin(st) ==
  age' = [t \in Tasks |->
            IF t \in Periodics' \ Periodics THEN ticks_since_boot - st ELSE age[t]]

HNext ==
  \/ OtherStep /\ Forget /\ Count /\ Grow
  \/ \E per \in PeriodArgs, wc \in WcetArgs, st \in Word :
       Task_Create_Periodic(per, wc, st) /\ Forget /\ Count /\ Begin(st)
  \/ \E h \in Handles, v \in Values :
       Service_Publish(h, v) /\ Hear(h, v) /\ UNCHANGED <<ran, age>>

HSpec == HInit /\ [][HNext]_hvars

\* For TLC's VIEW: the part of the state that later steps read.
Live == IF error_msg # "NONE" THEN Read ELSE <<Read, heard, ran, age>>

-----------------------------------------------------------------------------

\* Task t returns from Service_Subscribe.
Returns(t) == resuming[t] # NoService /\ resuming'[t] = NoService

\* The value a subscriber obtains is the one published last on its service, and
\* it was published after the task subscribed (test018: subscribers "only
\* receive the latest published value").
DeliveredIsLatest ==
  [][\A t \in Tasks : Returns(t) =>
       heard[t] # <<>> /\ received'[t] = Last(heard[t])]_hvars

\* A periodic task executes for fewer ticks than its WCET in each release: the
\* tick that would complete the WCET aborts, however often it was preempted.
OverrunCaught ==
  \A t \in Periodics : ran[t] < wcet[t]

\* A periodic task is released at the start it asked for and every period ticks
\* after it, and at no other tick, while it lives: whatever preempts or delays
\* it, and whichever period it has when the tick counter wraps.
PhaseKept ==
  [][\A t \in Periodics' :
       Activated(t) <=> (Ticked \/ t \notin Periodics) /\ age'[t] = 0]_hvars

-----------------------------------------------------------------------------
(* The inductive invariant behind the theorems of RtosKernelProofs.        *)

Heard == {<<>>} \cup {<<u>> : u \in Values} \cup {<<u, v>> : u, v \in Values}

\* The value published last on service h is the last that task t has heard.
UpToDate(t, h) == heard[t] # <<>> /\ Last(heard[t]) = service_data[h]

\* A woken subscriber is up to date until it runs, in the queue of no service;
\* so is one that the loop of kernel_service_publish has still to wake.
HeardInv ==
  /\ heard \in [Tasks -> Heard]
  /\ \A t \in Tasks : resuming[t] # NoService =>
       /\ t # cur_task
       /\ \A s \in Services : t \notin Range(service_queue[s])
       /\ UpToDate(t, resuming[t])
  /\ publishing # NoService =>
       \A t \in Range(service_queue[publishing]) : UpToDate(t, publishing)

\* The kernel's count-down and the ticks executed add up to the WCET.
RanInv ==
  \A t \in Tasks : /\ ran[t] \in Nat
                   /\ t \in Periodics => ran[t] + wcet_counter[t] = wcet[t]
                   /\ t \notin Periodics => ran[t] = 0

\* The count-down to the next release is what is missing to the start, or then
\* to the end of the period.
AgeInv ==
  /\ age \in [Tasks -> Int]
  /\ \A t \in Periodics :
       /\ age[t] < period[t]
       /\ counter[t] = (IF age[t] < 0 THEN 0 ELSE period[t]) - age[t]

HInv == IInv /\ HeardInv /\ RanInv /\ AgeInv

=============================================================================
