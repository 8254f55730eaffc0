----------------------------- MODULE Scheduler ------------------------------
(***************************************************************************)
(* The cooperative scheduler of the Arduino sketches                       *)
(* (scheduler/scheduler.cpp) in the loop of "Project 1": setup starts the  *)
(* tasks, loop calls Scheduler_Dispatch and sleeps for the time it         *)
(* returns.  A pass subtracts the time since the last one from every       *)
(* task's remaining time and calls the first task that is ready; it then   *)
(* returns 0, so that another pass follows at once.                        *)
(*                                                                         *)
(* A task takes up to MAXRUN milliseconds.  Only the remaining times and   *)
(* the time since the last pass matter to the scheduler; phase observes.   *)
(* An operator marked BUG is a variant of the one that follows it, used to *)
(* check that a property rules it out.                                     *)
(***************************************************************************)
EXTENDS Integers, FiniteSets, FiniteSetsExt

CONSTANTS
  MAXTASKS,
  Delays, Periods,   \* the arguments of Scheduler_StartTask, in order: functions
  MAXRUN,            \* the longest a task takes, in milliseconds
  Hyperperiod        \* a common multiple of the periods

Tasks == 1 .. MAXTASKS
None  == 0

SchedulerAssumption ==
  /\ MAXTASKS \in Nat \ {0} /\ MAXRUN \in Nat
  /\ Delays \in [Tasks -> Nat] /\ Periods \in [Tasks -> Nat \ {0}]
  /\ Hyperperiod \in Nat \ {0}
  /\ \A i \in Tasks : Hyperperiod % Periods[i] = 0

VARIABLES
  remaining_time,   \* per task
  elapsed,          \* milliseconds since the last pass
  running,          \* the task that the last pass called, None when it is over
  idle_time,        \* what the last pass returned: the sleep to come
  phase             \* time of the last pass since setup, modulo Hyperperiod

vars == <<remaining_time, elapsed, running, idle_time, phase>>

\* setup; Scheduler_Init comes before the tasks are started.
Init ==
  /\ remaining_time = [i \in Tasks |-> Delays[i]]
  /\ elapsed = 0 /\ running = None /\ idle_time = 0 /\ phase = 0

Left(i) == remaining_time[i] - elapsed
Ready   == {i \in Tasks : Left(i) <= 0}
First   == Min(Ready)

NextRun_Restarted(i) == Periods[i]              \* BUG: counts from the call
NextRun(i) == Left(i) + Periods[i]

IdleTime_Sleepy == Min({Left(i) : i \in Tasks \ Ready} \cup {Periods[1]})   \* BUG
IdleTime == IF Ready # {} THEN 0 ELSE Min({Left(i) : i \in Tasks})

Scheduler_Dispatch ==
  /\ running = None /\ idle_time = 0
  /\ remaining_time' = [i \in Tasks |-> IF Ready # {} /\ i = First THEN NextRun(i) ELSE Left(i)]
  /\ running' = IF Ready # {} THEN First ELSE None
  /\ idle_time' = IdleTime
  /\ elapsed' = 0
  /\ phase' = (phase + elapsed) % Hyperperiod

\* The callback of the task returns after some time.
Return(ms) ==
  /\ running # None /\ running' = None
  /\ elapsed' = elapsed + ms
  /\ UNCHANGED <<remaining_time, idle_time, phase>>

\* idle(): delay(idle_time)
Sleep ==
  /\ running = None /\ idle_time > 0
  /\ idle_time' = 0 /\ elapsed' = elapsed + idle_time
  /\ UNCHANGED <<remaining_time, running, phase>>

Next == Scheduler_Dispatch \/ Sleep \/ \E ms \in 0 .. MAXRUN : Return(ms)

Spec == Init /\ [][Next]_vars

-----------------------------------------------------------------------------

\* A task is due at its delay and once per period after that, however late it was
\* called before: lateness never moves a later call.
PhaseKept ==
  \A i \in Tasks : (remaining_time[i] + phase - Delays[i]) % Periods[i] = 0

\* One call of every task fits into the shortest period.
Schedulable == \A i \in Tasks : MAXTASKS * MAXRUN <= Periods[i]

\* Then every task is called before it is due again, although a pass calls one task
\* only, always the first, and although the loop sleeps.
CalledInTime == \A i \in Tasks : Left(i) > -Periods[i]

=============================================================================
