---------------------------- MODULE SharedKernel ----------------------------
(***************************************************************************)
(* The skeleton of a "self-served" RTOS (Project2/rtos/shared/shared.c):   *)
(* a system call is a kernel function that the calling task executes       *)
(* itself, interrupts disabled.  Tasks are cooperative and take turns in   *)
(* the order of their descriptors.  ActiveKernel is the "full-served"      *)
(* skeleton, which implements this one.                                    *)
(***************************************************************************)
EXTENDS Integers

CONSTANT MAXPROCESS

Process == 0 .. MAXPROCESS - 1
NULL    == -1

VARIABLES
  state,          \* of each process descriptor
  CurrentP,       \* the task that runs, or ran last; NULL before the first
  NextP,          \* index to next task to run
  KernelActive,
  Tasks,          \* tasks created so far
  dispatching     \* inside Dispatch

vars == <<state, CurrentP, NextP, KernelActive, Tasks, dispatching>>

\* OS_Init
Init ==
  /\ state = [p \in Process |-> "DEAD"]
  /\ CurrentP = NULL /\ NextP = 0
  /\ KernelActive = FALSE /\ Tasks = 0 /\ dispatching = FALSE

InTask == KernelActive /\ ~dispatching

\* The first DEAD descriptor is used; the number of tasks is never decremented.
FirstDead == CHOOSE p \in Process :
               state[p] = "DEAD" /\ \A q \in 0 .. p - 1 : state[q] # "DEAD"
Kernel_Create_Task ==
  IF Tasks = MAXPROCESS THEN UNCHANGED <<state, Tasks>>
  ELSE Tasks' = Tasks + 1 /\ state' = [state EXCEPT ![FirstDead] = "READY"]

\* main creates tasks before OS_Start, tasks do so later.
Task_Create ==
  /\ ~KernelActive \/ InTask
  /\ Kernel_Create_Task
  /\ UNCHANGED <<CurrentP, NextP, KernelActive, dispatching>>

OS_Start ==
  /\ ~KernelActive /\ Tasks > 0
  /\ KernelActive' = TRUE /\ dispatching' = TRUE
  /\ UNCHANGED <<state, CurrentP, NextP, Tasks>>

\* An iteration of Dispatch, which searches for ever while no task is READY.
Dispatch ==
  /\ dispatching
  /\ NextP' = (NextP + 1) % MAXPROCESS
  /\ IF state[NextP] = "READY"
     THEN /\ CurrentP' = NextP
          /\ state' = [state EXCEPT ![NextP] = "RUNNING"]
          /\ dispatching' = FALSE
     ELSE UNCHANGED <<CurrentP, state, dispatching>>
  /\ UNCHANGED <<KernelActive, Tasks>>

Leave(s) ==
  /\ state' = [state EXCEPT ![CurrentP] = s]
  /\ dispatching' = TRUE
  /\ UNCHANGED <<CurrentP, NextP, KernelActive, Tasks>>

Task_Next      == InTask /\ Leave("READY")
Task_Terminate == InTask /\ Leave("DEAD")

Next == Task_Create \/ OS_Start \/ Dispatch \/ Task_Next \/ Task_Terminate

Spec == Init /\ [][Next]_vars

=============================================================================
