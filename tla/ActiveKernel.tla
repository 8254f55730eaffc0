---------------------------- MODULE ActiveKernel ----------------------------
(***************************************************************************)
(* The skeleton of a "full-served" RTOS (Project2/rtos/active/active.c):   *)
(* a kernel task with a stack of its own serves the requests of the tasks. *)
(* A system call leaves its request in the descriptor of its task and      *)
(* enters the kernel, which comes back from Exit_Kernel inside             *)
(* Next_Kernel_Request.  The request is modelled until it is served; the   *)
(* NONE request of a timer interrupt is not: no interrupt is set up.       *)
(* An operator marked BUG is a variant of the one that follows it, used to *)
(* check that a property rules it out.                                     *)
(***************************************************************************)
EXTENDS Integers

CONSTANT MAXPROCESS

SkeletonAssumption == MAXPROCESS \in Nat \ {0}

Process == 0 .. MAXPROCESS - 1
NULL    == -1

VARIABLES
  state,          \* of each process descriptor
  Cp,             \* the task that runs, or ran last; NULL before the first
  request,        \* the request of Cp that the kernel has not served
  NextP,          \* index to next task to run
  KernelActive,
  Tasks,          \* tasks created so far
  dispatching     \* the kernel is inside Dispatch

vars == <<state, Cp, request, NextP, KernelActive, Tasks, dispatching>>

\* OS_Init
Init ==
  /\ state = [p \in Process |-> "DEAD"]
  /\ Cp = NULL /\ request = "NONE" /\ NextP = 0
  /\ KernelActive = FALSE /\ Tasks = 0 /\ dispatching = FALSE

InTask == KernelActive /\ ~dispatching /\ request = "NONE"

FirstDead == CHOOSE p \in Process :
               state[p] = "DEAD" /\ \A q \in 0 .. p - 1 : state[q] # "DEAD"

CountAfterCreate_Start == IF KernelActive THEN Tasks ELSE Tasks + 1   \* BUG
CountAfterCreate == Tasks + 1

Kernel_Create_Task ==
  IF Tasks = MAXPROCESS THEN UNCHANGED <<state, Tasks>>
  ELSE Tasks' = CountAfterCreate /\ state' = [state EXCEPT ![FirstDead] = "READY"]

\* The stub of a system call: the request, then Enter_Kernel.
Request(r) ==
  /\ InTask
  /\ request' = r
  /\ UNCHANGED <<state, Cp, NextP, KernelActive, Tasks, dispatching>>

\* Before OS_Start main calls the kernel function directly.
Task_Create ==
  \/ Request("CREATE")
  \/ /\ ~KernelActive
     /\ Kernel_Create_Task
     /\ UNCHANGED <<Cp, request, NextP, KernelActive, dispatching>>
Task_Next      == Request("NEXT")
Task_Terminate == Request("TERMINATE")

OS_Start ==
  /\ ~KernelActive /\ Tasks > 0
  /\ KernelActive' = TRUE /\ dispatching' = TRUE
  /\ UNCHANGED <<state, Cp, request, NextP, Tasks>>

NextAfter_Same(p) == p                                                \* BUG
NextAfter(p) == (p + 1) % MAXPROCESS

\* An iteration of Dispatch, which searches for ever while no task is READY.
Dispatch ==
  /\ dispatching
  /\ IF state[NextP] = "READY"
     THEN /\ Cp' = NextP
          /\ state' = [state EXCEPT ![NextP] = "RUNNING"]
          /\ NextP' = NextAfter(NextP)
          /\ dispatching' = FALSE
     ELSE /\ NextP' = (NextP + 1) % MAXPROCESS
          /\ UNCHANGED <<Cp, state, dispatching>>
  /\ UNCHANGED <<request, KernelActive, Tasks>>

StateAfterRequest_Running == IF request = "NEXT" THEN "RUNNING" ELSE "DEAD"   \* BUG
StateAfterRequest == IF request = "NEXT" THEN "READY" ELSE "DEAD"

\* The kernel serves the request.  After CREATE the creator runs on.
Next_Kernel_Request ==
  /\ request # "NONE" /\ request' = "NONE"
  /\ IF request = "CREATE"
     THEN Kernel_Create_Task /\ UNCHANGED dispatching
     ELSE /\ state' = [state EXCEPT ![Cp] = StateAfterRequest]
          /\ dispatching' = TRUE
          /\ UNCHANGED Tasks
  /\ UNCHANGED <<Cp, NextP, KernelActive>>

Next ==
  \/ Task_Create \/ Task_Next \/ Task_Terminate
  \/ OS_Start \/ Dispatch \/ Next_Kernel_Request

Spec == Init /\ [][Next]_vars

-----------------------------------------------------------------------------

\* A kernel with its own stack serves the tasks as the kernel that they share
\* does: a request changes nothing until it is served, and then what the call of
\* the other skeleton would have changed.
Shared == INSTANCE SharedKernel WITH CurrentP <- Cp
ImplementsShared == Shared!Spec

\* Kernel_Create_Task searches for a DEAD descriptor without checking that it
\* finds one: the count of tasks, which is never decremented, ensures it.
DeadOneFound == Tasks < MAXPROCESS => \E p \in Process : state[p] = "DEAD"

\* READY tasks take turns in the order of their descriptors: the kernel passes over
\* none between the task that stops, or the first descriptor at the start, and the
\* one it chooses, whatever tasks end and are created in between.
Behind(p) == (p - Cp - 1) % MAXPROCESS     \* how far behind Cp: Cp itself is last
NoneSkipped ==
  [][dispatching /\ ~dispatching' =>
       \A p \in Process : state[p] = "READY" => Behind(Cp') <= Behind(p)]_vars

=============================================================================
