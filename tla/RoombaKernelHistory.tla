------------------------ MODULE RoombaKernelHistory ------------------------
(***************************************************************************)
(* RoombaKernel with history variables: what happened to the task on the   *)
(* processor and to the releases, for properties about more than one step. *)
(* No action reads them.                                                   *)
(***************************************************************************)
EXTENDS RoombaKernel

VARIABLES
  masked,    \* the running task used OS_DisablePreemption since its dispatch
  late,      \* some release has been missed
  preempted  \* PERIODIC tasks preempted and not dispatched since

hvars == <<vars, masked, late, preempted>>

HInit == Init /\ masked = FALSE /\ late = FALSE /\ preempted = {}

\* The running task goes on in a pass that did not test for preemption.
MaskUsed == kernel_preemption_disabled /\ ~kernel_preemption_disabled'

\* The running task is PERIODIC and returns to the queue with its old release.
IsPreempted ==
  /\ CurPriority = PERIODIC /\ state'[cur_task] = "READY"
  /\ meta'[cur_per_metadata].next = meta[cur_per_metadata].next

Record ==
  /\ masked' = (cur_task' = cur_task /\ (masked \/ MaskUsed))
  /\ late' = (late \/ Missed # {})
  /\ preempted' = {t \in preempted \cup (IF IsPreempted THEN {cur_task} ELSE {}) :
                     state'[t] = "READY"}

HNext == Next /\ Record

HSpec == HInit /\ [][HNext]_hvars

\* For TLC's VIEW, the part of the state that later steps read: nothing after an
\* abort, no levels of free descriptors or parameters of free blocks, no blocks of
\* tasks that are not PERIODIC, no argument that is not assigned yet or has been,
\* no budget unless a PERIODIC task runs.  Which of the free descriptors and blocks is taken next
\* makes no difference either.
ToAssign(t) ==
  LET c == creating[t]
  IN  <<c.stage, IF c.stage = 1 THEN c.next ELSE 0, IF c.stage \in {1, 2} THEN c.wcet ELSE 0>>
Assigned ==
  LET In(stages, x) == IF \E t \in Tasks : creating[t].stage \in stages THEN x ELSE 0
  IN  <<In(1 .. 3, kernel_period_create_meta.period),
        In(2 .. 3, kernel_period_create_meta.next),
        In({3}, kernel_period_create_meta.wcet)>>
Live ==
  IF error_msg # "NONE" THEN <<error_msg>>
  ELSE <<cur_task, state, ready_queues, service_vars,
         ticks_from_start, kernel_preemption_disabled, masked, late,
         [q \in {1, 2} |-> <<Len(pools[q]), Range(pools[q])>>],
         [t \in Tasks |-> IF state[t] = "DEAD" THEN <<>>
                          ELSE IF priority[t] = PERIODIC THEN <<periodic_desc[t]>>
                          ELSE <<"not periodic", priority[t]>>],
         [m \in Metas |-> IF meta[m].task = NULL THEN <<>> ELSE <<meta[m]>>],
         [t \in Tasks |-> ToAssign(t)], Assigned,
         IF CurPriority = PERIODIC
         THEN <<cur_per_metadata, periodic_task_remticks>> ELSE <<>> >>

-----------------------------------------------------------------------------

\* Unless the running task masked preemption, none runs while a more urgent one
\* is ready: no PERIODIC task over a SYSTEM one, and neither a ROUND_ROBIN task
\* nor the idle task over those or over a release that is due.
NoPriorityInversion ==
  error_msg = "NONE" /\ ~masked =>
    /\ CurPriority # SYSTEM => system_task_queue = <<>>
    /\ CurPriority \in {ROUND_ROBIN, IDLE} =>
         \A m \in Range(periodic_task_queue) : meta[m].next = ticks_from_start =>
           late
    /\ CurPriority = IDLE => roundrobin_task_queue = <<>>

\* While no release is missed, the periodic queue is ordered by the ticks left
\* to each release (os.c:81), across the wrap of the tick counter, although its
\* insertions happen at different ticks: the head is all the scheduler looks at.
OnTimeOrdered == error_msg = "NONE" /\ ~late => QueueOrdered

\* ROUND_ROBIN tasks "can only be executed only when there are no other SYSTEM or
\* PERIODIC tasks running or ready" (os.h:104): not while one was preempted.
RRWaitsForPreempted ==
  error_msg = "NONE" /\ ~masked /\ ~late /\ CurPriority = ROUND_ROBIN =>
    preempted = {}

-----------------------------------------------------------------------------
(* The inductive invariant behind the theorems of RoombaKernelProofs: that *)
(* the processor is where it should be relies on the order of the queue.   *)

HInv == IInv /\ NoPriorityInversion /\ OnTimeOrdered

=============================================================================
