------------------------------ MODULE TaskFifo ------------------------------
(***************************************************************************)
(* What the kernel relies on its task queues for: each is a sequence of    *)
(* tasks, a task is in one queue at most, and the operations work at the   *)
(* ends.  RtosKernel keeps its queues in this form; TaskQueue is the       *)
(* linked list that implements it.                                         *)
(***************************************************************************)
EXTENDS SequencesExt

CONSTANTS
  Tasks,     \* the task descriptors
  Queues,    \* the queues of the kernel
  DeadPool,  \* the queue that holds every descriptor at boot
  Boot       \* the order it holds them in, each once

VARIABLES
  queue,     \* the tasks of each queue, the next one to leave first
  outside    \* the tasks in no queue: running, or waiting for a release

fifo_vars == <<queue, outside>>

FifoInit ==
  /\ queue = [q \in Queues |-> IF q = DeadPool THEN Boot ELSE <<>>]
  /\ outside = {}

AddLast(q, t) ==
  /\ t \in outside /\ outside' = outside \ {t}
  /\ queue' = [queue EXCEPT ![q] = Append(@, t)]

AddFirst(q, t) ==
  /\ t \in outside /\ outside' = outside \ {t}
  /\ queue' = [queue EXCEPT ![q] = Cons(t, @)]

TakeFirst(q, t) ==
  /\ t \notin outside /\ outside' = outside \cup {t}
  /\ queue[q] # <<>> /\ Head(queue[q]) = t
  /\ queue' = [queue EXCEPT ![q] = Tail(@)]

FifoNext ==
  \E q \in Queues, t \in Tasks : TakeFirst(q, t) \/ AddLast(q, t) \/ AddFirst(q, t)

FifoSpec == FifoInit /\ [][FifoNext]_fifo_vars

=============================================================================
