---------------------------- MODULE RoombaQueue -----------------------------
(***************************************************************************)
(* The linked lists of task descriptors of the Project 3 kernel            *)
(* (task_queue_t in kernel.h; enqueue, budgequeue and dequeue in os.c).    *)
(* Unlike those of Project 2 they are not ended by NULL: enqueue does not  *)
(* set the next field of what it adds, nor dequeue that of what it takes,  *)
(* so only tail says where a list ends.                                    *)
(*                                                                         *)
(* The kernel calls the operations with interrupts disabled, each is one   *)
(* step, and it only adds a task that is in no queue: TasksAccounted in    *)
(* RoombaKernel says so.                                                   *)
(***************************************************************************)
EXTENDS TaskSequences

CONSTANTS
  MAXPROCESS,   \* number of descriptors in the dead pool at boot
  Queues,       \* the queues of tasks, those of the services included
  DeadPool      \* dead_pool_queue

RoombaQueueAssumption == MAXPROCESS \in Nat \ {0} /\ DeadPool \in Queues

Tasks == 1 .. MAXPROCESS
NULL  == 0

VARIABLES
  head, tail,   \* the fields of each task_queue_t
  next,         \* the next field of each descriptor
  outside       \* the descriptors in no queue

vars == <<head, tail, next, outside>>

\* kernel_init: the descriptors are linked, the last one not to the idle task.
Init ==
  /\ head = [q \in Queues |-> IF q = DeadPool THEN 1 ELSE NULL]
  /\ tail = [q \in Queues |-> IF q = DeadPool THEN MAXPROCESS ELSE NULL]
  /\ next = [t \in Tasks |-> IF t = MAXPROCESS THEN NULL ELSE t + 1]
  /\ outside = {}

\* The only element of a queue that was empty.
FirstElement(q, t) ==
  /\ head' = [head EXCEPT ![q] = t]
  /\ tail' = [tail EXCEPT ![q] = t]

enqueue(q, t) ==
  /\ t \in outside
  /\ outside' = outside \ {t}
  /\ \/ head[q] = NULL /\ FirstElement(q, t) /\ UNCHANGED next
     \/ /\ head[q] # NULL
        /\ next' = [next EXCEPT ![tail[q]] = t]
        /\ tail' = [tail EXCEPT ![q] = t]
        /\ UNCHANGED head

\* Puts a task at the front.
budgequeue(q, t) ==
  /\ t \in outside
  /\ outside' = outside \ {t}
  /\ next' = [next EXCEPT ![t] = head[q]]
  /\ IF head[q] = NULL
     THEN FirstElement(q, t)
     ELSE head' = [head EXCEPT ![q] = t] /\ UNCHANGED tail

LastOne_Next(q) == next[head[q]] = NULL      \* BUG: trusts the next field
LastOne(q) == head[q] = tail[q]

\* On an empty queue dequeue returns NULL and changes nothing.
dequeue(q) ==
  /\ head[q] # NULL
  /\ outside' = outside \cup {head[q]}
  /\ IF LastOne(q)
     THEN FirstElement(q, NULL)
     ELSE head' = [head EXCEPT ![q] = next[head[q]]] /\ UNCHANGED tail
  /\ UNCHANGED next

Next ==
  \E q \in Queues :
    dequeue(q) \/ \E t \in Tasks : enqueue(q, t) \/ budgequeue(q, t)

Spec == Init /\ [][Next]_vars

-----------------------------------------------------------------------------

\* The sequence that the list of q stands for: from its head to its tail.
UpToTail(q) == [t \in Tasks |-> IF t = tail[q] THEN NULL ELSE next[t]]
List(q) == Linked(UpToTail(q), MAXPROCESS + 1)[head[q]]

\* The lists implement FIFO queues that also take a task at the front: stale next
\* fields never lead anywhere.
Fifo == INSTANCE TaskFifo
          WITH queue <- [q \in Queues |-> List(q)],
               Boot  <- [i \in 1 .. MAXPROCESS |-> i]
ImplementsFifo == Fifo!FifoSpec

=============================================================================
