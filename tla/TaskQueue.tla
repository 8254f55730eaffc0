----------------------------- MODULE TaskQueue ------------------------------
(***************************************************************************)
(* The singly linked lists of task descriptors of the Project 2 kernel     *)
(* (queue_t in kernel.h; enqueue, queue_push and dequeue in os.cpp).  A    *)
(* descriptor has one next field, shared by every queue it goes through;   *)
(* an empty queue is one whose head is NULL, and its tail is then stale.   *)
(*                                                                         *)
(* The kernel calls the operations with interrupts disabled, so each is    *)
(* one step.  It only adds a task that is in no queue: that is what        *)
(* DescriptorsAccounted in RtosKernel says of its calls.                   *)
(***************************************************************************)
EXTENDS TaskSequences

CONSTANTS
  MAXPROCESS,   \* number of descriptors in the dead pool at boot
  Queues,       \* the queues of the kernel, those of the services included
  DeadPool      \* dead_pool_queue

QueueAssumption == MAXPROCESS \in Nat \ {0} /\ DeadPool \in Queues

Tasks == 1 .. MAXPROCESS
NULL  == 0

VARIABLES
  head, tail, size,   \* the fields of each queue_t
  next,               \* the next field of each descriptor
  outside             \* the descriptors in no queue

vars == <<head, tail, size, next, outside>>

\* OS_Init links every descriptor into the dead pool; the other queues are in
\* zeroed memory.
Init ==
  /\ head = [q \in Queues |-> IF q = DeadPool THEN 1 ELSE NULL]
  /\ tail = [q \in Queues |-> IF q = DeadPool THEN MAXPROCESS ELSE NULL]
  /\ size = [q \in Queues |-> IF q = DeadPool THEN MAXPROCESS ELSE 0]
  /\ next = [t \in Tasks |-> IF t = MAXPROCESS THEN NULL ELSE t + 1]
  /\ outside = {}

\* The only element of a queue that was empty.
FirstElement(q, t) ==
  /\ head' = [head EXCEPT ![q] = t]
  /\ tail' = [tail EXCEPT ![q] = t]
  /\ size' = [size EXCEPT ![q] = 1]

enqueue(q, t) ==
  /\ t \in outside
  /\ IF head[q] = NULL
     THEN /\ FirstElement(q, t)
          /\ next' = [next EXCEPT ![t] = NULL]
     ELSE /\ next' = [next EXCEPT ![t] = NULL, ![tail[q]] = t]
          /\ tail' = [tail EXCEPT ![q] = t]
          /\ size' = [size EXCEPT ![q] = @ + 1]
          /\ UNCHANGED head
  /\ outside' = outside \ {t}

PushTail_Stale(q, t) == tail                             \* BUG: tail not set
PushTail(q, t) == IF head[q] = NULL THEN [tail EXCEPT ![q] = t] ELSE tail

queue_push(q, t) ==
  /\ t \in outside
  /\ head' = [head EXCEPT ![q] = t]
  /\ next' = [next EXCEPT ![t] = head[q]]
  /\ tail' = PushTail(q, t)
  /\ size' = [size EXCEPT ![q] = IF head[q] = NULL THEN 1 ELSE @ + 1]
  /\ outside' = outside \ {t}

SizeAfterDequeue_Kept(q) == size                         \* BUG: not decremented
SizeAfterDequeue(q) == [size EXCEPT ![q] = @ - 1]

\* On an empty queue dequeue returns NULL and changes nothing.
dequeue(q) ==
  /\ head[q] # NULL
  /\ head' = [head EXCEPT ![q] = next[head[q]]]
  /\ next' = [next EXCEPT ![head[q]] = NULL]
  /\ size' = SizeAfterDequeue(q)
  /\ outside' = outside \cup {head[q]}
  /\ UNCHANGED tail

Next ==
  \E q \in Queues :
    dequeue(q) \/ \E t \in Tasks : enqueue(q, t) \/ queue_push(q, t)

Spec == Init /\ [][Next]_vars

-----------------------------------------------------------------------------

\* The sequence that the list of q stands for: the descriptors met from its head
\* on, one more than there are if the links form a ring.
List(q) == Linked(next, MAXPROCESS + 1)[head[q]]

\* The lists implement FIFO queues: an operation on one never loses, duplicates
\* or reorders a task of any queue, although tail and next go stale.
Fifo == INSTANCE TaskFifo
          WITH queue <- [q \in Queues |-> List(q)],
               Boot  <- [i \in 1 .. MAXPROCESS |-> i]
ImplementsFifo == Fifo!FifoSpec

\* The size field, which the kernel's timing checks on periodic_queue read, is
\* the length of the list.
SizeIsLength == \A q \in Queues : size[q] = Len(List(q))

=============================================================================
