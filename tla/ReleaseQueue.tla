---------------------------- MODULE ReleaseQueue ----------------------------
(***************************************************************************)
(* The linked lists of periodic metadata of the Project 3 kernel           *)
(* (periodic_task_queue_t in kernel.h; periodic_enqueue and                *)
(* periodic_dequeue in os.c): the release queue and the free list.         *)
(* periodic_enqueue walks along nextT to NULL, periodic_dequeue knows the  *)
(* last block by tail, and what it takes out keeps its nextT.              *)
(***************************************************************************)
EXTENDS TaskSequences

CONSTANTS
  MAXPERIODICPRO,  \* number of blocks
  Queues,          \* periodic_task_queue and periodic_dead_pool_queue
  DeadPool,        \* periodic_dead_pool_queue
  WORD             \* uint16_t: ticks_from_start and next wrap here

ReleaseQueueAssumption ==
  MAXPERIODICPRO \in Nat \ {0} /\ DeadPool \in Queues /\ WORD \in Nat \ {0}

Blocks == 1 .. MAXPERIODICPRO
NULL   == 0

VARIABLES
  head, tail,        \* the fields of each periodic_task_queue_t
  nextT,             \* the link of each block
  next,              \* its release tick
  outside,           \* the blocks in no queue: of the task that runs
  ticks_from_start

vars == <<head, tail, nextT, next, outside, ticks_from_start>>

\* kernel_init.
Init ==
  /\ head = [q \in Queues |-> IF q = DeadPool THEN 1 ELSE NULL]
  /\ tail = [q \in Queues |-> IF q = DeadPool THEN MAXPERIODICPRO ELSE NULL]
  /\ nextT = [b \in Blocks |-> IF b = MAXPERIODICPRO THEN NULL ELSE b + 1]
  /\ next = [b \in Blocks |-> 0]
  /\ outside = {} /\ ticks_from_start = 0

\* The blocks met from b on along nextT, to NULL.
Walk(b) == Linked(nextT, MAXPERIODICPRO + 1)[b]

\* The position of the first block with more ticks remaining than r, 0 for none.
FirstLater(s, r) ==
  LET Remaining(x) == (x - ticks_from_start) % WORD
      later == {i \in DOMAIN s : Remaining(r) < Remaining(next[s[i]])}
  IN  IF later = {} THEN 0 ELSE CHOOSE i \in later : \A j \in later : i <= j

\* The link of a block added at the end.
EndLink_Stale(b) == nextT[b]                 \* BUG: nextT not set
EndLink(b) == NULL

\* A block comes with the release it is given, in its creation or by Task_Next.
periodic_enqueue(q, b, r) ==
  LET s == Walk(head[q])
      i == FirstLater(s, r)
  IN  /\ b \in outside
      /\ outside' = outside \ {b}
      /\ next' = [next EXCEPT ![b] = r]
      /\ \/ /\ head[q] = NULL
            /\ head' = [head EXCEPT ![q] = b] /\ tail' = [tail EXCEPT ![q] = b]
            /\ nextT' = [nextT EXCEPT ![b] = NULL]
         \/ /\ i = 1
            /\ head' = [head EXCEPT ![q] = b]
            /\ nextT' = [nextT EXCEPT ![b] = s[1]] /\ UNCHANGED tail
         \/ /\ i > 1
            /\ nextT' = [nextT EXCEPT ![s[i - 1]] = b, ![b] = s[i]]
            /\ UNCHANGED <<head, tail>>
         \/ /\ head[q] # NULL /\ i = 0
            /\ nextT' = [nextT EXCEPT ![tail[q]] = b, ![b] = EndLink(b)]
            /\ tail' = [tail EXCEPT ![q] = b] /\ UNCHANGED head
      /\ UNCHANGED ticks_from_start

periodic_dequeue(q) ==
  /\ head[q] # NULL
  /\ outside' = outside \cup {head[q]}
  /\ IF head[q] = tail[q]
     THEN head' = [head EXCEPT ![q] = NULL] /\ tail' = [tail EXCEPT ![q] = NULL]
     ELSE head' = [head EXCEPT ![q] = nextT[head[q]]] /\ UNCHANGED tail
  /\ UNCHANGED <<nextT, next, ticks_from_start>>

TIMER_EXPIRED ==
  /\ ticks_from_start' = (ticks_from_start + 1) % WORD
  /\ UNCHANGED <<head, tail, nextT, next, outside>>

Next ==
  \/ TIMER_EXPIRED
  \/ \E q \in Queues :
       \/ periodic_dequeue(q)
       \/ \E b \in Blocks, r \in 0 .. WORD - 1 : periodic_enqueue(q, b, r)

Spec == Init /\ [][Next]_vars

-----------------------------------------------------------------------------

\* The lists keep their blocks in the order RoombaKernel assumes of its sequences:
\* the walk of periodic_enqueue and the tail of periodic_dequeue agree on where a
\* list ends, whatever links the blocks keep from earlier lists.
Order == INSTANCE ReleaseOrder
           WITH queue <- [q \in Queues |-> Walk(head[q])],
                Boot <- [i \in 1 .. MAXPERIODICPRO |-> i],
                release <- next, now <- ticks_from_start
ImplementsOrder == Order!OrderSpec

=============================================================================
