---------------------------- MODULE ReleaseOrder ----------------------------
(***************************************************************************)
(* What the Project 3 kernel relies on its queues of periodic metadata     *)
(* for: a block goes before the first one that has more ticks left at that *)
(* moment, blocks are taken from the front, and none is in two queues.     *)
(* RoombaKernel keeps its queues in this form; ReleaseQueue is the linked  *)
(* list that implements it.                                                *)
(***************************************************************************)
EXTENDS Integers, SequencesExt

CONSTANTS
  Blocks,    \* the metadata blocks
  Queues,    \* the release queue and the free list
  DeadPool,  \* the queue that holds every block at boot
  Boot,      \* the order it holds them in, each once
  WORD       \* the tick counter wraps here

VARIABLES
  queue,     \* the blocks of each queue, the first to leave first
  release,   \* the tick of each block
  outside,   \* the blocks in no queue
  now        \* the current tick

order_vars == <<queue, release, outside, now>>

OrderInit ==
  /\ queue = [q \in Queues |-> IF q = DeadPool THEN Boot ELSE <<>>]
  /\ release = [b \in Blocks |-> 0]
  /\ outside = {} /\ now = 0

\* Where block b goes in s: before the first one that is due later, or last.
Place(s, b) ==
  LET Left(x) == (release'[x] - now) % WORD
      later == {i \in DOMAIN s : Left(b) < Left(s[i])}
  IN  IF later = {} THEN Len(s) + 1 ELSE CHOOSE i \in later : \A j \in later : i <= j

Insert(q, b, tick) ==
  /\ b \in outside /\ outside' = outside \ {b}
  /\ release' = [release EXCEPT ![b] = tick]
  /\ queue' = [queue EXCEPT ![q] = InsertAt(@, Place(@, b), b)]
  /\ UNCHANGED now

TakeFirst(q, b) ==
  /\ b \notin outside /\ outside' = outside \cup {b}
  /\ queue[q] # <<>> /\ Head(queue[q]) = b
  /\ queue' = [queue EXCEPT ![q] = Tail(@)]
  /\ UNCHANGED <<release, now>>

Tick == now' = (now + 1) % WORD /\ UNCHANGED <<queue, release, outside>>

OrderNext ==
  \/ Tick
  \/ \E q \in Queues, b \in Blocks :
       TakeFirst(q, b) \/ \E tick \in 0 .. WORD - 1 : Insert(q, b, tick)

OrderSpec == OrderInit /\ [][OrderNext]_order_vars

=============================================================================
