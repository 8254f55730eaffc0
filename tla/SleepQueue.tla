----------------------------- MODULE SleepQueue -----------------------------
(***************************************************************************)
(* The sleep queue of the Daniels kernel, task_descriptor_queue.c: the     *)
(* sleeping tasks in the order they wake, each with the ticks between its  *)
(* wake and that of the task before it (diff_ticks_remaining).  Only the   *)
(* head is counted down.  An entry is [task, diff]; a queue is a sequence. *)
(***************************************************************************)
EXTENDS Naturals, SequencesExt

(* The ticks from now to the wake of the i-th entry. *)
TicksTo(q, i) ==
    LET sum[k \in 0..Len(q)] == IF k = 0 THEN 0 ELSE sum[k - 1] + q[k].diff
    IN  sum[i]

(* Where sleep_enqueue stops: the first entry that wakes no earlier. *)
Place(q, ticks) ==
    CHOOSE i \in 1..(Len(q) + 1) :
        /\ i <= Len(q) => TicksTo(q, i) >= ticks
        /\ \A j \in 1..(i - 1) : TicksTo(q, j) < ticks

(* sleep_enqueue: the new entry takes its ticks from the one behind it. *)
sleep_enqueue(q, t, ticks) ==
    LET i    == Place(q, ticks)
        diff == ticks - TicksTo(q, i - 1)
        rest == IF i > Len(q) THEN q ELSE [q EXCEPT ![i].diff = @ - diff]
    IN  InsertAt(rest, i, [task |-> t, diff |-> diff])

(* BUG: the entry behind is left as it was. *)
remove_from_sleep_queue_Lost(q, t) == SelectSeq(q, LAMBDA entry : entry.task # t)

(* remove_from_sleep_queue: the entry behind inherits the ticks. *)
remove_from_sleep_queue(q, t) ==
    IF t \notin {q[i].task : i \in DOMAIN q} THEN q
    ELSE LET i    == CHOOSE j \in DOMAIN q : q[j].task = t
             rest == IF i = Len(q) THEN q ELSE [q EXCEPT ![i + 1].diff = @ + q[i].diff]
         IN  RemoveAt(rest, i)

(* BUG: the tick is not counted. *)
TickHead_Never(q) == q

(* kernel_update_ticker: a tick shortens the head only. *)
TickHead(q) == IF q = <<>> THEN q ELSE [q EXCEPT ![1].diff = @ - 1]

(* The tasks sleep_dequeue takes off one after another: the entries at the *)
(* front with no ticks left.                                               *)
Waking(q) == {q[i].task : i \in {j \in DOMAIN q : TicksTo(q, j) = 0}}
=============================================================================
