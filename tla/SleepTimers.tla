----------------------------- MODULE SleepTimers ----------------------------
(***************************************************************************)
(* What a kernel promises its PERIODIC tasks, with no queue: every task    *)
(* has a countdown and a period of its own, each tick takes one from every *)
(* countdown, and the one task that reaches zero is released and counts    *)
(* its period again.  A released task is the only one until it finishes.   *)
(* The Daniels kernel, which keeps one delta list and counts down its      *)
(* head, is shown to implement it.                                         *)
(***************************************************************************)
EXTENDS Naturals, FiniteSets

CONSTANTS
    Tasks,            \* the tasks
    None,             \* no task
    Asleep,           \* the countdown of a task that has none
    WORD,             \* ticks are counted modulo WORD
    Periods, Starts   \* what tasks ask for

VARIABLES
    now,              \* the ticks counted
    countdown,        \* per task, the ticks to its next release
    period,           \* per task, what it asked for
    released,         \* the task released and not finished
    halted            \* the kernel has given up

vars == <<now, countdown, period, released, halted>>

Init == /\ now = 0
        /\ countdown = [t \in Tasks |-> Asleep]
        /\ period = [t \in Tasks |-> 0]
        /\ released = None
        /\ halted = FALSE

(* The ticks to a first release: to the first of start, start + per, ...   *)
(* that, as the counter counts them, is not in the past.                   *)
Delays(start, per) ==
    {n \in 0..(WORD - 1) : \E k \in 0..(WORD - 1) :
        /\ now + n = (start + k * per) % WORD
        /\ \A j \in 0..(k - 1) : (start + j * per) % WORD < now}

(* A task is created.  If its start is now it is released at once and      *)
(* counts its period, else it counts the ticks to its start.               *)
Start(t) ==
    /\ countdown[t] = Asleep
    /\ \E start \in Starts, per \in Periods \ {0} : \E n \in Delays(start, per) :
           /\ IF n = 0
              THEN released = None /\ released' = t
              ELSE UNCHANGED released
           /\ countdown' = [countdown EXCEPT ![t] = IF n = 0 THEN per ELSE n]
           /\ period' = [period EXCEPT ![t] = per]
    /\ UNCHANGED <<now, halted>>

Due == {t \in Tasks : countdown[t] = 1}

Tick ==
    /\ Cardinality(Due) <= 1
    /\ Due # {} => released = None
    /\ now' = (now + 1) % WORD
    /\ countdown' = [t \in Tasks |-> IF countdown[t] = Asleep THEN Asleep
                                     ELSE IF t \in Due THEN period[t]
                                     ELSE countdown[t] - 1]
    /\ IF Due = {} THEN UNCHANGED released ELSE released' \in Due
    /\ UNCHANGED <<period, halted>>

(* The released task is done until its next release. *)
Finish ==
    /\ released # None
    /\ released' = None
    /\ UNCHANGED <<now, countdown, period, halted>>

(* The released task terminates. *)
Stop ==
    /\ released # None
    /\ countdown' = [countdown EXCEPT ![released] = Asleep]
    /\ period' = [period EXCEPT ![released] = 0]
    /\ released' = None
    /\ UNCHANGED <<now, halted>>

Halt == halted' = TRUE /\ UNCHANGED <<now, countdown, period, released>>

Next == ~halted /\ ((\E t \in Tasks : Start(t)) \/ Tick \/ Finish \/ Stop \/ Halt)

Spec == Init /\ [][Next]_vars
=============================================================================
