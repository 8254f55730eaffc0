------------------------------ MODULE OsTimer -------------------------------
(***************************************************************************)
(* A stopwatch made of Now() (rtos/timer.c, the same in rtos_daniels and   *)
(* rtos_jordan).  Each operation disables interrupts, and so is one step;  *)
(* an OS_TIMER is in zeroed memory, and runs from the boot on until it is  *)
(* reset.  An operator marked BUG is a variant of the one that follows it, *)
(* used to check that a property rules it out.                             *)
(***************************************************************************)
EXTENDS Integers

CONSTANT WORD     \* unsigned int arithmetic is modulo WORD

OsTimerAssumption == WORD \in Nat \ {0}

VARIABLES
  elapsed_time, last_update, paused,   \* the fields of OS_TIMER
  now,         \* what Now() returns
  ran          \* milliseconds run since the last reset, modulo WORD; observes

vars == <<elapsed_time, last_update, paused, now, ran>>

Init ==
  /\ elapsed_time = 0 /\ last_update = 0 /\ paused = FALSE
  /\ now = 0 /\ ran = 0

Since == (now - last_update) % WORD

timer_value == IF paused THEN elapsed_time ELSE (elapsed_time + Since) % WORD

Millisecond ==
  /\ now' = (now + 1) % WORD
  /\ ran' = IF paused THEN ran ELSE (ran + 1) % WORD
  /\ UNCHANGED <<elapsed_time, last_update, paused>>

timer_reset ==
  /\ paused' = TRUE /\ elapsed_time' = 0
  /\ ran' = 0
  /\ UNCHANGED <<last_update, now>>

\* Only a timer that runs adds the time since it was resumed.
timer_pause ==
  /\ ~paused /\ paused' = TRUE
  /\ elapsed_time' = (elapsed_time + Since) % WORD
  /\ UNCHANGED <<last_update, now, ran>>

LastUpdate_Kept == last_update                          \* BUG: pause counts as run
LastUpdate == now

\* Resuming a timer that runs changes nothing: no time is lost.
timer_resume ==
  /\ paused /\ paused' = FALSE
  /\ last_update' = LastUpdate
  /\ UNCHANGED <<elapsed_time, now, ran>>

Next == Millisecond \/ timer_reset \/ timer_pause \/ timer_resume

Spec == Init /\ [][Next]_vars

-----------------------------------------------------------------------------

\* However often it is paused and resumed, and wherever Now() wraps around, the
\* timer says for how long it has run since it was reset.
ValueIsRunningTime == timer_value = ran

-----------------------------------------------------------------------------
(* The inductive invariant behind the theorem of SketchesProofs.           *)

Words == 0 .. WORD - 1

IInv ==
  /\ elapsed_time \in Words /\ last_update \in Words /\ paused \in BOOLEAN
  /\ now \in Words /\ ran \in Words
  /\ paused => ran = elapsed_time
  /\ ~paused => ran = (elapsed_time + now - last_update) % WORD

=============================================================================
