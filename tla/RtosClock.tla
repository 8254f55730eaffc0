----------------------------- MODULE RtosClock ------------------------------
(***************************************************************************)
(* The system clock of the Project 2 RTOS: Timer 1, the tick interrupt and *)
(* Now() (os.cpp).  Timer 1 counts from 0 up to and including OCR1A and    *)
(* starts again (CTC mode), which requests the tick interrupt; the tick is *)
(* added to ticks_since_boot once interrupts are enabled.  Now() disables  *)
(* them and combines the ticks with the timer's count.                     *)
(*                                                                         *)
(* time and answer observe the clock: no action depends on them.           *)
(***************************************************************************)
EXTENDS Integers

CONSTANTS
  TICK,           \* milliseconds in a tick
  CYCLES_PER_MS,  \* timer cycles in a millisecond
  WORD            \* uint16_t arithmetic is modulo WORD

ClockAssumption ==
  /\ TICK \in Nat \ {0} /\ CYCLES_PER_MS \in Nat \ {0} /\ WORD \in Nat \ {0}

TICK_CYCLES == TICK * CYCLES_PER_MS
HALF_MS     == TICK_CYCLES \div (TICK * 2)
OCR1A       == TICK_CYCLES      \* the compare match, as OS_Init sets it

VARIABLES
  TCNT1,             \* the timer's count
  OCF1A,             \* a tick interrupt is requested
  ticks_since_boot,  \* ticks the kernel has counted, modulo WORD
  pc,                \* "task", "kernel", or "now" (inside Now, interrupts off)
  time,              \* timer cycles since boot, modulo the period of the clock
  answer             \* what the last call of Now returned

vars == <<TCNT1, OCF1A, ticks_since_boot, pc, time, answer>>

Wrap   == WORD * CYCLES_PER_MS   \* Now starts again after this many cycles
Cycles == WORD * (OCR1A + 1)     \* ticks_since_boot after this many

Init ==
  /\ TCNT1 = 0 /\ OCF1A = FALSE /\ ticks_since_boot = 0 /\ pc = "kernel"
  /\ time = 0 /\ answer = 0

\* One cycle of the timer.  Interrupts are never disabled for a whole tick (the
\* hardware would lose one): the kernel's passes are much shorter than that.
Cycle ==
  /\ ~(OCF1A /\ TCNT1 = OCR1A)
  /\ TCNT1' = (TCNT1 + 1) % (OCR1A + 1)
  /\ OCF1A' = (OCF1A \/ TCNT1 = OCR1A)
  /\ time' = (time + 1) % Cycles
  /\ UNCHANGED <<ticks_since_boot, pc, answer>>

\* The tick interrupt: hardware clears the request, the kernel counts the tick.
TIMER1_COMPA ==
  /\ pc = "task" /\ OCF1A
  /\ OCF1A' = FALSE
  /\ ticks_since_boot' = (ticks_since_boot + 1) % WORD
  /\ UNCHANGED <<TCNT1, pc, time, answer>>

\* A kernel pass, interrupts disabled.  An interrupt requested while they are
\* enabled is taken first (the one instruction that may still run is ignored).
enter_kernel ==
  /\ pc = "task" /\ ~OCF1A /\ pc' = "kernel"
  /\ UNCHANGED <<TCNT1, OCF1A, ticks_since_boot, time, answer>>
exit_kernel ==
  /\ pc = "kernel" /\ pc' = "task"
  /\ UNCHANGED <<TCNT1, OCF1A, ticks_since_boot, time, answer>>

\* Now() begins: Disable_Interrupt.
Disable_Interrupt ==
  /\ pc = "task" /\ ~OCF1A /\ pc' = "now"
  /\ UNCHANGED <<TCNT1, OCF1A, ticks_since_boot, time, answer>>

Reading_Truncated ==                          \* BUG: not rounded
  (ticks_since_boot * TICK + TCNT1 \div CYCLES_PER_MS) % WORD
Reading == (ticks_since_boot * TICK + (TCNT1 + HALF_MS) \div CYCLES_PER_MS) % WORD

\* Now() reads the clock and restores the interrupt flag.
Now ==
  /\ pc = "now" /\ pc' = "task"
  /\ answer' = Reading
  /\ UNCHANGED <<TCNT1, OCF1A, ticks_since_boot, time>>

Next ==
  \/ Cycle \/ TIMER1_COMPA \/ enter_kernel \/ exit_kernel
  \/ Disable_Interrupt \/ Now

Spec == Init /\ [][Next]_vars

-----------------------------------------------------------------------------

Returns == pc = "now" /\ pc' = "task"

\* The answer of Now is the time since boot, across the wrap-arounds of Now and
\* of the tick counter: never ahead of it by more than half a millisecond, and
\* behind it by less than a millisecond, the cycle that each counted tick takes
\* longer than TICK, and one TICK when a tick is not yet counted.
NowTracksTime ==
  [][Returns =>
       (time + HALF_MS - answer' * CYCLES_PER_MS) % Wrap
         \in 0 .. CYCLES_PER_MS - 1 + time \div (OCR1A + 1)
                    + (IF OCF1A THEN TICK_CYCLES ELSE 0)]_vars

=============================================================================
