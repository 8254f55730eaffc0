---------------------------- MODULE RoombaClock -----------------------------
(***************************************************************************)
(* The system clock of the Project 3 robots (rtos/os.c): Timer 1 runs      *)
(* freely, each tick interrupt moves the compare value on by TICK_CYCLES,  *)
(* and the kernel notes the count when it counts the tick.  Now() adds the *)
(* cycles since then to the ticks.  Unlike that of Project 2 (RtosClock)   *)
(* it leaves interrupts enabled, so a tick may fall between its reads, and *)
(* the compiler may order the three volatile reads of the expression as it *)
(* likes.  A read of a 16-bit variable is one step.                        *)
(*                                                                         *)
(* time, at, torn, since and answer observe the clock: no action depends   *)
(* on them.                                                                *)
(***************************************************************************)
EXTENDS Integers

CONSTANTS
  TICK,           \* milliseconds in a tick
  CYCLES_PER_MS,  \* F_CPU/TIMER_PRESCALER/1000
  LATENCY,        \* most cycles that a tick interrupt is kept waiting; a whole
                  \* tick and more while the robot sends a byte over infrared
  TIMER_WORD,     \* the timer counts modulo TIMER_WORD
  WORD            \* Now and the ticks are modulo WORD

RoombaClockAssumption ==
  /\ TICK \in Nat \ {0} /\ CYCLES_PER_MS \in Nat \ {0} /\ WORD \in Nat \ {0}
  /\ LATENCY \in Nat
  /\ TIMER_WORD \in Nat /\ TIMER_WORD > TICK * CYCLES_PER_MS + 2 * LATENCY

TICK_CYCLES == TICK * CYCLES_PER_MS

VARIABLES
  TCNT1,              \* the timer's count
  OCR1A,              \* the next compare match
  waiting,            \* cycles a tick has been waiting to be counted; -1: no tick
  ticks_from_start,   \* ticks counted, modulo WORD
  current_timer_val,  \* the count when the last of them was
  reads,              \* what Now() has read so far, by variable; NotRead before
  in_now,             \* a task is inside Now()
  time,               \* cycles since boot, modulo the period of the clock
  at,                 \* the time when Now() read TCNT1
  torn,               \* a tick was counted since Now() was called
  answer,             \* what the last call of Now() returned
  since               \* cycles since it returned, up to one wrap-around of Now

clock == <<TCNT1, OCR1A, waiting, ticks_from_start, current_timer_val>>
vars  == <<clock, reads, in_now, time, at, torn, answer, since>>

Wrap    == WORD * CYCLES_PER_MS   \* Now starts again after this many cycles
Cycles  == WORD * TICK_CYCLES     \* ticks_from_start after this many
NotRead == -1
Operands == {"ticks", "TCNT1", "val"}

\* kernel_init starts the timer and sets the first match some cycles later.
Init ==
  /\ TCNT1 = 0 /\ waiting = -1
  /\ OCR1A \in {(c + TICK_CYCLES) % TIMER_WORD : c \in 0 .. LATENCY}
  /\ ticks_from_start = 0 /\ current_timer_val = 0
  /\ reads = [o \in Operands |-> NotRead] /\ in_now = FALSE
  /\ time = 0 /\ at = 0 /\ torn = FALSE /\ answer = 0 /\ since = 0

\* One cycle of the timer; the tick it requests is not kept waiting for long.
Cycle ==
  /\ waiting < LATENCY
  /\ TCNT1' = (TCNT1 + 1) % TIMER_WORD
  /\ waiting' = IF waiting >= 0 THEN waiting + 1
                ELSE IF TCNT1' = OCR1A THEN 0 ELSE -1
  /\ time' = (time + 1) % Cycles
  /\ since' = IF since = Wrap THEN since ELSE since + 1
  /\ UNCHANGED <<OCR1A, ticks_from_start, current_timer_val, reads, in_now, at,
                 torn, answer>>

NextMatch_FromNow == (TCNT1 + TICK_CYCLES) % TIMER_WORD   \* BUG: latency adds up
NextMatch == (OCR1A + TICK_CYCLES) % TIMER_WORD

\* The tick interrupt and kernel_update_ticker.
TIMER1_COMPA ==
  /\ waiting >= 0 /\ waiting' = -1
  /\ OCR1A' = NextMatch
  /\ ticks_from_start' = (ticks_from_start + 1) % WORD
  /\ current_timer_val' = TCNT1
  /\ torn' = TRUE
  /\ UNCHANGED <<TCNT1, reads, in_now, time, at, answer, since>>

Call ==
  /\ ~in_now /\ in_now' = TRUE
  /\ torn' = FALSE
  /\ UNCHANGED <<clock, reads, time, at, answer, since>>

\* Now() reads one of the operands of its expression.
Read(o) ==
  /\ in_now /\ reads[o] = NotRead
  /\ reads' = [reads EXCEPT ![o] = CASE o = "ticks" -> ticks_from_start
                                     [] o = "TCNT1" -> TCNT1
                                     [] o = "val"   -> current_timer_val]
  /\ at' = IF o = "TCNT1" THEN time ELSE at
  /\ UNCHANGED <<clock, in_now, time, torn, answer, since>>

SinceTick == (reads["TCNT1"] - reads["val"]) % TIMER_WORD
Reading == (reads["ticks"] * TICK + SinceTick \div CYCLES_PER_MS) % WORD

Return ==
  /\ in_now /\ \A o \in Operands : reads[o] # NotRead
  /\ in_now' = FALSE /\ reads' = [o \in Operands |-> NotRead]
  /\ answer' = Reading /\ since' = 0
  /\ UNCHANGED <<clock, time, at, torn>>

Next ==
  \/ Cycle \/ TIMER1_COMPA \/ Call \/ Return
  \/ \E o \in Operands : Read(o)

Spec == Init /\ [][Next]_vars

\* The view of the runs of NowTracksTime, without what it does not read: the last
\* answer and its age, and what a call has read that a tick has torn.
Live ==
  <<clock, in_now, time, in_now /\ torn,
    IF torn THEN [o \in Operands |-> reads[o] = NotRead] ELSE reads,
    IF torn \/ reads["TCNT1"] = NotRead THEN 0 ELSE at>>

-----------------------------------------------------------------------------

Returns == in_now /\ ~in_now'

\* Without a tick between its reads Now() gives the time at which it read the
\* timer, across the wrap-arounds of timer, ticks and answer: rounded down, and
\* behind by the delays of the first match and of the last tick only.  However
\* late the ticks were counted, the clock does not drift ("Returns the number of
\* milliseconds since OS_Init()", os.h:314), unless one comes later than the next
\* match: the timer has then passed that match and goes once around before the next.
NowTracksTime ==
  [][Returns /\ ~torn =>
       (at - answer' * CYCLES_PER_MS) % Wrap
         \in 0 .. CYCLES_PER_MS - 1 + 2 * LATENCY]_vars

\* "Now() is always increasing. Even if Now() wraps around, (Now() - T) always
\* >= 0" (os.h:321): the difference of two calls is not more than the time
\* between them, latency and rounding apart, so it never stands for a negative.
NowNeverDecreases ==
  [][Returns /\ since < Wrap =>
       ((answer' - answer) % WORD) * CYCLES_PER_MS
         <= since + CYCLES_PER_MS + 2 * LATENCY]_vars

=============================================================================
