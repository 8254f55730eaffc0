------------------------------ MODULE IrSketch ------------------------------
(***************************************************************************)
(* The infrared transmitter of Project 1 (Phase 1/phase1.ino): transmit,   *)
(* which check_button calls, puts a byte with its two header bits into     *)
(* bit_seq, and the handler of timer 3 gives a bit to the transmitter      *)
(* every 500 us, until it has sent them all and disables itself.           *)
(*                                                                         *)
(* A bit time is a step.  A byte is the set of its bits that are 1.  The   *)
(* scheduler calls check_button every 20 ms: two calls are at least GAP    *)
(* bit times apart, which is what lateness leaves of the period.  An       *)
(* operator marked BUG is a variant of the one that follows it, used to    *)
(* check that a property rules it out.                                     *)
(***************************************************************************)
EXTENDS Integers, Sequences

CONSTANTS
  BITS,   \* bits of a byte
  GAP     \* bit times between two calls of transmit, at least

IrSketchAssumption == BITS \in Nat \ {0} /\ GAP \in Nat /\ GAP > BITS + 4

Bytes == SUBSET (0 .. BITS - 1)
Sequence == BITS + 2      \* bits of bit_seq that are sent

VARIABLES
  bit_seq, bit_index,
  OCIE3A,    \* the compare interrupt of timer 3 is enabled
  COM1C1,    \* the transmitter is on
  pc,        \* what transmit does next
  since,     \* bit times since transmit was called last, up to GAP
  asked,     \* the byte it was called with
  sent       \* what the transmitter did in each bit time since

\* setupTimer3 and setupPWMTimer.
Init ==
  /\ bit_seq = {} /\ bit_index = 0
  /\ OCIE3A = FALSE /\ COM1C1 = FALSE
  /\ pc = "idle" /\ since = GAP /\ asked = {} /\ sent = <<>>

\* transmit: the byte comes after the header, a 1 and a 0.
transmit(byte) ==
  /\ pc = "idle" /\ since = GAP /\ pc' = "index"
  /\ bit_seq' = {0} \cup {i + 2 : i \in byte}
  /\ since' = 0 /\ asked' = byte /\ sent' = <<>>
  /\ UNCHANGED <<bit_index, OCIE3A, COM1C1>>

FirstIndex_Kept == bit_index                   \* BUG: the index is not reset
FirstIndex == 0

ResetIndex ==
  /\ pc = "index" /\ pc' = "enable"
  /\ bit_index' = FirstIndex
  /\ UNCHANGED <<bit_seq, OCIE3A, COM1C1, since, asked, sent>>

\* With the interrupts disabled, the flag cleared and the timer at 0.
EnableTimer ==
  /\ pc = "enable" /\ pc' = "idle"
  /\ OCIE3A' = TRUE
  /\ UNCHANGED <<bit_seq, bit_index, COM1C1, since, asked, sent>>

TIMER3_COMPA ==
  IF bit_index < Sequence
  THEN /\ COM1C1' = (bit_index \in bit_seq) /\ bit_index' = bit_index + 1
       /\ UNCHANGED OCIE3A
  ELSE COM1C1' = FALSE /\ OCIE3A' = ~OCIE3A /\ UNCHANGED bit_index

\* What the receiver sees of the bit time that ends.  transmit itself takes some
\* microseconds: one interrupt at most comes in its middle.
BitTime ==
  /\ pc = "idle" \/ since = 0
  /\ since' = IF since < GAP THEN since + 1 ELSE GAP
  /\ IF OCIE3A THEN TIMER3_COMPA /\ sent' = Append(sent, COM1C1')
               ELSE UNCHANGED <<COM1C1, OCIE3A, bit_index, sent>>
  /\ UNCHANGED <<bit_seq, pc, asked>>

Next == ResetIndex \/ EnableTimer \/ BitTime \/ \E byte \in Bytes : transmit(byte)

vars == <<bit_seq, bit_index, OCIE3A, COM1C1, pc, since, asked, sent>>

Spec == Init /\ [][Next]_vars

-----------------------------------------------------------------------------

\* What the receiver is to see: the header, the byte from bit 0 on, darkness.
Frame == <<TRUE, FALSE>> \o [i \in 1 .. BITS |-> i - 1 \in asked] \o <<FALSE>>

\* The handler reads bit_seq and bit_index while transmit may write them, and
\* toggles its own enable bit.  Still each call is sent whole, before the next one,
\* and leaves the transmitter off.
SentAsAsked ==
  /\ since = GAP /\ ~OCIE3A => sent \in {<<>>, Frame} /\ ~COM1C1
  /\ pc = "idle" => sent = SubSeq(Frame, 1, Len(sent))
  /\ OCIE3A => since < GAP

-----------------------------------------------------------------------------
(* The inductive invariant behind the theorem of SketchesProofs.           *)

TypeOK ==
  /\ bit_index \in 0 .. Sequence /\ OCIE3A \in BOOLEAN /\ COM1C1 \in BOOLEAN
  /\ pc \in {"idle", "index", "enable"} /\ since \in 0 .. GAP
  /\ asked \in Bytes /\ sent \in Seq(BOOLEAN)

\* The handler goes through bit_seq with what it has sent, in time for the next call.
IInv ==
  /\ TypeOK
  /\ pc # "idle" => ~OCIE3A /\ sent = <<>> /\ since <= 1
  /\ pc = "enable" => bit_index = 0
  /\ pc # "idle" \/ OCIE3A => bit_seq = {0} \cup {i + 2 : i \in asked}
  /\ OCIE3A => bit_index = Len(sent) /\ since <= Len(sent) + 1
  /\ ~OCIE3A => ~COM1C1 /\ (sent = <<>> \/ Len(sent) = Sequence + 1)
  /\ \A i \in 1 .. Len(sent) : sent[i] = Frame[i]

=============================================================================
