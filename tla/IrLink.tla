------------------------------- MODULE IrLink -------------------------------
(***************************************************************************)
(* The infrared link of the robots (ir/ir.c): one robot sends a byte, a    *)
(* second one receives it, and may itself send at any moment.  Time passes *)
(* in half bits (250 us).  A byte is the set of its bits that are 1, sent  *)
(* from bit 0 on as carrier, after a bit of carrier and one of silence and *)
(* before one of silence.  The demodulator pulls the input pin low while   *)
(* there is carrier, so the rising edge that INT5 waits for is its end.    *)
(*                                                                         *)
(* The receiver's handlers run at once, except that it takes no interrupt  *)
(* while it sends.  When the carrier changes at the very moment of a       *)
(* sample either value may be read.  An operator marked BUG is a variant   *)
(* of the one that follows it, used to check that a property rules it out. *)
(***************************************************************************)
EXTENDS Integers, Sequences

CONSTANT BITS      \* bits of a byte

IrAssumption == BITS \in Nat \ {0}

Bytes     == SUBSET (0 .. BITS - 1)
HalfBits  == 2 * (BITS + 3)     \* the length of a transmission
Idle      == HalfBits           \* nothing is being sent

VARIABLES
  data,          \* what the sender sends, or sent last
  pos,           \* the half bit it has reached, or Idle
  sending,       \* half bits the receiver will still be sending for
  is_receiving, currentBit, currentByte, outputByte,
  wait,          \* half bits until the next match of timer 3
  heard,         \* bytes handed to ir_rxhandler since the transmission began
  clean          \* the receiver was idle then and has not sent since

receiver == <<is_receiving, currentBit, currentByte, outputByte, wait>>
vars     == <<data, pos, sending, receiver, heard, clean>>

Init ==
  /\ data = {} /\ pos = Idle /\ sending = 0
  /\ is_receiving = FALSE /\ currentBit = 0 /\ currentByte = {} /\ outputByte = {}
  /\ wait = 0
  /\ heard = <<>> /\ clean = FALSE

\* IR_transmit of the sender: mark, space, the bits, space.
Carrier(p) == p < Idle /\ LET cell == p \div 2
                          IN  cell = 0 \/ cell - 2 \in data

Transmit(byte) ==
  /\ pos = Idle /\ pos' = 0 /\ data' = byte
  /\ heard' = <<>> /\ clean' = (~is_receiving /\ sending = 0)
  /\ UNCHANGED <<sending, receiver>>

\* IR_transmit of the receiver: disable_interrupt ends its reception.
IR_transmit ==
  /\ sending = 0 /\ sending' = HalfBits
  /\ is_receiving' = FALSE /\ wait' = 0 /\ clean' = FALSE
  /\ UNCHANGED <<data, pos, currentBit, currentByte, outputByte, heard>>

FirstSample_Early == 1                  \* BUG: half a bit after the edge
FirstSample == 3                        \* one and a half bits after the edge

\* INT5_vect
StartReception ==
  /\ is_receiving' = TRUE /\ currentBit' = 0 /\ currentByte' = {}
  /\ wait' = FirstSample

\* TIMER3_COMPA_vect.  The last sample clears an edge that waits for INT5, but not
\* one that comes a moment later.
Sample(on, edge) ==
  LET byte == IF on THEN currentByte \cup {currentBit} ELSE currentByte
  IN  IF currentBit + 1 < BITS
      THEN /\ currentByte' = byte /\ currentBit' = currentBit + 1 /\ wait' = 2
           /\ UNCHANGED <<is_receiving, outputByte, heard>>
      ELSE /\ outputByte' = byte /\ heard' = Append(heard, byte)
           /\ \/ edge /\ StartReception
              \/ /\ is_receiving' = FALSE /\ wait' = 0
                 /\ currentByte' = byte /\ currentBit' = BITS

\* An edge while a byte is being received is ignored.
HalfBit ==
  LET next == IF pos = Idle THEN Idle ELSE pos + 1
      edge == Carrier(pos) /\ ~Carrier(next)
  IN  /\ pos' = next
      /\ sending' = IF sending > 0 THEN sending - 1 ELSE 0
      /\ UNCHANGED <<data, clean>>
      /\ IF sending > 0 THEN UNCHANGED <<receiver, heard>>
         ELSE IF ~is_receiving /\ edge
              THEN StartReception /\ UNCHANGED <<outputByte, heard>>
         ELSE IF wait = 1 THEN \E on \in {Carrier(pos), Carrier(next)} : Sample(on, edge)
         ELSE /\ wait' = IF wait > 0 THEN wait - 1 ELSE 0
              /\ UNCHANGED <<is_receiving, currentBit, currentByte, outputByte, heard>>

Next == HalfBit \/ IR_transmit \/ \E byte \in Bytes : Transmit(byte)

Spec == Init /\ [][Next]_vars

-----------------------------------------------------------------------------

\* The end of a last bit that is 1 is the beginning of another byte, all zeros.
Echoed == IF BITS - 1 \in data THEN <<data, {}>> ELSE <<data>>

\* A receiver that listens from the beginning on hands the byte it was sent to
\* its handler once, no later than the sender ends, and after a byte whose last
\* bit is 1 (as IR_SHOOT has) a 0 that nobody sent, and no other.
HeardAsSent ==
  clean => /\ heard \in {<<>>, <<data>>, Echoed}
           /\ pos = Idle => heard # <<>>
           /\ pos = Idle /\ ~is_receiving => heard = Echoed

-----------------------------------------------------------------------------
(* The inductive invariant behind the theorem of SketchesProofs.           *)

TypeOK ==
  /\ data \in Bytes /\ pos \in 0 .. Idle /\ sending \in 0 .. HalfBits
  /\ is_receiving \in BOOLEAN /\ clean \in BOOLEAN
  /\ IF is_receiving THEN wait \in 1 .. 3 /\ currentBit \in 0 .. BITS - 1
                          /\ sending = 0
     ELSE wait = 0

\* The five phases of a reception: before the first edge, the bits, the end, and,
\* after a last bit that is 1, the bits of the echo and its end.
BeforeEdge == ~is_receiving /\ heard = <<>> /\ pos \in 0 .. 1

InByte ==
  /\ is_receiving /\ heard = <<>>
  /\ pos = 2 * currentBit + 5 - wait /\ (wait = 3 => currentBit = 0)
  /\ currentByte = {i \in data : i < currentBit}

AfterByte ==
  /\ ~is_receiving /\ heard = <<data>>
  /\ pos >= 2 * BITS + 3 /\ (pos > 2 * BITS + 3 => BITS - 1 \notin data)

InEcho ==
  /\ is_receiving /\ heard = <<data>> /\ currentByte = {}
  /\ pos >= 2 * BITS + 4 /\ BITS - 1 \in data

AfterEcho ==
  ~is_receiving /\ heard = <<data, {}>> /\ pos >= 2 * BITS + 4 /\ BITS - 1 \in data

IInv ==
  /\ TypeOK
  /\ clean => /\ sending = 0
              /\ BeforeEdge \/ InByte \/ AfterByte \/ InEcho \/ AfterEcho

=============================================================================
