------------------------------- MODULE Radio --------------------------------
(***************************************************************************)
(* The nRF24L01 transceiver and its driver (Project3/RoombaVer3/radio):    *)
(* the registers, FIFOs and interrupt flags of the chip, and what each SPI *)
(* command of radio.c does to them.  One SPI command is one step of the    *)
(* module that extends this one: interrupt handlers and the chip itself    *)
(* act between two commands.                                               *)
(*                                                                         *)
(* The chip is external.  It receives while CE is high and PRIM_RX is set, *)
(* on pipe 0 and only with room in its FIFO, and acknowledges what it      *)
(* receives.  It transmits the head of the TX FIFO to TX_ADDR until an     *)
(* acknowledgement reaches pipe 0 (TX_DS) or the retries run out (MAX_RT). *)
(***************************************************************************)
EXTENDS Integers, SequencesExt

CONSTANTS
  Own,        \* the address this station listens at
  Remotes,    \* addresses of the stations that send it packets
  Kinds,      \* kinds of packets, as far as the application tells them apart
  MaxPackets  \* bound: packets received from the air

Packets == [kind : Kinds, sender : Remotes]
FIFO_SIZE == 3
Flags == {"RX_DR", "TX_DS", "MAX_RT"}
Default == "e7e7e7e7e7"                 \* pipe 0 and TX_ADDR after power-on
NoAddress == "none"

ASSUME RadioAssumption ==
  MaxPackets \in Nat /\ NoAddress \notin Remotes \cup {Own}

VARIABLES
  chip,           \* the registers, pins and FIFOs of the radio
  irq,            \* a falling edge of the radio's interrupt pin is latched (INTF4)
  transmit_lock,  \* the driver is transmitting
  tx_address,     \* where it transmits to
  received        \* how many packets the chip has received

radio_vars == <<chip, irq, transmit_lock, tx_address, received>>

Chips == [ce : BOOLEAN, prim_rx : BOOLEAN,
          p0 : {Own, Default} \cup Remotes, tx_addr : {Default} \cup Remotes,
          rx : Seq(Packets), tx : Seq(Packets), flags : SUBSET Flags,
          air : {NoAddress, Default} \cup Remotes]

RadioTypeOK ==
  /\ chip \in Chips
  /\ Len(chip.rx) <= FIFO_SIZE /\ Len(chip.tx) <= FIFO_SIZE
  /\ irq \in BOOLEAN
  /\ transmit_lock \in 0 .. 1
  /\ tx_address \in {Default} \cup Remotes
  /\ received \in 0 .. MaxPackets

\* The robot switches the radio off and on before it initializes the driver.
RadioInit ==
  /\ chip = [ce |-> FALSE, prim_rx |-> FALSE, p0 |-> Default, tx_addr |-> Default,
             rx |-> <<>>, tx |-> <<>>, flags |-> {}, air |-> NoAddress]
  /\ irq = FALSE
  /\ transmit_lock = 0
  /\ tx_address = Default
  /\ received = 0

-----------------------------------------------------------------------------
(* The chip.                                                               *)

\* The pin falls when the first flag is set: INT4 reports edges (ISC41).
Raise(c, flag) ==
  /\ chip' = [c EXCEPT !.flags = @ \cup {flag}]
  /\ irq' = (irq \/ c.flags = {})

Listening == chip.ce /\ chip.prim_rx /\ chip.p0 = Own

Receive(kind, sender) ==
  /\ Listening /\ Len(chip.rx) < FIFO_SIZE /\ received < MaxPackets
  /\ received' = received + 1
  /\ Raise([chip EXCEPT !.rx = Append(@, [kind |-> kind, sender |-> sender])],
           "RX_DR")
  /\ UNCHANGED <<transmit_lock, tx_address>>

StartTransmission ==
  /\ chip.ce /\ ~chip.prim_rx /\ chip.tx # <<>> /\ chip.air = NoAddress
  /\ "MAX_RT" \notin chip.flags
  /\ chip' = [chip EXCEPT !.air = chip.tx_addr]
  /\ UNCHANGED <<irq, transmit_lock, tx_address, received>>

\* Once on the air a packet does not need CE any more.  The acknowledgement
\* comes from the address the packet went to.
Acknowledged ==
  /\ chip.air # NoAddress /\ chip.p0 = chip.air
  /\ Raise([chip EXCEPT !.tx = Tail(@), !.air = NoAddress], "TX_DS")
  /\ UNCHANGED <<transmit_lock, tx_address, received>>

RetriesExhausted ==
  /\ chip.air # NoAddress
  /\ Raise([chip EXCEPT !.air = NoAddress], "MAX_RT")
  /\ UNCHANGED <<transmit_lock, tx_address, received>>

ChipStep ==
  \/ \E k \in Kinds, r \in Remotes : Receive(k, r)
  \/ StartTransmission \/ Acknowledged \/ RetriesExhausted

-----------------------------------------------------------------------------
(* The SPI commands of the driver, as functions of the chip's state.  To   *)
(* leave transmit mode, or to empty the FIFO, ends a transmission.         *)

set_rx_mode(c) == [c EXCEPT !.prim_rx = TRUE, !.air = NoAddress]
set_tx_mode(c) == [c EXCEPT !.prim_rx = FALSE]

\* reset_pipe0_address: pipe 0 is enabled from Radio_Configure_Rx on.
reset_pipe0_address_Never(c) == c                          \* BUG: not reset
reset_pipe0_address(c) == [c EXCEPT !.p0 = Own]

FLUSH_TX(c) == [c EXCEPT !.tx = <<>>, !.air = NoAddress]

\* A full FIFO does not take another payload.
W_TX_PAYLOAD(c, p) ==
  [c EXCEPT !.tx = IF Len(@) < FIFO_SIZE THEN Append(@, p) ELSE @]

R_RX_PAYLOAD(c) == [c EXCEPT !.rx = Tail(@)]

CE(c, level) == [c EXCEPT !.ce = level]

\* configure_registers powers the radio up as a receiver, with no old interrupt
\* and no old data.
configure_registers(c) ==
  [c EXCEPT !.prim_rx = TRUE, !.flags = {}, !.rx = <<>>, !.tx = <<>>]

\* Radio_Init: INTF4 is cleared by EIFR.  Interrupts are disabled around it.
Radio_Init ==
  /\ transmit_lock' = 0
  /\ chip' = CE(configure_registers(CE(chip, FALSE)), TRUE)
  /\ irq' = FALSE
  /\ UNCHANGED <<tx_address, received>>

\* Radio_Configure_Rx(RADIO_PIPE_0, Own, ENABLE).
Radio_Configure_Rx ==
  /\ chip' = [chip EXCEPT !.p0 = Own]
  /\ UNCHANGED <<irq, transmit_lock, tx_address, received>>

Radio_Set_Tx_Addr(a) ==
  /\ tx_address' = a
  /\ chip' = [chip EXCEPT !.tx_addr = a]
  /\ UNCHANGED <<irq, transmit_lock, received>>

=============================================================================
