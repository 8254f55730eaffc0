------------------------------- MODULE Remote -------------------------------
(***************************************************************************)
(* The remote control of Project 1 (Phase 2/phase2.ino): four tasks that   *)
(* Scheduler calls one at a time, and the radio interrupt, on top of the   *)
(* driver of src/radio (Radio).  Its tasks wait for nobody but in          *)
(* Radio_Transmit, which spins until the interrupt handler ends the        *)
(* transmission.                                                           *)
(*                                                                         *)
(* Two facts about the hardware, external to the code, matter.  A pending  *)
(* interrupt is taken before the next SPI command begins.  And the radio   *)
(* receives only some time after CE has risen, 130 us and the length of a  *)
(* packet, by when the driver call that raised it has returned: settled    *)
(* says that this time has passed.  The commands of setup, which CE does   *)
(* not disable, take no longer than that: a packet may arrive between two  *)
(* of them, as settled allows, but none in the middle of one.              *)
(***************************************************************************)
EXTENDS Radio

VARIABLES
  pc,           \* what setup or the loop does next
  handler,      \* the radio interrupt handler, and the flags it has read
  settled,      \* CE has been high for long enough to receive
  rxflag,       \* the handler has seen packets
  txflag,       \* what send_packet_task shall send
  send_packet,  \* what it sends
  more          \* Radio_Receive returned RADIO_RX_MORE_PACKETS

app_vars == <<rxflag, txflag, send_packet, more>>

NoHandler == [at |-> "none", status |-> {}]

Init ==
  /\ RadioInit
  /\ pc = "radio_init" /\ handler = NoHandler /\ settled = FALSE
  /\ rxflag = 0 /\ txflag = "DONTSEND" /\ send_packet = "DONTSEND"
  /\ more = FALSE

\* pc after the first command of a call of the driver, up to the last one.
InSpi == {"payload", "status", "tx_pipe0", "tx_payload"}
\* pc in a call of the driver from the loop that does not spin.
InCall == InSpi \cup {"receive", "received", "tx_mode", "tx_ce"}

\* The code outside the handler goes from one command to the next.
Step(from, to) ==
  /\ pc = from /\ pc' = to /\ handler = NoHandler
  /\ UNCHANGED handler

\* An SPI command, or the pin CE.
Spi(from, to, c) ==
  /\ Step(from, to) /\ ~irq
  /\ chip' = c /\ settled' = (settled /\ c.ce)
  /\ UNCHANGED irq

KeepRadio == UNCHANGED <<radio_vars, settled>>
KeepDriver == UNCHANGED <<tx_address, received>>

-----------------------------------------------------------------------------
(* The chip and its interrupt.                                             *)

\* Time passes between two calls of the driver.
Settle ==
  /\ pc \notin InCall /\ chip.ce /\ ~settled
  /\ settled' = TRUE
  /\ UNCHANGED <<radio_vars, pc, handler, app_vars>>

Air ==
  /\ \/ settled /\ \E k \in Kinds, r \in Remotes : Receive(k, r)
     \/ StartTransmission \/ Acknowledged \/ RetriesExhausted
  /\ UNCHANGED <<pc, handler, settled, app_vars>>

\* ISR(INT4_vect), which Radio_Init enables, up to get_status.
INT4 ==
  /\ irq /\ handler = NoHandler /\ pc \notin {"radio_init"}
  /\ handler' = [at |-> "serve", status |-> chip.flags]
  /\ irq' = FALSE /\ chip' = CE(chip, FALSE) /\ settled' = FALSE
  /\ UNCHANGED <<transmit_lock, tx_address, received, pc, app_vars>>

On(flag) == flag \in handler.status

\* The radio keeps a packet whose retries ran out until it is flushed.
AfterRetries_Kept(c) == c                      \* BUG: not flushed
AfterRetries(c) == FLUSH_TX(c)

\* radio_rxhandler, and the end of a transmission.
Serve ==
  /\ handler.at = "serve" /\ handler' = [handler EXCEPT !.at = "clear"]
  /\ rxflag' = IF On("RX_DR") THEN 1 ELSE rxflag
  /\ IF On("TX_DS") \/ On("MAX_RT")
     THEN /\ transmit_lock' = 0
          /\ chip' = set_rx_mode(reset_pipe0_address(
                       IF On("TX_DS") THEN chip ELSE AfterRetries(chip)))
     ELSE UNCHANGED <<transmit_lock, chip>>
  /\ UNCHANGED <<irq, tx_address, received, pc, settled, txflag, send_packet, more>>

ClearFlags ==
  /\ handler.at = "clear" /\ handler' = NoHandler
  /\ chip' = CE([chip EXCEPT !.flags = {}], TRUE)
  /\ UNCHANGED <<irq, transmit_lock, tx_address, received, pc, settled, app_vars>>

INT4_vect == INT4 \/ Serve \/ ClearFlags

-----------------------------------------------------------------------------
(* setup and the tasks.                                                    *)

\* Radio_Init is one step: the radio has just been switched off and on, and hears
\* nothing before CE rises at its end.  From then on the interrupt handler may come
\* between two commands of setup.
Configure(from, to, c) ==
  Spi(from, to, c) /\ KeepDriver /\ UNCHANGED <<transmit_lock, app_vars>>

\* Of what Radio_Configure_Rx and Radio_Configure write, only the address of pipe 0
\* is modelled: not the acknowledgements, width and enabling of the pipe, not the
\* data rate and power.
setup ==
  \/ Step("radio_init", "rx_address") /\ Radio_Init /\ UNCHANGED <<settled, app_vars>>
  \/ Configure("rx_address", "rx_pipe", [chip EXCEPT !.p0 = Own])
  \/ Configure("rx_pipe", "data_rate", chip)
  \/ Configure("data_rate", "set_tx_addr", chip)
  \/ /\ Step("set_tx_addr", "loop") /\ ~irq
     /\ \E r \in Remotes : Radio_Set_Tx_Addr(r)
     /\ UNCHANGED <<settled, app_vars>>

\* The button is pressed: FIREGUN is the greatest of the flags.
check_button ==
  /\ Step("loop", "loop")
  /\ txflag' = "FIREGUN"
  /\ KeepRadio /\ UNCHANGED <<rxflag, send_packet, more>>

\* Asks for a move, whatever the joystick says, unless a shot is asked for.
handle_servo ==
  /\ Step("loop", "loop")
  /\ txflag # "FIREGUN" /\ txflag' = "MOVECOMMAND"
  /\ KeepRadio /\ UNCHANGED <<rxflag, send_packet, more>>

\* recv_packet_task calls Radio_Receive, which disables the radio first.
ReceiveCE_High == chip                         \* BUG: the radio is not disabled
ReceiveCE == CE(chip, FALSE)

CallReceive ==
  /\ Step("loop", "receive") /\ rxflag = 1
  /\ transmit_lock' = 0
  /\ chip' = ReceiveCE /\ settled' = (settled /\ chip'.ce)
  /\ KeepDriver /\ UNCHANGED <<irq, app_vars>>

ReceiveStatus ==
  /\ IF chip.rx = <<>> THEN Spi("receive", "received", CE(chip, TRUE))
                       ELSE Spi("receive", "payload", chip)
  /\ more' = FALSE
  /\ KeepDriver /\ UNCHANGED <<transmit_lock, rxflag, txflag, send_packet>>

ReceivePayload ==
  /\ Spi("payload", "status", R_RX_PAYLOAD(chip))
  /\ KeepDriver /\ UNCHANGED <<transmit_lock, app_vars>>

ReceiveResult ==
  /\ Spi("status", "received", CE(chip, TRUE))
  /\ more' = (chip.rx # <<>>)
  /\ transmit_lock' = 0
  /\ KeepDriver /\ UNCHANGED <<rxflag, txflag, send_packet>>

\* The rest of recv_packet_task: a packet cancels what was to be sent.
FlagAfterReceive_Clear == 0                    \* BUG: one packet per interrupt
FlagAfterReceive == IF more THEN rxflag ELSE 0

Received ==
  /\ Step("received", "loop")
  /\ rxflag' = FlagAfterReceive
  /\ txflag' = "DONTSEND"
  /\ KeepRadio /\ UNCHANGED <<send_packet, more>>

recv_packet_task == CallReceive \/ ReceiveStatus \/ ReceivePayload
                    \/ ReceiveResult \/ Received

\* send_packet_task calls Radio_Transmit(&send_packet, RADIO_WAIT_FOR_TX).  txflag
\* is left as it is: the packet is sent again each time until one is received.
LockSet_Late == "tx_ce"                        \* BUG: locked after the start
LockSet == "loop"
Locks(at) == transmit_lock' = IF at = LockSet THEN 1 ELSE transmit_lock

CallTransmit ==
  /\ Step("loop", "tx_mode") /\ txflag # "DONTSEND"
  /\ send_packet' = txflag
  /\ Locks("loop")
  /\ chip' = CE(chip, FALSE) /\ settled' = FALSE
  /\ KeepDriver /\ UNCHANGED <<irq, rxflag, txflag, more>>

Command(from, to, c) ==
  Spi(from, to, c) /\ Locks(from) /\ KeepDriver /\ UNCHANGED app_vars

Radio_Transmit ==
  \/ Command("tx_mode", "tx_pipe0", set_tx_mode(chip))
  \/ Command("tx_pipe0", "tx_payload", [chip EXCEPT !.p0 = tx_address])
  \/ Command("tx_payload", "tx_ce", W_TX_PAYLOAD(chip, send_packet))
  \/ Command("tx_ce", "wait", CE(chip, TRUE))

\* The spin on transmit_lock ends.
Transmitted ==
  /\ Step("wait", "loop") /\ transmit_lock = 0
  /\ KeepRadio /\ UNCHANGED app_vars

send_packet_task == CallTransmit \/ Radio_Transmit \/ Transmitted

Next ==
  \/ Air \/ Settle \/ INT4_vect \/ setup
  \/ check_button \/ handle_servo \/ recv_packet_task \/ send_packet_task

vars == <<radio_vars, pc, handler, settled, app_vars>>

Spec == Init /\ [][Next]_vars

-----------------------------------------------------------------------------

\* The driver does not mask interrupts and the handler uses the same SPI port.  It
\* never comes between two commands of a call from the loop: the radio is disabled
\* before the first, and the remote has no transmission under way when it calls the
\* driver.  (It may come between two commands of setup, and disturbs none of them.)
SpiUninterrupted == pc \in InSpi => handler = NoHandler /\ ~irq

\* rxflag is cleared after Radio_Receive has looked at the FIFO, with interrupts
\* enabled.  Still, between two tasks, it says exactly whether there are packets.
RxflagTellsPackets ==
  pc = "loop" /\ ~irq /\ handler = NoHandler => (rxflag = 1 <=> chip.rx # <<>>)

\* While send_packet_task spins on transmit_lock, a transmission is about to start
\* or under way, or its end is about to be handled: the spin has an end.
WaitHasEnd ==
  pc = "wait" /\ transmit_lock = 1 =>
    \/ irq \/ handler # NoHandler \/ chip.air # NoAddress
    \/ chip.ce /\ ~chip.prim_rx /\ chip.tx # <<>> /\ chip.flags = {}

\* What the radio holds to send is the order in force, once.  An order that a packet
\* has cancelled or that another has replaced never goes out later: before the spin of
\* Radio_Transmit ends, the packet has been acknowledged or the handler has flushed it.
NoStaleOrder == chip.tx # <<>> => chip.tx = <<txflag>>

-----------------------------------------------------------------------------
(* The inductive invariant behind the theorems of RemoteProofs.            *)

Orders == {"DONTSEND", "MOVECOMMAND", "FIREGUN"}
PCs == {"radio_init", "rx_address", "rx_pipe", "data_rate", "set_tx_addr", "loop", "wait"}
       \cup InCall

RemoteChips ==
  [ce : BOOLEAN, prim_rx : BOOLEAN,
   p0 : {Own, Default} \cup Remotes, tx_addr : {Default} \cup Remotes,
   rx : Seq(Packets), tx : Seq(Orders), flags : SUBSET Flags,
   air : {NoAddress, Default} \cup Remotes]

TypeOK ==
  /\ chip \in RemoteChips /\ tx_address \in {Default} \cup Remotes
  /\ irq \in BOOLEAN /\ transmit_lock \in 0 .. 1
  /\ pc \in PCs /\ settled \in BOOLEAN
  /\ handler \in [at : {"none", "serve", "clear"}, status : SUBSET Flags]
  /\ rxflag \in 0 .. 1 /\ txflag \in Orders /\ send_packet \in Orders
  /\ more \in BOOLEAN

\* The pin is low while a flag is up: the handler is to come, or has read the flags
\* and finds them unchanged, the radio being disabled until it ends.
FlagsServed ==
  /\ handler.at = "none" => handler = NoHandler /\ (irq <=> chip.flags # {})
  /\ handler.at # "none" =>
       /\ ~irq /\ chip.flags = handler.status /\ chip.flags # {}
       /\ ~chip.ce /\ ~settled /\ chip.air = NoAddress

\* No packet arrives inside a call of the driver.
DeafInCall == settled => chip.ce /\ pc \notin InCall

Idle == chip.prim_rx /\ chip.tx = <<>> /\ chip.air = NoAddress

\* Between the calls of Radio_Transmit nothing is transmitted; inside one, the lock
\* says whether the transmission is still to end.
OneTransmission ==
  /\ pc = "radio_init" => ~chip.ce /\ chip.air = NoAddress /\ chip.flags = {}
                          /\ chip.rx = <<>> /\ rxflag = 0
  /\ pc \notin InSpi \cup {"radio_init", "tx_ce", "wait"} =>
       Idle /\ chip.flags \subseteq {"RX_DR"}
  /\ pc \in {"payload", "status"} => Idle /\ chip.flags = {}
  /\ pc \in {"tx_mode", "tx_pipe0", "tx_payload"} => transmit_lock = 1
  /\ pc \in {"tx_pipe0", "tx_payload"} =>
       ~chip.prim_rx /\ chip.tx = <<>> /\ chip.air = NoAddress /\ chip.flags = {}
  /\ pc \in {"tx_ce", "wait"} /\ transmit_lock = 0 =>
       Idle /\ (handler.at # "clear" => chip.flags \subseteq {"RX_DR"})
  /\ pc \in {"tx_ce", "wait"} /\ transmit_lock = 1 =>
       /\ ~chip.prim_rx /\ handler.at # "clear" /\ "RX_DR" \notin chip.flags
       /\ IF chip.flags = {} THEN Len(chip.tx) = 1 /\ (pc = "wait" => chip.ce)
          ELSE chip.air = NoAddress /\ ("TX_DS" \in chip.flags => chip.tx = <<>>)

\* What rxflag knows of the FIFO, and the handler has still to tell.
PacketsTold ==
  /\ "RX_DR" \in chip.flags => chip.rx # <<>>
  /\ chip.rx # <<>> /\ ("RX_DR" \notin chip.flags \/ handler.at = "clear")
       /\ pc # "radio_init" => rxflag = 1
  /\ rxflag = 1 /\ pc \notin {"status", "received"} => chip.rx # <<>>
  /\ pc \in {"receive", "payload", "status", "received"} => rxflag = 1
  /\ pc = "received" => (more <=> chip.rx # <<>>)

\* The order in force does not change while it is being sent.
OrderInForce ==
  /\ pc \in {"tx_mode", "tx_pipe0", "tx_payload", "tx_ce", "wait"} => send_packet = txflag
  /\ chip.tx # <<>> => chip.tx = <<txflag>>

IInv ==
  /\ TypeOK /\ FlagsServed /\ DeafInCall /\ OneTransmission /\ PacketsTold
  /\ OrderInForce

=============================================================================
