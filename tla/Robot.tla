------------------------------- MODULE Robot --------------------------------
(***************************************************************************)
(* The program of a robot (Project3/RoombaVer3/RoombaVer3.c): r_main, the  *)
(* controller task that answers the packets of the radio, and the radio    *)
(* and infrared interrupt handlers, on top of the radio driver (Radio) and *)
(* of the two services of the kernel (RoombaKernel).                       *)
(*                                                                         *)
(* What matters of the kernel here: the controller is its one ROUND_ROBIN  *)
(* task.  A publication while it waits puts it on the processor at once,   *)
(* and the task that published, the idle task inside an interrupt handler, *)
(* goes on only when the controller waits again.  Timer ticks change       *)
(* nothing, and the timeout task of the program is never created.          *)
(*                                                                         *)
(* seen, tx_missed and rx_missed observe the program: no action depends on  *)
(* them.                                                                   *)
(***************************************************************************)
EXTENDS Radio

VARIABLES
  running,   \* the context on the processor: main, the controller or idle
  pc,        \* what r_main, then the controller does next
  isr,       \* per context, the radio interrupt handler on its stack
  services,  \* the services created by r_main: radio_receive_, ir_receive_
  packet,    \* the packet the controller works on
  more,      \* Radio_Receive returned RADIO_RX_MORE_PACKETS
  taken,     \* packets taken out of the radio
  seen,      \* packets received when the controller last looked at the FIFO
  current_roomba_status, last_ir_value,
  moving,    \* the last command sent to the Roomba was one to drive
  error_msg, \* the code OS_Abort was called with, or "NONE"
  tx_missed, \* TX_DS or MAX_RT was cleared by a handler that had not read it
  rx_missed  \* RX_DR was cleared with a packet in the FIFO that came after
             \* the controller's last look

app_vars == <<services, packet, more, taken, seen, current_roomba_status,
              last_ir_value, moving>>
missed   == <<tx_missed, rx_missed>>
vars == <<radio_vars, running, pc, isr, app_vars, error_msg, missed>>

Contexts == {"main", "controller", "idle"}
NoPacket  == [kind |-> "none", sender |-> NoAddress]
NoHandler == [at |-> "none", status |-> {}]
\* What the program makes of an infrared byte: a hit, its own wake-up, any other.
IrValues == {"SHOOT", "WAKE", "OTHER"}

\* pc inside a call of the driver, from its first command to its last.
InDriver == {"radio_init", "configure_rx", "payload", "status", "set_tx_addr",
             "transmit", "tx_mode", "tx_pipe0", "tx_payload", "tx_ce"}

PC == InDriver \cup {"init_radio_service", "init_ir_service", "create",
                     "roomba_init", "subscribe", "waiting", "woken", "receive",
                     "handle", "send"}

TypeOK ==
  /\ RadioTypeOK
  /\ running \in Contexts /\ pc \in PC
  /\ isr \in [Contexts -> [at : {"none", "rx", "tx", "mode", "clear", "ce"},
                           status : SUBSET Flags]]
  /\ services \subseteq {"radio", "ir"}
  /\ packet \in Packets \cup {NoPacket}
  /\ more \in BOOLEAN
  /\ taken \in 0 .. received /\ seen \in 0 .. received
  /\ current_roomba_status \in {"ROOMBA_ALIVE", "ROOMBA_DEAD"}
  /\ last_ir_value \in IrValues
  /\ moving \in BOOLEAN
  /\ error_msg \in {"NONE", "INVALID_SERVICE"}
  /\ tx_missed \in BOOLEAN /\ rx_missed \in BOOLEAN

Init ==
  /\ RadioInit
  /\ running = "main" /\ pc = "radio_init"
  /\ isr = [c \in Contexts |-> NoHandler]
  /\ services = {}
  /\ packet = NoPacket /\ more = FALSE /\ taken = 0 /\ seen = 0
  /\ current_roomba_status = "ROOMBA_ALIVE" /\ last_ir_value = "OTHER"
  /\ moving = FALSE
  /\ error_msg = "NONE" /\ tx_missed = FALSE /\ rx_missed = FALSE

Alive == error_msg = "NONE"

\* The code of the running context, not of a handler on its stack, is at p.
At(p) == Alive /\ running # "idle" /\ pc = p /\ isr[running] = NoHandler

\* r_main initializes the radio with interrupts disabled.
Enabled_I == Alive /\ isr[running] = NoHandler
             /\ pc \notin {"radio_init", "configure_rx"}

-----------------------------------------------------------------------------
(* r_main.                                                                 *)

MainStep(from, to) == At(from) /\ pc' = to
                      /\ UNCHANGED <<running, isr, error_msg, missed>>
KeepApp == UNCHANGED <<packet, more, taken, seen, current_roomba_status,
                       last_ir_value, moving>>

r_main ==
  \/ MainStep("radio_init", "configure_rx") /\ Radio_Init
       /\ KeepApp /\ UNCHANGED services
  \/ MainStep("configure_rx", "init_radio_service") /\ Radio_Configure_Rx
       /\ KeepApp /\ UNCHANGED services
  \/ MainStep("init_radio_service", "init_ir_service")
       /\ services' = services \cup {"radio"} /\ KeepApp /\ UNCHANGED radio_vars
  \/ MainStep("init_ir_service", "create")
       /\ services' = services \cup {"ir"} /\ KeepApp /\ UNCHANGED radio_vars

\* Task_Create_RR(rr_roomba_controler) and Task_Terminate.
StartController ==
  /\ At("create")
  /\ running' = "controller" /\ pc' = "roomba_init"
  /\ UNCHANGED <<radio_vars, isr, app_vars, error_msg, missed>>

-----------------------------------------------------------------------------
(* The interrupt handlers.                                                 *)

Handler(at, next) ==
  /\ Alive /\ isr[running].at = at
  /\ isr' = [isr EXCEPT ![running] = next]

Status == isr[running].status
On(flag) == flag \in Status

\* Service_Publish(radio_receive_service): a NULL handle aborts; the waiting
\* controller runs at once.
Publish ==
  IF "radio" \notin services
  THEN error_msg' = "INVALID_SERVICE" /\ UNCHANGED <<running, pc>>
  ELSE /\ IF pc = "waiting"
          THEN running' = "controller" /\ pc' = "woken"
          ELSE UNCHANGED <<running, pc>>
       /\ UNCHANGED error_msg

\* ISR(INT4_vect) begins: CE_LOW and get_status.
AtEntry_Clear(c) == [CE(c, FALSE) EXCEPT !.flags = {}]  \* BUG: flags cleared first
AtEntry(c) == CE(c, FALSE)

INT4 ==
  /\ Enabled_I /\ irq
  /\ irq' = FALSE
  /\ isr' = [isr EXCEPT ![running] = [at |-> "rx", status |-> chip.flags]]
  /\ chip' = AtEntry(chip)
  /\ UNCHANGED <<transmit_lock, tx_address, received, running, pc, app_vars,
                 error_msg, missed>>

RxHandler ==
  /\ Handler("rx", [at |-> "tx", status |-> Status])
  /\ IF On("RX_DR") THEN Publish ELSE UNCHANGED <<running, pc, error_msg>>
  /\ UNCHANGED <<radio_vars, app_vars, missed>>

\* TX_DS, or else MAX_RT with the flush: the transmission is over.
TxHandler ==
  /\ Handler("tx", [at |-> "mode", status |-> Status])
  /\ IF On("TX_DS") \/ On("MAX_RT")
     THEN /\ transmit_lock' = 0
          /\ chip' = reset_pipe0_address(IF On("TX_DS") THEN chip ELSE FLUSH_TX(chip))
     ELSE UNCHANGED <<chip, transmit_lock>>
  /\ UNCHANGED <<irq, tx_address, received, running, pc, app_vars, error_msg,
                 missed>>

RxMode ==
  /\ Handler("mode", [at |-> "clear", status |-> Status])
  /\ chip' = IF On("TX_DS") \/ On("MAX_RT") THEN set_rx_mode(chip) ELSE chip
  /\ UNCHANGED <<irq, transmit_lock, tx_address, received, running, pc, app_vars,
                 error_msg, missed>>

\* All three flags are cleared, the ones raised since get_status as well.
Cleared_Read == Status                            \* the flags the handler read
Cleared == Flags

ClearFlags ==
  /\ Handler("clear", [at |-> "ce", status |-> Status])
  /\ chip' = [chip EXCEPT !.flags = @ \ Cleared]
  /\ tx_missed' = (tx_missed \/ (chip.flags \cap Cleared) \ (Status \cup {"RX_DR"}) # {})
  /\ rx_missed' = (rx_missed \/ (chip.rx # <<>> /\ received > seen))
  /\ UNCHANGED <<irq, transmit_lock, tx_address, received, running, pc, app_vars,
                 error_msg>>

EndOfInterrupt ==
  /\ Handler("ce", NoHandler)
  /\ chip' = CE(chip, TRUE)
  /\ UNCHANGED <<irq, transmit_lock, tx_address, received, running, pc, app_vars,
                 error_msg, missed>>

INT4_vect == INT4 \/ RxHandler \/ TxHandler \/ RxMode \/ ClearFlags \/ EndOfInterrupt

\* ir_rxhandler, called by the interrupt that samples the last bit of a byte.
\* Nobody waits on ir_receive_service.
ir_rxhandler(v) ==
  /\ Enabled_I
  /\ IF "ir" \notin services
     THEN error_msg' = "INVALID_SERVICE"
          /\ UNCHANGED <<current_roomba_status, last_ir_value>>
     ELSE /\ CASE last_ir_value = "SHOOT" ->
                    current_roomba_status' = "ROOMBA_DEAD" /\ UNCHANGED last_ir_value
               [] last_ir_value = "WAKE" ->
                    current_roomba_status' = "ROOMBA_ALIVE" /\ UNCHANGED last_ir_value
               [] OTHER -> last_ir_value' = v /\ UNCHANGED current_roomba_status
          /\ UNCHANGED error_msg
  /\ UNCHANGED <<radio_vars, running, pc, isr, services, packet, more, taken, seen,
                 moving, missed>>

-----------------------------------------------------------------------------
(* The controller task.                                                    *)

Go(from, to) == At(from) /\ pc' = to
                /\ UNCHANGED <<running, isr, services, last_ir_value, error_msg,
                               missed>>
KeepPacket == UNCHANGED <<packet, more, taken, seen>>
KeepRoomba == UNCHANGED <<current_roomba_status, moving>>

\* Roomba_Init, long before the first packet is expected.
RoombaInit == Go("roomba_init", "subscribe")
              /\ KeepPacket /\ KeepRoomba /\ UNCHANGED radio_vars

\* Service_Subscribe: the idle task goes on where it was.  packet and result are
\* local to the turn of the loop that ends.
Subscribe ==
  /\ At("subscribe") /\ pc' = "waiting" /\ running' = "idle"
  /\ packet' = NoPacket /\ more' = FALSE
  /\ UNCHANGED <<radio_vars, isr, services, taken, seen, current_roomba_status,
                 last_ir_value, moving, error_msg, missed>>

\* A dead robot is stopped, once for each time the controller is woken.
StopIfDead ==
  /\ Go("woken", "receive")
  /\ moving' = (moving /\ current_roomba_status = "ROOMBA_ALIVE")
  /\ KeepPacket /\ UNCHANGED <<radio_vars, current_roomba_status>>

\* Radio_Receive up to the status: pipe 7 stands for an empty FIFO.
ReceiveStatus ==
  /\ At("receive")
  /\ transmit_lock' = 0 /\ seen' = received
  /\ IF chip.rx = <<>>
     THEN pc' = "subscribe" /\ UNCHANGED chip
     ELSE pc' = "payload" /\ chip' = CE(chip, FALSE)
  /\ UNCHANGED <<irq, tx_address, received, running, isr, services, packet, more,
                 taken, current_roomba_status, last_ir_value, moving, error_msg,
                 missed>>

ReceivePayload ==
  /\ Go("payload", "status")
  /\ packet' = Head(chip.rx) /\ taken' = taken + 1
  /\ chip' = R_RX_PAYLOAD(chip)
  /\ KeepRoomba /\ UNCHANGED <<irq, transmit_lock, tx_address, received, more, seen>>

\* RADIO_RX_MORE_PACKETS or RADIO_RX_SUCCESS.
MorePackets_Never == FALSE                        \* BUG: one packet per wake-up
MorePackets_Always == TRUE                        \* BUG: status not read again
MorePackets == chip.rx # <<>>

ReceiveResult ==
  /\ Go("status", "handle")
  /\ more' = MorePackets /\ seen' = received
  /\ transmit_lock' = 0
  /\ chip' = CE(chip, TRUE)
  /\ KeepRoomba /\ UNCHANGED <<irq, tx_address, received, packet, taken>>

NextPacket == IF more THEN "receive" ELSE "subscribe"

\* handleRoombaPacket, handleIRPacket and handleStatusPacket, up to the reply.
Handle ==
  /\ At("handle")
  /\ \/ packet.kind = "FILTERED" /\ pc' = NextPacket /\ UNCHANGED current_roomba_status
     \/ /\ packet.kind = "COMMAND"
        /\ pc' = IF current_roomba_status = "ROOMBA_ALIVE" THEN "send" ELSE "set_tx_addr"
        /\ UNCHANGED current_roomba_status
     \/ /\ packet.kind \in {"IR_COMMAND", "STATUS"}
        /\ pc' = "set_tx_addr"
        /\ \/ UNCHANGED current_roomba_status
           \/ packet.kind = "STATUS" /\ current_roomba_status' = "ROOMBA_ALIVE"
  /\ UNCHANGED <<radio_vars, running, isr, services, packet, more, taken,
                 seen, last_ir_value, moving, error_msg, missed>>

\* The bytes of the command, by the serial port.
SendCommand ==
  /\ Go("send", "set_tx_addr") /\ moving' = TRUE
  /\ KeepPacket /\ UNCHANGED <<radio_vars, current_roomba_status>>

\* The reply goes to the sender of the packet.
SetTxAddr ==
  /\ Go("set_tx_addr", "transmit") /\ Radio_Set_Tx_Addr(packet.sender)
  /\ KeepPacket /\ KeepRoomba

\* Radio_Transmit(packet, RADIO_RETURN_ON_TX), a command at a time.
Command(from, to, c) ==
  /\ Go(from, to) /\ chip' = c
  /\ transmit_lock' = IF from = "transmit" THEN 1 ELSE transmit_lock
  /\ KeepPacket /\ KeepRoomba /\ UNCHANGED <<irq, tx_address, received>>

Radio_Transmit ==
  \/ Command("transmit", "tx_mode", CE(chip, FALSE))
  \/ Command("tx_mode", "tx_pipe0", set_tx_mode(chip))
  \/ Command("tx_pipe0", "tx_payload", [chip EXCEPT !.p0 = tx_address])
  \/ Command("tx_payload", "tx_ce", W_TX_PAYLOAD(chip, packet))
  \/ Command("tx_ce", NextPacket, CE(chip, TRUE))

Controller ==
  \/ RoombaInit \/ Subscribe \/ StopIfDead
  \/ ReceiveStatus \/ ReceivePayload \/ ReceiveResult
  \/ Handle \/ SendCommand \/ SetTxAddr \/ Radio_Transmit

Air == Alive /\ ChipStep /\ UNCHANGED <<running, pc, isr, app_vars, error_msg,
                                        missed>>

Next ==
  \/ r_main \/ StartController \/ INT4_vect \/ Controller \/ Air
  \/ \E v \in IrValues : ir_rxhandler(v)

Spec == Init /\ [][Next]_vars

\* The processor executes the code of the running context and takes interrupts
\* that are enabled: both make progress.  The chip and the air need not.
FairSpec == Spec /\ WF_vars(INT4_vect) /\ WF_vars(Controller)
                 /\ WF_vars(r_main) /\ WF_vars(StartController)

-----------------------------------------------------------------------------

\* The driver does not mask interrupts, and the handler uses the same SPI port
\* and the same registers.  Still no handler starts inside a call of the driver:
\* the controller only runs while the handler that woke it is suspended, and the
\* radio's pin does not rise before that handler clears the flags.
DriverUninterrupted ==
  pc \in InDriver => isr["controller"] = NoHandler /\ isr["main"] = NoHandler

\* Everything is in its range, the FIFOs and the pipe of the packet to receive
\* included: the controller never finds the FIFO empty, since a publication is not
\* repeated for packets that it has already drained.  (Radio_Receive would then
\* index rx_pipe_widths with 7, past its end.)
WokenWithPacket == TypeOK /\ (pc = "receive" => chip.rx # <<>>)

\* A raised flag is never left without an interrupt to come or a handler that is
\* about to clear it: the pin has to rise for the next edge, which is why the
\* handler clears flags it has not read.
NoStuckFlag ==
  Alive /\ chip.flags # {} /\ pc # "radio_init" =>
    irq \/ \E c \in Contexts : isr[c].at \in {"rx", "tx", "mode", "clear"}

\* No transmission is under way, no interrupt is pending or being handled, and
\* the controller waits.
Quiet ==
  /\ Alive /\ pc = "waiting" /\ \A c \in Contexts : isr[c] = NoHandler
  /\ ~irq /\ chip.flags = {} /\ chip.air = NoAddress
  /\ chip.prim_rx \/ chip.tx = <<>>

\* Whenever the robot comes to rest the radio listens at the robot's address, if
\* the handler has never cleared a flag of the transmitter without having read it.
ListensWhenQuiet == Quiet /\ ~tx_missed => Listening

\* Every packet the radio accepts is taken, whatever packets arrive while the
\* controller works: a wake-up is only lost when flags are cleared with a packet
\* in the FIFO, one that came after the last Radio_Receive, or before the
\* controller first waited.
AcceptedIsTaken ==
  \A n \in 1 .. MaxPackets :
    received >= n ~> (taken >= n \/ rx_missed \/ ~Alive)

\* "The configuration for pipe 0 will be changed while the radio is transmitting
\* [...] It will be changed back when the transmission is completed" (radio.h:84).
Pipe0ChangedBack == Quiet => chip.p0 = Own

-----------------------------------------------------------------------------
(* The inductive invariant behind the theorems of RobotProofs.             *)

MainPC == {"radio_init", "configure_rx", "init_radio_service", "init_ir_service",
           "create"}
\* The controller has taken a packet out and may still answer it.
Replying == {"handle", "send", "set_tx_addr", "transmit", "tx_mode", "tx_pipe0",
             "tx_payload", "tx_ce"}
InHandler(c) == isr[c].at \in {"rx", "tx", "mode", "clear"}
TxFlags == {"TX_DS", "MAX_RT"}

\* Who is on the processor and what lies under it: the controller works while the
\* handler that woke it is suspended in the idle task, and is itself interrupted
\* only before it has ever waited.
Stacked ==
  /\ running = "idle" <=> pc = "waiting"
  /\ running = "main" <=> pc \in MainPC
  /\ \A c \in Contexts : isr[c].at = "none" => isr[c] = NoHandler
  /\ isr["main"] # NoHandler =>
       running = "main" /\ pc \notin {"radio_init", "configure_rx"}
  /\ isr["controller"] # NoHandler =>
       running = "controller" /\ isr["idle"] = NoHandler
  /\ running = "main" => isr["idle"] = NoHandler
  /\ running = "controller" =>
       IF isr["idle"] = NoHandler THEN pc \in {"roomba_init", "subscribe"}
       ELSE isr["idle"].at = "tx" /\ pc # "roomba_init"

\* The pin is low from the edge on until the handler clears the flags, so that
\* there is no second edge.
PinLow ==
  /\ irq => chip.flags # {}
  /\ \A c \in Contexts : InHandler(c) =>
       ~irq /\ isr[c].status # {} /\ isr[c].status \subseteq chip.flags

\* A wake-up to come, or under way, finds a packet.
PacketWaits ==
  /\ taken + Len(chip.rx) = received
  /\ "RX_DR" \in chip.flags /\ isr["idle"].at \notin {"tx", "mode", "clear"} =>
       chip.rx # <<>>
  /\ pc \in {"woken", "receive", "payload"} => chip.rx # <<>>
  /\ pc \in Replying /\ more => chip.rx # <<>>
  /\ pc \in Replying \cup {"status"} => packet \in Packets

\* The radio comes back from transmission: its end is still to come or to be read.
ComesBack ==
  /\ pc = "radio_init" => chip.flags = {} /\ chip.rx = <<>>
                          /\ ~chip.ce /\ ~chip.prim_rx /\ chip.air = NoAddress
  /\ chip.air # NoAddress => chip.tx # <<>>
  /\ chip.prim_rx /\ pc # "configure_rx" => chip.p0 = Own
  /\ pc = "tx_pipe0" => ~chip.prim_rx
  /\ \A c \in Contexts : isr[c].status \cap TxFlags # {} =>
       /\ isr[c].at = "mode" => chip.p0 = Own
       /\ isr[c].at = "clear" => chip.prim_rx
  /\ ~tx_missed /\ ~chip.prim_rx /\ pc \notin {"radio_init", "tx_pipe0", "tx_payload"} =>
       chip.tx # <<>> \/ chip.flags \cap TxFlags # {}
  /\ ~chip.ce => pc = "radio_init" \/ \E c \in Contexts : isr[c] # NoHandler

IInv == TypeOK /\ Stacked /\ PinLow /\ NoStuckFlag /\ PacketWaits /\ ComesBack

=============================================================================
