---------------------------- MODULE RemoteProofs ----------------------------
(***************************************************************************)
(* The safety of the remote control for any number of stations, kinds of   *)
(* packets and packets: one lemma per action shows that it preserves IInv. *)
(***************************************************************************)
EXTENDS Remote, SequenceTheorems, TLAPS

-----------------------------------------------------------------------------
(* The radio and its interrupt.                                            *)

LEMMA SettleInv == IInv /\ Settle => IInv'
  BY DEF IInv, Settle, radio_vars, app_vars, TypeOK, FlagsServed, DeafInCall, InCall,
         InSpi, OneTransmission, Idle, PacketsTold, OrderInForce

LEMMA ReceiveInv ==
  ASSUME IInv, settled, NEW k \in Kinds, NEW r \in Remotes, Receive(k, r),
         UNCHANGED <<pc, handler, settled, app_vars>>
  PROVE  IInv'
<1> DEFINE p == [kind |-> k, sender |-> r]
           d == [chip EXCEPT !.rx = Append(@, p)]
<1>1. /\ chip.ce /\ chip.prim_rx
      /\ chip' = [d EXCEPT !.flags = d.flags \cup {"RX_DR"}]
      /\ irq' = (irq \/ d.flags = {})
      /\ UNCHANGED <<transmit_lock, tx_address, pc, handler, settled, app_vars>>
  BY DEF Receive, Listening, Raise
<1>2. chip \in RemoteChips /\ p \in Packets /\ handler.at = "none" /\ pc \notin InCall
  BY <1>1 DEF IInv, TypeOK, Packets, FlagsServed, DeafInCall
<1>3. /\ chip' \in RemoteChips /\ chip'.rx = Append(chip.rx, p)
      /\ chip'.flags = chip.flags \cup {"RX_DR"} /\ chip'.ce = chip.ce
      /\ irq' = (irq \/ chip.flags = {})
      /\ chip'.prim_rx = chip.prim_rx /\ chip'.tx = chip.tx /\ chip'.air = chip.air
  <2>1. /\ d \in RemoteChips /\ d.rx = Append(chip.rx, p) /\ d.flags = chip.flags
        /\ d.ce = chip.ce /\ d.prim_rx = chip.prim_rx /\ d.tx = chip.tx
        /\ d.air = chip.air
    <3>1. Append(chip.rx, p) \in Seq(Packets)
      BY <1>2, AppendProperties DEF RemoteChips
    <3> HIDE DEF p
    <3> QED  BY <1>2, <3>1 DEF RemoteChips
  <2> HIDE DEF d, p
  <2> QED  BY <1>1, <2>1 DEF RemoteChips, Flags
<1> HIDE DEF p, d
<1>4. chip'.rx # <<>>
  <2>1. chip.rx \in Seq(Packets)
    BY <1>2 DEF RemoteChips
  <2> QED  BY <1>2, <1>3, <2>1, AppendProperties
<1>5. TypeOK' /\ FlagsServed' /\ DeafInCall' /\ OrderInForce'
  <2>1. irq' = TRUE
    BY <1>2, <1>3 DEF IInv, TypeOK, FlagsServed
  <2>2. chip'.flags # {}
    BY <1>3
  <2>3. TypeOK'
    BY <1>1, <1>3, <2>1 DEF IInv, TypeOK, app_vars
  <2>4. FlagsServed'
    BY <1>1, <1>2, <2>1, <2>2 DEF IInv, FlagsServed
  <2>5. DeafInCall'
    BY <1>1, <1>3 DEF IInv, DeafInCall
  <2> QED
    BY <1>1, <1>3, <2>3, <2>4, <2>5 DEF IInv, OrderInForce, app_vars
<1>6. OneTransmission' /\ PacketsTold'
  BY <1>1, <1>2, <1>3, <1>4
     DEF IInv, TypeOK, OneTransmission, Idle, PacketsTold, InCall, InSpi, app_vars, PCs
<1> QED  BY <1>5, <1>6 DEF IInv

\* The radio is transmitting: the program has left it to it.
LEMMA OnTheAir ==
  ASSUME IInv, chip.air # NoAddress \/ (chip.ce /\ ~chip.prim_rx /\ chip.tx # <<>>)
  PROVE  /\ pc \in {"tx_ce", "wait"} /\ transmit_lock = 1 /\ ~chip.prim_rx
         /\ handler.at = "none" /\ handler = NoHandler /\ "RX_DR" \notin chip.flags
         /\ "MAX_RT" \notin chip.flags => chip.flags = {} /\ Len(chip.tx) = 1
         /\ chip.air # NoAddress => chip.flags = {} /\ Len(chip.tx) = 1
<1>1. pc \in {"tx_ce", "wait"} /\ transmit_lock = 1
  BY DEF IInv, TypeOK, OneTransmission, Idle, PCs, InCall, InSpi
<1>2. handler.at = "none" /\ handler = NoHandler
  BY <1>1 DEF IInv, TypeOK, FlagsServed, OneTransmission
<1>3. chip.flags \subseteq Flags
  BY DEF IInv, TypeOK, RemoteChips
<1> QED  BY <1>1, <1>2, <1>3 DEF IInv, OneTransmission, Flags

LEMMA AirInv == IInv /\ Air => IInv'
<1> SUFFICES ASSUME IInv, Air PROVE IInv'
  OBVIOUS
<1> USE DEF Air
<1>1. ASSUME NEW k \in Kinds, NEW r \in Remotes, settled, Receive(k, r)
      PROVE  IInv'
  BY <1>1, ReceiveInv DEF Receive
<1>2. CASE StartTransmission
  <2>1. /\ chip.ce /\ ~chip.prim_rx /\ chip.tx # <<>> /\ "MAX_RT" \notin chip.flags
        /\ chip' = [chip EXCEPT !.air = chip.tx_addr]
        /\ UNCHANGED <<irq, transmit_lock, tx_address, pc, handler, settled, app_vars>>
    BY <1>2 DEF StartTransmission
  <2>2. /\ chip' \in RemoteChips /\ chip'.rx = chip.rx /\ chip'.tx = chip.tx
        /\ chip'.flags = chip.flags /\ chip'.ce = chip.ce /\ chip'.prim_rx = chip.prim_rx
    BY <2>1 DEF IInv, TypeOK, RemoteChips
  <2> QED
    BY <2>1, <2>2, OnTheAir
    DEF IInv, TypeOK, FlagsServed, DeafInCall, OrderInForce, OneTransmission, Idle,
        PacketsTold, InCall, InSpi, app_vars
<1>3. ASSUME NEW f \in {"TX_DS", "MAX_RT"}, NEW q \in {chip.tx, Tail(chip.tx)},
             f = "TX_DS" => q = Tail(chip.tx), chip.air # NoAddress,
             Raise([chip EXCEPT !.tx = q, !.air = NoAddress], f),
             UNCHANGED <<transmit_lock, tx_address, pc, handler, settled, app_vars>>
      PROVE  IInv'
  <2> DEFINE d == [chip EXCEPT !.tx = q, !.air = NoAddress]
  <2>1. chip' = [d EXCEPT !.flags = d.flags \cup {f}] /\ irq' = (irq \/ d.flags = {})
    BY <1>3 DEF Raise
  <2>2. chip.tx \in Seq(Orders) /\ chip.tx # <<>> /\ chip.flags = {} /\ Len(chip.tx) = 1
    <3>1. chip.tx \in Seq(Orders)
      BY DEF IInv, TypeOK, RemoteChips
    <3>2. chip.flags = {} /\ Len(chip.tx) = 1
      BY <1>3, OnTheAir
    <3>3. Len(<<>>) = 0
      OBVIOUS
    <3>4. chip.tx # <<>>
      BY <3>2, <3>3
    <3> QED  BY <3>1, <3>2, <3>4
  <2>3. q \in Seq(Orders) /\ (f = "TX_DS" => q = <<>>)
    BY <1>3, <2>2
  <2>4. /\ chip' \in RemoteChips /\ chip'.rx = chip.rx /\ chip'.tx = q
        /\ chip'.flags = {f} /\ chip'.air = NoAddress
        /\ chip'.ce = chip.ce /\ chip'.prim_rx = chip.prim_rx /\ irq'
    <3>1. chip \in RemoteChips
      BY DEF IInv, TypeOK
    <3>2. /\ d \in RemoteChips /\ d.rx = chip.rx /\ d.tx = q /\ d.flags = {}
          /\ d.air = NoAddress /\ d.ce = chip.ce /\ d.prim_rx = chip.prim_rx
      BY <2>2, <2>3, <3>1 DEF RemoteChips
    <3> HIDE DEF d
    <3> QED  BY <2>1, <3>2 DEF RemoteChips, Flags
  <2> HIDE DEF d
  <2> QED
    BY <1>3, <2>1, <2>2, <2>3, <2>4, OnTheAir
    DEF IInv, TypeOK, FlagsServed, DeafInCall, OrderInForce, OneTransmission, Idle,
        PacketsTold, InCall, InSpi, app_vars, Flags
<1>4. CASE Acknowledged
  BY <1>3, <1>4 DEF Acknowledged
<1>5. CASE RetriesExhausted
  <2>1. [chip EXCEPT !.tx = chip.tx, !.air = NoAddress] = [chip EXCEPT !.air = NoAddress]
    BY DEF IInv, TypeOK, RemoteChips
  <2> QED  BY <1>3, <1>5, <2>1 DEF RetriesExhausted
<1> QED  BY <1>1, <1>2, <1>4, <1>5

LEMMA INT4Inv == IInv /\ INT4 => IInv'
<1> SUFFICES ASSUME IInv, INT4 PROVE IInv'
  OBVIOUS
<1>1. /\ irq /\ handler = NoHandler /\ irq' = FALSE /\ settled' = FALSE
      /\ handler' = [at |-> "serve", status |-> chip.flags]
      /\ chip' = [chip EXCEPT !.ce = FALSE]
      /\ UNCHANGED <<transmit_lock, tx_address, received, pc, app_vars>>
  BY DEF INT4, CE
<1>2. /\ chip \in RemoteChips /\ chip' \in RemoteChips /\ chip'.rx = chip.rx /\ ~chip'.ce
      /\ chip'.tx = chip.tx /\ chip'.flags = chip.flags /\ chip'.air = chip.air
      /\ chip'.prim_rx = chip.prim_rx
  BY <1>1 DEF IInv, TypeOK, RemoteChips
<1>3. chip.flags # {} /\ chip.air = NoAddress
  BY <1>1, OnTheAir DEF IInv, FlagsServed, NoHandler
<1> QED
  BY <1>1, <1>2, <1>3
  DEF IInv, TypeOK, FlagsServed, DeafInCall, OrderInForce, OneTransmission, Idle,
      PacketsTold, InCall, InSpi, app_vars, NoHandler, RemoteChips

LEMMA ServeInv == IInv /\ Serve => IInv'
<1> SUFFICES ASSUME IInv, Serve PROVE IInv'
  OBVIOUS
<1>1. /\ handler.at = "serve" /\ handler' = [handler EXCEPT !.at = "clear"]
      /\ rxflag' = IF "RX_DR" \in handler.status THEN 1 ELSE rxflag
      /\ UNCHANGED <<irq, tx_address, received, pc, settled, txflag, send_packet,
                     more>>
  BY DEF Serve, On
<1>2. /\ handler'.at = "clear" /\ handler'.status = handler.status
      /\ handler' \in [at : {"none", "serve", "clear"}, status : SUBSET Flags]
      /\ handler.status = chip.flags /\ chip.flags # {} /\ ~irq /\ ~chip.ce /\ ~settled
      /\ chip.air = NoAddress /\ chip \in RemoteChips
  BY <1>1 DEF IInv, TypeOK, FlagsServed
<1>3. CASE "TX_DS" \in handler.status \/ "MAX_RT" \in handler.status
  <2>1. /\ transmit_lock' = 0
        /\ chip' = set_rx_mode(reset_pipe0_address(
                     IF "TX_DS" \in handler.status THEN chip ELSE FLUSH_TX(chip)))
    BY <1>3 DEF Serve, On, AfterRetries
  <2>2. /\ chip' \in RemoteChips /\ chip'.rx = chip.rx /\ chip'.flags = chip.flags
        /\ chip'.ce = chip.ce /\ chip'.prim_rx /\ chip'.air = NoAddress
        /\ chip'.tx = IF "TX_DS" \in handler.status THEN chip.tx ELSE <<>>
    <3> DEFINE d == IF "TX_DS" \in handler.status THEN chip ELSE FLUSH_TX(chip)
               e == reset_pipe0_address(d)
    <3>1. /\ d \in RemoteChips /\ d.rx = chip.rx /\ d.flags = chip.flags
          /\ d.ce = chip.ce
          /\ d.tx = IF "TX_DS" \in handler.status THEN chip.tx ELSE <<>>
      <4>1. chip \in RemoteChips /\ <<>> \in Seq(Orders)
        BY <1>2
      <4>2. CASE "TX_DS" \in handler.status
        BY <4>1, <4>2
      <4>3. CASE "TX_DS" \notin handler.status
        BY <4>1, <4>3 DEF FLUSH_TX, RemoteChips
      <4> QED  BY <4>2, <4>3
    <3>2. /\ e \in RemoteChips /\ e.rx = d.rx /\ e.flags = d.flags
          /\ e.ce = d.ce /\ e.tx = d.tx
      <4> HIDE DEF d
      <4> QED  BY <3>1 DEF reset_pipe0_address, RemoteChips
    <3>3. chip' = set_rx_mode(e)
      BY <2>1
    <3> HIDE DEF d, e
    <3> QED  BY <3>1, <3>2, <3>3 DEF set_rx_mode, RemoteChips
  <2>3. pc \in {"tx_ce", "wait"} /\ transmit_lock = 1
    BY <1>1, <1>2, <1>3 DEF IInv, TypeOK, OneTransmission, PCs, InCall, InSpi
  <2>4. chip'.tx = <<>> /\ "RX_DR" \notin chip.flags
    BY <1>2, <1>3, <2>2, <2>3 DEF IInv, OneTransmission
  <2> QED
    BY <1>1, <1>2, <2>1, <2>2, <2>3, <2>4
    DEF IInv, TypeOK, FlagsServed, DeafInCall, OrderInForce, OneTransmission, Idle,
        PacketsTold, InCall, InSpi
<1>4. CASE ~("TX_DS" \in handler.status \/ "MAX_RT" \in handler.status)
  <2>1. UNCHANGED <<transmit_lock, chip>>
    BY <1>4 DEF Serve, On
  <2>2. "RX_DR" \in chip.flags
    BY <1>2, <1>4 DEF RemoteChips, Flags
  <2> QED
    BY <1>1, <1>2, <1>4, <2>1, <2>2
    DEF IInv, TypeOK, FlagsServed, DeafInCall, OrderInForce, OneTransmission, Idle,
        PacketsTold, InCall, InSpi
<1> QED  BY <1>3, <1>4

LEMMA ClearFlagsInv == IInv /\ ClearFlags => IInv'
<1> SUFFICES ASSUME IInv, ClearFlags PROVE IInv'
  OBVIOUS
<1>1. /\ handler.at = "clear" /\ handler' = NoHandler
      /\ chip' = [[chip EXCEPT !.flags = {}] EXCEPT !.ce = TRUE]
      /\ UNCHANGED <<irq, transmit_lock, tx_address, received, pc, settled, app_vars>>
  BY DEF ClearFlags, CE
<1>2. /\ chip' \in RemoteChips /\ chip'.rx = chip.rx /\ chip'.flags = {}
      /\ chip'.ce /\ chip'.prim_rx = chip.prim_rx /\ chip'.air = chip.air
      /\ chip'.tx = chip.tx
  BY <1>1 DEF IInv, TypeOK, RemoteChips
<1>3. chip.flags # {} /\ ~irq /\ ~settled /\ pc # "radio_init"
  BY <1>1 DEF IInv, FlagsServed, OneTransmission
<1> QED
  BY <1>1, <1>2, <1>3
  DEF IInv, TypeOK, FlagsServed, DeafInCall, OrderInForce, OneTransmission, Idle,
      PacketsTold, InCall, InSpi, app_vars, NoHandler
-----------------------------------------------------------------------------
(* setup and the tasks.                                                    *)

LEMMA setupInv == IInv /\ setup => IInv'
<1> SUFFICES ASSUME IInv, setup PROVE IInv'
  OBVIOUS
<1>0. chip \in RemoteChips
  BY DEF IInv, TypeOK
<1>1. CASE Step("radio_init", "rx_address") /\ Radio_Init /\ UNCHANGED <<settled, app_vars>>
  <2> DEFINE c == CE(chip, FALSE)
             d == configure_registers(c)
  <2>1. c \in RemoteChips /\ c.air = chip.air
    BY <1>0 DEF CE, RemoteChips
  <2>2. /\ d \in RemoteChips /\ d.prim_rx /\ d.flags = {} /\ d.rx = <<>> /\ d.tx = <<>>
        /\ d.air = c.air
    <3>1. <<>> \in Seq(Packets) /\ <<>> \in Seq(Orders) /\ {} \in SUBSET Flags
      OBVIOUS
    <3> HIDE DEF c
    <3> QED  BY <2>1, <3>1 DEF configure_registers, RemoteChips
  <2>3. chip' = CE(d, TRUE)
    BY <1>1 DEF Radio_Init
  <2>4. /\ chip' \in RemoteChips /\ chip'.prim_rx /\ chip'.flags = {} /\ chip'.rx = <<>>
        /\ chip'.tx = <<>> /\ chip'.air = chip.air /\ chip'.ce
    <3> HIDE DEF c, d
    <3> QED  BY <2>1, <2>2, <2>3 DEF CE, RemoteChips
  <2> HIDE DEF c, d
  <2> QED
    BY <1>1, <2>4
    DEF Step, Radio_Init, IInv, TypeOK, FlagsServed, DeafInCall, OrderInForce,
        OneTransmission, Idle, PacketsTold, InCall, InSpi, PCs, app_vars, NoHandler
<1>2. ASSUME NEW from \in {"rx_address", "rx_pipe", "data_rate"},
             NEW to \in {"rx_pipe", "data_rate", "set_tx_addr"},
             NEW c \in {chip, [chip EXCEPT !.p0 = Own]}, Configure(from, to, c)
      PROVE  IInv'
  <2>1. /\ c \in RemoteChips /\ c.prim_rx = chip.prim_rx /\ c.flags = chip.flags
        /\ c.rx = chip.rx /\ c.tx = chip.tx /\ c.air = chip.air /\ c.ce = chip.ce
    BY <1>0 DEF RemoteChips
  <2>2. /\ pc = from /\ pc' = to /\ handler = NoHandler /\ chip' = c
        /\ settled' = (settled /\ chip.ce)
        /\ UNCHANGED <<handler, irq, tx_address, received, transmit_lock, app_vars>>
    BY <1>2, <2>1 DEF Configure, Spi, Step, KeepDriver
  <2>3. settled' = settled
    BY <2>2 DEF IInv, TypeOK, DeafInCall
  <2> HIDE DEF IInv
  <2>4. TypeOK' /\ FlagsServed' /\ DeafInCall'
    BY <2>1, <2>2, <2>3
    DEF IInv, TypeOK, FlagsServed, DeafInCall, InCall, InSpi, PCs, app_vars, NoHandler
  <2>5. OneTransmission'
    BY <2>1, <2>2 DEF IInv, TypeOK, OneTransmission, Idle, InSpi, app_vars, NoHandler
  <2>6. PacketsTold' /\ OrderInForce'
    BY <2>1, <2>2 DEF IInv, TypeOK, PacketsTold, OrderInForce, app_vars, NoHandler
  <2> QED  BY <2>4, <2>5, <2>6 DEF IInv
<1>3. ASSUME NEW r \in Remotes, Step("set_tx_addr", "loop"), Radio_Set_Tx_Addr(r),
             UNCHANGED <<settled, app_vars>>
      PROVE  IInv'
  <2>1. /\ chip' \in RemoteChips /\ chip'.prim_rx = chip.prim_rx /\ chip'.flags = chip.flags
        /\ chip'.rx = chip.rx /\ chip'.tx = chip.tx /\ chip'.air = chip.air
        /\ chip'.ce = chip.ce
    BY <1>0, <1>3 DEF Radio_Set_Tx_Addr, RemoteChips
  <2> QED
    BY <1>3, <2>1
    DEF Step, Radio_Set_Tx_Addr, IInv, TypeOK, FlagsServed, DeafInCall, OrderInForce,
        OneTransmission, Idle, PacketsTold, InCall, InSpi, PCs, app_vars, NoHandler
<1> QED  BY <1>1, <1>2, <1>3 DEF setup

\* check_button and handle_servo only write variables of the program.
LEMMA AskInv == IInv /\ (check_button \/ handle_servo) => IInv'
<1> SUFFICES ASSUME IInv, check_button \/ handle_servo PROVE IInv'
  OBVIOUS
<1>1. /\ UNCHANGED <<chip, irq, transmit_lock, tx_address, received, pc, handler, settled,
                     rxflag, send_packet, more>>
      /\ txflag' \in Orders /\ pc = "loop"
  <2>2. CASE check_button
    BY <2>2 DEF check_button, Step, KeepRadio, radio_vars, Orders
  <2>3. CASE handle_servo
    BY <2>3 DEF handle_servo, Step, KeepRadio, radio_vars, Orders
  <2> QED  BY <2>2, <2>3
<1>2. TypeOK' /\ OrderInForce'
  <2>1. chip.tx = <<>>
    BY <1>1 DEF IInv, OneTransmission, Idle, InSpi
  <2> QED  BY <1>1, <2>1 DEF IInv, TypeOK, OrderInForce
<1>3. FlagsServed' /\ DeafInCall' /\ OneTransmission'
  BY <1>1 DEF IInv, FlagsServed, DeafInCall, OneTransmission, Idle
<1>4. PacketsTold'
  BY <1>1 DEF IInv, PacketsTold
<1> QED  BY <1>2, <1>3, <1>4 DEF IInv

\* What a step that sets CE alone does to the radio.
LEMMA SetCE ==
  ASSUME IInv, NEW l \in BOOLEAN, chip' = CE(chip, l)
  PROVE  /\ chip' \in RemoteChips /\ chip'.prim_rx = chip.prim_rx
         /\ chip'.flags = chip.flags /\ chip'.rx = chip.rx /\ chip'.tx = chip.tx
         /\ chip'.air = chip.air /\ chip'.ce = l
  BY DEF IInv, TypeOK, CE, RemoteChips

LEMMA recv_packet_taskInv == IInv /\ recv_packet_task => IInv'
<1> SUFFICES ASSUME IInv, recv_packet_task PROVE IInv'
  OBVIOUS
<1> USE DEF Step, KeepDriver, app_vars
<1>1. CASE CallReceive
  <2>1. /\ pc = "loop" /\ pc' = "receive" /\ handler = NoHandler /\ rxflag = 1
        /\ transmit_lock' = 0 /\ chip' = CE(chip, FALSE)
        /\ settled' = (settled /\ chip'.ce)
        /\ UNCHANGED <<handler, irq, tx_address, rxflag, txflag, send_packet, more>>
    BY <1>1 DEF CallReceive, ReceiveCE
  <2>2. settled' = FALSE
    BY <2>1, SetCE
  <2>5. /\ chip' \in RemoteChips /\ chip'.prim_rx = chip.prim_rx /\ chip'.flags = chip.flags
        /\ chip'.rx = chip.rx /\ chip'.tx = chip.tx /\ chip'.air = chip.air /\ chip'.ce = FALSE
    BY <2>1, SetCE
  <2>6. TypeOK' /\ OrderInForce'
    <3>1. pc' \in PCs /\ transmit_lock' \in 0 .. 1 /\ send_packet' = send_packet
      BY <2>1, <2>5 DEF IInv, TypeOK, PCs, InCall, InSpi
    <3>2. more' \in BOOLEAN /\ rxflag' = rxflag /\ settled' \in BOOLEAN
      BY <2>1, <2>2, <2>5 DEF IInv, TypeOK
    <3>3. handler' = handler /\ irq' = irq /\ tx_address' = tx_address
      BY <2>1, <2>5
    <3>4. txflag' = txflag
      BY <2>1, <2>5
    <3> QED  BY <2>1, <2>5, <3>1, <3>2, <3>3, <3>4 DEF IInv, TypeOK, OrderInForce
  <2>7. FlagsServed' /\ DeafInCall'
    BY <2>1, <2>2, <2>5 DEF IInv, FlagsServed, DeafInCall, InCall, InSpi, NoHandler
  <2>8. OneTransmission'
    BY <2>1, <2>2, <2>5 DEF IInv, FlagsServed, OneTransmission, Idle, InSpi, NoHandler
  <2>9. PacketsTold'
    BY <2>1, <2>2, <2>5 DEF IInv, FlagsServed, PacketsTold, NoHandler
  <2> QED  BY <2>6, <2>7, <2>8, <2>9 DEF IInv
<1>2. CASE ReceiveStatus
  <2>1. pc = "receive" /\ chip.rx # <<>>
    BY <1>2 DEF ReceiveStatus, Spi, IInv, PacketsTold
  <2>2. /\ pc' = "payload" /\ handler = NoHandler /\ ~irq /\ settled' = (settled /\ chip.ce)
        /\ more' = FALSE
        /\ UNCHANGED <<chip, handler, irq, tx_address, transmit_lock, rxflag, txflag,
                       send_packet>>
    BY <1>2, <2>1 DEF ReceiveStatus, Spi
  <2>3. ~settled /\ settled' = FALSE
    BY <2>1, <2>2 DEF IInv, DeafInCall, InCall
  <2>6. TypeOK' /\ OrderInForce'
    BY <2>1, <2>2, <2>3 DEF IInv, TypeOK, OrderInForce, PCs, InCall, InSpi, Orders
  <2>7. FlagsServed' /\ DeafInCall'
    BY <2>1, <2>2, <2>3 DEF IInv, FlagsServed, DeafInCall, InCall, InSpi, NoHandler
  <2>8. OneTransmission'
    BY <2>1, <2>2, <2>3 DEF IInv, FlagsServed, OneTransmission, Idle, InSpi, NoHandler
  <2>9. PacketsTold'
    BY <2>1, <2>2, <2>3 DEF IInv, FlagsServed, PacketsTold, NoHandler
  <2> QED  BY <2>6, <2>7, <2>8, <2>9 DEF IInv
<1>3. CASE ReceivePayload
  <2>1. /\ pc = "payload" /\ pc' = "status" /\ handler = NoHandler /\ ~irq
        /\ chip' = [chip EXCEPT !.rx = Tail(chip.rx)] /\ settled' = (settled /\ chip'.ce)
        /\ UNCHANGED <<handler, irq, tx_address, transmit_lock, rxflag, txflag,
                       send_packet, more>>
    BY <1>3 DEF ReceivePayload, Spi, R_RX_PAYLOAD
  <2>2. ~settled /\ settled' = FALSE /\ rxflag = 1
    BY <2>1 DEF IInv, DeafInCall, InCall, InSpi, PacketsTold
  <2>3. Tail(chip.rx) \in Seq(Packets)
    <3>1. chip.rx \in Seq(Packets) /\ chip.rx # <<>>
      BY <2>1 DEF IInv, TypeOK, RemoteChips, PacketsTold
    <3> QED  BY <3>1
  <2>4. /\ chip' \in RemoteChips /\ chip'.prim_rx = chip.prim_rx /\ chip'.flags = chip.flags
        /\ chip'.tx = chip.tx /\ chip'.air = chip.air /\ chip'.ce = chip.ce
    BY <2>1, <2>3 DEF RemoteChips, IInv, TypeOK
  <2>6. TypeOK' /\ OrderInForce'
    BY <2>1, <2>2, <2>4 DEF IInv, TypeOK, OrderInForce, PCs, InCall, InSpi, Orders
  <2>7. FlagsServed' /\ DeafInCall'
    BY <2>1, <2>2, <2>4 DEF IInv, FlagsServed, DeafInCall, InCall, InSpi, NoHandler
  <2>8. OneTransmission'
    BY <2>1, <2>2, <2>4 DEF IInv, FlagsServed, OneTransmission, Idle, InSpi, NoHandler
  <2>9. PacketsTold'
    BY <2>1, <2>2, <2>4 DEF IInv, FlagsServed, PacketsTold, NoHandler
  <2> QED  BY <2>6, <2>7, <2>8, <2>9 DEF IInv
<1>4. CASE ReceiveResult
  <2>1. /\ pc = "status" /\ pc' = "received" /\ handler = NoHandler /\ ~irq
        /\ chip' = CE(chip, TRUE) /\ settled' = (settled /\ chip'.ce)
        /\ more' = (chip.rx # <<>>) /\ transmit_lock' = 0
        /\ UNCHANGED <<handler, irq, tx_address, rxflag, txflag, send_packet>>
    BY <1>4 DEF ReceiveResult, Spi, CE
  <2>2. ~settled /\ settled' = FALSE /\ rxflag = 1 /\ more' \in BOOLEAN
    BY <2>1 DEF IInv, DeafInCall, InCall, InSpi, PacketsTold
  <2>5. /\ chip' \in RemoteChips /\ chip'.prim_rx = chip.prim_rx /\ chip'.flags = chip.flags
        /\ chip'.rx = chip.rx /\ chip'.tx = chip.tx /\ chip'.air = chip.air /\ chip'.ce = TRUE
    BY <2>1, SetCE
  <2>6. TypeOK' /\ OrderInForce'
    <3>1. pc' \in PCs /\ transmit_lock' \in 0 .. 1 /\ send_packet' = send_packet
      BY <2>1, <2>5 DEF IInv, TypeOK, PCs, InCall, InSpi
    <3>2. more' \in BOOLEAN /\ rxflag' = rxflag /\ settled' \in BOOLEAN
      BY <2>1, <2>2, <2>5 DEF IInv, TypeOK
    <3>3. handler' = handler /\ irq' = irq /\ tx_address' = tx_address
      BY <2>1, <2>5
    <3>4. txflag' = txflag
      BY <2>1, <2>5
    <3> QED  BY <2>1, <2>5, <3>1, <3>2, <3>3, <3>4 DEF IInv, TypeOK, OrderInForce
  <2>7. FlagsServed' /\ DeafInCall'
    BY <2>1, <2>2, <2>5 DEF IInv, FlagsServed, DeafInCall, InCall, InSpi, NoHandler
  <2>8. OneTransmission'
    BY <2>1, <2>2, <2>5 DEF IInv, FlagsServed, OneTransmission, Idle, InSpi, NoHandler
  <2>9. PacketsTold'
    BY <2>1, <2>2, <2>5 DEF IInv, FlagsServed, PacketsTold, NoHandler
  <2> QED  BY <2>6, <2>7, <2>8, <2>9 DEF IInv
<1>5. CASE Received
  <2>1. /\ pc = "received" /\ pc' = "loop" /\ handler = NoHandler
        /\ rxflag' = (IF more THEN rxflag ELSE 0)
        /\ txflag' = "DONTSEND"
        /\ UNCHANGED <<chip, handler, irq, tx_address, transmit_lock, settled, send_packet,
                       more>>
    BY <1>5 DEF Received, KeepRadio, radio_vars, FlagAfterReceive
  <2>3. chip.tx = <<>>
    BY <2>1 DEF IInv, OneTransmission, Idle, InSpi
  <2>2. rxflag = 1 /\ rxflag' \in 0 .. 1 /\ (rxflag' = 1 <=> chip.rx # <<>>) /\ ~settled
    BY <2>1 DEF IInv, PacketsTold, DeafInCall, InCall
  <2>6. TypeOK' /\ OrderInForce'
    BY <2>1, <2>2, <2>3 DEF IInv, TypeOK, OrderInForce, PCs, InCall, InSpi, Orders
  <2>7. FlagsServed' /\ DeafInCall'
    BY <2>1, <2>2 DEF IInv, FlagsServed, DeafInCall, InCall, InSpi, NoHandler
  <2>8. OneTransmission'
    BY <2>1, <2>2 DEF IInv, FlagsServed, OneTransmission, Idle, InSpi, NoHandler
  <2>9. PacketsTold'
    BY <2>1, <2>2 DEF IInv, FlagsServed, PacketsTold, NoHandler
  <2> QED  BY <2>6, <2>7, <2>8, <2>9 DEF IInv
<1> QED  BY <1>1, <1>2, <1>3, <1>4, <1>5 DEF recv_packet_task

LEMMA send_packet_taskInv == IInv /\ send_packet_task => IInv'
<1> SUFFICES ASSUME IInv, send_packet_task PROVE IInv'
  OBVIOUS
<1> USE DEF Step, KeepDriver, app_vars, Locks, LockSet
<1>1. CASE CallTransmit
  <2>1. /\ pc = "loop" /\ pc' = "tx_mode" /\ handler = NoHandler
        /\ chip' = CE(chip, FALSE) /\ settled' = FALSE /\ transmit_lock' = 1
        /\ send_packet' = txflag
        /\ UNCHANGED <<handler, irq, tx_address, rxflag, txflag, more>>
    BY <1>1 DEF CallTransmit
  <2>5. /\ chip' \in RemoteChips /\ chip'.prim_rx = chip.prim_rx /\ chip'.flags = chip.flags
        /\ chip'.rx = chip.rx /\ chip'.tx = chip.tx /\ chip'.air = chip.air /\ chip'.ce = FALSE
    BY <2>1, SetCE
  <2>6. TypeOK' /\ OrderInForce'
    <3>1. pc' \in PCs /\ transmit_lock' \in 0 .. 1 /\ send_packet' \in Orders
      BY <2>1, <2>5 DEF IInv, TypeOK, PCs, InCall, InSpi
    <3>2. more' \in BOOLEAN /\ rxflag' \in 0 .. 1 /\ settled' \in BOOLEAN
      BY <2>1, <2>5 DEF IInv, TypeOK
    <3>3. handler' = handler /\ irq' = irq /\ tx_address' = tx_address
      BY <2>1, <2>5
    <3>4. txflag' \in Orders
      BY <2>1, <2>5 DEF IInv, TypeOK
    <3>5. OrderInForce'
      BY <2>1, <2>5 DEF IInv, OrderInForce
    <3> QED  BY <2>5, <3>1, <3>2, <3>3, <3>4, <3>5 DEF IInv, TypeOK
  <2>7. FlagsServed' /\ DeafInCall'
    BY <2>1, <2>5 DEF IInv, FlagsServed, DeafInCall, InCall, InSpi, NoHandler
  <2>8. OneTransmission'
    BY <2>1, <2>5 DEF IInv, FlagsServed, OneTransmission, Idle, InSpi, NoHandler
  <2>9. PacketsTold'
    BY <2>1, <2>5 DEF IInv, FlagsServed, PacketsTold, NoHandler
  <2> QED  BY <2>6, <2>7, <2>8, <2>9 DEF IInv
<1>2. ASSUME NEW from \in {"tx_mode", "tx_pipe0", "tx_payload", "tx_ce"}, NEW to, NEW c,
             Command(from, to, c)
      PROVE  /\ pc = from /\ pc' = to /\ handler = NoHandler /\ ~irq /\ chip' = c
             /\ settled = FALSE /\ settled' = FALSE
             /\ UNCHANGED <<handler, irq, tx_address, transmit_lock, rxflag, txflag,
                            send_packet, more>>
  BY <1>2 DEF Command, Spi, IInv, TypeOK, DeafInCall, InCall, InSpi
<1>3. CASE Command("tx_mode", "tx_pipe0", set_tx_mode(chip))
  <2>1. chip' = [chip EXCEPT !.prim_rx = FALSE]
    BY <1>2, <1>3 DEF set_tx_mode
  <2>2. /\ chip' \in RemoteChips /\ ~chip'.prim_rx /\ chip'.flags = chip.flags
        /\ chip'.tx = chip.tx /\ chip'.air = chip.air /\ chip'.ce = chip.ce
        /\ chip'.rx = chip.rx
    BY <2>1 DEF RemoteChips, IInv, TypeOK
  <2>3. /\ pc = "tx_mode" /\ pc' = "tx_pipe0" /\ handler = NoHandler /\ ~irq
        /\ settled = FALSE /\ settled' = FALSE
        /\ UNCHANGED <<handler, irq, tx_address, transmit_lock, rxflag, txflag,
                       send_packet, more>>
    BY <1>2, <1>3
  <2>6. TypeOK' /\ OrderInForce'
    BY <2>2, <2>3 DEF IInv, TypeOK, OrderInForce, PCs, InCall, InSpi, Orders
  <2>7. FlagsServed' /\ DeafInCall'
    BY <2>2, <2>3 DEF IInv, FlagsServed, DeafInCall, InCall, InSpi, NoHandler
  <2>8. OneTransmission'
    BY <2>2, <2>3 DEF IInv, FlagsServed, OneTransmission, Idle, InSpi, NoHandler
  <2>9. PacketsTold'
    BY <2>2, <2>3 DEF IInv, FlagsServed, PacketsTold, NoHandler
  <2> QED  BY <2>6, <2>7, <2>8, <2>9 DEF IInv
<1>4. CASE Command("tx_pipe0", "tx_payload", [chip EXCEPT !.p0 = tx_address])
  <2>1. chip' = [chip EXCEPT !.p0 = tx_address]
    BY <1>2, <1>4
  <2>2. /\ chip' \in RemoteChips /\ chip'.prim_rx = chip.prim_rx /\ chip'.flags = chip.flags
        /\ chip'.tx = chip.tx /\ chip'.air = chip.air /\ chip'.ce = chip.ce
        /\ chip'.rx = chip.rx
    BY <2>1 DEF RemoteChips, IInv, TypeOK
  <2>3. /\ pc = "tx_pipe0" /\ pc' = "tx_payload" /\ handler = NoHandler /\ ~irq
        /\ settled = FALSE /\ settled' = FALSE
        /\ UNCHANGED <<handler, irq, tx_address, transmit_lock, rxflag, txflag,
                       send_packet, more>>
    BY <1>2, <1>4
  <2>6. TypeOK' /\ OrderInForce'
    BY <2>2, <2>3 DEF IInv, TypeOK, OrderInForce, PCs, InCall, InSpi, Orders
  <2>7. FlagsServed' /\ DeafInCall'
    BY <2>2, <2>3 DEF IInv, FlagsServed, DeafInCall, InCall, InSpi, NoHandler
  <2>8. OneTransmission'
    BY <2>2, <2>3 DEF IInv, FlagsServed, OneTransmission, Idle, InSpi, NoHandler
  <2>9. PacketsTold'
    BY <2>2, <2>3 DEF IInv, FlagsServed, PacketsTold, NoHandler
  <2> QED  BY <2>6, <2>7, <2>8, <2>9 DEF IInv
<1>5. CASE Command("tx_payload", "tx_ce", W_TX_PAYLOAD(chip, send_packet))
  <2>1. /\ pc = "tx_payload" /\ pc' = "tx_ce" /\ handler = NoHandler /\ ~irq
        /\ settled = FALSE /\ settled' = FALSE
        /\ UNCHANGED <<handler, irq, tx_address, transmit_lock, rxflag, txflag,
                       send_packet, more>>
    BY <1>2, <1>5
  <2>2. chip.tx = <<>> /\ send_packet \in Orders
    BY <2>1 DEF IInv, TypeOK, OneTransmission
  <2>3. chip' = [chip EXCEPT !.tx = Append(<<>>, send_packet)]
    <3>1. chip' = [chip EXCEPT !.tx = IF Len(chip.tx) < 3 THEN Append(chip.tx, send_packet)
                                      ELSE chip.tx]
      <4>1. chip' = W_TX_PAYLOAD(chip, send_packet)
        BY <1>2, <1>5
      <4> QED  BY <4>1 DEF W_TX_PAYLOAD, FIFO_SIZE
    <3>2. Len(chip.tx) < 3
      BY <2>2
    <3> QED  BY <2>2, <3>1, <3>2
  <2>4. Append(<<>>, send_packet) \in Seq(Orders) /\ Len(Append(<<>>, send_packet)) = 1
    BY <2>2
  <2>5. /\ chip' \in RemoteChips /\ chip'.prim_rx = chip.prim_rx /\ chip'.flags = chip.flags
        /\ Len(chip'.tx) = 1 /\ chip'.air = chip.air
        /\ chip'.ce = chip.ce /\ chip'.rx = chip.rx
    BY <2>3, <2>4 DEF RemoteChips, IInv, TypeOK
  <2>10. chip'.tx = <<txflag'>>
    <3>1. send_packet = txflag /\ txflag' = txflag
      BY <2>1 DEF IInv, OrderInForce
    <3>2. chip'.tx = Append(<<>>, send_packet)
      BY <2>3 DEF RemoteChips, IInv, TypeOK
    <3> QED  BY <3>1, <3>2
  <2>6. TypeOK' /\ OrderInForce'
    <3>1. pc' \in PCs /\ transmit_lock' \in 0 .. 1 /\ send_packet' \in Orders
      BY <2>1, <2>5 DEF IInv, TypeOK, PCs, InCall, InSpi
    <3>2. more' \in BOOLEAN /\ rxflag' \in 0 .. 1 /\ settled' \in BOOLEAN
      BY <2>1, <2>5 DEF IInv, TypeOK
    <3>3. handler' = handler /\ irq' = irq /\ tx_address' = tx_address
      BY <2>1, <2>5
    <3>4. txflag' \in Orders
      BY <2>1, <2>5 DEF IInv, TypeOK
    <3>5. OrderInForce'
      BY <2>1, <2>10 DEF IInv, OrderInForce
    <3> QED  BY <2>5, <3>1, <3>2, <3>3, <3>4, <3>5 DEF IInv, TypeOK
  <2>7. FlagsServed' /\ DeafInCall'
    BY <2>1, <2>5 DEF IInv, FlagsServed, DeafInCall, InCall, InSpi, NoHandler
  <2>8. OneTransmission'
    BY <2>1, <2>5 DEF IInv, FlagsServed, OneTransmission, Idle, InSpi, NoHandler
  <2>9. PacketsTold'
    BY <2>1, <2>5 DEF IInv, FlagsServed, PacketsTold, NoHandler
  <2> QED  BY <2>6, <2>7, <2>8, <2>9 DEF IInv
<1>6. CASE Command("tx_ce", "wait", CE(chip, TRUE))
  <2>1. /\ pc = "tx_ce" /\ pc' = "wait" /\ handler = NoHandler /\ ~irq
        /\ chip' = CE(chip, TRUE) /\ settled = FALSE /\ settled' = FALSE
        /\ UNCHANGED <<handler, irq, tx_address, transmit_lock, rxflag, txflag,
                       send_packet, more>>
    BY <1>2, <1>6
  <2>5. /\ chip' \in RemoteChips /\ chip'.prim_rx = chip.prim_rx /\ chip'.flags = chip.flags
        /\ chip'.rx = chip.rx /\ chip'.tx = chip.tx /\ chip'.air = chip.air /\ chip'.ce = TRUE
    BY <2>1, SetCE
  <2>6. TypeOK' /\ OrderInForce'
    <3>1. pc' \in PCs /\ transmit_lock' \in 0 .. 1 /\ send_packet' \in Orders
      BY <2>1, <2>5 DEF IInv, TypeOK, PCs, InCall, InSpi
    <3>2. more' \in BOOLEAN /\ rxflag' \in 0 .. 1 /\ settled' \in BOOLEAN
      BY <2>1, <2>5 DEF IInv, TypeOK
    <3>3. handler' = handler /\ irq' = irq /\ tx_address' = tx_address
      BY <2>1, <2>5
    <3>4. txflag' \in Orders
      BY <2>1, <2>5 DEF IInv, TypeOK
    <3>5. OrderInForce'
      BY <2>1, <2>5 DEF IInv, OrderInForce
    <3> QED  BY <2>5, <3>1, <3>2, <3>3, <3>4, <3>5 DEF IInv, TypeOK
  <2>7. FlagsServed' /\ DeafInCall'
    BY <2>1, <2>5 DEF IInv, FlagsServed, DeafInCall, InCall, InSpi, NoHandler
  <2>8. OneTransmission'
    BY <2>1, <2>5 DEF IInv, FlagsServed, OneTransmission, Idle, InSpi, NoHandler
  <2>9. PacketsTold'
    BY <2>1, <2>5 DEF IInv, FlagsServed, PacketsTold, NoHandler
  <2> QED  BY <2>6, <2>7, <2>8, <2>9 DEF IInv
<1>7. CASE Transmitted
  <2>1. /\ pc = "wait" /\ pc' = "loop" /\ handler = NoHandler /\ transmit_lock = 0
        /\ UNCHANGED <<chip, handler, irq, tx_address, transmit_lock, settled, rxflag,
                       txflag, send_packet, more>>
    BY <1>7 DEF Transmitted, KeepRadio, radio_vars
  <2>6. TypeOK' /\ OrderInForce'
    BY <2>1 DEF IInv, TypeOK, OrderInForce, PCs, InCall, InSpi, Orders
  <2>7. FlagsServed' /\ DeafInCall'
    BY <2>1 DEF IInv, FlagsServed, DeafInCall, InCall, InSpi, NoHandler
  <2>8. OneTransmission'
    BY <2>1 DEF IInv, FlagsServed, OneTransmission, Idle, InSpi, NoHandler
  <2>9. PacketsTold'
    BY <2>1 DEF IInv, FlagsServed, PacketsTold, NoHandler
  <2> QED  BY <2>6, <2>7, <2>8, <2>9 DEF IInv
<1> QED
  BY <1>1, <1>3, <1>4, <1>5, <1>6, <1>7 DEF send_packet_task, Radio_Transmit

-----------------------------------------------------------------------------
(* The theorems.                                                           *)

LEMMA InitInv == Init => IInv
<1> SUFFICES ASSUME Init PROVE IInv
  OBVIOUS
<1>1. <<>> \in Seq(Packets) /\ <<>> \in Seq(Orders) /\ {} \in SUBSET Flags
  OBVIOUS
<1>2. chip \in RemoteChips
  BY <1>1 DEF Init, RadioInit, RemoteChips
<1>3. TypeOK
  <2>1. handler \in [at : {"none", "serve", "clear"}, status : SUBSET Flags]
    BY DEF Init, NoHandler
  <2>2. pc \in PCs /\ txflag \in Orders /\ send_packet \in Orders
    BY DEF Init, PCs, Orders
  <2>3. irq \in BOOLEAN /\ settled \in BOOLEAN /\ more \in BOOLEAN
    BY DEF Init, RadioInit
  <2>4. tx_address \in {Default} \cup Remotes /\ transmit_lock \in 0 .. 1 /\ rxflag \in 0 .. 1
    BY DEF Init, RadioInit
  <2> QED  BY <1>2, <2>1, <2>2, <2>3, <2>4 DEF TypeOK
<1>4. FlagsServed /\ DeafInCall /\ OrderInForce
  BY DEF Init, RadioInit, FlagsServed, DeafInCall, OrderInForce, NoHandler
<1>5. OneTransmission
  BY DEF Init, RadioInit, OneTransmission, InSpi
<1>6. PacketsTold
  BY DEF Init, RadioInit, PacketsTold
<1> QED  BY <1>3, <1>4, <1>5, <1>6 DEF IInv

LEMMA NextInv == IInv /\ [Next]_vars => IInv'
<1>1. IInv /\ UNCHANGED vars => IInv'
  BY DEF vars, radio_vars, app_vars, IInv, TypeOK, FlagsServed, DeafInCall, OrderInForce,
         OneTransmission, Idle, PacketsTold
<1> QED
  BY <1>1, AirInv, SettleInv, INT4Inv, ServeInv, ClearFlagsInv, setupInv, AskInv,
     recv_packet_taskInv, send_packet_taskInv DEF Next, INT4_vect

\* The inductive invariant.
THEOREM Invariance == Spec => []IInv
  BY InitInv, NextInv, PTL DEF Spec

\* No interrupt of the radio comes between two commands of a call from the loop.
THEOREM SpiIsUninterrupted == Spec => []SpiUninterrupted
<1>1. IInv => SpiUninterrupted
  BY DEF IInv, TypeOK, FlagsServed, OneTransmission, SpiUninterrupted, InSpi, NoHandler
<1> QED  BY <1>1, Invariance, PTL

\* Between two tasks rxflag says whether the radio holds packets: none is forgotten.
THEOREM NoPacketForgotten == Spec => []RxflagTellsPackets
<1>1. IInv => RxflagTellsPackets
  BY DEF IInv, FlagsServed, PacketsTold, RxflagTellsPackets, NoHandler
<1> QED  BY <1>1, Invariance, PTL

\* The spin of Radio_Transmit has an end.
THEOREM SpinEnds == Spec => []WaitHasEnd
<1>1. IInv => WaitHasEnd
  <2> SUFFICES ASSUME IInv, pc = "wait", transmit_lock = 1, ~irq, handler = NoHandler
               PROVE  chip.ce /\ ~chip.prim_rx /\ chip.tx # <<>> /\ chip.flags = {}
    BY DEF WaitHasEnd
  <2>1. chip.flags = {} /\ Len(chip.tx) = 1 /\ chip.ce /\ ~chip.prim_rx
    BY DEF IInv, FlagsServed, OneTransmission, NoHandler
  <2> QED  BY <2>1
<1> QED  BY <1>1, Invariance, PTL

\* The radio holds no order but the one in force.
THEOREM NothingStale == Spec => []NoStaleOrder
<1>1. IInv => NoStaleOrder
  BY DEF IInv, OrderInForce, NoStaleOrder
<1> QED  BY <1>1, Invariance, PTL
=============================================================================
