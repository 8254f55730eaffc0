----------------------------- MODULE RobotProofs -----------------------------
(***************************************************************************)
(* The safety of Robot for any number of remotes, kinds of packets and     *)
(* packets: one lemma per action shows that it preserves IInv.             *)
(***************************************************************************)
EXTENDS Robot, SequenceTheorems, TLAPS

-----------------------------------------------------------------------------
(* What the invariant says of the handlers on the stacks.                  *)

\* While the running context is in a handler no other one is on a stack.
LEMMA OneHandler ==
  ASSUME IInv, isr[running] # NoHandler
  PROVE  /\ running \in Contexts
         /\ \A c \in Contexts : c # running => isr[c] = NoHandler /\ isr[c].at = "none"
  BY DEF IInv, TypeOK, Stacked, Contexts, NoHandler

\* While the running context is in its own code the only handler on a stack is the
\* one that woke the controller.
LEMMA WakingHandler ==
  ASSUME IInv, isr[running] = NoHandler, NEW c \in Contexts, isr[c].at # "none"
  PROVE  c = "idle" /\ running = "controller" /\ isr[c].at = "tx"
  BY DEF IInv, TypeOK, Stacked, Contexts, NoHandler

HandlerAt == {"none", "rx", "tx", "mode", "clear", "ce"}

\* A handler goes one step further on the stack it is on.
LEMMA HandlerStep ==
  ASSUME IInv, NEW at \in HandlerAt \ {"none"}, NEW next \in HandlerAt,
         NEW s \in SUBSET Flags, next = "none" => s = {},
         Handler(at, [at |-> next, status |-> s])
  PROVE  /\ isr' \in [Contexts -> [at : HandlerAt, status : SUBSET Flags]]
         /\ isr[running].at = at /\ isr'[running].at = next
         /\ isr'[running].status = s
         /\ \A c \in Contexts : c # running => isr'[c] = NoHandler /\ isr'[c].at = "none"
                                                 /\ isr'[c].status = {}
         /\ UNCHANGED <<running, pc>> => Stacked'
<1> DEFINE h == [at |-> next, status |-> s]
<1>1. isr[running].at = at /\ isr' = [isr EXCEPT ![running] = h]
  BY DEF Handler
<1>2. running \in Contexts /\ isr \in [Contexts -> [at : HandlerAt, status : SUBSET Flags]]
  BY DEF IInv, TypeOK, HandlerAt
<1>3. isr[running] # NoHandler
  BY <1>1 DEF NoHandler
<1>4. h \in [at : HandlerAt, status : SUBSET Flags] /\ h.at = next /\ h.status = s
  OBVIOUS
<1>5. isr' \in [Contexts -> [at : HandlerAt, status : SUBSET Flags]]
      /\ isr'[running] = h /\ \A c \in Contexts : c # running => isr'[c] = isr[c]
  BY <1>1, <1>2, <1>4
<1>6. \A c \in Contexts : c # running => isr'[c] = NoHandler
  BY <1>3, <1>5, OneHandler
<1>7. ASSUME UNCHANGED <<running, pc>>
      PROVE  Stacked'
  <2>1. h.at = "none" => h = NoHandler
    BY DEF NoHandler
  <2>2. isr[running] # NoHandler /\ running = "controller"
          => pc \in {"roomba_init", "subscribe"}
    BY OneHandler DEF IInv, Stacked, Contexts
  <2> QED
    BY <1>2, <1>3, <1>5, <1>6, <1>7, <2>1, <2>2 DEF IInv, Stacked, Contexts
<1> QED
  BY <1>1, <1>4, <1>5, <1>6, <1>7 DEF NoHandler

-----------------------------------------------------------------------------
(* The radio's interrupt handler.                                          *)

LEMMA INT4Inv == IInv /\ INT4 => IInv'
<1> SUFFICES ASSUME IInv, INT4
             PROVE  IInv'
  OBVIOUS
<1> DEFINE h == [at |-> "rx", status |-> chip.flags]
<1>1. /\ Alive /\ irq /\ irq' = FALSE /\ isr[running] = NoHandler
      /\ pc \notin {"radio_init", "configure_rx"}
      /\ isr' = [isr EXCEPT ![running] = h] /\ chip' = [chip EXCEPT !.ce = FALSE]
      /\ UNCHANGED <<transmit_lock, tx_address, received, running, pc, app_vars,
                     error_msg, missed>>
  BY DEF INT4, Enabled_I, AtEntry, CE
<1>2. /\ chip \in Chips /\ chip' \in Chips /\ ~chip'.ce /\ chip'.flags = chip.flags
      /\ chip'.rx = chip.rx /\ chip'.tx = chip.tx /\ chip'.air = chip.air
      /\ chip'.p0 = chip.p0 /\ chip'.prim_rx = chip.prim_rx
  BY <1>1 DEF IInv, TypeOK, RadioTypeOK, Chips
<1>3. /\ running \in Contexts /\ h \in [at : HandlerAt, status : SUBSET Flags]
      /\ isr \in [Contexts -> [at : HandlerAt, status : SUBSET Flags]]
  BY <1>2 DEF IInv, TypeOK, Chips, HandlerAt
<1>4. /\ isr' \in [Contexts -> [at : HandlerAt, status : SUBSET Flags]]
      /\ isr'[running] = h /\ h.at = "rx" /\ h.status = chip.flags
      /\ \A c \in Contexts : c # running => isr'[c] = isr[c]
  BY <1>1, <1>3
<1>5. chip.flags # {} /\ \A c \in Contexts : isr[c].at = "none"
  BY <1>1, WakingHandler DEF IInv, PinLow, InHandler
<1>6. TypeOK'
  <2>1. RadioTypeOK'
    BY <1>1, <1>2 DEF IInv, TypeOK, RadioTypeOK
  <2> QED
    BY <1>1, <1>4, <2>1 DEF IInv, TypeOK, HandlerAt, app_vars, missed
<1>7. Stacked'
  BY <1>1, <1>3, <1>4, <1>5 DEF IInv, Stacked, Contexts, NoHandler
<1>8. PinLow' /\ NoStuckFlag'
  BY <1>1, <1>2, <1>3, <1>4, <1>5 DEF PinLow, NoStuckFlag, InHandler
<1>9. PacketWaits'
  BY <1>1, <1>2, <1>3, <1>4, <1>5 DEF IInv, PacketWaits, app_vars
<1>10. ComesBack'
  BY <1>1, <1>2, <1>3, <1>4, <1>5 DEF IInv, ComesBack, NoHandler, missed
<1> QED
  BY <1>6, <1>7, <1>8, <1>9, <1>10 DEF IInv

LEMMA RxHandlerInv == IInv /\ RxHandler => IInv'
<1> SUFFICES ASSUME IInv, RxHandler
             PROVE  IInv'
  OBVIOUS
<1>1. /\ Handler("rx", [at |-> "tx", status |-> Status])
      /\ IF On("RX_DR") THEN Publish ELSE UNCHANGED <<running, pc, error_msg>>
      /\ UNCHANGED <<radio_vars, app_vars, missed>>
  BY DEF RxHandler
<1>2. running \in Contexts /\ Status \in SUBSET Flags
  BY DEF IInv, TypeOK, Status
<1>3. /\ isr' \in [Contexts -> [at : HandlerAt, status : SUBSET Flags]]
      /\ isr[running].at = "rx" /\ isr'[running].at = "tx"
      /\ isr'[running].status = Status
      /\ \A c \in Contexts : c # running => isr'[c] = NoHandler /\ isr'[c].at = "none"
                                              /\ isr'[c].status = {}
      /\ UNCHANGED <<running, pc>> => Stacked'
  BY <1>1, <1>2, HandlerStep DEF HandlerAt
<1>4. /\ ~irq /\ Status # {} /\ Status \subseteq chip.flags
      /\ \A c \in Contexts : c # running => isr[c] = NoHandler /\ isr[c].at = "none"
  BY <1>2, <1>3, OneHandler DEF IInv, PinLow, InHandler, Status, NoHandler
<1>5. CASE UNCHANGED <<running, pc>>
  <2>1. TypeOK'
    BY <1>1, <1>3, <1>5
    DEF IInv, TypeOK, RadioTypeOK, HandlerAt, Publish, radio_vars, app_vars, missed
  <2>2. PinLow' /\ NoStuckFlag'
    BY <1>1, <1>2, <1>3, <1>4, <1>5 DEF PinLow, NoStuckFlag, InHandler, radio_vars
  <2>3. PacketWaits'
    BY <1>1, <1>3, <1>4, <1>5 DEF IInv, PacketWaits, Contexts, radio_vars, app_vars
  <2>4. ComesBack'
    BY <1>1, <1>2, <1>3, <1>4, <1>5
    DEF IInv, ComesBack, NoHandler, radio_vars, missed
  <2> QED
    BY <1>3, <1>5, <2>1, <2>2, <2>3, <2>4 DEF IInv
<1>6. CASE On("RX_DR") /\ pc = "waiting" /\ running' = "controller" /\ pc' = "woken"
           /\ UNCHANGED error_msg
  <2>1. running = "idle" /\ isr'["idle"].at = "tx" /\ isr'["idle"].status = Status
        /\ isr'["controller"] = NoHandler /\ isr'["main"] = NoHandler
        /\ isr'["idle"] # NoHandler
    BY <1>3, <1>6 DEF IInv, Stacked, Contexts, NoHandler
  <2>2. chip.rx # <<>>
    BY <1>3, <1>4, <1>6, <2>1 DEF IInv, PacketWaits, On
  <2>3. TypeOK'
    BY <1>1, <1>3, <1>6 
    DEF IInv, TypeOK, RadioTypeOK, HandlerAt, Contexts, PC, radio_vars, app_vars, missed
  <2>4. Stacked'
    BY <1>6, <2>1 DEF Stacked, Contexts, NoHandler, MainPC
  <2>5. PinLow' /\ NoStuckFlag'
    BY <1>1, <1>4, <1>6, <2>1 DEF PinLow, NoStuckFlag, InHandler, Contexts, NoHandler,
    radio_vars
  <2>6. PacketWaits'
    BY <1>1, <1>6, <2>1, <2>2 DEF IInv, PacketWaits, Replying, radio_vars, app_vars
  <2>7. ComesBack'
    BY <1>1, <1>6, <2>1 DEF IInv, ComesBack, Contexts, NoHandler, radio_vars, missed
  <2> QED
    BY <2>3, <2>4, <2>5, <2>6, <2>7 DEF IInv
<1> QED
  BY <1>1, <1>5, <1>6 DEF Publish

\* What the end of a transmission leaves of the radio's state.
LEMMA TxHandlerInv == IInv /\ TxHandler => IInv'
<1> SUFFICES ASSUME IInv, TxHandler
             PROVE  IInv'
  OBVIOUS
<1> DEFINE over == Status \cap TxFlags # {}
<1>1. /\ Handler("tx", [at |-> "mode", status |-> Status])
      /\ over => chip' = reset_pipe0_address(IF On("TX_DS") THEN chip ELSE FLUSH_TX(chip))
                 /\ transmit_lock' = 0
      /\ ~over => UNCHANGED <<chip, transmit_lock>>
      /\ UNCHANGED <<irq, tx_address, received, running, pc, app_vars, error_msg, missed>>
  BY DEF TxHandler, On, TxFlags
<1>2. running \in Contexts /\ Status \in SUBSET Flags /\ chip \in Chips
  BY DEF IInv, TypeOK, RadioTypeOK, Status
<1>3. /\ isr' \in [Contexts -> [at : HandlerAt, status : SUBSET Flags]]
      /\ isr[running].at = "tx" /\ isr'[running].at = "mode"
      /\ isr'[running].status = Status
      /\ \A c \in Contexts : c # running => isr'[c] = NoHandler /\ isr'[c].at = "none"
                                              /\ isr'[c].status = {}
      /\ Stacked'
  BY <1>1, <1>2, HandlerStep DEF HandlerAt
<1>4. ~irq /\ Status # {} /\ Status \subseteq chip.flags
  BY <1>2, <1>3 DEF IInv, PinLow, InHandler, Status
<1>5. /\ FLUSH_TX(chip) \in Chips
      /\ FLUSH_TX(chip).tx = <<>> /\ FLUSH_TX(chip).air = NoAddress
      /\ \A f \in {"ce", "prim_rx", "p0", "tx_addr", "rx", "flags"} :
           FLUSH_TX(chip)[f] = chip[f]
  BY <1>2, EmptySeq DEF Chips, FLUSH_TX
<1>6. /\ chip' \in Chips /\ chip'.ce = chip.ce /\ chip'.prim_rx = chip.prim_rx
      /\ chip'.flags = chip.flags /\ chip'.rx = chip.rx
      /\ chip'.tx \in {chip.tx, <<>>} /\ (chip'.tx = <<>> => chip'.air = NoAddress \/ chip'.tx = chip.tx)
      /\ chip'.air \in {chip.air, NoAddress} 
      /\ chip'.p0 = IF over THEN Own ELSE chip.p0
      /\ ~over => chip'.tx = chip.tx
  BY <1>1, <1>2, <1>5 DEF Chips, reset_pipe0_address
<1>7. TypeOK'
  BY <1>1, <1>3, <1>6, EmptySeq DEF IInv, TypeOK, RadioTypeOK, HandlerAt, FIFO_SIZE, app_vars, missed
<1>8. PinLow' /\ NoStuckFlag'
  BY <1>1, <1>2, <1>3, <1>4, <1>6 DEF PinLow, NoStuckFlag, InHandler
<1>9. PacketWaits'
  BY <1>1, <1>2, <1>3, <1>6, OneHandler DEF IInv, PacketWaits, Stacked, Contexts, app_vars
<1>10. ComesBack'
  BY <1>1, <1>2, <1>3, <1>4, <1>6 DEF IInv, ComesBack, TxFlags, NoHandler, missed
<1> QED
  BY <1>3, <1>7, <1>8, <1>9, <1>10 DEF IInv

LEMMA RxModeInv == IInv /\ RxMode => IInv'
<1> SUFFICES ASSUME IInv, RxMode
             PROVE  IInv'
  OBVIOUS
<1> DEFINE over == Status \cap TxFlags # {}
<1>1. /\ Handler("mode", [at |-> "clear", status |-> Status])
      /\ over => chip' = [chip EXCEPT !.prim_rx = TRUE, !.air = NoAddress]
      /\ ~over => UNCHANGED chip
      /\ UNCHANGED <<irq, transmit_lock, tx_address, received, running, pc, app_vars,
                     error_msg, missed>>
  BY DEF RxMode, On, TxFlags, set_rx_mode
<1>2. running \in Contexts /\ Status \in SUBSET Flags /\ chip \in Chips
  BY DEF IInv, TypeOK, RadioTypeOK, Status
<1>3. /\ isr' \in [Contexts -> [at : HandlerAt, status : SUBSET Flags]]
      /\ isr[running].at = "mode" /\ isr'[running].at = "clear"
      /\ isr'[running].status = Status
      /\ \A c \in Contexts : c # running => isr'[c] = NoHandler /\ isr'[c].at = "none"
                                              /\ isr'[c].status = {}
      /\ Stacked'
  <2>1. Handler("mode", [at |-> "clear", status |-> Status])
    BY <1>1
  <2>2. "mode" \in HandlerAt \ {"none"} /\ "clear" \in HandlerAt /\ "clear" # "none"
    BY DEF HandlerAt
  <2>3. UNCHANGED <<running, pc>>
    BY <1>1
  <2> QED
    BY <1>2, <2>1, <2>2, <2>3, HandlerStep
<1>4. ~irq /\ Status # {} /\ Status \subseteq chip.flags
  BY <1>2, <1>3 DEF IInv, PinLow, InHandler, Status
<1>5. /\ chip' \in Chips /\ chip'.ce = chip.ce /\ chip'.p0 = chip.p0
      /\ chip'.flags = chip.flags /\ chip'.rx = chip.rx /\ chip'.tx = chip.tx
      /\ chip'.air \in {chip.air, NoAddress}
      /\ over => chip'.prim_rx = TRUE
      /\ ~over => chip'.prim_rx = chip.prim_rx
  BY <1>1, <1>2 DEF Chips
<1>6. TypeOK'
  BY <1>1, <1>3, <1>5 DEF IInv, TypeOK, RadioTypeOK, HandlerAt, app_vars, missed
<1>7. PinLow' /\ NoStuckFlag'
  BY <1>1, <1>2, <1>3, <1>4, <1>5 DEF PinLow, NoStuckFlag, InHandler
<1>8. PacketWaits'
  BY <1>1, <1>2, <1>3, <1>5, OneHandler DEF IInv, PacketWaits, Stacked, Contexts, app_vars
<1>9. over => chip.p0 = Own
  BY <1>2, <1>3 DEF IInv, ComesBack, Status
<1>10. ComesBack'
  <2>1. pc \notin {"radio_init", "configure_rx", "tx_pipe0"}
    BY <1>2, <1>3, OneHandler DEF IInv, Stacked, Contexts, MainPC, NoHandler
  <2>2. isr'[running] # NoHandler
    BY <1>3 DEF NoHandler
  <2> QED
    BY <1>1, <1>2, <1>3, <1>5, <1>9, <2>1, <2>2 DEF IInv, ComesBack, missed
<1> QED
  BY <1>3, <1>6, <1>7, <1>8, <1>10 DEF IInv

LEMMA ClearFlagsInv == IInv /\ ClearFlags => IInv'
<1> SUFFICES ASSUME IInv, ClearFlags
             PROVE  IInv'
  OBVIOUS
<1>1. /\ Handler("clear", [at |-> "ce", status |-> Status])
      /\ chip' = [chip EXCEPT !.flags = {}]
      /\ tx_missed' = (tx_missed \/ chip.flags \ (Status \cup {"RX_DR"}) # {})
      /\ rx_missed' \in BOOLEAN
      /\ UNCHANGED <<irq, transmit_lock, tx_address, received, running, pc, app_vars,
                     error_msg>>
  <2>1. chip.flags \cap Cleared = chip.flags /\ chip.flags \ Cleared = {}
    BY DEF Cleared, IInv, TypeOK, RadioTypeOK, Chips
  <2> QED
    BY <2>1 DEF ClearFlags
<1>2. running \in Contexts /\ Status \in SUBSET Flags /\ chip \in Chips
  BY DEF IInv, TypeOK, RadioTypeOK, Status
<1>3. /\ isr' \in [Contexts -> [at : HandlerAt, status : SUBSET Flags]]
      /\ isr[running].at = "clear" /\ isr'[running].at = "ce"
      /\ isr'[running].status = Status
      /\ \A c \in Contexts : c # running => isr'[c] = NoHandler /\ isr'[c].at = "none"
                                              /\ isr'[c].status = {}
      /\ Stacked'
  BY <1>1, <1>2, HandlerStep DEF HandlerAt
<1>4. ~irq /\ Status \subseteq chip.flags
  BY <1>2, <1>3 DEF IInv, PinLow, InHandler, Status
<1>5. /\ chip' \in Chips /\ chip'.ce = chip.ce /\ chip'.p0 = chip.p0
      /\ chip'.prim_rx = chip.prim_rx /\ chip'.rx = chip.rx /\ chip'.tx = chip.tx
      /\ chip'.air = chip.air /\ chip'.flags = {}
  BY <1>1, <1>2 DEF Chips
<1>6. TypeOK'
  BY <1>1, <1>3, <1>5 DEF IInv, TypeOK, RadioTypeOK, HandlerAt, app_vars
<1>7. PinLow' /\ NoStuckFlag'
  BY <1>1, <1>3, <1>4, <1>5 DEF PinLow, NoStuckFlag, InHandler
<1>8. PacketWaits'
  BY <1>1, <1>5 DEF IInv, PacketWaits, app_vars
<1>9. ~tx_missed' /\ ~chip.prim_rx => ~tx_missed /\ chip.flags \cap TxFlags = {}
  <2>1. Status \cap TxFlags # {} => chip.prim_rx
    BY <1>2, <1>3 DEF IInv, ComesBack, Status
  <2>2. ~tx_missed' => ~tx_missed /\ chip.flags \subseteq Status \cup {"RX_DR"}
    BY <1>1 DEF IInv, TypeOK
  <2> QED
    BY <2>1, <2>2 DEF TxFlags
<1>10. ComesBack'
  BY <1>1, <1>2, <1>3, <1>5, <1>9 DEF IInv, ComesBack, NoHandler
<1> QED
  BY <1>3, <1>6, <1>7, <1>8, <1>10 DEF IInv

LEMMA EndOfInterruptInv == IInv /\ EndOfInterrupt => IInv'
<1> SUFFICES ASSUME IInv, EndOfInterrupt
             PROVE  IInv'
  OBVIOUS
<1>1. /\ Handler("ce", [at |-> "none", status |-> {}])
      /\ chip' = [chip EXCEPT !.ce = TRUE]
      /\ UNCHANGED <<irq, transmit_lock, tx_address, received, running, pc, app_vars,
                     error_msg, missed>>
  BY DEF EndOfInterrupt, CE, NoHandler
<1>2. running \in Contexts /\ {} \in SUBSET Flags /\ chip \in Chips
  BY DEF IInv, TypeOK, RadioTypeOK
<1>3. /\ isr' \in [Contexts -> [at : HandlerAt, status : SUBSET Flags]]
      /\ isr[running].at = "ce"
      /\ \A c \in Contexts : isr'[c].at = "none" /\ isr'[c].status = {}
      /\ Stacked'
  <2>1. Handler("ce", [at |-> "none", status |-> {}])
    BY <1>1
  <2>2. /\ isr' \in [Contexts -> [at : HandlerAt, status : SUBSET Flags]]
        /\ isr[running].at = "ce" /\ isr'[running].at = "none"
        /\ isr'[running].status = {}
        /\ \A c \in Contexts : c # running => isr'[c].at = "none" /\ isr'[c].status = {}
        /\ UNCHANGED <<running, pc>> => Stacked'
    BY <1>2, <2>1, HandlerStep DEF HandlerAt
  <2> QED
    BY <1>1, <2>2
<1>4. /\ chip' \in Chips /\ chip'.ce = TRUE /\ chip'.p0 = chip.p0
      /\ chip'.prim_rx = chip.prim_rx /\ chip'.rx = chip.rx /\ chip'.tx = chip.tx
      /\ chip'.air = chip.air /\ chip'.flags = chip.flags
  BY <1>1, <1>2 DEF Chips
<1>5. isr[running] # NoHandler
  BY <1>3 DEF NoHandler
<1>6. TypeOK'
  BY <1>1, <1>3, <1>4 DEF IInv, TypeOK, RadioTypeOK, HandlerAt, app_vars, missed
<1>7. PinLow' /\ NoStuckFlag'
  BY <1>1, <1>3, <1>4, <1>5, OneHandler DEF IInv, PinLow, NoStuckFlag, InHandler, Alive
<1>8. PacketWaits'
  BY <1>1, <1>3, <1>4, <1>5, OneHandler DEF IInv, PacketWaits, Contexts, app_vars
<1>9. pc # "radio_init"
  BY <1>2, <1>5 DEF IInv, Stacked, MainPC, Contexts
<1>10. ComesBack'
  BY <1>1, <1>3, <1>4, <1>9 DEF IInv, ComesBack, missed
<1> QED
  BY <1>3, <1>6, <1>7, <1>8, <1>10 DEF IInv

\* The infrared interrupt touches nothing the invariant relates.
LEMMA ir_rxhandlerInv ==
  ASSUME IInv, NEW v \in IrValues, ir_rxhandler(v)
  PROVE  IInv'
<1>1. /\ Alive
      /\ current_roomba_status' \in {"ROOMBA_ALIVE", "ROOMBA_DEAD"}
      /\ last_ir_value' \in IrValues
      /\ error_msg' \in {"NONE", "INVALID_SERVICE"}
      /\ UNCHANGED <<radio_vars, running, pc, isr, services, packet, more, taken, seen,
                     moving, missed>>
  BY DEF ir_rxhandler, IInv, TypeOK, Enabled_I, Alive, IrValues
<1>2. TypeOK'
  BY <1>1 DEF IInv, TypeOK, RadioTypeOK, radio_vars, missed
<1>3. Stacked' /\ PinLow' /\ PacketWaits' /\ ComesBack'
  BY <1>1 DEF IInv, Stacked, PinLow, InHandler, PacketWaits, ComesBack, radio_vars, missed
<1>4. NoStuckFlag'
  BY <1>1 DEF IInv, NoStuckFlag, radio_vars
<1> QED
  BY <1>2, <1>3, <1>4 DEF IInv

-----------------------------------------------------------------------------
(* r_main and the controller task.                                         *)

\* Nothing the invariant says of handlers and of the pin is touched by the code of a
\* task that leaves the flags alone; the handler that woke the controller stays
\* where it is.
LEMMA TaskStep ==
  ASSUME IInv, Alive, isr[running] = NoHandler,
         UNCHANGED <<running, isr, irq, error_msg>>, chip'.flags = chip.flags
  PROVE  /\ pc # "radio_init" => PinLow' /\ NoStuckFlag'
         /\ running = "controller" /\ pc # "roomba_init"
              => isr["idle"] # NoHandler \/ pc = "subscribe"
         /\ running = "controller" /\ pc # "subscribe"
              /\ pc' \in PC \ (MainPC \cup {"waiting", "roomba_init"})
              /\ (pc = "roomba_init" => pc' = "subscribe")
              => Stacked'
         /\ running \in Contexts /\ chip \in Chips
<1>1. pc # "radio_init" => PinLow' /\ NoStuckFlag'
  BY DEF IInv, PinLow, NoStuckFlag, InHandler
<1>2. running = "controller" => IF isr["idle"] = NoHandler THEN pc \in {"roomba_init", "subscribe"}
                                ELSE isr["idle"].at = "tx" /\ pc # "roomba_init"
  BY DEF IInv, Stacked
<1>3. ASSUME running = "controller", pc # "subscribe",
             pc' \in PC \ (MainPC \cup {"waiting", "roomba_init"}),
             pc = "roomba_init" => pc' = "subscribe"
      PROVE  Stacked'
  BY <1>2, <1>3 DEF IInv, Stacked, Contexts
<1> QED
  BY <1>1, <1>2, <1>3 DEF IInv, TypeOK, RadioTypeOK

\* pc in the code of the controller tells that it runs.
LEMMA ControllerAt ==
  ASSUME IInv, NEW p \in PC \ (MainPC \cup {"waiting"}), At(p)
  PROVE  running = "controller" /\ isr[running] = NoHandler /\ Alive /\ pc = p
  BY DEF IInv, TypeOK, Stacked, At, Contexts

LEMMA StartControllerInv == IInv /\ StartController => IInv'
<1> SUFFICES ASSUME IInv, StartController
             PROVE  IInv'
  OBVIOUS
<1>1. /\ Alive /\ pc = "create" /\ running = "main" /\ isr["main"] = NoHandler
      /\ running' = "controller" /\ pc' = "roomba_init"
      /\ UNCHANGED <<radio_vars, isr, app_vars, error_msg, missed>>
  BY DEF StartController, At, IInv, Stacked, MainPC
<1>2. \A c \in Contexts : isr[c] = NoHandler /\ isr[c].at = "none"
  BY <1>1 DEF IInv, Stacked, Contexts, NoHandler
<1>3. TypeOK'
  BY <1>1 DEF IInv, TypeOK, RadioTypeOK, PC, Contexts, radio_vars, app_vars, missed
<1>4. Stacked'
  BY <1>1, <1>2 DEF IInv, Stacked, Contexts, MainPC
<1>5. PinLow' /\ NoStuckFlag'
  BY <1>1, <1>2 DEF IInv, PinLow, NoStuckFlag, InHandler, Alive, radio_vars
<1>6. PacketWaits' /\ ComesBack'
  BY <1>1, <1>2 DEF IInv, PacketWaits, ComesBack, Replying, radio_vars, app_vars, missed
<1> QED
  BY <1>3, <1>4, <1>5, <1>6 DEF IInv

LEMMA r_mainInv == IInv /\ r_main => IInv'
<1> SUFFICES ASSUME IInv, r_main
             PROVE  IInv'
  OBVIOUS
<1>1. PICK from, to \in MainPC :
        /\ At(from) /\ pc' = to /\ to # "radio_init"
        /\ UNCHANGED <<running, isr, error_msg, missed>> /\ KeepApp
        /\ services' \subseteq {"radio", "ir"}
        /\ \/ from = "radio_init" /\ to = "configure_rx" /\ Radio_Init
           \/ from = "configure_rx" /\ to = "init_radio_service" /\ Radio_Configure_Rx
           \/ /\ from \notin {"radio_init", "configure_rx"} /\ to # "configure_rx"
              /\ UNCHANGED radio_vars
  BY DEF r_main, MainStep, MainPC, IInv, TypeOK
<1>2. /\ Alive /\ pc = from /\ running = "main" /\ chip \in Chips
      /\ \A c \in Contexts : isr[c] = NoHandler /\ isr[c].at = "none" /\ isr[c].status = {}
  BY <1>1 DEF At, IInv, TypeOK, RadioTypeOK, Stacked, Contexts, NoHandler
<1>3. Stacked'
  BY <1>1, <1>2 DEF IInv, Stacked, Contexts, MainPC
<1>4. CASE from = "radio_init"
  <2>1. /\ chip.flags = {} /\ chip.rx = <<>> /\ chip.air = NoAddress
        /\ pc' = "configure_rx" /\ Radio_Init
    BY <1>1, <1>2, <1>4 DEF IInv, ComesBack
  <2>2. /\ chip' \in Chips /\ chip'.ce = TRUE /\ chip'.prim_rx = TRUE /\ chip'.flags = {}
        /\ chip'.rx = <<>> /\ chip'.tx = <<>> /\ chip'.air = NoAddress /\ chip'.p0 = chip.p0
        /\ transmit_lock' = 0 /\ irq' = FALSE /\ UNCHANGED <<tx_address, received>>
    BY <1>2, <2>1, EmptySeq DEF Radio_Init, configure_registers, CE, Chips
  <2>3. TypeOK'
    <3>1. RadioTypeOK'
      <4>1. /\ Len(chip'.rx) <= FIFO_SIZE /\ Len(chip'.tx) <= FIFO_SIZE
            /\ transmit_lock' \in 0 .. 1
        BY <2>2 DEF FIFO_SIZE
      <4> QED
        BY <2>2, <4>1 DEF IInv, TypeOK, RadioTypeOK
    <3> QED
      BY <1>1, <2>1, <2>2, <3>1 DEF IInv, TypeOK, PC, InDriver, KeepApp, missed
  <2>4. PinLow' /\ NoStuckFlag'
    BY <1>1, <1>2, <2>2 DEF PinLow, NoStuckFlag, InHandler
  <2>5. PacketWaits'
    BY <1>1, <2>1, <2>2 DEF IInv, PacketWaits, Replying, KeepApp
  <2>6. ComesBack'
    BY <1>1, <1>2, <2>1, <2>2 DEF ComesBack
  <2> QED
    BY <1>3, <2>3, <2>4, <2>5, <2>6 DEF IInv
<1>5. CASE from = "configure_rx"
  <2>1. pc' = "init_radio_service" /\ Radio_Configure_Rx
    BY <1>1, <1>5
  <2>2. /\ chip' \in Chips /\ chip'.ce = chip.ce /\ chip'.prim_rx = chip.prim_rx
        /\ chip'.flags = chip.flags /\ chip'.rx = chip.rx /\ chip'.tx = chip.tx
        /\ chip'.air = chip.air /\ chip'.p0 = Own
        /\ UNCHANGED <<irq, transmit_lock, tx_address, received>>
    BY <1>2, <2>1 DEF Radio_Configure_Rx, Chips
  <2>3. TypeOK'
    BY <1>1, <2>1, <2>2 DEF IInv, TypeOK, RadioTypeOK, PC, KeepApp, missed
  <2>4. PinLow' /\ NoStuckFlag'
    BY <1>1, <1>2, <1>5, <2>2 DEF IInv, PinLow, NoStuckFlag, InHandler
  <2>5. PacketWaits'
    BY <1>1, <1>2, <1>5, <2>1, <2>2 DEF IInv, PacketWaits, Replying, KeepApp
  <2>6. ComesBack'
    BY <1>1, <1>2, <1>5, <2>1, <2>2 DEF IInv, ComesBack, missed
  <2> QED
    BY <1>3, <2>3, <2>4, <2>5, <2>6 DEF IInv
<1>6. CASE from \notin {"radio_init", "configure_rx"}
  <2>1. UNCHANGED radio_vars
    BY <1>1, <1>6
  <2>2. TypeOK'
    BY <1>1, <2>1 DEF IInv, TypeOK, RadioTypeOK, PC, InDriver, MainPC, KeepApp, radio_vars, missed
  <2>3. PinLow' /\ NoStuckFlag'
    BY <1>1, <1>2, <1>6, <2>1 DEF IInv, PinLow, NoStuckFlag, InHandler, radio_vars
  <2>4. PacketWaits'
    BY <1>1, <1>2, <2>1 DEF IInv, PacketWaits, Replying, MainPC, KeepApp, radio_vars
  <2>5. ComesBack'
    BY <1>1, <1>2, <1>6, <2>1 DEF IInv, ComesBack, MainPC, radio_vars, missed
  <2> QED
    BY <1>3, <2>2, <2>3, <2>4, <2>5 DEF IInv
<1> QED
  BY <1>4, <1>5, <1>6

LEMMA RoombaInitInv == IInv /\ RoombaInit => IInv'
<1> SUFFICES ASSUME IInv, RoombaInit
             PROVE  IInv'
  OBVIOUS
<1>1. /\ At("roomba_init") /\ pc' = "subscribe"
      /\ UNCHANGED <<radio_vars, running, isr, app_vars, error_msg, missed>>
  BY DEF RoombaInit, Go, KeepPacket, KeepRoomba, app_vars
<1>2. running = "controller" /\ isr[running] = NoHandler /\ Alive /\ pc = "roomba_init"
  BY <1>1, ControllerAt DEF PC, MainPC, InDriver
<1>3. Stacked' /\ PinLow' /\ NoStuckFlag'
  BY <1>1, <1>2, TaskStep DEF PC, MainPC, radio_vars
<1>4. TypeOK'
  BY <1>1 DEF IInv, TypeOK, RadioTypeOK, PC, radio_vars, app_vars, missed
<1>5. PacketWaits' /\ ComesBack'
  BY <1>1, <1>2 DEF IInv, PacketWaits, ComesBack, Replying, radio_vars, app_vars, missed
<1> QED
  BY <1>3, <1>4, <1>5 DEF IInv

\* The controller waits and the idle task, with the handler on its stack, goes on.
LEMMA SubscribeInv == IInv /\ Subscribe => IInv'
<1> SUFFICES ASSUME IInv, Subscribe
             PROVE  IInv'
  OBVIOUS
<1>1. /\ At("subscribe") /\ pc' = "waiting" /\ running' = "idle"
      /\ packet' = NoPacket /\ more' = FALSE
      /\ UNCHANGED <<radio_vars, isr, services, taken, seen, current_roomba_status,
                     last_ir_value, moving, error_msg, missed>>
  BY DEF Subscribe
<1>2. running = "controller" /\ isr[running] = NoHandler /\ Alive /\ pc = "subscribe"
  BY <1>1, ControllerAt DEF PC, MainPC, InDriver
<1>3. TypeOK'
  BY <1>1 DEF IInv, TypeOK, RadioTypeOK, Contexts, PC, radio_vars, missed
<1>4. Stacked'
  BY <1>1, <1>2 DEF IInv, Stacked, Contexts, MainPC
<1>5. PinLow' /\ NoStuckFlag'
  BY <1>1, <1>2 DEF IInv, PinLow, NoStuckFlag, InHandler, Alive, radio_vars
<1>6. PacketWaits' /\ ComesBack'
  BY <1>1, <1>2 DEF IInv, PacketWaits, ComesBack, Replying, radio_vars, missed
<1> QED
  BY <1>3, <1>4, <1>5, <1>6 DEF IInv

LEMMA StopIfDeadInv == IInv /\ StopIfDead => IInv'
<1> SUFFICES ASSUME IInv, StopIfDead
             PROVE  IInv'
  OBVIOUS
<1>1. /\ At("woken") /\ pc' = "receive" /\ moving' \in BOOLEAN
      /\ UNCHANGED <<radio_vars, running, isr, services, packet, more, taken, seen,
                     current_roomba_status, last_ir_value, error_msg, missed>>
  BY DEF StopIfDead, Go, KeepPacket
<1>2. running = "controller" /\ isr[running] = NoHandler /\ Alive /\ pc = "woken"
  BY <1>1, ControllerAt DEF PC, MainPC, InDriver
<1>3. Stacked' /\ PinLow' /\ NoStuckFlag'
  BY <1>1, <1>2, TaskStep DEF PC, MainPC, radio_vars
<1>4. TypeOK'
  BY <1>1 DEF IInv, TypeOK, RadioTypeOK, PC, radio_vars, missed
<1>5. PacketWaits' /\ ComesBack'
  BY <1>1, <1>2 DEF IInv, PacketWaits, ComesBack, Replying, radio_vars, missed
<1> QED
  BY <1>3, <1>4, <1>5 DEF IInv

LEMMA ReceiveStatusInv == IInv /\ ReceiveStatus => IInv'
<1> SUFFICES ASSUME IInv, ReceiveStatus
             PROVE  IInv'
  OBVIOUS
<1>1. /\ At("receive") /\ transmit_lock' = 0 /\ seen' = received
      /\ UNCHANGED <<irq, tx_address, received, running, isr, services, packet, more,
                     taken, current_roomba_status, last_ir_value, moving, error_msg,
                     missed>>
  BY DEF ReceiveStatus
<1>2. running = "controller" /\ isr[running] = NoHandler /\ Alive /\ pc = "receive"
  BY <1>1, ControllerAt DEF PC, MainPC, InDriver
<1>3. pc' = "payload" /\ chip' = [chip EXCEPT !.ce = FALSE]
  BY <1>2 DEF ReceiveStatus, IInv, PacketWaits, CE
<1>4. /\ chip' \in Chips /\ chip'.ce = FALSE /\ chip'.p0 = chip.p0
      /\ chip'.prim_rx = chip.prim_rx /\ chip'.rx = chip.rx /\ chip'.tx = chip.tx
      /\ chip'.air = chip.air /\ chip'.flags = chip.flags
  BY <1>3 DEF IInv, TypeOK, RadioTypeOK, Chips
<1>5. Stacked' /\ PinLow' /\ NoStuckFlag' /\ isr["idle"] # NoHandler
  BY <1>1, <1>2, <1>3, <1>4, TaskStep DEF PC, MainPC, InDriver
<1>6. TypeOK'
  BY <1>1, <1>3, <1>4 DEF IInv, TypeOK, RadioTypeOK, PC, InDriver, missed
<1>7. PacketWaits'
  BY <1>1, <1>2, <1>3, <1>4 DEF IInv, PacketWaits, Replying
<1>8. ComesBack'
  BY <1>1, <1>2, <1>3, <1>4, <1>5 DEF IInv, ComesBack, Contexts, missed
<1> QED
  BY <1>5, <1>6, <1>7, <1>8 DEF IInv

LEMMA ReceivePayloadInv == IInv /\ ReceivePayload => IInv'
<1> SUFFICES ASSUME IInv, ReceivePayload
             PROVE  IInv'
  OBVIOUS
<1>1. /\ At("payload") /\ pc' = "status"
      /\ packet' = Head(chip.rx) /\ taken' = taken + 1
      /\ chip' = [chip EXCEPT !.rx = Tail(@)]
      /\ UNCHANGED <<irq, transmit_lock, tx_address, received, running, isr, services,
                     more, seen, current_roomba_status, last_ir_value, moving,
                     error_msg, missed>>
  BY DEF ReceivePayload, Go, KeepRoomba, R_RX_PAYLOAD
<1>2. running = "controller" /\ isr[running] = NoHandler /\ Alive /\ pc = "payload"
  BY <1>1, ControllerAt DEF PC, MainPC, InDriver
<1>3. /\ chip.rx \in Seq(Packets) /\ chip.rx # <<>> /\ chip \in Chips
      /\ taken + Len(chip.rx) = received /\ Len(chip.rx) <= FIFO_SIZE
      /\ taken \in Nat /\ received \in Nat
  BY <1>2, RadioAssumption DEF IInv, TypeOK, RadioTypeOK, PacketWaits, Chips
<1>4. /\ Head(chip.rx) \in Packets /\ Tail(chip.rx) \in Seq(Packets)
      /\ Len(Tail(chip.rx)) = Len(chip.rx) - 1 /\ Len(chip.rx) \in Nat
  BY <1>3
<1>5. /\ chip' \in Chips /\ chip'.ce = chip.ce /\ chip'.p0 = chip.p0
      /\ chip'.prim_rx = chip.prim_rx /\ chip'.rx = Tail(chip.rx) /\ chip'.tx = chip.tx
      /\ chip'.air = chip.air /\ chip'.flags = chip.flags
  BY <1>1, <1>3, <1>4 DEF Chips
<1>6. Stacked' /\ PinLow' /\ NoStuckFlag' /\ isr["idle"] # NoHandler
  BY <1>1, <1>2, <1>5, TaskStep DEF PC, MainPC, InDriver
<1>7. TypeOK'
  <2>1. taken' \in 0 .. received
    BY <1>1, <1>3, <1>4, <1>5
  <2>2. RadioTypeOK'
    BY <1>1, <1>3, <1>4, <1>5 DEF IInv, TypeOK, RadioTypeOK, FIFO_SIZE
  <2> QED
    BY <1>1, <1>4, <2>1, <2>2 DEF IInv, TypeOK, PC, InDriver, missed
<1>8. PacketWaits'
  <2>1. taken' + Len(chip'.rx) = received'
    BY <1>1, <1>3, <1>4, <1>5
  <2>2. isr'["idle"].at = "tx"
    BY <1>1, <1>2, <1>6 DEF IInv, Stacked
  <2> QED
    BY <1>1, <1>4, <2>1, <2>2 DEF PacketWaits, Replying
<1>9. ComesBack'
  BY <1>1, <1>2, <1>5, <1>6 DEF IInv, ComesBack, Contexts, missed
<1> QED
  BY <1>6, <1>7, <1>8, <1>9 DEF IInv

LEMMA ReceiveResultInv == IInv /\ ReceiveResult => IInv'
<1> SUFFICES ASSUME IInv, ReceiveResult
             PROVE  IInv'
  OBVIOUS
<1>1. /\ At("status") /\ pc' = "handle" /\ more' = (chip.rx # <<>>) /\ seen' = received
      /\ transmit_lock' = 0 /\ chip' = [chip EXCEPT !.ce = TRUE]
      /\ UNCHANGED <<irq, tx_address, received, running, isr, services, packet, taken,
                     current_roomba_status, last_ir_value, moving, error_msg, missed>>
  BY DEF ReceiveResult, Go, KeepRoomba, MorePackets, CE
<1>2. running = "controller" /\ isr[running] = NoHandler /\ Alive /\ pc = "status"
  BY <1>1, ControllerAt DEF PC, MainPC, InDriver
<1>3. /\ chip' \in Chips /\ chip'.ce = TRUE /\ chip'.p0 = chip.p0
      /\ chip'.prim_rx = chip.prim_rx /\ chip'.rx = chip.rx /\ chip'.tx = chip.tx
      /\ chip'.air = chip.air /\ chip'.flags = chip.flags
  BY <1>1 DEF IInv, TypeOK, RadioTypeOK, Chips
<1>4. Stacked' /\ PinLow' /\ NoStuckFlag' /\ isr["idle"] # NoHandler
  BY <1>1, <1>2, <1>3, TaskStep DEF PC, MainPC, InDriver
<1>5. TypeOK'
  BY <1>1, <1>3 DEF IInv, TypeOK, RadioTypeOK, PC, missed
<1>6. PacketWaits'
  BY <1>1, <1>2, <1>3 DEF IInv, PacketWaits, Replying
<1>7. ComesBack'
  BY <1>1, <1>2, <1>3, <1>4 DEF IInv, ComesBack, missed
<1> QED
  BY <1>4, <1>5, <1>6, <1>7 DEF IInv

\* What pc is next after a packet has been dealt with.
LEMMA NextPacketLemma ==
  ASSUME IInv, pc \in Replying
  PROVE  /\ NextPacket \in {"receive", "subscribe"}
         /\ NextPacket = "receive" => chip.rx # <<>>
  BY DEF NextPacket, IInv, PacketWaits

LEMMA HandleInv == IInv /\ Handle => IInv'
<1> SUFFICES ASSUME IInv, Handle
             PROVE  IInv'
  OBVIOUS
<1>1. /\ At("handle") /\ pc' \in {"send", "set_tx_addr", NextPacket}
      /\ current_roomba_status' \in {"ROOMBA_ALIVE", "ROOMBA_DEAD"}
      /\ UNCHANGED <<radio_vars, running, isr, services, packet, more, taken, seen,
                     last_ir_value, moving, error_msg, missed>>
  BY DEF Handle, IInv, TypeOK
<1>2. running = "controller" /\ isr[running] = NoHandler /\ Alive /\ pc = "handle"
  BY <1>1, ControllerAt DEF PC, MainPC, InDriver
<1>3. NextPacket \in {"receive", "subscribe"} /\ (NextPacket = "receive" => chip.rx # <<>>)
  BY <1>2, NextPacketLemma DEF Replying
<1>4. Stacked' /\ PinLow' /\ NoStuckFlag'
  BY <1>1, <1>2, <1>3, TaskStep DEF PC, MainPC, InDriver, radio_vars
<1>5. TypeOK'
  BY <1>1, <1>3 DEF IInv, TypeOK, RadioTypeOK, PC, InDriver, radio_vars, missed
<1>6. PacketWaits' /\ ComesBack'
  BY <1>1, <1>2, <1>3 DEF IInv, PacketWaits, ComesBack, Replying, radio_vars, missed
<1> QED
  BY <1>4, <1>5, <1>6 DEF IInv

LEMMA SendCommandInv == IInv /\ SendCommand => IInv'
<1> SUFFICES ASSUME IInv, SendCommand
             PROVE  IInv'
  OBVIOUS
<1>1. /\ At("send") /\ pc' = "set_tx_addr" /\ moving' \in BOOLEAN
      /\ UNCHANGED <<radio_vars, running, isr, services, packet, more, taken, seen,
                     current_roomba_status, last_ir_value, error_msg, missed>>
  BY DEF SendCommand, Go, KeepPacket
<1>2. running = "controller" /\ isr[running] = NoHandler /\ Alive /\ pc = "send"
  BY <1>1, ControllerAt DEF PC, MainPC, InDriver
<1>3. Stacked' /\ PinLow' /\ NoStuckFlag'
  BY <1>1, <1>2, TaskStep DEF PC, MainPC, InDriver, radio_vars
<1>4. TypeOK'
  BY <1>1 DEF IInv, TypeOK, RadioTypeOK, PC, InDriver, radio_vars, missed
<1>5. PacketWaits' /\ ComesBack'
  BY <1>1, <1>2 DEF IInv, PacketWaits, ComesBack, Replying, radio_vars, missed
<1> QED
  BY <1>3, <1>4, <1>5 DEF IInv

LEMMA SetTxAddrInv == IInv /\ SetTxAddr => IInv'
<1> SUFFICES ASSUME IInv, SetTxAddr
             PROVE  IInv'
  OBVIOUS
<1>1. /\ At("set_tx_addr") /\ pc' = "transmit"
      /\ tx_address' = packet.sender /\ chip' = [chip EXCEPT !.tx_addr = packet.sender]
      /\ UNCHANGED <<irq, transmit_lock, received, running, isr, services, packet, more,
                     taken, seen, current_roomba_status, last_ir_value, moving, error_msg,
                     missed>>
  BY DEF SetTxAddr, Go, Radio_Set_Tx_Addr, KeepPacket, KeepRoomba
<1>2. running = "controller" /\ isr[running] = NoHandler /\ Alive /\ pc = "set_tx_addr"
  BY <1>1, ControllerAt DEF PC, MainPC, InDriver
<1>3. packet.sender \in Remotes
  BY <1>2 DEF IInv, PacketWaits, Replying, Packets
<1>4. /\ chip' \in Chips /\ chip'.ce = chip.ce /\ chip'.p0 = chip.p0
      /\ chip'.prim_rx = chip.prim_rx /\ chip'.rx = chip.rx /\ chip'.tx = chip.tx
      /\ chip'.air = chip.air /\ chip'.flags = chip.flags
  BY <1>1, <1>3 DEF IInv, TypeOK, RadioTypeOK, Chips
<1>5. Stacked' /\ PinLow' /\ NoStuckFlag'
  BY <1>1, <1>2, <1>4, TaskStep DEF PC, MainPC, InDriver
<1>6. TypeOK'
  BY <1>1, <1>3, <1>4 DEF IInv, TypeOK, RadioTypeOK, PC, InDriver, missed
<1>7. PacketWaits' /\ ComesBack'
  BY <1>1, <1>2, <1>4 DEF IInv, PacketWaits, ComesBack, Replying, missed
<1> QED
  BY <1>5, <1>6, <1>7 DEF IInv

\* The payload is appended unless the FIFO is full, which is then not empty either.
LEMMA PayloadLemma ==
  ASSUME NEW c \in Chips, Len(c.tx) <= FIFO_SIZE, NEW p \in Packets
  PROVE  LET d == W_TX_PAYLOAD(c, p)
         IN  /\ d \in Chips /\ Len(d.tx) <= FIFO_SIZE /\ d.tx # <<>>
             /\ d.ce = c.ce /\ d.prim_rx = c.prim_rx /\ d.p0 = c.p0 /\ d.rx = c.rx
             /\ d.flags = c.flags /\ d.air = c.air
<1> DEFINE q == IF Len(c.tx) < FIFO_SIZE THEN Append(c.tx, p) ELSE c.tx
<1>1. c.tx \in Seq(Packets) /\ Len(c.tx) \in Nat
  BY DEF Chips
<1>2. q \in Seq(Packets) /\ Len(q) <= FIFO_SIZE /\ q # <<>>
  BY <1>1 DEF FIFO_SIZE
<1> HIDE DEF q
<1>3. [c EXCEPT !.tx = q] \in Chips
  BY <1>2 DEF Chips
<1>4. W_TX_PAYLOAD(c, p) = [c EXCEPT !.tx = q]
  BY DEF W_TX_PAYLOAD, q
<1> QED
  BY <1>2, <1>3, <1>4 DEF Chips

LEMMA Radio_TransmitInv == IInv /\ Radio_Transmit => IInv'
<1> SUFFICES ASSUME IInv, Radio_Transmit
             PROVE  IInv'
  OBVIOUS
<1> DEFINE Sending == {"transmit", "tx_mode", "tx_pipe0", "tx_payload", "tx_ce"}
<1>1. PICK from \in Sending, to \in {"tx_mode", "tx_pipe0", "tx_payload", "tx_ce", NextPacket} :
        /\ At(from) /\ pc' = to /\ transmit_lock' \in {transmit_lock, 1}
        /\ UNCHANGED <<irq, tx_address, received, running, isr, services, packet, more,
                       taken, seen, current_roomba_status, last_ir_value, moving, error_msg,
                       missed>>
        /\ \/ from = "transmit" /\ to = "tx_mode" /\ chip' = CE(chip, FALSE)
           \/ from = "tx_mode" /\ to = "tx_pipe0" /\ chip' = set_tx_mode(chip)
           \/ from = "tx_pipe0" /\ to = "tx_payload" /\ chip' = [chip EXCEPT !.p0 = tx_address]
           \/ from = "tx_payload" /\ to = "tx_ce" /\ chip' = W_TX_PAYLOAD(chip, packet)
           \/ from = "tx_ce" /\ to = NextPacket /\ chip' = CE(chip, TRUE)
  BY DEF Radio_Transmit, Command, Go, KeepPacket, KeepRoomba
<1>2. running = "controller" /\ isr[running] = NoHandler /\ Alive /\ pc = from
  BY <1>1, ControllerAt DEF PC, MainPC, InDriver
<1>3. NextPacket \in {"receive", "subscribe"} /\ (NextPacket = "receive" => chip.rx # <<>>)
  BY <1>2, NextPacketLemma DEF Replying
<1>4. /\ chip \in Chips /\ Len(chip.tx) <= FIFO_SIZE /\ tx_address \in {Default} \cup Remotes
      /\ packet \in Packets /\ isr["idle"] # NoHandler
  BY <1>2, TaskStep DEF IInv, TypeOK, RadioTypeOK, PacketWaits, Stacked, Replying
<1>5. /\ chip' \in Chips /\ Len(chip'.tx) <= FIFO_SIZE
      /\ chip'.rx = chip.rx /\ chip'.air = chip.air /\ chip'.flags = chip.flags
      /\ from \in {"tx_mode", "tx_pipe0"} \/ (chip'.p0 = chip.p0 /\ chip'.prim_rx = chip.prim_rx)
      /\ from = "tx_mode" => chip'.prim_rx = FALSE /\ chip'.p0 = chip.p0
      /\ from = "tx_pipe0" => chip'.prim_rx = chip.prim_rx
      /\ from = "tx_payload" => chip'.tx # <<>>
      /\ from # "tx_payload" => chip'.tx = chip.tx
  <2>1. CASE from = "tx_payload"
    BY <1>1, <1>4, <2>1, PayloadLemma
  <2>2. CASE from = "tx_pipe0"
    BY <1>1, <1>4, <2>2 DEF Chips
  <2>3. CASE from = "tx_mode"
    <3>1. chip' = [chip EXCEPT !.prim_rx = FALSE]
      BY <1>1, <2>3 DEF set_tx_mode
    <3>2. /\ chip' \in Chips /\ chip'.prim_rx = FALSE /\ chip'.p0 = chip.p0
          /\ chip'.rx = chip.rx /\ chip'.tx = chip.tx /\ chip'.air = chip.air
          /\ chip'.flags = chip.flags
      BY <1>4, <3>1 DEF Chips
    <3> QED
      BY <1>4, <2>3, <3>2
  <2>4. CASE from \in {"transmit", "tx_ce"}
    BY <1>1, <1>4, <2>4 DEF Chips, CE
  <2> QED
    BY <2>1, <2>2, <2>3, <2>4
<1>6. Stacked' /\ PinLow' /\ NoStuckFlag'
  BY <1>1, <1>2, <1>3, <1>5, TaskStep DEF PC, MainPC, InDriver
<1>7. TypeOK'
  <2>1. pc' \in PC
    BY <1>1, <1>3 DEF PC, InDriver
  <2>2. RadioTypeOK'
    BY <1>1, <1>5 DEF IInv, TypeOK, RadioTypeOK
  <2> QED
    BY <1>1, <2>1, <2>2 DEF IInv, TypeOK, missed
<1>8. PacketWaits'
  BY <1>1, <1>2, <1>3, <1>4, <1>5 DEF IInv, PacketWaits, Replying
<1>9. from = "tx_pipe0" => ~chip.prim_rx 
  BY <1>2 DEF IInv, ComesBack
<1>10. ComesBack'
  <2>1. to # "radio_init" /\ to # "configure_rx"
    BY <1>1, <1>3
  <2>2. chip'.prim_rx => chip'.p0 = Own
    BY <1>2, <1>5, <1>9 DEF IInv, ComesBack
  <2>3. to = "tx_pipe0" => ~chip'.prim_rx
    BY <1>1, <1>3, <1>5
  <2>4. ~tx_missed /\ ~chip'.prim_rx /\ to \notin {"tx_pipe0", "tx_payload"} =>
          chip'.tx # <<>> \/ chip'.flags \cap TxFlags # {}
    BY <1>1, <1>2, <1>3, <1>5 DEF IInv, ComesBack
  <2>5. \A c \in Contexts : isr[c].at \notin {"mode", "clear"}
    BY <1>2, WakingHandler
  <2>6. \E c \in Contexts : isr[c] # NoHandler
    BY <1>4 DEF Contexts
  <2>7. chip'.air # NoAddress => chip'.tx # <<>>
    BY <1>5 DEF IInv, ComesBack
  <2> QED
    BY <1>1, <2>1, <2>2, <2>3, <2>4, <2>5, <2>6, <2>7 DEF ComesBack, missed
<1> QED
  BY <1>6, <1>7, <1>8, <1>10 DEF IInv

LEMMA ControllerInv == IInv /\ Controller => IInv'
  BY RoombaInitInv, SubscribeInv, StopIfDeadInv, ReceiveStatusInv, ReceivePayloadInv,
     ReceiveResultInv, HandleInv, SendCommandInv, SetTxAddrInv, Radio_TransmitInv
  DEF Controller

LEMMA INT4_vectInv == IInv /\ INT4_vect => IInv'
  BY INT4Inv, RxHandlerInv, TxHandlerInv, RxModeInv, ClearFlagsInv, EndOfInterruptInv
  DEF INT4_vect

-----------------------------------------------------------------------------
(* The chip.                                                               *)

\* The chip raises a flag: the pin falls unless it is low already.
LEMMA RaiseLemma ==
  ASSUME IInv, Alive, NEW flag \in Flags, NEW c \in Chips, c.flags = chip.flags,
         Raise(c, flag), UNCHANGED <<pc, isr, running, error_msg>>, pc # "radio_init"
  PROVE  /\ PinLow' /\ NoStuckFlag' /\ Stacked' /\ irq' \in BOOLEAN
         /\ chip' \in Chips /\ chip'.ce = c.ce /\ chip'.prim_rx = c.prim_rx
         /\ chip'.p0 = c.p0 /\ chip'.rx = c.rx /\ chip'.tx = c.tx /\ chip'.air = c.air
         /\ chip'.flags = chip.flags \cup {flag}
<1>1. /\ chip' = [c EXCEPT !.flags = c.flags \cup {flag}]
      /\ irq' = (irq \/ c.flags = {})
  BY DEF Raise
<1>2. c.flags \cup {flag} \in SUBSET Flags
  BY DEF Chips
<1>3. /\ chip' \in Chips /\ chip'.ce = c.ce /\ chip'.prim_rx = c.prim_rx
      /\ chip'.p0 = c.p0 /\ chip'.rx = c.rx /\ chip'.tx = c.tx /\ chip'.air = c.air
      /\ chip'.flags = chip.flags \cup {flag}
  BY <1>1, <1>2 DEF Chips
<1>4. irq \in BOOLEAN
  BY DEF IInv, TypeOK, RadioTypeOK
<1>5. PinLow' /\ NoStuckFlag'
  BY <1>1, <1>3, <1>4 DEF IInv, PinLow, NoStuckFlag, InHandler
<1>6. Stacked' /\ irq' \in BOOLEAN
  BY <1>1 DEF IInv, Stacked
<1> QED
  BY <1>3, <1>5, <1>6

LEMMA AirInv == IInv /\ Air => IInv'
<1> SUFFICES ASSUME IInv, Air
             PROVE  IInv'
  OBVIOUS
<1>1. /\ Alive /\ ChipStep
      /\ UNCHANGED <<running, pc, isr, services, packet, more, taken, seen,
                     current_roomba_status, last_ir_value, moving, error_msg, missed>>
  BY DEF Air, app_vars
<1>2. /\ chip \in Chips /\ chip.rx \in Seq(Packets) /\ chip.tx \in Seq(Packets)
      /\ Len(chip.rx) \in Nat /\ Len(chip.tx) \in Nat
      /\ Len(chip.rx) <= FIFO_SIZE /\ Len(chip.tx) <= FIFO_SIZE
      /\ received \in 0 .. MaxPackets /\ MaxPackets \in Nat
      /\ taken \in 0 .. received /\ seen \in 0 .. received
  BY RadioAssumption DEF IInv, TypeOK, RadioTypeOK, Chips
<1>3. pc = "radio_init" => ~chip.ce /\ chip.air = NoAddress
  BY DEF IInv, ComesBack
<1>4. ASSUME NEW k \in Kinds, NEW r \in Remotes, Receive(k, r)
      PROVE  IInv'
  <2> DEFINE p == [kind |-> k, sender |-> r]
             c == [chip EXCEPT !.rx = Append(chip.rx, p)]
  <2>1. /\ chip.ce /\ Len(chip.rx) < FIFO_SIZE /\ received < MaxPackets
        /\ received' = received + 1 /\ Raise(c, "RX_DR")
        /\ UNCHANGED <<transmit_lock, tx_address>>
    BY <1>4 DEF Receive, Listening
  <2>2. /\ Append(chip.rx, p) \in Seq(Packets) /\ Len(Append(chip.rx, p)) = Len(chip.rx) + 1
        /\ Append(chip.rx, p) # <<>>
    BY <1>2 DEF Packets
  <2>3. /\ c \in Chips /\ c.flags = chip.flags /\ c.ce = chip.ce /\ c.prim_rx = chip.prim_rx
        /\ c.p0 = chip.p0 /\ c.tx = chip.tx /\ c.air = chip.air
        /\ c.rx = Append(chip.rx, p)
    BY <1>2, <2>2 DEF Chips
  <2> HIDE DEF c
  <2>4. /\ PinLow' /\ NoStuckFlag' /\ Stacked' /\ irq' \in BOOLEAN
        /\ chip' \in Chips /\ chip'.ce = c.ce /\ chip'.prim_rx = c.prim_rx
        /\ chip'.p0 = c.p0 /\ chip'.rx = c.rx /\ chip'.tx = c.tx /\ chip'.air = c.air
        /\ chip'.flags = chip.flags \cup {"RX_DR"}
    BY <1>1, <1>3, <2>1, <2>3, RaiseLemma DEF Flags
  <2>5. received' \in 0 .. MaxPackets /\ taken \in 0 .. received' /\ seen \in 0 .. received'
        /\ Len(chip'.rx) <= FIFO_SIZE /\ Len(chip'.tx) <= FIFO_SIZE
        /\ taken + Len(chip'.rx) = received'
    BY <1>2, <2>1, <2>2, <2>3, <2>4 DEF IInv, PacketWaits, FIFO_SIZE
  <2>6. TypeOK'
    BY <1>1, <2>1, <2>4, <2>5 DEF IInv, TypeOK, RadioTypeOK, missed
  <2>7. PacketWaits'
    BY <1>1, <2>2, <2>3, <2>4, <2>5 DEF IInv, PacketWaits
  <2>8. ComesBack'
    BY <1>1, <1>3, <2>1, <2>3, <2>4 DEF IInv, ComesBack, missed
  <2> QED
    BY <2>4, <2>6, <2>7, <2>8 DEF IInv
<1>5. CASE StartTransmission
  <2>1. /\ chip.ce /\ chip.tx # <<>> /\ ~chip.prim_rx
        /\ chip' = [chip EXCEPT !.air = chip.tx_addr]
        /\ UNCHANGED <<irq, transmit_lock, tx_address, received>>
    BY <1>5 DEF StartTransmission
  <2>2. /\ chip' \in Chips /\ chip'.ce = chip.ce /\ chip'.p0 = chip.p0
        /\ chip'.prim_rx = chip.prim_rx /\ chip'.rx = chip.rx /\ chip'.tx = chip.tx
        /\ chip'.flags = chip.flags
    BY <1>2, <2>1 DEF Chips
  <2>3. TypeOK'
    BY <1>1, <2>1, <2>2 DEF IInv, TypeOK, RadioTypeOK, missed
  <2>4. Stacked' /\ PinLow' /\ NoStuckFlag'
    BY <1>1, <2>1, <2>2 DEF IInv, Stacked, PinLow, NoStuckFlag, InHandler
  <2>5. PacketWaits'
    BY <1>1, <2>1, <2>2 DEF IInv, PacketWaits
  <2>6. ComesBack'
    BY <1>1, <1>3, <2>1, <2>2 DEF IInv, ComesBack, missed
  <2> QED
    BY <2>3, <2>4, <2>5, <2>6 DEF IInv
<1>6. ASSUME NEW c \in Chips, NEW flag \in TxFlags, Raise(c, flag),
             UNCHANGED <<transmit_lock, tx_address, received>>, chip.air # NoAddress,
             c.ce = chip.ce, c.prim_rx = chip.prim_rx, c.p0 = chip.p0, c.rx = chip.rx,
             c.flags = chip.flags, c.air = NoAddress, Len(c.tx) <= FIFO_SIZE
      PROVE  IInv'
  <2>1. /\ PinLow' /\ NoStuckFlag' /\ Stacked' /\ irq' \in BOOLEAN
        /\ chip' \in Chips /\ chip'.ce = chip.ce /\ chip'.prim_rx = chip.prim_rx
        /\ chip'.p0 = chip.p0 /\ chip'.rx = chip.rx /\ chip'.air = NoAddress
        /\ chip'.tx = c.tx /\ chip'.flags = chip.flags \cup {flag}
    BY <1>1, <1>3, <1>6, RaiseLemma DEF Flags, TxFlags
  <2>2. TypeOK'
    BY <1>1, <1>6, <2>1 DEF IInv, TypeOK, RadioTypeOK, missed
  <2>3. PacketWaits'
    BY <1>1, <1>6, <2>1 DEF IInv, PacketWaits, TxFlags
  <2>4. flag \in chip'.flags \cap TxFlags
    BY <1>6, <2>1
  <2>5. ComesBack'
    BY <1>1, <1>3, <1>6, <2>1, <2>4 DEF IInv, ComesBack, missed
  <2> QED
    BY <2>1, <2>2, <2>3, <2>5 DEF IInv
<1>7. CASE Acknowledged
  <2> DEFINE c == [chip EXCEPT !.tx = Tail(chip.tx), !.air = NoAddress]
  <2>1. /\ chip.air # NoAddress /\ Raise(c, "TX_DS")
        /\ UNCHANGED <<transmit_lock, tx_address, received>>
    BY <1>7 DEF Acknowledged
  <2>2. Tail(chip.tx) \in Seq(Packets) /\ Len(Tail(chip.tx)) <= FIFO_SIZE
    <3>1. chip.tx # <<>>
      BY <2>1 DEF IInv, ComesBack
    <3> QED
      BY <1>2, <3>1 DEF FIFO_SIZE
  <2>3. /\ c \in Chips /\ c.ce = chip.ce /\ c.prim_rx = chip.prim_rx /\ c.p0 = chip.p0
        /\ c.rx = chip.rx /\ c.flags = chip.flags /\ c.air = NoAddress
        /\ c.tx = Tail(chip.tx)
    BY <1>2, <2>2 DEF Chips
  <2> HIDE DEF c
  <2> QED
    BY <1>6, <2>1, <2>2, <2>3 DEF TxFlags
<1>8. CASE RetriesExhausted
  <2> DEFINE c == [chip EXCEPT !.air = NoAddress]
  <2>1. /\ chip.air # NoAddress /\ Raise(c, "MAX_RT")
        /\ UNCHANGED <<transmit_lock, tx_address, received>>
    BY <1>8 DEF RetriesExhausted
  <2>2. /\ c \in Chips /\ c.ce = chip.ce /\ c.prim_rx = chip.prim_rx /\ c.p0 = chip.p0
        /\ c.rx = chip.rx /\ c.flags = chip.flags /\ c.air = NoAddress
        /\ c.tx = chip.tx
    BY <1>2 DEF Chips
  <2> HIDE DEF c
  <2> QED
    BY <1>2, <1>6, <2>1, <2>2 DEF TxFlags
<1> QED
  BY <1>1, <1>4, <1>5, <1>7, <1>8 DEF ChipStep

-----------------------------------------------------------------------------
(* The theorems.                                                           *)

LEMMA InitInv == Init => IInv
<1> SUFFICES ASSUME Init
             PROVE  IInv
  OBVIOUS
<1>1. /\ running = "main" /\ pc = "radio_init"
      /\ isr = [c \in Contexts |-> NoHandler]
      /\ services = {} /\ packet = NoPacket /\ more = FALSE /\ taken = 0 /\ seen = 0
      /\ current_roomba_status = "ROOMBA_ALIVE" /\ last_ir_value = "OTHER"
      /\ moving = FALSE /\ error_msg = "NONE" /\ tx_missed = FALSE /\ rx_missed = FALSE
      /\ RadioInit
  BY DEF Init
<1>2. /\ chip \in Chips /\ chip.ce = FALSE /\ chip.prim_rx = FALSE /\ chip.flags = {}
      /\ chip.rx = <<>> /\ chip.tx = <<>> /\ chip.air = NoAddress
      /\ irq = FALSE /\ transmit_lock = 0 /\ tx_address = Default /\ received = 0
  BY <1>1 DEF RadioInit, Chips
<1>3. Len(chip.rx) = 0 /\ Len(chip.tx) = 0
  BY <1>2
<1>4. \A c \in Contexts : isr[c] = NoHandler /\ isr[c].at = "none" /\ isr[c].status = {}
  BY <1>1 DEF NoHandler
<1>5. TypeOK
  <2>1. /\ Len(chip.rx) <= FIFO_SIZE /\ Len(chip.tx) <= FIFO_SIZE
        /\ transmit_lock \in 0 .. 1 /\ received \in 0 .. MaxPackets
        /\ taken \in 0 .. received /\ seen \in 0 .. received
    BY <1>1, <1>2, <1>3, RadioAssumption DEF FIFO_SIZE
  <2>2. isr \in [Contexts -> [at : HandlerAt, status : SUBSET Flags]]
    BY <1>1 DEF NoHandler, HandlerAt
  <2>3. RadioTypeOK
    BY <1>2, <2>1 DEF RadioTypeOK
  <2> QED
    BY <1>1, <2>1, <2>2, <2>3 DEF TypeOK, HandlerAt, Contexts, PC, InDriver, IrValues
<1>6. Stacked
  BY <1>1, <1>4 DEF Stacked, MainPC, Contexts
<1>7. PinLow /\ NoStuckFlag
  BY <1>1, <1>2, <1>4 DEF PinLow, NoStuckFlag, InHandler
<1>8. PacketWaits /\ ComesBack
  BY <1>1, <1>2, <1>3, <1>4 DEF PacketWaits, ComesBack, Replying
<1> QED
  BY <1>5, <1>6, <1>7, <1>8 DEF IInv

LEMMA NextInv == IInv /\ [Next]_vars => IInv'
<1> SUFFICES ASSUME IInv, [Next]_vars
             PROVE  IInv'
  OBVIOUS
<1>1. CASE r_main \/ StartController
  BY <1>1, r_mainInv, StartControllerInv
<1>2. CASE INT4_vect
  BY <1>2, INT4_vectInv
<1>3. CASE Controller
  BY <1>3, ControllerInv
<1>4. CASE Air
  BY <1>4, AirInv
<1>5. ASSUME NEW v \in IrValues, ir_rxhandler(v)
      PROVE  IInv'
  BY <1>5, ir_rxhandlerInv
<1>6. CASE UNCHANGED vars
  <2>1. TypeOK'
    BY <1>6 DEF IInv, TypeOK, RadioTypeOK, vars, radio_vars, app_vars, missed
  <2> QED
    BY <1>6, <2>1 DEF IInv, Stacked, PinLow, NoStuckFlag, InHandler, Alive, PacketWaits,
                      ComesBack, vars, radio_vars, app_vars, missed
<1> QED
  BY <1>1, <1>2, <1>3, <1>4, <1>5, <1>6 DEF Next

\* The inductive invariant holds in every behaviour of the robot's program.
THEOREM Invariance == Spec => []IInv
<1>1. Init => IInv
  BY InitInv
<1>2. IInv /\ [Next]_vars => IInv'
  BY NextInv
<1> QED
  BY <1>1, <1>2, PTL DEF Spec

\* No handler of the radio runs inside a call of the driver by the main program or
\* the controller: their SPI commands never interleave.
THEOREM DriverNotInterrupted == Spec => []DriverUninterrupted
<1>1. IInv => DriverUninterrupted
  <2> SUFFICES ASSUME IInv, pc \in InDriver
               PROVE  isr["controller"] = NoHandler /\ isr["main"] = NoHandler
    BY DEF DriverUninterrupted
  <2> QED
    BY DEF IInv, TypeOK, Stacked, InDriver, MainPC, Contexts
<1> QED
  BY <1>1, Invariance, PTL

\* The controller is only woken, and only goes on receiving, with a packet in the FIFO.
THEOREM AlwaysWokenWithPacket == Spec => []WokenWithPacket
<1>1. IInv => WokenWithPacket
  BY DEF IInv, PacketWaits, WokenWithPacket
<1> QED
  BY <1>1, Invariance, PTL

\* No flag of the radio stays up without an interrupt to come or a handler to clear it.
THEOREM NoFlagStuck == Spec => []NoStuckFlag
<1>1. IInv => NoStuckFlag
  BY DEF IInv
<1> QED
  BY <1>1, Invariance, PTL

\* Unless the handler has cleared a flag of the transmitter that it had not read, the
\* radio listens whenever the robot comes to rest.
THEOREM ListensAtRest == Spec => []ListensWhenQuiet
<1>1. IInv => ListensWhenQuiet
  <2> SUFFICES ASSUME IInv, Quiet, ~tx_missed
               PROVE  Listening
    BY DEF ListensWhenQuiet
  <2>1. /\ pc = "waiting" /\ chip.flags = {} /\ (chip.prim_rx \/ chip.tx = <<>>)
        /\ \A c \in Contexts : isr[c] = NoHandler
    BY DEF Quiet
  <2> QED
    BY <2>1 DEF IInv, ComesBack, Listening
<1> QED
  BY <1>1, Invariance, PTL

=============================================================================
