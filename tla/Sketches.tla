------------------------------ MODULE Sketches ------------------------------
(***************************************************************************)
(* The small programs of the repository, each on its own: the sketches of  *)
(* Project 1 (the infrared transmitter, the remote control, the scheduler) *)
(* and, of Project 3, the infrared link and the stopwatch.  They have no   *)
(* state in common.  The one that part names takes all the steps, the      *)
(* others rest; Parts puts the small machines of the kernels beside them.  *)
(* Each property is that of the program's module.                          *)
(***************************************************************************)
EXTENDS Integers

CONSTANTS
  WORD,                             \* OsTimer
  BITS, GAP,                        \* IrLink, IrSketch
  MAXTASKS, Delays, Periods, MAXRUN, Hyperperiod,   \* Scheduler
  Own, Remotes, Kinds, MaxPackets   \* Remote

VARIABLES
  part,  \* which of them runs
  \* OsTimer
  elapsed_time, last_update, paused, now, ran,
  \* IrLink
  data, pos, sending, is_receiving, currentBit, currentByte, outputByte, wait,
  heard, clean,
  \* Scheduler
  remaining_time, pass_elapsed, running, idle_time, phase,
  \* Remote
  chip, irq, transmit_lock, tx_address, received, pc, handler, settled,
  rxflag, txflag, send_packet, more,
  \* IrSketch
  bit_seq, bit_index, OCIE3A, COM1C1, light_pc, since_shot, asked, sent

Timer == INSTANCE OsTimer

Ir == INSTANCE IrLink

Sketch == INSTANCE Scheduler WITH elapsed <- pass_elapsed

Control == INSTANCE Remote

Light == INSTANCE IrSketch WITH pc <- light_pc, since <- since_shot

ASSUME SketchesAssumption ==
  /\ Timer!OsTimerAssumption /\ Ir!IrAssumption /\ Sketch!SchedulerAssumption
  /\ Control!RadioAssumption /\ Light!IrSketchAssumption

timer_vars  == <<elapsed_time, last_update, paused, now, ran>>
ir_vars     == <<data, pos, sending, is_receiving, currentBit, currentByte,
                 outputByte, wait, heard, clean>>
sketch_vars == <<remaining_time, pass_elapsed, running, idle_time, phase>>
remote_vars == <<chip, irq, transmit_lock, tx_address, received, pc, handler,
                 settled, rxflag, txflag, send_packet, more>>
light_vars  == <<bit_seq, bit_index, OCIE3A, COM1C1, light_pc, since_shot, asked,
                 sent>>
vars == <<part, timer_vars, ir_vars, sketch_vars, remote_vars, light_vars>>

Init ==
  /\ Timer!Init /\ Ir!Init /\ Sketch!Init /\ Control!Init /\ Light!Init

Next ==
  /\ \/ part = "timer" /\ Timer!Next
     \/ part = "ir" /\ Ir!Next
     \/ part = "sketch" /\ Sketch!Next
     \/ part = "remote" /\ Control!Next
     \/ part = "light" /\ Light!Next
  /\ part' = part
  /\ part # "timer" => UNCHANGED timer_vars
  /\ part # "ir" => UNCHANGED ir_vars
  /\ part # "sketch" => UNCHANGED sketch_vars
  /\ part # "remote" => UNCHANGED remote_vars
  /\ part # "light" => UNCHANGED light_vars

Spec == Init /\ [][Next]_vars

-----------------------------------------------------------------------------
(* OsTimer, IrLink and Scheduler.                                          *)

\* A stopwatch says for how long it has run, across pauses and wrap-arounds.
TimerIsRunningTime == Timer!ValueIsRunningTime

\* A byte arrives once, followed by a 0 when its last bit is 1.
IrHeardAsSent == Ir!HeardAsSent

\* Every task is called before it is due again, and lateness of a call does not
\* move the later ones.
SketchOnTime == Sketch!CalledInTime /\ Sketch!PhaseKept

(* Remote and IrSketch.                                                    *)

\* The remote's radio interrupt never comes between two SPI commands of a call.
RemoteSpiUninterrupted == Control!SpiUninterrupted

\* Between two tasks rxflag says whether the radio holds packets.
RemoteRxflagTellsPackets == Control!RxflagTellsPackets

\* The spin of Radio_Transmit on transmit_lock has an end.
RemoteWaitHasEnd == Control!WaitHasEnd

\* The remote's radio holds no order but the one in force.
RemoteNoStaleOrder == Control!NoStaleOrder

\* The transmitter of Project 1 sends each byte whole.
SketchSentAsAsked == Light!SentAsAsked

=============================================================================
