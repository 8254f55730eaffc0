------------------------------- MODULE Parts --------------------------------
(***************************************************************************)
(* The programs of Sketches beside the machines of Machines: one of them   *)
(* all is chosen initially and takes all the steps, the others rest.       *)
(***************************************************************************)
EXTENDS Sketches, Machines

\* The tasks of the remote control, in milliseconds.
RemoteDelays  == <<0, 8, 5, 1>>
RemotePeriods == <<20, 20, 20, 100>>

\* No table, a slot of two ticks and one for nobody, a name twice and a slot of 0
\* ticks, a name that is too great.
Slot(n, t) == [name |-> n, ticks |-> t]
SmallTables == {<<>>, <<Slot(1, 2), Slot(0, 1), Slot(2, 1)>>,
                <<Slot(1, 1), Slot(1, 1), Slot(2, 0)>>, <<Slot(9, 2)>>}

parts_vars == <<vars, machine_vars>>

MachineNames == {"queue", "robot queue", "releases", "clock", "robot clock", "ppp",
                 "active"}
ProgramNames == {"timer", "ir", "sketch", "remote", "light"}

PartsInit ==
  /\ \/ part \in ProgramNames /\ machine = "none"
     \/ part = "none" /\ machine \in MachineNames
  /\ Init /\ MachinesInit
  \* A machine that rests does so in one state.
  /\ machine # "robot clock" => OCR1A = RobotClock!TICK_CYCLES
  /\ machine # "ppp" => PPP = <<>>

PartsNext ==
  \/ Next /\ UNCHANGED machine_vars
  \/ MachinesNext /\ UNCHANGED vars

\* Each behaviour is one of Sketches' Spec and of MachinesSpec too.
PartsSpec == PartsInit /\ [][PartsNext]_parts_vars

\* The view of the run: of the robots' clock, that of its own module.
Live == <<vars, machine, queue_vars, list_vars, block_vars, clock_vars, ppp_vars,
          active_vars, RobotClock!Live>>

=============================================================================
