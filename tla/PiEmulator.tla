------------------------------ MODULE PiEmulator ------------------------------
(***************************************************************************)
(* The emulated Raspberry Pi (mock_raspi of src/hardware/raspi.cpp) and    *)
(* the drivers that share it: motors, whose threads write their pins, and  *)
(* buttons and sensors, which read theirs (src/hardware/motor.cpp,         *)
(* button.cpp, sensor.cpp).  diag.fail aborts the process.                 *)
(*                                                                         *)
(* A driver is a kind and a track; its factory looks its pin up in a map   *)
(* from tracks to pins.  Calls do not overlap here: mock_raspi has no lock *)
(* and its maps promise nothing to overlapping calls.                      *)
(***************************************************************************)
EXTENDS Raspi

CONSTANTS
  Drivers,    (* the drivers a program may create: kind and track          *)
  Devices,    (* emulated output devices                                   *)
  None        (* not in the map                                            *)

Tracks == 0 .. 5
Kinds  == {"motor", "button", "sensor"}

ASSUME PiEmulatorAssumption ==
  /\ Drivers \subseteq [kind : Kinds, track : Nat]
  /\ None \notin Levels \cup Devices
  /\ None \notin Modes

\* The maps `pins` of motor.cpp, button.cpp and sensor.cpp.
MotorPins  == [t \in Tracks |-> <<18, 23, 4, 5, 6, 12>>[t + 1]]
ButtonPins == [t \in Tracks |-> t]
SensorPins == [t \in Tracks |-> t]

\* pins[track_id] inserts the pin 0 for a track it does not know.
PinOf(d) ==
  LET pins == [motor |-> MotorPins, button |-> ButtonPins, sensor |-> SensorPins]
  IN  IF d.track \in Tracks THEN pins[d.kind][d.track] ELSE 0

ModeOf(d) == IF d.kind = "motor" THEN OUTPUT ELSE INPUT

DriverPins == {PinOf(d) : d \in Drivers}

VARIABLES
  pin_modes,   (* the mode of each pin                                     *)
  inputs,      (* the last value seen from each input device               *)
  outputs,     (* the output device on each pin                            *)
  created,     (* drivers that exist                                       *)
  shown,       (* what was last written to each output device              *)
  reading,     (* the last result of each button and sensor                *)
  wire,        (* history: last level put on each pin since a device was   *)
               (* connected to it, by a motor or by an input device        *)
  program      (* running, or how it was aborted                           *)

pi_vars == <<pin_modes, inputs, outputs, created, shown, reading, wire, program>>

PiTypeOK ==
  /\ pin_modes \in [DriverPins -> Modes \cup {None}]
  /\ inputs \in [DriverPins -> Levels \cup {None}]
  /\ outputs \in [DriverPins -> Devices \cup {None}]
  /\ created \subseteq Drivers
  /\ shown \in [Devices -> Levels \cup {None}]
  /\ reading \in [Drivers -> Levels \cup {None}]
  /\ \A d \in Drivers \ created : reading[d] = None
  /\ wire \in [DriverPins -> Levels \cup {None}]
  /\ program \in {"running", "failed_connect", "failed_write", "failed_read"}

PiInit ==
  /\ pin_modes = [p \in DriverPins |-> None]
  /\ inputs = [p \in DriverPins |-> None]
  /\ outputs = [p \in DriverPins |-> None]
  /\ created = {}
  /\ shown = [dev \in Devices |-> None]
  /\ reading = [d \in Drivers |-> None]
  /\ wire = [p \in DriverPins |-> None]
  /\ program = "running"

-----------------------------------------------------------------------------
Running == program = "running"

Fail(how) ==
  /\ program' = how
  /\ UNCHANGED <<pin_modes, inputs, outputs, created, shown, reading, wire>>

\* Fault: the constructor does not call pin_mode.
FaultCreate(d) ==
  /\ Running
  /\ d \notin created
  /\ created' = created \cup {d}
  /\ UNCHANGED <<pin_modes, inputs, outputs, shown, reading, wire, program>>

\* The factory of the driver, whose constructor calls pin_mode.
create(d) ==
  /\ Running
  /\ d \notin created
  /\ created' = created \cup {d}
  /\ pin_modes' = [pin_modes EXCEPT ![PinOf(d)] = ModeOf(d)]
  /\ UNCHANGED <<inputs, outputs, shown, reading, wire, program>>

FaultOccupied(p) == outputs[p] # None  \* input devices are not looked at
Occupied(p) == inputs[p] # None \/ outputs[p] # None

\* A mode that does not suit the device is only warned about.  (A device is
\* connected once: that is up to the caller, and every caller does so.)
connect_output(p, dev) ==
  /\ Running
  /\ \A q \in DriverPins : outputs[q] # dev
  /\ IF Occupied(p)
     THEN Fail("failed_connect")
     ELSE /\ outputs' = [outputs EXCEPT ![p] = dev]
          /\ wire' = [wire EXCEPT ![p] = None]
          /\ UNCHANGED <<pin_modes, inputs, created, shown, reading, program>>

\* The device is given a handle to its pin, which is low for now.
connect_input(p) ==
  /\ Running
  /\ IF Occupied(p)
     THEN Fail("failed_connect")
     ELSE /\ inputs' = [inputs EXCEPT ![p] = LOW]
          /\ wire' = [wire EXCEPT ![p] = LOW]
          /\ UNCHANGED <<pin_modes, outputs, created, shown, reading, program>>

\* The input device writes through its handle: a button is pushed.
handle_write(p, level) ==
  /\ Running
  /\ inputs[p] # None
  /\ inputs' = [inputs EXCEPT ![p] = level]
  /\ wire' = [wire EXCEPT ![p] = level]
  /\ UNCHANGED <<pin_modes, outputs, created, shown, reading, program>>

\* A motor's thread writes its pin.  On an unconnected pin that is only
\* warned about.
emulated_write(d, level) ==
  /\ Running
  /\ d \in created /\ d.kind = "motor"
  /\ LET p == PinOf(d) IN
       IF pin_modes[p] # OUTPUT
       THEN Fail("failed_write")
       ELSE /\ IF outputs[p] # None
               THEN /\ shown' = [shown EXCEPT ![outputs[p]] = level]
                    /\ wire' = [wire EXCEPT ![p] = level]
               ELSE UNCHANGED <<shown, wire>>
            /\ UNCHANGED <<pin_modes, inputs, outputs, created, reading,
                           program>>

\* A button's or sensor's pin is read.
emulated_read(d) ==
  /\ Running
  /\ d \in created
  /\ LET p == PinOf(d) IN
       IF pin_modes[p] # INPUT
       THEN Fail("failed_read")
       ELSE /\ reading' = [reading EXCEPT ![d] =
                             IF inputs[p] # None THEN inputs[p] ELSE LOW]
            /\ UNCHANGED <<pin_modes, inputs, outputs, created, shown, wire,
                           program>>

is_pushed(d)    == d.kind = "button" /\ emulated_read(d)
is_triggered(d) == d.kind = "sensor" /\ emulated_read(d)

Aborted == ~ Running /\ UNCHANGED pi_vars

PiNext ==
  \/ \E d \in Drivers :
       \/ create(d)
       \/ is_pushed(d)
       \/ is_triggered(d)
       \/ \E level \in Levels : emulated_write(d, level)
  \/ \E p \in DriverPins :
       \/ \E dev \in Devices : connect_output(p, dev)
       \/ connect_input(p)
       \/ \E level \in Levels : handle_write(p, level)
  \/ Aborted

PiSpec == PiInit /\ [][PiNext]_pi_vars
-----------------------------------------------------------------------------
(***************************************************************************)
(* A pin never has two devices, of whatever kinds and connected in         *)
(* whatever order: no input device's handle reaches a pin whose output     *)
(* device a motor drives.                                                  *)
(***************************************************************************)
OneDevicePerPin == \A p \in DriverPins : inputs[p] = None \/ outputs[p] = None

(***************************************************************************)
(* A reading or a pulse aborts the process only where a motor and a button *)
(* or sensor share a pin: a driver is never used before its pin is in the  *)
(* mode it needs, and its mode stays until another driver of the pin comes.*)
(***************************************************************************)
Clash == \E d, e \in created : PinOf(d) = PinOf(e) /\ ModeOf(d) # ModeOf(e)

FailuresAreClashes == program \in {"failed_write", "failed_read"} => Clash

(***************************************************************************)
(* An output device shows, and an input pin holds, the last level put on   *)
(* the pin since the device was connected; nothing another driver or       *)
(* device of this or another pin does is mistaken for it.                  *)
(***************************************************************************)
DevicesSeeTheirPin ==
  \A p \in DriverPins :
    /\ outputs[p] # None => shown[outputs[p]] = wire[p]
    /\ inputs[p] # None => inputs[p] = wire[p]
=============================================================================
