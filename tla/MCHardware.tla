------------------------------ MODULE MCHardware ------------------------------
(***************************************************************************)
(* Instances for TLC of the hardware that shares no state: the registers   *)
(* of a Raspberry Pi, the emulated Pi with its drivers, and the simulated  *)
(* motor.  A behaviour is one of one part; the others stay as they were.   *)
(***************************************************************************)
EXTENDS Gpio, PiEmulator, SimulatedMotor

\* Neighbours at the upper end of a function register, and two pins with the
\* same bit of the two level registers.
MCPins == {8, 9, 41}

\* Inputs, outputs and one of the other functions.
MCBootModes == {0, 1, 4}

Driver(k, t) == [kind |-> k, track |-> t]

\* Pin 4 is the pin of the motor of track 2 and of the button of track 4; the
\* motor of track 7 and the sensor of track 9, which no map knows, both get
\* pin 0, which the button of track 0 has by right.
MCDrivers == {Driver("motor", 2), Driver("button", 4), Driver("motor", 7),
              Driver("sensor", 9), Driver("button", 0)}

VARIABLE part

hardware_vars == <<part, gpio_vars, pi_vars, motor_vars>>

Init ==
  /\ part \in {"registers", "emulator", "motor"}
  /\ GpioInit /\ PiInit /\ MotorInit
  /\ part # "registers" => asked = [p \in Pins |-> INPUT]
  /\ part # "motor" =>
       /\ clock = 0
       /\ last_position_calibration = last_velocity_calibration
       /\ last_position_calibration = 2

\* The bounds of the simulated motor are reached: nothing is left to do.
MotorStopped ==
  /\ clock = MaxClock
  /\ calls = MaxCalls
  /\ pc = "ready"
  /\ UNCHANGED motor_vars

Next ==
  /\ UNCHANGED part
  /\ \/ part = "registers" /\ GpioNext /\ UNCHANGED <<pi_vars, motor_vars>>
     \/ part = "emulator" /\ PiNext /\ UNCHANGED <<gpio_vars, motor_vars>>
     \/ /\ part = "motor"
        /\ MotorNext \/ MotorStopped
        /\ UNCHANGED <<gpio_vars, pi_vars>>

Spec == Init /\ [][Next]_hardware_vars
=============================================================================
