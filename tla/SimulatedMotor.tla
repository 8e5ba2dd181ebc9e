---------------------------- MODULE SimulatedMotor ----------------------------
(***************************************************************************)
(* The motor that tests and simulations use in place of a real one         *)
(* (mock_motor of src/hardware/motor.cpp): its position and velocity are   *)
(* computed from an acceleration and the time since they were last stored. *)
(* The time is that of sys::now(), the microsecond within the current      *)
(* second.                                                                 *)
(*                                                                         *)
(* clock is the true time, in ticks of which Second make a second; speeds  *)
(* and accelerations are per tick, so that all quantities are integers.  A *)
(* call reads the clock several times, and it may tick in between.  The    *)
(* object has no lock and is used by one thread.                           *)
(***************************************************************************)
EXTENDS Integers

CONSTANTS
  Second,         (* how many ticks of the clock a second has              *)
  Accelerations,  (* what set_ and change_acceleration are called with     *)
  Positions,      (* what calibrate is called with                         *)
  Garbage,        (* what members may hold that the constructor leaves     *)
  MaxClock,       (* bound: the true time a behaviour lasts                *)
  MaxCalls        (* bound: how often the motor is changed                 *)

ASSUME SimulatedMotorAssumption ==
  /\ Second \in Nat \ {0}
  /\ Accelerations \subseteq Int
  /\ Positions \subseteq Int
  /\ Garbage \subseteq Int
  /\ MaxClock \in Nat
  /\ MaxCalls \in Nat

VARIABLES
  clock,          (* the true time                                         *)
  accel, position_offset, velocity_offset,
  last_position_calibration, last_velocity_calibration,
  pc,             (* where set_acceleration is                             *)
  arg,            (* its argument                                          *)
  v,              (* the velocity that its call of position() has read     *)
  calls,          (* how often the motor was changed                       *)
  entry,          (* history: time, position and velocity at its call      *)
  speed,          (* history: what the accelerations integrate to          *)
  lost,           (* history: the part of it that the clock has lost       *)
  integral,       (* history: what the velocity integrates to              *)
  coasting        (* history: whether neither acceleration nor the end of  *)
                  (* a second has come since the position was stored       *)

stored     == <<accel, position_offset, velocity_offset,
                last_position_calibration, last_velocity_calibration>>
call       == <<pc, arg, v, calls, entry>>
history    == <<speed, lost, integral, coasting>>
motor_vars == <<clock, stored, call, history>>

now == clock % Second

seconds_since(t) == now - t

velocity == velocity_offset + accel * seconds_since(last_velocity_calibration)

FaultPosition ==  \* the time since the other calibration
  position_offset + velocity * seconds_since(last_velocity_calibration)
position == position_offset + velocity * seconds_since(last_position_calibration)

Points == {"ready", "position", "calibrate", "velocity", "last"}

MotorTypeOK ==
  /\ clock \in Nat
  /\ {accel, position_offset, velocity_offset, arg, v} \subseteq Int
  /\ last_position_calibration \in Garbage \cup 0 .. Second - 1
  /\ last_velocity_calibration \in Garbage \cup 0 .. Second - 1
  /\ pc \in Points
  /\ calls \in 0 .. MaxCalls
  /\ entry \in [clock : Nat, position : Int, velocity : Int]
  /\ {speed, lost, integral} \subseteq Int
  /\ coasting \in BOOLEAN

MotorInit ==
  /\ clock \in 0 .. Second - 1
  /\ accel = 0 /\ position_offset = 0 /\ velocity_offset = 0
  /\ last_position_calibration \in Garbage
  /\ last_velocity_calibration \in Garbage
  /\ pc = "ready" /\ arg = 0 /\ v = 0 /\ calls = 0
  /\ entry = [clock |-> clock, position |-> 0, velocity |-> 0]
  /\ speed = 0 /\ lost = 0 /\ integral = 0 /\ coasting = TRUE

-----------------------------------------------------------------------------
\* set_acceleration calls position(), which reads the velocity, ...
set_acceleration(a) ==
  /\ pc = "ready"
  /\ calls < MaxCalls
  /\ pc' = "position"
  /\ arg' = a
  /\ v' = velocity
  /\ calls' = calls + 1
  /\ entry' = [clock |-> clock, position |-> position, velocity |-> velocity]
  /\ UNCHANGED <<clock, stored, history>>

change_acceleration(delta) == set_acceleration(accel + delta)

\* ... and how long it has lasted; that is the new offset.
StorePosition ==
  /\ pc = "position"
  /\ pc' = "calibrate"
  /\ position_offset' =
       position_offset + v * seconds_since(last_position_calibration)
  /\ UNCHANGED <<clock, accel, velocity_offset, last_position_calibration,
                 last_velocity_calibration, arg, v, calls, entry, history>>

\* calibrate reads the clock.
EndCalibrate ==
  /\ pc = "calibrate"
  /\ pc' = "velocity"
  /\ last_position_calibration' = now
  /\ UNCHANGED <<clock, accel, position_offset, velocity_offset,
                 last_velocity_calibration, arg, v, calls, entry, history>>

FaultStoreVelocity ==  \* the velocity is not stored
  /\ pc = "velocity"
  /\ pc' = "last"
  /\ UNCHANGED <<clock, stored, arg, v, calls, entry, history>>

StoreVelocity ==
  /\ pc = "velocity"
  /\ pc' = "last"
  /\ velocity_offset' = velocity
  /\ UNCHANGED <<clock, accel, position_offset, last_position_calibration,
                 last_velocity_calibration, arg, v, calls, entry, history>>

Coast(p, a) ==
  /\ integral' = p
  /\ coasting' = (a = 0)

SetAccel ==
  /\ pc = "last"
  /\ pc' = "ready"
  /\ last_velocity_calibration' = now
  /\ accel' = arg
  /\ Coast(position_offset + velocity_offset * seconds_since(last_position_calibration),
           arg)
  /\ UNCHANGED <<clock, position_offset, velocity_offset,
                 last_position_calibration, arg, v, calls, entry, speed, lost>>

\* calibrate as a call of its own: one reading of the clock.
calibrate(p) ==
  /\ pc = "ready"
  /\ calls < MaxCalls
  /\ position_offset' = p
  /\ last_position_calibration' = now
  /\ calls' = calls + 1
  /\ Coast(p, accel)
  /\ UNCHANGED <<clock, accel, velocity_offset, last_velocity_calibration,
                 pc, arg, v, entry, speed, lost>>

\* Time passes.  What is lost: a second's worth of acceleration where the
\* clock wraps, and what is gained between the last readings of a call.
Wraps == now = Second - 1

Tick ==
  /\ clock < MaxClock
  /\ clock' = clock + 1
  /\ speed' = speed + accel
  /\ lost' = lost + IF pc = "last" THEN accel
                    ELSE IF Wraps THEN accel * Second ELSE 0
  /\ integral' = integral + velocity
  /\ coasting' = (coasting /\ ~ Wraps)
  /\ UNCHANGED <<stored, call>>

MotorNext ==
  \/ \E a \in Accelerations : set_acceleration(a) \/ change_acceleration(a)
  \/ StorePosition
  \/ EndCalibrate
  \/ StoreVelocity
  \/ SetAccel
  \/ \E p \in Positions : calibrate(p)
  \/ Tick

MotorSpec == MotorInit /\ [][MotorNext]_motor_vars
-----------------------------------------------------------------------------
(***************************************************************************)
(* set_acceleration, which stores position and velocity anew and piece by  *)
(* piece, moves nothing: if no time passes, both are as they were before.  *)
(***************************************************************************)
CallsMoveNothing ==
  [][pc = "last" /\ pc' = "ready" /\ clock = entry.clock
       => position' = entry.position /\ velocity' = entry.velocity]_motor_vars

(***************************************************************************)
(* The velocity is the integral of the accelerations, but for what the     *)
(* clock loses: whole seconds at their ends, whatever the calls, and the   *)
(* moment between the last two readings of a call.                         *)
(***************************************************************************)
VelocityIsIntegrated == pc # "last" => velocity = speed - lost

(***************************************************************************)
(* motor.h calls the position the integral of the velocity.  It is, from   *)
(* calibrate or from set_acceleration(0) to the end of the second; under   *)
(* an acceleration it is not, and at the end of a second it jumps back.    *)
(***************************************************************************)
CoastingIsIntegrated == pc = "ready" /\ coasting => position = integral
=============================================================================
