------------------------- MODULE SimulatedMotorProofs -------------------------
(***************************************************************************)
(* Theorems about SimulatedMotor for any length of a second, any           *)
(* accelerations, and anything in the members that start undefined.        *)
(***************************************************************************)
EXTENDS SimulatedMotor, TLAPS

\* The velocity, also between its storing and the reading of its time, when
\* the offset alone is what will be left of it.
Integrated ==
  IF pc = "last" THEN velocity_offset = speed - lost ELSE velocity = speed - lost

\* How far a call has come that was made at this very moment.
Position(offset, vel, last) == offset + vel * (now - last)

InCall ==
  pc # "ready" =>
    /\ entry.clock <= clock
    /\ entry.clock = clock =>
         CASE pc = "position"  -> /\ v = entry.velocity
                                  /\ velocity = entry.velocity
                                  /\ Position(position_offset, v,
                                              last_position_calibration)
                                       = entry.position
           [] pc = "calibrate" -> /\ velocity = entry.velocity
                                  /\ position_offset = entry.position
           [] pc = "velocity"  -> /\ velocity = entry.velocity
                                  /\ position_offset = entry.position
                                  /\ last_position_calibration = now
           [] pc = "last"      -> /\ velocity_offset = entry.velocity
                                  /\ position_offset = entry.position
                                  /\ last_position_calibration = now

\* Coasting, the motor has no acceleration to forget.
Coasting == pc = "ready" /\ coasting => accel = 0 /\ position = integral

IInv == MotorTypeOK /\ Integrated /\ InCall /\ Coasting

-----------------------------------------------------------------------------
LEMMA SecondIsPositive == Second \in Nat /\ Second > 0
BY SimulatedMotorAssumption

LEMMA NowType ==
  ASSUME clock \in Nat
  PROVE  now \in 0 .. Second - 1 /\ now \in Int
BY SecondIsPositive DEF now

(* Division with remainder is unique.                                      *)
LEMMA Remainder ==
  ASSUME NEW q \in Int, NEW r \in 0 .. Second - 1, NEW x \in Nat, x = Second * q + r
  PROVE  x % Second = r
<1> DEFINE d == x \div Second
           m == x % Second
           k == q - d
<1>1. Second \in Nat /\ Second > 0
  BY SecondIsPositive
<1>2. d \in Int /\ m \in 0 .. Second - 1 /\ x = Second * d + m
  BY <1>1
<1> HIDE DEF d, m
<1>3. Second * q \in Int /\ Second * d \in Int /\ Second * k = Second * q - Second * d
  BY <1>1, <1>2
<1>4. k \in Int
  BY <1>2
<1> HIDE DEF k
<1>5. Second * k = m - r
  BY <1>1, <1>2, <1>3
<1>6. k >= 1 => Second * k >= Second
  BY <1>1, <1>4
<1>7. k <= -1 => Second * k <= -Second
  BY <1>1, <1>4
<1>8. k = 0
  BY <1>1, <1>2, <1>4, <1>5, <1>6, <1>7
<1>9. Second * 0 = 0
  BY <1>1
<1> QED BY <1>2, <1>5, <1>8, <1>9 DEF m

(* The clock goes on by one or back by all but one.                        *)
LEMMA NowTicks ==
  ASSUME NEW t \in Nat
  PROVE  (t + 1) % Second = IF t % Second = Second - 1 THEN 0 ELSE (t % Second) + 1
<1> DEFINE d == t \div Second
           m == t % Second
<1>1. Second \in Nat /\ Second > 0
  BY SecondIsPositive
<1>2. d \in Int /\ m \in 0 .. Second - 1 /\ t = Second * d + m
  BY <1>1
<1> HIDE DEF d, m
<1>3. CASE m = Second - 1
  <2>1. Second * (d + 1) = Second * d + Second
    BY <1>1, <1>2
  <2>2. t + 1 = Second * (d + 1) + 0
    BY <1>1, <1>2, <1>3, <2>1
  <2>3. (t + 1) % Second = 0
    BY <1>1, <1>2, <2>2, Remainder
  <2> QED BY <2>3, <1>3 DEF m
<1>4. CASE m # Second - 1
  <2>1. t + 1 = Second * d + (m + 1) /\ m + 1 \in 0 .. Second - 1
    BY <1>1, <1>2, <1>4
  <2>2. (t + 1) % Second = m + 1
    BY <1>1, <1>2, <2>1, Remainder
  <2> QED BY <2>2, <1>4 DEF m
<1> QED BY <1>3, <1>4

LEMMA Distributes ==
  ASSUME NEW a \in Int, NEW x \in Int, NEW y \in Int
  PROVE  a * (x + y) = a * x + a * y /\ a * x \in Int /\ a * y \in Int
OBVIOUS

LEMMA Types ==
  ASSUME MotorTypeOK
  PROVE  /\ Garbage \subseteq Int /\ MaxCalls \in Nat
         /\ clock \in Nat /\ now \in 0 .. Second - 1
         /\ accel \in Int /\ position_offset \in Int /\ velocity_offset \in Int
         /\ last_position_calibration \in Int /\ last_velocity_calibration \in Int
         /\ arg \in Int /\ v \in Int /\ speed \in Int /\ lost \in Int
         /\ velocity \in Int /\ position \in Int
         /\ v * (now - last_position_calibration) \in Int
         /\ velocity_offset * (now - last_position_calibration) \in Int
<1>1. Garbage \subseteq Int /\ MaxCalls \in Nat
  BY SimulatedMotorAssumption
<1>2. now \in 0 .. Second - 1 /\ now \in Int /\ Second \in Nat
  BY NowType, SecondIsPositive DEF MotorTypeOK
<1>3. last_position_calibration \in Int /\ last_velocity_calibration \in Int
  BY <1>1, <1>2 DEF MotorTypeOK
<1>4. velocity \in Int
  BY <1>2, <1>3 DEF MotorTypeOK, velocity, seconds_since
<1>5. position \in Int
  BY <1>2, <1>3, <1>4 DEF MotorTypeOK, position, seconds_since
<1>6. /\ v * (now - last_position_calibration) \in Int
      /\ velocity_offset * (now - last_position_calibration) \in Int
  BY <1>2, <1>3 DEF MotorTypeOK
<1> QED BY <1>1, <1>2, <1>3, <1>4, <1>5, <1>6 DEF MotorTypeOK

LEMMA InvInit == MotorInit => IInv
<1> SUFFICES ASSUME MotorInit
             PROVE  IInv
  OBVIOUS
<1>1. clock \in Nat /\ MaxCalls \in Nat /\ Garbage \subseteq Int
  BY SecondIsPositive, SimulatedMotorAssumption DEF MotorInit
<1>2. MotorTypeOK
  BY <1>1 DEF MotorInit, MotorTypeOK, Points
<1>3. now - last_velocity_calibration \in Int
  BY <1>2, Types
<1>4. velocity = 0
  BY <1>3 DEF MotorInit, velocity, seconds_since
<1>5. Integrated /\ InCall
  BY <1>4 DEF MotorInit, Integrated, InCall
<1>6. now - last_position_calibration \in Int
  BY <1>2, Types
<1>7. Coasting
  BY <1>4, <1>6 DEF MotorInit, Coasting, position, seconds_since
<1> QED BY <1>2, <1>5, <1>7 DEF IInv

-----------------------------------------------------------------------------
LEMMA SetAccelerationStep ==
  ASSUME IInv, NEW a \in Int, set_acceleration(a)
  PROVE  IInv'
<1>1. /\ pc' = "position" /\ arg' = a /\ v' = velocity /\ calls' = calls + 1
      /\ entry' = [clock |-> clock, position |-> position, velocity |-> velocity]
      /\ UNCHANGED <<clock, stored, history>> /\ pc = "ready" /\ calls < MaxCalls
  BY DEF set_acceleration
<1>2. MotorTypeOK'
  BY <1>1, Types DEF IInv, MotorTypeOK, Points, stored, history
<1>3. velocity' = velocity /\ now' = now
  BY <1>1 DEF velocity, seconds_since, now, stored
<1>4. Integrated'
  BY <1>1, <1>3 DEF IInv, Integrated, history
<1>5. entry'.clock = clock /\ entry'.position = position /\ entry'.velocity = velocity
  BY <1>1
<1>6. InCall'
  BY <1>1, <1>3, <1>5, Types
     DEF IInv, InCall, Position, position, seconds_since, stored
<1> QED BY <1>1, <1>2, <1>4, <1>6 DEF IInv, Coasting

LEMMA StorePositionStep == IInv /\ StorePosition => IInv'
<1> SUFFICES ASSUME IInv, StorePosition
             PROVE  IInv'
  OBVIOUS
<1>1. /\ pc = "position" /\ pc' = "calibrate"
      /\ position_offset' = Position(position_offset, v, last_position_calibration)
      /\ UNCHANGED <<clock, accel, velocity_offset, last_position_calibration,
                     last_velocity_calibration, arg, v, calls, entry, speed, lost,
                     integral, coasting>>
  BY DEF StorePosition, Position, seconds_since, history
<1>2. position_offset' \in Int
  BY <1>1, Types DEF IInv, Position
<1>3. MotorTypeOK'
  BY <1>1, <1>2 DEF IInv, MotorTypeOK, Points
<1>4. velocity' = velocity /\ now' = now
  BY <1>1 DEF velocity, seconds_since, now
<1>5. Integrated' /\ InCall'
  BY <1>1, <1>4 DEF IInv, Integrated, InCall
<1> QED BY <1>1, <1>3, <1>5 DEF IInv, Coasting

LEMMA EndCalibrateStep == IInv /\ EndCalibrate => IInv'
<1> SUFFICES ASSUME IInv, EndCalibrate
             PROVE  IInv'
  OBVIOUS
<1>1. /\ pc = "calibrate" /\ pc' = "velocity" /\ last_position_calibration' = now
      /\ UNCHANGED <<clock, accel, position_offset, velocity_offset,
                     last_velocity_calibration, arg, v, calls, entry, speed, lost,
                     integral, coasting>>
  BY DEF EndCalibrate, history
<1>2. MotorTypeOK'
  BY <1>1, Types DEF IInv, MotorTypeOK, Points
<1>3. velocity' = velocity /\ now' = now
  BY <1>1 DEF velocity, seconds_since, now
<1>4. Integrated' /\ InCall'
  BY <1>1, <1>3 DEF IInv, Integrated, InCall
<1> QED BY <1>1, <1>2, <1>4 DEF IInv, Coasting

LEMMA StoreVelocityStep == IInv /\ StoreVelocity => IInv'
<1> SUFFICES ASSUME IInv, StoreVelocity
             PROVE  IInv'
  OBVIOUS
<1>1. /\ pc = "velocity" /\ pc' = "last" /\ velocity_offset' = velocity
      /\ UNCHANGED <<clock, accel, position_offset, last_position_calibration,
                     last_velocity_calibration, arg, v, calls, entry, speed, lost,
                     integral, coasting>>
  BY DEF StoreVelocity, history
<1>2. MotorTypeOK'
  BY <1>1, Types DEF IInv, MotorTypeOK, Points
<1>3. now' = now
  BY <1>1 DEF now
<1>4. Integrated' /\ InCall'
  BY <1>1, <1>3 DEF IInv, Integrated, InCall
<1> QED BY <1>1, <1>2, <1>4 DEF IInv, Coasting

(* With its time just read, the velocity is what its offset says.          *)
LEMMA SetAccelStep == IInv /\ SetAccel => IInv' /\ velocity' = velocity_offset
<1> SUFFICES ASSUME IInv, SetAccel
             PROVE  IInv' /\ velocity' = velocity_offset
  OBVIOUS
<1>1. /\ pc = "last" /\ pc' = "ready" /\ last_velocity_calibration' = now
      /\ accel' = arg
      /\ integral' = position_offset
                       + velocity_offset * (now - last_position_calibration)
      /\ coasting' = (arg = 0)
      /\ UNCHANGED <<clock, position_offset, velocity_offset,
                     last_position_calibration, arg, v, calls, entry, speed, lost>>
  BY DEF SetAccel, Coast, seconds_since
<1>2. integral' \in Int
  BY <1>1, Types DEF IInv
<1>3. MotorTypeOK'
  BY <1>1, <1>2, Types DEF IInv, MotorTypeOK, Points
<1>4. now' = now
  BY <1>1 DEF now
<1>5. velocity' = velocity_offset + arg * (now - now)
  BY <1>1, <1>4 DEF velocity, seconds_since
<1>6. velocity' = velocity_offset
  BY <1>5, Types DEF IInv
<1>7. Integrated' /\ InCall'
  BY <1>1, <1>6 DEF IInv, Integrated, InCall
<1>8. position' = integral'
  BY <1>1, <1>4, <1>6 DEF position, seconds_since
<1>9. Coasting'
  BY <1>1, <1>8 DEF Coasting
<1> QED BY <1>3, <1>6, <1>7, <1>9 DEF IInv

LEMMA CalibrateStep ==
  ASSUME IInv, NEW p \in Positions, calibrate(p)
  PROVE  IInv'
<1>1. /\ pc = "ready" /\ position_offset' = p /\ last_position_calibration' = now
      /\ calls' = calls + 1 /\ calls < MaxCalls /\ p \in Int
      /\ integral' = p /\ coasting' = (accel = 0)
      /\ UNCHANGED <<clock, accel, velocity_offset, last_velocity_calibration, pc,
                     arg, v, entry, speed, lost>>
  BY SimulatedMotorAssumption DEF calibrate, Coast
<1>2. MotorTypeOK'
  BY <1>1, Types DEF IInv, MotorTypeOK
<1>3. velocity' = velocity
  BY <1>1 DEF velocity, seconds_since, now
<1>4. Integrated' /\ InCall'
  BY <1>1, <1>3 DEF IInv, Integrated, InCall
<1>5. position' = p + velocity * (now - now)
  BY <1>1, <1>3 DEF position, seconds_since, now
<1>6. position' = p
  BY <1>1, <1>5, Types DEF IInv
<1>7. Coasting'
  BY <1>1, <1>6 DEF Coasting
<1> QED BY <1>2, <1>4, <1>7 DEF IInv

-----------------------------------------------------------------------------
(* A tick adds an acceleration to the velocity, and the end of a second    *)
(* takes a second's worth away.                                            *)
LEMMA TickOfVelocity ==
  ASSUME MotorTypeOK, Tick
  PROVE  velocity' = (velocity + accel) - (IF Wraps THEN accel * Second ELSE 0)
<1> DEFINE since == now - last_velocity_calibration
<1>1. /\ accel \in Int /\ velocity_offset \in Int /\ now \in Int
      /\ last_velocity_calibration \in Int /\ Second \in Nat /\ clock \in Nat
  BY Types, SecondIsPositive
<1>2. /\ accel' = accel /\ velocity_offset' = velocity_offset
      /\ last_velocity_calibration' = last_velocity_calibration
      /\ clock' = clock + 1
  BY DEF Tick, stored
<1>3. now' = IF now = Second - 1 THEN 0 ELSE now + 1
  BY <1>1, <1>2, NowTicks DEF now
<1>4. since \in Int /\ velocity = velocity_offset + accel * since
  BY <1>1 DEF velocity, seconds_since
<1>5. velocity' = velocity_offset + accel * (now' - last_velocity_calibration)
  BY <1>2 DEF velocity, seconds_since
<1>6. CASE Wraps
  <2>1. now' - last_velocity_calibration = (since + 1) + (-Second)
    BY <1>1, <1>3, <1>6 DEF Wraps
  <2> HIDE DEF since
  <2>2. accel * ((since + 1) + (-Second)) = accel * (since + 1) + accel * (-Second)
    BY <1>1, <1>4, Distributes
  <2>3. accel * (since + 1) = accel * since + accel
    BY <1>1, <1>4
  <2>4. accel * (-Second) = -(accel * Second)
    BY <1>1
  <2>5. accel * since \in Int /\ accel * Second \in Int
    BY <1>1, <1>4
  <2> QED BY <1>1, <1>4, <1>5, <1>6, <2>1, <2>2, <2>3, <2>4, <2>5
<1>7. CASE ~ Wraps
  <2>1. now' - last_velocity_calibration = since + 1
    BY <1>1, <1>3, <1>7 DEF Wraps
  <2> HIDE DEF since
  <2>2. accel * (since + 1) = accel * since + accel
    BY <1>1, <1>4
  <2>3. accel * since \in Int
    BY <1>1, <1>4
  <2> QED BY <1>1, <1>4, <1>5, <1>7, <2>1, <2>2, <2>3
<1> QED BY <1>6, <1>7

(* Within a second, at a constant velocity.                                *)
LEMMA TickOfPosition ==
  ASSUME MotorTypeOK, Tick, ~ Wraps, velocity' = velocity
  PROVE  position' = position + velocity
<1> DEFINE since == now - last_position_calibration
<1>1. /\ velocity \in Int /\ position_offset \in Int /\ now \in Int
      /\ last_position_calibration \in Int /\ Second \in Nat /\ clock \in Nat
  BY Types, SecondIsPositive
<1>2. /\ position_offset' = position_offset /\ clock' = clock + 1
      /\ last_position_calibration' = last_position_calibration
  BY DEF Tick, stored
<1>3. now' = now + 1
  BY <1>1, <1>2, NowTicks DEF now, Wraps
<1>4. /\ since \in Int /\ position = position_offset + velocity * since
      /\ now' - last_position_calibration = since + 1
  BY <1>1, <1>3 DEF position, seconds_since
<1>5. position' = position_offset + velocity * (now' - last_position_calibration)
  BY <1>2 DEF position, seconds_since
<1> HIDE DEF since
<1>6. velocity * (since + 1) = velocity * since + velocity /\ velocity * since \in Int
  BY <1>1, <1>4
<1> QED BY <1>1, <1>4, <1>5, <1>6

LEMMA TickStep == IInv /\ Tick => IInv'
<1> SUFFICES ASSUME IInv, Tick
             PROVE  IInv'
  OBVIOUS
<1>1. /\ clock' = clock + 1 /\ speed' = speed + accel
      /\ lost' = lost + (IF pc = "last" THEN accel
                         ELSE IF Wraps THEN accel * Second ELSE 0)
      /\ integral' = integral + velocity
      /\ coasting' = (coasting /\ ~ Wraps)
      /\ UNCHANGED <<accel, position_offset, velocity_offset,
                     last_position_calibration, last_velocity_calibration,
                     pc, arg, v, calls, entry>>
  BY DEF Tick, stored, call, IInv, MotorTypeOK
<1>2. /\ accel \in Int /\ speed \in Int /\ lost \in Int /\ integral \in Int
      /\ velocity \in Int /\ accel * Second \in Int /\ clock \in Nat
      /\ velocity_offset \in Int
  BY Types, SecondIsPositive DEF IInv, MotorTypeOK
<1>3. clock' \in Nat /\ speed' \in Int /\ lost' \in Int /\ integral' \in Int
  BY <1>1, <1>2
<1>4. MotorTypeOK'
  BY <1>1, <1>3 DEF IInv, MotorTypeOK
<1>5. velocity' = (velocity + accel) - (IF Wraps THEN accel * Second ELSE 0)
  BY TickOfVelocity DEF IInv
<1>6. Integrated'
  <2>1. CASE pc = "last"
    BY <1>1, <1>2, <2>1 DEF IInv, Integrated
  <2>2. CASE pc # "last" /\ Wraps
    <3>1. velocity = speed - lost /\ lost' = lost + accel * Second
      BY <1>1, <2>2 DEF IInv, Integrated
    <3>2. velocity' = (velocity + accel) - accel * Second
      BY <1>5, <2>2
    <3>3. velocity' = speed' - lost'
      BY <1>1, <1>2, <3>1, <3>2
    <3> QED BY <1>1, <2>2, <3>3 DEF Integrated
  <2>3. CASE pc # "last" /\ ~ Wraps
    BY <1>1, <1>2, <1>5, <2>3 DEF IInv, Integrated
  <2> QED BY <2>1, <2>2, <2>3
<1>7. InCall'
  <2>1. pc # "ready" => entry.clock < clock'
    BY <1>1, <1>2 DEF IInv, InCall, MotorTypeOK
  <2>2. entry.clock \in Nat
    BY DEF IInv, MotorTypeOK
  <2>3. pc' # "ready" => entry'.clock <= clock' /\ entry'.clock # clock'
    BY <1>1, <1>2, <2>1, <2>2
  <2> QED BY <2>3 DEF InCall
<1>8. Coasting'
  <2> SUFFICES ASSUME pc' = "ready", coasting'
               PROVE  accel' = 0 /\ position' = integral'
    BY DEF Coasting
  <2>1. accel = 0 /\ position = integral /\ ~ Wraps
    BY <1>1 DEF IInv, Coasting
  <2>2. velocity' = velocity
    BY <1>2, <1>5, <2>1
  <2>3. position' = position + velocity
    BY <1>1, <2>1, <2>2, TickOfPosition DEF IInv
  <2> QED BY <1>1, <2>1, <2>3
<1> QED BY <1>4, <1>6, <1>7, <1>8 DEF IInv

LEMMA InvStep == IInv /\ [MotorNext]_motor_vars => IInv'
<1> SUFFICES ASSUME IInv, [MotorNext]_motor_vars
             PROVE  IInv'
  OBVIOUS
<1>1. ASSUME NEW a \in Accelerations, set_acceleration(a) \/ change_acceleration(a)
      PROVE  IInv'
  <2>1. a \in Int /\ accel + a \in Int
    BY Types, SimulatedMotorAssumption DEF IInv
  <2> QED BY <1>1, <2>1, SetAccelerationStep DEF change_acceleration
<1>2. ASSUME NEW p \in Positions, calibrate(p)
      PROVE  IInv'
  BY <1>2, CalibrateStep
<1>3. CASE UNCHANGED motor_vars
  BY <1>3 DEF motor_vars, stored, call, history, IInv, MotorTypeOK, Integrated, InCall, Coasting,
              Position, position, velocity, seconds_since, now
<1> QED BY <1>1, <1>2, <1>3, StorePositionStep, EndCalibrateStep, StoreVelocityStep,
           SetAccelStep, TickStep DEF MotorNext

LEMMA Invariance == MotorSpec => []IInv
BY InvInit, InvStep, PTL DEF MotorSpec

-----------------------------------------------------------------------------
(***************************************************************************)
(* The simulated motor's variables keep their types, whatever its members  *)
(* held at first.                                                          *)
(***************************************************************************)
THEOREM TypeCorrect == MotorSpec => []MotorTypeOK
<1>1. IInv => MotorTypeOK
  BY DEF IInv
<1> QED BY <1>1, Invariance, PTL

(***************************************************************************)
(* The velocity is the sum of the accelerations less what the clock loses. *)
(***************************************************************************)
THEOREM VelocityIsTheIntegral == MotorSpec => []VelocityIsIntegrated
<1>1. IInv => VelocityIsIntegrated
  BY DEF IInv, Integrated, VelocityIsIntegrated
<1> QED BY <1>1, Invariance, PTL

(***************************************************************************)
(* A motor that has no acceleration moves by its velocity, from the call   *)
(* that stored its position to the end of the second.                      *)
(***************************************************************************)
THEOREM CoastingIsTheIntegral == MotorSpec => []CoastingIsIntegrated
<1>1. IInv => CoastingIsIntegrated
  BY DEF IInv, Coasting, CoastingIsIntegrated
<1> QED BY <1>1, Invariance, PTL

(* At the end of a call made at this moment, all is as it was before.      *)
LEMMA EndOfCall ==
  ASSUME IInv, SetAccel, clock = entry.clock
  PROVE  position' = entry.position /\ velocity' = entry.velocity
<1>1. /\ velocity_offset = entry.velocity /\ position_offset = entry.position
      /\ last_position_calibration = now
  BY DEF IInv, InCall, SetAccel
<1>2. velocity' = velocity_offset
  BY SetAccelStep
<1>3. /\ position_offset' = position_offset /\ now' = now
      /\ last_position_calibration' = last_position_calibration
  BY DEF SetAccel, now
<1>4. position' = position_offset + velocity' * (now - now)
  BY <1>1, <1>3 DEF position, seconds_since
<1>5. velocity_offset \in Int /\ position_offset \in Int /\ now \in Int
  BY Types, NowType DEF IInv, MotorTypeOK
<1>6. position' = position_offset
  BY <1>2, <1>4, <1>5
<1> QED BY <1>1, <1>2, <1>6

(***************************************************************************)
(* set_acceleration moves nothing if no time passes in it, whatever the    *)
(* clock reads and the members hold.                                       *)
(***************************************************************************)
THEOREM SettingMovesNothing == MotorSpec => CallsMoveNothing
<1> DEFINE A == pc = "last" /\ pc' = "ready" /\ clock = entry.clock
                  => position' = entry.position /\ velocity' = entry.velocity
<1>1. IInv /\ [MotorNext]_motor_vars => [A]_motor_vars
  <2> SUFFICES ASSUME IInv, MotorNext, pc = "last", pc' = "ready", clock = entry.clock
               PROVE  position' = entry.position /\ velocity' = entry.velocity
    OBVIOUS
  <2>1. SetAccel
    BY DEF MotorNext, set_acceleration, change_acceleration, StorePosition,
           EndCalibrate, StoreVelocity, calibrate, Tick, call
  <2> QED BY <2>1, EndOfCall
<1> QED BY <1>1, Invariance, PTL DEF MotorSpec, CallsMoveNothing
=============================================================================
