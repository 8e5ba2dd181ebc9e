----------------------------- MODULE MotorProofs -----------------------------
(***************************************************************************)
(* Theorems about Motor for any number of clients, any accelerations and   *)
(* any intervals between pulses.                                           *)
(***************************************************************************)
EXTENDS Motor, TLAPS

\* The inductive invariant of the motor's thread.
IInv == TypeOK /\ SleepsOnlyStopped /\ PinLowAtRest

-----------------------------------------------------------------------------
(* Counting modulo Turns stays below Turns.                                *)
LEMMA NextTurn == \A n \in 0 .. Turns - 1 : (n + 1) % Turns \in 0 .. Turns - 1
<1> SUFFICES ASSUME NEW n \in 0 .. Turns - 1
             PROVE  (n + 1) % Turns \in 0 .. Turns - 1
  OBVIOUS
<1>1. Turns \in Nat \ {0} /\ n + 1 \in Int
  BY MotorAssumption
<1> QED BY <1>1

LEMMA SaturateType == \A t \in Int : Saturate(t) \in Int
BY MotorAssumption DEF Saturate

LEMMA InvInit == Init => IInv
<1>1. Turns \in Nat /\ Turns > 2 /\ STOP_THRESHOLD \in Nat
  BY MotorAssumption
<1> SUFFICES ASSUME Init
             PROVE  IInv
  OBVIOUS
<1>2. 0 \in Int /\ next \in Int /\ 0 \in 0 .. Turns - 1
  BY <1>1 DEF Init
<1>3. TypeOK
  BY <1>2 DEF Init, TypeOK, Idle, Unread
<1>4. pc = "idle" /\ pin = "LOW"
  BY DEF Init, Idle
<1> QED BY <1>3, <1>4 DEF IInv, SleepsOnlyStopped, PinLowAtRest

(* What both ways to set the acceleration share.                           *)
LEMMA AccelerateStep ==
  ASSUME IInv, NEW a \in Int, Accelerate(a)
  PROVE  /\ curr' \in Int /\ next' \in Int /\ accel' \in Int
         /\ UNCHANGED <<pos, halt, pin, seen, pulses, object>>
         /\ pc' \in {pc, "woken"} /\ pc' # "wait"
         /\ pc' = "low" <=> pc = "low"
BY MotorAssumption DEF IInv, TypeOK, Accelerate, NotifyAll

LEMMA ClientStep ==
  ASSUME IInv, NEW c \in Clients, Client(c)
  PROVE  IInv'
<1> USE DEF IInv
<1>t. Accelerations \subseteq Int
  BY MotorAssumption
<1>1. ASSUME NEW a \in Accelerations, set_acceleration(c, a)
      PROVE  IInv'
  <2>1. a \in Int /\ Accelerate(a)
    BY <1>t, <1>1 DEF set_acceleration
  <2> QED BY <1>1, <2>1, AccelerateStep
          DEF set_acceleration, Account, TypeOK, SleepsOnlyStopped,
              PinLowAtRest
<1>2. ASSUME NEW d \in Accelerations, ReadAcceleration(c, d)
      PROVE  IInv'
  BY <1>t, <1>2 DEF ReadAcceleration, kinematics, TypeOK, SleepsOnlyStopped,
                    stopped, lockless_delay, PinLowAtRest
<1>3. CASE ChangeAcceleration(c)
  <2>1. target[c] \in Int /\ delta[c] \in Int /\ Accelerate(target[c])
    BY <1>3 DEF ChangeAcceleration, TypeOK
  <2> QED BY <1>3, <2>1, AccelerateStep
          DEF ChangeAcceleration, Account, TypeOK, SleepsOnlyStopped,
              PinLowAtRest
<1>4. CASE Calibrate(c)
  <2>1. 0 \in 0 .. Turns - 1
    BY MotorAssumption
  <2> QED BY <1>4, <2>1 DEF Calibrate, clientVars, TypeOK, SleepsOnlyStopped,
                            stopped, lockless_delay, PinLowAtRest
<1> QED BY <1>1, <1>2, <1>3, <1>4 DEF Client

LEMMA ThreadStep ==
  ASSUME IInv, MotorThread
  PROVE  IInv'
<1> USE DEF IInv
<1>1. CASE EnterIdle \/ Wake
  BY <1>1 DEF EnterIdle, Wake, WaitForStart, Goto, Idle, kinematics,
              clientVars, TypeOK, SleepsOnlyStopped, stopped, lockless_delay,
              PinLowAtRest
<1>2. CASE Check
  <2>1. PICK name \in {"next", "curr"} : CheckFirst(name) \/ CheckSecond(name)
    BY <1>2 DEF Check
  <2>2. Operand(name) \in Int /\ Unread \in [{"next", "curr"} -> Int]
    BY DEF Operand, Unread, TypeOK
  <2>3. seen' \in [{"next", "curr"} -> Int]
    BY <2>1, <2>2 DEF CheckFirst, CheckSecond, TypeOK
  <2>4. pc' \in {"check_curr", "check_next", Idle, "delay"} /\ pc # "low"
    BY <2>1 DEF CheckFirst, CheckSecond, Goto
  <2>5. UNCHANGED <<kinematics, halt, pin, clientVars, pulses, object>>
    BY <2>1 DEF CheckFirst, CheckSecond
  <2> QED BY <2>3, <2>4, <2>5 DEF kinematics, clientVars, TypeOK, Idle,
             SleepsOnlyStopped, PinLowAtRest
<1>3. CASE UpdateDelay \/ WriteHigh
  BY <1>3 DEF UpdateDelay, WriteHigh, Goto, lockless_delay, kinematics,
              clientVars, TypeOK, SleepsOnlyStopped, PinLowAtRest
<1>4. CASE WriteLow
  <2>1. (pulses + 1) % Turns \in 0 .. Turns - 1
    BY NextTurn DEF TypeOK
  <2> QED BY <1>4, <2>1 DEF WriteLow, Goto, kinematics, clientVars, TypeOK,
             SleepsOnlyStopped, PinLowAtRest
<1>5. ASSUME NEW interval \in Intervals, UpdateKinematics(interval)
      PROVE  IInv'
  <2>1. (pos + 1) % Turns \in 0 .. Turns - 1
    BY NextTurn DEF TypeOK
  <2>2. curr' \in Int /\ next' \in Int
    BY <1>5, SaturateType, MotorAssumption DEF UpdateKinematics, TypeOK
  <2> QED BY <1>5, <2>1, <2>2 DEF UpdateKinematics, Goto, clientVars, TypeOK,
             SleepsOnlyStopped, PinLowAtRest
<1> QED BY <1>1, <1>2, <1>3, <1>4, <1>5 DEF MotorThread

LEMMA InvStep == IInv /\ [Next]_vars => IInv'
<1> SUFFICES ASSUME IInv, [Next]_vars
             PROVE  IInv'
  OBVIOUS
<1> USE DEF IInv
<1>1. CASE SpuriousWakeup
  BY <1>1 DEF SpuriousWakeup, Goto, kinematics, clientVars, TypeOK,
              SleepsOnlyStopped, PinLowAtRest
<1>2. CASE Destroy \/ Joined
  BY <1>2 DEF Destroy, Joined, kinematics, clientVars, TypeOK,
              SleepsOnlyStopped, stopped, lockless_delay, PinLowAtRest
<1>3. CASE UNCHANGED vars
  BY <1>3 DEF vars, kinematics, clientVars, TypeOK, SleepsOnlyStopped,
              stopped, lockless_delay, PinLowAtRest
<1> QED BY <1>1, <1>2, <1>3, ClientStep, ThreadStep DEF Next, Terminated

LEMMA InvHolds == Spec => []IInv
BY InvInit, InvStep, PTL DEF Spec

(* The variables have the values their declarations say.                   *)
THEOREM TypeCorrect == Spec => []TypeOK
BY InvHolds, PTL DEF IInv

(* The motor's thread never sleeps while the motor may move.               *)
THEOREM NoStartIsSleptThrough == Spec => []SleepsOnlyStopped
BY InvHolds, PTL DEF IInv

(* Outside a pulse the motor's pin is low.                                 *)
THEOREM PinIsLowAtRest == Spec => []PinLowAtRest
BY InvHolds, PTL DEF IInv

-----------------------------------------------------------------------------
(* ChangesAddUp is not inductive: what a client is about to set must be    *)
(* what it will then be accounted for.                                     *)
ChangesKnown ==
  ~ overlapped => /\ accel = requested
                  /\ \A c \in changing : target[c] = accel + delta[c]

LEMMA ChangesClientStep ==
  ASSUME TypeOK, ChangesKnown, NEW c \in Clients, Client(c)
  PROVE  ChangesKnown'
<1>t. Accelerations \subseteq Int
  BY MotorAssumption
<1>1. ASSUME NEW a \in Accelerations, set_acceleration(c, a)
      PROVE  ChangesKnown'
  <2>1. /\ accel' = a /\ changing' = changing
        /\ overlapped' = (changing # {})
        /\ requested' = IF changing # {} THEN 0 ELSE a
    BY <1>1 DEF set_acceleration, Accelerate, Account
  <2>2. ~ overlapped' => changing' = {} /\ requested' = a
    BY <2>1
  <2> QED BY <2>1, <2>2 DEF ChangesKnown
<1>2. ASSUME NEW d \in Accelerations, ReadAcceleration(c, d)
      PROVE  ChangesKnown'
  BY <1>t, <1>2 DEF ReadAcceleration, kinematics, TypeOK, ChangesKnown
<1>3. CASE ChangeAcceleration(c)
  <2>1. /\ accel' = target[c] /\ changing' = changing \ {c} /\ c \in changing
        /\ overlapped' = (overlapped \/ changing' # {})
        /\ requested' = IF overlapped \/ changing' # {}
                        THEN 0 ELSE requested + delta[c]
    BY <1>3 DEF ChangeAcceleration, Accelerate, Account
  <2>2. ASSUME ~ overlapped'
        PROVE  changing' = {} /\ requested' = accel'
    <3>1. ~ overlapped /\ changing' = {}
      BY <2>1, <2>2
    <3>2. accel = requested /\ target[c] = accel + delta[c]
      BY <2>1, <3>1 DEF ChangesKnown
    <3> QED BY <2>1, <3>1, <3>2
  <2> QED BY <2>2 DEF ChangesKnown
<1>4. CASE Calibrate(c)
  BY <1>4 DEF Calibrate, clientVars, ChangesKnown
<1> QED BY <1>1, <1>2, <1>3, <1>4 DEF Client

LEMMA ChangesStep == TypeOK /\ ChangesKnown /\ [Next]_vars => ChangesKnown'
<1> SUFFICES ASSUME TypeOK, ChangesKnown, [Next]_vars
             PROVE  ChangesKnown'
  OBVIOUS
<1>1. CASE MotorThread \/ SpuriousWakeup \/ Destroy \/ Joined \/ UNCHANGED vars
  <2>1. UNCHANGED <<accel, clientVars>>
    BY <1>1 DEF MotorThread, EnterIdle, Wake, Check, CheckFirst, CheckSecond,
                UpdateDelay, WriteHigh, WriteLow, UpdateKinematics,
                SpuriousWakeup, Destroy, Joined, kinematics, vars
  <2> QED BY <2>1 DEF clientVars, ChangesKnown
<1> QED BY <1>1, ChangesClientStep DEF Next, Terminated

(* Changes that do not overlap add up, for any number of clients.          *)
THEOREM NoChangeIsLost == Spec => []ChangesAddUp
<1>1. Init => ChangesKnown
  BY DEF Init, ChangesKnown
<1>2. ChangesKnown => ChangesAddUp
  BY DEF ChangesKnown, ChangesAddUp
<1> QED BY <1>1, <1>2, ChangesStep, TypeCorrect, PTL DEF Spec

-----------------------------------------------------------------------------
(* The turns of the position and of the count of pulses: what their        *)
(* difference modulo Turns being 0, 1 or -1 says, as equations.            *)
LEMMA TurnsApart ==
  ASSUME NEW x \in 0 .. Turns - 1, NEW y \in 0 .. Turns - 1
  PROVE  /\ (x - y) % Turns \in {0, 1} <=> x = y \/ x = (y + 1) % Turns
         /\ (x - y) % Turns \in {0, Turns - 1} <=> x = y \/ y = (x + 1) % Turns
<1>1. Turns \in Nat /\ Turns > 2
  BY MotorAssumption
<1>2. \A d \in 0 .. Turns - 1 : d % Turns = d
  BY <1>1
<1>3. \A d \in -(Turns - 1) .. -1 : d % Turns = d + Turns
  BY <1>1
<1>4. Turns % Turns = 0
  BY <1>1
<1>5. \A n \in 0 .. Turns - 1 :
        (n + 1) % Turns = IF n = Turns - 1 THEN 0 ELSE n + 1
  <2>1. ASSUME NEW n \in 0 .. Turns - 1, n # Turns - 1
        PROVE  (n + 1) % Turns = n + 1
    <3>1. n + 1 \in 0 .. Turns - 1
      BY <1>1, <2>1
    <3> QED BY <1>2, <3>1
  <2>2. ASSUME NEW n \in 0 .. Turns - 1, n = Turns - 1
        PROVE  (n + 1) % Turns = 0
    <3>1. n + 1 = Turns
      BY <1>1, <2>2
    <3> QED BY <1>4, <3>1
  <2> QED BY <2>1, <2>2
<1>6. (x - y) % Turns = IF x >= y THEN x - y ELSE x - y + Turns
  <2>1. CASE x >= y
    <3>1. x - y \in 0 .. Turns - 1
      BY <1>1, <2>1
    <3> QED BY <1>2, <2>1, <3>1
  <2>2. CASE ~ (x >= y)
    <3>1. x - y \in -(Turns - 1) .. -1
      BY <1>1, <2>2
    <3> QED BY <1>3, <2>2, <3>1
  <2> QED BY <2>1, <2>2
<1>7. /\ (x + 1) % Turns = IF x = Turns - 1 THEN 0 ELSE x + 1
      /\ (y + 1) % Turns = IF y = Turns - 1 THEN 0 ELSE y + 1
  BY <1>5
<1> QED BY <1>1, <1>6, <1>7

\* PositionFollowsPulses, as equations between the two counters.
InStep ==
  IF pc = "update" THEN pos = pulses \/ pulses = (pos + 1) % Turns
                   ELSE pos = pulses \/ pos = (pulses + 1) % Turns

LEMMA InStepSays ==
  ASSUME TypeOK
  PROVE  InStep <=> PositionFollowsPulses
<1>1. pos \in 0 .. Turns - 1 /\ pulses \in 0 .. Turns - 1
  BY DEF TypeOK
<1> QED BY <1>1, TurnsApart DEF InStep, PositionFollowsPulses

LEMMA InStepNext == TypeOK /\ InStep /\ [Next]_vars => InStep'
<1> SUFFICES ASSUME TypeOK, InStep, [Next]_vars
             PROVE  InStep'
  OBVIOUS
<1>1. ASSUME UNCHANGED <<pos, pulses>>, pc' = "update" <=> pc = "update"
      PROVE  InStep'
  BY <1>1 DEF InStep
<1>2. ASSUME NEW c \in Clients, Client(c)
      PROVE  InStep'
  <2>1. CASE Calibrate(c)
    BY <2>1 DEF Calibrate, InStep
  <2>2. ASSUME NEW a, Accelerate(a)
        PROVE  InStep'
    BY <1>1, <2>2 DEF Accelerate, NotifyAll
  <2>3. ASSUME NEW d, ReadAcceleration(c, d)
        PROVE  InStep'
    BY <1>1, <2>3 DEF ReadAcceleration, kinematics
  <2> QED BY <1>2, <2>1, <2>2, <2>3
          DEF Client, set_acceleration, ChangeAcceleration
<1>3. CASE WriteLow
  BY <1>3 DEF WriteLow, Goto, kinematics, InStep
<1>4. ASSUME NEW interval, UpdateKinematics(interval)
      PROVE  InStep'
  BY <1>4 DEF UpdateKinematics, Goto, InStep
<1>5. CASE EnterIdle \/ Wake \/ Check \/ UpdateDelay \/ WriteHigh
             \/ SpuriousWakeup
  BY <1>1, <1>5
     DEF EnterIdle, Wake, WaitForStart, Check, CheckFirst, CheckSecond,
         UpdateDelay, WriteHigh, SpuriousWakeup, Goto, Idle, kinematics
<1>6. CASE Destroy \/ Joined \/ UNCHANGED vars
  BY <1>1, <1>6 DEF Destroy, Joined, vars, kinematics
<1> QED BY <1>2, <1>3, <1>4, <1>5, <1>6 DEF Next, MotorThread, Terminated

(* For any number of turns, clients and accelerations, the position is the *)
(* pulses since the last calibration but for the one under way.            *)
THEOREM PositionIsThePulses == Spec => []PositionFollowsPulses
<1>1. Init => InStep
  BY DEF Init, InStep
<1> QED BY <1>1, InStepNext, InStepSays, TypeCorrect, PTL DEF Spec
=============================================================================
