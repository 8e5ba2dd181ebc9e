------------------------------ MODULE Kinematics ------------------------------
(***************************************************************************)
(* The equations of motion of src/simulation/car.cpp: where a car is, how  *)
(* fast, and how long it takes, at a constant acceleration and never       *)
(* faster than MAX_VEL.                                                    *)
(*                                                                         *)
(* The code computes with doubles.  Here a number is an integer, a         *)
(* multiple of 1 / One, beside the values of a double that are no numbers  *)
(* and that the plans of a grid do meet: NaN and the infinite ones.  The   *)
(* units are 1/12 m and 1/6 s, in which MAX_VEL (.5 m/s) and MAX_ACC       *)
(* (3 m/s^2) are both 1.                                                   *)
(***************************************************************************)
EXTENDS Integers

CONSTANTS
  One,        (* the precision: how many steps there are from 0 to 1       *)
  NaN,        (* not a number                                              *)
  Infinity,
  MinusInfinity   (* met as an acceleration only                           *)

ASSUME KinematicsAssumption ==
  /\ One \in Nat \ {0}
  /\ NaN \notin Int
  /\ Infinity \notin Int
  /\ MinusInfinity \notin Int
  /\ NaN \notin {Infinity, MinusInfinity}

MAX_VEL  == One
MAX_ACC  == One
MIN_ACC  == -One
TURN_VEL == (6 * One) \div 10
Metre    == 12 * One

Double == Int \cup {NaN, Infinity}

-----------------------------------------------------------------------------
(* Arithmetic.  x and y are integers in Times, Over and Root.              *)

Times(x, y) == (x * y) \div One

Over(x, y) == IF y > 0 THEN (x * One) \div y ELSE (-x * One) \div (-y)

\* The quotient of two doubles, a divisor of 0 (and not -0) included.
Quotient(x, y) ==
  IF y # 0 THEN Over(x, y)
  ELSE IF x > 0 THEN Infinity ELSE IF x < 0 THEN MinusInfinity ELSE NaN

\* The integer square root of n in 0 .. MAX_VEL * MAX_VEL: the last number
\* of the form 32 * k that is not above it, then the number itself.
IsRoot(k, unit, n) ==
  k * unit * (k * unit) <= n /\ n < (k + 1) * unit * ((k + 1) * unit)

Root(n) ==
  LET k == CHOOSE k \in 0 .. MAX_VEL : IsRoot(k, 32, n)
  IN  CHOOSE j \in 32 * k .. 32 * k + 31 : IsRoot(j, 1, n)

\* A comparison with NaN is false, a sum with NaN is NaN.
Less(x, y) ==
  /\ NaN \notin {x, y}
  /\ x # Infinity
  /\ y = Infinity \/ x < y

Plus(x, y) ==
  IF NaN \in {x, y} THEN NaN
  ELSE IF Infinity \in {x, y} THEN Infinity
  ELSE x + y

-----------------------------------------------------------------------------
calculate_vel_raw(vel, acc, time) == vel + Times(acc, time)

\* std::min returns its first argument, a NaN, when the comparison fails.
\* check_vel only logs.  A time that never comes is one without acceleration
\* (calculate_time_raw), and 0 * infinity is NaN.
calculate_vel(vel, acc, time) ==
  IF NaN \in {vel, acc, time} \/ time = Infinity THEN NaN
  ELSE LET raw == calculate_vel_raw(vel, acc, time) IN
         IF MAX_VEL < raw THEN MAX_VEL ELSE raw

calculate_acc_raw(delta_x, v_init, time) ==
  Over(Over(2 * (delta_x - Times(v_init, time)), time), time)

\* Fault: no lower limit.
Fault_calculate_acc(delta_x, v_init, time) ==
  IF NaN \in {v_init, time} \/ time \in {0, Infinity} THEN NaN
  ELSE LET raw == calculate_acc_raw(delta_x, v_init, time) IN
         IF raw > MAX_ACC THEN MAX_ACC ELSE raw

\* With time = Infinity both the numerator and the denominator are infinite,
\* or the numerator is NaN.  Both limits only log a warning.
calculate_acc(delta_x, v_init, time) ==
  IF NaN \in {v_init, time} \/ time = Infinity THEN NaN
  ELSE IF time = 0
  THEN IF delta_x > 0 THEN MAX_ACC ELSE IF delta_x < 0 THEN MIN_ACC ELSE NaN
  ELSE LET raw == calculate_acc_raw(delta_x, v_init, time) IN
         IF raw < MIN_ACC THEN MIN_ACC ELSE IF raw > MAX_ACC THEN MAX_ACC ELSE raw

\* The way from v_init to MAX_VEL at the acceleration a_init.
time_to_max_vel(v_init, a_init) == Over(MAX_VEL - v_init, a_init)

dist_to_max_vel(v_init, a_init) ==
  LET time == time_to_max_vel(v_init, a_init) IN
    Times(v_init, time) + Times(Times(a_init, time), time) \div 2

calculate_pos(v_init, a_init, time) ==
  IF calculate_vel_raw(v_init, a_init, time) > MAX_VEL
  THEN dist_to_max_vel(v_init, a_init)
         + Times(MAX_VEL, time - time_to_max_vel(v_init, a_init))
  ELSE Times(v_init, time) + Times(Times(a_init, time), time) \div 2

\* The square of the velocity after disp: negative if the car stops before.
SquaredFinal(disp, v_init, acc) == v_init * v_init + 2 * acc * disp

\* The root of the quadratic formula, (v - v_init) / acc, in the equal form
\* that loses no precision when acc is small.  Without acceleration disp is
\* divided by the velocity, and 0 / 0 is NaN.
calculate_time_raw(disp, v_init, acc) ==
  IF acc = 0 /\ v_init = 0 THEN IF disp = 0 THEN NaN ELSE Infinity
  ELSE IF acc = 0 THEN Over(disp, v_init)
  ELSE LET v == Root(SquaredFinal(disp, v_init, acc)) IN
         IF v + v_init # 0 THEN Over(2 * disp, v + v_init)
                           ELSE Over(v - v_init, acc)

\* Fault: the velocity is not limited.
Fault_calculate_time(disp, v_init, a_init) ==
  IF NaN \in {v_init, a_init} \/ SquaredFinal(disp, v_init, a_init) < 0 THEN NaN
  ELSE calculate_time_raw(disp, v_init, a_init)

\* A car that stops before disp has a NaN for its final velocity, which is
\* not <= MAX_VEL: the answer is that for a car at MAX_VEL all the way, since
\* a time before now.  (With no acceleration and a velocity above MAX_VEL,
\* time_to_max_vel is infinite and dist_to_max_vel, with 0 * infinity, NaN.)
calculate_time(disp, v_init, a_init) ==
  IF NaN \in {v_init, a_init} THEN NaN
  ELSE IF SquaredFinal(disp, v_init, a_init) \in 0 .. MAX_VEL * MAX_VEL
  THEN calculate_time_raw(disp, v_init, a_init)
  ELSE IF a_init = 0 THEN NaN
  ELSE time_to_max_vel(v_init, a_init)
         + Over(disp - dist_to_max_vel(v_init, a_init), MAX_VEL)
=============================================================================
