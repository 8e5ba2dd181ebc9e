---------------------------- MODULE PlanningProofs ----------------------------
(***************************************************************************)
(* Proofs about Planning, for any grid, any cars and any precision of      *)
(* Kinematics.                                                             *)
(***************************************************************************)
EXTENDS Planning, FiniteSetTheorems, WellFoundedInduction, TLAPS

-----------------------------------------------------------------------------
(* Numbers.                                                                *)

\* A set of natural numbers has a least one: of the intervals 0 .. n that
\* its members span, one contains no other.
LEMMA LeastNumber ==
  ASSUME NEW S, S \subseteq Nat, S # {}
  PROVE  \E m \in S : \A n \in S : m <= n
<1> DEFINE R == StrictSubsetOrdering(Nat)
           F == FiniteSubsetsOf(Nat)
           T == {0 .. n : n \in S}
<1>1. IsWellFoundedOn(R, F)
  BY FS_StrictSubsetOrderingWellFounded
<1>2. T \subseteq F
  <2> SUFFICES ASSUME NEW n \in S PROVE 0 .. n \in F
    OBVIOUS
  <2>1. n \in Nat /\ 0 .. n \subseteq Nat
    OBVIOUS
  <2>2. IsFiniteSet(0 .. n)
    BY <2>1, FS_Interval
  <2> QED
    BY <2>1, <2>2 DEF FiniteSubsetsOf
<1>3. T # {}
  OBVIOUS
<1> HIDE DEF R, F, T
<1>4. PICK x \in T : \A y \in T : ~ (<<y, x>> \in R)
  BY <1>1, <1>2, <1>3, WFMin
<1>5. PICK m \in S : x = 0 .. m
  BY <1>4 DEF T
<1>6. ASSUME NEW n \in S, n < m PROVE FALSE
  <2>1. n \in Nat /\ m \in Nat /\ 0 .. n \in T
    BY DEF T
  <2>2. /\ 0 .. n \in SUBSET Nat /\ 0 .. m \in SUBSET Nat
        /\ 0 .. n \subseteq 0 .. m /\ m \in 0 .. m /\ m \notin 0 .. n
    BY <1>6, <2>1
  <2>3. <<0 .. n, x>> \in R
    BY <1>5, <2>2 DEF R, StrictSubsetOrdering
  <2> QED
    BY <1>4, <2>1, <2>3
<1> QED
  BY <1>6

\* A product and a quotient of fixed-point numbers is one.
LEMMA FixedPoint ==
  /\ \A x, y \in Int : Times(x, y) \in Int
  /\ \A x, y \in Int : y # 0 => Over(x, y) \in Int
<1>1. ASSUME NEW x \in Int, NEW y \in Int, y > 0 PROVE x \div y \in Int
  BY <1>1
<1>2. One \in Int /\ One > 0
  BY KinematicsAssumption
<1>3. \A x, y \in Int : x * y \in Int /\ -x * y \in Int
  OBVIOUS
<1>4. ASSUME NEW x \in Int, NEW y \in Int PROVE Times(x, y) \in Int
  BY <1>1, <1>2, <1>3 DEF Times
<1>5. ASSUME NEW x \in Int, NEW y \in Int, y # 0 PROVE Over(x, y) \in Int
  <2>1. CASE y > 0
    <3>1. x * One \in Int
      BY <1>2, <1>3
    <3> QED
      BY <1>1, <2>1, <3>1 DEF Over
  <2>2. CASE ~ (y > 0)
    <3>1. -x * One \in Int /\ -y \in Int /\ -y > 0
      BY <1>2, <1>3, <1>5, <2>2
    <3>2. (-x * One) \div (-y) \in Int
      BY <1>1, <3>1
    <3> QED
      BY <2>2, <3>2 DEF Over
  <2> QED
    BY <2>1, <2>2
<1> QED
  BY <1>4, <1>5

\* Every number up to m squared has a root that is a multiple of unit, up
\* to the next multiple.
LEMMA RootUpTo ==
  ASSUME NEW unit \in Nat \ {0}, NEW m \in Nat, NEW n \in 0 .. m * m
  PROVE  \E k \in 0 .. m : IsRoot(k, unit, n)
<1> DEFINE S == {k \in Nat : n < (k + 1) * unit * ((k + 1) * unit)}
<1>1. n \in Nat /\ m * m \in Nat
  OBVIOUS
<1>2. m \in S
  <2>1. PICK t \in Nat : t = (m + 1) * unit
    OBVIOUS
  <2>2. m < t
    BY <2>1
  <2>3. m * m < t * t
    BY <2>2
  <2> QED
    BY <1>1, <2>1, <2>3
<1>3. PICK k \in S : \A j \in S : k <= j
  <2>1. S \subseteq Nat /\ S # {}
    BY <1>2
  <2> HIDE DEF S
  <2> QED
    BY <2>1, LeastNumber
<1>4. k \in 0 .. m
  BY <1>2, <1>3
<1>5. k * unit * (k * unit) <= n
  <2>1. CASE k = 0
    BY <1>1, <2>1
  <2>2. CASE k > 0
    <3>1. k - 1 \in Nat /\ k - 1 \notin S /\ (k - 1) + 1 = k
      BY <1>3, <2>2
    <3>2. ~ (n < k * unit * (k * unit))
      BY <3>1
    <3>3. k * unit * (k * unit) \in Nat
      BY <1>4
    <3> QED
      BY <1>1, <3>2, <3>3
  <2> QED
    BY <1>4, <2>1, <2>2
<1> QED
  BY <1>3, <1>4, <1>5 DEF IsRoot

\* The two steps of Root find the root.
LEMMA RootIsARoot ==
  ASSUME NEW n \in 0 .. MAX_VEL * MAX_VEL
  PROVE  Root(n) \in Nat /\ IsRoot(Root(n), 1, n)
<1> DEFINE k == CHOOSE k \in 0 .. MAX_VEL : IsRoot(k, 32, n)
<1>1. MAX_VEL \in Nat
  BY KinematicsAssumption DEF MAX_VEL
<1>2. k \in 0 .. MAX_VEL /\ IsRoot(k, 32, n)
  BY <1>1, RootUpTo
<1>3. PICK j \in 0 .. MAX_VEL : IsRoot(j, 1, n)
  BY <1>1, RootUpTo
<1>4. Root(n) = CHOOSE i \in 32 * k .. 32 * k + 31 : IsRoot(i, 1, n)
  BY DEF Root
<1> HIDE DEF k
<1>5. j \in 32 * k .. 32 * k + 31
  <2>1. PICK a \in Nat : a = 32 * k
    BY <1>1, <1>2
  <2>2. a * a <= n /\ n < (a + 32) * (a + 32)
    BY <1>1, <1>2, <2>1 DEF IsRoot
  <2>3. j * j <= n /\ n < (j + 1) * (j + 1)
    BY <1>1, <1>3 DEF IsRoot
  <2>4. n \in Nat /\ j \in Nat
    BY <1>1
  <2>5. a < j + 1
    <3> SUFFICES ASSUME j + 1 <= a PROVE FALSE
      BY <2>4
    <3>1. (j + 1) * (j + 1) <= a * a
      BY <2>4
    <3>2. (j + 1) * (j + 1) \in Nat /\ a * a \in Nat
      BY <2>4
    <3> QED
      BY <2>2, <2>3, <2>4, <3>1, <3>2
  <2>6. j < a + 32
    <3> SUFFICES ASSUME a + 32 <= j PROVE FALSE
      BY <2>4
    <3>1. (a + 32) * (a + 32) <= j * j
      BY <2>4
    <3>2. (a + 32) * (a + 32) \in Nat /\ j * j \in Nat
      BY <2>4
    <3> QED
      BY <2>2, <2>3, <2>4, <3>1, <3>2
  <2> QED
    BY <2>1, <2>4, <2>5, <2>6
<1>6. /\ Root(n) \in 32 * k .. 32 * k + 31
      /\ IsRoot(Root(n), 1, n)
  BY <1>3, <1>4, <1>5
<1> QED
  BY <1>1, <1>2, <1>6

-----------------------------------------------------------------------------
(* The equations of motion have answers of their types.                    *)

Number       == Int \cup {NaN}
Acceleration == MIN_ACC .. MAX_ACC \cup {NaN}

\* MAX_VEL and the limits of the acceleration are integers, and what is no
\* number is none.
LEMMA Limits ==
  /\ MAX_VEL \in Nat \ {0} /\ MAX_ACC \in Nat \ {0} /\ MIN_ACC \in Int
  /\ MIN_ACC <= 0
  /\ TURN_VEL \in Int /\ Metre \in Nat \ {0}
  /\ MAX_ACC \in Acceleration /\ Acceleration \subseteq Number
  /\ NaN \notin Int /\ Infinity \notin Int /\ NaN # Infinity
  /\ MinusInfinity \notin Int \cup {NaN}
<1>1. /\ One \in Nat \ {0} /\ NaN \notin Int /\ Infinity \notin Int
      /\ NaN # Infinity /\ MinusInfinity \notin Int \cup {NaN}
  BY KinematicsAssumption
<1> QED
  BY <1>1 DEF MAX_VEL, MAX_ACC, MIN_ACC, TURN_VEL, Metre, Acceleration, Number

LEMMA SumTypes ==
  /\ \A x, y \in Double : Plus(x, y) \in Double
  /\ \A x, y \in Number : Plus(x, y) \in Number
  /\ \A x, y \in Double : Until(x, y) \in Double
  BY Limits DEF Plus, Until, Double, Number

LEMMA VelocityType ==
  ASSUME NEW v \in Int, NEW acc \in Number, NEW t \in Double
  PROVE  /\ calculate_vel(v, acc, t) \in Number
         /\ {acc, t} \subseteq Int => calculate_vel(v, acc, t) \in Int
<1>1. CASE NaN \in {v, acc, t} \/ t = Infinity
  BY <1>1, Limits DEF calculate_vel, Number
<1>2. CASE ~ (NaN \in {v, acc, t} \/ t = Infinity)
  <2>1. acc \in Int /\ t \in Int
    BY <1>2 DEF Number, Double
  <2>2. calculate_vel_raw(v, acc, t) \in Int
    BY <2>1, FixedPoint DEF calculate_vel_raw
  <2> QED
    BY <1>2, <2>2, Limits DEF calculate_vel, Number
<1> QED
  BY <1>1, <1>2

LEMMA AccelerationType ==
  ASSUME NEW delta_x \in Int, NEW v_init \in Number, NEW t \in Double
  PROVE  /\ calculate_acc(delta_x, v_init, t) \in Acceleration
         /\ calculate_acc(delta_x, v_init, t) = NaN =>
              \/ NaN \in {v_init, t} \/ t = Infinity
              \/ t = 0 /\ delta_x = 0
<1>1. CASE NaN \in {v_init, t} \/ t \in {0, Infinity}
  BY <1>1, Limits DEF calculate_acc, Acceleration
<1>2. CASE ~ (NaN \in {v_init, t} \/ t \in {0, Infinity})
  <2>1. v_init \in Int /\ t \in Int /\ t # 0
    BY <1>2 DEF Number, Double
  <2>2. 2 * (delta_x - Times(v_init, t)) \in Int
    <3>1. Times(v_init, t) \in Int
      BY <2>1, FixedPoint
    <3> QED
      BY <3>1
  <2>3. calculate_acc_raw(delta_x, v_init, t) \in Int
    BY <2>1, <2>2, FixedPoint DEF calculate_acc_raw
  <2> QED
    BY <1>2, <2>1, <2>3, Limits DEF calculate_acc, Acceleration
<1> QED
  BY <1>1, <1>2

\* There is a time for every way that a car has, unless it has neither an
\* acceleration nor a velocity within its limits.
LEMMA TimeOfNumbers ==
  ASSUME NEW disp \in Int, NEW v_init \in Int, NEW a_init \in Int,
         a_init # 0 \/ v_init \in (-MAX_VEL .. MAX_VEL) \ {0}
  PROVE  calculate_time(disp, v_init, a_init) \in Int
<1>1. NaN \notin {v_init, a_init}
  BY Limits
<1>2. CASE SquaredFinal(disp, v_init, a_init) \in 0 .. MAX_VEL * MAX_VEL
  <2>1. PICK v \in Nat : v = Root(SquaredFinal(disp, v_init, a_init))
    BY <1>2, RootIsARoot
  <2>2. CASE a_init = 0
    BY <1>1, <1>2, <2>2, FixedPoint DEF calculate_time, calculate_time_raw
  <2>3. CASE a_init # 0 /\ v + v_init # 0
    <3>1. Over(2 * disp, v + v_init) \in Int
      BY <2>1, <2>3, FixedPoint
    <3> QED
      BY <1>1, <1>2, <2>1, <2>3, <3>1 DEF calculate_time, calculate_time_raw
  <2>4. CASE a_init # 0 /\ v + v_init = 0
    <3>1. Over(v - v_init, a_init) \in Int
      BY <2>1, <2>4, FixedPoint
    <3> QED
      BY <1>1, <1>2, <2>1, <2>4, <3>1 DEF calculate_time, calculate_time_raw
  <2> QED
    BY <2>2, <2>3, <2>4
<1>3. CASE SquaredFinal(disp, v_init, a_init) \notin 0 .. MAX_VEL * MAX_VEL
  <2>1. a_init # 0
    <3> SUFFICES ASSUME a_init = 0 PROVE FALSE
      OBVIOUS
    <3>1. v_init \in -MAX_VEL .. MAX_VEL
      OBVIOUS
    <3>2. v_init * v_init \in 0 .. MAX_VEL * MAX_VEL
      BY <3>1, Limits
    <3>3. SquaredFinal(disp, v_init, a_init) = v_init * v_init
      BY DEF SquaredFinal
    <3> QED
      BY <1>3, <3>2, <3>3
  <2>2. PICK t \in Int : t = time_to_max_vel(v_init, a_init)
    <3>1. MAX_VEL - v_init \in Int
      BY Limits
    <3> QED
      BY <2>1, <3>1, FixedPoint DEF time_to_max_vel
  <2>3. PICK x \in Int : x = Times(Times(a_init, t), t)
    BY FixedPoint
  <2>4. Times(v_init, t) + x \div 2 \in Int
    BY FixedPoint
  <2>5. PICK d \in Int : d = dist_to_max_vel(v_init, a_init)
    BY <2>2, <2>3, <2>4 DEF dist_to_max_vel
  <2>6. Over(disp - d, MAX_VEL) \in Int
    BY Limits, FixedPoint
  <2> QED
    BY <1>1, <1>3, <2>1, <2>2, <2>5, <2>6 DEF calculate_time
<1> QED
  BY <1>2, <1>3

LEMMA TimeType ==
  ASSUME NEW disp \in Int, NEW v_init \in Number, NEW a_init \in Number
  PROVE  calculate_time(disp, v_init, a_init) \in Double
<1>1. CASE NaN \in {v_init, a_init}
  BY <1>1 DEF calculate_time, Double
<1>2. CASE NaN \notin {v_init, a_init}
  <2>1. v_init \in Int /\ a_init \in Int
    BY <1>2 DEF Number
  <2>2. CASE a_init = 0 /\ v_init = 0
    BY <2>2 DEF calculate_time, calculate_time_raw, Double
  <2>3. CASE a_init = 0 /\ v_init # 0
    BY <2>1, <2>3, FixedPoint DEF calculate_time, calculate_time_raw, Double
  <2>4. CASE a_init # 0
    BY <2>1, <2>4, TimeOfNumbers DEF Double
  <2> QED
    BY <2>2, <2>3, <2>4
<1> QED
  BY <1>1, <1>2

-----------------------------------------------------------------------------
(* The cars and the grid.                                                  *)

\* Positions and widths on a track, and the length of a car.
LEMMA TrackTypes ==
  ASSUME NEW i \in Intersections, NEW c \in Cars
  PROVE  /\ pos_of_intersection(i, c) \in Nat
         /\ wd_of_intersection(i, c) \in Nat
         /\ length(c) \in Nat
<1>1. length(c) \in Nat
  <2>1. Length[c] \in Nat /\ Metre \in Nat \ {0}
    BY PlanningAssumption, Limits
  <2>2. Length[c] \div Metre \in Nat
    BY <2>1
  <2> QED
    BY <2>1, <2>2 DEF length
<1> QED
  BY <1>1, PlanningAssumption DEF pos_of_intersection, wd_of_intersection

\* The nearest of some intersections is one of them, and none is nearer.
LEMMA NearestIsThere ==
  ASSUME NEW c \in Cars, NEW S \in SUBSET Intersections, S # {}
  PROVE  /\ Nearest(S, c) \in S
         /\ \A j \in S : pos_of_intersection(Nearest(S, c), c)
                         <= pos_of_intersection(j, c)
<1> DEFINE at == {pos_of_intersection(i, c) : i \in S}
<1>1. at \subseteq Nat /\ at # {}
  BY TrackTypes
<1>2. PICK m \in at : \A n \in at : m <= n
  <2> HIDE DEF at
  <2> QED
    BY <1>1, LeastNumber
<1>3. PICK i \in S : pos_of_intersection(i, c) = m
  BY <1>2
<1>4. \A j \in S : pos_of_intersection(i, c) <= pos_of_intersection(j, c)
  BY <1>2, <1>3
<1> QED
  BY <1>4 DEF Nearest

\* What optimal_acc answers is within the limits or no number; the latter for
\* numbers only if the other car never clears, or if the car is there when it
\* has to be.
LEMMA OptimalType ==
  ASSUME NEW i \in Intersections, NEW c \in Cars, NEW t \in Double,
         NEW p \in Int, NEW v \in Number,
         windows \in [Intersections -> Window \cup {None}]
  PROVE  /\ optimal_acc(i, c, t, p, v) \in Acceleration
         /\ windows[i] = None => optimal_acc(i, c, t, p, v) = MAX_ACC
         /\ optimal_acc(i, c, t, p, v) = NaN /\ t \in Int /\ v \in Int =>
              \/ windows[i][2] \in {NaN, Infinity}
              \/ pos_of_intersection(i, c) - p = 0 /\ windows[i][2] = t
<1>1. CASE ~ collision(i, c, t, p, v, MAX_ACC)
  BY <1>1, Limits DEF optimal_acc
<1>2. CASE collision(i, c, t, p, v, MAX_ACC)
  <2>1. windows[i] # None
    BY <1>2 DEF collision
  <2>2. windows[i][2] \in Double
    BY <2>1 DEF Window
  <2>3. PICK u \in Double : u = Until(windows[i][2], t)
    BY <2>2, SumTypes
  <2>4. PICK d \in Int : d = pos_of_intersection(i, c) - p
    BY TrackTypes
  <2>5. optimal_acc(i, c, t, p, v) = calculate_acc(d, v, u)
    BY <1>2, <2>3, <2>4 DEF optimal_acc
  <2>6. ASSUME optimal_acc(i, c, t, p, v) = NaN, t \in Int, v \in Int,
               windows[i][2] \in Int
        PROVE  d = 0 /\ windows[i][2] = t
    <3>1. u \in Int /\ u = windows[i][2] - t
      BY <2>3, <2>6, Limits DEF Until
    <3>2. calculate_acc(d, v, u) = NaN
      BY <2>5, <2>6
    <3>3. u # NaN /\ u # Infinity /\ v # NaN
      BY <2>6, <3>1, Limits
    <3>4. u = 0 /\ d = 0
      BY <3>2, <3>3, AccelerationType
    <3> QED
      BY <2>6, <3>1, <3>4
  <2>7. optimal_acc(i, c, t, p, v) \in Acceleration
    BY <2>5, AccelerationType
  <2>8. windows[i][2] \in Int \/ windows[i][2] \in {NaN, Infinity}
    BY <2>2 DEF Double
  <2> QED
    BY <2>1, <2>4, <2>6, <2>7, <2>8
<1> QED
  BY <1>1, <1>2

LEMMA HumanWindowType ==
  ASSUME TypeOK, NEW i \in Intersections
  PROVE  HumanWindow(i) \in Window
<1>1. Human \in Cars
  BY DEF Cars
<1>2. motors[Human].position \in Int /\ motors[Human].velocity \in Number
  BY <1>1 DEF TypeOK, Reading, Number
<1>3. pos_of_intersection(i, Human) - motors[Human].position \in Int
  BY <1>1, <1>2, TrackTypes
<1>4. MAX_ACC \in Number
  BY Limits DEF Number
<1> QED
  BY <1>2, <1>3, <1>4, TimeType DEF HumanWindow, Window, Double

\* The acceleration of a car with nothing ahead of it is a number unless the
\* car is at the end of its track.
LEMMA FinalType ==
  ASSUME TypeOK, NEW c \in Autos, NEW max \in {Width, Height}
  PROVE  /\ final_acc(c, max) \in Double \cup {MinusInfinity}
         /\ motors[c].position # max => final_acc(c, max) \in Int
<1>1. c \in Cars /\ max \in Nat
  BY PlanningAssumption DEF Cars
<1>2. motors[c].position \in Int /\ motors[c].velocity \in Int
  BY <1>1 DEF TypeOK, Reading
<1>3. PICK y \in Int : y = 2 * (max - motors[c].position)
  BY <1>1, <1>2
<1>4. PICK x \in Int : x = Times(motors[c].velocity, motors[c].velocity)
                             - Times(TURN_VEL, TURN_VEL)
  <2>1. /\ Times(motors[c].velocity, motors[c].velocity) \in Int
        /\ Times(TURN_VEL, TURN_VEL) \in Int
    BY <1>2, Limits, FixedPoint
  <2> QED
    BY <2>1
<1>5. final_acc(c, max) \in {0, Quotient(x, y)}
  BY <1>3, <1>4 DEF final_acc
<1>6. /\ Quotient(x, y) \in Double \cup {MinusInfinity}
      /\ y # 0 => Quotient(x, y) \in Int
  BY FixedPoint DEF Quotient, Double
<1>7. motors[c].position # max => y # 0
  BY <1>1, <1>2, <1>3
<1>8. 0 \in Int /\ 0 \in Double
  BY DEF Double
<1> QED
  BY <1>5, <1>6, <1>7, <1>8

\* A grid's cars, in some order, are all automatic cars.
LEMMA OrdersAreComplete ==
  ASSUME NEW cars \in SetToSeqs(Autos)
  PROVE  cars \in Seq(Autos) /\ \A c \in Autos : \E k \in 1 .. Len(cars) : cars[k] = c
<1> DEFINE n == Cardinality(Autos)
<1>1. n \in Nat /\ IsFiniteSet(Autos)
  BY PlanningAssumption, FS_CardinalityType
<1>2. cars \in [1 .. n -> Autos] /\ \A i, j \in 1 .. n : i # j => cars[i] # cars[j]
  BY DEF SetToSeqs
<1>3. IsFiniteSet(1 .. n) /\ Cardinality(1 .. n) = n
  BY <1>1, FS_Interval
<1> HIDE DEF n
<1>4. cars \in Injection(1 .. n, Autos)
  BY <1>2 DEF Injection, IsInjective
<1>5. cars \in Surjection(1 .. n, Autos)
  BY <1>1, <1>3, <1>4, FS_Injection DEF n
<1>6. cars \in Seq(Autos) /\ Len(cars) = n
  BY <1>1, <1>2
<1> QED
  BY <1>5, <1>6 DEF Surjection

-----------------------------------------------------------------------------
(* Types.                                                                  *)

\* There is a car whose plan is made.
SomeonePlans == pc \in {"look", "plan"} => order # <<>>

TypeInv == TypeOK /\ SomeonePlans

LEMMA TypeInit == Init => TypeInv
<1> SUFFICES ASSUME Init PROVE TypeInv
  OBVIOUS
<1>1. motors \in [Cars -> Reading]
  BY DEF Init, Reading
<1>2. windows \in [Intersections -> Window \cup {None}]
  BY DEF Init
<1>3. {acc_s, previous} \subseteq [Autos -> Double \cup {MinusInfinity, None}]
  BY DEF Init, NoResult
<1>4. time \in Double /\ pos \in Int /\ vel \in Int \cup {NaN}
  BY DEF Init, Double
<1>5. acc_to_return \in {None, NaN} \cup MIN_ACC .. MAX_ACC
  BY DEF Init
<1>6. order \in Seq(Autos) /\ ahead \subseteq Intersections
  BY DEF Init
<1>7. pc = "idle" /\ settled = FALSE /\ stalls = {}
  BY DEF Init
<1> QED
  BY <1>1, <1>2, <1>3, <1>4, <1>5, <1>6, <1>7 DEF TypeInv, TypeOK, SomeonePlans

\* What a crossing is planned with and how long it takes.
LEMMA LegTypes ==
  ASSUME TypeInv, NEW c \in Cars, NEW i \in Intersections, NEW a, NEW w,
         a = optimal_acc(i, c, time, pos, vel),
         w = create_window(c, pos_of_intersection(i, c) - pos, vel, a,
                           wd_of_intersection(i, c))
  PROVE  a \in Acceleration /\ w[1] \in Double /\ w[2] \in Double
<1>1. time \in Double /\ pos \in Int /\ vel \in Number
  BY DEF TypeInv, TypeOK, Number
<1>2. a \in Acceleration /\ a \in Number
  BY <1>1, OptimalType, Limits DEF TypeInv, TypeOK
<1>3. PICK d \in Int : d = pos_of_intersection(i, c) - pos
  BY <1>1, TrackTypes
<1>4. d + length(c) + wd_of_intersection(i, c) \in Int
  BY <1>3, TrackTypes
<1> QED
  BY <1>1, <1>2, <1>3, <1>4, TimeType DEF create_window

\* The plan for a crossing is made of numbers.
LEMMA PlanCrossingTypes ==
  ASSUME TypeInv, PlanCrossing
  PROVE  TypeInv'
<1> DEFINE c    == Head(order)
           i    == Nearest(ahead, c)
           acc  == optimal_acc(i, c, time, pos, vel)
           disp == pos_of_intersection(i, c) - pos
           wd   == wd_of_intersection(i, c)
           w    == create_window(c, disp, vel, acc, wd)
           new  == <<Plus(w[1], time), Plus(w[2], time)>>
<1>1. /\ windows' = [windows EXCEPT ![i] = Register(@, new)]
      /\ acc_to_return' = IF acc_to_return = None THEN acc ELSE acc_to_return
      /\ time' = Plus(time, w[2])
      /\ vel' = Plus(vel, calculate_vel(AsVelocity(pos), acc, w[2]))
      /\ pos' = pos + disp + length(c) + wd
      /\ ahead' = ahead \ {i}
      /\ stalls' \subseteq stalls \cup {i}
      /\ UNCHANGED <<motors, pc, order, acc_s, settled, previous>>
  BY DEF PlanCrossing
<1>2. c \in Autos /\ c \in Cars
  BY DEF PlanCrossing, TypeInv, TypeOK, SomeonePlans, Cars
<1>3. i \in Intersections
  BY <1>2, NearestIsThere DEF PlanCrossing, TypeInv, TypeOK
<1>4. time \in Double /\ pos \in Int /\ vel \in Number
  BY DEF TypeInv, TypeOK, Number
<1>5. /\ acc \in Acceleration /\ acc \in Number
      /\ w[1] \in Double /\ w[2] \in Double
  BY <1>2, <1>3, LegTypes, Limits
<1>6. pos + disp + length(c) + wd \in Int
  BY <1>2, <1>3, <1>4, TrackTypes
<1> HIDE DEF c, i, acc, disp, wd, w
<1>7. new \in Window
  BY <1>4, <1>5, SumTypes DEF Window
<1> HIDE DEF new
<1>8. windows' \in [Intersections -> Window \cup {None}]
  BY <1>1, <1>7 DEF Register, TypeInv, TypeOK
<1>9. time' \in Double /\ vel' \in Int \cup {NaN} /\ pos' \in Int
  <2>1. AsVelocity(pos) \in Int
    BY <1>4 DEF AsVelocity
  <2> QED
    BY <1>1, <1>4, <1>5, <1>6, <2>1, SumTypes, VelocityType DEF Number
<1>10. acc_to_return' \in {None, NaN} \cup MIN_ACC .. MAX_ACC
  BY <1>1, <1>5 DEF Acceleration, TypeInv, TypeOK
<1> QED
  BY <1>1, <1>3, <1>8, <1>9, <1>10 DEF TypeInv, TypeOK, SomeonePlans

\* The result is a number, or none.
LEMMA PushTypes ==
  ASSUME TypeInv, PushAcceleration
  PROVE  TypeInv'
<1> DEFINE c    == Head(order)
           span == IF horiz(c) THEN Width ELSE Height
<1>1. /\ acc_s' = [acc_s EXCEPT ![c] =
                     IF acc_to_return = None THEN final_acc(c, span)
                                             ELSE acc_to_return]
      /\ pc' = "next"
      /\ order' = Tail(order)
      /\ UNCHANGED <<motors, windows, ahead, time, pos, vel, acc_to_return,
                     stalls, settled, previous>>
  BY DEF PushAcceleration, locals, history
<1>2. order \in Seq(Autos) /\ order # <<>>
  BY DEF PushAcceleration, TypeInv, TypeOK, SomeonePlans
<1>3. c \in Autos /\ order' \in Seq(Autos)
  BY <1>1, <1>2
<1>4. span \in {Width, Height}
  OBVIOUS
<1> HIDE DEF c, span
<1>5. final_acc(c, span) \in Double \cup {MinusInfinity}
  BY <1>3, <1>4, FinalType DEF TypeInv, Double
<1>6. acc_to_return # None => acc_to_return \in Double
  BY Limits DEF TypeInv, TypeOK, Double
<1>7. acc_s' \in [Autos -> Double \cup {MinusInfinity, None}]
  BY <1>1, <1>5, <1>6 DEF TypeInv, TypeOK
<1> QED
  BY <1>1, <1>3, <1>7 DEF TypeInv, TypeOK, SomeonePlans

LEMMA TypeStep == TypeInv /\ [Next]_vars => TypeInv'
<1> SUFFICES ASSUME TypeInv, [Next]_vars PROVE TypeInv'
  OBVIOUS
<1>1. ASSUME NEW cars \in SetToSeqs(Autos), find_accelerations(cars)
      PROVE  TypeInv'
  <2>1. cars \in Seq(Autos)
    BY OrdersAreComplete
  <2>2. /\ ahead' \subseteq Intersections
        /\ settled' \in BOOLEAN
    BY <1>1 DEF find_accelerations, intersections_ahead
  <2>3. {acc_s', previous'} \subseteq [Autos -> Double \cup {MinusInfinity, None}]
    BY <1>1 DEF find_accelerations, NoResult, TypeInv, TypeOK
  <2>4. /\ pc' = "human" /\ order' = cars
        /\ UNCHANGED <<motors, windows, time, pos, vel, acc_to_return, stalls>>
    BY <1>1 DEF find_accelerations, locals, history
  <2> QED
    BY <2>1, <2>2, <2>3, <2>4 DEF TypeInv, TypeOK, SomeonePlans
<1>2. CASE SetHumanWindow
  <2>1. PICK i \in Intersections :
          /\ windows' = [windows EXCEPT ![i] = HumanWindow(i)]
          /\ ahead' = ahead \ {i}
    <3>1. Human \in Cars
      BY DEF Cars
    <3>2. Nearest(ahead, Human) \in Intersections
      BY <1>2, <3>1, NearestIsThere DEF SetHumanWindow, TypeInv, TypeOK
    <3> QED
      BY <1>2, <3>2 DEF SetHumanWindow
  <2>2. windows' \in [Intersections -> Window \cup {None}]
    BY <2>1, HumanWindowType DEF TypeInv, TypeOK
  <2> QED
    BY <1>2, <2>1, <2>2
       DEF SetHumanWindow, locals, history, TypeInv, TypeOK, SomeonePlans
<1>3. CASE HumanDone
  BY <1>3 DEF HumanDone, locals, history, TypeInv, TypeOK, SomeonePlans
<1>4. CASE set_min_windows
  <2>1. Head(order) \in Cars
    BY <1>4 DEF set_min_windows, TypeInv, TypeOK, Cars
  <2>2. pos' \in Int /\ vel' \in Int \cup {NaN} /\ time' \in Double
    BY <1>4, <2>1 DEF set_min_windows, TypeInv, TypeOK, Reading, Double
  <2> QED
    BY <1>4, <2>2 DEF set_min_windows, history, TypeInv, TypeOK, SomeonePlans
<1>5. CASE LookAhead
  <2>1. ahead' \subseteq Intersections
    BY <1>5 DEF LookAhead, intersections_ahead
  <2> QED
    BY <1>5, <2>1 DEF LookAhead, locals, history, TypeInv, TypeOK, SomeonePlans
<1>6. CASE PlanCrossing
  BY <1>6, PlanCrossingTypes
<1>7. CASE PushAcceleration
  BY <1>7, PushTypes
<1>8. CASE Return
  BY <1>8 DEF Return, locals, history, TypeInv, TypeOK, SomeonePlans
<1>9. ASSUME NEW c \in Cars, Drive(c) PROVE TypeInv'
  <2>1. PICK move \in Moves[c] : motors' = [motors EXCEPT ![c] = move[2]]
    BY <1>9 DEF Drive
  <2>2. move[2] \in Reading
    BY PlanningAssumption
  <2>3. motors' \in [Cars -> Reading]
    BY <2>1, <2>2 DEF TypeInv, TypeOK
  <2> QED
    BY <1>9, <2>3 DEF Drive, locals, history, TypeInv, TypeOK, SomeonePlans
<1>10. CASE UNCHANGED vars
  BY <1>10 DEF vars, TypeInv, TypeOK, SomeonePlans
<1> QED
  BY <1>1, <1>2, <1>3, <1>4, <1>5, <1>6, <1>7, <1>8, <1>9, <1>10 DEF Next

LEMMA TypesHold == Spec => []TypeInv
BY TypeInit, TypeStep, PTL DEF Spec

\* What a plan is made of are numbers, infinite, or marked as none, for any
\* grid, any precision and motors that report anything.  The times of a
\* window have no denominator of zero and no root of a negative number but
\* those the code tests for; what calculate_acc answers is within the limits
\* of a car or no number; and no velocity that is planned with is infinite.
\* Only a car with nothing ahead may be given an infinite acceleration.
THEOREM TypeCorrect == Spec => []TypeOK
BY TypesHold, PTL DEF TypeInv

-----------------------------------------------------------------------------
(* A round that finds nothing changed.  While all windows are set and no   *)
(* car moves, the windows are what they are, and with them a car's plan.   *)

Waiting == {order[k] : k \in 1 .. Len(order)}

Span(c) == IF horiz(c) THEN Width ELSE Height

PlanOf(c) ==
  LET first == Nearest(intersections_ahead(c), c) IN
    IF intersections_ahead(c) = {}
    THEN final_acc(c, Span(c))
    ELSE optimal_acc(first, c, 0, motors[c].position, motors[c].velocity)

\* No window is ever taken back.
AllSet == \A i \in Intersections : windows[i] # None

\* The human's windows are the human's, but for those of the first settled
\* round that have yet to be set.
HumansSet ==
  \A i \in intersections_ahead(Human) :
    \/ windows[i] = HumanWindow(i)
    \/ pc = "human" /\ i \in ahead /\ previous = NoResult

\* A car has its plan or is still to make it.
PlansMade == \A c \in Autos : c \in Waiting \/ acc_s[c] = PlanOf(c)

\* What the locals of set_min_windows hold before the first intersection, and
\* what is kept of it from then on.
PlanUnderWay ==
  LET c == Head(order) IN
    /\ pc = "look" => acc_to_return = None
    /\ pc \in {"look", "plan"} /\ acc_to_return = None =>
         time = 0 /\ pos = motors[c].position /\ vel = motors[c].velocity
    /\ pc = "plan" /\ acc_to_return = None => ahead = intersections_ahead(c)
    /\ pc = "plan" /\ acc_to_return # None =>
         intersections_ahead(c) # {} /\ acc_to_return = PlanOf(c)

PreviousPlans ==
  previous # NoResult => \A c \in Autos : previous[c] = PlanOf(c)

\* Who has to plan, and what the human has yet to pass.
RoundInv ==
  /\ pc = "human" => Autos \subseteq Waiting
  /\ pc = "idle" => order = <<>>
  /\ pc = "human" /\ settled => ahead \subseteq intersections_ahead(Human)

SettledInv ==
  settled => AllSet /\ HumansSet /\ PlansMade /\ PlanUnderWay /\ PreviousPlans

PlanInv == TypeInv /\ RoundInv /\ SettledInv

LEMMA PlanInit == Init => PlanInv
BY TypeInit DEF Init, PlanInv, RoundInv, SettledInv

\* Plans and the human's windows depend on motors and windows only.
LEMMA SamePlans ==
  ASSUME UNCHANGED <<motors, windows>>
  PROVE  /\ \A c : intersections_ahead(c)' = intersections_ahead(c)
         /\ \A i : HumanWindow(i)' = HumanWindow(i)
         /\ \A c : PlanOf(c)' = PlanOf(c)
         /\ AllSet' = AllSet
<1>1. \A c : intersections_ahead(c)' = intersections_ahead(c)
  BY DEF intersections_ahead
<1>2. \A i : HumanWindow(i)' = HumanWindow(i)
  BY DEF HumanWindow
<1>3. \A c : final_acc(c, Span(c))' = final_acc(c, Span(c))
  BY DEF final_acc
<1>4. \A i, c, t, p, v : optimal_acc(i, c, t, p, v)' = optimal_acc(i, c, t, p, v)
  BY DEF optimal_acc, collision
<1>5. ASSUME NEW c PROVE PlanOf(c)' = PlanOf(c)
  <2>1. PICK S : S = intersections_ahead(c)
    OBVIOUS
  <2>2. S = intersections_ahead(c)'
    BY <1>1, <2>1
  <2>3. PlanOf(c) = IF S = {} THEN final_acc(c, Span(c))
                    ELSE optimal_acc(Nearest(S, c), c, 0, motors[c].position,
                                     motors[c].velocity)
    BY <2>1 DEF PlanOf
  <2>4. PlanOf(c)' = IF S = {} THEN final_acc(c, Span(c))'
                     ELSE optimal_acc(Nearest(S, c), c, 0, motors[c].position,
                                      motors[c].velocity)'
    BY <2>2 DEF PlanOf
  <2> QED
    BY <1>3, <1>4, <2>3, <2>4
<1> QED
  BY <1>1, <1>2, <1>5 DEF AllSet

\* Nobody has to plan any more when the order is empty; the rest have when
\* the first has.
LEMMA WaitingShrinks ==
  ASSUME order \in Seq(Autos)
  PROVE  /\ order = <<>> => Waiting = {}
         /\ order # <<>> /\ order' = Tail(order) =>
              Waiting \subseteq Waiting' \cup {Head(order)}
<1>1. order = <<>> => Waiting = {}
  BY DEF Waiting
<1>2. ASSUME order # <<>>, order' = Tail(order), NEW k \in 1 .. Len(order), k # 1
      PROVE  order[k] \in Waiting'
  <2>1. k - 1 \in 1 .. Len(order') /\ order'[k - 1] = order[k]
    BY <1>2
  <2> QED
    BY <2>1 DEF Waiting
<1>3. order # <<>> => order[1] = Head(order)
  OBVIOUS
<1> QED
  BY <1>1, <1>2, <1>3 DEF Waiting

\* A new round: the settled one that it follows has left the plans.
LEMMA FindKeeps ==
  ASSUME PlanInv, NEW cars \in SetToSeqs(Autos), find_accelerations(cars)
  PROVE  RoundInv' /\ SettledInv'
<1>1. /\ pc = "idle" /\ pc' = "human" /\ order' = cars
      /\ ahead' = intersections_ahead(Human)
      /\ previous' = (IF settled THEN acc_s ELSE NoResult)
      /\ settled' = AllSet
      /\ UNCHANGED <<motors, windows>>
  BY DEF find_accelerations, AllSet
<1>2. Autos \subseteq Waiting'
  BY <1>1, OrdersAreComplete DEF Waiting
<1>3. /\ \A c : intersections_ahead(c)' = intersections_ahead(c)
      /\ \A i : HumanWindow(i)' = HumanWindow(i)
      /\ \A c : PlanOf(c)' = PlanOf(c)
      /\ AllSet' = AllSet
  BY <1>1, SamePlans
<1>4. RoundInv'
  BY <1>1, <1>2, <1>3 DEF RoundInv
<1>5. ASSUME settled' PROVE AllSet' /\ PlansMade' /\ PlanUnderWay'
  BY <1>1, <1>2, <1>3, <1>5 DEF PlansMade, PlanUnderWay
<1>6. ASSUME settled' PROVE HumansSet' /\ PreviousPlans'
  <2>1. CASE settled
    <3>1. Waiting = {}
      BY <1>1, WaitingShrinks DEF PlanInv, RoundInv, TypeInv, TypeOK
    <3>2. /\ \A i \in intersections_ahead(Human) : windows[i] = HumanWindow(i)
          /\ \A c \in Autos : acc_s[c] = PlanOf(c)
      BY <1>1, <2>1, <3>1 DEF PlanInv, SettledInv, HumansSet, PlansMade
    <3> QED
      BY <1>1, <1>3, <2>1, <3>2 DEF HumansSet, PreviousPlans
  <2>2. CASE ~ settled
    BY <1>1, <1>3, <2>2 DEF HumansSet, PreviousPlans
  <2> QED
    BY <2>1, <2>2
<1> QED
  BY <1>4, <1>5, <1>6 DEF SettledInv

\* In a settled round that follows another the human's windows are set to
\* what they are; in the first, nobody has a plan yet.
LEMMA HumanKeeps ==
  ASSUME PlanInv, SetHumanWindow
  PROVE  RoundInv' /\ SettledInv'
<1>1. PICK i \in Intersections :
        /\ i \in ahead
        /\ windows' = [windows EXCEPT ![i] = HumanWindow(i)]
        /\ ahead' = ahead \ {i}
  <2>1. Human \in Cars /\ ahead \subseteq Intersections /\ ahead # {}
    BY DEF SetHumanWindow, PlanInv, TypeInv, TypeOK, Cars
  <2>2. Nearest(ahead, Human) \in ahead
    BY <2>1, NearestIsThere
  <2> QED
    BY <2>1, <2>2 DEF SetHumanWindow
<1>2. /\ pc = "human"
      /\ UNCHANGED <<motors, pc, order, time, pos, vel, acc_to_return, acc_s,
                     settled, previous>>
  BY DEF SetHumanWindow, locals
<1>3. intersections_ahead(Human)' = intersections_ahead(Human)
  BY <1>2 DEF intersections_ahead
<1>4. \A j : HumanWindow(j)' = HumanWindow(j)
  BY <1>2 DEF HumanWindow
<1>5. Autos \subseteq Waiting /\ Waiting' = Waiting
  BY <1>2 DEF PlanInv, RoundInv, Waiting
<1>6. RoundInv'
  BY <1>1, <1>2, <1>3, <1>5 DEF PlanInv, RoundInv
<1>7. ASSUME settled' PROVE AllSet' /\ HumansSet' /\ PlansMade' /\ PlanUnderWay'
  <2>1. HumanWindow(i) # None
    BY HumanWindowType, PlanningAssumption DEF PlanInv, TypeInv, Window
  <2>2. AllSet /\ HumansSet /\ windows \in [Intersections -> Window \cup {None}]
    BY <1>2, <1>7 DEF PlanInv, SettledInv, TypeInv, TypeOK
  <2>3. AllSet'
    BY <1>1, <2>1, <2>2 DEF AllSet
  <2>4. intersections_ahead(Human) \subseteq Intersections
    BY DEF intersections_ahead
  <2>5. HumansSet'
    BY <1>1, <1>2, <1>3, <1>4, <2>2, <2>4 DEF HumansSet
  <2>6. PlansMade' /\ PlanUnderWay'
    BY <1>2, <1>5 DEF PlansMade, PlanUnderWay
  <2> QED
    BY <2>3, <2>5, <2>6
<1>8. ASSUME settled' PROVE PreviousPlans'
  <2>1. CASE previous = NoResult
    BY <1>2, <2>1 DEF PreviousPlans
  <2>2. CASE previous # NoResult
    <3>1. i \in intersections_ahead(Human) /\ HumansSet /\ PreviousPlans
      BY <1>1, <1>2, <1>8 DEF PlanInv, RoundInv, SettledInv
    <3>2. windows[i] = HumanWindow(i)
      BY <2>2, <3>1 DEF HumansSet
    <3>3. windows' = windows
      BY <1>1, <3>2 DEF PlanInv, TypeInv, TypeOK
    <3>4. \A c : PlanOf(c)' = PlanOf(c)
      BY <1>2, <3>3, SamePlans
    <3> QED
      BY <1>2, <3>1, <3>4 DEF PreviousPlans
  <2> QED
    BY <2>1, <2>2
<1> QED
  BY <1>6, <1>7, <1>8 DEF SettledInv

\* Steps that change neither motors nor windows nor results keep what does
\* not concern the locals.
LEMMA QuietStep ==
  ASSUME PlanInv, UNCHANGED <<motors, windows, acc_s, order, settled, previous>>,
         pc' # "human", settled
  PROVE  /\ AllSet' /\ PlansMade' /\ PreviousPlans'
         /\ (pc = "human" => ahead = {}) => HumansSet'
<1>1. /\ \A c : intersections_ahead(c)' = intersections_ahead(c)
      /\ \A i : HumanWindow(i)' = HumanWindow(i)
      /\ \A c : PlanOf(c)' = PlanOf(c)
      /\ AllSet' = AllSet
  BY SamePlans
<1>2. AllSet /\ HumansSet /\ PlansMade /\ PreviousPlans
  BY DEF PlanInv, SettledInv
<1>3. Waiting' = Waiting
  BY DEF Waiting
<1>4. PlansMade' /\ PreviousPlans'
  BY <1>1, <1>2, <1>3 DEF PlansMade, PreviousPlans
<1>5. (pc = "human" => ahead = {}) => HumansSet'
  BY <1>1, <1>2 DEF HumansSet
<1> QED
  BY <1>1, <1>2, <1>4, <1>5

LEMMA QuietKeeps ==
  ASSUME PlanInv, HumanDone \/ set_min_windows \/ LookAhead \/ Return
  PROVE  RoundInv' /\ SettledInv'
<1>1. /\ UNCHANGED <<motors, windows, acc_s, order, settled, previous>>
      /\ pc' # "human"
      /\ pc = "human" => ahead = {}
  BY DEF HumanDone, set_min_windows, LookAhead, Return, locals
<1>2. RoundInv'
  BY <1>1 DEF PlanInv, RoundInv, HumanDone, set_min_windows, LookAhead, Return
<1>3. ASSUME settled PROVE AllSet' /\ HumansSet' /\ PlansMade' /\ PreviousPlans'
  BY <1>1, <1>3, QuietStep
<1>4. ASSUME settled PROVE PlanUnderWay'
  <2>1. CASE HumanDone \/ Return
    BY <2>1 DEF HumanDone, Return, PlanUnderWay
  <2>2. CASE set_min_windows
    BY <2>2 DEF set_min_windows, PlanUnderWay
  <2>3. CASE LookAhead
    <3>1. PICK c : c = Head(order)
      OBVIOUS
    <3>2. /\ time = 0 /\ acc_to_return = None
          /\ pos = motors[c].position /\ vel = motors[c].velocity
      BY <1>4, <2>3, <3>1 DEF LookAhead, PlanInv, SettledInv, PlanUnderWay
    <3>3. /\ pc' = "plan" /\ ahead' = intersections_ahead(c)
          /\ UNCHANGED <<motors, order, time, pos, vel, acc_to_return>>
      BY <2>3, <3>1 DEF LookAhead, locals
    <3>4. intersections_ahead(c)' = intersections_ahead(c)
      BY <3>3 DEF intersections_ahead
    <3> QED
      BY <3>1, <3>2, <3>3, <3>4 DEF PlanUnderWay
  <2> QED
    BY <2>1, <2>2, <2>3
<1> QED
  BY <1>1, <1>2, <1>3, <1>4 DEF SettledInv

\* All windows are set, so planning a crossing leaves them; the acceleration
\* kept is that for the first intersection, found with the first locals.
LEMMA CrossingKeeps ==
  ASSUME PlanInv, TypeInv', PlanCrossing
  PROVE  RoundInv' /\ SettledInv'
<1> DEFINE c == Head(order)
           i == Nearest(ahead, c)
           a == optimal_acc(i, c, time, pos, vel)
<1>1. /\ acc_to_return' = IF acc_to_return = None THEN a ELSE acc_to_return
      /\ pc = "plan" /\ ahead # {}
      /\ UNCHANGED <<motors, pc, order, acc_s, settled, previous>>
  BY DEF PlanCrossing
<1>2. RoundInv'
  BY <1>1 DEF PlanInv, RoundInv
<1>3. c \in Autos /\ c \in Cars /\ i \in Intersections
  <2>1. c \in Autos /\ c \in Cars
    BY <1>1 DEF PlanInv, TypeInv, TypeOK, SomeonePlans, Cars
  <2> QED
    BY <1>1, <2>1, NearestIsThere DEF PlanInv, TypeInv, TypeOK
<1>4. PICK new : windows' = [windows EXCEPT ![i] = Register(@, new)]
  BY DEF PlanCrossing
<1>5. a \in Acceleration
  <2>1. time \in Double /\ pos \in Int /\ vel \in Number
    BY DEF PlanInv, TypeInv, TypeOK, Number
  <2> QED
    BY <1>3, <2>1, OptimalType DEF PlanInv, TypeInv, TypeOK
<1>6. a # None
  BY <1>5, Limits, PlanningAssumption DEF Acceleration, Double
<1>7. ASSUME settled PROVE AllSet' /\ HumansSet' /\ PlansMade' /\ PreviousPlans'
                           /\ windows' = windows
  <2>1. windows[i] # None
    BY <1>3, <1>7 DEF PlanInv, SettledInv, AllSet
  <2>2. windows' = windows
    BY <1>4, <2>1 DEF Register, PlanInv, TypeInv, TypeOK
  <2> QED
    BY <1>1, <1>7, <2>2, QuietStep
<1>8. ASSUME settled PROVE PlanUnderWay'
  <2>1. PlanUnderWay
    BY <1>8 DEF PlanInv, SettledInv
  <2>2. PICK d : d = c
    OBVIOUS
  <2>3. PlanOf(d)' = PlanOf(d) /\ intersections_ahead(d)' = intersections_ahead(d)
    BY <1>1, <1>7, <1>8, SamePlans
  <2>4. acc_to_return' # None
    BY <1>1, <1>6
  <2>5. intersections_ahead(d) # {} /\ acc_to_return' = PlanOf(d)
    <3>1. CASE acc_to_return = None
      <4>1. /\ time = 0 /\ ahead = intersections_ahead(d)
            /\ pos = motors[d].position /\ vel = motors[d].velocity
        BY <1>1, <2>1, <2>2, <3>1 DEF PlanUnderWay
      <4> QED
        BY <1>1, <2>2, <3>1, <4>1 DEF PlanOf
    <3>2. CASE acc_to_return # None
      BY <1>1, <2>1, <2>2, <3>2 DEF PlanUnderWay
    <3> QED
      BY <3>1, <3>2
  <2>6. Head(order)' = d /\ pc' = "plan"
    BY <1>1, <2>2
  <2> QED
    BY <2>3, <2>4, <2>5, <2>6 DEF PlanUnderWay
<1> QED
  BY <1>1, <1>2, <1>7, <1>8 DEF SettledInv

\* The acceleration that is pushed is the car's plan.
LEMMA PushKeeps ==
  ASSUME PlanInv, PushAcceleration
  PROVE  RoundInv' /\ SettledInv'
<1> DEFINE c == Head(order)
<1>1. /\ acc_s' = [acc_s EXCEPT ![c] =
                     IF acc_to_return = None THEN final_acc(c, Span(c))
                                             ELSE acc_to_return]
      /\ pc = "plan" /\ pc' = "next" /\ ahead = {}
      /\ order' = Tail(order)
      /\ UNCHANGED <<motors, windows, settled, previous>>
  BY DEF PushAcceleration, Span
<1>2. RoundInv'
  BY <1>1 DEF RoundInv
<1>3. order \in Seq(Autos) /\ order # <<>> /\ c \in Autos
  BY <1>1 DEF PlanInv, TypeInv, TypeOK, SomeonePlans
<1>4. Waiting \subseteq Waiting' \cup {c}
  BY <1>1, <1>3, WaitingShrinks
<1>5. /\ \A d : intersections_ahead(d)' = intersections_ahead(d)
      /\ \A d : HumanWindow(d)' = HumanWindow(d)
      /\ \A d : PlanOf(d)' = PlanOf(d)
      /\ AllSet' = AllSet
  BY <1>1, SamePlans
<1> SUFFICES ASSUME settled
             PROVE  /\ AllSet' /\ HumansSet' /\ PlansMade' /\ PlanUnderWay'
                    /\ PreviousPlans'
  BY <1>1, <1>2 DEF SettledInv
<1>6. AllSet /\ HumansSet /\ PlansMade /\ PlanUnderWay /\ PreviousPlans
  BY DEF PlanInv, SettledInv
<1>7. acc_s'[c] = PlanOf(c)
  <2>1. acc_s'[c] = IF acc_to_return = None THEN final_acc(c, Span(c))
                                            ELSE acc_to_return
    BY <1>1, <1>3 DEF PlanInv, TypeInv, TypeOK
  <2>2. CASE acc_to_return = None
    <3>1. intersections_ahead(c) = {}
      BY <1>1, <1>6, <2>2 DEF PlanUnderWay
    <3> QED
      BY <2>1, <2>2, <3>1 DEF PlanOf
  <2>3. CASE acc_to_return # None
    BY <1>1, <1>6, <2>1, <2>3 DEF PlanUnderWay
  <2> QED
    BY <2>2, <2>3
<1>8. \A d \in Autos : d # c => acc_s'[d] = acc_s[d]
  BY <1>1 DEF PlanInv, TypeInv, TypeOK
<1>9. PlansMade'
  <2> SUFFICES ASSUME NEW d \in Autos, d \notin Waiting'
               PROVE  acc_s'[d] = PlanOf(d)
    BY <1>5 DEF PlansMade
  <2>1. CASE d = c
    BY <1>7, <2>1
  <2>2. CASE d # c
    BY <1>4, <1>6, <1>8, <2>2 DEF PlansMade
  <2> QED
    BY <2>1, <2>2
<1>10. HumansSet' /\ PreviousPlans' /\ PlanUnderWay'
  BY <1>1, <1>5, <1>6 DEF HumansSet, PreviousPlans, PlanUnderWay
<1> QED
  BY <1>5, <1>6, <1>9, <1>10

LEMMA PlanStep == PlanInv /\ [Next]_vars => PlanInv'
<1> SUFFICES ASSUME PlanInv, [Next]_vars PROVE RoundInv' /\ SettledInv'
  BY TypeStep DEF PlanInv
<1>1. TypeInv'
  BY TypeStep DEF PlanInv
<1>2. ASSUME NEW cars \in SetToSeqs(Autos), find_accelerations(cars)
      PROVE  RoundInv' /\ SettledInv'
  BY <1>2, FindKeeps
<1>3. CASE SetHumanWindow
  BY <1>3, HumanKeeps
<1>4. CASE HumanDone \/ set_min_windows \/ LookAhead \/ Return
  BY <1>4, QuietKeeps
<1>5. CASE PlanCrossing
  BY <1>1, <1>5, CrossingKeeps
<1>6. CASE PushAcceleration
  BY <1>6, PushKeeps
<1>7. ASSUME NEW c \in Cars, Drive(c) PROVE RoundInv' /\ SettledInv'
  <2>1. ~ settled' /\ UNCHANGED <<pc, order>>
    BY <1>7 DEF Drive
  <2> QED
    BY <2>1 DEF PlanInv, RoundInv, SettledInv, Waiting
<1>8. CASE UNCHANGED vars
  <2>1. UNCHANGED <<motors, windows, pc, order, ahead, time, pos, vel,
                    acc_to_return, acc_s, settled, previous>>
    BY <1>8 DEF vars, locals
  <2>2. RoundInv'
    BY <2>1 DEF PlanInv, RoundInv, Waiting, intersections_ahead
  <2>3. SettledInv'
    <3>1. /\ \A d : intersections_ahead(d)' = intersections_ahead(d)
          /\ \A d : HumanWindow(d)' = HumanWindow(d)
          /\ \A d : PlanOf(d)' = PlanOf(d)
          /\ AllSet' = AllSet
      BY <2>1, SamePlans
    <3>2. Waiting' = Waiting
      BY <2>1 DEF Waiting
    <3>3. SettledInv
      BY DEF PlanInv
    <3> QED
      BY <2>1, <3>1, <3>2, <3>3
         DEF SettledInv, HumansSet, PlansMade, PlanUnderWay, PreviousPlans
  <2> QED
    BY <2>2, <2>3
<1> QED
  BY <1>2, <1>3, <1>4, <1>5, <1>6, <1>7, <1>8 DEF Next

\* Between two rounds that nobody moved in, all plans are made, and the
\* result before was made of the same plans.
LEMMA PlansRepeat == PlanInv => SettledPlansRepeat
<1> SUFFICES ASSUME PlanInv, pc = "idle", settled, previous # NoResult
             PROVE  acc_s = previous
  BY DEF SettledPlansRepeat
<1>1. Waiting = {}
  BY WaitingShrinks DEF PlanInv, RoundInv, TypeInv, TypeOK
<1>2. \A c \in Autos : acc_s[c] = previous[c]
  BY <1>1 DEF PlanInv, SettledInv, PlansMade, PreviousPlans
<1>3. acc_s \in [Autos -> Double \cup {MinusInfinity, None}] /\ previous \in [Autos -> Double \cup {MinusInfinity, None}]
  BY DEF PlanInv, TypeInv, TypeOK
<1> QED
  BY <1>2, <1>3

\* A round of planning that begins with all windows set, and in which nobody
\* moves, answers what the round before answered, in whatever order the two
\* list the cars and for any grid: no window of an automatic car changes any
\* more, so none of what a car plans with depends on who planned before it.
THEOREM SettledRoundsRepeat == Spec => []SettledPlansRepeat
BY PlanInit, PlanStep, PlansRepeat, PTL DEF Spec

-----------------------------------------------------------------------------
(* Where numbers get lost.  A car that plans either still has numbers to   *)
(* plan with or has met, before all intersections that are ahead of it, a  *)
(* source of what is none.                                                 *)

MetASource ==
  \E j \in Intersections :
    Source(j) /\ \A i \in ahead : Precedes(j, i, Head(order))

NumbersInv ==
  /\ pc = "look" => {time, vel} \subseteq Int
  /\ pc = "plan" =>
       /\ \A i \in ahead : On(i, Head(order))
       /\ {time, vel} \subseteq Int \/ MetASource

NaNInv == TypeInv /\ NumbersInv /\ NaNHasASource

LEMMA NaNInit == Init => NaNInv
BY TypeInit DEF Init, NaNInv, NumbersInv, NaNHasASource, HasNaN

\* The human always arrives, and never leaves.
LEMMA HumanWindowEnds ==
  ASSUME TypeOK, NEW i \in Intersections
  PROVE  HumanWindow(i) # None /\ HumanWindow(i)[1] # NaN /\ HumanWindow(i)[2] = Infinity
<1>1. Human \in Cars
  BY DEF Cars
<1>2. motors[Human].position \in Int /\ motors[Human].velocity \in Int
  BY <1>1 DEF TypeOK, Reading
<1>3. PICK d \in Int : d = pos_of_intersection(i, Human) - motors[Human].position
  BY <1>1, <1>2, TrackTypes
<1>4. calculate_time(d, motors[Human].velocity, MAX_ACC) \in Int
  <2>1. MAX_ACC \in Int /\ MAX_ACC # 0
    BY Limits
  <2> QED
    BY <1>2, <2>1, TimeOfNumbers
<1>5. HumanWindow(i) # None
  <2>1. HumanWindow(i) \in Double \X Double
    BY HumanWindowType DEF Window
  <2>2. None \notin Double \X Double
    BY PlanningAssumption
  <2> QED
    BY <2>1, <2>2
<1> QED
  BY <1>3, <1>4, <1>5, Limits DEF HumanWindow

\* What goes on with the same windows and stalls has the same sources.
LEMMA SameSources ==
  ASSUME UNCHANGED <<windows, stalls>>
  PROVE  /\ \A j : Source(j)' = Source(j)
         /\ NaNHasASource' = NaNHasASource
BY DEF Source, HasNaN, NaNHasASource, Precedes

\* Sources stay when a window is set that was not, or for ever, and no other
\* window loses its numbers.
LEMMA SourcesStay ==
  ASSUME TypeOK, NEW i \in Intersections, NEW w,
         windows' = [windows EXCEPT ![i] = w], stalls \subseteq stalls',
         w # None, windows[i] \in {None, w} \/ w[2] = Infinity
  PROVE  /\ \A j \in Intersections : Source(j) => Source(j)'
         /\ \A j \in Intersections : j # i => HasNaN(j)' = HasNaN(j)
         /\ Source(i)' = (\/ NaN \in {w[1], w[2]}
                          \/ w[2] = Infinity
                          \/ i \in stalls')
<1>1. windows'[i] = w /\ \A j \in Intersections : j # i => windows'[j] = windows[j]
  BY DEF TypeOK
<1>2. \A j \in Intersections : j # i => HasNaN(j)' = HasNaN(j)
  BY <1>1 DEF HasNaN
<1>3. Source(i)' = (NaN \in {w[1], w[2]} \/ w[2] = Infinity \/ i \in stalls')
  BY <1>1 DEF HasNaN, Source
<1>4. \A j \in Intersections : j # i /\ Source(j) => Source(j)'
  BY <1>1, <1>2 DEF Source
<1>5. Source(i) => Source(i)'
  BY <1>3 DEF Source, HasNaN
<1> QED
  BY <1>2, <1>3, <1>4, <1>5

\* Windows that keep their numbers keep the property.
LEMMA NoNewNaN ==
  ASSUME NaNHasASource,
         \A j \in Intersections : Source(j) => Source(j)',
         \A j \in Intersections : HasNaN(j)' => HasNaN(j)
  PROVE  NaNHasASource'
BY DEF NaNHasASource, Precedes, On, pos_of_intersection

LEMMA HumanKeepsSources ==
  ASSUME NaNInv, SetHumanWindow
  PROVE  NumbersInv' /\ NaNHasASource'
<1>1. PICK i \in Intersections : windows' = [windows EXCEPT ![i] = HumanWindow(i)]
  <2>1. Human \in Cars /\ ahead \subseteq Intersections /\ ahead # {}
    BY DEF SetHumanWindow, NaNInv, TypeInv, TypeOK, Cars
  <2>2. Nearest(ahead, Human) \in ahead
    BY <2>1, NearestIsThere
  <2> QED
    BY <2>1, <2>2 DEF SetHumanWindow
<1>2. TypeOK /\ stalls' = stalls /\ pc' = "human"
  BY DEF SetHumanWindow, history, NaNInv, TypeInv
<1>3. HumanWindow(i) # None /\ HumanWindow(i)[1] # NaN /\ HumanWindow(i)[2] = Infinity
  BY <1>2, HumanWindowEnds
<1>4. /\ \A j \in Intersections : Source(j) => Source(j)'
      /\ \A j \in Intersections : j # i => HasNaN(j)' = HasNaN(j)
  BY <1>1, <1>2, <1>3, SourcesStay
<1>5. ~ HasNaN(i)'
  BY <1>1, <1>2, <1>3, Limits DEF HasNaN, TypeOK
<1> QED
  BY <1>2, <1>4, <1>5, NoNewNaN DEF NaNInv, NumbersInv

\* A crossing planned with numbers gives numbers, or the intersection is a
\* source: its window never clears or has none, or the plan stalls there.
LEMMA CrossingNumbers ==
  ASSUME TypeInv, NEW c \in Cars, NEW i \in Intersections, NEW a, NEW w,
         {time, vel} \subseteq Int,
         a = optimal_acc(i, c, time, pos, vel),
         w = create_window(c, pos_of_intersection(i, c) - pos, vel, a,
                           wd_of_intersection(i, c)),
         crossing'.met = windows[i], crossing'.start = time, crossing'.vel = vel,
         crossing'.disp = pos_of_intersection(i, c) - pos, crossing'.acc = a
  PROVE  \/ a \in Int /\ {w[1], w[2]} \subseteq Int
         \/ windows[i] # None /\ windows[i][2] \in {NaN, Infinity}
         \/ windows[i] # None /\ Stalls(crossing')
<1>1. time \in Double /\ pos \in Int /\ vel \in Number
  BY DEF TypeInv, TypeOK, Number
<1>2. windows \in [Intersections -> Window \cup {None}]
  BY DEF TypeInv, TypeOK
<1>3. /\ a \in Acceleration
      /\ windows[i] = None => a = MAX_ACC
      /\ a = NaN => \/ windows[i][2] \in {NaN, Infinity}
                    \/ pos_of_intersection(i, c) - pos = 0 /\ windows[i][2] = time
  BY <1>1, <1>2, OptimalType
<1>4. PICK d \in Int : d = pos_of_intersection(i, c) - pos
  BY <1>1, TrackTypes
<1>5. PICK e \in Int : e = d + length(c) + wd_of_intersection(i, c)
  BY <1>4, TrackTypes
<1>6. w = <<calculate_time(d, vel, a), calculate_time(e, vel, a)>>
  BY <1>4, <1>5 DEF create_window
<1>7. CASE a = NaN
  <2>1. windows[i] # None /\ time # NaN
    BY <1>3, <1>7, Limits
  <2>2. CASE windows[i][2] \in {NaN, Infinity}
    BY <2>1, <2>2
  <2>3. CASE pos_of_intersection(i, c) - pos = 0 /\ windows[i][2] = time
    BY <1>7, <2>1, <2>3 DEF Stalls
  <2> QED
    BY <1>3, <1>7, <2>2, <2>3
<1>8. CASE a = 0 /\ vel \notin (-MAX_VEL .. MAX_VEL) \ {0}
  BY <1>3, <1>8, Limits DEF Stalls
<1>9. CASE a # NaN /\ (a # 0 \/ vel \in (-MAX_VEL .. MAX_VEL) \ {0})
  <2>1. a \in Int
    BY <1>3, <1>9, Limits DEF Acceleration
  <2>2. calculate_time(d, vel, a) \in Int /\ calculate_time(e, vel, a) \in Int
    BY <1>9, <2>1, TimeOfNumbers
  <2> QED
    BY <1>6, <2>1, <2>2
<1> QED
  BY <1>7, <1>8, <1>9

\* The car plans on with numbers, or has met a source: this intersection or
\* one before.  A window that is set without numbers has the latter.
LEMMA CrossingKeepsSources ==
  ASSUME NaNInv, PlanCrossing
  PROVE  NumbersInv' /\ NaNHasASource'
<1>1. PICK c : c = Head(order)
  OBVIOUS
<1>2. c \in Autos /\ c \in Cars /\ ahead \subseteq Intersections /\ ahead # {}
  BY <1>1 DEF PlanCrossing, NaNInv, TypeInv, TypeOK, SomeonePlans, Cars
<1>3. PICK i \in ahead : i = Nearest(ahead, c)
  BY <1>2, NearestIsThere
<1>4. \A j \in ahead \ {i} : Precedes(i, j, c)
  <2>1. \A j \in ahead : /\ pos_of_intersection(i, c) <= pos_of_intersection(j, c)
                         /\ On(j, c)
    BY <1>1, <1>2, <1>3, NearestIsThere DEF PlanCrossing, NaNInv, NumbersInv
  <2> QED
    BY <2>1 DEF Precedes
<1>5. PICK a : a = optimal_acc(i, c, time, pos, vel)
  OBVIOUS
<1>6. PICK w : w = create_window(c, pos_of_intersection(i, c) - pos, vel, a,
                                 wd_of_intersection(i, c))
  OBVIOUS
<1>7. PICK new : new = <<Plus(w[1], time), Plus(w[2], time)>>
  OBVIOUS
<1>8. /\ windows' = [windows EXCEPT ![i] = Register(windows[i], new)]
      /\ time' = Plus(time, w[2])
      /\ vel' = Plus(vel, calculate_vel(AsVelocity(pos), a, w[2]))
      /\ stalls' = stalls \cup (IF Stalls(crossing') THEN {i} ELSE {})
      /\ ahead' = ahead \ {i}
      /\ pc = "plan" /\ pc' = "plan" /\ order' = order
  BY <1>1, <1>3, <1>5, <1>6, <1>7 DEF PlanCrossing
<1>9. /\ crossing'.met = windows[i] /\ crossing'.start = time /\ crossing'.vel = vel
      /\ crossing'.disp = pos_of_intersection(i, c) - pos /\ crossing'.acc = a
  BY <1>1, <1>3, <1>5 DEF PlanCrossing
<1>10. time \in Double /\ pos \in Int /\ vel \in Number /\ TypeOK
  BY DEF NaNInv, TypeInv, TypeOK, Number
<1>11. a \in Acceleration /\ w[1] \in Double /\ w[2] \in Double
  BY <1>2, <1>3, <1>5, <1>6, LegTypes DEF NaNInv
<1>12. Register(windows[i], new) # None
  BY <1>7, <1>10, <1>11, SumTypes, PlanningAssumption DEF Register, Window
<1>13. /\ \A j \in Intersections : Source(j) => Source(j)'
       /\ \A j \in Intersections : j # i => HasNaN(j)' = HasNaN(j)
       /\ i \in stalls' => Source(i)'
       /\ windows[i] # None /\ windows[i][2] \in {NaN, Infinity} => Source(i)'
  <2>1. PICK r : r = Register(windows[i], new)
    OBVIOUS
  <2>2. /\ i \in Intersections /\ stalls \subseteq stalls'
        /\ windows' = [windows EXCEPT ![i] = r] /\ r # None
        /\ windows[i] \in {None, r}
        /\ windows[i] # None => r = windows[i]
    BY <1>2, <1>3, <1>8, <1>12, <2>1 DEF Register
  <2> QED
    BY <1>10, <2>2, SourcesStay
<1>14. \A j \in Intersections : Source(j)' /\ (\A k \in ahead' : Precedes(j, k, c))
                                 => MetASource'
  BY <1>1, <1>8 DEF MetASource, Precedes, On, pos_of_intersection
<1>15. ~ ({time, vel} \subseteq Int) =>
         \E j \in Intersections : Source(j) /\ \A k \in ahead : Precedes(j, k, c)
  BY <1>1, <1>8 DEF NaNInv, NumbersInv, MetASource
<1>16. {time', vel'} \subseteq Int \/ MetASource'
  <2>1. CASE ~ ({time, vel} \subseteq Int)
    BY <1>8, <1>13, <1>14, <1>15, <2>1
  <2>2. CASE {time, vel} \subseteq Int
    <3>1. CASE a \in Int /\ {w[1], w[2]} \subseteq Int
      <4>1. calculate_vel(AsVelocity(pos), a, w[2]) \in Int
        <5>1. PICK t \in Int : t = w[2]
          BY <3>1
        <5>2. a \in Number /\ t \in Double /\ {a, t} \subseteq Int
          BY <3>1 DEF Number, Double
        <5>3. AsVelocity(pos) \in Int
          BY <1>10 DEF AsVelocity
        <5> QED
          BY <5>1, <5>2, <5>3, VelocityType
      <4> QED
        BY <1>8, <2>2, <3>1, <4>1, Limits DEF Plus
    <3>2. CASE windows[i] # None /\ windows[i][2] \in {NaN, Infinity}
      BY <1>2, <1>3, <1>4, <1>8, <1>13, <1>14, <3>2
    <3>3. CASE windows[i] # None /\ Stalls(crossing')
      BY <1>2, <1>3, <1>4, <1>8, <1>13, <1>14, <3>3
    <3> QED
      BY <1>1, <1>2, <1>3, <1>5, <1>6, <1>8, <1>9, <2>2, <3>1, <3>2, <3>3,
         CrossingNumbers DEF NaNInv
  <2> QED
    BY <2>1, <2>2
<1>17. NumbersInv'
  BY <1>1, <1>8, <1>16 DEF NaNInv, NumbersInv, On
<1>18. NaNHasASource'
  <2>1. CASE windows[i] # None \/ {new[1], new[2]} \subseteq Int
    <3>1. HasNaN(i)' => HasNaN(i)
      BY <1>2, <1>3, <1>8, <1>10, <2>1, Limits DEF HasNaN, Register, TypeOK
    <3> QED
      BY <1>13, <3>1, NoNewNaN DEF NaNInv
  <2>2. CASE windows[i] = None /\ {time, vel} \subseteq Int
    <3>1. a \in Int /\ {w[1], w[2]} \subseteq Int
      BY <1>1, <1>2, <1>3, <1>5, <1>6, <1>8, <1>9, <2>2, CrossingNumbers DEF NaNInv
    <3>2. {new[1], new[2]} \subseteq Int
      BY <1>7, <2>2, <3>1, Limits DEF Plus
    <3> QED
      BY <2>1, <3>2
  <2>3. CASE ~ ({time, vel} \subseteq Int)
    <3>1. PICK j \in Intersections : Source(j)' /\ Precedes(j, i, c)
      BY <1>3, <1>13, <1>15, <2>3
    <3> SUFFICES ASSUME NEW k \in Intersections, HasNaN(k)'
                 PROVE  \E j2 \in Intersections, d \in Autos :
                          Source(j2)' /\ Precedes(j2, k, d)
      BY DEF NaNHasASource, Precedes, On, pos_of_intersection
    <3>2. CASE k = i
      BY <1>2, <3>1, <3>2
    <3>3. CASE k # i
      BY <1>13, <3>3 DEF NaNInv, NaNHasASource
    <3> QED
      BY <3>2, <3>3
  <2> QED
    BY <2>1, <2>2, <2>3
<1> QED
  BY <1>17, <1>18

LEMMA NaNStep == NaNInv /\ [Next]_vars => NaNInv'
<1> SUFFICES ASSUME NaNInv, [Next]_vars PROVE NumbersInv' /\ NaNHasASource'
  BY TypeStep DEF NaNInv
<1>1. ASSUME UNCHANGED <<windows, stalls>>, pc' \notin {"look", "plan"}
      PROVE  NumbersInv' /\ NaNHasASource'
  BY <1>1, SameSources DEF NaNInv, NumbersInv
<1>2. ASSUME UNCHANGED <<windows, stalls, pc, order, ahead, time, vel>>
      PROVE  NumbersInv' /\ NaNHasASource'
  <2>1. MetASource' = MetASource
    BY <1>2, SameSources DEF MetASource, Precedes, On, pos_of_intersection
  <2> QED
    BY <1>2, <2>1, SameSources DEF NaNInv, NumbersInv, On
<1>3. ASSUME NEW cars \in SetToSeqs(Autos), find_accelerations(cars)
      PROVE  NumbersInv' /\ NaNHasASource'
  BY <1>1, <1>3 DEF find_accelerations, history
<1>4. CASE SetHumanWindow
  BY <1>4, HumanKeepsSources
<1>5. CASE HumanDone \/ PushAcceleration \/ Return
  BY <1>1, <1>5 DEF HumanDone, PushAcceleration, Return, history
<1>6. CASE set_min_windows \/ LookAhead
  <2>1. UNCHANGED <<windows, stalls, order>>
    BY <1>6 DEF set_min_windows, LookAhead, history
  <2>2. CASE set_min_windows
    <3>1. Head(order) \in Cars
      BY <2>2 DEF set_min_windows, NaNInv, TypeInv, TypeOK, Cars
    <3>2. time' = 0 /\ vel' \in Int /\ pc' = "look"
      BY <2>2, <3>1 DEF set_min_windows, NaNInv, TypeInv, TypeOK, Reading
    <3> QED
      BY <2>1, <3>2, SameSources DEF NaNInv, NumbersInv
  <2>3. CASE LookAhead
    <3>1. pc = "look" /\ pc' = "plan" /\ UNCHANGED <<time, vel>>
      BY <2>3 DEF LookAhead, locals
    <3>2. \A i \in ahead' : On(i, Head(order'))
      BY <2>1, <2>3 DEF LookAhead, intersections_ahead
    <3> QED
      BY <2>1, <3>1, <3>2, SameSources DEF NaNInv, NumbersInv, On
  <2> QED
    BY <1>6, <2>2, <2>3
<1>7. CASE PlanCrossing
  BY <1>7, CrossingKeepsSources
<1>8. ASSUME NEW c \in Cars, Drive(c) PROVE NumbersInv' /\ NaNHasASource'
  BY <1>2, <1>8 DEF Drive, locals, history
<1>9. CASE UNCHANGED vars
  BY <1>2, <1>9 DEF vars
<1> QED
  BY <1>3, <1>4, <1>5, <1>6, <1>7, <1>8, <1>9 DEF Next

\* On any grid and with any cars, a window without numbers lies behind
\* another, the human's, or one where a plan stalled: calculate_time and
\* calculate_acc lose no number by themselves in any other way, and what they
\* are given is none only where an earlier crossing of the car made it so.
THEOREM NaNSpreadsDownstream == Spec => []NaNHasASource
BY NaNInit, NaNStep, PTL DEF Spec, NaNInv

-----------------------------------------------------------------------------
(* ArrivesWhenPlanned and KeepsClear compare numbers.                      *)

PlannedTimes ==
  crossing # None /\ Sensible(crossing) =>
    {crossing.window[1], crossing.window[2]} \subseteq Int

LEMMA PlannedTimesStep ==
  ASSUME TypeInv, PlanCrossing
  PROVE  PlannedTimes'
<1> SUFFICES ASSUME Sensible(crossing')
             PROVE  {crossing'.window[1], crossing'.window[2]} \subseteq Int
  BY DEF PlannedTimes
<1>1. PICK c \in Cars : c = Head(order)
  BY DEF PlanCrossing, TypeInv, TypeOK, SomeonePlans, Cars
<1>2. PICK i \in Intersections : i = Nearest(ahead, c)
  BY <1>1, NearestIsThere DEF PlanCrossing, TypeInv, TypeOK
<1>3. PICK a : a = optimal_acc(i, c, time, pos, vel)
  OBVIOUS
<1>4. PICK w : w = create_window(c, pos_of_intersection(i, c) - pos, vel, a,
                                 wd_of_intersection(i, c))
  OBVIOUS
<1>5. /\ crossing'.start = time /\ crossing'.vel = vel /\ crossing'.acc = a
      /\ crossing'.window = <<Plus(w[1], time), Plus(w[2], time)>>
  BY <1>1, <1>2, <1>3, <1>4 DEF PlanCrossing
<1>6. pos \in Int /\ time \in Double /\ vel \in Number /\ a \in Acceleration
  BY <1>1, <1>2, <1>3, <1>4, LegTypes DEF TypeInv, TypeOK, Number
<1>7. /\ time \in Int /\ vel \in Int /\ a \in Int
      /\ a # 0 \/ vel \in (-MAX_VEL .. MAX_VEL) \ {0}
  BY <1>5, <1>6, Limits DEF Sensible, Stalls, Double, Number, Acceleration
<1>8. PICK d \in Int : d = pos_of_intersection(i, c) - pos
  BY <1>6, TrackTypes
<1>9. PICK e \in Int : e = d + length(c) + wd_of_intersection(i, c)
  BY <1>8, TrackTypes
<1>10. w = <<calculate_time(d, vel, a), calculate_time(e, vel, a)>>
  BY <1>4, <1>8, <1>9 DEF create_window
<1>11. w[1] \in Int /\ w[2] \in Int
  BY <1>7, <1>10, TimeOfNumbers
<1> QED
  BY <1>5, <1>7, <1>11, Limits DEF Plus

\* A crossing planned with numbers, for a car that can be where and as fast as
\* the plan takes it to be and that gets there, has a time of arrival and one
\* of leaving: calculate_time never answers NaN or infinity to a sensible
\* question.
THEOREM SensiblePlansHaveTimes == Spec => []PlannedTimes
<1>1. Init => PlannedTimes
  BY DEF Init, PlannedTimes
<1>2. TypeInv /\ PlannedTimes /\ [Next]_vars => PlannedTimes'
  <2> SUFFICES ASSUME TypeInv, PlannedTimes, [Next]_vars PROVE PlannedTimes'
    OBVIOUS
  <2>1. CASE PlanCrossing
    BY <2>1, PlannedTimesStep
  <2>2. CASE ~ PlanCrossing
    <3>1. crossing' = crossing
      BY <2>2 DEF Next, vars, history, find_accelerations, SetHumanWindow,
         HumanDone, set_min_windows, LookAhead, PushAcceleration, Return, Drive
    <3> QED
      BY <3>1 DEF PlannedTimes
  <2> QED
    BY <2>1, <2>2
<1> QED
  BY <1>1, <1>2, TypesHold, PTL DEF Spec
=============================================================================
