------------------------------- MODULE Planning -------------------------------
(***************************************************************************)
(* Grid::find_accelerations (src/simulation/grid.cpp): a round of planning *)
(* gives each intersection a window of time for the car that will cross it *)
(* and each automatic car an acceleration.  The human driver's windows are *)
(* set first; then the automatic cars plan in the order in which the grid  *)
(* lists them, each along all intersections ahead of it.                   *)
(*                                                                         *)
(* A car is the number of its track, as each track has one.  Rounds follow *)
(* each other over the same intersections, which keep their windows, as in *)
(* test/simulation/test_grid.cpp.  The cars' motors are external: they may *)
(* move on at any time, also between two of the planner's readings.        *)
(***************************************************************************)
EXTENDS Kinematics, Sequences, SequencesExt

CONSTANTS
  Intersections,   (* records of what the struct Intersection has, but its *)
                   (* window                                               *)
  Human,           (* the human's car                                      *)
  Autos,           (* the automatic cars                                   *)
  Length,          (* the lengths the cars were constructed with           *)
  Width, Height,   (* of the board: the last position of a track           *)
  Moves,           (* of each car's motor: what it may report next, as     *)
                   (* pairs of positions and velocities                    *)
  Tolerance,       (* what rounding may do to a time or a position         *)
  None             (* no window; no acceleration                           *)

Cars == Autos \cup {Human}

Reading == [position : Int, velocity : Int]

ASSUME PlanningAssumption ==
  /\ Intersections \subseteq
       [across_id : Cars, down_id : Cars, across_wd : Nat, down_wd : Nat,
        across_pos : Nat, down_pos : Nat]
  /\ IsFiniteSet(Autos)
  /\ Human \notin Autos
  /\ Length \in [Cars -> Nat]
  /\ {Width, Height, Tolerance} \subseteq Nat
  /\ \A c \in Cars : Moves[c] \subseteq Reading \X Reading
  /\ None \notin Double \cup {MinusInfinity} \cup (Double \X Double)

VARIABLES
  motors,     (* the motor of each car: its position and velocity          *)
  windows,    (* the window_ of each intersection, <<first, second>>       *)
  pc,         (* where find_accelerations is                               *)
  order,      (* the automatic cars that have yet to plan in this round    *)
  ahead,      (* the intersections a loop has yet to visit                 *)
  time, pos, vel,   (* locals of set_min_windows: when and where the car   *)
                    (* will be at the next intersection, and how fast      *)
  acc_to_return,
  acc_s,      (* the result: the acceleration of each car                  *)
  crossing,   (* history: the last crossing planned                        *)
  stalls,     (* history: the intersections where a plan has stalled       *)
  settled,    (* history: the round began with all windows set, and no car *)
              (* has moved since                                           *)
  previous    (* history: acc_s of the round before, if that was settled   *)

vars == <<motors, windows, pc, order, ahead, time, pos, vel, acc_to_return,
          acc_s, crossing, stalls, settled, previous>>

locals   == <<time, pos, vel, acc_to_return>>
history  == <<crossing, stalls>>
NoResult == [c \in Autos |-> None]

-----------------------------------------------------------------------------
(* Car.                                                                    *)

\* The constructor's parameter is an int: a fraction of a metre is lost.
length(c) == (Length[c] \div Metre) * Metre

horiz(c) == c < 3

On(i, c) == c \in {i.across_id, i.down_id}

pos_of_intersection(i, c) == IF i.across_id = c THEN i.across_pos ELSE i.down_pos
wd_of_intersection(i, c)  == IF i.across_id = c THEN i.across_wd ELSE i.down_wd

create_window(c, disp, curr_vel, acc, intsctn_wd) ==
  <<calculate_time(disp, curr_vel, acc),
    calculate_time(disp + length(c) + intsctn_wd, curr_vel, acc)>>

\* Fault: only the time of leaving is compared.
Fault_intervals_overlap(a_first, a_second, b_first, b_second) ==
  ~ Less(a_second, b_first) /\ ~ Less(b_second, a_second)

intervals_overlap(a_first, a_second, b_first, b_second) ==
  ~ (Less(a_second, b_first) \/ Less(b_second, a_first))

\* The exit is that of the across track, whichever track the car is on.  That
\* it precedes the entrance is only logged.
collision(i, c, t, p, v, acc) ==
  /\ windows[i] # None
  /\ LET disp   == pos_of_intersection(i, c) - p
         enter  == calculate_time(disp, v, acc)
         leave  == calculate_time(disp + length(c) + i.across_wd, v, acc)
     IN  intervals_overlap(Plus(enter, t), Plus(leave, t),
                           windows[i][1], windows[i][2])

\* The sign of an infinite time makes no difference to calculate_acc.
Until(cleared, t) ==
  IF NaN \in {cleared, t} THEN NaN
  ELSE IF Infinity \in {cleared, t} THEN Infinity
  ELSE cleared - t

\* Full acceleration, or to arrive when the other car has cleared.
optimal_acc(i, c, t, p, v) ==
  IF ~ collision(i, c, t, p, v, MAX_ACC)
  THEN MAX_ACC
  ELSE calculate_acc(pos_of_intersection(i, c) - p, v, Until(windows[i][2], t))

final_acc(c, max) ==
  LET m == motors[c] IN
    IF m.position > max THEN 0
    ELSE Quotient(Times(m.velocity, m.velocity) - Times(TURN_VEL, TURN_VEL),
                  2 * (max - m.position))

-----------------------------------------------------------------------------
(* Grid.                                                                   *)

Init ==
  /\ motors = [c \in Cars |-> [position |-> 0, velocity |-> 0]]
  /\ windows = [i \in Intersections |-> None]
  /\ pc = "idle"
  /\ order = <<>>
  /\ ahead = {}
  /\ time = 0 /\ pos = 0 /\ vel = 0 /\ acc_to_return = None
  /\ acc_s = NoResult
  /\ crossing = None /\ stalls = {}
  /\ settled = FALSE
  /\ previous = NoResult

\* They are visited in the order of their positions.
intersections_ahead(c) ==
  {i \in Intersections :
     On(i, c) /\ pos_of_intersection(i, c) > motors[c].position}

Nearest(S, c) ==
  CHOOSE i \in S :
    \A j \in S : pos_of_intersection(i, c) <= pos_of_intersection(j, c)

\* The human is never made to wait, and leaves nobody the time after.
HumanWindow(i) ==
  LET disp == pos_of_intersection(i, Human) - motors[Human].position
  IN  <<calculate_time(disp, motors[Human].velocity, MAX_ACC), Infinity>>

\* A grid is made with its cars in some order, and asked to plan.
find_accelerations(cars) ==
  /\ pc = "idle"
  /\ pc' = "human"
  /\ order' = cars
  /\ ahead' = intersections_ahead(Human)
  /\ acc_s' = NoResult
  /\ previous' = IF settled THEN acc_s ELSE NoResult
  /\ settled' = (\A i \in Intersections : windows[i] # None)
  /\ UNCHANGED <<motors, windows, locals, history>>

\* One intersection ahead of the human, whose position is read again: if it
\* has been passed meanwhile, the error is only logged.
SetHumanWindow ==
  /\ pc = "human"
  /\ ahead # {}
  /\ LET i == Nearest(ahead, Human)
     IN  /\ windows' = [windows EXCEPT ![i] = HumanWindow(i)]
         /\ ahead' = ahead \ {i}
  /\ UNCHANGED <<motors, pc, order, locals, acc_s, history, settled, previous>>

HumanDone ==
  /\ pc = "human"
  /\ ahead = {}
  /\ pc' = "next"
  /\ UNCHANGED <<motors, windows, order, ahead, locals, acc_s, history,
                 settled, previous>>

\* set_min_windows of the next car reads its motor.
set_min_windows ==
  /\ pc = "next"
  /\ order # <<>>
  /\ pc' = "look"
  /\ time' = 0
  /\ pos' = motors[Head(order)].position
  /\ vel' = motors[Head(order)].velocity
  /\ acc_to_return' = None
  /\ UNCHANGED <<motors, windows, order, ahead, acc_s, history, settled,
                 previous>>

\* The position is read again to find the intersections ahead.
LookAhead ==
  /\ pc = "look"
  /\ pc' = "plan"
  /\ ahead' = intersections_ahead(Head(order))
  /\ UNCHANGED <<motors, windows, order, locals, acc_s, history, settled,
                 previous>>

FaultRegister(window, new) == new  \* a window that is set is overwritten
Register(window, new) == IF window = None THEN new ELSE window

\* A crossing planned from numbers for which there is no time: without an
\* acceleration the car stands still, or is too fast; or it is there, to be
\* there at once, and 0 / 0 is its acceleration.
Stalls(x) ==
  \/ x.acc = 0 /\ x.vel \notin (-MAX_VEL .. MAX_VEL) \ {0}
  \/ x.acc = NaN /\ x.start # NaN /\ x.disp = 0 /\ x.met[2] = x.start

\* A number of metres taken for a number of metres per second.
AsVelocity(p) == p \div 6

\* One intersection ahead of the car.  A window that is set is kept.  What is
\* added to vel is the velocity of a car that starts with pos for its velocity.
PlanCrossing ==
  /\ pc = "plan"
  /\ ahead # {}
  /\ LET c    == Head(order)
         i    == Nearest(ahead, c)
         acc  == optimal_acc(i, c, time, pos, vel)
         disp == pos_of_intersection(i, c) - pos
         wd   == wd_of_intersection(i, c)
         w    == create_window(c, disp, vel, acc, wd)
         new  == <<Plus(w[1], time), Plus(w[2], time)>>
     IN  /\ windows' = [windows EXCEPT ![i] = Register(@, new)]
         /\ acc_to_return' = IF acc_to_return = None THEN acc ELSE acc_to_return
         /\ time' = Plus(time, w[2])
         /\ vel' = Plus(vel, calculate_vel(AsVelocity(pos), acc, w[2]))
         /\ pos' = pos + disp + length(c) + wd
         /\ crossing' = [car |-> c, at |-> i, met |-> windows[i], start |-> time,
                         disp |-> disp, vel |-> vel, acc |-> acc, window |-> new]
         /\ stalls' = stalls \cup (IF Stalls(crossing') THEN {i} ELSE {})
         /\ ahead' = ahead \ {i}
  /\ UNCHANGED <<motors, pc, order, acc_s, settled, previous>>

\* The loop ends and the result is pushed; a car with nothing ahead turns.
PushAcceleration ==
  /\ pc = "plan"
  /\ ahead = {}
  /\ pc' = "next"
  /\ LET c    == Head(order)
         span == IF horiz(c) THEN Width ELSE Height
     IN  acc_s' = [acc_s EXCEPT ![c] =
                     IF acc_to_return = None THEN final_acc(c, span)
                                             ELSE acc_to_return]
  /\ order' = Tail(order)
  /\ UNCHANGED <<motors, windows, ahead, locals, history, settled, previous>>

Return ==
  /\ pc = "next"
  /\ order = <<>>
  /\ pc' = "idle"
  /\ UNCHANGED <<motors, windows, order, ahead, locals, acc_s, history,
                 settled, previous>>

\* A motor moves its car on, or back, as a simulated one does when a second
\* ends.
Drive(c) ==
  /\ \E move \in Moves[c] :
       /\ motors[c] = move[1]
       /\ motors' = [motors EXCEPT ![c] = move[2]]
  /\ settled' = FALSE
  /\ UNCHANGED <<windows, pc, order, ahead, locals, acc_s, history, previous>>

Next ==
  \/ \E cars \in SetToSeqs(Autos) : find_accelerations(cars)
  \/ SetHumanWindow
  \/ HumanDone
  \/ set_min_windows
  \/ LookAhead
  \/ PlanCrossing
  \/ PushAcceleration
  \/ Return
  \/ \E c \in Cars : Drive(c)

Spec == Init /\ [][Next]_vars
-----------------------------------------------------------------------------
Window == Double \X Double

TypeOK ==
  /\ motors \in [Cars -> Reading]
  /\ windows \in [Intersections -> Window \cup {None}]
  /\ pc \in {"idle", "human", "next", "look", "plan"}
  /\ order \in Seq(Autos)
  /\ ahead \subseteq Intersections
  /\ time \in Double /\ pos \in Int /\ vel \in Int \cup {NaN}
  /\ acc_to_return \in {None, NaN} \cup MIN_ACC .. MAX_ACC
  /\ {acc_s, previous} \subseteq [Autos -> Double \cup {MinusInfinity, None}]
  /\ stalls \subseteq Intersections /\ settled \in BOOLEAN

\* A crossing planned from numbers that make sense: the velocity is one a car
\* can have, the intersection is still ahead and the car gets there.
Sensible(x) ==
  /\ NaN \notin {x.start, x.vel, x.acc}
  /\ x.start # Infinity
  /\ x.vel \in 0 .. MAX_VEL
  /\ x.disp > 0
  /\ ~ Stalls(x)

\* The way to the end of the intersection.
Out(x) == x.disp + length(x.car) + wd_of_intersection(x.at, x.car)

\* With acc the car is still moving forward when it has gone so far.
Reaches(x, way) == SquaredFinal(way, x.vel, x.acc) >= 0

(***************************************************************************)
(* A car that drives as calculate_acc says is at the intersection when its *)
(* window begins and has left it when the window ends: calculate_pos       *)
(* undoes calculate_time, below and at the speed limit, but for a way on   *)
(* which the car would stop.                                               *)
(***************************************************************************)
ArrivesWhenPlanned ==
  crossing # None =>
    LET x == crossing IN
      Sensible(x) =>
          \A leg \in {<<x.disp, 1>>, <<Out(x), 2>>} :
            Reaches(x, leg[1]) =>
              calculate_pos(x.vel, x.acc, x.window[leg[2]] - x.start) - leg[1]
                \in -Tolerance .. Tolerance

\* The two tracks of the intersection are as wide as collision takes them to
\* be, the other car's window is known, and calculate_acc could ask for the
\* acceleration it wanted: the car need not brake harder than it can, nor is
\* so fast that it would have to turn back to be there in time.
CanWait(x) ==
  LET cleared == Until(x.met[2], x.start) IN
    /\ NaN \notin {x.met[1], x.met[2]}
    /\ wd_of_intersection(x.at, x.car) <= x.at.across_wd
    /\ cleared = Infinity \/ Less(Times(x.vel, cleared), 2 * x.disp)
    /\ x.acc > MIN_ACC

(***************************************************************************)
(* The purpose of a plan, for a car that can wait: it has left the         *)
(* intersection before the window it found there, or arrives after it.     *)
(***************************************************************************)
KeepsClear ==
  crossing # None /\ crossing.met # None =>
    LET x == crossing IN
      Sensible(x) /\ CanWait(x) =>
        \/ Reaches(x, Out(x)) /\ Less(x.window[2], Plus(x.met[1], Tolerance))
        \/ Less(x.met[2], Plus(x.window[1], Tolerance))

(***************************************************************************)
(* Not-a-number spreads only downstream: a window that is none lies behind *)
(* one, on a track of an automatic car, that is none or never ends, or at  *)
(* which a plan stalled.  So where a plan loses its numbers can be traced, *)
(* over the tracks, to the human's or to a car that stalled.               *)
(***************************************************************************)
Precedes(j, i, c) ==
  /\ On(j, c) /\ On(i, c) /\ j # i
  /\ pos_of_intersection(j, c) <= pos_of_intersection(i, c)

HasNaN(i) == windows[i] # None /\ NaN \in {windows[i][1], windows[i][2]}

Source(j) ==
  /\ windows[j] # None
  /\ HasNaN(j) \/ windows[j][2] = Infinity \/ j \in stalls

NaNHasASource ==
  \A i \in Intersections :
    HasNaN(i) => \E j \in Intersections, c \in Autos :
                   Source(j) /\ Precedes(j, i, c)

(***************************************************************************)
(* Windows are never cleared: once all are set and while nobody moves, a   *)
(* round gives every car the acceleration it had in the round before, in   *)
(* whatever orders the two rounds list the cars.                           *)
(***************************************************************************)
SettledPlansRepeat ==
  pc = "idle" /\ settled /\ previous # NoResult => acc_s = previous
=============================================================================
