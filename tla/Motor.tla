-------------------------------- MODULE Motor --------------------------------
(***************************************************************************)
(* A motor of src/hardware/motor.cpp (motor_impl): clients that set and    *)
(* change its acceleration and a thread that sits in idle() until the      *)
(* motor may move and then pulses the pin in pwm().                        *)
(*                                                                         *)
(* data_lock is never held while its holder waits for anything, so every   *)
(* critical section is one action.  pwm() reads next and curr for its loop *)
(* condition without the lock: those are two actions.  The length of a     *)
(* pulse, 4688 / (a * 1e-6 * curr + v_0), is any member of Intervals: too  *)
(* long, short, or negative once the motor is slowed down past zero.       *)
(***************************************************************************)
EXTENDS Integers

CONSTANTS
  Clients,          (* callers of the motor                                *)
  Accelerations,    (* accelerations they use, and changes of it           *)
  STOP_THRESHOLD,   (* an interval above this means stopped                *)
  Intervals,        (* values of the interval after a pulse                *)
  MaxClock,         (* bound: curr saturates here, beyond the threshold    *)
  Turns             (* bound: positions are counted modulo this            *)

ASSUME MotorAssumption ==
  /\ STOP_THRESHOLD \in Nat \ {0}
  /\ Intervals \subseteq Int
  /\ Accelerations \subseteq Int /\ 0 \in Accelerations
  /\ MaxClock \in Nat /\ MaxClock > STOP_THRESHOLD
  /\ Turns \in Nat /\ Turns > 2

VARIABLES
  curr, next,       (* the time of this pulse and of the next              *)
  accel,            (* the acceleration                                    *)
  pos,              (* the position, in pulses                             *)
  halt,             (* set by the destructor                               *)
  pin,              (* the level of the motor's pin                        *)
  seen,             (* what the loop condition of pwm() has read so far    *)
  pc,               (* where the motor thread is                           *)
  changing,         (* clients between the two halves of a change          *)
  delta, target,    (* theirs: the change asked for, the result computed   *)
  requested,        (* history: the acceleration the calls add up to       *)
  overlapped,       (* history: a call came within another one's change    *)
  pulses,           (* history: pulses since the last calibration          *)
  object            (* progress of the destructor                          *)

kinematics == <<curr, next, accel, pos>>
clientVars == <<changing, delta, target, requested, overlapped>>
vars == <<kinematics, halt, pin, seen, pc, clientVars, pulses, object>>

Idle == "idle"

lockless_delay == next - curr
stopped == lockless_delay > STOP_THRESHOLD

Unread == [operand \in {"next", "curr"} |-> 0]

Saturate(t) == IF t > MaxClock THEN MaxClock
               ELSE IF t < -MaxClock THEN -MaxClock ELSE t

TypeOK ==
  /\ curr \in Int
  /\ next \in Int
  /\ accel \in Int
  /\ pos \in 0 .. Turns - 1
  /\ halt \in BOOLEAN
  /\ pin \in {"LOW", "HIGH"}
  /\ seen \in [{"next", "curr"} -> Int]
  /\ pc \in {Idle, "wait", "woken", "check", "check_curr", "check_next",
             "delay", "high", "low", "update", "exited"}
  /\ changing \subseteq Clients
  /\ delta \in [Clients -> Int]
  /\ target \in [Clients -> Int]
  /\ requested \in Int
  /\ overlapped \in BOOLEAN
  /\ pulses \in 0 .. Turns - 1
  /\ object \in {"alive", "joining", "destroyed"}

-----------------------------------------------------------------------------
(* The constructor: stopped, with the thread about to enter idle().        *)
Init ==
  /\ curr = 0
  /\ next = STOP_THRESHOLD + 1
  /\ accel = 0
  /\ pos = 0
  /\ halt = FALSE
  /\ pin = "LOW"
  /\ seen = Unread
  /\ pc = Idle
  /\ changing = {}
  /\ delta = [c \in Clients |-> 0]
  /\ target = [c \in Clients |-> 0]
  /\ requested = 0
  /\ overlapped = FALSE
  /\ pulses = 0
  /\ object = "alive"

-----------------------------------------------------------------------------
(* The clients.                                                            *)

FaultNotifyAll == UNCHANGED pc  \* nobody is woken
NotifyAll == pc' = IF pc = "wait" THEN "woken" ELSE pc

\* The critical section of set_acceleration.  A stopped motor gets the
\* longest interval that moves; in any case curr becomes 0 and next what
\* lockless_delay() is from then on.  notify_all wakes the thread.
Accelerate(a) ==
  /\ curr' = 0
  /\ next' = IF stopped THEN STOP_THRESHOLD ELSE next
  /\ accel' = a
  /\ NotifyAll
  /\ UNCHANGED <<pos, halt, pin, seen, pulses, object>>

\* What the calls so far add up to, which nobody can tell if some overlapped.
Account(overlap, sum) ==
  /\ overlapped' = overlap
  /\ requested' = IF overlap THEN 0 ELSE sum

Calls(c) == object = "alive" /\ c \notin changing

\* Fault: the acceleration is added to.
Fault_set_acceleration(c, a) ==
  /\ Calls(c)
  /\ Accelerate(accel + a)
  /\ Account(changing # {}, a)
  /\ UNCHANGED <<changing, delta, target>>

set_acceleration(c, a) ==
  /\ Calls(c)
  /\ Accelerate(a)
  /\ Account(changing # {}, a)
  /\ UNCHANGED <<changing, delta, target>>

\* change_acceleration: acceleration() first, in a critical section ...
ReadAcceleration(c, d) ==
  /\ Calls(c)
  /\ accel + d \in Accelerations
  /\ changing' = changing \cup {c}
  /\ delta' = [delta EXCEPT ![c] = d]
  /\ target' = [target EXCEPT ![c] = accel + d]
  /\ UNCHANGED <<kinematics, halt, pin, seen, pc, requested,
                 overlapped, pulses, object>>

\* ... and set_acceleration in another.
ChangeAcceleration(c) ==
  /\ c \in changing
  /\ Accelerate(target[c])
  /\ changing' = changing \ {c}
  /\ Account(overlapped \/ changing' # {}, requested + delta[c])
  /\ delta' = [delta EXCEPT ![c] = 0]
  /\ target' = [target EXCEPT ![c] = 0]

\* Fault: the new position is taken relative to the old one.
FaultCalibrate(c) ==
  /\ Calls(c)
  /\ pos' = 0 - pos
  /\ pulses' = 0
  /\ UNCHANGED <<curr, next, accel, halt, pin, seen, pc, clientVars,
                 object>>

\* calibrate sets the position; the new one is called 0.
Calibrate(c) ==
  /\ Calls(c)
  /\ pos' = 0
  /\ pulses' = 0
  /\ UNCHANGED <<curr, next, accel, halt, pin, seen, pc, clientVars,
                 object>>

-----------------------------------------------------------------------------
(* The motor thread in idle().                                             *)

Goto(label) == pc' = label

\* start.wait: go on if the predicate holds, release the lock and sleep if
\* not.
FaultWaitForStart == Goto(IF stopped THEN "check" ELSE "wait")  \* inverted
WaitForStart == Goto(IF stopped THEN "wait" ELSE "check")

\* Fault: halt is not looked at.
FaultEnterIdle ==
  /\ pc = Idle
  /\ WaitForStart
  /\ UNCHANGED <<kinematics, halt, pin, seen, clientVars, pulses,
                 object>>

EnterIdle ==
  /\ pc = Idle
  /\ IF halt THEN Goto("exited") ELSE WaitForStart
  /\ UNCHANGED <<kinematics, halt, pin, seen, clientVars, pulses,
                 object>>

Wake ==
  /\ pc = "woken"
  /\ WaitForStart
  /\ UNCHANGED <<kinematics, halt, pin, seen, clientVars, pulses,
                 object>>

SpuriousWakeup ==
  /\ pc = "wait"
  /\ Goto("woken")
  /\ UNCHANGED <<kinematics, halt, pin, seen, clientVars, pulses,
                 object>>

-----------------------------------------------------------------------------
(* The motor thread in pwm().                                              *)

\* The loop condition reads its two operands in either order, unlocked.
Operand(name) == IF name = "next" THEN next ELSE curr

CheckFirst(name) ==
  /\ pc = "check"
  /\ seen' = [seen EXCEPT ![name] = Operand(name)]
  /\ Goto(IF name = "next" THEN "check_curr" ELSE "check_next")
  /\ UNCHANGED <<kinematics, halt, pin, clientVars, pulses, object>>

\* Fault: a motor that has stopped goes on pulsing.
FaultCheckSecond(name) ==
  /\ pc = IF name = "next" THEN "check_next" ELSE "check_curr"
  /\ seen' = Unread
  /\ Goto("delay")
  /\ UNCHANGED <<kinematics, halt, pin, clientVars, pulses, object>>

CheckSecond(name) ==
  /\ pc = IF name = "next" THEN "check_next" ELSE "check_curr"
  /\ LET read == [seen EXCEPT ![name] = Operand(name)] IN
       Goto(IF read["next"] - read["curr"] > STOP_THRESHOLD
            THEN Idle ELSE "delay")
  /\ seen' = Unread
  /\ UNCHANGED <<kinematics, halt, pin, clientVars, pulses, object>>

\* delay = lockless_delay() is how long the two sleeps last, time passing.
UpdateDelay ==
  /\ pc = "delay"
  /\ Goto("high")
  /\ UNCHANGED <<kinematics, halt, pin, seen, clientVars, pulses, object>>

WriteHigh ==
  /\ pc = "high"
  /\ pin' = "HIGH"
  /\ Goto("low")
  /\ UNCHANGED <<kinematics, halt, seen, clientVars, pulses, object>>

\* Fault: the thread looks at halt, and exits, before it counts the pulse.
FaultWriteLow ==
  /\ pc = "low"
  /\ pin' = "LOW"
  /\ pulses' = (pulses + 1) % Turns
  /\ Goto(IF halt THEN "exited" ELSE "update")
  /\ UNCHANGED <<kinematics, halt, seen, clientVars, object>>

WriteLow ==
  /\ pc = "low"
  /\ pin' = "LOW"
  /\ pulses' = (pulses + 1) % Turns
  /\ Goto("update")
  /\ UNCHANGED <<kinematics, halt, seen, clientVars, object>>

\* After the second sleep: the kinematics, then the test of halt.
UpdateKinematics(interval) ==
  /\ pc = "update"
  /\ curr' = Saturate(next)
  /\ next' = curr' + interval
  /\ pos' = (pos + 1) % Turns
  /\ Goto(IF halt THEN "exited" ELSE "check")
  /\ UNCHANGED <<accel, halt, pin, seen, clientVars, pulses, object>>

-----------------------------------------------------------------------------
(* ~motor_impl: no client is left; set halt, without notify, and join.     *)
Destroy ==
  /\ object = "alive"
  /\ changing = {}
  /\ halt' = TRUE
  /\ object' = "joining"
  /\ UNCHANGED <<kinematics, pin, seen, pc, clientVars, pulses>>

Joined ==
  /\ object = "joining"
  /\ pc = "exited"
  /\ object' = "destroyed"
  /\ UNCHANGED <<kinematics, halt, pin, seen, pc, clientVars, pulses>>

Terminated == object = "destroyed" /\ UNCHANGED vars

-----------------------------------------------------------------------------
Check == \E name \in {"next", "curr"} : CheckFirst(name) \/ CheckSecond(name)

MotorThread ==
  \/ EnterIdle \/ Wake
  \/ Check
  \/ UpdateDelay \/ WriteHigh \/ WriteLow
  \/ \E interval \in Intervals : UpdateKinematics(interval)

Client(c) ==
  \/ \E a \in Accelerations : set_acceleration(c, a)
  \/ \E d \in Accelerations : ReadAcceleration(c, d)
  \/ ChangeAcceleration(c)
  \/ Calibrate(c)

Next ==
  \/ \E c \in Clients : Client(c)
  \/ MotorThread
  \/ SpuriousWakeup
  \/ Destroy
  \/ Joined
  \/ Terminated

\* The motor thread is scheduled and its sleeps end, a join returns once the
\* thread has exited; clients and spurious wake-ups owe nothing.
Fairness == WF_vars(MotorThread) /\ WF_vars(Joined)

Spec     == Init /\ [][Next]_vars
FairSpec == Spec /\ Fairness
-----------------------------------------------------------------------------
(***************************************************************************)
(* The thread sleeps in idle() only while the motor is stopped: whatever   *)
(* starts it notifies the thread, so no acceleration is slept through.     *)
(***************************************************************************)
SleepsOnlyStopped == pc = "wait" => stopped

(***************************************************************************)
(* Outside a pulse the pin is low: a motor that idles, waits or has exited *)
(* does not leave its pin high, wherever halt or a stop found it.          *)
(***************************************************************************)
PinLowAtRest == pin = "HIGH" => pc = "low"

(***************************************************************************)
(* The position is the number of pulses since the last calibrate, with the *)
(* pulse under way, whose falling edge is out, counted late by at most     *)
(* one; a calibrate within a pulse never loses or invents more than that.  *)
(***************************************************************************)
PositionFollowsPulses ==
  (pos - pulses) % Turns \in (IF pc = "update" THEN {0, Turns - 1} ELSE {0, 1})

(***************************************************************************)
(* Calls of set_ and change_acceleration add up unless one came between    *)
(* the two halves of another client's change_acceleration; and a           *)
(* set_acceleration when no change is under way makes good what was lost.  *)
(***************************************************************************)
ChangesAddUp == ~ overlapped => accel = requested

(***************************************************************************)
(* A motor that is stopped, in the middle of a pulse or before it, comes   *)
(* to rest in idle(), unless it is started again: a stop the loop          *)
(* condition just missed costs pulses but is seen in the end.              *)
(***************************************************************************)
StoppedMotorRests == stopped ~> (pc \in {"wait", "exited"} \/ ~ stopped)

(***************************************************************************)
(* A thread woken to a motor that may move does pulse the pin, whatever    *)
(* clients do before it runs, unless the destructor is called.             *)
(***************************************************************************)
WokenMotorPulses == (pc = "woken" /\ ~ stopped) ~> (pin = "HIGH" \/ halt)

(***************************************************************************)
(* A motor destroyed while its thread is neither asleep in idle() nor just *)
(* woken there is joined: the end of the pulse or idle() sees halt.        *)
(***************************************************************************)
RunningMotorIsJoined ==
  (object = "joining" /\ pc \notin {"wait", "woken"}) ~> object = "destroyed"

(***************************************************************************)
(* The destructor's comment: "stop the motors and join the thread".        *)
(***************************************************************************)
DestructorReturns == object = "joining" ~> object = "destroyed"
=============================================================================
