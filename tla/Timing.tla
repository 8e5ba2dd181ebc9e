-------------------------------- MODULE Timing --------------------------------
(***************************************************************************)
(* Calls that are made to take a certain time: enforce_delay, around each  *)
(* round of a loop_thread, and timed_exec (src/system/threading.cpp), with *)
(* the clock they read: sys::now() is gettimeofday's tv_usec, the          *)
(* microseconds within the current second.                                 *)
(*                                                                         *)
(* clock is the true time; the body of the call, the sleep and the code    *)
(* between them take any time.  A usleep that fails, or is interrupted,    *)
(* returns at once: the error is logged and the call goes on.              *)
(***************************************************************************)
EXTENDS Integers

CONSTANTS
  Second,     (* how many ticks of the clock a second has                  *)
  Callers,    (* "enforce_delay" and "timed_exec"                          *)
  Periods,    (* the times a call may be asked to take                     *)
  MaxClock    (* bound: the true time a behaviour lasts                    *)

ASSUME TimingAssumption ==
  /\ Second \in Nat \ {0}
  /\ Callers \subseteq {"enforce_delay", "timed_exec"}
  /\ Periods \subseteq Nat
  /\ MaxClock \in Nat

VARIABLES
  clock,      (* the true time                                             *)
  caller,     (* the function under way                                    *)
  period,     (* the time it is to take                                    *)
  pc,         (* where it is                                               *)
  time,       (* its local: started, of enforce_delay; time, of timed_exec *)
  wake,       (* the true time at which its sleep ends                     *)
  result,     (* what timed_exec returns                                   *)
  failed,     (* whether its usleep has failed                             *)
  at          (* history: the true times of its readings and of its end    *)

timing_vars == <<clock, caller, period, pc, time, wake, result, failed, at>>

Moments == {"started", "measured", "returned"}

TimingTypeOK ==
  /\ clock \in Nat
  /\ caller \in Callers
  /\ period \in Periods
  /\ pc \in {"call", "body", "sleep", "return", "done"}
  /\ time \in Int
  /\ caller = "enforce_delay" \/ pc \in {"call", "body"} =>
       time \in 0 .. Second - 1
  /\ wake \in Nat
  /\ result \in Int
  /\ failed \in BOOLEAN
  /\ at \in [Moments -> Nat]

FaultNow == (clock % Second) + (clock \div Second)  \* seconds as microseconds
now == clock % Second
Fault_useconds_since(started) == started - now  \* swapped
useconds_since(started) == now - started

TimingInit ==
  /\ clock \in 0 .. Second - 1
  /\ caller \in Callers
  /\ period \in Periods
  /\ pc = "call"
  /\ time = 0
  /\ wake = 0
  /\ result = 0
  /\ failed = FALSE
  /\ at = [m \in Moments |-> 0]

Mark(moment) == at' = [at EXCEPT ![moment] = clock]

\* Read the clock, then call work() or func().
Call ==
  /\ pc = "call"
  /\ pc' = "body"
  /\ time' = now
  /\ Mark("started")
  /\ UNCHANGED <<clock, caller, period, wake, result, failed>>

\* The body has returned: read the clock again and sleep for what is left of
\* the period, or warn and do not sleep.
SleepFor(left) ==
  IF left >= 0 THEN pc' = "sleep" /\ wake' = clock + left
               ELSE pc' = "return" /\ UNCHANGED wake

\* A loop_thread whose delay is 0 has a delay function that does nothing.
Undelayed == caller = "enforce_delay" /\ period = 0

LoopOn ==
  /\ pc = "body"
  /\ Undelayed
  /\ pc' = "return"
  /\ UNCHANGED <<clock, caller, period, time, wake, result, failed, at>>

\* timed_exec keeps the elapsed time in time, where the start was.
Measure ==
  /\ pc = "body"
  /\ ~ Undelayed
  /\ LET elapsed == useconds_since(time) IN
       /\ SleepFor(period - elapsed)
       /\ time' = IF caller = "timed_exec" THEN elapsed ELSE time
  /\ Mark("measured")
  /\ UNCHANGED <<clock, caller, period, result, failed>>

Awake ==
  /\ pc = "sleep"
  /\ clock >= wake
  /\ pc' = "return"
  /\ UNCHANGED <<clock, caller, period, time, wake, result, failed, at>>

SleepFails ==
  /\ pc = "sleep"
  /\ clock < wake
  /\ pc' = "return"
  /\ failed' = TRUE
  /\ UNCHANGED <<clock, caller, period, time, wake, result, at>>

\* time is the elapsed time by now: timed_exec returns the clock minus that.
Return ==
  /\ pc = "return"
  /\ pc' = "done"
  /\ result' = IF caller = "timed_exec" THEN useconds_since(time) ELSE result
  /\ Mark("returned")
  /\ UNCHANGED <<clock, caller, period, time, wake, failed>>

\* Time passes.
Tick ==
  /\ clock < MaxClock
  /\ clock' = clock + 1
  /\ UNCHANGED <<caller, period, pc, time, wake, result, failed, at>>

TimingNext == Call \/ LoopOn \/ Measure \/ Awake \/ SleepFails \/ Return \/ Tick

TimingSpec == TimingInit /\ [][TimingNext]_timing_vars
-----------------------------------------------------------------------------
TrueTime(from, to) == at[to] - at[from]
SecondOf(moment)   == at[moment] \div Second

(***************************************************************************)
(* A call whose usleep does not fail never takes less than its period,     *)
(* wherever in a second it starts and however many seconds its body lasts: *)
(* a reading that wrapped only makes the elapsed time look shorter.        *)
(***************************************************************************)
NeverTooShort ==
  pc = "done" /\ ~ failed => TrueTime("started", "returned") >= period

(***************************************************************************)
(* A call whose body does not run over the end of a second, whenever in it *)
(* it starts and ends, sleeps for exactly what is left of its period, over *)
(* as many seconds as that lasts.                                          *)
(***************************************************************************)
SleepsForWhatIsLeft ==
  pc = "sleep" /\ SecondOf("started") = SecondOf("measured")
    => wake = at["started"] + period

(***************************************************************************)
(* "The interval at which main should be repeated" (threading.h:27):       *)
(* every body that is done within the period is followed by a sleep to the *)
(* end of it.                                                              *)
(***************************************************************************)
RepeatsAtTheInterval ==
  pc = "sleep" /\ TrueTime("started", "measured") <= period
    => wake = at["started"] + period

(***************************************************************************)
(* "The duration in microseconds that the function actually took"          *)
(* (threading.h:42): that of func, or that of the whole call, at least     *)
(* where no second ends meanwhile and the usleep does not fail.            *)
(***************************************************************************)
ReturnsTheDuration ==
  /\ pc = "done" /\ caller = "timed_exec" /\ ~ failed
  /\ SecondOf("started") = SecondOf("returned")
  => result \in {TrueTime("started", to) : to \in {"measured", "returned"}}
=============================================================================
