------------------------------- MODULE MCSupport -------------------------------
(***************************************************************************)
(* Instances for TLC of what the rest of the program stands on and that    *)
(* shares no state: the life of a loop_thread, timed calls, and the        *)
(* registry of singletons.  A behaviour is one of one part; the others     *)
(* stay as they were.                                                      *)
(***************************************************************************)
EXTENDS LoopThread, Timing, Objects

BothCallers == {"enforce_delay", "timed_exec"}

VARIABLE part

support_vars == <<part, loop_vars, timing_vars, vars>>

SupportInit ==
  /\ part \in {"loop_thread", "timing", "objects"}
  /\ LoopInit /\ TimingInit /\ Init
  /\ part # "timing" => clock = 0 /\ period = 0 /\ caller = "timed_exec"

\* The bound on the time of a timed call: nothing is left to do.
TimingStopped ==
  /\ clock = MaxClock
  /\ pc = "done"
  /\ UNCHANGED timing_vars

SupportNext ==
  /\ UNCHANGED part
  /\ \/ part = "loop_thread" /\ LoopNext /\ UNCHANGED <<timing_vars, vars>>
     \/ /\ part = "timing"
        /\ TimingNext \/ TimingStopped
        /\ UNCHANGED <<loop_vars, vars>>
     \/ part = "objects" /\ Next /\ UNCHANGED <<loop_vars, timing_vars>>

\* Only the threads are known to be scheduled, as Fairness of LoopThread says.
SupportSpec == SupportInit /\ [][SupportNext]_support_vars /\ Fairness
=============================================================================
