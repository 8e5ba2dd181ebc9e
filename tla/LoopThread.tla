------------------------------ MODULE LoopThread ------------------------------
(***************************************************************************)
(* The life of a loop_thread of src/system/threading.cpp: its owner        *)
(* starts, joins, detaches and disposes it in any order, and each thread   *)
(* it has started tests halt, does the work, delays, and tests again.      *)
(*                                                                         *)
(* inner, a std::thread, is joinable while handle is a thread.  Assigning  *)
(* to a joinable std::thread ends the process (std::terminate), joining or *)
(* detaching one that is not joinable throws, and a throw in the           *)
(* destructor ends the process as well.                                    *)
(***************************************************************************)
EXTENDS Naturals

CONSTANTS
  Threads,   (* identities of the threads that start() may create          *)
  NoThread   (* inner is not joinable                                      *)

ASSUME LoopThreadAssumption == NoThread \notin Threads

VARIABLES
  stage,     (* where each thread is in main()                             *)
  handle,    (* the thread inner holds                                     *)
  detached,  (* threads that were detached                                 *)
  halt,      (* loop_thread::halt                                          *)
  owner,     (* what the owner is doing                                    *)
  object     (* the loop_thread, or how the process ended                  *)

loop_vars == <<stage, handle, detached, halt, owner, object>>

Unused  == {t \in Threads : stage[t] = "unused"}
Running == {t \in Threads : stage[t] \in {"test", "work", "delay"}}

LoopTypeOK ==
  /\ stage \in [Threads -> {"unused", "test", "work", "delay", "exited"}]
  /\ handle \in Threads \cup {NoThread}
  /\ detached \subseteq Threads
  /\ halt \in BOOLEAN
  /\ owner \in {"ready", "joining", "disposing", "done"}
  /\ object \in {"alive", "disposed", "ended_by_start", "ended_by_dispose"}

LoopInit ==
  /\ stage = [t \in Threads |-> "unused"]
  /\ handle = NoThread
  /\ detached = {}
  /\ halt = FALSE
  /\ owner = "ready"
  /\ object = "alive"

-----------------------------------------------------------------------------
(* The owner.                                                              *)

Ready == owner = "ready" /\ object = "alive"

\* The process ends: no thread takes a step any more.
Terminate(how) ==
  /\ object' = how
  /\ owner' = "done"

\* inner = std::thread(main).
start ==
  /\ Ready
  /\ \E t \in Unused :
       /\ stage' = [stage EXCEPT ![t] = "test"]
       /\ IF handle = NoThread
          THEN handle' = t /\ UNCHANGED <<owner, object>>
          ELSE Terminate("ended_by_start") /\ UNCHANGED handle
  /\ UNCHANGED <<detached, halt>>

\* join sets halt and waits; if inner is not joinable, the owner gets an
\* exception and may go on.
\* Fault: halt is not set.
FaultJoin ==
  /\ Ready
  /\ owner' = IF handle = NoThread THEN "ready" ELSE "joining"
  /\ UNCHANGED <<stage, handle, detached, halt, object>>

join ==
  /\ Ready
  /\ halt' = TRUE
  /\ owner' = IF handle = NoThread THEN "ready" ELSE "joining"
  /\ UNCHANGED <<stage, handle, detached, object>>

\* inner.join() returns once the thread has.
FaultJoinable == handle # NoThread  \* does not wait for the thread
Joinable == handle # NoThread /\ stage[handle] = "exited"

JoinReturns ==
  /\ owner = "joining"
  /\ Joinable
  /\ handle' = NoThread
  /\ owner' = "ready"
  /\ UNCHANGED <<stage, detached, halt, object>>

\* detach releases inner; if it holds no thread the owner gets an exception.
detach ==
  /\ Ready
  /\ handle # NoThread
  /\ detached' = detached \cup {handle}
  /\ handle' = NoThread
  /\ UNCHANGED <<stage, halt, owner, object>>

\* ~loop_thread calls join, and may not throw.
dispose ==
  /\ Ready
  /\ halt' = TRUE
  /\ IF handle = NoThread
     THEN Terminate("ended_by_dispose")
     ELSE owner' = "disposing" /\ UNCHANGED object
  /\ UNCHANGED <<stage, handle, detached>>

DisposeReturns ==
  /\ owner = "disposing"
  /\ Joinable
  /\ handle' = NoThread
  /\ owner' = "done"
  /\ object' = "disposed"
  /\ UNCHANGED <<stage, detached, halt>>

Finished == owner = "done" /\ UNCHANGED loop_vars

-----------------------------------------------------------------------------
(* The threads: main().                                                    *)

Lives(t) == object \in {"alive", "disposed"} /\ t \in Threads

Step(t, from, to) ==
  /\ Lives(t)
  /\ stage[t] = from
  /\ stage' = [stage EXCEPT ![t] = to]
  /\ UNCHANGED <<handle, detached, halt, owner, object>>

\* halt is a member of the object: once that is gone, a thread that runs on
\* reads whatever is in its place.
FaultTestHalt(t) == Step(t, "test", "work")  \* halt is not looked at
TestHalt(t) ==
  \/ Step(t, "test", IF halt THEN "exited" ELSE "work")
  \/ object = "disposed" /\ Step(t, "test", "work")
Work(t)     == Step(t, "work", "delay")
\* ~enforce_delay, at the end of the loop's body.
Delay(t)    == Step(t, "delay", "test")

main(t) == TestHalt(t) \/ Work(t) \/ Delay(t)

-----------------------------------------------------------------------------
Returns == JoinReturns \/ DisposeReturns

LoopNext ==
  \/ start \/ join \/ detach \/ dispose
  \/ Returns
  \/ \E t \in Threads : main(t)
  \/ Finished

\* Threads are scheduled, their work and delays end, and std::thread::join
\* returns after its thread has; the owner need not call anything.
Fairness == WF_loop_vars(Returns) /\ \A t \in Threads : WF_loop_vars(main(t))

LoopSpec     == LoopInit /\ [][LoopNext]_loop_vars
FairLoopSpec == LoopSpec /\ Fairness
-----------------------------------------------------------------------------
(***************************************************************************)
(* Between the owner's calls every running thread is accounted for: it is  *)
(* the one inner holds or it was detached.  A join never lets go of a      *)
(* thread that still runs, and start never forgets one.                    *)
(***************************************************************************)
RunningIsHeldOrDetached ==
  object \in {"alive", "disposed"} => Running \subseteq {handle} \cup detached

(***************************************************************************)
(* main() uses the loop_thread's members.  Once that object is gone, no    *)
(* thread runs that was not explicitly detached: the destructor outwaits   *)
(* the round of work and the delay it finds under way.                     *)
(***************************************************************************)
DisposedIsQuiet ==
  object = "disposed" => Running \subseteq detached

(***************************************************************************)
(* A call that waits for the thread ends: the loop sees halt after the     *)
(* round it is in.                                                         *)
(***************************************************************************)
JoinEnds == owner \in {"joining", "disposing"} ~> owner \in {"ready", "done"}

(***************************************************************************)
(* A join interrupts not only the thread it waits for: as long as the      *)
(* object is there, every thread of it, detached ones included, exits.     *)
(***************************************************************************)
HaltStopsAllThreads == halt ~> (Running = {} \/ object # "alive")
=============================================================================
