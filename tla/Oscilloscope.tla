---------------------------- MODULE Oscilloscope ----------------------------
(***************************************************************************)
(* The oscilloscope emulator of src/hardware/raspi.cpp: a sampler thread   *)
(* that fills the windows clients asked for, a flusher thread that hands   *)
(* them back through callbacks, and the client that requests windows,      *)
(* drives the input pin and finally destroys the object.                   *)
(*                                                                         *)
(* requests_lock and filled_lock are variables where a thread keeps them   *)
(* over more than one step.  A critical section that neither blocks nor    *)
(* touches what another lock protects is one action, guarded by its lock   *)
(* being free.                                                             *)
(***************************************************************************)
EXTENDS Integers, Sequences, SequencesExt

CONSTANTS
  Requests,      (* identities of the fill_window calls                    *)
  Sizes,         (* window sizes, in microseconds, a client may ask for    *)
  sr,            (* the sampling rate in hertz                             *)
  Junk,          (* what an uninitialised level may hold besides LOW, HIGH *)
  MaxData        (* bound: samples kept of a window that never completes   *)

LOW  == "LOW"
HIGH == "HIGH"
Levels == {LOW, HIGH}

\* size_t num_samples = (size * sr) * 1e-6, truncated to an integer.
MicrosPerSecond == 1000000
FaultNumSamples(size) == (size * sr) \div MicrosPerSecond - 2  \* underflow
NumSamples(size) == (size * sr) \div MicrosPerSecond

ASSUME OscilloscopeAssumption ==
  /\ Sizes \subseteq Nat
  /\ sr \in 1 .. MicrosPerSecond
  /\ MaxData \in Nat
  /\ \A size \in Sizes : NumSamples(size) < MaxData
  /\ Junk \notin Levels

VARIABLES
  value,                 (* the level last written to the pin              *)
  last_sample,           (* the sampler's previous sample                  *)
  sample,                (* local of sample(): the sample being handed out *)
  cursor,                (* local of sample(): the iterator i              *)
  asked,                 (* requests whose fill_window has been called     *)
  num_samples, data,     (* window_req, by request                         *)
  high_triggers, low_triggers, requested_windows, filled_windows,
  newly_filled_windows,  (* local of sample()                              *)
  to_flush,              (* local of flush()                               *)
  delivered,             (* history: requests in callback order            *)
  requests_lock, filled_lock,
  pc,                    (* where each of the two threads is               *)
  halt,                  (* loop_thread::halt, by thread                   *)
  object                 (* progress of the destructor                     *)

windowVars == <<asked, num_samples, data, high_triggers, low_triggers>>
sampleVars == <<last_sample, sample, cursor>>
vars == <<value, sampleVars, windowVars, requested_windows, filled_windows,
          newly_filled_windows, to_flush, delivered, requests_lock,
          filled_lock, pc, halt, object>>

Threads == {"sampler", "flusher"}
Free    == "free"

Goto(thread, label) == pc' = [pc EXCEPT ![thread] = label]

\* A step that only moves its thread on.
Step(thread, from, to) ==
  /\ pc[thread] = from
  /\ Goto(thread, to)
  /\ UNCHANGED <<value, sampleVars, windowVars, requested_windows,
                 filled_windows, newly_filled_windows, to_flush, delivered,
                 requests_lock, filled_lock, halt, object>>

TypeOK ==
  /\ value \in Levels \cup {Junk}
  /\ last_sample \in Levels \cup {Junk}
  /\ sample \in Levels \cup {Junk}
  /\ cursor \in Nat \ {0}
  /\ asked \subseteq Requests
  /\ num_samples \in [Requests -> Nat]
  /\ data \in [Requests -> Seq(Levels \cup {Junk})]
  /\ high_triggers \in Seq(Requests)
  /\ low_triggers \in Seq(Requests)
  /\ requested_windows \in Seq(Requests)
  /\ newly_filled_windows \in Seq(Requests)
  /\ filled_windows \in Seq(Requests)
  /\ to_flush \in Seq(Requests)
  /\ delivered \in Seq(Requests)
  /\ requests_lock \in {Free, "sampler"}
  /\ filled_lock \in {Free, "flusher"}
  /\ pc \in [Threads -> {"loop", "sample", "fill", "queue", "notify",
                         "flush", "wait", "callback", "exited"}]
  /\ halt \in [Threads -> BOOLEAN]
  /\ object \in {"alive", "joining_flusher", "joining_sampler", "destroyed"}

-----------------------------------------------------------------------------
(* The constructor initialises neither value nor last_sample: both start   *)
(* as whatever the memory held.                                            *)
Init ==
  /\ value \in Levels \cup {Junk}
  /\ last_sample \in Levels \cup {Junk}
  /\ sample = LOW
  /\ cursor = 1
  /\ asked = {}
  /\ num_samples = [r \in Requests |-> 0]
  /\ data = [r \in Requests |-> <<>>]
  /\ high_triggers = <<>>
  /\ low_triggers = <<>>
  /\ requested_windows = <<>>
  /\ newly_filled_windows = <<>>
  /\ filled_windows = <<>>
  /\ to_flush = <<>>
  /\ delivered = <<>>
  /\ requests_lock = Free
  /\ filled_lock = Free
  /\ pc = [thread \in Threads |-> "loop"]
  /\ halt = [thread \in Threads |-> FALSE]
  /\ object = "alive"

-----------------------------------------------------------------------------
(* The client and the emulated pin.                                        *)

\* oscilloscope::write, called by the pi emulator, takes no lock.
Write(level) ==
  /\ object = "alive"
  /\ value' = level
  /\ UNCHANGED <<sampleVars, windowVars, requested_windows, filled_windows,
                 newly_filled_windows, to_flush, delivered, requests_lock,
                 filled_lock, pc, halt, object>>

NewRequest(r, size) ==
  /\ object = "alive"
  /\ requests_lock = Free
  /\ r \notin asked
  /\ asked' = asked \cup {r}
  /\ num_samples' = [num_samples EXCEPT ![r] = NumSamples(size)]
  /\ data' = [data EXCEPT ![r] = <<>>]
  /\ UNCHANGED <<value, sampleVars, newly_filled_windows, filled_windows,
                 to_flush, delivered, requests_lock, filled_lock, pc, halt,
                 object>>

FillWindow(r, size) ==
  /\ NewRequest(r, size)
  /\ requested_windows' = Append(requested_windows, r)
  /\ UNCHANGED <<high_triggers, low_triggers>>

\* Fault: each trigger is kept in the other one's list.
FaultFillWindowOnTrigger(r, size, trigger) ==
  /\ NewRequest(r, size)
  /\ IF trigger = LOW
     THEN /\ high_triggers' = Append(high_triggers, r)
          /\ UNCHANGED low_triggers
     ELSE /\ low_triggers' = Append(low_triggers, r)
          /\ UNCHANGED high_triggers
  /\ UNCHANGED requested_windows

FillWindowOnTrigger(r, size, trigger) ==
  /\ NewRequest(r, size)
  /\ IF trigger = HIGH
     THEN /\ high_triggers' = Append(high_triggers, r)
          /\ UNCHANGED low_triggers
     ELSE /\ low_triggers' = Append(low_triggers, r)
          /\ UNCHANGED high_triggers
  /\ UNCHANGED requested_windows

-----------------------------------------------------------------------------
(* loop_thread::main of both threads: test halt, then run the body again.  *)
(* The delay between two samples is time passing and changes no state.     *)
Loop(thread, body) ==
  Step(thread, "loop", IF halt[thread] THEN "exited" ELSE body)

SamplerLoop == Loop("sampler", "sample")
FlusherLoop == Loop("flusher", "flush")

-----------------------------------------------------------------------------
(* The sampler: one call of sample().                                      *)

\* Lock requests_lock, take a sample and move the windows it triggers.
TakeSample ==
  /\ pc["sampler"] = "sample"
  /\ requests_lock = Free
  /\ requests_lock' = "sampler"
  /\ sample' = value
  /\ last_sample' = value
  /\ cursor' = 1
  /\ \/ /\ value = HIGH /\ last_sample = LOW
        /\ requested_windows' = requested_windows \o high_triggers
        /\ high_triggers' = <<>>
        /\ UNCHANGED low_triggers
     \/ /\ value = LOW /\ last_sample = HIGH
        /\ requested_windows' = requested_windows \o low_triggers
        /\ low_triggers' = <<>>
        /\ UNCHANGED high_triggers
     \/ /\ <<last_sample, value>> \notin {<<LOW, HIGH>>, <<HIGH, LOW>>}
        /\ UNCHANGED <<requested_windows, high_triggers, low_triggers>>
  /\ Goto("sampler", "fill")
  /\ UNCHANGED <<value, asked, num_samples, data, newly_filled_windows,
                 filled_windows, to_flush, delivered, filled_lock, halt,
                 object>>

\* The sample that was just pushed completes the window.
FaultFull(r) == Len(data[r]) = num_samples[r]  \* tests before it pushes
Full(r) == Len(data'[r]) = num_samples[r]

\* Fault: the iterator moves on over the element that follows the erased one.
FaultTakeOut(r) ==
  /\ newly_filled_windows' = Append(newly_filled_windows, r)
  /\ requested_windows' = RemoveAt(requested_windows, cursor)
  /\ cursor' = cursor + 1

\* i = requested_windows.erase(i), or ++i.
TakeOut(r) ==
  /\ newly_filled_windows' = Append(newly_filled_windows, r)
  /\ requested_windows' = RemoveAt(requested_windows, cursor)
  /\ UNCHANGED cursor

StepOver ==
  /\ cursor' = cursor + 1
  /\ UNCHANGED <<newly_filled_windows, requested_windows>>

\* One iteration of the loop over requested_windows.  A window whose size
\* is already past num_samples grows for ever; MaxData caps what is kept.
PushSample ==
  /\ pc["sampler"] = "fill"
  /\ cursor <= Len(requested_windows)
  /\ LET r == requested_windows[cursor] IN
       /\ data' = [data EXCEPT ![r] =
                     IF Len(@) < MaxData THEN Append(@, sample) ELSE @]
       /\ IF Full(r) THEN TakeOut(r) ELSE StepOver
  /\ UNCHANGED <<value, last_sample, sample, asked, num_samples,
                 high_triggers, low_triggers, filled_windows, to_flush,
                 delivered, requests_lock, filled_lock, pc, halt, object>>

\* End of the loop: requests_lock is released with its scope.
EndFill ==
  /\ pc["sampler"] = "fill"
  /\ cursor > Len(requested_windows)
  /\ requests_lock' = Free
  /\ Goto("sampler", "queue")
  /\ UNCHANGED <<value, sampleVars, windowVars, requested_windows,
                 filled_windows, newly_filled_windows, to_flush, delivered,
                 filled_lock, halt, object>>

\* Under filled_lock, hand the newly filled windows to the flusher.
QueueFilled ==
  /\ pc["sampler"] = "queue"
  /\ filled_lock = Free
  /\ filled_windows' = filled_windows \o newly_filled_windows
  /\ newly_filled_windows' = <<>>
  /\ Goto("sampler", "notify")
  /\ UNCHANGED <<value, sampleVars, windowVars, requested_windows, to_flush,
                 delivered, requests_lock, filled_lock, halt, object>>

\* Fault: nobody is notified.
FaultNotify == Step("sampler", "notify", "loop")

\* filled_signal.notify_one(), sent after filled_lock was released.
Notify ==
  /\ pc["sampler"] = "notify"
  /\ pc' = [pc EXCEPT !["sampler"] = "loop",
                      !["flusher"] = IF @ = "wait" THEN "flush" ELSE @]
  /\ UNCHANGED <<value, sampleVars, windowVars, requested_windows,
                 filled_windows, newly_filled_windows, to_flush, delivered,
                 requests_lock, filled_lock, halt, object>>

-----------------------------------------------------------------------------
(* The flusher: one call of flush().                                       *)

\* filled_signal.wait: under filled_lock, evaluate the predicate, which
\* empties filled_windows into to_flush; go on holding the lock, or release
\* it and sleep.
CollectFilled ==
  /\ pc["flusher"] = "flush"
  /\ filled_lock = Free
  /\ to_flush' = to_flush \o filled_windows
  /\ filled_windows' = <<>>
  /\ IF to_flush' # <<>>
     THEN /\ filled_lock' = "flusher"
          /\ Goto("flusher", "callback")
     ELSE /\ Goto("flusher", "wait")
          /\ UNCHANGED filled_lock
  /\ UNCHANGED <<value, sampleVars, windowVars, requested_windows,
                 newly_filled_windows, delivered, requests_lock, halt,
                 object>>

\* A condition variable may wake its waiter without a notification.
SpuriousWakeup == Step("flusher", "wait", "flush")

\* Fault: to_flush.pop() is missing.
FaultCallback ==
  /\ pc["flusher"] = "callback"
  /\ to_flush # <<>>
  /\ delivered' = Append(delivered, Head(to_flush))
  /\ UNCHANGED <<value, sampleVars, windowVars, requested_windows, to_flush,
                 filled_windows, newly_filled_windows, requests_lock,
                 filled_lock, pc, halt, object>>

\* req.callback(move(req.data)); to_flush.pop().  The unique_lock of flush()
\* is still in scope: filled_lock stays held.
Callback ==
  /\ pc["flusher"] = "callback"
  /\ to_flush # <<>>
  /\ delivered' = Append(delivered, Head(to_flush))
  /\ to_flush' = Tail(to_flush)
  /\ UNCHANGED <<value, sampleVars, windowVars, requested_windows,
                 filled_windows, newly_filled_windows, requests_lock,
                 filled_lock, pc, halt, object>>

\* Fault: filled_lock is not released.
FaultEndFlush ==
  /\ to_flush = <<>>
  /\ Step("flusher", "callback", "loop")

\* flush() returns: its scope ends and filled_lock is released.
EndFlush ==
  /\ pc["flusher"] = "callback"
  /\ to_flush = <<>>
  /\ filled_lock' = Free
  /\ Goto("flusher", "loop")
  /\ UNCHANGED <<value, sampleVars, windowVars, requested_windows,
                 filled_windows, newly_filled_windows, to_flush, delivered,
                 requests_lock, halt, object>>

-----------------------------------------------------------------------------
(* Destruction.  Members die in the reverse of their declaration order:    *)
(* flusher first, then sampler; ~loop_thread sets halt and joins.          *)

JoinBegin(thread, from, to) ==
  /\ object = from
  /\ object' = to
  /\ halt' = [halt EXCEPT ![thread] = TRUE]
  /\ UNCHANGED <<value, sampleVars, windowVars, requested_windows,
                 filled_windows, newly_filled_windows, to_flush, delivered,
                 requests_lock, filled_lock, pc>>

FaultDestroy == JoinBegin("sampler", "alive", "joining_flusher")  \* wrong order
Destroy == JoinBegin("flusher", "alive", "joining_flusher")

FlusherJoined ==
  /\ pc["flusher"] = "exited"
  /\ JoinBegin("sampler", "joining_flusher", "joining_sampler")

SamplerJoined ==
  /\ object = "joining_sampler"
  /\ pc["sampler"] = "exited"
  /\ object' = "destroyed"
  /\ UNCHANGED <<value, sampleVars, windowVars, requested_windows,
                 filled_windows, newly_filled_windows, to_flush, delivered,
                 requests_lock, filled_lock, pc, halt>>

\* Nothing runs once the destructor has returned.
Terminated == object = "destroyed" /\ UNCHANGED vars

-----------------------------------------------------------------------------
Sampler == SamplerLoop \/ TakeSample \/ PushSample \/ EndFill \/ QueueFilled
             \/ Notify
Flusher == FlusherLoop \/ CollectFilled \/ Callback \/ EndFlush
Joiner  == FlusherJoined \/ SamplerJoined

Next ==
  \/ \E level \in Levels : Write(level)
  \/ \E r \in Requests, size \in Sizes : FillWindow(r, size)
  \/ \E r \in Requests, size \in Sizes, trigger \in Levels :
       FillWindowOnTrigger(r, size, trigger)
  \/ Sampler
  \/ Flusher
  \/ SpuriousWakeup
  \/ Destroy
  \/ Joiner
  \/ Terminated

\* The operating system schedules both threads and callbacks return; nothing
\* obliges a client to write, to ask, or to destroy the oscilloscope, nor a
\* condition variable to wake spuriously.
Fairness == WF_vars(Sampler) /\ WF_vars(Flusher) /\ WF_vars(Joiner)

Spec     == Init /\ [][Next]_vars
FairSpec == Spec /\ Fairness
-----------------------------------------------------------------------------
(* Where a request can be.                                                 *)

Armed     == ToSet(high_triggers) \cup ToSet(low_triggers)
Filling   == ToSet(requested_windows)
Filled    == ToSet(newly_filled_windows) \cup ToSet(filled_windows)
               \cup ToSet(to_flush)
Delivered == ToSet(delivered)

\* The lists a request travels through, and what each holds.
Lists   == <<high_triggers, low_triggers, requested_windows,
             newly_filled_windows, filled_windows, to_flush, delivered>>
Members == [l \in DOMAIN Lists |-> ToSet(Lists[l])]

(***************************************************************************)
(* No request is lost or duplicated between the lists of the two threads:  *)
(* every fill_window call is in exactly one list, at one place of it, from *)
(* the call to its callback, whatever the threads are doing.  In           *)
(* particular no callback runs twice.                                      *)
(***************************************************************************)
RequestsConserved ==
  /\ asked = UNION {Members[l] : l \in DOMAIN Lists}
  /\ \A l, m \in DOMAIN Lists : l # m => Members[l] \cap Members[m] = {}
  /\ \A l \in DOMAIN Lists : IsInjective(Lists[l])

(***************************************************************************)
(* A window leaves requested_windows complete and never before: what waits *)
(* for the flusher, or was given to a callback, holds exactly num_samples  *)
(* samples.                                                                *)
(***************************************************************************)
OnlyFullWindowsLeave ==
  \A r \in Filled \cup Delivered : Len(data[r]) = num_samples[r]

(***************************************************************************)
(* notify_one is sent after filled_lock was released, so the flusher may   *)
(* go to sleep in between; still it never sleeps on a non-empty            *)
(* filled_windows without a notification on its way.                       *)
(***************************************************************************)
NoLostWakeup ==
  pc["flusher"] = "wait" /\ filled_windows # <<>> => pc["sampler"] = "notify"

(***************************************************************************)
(* Each thread finds the lock it keeps over several steps free again when  *)
(* it comes back to take it, and the sampler holds none when it waits for  *)
(* filled_lock: a callback, which is called with that lock held, may ask   *)
(* for its next window, which takes requests_lock, and nobody deadlocks.   *)
(***************************************************************************)
LocksAreReleased ==
  /\ pc["sampler"] \in {"sample", "queue"} => requests_lock = Free
  /\ pc["flusher"] = "flush" => filled_lock = Free

(***************************************************************************)
(* "Now we're done with the lock, we can safely call expensive callbacks   *)
(* without blocking the sampling thread" (flush, before its loop): while a *)
(* callback is to run, a sampler with windows to hand over can do so.      *)
(***************************************************************************)
CallbacksLetSamplerOn ==
  pc["sampler"] = "queue" /\ pc["flusher"] = "callback" /\ to_flush # <<>>
    => filled_lock = Free

(***************************************************************************)
(* The flusher is never left without the thread that wakes it, nor either  *)
(* without the object whose members it uses: the sampler exits after the   *)
(* flusher, and the destructor returns after both.                         *)
(***************************************************************************)
SamplerOutlivesFlusher ==
  /\ pc["sampler"] = "exited" => pc["flusher"] = "exited"
  /\ object = "destroyed" => pc["sampler"] = "exited"

(***************************************************************************)
(* A window being filled, if it asks for at least one sample, reaches its  *)
(* callback unless the oscilloscope is destroyed first.                    *)
(***************************************************************************)
FillingLeadsToCallback ==
  \A r \in Requests :
    (r \in Filling /\ num_samples[r] > 0)
      ~> (r \in Delivered \/ object # "alive")

(***************************************************************************)
(* A destructor that starts while a window can still be filled returns:    *)
(* the sampler is joined last, fills the window and so wakes the flusher.  *)
(***************************************************************************)
PendingWindowReleasesDestructor ==
  (object = "joining_flusher" /\ \E r \in Filling : num_samples[r] > 0)
    ~> object = "destroyed"

-----------------------------------------------------------------------------
(***************************************************************************)
(* The two threads, their four lists and two locks implement the window    *)
(* service: what the sampler has just filled, what waits in filled_windows *)
(* and what the flusher took are one queue of ready windows.               *)
(***************************************************************************)
Service == INSTANCE WindowService WITH
  Counts   <- {NumSamples(sz) : sz \in Sizes},
  Samples  <- Levels \cup {Junk},
  size     <- num_samples,
  window   <- data,
  armed    <- [level \in Levels |-> IF level = HIGH THEN ToSet(high_triggers)
                                                    ELSE ToSet(low_triggers)],
  filling  <- Filling,
  ready    <- to_flush \o filled_windows \o newly_filled_windows,
  returned <- delivered

ImplementsService == Service!Spec
=============================================================================
