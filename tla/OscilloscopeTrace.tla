-------------------------- MODULE OscilloscopeTrace --------------------------
(***************************************************************************)
(* The oscilloscope with the history its callers reason about: the samples *)
(* taken so far, when and for what each window was asked.  Every action is *)
(* one of Oscilloscope's; the history variables only watch.                *)
(***************************************************************************)
EXTENDS Oscilloscope

CONSTANT MaxSamples       (* bound: samples taken in a behaviour           *)

VARIABLES
  history,    (* last_sample's initial value, then every sample taken      *)
  asked_at,   (* Len(history) when the request was made                    *)
  trigger     (* the level whose edge starts it, or "now"                  *)

traceVars == <<vars, history, asked_at, trigger>>

Now == "now"
Opposite(level) == CHOOSE other \in Levels : other # level

TraceInit ==
  /\ Init
  /\ history = <<last_sample>>
  /\ asked_at = [r \in Requests |-> 0]
  /\ trigger = [r \in Requests |-> Now]

TraceAsk(r, size, when) ==
  /\ IF when = Now THEN FillWindow(r, size)
                   ELSE FillWindowOnTrigger(r, size, when)
  /\ asked_at' = [asked_at EXCEPT ![r] = Len(history)]
  /\ trigger' = [trigger EXCEPT ![r] = when]
  /\ UNCHANGED history

TraceSample ==
  /\ Len(history) <= MaxSamples
  /\ TakeSample
  /\ history' = Append(history, sample')
  /\ UNCHANGED <<asked_at, trigger>>

\* The steps that neither take a sample nor ask.
TraceInner ==
  /\ \/ \E level \in Levels : Write(level)
     \/ SamplerLoop \/ PushSample \/ EndFill \/ QueueFilled \/ Notify
     \/ Flusher
     \/ SpuriousWakeup
     \/ Destroy
     \/ Joiner
     \/ Terminated
  /\ UNCHANGED <<history, asked_at, trigger>>

TraceNext ==
  \/ \E r \in Requests, size \in Sizes, when \in Levels \cup {Now} :
       TraceAsk(r, size, when)
  \/ TraceSample
  \/ TraceInner

TraceSpec == TraceInit /\ [][TraceNext]_traceVars

-----------------------------------------------------------------------------
\* The sample at k differs from the one before it, towards level.
EdgeAt(k, level) ==
  /\ k \in 2 .. Len(history)
  /\ history[k] = level
  /\ history[k - 1] = Opposite(level)

\* The sample a window must start with: the first one taken after the
\* request, or the first edge after it.
StartsAt(r, k) ==
  /\ k > asked_at[r]
  /\ IF trigger[r] = Now
     THEN k = asked_at[r] + 1
     ELSE /\ EdgeAt(k, trigger[r])
          /\ \A j \in asked_at[r] + 1 .. k - 1 : ~ EdgeAt(j, trigger[r])

(***************************************************************************)
(* fill_window's contract on the data: a full window holds consecutive     *)
(* samples, none skipped, repeated or taken before the request, starting   *)
(* with the first sample after it, or with the sample on which its trigger *)
(* fired, whatever clients, sampler and flusher were doing meanwhile.      *)
(***************************************************************************)
WindowsAreContiguous ==
  \A r \in Filled \cup Delivered :
    \E k \in DOMAIN history :
      /\ StartsAt(r, k)
      /\ data[r] = SubSeq(history, k, k + num_samples[r] - 1)

(***************************************************************************)
(* No edge is missed: while a request is still armed, no sample taken      *)
(* since it was made was an edge to its trigger.                           *)
(***************************************************************************)
NoEdgeMissed ==
  \A r \in Armed : \A k \in asked_at[r] + 1 .. Len(history) :
    ~ EdgeAt(k, trigger[r])
=============================================================================
