---------------------------- MODULE WindowService ----------------------------
(***************************************************************************)
(* What an oscilloscope promises the callers of fill_window, whatever its  *)
(* threads, lists and locks (src/include/hardware/pi_emulator.h): a        *)
(* request is armed or starts filling at once, an edge of the voltage      *)
(* starts every request armed for it together, a window grows one sample   *)
(* at a time until it is full, full windows never change again and are     *)
(* returned once each, in the order they became full.                      *)
(***************************************************************************)
EXTENDS Integers, Sequences

CONSTANTS
  Requests,   (* identities of the requests                                *)
  Counts,     (* how many samples a request may be for                     *)
  Levels,     (* the levels of the voltage                                 *)
  Samples     (* what a sample of it may be                                *)

VARIABLES
  size,       (* samples each request asked for                            *)
  window,     (* the samples collected for each request                    *)
  armed,      (* for each level, the requests that wait for an edge to it  *)
  filling,    (* requests whose window is growing                          *)
  ready,      (* full windows, in the order they became full               *)
  returned    (* windows given to their callbacks, in order                *)

vars == <<size, window, armed, filling, ready, returned>>

SetOf(list) == {list[i] : i \in DOMAIN list}

Known == filling \cup SetOf(ready) \cup SetOf(returned)
           \cup UNION {armed[level] : level \in Levels}

Init ==
  /\ size = [r \in Requests |-> 0]
  /\ window = [r \in Requests |-> <<>>]
  /\ armed = [level \in Levels |-> {}]
  /\ filling = {}
  /\ ready = <<>>
  /\ returned = <<>>

Ask(r, n) ==
  /\ r \notin Known
  /\ size' = [size EXCEPT ![r] = n]
  /\ window' = [window EXCEPT ![r] = <<>>]
  /\ UNCHANGED <<ready, returned>>

AskNow(r, n) ==
  /\ Ask(r, n)
  /\ filling' = filling \cup {r}
  /\ UNCHANGED armed

AskOnEdge(r, n, level) ==
  /\ Ask(r, n)
  /\ armed' = [armed EXCEPT ![level] = @ \cup {r}]
  /\ UNCHANGED filling

Edge(level) ==
  /\ filling' = filling \cup armed[level]
  /\ armed' = [armed EXCEPT ![level] = {}]
  /\ UNCHANGED <<size, window, ready, returned>>

Collect(r, sample) ==
  /\ r \in filling
  /\ window' = [window EXCEPT ![r] = Append(@, sample)]
  /\ IF Len(window'[r]) = size[r]
     THEN /\ filling' = filling \ {r}
          /\ ready' = Append(ready, r)
     ELSE UNCHANGED <<filling, ready>>
  /\ UNCHANGED <<size, armed, returned>>

Return ==
  /\ ready # <<>>
  /\ ready' = Tail(ready)
  /\ returned' = Append(returned, Head(ready))
  /\ UNCHANGED <<size, window, armed, filling>>

Next ==
  \/ \E r \in Requests, n \in Counts :
       AskNow(r, n) \/ \E level \in Levels : AskOnEdge(r, n, level)
  \/ \E level \in Levels : Edge(level)
  \/ \E r \in Requests, sample \in Samples : Collect(r, sample)
  \/ Return

Spec == Init /\ [][Next]_vars
=============================================================================
