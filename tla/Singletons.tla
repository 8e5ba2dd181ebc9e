------------------------------ MODULE Singletons ------------------------------
(***************************************************************************)
(* What src/include/objects/objects.h promises: each interface has, at any *)
(* time, one implementation that callers of get are to be given and at     *)
(* most one current instance of it, created when it is first asked for;    *)
(* replace and mock change the implementation, reset brings back the       *)
(* registered one.  How that implementation is remembered is not said.     *)
(***************************************************************************)
EXTENDS Naturals

CONSTANTS
  Interfaces,   (* the interfaces of singleton objects                     *)
  Impls,        (* their implementations                                   *)
  None          (* no implementation, no instance, no answer               *)

VARIABLES
  original,     (* the registered implementation of each interface         *)
  stand_in,     (* its registered mock                                     *)
  wanted,       (* the implementation get is to answer with                *)
  current,      (* the instance get answers with                           *)
  made,         (* how many instances there have been                      *)
  answer        (* what the last get answered: interface and instance      *)

vars == <<original, stand_in, wanted, current, made, answer>>

Init ==
  /\ original = [i \in Interfaces |-> None]
  /\ stand_in = [i \in Interfaces |-> None]
  /\ wanted = [i \in Interfaces |-> None]
  /\ current = [i \in Interfaces |-> None]
  /\ made = [i \in Interfaces |-> 0]
  /\ answer = None

Register(i, impl) ==
  /\ original[i] = None
  /\ original' = [original EXCEPT ![i] = impl]
  /\ wanted' = [wanted EXCEPT ![i] = impl]
  /\ UNCHANGED <<stand_in, current, made, answer>>

RegisterMock(i, impl) ==
  /\ original[i] # None /\ stand_in[i] = None
  /\ stand_in' = [stand_in EXCEPT ![i] = impl]
  /\ UNCHANGED <<original, wanted, current, made, answer>>

MakeInstance(i, impl) ==
  /\ made' = [made EXCEPT ![i] = @ + 1]
  /\ current' = [current EXCEPT ![i] = <<impl, made'[i]>>]

\* The current instance, or the first one of the wanted implementation.
Get(i) ==
  /\ wanted[i] # None
  /\ IF current[i] = None THEN MakeInstance(i, wanted[i])
                          ELSE UNCHANGED <<made, current>>
  /\ answer' = <<i, current'[i]>>
  /\ UNCHANGED <<original, stand_in, wanted>>

\* From now on get answers with instances of impl.
Change(i, impl) ==
  /\ original[i] # None
  /\ wanted' = [wanted EXCEPT ![i] = impl]
  /\ IF current[i] # None THEN MakeInstance(i, impl)
                          ELSE UNCHANGED <<made, current>>
  /\ UNCHANGED <<original, stand_in, answer>>

Mock(i) == stand_in[i] # None /\ Change(i, stand_in[i])

Reset ==
  /\ wanted' = original
  /\ current' = [i \in Interfaces |-> None]
  /\ UNCHANGED <<original, stand_in, made, answer>>

Next ==
  \/ \E i \in Interfaces, impl \in Impls :
       Register(i, impl) \/ RegisterMock(i, impl) \/ Change(i, impl)
  \/ \E i \in Interfaces : Get(i) \/ Mock(i)
  \/ Reset

Spec == Init /\ [][Next]_vars
=============================================================================
