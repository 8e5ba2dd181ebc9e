------------------------------- MODULE Objects -------------------------------
(***************************************************************************)
(* The registry of singleton objects, src/objects/objects.cpp: four maps   *)
(* from interfaces to factories and instances, filled by static            *)
(* registrations and then used by main().  diag().fail aborts the process. *)
(*                                                                         *)
(* A factory is the implementation it creates an instance of; an instance  *)
(* is an implementation and a serial number that tells it from the others. *)
(* The factories of the program are `new impl_t`, which never give null.   *)
(***************************************************************************)
EXTENDS Naturals

CONSTANTS
  Interfaces,      (* names of the interfaces                              *)
  Impls,           (* implementations, and so factories                    *)
  None,            (* not in the map                                       *)
  MaxInstances     (* bound: instances made of an interface                *)

ASSUME ObjectsAssumption ==
  /\ None \notin Impls
  /\ None \notin Impls \X Nat
  /\ MaxInstances \in Nat

VARIABLES
  registrations, mocks, replacements,   (* factories, by interface         *)
  instances,                            (* instances, by interface         *)
  made,       (* history: how many instances of each interface were made   *)
  asked,      (* history: the implementation last asked for, by interface  *)
  answer,     (* history: the last answer of get                           *)
  program     (* static initialization, main, or aborted                   *)

factories == <<registrations, mocks, replacements>>
vars == <<factories, instances, made, asked, answer, program>>

Instances == Impls \X Nat

TypeOK ==
  /\ registrations \in [Interfaces -> Impls \cup {None}]
  /\ mocks \in [Interfaces -> Impls \cup {None}]
  /\ replacements \in [Interfaces -> Impls \cup {None}]
  /\ instances \in [Interfaces -> Instances \cup {None}]
  /\ made \in [Interfaces -> Nat]
  /\ asked \in [Interfaces -> Impls \cup {None}]
  /\ answer \in (Interfaces \X Instances) \cup {None}
  /\ program \in {"static", "main", "aborted"}

Nothing == [i \in Interfaces |-> None]

Init ==
  /\ registrations = Nothing
  /\ mocks = Nothing
  /\ replacements = Nothing
  /\ instances = Nothing
  /\ made = [i \in Interfaces |-> 0]
  /\ asked = Nothing
  /\ answer = None
  /\ program = "static"

Registered(i) == registrations[i] # None

-----------------------------------------------------------------------------
Fail ==
  /\ program' = "aborted"
  /\ UNCHANGED <<factories, instances, made, asked, answer>>

\* instances()[itf] = factory()
Instantiate(i, factory) ==
  /\ made[i] < MaxInstances
  /\ made' = [made EXCEPT ![i] = @ + 1]
  /\ instances' = [instances EXCEPT ![i] = <<factory, made'[i]>>]

-----------------------------------------------------------------------------
(* Static initialization, in the order the linker chose.                   *)

object_registration(i, factory) ==
  /\ program = "static"
  /\ IF Registered(i)
     THEN Fail
     ELSE /\ registrations' = [registrations EXCEPT ![i] = factory]
          /\ asked' = [asked EXCEPT ![i] = factory]
          /\ UNCHANGED <<mocks, replacements, instances, made, answer,
                         program>>

mock_object_registration(i, factory) ==
  /\ program = "static"
  /\ IF ~ Registered(i) \/ mocks[i] # None
     THEN Fail
     ELSE /\ mocks' = [mocks EXCEPT ![i] = factory]
          /\ UNCHANGED <<registrations, replacements, instances, made, asked,
                         answer, program>>

\* main() is entered.
EnterMain ==
  /\ program = "static"
  /\ program' = "main"
  /\ UNCHANGED <<factories, instances, made, asked, answer>>

-----------------------------------------------------------------------------
(* Calls from main().                                                      *)

FaultFactoryOf(i) == registrations[i]  \* replacements are not looked at

\* get_instance prefers the replacement to the registration.
FactoryOf(i) ==
  IF replacements[i] # None THEN replacements[i] ELSE registrations[i]

get(i) ==
  /\ program = "main"
  /\ IF instances[i] = None /\ FactoryOf(i) = None
     THEN Fail
     ELSE /\ IF instances[i] = None
             THEN Instantiate(i, FactoryOf(i))
             ELSE UNCHANGED <<instances, made>>
          /\ answer' = <<i, instances'[i]>>
          /\ UNCHANGED <<factories, asked, program>>

Replace(i, factory) ==
  IF ~ Registered(i)
  THEN Fail
  ELSE /\ IF instances[i] # None
          THEN Instantiate(i, factory) /\ UNCHANGED replacements
          ELSE /\ replacements' = [replacements EXCEPT ![i] = factory]
               /\ UNCHANGED <<instances, made>>
       /\ asked' = [asked EXCEPT ![i] = factory]
       /\ UNCHANGED <<registrations, mocks, answer, program>>

replace(i, factory) == program = "main" /\ Replace(i, factory)

\* Without a mock nothing happens: "falling back to real implementation".
mock(i) ==
  /\ program = "main"
  /\ IF mocks[i] = None THEN UNCHANGED vars ELSE Replace(i, mocks[i])

\* Fault: replacements stay.
FaultReset ==
  /\ program = "main"
  /\ instances' = Nothing
  /\ asked' = registrations
  /\ UNCHANGED <<factories, made, answer, program>>

reset ==
  /\ program = "main"
  /\ instances' = Nothing
  /\ replacements' = Nothing
  /\ asked' = registrations
  /\ UNCHANGED <<registrations, mocks, made, answer, program>>

\* An aborted process does nothing.
Aborted == program = "aborted" /\ UNCHANGED vars

Next ==
  \/ \E i \in Interfaces, factory \in Impls :
       \/ object_registration(i, factory)
       \/ mock_object_registration(i, factory)
       \/ replace(i, factory)
  \/ \E i \in Interfaces : get(i) \/ mock(i)
  \/ EnterMain
  \/ reset
  \/ Aborted

Spec == Init /\ [][Next]_vars
-----------------------------------------------------------------------------
(***************************************************************************)
(* Whatever the order of registrations, calls and resets, the registry     *)
(* remembers mocks, replacements and instances of registered interfaces    *)
(* only: get after reset never finds its interface unknown because some    *)
(* earlier call slipped in through another map.                            *)
(***************************************************************************)
OnlyRegistered ==
  \A i \in Interfaces :
    ~ Registered(i) =>
      mocks[i] = None /\ replacements[i] = None /\ instances[i] = None

\* The implementation of the instance there is, or of the one get will make.
Current(i) == IF instances[i] # None THEN instances[i][1] ELSE FactoryOf(i)

(***************************************************************************)
(* The next get answers with what was last asked for, by registration,     *)
(* replace, mock or reset: a replacement kept from before the instance was *)
(* made never comes back over a later one, and reset leaves none behind.   *)
(***************************************************************************)
AnswersAsAsked == \A i \in Interfaces : Current(i) = asked[i]

Service == INSTANCE Singletons WITH
  original <- registrations,
  stand_in <- mocks,
  wanted   <- asked,
  current  <- instances

(***************************************************************************)
(* The maps implement the service of singletons: the two ways replace has  *)
(* (a new instance over the old one, or a factory kept for later) and the  *)
(* lazy creation in get are the same to a caller.                          *)
(***************************************************************************)
ImplementsSingletons == Service!Spec
=============================================================================
