---------------------------- MODULE ObjectsProofs ----------------------------
(***************************************************************************)
(* Theorems about Objects for every set of interfaces and implementations: *)
(* the registry answers with what was last asked for, and so implements    *)
(* the service of singletons.                                              *)
(***************************************************************************)
EXTENDS Objects, TLAPS

\* The inductive invariant.
IInv == TypeOK /\ OnlyRegistered /\ AnswersAsAsked

-----------------------------------------------------------------------------
(* Type correctness.                                                       *)

LEMMA TypeInit == Init => TypeOK
BY DEF Init, TypeOK, Nothing

(* The shape of what Instantiate makes.                                    *)
LEMMA InstantiateType ==
  ASSUME TypeOK, NEW i \in Interfaces, NEW factory \in Impls,
         Instantiate(i, factory)
  PROVE  /\ made' \in [Interfaces -> Nat]
         /\ instances' \in [Interfaces -> Instances \cup {None}]
         /\ instances'[i] = <<factory, made[i] + 1>>
         /\ instances'[i] \in Instances
<1>1. made'[i] = made[i] + 1 /\ made[i] + 1 \in Nat
  BY DEF Instantiate, TypeOK
<1>2. <<factory, made[i] + 1>> \in Instances
  BY <1>1 DEF Instances
<1> QED BY <1>1, <1>2 DEF Instantiate, TypeOK

LEMMA TypeStep == TypeOK /\ [Next]_vars => TypeOK'
<1> SUFFICES ASSUME TypeOK, [Next]_vars
             PROVE  TypeOK'
  OBVIOUS
<1>1. ASSUME NEW i \in Interfaces, NEW factory \in Impls,
             object_registration(i, factory)
      PROVE  TypeOK'
  BY <1>1 DEF TypeOK, object_registration, Fail, factories
<1>2. ASSUME NEW i \in Interfaces, NEW factory \in Impls,
             mock_object_registration(i, factory)
      PROVE  TypeOK'
  BY <1>2 DEF TypeOK, mock_object_registration, Fail, factories
<1>3. ASSUME NEW i \in Interfaces, NEW factory \in Impls, Replace(i, factory)
      PROVE  TypeOK'
  <2>1. CASE ~ Registered(i)
    BY <1>3, <2>1 DEF TypeOK, Replace, Fail, factories
  <2>2. CASE Registered(i) /\ instances[i] # None
    <3>1. Instantiate(i, factory)
      BY <1>3, <2>2 DEF Replace
    <3> QED BY <1>3, <2>2, <3>1, InstantiateType DEF TypeOK, Replace
  <2>3. CASE Registered(i) /\ instances[i] = None
    BY <1>3, <2>3 DEF TypeOK, Replace
  <2> QED BY <2>1, <2>2, <2>3
<1>4. ASSUME NEW i \in Interfaces, get(i)
      PROVE  TypeOK'
  <2>1. CASE instances[i] = None /\ FactoryOf(i) = None
    BY <1>4, <2>1 DEF TypeOK, get, Fail, factories
  <2>2. CASE instances[i] = None /\ FactoryOf(i) # None
    <3>1. FactoryOf(i) \in Impls
      BY <2>2 DEF FactoryOf, TypeOK
    <3>2. Instantiate(i, FactoryOf(i))
      BY <1>4, <2>2 DEF get
    <3>3. answer' \in Interfaces \X Instances
      BY <1>4, <2>2, <3>1, <3>2, InstantiateType DEF get
    <3> QED BY <1>4, <2>2, <3>1, <3>2, <3>3, InstantiateType
            DEF TypeOK, get, factories
  <2>3. CASE instances[i] # None
    BY <1>4, <2>3 DEF TypeOK, get, factories
  <2> QED BY <2>1, <2>2, <2>3
<1>5. ASSUME NEW i \in Interfaces, mock(i)
      PROVE  TypeOK'
  <2>1. CASE mocks[i] = None
    BY <1>5, <2>1 DEF TypeOK, mock, vars, factories
  <2>2. CASE mocks[i] # None
    BY <1>3, <1>5, <2>2 DEF TypeOK, mock
  <2> QED BY <2>1, <2>2
<1>6. CASE EnterMain
  BY <1>6 DEF TypeOK, EnterMain, factories
<1>7. CASE reset
  BY <1>7 DEF TypeOK, reset, Nothing
<1>8. CASE UNCHANGED vars
  BY <1>8 DEF TypeOK, vars, factories
<1> QED BY <1>1, <1>2, <1>3, <1>4, <1>5, <1>6, <1>7, <1>8
        DEF Next, replace, Aborted

(* The registry's maps and histories hold what their declarations say.     *)
THEOREM TypeCorrect == Spec => []TypeOK
BY TypeInit, TypeStep, PTL DEF Spec

-----------------------------------------------------------------------------
(* The inductive invariant, one action at a time.                          *)

LEMMA InvInit == Init => IInv
BY TypeInit DEF Init, IInv, OnlyRegistered, AnswersAsAsked, Registered,
                Current, FactoryOf, Nothing

(* An instance is not the absence of one.                                  *)
LEMMA InstanceIsSomething == \A x \in Instances : x # None
BY ObjectsAssumption DEF Instances

LEMMA ReplaceKeepsInv ==
  ASSUME IInv, TypeOK', NEW i \in Interfaces, NEW factory \in Impls,
         Replace(i, factory)
  PROVE  IInv'
<1> USE DEF IInv
<1>1. CASE ~ Registered(i)
  BY <1>1 DEF Replace, Fail, factories, TypeOK, OnlyRegistered, AnswersAsAsked,
              Registered, Current, FactoryOf
<1>2. CASE Registered(i) /\ instances[i] # None
  <2>1. Instantiate(i, factory) /\ UNCHANGED <<factories, answer, program>>
        /\ asked' = [asked EXCEPT ![i] = factory]
    BY <1>2 DEF Replace, factories
  <2>2. instances'[i] = <<factory, made[i] + 1>> /\ instances'[i] # None
    BY <2>1, InstantiateType, InstanceIsSomething
  <2>3. \A j \in Interfaces \ {i} : instances'[j] = instances[j]
    BY <2>1 DEF Instantiate, TypeOK
  <2>4. OnlyRegistered'
    BY <1>2, <2>1, <2>3 DEF OnlyRegistered, Registered, factories
  <2>5. ASSUME NEW j \in Interfaces
        PROVE  Current(j)' = asked'[j]
    <3>1. CASE j = i
      <4>1. instances'[i][1] = factory
        BY <2>2
      <4> QED BY <2>1, <2>2, <3>1, <4>1 DEF Current, TypeOK
    <3>2. CASE j # i
      <4>1. asked'[j] = asked[j] /\ instances'[j] = instances[j]
        BY <2>1, <2>3, <3>2 DEF TypeOK
      <4>2. Current(j) = asked[j]
        BY DEF AnswersAsAsked
      <4> QED BY <2>1, <4>1, <4>2 DEF Current, FactoryOf, factories
    <3> QED BY <3>1, <3>2
  <2> QED BY <2>4, <2>5 DEF AnswersAsAsked
<1>3. CASE Registered(i) /\ instances[i] = None
  <2>1. replacements' = [replacements EXCEPT ![i] = factory]
        /\ asked' = [asked EXCEPT ![i] = factory]
        /\ UNCHANGED <<registrations, mocks, instances>>
    BY <1>3 DEF Replace
  <2>2. OnlyRegistered'
    BY <1>3, <2>1 DEF OnlyRegistered, Registered, TypeOK
  <2>3. factory # None
    BY ObjectsAssumption
  <2>4. AnswersAsAsked'
    BY <1>3, <2>1, <2>3 DEF AnswersAsAsked, Current, FactoryOf, TypeOK
  <2> QED BY <2>2, <2>4
<1> QED BY <1>1, <1>2, <1>3

(* What get does when it has to create the instance.                       *)
LEMMA GetKeepsInv ==
  ASSUME IInv, TypeOK', NEW i \in Interfaces, get(i)
  PROVE  IInv'
<1> USE DEF IInv
<1>1. CASE instances[i] = None /\ FactoryOf(i) = None
  BY <1>1 DEF get, Fail, factories, OnlyRegistered, AnswersAsAsked,
              Registered, Current, FactoryOf
<1>2. CASE instances[i] # None
  BY <1>2 DEF get, factories, OnlyRegistered, AnswersAsAsked, Registered,
              Current, FactoryOf
<1>3. CASE instances[i] = None /\ FactoryOf(i) # None
  <2>1. Instantiate(i, FactoryOf(i)) /\ UNCHANGED <<factories, asked>>
    BY <1>3 DEF get
  <2>2. FactoryOf(i) \in Impls
    BY <1>3 DEF FactoryOf, TypeOK
  <2>3. instances'[i] = <<FactoryOf(i), made[i] + 1>> /\ instances'[i] # None
    BY <2>1, <2>2, InstantiateType, InstanceIsSomething
  <2>4. \A j \in Interfaces \ {i} : instances'[j] = instances[j]
    BY <2>1 DEF Instantiate, TypeOK
  <2>5. Registered(i)
    BY <1>3 DEF OnlyRegistered, FactoryOf, Registered
  <2>6. OnlyRegistered'
    BY <2>1, <2>4, <2>5 DEF OnlyRegistered, Registered, factories
  <2>7. Current(i) = FactoryOf(i)
    BY <1>3 DEF Current
  <2>8. AnswersAsAsked'
    BY <2>1, <2>3, <2>4, <2>7
       DEF AnswersAsAsked, Current, FactoryOf, factories
  <2> QED BY <2>6, <2>8
<1> QED BY <1>1, <1>2, <1>3

LEMMA InvStep == IInv /\ [Next]_vars => IInv'
<1> SUFFICES ASSUME IInv, [Next]_vars
             PROVE  IInv'
  OBVIOUS
<1>t. TypeOK /\ TypeOK'
  BY TypeStep DEF IInv
<1>1. ASSUME NEW i \in Interfaces, NEW factory \in Impls,
             object_registration(i, factory)
      PROVE  IInv'
  <2>1. factory # None
    BY ObjectsAssumption
  <2>2. CASE Registered(i)
    BY <1>t, <1>1, <2>2 DEF IInv, object_registration, Fail, factories,
       OnlyRegistered, AnswersAsAsked, Registered, Current, FactoryOf
  <2>3. CASE ~ Registered(i)
    <3>1. replacements[i] = None /\ instances[i] = None
      BY <2>3 DEF IInv, OnlyRegistered
    <3>2. /\ registrations' = [registrations EXCEPT ![i] = factory]
          /\ asked' = [asked EXCEPT ![i] = factory]
          /\ UNCHANGED <<mocks, replacements, instances>>
      BY <1>1, <2>3 DEF object_registration
    <3>3. OnlyRegistered'
      BY <1>t, <2>1, <3>2 DEF IInv, OnlyRegistered, Registered, TypeOK
    <3>4. AnswersAsAsked'
      BY <1>t, <3>1, <3>2
         DEF IInv, AnswersAsAsked, Current, FactoryOf, TypeOK
    <3> QED BY <1>t, <3>3, <3>4 DEF IInv
  <2> QED BY <2>2, <2>3
<1>2. ASSUME NEW i \in Interfaces, NEW factory \in Impls,
             mock_object_registration(i, factory)
      PROVE  IInv'
  <2>1. UNCHANGED <<registrations, replacements, instances, asked>>
    BY <1>2 DEF mock_object_registration, Fail, factories
  <2>2. \A j \in Interfaces : mocks'[j] # mocks[j] => Registered(j)
    BY <1>t, <1>2 DEF mock_object_registration, Fail, factories, TypeOK
  <2> QED BY <1>t, <2>1, <2>2 DEF IInv, OnlyRegistered, AnswersAsAsked,
                                   Registered, Current, FactoryOf
<1>3. ASSUME NEW i \in Interfaces, NEW factory \in Impls, replace(i, factory)
      PROVE  IInv'
  BY <1>t, <1>3, ReplaceKeepsInv DEF replace
<1>4. ASSUME NEW i \in Interfaces, get(i)
      PROVE  IInv'
  BY <1>t, <1>4, GetKeepsInv
<1>5. CASE UNCHANGED <<factories, instances, asked>>
  BY <1>t, <1>5 DEF IInv, OnlyRegistered, AnswersAsAsked, Registered, Current,
                     FactoryOf, factories
<1>6. ASSUME NEW i \in Interfaces, mock(i)
      PROVE  IInv'
  <2>1. CASE mocks[i] = None
    BY <1>5, <1>6, <2>1 DEF mock, vars
  <2>2. CASE mocks[i] # None
    <3>1. mocks[i] \in Impls /\ Replace(i, mocks[i])
      BY <1>t, <1>6, <2>2 DEF mock, TypeOK
    <3> QED BY <1>t, <3>1, ReplaceKeepsInv
  <2> QED BY <2>1, <2>2
<1>7. CASE reset
  BY <1>t, <1>7 DEF IInv, reset, Nothing, OnlyRegistered, AnswersAsAsked,
                     Registered, Current, FactoryOf
<1>8. CASE EnterMain \/ UNCHANGED vars
  BY <1>5, <1>8 DEF EnterMain, vars
<1> QED BY <1>1, <1>2, <1>3, <1>4, <1>6, <1>7, <1>8 DEF Next, Aborted

LEMMA InvHolds == Spec => []IInv
BY InvInit, InvStep, PTL DEF Spec

(* The registry knows mocks, replacements and instances of registered      *)
(* interfaces only.                                                        *)
THEOREM OnlyRegisteredHolds == Spec => []OnlyRegistered
BY InvHolds, PTL DEF IInv

(* The next get answers with the implementation last asked for.            *)
THEOREM AnswersAreAsAsked == Spec => []AnswersAsAsked
BY InvHolds, PTL DEF IInv

-----------------------------------------------------------------------------
(* The refinement: initial states map to initial states and every step to  *)
(* a step of the service or to none.                                       *)

LEMMA ServiceInit == Init => Service!Init
BY DEF Init, Nothing, Service!Init

(* Making an instance is the same in both.                                 *)
LEMMA InstantiateMaps ==
  ASSUME TypeOK, NEW i \in Interfaces, NEW factory \in Impls,
         Instantiate(i, factory)
  PROVE  Service!MakeInstance(i, factory)
BY DEF Instantiate, Service!MakeInstance

LEMMA FailMaps == Fail => UNCHANGED Service!vars
BY DEF Fail, factories, Service!vars

LEMMA ReplaceMaps ==
  ASSUME IInv, NEW i \in Interfaces, NEW factory \in Impls,
         Replace(i, factory), Registered(i)
  PROVE  Service!Change(i, factory)
<1>1. CASE instances[i] # None
  BY <1>1, InstantiateMaps DEF IInv, Replace, Registered, Service!Change
<1>2. CASE instances[i] = None
  BY <1>2 DEF Replace, Registered, Service!Change
<1> QED BY <1>1, <1>2

LEMMA ServiceStep ==
  IInv /\ [Next]_vars => [Service!Next]_Service!vars
<1> SUFFICES ASSUME IInv, [Next]_vars
             PROVE  Service!Next \/ UNCHANGED Service!vars
  OBVIOUS
<1>t. TypeOK
  BY DEF IInv
<1>1. ASSUME NEW i \in Interfaces, NEW factory \in Impls,
             object_registration(i, factory)
      PROVE  Service!Register(i, factory) \/ UNCHANGED Service!vars
  BY <1>1, FailMaps DEF object_registration, Registered, Service!Register
<1>2. ASSUME NEW i \in Interfaces, NEW factory \in Impls,
             mock_object_registration(i, factory)
      PROVE  Service!RegisterMock(i, factory) \/ UNCHANGED Service!vars
  BY <1>2, FailMaps
     DEF mock_object_registration, Registered, Service!RegisterMock
<1>3. ASSUME NEW i \in Interfaces, NEW factory \in Impls, Replace(i, factory)
      PROVE  Service!Change(i, factory) \/ UNCHANGED Service!vars
  <2>1. CASE Registered(i)
    BY <1>3, <2>1, ReplaceMaps
  <2>2. CASE ~ Registered(i)
    BY <1>3, <2>2, FailMaps DEF Replace
  <2> QED BY <2>1, <2>2
<1>4. ASSUME NEW i \in Interfaces, get(i)
      PROVE  Service!Get(i) \/ UNCHANGED Service!vars
  <2>1. CASE instances[i] = None /\ FactoryOf(i) = None
    BY <1>4, <2>1, FailMaps DEF get
  <2>2. CASE instances[i] = None /\ FactoryOf(i) # None
    <3>1. asked[i] = FactoryOf(i)
      BY <2>2 DEF IInv, AnswersAsAsked, Current
    <3>2. FactoryOf(i) \in Impls
      BY <1>t, <2>2 DEF FactoryOf, TypeOK
    <3>3. Service!MakeInstance(i, asked[i])
      BY <1>t, <1>4, <2>2, <3>1, <3>2, InstantiateMaps DEF get
    <3> QED BY <1>4, <2>2, <3>1, <3>3 DEF get, factories, Service!Get
  <2>3. CASE instances[i] # None
    <3>1. instances[i] \in Instances
      BY <1>t, <2>3 DEF TypeOK
    <3>2. asked[i] # None
      BY <2>3, <3>1, ObjectsAssumption
         DEF IInv, AnswersAsAsked, Current, Instances
    <3> QED BY <1>4, <2>3, <3>2 DEF get, factories, Service!Get
  <2> QED BY <2>1, <2>2, <2>3
<1>5. ASSUME NEW i \in Interfaces, mock(i)
      PROVE  Service!Mock(i) \/ UNCHANGED Service!vars
  <2>1. CASE mocks[i] = None
    BY <1>5, <2>1 DEF mock, vars, factories, Service!vars
  <2>2. CASE mocks[i] # None
    <3>1. mocks[i] \in Impls /\ Replace(i, mocks[i])
      BY <1>t, <1>5, <2>2 DEF mock, TypeOK
    <3>2. Registered(i)
      BY <2>2 DEF IInv, OnlyRegistered
    <3> QED BY <2>2, <3>1, <3>2, ReplaceMaps DEF Service!Mock
  <2> QED BY <2>1, <2>2
<1>6. CASE reset
  BY <1>6 DEF reset, Nothing, Service!Reset, Service!Next
<1>7. CASE EnterMain \/ UNCHANGED vars
  BY <1>7 DEF EnterMain, vars, factories, Service!vars
<1> QED BY <1>1, <1>2, <1>3, <1>4, <1>5, <1>6, <1>7
        DEF Next, replace, Aborted, Service!Next

(* The registry implements the service of singletons.                      *)
THEOREM RegistryImplementsSingletons == Spec => ImplementsSingletons
<1>1. Init => Service!Init
  BY ServiceInit
<1>2. IInv /\ [Next]_vars => [Service!Next]_Service!vars
  BY ServiceStep
<1>3. Spec => []IInv
  BY InvHolds
<1> QED BY <1>1, <1>2, <1>3, PTL DEF Spec, ImplementsSingletons, Service!Spec
=============================================================================
