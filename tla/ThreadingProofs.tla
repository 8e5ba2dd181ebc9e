---------------------------- MODULE ThreadingProofs ----------------------------
(***************************************************************************)
(* Theorems about src/system/threading.cpp: about Timing for any length of *)
(* a second, any periods and any number of seconds that a call lasts, and  *)
(* about LoopThread for any number of threads.                             *)
(***************************************************************************)
EXTENDS Timing, LoopThread, TLAPS

\* What is known of the readings: when the call has started, and by how much
\* the measured time is too short.
Started ==
  pc \in {"body", "sleep", "return", "done"} =>
    at["started"] <= clock /\ (pc = "body" => time = at["started"] % Second)

Measured ==
  pc = "sleep" => at["started"] <= at["measured"] /\ at["measured"] <= clock

Waited == pc = "return" /\ ~ failed => at["started"] + period <= clock

\* A sleep is too long by the seconds whose ends the body has crossed.
ExcessIsWraps ==
  pc = "sleep" => wake - (at["started"] + period)
                    = Second * (SecondOf("measured") - SecondOf("started"))

IInv ==
  TimingTypeOK /\ Started /\ Measured /\ ExcessIsWraps /\ Waited /\ NeverTooShort

-----------------------------------------------------------------------------
(* A time is its second and the microsecond within it.                     *)
LEMMA Divided ==
  ASSUME NEW t \in Nat
  PROVE  /\ t % Second \in 0 .. Second - 1
         /\ t \div Second \in Nat
         /\ t = Second * (t \div Second) + (t % Second)
<1>s. Second \in Nat /\ Second > 0
  BY TimingAssumption
<1>1. t % Second \in 0 .. Second - 1
  BY <1>s
<1>2. t \div Second \in Int
  BY <1>s
<1>3. t = Second * (t \div Second) + (t % Second)
  BY <1>s
<1>4. t \div Second >= 0
  BY <1>s
<1> QED BY <1>1, <1>2, <1>3, <1>4

LEMMA SecondsAscend ==
  ASSUME NEW s \in Nat, NEW t \in Nat, s <= t
  PROVE  Second * (t \div Second - s \div Second) \in Nat
<1>s. Second \in Nat /\ Second > 0
  BY TimingAssumption
<1>1. s \div Second <= t \div Second
  BY <1>s
<1> QED BY <1>1, <1>s, Divided

(* The measured time is too short by the whole seconds in between.         *)
LEMMA Difference ==
  ASSUME NEW s \in Nat, NEW t \in Nat
  PROVE  (t % Second) - (s % Second)
           = (t - s) - Second * (t \div Second - s \div Second)
<1> DEFINE a == t \div Second
           b == s \div Second
<1>1. /\ Second \in Nat /\ a \in Nat /\ b \in Nat
      /\ t % Second \in Int /\ s % Second \in Int
      /\ t = Second * a + (t % Second)
      /\ s = Second * b + (s % Second)
  BY Divided, TimingAssumption
<1> HIDE DEF a, b
<1>2. Second * (a - b) = Second * a - Second * b
  BY <1>1
<1>3. Second * a \in Int /\ Second * b \in Int
  BY <1>1
<1> DEFINE p == Second * a
           q == Second * b
           m == t % Second
           n == s % Second
<1>4. p \in Int /\ q \in Int /\ m \in Int /\ n \in Int /\ t = p + m /\ s = q + n
  BY <1>1, <1>3
<1> HIDE DEF p, q, m, n
<1>5. m - n = (t - s) - (p - q)
  BY <1>4
<1> QED BY <1>5, <1>2 DEF a, b, p, q, m, n

LEMMA NowType == clock \in Nat => now \in 0 .. Second - 1
BY Divided DEF now

LEMMA InvInit == TimingInit => IInv
<1> SUFFICES ASSUME TimingInit
             PROVE  IInv
  OBVIOUS
<1>1. Second \in Nat /\ Second > 0
  BY TimingAssumption
<1>2. at \in [Moments -> Nat]
  BY DEF TimingInit
<1>f. failed \in BOOLEAN
  BY DEF TimingInit
<1>3. TimingTypeOK
  BY <1>1, <1>2, <1>f DEF TimingInit, TimingTypeOK
<1> QED BY <1>3 DEF IInv, TimingInit, Started, Measured, ExcessIsWraps, Waited, NeverTooShort

-----------------------------------------------------------------------------
LEMMA CallStep == IInv /\ Call => IInv'
<1> SUFFICES ASSUME IInv, Call
             PROVE  IInv'
  OBVIOUS
<1>1. /\ clock \in Nat /\ now \in 0 .. Second - 1 /\ Second \in Nat
      /\ at \in [Moments -> Nat] /\ pc' = "body"
  BY NowType, TimingAssumption DEF IInv, TimingTypeOK, Call
<1>2. at' \in [Moments -> Nat] /\ at'["started"] = clock
  BY <1>1 DEF Call, Mark, Moments
<1>3. TimingTypeOK'
  BY <1>1, <1>2 DEF IInv, TimingTypeOK, Call
<1>4. Started'
  BY <1>1, <1>2 DEF Started, Call, now
<1> QED BY <1>1, <1>3, <1>4 DEF IInv, Measured, ExcessIsWraps, Waited, NeverTooShort

LEMMA LoopOnStep == IInv /\ LoopOn => IInv'
<1> SUFFICES ASSUME IInv, LoopOn
             PROVE  IInv'
  OBVIOUS
<1>1. TimingTypeOK'
  BY DEF IInv, TimingTypeOK, LoopOn
<1>2. pc' = "return" /\ period' = 0 /\ Started /\ UNCHANGED <<clock, at>> /\ pc = "body"
  BY DEF IInv, LoopOn, Undelayed
<1>3. at["started"] \in Nat /\ clock \in Nat
  BY DEF IInv, TimingTypeOK, Moments
<1>4. Started' /\ Waited'
  BY <1>2, <1>3 DEF Started, Waited
<1> QED BY <1>1, <1>2, <1>4 DEF IInv, Measured, ExcessIsWraps, NeverTooShort

LEMMA MeasureStep == IInv /\ Measure => IInv'
<1> SUFFICES ASSUME IInv, Measure
             PROVE  IInv'
  OBVIOUS
<1> DEFINE begin == at["started"]
           elapsed == (clock % Second) - (begin % Second)
           lost == Second * (clock \div Second - begin \div Second)
<1>1. /\ clock \in Nat /\ begin \in Nat /\ begin <= clock
      /\ time = begin % Second /\ period \in Nat
      /\ at \in [Moments -> Nat] /\ Second \in Nat
  BY TimingAssumption DEF IInv, TimingTypeOK, Started, Measure, Moments
<1>2. lost \in Nat /\ elapsed = (clock - begin) - lost
  BY <1>1, SecondsAscend, Difference
<1>3. elapsed \in 1 - Second .. Second - 1
  BY <1>1, Divided
<1>4. at' \in [Moments -> Nat] /\ at'["started"] = begin /\ at'["measured"] = clock
  BY <1>1 DEF Measure, Mark, Moments
<1>5. /\ SleepFor(period - elapsed)
      /\ time' \in {elapsed, time}
      /\ UNCHANGED <<clock, caller, period, result, failed>>
  BY <1>1 DEF Measure, useconds_since, now
<1>f. failed' \in BOOLEAN
  BY DEF IInv, TimingTypeOK, Measure
<1>c. clock' \in Nat /\ caller' \in Callers /\ period' \in Periods /\ result' \in Int
  BY <1>5 DEF IInv, TimingTypeOK
<1>t. /\ time' \in Int
      /\ caller' = "enforce_delay" => time' \in 0 .. Second - 1
  BY <1>1, <1>3, NowType DEF IInv, TimingTypeOK, Measure, now, useconds_since
<1> HIDE DEF elapsed, lost
<1>6. CASE period - elapsed >= 0
  <2>1. pc' = "sleep" /\ wake' = clock + (period - elapsed)
    BY <1>5, <1>6 DEF SleepFor
  <2>2. wake' \in Nat /\ wake' - (begin + period) = lost
    BY <2>1, <1>1, <1>2, <1>3, <1>6
  <2>3. TimingTypeOK'
    BY <2>1, <2>2, <1>4, <1>f, <1>c, <1>t DEF TimingTypeOK
  <2>4. ExcessIsWraps'
    BY <2>2, <1>4, <1>5 DEF ExcessIsWraps, SecondOf, lost
  <2>5. Started' /\ Measured'
    BY <2>1, <1>1, <1>4, <1>5 DEF Started, Measured
  <2> QED BY <2>1, <2>3, <2>4, <2>5 DEF IInv, Waited, NeverTooShort
<1>7. CASE ~ (period - elapsed >= 0)
  <2>1. pc' = "return" /\ wake' = wake
    BY <1>5, <1>7 DEF SleepFor
  <2>2. TimingTypeOK'
    BY <2>1, <1>4, <1>f, <1>c, <1>t DEF IInv, TimingTypeOK
  <2>3. begin + period <= clock
    BY <1>1, <1>2, <1>3, <1>7
  <2>4. Started' /\ Waited'
    BY <2>1, <2>3, <1>1, <1>4, <1>5 DEF Started, Waited
  <2> QED BY <2>1, <2>2, <2>4 DEF IInv, Measured, ExcessIsWraps, NeverTooShort
<1> QED BY <1>6, <1>7

LEMMA AwakeStep == IInv /\ Awake => IInv'
<1> SUFFICES ASSUME IInv, Awake
             PROVE  IInv'
  OBVIOUS
<1> DEFINE begin == at["started"]
           lost == Second * (SecondOf("measured") - SecondOf("started"))
<1>1. /\ clock \in Nat /\ wake \in Nat /\ wake <= clock /\ period \in Nat
      /\ begin \in Nat /\ at["measured"] \in Nat /\ begin <= at["measured"]
      /\ pc = "sleep" /\ pc' = "return"
      /\ UNCHANGED <<clock, caller, period, time, wake, result, failed, at>>
  BY TimingAssumption DEF IInv, TimingTypeOK, Measured, Awake, Moments
<1>2. lost \in Nat /\ wake - (begin + period) = lost
  BY <1>1, SecondsAscend DEF IInv, ExcessIsWraps, SecondOf
<1> HIDE DEF lost
<1>3. begin + period <= clock
  BY <1>1, <1>2
<1>4. Started' /\ Waited'
  BY <1>1, <1>3 DEF IInv, Started, Waited
<1>5. TimingTypeOK'
  BY <1>1 DEF IInv, TimingTypeOK
<1> QED BY <1>1, <1>4, <1>5 DEF IInv, Measured, ExcessIsWraps, NeverTooShort

LEMMA SleepFailsStep == IInv /\ SleepFails => IInv'
<1> SUFFICES ASSUME IInv, SleepFails
             PROVE  IInv'
  OBVIOUS
<1>1. /\ pc = "sleep" /\ pc' = "return" /\ failed' = TRUE
      /\ UNCHANGED <<clock, caller, period, time, wake, result, at>>
  BY DEF SleepFails
<1>2. TimingTypeOK' /\ Started'
  BY <1>1 DEF IInv, TimingTypeOK, Started
<1> QED BY <1>1, <1>2 DEF IInv, Measured, ExcessIsWraps, Waited, NeverTooShort

LEMMA ReturnStep == IInv /\ Return => IInv'
<1> SUFFICES ASSUME IInv, Return
             PROVE  IInv'
  OBVIOUS
<1>1. /\ clock \in Nat /\ now \in 0 .. Second - 1
      /\ time \in Int /\ period \in Nat
      /\ at \in [Moments -> Nat] /\ at["started"] \in Nat
      /\ at["started"] <= clock
      /\ ~ failed => at["started"] + period <= clock
      /\ pc' = "done" /\ (failed' <=> failed)
  BY NowType, TimingAssumption DEF IInv, TimingTypeOK, Started, Waited, Return, Moments
<1>2. useconds_since(time) \in Int
  BY <1>1, TimingAssumption DEF useconds_since
<1>3. /\ at' \in [Moments -> Nat] /\ at'["started"] = at["started"]
      /\ at'["returned"] = clock
  BY <1>1 DEF Return, Mark, Moments
<1>f. failed' \in BOOLEAN
  BY DEF IInv, TimingTypeOK, Return
<1>4. TimingTypeOK'
  BY <1>1, <1>2, <1>3, <1>f DEF IInv, TimingTypeOK, Return
<1>5. Started'
  BY <1>1, <1>3 DEF Started, Return
<1>6. NeverTooShort'
  <2>1. period' = period
    BY DEF Return
  <2>2. ~ failed => clock - at["started"] >= period
    BY <1>1
  <2> QED
    BY <1>1, <1>3, <2>1, <2>2 DEF NeverTooShort, TrueTime
<1> QED BY <1>1, <1>4, <1>5, <1>6 DEF IInv, Measured, ExcessIsWraps, Waited

LEMMA TickStep == IInv /\ Tick => IInv'
<1> SUFFICES ASSUME IInv, Tick
             PROVE  IInv'
  OBVIOUS
<1>1. /\ clock \in Nat /\ clock' = clock + 1 /\ period \in Nat
      /\ at["started"] \in Nat /\ at["measured"] \in Nat
      /\ UNCHANGED <<caller, period, pc, time, wake, result, failed, at>>
  BY TimingAssumption DEF IInv, TimingTypeOK, Tick, Moments
<1>2. TimingTypeOK'
  BY <1>1 DEF IInv, TimingTypeOK
<1>3. Started' /\ Measured' /\ Waited'
  BY <1>1 DEF IInv, Started, Measured, Waited
<1>4. ExcessIsWraps' /\ NeverTooShort'
  BY <1>1 DEF IInv, ExcessIsWraps, NeverTooShort, SecondOf, TrueTime
<1> QED BY <1>2, <1>3, <1>4 DEF IInv

LEMMA InvStep == IInv /\ [TimingNext]_timing_vars => IInv'
<1>1. IInv /\ UNCHANGED timing_vars => IInv'
  BY DEF timing_vars, IInv, TimingTypeOK, Started, Measured, ExcessIsWraps, Waited,
         NeverTooShort, SecondOf, TrueTime
<1> QED BY <1>1, CallStep, LoopOnStep, MeasureStep, AwakeStep, SleepFailsStep, ReturnStep, TickStep DEF TimingNext

LEMMA Invariance == TimingSpec => []IInv
BY InvInit, InvStep, PTL DEF TimingSpec

-----------------------------------------------------------------------------
(***************************************************************************)
(* The variables of a timed call keep their types; in particular, what     *)
(* enforce_delay keeps is a moment within a second.                        *)
(***************************************************************************)
THEOREM TypeCorrect == TimingSpec => []TimingTypeOK
<1>1. IInv => TimingTypeOK
  BY DEF IInv
<1> QED BY <1>1, Invariance, PTL

(***************************************************************************)
(* However long a second, a period and the body of the call are, a call    *)
(* whose usleep does not fail takes at least its period.                   *)
(***************************************************************************)
THEOREM CallsTakeTheirPeriod == TimingSpec => []NeverTooShort
<1>1. IInv => NeverTooShort
  BY DEF IInv
<1> QED BY <1>1, Invariance, PTL

(***************************************************************************)
(* For any length of a second and any period: a sleep ends with the period *)
(* if the body did not run over the end of a second.                       *)
(***************************************************************************)
THEOREM SleepsEndWithThePeriod == TimingSpec => []SleepsForWhatIsLeft
<1>1. IInv => SleepsForWhatIsLeft
  <2> SUFFICES ASSUME IInv, pc = "sleep",
                      SecondOf("started") = SecondOf("measured")
               PROVE  wake = at["started"] + period
    BY DEF SleepsForWhatIsLeft
  <2>1. /\ wake \in Int /\ period \in Int /\ at["started"] \in Int
        /\ at["measured"] \in Nat
    BY TimingAssumption DEF IInv, TimingTypeOK, Moments
  <2>2. SecondOf("measured") \in Int
    BY <2>1, Divided DEF SecondOf
  <2>3. wake - (at["started"] + period) = 0
    BY <2>2, TimingAssumption DEF IInv, ExcessIsWraps
  <2> QED
    BY <2>1, <2>3
<1> QED BY <1>1, Invariance, PTL

-----------------------------------------------------------------------------
(* Loop threads.                                                           *)

\* While the owner can still call anything, the object exists.
OwnerHasObject == owner # "done" => object = "alive"

\* The inductive invariant.
LoopInv ==
  /\ LoopTypeOK
  /\ OwnerHasObject
  /\ RunningIsHeldOrDetached
  /\ DisposedIsQuiet

LEMMA LoopInvInit == LoopInit => LoopInv
BY DEF LoopInit, LoopInv, LoopTypeOK, OwnerHasObject, RunningIsHeldOrDetached,
       DisposedIsQuiet, Running

(* What the owner's calls and returns do, one action at a time.            *)
LEMMA OwnerStep ==
  ASSUME LoopInv, start \/ join \/ detach \/ dispose \/ Returns
  PROVE  LoopInv'
<1> USE DEF LoopInv
<1>1. CASE start
  <2>1. PICK t \in Unused :
          /\ stage' = [stage EXCEPT ![t] = "test"]
          /\ IF handle = NoThread
             THEN handle' = t /\ UNCHANGED <<owner, object>>
             ELSE Terminate("ended_by_start") /\ UNCHANGED handle
    BY <1>1 DEF start
  <2>2. t \in Threads /\ UNCHANGED <<detached, halt>> /\ object = "alive"
    BY <1>1 DEF start, Ready, Unused
  <2>3. CASE handle = NoThread
    <3>1. Running \subseteq detached
      BY <2>2, <2>3, LoopThreadAssumption DEF RunningIsHeldOrDetached, Running
    <3>2. Running' \subseteq Running \cup {t}
      BY <2>1, <2>2 DEF Running, LoopTypeOK
    <3> QED
      BY <2>1, <2>2, <2>3, <3>1, <3>2
         DEF LoopTypeOK, OwnerHasObject, RunningIsHeldOrDetached,
             DisposedIsQuiet
  <2>4. CASE handle # NoThread
    BY <2>1, <2>2, <2>4
       DEF LoopTypeOK, Terminate, OwnerHasObject, RunningIsHeldOrDetached,
           DisposedIsQuiet
  <2> QED
    BY <2>3, <2>4
<1>2. CASE join
  BY <1>2 DEF join, Ready, LoopTypeOK, OwnerHasObject,
              RunningIsHeldOrDetached, DisposedIsQuiet, Running
<1>3. CASE detach
  BY <1>3 DEF detach, Ready, LoopTypeOK, OwnerHasObject,
              RunningIsHeldOrDetached, DisposedIsQuiet, Running
<1>4. CASE dispose
  BY <1>4 DEF dispose, Ready, Terminate, LoopTypeOK, OwnerHasObject,
              RunningIsHeldOrDetached, DisposedIsQuiet, Running
<1>5. CASE Returns
  <2>1. Joinable /\ handle' = NoThread /\ UNCHANGED <<stage, detached, halt>>
    BY <1>5 DEF Returns, JoinReturns, DisposeReturns
  <2>2. object = "alive"
    BY <1>5 DEF Returns, JoinReturns, DisposeReturns, OwnerHasObject
  <2>3. Running \subseteq detached
    BY <2>1, <2>2 DEF RunningIsHeldOrDetached, Running, Joinable
  <2>4. Running' = Running
    BY <2>1 DEF Running
  <2> QED
    BY <1>5, <2>1, <2>2, <2>3, <2>4
       DEF Returns, JoinReturns, DisposeReturns, LoopTypeOK,
           OwnerHasObject, RunningIsHeldOrDetached, DisposedIsQuiet
<1> QED
  BY <1>1, <1>2, <1>3, <1>4, <1>5

(* A step of a thread starts none and forgets none.                        *)
LEMMA ThreadStep ==
  ASSUME LoopInv, NEW t \in Threads, main(t)
  PROVE  LoopInv'
<1> USE DEF LoopInv
<1>1. PICK from \in {"test", "work", "delay"},
           to \in {"exited", "test", "work", "delay"} : Step(t, from, to)
  BY DEF main, TestHalt, Work, Delay
<1>2. t \in Running
  BY <1>1 DEF Step, Running
<1>3. Running' \subseteq Running
  BY <1>1, <1>2 DEF Step, Running, LoopTypeOK
<1> QED
  BY <1>1, <1>3 DEF Step, LoopTypeOK, OwnerHasObject,
                    RunningIsHeldOrDetached, DisposedIsQuiet

LEMMA LoopInvStep == LoopInv /\ [LoopNext]_loop_vars => LoopInv'
<1> SUFFICES ASSUME LoopInv, [LoopNext]_loop_vars PROVE LoopInv'
  OBVIOUS
<1>1. CASE UNCHANGED loop_vars
  BY <1>1 DEF loop_vars, LoopInv, LoopTypeOK, OwnerHasObject,
              RunningIsHeldOrDetached, DisposedIsQuiet, Running
<1> QED
  BY <1>1, OwnerStep, ThreadStep DEF LoopNext, Finished

LEMMA LoopInvHolds == LoopSpec => []LoopInv
BY LoopInvInit, LoopInvStep, PTL DEF LoopSpec

(* The variables have the values their declarations say.                   *)
THEOREM LoopTypeCorrect == LoopSpec => []LoopTypeOK
BY LoopInvHolds, PTL DEF LoopInv

(* Every running thread is held by inner or was detached.                  *)
THEOREM NoThreadIsForgotten == LoopSpec => []RunningIsHeldOrDetached
BY LoopInvHolds, PTL DEF LoopInv

(* No thread that was not detached outlives its object.                    *)
THEOREM NoThreadOutlivesItsObject == LoopSpec => []DisposedIsQuiet
BY LoopInvHolds, PTL DEF LoopInv
=============================================================================
