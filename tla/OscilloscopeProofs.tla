------------------------- MODULE OscilloscopeProofs -------------------------
(***************************************************************************)
(* Theorems about Oscilloscope and OscilloscopeTrace for every set of      *)
(* requests, every set of window sizes and every sampling rate.            *)
(***************************************************************************)
EXTENDS OscilloscopeTrace, SequenceTheorems, TLAPS

-----------------------------------------------------------------------------
(* What the list operations of the oscilloscope do to the set of elements  *)
(* of a list and to the absence of duplicates in it, for every list.       *)

(* push_back: the element joins the set; a new one creates no duplicate.   *)
LEMMA AppendFacts ==
  ASSUME NEW S, NEW s \in Seq(S), NEW x \in S
  PROVE  /\ ToSet(Append(s, x)) = ToSet(s) \cup {x}
         /\ IsInjective(s) /\ x \notin ToSet(s) => IsInjective(Append(s, x))
<1>1. /\ Append(s, x) \in Seq(S)
      /\ DOMAIN Append(s, x) = 1 .. Len(s) + 1
      /\ Append(s, x)[Len(s) + 1] = x
      /\ \A i \in 1 .. Len(s) : Append(s, x)[i] = s[i]
      /\ DOMAIN s = 1 .. Len(s)
      /\ Len(s) \in Nat
  BY AppendProperties, LenProperties
<1>2. \A i \in 1 .. Len(s) + 1 : i \in 1 .. Len(s) \/ i = Len(s) + 1
  BY <1>1
<1>3. ToSet(Append(s, x)) = ToSet(s) \cup {x}
  BY <1>1, <1>2 DEF ToSet
<1>4. ASSUME IsInjective(s), x \notin ToSet(s)
      PROVE  IsInjective(Append(s, x))
  BY <1>1, <1>2, <1>4 DEF ToSet, IsInjective
<1> QED BY <1>3, <1>4

(* splice and repeated push: the sets join; disjoint lists without         *)
(* duplicates join into one without duplicates.                            *)
LEMMA ConcatFacts ==
  ASSUME NEW S, NEW s \in Seq(S), NEW t \in Seq(S)
  PROVE  /\ ToSet(s \o t) = ToSet(s) \cup ToSet(t)
         /\ IsInjective(s) /\ IsInjective(t) /\ ToSet(s) \cap ToSet(t) = {}
              => IsInjective(s \o t)
<1> DEFINE n == Len(s)
           m == Len(t)
<1>1. /\ DOMAIN s = 1 .. n /\ DOMAIN t = 1 .. m /\ n \in Nat /\ m \in Nat
      /\ DOMAIN (s \o t) = 1 .. n + m
      /\ \A i \in 1 .. n + m :
           (s \o t)[i] = IF i <= n THEN s[i] ELSE t[i - n]
  BY ConcatProperties, LenProperties
<1> HIDE DEF n, m
<1>2. \A i \in 1 .. n : i \in 1 .. n + m /\ (s \o t)[i] = s[i]
  BY <1>1
<1>3. \A i \in 1 .. m : i + n \in 1 .. n + m /\ (s \o t)[i + n] = t[i]
  BY <1>1
<1>4. \A i \in 1 .. n + m :
        \/ i \in 1 .. n /\ (s \o t)[i] = s[i]
        \/ i - n \in 1 .. m /\ i = (i - n) + n /\ (s \o t)[i] = t[i - n]
  BY <1>1
<1>5. ToSet(s \o t) = ToSet(s) \cup ToSet(t)
  <2>1. ToSet(s \o t) \subseteq ToSet(s) \cup ToSet(t)
    BY <1>1, <1>4 DEF ToSet
  <2>2. ToSet(s) \subseteq ToSet(s \o t)
    BY <1>1, <1>2 DEF ToSet
  <2>3. ToSet(t) \subseteq ToSet(s \o t)
    BY <1>1, <1>3 DEF ToSet
  <2> QED BY <2>1, <2>2, <2>3
<1>6. ASSUME IsInjective(s), IsInjective(t), ToSet(s) \cap ToSet(t) = {},
             NEW i \in 1 .. n + m, NEW j \in 1 .. n + m,
             (s \o t)[i] = (s \o t)[j]
      PROVE  i = j
  <2>1. \A k \in 1 .. n, l \in 1 .. m : s[k] # t[l]
    BY <1>1, <1>6 DEF ToSet
  <2>2. CASE i \in 1 .. n /\ (s \o t)[i] = s[i]
    BY <1>1, <1>4, <1>6, <2>1, <2>2 DEF IsInjective
  <2>3. CASE i - n \in 1 .. m /\ (s \o t)[i] = t[i - n]
    <3>1. CASE j \in 1 .. n /\ (s \o t)[j] = s[j]
      BY <1>6, <2>1, <2>3, <3>1
    <3>2. CASE j - n \in 1 .. m /\ (s \o t)[j] = t[j - n]
      <4>1. i - n = j - n
        BY <1>1, <1>6, <2>3, <3>2 DEF IsInjective
      <4> QED BY <4>1, <1>1, <1>6
    <3> QED BY <3>1, <3>2, <1>4, <1>6
  <2> QED BY <2>2, <2>3, <1>4, <1>6
<1>7. IsInjective(s) /\ IsInjective(t) /\ ToSet(s) \cap ToSet(t) = {}
        => IsInjective(s \o t)
  BY <1>1, <1>6 DEF IsInjective
<1> QED BY <1>5, <1>7

(* pop: exactly the first element leaves.                                  *)
LEMMA TailFacts ==
  ASSUME NEW S, NEW s \in Seq(S), s # <<>>, IsInjective(s)
  PROVE  /\ ToSet(Tail(s)) = ToSet(s) \ {Head(s)}
         /\ Head(s) \in ToSet(s)
         /\ IsInjective(Tail(s))
<1>1. /\ Len(s) \in Nat \ {0} /\ DOMAIN s = 1 .. Len(s)
      /\ Tail(s) \in Seq(S)
      /\ DOMAIN Tail(s) = 1 .. Len(s) - 1
      /\ \A i \in 1 .. Len(s) - 1 : Tail(s)[i] = s[i + 1]
      /\ Head(s) = s[1]
  BY EmptySeq, LenProperties, HeadTailProperties
<1>2. \A i \in 1 .. Len(s) - 1 : i + 1 \in 1 .. Len(s) /\ i + 1 # 1
  BY <1>1
<1>3. \A i \in 1 .. Len(s) : i = 1 \/ i - 1 \in 1 .. Len(s) - 1
  BY <1>1
<1>4. 1 \in 1 .. Len(s)
  BY <1>1
<1>5. ToSet(Tail(s)) = ToSet(s) \ {Head(s)}
  <2>1. ASSUME NEW i \in 1 .. Len(s) - 1
        PROVE  s[i + 1] \in ToSet(s) \ {Head(s)}
    BY <1>1, <1>2, <1>4 DEF ToSet, IsInjective
  <2>2. ASSUME NEW i \in 1 .. Len(s), s[i] # Head(s)
        PROVE  s[i] \in ToSet(Tail(s))
    <3>1. i - 1 \in 1 .. Len(s) - 1 /\ (i - 1) + 1 = i
      BY <1>1, <1>3, <2>2
    <3>2. Tail(s)[i - 1] = s[i]
      BY <1>1, <3>1
    <3> QED BY <1>1, <3>1, <3>2 DEF ToSet
  <2> QED BY <1>1, <2>1, <2>2 DEF ToSet
<1>6. IsInjective(Tail(s))
  <2>1. ASSUME NEW i \in 1 .. Len(s) - 1, NEW j \in 1 .. Len(s) - 1,
               Tail(s)[i] = Tail(s)[j]
        PROVE  i = j
    <3>1. s[i + 1] = s[j + 1]
      BY <1>1, <2>1
    <3>2. i + 1 = j + 1
      BY <1>1, <1>2, <3>1 DEF IsInjective
    <3> QED BY <3>2
  <2> QED BY <1>1, <2>1 DEF IsInjective
<1> QED BY <1>1, <1>4, <1>5, <1>6 DEF ToSet

(* erase at an iterator: the elements behind it move up by one.            *)
LEMMA RemoveAtElements ==
  ASSUME NEW S, NEW s \in Seq(S), NEW c \in 1 .. Len(s)
  PROVE  /\ RemoveAt(s, c) \in Seq(S)
         /\ Len(RemoveAt(s, c)) = Len(s) - 1
         /\ \A i \in 1 .. Len(s) - 1 :
              RemoveAt(s, c)[i] = IF i < c THEN s[i] ELSE s[i + 1]
<1> DEFINE n == Len(s)
           t == RemoveAt(s, c)
           a == SubSeq(s, 1, c - 1)
           b == SubSeq(s, c + 1, n)
<1>1. n \in Nat /\ DOMAIN s = 1 .. n /\ c \in 1 .. n /\ \A i \in 1 .. n : s[i] \in S
  BY LenProperties, ElementOfSeq
<1>2. /\ a \in Seq(S) /\ Len(a) = c - 1
      /\ \A i \in 1 .. c - 1 : a[i] = s[i]
  <2>1. \A i \in 1 .. c - 1 : s[i] \in S
    BY <1>1
  <2> HIDE DEF n, t
  <2> QED BY <1>1, <2>1, SubSeqProperties
<1>3. /\ b \in Seq(S) /\ Len(b) = n - c
      /\ \A i \in 1 .. n - c : b[i] = s[c + i]
  <2>1. \A i \in c + 1 .. n : s[i] \in S
    BY <1>1
  <2> HIDE DEF t, a, n
  <2> QED BY <1>1, <2>1, SubSeqProperties
<1>4. t = a \o b
  BY DEF RemoveAt
<1> HIDE DEF n, t, a, b
<1>5. t \in Seq(S) /\ Len(t) = n - 1
  <2>1. /\ a \o b \in Seq(S)
        /\ Len(a \o b) = Len(a) + Len(b)
    BY <1>2, <1>3, ConcatProperties, Zenon
  <2>2. (c - 1) + (n - c) = n - 1
    BY <1>1
  <2> QED BY <1>2, <1>3, <1>4, <2>1, <2>2
<1>6. ASSUME NEW i \in 1 .. n - 1
      PROVE  t[i] = IF i < c THEN s[i] ELSE s[i + 1]
  <2>1. t[i] = IF i <= c - 1 THEN a[i] ELSE b[i - (c - 1)]
    BY <1>1, <1>2, <1>3, <1>4, ConcatProperties
  <2>2. CASE i < c
    BY <1>1, <1>2, <2>1, <2>2
  <2>3. CASE ~ (i < c)
    <3>1. i - (c - 1) \in 1 .. n - c /\ c + (i - (c - 1)) = i + 1
      BY <1>1, <2>3
    <3> QED BY <1>1, <1>3, <2>1, <2>3, <3>1
  <2> QED BY <2>2, <2>3
<1> QED BY <1>5, <1>6 DEF n, t

(* erase at an iterator: exactly that element leaves.                      *)
LEMMA RemoveAtFacts ==
  ASSUME NEW S, NEW s \in Seq(S), NEW c \in 1 .. Len(s), IsInjective(s)
  PROVE  /\ RemoveAt(s, c) \in Seq(S)
         /\ ToSet(RemoveAt(s, c)) = ToSet(s) \ {s[c]}
         /\ IsInjective(RemoveAt(s, c))
<1> DEFINE n == Len(s)
           t == RemoveAt(s, c)
<1>1. n \in Nat /\ DOMAIN s = 1 .. n /\ c \in 1 .. n
  BY LenProperties
<1>2. /\ t \in Seq(S) /\ DOMAIN t = 1 .. n - 1
      /\ \A i \in 1 .. n - 1 : t[i] = IF i < c THEN s[i] ELSE s[i + 1]
  BY RemoveAtElements, LenProperties
<1> HIDE DEF n, t
<1>3. \A i \in 1 .. n - 1 : t[i] \in ToSet(s) \ {s[c]}
  <2>1. ASSUME NEW i \in 1 .. n - 1
        PROVE  \E j \in 1 .. n : j # c /\ t[i] = s[j]
    <3>1. CASE i < c
      BY <1>1, <1>2, <3>1
    <3>2. CASE ~ (i < c)
      BY <1>1, <1>2, <3>2
    <3> QED BY <3>1, <3>2
  <2> QED BY <1>1, <2>1 DEF ToSet, IsInjective
<1>4. ASSUME NEW j \in 1 .. n, j # c
      PROVE  s[j] \in ToSet(t)
  <2>1. \E i \in 1 .. n - 1 : t[i] = s[j]
    <3>1. CASE j < c
      BY <1>1, <1>2, <3>1
    <3>2. CASE j > c
      <4>1. j - 1 \in 1 .. n - 1 /\ ~ (j - 1 < c) /\ (j - 1) + 1 = j
        BY <1>1, <3>2
      <4>2. t[j - 1] = s[j]
        BY <1>2, <4>1
      <4> QED BY <4>1, <4>2
    <3> QED BY <1>1, <1>4, <3>1, <3>2
  <2> QED BY <1>2, <2>1 DEF ToSet
<1>5. ToSet(t) = ToSet(s) \ {s[c]}
  <2>1. ToSet(t) \subseteq ToSet(s) \ {s[c]}
    BY <1>2, <1>3 DEF ToSet
  <2>2. ToSet(s) \ {s[c]} \subseteq ToSet(t)
    BY <1>1, <1>4 DEF ToSet
  <2> QED BY <2>1, <2>2
<1>6. ASSUME NEW i \in 1 .. n - 1, NEW j \in 1 .. n - 1, t[i] = t[j]
      PROVE  i = j
  <2> DEFINE f(k) == IF k < c THEN k ELSE k + 1
  <2>1. t[i] = s[f(i)] /\ t[j] = s[f(j)]
    BY <1>2
  <2>2. f(i) \in 1 .. n /\ f(j) \in 1 .. n
    BY <1>1
  <2>3. f(i) = f(j)
    BY <1>1, <1>6, <2>1, <2>2 DEF IsInjective
  <2> QED BY <1>1, <2>3
<1>7. IsInjective(t)
  BY <1>2, <1>6 DEF IsInjective
<1> QED BY <1>2, <1>5, <1>7 DEF t

(* A list appended to at its end, and one whose first element is taken.    *)
LEMMA ConcatAppend ==
  ASSUME NEW S, NEW s \in Seq(S), NEW t \in Seq(S), NEW x \in S
  PROVE  s \o Append(t, x) = Append(s \o t, x)
<1>1. <<x>> \in Seq(S) /\ s \o t \in Seq(S)
  BY ConcatProperties
<1>2. Append(t, x) = t \o <<x>> /\ Append(s \o t, x) = (s \o t) \o <<x>>
  BY <1>1, AppendIsConcat
<1>3. s \o (t \o <<x>>) = (s \o t) \o <<x>>
  BY <1>1, ConcatAssociative
<1> QED BY <1>2, <1>3

LEMMA ConcatTail ==
  ASSUME NEW S, NEW s \in Seq(S), NEW t \in Seq(S), s # <<>>
  PROVE  /\ s \o t # <<>> /\ Head(s \o t) = Head(s)
         /\ Tail(s \o t) = Tail(s) \o t
<1> DEFINE u == s \o t
           v == Tail(s) \o t
<1>1. /\ Len(s) \in Nat \ {0} /\ Len(t) \in Nat
      /\ Tail(s) \in Seq(S) /\ Len(Tail(s)) = Len(s) - 1
      /\ \A i \in 1 .. Len(Tail(s)) : Tail(s)[i] = s[i + 1]
      /\ Head(s) = s[1]
  BY EmptySeq, LenProperties, HeadTailProperties
<1>2. /\ u \in Seq(S) /\ Len(u) = Len(s) + Len(t)
      /\ \A i \in 1 .. Len(s) + Len(t) :
           u[i] = IF i <= Len(s) THEN s[i] ELSE t[i - Len(s)]
  BY ConcatProperties
<1>3. /\ v \in Seq(S) /\ Len(v) = Len(s) - 1 + Len(t)
      /\ \A i \in 1 .. Len(s) - 1 + Len(t) :
           v[i] = IF i <= Len(s) - 1 THEN Tail(s)[i] ELSE t[i - (Len(s) - 1)]
  BY <1>1, ConcatProperties
<1> HIDE DEF u, v
<1>4. u # <<>> /\ Head(u) = s[1]
  <2>1. Len(u) # 0 /\ u[1] = s[1]
    BY <1>1, <1>2
  <2>2. u # <<>>
    BY <2>1, EmptySeq
  <2> QED BY <1>2, <2>1, <2>2, HeadTailProperties
<1>5. /\ Tail(u) \in Seq(S) /\ Len(Tail(u)) = Len(v)
      /\ \A i \in 1 .. Len(v) : Tail(u)[i] = u[i + 1]
  BY <1>1, <1>2, <1>3, <1>4, HeadTailProperties
<1>6. ASSUME NEW i \in 1 .. Len(v)
      PROVE  Tail(u)[i] = v[i]
  <2>1. CASE i <= Len(s) - 1
    BY <1>1, <1>2, <1>3, <1>5, <2>1
  <2>2. CASE ~ (i <= Len(s) - 1)
    BY <1>1, <1>2, <1>3, <1>5, <2>2
  <2> QED BY <2>1, <2>2
<1>7. Tail(u) = v
  BY <1>3, <1>5, <1>6, SeqEqual
<1> QED BY <1>1, <1>4, <1>7 DEF u, v

LEMMA EmptyFacts == ToSet(<<>>) = {} /\ IsInjective(<<>>)
BY DEF ToSet, IsInjective

-----------------------------------------------------------------------------
(* Type correctness.                                                       *)

(* Truncating size * sr / 1e6 gives a number of samples.                   *)
LEMMA NumSamplesType ==
  ASSUME NEW size \in Sizes
  PROVE  NumSamples(size) \in Nat
<1>1. size \in Nat /\ sr \in Nat
  BY OscilloscopeAssumption
<1>2. size * sr \in Nat
  BY <1>1
<1>3. \A n \in Nat : n \div MicrosPerSecond \in Nat
  BY SMT DEF MicrosPerSecond
<1> QED BY <1>2, <1>3 DEF NumSamples

LEMMA TypeInit == Init => TypeOK
BY EmptySeq DEF Init, TypeOK, Threads, Free, Levels, LOW, HIGH

LEMMA TypeStep == TypeOK /\ [Next]_vars => TypeOK'
<1> SUFFICES ASSUME TypeOK, [Next]_vars
             PROVE  TypeOK'
  OBVIOUS
<1> USE DEF TypeOK
<1>1. ASSUME NEW level \in Levels, Write(level)
      PROVE  TypeOK'
  BY <1>1 DEF Write, sampleVars, windowVars
<1>2. ASSUME NEW r \in Requests, NEW size \in Sizes, FillWindow(r, size)
      PROVE  TypeOK'
  <2>1. /\ Append(requested_windows, r) \in Seq(Requests)
        /\ <<>> \in Seq(Levels \cup {Junk})
    BY AppendProperties, EmptySeq
  <2> QED BY <1>2, <2>1, NumSamplesType
          DEF FillWindow, NewRequest, sampleVars, windowVars
<1>3. ASSUME NEW r \in Requests, NEW size \in Sizes, NEW level \in Levels,
             FillWindowOnTrigger(r, size, level)
      PROVE  TypeOK'
  <2>1. /\ Append(high_triggers, r) \in Seq(Requests)
        /\ Append(low_triggers, r) \in Seq(Requests)
        /\ <<>> \in Seq(Levels \cup {Junk})
    BY AppendProperties, EmptySeq
  <2> QED BY <1>3, <2>1, NumSamplesType
          DEF FillWindowOnTrigger, NewRequest, sampleVars, windowVars
<1>4. ASSUME SamplerLoop \/ FlusherLoop
      PROVE  TypeOK'
  BY <1>4 DEF SamplerLoop, FlusherLoop, Loop, Step, Goto, Threads, sampleVars,
              windowVars
<1>5. CASE TakeSample
  <2>1. /\ requested_windows \o high_triggers \in Seq(Requests)
        /\ requested_windows \o low_triggers \in Seq(Requests)
        /\ <<>> \in Seq(Requests)
    BY ConcatProperties, EmptySeq
  <2>2. /\ high_triggers' \in Seq(Requests)
        /\ low_triggers' \in Seq(Requests)
        /\ requested_windows' \in Seq(Requests)
    BY <1>5, <2>1, Zenon DEF TakeSample
  <2>3. pc' \in [Threads -> {"loop", "sample", "fill", "queue", "notify",
                             "flush", "wait", "callback", "exited"}]
    BY <1>5 DEF TakeSample, Goto
  <2>4. /\ last_sample' = value /\ sample' = value /\ cursor' = 1
        /\ requests_lock' = "sampler"
        /\ UNCHANGED <<value, asked, num_samples, data, newly_filled_windows,
                       filled_windows, to_flush, delivered, filled_lock, halt,
                       object>>
    BY <1>5, Zenon DEF TakeSample
  <2> QED BY <2>2, <2>3, <2>4
<1>6. CASE PushSample
  <2> DEFINE r == requested_windows[cursor]
  <2>1. cursor \in 1 .. Len(requested_windows) /\ r \in Requests
    <3>1. cursor <= Len(requested_windows)
      BY <1>6, Zenon DEF PushSample, Full, TakeOut, StepOver
    <3>2. cursor \in 1 .. Len(requested_windows)
      BY <3>1, LenProperties
    <3> QED BY <3>2, ElementOfSeq
  <2>2. data' \in [Requests -> Seq(Levels \cup {Junk})]
    <3>1. Append(data[r], sample) \in Seq(Levels \cup {Junk})
      BY <2>1, AppendProperties
    <3> QED BY <1>6, <2>1, <3>1 DEF PushSample, Full, TakeOut, StepOver
  <2>3. Append(newly_filled_windows, r) \in Seq(Requests)
    BY <2>1, AppendProperties
  <2>4. RemoveAt(requested_windows, cursor) \in Seq(Requests)
    BY <2>1, RemoveAtElements
  <2>5. cursor' \in Nat \ {0}
    <3>1. cursor' = cursor \/ cursor' = cursor + 1
      BY <1>6, Zenon DEF PushSample, Full, TakeOut, StepOver
    <3> QED BY <3>1
  <2>6. /\ newly_filled_windows' \in Seq(Requests)
        /\ requested_windows' \in Seq(Requests)
    BY <1>6, <2>3, <2>4, Zenon DEF PushSample, Full, TakeOut, StepOver
  <2>7. UNCHANGED <<value, last_sample, sample, asked, num_samples,
                    high_triggers, low_triggers, filled_windows, to_flush,
                    delivered, requests_lock, filled_lock, pc, halt, object>>
    BY <1>6, Zenon DEF PushSample, Full, TakeOut, StepOver
  <2> QED BY <2>2, <2>5, <2>6, <2>7
<1>7. CASE EndFill
  BY <1>7 DEF EndFill, Goto, Threads, sampleVars, windowVars, Free
<1>8. CASE QueueFilled
  <2>1. filled_windows \o newly_filled_windows \in Seq(Requests)
    BY ConcatProperties, EmptySeq
  <2>2. filled_windows' \in Seq(Requests) /\ newly_filled_windows' \in Seq(Requests)
    BY <1>8, <2>1, EmptySeq, Zenon DEF QueueFilled
  <2>3. pc' \in [Threads -> {"loop", "sample", "fill", "queue", "notify",
                             "flush", "wait", "callback", "exited"}]
    BY <1>8 DEF QueueFilled, Goto
  <2>4. UNCHANGED <<value, sampleVars, windowVars, requested_windows, to_flush,
                    delivered, requests_lock, filled_lock, halt, object>>
    BY <1>8, Zenon DEF QueueFilled
  <2> QED BY <2>2, <2>3, <2>4 DEF sampleVars, windowVars
<1>9. CASE Notify
  BY <1>9 DEF Notify, Threads, sampleVars, windowVars
<1>10. CASE CollectFilled
  <2>1. to_flush \o filled_windows \in Seq(Requests) /\ <<>> \in Seq(Requests)
    BY ConcatProperties, EmptySeq
  <2>2. /\ to_flush' \in Seq(Requests) /\ filled_windows' \in Seq(Requests)
        /\ filled_lock' \in {Free, "flusher"}
    BY <1>10, <2>1, Zenon DEF CollectFilled
  <2>3. pc' \in [Threads -> {"loop", "sample", "fill", "queue", "notify",
                             "flush", "wait", "callback", "exited"}]
    BY <1>10 DEF CollectFilled, Goto
  <2>4. UNCHANGED <<value, sampleVars, windowVars, requested_windows,
                    newly_filled_windows, delivered, requests_lock, halt,
                    object>>
    BY <1>10, Zenon DEF CollectFilled
  <2> QED BY <2>2, <2>3, <2>4 DEF sampleVars, windowVars
<1>11. CASE SpuriousWakeup
  BY <1>11 DEF SpuriousWakeup, Step, Goto, Threads, sampleVars, windowVars
<1>12. CASE Callback
  <2>1. Head(to_flush) \in Requests /\ Tail(to_flush) \in Seq(Requests)
    BY <1>12, HeadTailProperties DEF Callback
  <2>2. Append(delivered, Head(to_flush)) \in Seq(Requests)
    BY <2>1, AppendProperties
  <2> QED BY <1>12, <2>1, <2>2 DEF Callback, sampleVars, windowVars
<1>13. CASE EndFlush
  BY <1>13 DEF EndFlush, Goto, Threads, sampleVars, windowVars, Free
<1>14. CASE Destroy \/ Joiner
  BY <1>14 DEF Destroy, Joiner, FlusherJoined, SamplerJoined, JoinBegin,
               Threads, sampleVars, windowVars
<1>15. CASE Terminated \/ UNCHANGED vars
  BY <1>15 DEF Terminated, vars, sampleVars, windowVars
<1> QED BY <1>1, <1>2, <1>3, <1>4, <1>5, <1>6, <1>7, <1>8, <1>9, <1>10, <1>11,
           <1>12, <1>13, <1>14, <1>15 DEF Next, Sampler, Flusher

(* Every reachable state is well typed: no list ever holds anything but    *)
(* requests, no window anything but levels and uninitialised values.       *)
THEOREM TypeCorrect == Spec => []TypeOK
BY TypeInit, TypeStep, PTL DEF Spec

-----------------------------------------------------------------------------
(* The condition variable.                                                 *)

LEMMA NoLostWakeupStep ==
  TypeOK /\ NoLostWakeup /\ [Next]_vars => NoLostWakeup'
<1> SUFFICES ASSUME TypeOK, NoLostWakeup, [Next]_vars,
                    pc'["flusher"] = "wait", filled_windows' # <<>>
             PROVE  pc'["sampler"] = "notify"
  BY DEF NoLostWakeup
<1>1. pc \in [Threads -> {"loop", "sample", "fill", "queue", "notify",
                          "flush", "wait", "callback", "exited"}]
  BY DEF TypeOK
<1>2. ASSUME UNCHANGED <<pc, filled_windows>>
      PROVE  pc'["sampler"] = "notify"
  BY <1>2 DEF NoLostWakeup
<1>3. CASE \/ \E level \in Levels : Write(level)
           \/ \E r \in Requests, size \in Sizes : FillWindow(r, size)
           \/ \E r \in Requests, size \in Sizes, level \in Levels :
                FillWindowOnTrigger(r, size, level)
  BY <1>2, <1>3, Zenon DEF Write, FillWindow, FillWindowOnTrigger, NewRequest
<1>4. CASE SamplerLoop \/ TakeSample \/ EndFill
  <2>1. /\ pc["sampler"] # "notify"
        /\ pc'["flusher"] = pc["flusher"]
        /\ UNCHANGED filled_windows
    BY <1>1, <1>4 DEF SamplerLoop, Loop, Step, TakeSample, EndFill, Goto, Threads
  <2> QED BY <2>1 DEF NoLostWakeup
<1>5. CASE PushSample \/ Callback \/ Destroy \/ Joiner \/ Terminated
             \/ UNCHANGED vars
  BY <1>2, <1>5, Zenon
     DEF PushSample, TakeOut, StepOver, Callback, Destroy, Joiner, FlusherJoined, SamplerJoined,
         JoinBegin, Terminated, vars
<1>6. CASE QueueFilled
  BY <1>1, <1>6 DEF QueueFilled, Goto, Threads
<1>7. CASE Notify
  BY <1>1, <1>7 DEF Notify, Threads
<1>8. CASE FlusherLoop \/ SpuriousWakeup \/ EndFlush
  BY <1>1, <1>8 DEF FlusherLoop, Loop, Step, SpuriousWakeup, EndFlush, Goto, Threads
<1>9. CASE CollectFilled
  BY <1>9, Zenon DEF CollectFilled
<1> QED BY <1>3, <1>4, <1>5, <1>6, <1>7, <1>8, <1>9 DEF Next, Sampler, Flusher

(* The flusher never sleeps on a filled window unless the sampler is about *)
(* to notify it: releasing filled_lock before notify_one loses no wake-up, *)
(* however many windows, sizes and spurious wake-ups there are.            *)
THEOREM WakeupsAreNotLost == Spec => []NoLostWakeup
<1>1. Init => NoLostWakeup
  BY DEF Init, NoLostWakeup
<1> QED BY <1>1, TypeCorrect, NoLostWakeupStep, PTL DEF Spec

-----------------------------------------------------------------------------
(* The locks and the end of the threads.                                   *)

ClientStep ==
  \/ \E level \in Levels : Write(level)
  \/ \E r \in Requests, size \in Sizes : FillWindow(r, size)
  \/ \E r \in Requests, size \in Sizes, level \in Levels :
       FillWindowOnTrigger(r, size, level)

\* A lock is held by the thread whose code is in its scope, and the other
\* thread never takes it for more than a step.
LocksInv ==
  /\ pc["sampler"] \in {"loop", "sample", "fill", "queue", "notify", "exited"}
  /\ pc["flusher"] \in {"loop", "flush", "wait", "callback", "exited"}
  /\ requests_lock = IF pc["sampler"] = "fill" THEN "sampler" ELSE Free
  /\ filled_lock = IF pc["flusher"] = "callback" THEN "flusher" ELSE Free

\* A thread exits only when its halt is set, and the sampler's is set only
\* when the flusher was joined.
ExitInv ==
  /\ pc["sampler"] = "exited" => halt["sampler"]
  /\ halt["sampler"] => object \in {"joining_sampler", "destroyed"}
  /\ object \in {"joining_sampler", "destroyed"} => pc["flusher"] = "exited"
  /\ object = "destroyed" => pc["sampler"] = "exited"

ThreadInv == LocksInv /\ ExitInv

LEMMA ThreadStep == TypeOK /\ ThreadInv /\ [Next]_vars => ThreadInv'
<1> SUFFICES ASSUME TypeOK, ThreadInv, [Next]_vars PROVE ThreadInv'
  OBVIOUS
<1>1. /\ pc \in [Threads -> {"loop", "sample", "fill", "queue", "notify",
                             "flush", "wait", "callback", "exited"}]
      /\ halt \in [Threads -> BOOLEAN]
      /\ "sampler" \in Threads /\ "flusher" \in Threads
      /\ LocksInv /\ ExitInv
  BY DEF TypeOK, Threads, ThreadInv
<1>2. ASSUME UNCHANGED <<pc, requests_lock, filled_lock, halt, object>>
      PROVE  ThreadInv'
  BY <1>1, <1>2 DEF ThreadInv, LocksInv, ExitInv
<1>3. CASE ClientStep \/ PushSample \/ Callback \/ Terminated \/ UNCHANGED vars
  BY <1>2, <1>3, Zenon
     DEF ClientStep, Write, FillWindow, FillWindowOnTrigger, NewRequest,
         PushSample, Callback, Terminated, vars
<1>4. CASE SamplerLoop \/ TakeSample \/ EndFill \/ QueueFilled
  BY <1>1, <1>4 DEF SamplerLoop, Loop, Step, TakeSample, EndFill, QueueFilled,
     Goto, ThreadInv, LocksInv, ExitInv
<1>5. CASE Notify
  BY <1>1, <1>5 DEF Notify, ThreadInv, LocksInv, ExitInv
<1>6. CASE FlusherLoop \/ SpuriousWakeup \/ EndFlush
  BY <1>1, <1>6 DEF FlusherLoop, Loop, Step, SpuriousWakeup, EndFlush, Goto,
     ThreadInv, LocksInv, ExitInv
<1>7. CASE CollectFilled
  BY <1>1, <1>7 DEF CollectFilled, Goto, ThreadInv, LocksInv, ExitInv
<1>8. CASE Destroy \/ Joiner
  BY <1>1, <1>8 DEF Destroy, Joiner, FlusherJoined, SamplerJoined, JoinBegin,
     ThreadInv, LocksInv, ExitInv
<1> QED
  BY <1>3, <1>4, <1>5, <1>6, <1>7, <1>8 DEF Next, Sampler, Flusher, ClientStep

LEMMA ThreadsHold == Spec => []ThreadInv
<1>1. Init => ThreadInv
  BY DEF Init, ThreadInv, LocksInv, ExitInv, Threads
<1> QED
  BY <1>1, TypeCorrect, ThreadStep, PTL DEF Spec

\* For any clients and any windows: a thread that comes back to take the lock
\* it keeps over several steps finds it free, and the sampler holds none when
\* it waits for that of the flusher, whose callbacks may ask for windows.
THEOREM NobodyKeepsALock == Spec => []LocksAreReleased
<1>1. ThreadInv => LocksAreReleased
  BY DEF ThreadInv, LocksInv, LocksAreReleased, Free
<1> QED
  BY <1>1, ThreadsHold, PTL

\* The reverse order of the members' declarations joins the flusher before it
\* halts the sampler.
THEOREM FlusherExitsFirst == Spec => []SamplerOutlivesFlusher
<1>1. ThreadInv => SamplerOutlivesFlusher
  BY DEF ThreadInv, ExitInv, SamplerOutlivesFlusher
<1> QED
  BY <1>1, ThreadsHold, PTL

-----------------------------------------------------------------------------
(* Conservation of the requests.                                           *)

Places == 1 .. 7

Disjoint(P) == \A l, m \in Places : l # m => P[l] \cap P[m] = {}
Union(P)    == UNION {P[l] : l \in Places}

\* Q is P after the elements of M moved from place a to place b.
IsMove(P, Q, a, b, M) ==
  /\ a # b
  /\ M \subseteq P[a]
  /\ Q[a] = P[a] \ M
  /\ Q[b] = P[b] \cup M
  /\ \A l \in Places : l # a /\ l # b => Q[l] = P[l]

\* Q is P after x entered at place b.
IsEntry(P, Q, b, x) ==
  /\ x \notin Union(P)
  /\ Q[b] = P[b] \cup {x}
  /\ \A l \in Places : l # b => Q[l] = P[l]

(* Moving elements from one of the lists to another keeps the lists        *)
(* disjoint and forgets nobody.                                            *)
LEMMA Move ==
  ASSUME NEW P, NEW Q, NEW a \in Places, NEW b \in Places, NEW M,
         IsMove(P, Q, a, b, M), Disjoint(P)
  PROVE  Disjoint(Q) /\ Union(Q) = Union(P)
<1> USE DEF IsMove
<1>1. \A l \in Places : Q[l] \subseteq P[l] \cup M
  OBVIOUS
<1>2. \A l \in Places : l # b => Q[l] \subseteq P[l] /\ Q[l] \cap M = {}
  BY DEF Disjoint
<1>3. Disjoint(Q)
  <2> SUFFICES ASSUME NEW l \in Places, NEW m \in Places, l # m,
                      NEW x, x \in Q[l], x \in Q[m]
               PROVE  FALSE
    BY DEF Disjoint
  <2>1. CASE l # b /\ m # b
    BY <1>2, <2>1 DEF Disjoint
  <2>2. CASE l = b
    BY <1>2, <2>2 DEF Disjoint
  <2>3. CASE m = b
    BY <1>2, <2>3 DEF Disjoint
  <2> QED BY <2>1, <2>2, <2>3
<1>4. Union(Q) \subseteq Union(P)
  BY <1>1 DEF Union
<1>5. ASSUME NEW l \in Places, NEW x \in P[l]
      PROVE  \E m \in Places : x \in Q[m]
  OBVIOUS
<1>6. Union(P) \subseteq Union(Q)
  BY <1>5 DEF Union
<1> QED BY <1>3, <1>4, <1>6

(* Adding somebody new to one of the lists keeps them disjoint.            *)
LEMMA Enter ==
  ASSUME NEW P, NEW Q, NEW b \in Places, NEW x, IsEntry(P, Q, b, x),
         Disjoint(P)
  PROVE  Disjoint(Q) /\ Union(Q) = Union(P) \cup {x}
<1> USE DEF IsEntry
<1>1. \A l \in Places : x \notin P[l]
  BY DEF Union
<1>2. Disjoint(Q)
  BY <1>1 DEF Disjoint
<1>3. Union(Q) = Union(P) \cup {x}
  <2>1. Union(Q) \subseteq Union(P) \cup {x}
    BY DEF Union
  <2>2. Union(P) \subseteq Union(Q)
    BY DEF Union
  <2>3. x \in Union(Q)
    BY DEF Union
  <2> QED BY <2>1, <2>2, <2>3
<1> QED BY <1>2, <1>3

(* The seven lists, one by one.                                            *)
LEMMA ListsNow ==
  /\ DOMAIN Lists = Places
  /\ Lists[1] = high_triggers /\ Lists[2] = low_triggers
  /\ Lists[3] = requested_windows /\ Lists[4] = newly_filled_windows
  /\ Lists[5] = filled_windows /\ Lists[6] = to_flush /\ Lists[7] = delivered
BY DEF Lists, Places

LEMMA ListsNext ==
  /\ DOMAIN Lists' = Places
  /\ Lists'[1] = high_triggers' /\ Lists'[2] = low_triggers'
  /\ Lists'[3] = requested_windows' /\ Lists'[4] = newly_filled_windows'
  /\ Lists'[5] = filled_windows' /\ Lists'[6] = to_flush'
  /\ Lists'[7] = delivered'
BY DEF Lists, Places

(* RequestsConserved as a fact about the tuple of lists and the requests.  *)
SetsOf(T) == [l \in Places |-> ToSet(T[l])]

Conserved(T, A) ==
  /\ A = Union(SetsOf(T))
  /\ Disjoint(SetsOf(T))
  /\ \A l \in Places : IsInjective(T[l])

LEMMA ConservedNow  == RequestsConserved  <=> Conserved(Lists, asked)
<1>1. Members = SetsOf(Lists)
  BY ListsNow DEF Members, SetsOf
<1> QED BY <1>1, ListsNow DEF RequestsConserved, Conserved, Union, Disjoint

LEMMA ConservedNext == RequestsConserved' <=> Conserved(Lists', asked')
<1>1. Members' = SetsOf(Lists')
  BY ListsNext DEF Members, SetsOf
<1> QED BY <1>1, ListsNext DEF RequestsConserved, Conserved, Union, Disjoint

LEMMA ListsType ==
  ASSUME TypeOK
  PROVE  \A l \in Places : Lists[l] \in Seq(Requests)
<1>1. \A l \in Places : l = 1 \/ l = 2 \/ l = 3 \/ l = 4 \/ l = 5 \/ l = 6 \/ l = 7
  BY DEF Places
<1> QED BY <1>1, ListsNow DEF TypeOK

\* U is T after all of list a was appended to list b.
IsSplice(T, U, a, b) ==
  /\ a # b
  /\ U[a] = <<>>
  /\ U[b] = T[b] \o T[a]
  /\ \A l \in Places : l # a /\ l # b => U[l] = T[l]

\* U is T after the element x left list a and was appended to list b.
IsTransfer(T, U, a, b, x) ==
  /\ a # b
  /\ x \in ToSet(T[a])
  /\ ToSet(U[a]) = ToSet(T[a]) \ {x}
  /\ IsInjective(U[a])
  /\ U[b] = Append(T[b], x)
  /\ \A l \in Places : l # a /\ l # b => U[l] = T[l]

\* U is T after x was appended to list b.
IsAppend(T, U, b, x) ==
  /\ U[b] = Append(T[b], x)
  /\ \A l \in Places : l # b => U[l] = T[l]

(* splice, or pushing every element of one list to another.                *)
LEMMA SpliceConserves ==
  ASSUME NEW S, NEW T, NEW U, NEW A, Conserved(T, A),
         \A l \in Places : T[l] \in Seq(S),
         NEW a \in Places, NEW b \in Places, IsSplice(T, U, a, b)
  PROVE  Conserved(U, A)
<1> USE DEF IsSplice
<1> DEFINE P == SetsOf(T)
           Q == SetsOf(U)
<1>1. Disjoint(P) /\ A = Union(P) /\ \A l \in Places : IsInjective(T[l])
  BY DEF Conserved
<1>2. \A l \in Places : P[l] = ToSet(T[l]) /\ Q[l] = ToSet(U[l])
  BY DEF SetsOf
<1>3. Q[a] = P[a] \ P[a]
  BY <1>2, EmptyFacts
<1>4. Q[b] = P[b] \cup P[a]
  <2>1. T[a] \in Seq(S) /\ T[b] \in Seq(S)
    OBVIOUS
  <2>2. ToSet(T[b] \o T[a]) = ToSet(T[b]) \cup ToSet(T[a])
    BY <2>1, ConcatFacts
  <2> QED BY <1>2, <2>2
<1>5. \A l \in Places : l # a /\ l # b => Q[l] = P[l]
  BY <1>2
<1> HIDE DEF P, Q
<1>6. Disjoint(Q) /\ Union(Q) = Union(P)
  <2>1. IsMove(P, Q, a, b, P[a])
    BY <1>3, <1>4, <1>5 DEF IsMove
  <2> QED BY <2>1, <1>1, Move
<1>7. ToSet(T[b]) \cap ToSet(T[a]) = {}
  BY <1>1, <1>2 DEF Disjoint
<1>8. IsInjective(U[b])
  BY <1>1, <1>7, ConcatFacts
<1>9. \A l \in Places : IsInjective(U[l])
  BY <1>1, <1>8, EmptyFacts
<1> QED BY <1>1, <1>6, <1>9 DEF Conserved, Q

(* push_back of one element that another list gives up.                    *)
LEMMA TransferConserves ==
  ASSUME NEW S, NEW T, NEW U, NEW A, Conserved(T, A),
         \A l \in Places : T[l] \in Seq(S),
         NEW a \in Places, NEW b \in Places, NEW x \in S,
         IsTransfer(T, U, a, b, x)
  PROVE  Conserved(U, A)
<1> USE DEF IsTransfer
<1> DEFINE P == SetsOf(T)
           Q == SetsOf(U)
<1>1. Disjoint(P) /\ A = Union(P) /\ \A l \in Places : IsInjective(T[l])
  BY DEF Conserved
<1>2. \A l \in Places : P[l] = ToSet(T[l]) /\ Q[l] = ToSet(U[l])
  BY DEF SetsOf
<1>3. Q[a] = P[a] \ {x} /\ {x} \subseteq P[a]
  BY <1>2
<1>4. Q[b] = P[b] \cup {x}
  <2>1. T[b] \in Seq(S)
    OBVIOUS
  <2>2. ToSet(Append(T[b], x)) = ToSet(T[b]) \cup {x}
    BY <2>1, AppendFacts
  <2> QED BY <1>2, <2>2
<1>5. \A l \in Places : l # a /\ l # b => Q[l] = P[l]
  BY <1>2
<1> HIDE DEF P, Q
<1>6. Disjoint(Q) /\ Union(Q) = Union(P)
  <2>1. IsMove(P, Q, a, b, {x})
    BY <1>3, <1>4, <1>5 DEF IsMove
  <2> QED BY <2>1, <1>1, Move
<1>7. x \notin ToSet(T[b])
  BY <1>1, <1>2 DEF Disjoint
<1>8. IsInjective(U[b])
  BY <1>1, <1>7, AppendFacts
<1>9. \A l \in Places : IsInjective(U[l])
  BY <1>1, <1>8
<1> QED BY <1>1, <1>6, <1>9 DEF Conserved, Q

(* emplace_back of a request nobody has made before.                       *)
LEMMA AskConserves ==
  ASSUME NEW S, NEW T, NEW U, NEW A, Conserved(T, A),
         \A l \in Places : T[l] \in Seq(S),
         NEW b \in Places, NEW x \in S, x \notin A, IsAppend(T, U, b, x)
  PROVE  Conserved(U, A \cup {x})
<1> USE DEF IsAppend
<1> DEFINE P == SetsOf(T)
           Q == SetsOf(U)
<1>1. Disjoint(P) /\ A = Union(P) /\ \A l \in Places : IsInjective(T[l])
  BY DEF Conserved
<1>2. \A l \in Places : P[l] = ToSet(T[l]) /\ Q[l] = ToSet(U[l])
  BY DEF SetsOf
<1>3. Q[b] = P[b] \cup {x}
  <2>1. T[b] \in Seq(S)
    OBVIOUS
  <2>2. ToSet(Append(T[b], x)) = ToSet(T[b]) \cup {x}
    BY <2>1, AppendFacts
  <2> QED BY <1>2, <2>2
<1>4. \A l \in Places : l # b => Q[l] = P[l]
  BY <1>2
<1> HIDE DEF P, Q
<1>5. Disjoint(Q) /\ Union(Q) = Union(P) \cup {x}
  <2>1. IsEntry(P, Q, b, x)
    BY <1>1, <1>3, <1>4 DEF IsEntry
  <2> QED BY <2>1, <1>1, Enter
<1>6. x \notin ToSet(T[b])
  BY <1>1, <1>2 DEF Union
<1>7. \A l \in Places : IsInjective(U[l])
  <2>1. T[b] \in Seq(S) /\ IsInjective(T[b])
    BY <1>1
  <2>2. IsInjective(Append(T[b], x))
    BY <2>1, <1>6, AppendFacts
  <2> QED BY <1>1, <2>2
<1> QED BY <1>1, <1>5, <1>7 DEF Conserved, Q

LEMMA ConservedInit == Init => RequestsConserved
<1> SUFFICES ASSUME Init
             PROVE  Conserved(Lists, asked)
  BY ConservedNow
<1>1. \A l \in Places : Lists[l] = <<>>
  <2>1. \A l \in Places : l = 1 \/ l = 2 \/ l = 3 \/ l = 4 \/ l = 5 \/ l = 6 \/ l = 7
    BY DEF Places
  <2> QED BY <2>1, ListsNow DEF Init
<1>2. \A l \in Places : SetsOf(Lists)[l] = {}
  BY <1>1, EmptyFacts DEF SetsOf
<1>3. asked = {}
  BY DEF Init
<1> QED BY <1>1, <1>2, <1>3, EmptyFacts DEF Conserved, Union, Disjoint

LEMMA ConservedStep ==
  TypeOK /\ RequestsConserved /\ [Next]_vars => RequestsConserved'
<1> SUFFICES ASSUME TypeOK, RequestsConserved, [Next]_vars
             PROVE  Conserved(Lists', asked')
  BY ConservedNext
<1>1. Conserved(Lists, asked)
  BY ConservedNow
<1>2. \A l \in Places : Lists[l] \in Seq(Requests)
  BY ListsType
<1>3. \A l \in Places : l = 1 \/ l = 2 \/ l = 3 \/ l = 4 \/ l = 5 \/ l = 6 \/ l = 7
  BY DEF Places
<1>4. 1 \in Places /\ 2 \in Places /\ 3 \in Places /\ 4 \in Places
        /\ 5 \in Places /\ 6 \in Places /\ 7 \in Places
  BY DEF Places
<1>5. ASSUME UNCHANGED <<asked, high_triggers, low_triggers, requested_windows,
                         newly_filled_windows, filled_windows, to_flush,
                         delivered>>
      PROVE  Conserved(Lists', asked')
  BY <1>1, <1>5 DEF Lists
<1>6. ASSUME NEW r \in Requests, NEW size \in Sizes, FillWindow(r, size)
      PROVE  Conserved(Lists', asked')
  <2>1. r \notin asked /\ asked' = asked \cup {r}
    BY <1>6 DEF FillWindow, NewRequest
  <2>2. IsAppend(Lists, Lists', 3, r)
    BY <1>3, <1>6, ListsNow, ListsNext
      DEF FillWindow, NewRequest, IsAppend
  <2> QED BY <1>1, <1>2, <1>4, <2>1, <2>2, AskConserves
<1>7. ASSUME NEW r \in Requests, NEW size \in Sizes, NEW level \in Levels,
             FillWindowOnTrigger(r, size, level)
      PROVE  Conserved(Lists', asked')
  <2>1. r \notin asked /\ asked' = asked \cup {r}
    BY <1>7 DEF FillWindowOnTrigger, NewRequest
  <2>2. CASE level = HIGH
    <3>1. IsAppend(Lists, Lists', 1, r)
      BY <1>3, <1>7, <2>2, ListsNow, ListsNext
        DEF FillWindowOnTrigger, NewRequest, IsAppend
    <3> QED BY <1>1, <1>2, <1>4, <2>1, <3>1, AskConserves
  <2>3. CASE level # HIGH
    <3>1. IsAppend(Lists, Lists', 2, r)
      BY <1>3, <1>7, <2>3, ListsNow, ListsNext
        DEF FillWindowOnTrigger, NewRequest, IsAppend
    <3> QED BY <1>1, <1>2, <1>4, <2>1, <3>1, AskConserves
  <2> QED BY <2>2, <2>3
<1>8. CASE TakeSample
  <2>1. UNCHANGED <<asked, newly_filled_windows, filled_windows, to_flush,
                    delivered>>
    BY <1>8 DEF TakeSample
  <2>2. CASE /\ requested_windows' = requested_windows \o high_triggers
             /\ high_triggers' = <<>>
             /\ UNCHANGED low_triggers
    <3>1. IsSplice(Lists, Lists', 1, 3)
      BY <1>3, <2>1, <2>2, ListsNow, ListsNext DEF IsSplice
    <3> QED BY <1>1, <1>2, <1>4, <2>1, <3>1, SpliceConserves
  <2>3. CASE /\ requested_windows' = requested_windows \o low_triggers
             /\ low_triggers' = <<>>
             /\ UNCHANGED high_triggers
    <3>1. IsSplice(Lists, Lists', 2, 3)
      BY <1>3, <2>1, <2>3, ListsNow, ListsNext DEF IsSplice
    <3> QED BY <1>1, <1>2, <1>4, <2>1, <3>1, SpliceConserves
  <2>4. CASE UNCHANGED <<requested_windows, high_triggers, low_triggers>>
    BY <1>5, <2>1, <2>4
  <2> QED BY <1>8, <2>2, <2>3, <2>4, Zenon DEF TakeSample
<1>9. CASE PushSample
  <2> DEFINE r == requested_windows[cursor]
  <2>1. UNCHANGED <<asked, high_triggers, low_triggers, filled_windows,
                    to_flush, delivered>>
    BY <1>9, Zenon DEF PushSample, Full, TakeOut, StepOver
  <2>2. cursor \in 1 .. Len(requested_windows)
    <3>1. cursor <= Len(requested_windows)
      BY <1>9, Zenon DEF PushSample, Full, TakeOut, StepOver
    <3> QED BY <3>1, LenProperties DEF TypeOK
  <2>3. CASE UNCHANGED <<newly_filled_windows, requested_windows>>
    BY <1>5, <2>1, <2>3
  <2>4. CASE /\ newly_filled_windows' = Append(newly_filled_windows, r)
             /\ requested_windows' = RemoveAt(requested_windows, cursor)
    <3>1. requested_windows \in Seq(Requests) /\ IsInjective(requested_windows)
      BY <1>1, <1>4, ListsNow DEF Conserved, TypeOK
    <3>2. /\ ToSet(requested_windows') = ToSet(requested_windows) \ {r}
          /\ IsInjective(requested_windows')
      BY <2>2, <2>4, <3>1, RemoveAtFacts
    <3>3. r \in Requests /\ r \in ToSet(requested_windows)
      BY <2>2, <3>1, ElementOfSeq, LenProperties DEF ToSet
    <3>4. /\ ToSet(Lists'[3]) = ToSet(Lists[3]) \ {r} /\ IsInjective(Lists'[3])
          /\ r \in ToSet(Lists[3])
          /\ Lists'[4] = Append(Lists[4], r)
      BY <2>4, <3>2, <3>3, ListsNow, ListsNext
    <3>5. \A l \in Places : l # 3 /\ l # 4 => Lists'[l] = Lists[l]
      BY <1>3, <2>1, ListsNow, ListsNext
    <3> HIDE DEF r
    <3>6. IsTransfer(Lists, Lists', 3, 4, r)
      BY <3>4, <3>5 DEF IsTransfer
    <3> QED BY <1>1, <1>2, <1>4, <2>1, <3>3, <3>6, TransferConserves
  <2> QED BY <1>9, <2>3, <2>4, Zenon DEF PushSample, Full, TakeOut, StepOver
<1>10. CASE QueueFilled
  <2>1. asked' = asked
    BY <1>10 DEF QueueFilled, windowVars
  <2>2. IsSplice(Lists, Lists', 4, 5)
    BY <1>3, <1>10, ListsNow, ListsNext DEF QueueFilled, windowVars, IsSplice
  <2> QED BY <1>1, <1>2, <1>4, <2>1, <2>2, SpliceConserves
<1>11. CASE CollectFilled
  <2>1. asked' = asked
    BY <1>11 DEF CollectFilled, windowVars
  <2>2. IsSplice(Lists, Lists', 5, 6)
    BY <1>3, <1>11, ListsNow, ListsNext DEF CollectFilled, windowVars, IsSplice
  <2> QED BY <1>1, <1>2, <1>4, <2>1, <2>2, SpliceConserves
<1>12. CASE Callback
  <2> DEFINE r == Head(to_flush)
  <2>1. to_flush \in Seq(Requests) /\ to_flush # <<>> /\ IsInjective(to_flush)
    BY <1>1, <1>4, <1>12, ListsNow DEF Callback, Conserved, TypeOK
  <2>2. r \in Requests
    BY <2>1, HeadTailProperties
  <2>3. /\ ToSet(Lists'[6]) = ToSet(Lists[6]) \ {r} /\ IsInjective(Lists'[6])
        /\ r \in ToSet(Lists[6])
    BY <1>12, <2>1, TailFacts, ListsNow, ListsNext DEF Callback
  <2>4. /\ asked' = asked
        /\ Lists'[7] = Append(Lists[7], r)
        /\ \A l \in Places : l # 6 /\ l # 7 => Lists'[l] = Lists[l]
    BY <1>3, <1>12, ListsNow, ListsNext DEF Callback, windowVars
  <2> HIDE DEF r
  <2>5. IsTransfer(Lists, Lists', 6, 7, r)
    BY <2>3, <2>4 DEF IsTransfer
  <2> QED BY <1>1, <1>2, <1>4, <2>2, <2>4, <2>5, TransferConserves
<1>13. CASE \/ \E level \in Levels : Write(level)
            \/ SamplerLoop \/ EndFill \/ Notify
            \/ FlusherLoop \/ SpuriousWakeup \/ EndFlush
            \/ Destroy \/ Joiner \/ Terminated \/ UNCHANGED vars
  BY <1>5, <1>13, Zenon
     DEF Write, SamplerLoop, FlusherLoop, Loop, Step, EndFill, Notify, EndFlush,
         SpuriousWakeup, Destroy, Joiner, FlusherJoined, SamplerJoined,
         JoinBegin, Terminated, vars, windowVars
<1> QED BY <1>6, <1>7, <1>8, <1>9, <1>10, <1>11, <1>12, <1>13
        DEF Next, Sampler, Flusher

(* Every request made is in exactly one of the seven lists, once, at every *)
(* moment: none is lost, none is called back twice.                        *)
THEOREM NoRequestLostOrDuplicated == Spec => []RequestsConserved
BY ConservedInit, ConservedStep, TypeCorrect, PTL DEF Spec

-----------------------------------------------------------------------------
(* Windows leave the sampler full.                                         *)

\* The requests whose window is no longer the sampler's.
Left == Filled \cup Delivered

(* Armed, filling and past requests were all made, are not the same ones,  *)
(* and requested_windows has no duplicate.                                 *)
LEMMA Elsewhere ==
  ASSUME TypeOK, RequestsConserved
  PROVE  /\ Armed \subseteq asked /\ Filling \subseteq asked
         /\ Left \subseteq asked
         /\ Armed \cap Filling = {} /\ Armed \cap Left = {}
         /\ Left \cap Filling = {}
         /\ IsInjective(requested_windows)
<1> DEFINE P == SetsOf(Lists)
<1>1. /\ Disjoint(P) /\ asked = Union(P)
      /\ \A l \in Places : IsInjective(Lists[l])
  BY ConservedNow DEF Conserved
<1>2. /\ Armed = P[1] \cup P[2] /\ Filling = P[3]
      /\ Left = P[4] \cup P[5] \cup P[6] \cup P[7]
  BY ListsNow DEF SetsOf, Armed, Left, Filled, Delivered, Filling, Places
<1>3. /\ 1 \in Places /\ 2 \in Places /\ 3 \in Places /\ 4 \in Places
      /\ 5 \in Places /\ 6 \in Places /\ 7 \in Places
  BY DEF Places
<1>4. IsInjective(requested_windows)
  BY <1>1, <1>3, ListsNow
<1> HIDE DEF P
<1>5. \A l \in Places : P[l] \subseteq asked
  BY <1>1 DEF Union
<1>6. \A l, m \in Places : l # m => P[l] \cap P[m] = {}
  BY <1>1 DEF Disjoint
<1>7. Armed \subseteq asked /\ Filling \subseteq asked /\ Left \subseteq asked
  BY <1>2, <1>3, <1>5
<1>8. Armed \cap Filling = {} /\ Left \cap Filling = {}
  BY <1>2, <1>3, <1>6
<1>9. Armed \cap Left = {}
  BY <1>2, <1>3, <1>6
<1> QED BY <1>4, <1>7, <1>8, <1>9

(* One iteration of the loop over requested_windows.                       *)
LEMMA PushFacts ==
  ASSUME TypeOK, PushSample,
         NEW r, r = requested_windows[cursor]
  PROVE  /\ pc["sampler"] = "fill"
         /\ cursor \in 1 .. Len(requested_windows)
         /\ r \in Requests /\ r \in Filling
         /\ data' = [data EXCEPT ![r] = IF Len(data[r]) < MaxData
                                        THEN Append(data[r], sample)
                                        ELSE data[r]]
         /\ \/ Full(r) /\ TakeOut(r)
            \/ ~ Full(r) /\ StepOver
         /\ UNCHANGED <<last_sample, sample, asked, num_samples,
                        high_triggers, low_triggers, filled_windows,
                        to_flush, delivered, requests_lock, pc>>
<1>1. cursor <= Len(requested_windows)
  BY Zenon DEF PushSample
<1>2. cursor \in 1 .. Len(requested_windows)
  BY <1>1, LenProperties DEF TypeOK
<1>3. r \in Requests /\ r \in Filling
  BY <1>2, ElementOfSeq, LenProperties DEF TypeOK, Filling, ToSet
<1>4. /\ data' = [data EXCEPT ![r] = IF Len(data[r]) < MaxData
                                     THEN Append(data[r], sample)
                                     ELSE data[r]]
      /\ IF Full(r) THEN TakeOut(r) ELSE StepOver
      /\ pc["sampler"] = "fill"
      /\ UNCHANGED <<last_sample, sample, asked, num_samples,
                     high_triggers, low_triggers, filled_windows,
                     to_flush, delivered, requests_lock, pc>>
  BY Zenon DEF PushSample
<1> QED BY <1>2, <1>3, <1>4

\* The sampler pushes the last sample of r's window.
Completes(r) ==
  /\ PushSample
  /\ r = requested_windows[cursor]
  /\ Full(r)
  /\ TakeOut(r)

(* The lists behind the sampler get the window just completed, and no      *)
(* other.                                                                  *)
LEMMA LeftGrows ==
  ASSUME TypeOK, RequestsConserved, [Next]_vars
  PROVE  \/ Left' \subseteq Left
         \/ \E r \in Requests : Completes(r) /\ Left' = Left \cup {r}
<1> SUFFICES ASSUME ~ \E r \in Requests : Completes(r) /\ Left' = Left \cup {r}
             PROVE  Left' \subseteq Left
  OBVIOUS
<1>1. ASSUME UNCHANGED <<newly_filled_windows, filled_windows, to_flush, delivered>>
      PROVE  Left' \subseteq Left
  BY <1>1 DEF Left, Filled, Delivered
<1>2. CASE PushSample
  <2>1. PICK r : r = requested_windows[cursor]
    OBVIOUS
  <2>2. r \in Requests /\ UNCHANGED <<filled_windows, to_flush, delivered>>
    BY <1>2, <2>1, PushFacts
  <2>3. CASE StepOver
    BY <1>1, <2>2, <2>3 DEF StepOver
  <2>4. CASE Full(r) /\ TakeOut(r)
    <3>1. ToSet(newly_filled_windows') = ToSet(newly_filled_windows) \cup {r}
      BY <2>2, <2>4, AppendFacts DEF TakeOut, TypeOK
    <3>2. Left' = Left \cup {r}
      BY <2>2, <3>1 DEF Left, Filled, Delivered
    <3> QED BY <1>2, <2>1, <2>2, <2>4, <3>2 DEF Completes
  <2> QED BY <1>2, <2>1, <2>3, <2>4, PushFacts
<1>3. CASE QueueFilled
  <2>1. /\ ToSet(filled_windows')
             = ToSet(filled_windows) \cup ToSet(newly_filled_windows)
        /\ ToSet(newly_filled_windows') = {}
    BY <1>3, ConcatFacts, EmptyFacts DEF QueueFilled, TypeOK
  <2>2. UNCHANGED <<to_flush, delivered>>
    BY <1>3 DEF QueueFilled
  <2> QED BY <2>1, <2>2 DEF Left, Filled, Delivered
<1>4. CASE CollectFilled
  <2>1. /\ ToSet(to_flush') = ToSet(to_flush) \cup ToSet(filled_windows)
        /\ ToSet(filled_windows') = {}
    BY <1>4, ConcatFacts, EmptyFacts DEF CollectFilled, TypeOK
  <2>2. UNCHANGED <<newly_filled_windows, delivered>>
    BY <1>4 DEF CollectFilled
  <2> QED BY <2>1, <2>2 DEF Left, Filled, Delivered
<1>5. CASE Callback
  <2>1. to_flush \in Seq(Requests) /\ to_flush # <<>> /\ IsInjective(to_flush)
    BY <1>5, ConservedNow, ListsNow DEF Callback, Conserved, TypeOK, Places
  <2>2. /\ ToSet(to_flush') = ToSet(to_flush) \ {Head(to_flush)}
        /\ Head(to_flush) \in ToSet(to_flush)
        /\ Head(to_flush) \in Requests
    BY <1>5, <2>1, TailFacts, HeadTailProperties DEF Callback
  <2>3. ToSet(delivered') = ToSet(delivered) \cup {Head(to_flush)}
    BY <1>5, <2>2, AppendFacts DEF Callback, TypeOK
  <2>4. UNCHANGED <<newly_filled_windows, filled_windows>>
    BY <1>5 DEF Callback
  <2> QED BY <2>2, <2>3, <2>4 DEF Left, Filled, Delivered
<1>6. CASE \/ \E level \in Levels : Write(level)
           \/ \E r \in Requests, size \in Sizes : FillWindow(r, size)
           \/ \E r \in Requests, size \in Sizes, level \in Levels :
                FillWindowOnTrigger(r, size, level)
  BY <1>1, <1>6, Zenon DEF Write, FillWindow, FillWindowOnTrigger, NewRequest
<1>7. CASE \/ SamplerLoop \/ TakeSample \/ EndFill \/ Notify
           \/ FlusherLoop \/ SpuriousWakeup \/ EndFlush
           \/ Destroy \/ Joiner \/ Terminated \/ UNCHANGED vars
  BY <1>1, <1>7, Zenon
     DEF SamplerLoop, FlusherLoop, Loop, Step, TakeSample, EndFill, Notify,
         EndFlush, SpuriousWakeup, Destroy, Joiner, FlusherJoined,
         SamplerJoined, JoinBegin, Terminated, vars
<1> QED BY <1>2, <1>3, <1>4, <1>5, <1>6, <1>7 DEF Next, Sampler, Flusher

(* The requests a step does not leave alone: the one just made, and the    *)
(* one whose window it adds to.                                            *)
LEMMA OthersKeepTheirs ==
  ASSUME TypeOK, [Next]_vars, NEW r \in asked,
         ~ (PushSample /\ r = requested_windows[cursor])
  PROVE  data'[r] = data[r] /\ num_samples'[r] = num_samples[r]
<1>1. r \in Requests
  BY DEF TypeOK
<1>2. ASSUME NEW q \in Requests, NEW size \in Sizes, NewRequest(q, size)
      PROVE  data'[r] = data[r] /\ num_samples'[r] = num_samples[r]
  BY <1>1, <1>2 DEF NewRequest, TypeOK
<1>3. CASE PushSample
  <2>1. PICK q : q = requested_windows[cursor]
    OBVIOUS
  <2>2. /\ q \in Requests /\ q # r /\ UNCHANGED num_samples
        /\ data' = [data EXCEPT ![q] = IF Len(data[q]) < MaxData
                                       THEN Append(data[q], sample)
                                       ELSE data[q]]
    BY <1>3, <2>1, PushFacts
  <2> QED BY <1>1, <2>2 DEF TypeOK
<1>4. CASE \/ \E level \in Levels : Write(level)
           \/ SamplerLoop \/ TakeSample \/ EndFill \/ QueueFilled \/ Notify
           \/ Flusher \/ SpuriousWakeup
           \/ Destroy \/ Joiner \/ Terminated \/ UNCHANGED vars
  <2>1. UNCHANGED <<data, num_samples>>
    BY <1>4, Zenon
       DEF Write, SamplerLoop, TakeSample, EndFill, QueueFilled, Notify,
           Flusher, FlusherLoop, Loop, Step, CollectFilled, Callback, EndFlush,
           SpuriousWakeup, Destroy, Joiner, FlusherJoined, SamplerJoined,
           JoinBegin, Terminated, vars, windowVars
  <2> QED BY <2>1
<1> QED BY <1>2, <1>3, <1>4 DEF Next, Sampler, FillWindow, FillWindowOnTrigger

LEMMA OnlyFullWindowsLeaveStep ==
  TypeOK /\ RequestsConserved /\ OnlyFullWindowsLeave /\ [Next]_vars
    => OnlyFullWindowsLeave'
<1> SUFFICES ASSUME TypeOK, RequestsConserved, OnlyFullWindowsLeave,
                    [Next]_vars, NEW r \in Left'
             PROVE  Len(data'[r]) = num_samples'[r]
  BY DEF OnlyFullWindowsLeave, Left
<1>1. CASE r \in Left
  <2>1. r \in asked /\ r \notin Filling
    BY <1>1, Elsewhere
  <2>2. ~ (PushSample /\ r = requested_windows[cursor])
    BY <2>1, PushFacts
  <2>3. data'[r] = data[r] /\ num_samples'[r] = num_samples[r]
    BY <2>1, <2>2, OthersKeepTheirs
  <2> QED BY <1>1, <2>3 DEF OnlyFullWindowsLeave, Left
<1>2. CASE Completes(r)
  <2>1. PushSample /\ r = requested_windows[cursor] /\ Full(r)
    BY <1>2 DEF Completes
  <2>2. UNCHANGED num_samples
    BY <2>1, PushFacts
  <2> QED BY <2>1, <2>2 DEF Full
<1> QED BY <1>1, <1>2, LeftGrows

(* No callback is ever given, and no list on the way to it ever holds, a   *)
(* window with fewer or more samples than were asked for.                  *)
THEOREM WindowsLeaveFull == Spec => []OnlyFullWindowsLeave
<1>1. Init => OnlyFullWindowsLeave
  BY EmptyFacts DEF Init, OnlyFullWindowsLeave, Filled, Delivered
<1> QED BY <1>1, OnlyFullWindowsLeaveStep, TypeCorrect,
           NoRequestLostOrDuplicated, PTL DEF Spec

-----------------------------------------------------------------------------
(* What the abstract variables armed and ready stand for.                  *)
ArmedFor == [level \in Levels |-> IF level = HIGH THEN ToSet(high_triggers)
                                                  ELSE ToSet(low_triggers)]
Ready == to_flush \o filled_windows \o newly_filled_windows

\* Every window asked for can be kept whole.
Bounded == \A r \in asked : num_samples[r] < MaxData

LEMMA BoundedStep == TypeOK /\ Bounded /\ [Next]_vars => Bounded'
<1> SUFFICES ASSUME TypeOK, Bounded, [Next]_vars
             PROVE  Bounded'
  OBVIOUS
<1>1. ASSUME NEW r \in Requests, NEW size \in Sizes, NewRequest(r, size)
      PROVE  Bounded'
  BY <1>1, OscilloscopeAssumption DEF NewRequest, TypeOK, Bounded
<1>2. CASE UNCHANGED <<asked, num_samples>>
  BY <1>2 DEF Bounded
<1>3. CASE PushSample
  <2>1. PICK r : r = requested_windows[cursor]
    OBVIOUS
  <2> QED BY <1>2, <1>3, <2>1, PushFacts
<1>4. CASE \/ \E level \in Levels : Write(level)
           \/ SamplerLoop \/ TakeSample \/ EndFill \/ QueueFilled \/ Notify
           \/ Flusher \/ SpuriousWakeup
           \/ Destroy \/ Joiner \/ Terminated \/ UNCHANGED vars
  BY <1>2, <1>4, Zenon
     DEF Write, SamplerLoop, TakeSample, EndFill, QueueFilled, Notify,
         Flusher, FlusherLoop, Loop, Step, CollectFilled, Callback, EndFlush,
         SpuriousWakeup, Destroy, Joiner, FlusherJoined, SamplerJoined,
         JoinBegin, Terminated, vars, windowVars
<1> QED BY <1>1, <1>3, <1>4 DEF Next, Sampler, FillWindow, FillWindowOnTrigger

(* The service knows no request that was not made.                         *)
LEMMA KnownWereAsked ==
  ASSUME TypeOK, RequestsConserved
  PROVE  Service!Known \subseteq asked
<1>1. ToSet(Ready) = Filled
  <2>1. /\ to_flush \in Seq(Requests) /\ filled_windows \in Seq(Requests)
        /\ newly_filled_windows \in Seq(Requests)
    BY DEF TypeOK
  <2>2. PICK s : s = to_flush \o filled_windows
    OBVIOUS
  <2>3. s \in Seq(Requests)
    BY <2>1, <2>2, ConcatProperties
  <2>4. ToSet(s) = ToSet(to_flush) \cup ToSet(filled_windows)
    BY <2>1, <2>2, ConcatFacts
  <2>5. ToSet(s \o newly_filled_windows) = ToSet(s) \cup ToSet(newly_filled_windows)
    BY <2>1, <2>3, ConcatFacts
  <2> QED BY <2>2, <2>4, <2>5 DEF Filled, Ready
<1>2. Service!SetOf(Ready) = Filled /\ Service!SetOf(delivered) = Delivered
  BY <1>1 DEF Service!SetOf, ToSet, Delivered
<1>3. UNION {ArmedFor[level] : level \in Levels} \subseteq Armed
  BY DEF ArmedFor, Armed
<1>4. Filling \cup Filled \cup Delivered \cup Armed \subseteq asked
  BY Elsewhere DEF Left
<1> QED BY <1>2, <1>3, <1>4 DEF Service!Known, Ready, ArmedFor

LEMMA ServiceInits == Init => Service!Init
<1> SUFFICES ASSUME Init
             PROVE  Service!Init
  OBVIOUS
<1>1. Filling = {} /\ ToSet(high_triggers) = {} /\ ToSet(low_triggers) = {}
  BY EmptyFacts DEF Init, Filling
<1>2. Ready = <<>>
  BY DEF Init, Ready
<1> QED BY <1>1, <1>2 DEF Init, Service!Init, Ready

\* Nothing the service shows changes.
Hidden == UNCHANGED <<num_samples, data, ArmedFor, Filling, Ready, delivered>>

LEMMA HiddenStutters == Hidden => UNCHANGED Service!vars
BY DEF Hidden, Service!vars, ArmedFor, Ready

LEMMA ServiceAsks ==
  ASSUME TypeOK, RequestsConserved, NEW r \in Requests, NEW size \in Sizes,
         NewRequest(r, size)
  PROVE  Service!Ask(r, NumSamples(size)) /\ UNCHANGED <<Ready, delivered>>
<1>1. r \notin Service!Known
  BY KnownWereAsked DEF NewRequest
<1>2. UNCHANGED Ready
  BY DEF NewRequest, Ready
<1> QED BY <1>1, <1>2 DEF NewRequest, Service!Ask, Ready

LEMMA ServicePushes ==
  ASSUME TypeOK, RequestsConserved, Bounded, PushSample
  PROVE  \/ Hidden
         \/ \E r \in Requests, s \in Levels \cup {Junk} : Service!Collect(r, s)
<1>1. PICK r : r = requested_windows[cursor]
  OBVIOUS
<1>2. /\ cursor \in 1 .. Len(requested_windows) /\ r \in Requests /\ r \in Filling
      /\ data' = [data EXCEPT ![r] = IF Len(data[r]) < MaxData
                                     THEN Append(data[r], sample)
                                     ELSE data[r]]
      /\ \/ Full(r) /\ TakeOut(r)
         \/ ~ Full(r) /\ StepOver
      /\ UNCHANGED <<num_samples, high_triggers, low_triggers, filled_windows,
                     to_flush, delivered>>
  BY <1>1, PushFacts
<1>3. UNCHANGED ArmedFor
  BY <1>2 DEF ArmedFor
<1>4. CASE Len(data[r]) < MaxData
  <2>1. data' = [data EXCEPT ![r] = Append(data[r], sample)]
    BY <1>2, <1>4
  <2>2. CASE Full(r) /\ TakeOut(r)
    <3>1. Filling' = Filling \ {r}
      BY <1>1, <1>2, <2>2, Elsewhere, RemoveAtFacts DEF TakeOut, Filling, TypeOK
    <3>2. Ready' = Append(Ready, r)
      <4>1. /\ to_flush \o filled_windows \in Seq(Requests)
            /\ newly_filled_windows \in Seq(Requests)
        BY ConcatProperties DEF TypeOK
      <4>2. Ready' = (to_flush \o filled_windows) \o Append(newly_filled_windows, r)
        BY <1>2, <2>2 DEF TakeOut, Ready
      <4> QED BY <1>2, <4>1, <4>2, ConcatAppend DEF Ready
    <3>3. Service!Collect(r, sample)
      BY <1>2, <1>3, <2>1, <2>2, <3>1, <3>2
         DEF Service!Collect, Ready, ArmedFor, Full
    <3> QED BY <1>2, <3>3 DEF TypeOK
  <2>3. CASE ~ Full(r) /\ StepOver
    <3>1. UNCHANGED <<Filling, Ready>>
      BY <1>2, <2>3 DEF StepOver, Filling, Ready
    <3>2. Service!Collect(r, sample)
      BY <1>2, <1>3, <2>1, <2>3, <3>1
         DEF Service!Collect, Ready, ArmedFor, Full
    <3> QED BY <1>2, <3>2 DEF TypeOK
  <2> QED BY <1>2, <2>2, <2>3
<1>5. CASE ~ (Len(data[r]) < MaxData)
  <2>1. data' = data
    BY <1>2, <1>5 DEF TypeOK
  <2>2. ~ Full(r)
    <3>1. num_samples[r] < MaxData /\ num_samples[r] \in Nat /\ MaxData \in Nat
      BY <1>2, Elsewhere, OscilloscopeAssumption DEF Bounded, TypeOK
    <3>2. Len(data[r]) \in Nat
      BY <1>2, LenProperties DEF TypeOK
    <3> QED BY <1>5, <2>1, <3>1, <3>2 DEF Full
  <2> QED BY <1>2, <1>3, <2>1, <2>2 DEF StepOver, Hidden, Filling, Ready
<1> QED BY <1>4, <1>5

LEMMA ServiceStep ==
  TypeOK /\ RequestsConserved /\ Bounded /\ [Next]_vars
    => [Service!Next]_Service!vars
<1> SUFFICES ASSUME TypeOK, RequestsConserved, Bounded, [Next]_vars
             PROVE  Service!Next \/ Hidden
  BY HiddenStutters
<1>1. ASSUME NEW r \in Requests, NEW size \in Sizes, FillWindow(r, size)
      PROVE  Service!Next
  <2>1. Service!Ask(r, NumSamples(size))
    BY <1>1, ServiceAsks DEF FillWindow
  <2>2. Filling' = Filling \cup {r} /\ UNCHANGED ArmedFor
    BY <1>1, AppendFacts DEF FillWindow, Filling, ArmedFor, TypeOK
  <2>3. Service!AskNow(r, NumSamples(size))
    BY <2>1, <2>2 DEF Service!AskNow, ArmedFor
  <2> QED BY <2>3 DEF Service!Next
<1>2. ASSUME NEW r \in Requests, NEW size \in Sizes, NEW level \in Levels,
             FillWindowOnTrigger(r, size, level)
      PROVE  Service!Next
  <2>1. Service!Ask(r, NumSamples(size))
    BY <1>2, ServiceAsks DEF FillWindowOnTrigger
  <2>2. UNCHANGED Filling
    BY <1>2 DEF FillWindowOnTrigger, Filling
  <2>3. /\ ToSet(Append(high_triggers, r)) = ToSet(high_triggers) \cup {r}
        /\ ToSet(Append(low_triggers, r)) = ToSet(low_triggers) \cup {r}
    BY AppendFacts DEF TypeOK
  <2>4. ArmedFor' = [ArmedFor EXCEPT ![level] = @ \cup {r}]
    BY <1>2, <2>3 DEF FillWindowOnTrigger, ArmedFor, Levels
  <2>5. Service!AskOnEdge(r, NumSamples(size), level)
    BY <2>1, <2>2, <2>4 DEF Service!AskOnEdge, ArmedFor
  <2> QED BY <2>5 DEF Service!Next
<1>3. CASE TakeSample
  <2>1. UNCHANGED <<num_samples, data, Ready, delivered>>
    BY <1>3 DEF TakeSample, Ready
  <2>2. HIGH \in Levels /\ LOW \in Levels /\ HIGH # LOW
    BY DEF Levels, HIGH, LOW
  <2>3. ASSUME NEW level \in Levels, Filling' = Filling \cup ArmedFor[level],
               ArmedFor' = [ArmedFor EXCEPT ![level] = {}]
        PROVE  Service!Next
    <3>1. Service!Edge(level)
      BY <2>1, <2>3 DEF Service!Edge, ArmedFor, Ready
    <3> QED BY <3>1 DEF Service!Next
  <2>4. /\ ToSet(requested_windows \o high_triggers) = Filling \cup ToSet(high_triggers)
        /\ ToSet(requested_windows \o low_triggers) = Filling \cup ToSet(low_triggers)
    BY ConcatFacts DEF TypeOK, Filling
  <2>5. CASE /\ requested_windows' = requested_windows \o high_triggers
             /\ high_triggers' = <<>> /\ UNCHANGED low_triggers
    <3>1. Filling' = Filling \cup ArmedFor[HIGH]
      BY <2>2, <2>4, <2>5 DEF Filling, ArmedFor
    <3>2. ArmedFor' = [ArmedFor EXCEPT ![HIGH] = {}]
      BY <2>2, <2>5, EmptyFacts DEF ArmedFor
    <3> QED BY <2>2, <2>3, <3>1, <3>2
  <2>6. CASE /\ requested_windows' = requested_windows \o low_triggers
             /\ low_triggers' = <<>> /\ UNCHANGED high_triggers
    <3>1. Filling' = Filling \cup ArmedFor[LOW]
      BY <2>2, <2>4, <2>6 DEF Filling, ArmedFor
    <3>2. ArmedFor' = [ArmedFor EXCEPT ![LOW] = {}]
      BY <2>2, <2>6, EmptyFacts DEF ArmedFor, Levels
    <3> QED BY <2>2, <2>3, <3>1, <3>2
  <2>7. CASE UNCHANGED <<requested_windows, high_triggers, low_triggers>>
    BY <2>1, <2>7 DEF Hidden, Filling, ArmedFor
  <2> QED BY <1>3, <2>5, <2>6, <2>7, Zenon DEF TakeSample
<1>4. CASE PushSample
  BY <1>4, ServicePushes DEF Service!Next
<1>5. ASSUME UNCHANGED <<num_samples, data, high_triggers, low_triggers,
                         requested_windows, delivered>>,
             UNCHANGED Ready
      PROVE  Hidden
  BY <1>5 DEF Hidden, ArmedFor, Filling
<1>6. CASE QueueFilled
  <2>1. Ready' = Ready
    <3>1. /\ to_flush \in Seq(Requests) /\ filled_windows \in Seq(Requests)
          /\ newly_filled_windows \in Seq(Requests)
      BY DEF TypeOK
    <3>2. Ready' = (to_flush \o (filled_windows \o newly_filled_windows)) \o <<>>
      BY <1>6 DEF QueueFilled, Ready
    <3>3. Ready' = to_flush \o (filled_windows \o newly_filled_windows)
      BY <3>1, <3>2, ConcatEmptySeq, ConcatProperties
    <3> QED BY <3>1, <3>3, ConcatAssociative DEF Ready
  <2> QED BY <1>5, <1>6, <2>1 DEF QueueFilled, windowVars
<1>7. CASE CollectFilled
  <2>1. Ready' = Ready
    <3>1. /\ to_flush \in Seq(Requests) /\ filled_windows \in Seq(Requests)
          /\ to_flush \o filled_windows \in Seq(Requests)
      BY ConcatProperties DEF TypeOK
    <3>2. Ready' = ((to_flush \o filled_windows) \o <<>>) \o newly_filled_windows
      BY <1>7 DEF CollectFilled, Ready
    <3> QED BY <3>1, <3>2, ConcatEmptySeq DEF Ready
  <2> QED BY <1>5, <1>7, <2>1 DEF CollectFilled, windowVars
<1>8. CASE Callback
  <2>1. /\ to_flush # <<>> /\ to_flush' = Tail(to_flush)
        /\ delivered' = Append(delivered, Head(to_flush))
        /\ UNCHANGED <<num_samples, data, high_triggers, low_triggers,
                       requested_windows, filled_windows, newly_filled_windows>>
    BY <1>8 DEF Callback, windowVars
  <2>2. /\ to_flush \in Seq(Requests) /\ filled_windows \in Seq(Requests)
        /\ newly_filled_windows \in Seq(Requests)
    BY DEF TypeOK
  <2>3. /\ to_flush \o filled_windows # <<>>
        /\ Head(to_flush \o filled_windows) = Head(to_flush)
        /\ Tail(to_flush \o filled_windows) = Tail(to_flush) \o filled_windows
        /\ to_flush \o filled_windows \in Seq(Requests)
    BY <2>1, <2>2, ConcatTail, ConcatProperties
  <2>4. Ready # <<>> /\ Head(Ready) = Head(to_flush) /\ Ready' = Tail(Ready)
    <3>1. /\ Ready # <<>> /\ Head(Ready) = Head(to_flush \o filled_windows)
          /\ Tail(Ready) = Tail(to_flush \o filled_windows) \o newly_filled_windows
      BY <2>2, <2>3, ConcatTail, Zenon DEF Ready
    <3>2. Ready' = (Tail(to_flush) \o filled_windows) \o newly_filled_windows
      BY <2>1 DEF Ready
    <3> QED BY <2>3, <3>1, <3>2
  <2>5. UNCHANGED <<ArmedFor, Filling>>
    BY <2>1 DEF ArmedFor, Filling
  <2>6. Service!Return
    BY <2>1, <2>4, <2>5 DEF Service!Return, Ready, ArmedFor
  <2> QED BY <2>6 DEF Service!Next
<1>9. CASE \/ \E level \in Levels : Write(level)
           \/ SamplerLoop \/ EndFill \/ Notify
           \/ FlusherLoop \/ SpuriousWakeup \/ EndFlush
           \/ Destroy \/ Joiner \/ Terminated \/ UNCHANGED vars
  <2>1. UNCHANGED <<num_samples, data, high_triggers, low_triggers,
                    requested_windows, delivered, to_flush, filled_windows,
                    newly_filled_windows>>
    BY <1>9, Zenon
       DEF Write, SamplerLoop, FlusherLoop, Loop, Step, EndFill, Notify,
           EndFlush, SpuriousWakeup, Destroy, Joiner, FlusherJoined,
           SamplerJoined, JoinBegin, Terminated, vars, windowVars
  <2> QED BY <1>5, <2>1 DEF Ready
<1> QED BY <1>1, <1>2, <1>3, <1>4, <1>6, <1>7, <1>8, <1>9
        DEF Next, Sampler, Flusher

(* The two threads, their lists and their locks are a window service: what *)
(* a caller of fill_window sees is what WindowService allows, for every    *)
(* set of requests, sizes and sampling rate.                               *)
THEOREM OscilloscopeImplementsService == Spec => ImplementsService
<1>1. Init => Bounded
  BY DEF Init, Bounded
<1>2. Init => Service!Init
  BY ServiceInits
<1>3. TypeOK /\ RequestsConserved /\ Bounded /\ [Next]_vars
        => [Service!Next]_Service!vars
  BY ServiceStep
<1> QED BY <1>1, <1>2, <1>3, BoundedStep, TypeCorrect,
           NoRequestLostOrDuplicated, PTL
        DEF Spec, ImplementsService, Service!Spec

-----------------------------------------------------------------------------
(* Every action of OscilloscopeTrace is one of Oscilloscope.               *)
LEMMA TraceStepIsStep == [TraceNext]_traceVars => [Next]_vars
<1>1. ASSUME NEW r \in Requests, NEW size \in Sizes,
             NEW when \in Levels \cup {Now}, TraceAsk(r, size, when)
      PROVE  Next
  <2>1. CASE when = Now
    BY <1>1, <2>1 DEF TraceAsk, Next
  <2>2. CASE when # Now
    <3>1. when \in Levels /\ FillWindowOnTrigger(r, size, when)
      BY <1>1, <2>2 DEF TraceAsk
    <3> QED BY <3>1 DEF Next
  <2> QED BY <2>1, <2>2
<1>2. TraceSample \/ TraceInner => Next
  BY DEF TraceSample, TraceInner, Next, Sampler
<1>3. UNCHANGED traceVars => UNCHANGED vars
  BY DEF traceVars
<1> QED BY <1>1, <1>2, <1>3 DEF TraceNext

LEMMA TraceImplements == TraceSpec => Spec
<1>1. TraceInit => Init
  BY DEF TraceInit
<1> QED BY <1>1, TraceStepIsStep, PTL DEF TraceSpec, Spec

-----------------------------------------------------------------------------
(* OscilloscopeTrace: what the windows hold.                               *)

Readings == Levels \cup {Junk}

\* The window of r is the part k .. e of the history, and starts at k with
\* the sample it must start with.
Follows(r, e) ==
  \E k \in 1 .. e + 1 :
    /\ StartsAt(r, k)
    /\ Len(data[r]) = e + 1 - k
    /\ \A j \in 1 .. Len(data[r]) : data[r][j] = history[k + j - 1]

\* It has all samples so far; all but the last; all it was to have.
UpToDate(r) == \E e \in 0 .. Len(history) : e = Len(history) /\ Follows(r, e)
Behind(r)   == \E e \in 0 .. Len(history) : e + 1 = Len(history) /\ Follows(r, e)
Complete(r) == \E e \in 1 .. Len(history) : Follows(r, e)

Watched ==
  /\ history \in Seq(Readings)
  /\ Len(history) > 0
  /\ history[Len(history)] = last_sample
  /\ asked_at \in [Requests -> 0 .. Len(history)]
  /\ trigger \in [Requests -> Levels \cup {Now}]
  /\ \A r \in asked : num_samples[r] < MaxData
  /\ pc["sampler"] = "fill" => sample = last_sample /\ requests_lock = "sampler"

ArmedRight ==
  /\ \A r \in ToSet(high_triggers) : trigger[r] = HIGH
  /\ \A r \in ToSet(low_triggers) : trigger[r] = LOW
  /\ \A r \in Armed : data[r] = <<>>
  /\ NoEdgeMissed

\* While the sampler fills windows those from cursor on lack the last sample.
FillingRight ==
  \A i \in 1 .. Len(requested_windows), r \in Requests :
    requested_windows[i] = r /\ num_samples[r] > 0 =>
      /\ Len(data[r]) < num_samples[r]
      /\ IF pc["sampler"] = "fill" /\ i >= cursor THEN Behind(r) ELSE UpToDate(r)

LeftRight == \A r \in Left : num_samples[r] > 0 /\ Complete(r)

TraceInv == Watched /\ ArmedRight /\ FillingRight /\ LeftRight

-----------------------------------------------------------------------------
(* The two levels are each other's opposite.                               *)
LEMMA OppositeLevels == Opposite(LOW) = HIGH /\ Opposite(HIGH) = LOW
BY DEF Opposite, Levels, LOW, HIGH

-----------------------------------------------------------------------------
\* The samples taken so far stay what they are.
HistoryKept ==
  /\ history \in Seq(Readings) /\ history' \in Seq(Readings)
  /\ Len(history) <= Len(history')
  /\ \A i \in 1 .. Len(history) : history'[i] = history[i]

\* A step leaves the request r alone.
Calm(r) ==
  /\ data'[r] = data[r] /\ num_samples'[r] = num_samples[r]
  /\ asked_at'[r] = asked_at[r] /\ trigger'[r] = trigger[r]

LEMMA HistoryGrows ==
  ASSUME TypeOK, TypeOK', history \in Seq(Readings), [TraceNext]_traceVars
  PROVE  HistoryKept
<1>1. CASE UNCHANGED history
  BY <1>1, LenProperties DEF HistoryKept
<1>2. CASE TraceSample
  <2>1. history' = Append(history, sample') /\ sample' \in Readings
    BY <1>2 DEF TraceSample, TypeOK, Readings
  <2> QED BY <2>1, AppendProperties, LenProperties DEF HistoryKept
<1> QED BY <1>1, <1>2 DEF TraceNext, TraceAsk, TraceInner, traceVars

LEMMA EdgeStays ==
  ASSUME HistoryKept, NEW k \in Int, k <= Len(history), NEW level
  PROVE  EdgeAt(k, level)' <=> EdgeAt(k, level)
<1>1. Len(history) \in Nat /\ Len(history') \in Nat
  BY LenProperties DEF HistoryKept
<1>2. k \in 2 .. Len(history) <=> k \in 2 .. Len(history')
  BY <1>1 DEF HistoryKept
<1>3. k \in 2 .. Len(history) => /\ history'[k] = history[k]
                                 /\ history'[k - 1] = history[k - 1]
  BY <1>1 DEF HistoryKept
<1> QED BY <1>2, <1>3 DEF EdgeAt

LEMMA StartStays ==
  ASSUME HistoryKept, NEW r \in Requests, Calm(r), asked_at[r] \in Nat,
         NEW k \in Nat, StartsAt(r, k)
  PROVE  StartsAt(r, k)'
<1>1. asked_at'[r] = asked_at[r] /\ trigger'[r] = trigger[r]
  BY DEF Calm
<1>2. CASE trigger[r] = Now
  BY <1>1, <1>2 DEF StartsAt
<1>3. CASE trigger[r] # Now
  <2>1. k > asked_at[r] /\ EdgeAt(k, trigger[r])
    BY <1>3 DEF StartsAt
  <2>2. k <= Len(history) /\ Len(history) \in Nat
    BY <2>1, LenProperties DEF EdgeAt, HistoryKept
  <2>3. EdgeAt(k, trigger[r])'
    BY <1>1, <2>1, <2>2, EdgeStays
  <2>4. ASSUME NEW j \in asked_at[r] + 1 .. k - 1
        PROVE  ~ EdgeAt(j, trigger[r])'
    <3>1. j \in Int /\ j <= Len(history)
      BY <2>2
    <3>2. ~ EdgeAt(j, trigger[r])
      BY <1>3 DEF StartsAt
    <3> QED BY <1>1, <3>1, <3>2, EdgeStays
  <2> QED BY <1>1, <1>3, <2>1, <2>3, <2>4 DEF StartsAt
<1> QED BY <1>2, <1>3

LEMMA FollowsStays ==
  ASSUME HistoryKept, NEW r \in Requests, Calm(r), asked_at[r] \in Nat,
         data[r] \in Seq(Readings),
         NEW e \in 0 .. Len(history), Follows(r, e)
  PROVE  Follows(r, e)'
<1>1. PICK k \in 1 .. e + 1 :
        /\ StartsAt(r, k)
        /\ Len(data[r]) = e + 1 - k
        /\ \A j \in 1 .. Len(data[r]) : data[r][j] = history[k + j - 1]
  BY DEF Follows
<1>2. Len(history) \in Nat /\ e \in Nat /\ k \in Nat
  BY LenProperties DEF HistoryKept
<1>3. StartsAt(r, k)'
  BY <1>1, <1>2, StartStays
<1>4. \A j \in 1 .. Len(data[r]) : data[r][j] = history'[k + j - 1]
  <2>1. ASSUME NEW j \in 1 .. Len(data[r])
        PROVE  k + j - 1 \in 1 .. Len(history)
    BY <1>1, <1>2
  <2> QED BY <1>1, <2>1 DEF HistoryKept
<1> QED BY <1>1, <1>3, <1>4 DEF Follows, Calm

(* What a window has of the samples it keeps having.                       *)
LEMMA WindowStays ==
  ASSUME HistoryKept, NEW r \in Requests, Calm(r), asked_at[r] \in Nat,
         data[r] \in Seq(Readings)
  PROVE  /\ Complete(r) => Complete(r)'
         /\ UNCHANGED history /\ UpToDate(r) => UpToDate(r)'
         /\ UNCHANGED history /\ Behind(r) => Behind(r)'
         /\ Len(history') = Len(history) + 1 /\ UpToDate(r) => Behind(r)'
<1>1. Len(history) \in Nat /\ Len(history') \in Nat /\ Len(history) <= Len(history')
  BY LenProperties DEF HistoryKept
<1>2. \A e \in 0 .. Len(history) : Follows(r, e) => Follows(r, e)'
  BY FollowsStays
<1>3. ASSUME Complete(r)
      PROVE  Complete(r)'
  <2>1. PICK e \in 1 .. Len(history) : Follows(r, e)
    BY <1>3 DEF Complete
  <2>2. Follows(r, e)' /\ e \in 1 .. Len(history')
    BY <1>1, <1>2, <2>1
  <2> QED BY <2>2 DEF Complete
<1>4. ASSUME UpToDate(r)
      PROVE  /\ UNCHANGED history => UpToDate(r)'
             /\ Len(history') = Len(history) + 1 => Behind(r)'
  <2>1. PICK e \in 0 .. Len(history) : e = Len(history) /\ Follows(r, e)
    BY <1>4 DEF UpToDate
  <2>2. Follows(r, e)' /\ e \in 0 .. Len(history')
    BY <1>1, <1>2, <2>1
  <2> QED BY <2>1, <2>2 DEF UpToDate, Behind
<1>5. ASSUME UNCHANGED history, Behind(r)
      PROVE  Behind(r)'
  <2>1. PICK e \in 0 .. Len(history) : e + 1 = Len(history) /\ Follows(r, e)
    BY <1>5 DEF Behind
  <2>2. Follows(r, e)' /\ e \in 0 .. Len(history')
    BY <1>1, <1>2, <2>1
  <2> QED BY <1>5, <2>1, <2>2 DEF Behind
<1> QED BY <1>3, <1>4, <1>5

(* push_back(sample): a window that lacks the last sample gets it.         *)
LEMMA PushExtends ==
  ASSUME TypeOK, Watched, PushSample, UNCHANGED <<history, asked_at, trigger>>,
         NEW r \in Requests, r = requested_windows[cursor],
         Behind(r), Len(data[r]) < MaxData
  PROVE  UpToDate(r)' /\ Len(data'[r]) = Len(data[r]) + 1
<1>1. PICK e \in 0 .. Len(history) : e + 1 = Len(history) /\ Follows(r, e)
  BY DEF Behind
<1>2. PICK k \in 1 .. e + 1 :
        /\ StartsAt(r, k)
        /\ Len(data[r]) = e + 1 - k
        /\ \A j \in 1 .. Len(data[r]) : data[r][j] = history[k + j - 1]
  BY <1>1 DEF Follows
<1>3. data'[r] = Append(data[r], sample)
  BY PushFacts DEF TypeOK
<1>4. sample = history[e + 1]
  BY <1>1, PushFacts DEF Watched
<1>5. data[r] \in Seq(Readings) /\ sample \in Readings
  BY DEF TypeOK, Readings
<1>6. /\ Len(data'[r]) = Len(data[r]) + 1
      /\ \A j \in 1 .. Len(data[r]) : data'[r][j] = data[r][j]
      /\ data'[r][Len(data[r]) + 1] = sample
  BY <1>3, <1>5, AppendProperties
<1>7. Len(data[r]) \in Nat /\ e \in Nat /\ k \in Nat /\ Len(history) \in Nat
  BY <1>1, <1>5, LenProperties DEF Watched
<1>8. \A j \in 1 .. Len(data'[r]) : data'[r][j] = history[k + j - 1]
  <2>1. k + (Len(data[r]) + 1) - 1 = e + 1
    BY <1>2, <1>7
  <2>2. \A j \in 1 .. Len(data[r]) + 1 : j \in 1 .. Len(data[r]) \/ j = Len(data[r]) + 1
    BY <1>7
  <2> QED BY <1>2, <1>4, <1>6, <2>1, <2>2
<1>9. StartsAt(r, k)'
  BY <1>2 DEF StartsAt, EdgeAt
<1>10. Follows(r, e + 1)'
  <2>1. k \in 1 .. (e + 1) + 1 /\ Len(data'[r]) = (e + 1) + 1 - k
    BY <1>2, <1>6, <1>7
  <2> QED BY <1>8, <1>9, <2>1 DEF Follows
<1>11. e + 1 \in 0 .. Len(history)
  BY <1>1, <1>7
<1> QED BY <1>1, <1>6, <1>10, <1>11 DEF UpToDate

(* The requests other than the one just made and the one whose window is   *)
(* added to keep their history too.                                        *)
LEMMA OthersAreCalm ==
  ASSUME TypeOK, Watched, [TraceNext]_traceVars, NEW r \in asked,
         ~ (PushSample /\ r = requested_windows[cursor])
  PROVE  Calm(r)
<1>1. r \in Requests
  BY DEF TypeOK
<1>2. data'[r] = data[r] /\ num_samples'[r] = num_samples[r]
  BY TraceStepIsStep, OthersKeepTheirs
<1>3. ASSUME NEW q \in Requests, NEW size \in Sizes,
             NEW when \in Levels \cup {Now}, TraceAsk(q, size, when)
      PROVE  Calm(r)
  <2>1. q # r
    BY <1>3 DEF TraceAsk, FillWindow, FillWindowOnTrigger, NewRequest
  <2> QED BY <1>1, <1>2, <1>3, <2>1 DEF TraceAsk, Calm, Watched
<1>4. CASE UNCHANGED <<asked_at, trigger>>
  BY <1>2, <1>4 DEF Calm
<1> QED BY <1>3, <1>4 DEF TraceNext, TraceSample, TraceInner, traceVars

-----------------------------------------------------------------------------
LEMMA WatchedInit == TraceInit => Watched
<1> SUFFICES ASSUME TraceInit
             PROVE  Watched
  OBVIOUS
<1>1. last_sample \in Readings
  BY DEF TraceInit, Init, Readings
<1>2. history \in Seq(Readings) /\ Len(history) = 1 /\ history[1] = last_sample
  BY <1>1 DEF TraceInit
<1> QED BY <1>2 DEF TraceInit, Init, Watched, Threads, Now

LEMMA WatchedStep ==
  TypeOK /\ TypeOK' /\ Watched /\ [TraceNext]_traceVars => Watched'
<1> SUFFICES ASSUME TypeOK, TypeOK', Watched, [TraceNext]_traceVars
             PROVE  Watched'
  OBVIOUS
<1>1. history' \in Seq(Readings) /\ Len(history') > 0
      /\ Len(history) <= Len(history')
  BY HistoryGrows, LenProperties DEF Watched, HistoryKept
<1>2. Len(history) \in Nat /\ Len(history') \in Nat
  BY <1>1, LenProperties DEF Watched
<1>3. pc \in [Threads -> {"loop", "sample", "fill", "queue", "notify",
                          "flush", "wait", "callback", "exited"}]
  BY DEF TypeOK
<1>4. ASSUME NEW r \in Requests, NEW size \in Sizes,
             NEW when \in Levels \cup {Now}, TraceAsk(r, size, when)
      PROVE  Watched'
  <2>1. NewRequest(r, size) /\ UNCHANGED history
    BY <1>4 DEF TraceAsk, FillWindow, FillWindowOnTrigger
  <2>2. /\ asked_at' \in [Requests -> 0 .. Len(history')]
        /\ trigger' \in [Requests -> Levels \cup {Now}]
    BY <1>2, <1>4, <2>1 DEF TraceAsk, Watched
  <2>3. \A q \in asked' : num_samples'[q] < MaxData
    BY <2>1, OscilloscopeAssumption DEF NewRequest, TypeOK, Watched
  <2>4. UNCHANGED <<last_sample, sample, pc, requests_lock>>
    BY <2>1 DEF NewRequest, sampleVars
  <2> QED BY <1>1, <2>1, <2>2, <2>3, <2>4 DEF Watched
<1>5. CASE TraceSample
  <2>1. /\ history' = Append(history, sample') /\ sample' = last_sample'
        /\ requests_lock' = "sampler"
        /\ UNCHANGED <<asked, num_samples, asked_at, trigger>>
    BY <1>5 DEF TraceSample, TakeSample
  <2>2. history'[Len(history')] = last_sample'
    BY <2>1, AppendProperties DEF Watched, TypeOK, Readings
  <2>3. asked_at' \in [Requests -> 0 .. Len(history')]
    BY <1>1, <1>2, <2>1 DEF Watched
  <2> QED BY <1>1, <2>1, <2>2, <2>3 DEF Watched
<1>6. ASSUME UNCHANGED <<history, last_sample, sample, asked, num_samples,
                         asked_at, trigger>>,
             pc'["sampler"] = "fill" =>
               pc["sampler"] = "fill" /\ UNCHANGED requests_lock
      PROVE  Watched'
  BY <1>1, <1>6 DEF Watched
<1>7. CASE TraceInner
  <2>1. UNCHANGED <<history, asked_at, trigger>>
    BY <1>7 DEF TraceInner
  <2>2. CASE PushSample
    <3>1. PICK r : r = requested_windows[cursor]
      OBVIOUS
    <3>2. UNCHANGED <<last_sample, sample, asked, num_samples, requests_lock, pc>>
      BY <2>2, <3>1, PushFacts
    <3> QED BY <1>6, <2>1, <3>2
  <2>3. CASE \/ \E level \in Levels : Write(level)
             \/ Destroy \/ Joiner \/ Terminated
    BY <1>6, <2>1, <2>3, Zenon
       DEF Write, Destroy, Joiner, FlusherJoined, SamplerJoined, JoinBegin,
           Terminated, vars, sampleVars, windowVars
  <2>4. CASE SamplerLoop \/ EndFill \/ QueueFilled \/ Notify
    <3>1. pc'["sampler"] # "fill"
      BY <1>3, <2>4 DEF SamplerLoop, Loop, Step, EndFill, QueueFilled, Notify,
                        Goto, Threads
    <3>2. UNCHANGED <<last_sample, sample, asked, num_samples>>
      BY <2>4, Zenon DEF SamplerLoop, Loop, Step, EndFill, QueueFilled, Notify,
                         sampleVars, windowVars
    <3> QED BY <1>6, <2>1, <3>1, <3>2
  <2>5. CASE Flusher \/ SpuriousWakeup
    <3>1. pc'["sampler"] = pc["sampler"]
      BY <1>3, <2>5
         DEF Flusher, FlusherLoop, Loop, Step, CollectFilled, Callback,
             EndFlush, SpuriousWakeup, Goto, Threads
    <3>2. UNCHANGED <<last_sample, sample, asked, num_samples, requests_lock>>
      BY <2>5, Zenon
         DEF Flusher, FlusherLoop, Loop, Step, CollectFilled, Callback,
             EndFlush, SpuriousWakeup, sampleVars, windowVars
    <3> QED BY <1>6, <2>1, <3>1, <3>2
  <2> QED BY <1>7, <2>2, <2>3, <2>4, <2>5 DEF TraceInner
<1>8. CASE UNCHANGED traceVars
  BY <1>6, <1>8 DEF traceVars, vars, sampleVars, windowVars
<1> QED BY <1>4, <1>5, <1>7, <1>8 DEF TraceNext

-----------------------------------------------------------------------------
(* The sample just taken is the last of the history, and follows the one   *)
(* taken before it.                                                        *)
LEMMA NewSample ==
  ASSUME TypeOK, Watched, TraceSample
  PROVE  /\ Len(history) \in Nat \ {0} /\ Len(history') = Len(history) + 1
         /\ history'[Len(history) + 1] = value
         /\ history'[Len(history)] = last_sample
         /\ asked_at' = asked_at /\ trigger' = trigger
<1>1. /\ history' = Append(history, value)
      /\ asked_at' = asked_at /\ trigger' = trigger
  BY DEF TraceSample, TakeSample
<1>2. history \in Seq(Readings) /\ value \in Readings
  BY DEF Watched, TypeOK, Readings
<1>3. Len(history) \in Nat \ {0}
  BY LenProperties DEF Watched
<1> QED BY <1>1, <1>2, <1>3, AppendProperties DEF Watched

(* What a sample that is an edge to a level means for those armed for it.  *)
LEMMA EdgeStarts ==
  ASSUME TypeOK, Watched, HistoryKept, TraceSample,
         NEW r \in Requests, NEW level \in Levels,
         trigger[r] = level, last_sample = Opposite(level), value = level,
         \A k \in asked_at[r] + 1 .. Len(history) : ~ EdgeAt(k, level),
         NEW k \in Nat, k = Len(history) + 1
  PROVE  StartsAt(r, k)'
<1>1. asked_at[r] \in 0 .. Len(history)
  BY DEF Watched
<1>2. /\ Len(history) \in Nat \ {0} /\ Len(history') = k
      /\ history'[k] = value /\ history'[k - 1] = last_sample
      /\ asked_at' = asked_at /\ trigger' = trigger
  BY NewSample
<1>3. ASSUME NEW j \in asked_at[r] + 1 .. k - 1
      PROVE  ~ EdgeAt(j, level)'
  <2>1. j \in Int /\ j <= Len(history) /\ ~ EdgeAt(j, level)
    BY <1>1, <1>2
  <2> QED BY <2>1, EdgeStays
<1>4. EdgeAt(k, level)'
  BY <1>2 DEF EdgeAt
<1>5. k > asked_at[r]
  BY <1>1, <1>2
<1>6. level # Now
  BY DEF Levels, LOW, HIGH, Now
<1> QED BY <1>2, <1>3, <1>4, <1>5, <1>6 DEF StartsAt

LEMMA ArmedStep ==
  /\ TypeOK /\ TypeOK' /\ RequestsConserved /\ Watched /\ ArmedRight
  /\ [TraceNext]_traceVars
  => ArmedRight'
<1> SUFFICES ASSUME TypeOK, TypeOK', RequestsConserved, Watched, ArmedRight,
                    [TraceNext]_traceVars
             PROVE  ArmedRight'
  OBVIOUS
<1>1. \A r \in Armed : r \in Requests /\ r \in asked /\ r \notin Filling
  BY Elsewhere DEF TypeOK
<1>2. \A r \in Armed : PushSample => r # requested_windows[cursor]
  <2>1. PushSample => requested_windows[cursor] \in Filling
    BY PushFacts
  <2> QED BY <1>1, <2>1
<1>3. \A r \in Armed : Calm(r)
  BY <1>1, <1>2, OthersAreCalm
<1>4. HistoryKept
  BY HistoryGrows DEF Watched
<1>5. \A r \in Armed : asked_at[r] \in Nat /\ data[r] = <<>>
  BY <1>1 DEF Watched, ArmedRight
<1>6. Len(history) \in Nat
  BY LenProperties DEF Watched
\* Those armed remain as they were while no sample is taken.
<1>7. ASSUME UNCHANGED history, NEW r \in Armed
      PROVE  /\ data'[r] = <<>> /\ trigger'[r] = trigger[r]
             /\ \A k \in asked_at'[r] + 1 .. Len(history') :
                  ~ EdgeAt(k, trigger[r])'
  BY <1>3, <1>5, <1>7 DEF Calm, ArmedRight, NoEdgeMissed, EdgeAt
<1>8. ASSUME UNCHANGED <<history, high_triggers, low_triggers>>
      PROVE  ArmedRight'
  BY <1>7, <1>8 DEF ArmedRight, NoEdgeMissed, Armed
<1>9. ASSUME NEW q \in Requests, NEW size \in Sizes,
             NEW when \in Levels \cup {Now}, TraceAsk(q, size, when)
      PROVE  ArmedRight'
  <2>1. CASE when = Now
    BY <1>8, <1>9, <2>1 DEF TraceAsk, FillWindow
  <2>2. CASE when # Now
    <3>1. /\ when \in Levels /\ NewRequest(q, size)
          /\ UNCHANGED history
          /\ asked_at'[q] = Len(history) /\ trigger'[q] = when
          /\ data'[q] = <<>>
      BY <1>9, <2>2 DEF TraceAsk, FillWindowOnTrigger, NewRequest, Watched,
                        TypeOK
    <3>2. \/ /\ when = HIGH
             /\ ToSet(high_triggers') = ToSet(high_triggers) \cup {q}
             /\ ToSet(low_triggers') = ToSet(low_triggers)
          \/ /\ when = LOW
             /\ ToSet(low_triggers') = ToSet(low_triggers) \cup {q}
             /\ ToSet(high_triggers') = ToSet(high_triggers)
      <4>1. \/ /\ when = HIGH /\ high_triggers' = Append(high_triggers, q)
               /\ UNCHANGED low_triggers
            \/ /\ when = LOW /\ low_triggers' = Append(low_triggers, q)
               /\ UNCHANGED high_triggers
        BY <1>9, <2>2, <3>1 DEF TraceAsk, FillWindowOnTrigger, Levels
      <4>2. /\ ToSet(Append(high_triggers, q)) = ToSet(high_triggers) \cup {q}
            /\ ToSet(Append(low_triggers, q)) = ToSet(low_triggers) \cup {q}
        BY AppendFacts DEF TypeOK
      <4> QED BY <4>1, <4>2, Zenon
    <3>3. \A k \in asked_at'[q] + 1 .. Len(history') : ~ EdgeAt(k, trigger[q])'
      BY <1>6, <3>1
    <3> QED BY <1>7, <3>1, <3>2, <3>3 DEF ArmedRight, NoEdgeMissed, Armed
  <2> QED BY <2>1, <2>2
<1>10. CASE TraceSample
  <2>1. /\ \/ /\ value = HIGH /\ last_sample = LOW
              /\ high_triggers' = <<>> /\ UNCHANGED low_triggers
           \/ /\ value = LOW /\ last_sample = HIGH
              /\ low_triggers' = <<>> /\ UNCHANGED high_triggers
           \/ /\ <<last_sample, value>> \notin {<<LOW, HIGH>>, <<HIGH, LOW>>}
              /\ UNCHANGED <<high_triggers, low_triggers>>
    BY <1>10, Zenon DEF TraceSample, TakeSample
  <2>2. /\ ToSet(high_triggers') \subseteq ToSet(high_triggers)
        /\ ToSet(low_triggers') \subseteq ToSet(low_triggers)
        /\ high_triggers' # <<>> => ~ (value = HIGH /\ last_sample = LOW)
        /\ low_triggers' # <<>> => ~ (value = LOW /\ last_sample = HIGH)
    BY <2>1, EmptyFacts DEF LOW, HIGH
  <2>3. Armed' \subseteq Armed
    BY <2>2 DEF Armed
  <2>4. ASSUME NEW r \in Armed', NEW k \in asked_at'[r] + 1 .. Len(history'),
               EdgeAt(k, trigger[r])'
        PROVE  FALSE
    <3>1. r \in Armed /\ r \in Requests
      BY <1>1, <2>3
    <3>2. CASE k <= Len(history)
      <4>1. k \in Int /\ k \in asked_at[r] + 1 .. Len(history)
        BY <1>3, <1>5, <1>6, <3>1, <3>2, NewSample, <1>10 DEF Calm
      <4>2. trigger'[r] = trigger[r] /\ ~ EdgeAt(k, trigger[r])
        BY <1>3, <3>1, <4>1 DEF Calm, ArmedRight, NoEdgeMissed
      <4> QED BY <1>4, <2>4, <3>2, <4>1, <4>2, EdgeStays
    <3>3. CASE k > Len(history)
      <4>1. k = Len(history) + 1
        BY <1>3, <1>5, <1>6, <3>1, <3>3, NewSample, <1>10 DEF Calm
      <4>2. value = trigger[r] /\ last_sample = Opposite(trigger[r])
        <5>1. history'[k] = trigger'[r] /\ history'[k - 1] = Opposite(trigger'[r])
          BY <2>4 DEF EdgeAt
        <5>2. k - 1 = Len(history) /\ trigger' = trigger
          BY <1>6, <1>10, <4>1, NewSample
        <5> QED BY <1>10, <4>1, <5>1, <5>2, NewSample
      <4>3. \/ r \in ToSet(high_triggers') /\ trigger[r] = HIGH
            \/ r \in ToSet(low_triggers') /\ trigger[r] = LOW
        BY <2>2, <2>4 DEF Armed, ArmedRight
      <4> QED BY <2>2, <4>2, <4>3, OppositeLevels, EmptyFacts
    <3> QED BY <1>5, <1>6, <3>1, <3>2, <3>3
  <2>5. /\ \A r \in ToSet(high_triggers') : trigger'[r] = HIGH
        /\ \A r \in ToSet(low_triggers') : trigger'[r] = LOW
        /\ \A r \in Armed' : data'[r] = <<>>
    BY <1>3, <1>5, <2>2, <2>3 DEF Calm, ArmedRight, Armed
  <2> QED BY <2>4, <2>5 DEF ArmedRight, NoEdgeMissed
<1>11. CASE TraceInner
  <2>1. UNCHANGED history
    BY <1>11 DEF TraceInner
  <2>2. UNCHANGED <<high_triggers, low_triggers>>
    <3>1. PICK r : r = requested_windows[cursor]
      OBVIOUS
    <3>2. PushSample => UNCHANGED <<high_triggers, low_triggers>>
      BY <3>1, PushFacts
    <3> QED BY <1>11, <3>2, Zenon
        DEF TraceInner, Write, SamplerLoop, EndFill, QueueFilled, Notify,
            Flusher, FlusherLoop, Loop, Step, CollectFilled, Callback, EndFlush,
            SpuriousWakeup, Destroy, Joiner, FlusherJoined, SamplerJoined,
            JoinBegin, Terminated, vars, windowVars
  <2> QED BY <1>8, <2>1, <2>2
<1>12. CASE UNCHANGED traceVars
  BY <1>8, <1>12 DEF traceVars, vars, windowVars
<1> QED BY <1>9, <1>10, <1>11, <1>12 DEF TraceNext

-----------------------------------------------------------------------------
(* A window still empty is up to date if it is to start with the next      *)
(* sample, and lacks the last one if it is to start with that.             *)
LEMMA EmptyFollows ==
  ASSUME NEW r, NEW e \in Nat, data'[r] = <<>>, StartsAt(r, e + 1)'
  PROVE  Follows(r, e)'
<1>1. e + 1 \in 1 .. e + 1 /\ Len(data'[r]) = e + 1 - (e + 1)
  OBVIOUS
<1>2. \A j \in 1 .. Len(data'[r]) : data'[r][j] = history'[(e + 1) + j - 1]
  OBVIOUS
<1> QED BY <1>1, <1>2 DEF Follows

\* What FillingRight says of the i-th of requested_windows, the request r.
WindowRight(i, r) ==
  num_samples[r] > 0 =>
    /\ Len(data[r]) < num_samples[r]
    /\ IF pc["sampler"] = "fill" /\ i >= cursor THEN Behind(r) ELSE UpToDate(r)

LEMMA FillingRightSays ==
  FillingRight <=> \A i \in 1 .. Len(requested_windows), r \in Requests :
                     requested_windows[i] = r => WindowRight(i, r)
BY DEF FillingRight, WindowRight

LEMMA FillingRightSaysNext ==
  (\A i \in 1 .. Len(requested_windows'), r \in Requests :
     requested_windows'[i] = r => WindowRight(i, r)') => FillingRight'
BY DEF FillingRight, WindowRight

(* A window that a step leaves alone remains right.                        *)
LEMMA WindowRightStays ==
  ASSUME HistoryKept, UNCHANGED history, NEW r \in Requests, Calm(r),
         asked_at[r] \in Nat, data[r] \in Seq(Readings),
         NEW i \in Nat, NEW j \in Nat, WindowRight(i, r),
         (pc["sampler"] = "fill" /\ i >= cursor)
           <=> (pc'["sampler"] = "fill" /\ j >= cursor')
  PROVE  WindowRight(j, r)'
BY WindowStays DEF WindowRight, Calm

LEMMA FillingStep ==
  /\ TypeOK /\ TypeOK' /\ RequestsConserved
  /\ Watched /\ ArmedRight /\ FillingRight
  /\ [TraceNext]_traceVars
  => FillingRight'
<1> SUFFICES ASSUME TypeOK, TypeOK', RequestsConserved, Watched, ArmedRight,
                    FillingRight, [TraceNext]_traceVars,
                    NEW i \in 1 .. Len(requested_windows'), NEW r \in Requests,
                    requested_windows'[i] = r
             PROVE  WindowRight(i, r)'
  BY FillingRightSaysNext
<1>1. HistoryKept
  BY HistoryGrows DEF Watched
<1>2. /\ asked_at[r] \in Nat /\ data[r] \in Seq(Readings)
      /\ requested_windows \in Seq(Requests)
      /\ Len(requested_windows) \in Nat /\ Len(requested_windows') \in Nat
      /\ Len(history) \in Nat \ {0} /\ cursor \in Nat /\ i \in Nat
      /\ num_samples[r] \in Nat /\ num_samples'[r] \in Nat
  <2>1. /\ requested_windows \in Seq(Requests)
        /\ requested_windows' \in Seq(Requests)
        /\ num_samples[r] \in Nat /\ num_samples'[r] \in Nat /\ cursor \in Nat
        /\ data[r] \in Seq(Readings)
    BY DEF TypeOK, Readings
  <2>2. history \in Seq(Readings) /\ asked_at[r] \in 0 .. Len(history)
    BY DEF Watched
  <2>3. /\ Len(history) \in Nat
        /\ Len(requested_windows) \in Nat /\ Len(requested_windows') \in Nat
    BY <2>1, <2>2, LenProperties
  <2>4. Len(history) > 0
    BY DEF Watched
  <2> QED BY <2>1, <2>2, <2>3, <2>4
<1>3. \A j \in 1 .. Len(requested_windows), q \in Requests :
        requested_windows[j] = q => WindowRight(j, q)
  BY FillingRightSays
<1>4. \A j \in 1 .. Len(requested_windows) :
        requested_windows[j] = r => r \in Filling /\ r \in asked
  <2>1. \A j \in 1 .. Len(requested_windows) : requested_windows[j] \in Filling
    BY <1>2, LenProperties DEF Filling, ToSet
  <2> QED BY <2>1, Elsewhere
\* Nothing happens to the sampler's windows.
<1>5. ASSUME UNCHANGED <<history, requested_windows, cursor>>,
             pc'["sampler"] = "fill" <=> pc["sampler"] = "fill",
             ~ (PushSample /\ r = requested_windows[cursor])
      PROVE  WindowRight(i, r)'
  <2>1. i \in 1 .. Len(requested_windows) /\ requested_windows[i] = r
    BY <1>5
  <2>2. Calm(r) /\ WindowRight(i, r)
    BY <1>3, <1>4, <1>5, <2>1, OthersAreCalm
  <2> QED BY <1>1, <1>2, <1>5, <2>2, WindowRightStays
<1>6. ASSUME NEW q \in Requests, NEW size \in Sizes,
             NEW when \in Levels \cup {Now}, TraceAsk(q, size, when)
      PROVE  WindowRight(i, r)'
  <2>1. NewRequest(q, size) /\ UNCHANGED history
    BY <1>6 DEF TraceAsk, FillWindow, FillWindowOnTrigger
  <2>2. UNCHANGED <<pc, cursor>> /\ ~ PushSample
    BY <2>1, PushFacts DEF NewRequest, sampleVars, PushSample, Watched, Free
  <2>3. CASE UNCHANGED requested_windows
    BY <1>5, <2>1, <2>2, <2>3
  <2>4. CASE when = Now /\ requested_windows' = Append(requested_windows, q)
    <3>1. CASE i \in 1 .. Len(requested_windows)
      <4>1. requested_windows[i] = r
        BY <1>2, <2>4, <3>1, AppendProperties
      <4>2. Calm(r) /\ WindowRight(i, r)
        BY <1>3, <1>4, <2>2, <3>1, <4>1, OthersAreCalm
      <4> QED BY <1>1, <1>2, <2>1, <2>2, <4>2, WindowRightStays
    <3>2. CASE i \notin 1 .. Len(requested_windows)
      <4>1. r = q
        <5>1. Len(requested_windows') = Len(requested_windows) + 1
              /\ requested_windows'[Len(requested_windows) + 1] = q
          BY <1>2, <2>4, AppendProperties
        <5> QED BY <1>2, <3>2, <5>1
      <4>2. /\ data'[r] = <<>>
            /\ asked_at'[r] = Len(history) /\ trigger'[r] = Now
        BY <1>6, <2>1, <2>4, <4>1 DEF TraceAsk, NewRequest, TypeOK, Watched
      <4>3. PICK e \in Nat : e = Len(history)
        BY <1>2
      <4>4. StartsAt(r, e + 1)'
        BY <4>2, <4>3 DEF StartsAt
      <4>5. Follows(r, e)'
        BY <4>2, <4>4, EmptyFollows
      <4>6. UpToDate(r)'
        BY <1>2, <2>1, <4>3, <4>5 DEF UpToDate
      <4>7. pc'["sampler"] # "fill"
        BY <2>1, <2>2 DEF NewRequest, Watched, Free
      <4> QED BY <1>2, <4>2, <4>6, <4>7 DEF WindowRight
    <3> QED BY <3>1, <3>2
  <2> QED BY <1>6, <2>3, <2>4 DEF TraceAsk, FillWindow, FillWindowOnTrigger
<1>7. CASE TraceSample
  <2>1. pc["sampler"] # "fill" /\ pc'["sampler"] = "fill" /\ cursor' = 1
        /\ UNCHANGED <<data, num_samples>>
    BY <1>7 DEF TraceSample, TakeSample, Goto, TypeOK, Threads
  <2>2. Len(history') = Len(history) + 1
    BY <1>7, NewSample
  <2>3. CASE i \in 1 .. Len(requested_windows) /\ requested_windows[i] = r
    <3>1. Calm(r) /\ WindowRight(i, r)
      BY <1>3, <1>4, <2>1, <2>3, OthersAreCalm DEF PushSample
    <3>2. UpToDate(r) => Behind(r)'
      BY <1>1, <1>2, <2>2, <3>1, WindowStays
    <3> QED BY <1>2, <2>1, <3>1, <3>2 DEF WindowRight, Calm
  <2>4. ASSUME r \in Armed, trigger[r] = value, last_sample = Opposite(value),
               value \in Levels
        PROVE  WindowRight(i, r)'
    <3>1. PICK e \in Nat : e = Len(history)
      BY <1>2
    <3>2. \A k \in asked_at[r] + 1 .. Len(history) : ~ EdgeAt(k, value)
      BY <2>4 DEF ArmedRight, NoEdgeMissed
    <3>3. StartsAt(r, e + 1)'
      BY <1>1, <1>7, <2>4, <3>1, <3>2, EdgeStarts
    <3>4. data'[r] = <<>>
      BY <2>1, <2>4 DEF ArmedRight
    <3>5. Follows(r, e)'
      BY <3>3, <3>4, EmptyFollows
    <3>6. Behind(r)'
      BY <1>2, <2>2, <3>1, <3>5 DEF Behind
    <3> QED BY <1>2, <2>1, <3>4, <3>6 DEF WindowRight
  <2>5. \/ /\ value = HIGH /\ last_sample = LOW
           /\ requested_windows' = requested_windows \o high_triggers
        \/ /\ value = LOW /\ last_sample = HIGH
           /\ requested_windows' = requested_windows \o low_triggers
        \/ UNCHANGED requested_windows
    BY <1>7, Zenon DEF TraceSample, TakeSample
  <2>6. ASSUME NEW t \in Seq(Requests), requested_windows' = requested_windows \o t,
               i \notin 1 .. Len(requested_windows)
        PROVE  r \in ToSet(t)
    <3>1. Len(t) \in Nat /\ DOMAIN t = 1 .. Len(t)
      BY LenProperties
    <3>2. i \in 1 .. Len(requested_windows) + Len(t)
          /\ r = t[i - Len(requested_windows)]
      BY <1>2, <2>6, <3>1, ConcatProperties
    <3>3. i - Len(requested_windows) \in 1 .. Len(t)
      BY <1>2, <2>6, <3>1, <3>2
    <3> QED BY <3>1, <3>2, <3>3 DEF ToSet
  <2>7. ASSUME NEW t \in Seq(Requests), requested_windows' = requested_windows \o t,
               i \in 1 .. Len(requested_windows)
        PROVE  requested_windows[i] = r
    <3>1. Len(t) \in Nat
      BY LenProperties
    <3> QED BY <1>2, <2>7, <3>1, ConcatProperties
  <2>8. high_triggers \in Seq(Requests) /\ low_triggers \in Seq(Requests)
    BY DEF TypeOK
  <2>9. CASE i \in 1 .. Len(requested_windows)
    BY <2>3, <2>5, <2>7, <2>8, <2>9
  <2>10. CASE i \notin 1 .. Len(requested_windows)
    <3>1. \/ value = HIGH /\ last_sample = LOW /\ r \in ToSet(high_triggers)
          \/ value = LOW /\ last_sample = HIGH /\ r \in ToSet(low_triggers)
      BY <2>5, <2>6, <2>8, <2>10
    <3>2. r \in Armed /\ trigger[r] = value /\ value \in Levels
      BY <3>1 DEF Armed, ArmedRight, Levels
    <3> QED BY <2>4, <3>1, <3>2, OppositeLevels
  <2> QED BY <2>9, <2>10
<1>8. CASE PushSample /\ UNCHANGED <<history, asked_at, trigger>>
  <2>1. PICK q : q = requested_windows[cursor]
    OBVIOUS
  <2>2. /\ cursor \in 1 .. Len(requested_windows) /\ q \in Requests
        /\ pc["sampler"] = "fill" /\ pc' = pc /\ UNCHANGED num_samples
        /\ UNCHANGED <<history, asked_at, trigger>>
        /\ \/ Full(q) /\ TakeOut(q)
           \/ ~ Full(q) /\ StepOver
    BY <1>8, <2>1, PushFacts
  <2>3. \A j \in 1 .. Len(requested_windows) :
          j # cursor => requested_windows[j] # q
    BY <1>2, <2>1, <2>2, Elsewhere, LenProperties DEF IsInjective
  <2>4. ASSUME NEW j \in 1 .. Len(requested_windows), j # cursor,
               requested_windows[j] = r, j >= cursor <=> i >= cursor'
        PROVE  WindowRight(i, r)'
    <3>1. Calm(r) /\ WindowRight(j, r)
      BY <1>3, <1>4, <2>1, <2>3, <2>4, OthersAreCalm
    <3> QED BY <1>1, <1>2, <2>2, <2>4, <3>1, WindowRightStays
  <2>5. CASE TakeOut(q)
    <3>1. /\ cursor' = cursor /\ i \in 1 .. Len(requested_windows) - 1
          /\ r = IF i < cursor THEN requested_windows[i]
                               ELSE requested_windows[i + 1]
      BY <1>2, <2>2, <2>5, RemoveAtElements DEF TakeOut
    <3>2. CASE i < cursor
      BY <1>2, <2>4, <3>1, <3>2
    <3>3. CASE ~ (i < cursor)
      <4>1. i + 1 \in 1 .. Len(requested_windows) /\ i + 1 # cursor
            /\ i + 1 >= cursor /\ i >= cursor
        BY <1>2, <3>1, <3>3
      <4> QED BY <2>4, <3>1, <3>3, <4>1
    <3> QED BY <3>2, <3>3
  <2>6. CASE ~ Full(q) /\ StepOver
    <3>1. /\ cursor' = cursor + 1 /\ i \in 1 .. Len(requested_windows)
          /\ requested_windows[i] = r
      BY <2>6 DEF StepOver
    <3>2. CASE i # cursor
      <4>1. i >= cursor <=> i >= cursor'
        BY <1>2, <3>1, <3>2
      <4> QED BY <2>4, <3>1, <3>2, <4>1
    <3>3. CASE i = cursor
      <4> SUFFICES ASSUME num_samples[r] > 0
                   PROVE  WindowRight(i, r)'
        BY <2>2 DEF WindowRight
      <4>1. r = q /\ r = requested_windows[cursor]
        BY <2>1, <3>1, <3>3
      <4>2. Len(data[r]) < num_samples[r] /\ Behind(r)
        BY <1>2, <1>3, <2>2, <3>1, <3>3 DEF WindowRight
      <4>3. Len(data[r]) \in Nat /\ Len(data[r]) < MaxData
        <5>1. Len(data[r]) \in Nat
          BY <1>2, LenProperties
        <5>2. num_samples[r] < MaxData
          BY <1>4, <3>1 DEF Watched
        <5> QED BY <1>2, <4>2, <5>1, <5>2, OscilloscopeAssumption
      <4>4. UpToDate(r)' /\ Len(data'[r]) = Len(data[r]) + 1
        BY <1>8, <2>2, <4>1, <4>2, <4>3, PushExtends
      <4>5. Len(data'[r]) # num_samples[r]
        BY <2>6, <4>1 DEF Full
      <4>6. Len(data'[r]) < num_samples'[r]
        BY <1>2, <2>2, <4>2, <4>3, <4>4, <4>5
      <4>7. ~ (i >= cursor')
        BY <1>2, <3>1, <3>3
      <4> QED BY <4>4, <4>6, <4>7 DEF WindowRight
    <3> QED BY <3>2, <3>3
  <2> QED BY <2>2, <2>5, <2>6
<1>9. CASE TraceInner /\ EndFill
  <2>1. /\ UNCHANGED <<history, requested_windows>> /\ cursor > Len(requested_windows)
        /\ pc'["sampler"] # "fill"
    BY <1>9 DEF TraceInner, EndFill, Goto, TypeOK, Threads
  <2>2. i \in 1 .. Len(requested_windows) /\ requested_windows[i] = r
        /\ ~ (i >= cursor)
    BY <1>2, <2>1
  <2>3. ~ PushSample
    BY <1>9, <2>1, PushFacts, <1>2 DEF PushSample
  <2>4. Calm(r) /\ WindowRight(i, r)
    BY <1>3, <1>4, <2>2, <2>3, OthersAreCalm
  <2> QED BY <1>1, <1>2, <2>1, <2>2, <2>4, WindowRightStays
<1>10. CASE TraceInner /\ ~ PushSample /\ ~ EndFill
  <2>1. UNCHANGED history
    BY <1>10 DEF TraceInner
  <2>2. CASE \/ \E level \in Levels : Write(level)
             \/ Destroy \/ Joiner \/ Terminated
    BY <1>5, <1>10, <2>1, <2>2, Zenon
       DEF Write, Destroy, Joiner, FlusherJoined, SamplerJoined, JoinBegin,
           Terminated, vars, sampleVars
  <2>3. CASE SamplerLoop \/ QueueFilled \/ Notify \/ Flusher \/ SpuriousWakeup
    <3>1. UNCHANGED <<requested_windows, cursor>>
      BY <2>3, Zenon
         DEF SamplerLoop, QueueFilled, Notify, Flusher, FlusherLoop, Loop, Step,
             CollectFilled, Callback, EndFlush, SpuriousWakeup, sampleVars
    <3>2. pc'["sampler"] = "fill" <=> pc["sampler"] = "fill"
      <4>1. pc \in [Threads -> {"loop", "sample", "fill", "queue", "notify",
                                "flush", "wait", "callback", "exited"}]
        BY DEF TypeOK
      <4> QED BY <2>3, <4>1
              DEF SamplerLoop, QueueFilled, Notify, Flusher, FlusherLoop, Loop,
                  Step, CollectFilled, Callback, EndFlush, SpuriousWakeup,
                  Goto, Threads
    <3> QED BY <1>5, <1>10, <2>1, <3>1, <3>2
  <2> QED BY <1>10, <2>2, <2>3 DEF TraceInner
<1>11. CASE UNCHANGED traceVars
  <2>1. /\ UNCHANGED <<history, asked_at, trigger>>
        /\ UNCHANGED <<requested_windows, cursor, pc>>
    BY <1>11 DEF traceVars, vars, sampleVars, windowVars
  <2>2. CASE ~ PushSample
    BY <1>5, <2>1, <2>2
  <2>3. CASE PushSample
    BY <1>8, <2>1, <2>3
  <2> QED BY <2>2, <2>3
<1> QED BY <1>6, <1>7, <1>8, <1>9, <1>10, <1>11 DEF TraceNext, TraceInner

-----------------------------------------------------------------------------
(* A step that pushes a sample neither takes one nor makes a request.      *)
LEMMA PushWatched ==
  ASSUME TypeOK, PushSample, [TraceNext]_traceVars
  PROVE  UNCHANGED <<history, asked_at, trigger>>
<1>1. PICK q : q = requested_windows[cursor]
  OBVIOUS
<1>2. pc["sampler"] = "fill" /\ asked' = asked
  BY <1>1, PushFacts
<1>3. ~ TraceSample
  BY <1>2 DEF TraceSample, TakeSample
<1>4. \A r \in Requests, size \in Sizes, when \in Levels \cup {Now} :
        ~ TraceAsk(r, size, when)
  BY <1>2 DEF TraceAsk, FillWindow, FillWindowOnTrigger, NewRequest
<1> QED BY <1>3, <1>4 DEF TraceNext, TraceInner, traceVars

LEMMA LeftStep ==
  /\ TypeOK /\ TypeOK' /\ RequestsConserved
  /\ Watched /\ FillingRight /\ LeftRight
  /\ [TraceNext]_traceVars
  => LeftRight'
<1> SUFFICES ASSUME TypeOK, TypeOK', RequestsConserved, Watched, FillingRight,
                    LeftRight, [TraceNext]_traceVars,
                    NEW r \in Left'
             PROVE  num_samples'[r] > 0 /\ Complete(r)'
  BY DEF LeftRight
<1>1. HistoryKept
  BY HistoryGrows DEF Watched
<1>2. CASE r \in Left
  <2>1. r \in asked /\ r \in Requests /\ r \notin Filling
    BY <1>2, Elsewhere DEF TypeOK
  <2>2. ~ (PushSample /\ r = requested_windows[cursor])
    BY <2>1, PushFacts
  <2>3. Calm(r)
    BY <2>1, <2>2, OthersAreCalm
  <2>4. asked_at[r] \in Nat /\ data[r] \in Seq(Readings)
    <3>1. asked_at[r] \in 0 .. Len(history)
      BY <2>1 DEF Watched
    <3>2. data[r] \in Seq(Readings)
      BY <2>1 DEF TypeOK, Readings
    <3> QED BY <3>1, <3>2
  <2>5. Complete(r) /\ num_samples[r] > 0
    BY <1>2 DEF LeftRight
  <2> QED BY <1>1, <2>1, <2>3, <2>4, <2>5, WindowStays DEF Calm
<1>3. CASE r \in Requests /\ Completes(r)
  <2>1. /\ PushSample /\ r = requested_windows[cursor] /\ Full(r)
    BY <1>3 DEF Completes
  <2>2. /\ pc["sampler"] = "fill" /\ cursor \in 1 .. Len(requested_windows)
        /\ r \in asked /\ UNCHANGED num_samples
        /\ UNCHANGED <<history, asked_at, trigger>>
        /\ data'[r] = IF Len(data[r]) < MaxData THEN Append(data[r], sample)
                                                ELSE data[r]
    <3>1. /\ pc["sampler"] = "fill" /\ cursor \in 1 .. Len(requested_windows)
          /\ r \in Filling /\ UNCHANGED num_samples
          /\ data' = [data EXCEPT ![r] = IF Len(data[r]) < MaxData
                                         THEN Append(data[r], sample)
                                         ELSE data[r]]
      BY <2>1, PushFacts
    <3>2. data'[r] = IF Len(data[r]) < MaxData THEN Append(data[r], sample)
                                               ELSE data[r]
      BY <1>3, <3>1 DEF TypeOK
    <3>3. r \in asked /\ UNCHANGED <<history, asked_at, trigger>>
      BY <2>1, <3>1, Elsewhere, PushWatched
    <3> QED BY <3>1, <3>2, <3>3
  <2>3. /\ Len(data'[r]) = num_samples[r] /\ num_samples[r] < MaxData
        /\ num_samples[r] \in Nat /\ MaxData \in Nat /\ Len(data[r]) \in Nat
        /\ Len(history) \in Nat \ {0}
    <3>1. Len(data'[r]) = num_samples[r] /\ num_samples[r] < MaxData
      BY <2>1, <2>2 DEF Full, Watched
    <3>2. num_samples[r] \in Nat /\ data[r] \in Seq(Readings)
      BY <1>3 DEF TypeOK, Readings
    <3>3. history \in Seq(Readings) /\ Len(history) > 0
      BY DEF Watched
    <3>4. Len(data[r]) \in Nat /\ Len(history) \in Nat
      BY <3>2, <3>3, LenProperties
    <3> QED BY <3>1, <3>2, <3>3, <3>4, OscilloscopeAssumption
  <2>4. num_samples[r] > 0
    <3>1. CASE Len(data[r]) < MaxData
      <4>1. Len(Append(data[r], sample)) = Len(data[r]) + 1
        BY <1>3, AppendProperties DEF TypeOK
      <4> QED BY <2>2, <2>3, <3>1, <4>1
    <3>2. CASE ~ (Len(data[r]) < MaxData)
      BY <2>2, <2>3, <3>2
    <3> QED BY <3>1, <3>2
  <2>5. Len(data[r]) < num_samples[r] /\ Behind(r)
    <3>1. cursor \in Nat
      BY DEF TypeOK
    <3>2. WindowRight(cursor, r)
      BY <1>3, <2>1, <2>2, FillingRightSays
    <3> QED BY <2>2, <2>4, <3>1, <3>2 DEF WindowRight
  <2>6. UpToDate(r)'
    BY <1>3, <2>1, <2>2, <2>3, <2>5, PushExtends
  <2>7. Complete(r)'
    BY <2>2, <2>3, <2>6 DEF UpToDate, Complete
  <2> QED BY <2>2, <2>4, <2>7
<1> QED BY <1>2, <1>3, TraceStepIsStep, LeftGrows

-----------------------------------------------------------------------------
(* The inductive invariant of OscilloscopeTrace.                           *)
LEMMA TraceInvInit == TraceInit => TraceInv
<1> SUFFICES ASSUME TraceInit
             PROVE  TraceInv
  OBVIOUS
<1>1. Watched
  BY WatchedInit
<1>2. /\ high_triggers = <<>> /\ low_triggers = <<>> /\ requested_windows = <<>>
      /\ newly_filled_windows = <<>> /\ filled_windows = <<>>
      /\ to_flush = <<>> /\ delivered = <<>>
  BY DEF TraceInit, Init
<1>3. Armed = {} /\ Left = {}
  BY <1>2, EmptyFacts DEF Armed, Left, Filled, Delivered
<1>4. ArmedRight
  BY <1>2, <1>3, EmptyFacts DEF ArmedRight, NoEdgeMissed
<1>5. FillingRight
  BY <1>2 DEF FillingRight
<1> QED BY <1>1, <1>3, <1>4, <1>5 DEF TraceInv, LeftRight

LEMMA TraceInvStep ==
  TypeOK /\ TypeOK' /\ RequestsConserved /\ TraceInv /\ [TraceNext]_traceVars
    => TraceInv'
BY WatchedStep, ArmedStep, FillingStep, LeftStep DEF TraceInv

(* Armed, filling and past windows stay as TraceInv says.                  *)
THEOREM TraceInductive == TraceSpec => [](TypeOK /\ RequestsConserved /\ TraceInv)
<1>1. TraceSpec => [](TypeOK /\ RequestsConserved)
  BY TraceImplements, TypeCorrect, NoRequestLostOrDuplicated, PTL
<1> QED BY <1>1, TraceInvInit, TraceInvStep, PTL DEF TraceSpec

(* While a request is armed no sample taken since it was made was an edge  *)
(* to its trigger, whatever clients and the two threads did: the sampler   *)
(* never skips an edge and never starts a window late.                     *)
THEOREM EdgesAreSeen == TraceSpec => []NoEdgeMissed
BY TraceInductive, PTL DEF TraceInv, ArmedRight

(* A complete window of num_samples samples is a slice of the history.     *)
LEMMA CompleteIsContiguous ==
  TypeOK /\ RequestsConserved /\ TraceInv /\ OnlyFullWindowsLeave
    => WindowsAreContiguous
<1> SUFFICES ASSUME TypeOK, RequestsConserved, TraceInv, OnlyFullWindowsLeave,
                    NEW r \in Left
             PROVE  \E k \in DOMAIN history :
                      /\ StartsAt(r, k)
                      /\ data[r] = SubSeq(history, k, k + num_samples[r] - 1)
  BY DEF WindowsAreContiguous, Left
<1>1. /\ r \in Requests /\ num_samples[r] > 0 /\ Complete(r)
      /\ Len(data[r]) = num_samples[r]
  BY Elsewhere DEF TraceInv, LeftRight, OnlyFullWindowsLeave, Left, TypeOK
<1> PICK e \in 1 .. Len(history) : Follows(r, e)
  BY <1>1 DEF Complete
<1>2. PICK k \in 1 .. e + 1 :
        /\ StartsAt(r, k)
        /\ Len(data[r]) = e + 1 - k
        /\ \A j \in 1 .. Len(data[r]) : data[r][j] = history[k + j - 1]
  BY DEF Follows
<1>3. /\ history \in Seq(Readings) /\ data[r] \in Seq(Readings)
      /\ num_samples[r] \in Nat
  BY <1>1 DEF TraceInv, Watched, TypeOK, Readings
<1>4. Len(history) \in Nat /\ DOMAIN history = 1 .. Len(history)
  BY <1>3, LenProperties
<1>5. k \in DOMAIN history /\ k + num_samples[r] - 1 = e /\ e <= Len(history)
  BY <1>1, <1>2, <1>3, <1>4
<1>6. /\ SubSeq(history, k, e) \in Seq(Readings)
      /\ Len(SubSeq(history, k, e)) = Len(data[r])
      /\ \A j \in 1 .. Len(data[r]) : SubSeq(history, k, e)[j] = data[r][j]
  <2>1. \A i \in k .. e : history[i] \in Readings
    BY <1>3, <1>4, <1>5, ElementOfSeq
  <2>2. /\ SubSeq(history, k, e) \in Seq(Readings)
        /\ Len(SubSeq(history, k, e)) = IF k <= e THEN e - k + 1 ELSE 0
        /\ \A j \in 1 .. e - k + 1 : SubSeq(history, k, e)[j] = history[k + j - 1]
    BY <1>2, <1>4, <1>5, <2>1, SubSeqProperties
  <2> QED BY <1>1, <1>2, <1>3, <1>4, <2>2
<1>7. data[r] = SubSeq(history, k, e)
  BY <1>3, <1>6, SeqEqual
<1> QED BY <1>2, <1>5, <1>7

(* Every window that left the sampler holds consecutive samples, none      *)
(* skipped, repeated or taken before the request, from the first after it  *)
(* or from its edge, for every set of requests and every sampling rate.    *)
THEOREM WindowsHoldTheSignal == TraceSpec => []WindowsAreContiguous
<1>1. TraceSpec => []OnlyFullWindowsLeave
  BY TraceImplements, WindowsLeaveFull, PTL
<1> QED BY <1>1, TraceInductive, CompleteIsContiguous, PTL
=============================================================================
