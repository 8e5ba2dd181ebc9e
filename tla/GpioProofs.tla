------------------------------ MODULE GpioProofs ------------------------------
(***************************************************************************)
(* Proofs about Gpio, for any pins of the Raspberry Pi and any functions   *)
(* they may have when the program starts.                                  *)
(***************************************************************************)
EXTENDS Gpio, TLAPS

-----------------------------------------------------------------------------
(* Where a pin's bits are.                                                 *)

\* The function registers hold the fields of all pins, the level registers
\* their bits.
LEMMA PlaceOfAPin ==
  ASSUME NEW p \in Pins
  PROVE  /\ p \in 0 .. 53
         /\ p \div 10 \in FunctionRegisters
         /\ p % 10 \in 0 .. 9
         /\ p = 10 * (p \div 10) + (p % 10)
         /\ p \div 32 \in LevelRegisters
         /\ p % 32 \in 0 .. 31
         /\ p = 32 * (p \div 32) + (p % 32)
<1>1. p \in 0 .. 53
  BY GpioAssumption
<1> QED
  BY <1>1 DEF FunctionRegisters, LevelRegisters

\* The three bits of a number are there from its offset on.
LEMMA BitsAreThree ==
  ASSUME NEW n \in 0 .. 7, NEW m \in 0 .. 27
  PROVE  /\ Bits(n, m) \subseteq m .. m + 2
         /\ Bits(n, m) \subseteq 0 .. 29
         /\ \A k \in 0 .. 2 : m + k \in Bits(n, m) <=> k \in Bits(n, 0)
  BY DEF Bits

\* A pin's mask is in its own field, where it has the bits of the function.
LEMMA MaskIsInTheField ==
  ASSUME NEW p \in Pins, NEW fn \in 0 .. 7
  PROVE  /\ Mask(p, fn) \subseteq 3 * (p % 10) .. 3 * (p % 10) + 2
         /\ Mask(p, fn) \subseteq 0 .. 29
         /\ \A k \in 0 .. 2 :
              3 * (p % 10) + k \in Mask(p, fn) <=> k \in Bits(fn, 0)
<1> DEFINE m == (p % 10) * 3
<1>1. m \in 0 .. 27 /\ m = 3 * (p % 10)
  BY PlaceOfAPin
<1>2. Mask(p, fn) = Bits(fn, m)
  BY DEF Mask
<1> HIDE DEF m
<1> QED
  BY <1>1, <1>2, BitsAreThree

\* Fields of different pins in one register do not overlap.
LEMMA FieldsAreDisjoint ==
  ASSUME NEW p \in Pins, NEW q \in Pins, p # q, p \div 10 = q \div 10,
         NEW k \in 0 .. 2
  PROVE  3 * (p % 10) + k \notin 3 * (q % 10) .. 3 * (q % 10) + 2
<1> DEFINE i == p % 10
           j == q % 10
<1>1. i \in 0 .. 9 /\ j \in 0 .. 9 /\ i # j
  BY PlaceOfAPin
<1> HIDE DEF i, j
<1>2. 3 * i + k \notin 3 * j .. 3 * j + 2
  BY <1>1
<1> QED
  BY <1>2 DEF i, j

\* The function of a pin is the number that its three bits spell.
LEMMA FieldHasItsBits ==
  ASSUME NEW fsel, NEW p
  PROVE  Bits(Field(fsel, p), 0) =
           {k \in 0 .. 2 : 3 * (p % 10) + k \in fsel[p \div 10]}
<1> DEFINE bit(k) == IF 3 * (p % 10) + k \in fsel[p \div 10] THEN 1 ELSE 0
           n      == bit(0) + 2 * bit(1) + 4 * bit(2)
<1>1. Field(fsel, p) = n
  BY DEF Field
<1>2. /\ bit(0) \in {0, 1} /\ bit(1) \in {0, 1} /\ bit(2) \in {0, 1}
      /\ \A k \in 0 .. 2 : bit(k) = 1 <=> 3 * (p % 10) + k \in fsel[p \div 10]
  OBVIOUS
<1> HIDE DEF bit
<1>3. /\ n % 2 = bit(0)
      /\ (n \div 2) % 2 = bit(1)
      /\ (n \div 4) % 2 = bit(2)
  BY <1>2
<1>4. n \in 0 .. 7
  BY <1>2
<1> HIDE DEF n
<1>5. Bits(n, 0) = {k \in 0 .. 2 : bit(k) = 1}
  BY <1>3, <1>4 DEF Bits
<1> QED
  BY <1>1, <1>2, <1>5

-----------------------------------------------------------------------------
(* Types.                                                                  *)

\* Every register holds bits it has, a pin was asked for functions of three
\* bits only, and what it was given is a level.
THEOREM TypeCorrect == GpioSpec => []GpioTypeOK
<1>1. GpioInit => GpioTypeOK
  <2> SUFFICES ASSUME GpioInit PROVE GpioTypeOK
    OBVIOUS
  <2>1. \A p \in Pins : asked[p] \in 0 .. 7
    BY GpioAssumption DEF GpioInit
  <2>2. \A p \in Pins : Bits(asked[p], 3 * (p % 10)) \subseteq 0 .. 29
    <3> SUFFICES ASSUME NEW p \in Pins
                 PROVE  Bits(asked[p], 3 * (p % 10)) \subseteq 0 .. 29
      OBVIOUS
    <3>1. 3 * (p % 10) \in 0 .. 27
      BY PlaceOfAPin
    <3> QED
      BY <2>1, <3>1, BitsAreThree
  <2>3. GPFSEL \in [FunctionRegisters -> SUBSET (0 .. 29)]
    BY <2>2 DEF GpioInit
  <2>4. asked \in [Pins -> 0 .. 7]
    BY GpioAssumption DEF GpioInit
  <2>5. /\ GPLEV \in [LevelRegisters -> SUBSET (0 .. 31)]
        /\ written \in [Pins -> Levels \cup {"nothing"}]
    BY DEF GpioInit
  <2> QED
    BY <2>3, <2>4, <2>5 DEF GpioTypeOK
<1>2. GpioTypeOK /\ [GpioNext]_gpio_vars => GpioTypeOK'
  <2> SUFFICES ASSUME GpioTypeOK, [GpioNext]_gpio_vars PROVE GpioTypeOK'
    OBVIOUS
  <2>1. ASSUME NEW p \in Pins, NEW fn \in Modes, pin_mode(p, fn) PROVE GpioTypeOK'
    <3>1. fn \in 0 .. 7
      BY DEF Modes, INPUT, OUTPUT
    <3>2. Mask(p, fn) \subseteq 0 .. 29
      BY <3>1, MaskIsInTheField
    <3>3. GPFSEL' = [GPFSEL EXCEPT ![p \div 10] =
                       (@ \ Mask(p, fn)) \cup Mask(p, fn)]
      BY <2>1 DEF pin_mode
    <3>4. GPFSEL' \in [FunctionRegisters -> SUBSET (0 .. 29)]
      BY <3>2, <3>3 DEF GpioTypeOK
    <3>5. asked' \in [Pins -> 0 .. 7]
      BY <2>1, <3>1 DEF pin_mode, GpioTypeOK
    <3> QED
      BY <2>1, <3>4, <3>5 DEF pin_mode, GpioTypeOK
  <2>2. ASSUME NEW p \in Pins, NEW value \in Levels, digital_write(p, value)
        PROVE  GpioTypeOK'
    <3>1. GPLEV' \in [LevelRegisters -> SUBSET (0 .. 31)]
      BY <2>2, PlaceOfAPin DEF digital_write, Drive, GpioTypeOK
    <3>2. written' \in [Pins -> Levels \cup {"nothing"}]
      BY <2>2 DEF digital_write, GpioTypeOK
    <3> QED
      BY <2>2, <3>1, <3>2 DEF digital_write, GpioTypeOK
  <2>3. ASSUME NEW p \in Pins, World(p) PROVE GpioTypeOK'
    <3>1. GPLEV' \in [LevelRegisters -> SUBSET (0 .. 31)]
      BY <2>3, PlaceOfAPin DEF World, GpioTypeOK
    <3> QED
      BY <2>3, <3>1 DEF World, GpioTypeOK
  <2>4. CASE UNCHANGED gpio_vars
    BY <2>4 DEF gpio_vars, GpioTypeOK
  <2> QED
    BY <2>1, <2>2, <2>3, <2>4 DEF GpioNext
<1> QED
  BY <1>1, <1>2, PTL DEF GpioSpec

-----------------------------------------------------------------------------
(* Functions.                                                              *)

\* pin_mode adds the bits of the function to the pin's field, and leaves
\* the others alone.
LEMMA PinModeAddsToOneField ==
  ASSUME GpioTypeOK, NEW q \in Pins, NEW fn \in Modes, pin_mode(q, fn),
         NEW p \in Pins, NEW k \in 0 .. 2
  PROVE  3 * (p % 10) + k \in GPFSEL'[p \div 10]
           <=> \/ 3 * (p % 10) + k \in GPFSEL[p \div 10]
               \/ p = q /\ k \in Bits(fn, 0)
<1>1. GPFSEL' = [GPFSEL EXCEPT ![q \div 10] = @ \cup Mask(q, fn)]
  <2>1. GPFSEL' = [GPFSEL EXCEPT ![q \div 10] = (@ \ Mask(q, fn)) \cup Mask(q, fn)]
    BY DEF pin_mode
  <2>2. \A S, T : (S \ T) \cup T = S \cup T
    OBVIOUS
  <2> QED
    BY <2>1, <2>2
<1>2. fn \in 0 .. 7
  BY DEF Modes, INPUT, OUTPUT
<1>3. p \div 10 \in FunctionRegisters /\ q \div 10 \in FunctionRegisters
  BY PlaceOfAPin
<1>4. CASE p \div 10 # q \div 10
  BY <1>1, <1>3, <1>4 DEF GpioTypeOK
<1>5. CASE p \div 10 = q \div 10
  <2>1. GPFSEL'[p \div 10] = GPFSEL[p \div 10] \cup Mask(q, fn)
    BY <1>1, <1>3, <1>5 DEF GpioTypeOK
  <2>2. 3 * (p % 10) + k \in Mask(q, fn) <=> p = q /\ k \in Bits(fn, 0)
    <3>1. CASE p = q
      BY <1>2, <3>1, MaskIsInTheField
    <3>2. CASE p # q
      BY <1>2, <1>5, <3>2, FieldsAreDisjoint, MaskIsInTheField
    <3> QED
      BY <3>1, <3>2
  <2> QED
    BY <2>1, <2>2
<1> QED
  BY <1>4, <1>5

\* The bits of a field decide the function.
LEMMA BitsDecideFunction ==
  ASSUME NEW p,
         \A k \in 0 .. 2 : 3 * (p % 10) + k \in GPFSEL'[p \div 10]
                             <=> 3 * (p % 10) + k \in GPFSEL[p \div 10]
  PROVE  Function(p)' = Function(p)
  BY DEF Function, Field

\* What a call does to the function of one pin, the others' read and
\* written back included.
LEMMA OneFunctionChanges ==
  ASSUME GpioTypeOK, GpioNext, NEW p \in Pins, Function(p)' # Function(p)
  PROVE  \E fn \in Modes : pin_mode(p, fn)
<1>1. GPFSEL' # GPFSEL
  BY BitsDecideFunction
<1>2. PICK q \in Pins, fn \in Modes : pin_mode(q, fn)
  BY <1>1 DEF GpioNext, digital_write, World
<1>3. q = p
  <2> SUFFICES ASSUME q # p PROVE FALSE
    OBVIOUS
  <2>1. \A k \in 0 .. 2 : 3 * (p % 10) + k \in GPFSEL'[p \div 10]
                            <=> 3 * (p % 10) + k \in GPFSEL[p \div 10]
    BY <1>2, PinModeAddsToOneField
  <2> QED
    BY <2>1, BitsDecideFunction
<1> QED
  BY <1>2, <1>3

\* No call of pin_mode changes the function of another pin, although it
\* reads and writes back the register that ten pins share.
THEOREM OthersKeepTheirs == GpioSpec => OthersKeepTheirFunction
<1> DEFINE Own == \A p \in Pins :
                    Function(p)' # Function(p) => \E fn \in Modes : pin_mode(p, fn)
<1>1. GpioTypeOK /\ [GpioNext]_gpio_vars => [Own]_gpio_vars
  BY OneFunctionChanges
<1> QED
  BY <1>1, TypeCorrect, PTL DEF GpioSpec, OthersKeepTheirFunction

\* An output stays one, whatever is asked of it: of the two modes that
\* pin_mode is called with, one has no bits and the other only the bit that
\* an output has already.
THEOREM OutputsStayOutputs ==
  GpioSpec => [][\A p \in Pins : Function(p) = OUTPUT => Function(p)' = OUTPUT]_gpio_vars
<1> DEFINE Kept == \A p \in Pins : Function(p) = OUTPUT => Function(p)' = OUTPUT
<1>1. GpioTypeOK /\ [GpioNext]_gpio_vars => [Kept]_gpio_vars
  <2> SUFFICES ASSUME GpioTypeOK, GpioNext, NEW p \in Pins, Function(p) = OUTPUT
               PROVE  Function(p)' = OUTPUT
    OBVIOUS
  <2>1. CASE UNCHANGED GPFSEL
    BY <2>1, BitsDecideFunction
  <2>2. ASSUME NEW q \in Pins, NEW fn \in Modes, pin_mode(q, fn)
        PROVE  Function(p)' = OUTPUT
    <3>1. Bits(Function(p), 0) = {0} /\ Bits(fn, 0) \subseteq {0}
      BY DEF Bits, Modes, INPUT, OUTPUT
    <3>2. \A k \in 0 .. 2 : k \in Bits(fn, 0)
                              => 3 * (p % 10) + k \in GPFSEL[p \div 10]
      BY <3>1, FieldHasItsBits DEF Function
    <3>3. \A k \in 0 .. 2 : 3 * (p % 10) + k \in GPFSEL'[p \div 10]
                              <=> 3 * (p % 10) + k \in GPFSEL[p \div 10]
      BY <2>2, <3>2, PinModeAddsToOneField
    <3> QED
      BY <3>3, BitsDecideFunction
  <2>3. ASSUME NEW q \in Pins, NEW value \in Levels, digital_write(q, value)
        PROVE  Function(p)' = OUTPUT
    BY <2>1, <2>3 DEF digital_write
  <2>4. ASSUME NEW q \in Pins, World(q) PROVE Function(p)' = OUTPUT
    BY <2>1, <2>4 DEF World
  <2> QED
    BY <2>2, <2>3, <2>4 DEF GpioNext
<1> QED
  BY <1>1, TypeCorrect, PTL DEF GpioSpec

-----------------------------------------------------------------------------
(* Levels.                                                                 *)

\* Two pins do not share a bit of the level registers.
LEMMA LevelsAreDistinct ==
  ASSUME NEW p \in Pins, NEW q \in Pins, p # q
  PROVE  p \div 32 # q \div 32 \/ p % 32 # q % 32
  BY PlaceOfAPin

\* The bit that digital_write writes for a pin moves that pin if it is an
\* output, and no other pin.
LEMMA DriveMovesOnePin ==
  ASSUME GpioTypeOK, NEW q \in Pins, NEW value \in Levels,
         Drive(q \div 32, q % 32, value), NEW p \in Pins
  PROVE  /\ p = q /\ Function(q) = OUTPUT => digital_read(p)' = value
         /\ p # q \/ Function(q) # OUTPUT => digital_read(p)' = digital_read(p)
<1> DEFINE reg == q \div 32
           off == q % 32
<1>1. Output(reg, off) <=> Function(q) = OUTPUT
  BY PlaceOfAPin DEF Output
<1>2. GPLEV' = [GPLEV EXCEPT ![reg] =
                  IF Function(q) # OUTPUT THEN @
                  ELSE IF value = HIGH THEN @ \cup {off} ELSE @ \ {off}]
  BY <1>1 DEF Drive
<1>3. reg \in LevelRegisters /\ p \div 32 \in LevelRegisters
  BY PlaceOfAPin
<1>4. CASE Function(q) # OUTPUT
  <2>1. GPLEV' = GPLEV
    BY <1>2, <1>4 DEF GpioTypeOK
  <2> QED
    BY <1>4, <2>1 DEF digital_read
<1>5. CASE p = q /\ Function(q) = OUTPUT
  <2>1. GPLEV'[reg] = IF value = HIGH THEN GPLEV[reg] \cup {off}
                                      ELSE GPLEV[reg] \ {off}
    BY <1>2, <1>3, <1>5 DEF GpioTypeOK
  <2>2. off \in GPLEV'[reg] <=> value = HIGH
    BY <2>1
  <2> QED
    BY <1>5, <2>2 DEF digital_read, Levels, HIGH, LOW
<1>6. CASE p # q /\ Function(q) = OUTPUT
  <2>1. p % 32 \in GPLEV'[p \div 32] <=> p % 32 \in GPLEV[p \div 32]
    <3>1. CASE p \div 32 # reg
      BY <1>2, <1>3, <3>1 DEF GpioTypeOK
    <3>2. CASE p \div 32 = reg
      <4>1. p % 32 # off
        BY <1>6, <3>2, LevelsAreDistinct
      <4>2. GPLEV'[reg] = IF value = HIGH THEN GPLEV[reg] \cup {off}
                                          ELSE GPLEV[reg] \ {off}
        BY <1>2, <1>3, <1>6 DEF GpioTypeOK
      <4> QED
        BY <3>2, <4>1, <4>2
    <3> QED
      BY <3>1, <3>2
  <2> QED
    BY <1>6, <2>1 DEF digital_read
<1> QED
  BY <1>4, <1>5, <1>6

\* The world moves one pin.
LEMMA WorldMovesOnePin ==
  ASSUME GpioTypeOK, NEW q \in Pins, World(q), NEW p \in Pins, p # q
  PROVE  digital_read(p)' = digital_read(p)
<1> DEFINE reg == q \div 32
           off == q % 32
<1>1. GPLEV' = [GPLEV EXCEPT ![reg] = IF off \in @ THEN @ \ {off} ELSE @ \cup {off}]
  BY DEF World
<1>2. reg \in LevelRegisters /\ p \div 32 \in LevelRegisters
  BY PlaceOfAPin
<1>3. p % 32 \in GPLEV'[p \div 32] <=> p % 32 \in GPLEV[p \div 32]
  <2>1. CASE p \div 32 # reg
    BY <1>1, <1>2, <2>1 DEF GpioTypeOK
  <2>2. CASE p \div 32 = reg
    <3>1. p % 32 # off
      BY <2>2, LevelsAreDistinct
    <3>2. GPLEV'[reg] = IF off \in GPLEV[reg] THEN GPLEV[reg] \ {off}
                                              ELSE GPLEV[reg] \cup {off}
      BY <1>1, <1>2 DEF GpioTypeOK
    <3> QED
      BY <2>2, <3>1, <3>2
  <2> QED
    BY <2>1, <2>2
<1> QED
  BY <1>3 DEF digital_read

\* digital_read finds the last level that an output was given, whatever
\* became of the other pins of its registers and of its own function.
THEOREM ReadsBack == GpioSpec => []ReadsWhatWasWritten
<1>1. GpioInit => ReadsWhatWasWritten
  BY DEF GpioInit, ReadsWhatWasWritten
<1>2. GpioTypeOK /\ ReadsWhatWasWritten /\ [GpioNext]_gpio_vars => ReadsWhatWasWritten'
  <2> SUFFICES ASSUME GpioTypeOK, ReadsWhatWasWritten, [GpioNext]_gpio_vars, NEW p \in Pins,
                      written'[p] # "nothing"
               PROVE  digital_read(p)' = written'[p]
    BY DEF ReadsWhatWasWritten
  <2>1. written[p] # "nothing" => digital_read(p) = written[p]
    BY DEF ReadsWhatWasWritten
  <2>2. CASE UNCHANGED <<GPLEV, written>>
    BY <2>1, <2>2 DEF digital_read
  <2>3. ASSUME NEW q \in Pins, NEW fn \in Modes, pin_mode(q, fn)
        PROVE  digital_read(p)' = written'[p]
    BY <2>2, <2>3 DEF pin_mode
  <2>4. ASSUME NEW q \in Pins, NEW value \in Levels, digital_write(q, value)
        PROVE  digital_read(p)' = written'[p]
    <3>1. /\ p = q /\ Function(q) = OUTPUT => digital_read(p)' = value
          /\ p # q \/ Function(q) # OUTPUT => digital_read(p)' = digital_read(p)
      BY <2>4, DriveMovesOnePin DEF digital_write
    <3>2. written'[p] = IF p = q /\ Function(q) = OUTPUT THEN value ELSE written[p]
      BY <2>4 DEF digital_write, GpioTypeOK
    <3> QED
      BY <2>1, <3>1, <3>2
  <2>5. ASSUME NEW q \in Pins, World(q) PROVE digital_read(p)' = written'[p]
    <3>1. written' = [written EXCEPT ![q] = "nothing"]
      BY <2>5 DEF World
    <3>2. p # q /\ written'[p] = written[p]
      BY <3>1 DEF GpioTypeOK
    <3> QED
      BY <2>1, <2>5, <3>2, WorldMovesOnePin
  <2>6. CASE UNCHANGED gpio_vars
    BY <2>2, <2>6 DEF gpio_vars
  <2> QED
    BY <2>3, <2>4, <2>5, <2>6 DEF GpioNext
<1> QED
  BY <1>1, <1>2, TypeCorrect, PTL DEF GpioSpec
=============================================================================
