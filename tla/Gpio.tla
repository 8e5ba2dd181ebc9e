--------------------------------- MODULE Gpio ---------------------------------
(***************************************************************************)
(* The Raspberry Pi's pins as raspi_impl of src/hardware/raspi.cpp drives  *)
(* them, through memory-mapped registers: ten 3-bit function fields to a   *)
(* GPFSEL register, one bit of GPSET, GPCLR and GPLEV for each of 32 pins. *)
(* A register is the set of its bits that are 1.                           *)
(*                                                                         *)
(* The hardware is external: a bit written to GPSET or GPCLR raises or     *)
(* lowers its pin if that is an output, both registers read as zero, and   *)
(* an input pin has the level the world gives it.                          *)
(***************************************************************************)
EXTENDS Raspi

CONSTANTS
  Pins,        (* the pins in use                                          *)
  BootModes    (* functions a pin may have when the program starts         *)

ASSUME GpioAssumption ==
  /\ Pins \subseteq 0 .. 53
  /\ BootModes \subseteq 0 .. 7

VARIABLES
  GPFSEL,      (* the function registers, 0 .. 5                           *)
  GPLEV,       (* the level registers, 0 .. 1                              *)
  asked,       (* history: the function last asked of a pin, or that which *)
               (* it had when the program started                          *)
  written      (* history: the last level a pin was given as an output     *)

gpio_vars == <<GPFSEL, GPLEV, asked, written>>

FunctionRegisters == 0 .. 5
LevelRegisters    == 0 .. 1

GpioTypeOK ==
  /\ GPFSEL \in [FunctionRegisters -> SUBSET (0 .. 29)]
  /\ GPLEV \in [LevelRegisters -> SUBSET (0 .. 31)]
  /\ asked \in [Pins -> 0 .. 7]
  /\ written \in [Pins -> Levels \cup {"nothing"}]

\* The bits of a three-bit number, moved up by offset.
Bits(n, offset) ==
  {offset + k : k \in {j \in 0 .. 2 : (n \div (IF j = 0 THEN 1 ELSE 2 * j)) % 2 = 1}}

\* The hardware's view: the function of a pin, and its level.
Field(fsel, p) ==
  LET bit(k) == IF 3 * (p % 10) + k \in fsel[p \div 10] THEN 1 ELSE 0
  IN  bit(0) + 2 * bit(1) + 4 * bit(2)
Function(p) == Field(GPFSEL, p)
Level(p)    == IF p % 32 \in GPLEV[p \div 32] THEN HIGH ELSE LOW

GpioInit ==
  /\ asked \in [Pins -> BootModes]
  /\ GPFSEL = [reg \in FunctionRegisters |->
                 UNION {Bits(asked[p], 3 * (p % 10)) :
                          p \in {q \in Pins : q \div 10 = reg}}]
  /\ GPLEV = [reg \in LevelRegisters |-> {}]
  /\ written = [p \in Pins |-> "nothing"]

-----------------------------------------------------------------------------
FaultMask(pin, fn) == Bits(fn, pin * 3)  \* does not stay in the register
FaultNextMask(pin, fn) == Bits(fn, ((pin + 1) % 10) * 3)  \* the next pin's
Mask(pin, fn) == Bits(fn, (pin % 10) * 3)

\* "Clear bits", then "set bits": both with the mask of 0b111 & fn.
pin_mode(pin, fn) ==
  LET reg  == pin \div 10
      mask == Mask(pin, fn)
  IN  /\ GPFSEL' = [GPFSEL EXCEPT ![reg] = (@ \ mask) \cup mask]
      /\ asked' = [asked EXCEPT ![pin] = fn]
      /\ UNCHANGED <<GPLEV, written>>

\* What the hardware does with the bits written to GPSET[reg] or GPCLR[reg].
Output(reg, offset) ==
  \E p \in Pins : p = 32 * reg + offset /\ Function(p) = OUTPUT

Drive(reg, offset, value) ==
  GPLEV' = [GPLEV EXCEPT ![reg] =
              IF ~ Output(reg, offset) THEN @
              ELSE IF value = HIGH THEN @ \cup {offset} ELSE @ \ {offset}]

digital_write(pin, value) ==
  LET reg    == pin \div 32
      offset == pin % 32
  IN  /\ Drive(reg, offset, value)
      /\ written' = [written EXCEPT ![pin] =
                       IF Function(pin) = OUTPUT THEN value ELSE @]
      /\ UNCHANGED <<GPFSEL, asked>>

\* Fault: all pins are read from the first register.
Fault_digital_read(pin) == IF pin % 32 \in GPLEV[0] THEN HIGH ELSE LOW

digital_read(pin) ==
  LET reg    == pin \div 32
      offset == pin % 32
  IN  IF offset \in GPLEV[reg] THEN HIGH ELSE LOW

\* The world changes the level of a pin that is not an output.
World(p) ==
  /\ Function(p) # OUTPUT
  /\ GPLEV' = [GPLEV EXCEPT ![p \div 32] =
                 IF p % 32 \in @ THEN @ \ {p % 32} ELSE @ \cup {p % 32}]
  /\ written' = [written EXCEPT ![p] = "nothing"]
  /\ UNCHANGED <<GPFSEL, asked>>

GpioNext ==
  \E p \in Pins :
    \/ \E fn \in Modes : pin_mode(p, fn)
    \/ \E value \in Levels : digital_write(p, value)
    \/ World(p)

GpioSpec == GpioInit /\ [][GpioNext]_gpio_vars
-----------------------------------------------------------------------------
(***************************************************************************)
(* digital_read finds the last level an output was given, whatever was     *)
(* done to the other pins of its registers and to its own mode since.      *)
(***************************************************************************)
ReadsWhatWasWritten ==
  \A p \in Pins : written[p] # "nothing" => digital_read(p) = written[p]

(***************************************************************************)
(* The function of a pin changes only by a call of pin_mode for that pin:  *)
(* no call reaches the fields of the nine other pins in the register it    *)
(* reads, clears bits of and writes back.                                  *)
(***************************************************************************)
OthersKeepTheirFunction ==
  [][\A p \in Pins :
       Function(p)' # Function(p) => \E fn \in Modes : pin_mode(p, fn)]_gpio_vars

(***************************************************************************)
(* "Set pin {} to mode {}." (the message of pin_mode): a pin has the mode  *)
(* that it was last set to.                                                *)
(***************************************************************************)
PinModeSetsTheMode == \A p \in Pins : Function(p) = asked[p]
=============================================================================
