--------------------------------- MODULE Raspi ---------------------------------
(***************************************************************************)
(* The interface that the registers and the emulation of a Raspberry Pi    *)
(* share: struct raspi of include/hardware/raspi.h.                        *)
(***************************************************************************)
EXTENDS Integers

LOW    == "LOW"
HIGH   == "HIGH"
Levels == {LOW, HIGH}     \* digital_val_t

INPUT  == 0
OUTPUT == 1
Modes  == {INPUT, OUTPUT}   \* pin_mode_t
=============================================================================
