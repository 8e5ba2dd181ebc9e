------------------------- MODULE MCOscilloscopeTrace -------------------------
(* Instances of OscilloscopeTrace for TLC.                                 *)
EXTENDS OscilloscopeTrace

Symmetry == Permutations(Requests)
=============================================================================
