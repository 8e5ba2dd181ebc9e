------------------------------- MODULE MCMotor -------------------------------
(* Instances of Motor for TLC.                                             *)
EXTENDS Motor

\* Below STOP_THRESHOLD, above it, and negative.
MCIntervals     == {-1, 1, 3}
MCAccelerations == {-1, 0, 1}
=============================================================================
