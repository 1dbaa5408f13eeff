---------------------------- MODULE MCCalibration ----------------------------
(***************************************************************************)
(* Instance of Calibration for TLC: three samples, so that a first, a next *)
(* and a last one differ, and a streak of two.                             *)
(***************************************************************************)
EXTENDS Calibration

=============================================================================
