---------------------------- MODULE MCCalibration ----------------------------
(* Calibration over short weeks and a short season.                        *)
EXTENDS Calibration

\* Deflated, neutral and inflated, in the order of the routine's values.
ThreeValues == <<-1, 0, 1>>
FourValues  == <<-1, 0, 1, 2>>
=============================================================================
