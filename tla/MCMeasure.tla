------------------------------ MODULE MCMeasure ------------------------------
(* Measure with one voltage for each sensor, one of none and an empty pin. *)
EXTENDS Measure
==============================================================================
