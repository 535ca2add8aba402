------------------------------- MODULE MCClock -------------------------------
(* Clock with days of three hours of two minutes of two seconds. *)
EXTENDS Clock
==============================================================================
