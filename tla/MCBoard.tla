------------------------------- MODULE MCBoard -------------------------------
(* Instances of Board: two texts per form, Blank and one that is filled. *)
EXTENDS Board
==============================================================================
