------------------------------ MODULE MCKeyboard -----------------------------
(* The keyboard as it is: no constants, all four forms. *)
EXTENDS Keyboard
==============================================================================
