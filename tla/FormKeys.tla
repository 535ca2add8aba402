------------------------------- MODULE FormKeys ------------------------------
(****************************************************************************)
(* A form as the user has it: the keys go through the keypad driver, which  *)
(* is only scanned while a form is shown, and the form handles what a scan  *)
(* reports in the same pass.                                                *)
(****************************************************************************)
EXTENDS Form, Keypad

keysVars == <<fields, text, outcome, down, list, elapsed, opened, quiet>>

SKey == 4
StarKey == 6
HashKey == 8

KeysInit == Init /\ KeypadInit

\* 'S' on shift or on the alphabet key types nothing; arrows move the cursor
\* of the keyboard only.
Handled ==
    CASE Reported = HashKey -> Hash
      [] Reported = StarKey -> Star
      [] Reported = SKey    -> Type \/ UNCHANGED vars
      [] OTHER             -> UNCHANGED vars

Pass == outcome = "editing" /\ Scan /\ Handled

Screen == (TouchReturn \/ TouchConnect \/ Open) /\ UNCHANGED keypadVars

Hands == (Finger \/ Elapse) /\ UNCHANGED vars

KeysNext == Pass \/ Screen \/ Hands

KeysSpec == KeysInit /\ [][KeysNext]_keysVars

------------------------------------------------------------------------------
(* Properties.                                                              *)

\* A key that is held confirms, goes back or types once: each step of an open
\* form is for a key that the driver has seen up since its last report, even
\* if it was held while the page was left and another came up.
PressPerStep ==
    [][(<<fields, text>>' # <<fields, text>> /\ outcome = "editing")
         => Reported \in opened]_keysVars

\* After three scans without a key the driver is ready, however long keys were
\* held before or wherever: of the keys down at the next scan the first is heard.
FirstPressHeard ==
    [][(Pass /\ quiet = 3 /\ down # {})
         => Reported = FirstOf(down)]_keysVars
==============================================================================
