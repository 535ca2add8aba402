------------------------------- MODULE Wizard --------------------------------
(****************************************************************************)
(* What a configuration form promises, without its flags: the user is at    *)
(* one of N fields, or past the last one; confirming moves one field        *)
(* forward, '*' moves one field back, and from the first field '*' leaves.  *)
(****************************************************************************)
EXTENDS Naturals

CONSTANT N              \* number of text fields, at least 2

VARIABLES
    pos,                \* the field being edited, N + 1 when all are confirmed
    outcome             \* "editing", "cancelled" or "submitted"

vars == <<pos, outcome>>

TypeOK == pos \in 1..(N + 1) /\ outcome \in {"editing", "cancelled", "submitted"}

Init == pos = 1 /\ outcome = "editing"

Forward == outcome = "editing" /\ pos <= N /\ pos' = pos + 1 /\ UNCHANGED outcome

Backward == outcome = "editing" /\ pos > 1 /\ pos' = pos - 1 /\ UNCHANGED outcome

\* '#' once more after the last field.
Submit == outcome = "editing" /\ pos = N + 1 /\ outcome' = "submitted" /\ UNCHANGED pos

\* The connect button, which may be pressed before every field is confirmed.
SubmitEarly == outcome = "editing" /\ outcome' = "submitted" /\ UNCHANGED pos

Cancel == outcome = "editing" /\ pos = 1 /\ outcome' = "cancelled" /\ UNCHANGED pos

\* The return button, at any field.
CancelByTouch == outcome = "editing" /\ outcome' = "cancelled" /\ UNCHANGED pos

Reopen == outcome # "editing" /\ outcome' = "editing" /\ pos' = 1

Next == \/ Forward \/ Backward \/ Submit \/ SubmitEarly
        \/ Cancel \/ CancelByTouch \/ Reopen

Spec == Init /\ [][Next]_vars
==============================================================================
