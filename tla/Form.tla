--------------------------------- MODULE Form --------------------------------
(****************************************************************************)
(* One configuration form of the device: drawKeyboardWifi, drawKeyboardHttp *)
(* and drawKeyboardCalibrations (N = 2) and drawKeyboardMqtt (N = 4) of     *)
(* TFT.h, with the reset Device.ino makes when the page opens.  Only the    *)
(* form's own data is here; the pages it leads to are in Board.             *)
(****************************************************************************)
EXTENDS FormRules

CONSTANTS
    N,                  \* number of text fields
    Texts,              \* what a field may hold
    Empty               \* the empty text
ASSUME NAssumption == N \in Nat /\ N >= 2
ASSUME TextsAssumption == Empty \in Texts

VARIABLES
    fields,             \* the two flags of each field
    text,               \* config...[0] of each field
    outcome             \* where the form stands: being edited or left

vars == <<fields, text, outcome>>

TypeOK ==
    /\ fields \in [1..N -> Field]
    /\ text \in [1..N -> Texts]
    /\ outcome \in {"editing", "cancelled", "submitted"}

Init ==
    /\ fields = Fresh(N)
    /\ text \in [1..N -> Texts]
    /\ outcome = "editing"

\* 'S' on a character, the space bar or the delete key: every field being
\* typed into takes a new text, the others keep theirs.
Type ==
    /\ outcome = "editing"
    /\ \E v \in Texts :
         text' = [i \in 1..N |-> IF i \in Typing(fields) THEN v ELSE text[i]]
    /\ UNCHANGED <<fields, outcome>>

Hash ==
    /\ outcome = "editing"
    /\ IF Submits(fields)
         THEN outcome' = "submitted" /\ UNCHANGED fields
         ELSE fields' = Confirm(fields) /\ UNCHANGED outcome
    /\ UNCHANGED text

Star ==
    /\ outcome = "editing"
    /\ IF Leaves(fields)
         THEN outcome' = "cancelled" /\ UNCHANGED fields
         ELSE fields' = StepBack(fields) /\ UNCHANGED outcome
    /\ UNCHANGED text

TouchReturn ==
    /\ outcome = "editing"
    /\ outcome' = "cancelled"
    /\ UNCHANGED <<fields, text>>

\* The connect button answers when the first two fields are confirmed or
\* both hold some text; the third and fourth field are not looked at.
TouchConnect ==
    /\ outcome = "editing"
    /\ \/ fields[1].ok /\ fields[2].ok
       \/ text[1] # Empty /\ text[2] # Empty
    /\ outcome' = "submitted"
    /\ UNCHANGED <<fields, text>>

\* The page is opened again and its flags reset; configJson may have put
\* back the texts in use.
Open ==
    /\ outcome # "editing"
    /\ fields' = Fresh(N)
    /\ text' \in [1..N -> Texts]
    /\ outcome' = "editing"

Next == Type \/ Hash \/ Star \/ TouchReturn \/ TouchConnect \/ Open

Spec == Init /\ [][Next]_vars

------------------------------------------------------------------------------
\* The flags always describe one position: never two fields selected, never a
\* confirmed field after an unconfirmed one, never a form with an unconfirmed
\* field and no cursor, whatever mix of '#' and '*' the user presses.
OnePosition == \E k \in 1..(N + 1) : AtField(fields, k)

\* A confirmed text is final: while a field stays confirmed on an open form
\* no key changes its text; the user has to go back to it first.
ConfirmedIsFinal ==
    [][\A i \in 1..N :
         (outcome = "editing" /\ fields[i].ok /\ fields'[i].ok)
           => text'[i] = text[i]]_vars

\* One key press touches one field: of the N texts at most one changes in a
\* step that keeps the form open.
OneFieldPerKey ==
    [][outcome = "editing" =>
         \A i, j \in 1..N : (text'[i] # text[i] /\ text'[j] # text[j]) => i = j]_vars

\* The position of the abstract form: the first field not yet confirmed.
pos == IF AllConfirmed(fields) THEN N + 1 ELSE FirstOf(Unconfirmed(fields))

W == INSTANCE Wizard WITH N <- N, pos <- pos, outcome <- outcome

\* The flags implement a cursor over N fields (module Wizard).
ImplementsWizard == W!Spec
==============================================================================
