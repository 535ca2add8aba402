------------------------------ MODULE FormRules ------------------------------
(****************************************************************************)
(* The rules by which the four configuration forms of TFT.h (WiFi, HTTP,    *)
(* MQTT and sensor calibration) move between their text fields.  A form is  *)
(* a sequence of fields; a field carries the two flags the code keeps as    *)
(* strings in config...[1] ("selected" / "unselected") and config...[2]     *)
(* ("success" / "unsuccess").                                               *)
(*                                                                          *)
(* WiFi, HTTP and calibration have two fields and MQTT four; the code       *)
(* spells each chain of if/else out, and all of them follow these rules.    *)
(****************************************************************************)
EXTENDS Naturals

Field == [sel : BOOLEAN, ok : BOOLEAN]

\* What drawing the page for the first time sets: the first field selected,
\* none confirmed.
Fresh(n) == [i \in 1..n |-> IF i = 1 THEN [sel |-> TRUE, ok |-> FALSE]
                                     ELSE [sel |-> FALSE, ok |-> FALSE]]

Selected(fs) == {i \in DOMAIN fs : fs[i].sel}

Unconfirmed(fs) == {i \in DOMAIN fs : ~ fs[i].ok}

AllConfirmed(fs) == Unconfirmed(fs) = {}

\* The fields that a typed character, a space or a delete changes.
Typing(fs) == {i \in DOMAIN fs : fs[i].sel /\ ~ fs[i].ok}

FirstOf(S) == CHOOSE i \in S : \A j \in S : i <= j

\* The else branch of the '#' chain: no field is selected and every field is
\* confirmed, so the form is handed to its connect page.
Submits(fs) == Selected(fs) = {} /\ AllConfirmed(fs)

\* Defect: the next field is not selected.
ConfirmOnly(fs) ==
    [j \in DOMAIN fs |-> IF fs[j].sel THEN [sel |-> FALSE, ok |-> TRUE] ELSE fs[j]]

\* '#': the first selected field is confirmed and the next one is selected.
Confirm(fs) ==
    IF Selected(fs) = {} THEN fs
    ELSE LET i == FirstOf(Selected(fs))
         IN  [j \in DOMAIN fs |->
                IF j = i THEN [sel |-> FALSE, ok |-> TRUE]
                ELSE IF j = i + 1 THEN [sel |-> TRUE, ok |-> fs[j].ok]
                ELSE fs[j]]

\* '*' leaves the form exactly when its first field is not confirmed.
Leaves(fs) == ~ fs[1].ok

\* Defect: '*' starts the form over.
StartOver(fs) == [i \in DOMAIN fs |-> [sel |-> i = 1, ok |-> FALSE]]

\* '*' otherwise: back to the last field if all are confirmed, else from the
\* first unconfirmed field to the one before it.
StepBack(fs) ==
    IF AllConfirmed(fs)
    THEN [j \in DOMAIN fs |->
            IF j + 1 \in DOMAIN fs THEN fs[j] ELSE [sel |-> TRUE, ok |-> FALSE]]
    ELSE LET k == FirstOf(Unconfirmed(fs))
         IN  [j \in DOMAIN fs |->
                IF j = k - 1 THEN [sel |-> TRUE, ok |-> FALSE]
                ELSE IF j = k THEN [sel |-> FALSE, ok |-> fs[j].ok]
                ELSE fs[j]]

\* The form is at field k: everything before it is confirmed, it alone is
\* selected, nothing from it on is confirmed.  k = N + 1: all are confirmed.
AtField(fs, k) ==
    \A i \in DOMAIN fs : (fs[i].ok <=> i < k) /\ (fs[i].sel <=> i = k)
==============================================================================
