------------------------------- MODULE Storage -------------------------------
(****************************************************************************)
(* What keeping the texts on the SD card promises to the pages: the texts   *)
(* being edited, those in use and those on the card, where a save of a file *)
(* writes the texts being edited of all its forms, at once or with a time   *)
(* in which its old texts may be gone already.  When the device starts, all *)
(* texts are those on the card: never a mixture of two saves.               *)
(****************************************************************************)
CONSTANTS
    ConfigForms, CalForms,      \* the forms whose texts are in each file
    Texts, Blank                \* what a text may be; the empty text

Forms == ConfigForms \cup CalForms

VARIABLES
    edit, temp,         \* the texts being edited, and those in use
    saved,              \* the texts on the card
    saving              \* the forms of the file being saved, or {}

vars == <<edit, temp, saved, saving>>

Init ==
    /\ saved \in [Forms -> Texts]
    /\ edit = saved /\ temp = [x \in ConfigForms |-> saved[x]] /\ saving = {}

\* The power may also be lost while a file is being saved.
PowerCycle ==
    /\ edit' = saved /\ temp' = [x \in ConfigForms |-> saved[x]] /\ saving' = {}
    /\ UNCHANGED saved

Edit ==
    /\ saving = {}
    /\ \E x \in Forms, t \in Texts : edit' = [edit EXCEPT ![x] = t]
    /\ UNCHANGED <<temp, saved, saving>>

Restore ==
    /\ saving = {}
    /\ edit' = [x \in Forms |-> IF x \in ConfigForms THEN temp[x] ELSE edit[x]]
    /\ UNCHANGED <<temp, saved, saving>>

Written(S) == [x \in Forms |-> IF x \in S THEN edit[x] ELSE saved[x]]

Save(S) ==
    /\ saving = {}
    /\ \/ saving' = S /\ UNCHANGED saved
       \/ saved' = Written(S) /\ UNCHANGED saving
    /\ UNCHANGED edit

\* One form's texts are put into use; those of all of them are saved.
SaveConfig ==
    /\ Save(ConfigForms)
    /\ \E x \in ConfigForms : temp' = [temp EXCEPT ![x] = edit[x]]

SaveCalibrations == Save(CalForms) /\ UNCHANGED temp

Clear ==
    /\ saved' = [x \in Forms |-> IF x \in saving THEN Blank ELSE saved[x]]
    /\ UNCHANGED <<edit, temp, saving>>

Finish ==
    /\ saved' = Written(saving) /\ saving' = {}
    /\ UNCHANGED <<edit, temp>>

Next == PowerCycle \/ Edit \/ Restore \/ SaveConfig \/ SaveCalibrations \/ Clear \/ Finish

Spec == Init /\ [][Next]_vars
==============================================================================
