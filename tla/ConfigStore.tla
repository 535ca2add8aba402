----------------------------- MODULE ConfigStore -----------------------------
(****************************************************************************)
(* The two files of texts on the SD card: how setConfig and setCalibrations *)
(* write them, how the constructor of Board reads them, and what is left of *)
(* them when the device loses power at any moment or a call fails.          *)
(*                                                                          *)
(* A file is replaced by removing it, opening it again for appending and    *)
(* printing one JSON object; what these calls return is ignored.  A file    *)
(* that is open for appending keeps its old length until it is closed.  A   *)
(* file that does not exist and an empty one read the same, so creating an  *)
(* empty file changes nothing here.                                         *)
(****************************************************************************)
EXTENDS Naturals, Sequences

CONSTANTS
    ConfigForms,        \* the forms whose texts are in config.txt
    CalForms,           \* the sensors whose calibrations are in standar.txt
    Texts, Blank,       \* what a text may be; the empty text
    Plain,              \* the texts without a quote character
    Read(_, _),         \* what a file with some objects reads as
    MaxObjects          \* bound on the objects of a file that is not removed

Forms == ConfigForms \cup CalForms

ASSUME FormsAssumption == ConfigForms \cap CalForms = {}
ASSUME TextsAssumption == Blank \in Texts /\ Plain \subseteq Texts
ASSUME CardAssumption  == MaxObjects \in Nat

Files == {"config.txt", "standar.txt"}

In(f) == IF f = "config.txt" THEN ConfigForms ELSE CalForms

Objects(f) == [In(f) -> Texts]

VARIABLES
    card,               \* the objects in each file, one after the other
    edit,               \* config...[0]
    temp,               \* tempConfig...
    pc,                 \* where the constructor or a save is
    writing,            \* the file being saved
    passed, whole,      \* observed: the object last passed to a save of the
                        \* file, and whether none of its calls has failed
    failed              \* observed: some call has ever failed

vars == <<card, edit, temp, pc, writing, passed, whole, failed>>

ram  == <<edit, temp>>
seen == <<passed, whole, failed>>

Booting == pc \in {"config", "calibrations"}
Saving  == pc \in {"remove", "open", "print"}

TypeOK ==
    /\ DOMAIN card = Files /\ \A f \in Files : card[f] \in Seq(Objects(f))
    /\ DOMAIN passed = Files /\ \A f \in Files : passed[f] \in Objects(f)
    /\ whole \in [Files -> BOOLEAN] /\ failed \in BOOLEAN
    /\ edit \in [Forms -> Texts] /\ temp \in [ConfigForms -> Texts]
    /\ pc \in {"config", "calibrations", "run", "remove", "open", "print"}
    /\ writing \in Files

Blanks(S) == [x \in S |-> Blank]

Init ==
    /\ card = [f \in Files |-> <<>>]
    /\ edit = Blanks(Forms) /\ temp = Blanks(ConfigForms)
    /\ pc = "config" /\ writing = "config.txt"
    /\ passed = [f \in Files |-> Blanks(In(f))] /\ whole = [f \in Files |-> FALSE]
    /\ failed = FALSE

------------------------------------------------------------------------------
(* Power is lost and comes back: the constructor starts over.               *)

PowerCycle ==
    /\ edit' = Blanks(Forms) /\ temp' = Blanks(ConfigForms)
    /\ pc' = "config"
    /\ whole' = IF Saving THEN [whole EXCEPT ![writing] = FALSE] ELSE whole
    /\ UNCHANGED <<card, writing, passed, failed>>

\* A file is read if deserializeJson makes texts of it; a quote character in
\* what was printed may spoil it, or change the texts.
Readable(f) == card[f] # <<>> /\ Read(f, card[f]) \in Objects(f)

\* The texts of a file, where it can be read, replace those in memory.
Loaded(f) == [x \in Forms |-> IF Readable(f) /\ x \in In(f) THEN Read(f, card[f])[x]
                                                           ELSE edit[x]]

LoadedTemp == IF Readable("config.txt") THEN Read("config.txt", card["config.txt"])
                                        ELSE temp

\* Defect: without a configuration the constructor returns early.
ReadConfigOnly ==
    /\ pc = "config"
    /\ edit' = Loaded("config.txt")
    /\ temp' = LoadedTemp
    /\ pc' = IF Readable("config.txt") THEN "calibrations" ELSE "run"
    /\ UNCHANGED <<card, writing, seen>>

\* An empty file leaves the texts blank; one that cannot be parsed also ends
\* the constructor before it reads the calibrations.
ReadConfig ==
    /\ pc = "config"
    /\ edit' = Loaded("config.txt")
    /\ temp' = LoadedTemp
    /\ pc' = IF card["config.txt"] = <<>> \/ Readable("config.txt")
             THEN "calibrations" ELSE "run"
    /\ UNCHANGED <<card, writing, seen>>

ReadCalibrations ==
    /\ pc = "calibrations"
    /\ edit' = Loaded("standar.txt")
    /\ pc' = "run"
    /\ UNCHANGED <<card, temp, writing, seen>>

------------------------------------------------------------------------------
(* The user.                                                                *)

Edit ==
    /\ pc = "run"
    /\ \E x \in Forms, t \in Texts : edit' = [edit EXCEPT ![x] = t]
    /\ UNCHANGED <<card, temp, pc, writing, seen>>

\* configJson(), on the way to a form.
Restore ==
    /\ pc = "run"
    /\ edit' = [x \in Forms |-> IF x \in ConfigForms THEN temp[x] ELSE edit[x]]
    /\ UNCHANGED <<card, temp, pc, writing, seen>>

\* A save writes the texts of all the forms in the file.
Save(f) ==
    /\ pc = "run"
    /\ writing' = f
    /\ passed' = [passed EXCEPT ![f] = [x \in In(f) |-> edit[x]]]
    /\ whole' = [whole EXCEPT ![f] = TRUE]
    /\ pc' = "remove"
    /\ UNCHANGED <<card, edit, failed>>

\* setConfigJson() and setConfig().
SaveConfig ==
    /\ Save("config.txt")
    /\ \E x \in ConfigForms : temp' = [temp EXCEPT ![x] = edit[x]]

SaveCalibrations == Save("standar.txt") /\ UNCHANGED temp

------------------------------------------------------------------------------
(* The calls to the card, in their order.                                   *)

Fail ==
    /\ whole' = [whole EXCEPT ![writing] = FALSE] /\ failed' = TRUE
    /\ UNCHANGED card

\* Defect: the file is not removed.
RemoveNothing ==
    /\ pc = "remove"
    /\ Len(card[writing]) < MaxObjects
    /\ pc' = "open"
    /\ UNCHANGED <<card, ram, writing, seen>>

\* A file that is not there cannot be removed, which is as good.
Remove ==
    /\ pc = "remove"
    /\ \/ card' = [card EXCEPT ![writing] = <<>>] /\ UNCHANGED <<whole, failed>>
       \/ Len(card[writing]) < MaxObjects /\ Fail
    /\ pc' = "open"
    /\ UNCHANGED <<ram, writing, passed>>

Open ==
    /\ pc = "open"
    /\ \/ pc' = "print" /\ UNCHANGED <<card, whole, failed>>
       \/ pc' = "run" /\ Fail
    /\ UNCHANGED <<ram, writing, passed>>

\* println() and close().
Println ==
    /\ pc = "print"
    /\ card' = [card EXCEPT ![writing] = Append(@, passed[writing])]
    /\ pc' = "run"
    /\ UNCHANGED <<ram, writing, seen>>

Next ==
    \/ PowerCycle \/ ReadConfig \/ ReadCalibrations
    \/ Edit \/ Restore \/ SaveConfig \/ SaveCalibrations
    \/ Remove \/ Open \/ Println

Spec == Init /\ [][Next]_vars

------------------------------------------------------------------------------
(* Properties.                                                              *)

\* The last save of the file went through: it is not under way, was not cut
\* off, and none of its calls failed.
Saved(f) == whole[f] /\ ~ (Saving /\ writing = f)

\* A save that goes through leaves exactly its own object in the file,
\* whatever saves that were cut off or failed left there before it.
SaveHolds == \A f \in Files : Saved(f) => card[f] = <<passed[f]>>

\* As long as no call fails, and however often the power does: whatever is
\* done to a file leaves it empty or with the last save's object alone, so
\* that texts once removed never come back.
NeverOlder ==
    [][\A f \in Files : ~failed /\ card'[f] # card[f] =>
          card'[f] = <<>> \/ (card'[f] = <<passed[f]>> /\ whole[f])]_vars

IsPlain(f, o) == \A x \in In(f) : o[x] \in Plain

\* Texts without a quote character come back from the card as they were
\* printed, whatever failed saves have left behind them in the file.
ReadsBack ==
    \A f \in Files : card[f] # <<>> /\ IsPlain(f, Head(card[f])) =>
        Read(f, card[f]) = Head(card[f])

\* When the constructor ends, the texts in memory are those of the last save
\* of their file if it went through and has no quote character, whatever state
\* the other file is in, as long as the configuration is not spoilt.
LoadsLastSave ==
    [][(Booting /\ pc' = "run" /\ (card["config.txt"] = <<>> \/ Readable("config.txt"))) =>
         \A f \in Files : Saved(f) /\ IsPlain(f, passed[f]) =>
             \A x \in In(f) : edit'[x] = passed[f][x]]_vars
==============================================================================
