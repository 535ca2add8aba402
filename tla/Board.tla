-------------------------------- MODULE Board --------------------------------
(****************************************************************************)
(* The device's user interface: class Board of Device.ino with the pages    *)
(* and the form handlers of class TFT.                                      *)
(*                                                                          *)
(* loop() runs start() for ever.  start() is one chain of else-ifs over the *)
(* seventeen pages: the first page of the chain that is marked "show" gets  *)
(* this pass, in which it may read a key, draw itself if the status says    *)
(* "change", and read a touch.  Nothing keeps a single page marked, so the  *)
(* page the user looks at, the page that was drawn and the page that gets   *)
(* the next pass are three different things.                                *)
(*                                                                          *)
(* The texts of a form are abstracted to one of a few values; Blank stands  *)
(* for texts of which one of the first two is empty, which is what the      *)
(* connect button looks at.                                                 *)
(****************************************************************************)
EXTENDS FormRules

CONSTANTS
    Values,             \* what the texts of a form may be
    Blank,              \* ... with one of the first two fields empty
    OpenForms,          \* the forms the user opens
    KeyWithTouch        \* may a key and a touch arrive in the same pass

ConfigForms == {"wifi", "http", "mqtt"}
CalForms    == {"PH", "SAL"}
Forms       == ConfigForms \cup CalForms

ASSUME ValuesAssumption  == Blank \in Values
ASSUME FormsAssumption   == OpenForms \subseteq Forms
ASSUME InputAssumption   == KeyWithTouch \in BOOLEAN

\* The order in which start() asks for the pages.
Rank == [index |-> 1, configwifi |-> 2, confighttp |-> 3, configmqtt |-> 4,
         configtime |-> 5, chooseconfig |-> 6, connectwifi |-> 7, history |-> 8,
         detailhistory |-> 9, detailpost |-> 10, connecthttp |-> 11,
         connectmqtt |-> 12, calibrations |-> 13, detailCalibrations |-> 14,
         configCalibrations |-> 15, start |-> 16, postServer |-> 17]

Pages == DOMAIN Rank

\* The page a form is on, the page that puts it into use, and the page its
\* return button leads to.
FormPage == [wifi |-> "configwifi", http |-> "confighttp", mqtt |-> "configmqtt",
             PH |-> "detailCalibrations", SAL |-> "detailCalibrations"]

ConnectPage == [wifi |-> "connectwifi", http |-> "connecthttp",
                mqtt |-> "connectmqtt",
                PH |-> "configCalibrations", SAL |-> "configCalibrations"]

ReturnPage == [wifi |-> "chooseconfig", http |-> "chooseconfig",
               mqtt |-> "chooseconfig", PH |-> "calibrations", SAL |-> "calibrations"]

\* The page that leaving a form with '*' hides: page[1] in three of the four
\* handlers, also where the form is on another page.
StarHides == [wifi |-> "configwifi", http |-> "configwifi", mqtt |-> "configmqtt",
              PH |-> "configwifi", SAL |-> "configwifi"]

\* The form whose fields the connect button of a form looks at: the touch call
\* of the HTTP page passes the WiFi texts.
CheckedForm == [wifi |-> "wifi", http |-> "wifi", mqtt |-> "mqtt",
                PH |-> "PH", SAL |-> "SAL"]

Width(f) == IF f = "mqtt" THEN 4 ELSE 2

ConfigPages == {"configwifi", "confighttp", "configmqtt"}
FormPages   == ConfigPages \cup {"detailCalibrations"}
ConnectPages == {"connectwifi", "connecthttp", "connectmqtt"}

\* Pages without a touch handler: they act once and show another page.
ActingPages == ConnectPages \cup {"configtime", "configCalibrations", "postServer"}

\* Pages that only draw themselves.
MenuPages == {"index", "history", "detailhistory", "detailpost", "calibrations", "start"}

VARIABLES
    shown,              \* the pages marked "show"
    status,             \* is the status "change"
    show,               \* the form's request to be reset and drawn
    cal,                \* pageCalibrations: which calibration is being edited
    fields,             \* the flags of every form's fields
    edit,               \* config...[0]: the texts being edited
    temp,               \* tempConfig...: the texts in use
    saved,              \* the texts on the SD card
    screen,             \* the page last drawn in full, or "blank"
    pc, at,             \* where start() is, and on which page
    keyed               \* has this pass handled a key

vars == <<shown, status, show, cal, fields, edit, temp, saved, screen, pc, at, keyed>>

uiVars   == <<shown, status, screen>>
dataVars == <<fields, edit, temp, saved>>

TypeOK ==
    /\ shown \subseteq Pages
    /\ status \in BOOLEAN /\ show \in BOOLEAN /\ keyed \in BOOLEAN
    /\ cal \in CalForms
    /\ \A f \in Forms : fields[f] \in [1..Width(f) -> Field]
    /\ edit \in [Forms -> Values]
    /\ temp \in [ConfigForms -> Values]
    /\ saved \in [Forms -> Values]
    /\ screen \in Pages \cup {"blank"}
    /\ pc \in {"top", "key", "draw", "touch"}
    /\ at \in Pages

\* A reset finds the index page drawn and, on the SD card, the texts last
\* written; they become the texts in use.
InUse(card) == [f \in ConfigForms |-> card[f]]

AllFresh == [f \in Forms |-> Fresh(Width(f))]

Init ==
    /\ saved \in [Forms -> Values] /\ edit = saved /\ temp = InUse(saved)
    /\ shown = {"index"} /\ status = FALSE /\ screen = "index"
    /\ show = TRUE /\ cal = "PH" /\ fields = AllFresh
    /\ pc = "top" /\ at = "index" /\ keyed = FALSE

\* The device is switched off and on again between any two steps of a pass.
PowerCycle ==
    /\ edit' = saved /\ temp' = InUse(saved) /\ UNCHANGED saved
    /\ shown' = {"index"} /\ status' = FALSE /\ screen' = "index"
    /\ show' = TRUE /\ cal' = "PH" /\ fields' = AllFresh
    /\ pc' = "top" /\ at' = "index" /\ keyed' = FALSE

------------------------------------------------------------------------------
(* One pass of start().                                                     *)

First(S) == CHOOSE p \in S : \A q \in S : Rank[p] <= Rank[q]

FormAt == CHOOSE f \in Forms : FormPage[f] = at /\ (f \in CalForms => f = cal)

Dispatch ==
    /\ pc = "top"
    /\ shown # {}
    /\ at' = First(shown)
    /\ pc' = IF at' \in ConfigPages THEN "key" ELSE "draw"
    /\ keyed' = FALSE
    /\ UNCHANGED <<uiVars, dataVars, show, cal>>

\* A configuration form reads the key before it draws, a calibration after.
AfterKey == pc' = IF at = "detailCalibrations" THEN "touch" ELSE "draw"

AfterDraw == pc' = IF at = "detailCalibrations" THEN "key"
                   ELSE IF at \in ActingPages THEN "top" ELSE "touch"

\* Defect: the status is not set to "change".
GotoQuiet(hidden, opened) ==
    /\ shown' = (shown \ hidden) \cup opened
    /\ UNCHANGED status

\* Pages handed over: hide some, show some, ask for a redraw.
Goto(hidden, opened) ==
    /\ shown' = (shown \ hidden) \cup opened
    /\ status' = TRUE

------------------------------------------------------------------------------
(* Keys.                                                                    *)

NoKey ==
    /\ pc = "key"
    /\ AfterKey
    /\ UNCHANGED <<uiVars, dataVars, show, cal, at, keyed>>

\* Any of the seven keys first sets the status to "no change", also before the
\* form has been drawn for the first time, whose request to be drawn then stands.
Press ==
    /\ pc = "key"
    /\ AfterKey
    /\ keyed' = TRUE

\* 'U', 'D', 'L', 'R', and 'S' on the shift and the alphabet key.
MoveKey ==
    /\ Press
    /\ status' = FALSE
    /\ UNCHANGED <<shown, screen, dataVars, show, cal, at>>

\* 'S' on any other key: some text of the form changes if a field is open.
TypeKey ==
    /\ Press
    /\ status' = FALSE
    /\ Typing(fields[FormAt]) # {}
    /\ \E v \in Values : edit' = [edit EXCEPT ![FormAt] = v]
    /\ UNCHANGED <<shown, screen, fields, temp, saved, show, cal, at>>

\* Defect: the connect page is opened without asking for a redraw.
HashKeyNoChange ==
    /\ Press
    /\ LET f == FormAt IN
         IF Submits(fields[f])
         THEN /\ shown' = (shown \ {FormPage[f]}) \cup {ConnectPage[f]}
              /\ screen' = "blank"
              /\ UNCHANGED fields
         ELSE fields' = [fields EXCEPT ![f] = Confirm(@)] /\ UNCHANGED <<shown, screen>>
    /\ status' = FALSE
    /\ UNCHANGED <<edit, temp, saved, show, cal, at>>

HashKey ==
    /\ Press
    /\ LET f == FormAt IN
         IF Submits(fields[f])
         THEN /\ Goto({FormPage[f]}, {ConnectPage[f]})
              /\ screen' = "blank"
              /\ UNCHANGED fields
         ELSE /\ fields' = [fields EXCEPT ![f] = Confirm(@)]
              /\ status' = FALSE
              /\ UNCHANGED <<shown, screen>>
    /\ UNCHANGED <<edit, temp, saved, show, cal, at>>

StarKey ==
    /\ Press
    /\ LET f == FormAt IN
         IF Leaves(fields[f])
         THEN /\ Goto({StarHides[f]}, {"chooseconfig"})
              /\ show' = FALSE
              /\ screen' = IF f \in {"wifi", "mqtt"} THEN screen ELSE "blank"
              /\ UNCHANGED fields
         ELSE /\ fields' = [fields EXCEPT ![f] = StepBack(@)]
              /\ status' = FALSE
              /\ UNCHANGED <<shown, show, screen>>
    /\ UNCHANGED <<edit, temp, saved, cal, at>>

------------------------------------------------------------------------------
(* Drawing.                                                                 *)

\* configJson(): the texts in use become the texts being edited.
Restored == [f \in Forms |-> IF f \in ConfigForms THEN temp[f] ELSE edit[f]]

DrawNothing ==
    /\ pc = "draw"
    /\ ~ status \/ (at \in ConfigPages /\ ~ show)
    /\ AfterDraw
    /\ UNCHANGED <<uiVars, dataVars, show, cal, at, keyed>>

Draw ==
    /\ pc = "draw"
    /\ status
    /\ AfterDraw
    /\ UNCHANGED <<cal, at, keyed>>

DrawMenu ==
    /\ Draw
    /\ at \in MenuPages
    /\ status' = FALSE
    /\ screen' = at
    /\ UNCHANGED <<shown, show, dataVars>>

\* Defect: configJson() is forgotten.
DrawChooseConfigKeeps ==
    /\ Draw
    /\ at = "chooseconfig"
    /\ status' = FALSE
    /\ screen' = at
    /\ UNCHANGED <<shown, show, dataVars>>

DrawChooseConfig ==
    /\ Draw
    /\ at = "chooseconfig"
    /\ status' = FALSE
    /\ screen' = at
    /\ edit' = Restored
    /\ UNCHANGED <<shown, show, fields, temp, saved>>

\* The first pass over a configuration form: its flags are reset, and the WiFi
\* page alone restores the texts as well.
DrawForm ==
    /\ Draw
    /\ at \in ConfigPages
    /\ show
    /\ status' = FALSE
    /\ show' = FALSE
    /\ screen' = at
    /\ fields' = [fields EXCEPT ![FormAt] = Fresh(Width(FormAt))]
    /\ edit' = IF at = "configwifi" THEN Restored ELSE edit
    /\ UNCHANGED <<shown, temp, saved>>

DrawCalibration ==
    /\ Draw
    /\ at = "detailCalibrations"
    /\ status' = FALSE
    /\ screen' = at
    /\ fields' = [fields EXCEPT !["PH"] = Fresh(2), !["SAL"] = Fresh(2)]
    /\ UNCHANGED <<shown, show, edit, temp, saved>>

\* Defects: the page handed over to is not marked; this one stays marked.
HandOverToNone(page) ==
    Goto({at}, {}) /\ screen' = "blank" /\ UNCHANGED <<show, fields>>
HandOverKeeps(page) ==
    Goto({}, {page}) /\ screen' = "blank" /\ UNCHANGED <<show, fields>>

\* The pages that act and hand over to another page, whatever the outcome.
HandOver(page) ==
    /\ Goto({at}, {page})
    /\ screen' = "blank"
    /\ UNCHANGED <<show, fields>>

\* Defect: the texts are written and tried but not put into use.
ConnectWithoutUse(f) ==
    /\ Draw
    /\ at = ConnectPage[f]
    /\ saved' = [g \in Forms |-> IF g \in ConfigForms THEN edit[g] ELSE saved[g]]
    /\ HandOver("index")
    /\ UNCHANGED <<edit, temp>>

\* The texts of the form are put into use, all texts being edited are written
\* to the SD card, and the connection is tried.
Connect(f) ==
    /\ Draw
    /\ at = ConnectPage[f]
    /\ temp' = [temp EXCEPT ![f] = edit[f]]
    /\ saved' = [g \in Forms |-> IF g \in ConfigForms THEN edit[g] ELSE saved[g]]
    /\ HandOver("index")
    /\ UNCHANGED edit

SaveCalibrations ==
    /\ Draw
    /\ at = "configCalibrations"
    /\ saved' = [g \in Forms |-> IF g \in CalForms THEN edit[g] ELSE saved[g]]
    /\ HandOver("index")
    /\ UNCHANGED <<edit, temp>>

ConfigTime ==
    /\ Draw
    /\ at = "configtime"
    /\ HandOver("index")
    /\ UNCHANGED <<edit, temp, saved>>

PostServer ==
    /\ Draw
    /\ at = "postServer"
    /\ HandOver("detailhistory")
    /\ UNCHANGED <<edit, temp, saved>>

------------------------------------------------------------------------------
(* Touches.                                                                 *)

NoTouch ==
    /\ pc = "touch"
    /\ pc' = "top"
    /\ UNCHANGED <<uiVars, dataVars, show, cal, at, keyed>>

Touch(page) ==
    /\ pc = "touch"
    /\ at = page
    /\ KeyWithTouch \/ ~ keyed
    /\ pc' = "top"
    /\ UNCHANGED <<dataVars, at, keyed>>

\* A button of a page that leads to another page and clears the screen.
Button(page, target) ==
    /\ Touch(page)
    /\ Goto({page}, {target})
    /\ screen' = "blank"
    /\ UNCHANGED <<show, cal>>

\* Every touch of the index page, on a button or not, ends by hiding the four
\* pages it leads to, but for the one just opened.  "Settings" opens
\* chooseconfig yet spares configwifi.
IndexTargets == {"chooseconfig", "history", "start", "calibrations"}

IndexHides(opened) ==
    {"configwifi", "history", "start", "calibrations"} \
        (IF opened = "chooseconfig" THEN {"configwifi"} ELSE {opened})

TouchIndex ==
    /\ Touch("index")
    /\ \/ \E p \in IndexTargets :
            Goto({"index"} \cup IndexHides(p), {p}) /\ screen' = "blank"
       \/ shown' = shown \ IndexHides("none") /\ UNCHANGED <<status, screen>>
    /\ UNCHANGED <<show, cal>>

\* Likewise for the page that chooses a form: what is not chosen is hidden.
TouchChooseConfig ==
    /\ Touch("chooseconfig")
    /\ \/ \E f \in OpenForms \cap ConfigForms :
            /\ Goto({"chooseconfig"} \cup ConfigPages, {FormPage[f]})
            /\ show' = TRUE
            /\ screen' = "blank"
       \/ \E p \in {"index", "configtime"} :
            /\ Goto({"chooseconfig"} \cup ConfigPages, {p})
            /\ screen' = "blank"
            /\ UNCHANGED show
       \/ shown' = shown \ ConfigPages /\ UNCHANGED <<status, screen, show>>
    /\ UNCHANGED cal

TouchForm ==
    /\ at \in FormPages
    /\ Touch(at)
    /\ LET f == FormAt
           checked == CheckedForm[f]
       IN  \/ Goto({FormPage[f]}, {ReturnPage[f]})
           \/ /\ \/ fields[checked][1].ok /\ fields[checked][2].ok
                 \/ edit[checked] # Blank
              /\ Goto({FormPage[f]}, {ConnectPage[f]})
    /\ screen' = "blank"
    /\ UNCHANGED <<show, cal>>

TouchCalibrations ==
    \/ Button("calibrations", "index")
    \/ /\ Touch("calibrations")
       /\ \E f \in OpenForms \cap CalForms : cal' = f
       /\ Goto({"calibrations"}, {"detailCalibrations"})
       /\ screen' = "blank"
       /\ UNCHANGED show

TouchHistory ==
    \/ Button("history", "index")       \/ Button("history", "detailhistory")
    \/ Button("detailhistory", "history") \/ Button("detailhistory", "detailpost")
    \/ Button("detailpost", "detailhistory") \/ Button("detailpost", "postServer")

TouchStart == Button("start", "index")

Keys == NoKey \/ MoveKey \/ TypeKey \/ HashKey \/ StarKey

Draws ==
    \/ DrawNothing \/ DrawMenu \/ DrawChooseConfig \/ DrawForm \/ DrawCalibration
    \/ (\E f \in ConfigForms : Connect(f))
    \/ SaveCalibrations \/ ConfigTime \/ PostServer

Touches ==
    \/ NoTouch \/ TouchIndex \/ TouchChooseConfig \/ TouchForm
    \/ TouchCalibrations \/ TouchHistory \/ TouchStart

Loop == Dispatch \/ Keys \/ Draws \/ Touches

Next == Loop \/ PowerCycle

Spec == Init /\ [][Next]_vars

\* The step in which an acting page calls connectWifi, which need not return.
NetworkPages == ConnectPages \cup {"configtime", "postServer"}

Calling == pc = "draw" /\ at \in NetworkPages /\ status

\* The Arduino core calls loop() for ever; no key, touch or reset is promised,
\* and not that a call to the network returns.
FairSpec == Spec /\ WF_vars(Loop /\ ~ Calling)

------------------------------------------------------------------------------
(* Properties.                                                              *)

\* There is always a page to run: no sequence of keys, touches and resets
\* leaves the device with every page hidden, which start() never recovers from.
SomePageShown == shown # {}

\* No touch or key leaves a second page marked.
OnePageShown == \A p, q \in shown : p = q

\* Every form's flags describe one position, also when its page is left half
\* way, re-entered without a reset or left marked behind another page.
FormsConsistent == \A f \in Forms : \E k \in 1..(Width(f) + 1) : AtField(fields[f], k)

\* A touch is interpreted by the page that the screen shows (in a pass that
\* has not just handled a key), and never while another page is on the screen:
\* only a form may get it on a blank one, if a key came before its first
\* drawing or if it is the HTTP form, which '*' blanks and leaves marked.
TouchSeesItsPage ==
    (pc = "touch" /\ ~ keyed) =>
        \/ screen = at
        \/ screen = "blank" /\ at \in ConfigPages /\ (show \/ at = "confighttp")

\* The texts in use are the texts on the SD card, so a reset changes nothing.
SavedIsInUse == \A f \in ConfigForms : saved[f] = temp[f]

\* The screen shows a form whose page is not marked any more: where a pass that
\* reads '#' before the first drawing hands over and then draws the form, which
\* takes back the request for a redraw.
FormBehind == screen \in ConfigPages \ shown

\* A page without buttons waits for ever if it has its turn without a redraw
\* pending.  Whatever is pressed and touched, also before a form is drawn, the
\* one way into that dead end is a form drawn after its own '#' handed over.
NoDeadEnd == (pc = "top" /\ First(shown) \in ActingPages) => (status \/ FormBehind)

\* Writing to the SD card changes only the texts of the form that connects.
SaveOwnForm ==
    [][\A f \in ConfigForms : saved'[f] # saved[f] => at = ConnectPage[f]]_vars

\* Texts typed but not put into use live no longer than their form: once the
\* user is back at a menu they are gone.
EditsDropped ==
    (pc = "touch" /\ at \in {"index", "chooseconfig"})
        => \A f \in ConfigForms : edit[f] = temp[f]

\* Once a page without buttons has its turn, and no form was drawn behind it,
\* the device gets back to a menu by itself, without a touch, provided that its
\* calls to the network return (which ConnectReturns of Clock is about).
ActingReturns ==
    []<>(~ Calling) =>
        ((pc = "top" /\ First(shown) \in ActingPages /\ ~ FormBehind)
            ~> (pc = "top" /\ First(shown) \in MenuPages))

\* Leaving a form with '*' hides the page of that form: the comments of
\* setPage number the pages, confighttp is page 8.
LeavingHidesForm ==
    [][(StarKey /\ Leaves(fields[FormAt])) => FormPage[FormAt] \notin shown']_vars
==============================================================================
