---------------------------- MODULE Board_proofs -----------------------------
(****************************************************************************)
(* Board, for every set of texts, every choice of forms and every mix of    *)
(* keys, touches and resets: it is well typed, some page is always shown,   *)
(* the flags of every form describe one position, and the texts go the ways *)
(* of Storage; the one dead end is a form drawn after its own '#', and no   *)
(* touch is taken by a page while another is on the screen.  For the WiFi   *)
(* and the MQTT form, without a key and a touch in one pass, only one page  *)
(* is shown.                                                                *)
(****************************************************************************)
EXTENDS Board, FormRules_proofs

LEMMA PagesAre ==
    Pages = {"index", "configwifi", "confighttp", "configmqtt", "configtime",
             "chooseconfig", "connectwifi", "history", "detailhistory", "detailpost",
             "connecthttp", "connectmqtt", "calibrations", "detailCalibrations",
             "configCalibrations", "start", "postServer"}
  BY DEF Pages, Rank

\* The chain of start() picks one of the pages that are shown.
LEMMA FirstIsShown ==
    ASSUME NEW S, S \subseteq Pages, S # {}
    PROVE  First(S) \in S
  <1>1. \E p \in S : \A q \in S : Rank[p] <= Rank[q]
    BY SMTT(60) DEF Pages, Rank
  <1> QED BY <1>1 DEF First

LEMMA WidthType == \A f \in Forms : Width(f) \in Nat /\ Width(f) >= 2
  BY DEF Width

\* A form page is on exactly one form, which is the one FormAt names.
LEMMA FormAtForm ==
    ASSUME at \in FormPages, cal \in CalForms
    PROVE  FormAt \in Forms /\ FormPage[FormAt] = at /\ (FormAt \in CalForms => FormAt = cal)
  <1>1. \E f \in Forms : FormPage[f] = at /\ (f \in CalForms => f = cal)
    BY DEF FormPages, ConfigPages, Forms, ConfigForms, CalForms, FormPage
  <1> QED BY <1>1 DEF FormAt

\* Every page a form leads to is a page.
LEMMA FormTargets ==
    /\ \A f \in Forms : FormPage[f] \in Pages /\ ConnectPage[f] \in Pages
                          /\ ReturnPage[f] \in Pages
    /\ FormPages \subseteq Pages /\ ActingPages \subseteq Pages
  BY PagesAre DEF Forms, ConfigForms, CalForms, FormPage, ConnectPage, ReturnPage,
                  FormPages, ConfigPages, ActingPages, ConnectPages

------------------------------------------------------------------------------
\* The type of the control state, with what start() knows between the key, the
\* drawing and the touch of one pass: it is on a form while it reads a key,
\* and the two menus that may hide pages without showing one are still shown.
Control ==
    /\ shown \subseteq Pages /\ shown # {}
    /\ status \in BOOLEAN /\ show \in BOOLEAN /\ keyed \in BOOLEAN
    /\ cal \in CalForms
    /\ screen \in Pages \cup {"blank"}
    /\ pc \in {"top", "key", "draw", "touch"}
    /\ at \in Pages
    /\ pc = "key" => at \in FormPages
    /\ pc \in {"draw", "touch"} /\ at \in {"index", "chooseconfig"} => at \in shown

\* The texts.
Data ==
    /\ edit \in [Forms -> Values]
    /\ temp \in [ConfigForms -> Values]
    /\ saved \in [Forms -> Values]

\* The flags of a form: as many as it has fields, at one position.
FormOK(f, fs) ==
    /\ fs \in [1..Width(f) -> Field]
    /\ \E k \in 1..(Width(f) + 1) : AtField(fs, k)

Flags ==
    /\ fields = [f \in Forms |-> fields[f]]
    /\ \A f \in Forms : FormOK(f, fields[f])

IInv == Control /\ Data /\ Flags

------------------------------------------------------------------------------
LEMMA FreshOK == \A f \in Forms : FormOK(f, Fresh(Width(f)))
  <1> TAKE f \in Forms
  <1>1. Fresh(Width(f)) \in [1..Width(f) -> Field] /\ AtField(Fresh(Width(f)), 1)
    BY WidthType, FreshAtFirst
  <1> QED BY <1>1, WidthType DEF FormOK

LEMMA ConfirmOK ==
    ASSUME NEW f \in Forms, NEW fs, FormOK(f, fs), ~ Submits(fs)
    PROVE  FormOK(f, Confirm(fs))
  <1>1. PICK n \in Nat : n = Width(f) /\ n >= 2
    BY WidthType
  <1>2. fs \in [1..n -> Field]
    BY <1>1 DEF FormOK
  <1>3. PICK k \in 1..(n + 1) : AtField(fs, k)
    BY <1>1 DEF FormOK
  <1>4. k # n + 1
    BY <1>1, <1>2, <1>3, AtFieldSets DEF Submits, AllConfirmed
  <1>5. k \in 1..n /\ k + 1 \in 1..(n + 1)
    BY <1>1, <1>4
  <1>6. Confirm(fs) \in [1..n -> Field] /\ AtField(Confirm(fs), k + 1)
    BY <1>1, <1>2, <1>3, <1>5, ConfirmMoves
  <1> QED BY <1>1, <1>5, <1>6 DEF FormOK

LEMMA StepBackOK ==
    ASSUME NEW f \in Forms, NEW fs, FormOK(f, fs), ~ Leaves(fs)
    PROVE  FormOK(f, StepBack(fs))
  <1>1. PICK n \in Nat : n = Width(f) /\ n >= 2
    BY WidthType
  <1>2. fs \in [1..n -> Field]
    BY <1>1 DEF FormOK
  <1>3. PICK k \in 1..(n + 1) : AtField(fs, k)
    BY <1>1 DEF FormOK
  <1>4. k # 1
    BY <1>1, <1>2, <1>3 DEF Leaves, AtField
  <1>5. k \in 2..(n + 1) /\ k - 1 \in 1..(n + 1)
    BY <1>1, <1>4
  <1>6. StepBack(fs) \in [1..n -> Field] /\ AtField(StepBack(fs), k - 1)
    BY <1>1, <1>2, <1>3, <1>5, StepBackMoves
  <1> QED BY <1>1, <1>5, <1>6 DEF FormOK

LEMMA FreshAll ==
    ASSUME NEW fs, fs = AllFresh
    PROVE  fs = [f \in Forms |-> fs[f]] /\ \A f \in Forms : FormOK(f, fs[f])
  BY FreshOK DEF AllFresh

LEMMA InitIInv == Init => IInv
  <1> SUFFICES ASSUME Init PROVE IInv
    OBVIOUS
  <1>1. Control
    BY PagesAre DEF Init, Control, CalForms
  <1>2. Data
    BY DEF Init, Data, InUse, Forms
  <1>3. Flags
    BY FreshAll DEF Init, Flags
  <1> QED BY <1>1, <1>2, <1>3 DEF IInv

------------------------------------------------------------------------------
(* A pass of start() and the control state.                                 *)

LEMMA KeyControl == Control /\ Keys => Control'
  <1> SUFFICES ASSUME Control, Keys PROVE Control'
    OBVIOUS
  <1>1. at \in FormPages /\ cal \in CalForms /\ pc = "key"
    BY DEF Control, Keys, NoKey, MoveKey, TypeKey, HashKey, StarKey, Press
  <1>2. FormAt \in Forms
    BY <1>1, FormAtForm
  <1>3. at \notin {"index", "chooseconfig"}
    BY <1>1 DEF FormPages, ConfigPages
  <1>4. pc' \in {"touch", "draw"} /\ at' = at /\ cal' = cal
    BY DEF Keys, NoKey, MoveKey, TypeKey, HashKey, StarKey, Press, AfterKey
  <1>5. shown' \subseteq Pages /\ shown' # {}
    <2>1. CASE UNCHANGED shown
      BY <2>1 DEF Control
    <2>2. CASE HashKey /\ Submits(fields[FormAt])
      BY <1>2, <2>2, FormTargets DEF HashKey, Goto, Control
    <2>3. CASE StarKey /\ Leaves(fields[FormAt])
      BY <2>3, PagesAre DEF StarKey, Goto, Control
    <2> QED BY <2>1, <2>2, <2>3 DEF Keys, NoKey, MoveKey, TypeKey, HashKey, StarKey, uiVars
  <1>6. status' \in BOOLEAN /\ show' \in BOOLEAN /\ keyed' \in BOOLEAN
    BY DEF Control, Keys, NoKey, MoveKey, TypeKey, HashKey, StarKey, Press, Goto, uiVars
  <1>7. screen' \in Pages \cup {"blank"}
    BY DEF Control, Keys, NoKey, MoveKey, TypeKey, HashKey, StarKey, uiVars
  <1> QED BY <1>1, <1>3, <1>4, <1>5, <1>6, <1>7 DEF Control

LEMMA DrawControl == Control /\ Draws => Control'
  <1> SUFFICES ASSUME Control, Draws PROVE Control'
    OBVIOUS
  <1>1. at \in Pages /\ at' = at /\ cal' = cal /\ keyed' = keyed /\ pc = "draw" /\ AfterDraw
    BY DEF Control, Draws, DrawNothing, Draw, DrawMenu, DrawChooseConfig, DrawForm,
           DrawCalibration, Connect, SaveCalibrations, ConfigTime, PostServer
  <1>2. pc' \in {"top", "key", "touch"}
    BY <1>1 DEF AfterDraw
  <1>3. pc' = "key" => at \in FormPages
    BY <1>1 DEF AfterDraw, FormPages
  <1>4. CASE UNCHANGED shown
    <2>1. status' \in BOOLEAN /\ show' \in BOOLEAN /\ screen' \in Pages \cup {"blank"}
      BY <1>1 DEF Control, Draws, DrawNothing, Draw, DrawMenu, DrawChooseConfig, DrawForm,
           DrawCalibration, Connect, SaveCalibrations, ConfigTime, PostServer,
           HandOver, Goto, uiVars
    <2> QED BY <1>1, <1>2, <1>3, <1>4, <2>1 DEF Control
  <1>5. CASE \E page \in {"index", "detailhistory"} : at \in ActingPages /\ HandOver(page)
    <2>1. PICK page \in {"index", "detailhistory"} : at \in ActingPages /\ HandOver(page)
      BY <1>5
    <2>2. pc' = "top"
      BY <1>1, <2>1 DEF AfterDraw, ActingPages, ConnectPages
    <2>3. shown' \subseteq Pages /\ shown' # {}
      BY <2>1, PagesAre DEF HandOver, Goto, Control
    <2>4. status' \in BOOLEAN /\ show' \in BOOLEAN /\ screen' \in Pages \cup {"blank"}
      BY <2>1 DEF HandOver, Goto, Control
    <2> QED BY <1>1, <2>2, <2>3, <2>4 DEF Control
  <1>6. (UNCHANGED shown)
          \/ \E page \in {"index", "detailhistory"} : at \in ActingPages /\ HandOver(page)
    BY DEF Draws, DrawNothing, DrawMenu, DrawChooseConfig, DrawForm, DrawCalibration,
           Connect, SaveCalibrations, ConfigTime, PostServer, uiVars,
           ActingPages, ConnectPages, ConnectPage, ConfigForms
  <1> QED BY <1>4, <1>5, <1>6

LEMMA TouchControl == Control /\ Touches => Control'
  <1> SUFFICES ASSUME Control, Touches PROVE Control'
    OBVIOUS
  <1>1. /\ pc = "touch" /\ pc' = "top" /\ at' = at /\ keyed' = keyed
        /\ show' \in BOOLEAN /\ cal' \in CalForms
    BY DEF Control, Touches, NoTouch, Touch, TouchIndex, TouchChooseConfig, TouchForm,
           TouchCalibrations, TouchHistory, TouchStart, Button
  <1>2. shown' \subseteq Pages /\ shown' # {} /\ status' \in BOOLEAN
          /\ screen' \in Pages \cup {"blank"}
    <2>1. CASE NoTouch
      BY <2>1 DEF NoTouch, uiVars, Control
    <2>2. CASE TouchIndex
      <3>1. CASE shown' = shown \ IndexHides("none") /\ UNCHANGED <<status, screen>>
        <4>1. "index" \in shown /\ "index" \notin IndexHides("none")
          BY <1>1, <2>2 DEF TouchIndex, Touch, Control, IndexHides
        <4> QED BY <3>1, <4>1 DEF Control
      <3>2. CASE \E p \in IndexTargets :
                   Goto({"index"} \cup IndexHides(p), {p}) /\ screen' = "blank"
        BY <3>2, PagesAre DEF Goto, IndexTargets, Control
      <3> QED BY <2>2, <3>1, <3>2 DEF TouchIndex
    <2>3. CASE TouchChooseConfig
      <3>1. CASE shown' = shown \ ConfigPages /\ UNCHANGED <<status, screen, show>>
        <4>1. "chooseconfig" \in shown /\ "chooseconfig" \notin ConfigPages
          BY <1>1, <2>3 DEF TouchChooseConfig, Touch, Control, ConfigPages
        <4> QED BY <3>1, <4>1 DEF Control
      <3>2. CASE \E p \in Pages :
                   Goto({"chooseconfig"} \cup ConfigPages, {p}) /\ screen' = "blank"
        BY <3>2 DEF Goto, Control
      <3>3. \A f \in OpenForms \cap ConfigForms : FormPage[f] \in Pages
        BY FormTargets DEF Forms
      <3>4. "index" \in Pages /\ "configtime" \in Pages
        BY PagesAre
      <3> QED BY <2>3, <3>1, <3>2, <3>3, <3>4 DEF TouchChooseConfig
    <2>4. CASE TouchForm
      <3>1. FormAt \in Forms
        BY <2>4, FormAtForm DEF TouchForm, Control
      <3>2. FormPage[FormAt] \in Pages /\ ReturnPage[FormAt] \in Pages
              /\ ConnectPage[FormAt] \in Pages
        BY <3>1, FormTargets
      <3> QED BY <2>4, <3>2 DEF TouchForm, Goto, Control
    <2>5. CASE \E p, q \in Pages : Goto({p}, {q}) /\ screen' = "blank"
      BY <2>5 DEF Goto, Control
    <2>6. TouchCalibrations \/ TouchHistory \/ TouchStart
            => \E p, q \in Pages : Goto({p}, {q}) /\ screen' = "blank"
      BY PagesAre DEF TouchCalibrations, TouchHistory, TouchStart, Button
    <2> QED BY <2>1, <2>2, <2>3, <2>4, <2>5, <2>6 DEF Touches
  <1> QED BY <1>1, <1>2 DEF Control

LEMMA NextControl == Control /\ [Next]_vars => Control'
  <1> SUFFICES ASSUME Control, [Next]_vars PROVE Control'
    OBVIOUS
  <1>1. CASE Dispatch
    <2>1. First(shown) \in shown
      BY FirstIsShown DEF Control
    <2> QED BY <1>1, <2>1 DEF Dispatch, Control, uiVars, FormPages
  <1>2. CASE PowerCycle
    BY <1>2, PagesAre DEF PowerCycle, Control, CalForms
  <1>3. CASE UNCHANGED vars
    BY <1>3 DEF vars, Control
  <1> QED BY <1>1, <1>2, <1>3, KeyControl, DrawControl, TouchControl DEF Next, Loop

------------------------------------------------------------------------------
(* The texts and the flags of the forms.                                    *)

\* What a step does to the flags of the forms.
FlagsStep ==
    \/ UNCHANGED fields
    \/ fields' = AllFresh
    \/ \E f \in Forms : \E fs : FormOK(f, fs) /\ fields' = [fields EXCEPT ![f] = fs]
    \/ fields' = [fields EXCEPT !["PH"] = Fresh(2), !["SAL"] = Fresh(2)]

LEMMA NextFlagsStep == Control /\ Flags /\ [Next]_vars => FlagsStep
  <1> SUFFICES ASSUME Control, Flags, [Next]_vars PROVE FlagsStep
    OBVIOUS
  <1>1. CASE Keys
    <2>1. FormAt \in Forms
      BY <1>1, FormAtForm DEF Control, Keys, NoKey, MoveKey, TypeKey, HashKey, StarKey, Press
    <2>2. FormOK(FormAt, fields[FormAt])
      BY <2>1 DEF Flags
    <2>3. CASE HashKey
      BY <2>1, <2>2, <2>3, ConfirmOK DEF HashKey, FlagsStep
    <2>4. CASE StarKey
      BY <2>1, <2>2, <2>4, StepBackOK DEF StarKey, FlagsStep
    <2>5. CASE NoKey \/ MoveKey \/ TypeKey
      BY <2>5 DEF NoKey, MoveKey, TypeKey, dataVars, FlagsStep
    <2> QED BY <1>1, <2>3, <2>4, <2>5 DEF Keys
  <1>2. CASE DrawForm
    <2>1. at \in FormPages
      BY <1>2 DEF DrawForm, FormPages
    <2>2. FormAt \in Forms
      BY <2>1, FormAtForm DEF Control
    <2>3. FormOK(FormAt, Fresh(Width(FormAt)))
      BY <2>2, FreshOK
    <2> QED BY <1>2, <2>2, <2>3 DEF DrawForm, FlagsStep
  <1>3. CASE DrawCalibration
    BY <1>3 DEF DrawCalibration, FlagsStep
  <1>4. CASE PowerCycle
    BY <1>4 DEF PowerCycle, FlagsStep
  <1>5. CASE Draws /\ ~ DrawForm /\ ~ DrawCalibration
    BY <1>5 DEF Draws, DrawNothing, DrawMenu, DrawChooseConfig, Connect, SaveCalibrations,
                ConfigTime, PostServer, HandOver, dataVars, FlagsStep
  <1>6. CASE Touches
    BY <1>6 DEF Touches, NoTouch, Touch, TouchIndex, TouchChooseConfig, TouchForm,
                TouchCalibrations, TouchHistory, TouchStart, Button, dataVars, FlagsStep
  <1>7. CASE Dispatch \/ UNCHANGED vars
    BY <1>7 DEF Dispatch, dataVars, vars, FlagsStep
  <1> QED BY <1>1, <1>2, <1>3, <1>4, <1>5, <1>6, <1>7 DEF Next, Loop

LEMMA StepFlags == Flags /\ FlagsStep => Flags'
  <1> SUFFICES ASSUME Flags, FlagsStep PROVE Flags'
    OBVIOUS
  <1>1. CASE UNCHANGED fields
    BY <1>1 DEF Flags
  <1>2. CASE fields' = AllFresh
    BY <1>2, FreshAll DEF Flags
  <1>3. CASE \E f \in Forms : \E fs : FormOK(f, fs) /\ fields' = [fields EXCEPT ![f] = fs]
    <2>0. PICK f \in Forms : \E fs : FormOK(f, fs) /\ fields' = [fields EXCEPT ![f] = fs]
      BY <1>3
    <2>1. PICK fs : FormOK(f, fs) /\ fields' = [fields EXCEPT ![f] = fs]
      BY <2>0
    <2>2. DOMAIN fields = Forms
      BY DEF Flags
    <2>3. \A g \in Forms : fields'[g] = IF g = f THEN fs ELSE fields[g]
      BY <2>1, <2>2
    <2>4. \A g \in Forms : FormOK(g, fields'[g])
      BY <2>1, <2>3 DEF Flags
    <2>5. fields' = [g \in Forms |-> fields'[g]]
      BY <2>1, <2>2
    <2> QED BY <2>4, <2>5 DEF Flags
  <1>4. CASE fields' = [fields EXCEPT !["PH"] = Fresh(2), !["SAL"] = Fresh(2)]
    <2>1. DOMAIN fields = Forms
      BY DEF Flags
    <2>2. \A g \in Forms : fields'[g] = IF g \in {"PH", "SAL"} THEN Fresh(2) ELSE fields[g]
      BY <1>4, <2>1
    <2>3. FormOK("PH", Fresh(2)) /\ FormOK("SAL", Fresh(2))
      <3>1. Width("PH") = 2 /\ Width("SAL") = 2 /\ "PH" \in Forms /\ "SAL" \in Forms
        BY DEF Width, Forms, CalForms
      <3> QED BY <3>1, FreshOK
    <2>4. \A g \in Forms : FormOK(g, fields'[g])
      BY <2>2, <2>3 DEF Flags
    <2>5. fields' = [g \in Forms |-> fields'[g]]
      BY <1>4, <2>1
    <2> QED BY <2>4, <2>5 DEF Flags
  <1> QED BY <1>1, <1>2, <1>3, <1>4 DEF FlagsStep

LEMMA NextData == Data /\ [Next]_vars => Data'
  <1> SUFFICES ASSUME Data, [Next]_vars PROVE Data'
    OBVIOUS
  <1> USE DEF Data
  <1>0. ConfigForms \subseteq Forms /\ CalForms \subseteq Forms
    BY DEF Forms
  <1>1. CASE TypeKey
    BY <1>1 DEF TypeKey
  <1>2. CASE DrawChooseConfig \/ DrawForm
    <2>1. Restored \in [Forms -> Values]
      BY <1>0 DEF Restored
    <2> QED BY <1>2, <2>1 DEF DrawChooseConfig, DrawForm
  <1>3. CASE SaveCalibrations
    BY <1>0, <1>3 DEF SaveCalibrations
  <1>4. CASE \E f \in ConfigForms : Connect(f)
    <2>1. PICK f \in ConfigForms : Connect(f)
      BY <1>4
    <2> QED BY <1>0, <2>1 DEF Connect
  <1>5. CASE PowerCycle
    BY <1>0, <1>5 DEF PowerCycle, InUse
  <1>6. CASE Touches
    BY <1>6 DEF Touches, NoTouch, Touch, TouchIndex, TouchChooseConfig, TouchForm,
                TouchCalibrations, TouchHistory, TouchStart, Button, dataVars
  <1>7. CASE NoKey \/ MoveKey \/ HashKey \/ StarKey \/ DrawNothing \/ DrawMenu
               \/ DrawCalibration \/ ConfigTime \/ PostServer \/ Dispatch \/ UNCHANGED vars
    BY <1>7 DEF NoKey, MoveKey, HashKey, StarKey, DrawNothing, DrawMenu,
                DrawCalibration, ConfigTime, PostServer, Dispatch, vars, dataVars
  <1> QED BY <1>1, <1>2, <1>3, <1>4, <1>5, <1>6, <1>7 DEF Next, Loop, Keys, Draws

------------------------------------------------------------------------------
LEMMA NextIInv == IInv /\ [Next]_vars => IInv'
  BY NextControl, NextData, NextFlagsStep, StepFlags DEF IInv

LEMMA SpecIInv == Spec => []IInv
  BY InitIInv, NextIInv, PTL DEF Spec

\* The variables keep their types: above all every form keeps as many fields
\* as its page has, whatever the order of keys, drawings, touches and resets.
THEOREM BoardTypeOK == Spec => []TypeOK
  <1>1. IInv => TypeOK
    BY DEF IInv, Control, Data, Flags, FormOK, TypeOK
  <1> QED BY <1>1, SpecIInv, PTL

\* start() always finds a page to run, in every order of keys and touches.
THEOREM BoardSomePageShown == Spec => []SomePageShown
  <1>1. IInv => SomePageShown
    BY DEF IInv, Control, SomePageShown
  <1> QED BY <1>1, SpecIInv, PTL

\* Each form's flags describe one position, whichever forms are left half way.
THEOREM BoardFormsConsistent == Spec => []FormsConsistent
  <1>1. IInv => FormsConsistent
    BY DEF IInv, Flags, FormOK, FormsConsistent
  <1> QED BY <1>1, SpecIInv, PTL

------------------------------------------------------------------------------
(* The device used as its author meant it: only the WiFi and the MQTT form  *)
(* are opened, and no pass handles both a key and a touch.  For every set   *)
(* of texts, then, one page alone is shown, the texts on the SD card are    *)
(* those in use, and a form's unused texts do not outlive it.               *)

\* The use of the device that these results are about.
Plain == KeyWithTouch = FALSE /\ OpenForms \subseteq {"wifi", "mqtt"}

\* The pages that can then be reached.
Reached == Pages \ {"confighttp", "connecthttp", "detailCalibrations", "configCalibrations"}

\* One page is shown and, until a key hands it over, it is the page of this
\* pass; only a form handles a key.
OnePage ==
    /\ \E p \in Reached : shown = {p}
    /\ at \in Reached
    /\ keyed \in BOOLEAN
    /\ pc \in {"top", "key", "draw", "touch"}
    /\ pc = "key" => at \in {"configwifi", "configmqtt"} /\ keyed = FALSE
    /\ pc \in {"draw", "touch"} /\ keyed => at \in {"configwifi", "configmqtt"}
    /\ pc # "top" /\ ~ keyed => shown = {at}

LEMMA PlainForm ==
    ASSUME at \in {"configwifi", "configmqtt"}
    PROVE  /\ FormAt = (IF at = "configwifi" THEN "wifi" ELSE "mqtt")
           /\ FormPage[FormAt] = at /\ StarHides[FormAt] = at
           /\ ConnectPage[FormAt] \in {"connectwifi", "connectmqtt"}
           /\ ReturnPage[FormAt] = "chooseconfig"
           /\ ConnectPage[FormAt] = (IF at = "configwifi" THEN "connectwifi" ELSE "connectmqtt")
  <1>1. \E f \in Forms : FormPage[f] = at /\ (f \in CalForms => f = cal)
    BY DEF FormPage, Forms, ConfigForms, CalForms
  <1>2. FormAt \in Forms /\ FormPage[FormAt] = at
    BY <1>1 DEF FormAt
  <1>3. FormAt = IF at = "configwifi" THEN "wifi" ELSE "mqtt"
    BY <1>2 DEF FormPage, Forms, ConfigForms, CalForms
  <1> QED BY <1>2, <1>3 DEF FormPage, StarHides, ConnectPage, ReturnPage

LEMMA InitOnePage == Init => OnePage
  BY PagesAre DEF Init, OnePage, Reached

\* Every step shows the one page it hands over to.
LEMMA NextOnePage == Plain /\ OnePage /\ [Next]_vars => OnePage'
  <1> SUFFICES ASSUME Plain, OnePage, [Next]_vars PROVE OnePage'
    OBVIOUS
  <1>0. PICK p \in Reached : shown = {p}
    BY DEF OnePage
  <1>1. CASE Dispatch
    <2>1. First(shown) = p
      BY <1>0, FirstIsShown DEF Reached
    <2> QED BY <1>0, <1>1, <2>1, PagesAre
            DEF Dispatch, OnePage, Reached, ConfigPages, uiVars
  <1>2. CASE Keys
    <2>1. at \in {"configwifi", "configmqtt"} /\ keyed = FALSE /\ shown = {at} /\ pc = "key"
      BY <1>2 DEF OnePage, Keys, NoKey, MoveKey, TypeKey, HashKey, StarKey, Press
    <2>2. at' = at /\ pc' = "draw" /\ keyed' \in BOOLEAN
      BY <1>2, <2>1 DEF Keys, NoKey, MoveKey, TypeKey, HashKey, StarKey, Press, AfterKey
    <2>3. CASE NoKey
      BY <2>1, <2>2, <2>3, <1>0 DEF NoKey, uiVars, OnePage
    <2>4. (keyed' = TRUE /\ \E q \in Reached : shown' = {q}) => OnePage'
      BY <2>1, <2>2 DEF OnePage
    <2>5. CASE ~ NoKey
      <3>1. keyed' = TRUE
        BY <1>2, <2>5 DEF Keys, MoveKey, TypeKey, HashKey, StarKey, Press
      <3>2. \E q \in Reached : shown' = {q}
        <4>1. CASE UNCHANGED shown
          BY <4>1, <1>0
        <4>2. CASE HashKey /\ shown' = (shown \ {FormPage[FormAt]}) \cup {ConnectPage[FormAt]}
          BY <4>2, <2>1, PlainForm, PagesAre DEF Reached
        <4>3. CASE StarKey /\ shown' = (shown \ {StarHides[FormAt]}) \cup {"chooseconfig"}
          BY <4>3, <2>1, PlainForm, PagesAre DEF Reached
        <4> QED BY <1>2, <2>5, <4>1, <4>2, <4>3
                DEF Keys, MoveKey, TypeKey, HashKey, StarKey, Goto
      <3> QED BY <2>4, <3>1, <3>2
    <2> QED BY <2>3, <2>5
  <1>3. CASE Draws
    <2>1. pc = "draw" /\ at' = at /\ keyed' = keyed /\ AfterDraw /\ at # "detailCalibrations"
      BY <1>3 DEF OnePage, Reached, Draws, DrawNothing, Draw, DrawMenu, DrawChooseConfig,
         DrawForm, DrawCalibration, Connect, SaveCalibrations, ConfigTime, PostServer
    <2>2. pc' \in {"top", "touch"}
      BY <2>1 DEF AfterDraw
    <2>3. CASE UNCHANGED shown
      BY <2>1, <2>2, <2>3, <1>0 DEF OnePage
    <2>4. CASE \E q \in {"index", "detailhistory"} : at \in ActingPages /\ HandOver(q)
      <3>1. PICK q \in {"index", "detailhistory"} : at \in ActingPages /\ HandOver(q)
        BY <2>4
      <3>2. pc' = "top"
        BY <2>1, <3>1 DEF AfterDraw, ActingPages, ConnectPages
      <3>3. keyed = FALSE
        BY <2>1, <3>1 DEF OnePage, ActingPages, ConnectPages
      <3>4. shown' = {q} /\ q \in Reached
        BY <2>1, <3>1, <3>3, PagesAre DEF OnePage, HandOver, Goto, Reached
      <3> QED BY <2>1, <3>2, <3>3, <3>4 DEF OnePage
    <2> QED BY <1>3, <2>3, <2>4
            DEF Draws, DrawNothing, DrawMenu, DrawChooseConfig, DrawForm, DrawCalibration,
                Connect, SaveCalibrations, ConfigTime, PostServer, uiVars,
                ActingPages, ConnectPages, ConnectPage, ConfigForms
  <1>4. CASE NoTouch
    BY <1>4, <1>0 DEF NoTouch, uiVars, OnePage
  <1>5. CASE Touches /\ ~ NoTouch
    <2>1. pc = "touch" /\ pc' = "top" /\ at' = at /\ keyed = FALSE /\ keyed' = keyed
      BY <1>5 DEF Plain, OnePage, Touches, Touch, TouchIndex, TouchChooseConfig, TouchForm,
                  TouchCalibrations, TouchHistory, TouchStart, Button
    <2>2. shown = {at} /\ at \in Reached
      BY <2>1 DEF OnePage
    <2>3. \E q \in Reached : shown' = {q}
      <3>1. CASE TouchIndex
        BY <2>2, <3>1, PagesAre DEF TouchIndex, Touch, Goto, IndexTargets, IndexHides, Reached
      <3>2. CASE TouchChooseConfig
        <4>1. \A f \in OpenForms \cap ConfigForms : FormPage[f] \in Reached
          BY PagesAre DEF Plain, FormPage, Reached
        <4>2. at = "chooseconfig" /\ "chooseconfig" \notin ConfigPages
          BY <3>2 DEF TouchChooseConfig, Touch, ConfigPages
        <4>3. "index" \in Reached /\ "configtime" \in Reached
          BY PagesAre DEF Reached
        <4>4. CASE shown' = shown \ ConfigPages
          BY <4>4, <4>2, <2>2
        <4>5. CASE \E q \in Reached : Goto({"chooseconfig"} \cup ConfigPages, {q})
          BY <4>5, <4>2, <2>2 DEF Goto
        <4> QED BY <3>2, <4>1, <4>3, <4>4, <4>5 DEF TouchChooseConfig
      <3>3. CASE TouchForm
        <4>1. at \in {"configwifi", "configmqtt"}
          BY <3>3, <2>2 DEF TouchForm, FormPages, ConfigPages, Reached
        <4>2. {"connectwifi", "connectmqtt", "chooseconfig"} \subseteq Reached
          BY PagesAre DEF Reached
        <4> QED BY <3>3, <2>2, <4>1, <4>2, PlainForm DEF TouchForm, Goto
      <3>4. CASE TouchCalibrations
        <4>1. OpenForms \cap CalForms = {}
          BY DEF Plain, CalForms
        <4> QED BY <2>2, <3>4, <4>1, PagesAre DEF TouchCalibrations, Button, Touch, Goto, Reached
      <3>5. CASE TouchHistory \/ TouchStart
        BY <2>2, <3>5, PagesAre DEF TouchHistory, TouchStart, Button, Touch, Goto, Reached
      <3> QED BY <1>5, <3>1, <3>2, <3>3, <3>4, <3>5 DEF Touches
    <2> QED BY <2>1, <2>2, <2>3 DEF OnePage
  <1>6. CASE PowerCycle
    BY <1>6, PagesAre DEF PowerCycle, OnePage, Reached
  <1>7. CASE UNCHANGED vars
    BY <1>7, <1>0 DEF vars, OnePage
  <1> QED BY <1>1, <1>2, <1>3, <1>4, <1>5, <1>6, <1>7 DEF Next, Loop

\* Among the WiFi and the MQTT form, without a key and a touch in one pass, no
\* two pages are ever shown, so the page drawn first is the only one.
THEOREM BoardOnePageShown == ASSUME Plain PROVE Spec => []OnePageShown
  <1>1. OnePage => OnePageShown
    BY DEF OnePage, OnePageShown
  <1>2. OnePage /\ [Next]_vars => OnePage'
    BY NextOnePage
  <1> QED BY <1>1, <1>2, InitOnePage, PTL DEF Spec

------------------------------------------------------------------------------
(* The texts.                                                               *)

\* Where the texts of a form may differ from those in use: on its page, on its
\* connect page, and on the way back to the page that restores them.
Home(g) == shown = {FormPage[g]} \/ shown = {ConnectPage[g]}

Restoring == shown = {"chooseconfig"} /\ status

Texts ==
    /\ \A g \in ConfigForms : saved[g] = temp[g]
    /\ \A g \in ConfigForms : edit[g] = temp[g] \/ Home(g) \/ Restoring
    /\ pc = "touch" /\ at = "chooseconfig" => ~ status
    /\ pc = "draw" /\ keyed /\ shown = {"chooseconfig"} => ~ show

TextsInv == IInv /\ OnePage /\ Texts

LEMMA ConfigPagesOf ==
    /\ FormPage["wifi"] = "configwifi" /\ FormPage["http"] = "confighttp"
    /\ FormPage["mqtt"] = "configmqtt" /\ ConnectPage["wifi"] = "connectwifi"
    /\ ConnectPage["http"] = "connecthttp" /\ ConnectPage["mqtt"] = "connectmqtt"
    /\ ConfigForms = {"wifi", "http", "mqtt"} /\ ConfigForms \subseteq Forms
  BY DEF FormPage, ConnectPage, ConfigForms, Forms

LEMMA InitTexts == Init => Texts
  <1> SUFFICES ASSUME Init PROVE Texts
    OBVIOUS
  <1> QED BY ConfigPagesOf DEF Init, Texts, InUse

LEMMA KeyTexts == TextsInv /\ Keys => Texts'
  <1> SUFFICES ASSUME TextsInv, Keys PROVE Texts'
    OBVIOUS
  <1> USE DEF TextsInv
  <1>1. /\ at \in {"configwifi", "configmqtt"} /\ shown = {at} /\ pc = "key" /\ at' = at
        /\ pc' = "draw" /\ UNCHANGED <<saved, temp>>
    BY DEF OnePage, Keys, NoKey, MoveKey, TypeKey, HashKey, StarKey, Press, AfterKey, dataVars
  <1>2. PICK h \in ConfigForms : h = FormAt /\ h = (IF at = "configwifi" THEN "wifi" ELSE "mqtt")
    BY <1>1, PlainForm, ConfigPagesOf
  <1>3. \A g \in ConfigForms : edit[g] = temp[g] \/ g = h
    BY <1>1, <1>2, ConfigPagesOf DEF Texts, Home, Restoring
  <1>4. \A g \in ConfigForms : edit'[g] = edit[g] \/ g = h
    BY <1>2, ConfigPagesOf DEF Keys, NoKey, MoveKey, TypeKey, HashKey, StarKey, dataVars, IInv, Data
  <1>5. \A g \in ConfigForms : edit'[g] = temp'[g] \/ g = h
    BY <1>1, <1>3, <1>4
  <1>6. Home(h)' \/ Restoring'
    <2>1. FormPage[FormAt] = at
      BY <1>1, PlainForm
    <2>2. CASE shown' = shown
      BY <1>1, <1>2, <2>2, ConfigPagesOf DEF Home
    <2>3. CASE shown' = (shown \ {FormPage[FormAt]}) \cup {ConnectPage[FormAt]}
      BY <1>1, <1>2, <2>1, <2>3, ConfigPagesOf DEF Home
    <2>4. CASE shown' = (shown \ {StarHides[FormAt]}) \cup {"chooseconfig"} /\ status' = TRUE
      BY <1>1, <2>4, PlainForm DEF Restoring
    <2> QED BY <2>2, <2>3, <2>4
            DEF Keys, NoKey, MoveKey, TypeKey, HashKey, StarKey, Goto, uiVars
  <1>7. shown' = {"chooseconfig"} => show' = FALSE
    <2>1. CASE UNCHANGED shown
      BY <1>1, <2>1
    <2>2. CASE HashKey /\ shown' = (shown \ {FormPage[FormAt]}) \cup {ConnectPage[FormAt]}
      BY <1>1, <1>2, <2>2, ConfigPagesOf
    <2>3. CASE StarKey /\ Leaves(fields[FormAt])
      BY <2>3 DEF StarKey
    <2> QED BY <2>1, <2>2, <2>3 DEF Keys, NoKey, MoveKey, TypeKey, HashKey, StarKey, Goto, uiVars
  <1>8. \A g \in ConfigForms : edit'[g] = temp'[g] \/ Home(g)' \/ Restoring'
    BY <1>2, <1>5, <1>6
  <1> QED BY <1>1, <1>7, <1>8 DEF Texts

LEMMA DrawTexts == TextsInv /\ Draws => Texts'
  <1> SUFFICES ASSUME TextsInv, Draws PROVE Texts'
    OBVIOUS
  <1> USE DEF TextsInv
  <1>1. pc = "draw" /\ at' = at /\ keyed' = keyed /\ pc' # "draw" /\ at \in Reached
    BY DEF OnePage, Reached, Draws, DrawNothing, Draw, DrawMenu, DrawChooseConfig, AfterDraw,
       DrawForm, DrawCalibration, Connect, SaveCalibrations, ConfigTime, PostServer
  <1>2. at # "detailCalibrations" /\ at # "configCalibrations" /\ at # "connecthttp"
    BY <1>1 DEF Reached
  <1>3. CASE DrawNothing
    <2>1. at = "chooseconfig" => ~ status
      BY <1>3 DEF DrawNothing, ConfigPages
    <2> QED BY <1>1, <1>3, <2>1 DEF DrawNothing, Texts, Home, Restoring, uiVars, dataVars
  <1>4. CASE DrawMenu
    <2>1. shown = {at} /\ at \in MenuPages
      BY <1>1, <1>4 DEF OnePage, DrawMenu, MenuPages
    <2>2. \A g \in ConfigForms : edit[g] = temp[g]
      BY <2>1, ConfigPagesOf DEF Texts, Home, Restoring, MenuPages
    <2> QED BY <1>1, <1>4, <2>1, <2>2 DEF DrawMenu, Draw, Texts, dataVars, MenuPages
  <1>5. CASE DrawChooseConfig
    <2>1. \A g \in ConfigForms : edit'[g] = temp[g]
      BY <1>5, ConfigPagesOf DEF DrawChooseConfig, Restored
    <2> QED BY <1>1, <1>5, <2>1 DEF DrawChooseConfig, Draw, Texts
  <1>6. CASE DrawForm
    <2>1. at \in {"configwifi", "configmqtt"} /\ shown # {"chooseconfig"}
      <3>1. at \in {"configwifi", "configmqtt"}
        BY <1>6, <1>1 DEF DrawForm, ConfigPages, Reached
      <3> QED BY <3>1, <1>6, <1>1 DEF DrawForm, Texts, OnePage
    <2>2. \A g \in ConfigForms : edit'[g] = edit[g] \/ edit'[g] = temp[g]
      BY <1>6, ConfigPagesOf DEF DrawForm, Restored
    <2>3. \A g \in ConfigForms : edit'[g] = temp[g] \/ Home(g)
      BY <2>1, <2>2 DEF Texts, Restoring
    <2> QED BY <1>1, <1>6, <2>1, <2>3 DEF DrawForm, Draw, Texts, Home
  <1>7. CASE \E f \in ConfigForms : Connect(f)
    <2>1. PICK f \in ConfigForms : Connect(f)
      BY <1>7
    <2>2. at = ConnectPage[f] /\ shown = {at}
      BY <1>1, <2>1, ConfigPagesOf DEF Connect, OnePage
    <2>3. \A g \in ConfigForms : g # f => edit[g] = temp[g]
      BY <2>2, ConfigPagesOf DEF Texts, Home, Restoring
    <2>4. \A g \in ConfigForms : temp'[g] = edit[g] /\ saved'[g] = edit[g] /\ edit'[g] = edit[g]
      BY <2>1, <2>3, ConfigPagesOf DEF Connect, IInv, Data
    <2>5. at # "chooseconfig"
      BY <2>2, ConfigPagesOf
    <2> QED BY <1>1, <2>4, <2>5 DEF Texts
  <1>8. CASE ConfigTime \/ PostServer
    <2>1. shown = {at} /\ at \in {"configtime", "postServer"}
      BY <1>1, <1>8 DEF OnePage, ConfigTime, PostServer
    <2>2. \A g \in ConfigForms : edit[g] = temp[g]
      BY <2>1, ConfigPagesOf DEF Texts, Home, Restoring
    <2> QED BY <1>1, <1>8, <2>1, <2>2 DEF ConfigTime, PostServer, Texts
  <1> QED BY <1>2, <1>3, <1>4, <1>5, <1>6, <1>7, <1>8 DEF Draws, DrawCalibration, SaveCalibrations

LEMMA TouchTexts == Plain /\ TextsInv /\ Touches => Texts'
  <1> SUFFICES ASSUME Plain, TextsInv, Touches PROVE Texts'
    OBVIOUS
  <1> USE DEF TextsInv
  <1>1. /\ pc = "touch" /\ pc' = "top" /\ UNCHANGED <<saved, temp, edit>>
    BY DEF Touches, NoTouch, Touch, TouchIndex, TouchChooseConfig, TouchForm,
           TouchCalibrations, TouchHistory, TouchStart, Button, dataVars
  <1>2. CASE NoTouch
    BY <1>1, <1>2 DEF NoTouch, Texts, Home, Restoring, uiVars
  <1>3. CASE TouchForm
    <2>1. shown = {at} /\ at \in {"configwifi", "configmqtt"}
      BY <1>1, <1>3 DEF TouchForm, Touch, Plain, OnePage, FormPages, ConfigPages, Reached
    <2>2. PICK h \in ConfigForms :
             h = FormAt /\ FormPage[h] = at /\ ReturnPage[h] = "chooseconfig"
      BY <2>1, PlainForm, ConfigPagesOf
    <2>3. \A g \in ConfigForms : edit[g] = temp[g] \/ g = h
      BY <2>1, <2>2, ConfigPagesOf DEF Texts, Home, Restoring
    <2>4. Home(h)' \/ Restoring'
      BY <1>3, <2>1, <2>2 DEF TouchForm, Goto, Home, Restoring
    <2> QED BY <1>1, <2>3, <2>4 DEF Texts
  <1>4. CASE ~ NoTouch /\ ~ TouchForm
    <2>1. shown = {at} /\ at \notin FormPages \cup ConnectPages
      <3>1. shown = {at}
        BY <1>1, <1>4 DEF Plain, OnePage, Touches, Touch, TouchIndex, TouchChooseConfig,
           TouchCalibrations, TouchHistory, TouchStart, Button
      <3> QED BY <3>1, <1>4
              DEF Touches, Touch, TouchIndex, TouchChooseConfig, TouchCalibrations,
                  TouchHistory, TouchStart, Button, FormPages, ConfigPages, ConnectPages
    <2>2. \A g \in ConfigForms : edit[g] = temp[g]
      BY <1>1, <2>1, ConfigPagesOf
         DEF Texts, Home, Restoring, FormPages, ConfigPages, ConnectPages
    <2> QED BY <1>1, <2>2 DEF Texts
  <1> QED BY <1>2, <1>3, <1>4

LEMMA NextTextsInv == Plain /\ TextsInv /\ [Next]_vars => TextsInv'
  <1> SUFFICES ASSUME Plain, TextsInv, [Next]_vars PROVE TextsInv'
    OBVIOUS
  <1>1. IInv' /\ OnePage'
    BY NextIInv, NextOnePage DEF TextsInv
  <1>2. Texts'
    <2>1. CASE Dispatch
      BY <2>1, <1>1 DEF Dispatch, TextsInv, Texts, Home, Restoring, uiVars, dataVars
    <2>2. CASE PowerCycle
      BY <2>2, ConfigPagesOf DEF PowerCycle, TextsInv, Texts, InUse, IInv, Data
    <2>3. CASE UNCHANGED vars
      BY <2>3 DEF vars, TextsInv, Texts, Home, Restoring
    <2> QED BY <2>1, <2>2, <2>3, KeyTexts, DrawTexts, TouchTexts DEF Next, Loop
  <1> QED BY <1>1, <1>2 DEF TextsInv

LEMMA PlainTextsInv == ASSUME Plain PROVE Spec => []TextsInv
  <1>1. Init => TextsInv
    BY InitIInv, InitOnePage, InitTexts DEF TextsInv
  <1>2. TextsInv /\ [Next]_vars => TextsInv'
    BY NextTextsInv
  <1> QED BY <1>1, <1>2, PTL DEF Spec

\* The texts on the SD card are the texts in use: switching the device off and
\* on never changes what it talks to.
THEOREM BoardSavedIsInUse == ASSUME Plain PROVE Spec => []SavedIsInUse
  <1>1. TextsInv => SavedIsInUse
    BY DEF TextsInv, Texts, SavedIsInUse
  <1> QED BY <1>1, PlainTextsInv, PTL

\* Back at a menu nothing is left of texts that were typed and not used.
THEOREM BoardEditsDropped == ASSUME Plain PROVE Spec => []EditsDropped
  <1>1. TextsInv => EditsDropped
    <2> SUFFICES ASSUME TextsInv, pc = "touch", at \in {"index", "chooseconfig"},
                        NEW f \in ConfigForms
                 PROVE  edit[f] = temp[f]
      BY DEF EditsDropped
    <2>1. shown = {at}
      BY DEF TextsInv, OnePage
    <2> QED BY <2>1, ConfigPagesOf DEF TextsInv, Texts, Home, Restoring
  <1> QED BY <1>1, PlainTextsInv, PTL

\* The SD card is written by connectwifi and connectmqtt; each changes the
\* texts of its own form only, although it writes those of all three.
THEOREM BoardSaveOwnForm == ASSUME Plain PROVE Spec => SaveOwnForm
  <1>1. ASSUME TextsInv, [Next]_vars, NEW f \in ConfigForms, saved'[f] # saved[f]
        PROVE  at = ConnectPage[f]
    <2>1. CASE \E g \in ConfigForms : Connect(g)
      <3>1. PICK g \in ConfigForms : Connect(g)
        BY <2>1
      <3>2. at = ConnectPage[g] /\ shown = {at} /\ saved'[f] = edit[f]
        <4>1. at = ConnectPage[g] /\ pc = "draw" /\ saved'[f] = edit[f]
          BY <3>1, ConfigPagesOf DEF Connect, Draw
        <4> QED BY <1>1, <4>1, ConfigPagesOf DEF TextsInv, OnePage
      <3>3. f # g => edit[f] = saved[f]
        BY <1>1, <3>2, ConfigPagesOf DEF TextsInv, Texts, Home, Restoring
      <3> QED BY <1>1, <3>2, <3>3
    <2>2. CASE SaveCalibrations
      BY <1>1, <2>2 DEF SaveCalibrations, ConfigForms, CalForms, Forms
    <2>3. CASE Touches
      BY <1>1, <2>3 DEF Touches, NoTouch, Touch, TouchIndex, TouchChooseConfig, TouchForm,
                 TouchCalibrations, TouchHistory, TouchStart, Button, dataVars
    <2>4. CASE NoKey \/ MoveKey \/ TypeKey \/ HashKey \/ StarKey \/ DrawNothing \/ DrawMenu
               \/ DrawChooseConfig \/ DrawForm \/ DrawCalibration \/ ConfigTime \/ PostServer
               \/ Dispatch \/ PowerCycle \/ UNCHANGED vars
      BY <1>1, <2>4 DEF NoKey, MoveKey, TypeKey, HashKey, StarKey, DrawNothing, DrawMenu,
                 DrawChooseConfig, DrawForm, DrawCalibration, ConfigTime, PostServer,
                 Dispatch, PowerCycle, vars, dataVars
    <2> QED BY <1>1, <2>1, <2>2, <2>3, <2>4 DEF Next, Loop, Keys, Draws
  <1>2. TextsInv /\ [Next]_vars
          => [\A f \in ConfigForms : saved'[f] # saved[f] => at = ConnectPage[f]]_vars
    BY <1>1
  <1> QED BY <1>2, PlainTextsInv, PTL DEF Spec, SaveOwnForm
------------------------------------------------------------------------------
(* Many pages may be shown, for every choice of forms and with a key and a  *)
(* touch in one pass.  What counts is the first of them, which gets the     *)
(* pass: it only changes together with a request to draw.                   *)

LEMMA FirstIsLeast ==
    ASSUME NEW S, S \subseteq Pages, S # {}
    PROVE  First(S) \in S /\ \A q \in S : Rank[First(S)] <= Rank[q]
  <1>1. \E p \in S : \A q \in S : Rank[p] <= Rank[q]
    BY SMTT(60) DEF Pages, Rank
  <1> QED BY <1>1 DEF First

LEMMA FirstIs ==
    ASSUME NEW S, S \subseteq Pages, NEW p \in S, \A q \in S : Rank[p] <= Rank[q]
    PROVE  First(S) = p
  <1>1. First(S) \in S /\ Rank[First(S)] <= Rank[p]
    BY FirstIsLeast
  <1>2. Rank[p] <= Rank[First(S)]
    BY <1>1
  <1>3. \A a, b \in Pages : Rank[a] <= Rank[b] /\ Rank[b] <= Rank[a] => a = b
    BY SMTT(60) DEF Pages, Rank
  <1> QED BY <1>1, <1>2, <1>3

\* The first of some pages is the first of those that are left.
LEMMA FirstStays ==
    ASSUME NEW S, S \subseteq Pages, NEW R, R \subseteq S, First(S) \in R
    PROVE  First(R) = First(S)
  <1>1. \A q \in R : Rank[First(S)] <= Rank[q]
    BY FirstIsLeast
  <1> QED BY <1>1, FirstIs

\* The page of the pass is the first one until a key hands over, and only a
\* form handles a key; a form that is still to be drawn in a pass in which its
\* '#' has handed over is not marked any more; a page that acts has still to
\* do so, but where such a form was drawn.
Turn ==
    /\ pc # "top" /\ ~ keyed => at = First(shown)
    /\ pc = "key" => ~ keyed
    /\ pc \in {"draw", "touch"} /\ keyed => at \in FormPages
    /\ pc = "draw" /\ keyed => at \in ConfigPages
    /\ pc = "draw" /\ keyed /\ status /\ show => at \notin shown
    /\ First(shown) \in ActingPages => status \/ FormBehind

LEMMA KindsOfPages ==
    /\ ConfigPages \subseteq FormPages /\ FormPages \cap ActingPages = {}
    /\ "detailCalibrations" \in FormPages /\ "detailCalibrations" \notin ConfigPages
    /\ MenuPages \cap (FormPages \cup ActingPages) = {}
    /\ {"index", "chooseconfig", "calibrations"} \cap (FormPages \cup ActingPages) = {}
  BY DEF ConfigPages, FormPages, ActingPages, ConnectPages, MenuPages

\* Init and PowerCycle.
LEMMA FirstOfIndex == First({"index"}) = "index"
  BY FirstIsShown, PagesAre

LEMMA KeyTurn ==
    ASSUME Control, Turn, Keys
    PROVE  Turn'
  <1>1. pc = "key" /\ ~ keyed /\ at = First(shown) /\ at' = at
    BY DEF Turn, Keys, NoKey, MoveKey, TypeKey, HashKey, StarKey, Press
  <1>2. at \in FormPages /\ at \notin ActingPages
    BY <1>1, KindsOfPages DEF Control
  <1>3. pc' = IF at = "detailCalibrations" THEN "touch" ELSE "draw"
    BY DEF Keys, NoKey, MoveKey, TypeKey, HashKey, StarKey, Press, AfterKey
  <1>4. CASE NoKey
    BY <1>1, <1>2, <1>3, <1>4 DEF NoKey, uiVars, Turn
  <1>5. CASE Keys /\ ~ NoKey
    <2>1. keyed' = TRUE
      BY <1>5 DEF Keys, MoveKey, TypeKey, HashKey, StarKey, Press
    <2>2. status' \/ shown' = shown
      BY <1>5 DEF Keys, MoveKey, TypeKey, HashKey, StarKey, Goto
    <2>3. at # "detailCalibrations" => at \in ConfigPages
      BY <1>2 DEF FormPages
    <2>4. FormAt \in Forms /\ FormPage[FormAt] = at
      BY <1>2, FormAtForm DEF Control
    <2>5. ConnectPage[FormAt] # at
      BY <1>2, <2>4, KindsOfPages
         DEF ConnectPage, ActingPages, ConnectPages, Forms, ConfigForms, CalForms
    <2>6. status' /\ show' => at \notin shown'
      BY <1>5, <2>4, <2>5 DEF Keys, MoveKey, TypeKey, HashKey, StarKey, Goto
    <2> QED BY <1>1, <1>2, <1>3, <2>1, <2>2, <2>3, <2>6 DEF Turn
  <1> QED BY <1>4, <1>5

LEMMA DrawTurn ==
    ASSUME Control, Turn, Draws
    PROVE  Turn'
  <1>1. pc = "draw" /\ at' = at /\ keyed' = keyed /\ AfterDraw
    BY DEF Draws, DrawNothing, Draw, DrawMenu, DrawChooseConfig,
       DrawForm, DrawCalibration, Connect, SaveCalibrations, ConfigTime, PostServer
  <1>2. keyed => at \in ConfigPages
    BY <1>1 DEF Turn
  <1>3. pc' \in {"key", "top", "touch"} /\ (pc' = "key" => at = "detailCalibrations")
    BY <1>1 DEF AfterDraw
  <1>4. CASE DrawNothing
    BY <1>1, <1>2, <1>3, <1>4, KindsOfPages DEF DrawNothing, uiVars, Turn, FormBehind
  <1>5. CASE DrawMenu \/ DrawChooseConfig \/ DrawForm \/ DrawCalibration
    <2>1. shown' = shown /\ at \notin ActingPages
      BY <1>5, KindsOfPages DEF DrawMenu, DrawChooseConfig, DrawForm, DrawCalibration
    <2>2. keyed => FormBehind'
      <3>1. keyed => DrawForm
        BY <1>2, <1>5, KindsOfPages DEF DrawMenu, DrawChooseConfig, DrawCalibration
      <3>2. keyed => at \notin shown
        BY <1>1, <3>1 DEF DrawForm, Draw, Turn
      <3> QED BY <1>2, <2>1, <3>1, <3>2 DEF DrawForm, FormBehind
    <2>3. ~ keyed => First(shown) \notin ActingPages
      BY <1>1, <2>1 DEF Turn
    <2>4. keyed => at \in FormPages
      BY <1>2, KindsOfPages
    <2>5. pc' = "key" => ~ keyed
      BY <1>2, <1>3, KindsOfPages
    <2> QED BY <1>1, <1>3, <2>1, <2>2, <2>3, <2>4, <2>5 DEF Turn
  <1>6. CASE \E q \in {"index", "detailhistory"} : at \in ActingPages /\ HandOver(q)
    <2>1. pc' = "top" /\ status'
      BY <1>1, <1>6, KindsOfPages DEF AfterDraw, HandOver, Goto
    <2> QED BY <2>1 DEF Turn
  <1> QED BY <1>4, <1>5, <1>6
          DEF Draws, Connect, SaveCalibrations, ConfigTime, PostServer,
              ActingPages, ConnectPages, ConnectPage, ConfigForms

\* A touch beside the buttons hides pages, but not the first.
LEMMA TouchBeside ==
    ASSUME Control, Turn, pc = "touch", at \in {"index", "chooseconfig"},
           at \in shown', shown' \subseteq shown
    PROVE  ~ keyed /\ First(shown') = First(shown)
  <1>1. ~ keyed /\ at = First(shown)
    BY KindsOfPages DEF Turn
  <1> QED BY <1>1, FirstStays DEF Control

LEMMA TouchTurn ==
    ASSUME Control, Turn, Touches
    PROVE  Turn'
  <1>1. pc = "touch" /\ pc' = "top"
    BY DEF Touches, NoTouch, Touch, TouchIndex, TouchChooseConfig, TouchForm,
           TouchCalibrations, TouchHistory, TouchStart, Button
  <1>2. CASE status'
    BY <1>1, <1>2 DEF Turn
  <1>3. CASE UNCHANGED <<status, screen>> /\ shown' \subseteq shown
               /\ First(shown') = First(shown)
    BY <1>1, <1>3 DEF Turn, FormBehind
  <1>4. CASE NoTouch
    BY <1>3, <1>4 DEF NoTouch, uiVars
  <1>5. CASE TouchIndex
    <2>1. CASE shown' = shown \ IndexHides("none") /\ UNCHANGED <<status, screen>>
      <3>1. at = "index" /\ show' = show /\ "index" \notin IndexHides("none")
        BY <1>5 DEF TouchIndex, Touch, IndexHides
      <3>2. at \in shown' /\ shown' \subseteq shown
        BY <1>1, <2>1, <3>1 DEF Control
      <3> QED BY <1>1, <1>3, <2>1, <3>1, <3>2, TouchBeside
    <2> QED BY <1>2, <1>5, <2>1 DEF TouchIndex, Goto
  <1>6. CASE TouchChooseConfig
    <2>1. CASE shown' = shown \ ConfigPages /\ UNCHANGED <<status, screen, show>>
      <3>1. at = "chooseconfig" /\ at \notin ConfigPages
        BY <1>6, KindsOfPages DEF TouchChooseConfig, Touch
      <3>2. at \in shown' /\ shown' \subseteq shown
        BY <1>1, <2>1, <3>1 DEF Control
      <3> QED BY <1>1, <1>3, <2>1, <3>1, <3>2, TouchBeside
    <2> QED BY <1>2, <1>6, <2>1 DEF TouchChooseConfig, Goto
  <1>7. CASE TouchForm \/ TouchCalibrations \/ TouchHistory \/ TouchStart
    BY <1>2, <1>7 DEF TouchForm, TouchCalibrations, TouchHistory, TouchStart, Button, Goto
  <1> QED BY <1>4, <1>5, <1>6, <1>7 DEF Touches

LEMMA NextTurn ==
    ASSUME Control, Turn, [Next]_vars
    PROVE  Turn'
  <1>1. CASE Dispatch
    BY <1>1 DEF Dispatch, Turn, FormBehind, uiVars
  <1>2. CASE PowerCycle
    BY <1>2, FirstOfIndex, KindsOfPages DEF PowerCycle, Turn
  <1>3. CASE UNCHANGED vars
    BY <1>3 DEF vars, Turn, FormBehind
  <1> QED BY <1>1, <1>2, <1>3, KeyTurn, DrawTurn, TouchTurn DEF Next, Loop

LEMMA TurnHolds == Spec => [](Control /\ Turn)
  <1>1. Init => Turn
    BY FirstOfIndex, KindsOfPages DEF Init, Turn
  <1>2. Control /\ Turn /\ [Next]_vars => Turn'
    BY NextTurn
  <1>3. IInv => Control
    BY DEF IInv
  <1> QED BY <1>1, <1>2, <1>3, SpecIInv, PTL DEF Spec

\* A page without buttons has a redraw pending when its turn comes, unless a
\* form was drawn after its '#' had handed over: no other order of keys,
\* touches and resets, in one pass or in many, with any forms, also with keys
\* before a form is drawn, leaves the device hanging on it.
THEOREM BoardNoDeadEnd == Spec => []NoDeadEnd
  <1>1. Turn => NoDeadEnd
    BY DEF Turn, NoDeadEnd
  <1> QED BY <1>1, TurnHolds, PTL

\* Where such a form was drawn the device does hang: nothing but a reset leads
\* away from a page without buttons that has its turn and no redraw pending.
DeadEnd ==
    /\ ~ status /\ First(shown) \in ActingPages
    /\ pc = "top" \/ (pc = "draw" /\ at = First(shown))

THEOREM BoardDeadEndLasts == Spec => [][DeadEnd => DeadEnd' \/ PowerCycle]_vars
  <1>1. ASSUME DeadEnd, Loop PROVE DeadEnd'
    <2>1. CASE pc = "top"
      <3>1. Dispatch
        BY <1>1, <2>1 DEF Loop, Keys, NoKey, MoveKey, TypeKey, HashKey, StarKey, Press,
             Draws, DrawNothing, Draw, DrawMenu, DrawChooseConfig, DrawForm, DrawCalibration,
             Connect, SaveCalibrations, ConfigTime, PostServer, Touches, NoTouch, Touch,
             TouchIndex, TouchChooseConfig, TouchForm, TouchCalibrations, TouchHistory,
             TouchStart, Button
      <3> QED BY <1>1, <3>1, KindsOfPages DEF DeadEnd, Dispatch, uiVars
    <2>2. CASE pc = "draw"
      <3>1. DrawNothing
        BY <1>1, <2>2 DEF DeadEnd, Loop, Dispatch, Keys, NoKey, MoveKey, TypeKey, HashKey,
             StarKey, Press, Draws, Draw, DrawMenu, DrawChooseConfig, DrawForm,
             DrawCalibration, Connect, SaveCalibrations, ConfigTime, PostServer, Touches,
             NoTouch, Touch, TouchIndex, TouchChooseConfig, TouchForm, TouchCalibrations,
             TouchHistory, TouchStart, Button
      <3> QED BY <1>1, <2>2, <3>1, KindsOfPages DEF DeadEnd, DrawNothing, AfterDraw, uiVars
    <2> QED BY <1>1, <2>1, <2>2 DEF DeadEnd
  <1>2. [Next]_vars => [DeadEnd => DeadEnd' \/ PowerCycle]_vars
    BY <1>1 DEF Next
  <1> QED BY <1>2, PTL DEF Spec

\* A page without buttons that gets its turn, with no form drawn behind it,
\* acts in the second step from there, and a menu is then the first page,
\* whatever else is shown: with the loop going on and its calls to the network
\* returning, this is what brings the device back by itself.
Acts ==
    /\ pc = "top" /\ First(shown) \in ActingPages /\ Loop =>
         pc' = "draw" /\ at' \in ActingPages /\ (FormBehind' => FormBehind)
    /\ pc = "draw" /\ at \in ActingPages /\ ~ FormBehind /\ Loop =>
         pc' = "top" /\ First(shown') \in MenuPages

THEOREM BoardActs == Spec => [][Acts]_vars
  <1>1. ASSUME Control, Turn, Loop, pc = "top", First(shown) \in ActingPages
        PROVE  pc' = "draw" /\ at' \in ActingPages /\ (FormBehind' => FormBehind)
    <2>1. Dispatch
      BY <1>1 DEF Loop, Keys, NoKey, MoveKey, TypeKey, HashKey, StarKey, Press,
           Draws, DrawNothing, Draw, DrawMenu, DrawChooseConfig, DrawForm, DrawCalibration,
           Connect, SaveCalibrations, ConfigTime, PostServer, Touches, NoTouch, Touch,
           TouchIndex, TouchChooseConfig, TouchForm, TouchCalibrations, TouchHistory,
           TouchStart, Button
    <2> QED BY <1>1, <2>1, KindsOfPages DEF Dispatch, uiVars, FormBehind
  <1>2. ASSUME Control, Turn, Loop, pc = "draw", at \in ActingPages, ~ FormBehind
        PROVE  pc' = "top" /\ First(shown') \in MenuPages
    <2>1. ~ keyed /\ at = First(shown) /\ status
      BY <1>2, KindsOfPages DEF Turn
    <2>2. at \notin ConfigPages /\ at \notin MenuPages \cup FormPages /\ at # "chooseconfig"
      BY <1>2, KindsOfPages
    <2>3. Draws
      BY <1>2 DEF Loop, Dispatch, Keys, NoKey, MoveKey, TypeKey, HashKey, StarKey, Press,
           Touches, NoTouch, Touch, TouchIndex, TouchChooseConfig, TouchForm,
           TouchCalibrations, TouchHistory, TouchStart, Button
    <2>4. (\E f \in ConfigForms : Connect(f)) \/ SaveCalibrations \/ ConfigTime \/ PostServer
      BY <2>1, <2>2, <2>3, KindsOfPages
         DEF Draws, DrawNothing, DrawMenu, DrawChooseConfig, DrawForm, DrawCalibration
    <2>5. pc' = "top"
      BY <1>2, <2>2, <2>4, KindsOfPages
         DEF Connect, SaveCalibrations, ConfigTime, PostServer, Draw, AfterDraw
    <2>6. CASE HandOver("index")
      <3>1. "index" \in shown' /\ shown' \subseteq Pages
        BY <1>2, <2>6, PagesAre DEF HandOver, Goto, Control
      <3>2. \A q \in Pages : Rank["index"] <= Rank[q]
        BY SMTT(60) DEF Pages, Rank
      <3>3. First(shown') = "index"
        BY <3>1, <3>2, FirstIs
      <3> QED BY <2>5, <3>3 DEF MenuPages
    <2>7. CASE at = "postServer" /\ HandOver("detailhistory")
      <3>1. \A q \in Pages : Rank["postServer"] <= Rank[q] => q = "postServer"
        BY SMTT(60) DEF Pages, Rank
      <3>2. shown \subseteq {"postServer"}
        BY <1>2, <2>1, <2>7, <3>1, FirstIsLeast DEF Control
      <3>3. shown' = {"detailhistory"}
        BY <2>7, <3>2 DEF HandOver, Goto
      <3>4. First(shown') = "detailhistory"
        BY <3>3, FirstIsShown, PagesAre
      <3> QED BY <2>5, <3>4 DEF MenuPages
    <2> QED BY <2>4, <2>6, <2>7 DEF Connect, SaveCalibrations, ConfigTime, PostServer
  <1>3. Control /\ Turn /\ [Next]_vars => [Acts]_vars
    BY <1>1, <1>2 DEF Acts
  <1> QED BY <1>3, TurnHolds, PTL DEF Spec

------------------------------------------------------------------------------
(* Which pages may be marked behind the first one, for every choice of      *)
(* forms: never a configuration form, and no page of the history while the  *)
(* user chooses one.  A form that is drawn after its '#' has handed over is *)
(* then followed by a page that acts.                                       *)

LEMMA RankIs ==
    /\ Rank["index"] = 1 /\ Rank["configwifi"] = 2 /\ Rank["confighttp"] = 3
    /\ Rank["configmqtt"] = 4 /\ Rank["configtime"] = 5 /\ Rank["chooseconfig"] = 6
    /\ Rank["connectwifi"] = 7 /\ Rank["history"] = 8 /\ Rank["detailhistory"] = 9
    /\ Rank["detailpost"] = 10 /\ Rank["connecthttp"] = 11 /\ Rank["connectmqtt"] = 12
    /\ Rank["calibrations"] = 13 /\ Rank["detailCalibrations"] = 14
    /\ Rank["configCalibrations"] = 15 /\ Rank["start"] = 16 /\ Rank["postServer"] = 17
  BY DEF Rank

LEMMA RankType ==
    /\ \A p \in Pages : Rank[p] \in 1..17
    /\ \A p, q \in Pages : Rank[p] = Rank[q] => p = q
  BY PagesAre, RankIs

\* A page may be marked before the one that gets the pass only if it is that one.
LEMMA NoneBefore ==
    ASSUME NEW S, S \subseteq Pages, S # {}
    PROVE  /\ "index" \in S => First(S) = "index"
           /\ S \cap ConfigPages # {} => First(S) \in ConfigPages \cup {"index"}
           /\ "configtime" \in S => First(S) \in ConfigPages \cup {"index", "configtime"}
           /\ "chooseconfig" \in S =>
                First(S) \in ConfigPages \cup {"index", "configtime", "chooseconfig"}
           /\ S \cap {"connectwifi", "connecthttp", "connectmqtt", "history"} # {} =>
                First(S) \in ActingPages \cup ConfigPages
                               \cup {"index", "chooseconfig", "history", "detailhistory", "detailpost"}
           /\ "history" \in S =>
                First(S) \in ActingPages \cup ConfigPages
                               \cup {"index", "chooseconfig", "history"}
           /\ First(S) = "postServer" => S = {"postServer"}
  <1>1. First(S) \in S /\ First(S) \in Pages /\ \A q \in S : Rank[First(S)] <= Rank[q]
    BY FirstIsLeast
  <1>2. PICK p \in Pages : p = First(S)
    BY <1>1
  <1>3. p \in S /\ \A q \in S : Rank[p] <= Rank[q] /\ Rank[q] \in 1..17
    BY <1>1, <1>2, RankType
  <1>4. "index" \in S => p = "index"
    BY <1>2, <1>3, RankIs, PagesAre
  <1>5. S \cap ConfigPages # {} => p \in ConfigPages \cup {"index"}
    BY <1>2, <1>3, RankIs, PagesAre DEF ConfigPages
  <1>6. "configtime" \in S => p \in ConfigPages \cup {"index", "configtime"}
    BY <1>2, <1>3, RankIs, PagesAre DEF ConfigPages
  <1>7. "chooseconfig" \in S => p \in ConfigPages \cup {"index", "configtime", "chooseconfig"}
    BY <1>2, <1>3, RankIs, PagesAre DEF ConfigPages
  <1>8. S \cap {"connectwifi", "connecthttp", "connectmqtt", "history"} # {} =>
           p \in ActingPages \cup ConfigPages
                   \cup {"index", "chooseconfig", "history", "detailhistory", "detailpost"}
    BY <1>2, <1>3, RankIs, PagesAre DEF ConfigPages, ActingPages, ConnectPages
  <1>9. "history" \in S =>
           p \in ActingPages \cup ConfigPages \cup {"index", "chooseconfig", "history"}
    BY <1>2, <1>3, RankIs, PagesAre DEF ConfigPages, ActingPages, ConnectPages
  <1>10. p = "postServer" => S = {"postServer"}
    <2>1. \A q \in Pages : Rank["postServer"] <= Rank[q] => q = "postServer"
      BY RankIs, PagesAre
    <2> QED BY <1>3, <2>1
  <1> QED BY <1>2, <1>4, <1>5, <1>6, <1>7, <1>8, <1>9, <1>10

\* A page that is opened gets the next pass if it comes before or right behind
\* the one that opens it.
LEMMA OpenedFirst ==
    ASSUME NEW S, S \subseteq Pages, S # {}, NEW q \in Pages, NEW T,
           T \subseteq (S \ {First(S)}) \cup {q}, q \in T, Rank[q] <= Rank[First(S)] + 1
    PROVE  First(T) = q
  <1>1. First(S) \in Pages /\ \A x \in S : Rank[First(S)] <= Rank[x]
    BY FirstIsLeast
  <1>2. \A x \in S \ {First(S)} : Rank[First(S)] + 1 <= Rank[x]
    BY <1>1, RankType
  <1>3. ASSUME NEW x \in T PROVE Rank[q] <= Rank[x]
    <2>1. CASE x = q
      BY <2>1, RankType
    <2>2. CASE x \in S \ {First(S)}
      <3>1. x \in Pages /\ Rank[First(S)] + 1 <= Rank[x]
        BY <1>2, <2>2
      <3> QED BY <1>1, <3>1, RankType
    <2> QED BY <2>1, <2>2
  <1> QED BY <1>3, FirstIs

\* The pages marked only as the first one, and those that a form never has
\* behind it.
Lone  == ConfigPages \cup {"configtime", "detailhistory", "detailpost"}
Early == {"index", "configtime", "history", "detailhistory", "detailpost"}

Order ==
    /\ \A c \in shown \cap Lone : c = First(shown)
    /\ "history" \in shown => First(shown) \in ActingPages \cup {"index", "history"}
    /\ "chooseconfig" \in shown => shown \cap {"index", "configtime"} = {}
    /\ show /\ shown \cap ConfigPages # {} => "chooseconfig" \notin shown
    /\ pc # "top" /\ at \in FormPages =>
         shown \cap Early = {} /\ shown \cap ConfigPages \subseteq {at}

LEMMA LoneIs ==
    /\ Lone \subseteq ConfigPages \cup Early /\ ConfigPages \subseteq Lone
    /\ {"index", "chooseconfig", "history"} \cap Lone = {}
    /\ {"detailhistory", "detailpost", "configtime"} \subseteq Lone
    /\ "index" \in Early /\ "configtime" \in Early /\ "history" \in Early
    /\ FormPages \cap Early = {} /\ ActingPages \cap Early = {"configtime"}
    /\ {"index", "history", "chooseconfig", "confighttp"} \cap ActingPages = {}
    /\ ConfigPages \cap (Early \cup {"chooseconfig", "configtime"}) = {}
    /\ "confighttp" \in ConfigPages
    /\ {"index", "history", "chooseconfig"} \cap FormPages = {}
  BY DEF Lone, Early, ConfigPages, FormPages, ActingPages, ConnectPages

\* Nothing is opened: no page in front of the first is hidden.
LEMMA FewerOrder ==
    ASSUME Order, shown' \subseteq shown, First(shown') = First(shown), show' => show,
           pc' # "top" => pc # "top" /\ at' = at
    PROVE  Order'
  BY DEF Order

\* A form is left, and no other was behind it.
LEMMA LeftOrder ==
    ASSUME shown' \cap (Early \cup ConfigPages) = {}
    PROVE  Order'
  BY LoneIs DEF Order

\* A page that is neither a form nor one of the two menus leads to another.
LEMMA MovesOn ==
    ASSUME Control, Order, at = First(shown),
           at \notin ConfigPages \cup {"index", "chooseconfig"}, pc' = "top",
           NEW q \in Pages \ (ConfigPages \cup {"configtime", "chooseconfig"}),
           shown' = (shown \ {at}) \cup {q},
           q \in Lone \cup {"history", "index"} => Rank[q] <= Rank[at] + 1,
           at \in ActingPages => q = "index" \/ shown = {at}
    PROVE  Order' /\ shown' \cap ConfigPages = {}
  <1>1. shown \subseteq Pages /\ shown # {}
    BY DEF Control
  <1>2. at \in shown
    BY <1>1, FirstIsShown
  <1>3. "chooseconfig" \notin shown
    BY <1>1, <1>2, NoneBefore DEF Order
  <1>4. (shown \ {at}) \cap Lone = {}
    BY DEF Order
  <1>5. q \in Lone \cup {"history", "index"} => First(shown') = q
    BY <1>1, OpenedFirst
  <1>6. \A c \in shown' \cap Lone : c = First(shown')
    BY <1>4, <1>5
  <1>7. "history" \in shown' => First(shown') \in ActingPages \cup {"index", "history"}
    BY <1>5, LoneIs DEF Order
  <1>8. "chooseconfig" \notin shown' /\ shown' \cap ConfigPages = {}
    BY <1>3, <1>4, LoneIs
  <1> QED BY <1>6, <1>7, <1>8 DEF Order

\* What a form's keys and buttons do to the pages.
LEMMA FormLeads ==
    ASSUME Control, at \in FormPages
    PROVE  /\ FormAt \in Forms /\ FormPage[FormAt] = at
           /\ ReturnPage[FormAt] \in {"chooseconfig", "calibrations"}
           /\ ConnectPage[FormAt] \in ConnectPages \cup {"configCalibrations"}
           /\ at \in ConfigPages => ConnectPage[FormAt] \in ConnectPages
           /\ StarHides[FormAt] \in {at, "configwifi"}
           /\ at \in ConfigPages \ {"confighttp"} => StarHides[FormAt] = at
           /\ at = "confighttp" => StarHides[FormAt] = "configwifi" /\ FormAt = "http"
           /\ {ReturnPage[FormAt], ConnectPage[FormAt], "chooseconfig"}
                \cap (Early \cup ConfigPages) = {}
  <1>1. FormAt \in Forms /\ FormPage[FormAt] = at
    BY FormAtForm DEF Control
  <1>2. FormAt \in {"wifi", "http", "mqtt", "PH", "SAL"}
    BY <1>1 DEF Forms, ConfigForms, CalForms
  <1> QED BY <1>1, <1>2
          DEF FormPage, ReturnPage, ConnectPage, ConnectPages, StarHides, Early, ConfigPages

\* '*' of the HTTP form hides another page and leaves it the first.
LEMMA StarHttp ==
    ASSUME Control, Order, at = "confighttp", at = First(shown),
           shown' = (shown \ {"configwifi"}) \cup {"chooseconfig"}
    PROVE  First(shown') = at /\ at \in shown'
  <1>1. shown \subseteq Pages /\ shown # {} /\ shown' \subseteq Pages
    BY PagesAre DEF Control
  <1>2. at \in shown /\ at \in shown' /\ \A q \in shown : Rank[at] <= Rank[q]
    BY <1>1, FirstIsLeast
  <1>3. Rank[at] <= Rank["chooseconfig"]
    BY RankIs
  <1> QED BY <1>1, <1>2, <1>3, FirstIs

LEMMA KeyOrder ==
    ASSUME Control, Turn, Order, Keys
    PROVE  Order'
  <1>1. pc = "key" /\ ~ keyed /\ at = First(shown) /\ at' = at
    BY DEF Turn, Keys, NoKey, MoveKey, TypeKey, HashKey, StarKey, Press
  <1>2. at \in FormPages
    BY <1>1 DEF Control
  <1>3. shown \cap Early = {} /\ shown \cap ConfigPages \subseteq {at}
    BY <1>1, <1>2 DEF Order
  <1>4. CASE UNCHANGED <<shown, show>>
    BY <1>1, <1>4, FewerOrder
  <1>5. CASE HashKey
    <2>1. CASE shown' = (shown \ {at}) \cup {ConnectPage[FormAt]}
      BY <1>2, <1>3, <2>1, FormLeads, LeftOrder
    <2> QED BY <1>2, <1>4, <1>5, <2>1, FormLeads DEF HashKey, Goto
  <1>6. CASE StarKey
    <2>1. CASE shown' = (shown \ {StarHides[FormAt]}) \cup {"chooseconfig"} /\ ~ show'
      <3>1. CASE at = "confighttp"
        <4>1. shown' = (shown \ {"configwifi"}) \cup {"chooseconfig"}
          BY <1>2, <2>1, <3>1, FormLeads
        <4>2. First(shown') = at /\ at \in shown'
          BY <1>1, <3>1, <4>1, StarHttp
        <4>3. shown' \cap Early = {} /\ shown' \cap ConfigPages \subseteq {at}
          BY <1>3, <4>1, LoneIs DEF Early, ConfigPages
        <4> QED BY <1>1, <2>1, <4>2, <4>3, LoneIs DEF Order
      <3>2. CASE at # "confighttp"
        <4>1. shown' \cap (Early \cup ConfigPages) = {}
          BY <1>2, <1>3, <2>1, <3>2, FormLeads, KindsOfPages
        <4> QED BY <4>1, LeftOrder
      <3> QED BY <3>1, <3>2
    <2> QED BY <1>4, <1>6, <2>1 DEF StarKey, Goto
  <1> QED BY <1>4, <1>5, <1>6 DEF Keys, NoKey, MoveKey, TypeKey, uiVars

LEMMA DrawOrder ==
    ASSUME Control, Turn, Order, Draws
    PROVE  Order'
  <1>1. pc = "draw" /\ at' = at /\ AfterDraw
    BY DEF Draws, DrawNothing, Draw, DrawMenu, DrawChooseConfig,
       DrawForm, DrawCalibration, Connect, SaveCalibrations, ConfigTime, PostServer
  <1>2. CASE shown' = shown /\ (show' => show)
    BY <1>1, <1>2, FewerOrder
  <1>3. CASE at \in ActingPages /\ (HandOver("index") \/ (at = "postServer" /\ HandOver("detailhistory")))
    <2>1. ~ keyed /\ at = First(shown) /\ pc' = "top"
      BY <1>1, <1>3, KindsOfPages DEF Turn, AfterDraw
    <2>2. at \notin ConfigPages \cup {"index", "chooseconfig"}
      BY <1>3, KindsOfPages
    <2>3. CASE HandOver("index")
      <3>1. Rank["index"] <= Rank[at] + 1
        BY RankIs, RankType DEF Control
      <3> QED BY <1>3, <2>1, <2>2, <2>3, <3>1, MovesOn, PagesAre, LoneIs, KindsOfPages
              DEF HandOver, Goto
    <2>4. CASE at = "postServer" /\ HandOver("detailhistory")
      <3>1. shown = {at}
        BY <2>1, <2>4, NoneBefore DEF Control
      <3>2. Rank["detailhistory"] <= Rank[at] + 1
        BY <2>4, RankIs
      <3>3. "detailhistory" \in Pages \ (ConfigPages \cup {"configtime", "chooseconfig"})
        BY PagesAre DEF ConfigPages
      <3> QED BY <1>3, <2>1, <2>2, <2>4, <3>1, <3>2, <3>3, MovesOn DEF HandOver, Goto
    <2> QED BY <1>3, <2>3, <2>4
  <1> QED BY <1>2, <1>3
          DEF Draws, DrawNothing, DrawMenu, DrawChooseConfig, DrawForm, DrawCalibration,
              Connect, SaveCalibrations, ConfigTime, PostServer, uiVars,
              ActingPages, ConnectPages, ConnectPage, ConfigForms

\* The page chosen on chooseconfig comes before all that stay marked.
LEMMA ChosenFirst ==
    ASSUME NEW S, S \subseteq Pages, S # {}, First(S) = "chooseconfig",
           NEW p \in ConfigPages \cup {"index", "configtime"}
    PROVE  First((S \ ({"chooseconfig"} \cup ConfigPages)) \cup {p}) = p
  <1>1. p \in Pages /\ Rank[p] <= Rank[First(S)] + 1
    BY PagesAre, RankIs DEF ConfigPages
  <1> QED BY <1>1, OpenedFirst

LEMMA FormPagesOf == \A f \in OpenForms \cap ConfigForms : FormPage[f] \in ConfigPages
  BY DEF ConfigForms, FormPage, ConfigPages

\* Where the buttons of the other pages lead.
Leads(p, q) ==
    \/ p = "calibrations" /\ q \in {"index", "detailCalibrations"}
    \/ p = "history" /\ q \in {"index", "detailhistory"}
    \/ p = "detailhistory" /\ q \in {"history", "detailpost"}
    \/ p = "detailpost" /\ q \in {"detailhistory", "postServer"}
    \/ p = "start" /\ q = "index"

LEMMA LeadsOn ==
    ASSUME NEW p, NEW q, Leads(p, q)
    PROVE  /\ p \notin FormPages \cup ConfigPages \cup ActingPages \cup {"index", "chooseconfig"}
           /\ q \in Pages \ (ConfigPages \cup {"configtime", "chooseconfig"})
           /\ q \in Lone \cup {"history", "index"} => Rank[q] <= Rank[p] + 1
  <1>1. p \notin FormPages \cup ConfigPages \cup ActingPages \cup {"index", "chooseconfig"}
    BY DEF Leads, FormPages, ConfigPages, ActingPages, ConnectPages
  <1>2. q \in Pages \ (ConfigPages \cup {"configtime", "chooseconfig"})
    BY PagesAre DEF Leads, ConfigPages
  <1>3. q \in Lone \cup {"history", "index"} => Rank[q] <= Rank[p] + 1
    BY RankIs DEF Leads, Lone, ConfigPages
  <1> QED BY <1>1, <1>2, <1>3

LEMMA TouchOrder ==
    ASSUME Control, Turn, Order, Touches
    PROVE  Order'
  <1>1. pc = "touch" /\ pc' = "top" /\ at' = at
    BY DEF Touches, NoTouch, Touch, TouchIndex, TouchChooseConfig, TouchForm,
           TouchCalibrations, TouchHistory, TouchStart, Button
  <1>2. at \notin FormPages => ~ keyed /\ at = First(shown)
    BY <1>1 DEF Turn
  <1>3. shown \subseteq Pages /\ shown # {}
    BY DEF Control
  <1>4. CASE NoTouch
    BY <1>1, <1>4, FewerOrder DEF NoTouch, uiVars
  <1>5. CASE TouchIndex
    <2>1. at = "index" /\ at \in shown /\ at = First(shown) /\ show' = show
      BY <1>1, <1>2, <1>5, LoneIs DEF TouchIndex, Touch, Control
    <2>2. shown \cap Lone = {} /\ "chooseconfig" \notin shown
      BY <2>1, LoneIs DEF Order
    <2>3. CASE shown' = shown \ IndexHides("none") /\ UNCHANGED <<status, screen>>
      <3>1. at \in shown' /\ shown' \subseteq shown
        BY <2>1, <2>3 DEF IndexHides
      <3> QED BY <1>1, <2>1, <3>1, TouchBeside, FewerOrder
    <2>4. CASE \E p \in IndexTargets : Goto({"index"} \cup IndexHides(p), {p})
      <3>1. PICK p \in IndexTargets : Goto({"index"} \cup IndexHides(p), {p})
        BY <2>4
      <3>2. p \in {"chooseconfig", "history", "start", "calibrations"}
        BY DEF IndexTargets
      <3>3. shown' = (shown \ ({"index"} \cup IndexHides(p))) \cup {p}
        BY <3>1 DEF Goto
      <3>4. shown' \cap Lone = {} /\ "index" \notin shown'
        BY <2>2, <3>2, <3>3 DEF Lone, ConfigPages
      <3>5. "chooseconfig" \in shown' => p = "chooseconfig"
        BY <2>2, <3>3
      <3>6. "history" \in shown' => p = "history"
        BY <3>2, <3>3 DEF IndexHides
      <3>7. "history" \in shown' => First(shown') \in ActingPages \cup {"index", "history"}
        <4>1. shown' \subseteq Pages
          BY <1>3, <3>2, <3>3, PagesAre
        <4>2. shown' # {} => First(shown') \in shown'
          BY <4>1, FirstIsShown
        <4> QED BY <3>4, <3>5, <3>6, <4>1, <4>2, NoneBefore, LoneIs
      <3> QED BY <1>1, <3>4, <3>7, LoneIs DEF Order
    <2> QED BY <1>5, <2>3, <2>4 DEF TouchIndex
  <1>6. CASE TouchChooseConfig
    <2>1. at = "chooseconfig" /\ at \in shown /\ at = First(shown)
      BY <1>1, <1>2, <1>6, LoneIs DEF TouchChooseConfig, Touch, Control
    <2>2. shown \cap Lone = {} /\ "history" \notin shown
      BY <2>1, LoneIs DEF Order
    <2>3. CASE shown' = shown \ ConfigPages /\ UNCHANGED <<status, screen, show>>
      <3>1. at \in shown' /\ shown' \subseteq shown
        BY <2>1, <2>3, KindsOfPages, LoneIs
      <3> QED BY <1>1, <2>1, <2>3, <3>1, TouchBeside, FewerOrder
    <2>4. CASE \E p \in ConfigPages \cup {"index", "configtime"} :
                 Goto({"chooseconfig"} \cup ConfigPages, {p})
      <3>1. PICK p \in ConfigPages \cup {"index", "configtime"} :
               shown' = (shown \ ({"chooseconfig"} \cup ConfigPages)) \cup {p}
        BY <2>4 DEF Goto
      <3>2. First(shown') = p
        BY <1>3, <2>1, <3>1, ChosenFirst
      <3>3. p \notin {"history", "chooseconfig"}
        BY LoneIs DEF ConfigPages
      <3> QED BY <1>1, <2>2, <3>1, <3>2, <3>3 DEF Order
    <2> QED BY <1>6, <2>3, <2>4, FormPagesOf DEF TouchChooseConfig
  <1>7. CASE TouchForm
    <2>1. at \in FormPages
      BY <1>7 DEF TouchForm
    <2>2. shown' \subseteq (shown \ {at}) \cup {ReturnPage[FormAt], ConnectPage[FormAt]}
      BY <1>7, <2>1, FormLeads DEF TouchForm, Goto
    <2>3. shown' \cap (Early \cup ConfigPages) = {}
      BY <1>1, <2>1, <2>2, FormLeads DEF Order
    <2> QED BY <2>3, LeftOrder
  <1>8. CASE TouchCalibrations \/ TouchHistory \/ TouchStart
    <2>1. PICK q \in Pages :
             /\ shown' = (shown \ {at}) \cup {q} /\ Leads(at, q)
      <3>1. at \in Pages
        BY DEF Control
      <3> QED BY <1>8, PagesAre
              DEF TouchCalibrations, TouchHistory, TouchStart, Button, Touch, Goto, Leads
    <2> QED BY <1>1, <1>2, <2>1, LeadsOn, MovesOn
  <1> QED BY <1>4, <1>5, <1>6, <1>7, <1>8 DEF Touches

LEMMA DispatchOrder ==
    ASSUME Control, Order, Dispatch
    PROVE  Order'
  <1>1. at' = First(shown) /\ UNCHANGED <<shown, show>>
    BY DEF Dispatch, uiVars
  <1>2. "index" \in shown => First(shown) = "index"
    BY NoneBefore DEF Control
  <1>3. at' \in FormPages => shown \cap Early = {} /\ shown \cap ConfigPages \subseteq {at'}
    BY <1>1, <1>2, LoneIs, KindsOfPages DEF Order, Early
  <1> QED BY <1>1, <1>3 DEF Order

LEMMA NextOrder ==
    ASSUME Control, Turn, Order, [Next]_vars
    PROVE  Order'
  <1>1. CASE PowerCycle
    BY <1>1, FirstOfIndex, LoneIs, KindsOfPages DEF PowerCycle, Order
  <1>2. CASE UNCHANGED vars
    BY <1>2 DEF vars, Order
  <1> QED BY <1>1, <1>2, KeyOrder, DrawOrder, TouchOrder, DispatchOrder DEF Next, Loop

LEMMA OrderHolds == Spec => [](Control /\ Turn /\ Order)
  <1>1. Init => Order
    BY FirstOfIndex, LoneIs, KindsOfPages DEF Init, Order
  <1>2. Control /\ Turn /\ Order /\ [Next]_vars => Order'
    BY NextOrder
  <1> QED BY <1>1, <1>2, TurnHolds, PTL DEF Spec

------------------------------------------------------------------------------
(* What is on the screen while the first page has no redraw pending, and    *)
(* while it has one, for every choice of forms: the first page itself, or a *)
(* blank where a form is still to be drawn or was left by the '*' of the    *)
(* HTTP page.                                                               *)

\* A form on a blank screen: still to be drawn, or the HTTP one.
Undrawn(p) == screen = "blank" /\ p \in ConfigPages /\ (show \/ p = "confighttp")

InFront ==
    /\ ~ status => \/ screen = First(shown) \/ Undrawn(First(shown))
                   \/ First(shown) \in ActingPages
    /\ status /\ First(shown) \in ConfigPages => Undrawn(First(shown))
    /\ pc = "touch" => at \notin ActingPages
    /\ pc = "touch" /\ ~ keyed /\ status => at \in ConfigPages
    /\ pc = "key" /\ at = "detailCalibrations" => ~ status
    /\ pc = "draw" /\ keyed /\ status /\ show => First(shown) \in ActingPages

\* Handing over to a page that is not a configuration form.
LEMMA HandsOver ==
    ASSUME Control', status', shown' \cap ConfigPages = {}, pc' = "top"
    PROVE  InFront'
  <1>1. First(shown') \in shown'
    BY FirstIsShown DEF Control
  <1> QED BY <1>1 DEF InFront

LEMMA KeyFront ==
    ASSUME Control, Control', Turn, Order, InFront, Keys
    PROVE  InFront'
  <1>1. pc = "key" /\ ~ keyed /\ at = First(shown) /\ at' = at
    BY DEF Turn, Keys, NoKey, MoveKey, TypeKey, HashKey, StarKey, Press
  <1>2. at \in FormPages /\ at \notin ActingPages /\ at \in Pages
    BY <1>1, KindsOfPages DEF Control
  <1>3. shown \cap Early = {} /\ shown \cap ConfigPages \subseteq {at}
    BY <1>1, <1>2 DEF Order
  <1>4. /\ pc' \in {"draw", "touch"} /\ (pc' = "draw" => at \in ConfigPages)
        /\ at = "detailCalibrations" \/ at \in ConfigPages
    BY <1>2 DEF Keys, NoKey, MoveKey, TypeKey, HashKey, StarKey, Press, AfterKey, FormPages
  <1>5. First(shown') \in shown' /\ shown' \subseteq Pages /\ shown' # {}
    BY FirstIsShown DEF Control
  <1>6. CASE NoKey
    <2>1. UNCHANGED <<shown, status, screen, show>> /\ ~ keyed'
      BY <1>1, <1>6 DEF NoKey, uiVars
    <2>2. pc' = "touch" => at \in ConfigPages \/ ~ status
      BY <1>1, <1>4 DEF InFront
    <2> QED BY <1>1, <1>2, <1>4, <2>1, <2>2 DEF InFront, Undrawn
  <1>7. CASE keyed' /\ UNCHANGED <<shown, screen, show>> /\ ~ status'
    <2>1. screen = at \/ Undrawn(at)
      BY <1>1, <1>2, <1>4 DEF InFront
    <2> QED BY <1>1, <1>2, <1>4, <1>7, <2>1 DEF InFront, Undrawn
  <1>8. CASE HashKey
    <2>1. CASE status' /\ show' = show /\ shown' = (shown \ {at}) \cup {ConnectPage[FormAt]}
      <3>1. shown' \cap (Early \cup ConfigPages) = {}
        BY <1>2, <1>3, <2>1, FormLeads
      <3>2. ASSUME pc' = "draw", show' PROVE First(shown') \in ActingPages
        <4>1. at \in ConfigPages /\ at \in shown
          BY <1>1, <1>4, <3>2, FirstIsShown DEF Control
        <4>2. "chooseconfig" \notin shown
          BY <2>1, <3>2, <4>1 DEF Order
        <4>3. ConnectPage[FormAt] \in shown' \cap {"connectwifi", "connecthttp", "connectmqtt"}
          BY <1>2, <2>1, <4>1, FormLeads DEF ConnectPages
        <4>4. "chooseconfig" \notin shown'
          BY <1>2, <2>1, <4>2, <4>3
        <4> QED BY <1>5, <3>1, <4>3, <4>4, NoneBefore DEF Early
      <3> QED BY <1>1, <1>2, <1>4, <1>5, <1>8, <2>1, <3>1, <3>2 DEF InFront, HashKey, Press
    <2> QED BY <1>2, <1>7, <1>8, <2>1, FormLeads DEF HashKey, Goto, Press
  <1>9. CASE StarKey
    <2>1. CASE /\ status' /\ ~ show' /\ keyed'
               /\ shown' = (shown \ {StarHides[FormAt]}) \cup {"chooseconfig"}
               /\ screen' = IF FormAt \in {"wifi", "mqtt"} THEN screen ELSE "blank"
      <3>1. First(shown') \in ConfigPages => Undrawn(First(shown))'
        <4>1. CASE at = "confighttp"
          <5>1. FormAt = "http" /\ shown' = (shown \ {"configwifi"}) \cup {"chooseconfig"}
            BY <1>2, <2>1, <4>1, FormLeads
          <5>2. First(shown') = "confighttp"
            BY <1>1, <4>1, <5>1, StarHttp
          <5> QED BY <2>1, <5>1, <5>2, LoneIs DEF Undrawn
        <4>2. CASE at # "confighttp"
          <5>1. shown' \cap ConfigPages = {}
            BY <1>2, <1>3, <2>1, <4>2, FormLeads, KindsOfPages
          <5> QED BY <1>5, <5>1
        <4> QED BY <4>1, <4>2
      <3> QED BY <1>1, <1>2, <1>4, <2>1, <3>1 DEF InFront, Undrawn
    <2> QED BY <1>7, <1>9, <2>1 DEF StarKey, Goto, Press
  <1>10. CASE MoveKey \/ TypeKey
    BY <1>7, <1>10 DEF MoveKey, TypeKey, Press
  <1> QED BY <1>6, <1>8, <1>9, <1>10 DEF Keys

LEMMA DrawFront ==
    ASSUME Control, Control', Turn, Order, InFront, Draws
    PROVE  InFront'
  <1>1. pc = "draw" /\ at' = at /\ keyed' = keyed /\ AfterDraw
    BY DEF Draws, DrawNothing, Draw, DrawMenu, DrawChooseConfig,
       DrawForm, DrawCalibration, Connect, SaveCalibrations, ConfigTime, PostServer
  <1>2. (keyed => at \in ConfigPages) /\ (~ keyed => at = First(shown))
    BY <1>1 DEF Turn
  <1>3. pc' = IF at = "detailCalibrations" THEN "key"
              ELSE IF at \in ActingPages THEN "top" ELSE "touch"
    BY <1>1 DEF AfterDraw
  <1>4. CASE DrawNothing
    <2>1. UNCHANGED <<shown, status, screen, show>>
      BY <1>4 DEF DrawNothing, uiVars
    <2>2. status => at \in ConfigPages
      BY <1>4 DEF DrawNothing
    <2> QED BY <1>1, <1>3, <2>1, <2>2, KindsOfPages DEF InFront, Undrawn
  <1>5. CASE DrawMenu \/ DrawChooseConfig \/ DrawForm \/ DrawCalibration
    <2>1. shown' = shown /\ ~ status' /\ screen' = at
      BY <1>5 DEF DrawMenu, DrawChooseConfig, DrawForm, DrawCalibration
    <2>2. keyed => status /\ show
      BY <1>2, <1>5, KindsOfPages
         DEF Draw, DrawMenu, DrawChooseConfig, DrawForm, DrawCalibration
    <2>3. screen' = First(shown') \/ First(shown') \in ActingPages
      BY <1>1, <1>2, <2>1, <2>2 DEF InFront
    <2> QED BY <1>1, <1>3, <2>1, <2>3 DEF InFront
  <1>6. CASE \E q \in {"index", "detailhistory"} : at \in ActingPages /\ HandOver(q)
    <2>1. PICK q \in {"index", "detailhistory"} : at \in ActingPages /\ HandOver(q)
      BY <1>6
    <2>2. at \notin FormPages /\ at = First(shown) /\ q \notin ConfigPages
      BY <1>2, <2>1, KindsOfPages DEF ConfigPages
    <2>3. shown \cap ConfigPages = {}
      BY <2>2, LoneIs, KindsOfPages DEF Order
    <2>4. status' /\ shown' \cap ConfigPages = {}
      BY <2>1, <2>2, <2>3 DEF HandOver, Goto
    <2> QED BY <1>3, <2>1, <2>2, <2>4, HandsOver, KindsOfPages
  <1> QED BY <1>4, <1>5, <1>6
          DEF Draws, Connect, SaveCalibrations, ConfigTime, PostServer,
              ActingPages, ConnectPages, ConnectPage, ConfigForms

LEMMA TouchFront ==
    ASSUME Control, Control', Turn, Order, InFront, Touches
    PROVE  InFront'
  <1>1. pc = "touch" /\ pc' = "top" /\ at' = at
    BY DEF Touches, NoTouch, Touch, TouchIndex, TouchChooseConfig, TouchForm,
           TouchCalibrations, TouchHistory, TouchStart, Button
  <1>2. at \notin FormPages => ~ keyed /\ at = First(shown)
    BY <1>1 DEF Turn
  <1>3. at \notin FormPages => shown \cap ConfigPages = {}
    BY <1>2, LoneIs, KindsOfPages DEF Order
  <1>4. CASE UNCHANGED <<status, screen, show>> /\ First(shown') = First(shown)
    BY <1>1, <1>4 DEF InFront, Undrawn
  <1>5. CASE status' /\ shown' \cap ConfigPages = {}
    BY <1>1, <1>5, HandsOver
  <1>6. CASE NoTouch
    BY <1>4, <1>6 DEF NoTouch, uiVars
  <1>7. CASE TouchIndex
    <2>1. at = "index" /\ at \notin FormPages /\ show' = show
      BY <1>7, LoneIs DEF TouchIndex, Touch
    <2>2. CASE shown' = shown \ IndexHides("none") /\ UNCHANGED <<status, screen>>
      <3>1. at \in shown' /\ shown' \subseteq shown
        BY <1>1, <2>1, <2>2 DEF Control, IndexHides
      <3> QED BY <1>1, <1>4, <2>1, <2>2, <3>1, TouchBeside
    <2>3. CASE \E p \in IndexTargets : Goto({"index"} \cup IndexHides(p), {p})
      <3>1. status' /\ shown' \subseteq shown \cup IndexTargets
        BY <2>3 DEF Goto
      <3>2. IndexTargets \cap ConfigPages = {}
        BY DEF IndexTargets, ConfigPages
      <3> QED BY <1>3, <1>5, <2>1, <3>1, <3>2
    <2> QED BY <1>7, <2>2, <2>3 DEF TouchIndex
  <1>8. CASE TouchChooseConfig
    <2>1. at = "chooseconfig" /\ at \notin FormPages /\ at = First(shown)
      BY <1>2, <1>8, LoneIs DEF TouchChooseConfig, Touch
    <2>2. CASE shown' = shown \ ConfigPages /\ UNCHANGED <<status, screen, show>>
      <3>1. at \in shown' /\ shown' \subseteq shown
        BY <1>1, <2>1, <2>2, LoneIs, KindsOfPages DEF Control
      <3> QED BY <1>1, <1>4, <2>1, <2>2, <3>1, TouchBeside
    <2>3. CASE \E p \in {"index", "configtime"} :
                 Goto({"chooseconfig"} \cup ConfigPages, {p})
      <3>1. status' /\ shown' \cap ConfigPages = {}
        BY <2>3, LoneIs DEF Goto, ConfigPages
      <3> QED BY <1>5, <3>1
    <2>4. CASE \E f \in OpenForms \cap ConfigForms :
                 /\ Goto({"chooseconfig"} \cup ConfigPages, {FormPage[f]})
                 /\ show' = TRUE /\ screen' = "blank"
      <3>1. PICK p \in ConfigPages :
               Goto({"chooseconfig"} \cup ConfigPages, {p}) /\ show' /\ screen' = "blank"
        BY <2>4, FormPagesOf
      <3>2. First(shown') = p
        BY <2>1, <3>1, ChosenFirst DEF Control, Goto
      <3> QED BY <1>1, <3>1, <3>2 DEF InFront, Undrawn, Goto
    <2> QED BY <1>8, <2>2, <2>3, <2>4 DEF TouchChooseConfig
  <1>9. CASE TouchForm
    <2>1. at \in FormPages
      BY <1>9 DEF TouchForm
    <2>2. status' /\ shown' \subseteq (shown \ {at}) \cup {ReturnPage[FormAt], ConnectPage[FormAt]}
      BY <1>9, <2>1, FormLeads DEF TouchForm, Goto
    <2>3. shown' \cap ConfigPages = {}
      BY <1>1, <2>1, <2>2, FormLeads DEF Order
    <2> QED BY <1>5, <2>2, <2>3
  <1>10. CASE TouchCalibrations \/ TouchHistory \/ TouchStart
    <2>1. PICK q \in Pages : shown' = (shown \ {at}) \cup {q} /\ Leads(at, q) /\ status'
      BY <1>10, PagesAre
         DEF TouchCalibrations, TouchHistory, TouchStart, Button, Touch, Goto, Leads
    <2>2. at \notin FormPages /\ q \notin ConfigPages
      BY <2>1, LeadsOn
    <2> QED BY <1>3, <1>5, <2>1, <2>2
  <1> QED BY <1>6, <1>7, <1>8, <1>9, <1>10 DEF Touches

LEMMA NextFront ==
    ASSUME Control, Control', Turn, Order, InFront, [Next]_vars
    PROVE  InFront'
  <1>1. CASE Dispatch
    <2>1. at' = First(shown) /\ ~ keyed' /\ UNCHANGED <<shown, status, screen, show>>
      BY <1>1 DEF Dispatch, uiVars
    <2>2. pc' \in {"key", "draw"} /\ (pc' = "key" => at' \in ConfigPages)
      BY <1>1 DEF Dispatch
    <2> QED BY <2>1, <2>2, KindsOfPages DEF InFront, Undrawn
  <1>2. CASE PowerCycle
    BY <1>2, FirstOfIndex, KindsOfPages DEF PowerCycle, InFront
  <1>3. CASE UNCHANGED vars
    BY <1>3 DEF vars, InFront, Undrawn
  <1> QED BY <1>1, <1>2, <1>3, KeyFront, DrawFront, TouchFront DEF Next, Loop

\* A touch (in a pass that has not handled a key) is never interpreted by one
\* page while another is on the screen, for every choice of forms and also with
\* keys before a form is drawn: a form may at most get it on a blank screen.
THEOREM BoardTouchSeesItsPage == Spec => []TouchSeesItsPage
  <1>1. Init => InFront
    BY FirstOfIndex, KindsOfPages DEF Init, InFront
  <1>2. Control /\ Control' /\ Turn /\ Order /\ InFront /\ [Next]_vars => InFront'
    BY NextFront
  <1>3. Turn /\ InFront => TouchSeesItsPage
    BY DEF Turn, InFront, Undrawn, TouchSeesItsPage
  <1> QED BY <1>1, <1>2, <1>3, OrderHolds, PTL DEF Spec

------------------------------------------------------------------------------
(* The pages, for every set of texts and every choice of forms, do nothing  *)
(* with the texts but what Storage allows, saving in one step.              *)

Card == INSTANCE Storage WITH Texts <- Values, saving <- {}

LEMMA StepKeepsTexts ==
    ASSUME IInv, [Next]_vars
    PROVE  [Card!Next]_Card!vars
  <1> USE DEF Card!vars
  <1>0. Card!Forms = Forms
    BY DEF Card!Forms, Forms
  <1>1. CASE UNCHANGED <<edit, temp, saved>>
    BY <1>1
  <1>2. CASE TypeKey
    <2>1. FormAt \in Forms
      BY <1>2, FormAtForm DEF TypeKey, Press, IInv, Control
    <2>2. Card!Edit
      BY <1>0, <1>2, <2>1 DEF TypeKey, Card!Edit
    <2> QED BY <2>2 DEF Card!Next
  <1>3. CASE DrawChooseConfig \/ DrawForm
    <2>1. UNCHANGED <<temp, saved>> /\ (edit' = Restored \/ edit' = edit)
      BY <1>3 DEF DrawChooseConfig, DrawForm
    <2>2. edit' = Restored => Card!Restore
      BY <1>0, <2>1 DEF Restored, Card!Restore
    <2> QED BY <1>1, <2>1, <2>2 DEF Card!Next
  <1>4. ASSUME NEW f \in ConfigForms, Connect(f)
        PROVE  Card!SaveConfig
    <2>1. /\ edit' = edit /\ temp' = [temp EXCEPT ![f] = edit[f]]
          /\ saved' = [g \in Forms |-> IF g \in ConfigForms THEN edit[g] ELSE saved[g]]
      BY <1>4 DEF Connect
    <2> QED BY <1>0, <2>1 DEF Card!SaveConfig, Card!Save, Card!Written
  <1>5. CASE SaveCalibrations
    <2>1. /\ edit' = edit /\ temp' = temp
          /\ saved' = [g \in Forms |-> IF g \in CalForms THEN edit[g] ELSE saved[g]]
      BY <1>5 DEF SaveCalibrations
    <2>2. Card!SaveCalibrations
      BY <1>0, <2>1 DEF Card!SaveCalibrations, Card!Save, Card!Written
    <2> QED BY <2>2 DEF Card!Next
  <1>6. CASE PowerCycle
    <2>1. Card!PowerCycle
      BY <1>6 DEF PowerCycle, InUse, Card!PowerCycle
    <2> QED BY <2>1 DEF Card!Next
  <1>7. CASE Touches
    BY <1>1, <1>7 DEF Touches, NoTouch, Touch, TouchIndex, TouchChooseConfig, TouchForm,
                TouchCalibrations, TouchHistory, TouchStart, Button, dataVars
  <1>8. CASE NoKey \/ MoveKey \/ HashKey \/ StarKey \/ DrawNothing \/ DrawMenu
               \/ DrawCalibration \/ ConfigTime \/ PostServer \/ Dispatch \/ UNCHANGED vars
    BY <1>1, <1>8 DEF NoKey, MoveKey, HashKey, StarKey, DrawNothing, DrawMenu,
                DrawCalibration, ConfigTime, PostServer, Dispatch, vars, dataVars
  <1> QED BY <1>2, <1>3, <1>4, <1>5, <1>6, <1>7, <1>8 DEF Next, Loop, Keys, Draws, Card!Next

\* Whatever the pages do in whatever order, with any inputs and any forms left
\* half way, the texts are only typed, restored to those in use, saved a whole
\* file at a time, and found again as they are on the card at a start.
THEOREM BoardImplementsStorage == Spec => Card!Spec
  <1>1. Init => Card!Init
    <2> SUFFICES ASSUME Init PROVE Card!Init
      OBVIOUS
    <2>1. saved \in [Forms -> Values] /\ edit = saved
            /\ temp = [x \in ConfigForms |-> saved[x]]
      BY DEF Init, InUse
    <2>2. Card!Forms = Forms
      BY DEF Card!Forms, Forms
    <2> QED BY <2>1, <2>2 DEF Card!Init
  <1>2. IInv /\ [Next]_vars => [Card!Next]_Card!vars
    BY StepKeepsTexts
  <1> QED BY <1>1, <1>2, SpecIInv, PTL DEF Spec, Card!Spec
==============================================================================
