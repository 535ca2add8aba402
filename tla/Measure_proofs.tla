---------------------------- MODULE Measure_proofs ---------------------------
(****************************************************************************)
(* What is saved is what the screen shows, salinity uses its calibration,   *)
(* no request outlives the visit, and an armed siren is answered: for any   *)
(* voltages and calibrations.                                               *)
(****************************************************************************)
EXTENDS Measure, TLAPS

\* A pass posts before it saves and saves before it looks at the buttons.
Answered ==
    /\ pc \in {"save", "touch", "away"} => ~startPost
    /\ pc \in {"touch", "away"} => ~startSave

\* The three traces of a measurement agree.
Named == measured => shortName = shown /\ valueMeasuring.by = shown

\* The button drawn as chosen is in force once one was touched.
InForce == chosen => sensorMeasuring = highlight

IInv == TypeOK /\ Answered /\ Named /\ InForce /\ SalinityCalibrated /\ ShowsChosen

\* What checkSensor identifies is a name of the table.
LEMMA IdentifiedName == \A v : Identified(v) \in Sensors \cup {None}
BY DEF Identified, Sensors

\* Each button stands for a voltage of its own sensor.
LEMMA ButtonIdentified == \A s \in Sensors : sensorMeasuring = s => Identified(VoltageID) = s
BY DEF Identified, VoltageID, Sensors

\* Configuring gives an object one of the calibrations.
LEMMA ConfiguredType ==
  TypeOK => \A s \in Names : Configured(s) \in [Calibrated -> Cals \cup {Default}]
BY DEF TypeOK, Configured, Calibrated

\* What a sensor computes is a value with one of the calibrations.
LEMMA ComputedType == TypeOK => \A s \in Sensors \cup {None} : Computed(s) \in Value
<1> SUFFICES ASSUME TypeOK, NEW s \in Sensors \cup {None} PROVE Computed(s) \in Value
  OBVIOUS
<1>1. Configured(s) \in [Calibrated -> Cals \cup {Default}]
  BY ConfiguredType DEF Names
<1>2. s \in Calibrated => Configured(s)[s] \in Cals \cup {Default}
  BY <1>1
<1> QED BY <1>2 DEF Computed, Value

\* The value drawn first is a value, and streams are small numbers.
LEMMA ZeroType == Zero \in Value /\ \A s \in Names : Stream(s) \in 0..3
BY DEF Zero, Value, Names, Sensors, None, Stream

\* When the device is switched on nothing was measured and nothing asked for.
LEMMA InitIInv == Init => IInv
<1> SUFFICES ASSUME Init PROVE IInv
  OBVIOUS
<1>0. FlagsOK
  BY DEF Init, FlagsOK
<1>1. NoRecord \in [sensor : Names, value : Value, stream : 0..3]
  <2>1. Unnamed \in Names /\ 0 \in 0..3 /\ Zero \in Value
    BY ZeroType DEF Names
  <2> HIDE DEF Names, Zero, Value
  <2> QED BY <2>1 DEF NoRecord
<1>2. config \in [Calibrated -> Cals \cup {Default}]
  BY DEF Init
<1>3. TypeOK
  BY <1>0, <1>1, <1>2, ZeroType DEF Init, TypeOK, Names, Sensors
<1> QED
  BY <1>3 DEF Init, IInv, Answered, Named, InForce, SalinityCalibrated, UsesCalibration,
             ShowsChosen

\* A measurement replaces name, value and screen together.
LEMMA MeasureIInv == IInv /\ Measure => IInv'
<1> SUFFICES ASSUME IInv, Measure PROVE IInv'
  OBVIOUS
<1> DEFINE s == Identified(VoltageID)
<1>0. TypeOK
  BY DEF IInv
<1>1. s \in Sensors \cup {None}
  BY IdentifiedName
<1>2. CASE running
  <2>1. /\ shortName' = s /\ shown' = s /\ measured' = TRUE
        /\ config' = Configured(s) /\ valueMeasuring' = Computed(s)
        /\ sirens' = (VoltageID >= 480)
    BY <1>2 DEF Measure, Sirens
  <2>2. FlagsOK'
    BY <1>0, <2>1 DEF Measure, TypeOK, FlagsOK, button
  <2>3. Configured(s) \in [Calibrated -> Cals \cup {Default}] /\ Computed(s) \in Value
    BY <1>0, <1>1, ConfiguredType, ComputedType DEF Names
  <2>4. TypeOK'
    BY <1>0, <1>1, <2>1, <2>2, <2>3 DEF Measure, TypeOK, button, Names
  <2>5. Computed(s).by = s
    BY DEF Computed
  <2>6. s = "SAL" => Computed(s).cal = calibration["SAL"]
    BY <1>0 DEF Computed, Configured, TypeOK, Calibrated
  <2>7. chosen => s = highlight
    BY <1>0, ButtonIdentified DEF IInv, InForce, TypeOK
  <2>8. (Answered /\ Named /\ InForce /\ SalinityCalibrated /\ ShowsChosen)'
    BY <2>1, <2>5, <2>6, <2>7 DEF Measure, IInv, Answered, Named, InForce,
       SalinityCalibrated, UsesCalibration, ShowsChosen, button
  <2> QED BY <2>4, <2>8 DEF IInv
<1>3. CASE ~running
  <2>0. FlagsOK'
    BY <1>0, <1>3 DEF Measure, TypeOK, FlagsOK, button
  <2>1. TypeOK'
    BY <1>0, <1>3, <2>0 DEF Measure, TypeOK, button
  <2>2. (Answered /\ Named /\ InForce /\ SalinityCalibrated /\ ShowsChosen)'
    BY <1>3 DEF Measure, IInv, Answered, Named, InForce,
       SalinityCalibrated, UsesCalibration, ShowsChosen, button
  <2> QED BY <2>1, <2>2 DEF IInv
<1> QED BY <1>2, <1>3

\* No step of the world, of the page or of its user breaks the invariant.
LEMMA NextIInv == IInv /\ [Next]_vars => IInv'
<1> SUFFICES ASSUME IInv, [Next]_vars PROVE IInv'
  OBVIOUS
<1> USE DEF IInv
<1>0. TypeOK
  OBVIOUS
<1>1. CASE Plug
  <2>0. FlagsOK'
    BY <1>0, <1>1 DEF Plug, TypeOK, FlagsOK, button
  <2>1. TypeOK'
    BY <1>0, <1>1, <2>0 DEF Plug, TypeOK, button
  <2> QED BY <1>1, <2>1 DEF Plug, Answered, Named, InForce, SalinityCalibrated,
             UsesCalibration, ShowsChosen, button
<1>2. CASE Calibrate
  <2>0. FlagsOK'
    BY <1>0, <1>2 DEF Calibrate, TypeOK, FlagsOK, button
  <2>1. TypeOK'
    BY <1>0, <1>2, <2>0 DEF Calibrate, TypeOK, button
  <2> QED BY <1>2, <2>1 DEF Calibrate, Answered, Named, InForce, SalinityCalibrated,
             UsesCalibration, ShowsChosen, button
<1>3. CASE Open
  <2>0. FlagsOK'
    BY <1>0, <1>3 DEF Open, TypeOK, FlagsOK
  <2>1. TypeOK'
    BY <1>0, <1>3, <2>0, ZeroType DEF Open, TypeOK, Names, Sensors
  <2> QED BY <1>3, <2>1 DEF Open, Answered, Named, InForce, SalinityCalibrated,
             UsesCalibration, ShowsChosen, Zero, None
<1>4. CASE Measure
  BY <1>4, MeasureIInv
<1>5. CASE Post
  <2>0. FlagsOK'
    BY <1>0, <1>5 DEF Post, TypeOK, FlagsOK, sensor
  <2>1. record' \in [sensor : Names, value : Value, stream : 0..3]
    BY <1>0, <1>5, ZeroType DEF Post, TypeOK
  <2>2. TypeOK'
    BY <1>0, <1>5, <2>0, <2>1 DEF Post, TypeOK, sensor
  <2> QED BY <1>5, <2>2 DEF Post, Answered, Named, InForce, SalinityCalibrated,
             UsesCalibration, ShowsChosen, sensor
<1>6. CASE Save
  <2>0. FlagsOK'
    BY <1>0, <1>6 DEF Save, TypeOK, FlagsOK, sensor
  <2>1. record' \in [sensor : Names, value : Value, stream : 0..3]
    BY <1>0, <1>6, ZeroType DEF Save, TypeOK
  <2>2. TypeOK'
    BY <1>0, <1>6, <2>0, <2>1 DEF Save, TypeOK, sensor
  <2> QED BY <1>6, <2>2 DEF Save, Answered, Named, InForce, SalinityCalibrated,
             UsesCalibration, ShowsChosen, sensor
<1>7. CASE Touch
  <2> USE DEF Touch, TouchNothing, TouchReturn, TouchSensor, TouchPost, TouchSave,
              TouchStart, TouchStop
  <2>0. FlagsOK'
    BY <1>0, <1>7 DEF TypeOK, FlagsOK, sensor, button
  <2>1. TypeOK'
    BY <1>0, <1>7, <2>0 DEF TypeOK, sensor, button, Sensors
  <2>2. Answered' /\ Named'
    BY <1>7 DEF Answered, Named, sensor, button
  <2>3. InForce' /\ SalinityCalibrated' /\ ShowsChosen'
    BY <1>7 DEF InForce, SalinityCalibrated, UsesCalibration, ShowsChosen, sensor, button
  <2> QED BY <2>1, <2>2, <2>3
<1>8. CASE UNCHANGED vars
  <2>0. FlagsOK'
    BY <1>0, <1>8 DEF TypeOK, FlagsOK, vars, sensor, button
  <2>1. TypeOK'
    BY <1>0, <1>8, <2>0 DEF TypeOK, vars, sensor, button
  <2> QED BY <1>8, <2>1 DEF Answered, Named, InForce, SalinityCalibrated,
             UsesCalibration, ShowsChosen, vars, sensor, button
<1> QED BY <1>1, <1>2, <1>3, <1>4, <1>5, <1>6, <1>7, <1>8 DEF Next, Pass

\* The invariant holds at every moment.
LEMMA MeasureIInvHolds == Spec => []IInv
BY InitIInv, NextIInv, PTL DEF Spec

\* Type correctness of the measuring page.
THEOREM MeasureTypeOK == Spec => []TypeOK
<1>1. IInv => TypeOK
  BY DEF IInv
<1> QED BY <1>1, MeasureIInvHolds, PTL

\* Post and save are answered before the page can be left.
THEOREM MeasureAnsweredOnVisit == Spec => []AnsweredOnVisit
<1>1. IInv => AnsweredOnVisit
  BY DEF IInv, Answered, AnsweredOnVisit
<1> QED BY <1>1, MeasureIInvHolds, PTL

\* A salinity on the screen was computed with the calibration in memory.
THEOREM MeasureSalinityCalibrated == Spec => []SalinityCalibrated
<1>1. IInv => SalinityCalibrated
  BY DEF IInv
<1> QED BY <1>1, MeasureIInvHolds, PTL

\* The sensor measured is the one whose button is drawn as chosen.
THEOREM MeasureShowsChosen == Spec => []ShowsChosen
<1>1. IInv => ShowsChosen
  BY DEF IInv
<1> QED BY <1>1, MeasureIInvHolds, PTL

\* Records carry the name, the formula and the stream of the sensor on the
\* screen once something was measured on the visit.
THEOREM MeasureRecordIsOnScreen == Spec => RecordIsOnScreen
<1> DEFINE OnScreen ==
      record' # record /\ measured =>
         /\ record'.sensor = shown
         /\ record'.value.by = record'.sensor
         /\ record'.stream = CASE shown = "TEMP" -> 1 [] shown = "PH" -> 2
                               [] shown = "SAL" -> 3 [] OTHER -> 0
<1>1. IInv /\ [Next]_vars => [OnScreen]_vars
  <2> SUFFICES ASSUME IInv, Next, record' # record, measured PROVE OnScreen
    OBVIOUS
  <2>1. CASE Post
    BY <2>1 DEF Post, IInv, Named, Stream
  <2>2. CASE Save
    BY <2>2 DEF Save, IInv, Named, Stream
  <2> QED
    BY <2>1, <2>2 DEF Next, Pass, Plug, Calibrate, Open, Measure, Touch, TouchNothing,
       TouchReturn, TouchSensor, TouchPost, TouchSave, TouchStart, TouchStop
<1> QED BY <1>1, MeasureIInvHolds, PTL DEF Spec, RecordIsOnScreen

------------------------------------------------------------------------------
(* A siren that is armed over a probe is at most four steps from its answer. *)

\* The steps of the pass before it measures again.
UntilMeasure ==
    CASE pc = "post" -> 3 [] pc = "save" -> 2 [] pc = "touch" -> 1 [] OTHER -> 0

\* An armed siren over a probe that stays: the loop comes nearer to measuring
\* with each of its steps, and measuring is the answer; no button and no other
\* probe puts it off.
Answering ==
    /\ UntilMeasure \in 0..3
    /\ Ringing /\ pc = "measure" /\ Pass => ~Ringing'
    /\ Ringing /\ Ringing' =>
         IF Pass THEN UntilMeasure' < UntilMeasure ELSE UntilMeasure' = UntilMeasure

LEMMA MeasureAnswers ==
  ASSUME IInv, Measure, Ringing
  PROVE  ~Ringing'
<1>1. VoltageID < 480 /\ running
  BY DEF Ringing
<1>2. VoltageID \in 0..500
  BY VoltagesAssumption DEF VoltageID, IInv, TypeOK
<1>3. Sirens(VoltageID) = FALSE
  BY <1>1, <1>2 DEF Sirens
<1>4. sirens' = Sirens(VoltageID)
  BY <1>1, Zenon DEF Measure
<1>5. ~sirens'
  BY <1>3, <1>4, Zenon
<1> QED BY <1>5 DEF Ringing

\* After a step in which the siren is armed before and after, the pass has
\* gone on by that step, whatever was touched and whatever was plugged in.
THEOREM MeasureSirenAnswering == Spec => [][Answering]_vars
<1>1. IInv /\ [Next]_vars => [Answering]_vars
  <2> SUFFICES ASSUME IInv, Next PROVE Answering
    OBVIOUS
  <2>1. UntilMeasure \in 0..3
    BY DEF UntilMeasure
  <2>2. CASE Measure
    BY <2>1, <2>2, MeasureAnswers DEF Answering
  <2>3. CASE Post \/ Save
    BY <2>1, <2>3 DEF Post, Save, Pass, Answering, UntilMeasure
  <2>4. CASE Touch
    <3>1. pc = "touch" /\ pc' \in {"measure", "away"}
      BY <2>4 DEF Touch, TouchNothing, TouchReturn, TouchSensor, TouchPost, TouchSave,
         TouchStart, TouchStop
    <3> QED BY <2>1, <2>4, <3>1 DEF Pass, Answering, UntilMeasure
  <2>5. CASE Plug \/ Calibrate \/ Open
    <3>1. pc' = pc \/ pc = "away"
      BY <2>5 DEF Plug, Calibrate, Open
    <3>2. Pass => pc # "away" /\ pc' # pc
      BY DEF Pass, Measure, Post, Save, Touch, TouchNothing, TouchReturn, TouchSensor,
         TouchPost, TouchSave, TouchStart, TouchStop
    <3>3. Ringing => pc # "away"
      BY DEF Ringing
    <3> QED BY <2>1, <3>1, <3>2, <3>3 DEF Answering, UntilMeasure
  <2> QED BY <2>2, <2>3, <2>4, <2>5 DEF Next, Pass
<1> QED BY <1>1, MeasureIInvHolds, PTL DEF Spec
==============================================================================
