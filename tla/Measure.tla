------------------------------- MODULE Measure -------------------------------
(****************************************************************************)
(* The measuring page: the passes of start() while the page "start" is      *)
(* shown, with checkSensor of SensorFactory.h and the buttons of            *)
(* drawChooseMeasuring.  A pass measures, posts, saves and looks at the     *)
(* touch screen, in this order.                                             *)
(*                                                                          *)
(* A value is kept as the sensor whose formula computed it and the          *)
(* calibration it was computed with; voltages are hundredths of a volt.     *)
(****************************************************************************)
EXTENDS Naturals

CONSTANTS
    Voltages,           \* what the identification pin may read
    Cals,               \* calibrations the user may have entered
    Default             \* the calibration the constructors take
ASSUME VoltagesAssumption == Voltages \subseteq 0..500
ASSUME CalsAssumption == Default \notin Cals

Sensors    == {"TEMP", "SAL", "PH"}
Calibrated == {"SAL", "PH"}
None       == "none"
Unnamed    == ""        \* shortName before anything was identified

VARIABLES
    pc,                 \* where the pass is; "away" while other pages are shown
    pin,                \* the voltage at the identification pin
    calibration,        \* the texts slope and intercept of each sensor
    config,             \* what the sensor objects are configured with
    shortName,          \* the sensor last identified
    sensorMeasuring,    \* the button in force; "pin" for the pin
    valueMeasuring,     \* the value last drawn
    running,            \* statusSensorMeasuring = "start"
    startPost, startSave, sirens,
    shown, highlight,   \* the name and the button on the screen
    record,             \* the record made last
    measured, chosen    \* observed, since the page was opened: a value has been
                        \* drawn, a sensor's button has been touched

sensor == <<pin, calibration, config, shortName, valueMeasuring, shown, measured>>
button == <<sensorMeasuring, running, startPost, startSave, highlight, chosen>>
vars   == <<pc, sensor, button, sirens, record>>

Zero  == [by |-> None, cal |-> Default]
Value == [by : Sensors \cup {None}, cal : Cals \cup {Default}]
Names == Sensors \cup {None, Unnamed}

NoRecord == [sensor |-> Unnamed, value |-> Zero, stream |-> 0]

FlagsOK ==
    /\ running \in BOOLEAN /\ startPost \in BOOLEAN /\ startSave \in BOOLEAN
    /\ sirens \in BOOLEAN /\ measured \in BOOLEAN /\ chosen \in BOOLEAN

TypeOK ==
    /\ pc \in {"away", "measure", "post", "save", "touch"}
    /\ pin \in Voltages
    /\ calibration \in [Calibrated -> Cals]
    /\ config \in [Calibrated -> Cals \cup {Default}]
    /\ shortName \in Names /\ shown \in Names
    /\ sensorMeasuring \in Sensors \cup {"pin"} /\ highlight \in Sensors
    /\ valueMeasuring \in Value
    /\ record \in [sensor : Names, value : Value, stream : 0..3]
    /\ FlagsOK

Init ==
    /\ pc = "away"
    /\ pin \in Voltages
    /\ calibration \in [Calibrated -> Cals]
    /\ config = [s \in Calibrated |-> Default]
    /\ shortName = Unnamed /\ shown = None /\ highlight = "TEMP"
    /\ sensorMeasuring = "pin" /\ valueMeasuring = Zero /\ record = NoRecord
    /\ running = FALSE /\ startPost = FALSE /\ startSave = FALSE
    /\ sirens = FALSE /\ measured = FALSE /\ chosen = FALSE

------------------------------------------------------------------------------
(* The world: probes are plugged in and out at any moment; the calibration  *)
(* pages change the texts while this page is not shown.                     *)

Plug ==
    /\ \E v \in Voltages : pin' = v
    /\ UNCHANGED <<pc, calibration, config, shortName, valueMeasuring, shown,
                   measured, button, sirens, record>>

Calibrate ==
    /\ pc = "away"
    /\ \E s \in Calibrated, c \in Cals : calibration' = [calibration EXCEPT ![s] = c]
    /\ UNCHANGED <<pc, pin, config, shortName, valueMeasuring, shown, measured,
                   button, sirens, record>>

------------------------------------------------------------------------------
(* The device.                                                              *)

\* The page is shown with status "change": new sensor objects, measuring
\* stopped, the value drawn as zero and the first button as the one chosen.
\* The button in force and the sensor last identified are kept.
Open ==
    /\ pc = "away"
    /\ pc' = "measure"
    /\ config' = [s \in Calibrated |-> Default]
    /\ running' = FALSE
    /\ valueMeasuring' = Zero /\ shown' = None /\ highlight' = "TEMP"
    /\ measured' = FALSE /\ chosen' = FALSE
    /\ UNCHANGED <<pin, calibration, shortName, sensorMeasuring, startPost,
                   startSave, sirens, record>>

\* The voltage a button stands for, or the one read.
VoltageID ==
    CASE sensorMeasuring = "TEMP" -> 250
      [] sensorMeasuring = "SAL"  -> 90
      [] sensorMeasuring = "PH"   -> 170
      [] OTHER                    -> pin

\* Defect: the range of one sensor reaches into that of another.
IdentifiedWide(v) ==
    CASE v > 160 /\ v < 320 -> "TEMP"
      [] v > 50  /\ v < 120 -> "SAL"
      [] v > 140 /\ v < 199 -> "PH"
      [] OTHER              -> None

Identified(v) ==
    CASE v > 200 /\ v < 320 -> "TEMP"
      [] v > 50  /\ v < 120 -> "SAL"
      [] v > 140 /\ v < 199 -> "PH"
      [] OTHER              -> None

\* Defect: no object is configured.
ConfiguredNever(s) == config

\* Both branches configure the object of the salinity sensor.
Configured(s) ==
    IF s \in Calibrated THEN [config EXCEPT !["SAL"] = calibration[s]] ELSE config

Computed(s) ==
    [by |-> s, cal |-> IF s \in Calibrated THEN Configured(s)[s] ELSE Default]

\* Defect: ringing does not disarm the siren.
SirensKept(v) == v >= 480 \/ sirens

\* It rings once for a probe, then not until none was plugged in or a button
\* was touched.
Sirens(v) == v >= 480

\* Defect: measuring leaves the sensor's name as it was.
MeasureKeepsName ==
    /\ pc = "measure" /\ pc' = "post"
    /\ IF running
         THEN LET s == Identified(VoltageID) IN
              /\ shortName' = IF shortName = Unnamed THEN s ELSE shortName
              /\ config' = Configured(s)
              /\ valueMeasuring' = Computed(s) /\ shown' = s
              /\ sirens' = Sirens(VoltageID)
              /\ measured' = TRUE
         ELSE UNCHANGED <<shortName, config, valueMeasuring, shown, sirens, measured>>
    /\ UNCHANGED <<pin, calibration, button, record>>

Measure ==
    /\ pc = "measure" /\ pc' = "post"
    /\ IF running
         THEN LET s == Identified(VoltageID) IN
              /\ shortName' = s /\ config' = Configured(s)
              /\ valueMeasuring' = Computed(s) /\ shown' = s
              /\ sirens' = Sirens(VoltageID)
              /\ measured' = TRUE
         ELSE UNCHANGED <<shortName, config, valueMeasuring, shown, sirens, measured>>
    /\ UNCHANGED <<pin, calibration, button, record>>

\* For any other name the number is the address of an empty string: 0 here.
Stream(s) ==
    CASE s = "TEMP" -> 1 [] s = "PH" -> 2 [] s = "SAL" -> 3 [] OTHER -> 0

\* Whatever postServer answers, the record is not kept for another attempt.
Post ==
    /\ pc = "post" /\ pc' = "save"
    /\ startPost' = FALSE
    /\ record' = IF startPost
                   THEN [sensor |-> shortName, value |-> valueMeasuring,
                         stream |-> Stream(shortName)]
                   ELSE record
    /\ UNCHANGED <<sensor, sensorMeasuring, running, startSave, highlight, chosen, sirens>>

\* Defect: the request stays until the next pass.
SaveLater ==
    /\ pc = "save" /\ pc' = "touch"
    /\ UNCHANGED <<sensor, button, sirens, record>>

\* The file may not open; the request is dropped all the same.
Save ==
    /\ pc = "save" /\ pc' = "touch"
    /\ startSave' = FALSE
    /\ \/ startSave /\ record' = [sensor |-> shortName, value |-> valueMeasuring,
                                  stream |-> Stream(shortName)]
       \/ UNCHANGED record
    /\ UNCHANGED <<sensor, sensorMeasuring, running, startPost, highlight, chosen, sirens>>

------------------------------------------------------------------------------
(* drawChooseMeasuring.                                                     *)

TouchNothing == pc' = "measure" /\ UNCHANGED <<sensor, button, sirens, record>>

TouchReturn == pc' = "away" /\ UNCHANGED <<sensor, button, sirens, record>>

TouchSensor ==
    /\ pc' = "measure"
    /\ \E s \in Sensors : highlight' = s /\ sensorMeasuring' = s
    /\ sirens' = TRUE /\ chosen' = TRUE
    /\ UNCHANGED <<sensor, running, startPost, startSave, record>>

TouchPost ==
    /\ pc' = "measure" /\ startPost' = TRUE
    /\ UNCHANGED <<sensor, sensorMeasuring, running, startSave, highlight, chosen,
                   sirens, record>>

TouchSave ==
    /\ pc' = "measure" /\ startSave' = TRUE
    /\ UNCHANGED <<sensor, sensorMeasuring, running, startPost, highlight, chosen,
                   sirens, record>>

TouchStart ==
    /\ pc' = "measure" /\ running' = TRUE /\ sirens' = TRUE
    /\ UNCHANGED <<sensor, sensorMeasuring, startPost, startSave, highlight, chosen, record>>

TouchStop ==
    /\ pc' = "measure" /\ running' = FALSE
    /\ UNCHANGED <<sensor, sensorMeasuring, startPost, startSave, highlight, chosen,
                   sirens, record>>

Touch ==
    /\ pc = "touch"
    /\ \/ TouchNothing \/ TouchReturn \/ TouchSensor \/ TouchPost
       \/ TouchSave \/ TouchStart \/ TouchStop

Pass == Measure \/ Post \/ Save \/ Touch

Next == Plug \/ Calibrate \/ Open \/ Pass

\* loop() never stops.
Spec == Init /\ [][Next]_vars /\ WF_vars(Pass)

------------------------------------------------------------------------------
(* Properties.                                                              *)

\* Once something was measured on this visit, a record that is posted or saved
\* is filed under the name on the screen, its value was computed by that
\* sensor's formula, and the stream it goes to is that sensor's.
RecordIsOnScreen ==
    [][record' # record /\ measured =>
         /\ record'.sensor = shown
         /\ record'.value.by = record'.sensor
         /\ record'.stream = CASE shown = "TEMP" -> 1 [] shown = "PH" -> 2
                               [] shown = "SAL" -> 3 [] OTHER -> 0]_vars

\* Post and save are answered on the visit they were asked for, with the value
\* of that visit: no request waits when the page is left.
AnsweredOnVisit == pc = "away" => ~startPost /\ ~startSave

\* A value the page shows was computed with the calibration in memory.
UsesCalibration(s) ==
    pc # "away" /\ valueMeasuring.by = s => valueMeasuring.cal = calibration[s]

\* Salinity: although each pH measurement configures the same object and a
\* probe may be exchanged between any two passes.
SalinityCalibrated == UsesCalibration("SAL")

\* pH: the branch commented "PH" configures its sensor as the others do.
PHCalibrated == UsesCalibration("PH")

\* Once a button was touched on this visit, what is measured is the sensor of
\* the button drawn as chosen, whatever probe is plugged in.
ShowsChosen == chosen /\ running /\ pc \in {"post", "save", "touch"} => shown = highlight

\* The siren, once armed, rings for the probe that is there, unless measuring
\* is stopped or the probe pulled out first.
Ringing     == pc # "away" /\ running /\ sirens /\ VoltageID < 480
SirenAnswers == Ringing ~> ~Ringing
==============================================================================
