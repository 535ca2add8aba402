\* Measure: three probes, an unknown one and none; two calibrations.
SPECIFICATION Spec
CONSTANTS
    Voltages = {90, 130, 170, 250, 480}
    Cals = {"a", "b"}
    Default = "default"
INVARIANTS AnsweredOnVisit SalinityCalibrated ShowsChosen
PROPERTIES RecordIsOnScreen SirenAnswers
