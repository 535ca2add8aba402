\* Measure: the same instance.
SPECIFICATION Spec
CONSTANTS
    Voltages = {90, 130, 170, 250, 480}
    Cals = {"a", "b"}
    Default = "default"
INVARIANT PHCalibrated
