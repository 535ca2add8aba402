\* Board: the WiFi and the MQTT form; one input in a pass.
SPECIFICATION Spec
CONSTANTS
    Values = {"", "a"}
    Blank = ""
    OpenForms = {"wifi", "mqtt"}
    KeyWithTouch = FALSE
INVARIANT OnePageShown
INVARIANT SavedIsInUse
PROPERTY SaveOwnForm
INVARIANT EditsDropped
