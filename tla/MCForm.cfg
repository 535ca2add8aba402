\* Four fields, two texts per field; 'S', '*' and '#', and a slot for each.
SPECIFICATION KeysSpec
CONSTANTS
    N = 4
    Texts = {"", "a"}
    Empty = ""
    Codes = {4, 6, 8}
    Slots = 3
    Fingers = 2
    NoKey = NoKey
INVARIANTS
    OnePosition
PROPERTIES
    ImplementsWizard
    PressPerStep
    FirstPressHeard
