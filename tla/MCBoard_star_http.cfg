\* Board: leaving the HTTP form with the star key.
SPECIFICATION Spec
CONSTANTS
    Values = {"", "a"}
    Blank = ""
    OpenForms = {"http"}
    KeyWithTouch = FALSE
PROPERTY LeavingHidesForm
