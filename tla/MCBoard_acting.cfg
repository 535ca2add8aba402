\* Board: the HTTP and the SAL form; a key and a touch in one pass.
SPECIFICATION FairSpec
CONSTANTS
    Values = {"", "a"}
    Blank = ""
    OpenForms = {"http", "SAL"}
    KeyWithTouch = TRUE
INVARIANTS NoDeadEnd TouchSeesItsPage SomePageShown FormsConsistent
PROPERTY ActingReturns
