\* Two files; any row is touched.
SPECIFICATION Spec
CONSTANTS
    PH = PH
    SAL = SAL
    a = a
    b = b
    Names = {PH, SAL}
    Ids = {a, b}
    Null = Null
    Window = 2
    Slots = 2
    MaxLen = 3
SYMMETRY Symm
INVARIANT WindowInFile
INVARIANT ScrollbarShowsWindow
INVARIANT ChosenFromFile
INVARIANT PostRowsFilled
PROPERTY OnlyTouchedRows
PROPERTY FollowsChoice
INVARIANT HighlightIsChoice
PROPERTY PostsChoice
