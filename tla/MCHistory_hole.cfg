\* A row is taken out of the list.
SPECIFICATION Spec
CONSTANTS
    PH = PH
    a = a
    b = b
    Names = {PH}
    Ids = {a, b}
    Null = Null
    Window = 2
    Slots = 2
    MaxLen = 2
SYMMETRY Symm
INVARIANT NoDuplicates
