\* ConfigStore: two files of one text each, read as Json reads them.
SPECIFICATION Spec
CONSTANTS
    ConfigForms = {"w"}
    CalForms = {"s"}
    Blank = ""
    MaxObjects = 2
    Texts = {"", "plain", "spoils", "shortens", "repeats"}
    Plain = {"", "plain"}
    Read <- MCRead
    Keys <- MCKeys
    Spelling <- MCSpelling
    Letters = {"a", "w", "s"}
    Unreadable = Unreadable
    SlotSize = 16
    Slots = 11
    LongText = 2
INVARIANTS SaveHolds ReadsBack RoundTrip
PROPERTIES LoadsLastSave NeverOlder
