\* Clock: two days of three hours; the local time is an hour ahead.
SPECIFICATION Spec
CONSTANTS
    Hours = 3
    Minutes = 2
    Seconds = 2
    Zone = 1
    MaxDelay = 2
    MaxTime = 12
    NoDate = NoDate
INVARIANTS ChipRight ScreenRight
PROPERTY ConnectReturns
