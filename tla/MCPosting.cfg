\* Two visits with two rows; two connections; ten seconds are two of four ticks.
SPECIFICATION Spec
CONSTANTS
    Rows = 2
    Links = 2
    Wrap = 4
    Wait = 2
    Visits = 2
INVARIANTS DoneStored
PROPERTIES ImplementsDelivery PostEnds
