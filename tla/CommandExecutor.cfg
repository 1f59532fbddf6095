\* Calls may overlap: two stations, or one whose connection broke.  What needs
\* calls that do not overlap is conditional on `alone'.
SPECIFICATION Spec
CONSTANTS
    Handlers = {h1, h2, h3}
    MayOverlap = TRUE
    MaxCommands = 3
INVARIANTS
    TypeOK
    OkMeansGone
    NoneSkipped
    NoMisuse
    OkMeansDelivered
PROPERTIES
    InOrder
    CallsReturn
CHECK_DEADLOCK FALSE
