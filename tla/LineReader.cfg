\* Six lines of two bytes, cut in every possible way.
SPECIFICATION Spec
CONSTANTS
    MaxLines = 6
    BodySize = 2
    MaxTty = 9
INVARIANTS
    TypeOK
    WholeLines
    NothingLost
PROPERTIES
    LinesInOrder
CHECK_DEADLOCK FALSE
