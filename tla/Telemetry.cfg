SPECIFICATION Spec
CONSTANTS
    WheelCount = 2
    Readers = {h1}
    MaxReports = 2
INVARIANTS
    TypeOK
    Fresh
CHECK_DEADLOCK FALSE
