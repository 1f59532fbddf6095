\* A microcontroller reports an error, and a station asks for it.
SPECIFICATION Spec
CONSTANTS
    WheelCount = 2
    Readers = {h1}
    MaxReports = 2
INVARIANTS
    ErrorCodeHonest
CHECK_DEADLOCK FALSE
