\* The two wheels of the code and an entry too many, with every kind of device
\* at every port; the rover starts, or the process ends or hangs.
SPECIFICATION Spec
CONSTANTS
    PortCount = 3
    WheelCount = 2
    MaxFaults = 1
INVARIANTS
    TypeOK
    RightWheel
    DiesOnlyIfMissing
PROPERTIES
    DetectionEnds
    StartsUp
CHECK_DEADLOCK FALSE
