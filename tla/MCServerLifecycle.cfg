\* A signal at any time, three calls under way.  The process ends, or is
\* joined for ever.
SPECIFICATION LifeSpec
CONSTANTS
    MaxCalls = 3
INVARIANTS
    LifeTypeOK
    ModelOutlivesCalls
PROPERTIES
    SignalEnds
CHECK_DEADLOCK FALSE
