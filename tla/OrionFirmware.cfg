\* Three commands, some of which need more than 8 bits; partial writes, and
\* losses whenever the receive buffer is full or feedback is printed.
SPECIFICATION Spec
CONSTANTS
    Magnitudes = {255, 300}
    MaxCommands = 3
    MaxRx = 4
    MaxLine = 3
INVARIANTS
    TypeOK
    MotorObeys
PROPERTIES
    Recovers
