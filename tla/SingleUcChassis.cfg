\* Calls may overlap; a chassis of two wheels with one microcontroller.
SPECIFICATION Spec
CONSTANTS
    Handlers = {h1, h2}
    MayOverlap = TRUE
    MaxCommands = 3
    MaxUnread = 0
    WheelCount = 2
INVARIANTS
    SinkBounded
    PacketWhole
    RoverFollows
CHECK_DEADLOCK FALSE
