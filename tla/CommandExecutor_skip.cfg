\* Two stations: pop() removes a command nobody has launched.
SPECIFICATION Spec
CONSTANTS
    Handlers = {h1, h2}
    MayOverlap = TRUE
    MaxCommands = 3
INVARIANTS
    AllLaunched
CHECK_DEADLOCK FALSE
