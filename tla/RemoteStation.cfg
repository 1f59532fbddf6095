\* Two pool threads, as in the code; a full stick and a centred one, which is
\* inside the dead zone.
SPECIFICATION Spec
CONSTANTS
    Threads = {t1, t2}
    Positions = {0, 100}
    MaxJobs = 2
    MaxLeft = 1
    MaxLate = 1
    MaxTicks = 3
INVARIANTS
    TypeOK
    FewOvertaken
PROPERTIES
    RoverSettles
    ExitEnds
