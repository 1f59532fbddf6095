\* Replies may be lost or applied out of order, calls overlap after a broken
\* connection, and the camera exit, at any time.
SPECIFICATION CameraSpec
CONSTANTS
    Handlers = {h1, h2, h3}
    Pool = {t1, t2}
    NoHandler = NoHandler
INVARIANTS
    CameraTypeOK
    StationKnows
    OneCamera
CHECK_DEADLOCK FALSE
