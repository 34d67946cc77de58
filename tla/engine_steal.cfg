\* A superseded writer moves the newer claim out of CLAIMED.
SPECIFICATION Spec
CONSTANTS
    Producers = {p1, p2}
    NoThread = NoThread
    MaxEvents = 2
    Durations = {1}
    HasPostWindow = TRUE
    ClaimsMayStall = TRUE
PROPERTY StaleWriterNeverSteals
CHECK_DEADLOCK FALSE
