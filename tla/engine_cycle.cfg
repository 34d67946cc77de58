\* Two producers; no claim outlives the watchdog.
SPECIFICATION FairSpec
CONSTANTS
    Producers = {p1, p2}
    NoThread = NoThread
    MaxEvents = 2
    Durations = {1}
    HasPostWindow = TRUE
    ClaimsMayStall = FALSE
INVARIANTS TypeOK HeldIsPublished
PROPERTIES ImplementsCycle AcceptedIsReported
CHECK_DEADLOCK FALSE
