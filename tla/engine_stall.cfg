\* Two producers; claims may outlive the watchdog, there is no post-window
\* and a client may leave its report open.
SPECIFICATION FairSpec
CONSTANTS
    Producers = {p1, p2}
    NoThread = NoThread
    MaxEvents = 2
    Durations = {}
    HasPostWindow = FALSE
    ClaimsMayStall = TRUE
INVARIANTS NoTornReport NewestPublishes Accounting
PROPERTY EngineRearms
CHECK_DEADLOCK FALSE
