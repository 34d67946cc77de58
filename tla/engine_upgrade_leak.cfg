\* One producer thread: a stall staged late upgrades the next trigger.
SPECIFICATION Spec
CONSTANTS
    Producers = {p1}
    NoThread = NoThread
    MaxEvents = 3
    Durations = {1, 2}
    HasPostWindow = TRUE
    ClaimsMayStall = FALSE
PROPERTY UpgradeOnlyDxgi
CHECK_DEADLOCK FALSE
