\* Three events of two sessions, and reports.
SPECIFICATION Spec
CONSTANTS
    USER = USER
    KERNEL = KERNEL
    MAIN = MAIN
    Threads = {USER, KERNEL, MAIN}
    NoRecord = NoRecord
    RING_CAPACITY = 2
    PRE = 1
    POST = 1
    COOLDOWN = 1
    DRAIN_LIMIT = 1
    Scenarios <- Reports
INVARIANTS DeliveredInReport
