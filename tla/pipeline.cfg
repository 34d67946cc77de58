\* Three or four events, two cells, files of one or two lines.
SPECIFICATION Spec
CONSTANTS
    USER = USER
    KERNEL = KERNEL
    MAIN = MAIN
    Threads = {USER, KERNEL, MAIN}
    NoRecord = NoRecord
    RING_CAPACITY = 2
    PRE = 1
    POST = 1
    COOLDOWN = 1
    DRAIN_LIMIT = 1
    Scenarios <- MCScenarios
INVARIANTS StreamIntact WindowInReport
