\* One session, stopped once or following a process that may end.
SPECIFICATION Spec
CONSTANTS
    Pids = {1, 2}
    GUI = GUI
    WORKER = WORKER
    WATCHER = WATCHER
    USER = USER
    KERNEL = KERNEL
    Nobody = Nobody
    Scenarios <- MCEnding
PROPERTIES SessionEnds
CHECK_DEADLOCK FALSE
