\* One or two sessions, two processes that may bear the name.
SPECIFICATION Spec
CONSTANTS
    Pids = {1, 2, 3}
    GUI = GUI
    WORKER = WORKER
    WATCHER = WATCHER
    USER = USER
    KERNEL = KERNEL
    Nobody = Nobody
    Scenarios <- MCScenarios
INVARIANTS NoUseAfterFree
PROPERTIES StopEnds TargetSettles
CHECK_DEADLOCK FALSE
