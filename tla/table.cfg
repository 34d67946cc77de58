SPECIFICATION FairSpec
CONSTANTS
    a = a
    b = b
    t1 = t1
    t2 = t2
    t3 = t3
    Threads = {t1, t2, t3}
    Keys <- MCKeys
    NoKey = 0
    Capacity = 2
    Home <- MCHome
    MaxProbes = 2
    InsertRetries = 2
    FindRetries = 2
    Calls <- MCOwned
    Evictors = {t3}
    MaxAge = 0
    MaxCalls = 4
    Live = {t1}
INVARIANTS TypeOK OneOwner ValidWhole FoundIsOwn TakenOnce EvictsOnlyStale ChainUnbroken MissOnlyWhenAbsent KeyOnce
PROPERTIES CallsReturn
CHECK_DEADLOCK FALSE
