SPECIFICATION FairSpec
CONSTANTS
    Producers = {p1, p2}
    Capacity = 2
    MaxTickets = 3
    MaxSpins = 1
    Stamps = {1, 2, 3}
    Windows <- MCWindows
    MaxSkew = 1
    MinOutOfWindow = 1
    MaxOutOfWindow = 2
    SlotRetries = 1
    AllRetries = 2
    MaxSnapshots = 1
    Live = {p1}
INVARIANTS TypeOK PublishedIntact PushAccounting SnapshotIntact SnapshotOrdered SnapshotComplete
PROPERTIES SlotsOnlyAdvance CallsReturn
CHECK_DEADLOCK FALSE
