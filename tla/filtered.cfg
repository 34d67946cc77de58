SPECIFICATION FairSpec
CONSTANTS
    Producers = {p1, p2}
    Capacity = 2
    MaxTickets = 5
    MaxSpins = 1
    Stamps = {1}
    MaxReadSpins = 1
INVARIANTS PoppedIntact PoppedInOrder SkippedOnlyLapped
PROPERTIES TicketsResolved
