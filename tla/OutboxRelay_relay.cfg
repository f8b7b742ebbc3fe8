SPECIFICATION FairSpec
CONSTANTS
    Events = {e1, e2}
    Relays = {p1, p2}
    BatchSize = 2
    MaxClock = 1
    MaxFaults = 2
INVARIANTS
    TypeOK
    Inductive
PROPERTIES
    PublishesOldestFirst
    KeepsContract
    EventuallyPublished
CHECK_DEADLOCK FALSE
