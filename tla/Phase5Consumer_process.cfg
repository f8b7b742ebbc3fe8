SPECIFICATION FairSpec
CONSTANTS
    MaxEvent = 2
    BatchSize = 2
    MaxEntries = 3
    MaxFaults = 2
    MaxRestarts = 1
INVARIANTS
    TypeOK
    ViewFollowsStreamUntilFault
    AckedWasHandled
PROPERTIES
    AppliesOnceInOneProcess
    EveryEntryAcked
