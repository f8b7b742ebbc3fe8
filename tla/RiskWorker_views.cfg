SPECIFICATION FairSpec
CONSTANTS
    Posts <- MCPosts
    Quotes <- MCQuotes
    SeedCash = 2
    BatchSize = 2
    WindowSize = 1
    MaxEntries = 3
    MaxTicks = 1
    MaxCrashes = 1
INVARIANTS
    TypeOK
    FollowsStreamUntilCrash
PROPERTIES
    CountsEachEventOnce
    PublishesWhatItServes
    ViewsCatchUp
    EveryEntrySettled
