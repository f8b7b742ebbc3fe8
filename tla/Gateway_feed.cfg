SPECIFICATION FairSpec
CONSTANTS
    Streams = {ticks, risk}
    Browsers = {b1}
    Capacity = 1
    Count = 2
    MaxEntries = 4
    MaxConnects = 2
    MaxRestarts = 1
INVARIANTS
    TypeOK
    SendsOnOpenChannels
    NoGapOnceStarted
    InOrder
PROPERTIES
    FeedGoesOn
