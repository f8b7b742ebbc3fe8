SPECIFICATION Spec
CONSTANTS
    Posts <- MCPosts
    Quotes <- NoQuotes
    SeedCash = 2
    BatchSize = 1
    WindowSize = 1
    MaxEntries = 2
    MaxTicks = 0
    MaxCrashes = 2
INVARIANT FollowsStream
