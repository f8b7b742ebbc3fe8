SPECIFICATION ProofSpec
CONSTANTS
    Trades <- MCTrades
    SeedCash = 10
    Consumers = {c1, c2}
    MaxIdlePolls = 1
    MaxKills = 3
    Consumer = c1
    DieOn = 2
    DieOnC = 2
CHECK_DEADLOCK FALSE
INVARIANTS
    TypeOK
    OneDuplicatePerKill
    ProjectionIsBaseline
PROPERTIES
    CountsEachEventOnce
    ProofEnds
