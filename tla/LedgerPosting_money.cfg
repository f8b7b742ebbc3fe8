SPECIFICATION FairSpec
CONSTANTS
    Calls = {c1, c2}
    Requests = {r1, r2}
    NoCall = NoCall
    Accounts <- MCAccounts
    Orders <- MCOrdersRounded
    Credits <- MCCreditsRounded
    Opening <- MCOpeningRounded
    MaxPosition = 3
    Scale = 4
INVARIANTS
    CashNonNegative
    EventsExplainCash
PROPERTIES
    EveryCallAnswered
