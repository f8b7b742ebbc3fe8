SPECIFICATION Spec
CONSTANTS
    Calls = {c1, c2}
    Requests = {r1, r2}
    NoCall = NoCall
    Accounts <- MCAccounts
    Orders <- MCBuys
    Credits <- NoCredits
    Opening <- MCOpening
    MaxPosition = 1
    Scale = 1
INVARIANT PositionWithinLimit
