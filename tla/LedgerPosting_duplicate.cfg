SPECIFICATION Spec
CONSTANTS
    Calls = {c1, c2}
    Requests = {r1, r2}
    NoCall = NoCall
    Accounts <- MCAccounts
    Orders <- MCOrders
    Credits <- NoCredits
    Opening <- MCOpening
    MaxPosition = 3
    Scale = 1
PROPERTY DuplicateGetsOutcome
