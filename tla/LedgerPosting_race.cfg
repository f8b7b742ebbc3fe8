SPECIFICATION Spec
CONSTANTS
    Calls = {c1, c2, c3}
    Requests = {r1, r2}
    NoCall = NoCall
    Accounts <- MCAccounts
    Orders <- MCOrders
    Credits <- NoCredits
    Opening <- MCOpening
    MaxPosition = 3
    Scale = 1
SYMMETRY Symmetry
INVARIANTS
    Inductive
    TypeOK
    EffectsAtomic
    CashMatchesJournal
    AnswersAgree
PROPERTIES
    KeepsPromise
