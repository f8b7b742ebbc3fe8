\* Two accounts, three snapshots, two fetches of the summary under way at once.
SPECIFICATION Spec
CONSTANTS
    a1 = a1
    a2 = a2
    Accounts = {a1, a2}
    Snapshots <- MCSnapshots
    Replies <- MCReplies
    LogSize = 2
    MaxFetches = 2
INVARIANTS
    TypeOK
    AnswersGrounded
    ProseKeepsUp
    ChangesMatchFigures
PROPERTIES
    AiSettles
