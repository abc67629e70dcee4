SPECIFICATION Spec
CONSTANTS
    Request = {r1, r2, r3}
    Link = {l1, l2}
    MaxTokens = 3
    MaxEvents = 1
SYMMETRY Symmetry
CHECK_DEADLOCK FALSE
INVARIANTS
    TypeOK
    ResetEndsSessions
    SessionsAreChains
    OffAccountsGetNoToken
    LinksAreSpent
