\* Two connections, two contents, one nested call of transaction().
CONSTANTS
    Clients = {c1, c2}
    Contents = {v1, v2}
    None = None
    MaxDepth = 2
SPECIFICATION FairSpec
INVARIANTS
    TypeOK
    LocksHaveOwners
PROPERTIES
    SuccessIsFinal
    QueriesSeeOneState
    BusyCommitKeepsItsTurn
    OpenTransactionsEnd
    ImplementsAtomic
