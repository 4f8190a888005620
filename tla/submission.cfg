SPECIFICATION ListingsSpec
CONSTANTS
    NoUser = NoUser
    Protocol = Protocol
    Treasury = Treasury
    u1 = u1
    u2 = u2
    u3 = u3
    Users <- TwoUsers
    InitialRanks <- OneRankII
    InitialWhitelist = {u2}
    InitialConfig <- SubmissionConfig
    InitialStable = 3
    InitialMobl = 0
    Settings <- ApiMoves
    WhitelistChanges = {}
    MovingRanks = {}
    OwnerMoves = {}
    PaymentAmounts = {0, 1, 3}
    WithdrawAmounts = {3}
    Scores = {5}
    StartTime = 1
    MaxTime = 2
    MaxPhase = 1
    MaxListings = 3
INVARIANTS
    StatusArraysConsistent
    PooledWhileUnderpaid
    CoeffsArePaidFor
    TokenIdsAreDense
    AssetsMatchValidated
CHECK_DEADLOCK FALSE
