SPECIFICATION ListingsSpec
CONSTANTS
    NoUser = NoUser
    Protocol = Protocol
    Treasury = Treasury
    u1 = u1
    u2 = u2
    u3 = u3
    Users <- TwoUsers
    InitialRanks <- AllRankII
    InitialWhitelist = {}
    InitialConfig <- VotingConfig
    InitialStable = 0
    InitialMobl = 0
    Settings <- OwnerSettings
    WhitelistChanges = {}
    MovingRanks = {}
    OwnerMoves <- Statuses
    PaymentAmounts = {0}
    WithdrawAmounts = {}
    Scores = {5, 6}
    StartTime = 1
    MaxTime = 1
    MaxPhase = 2
    MaxListings = 1
SYMMETRY FixedRankSymmetry
INVARIANTS
    ListingsTypeOK
    OneVotePerPhase
    VotesJudgedOnce
    ScoresBounded
CHECK_DEADLOCK FALSE
