SPECIFICATION SpecMC
CONSTANTS
    NoUser = NoUser
    Protocol = Protocol
    Treasury = Treasury
    u1 = u1
    u2 = u2
    u3 = u3
    Users <- UsersMC
    InitialRanks <- OneOfEachRank
    InitialWhitelist = {}
    InitialConfig <- ConfigMC
    InitialStable = 0
    InitialMobl = 1
    Settings <- NoSettings
    WhitelistChanges = {u3}
    MovingRanks <- UsersMC
    OwnerMoves = {}
    PaymentAmounts = {0}
    WithdrawAmounts = {}
    Scores = {5}
    StartTime = 1
    MaxTime = 2
    MaxPhase = 2
    MaxListings = 1
    MaxTally = 3
    MaxSetting = 2
INVARIANTS
    NoOverdueRankChange
    VotesAwaitCooldown
PROPERTIES
    QuotaPaysRankChange
    VotesOutliveRanks
    ImplementsListings
CHECK_DEADLOCK FALSE
