SPECIFICATION ListingsSpec
CONSTANTS
    NoUser = NoUser
    Protocol = Protocol
    Treasury = Treasury
    u1 = u1
    u2 = u2
    u3 = u3
    Users <- ThreeUsers
    InitialRanks <- AllRankII
    InitialWhitelist = {}
    InitialConfig <- VotingConfig
    InitialStable = 150
    InitialMobl = 6
    Settings <- NoSettings
    WhitelistChanges = {}
    MovingRanks = {u3}
    OwnerMoves = {}
    PaymentAmounts = {150}
    WithdrawAmounts = {}
    Scores = {5, 6}
    StartTime = 1
    MaxTime = 1
    MaxPhase = 2
    MaxListings = 1
SYMMETRY FixedRankSymmetry
INVARIANTS
    NoOverdueVerdict
    ValidationRestsOnSorting
    VoteCanContinue
    RewardsBackGoodVotes
    ClaimsArePaid
PROPERTIES
    ImplementsBallots
    VerdictsPayTheRecord
CHECK_DEADLOCK FALSE
