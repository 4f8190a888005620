SPECIFICATION CrossChainSafety
CONSTANTS
    NoUser = NoUser
    Protocol = Protocol
    Treasury = Treasury
    CrosschainSender = CrosschainSender
    Relayer = Relayer
    u1 = u1
    Users <- OneUser
    Relayers = {Relayer, u1}
    InitialRanks <- RankII
    InitialWhitelist = {}
    InitialConfig <- ConfigMC
    InitialStable = 50
    InitialMobl = 0
    Settings <- NoSettings
    WhitelistChanges = {}
    MovingRanks = {}
    OwnerMoves = {}
    PaymentAmounts = {50}
    WithdrawAmounts = {50}
    Scores = {5}
    StartTime = 1
    MaxTime = 1
    MaxPhase = 2
    MaxListings = 3
    InitialSourceStable = 100
    SourceAmounts = {0, 50}
    MaxMessages = 2
INVARIANT PaymentsAreCreditedOrInFlight
CHECK_DEADLOCK FALSE
