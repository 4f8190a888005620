SPECIFICATION FirstSpec
CONSTANTS
    u1 = u1
    u2 = u2
    c1 = c1
    c2 = c2
    Users <- UsersMC
    Contracts <- ContractsMC
    submitFloorPrice = 100
    voteCooldown = 0
    tokensPerVote = 1
    MaxVotes <- MaxVotesMC
    ValidationsNeeded <- ValidationsNeededMC
    votesNeeded <- votesNeededMC
    InitialRanks <- InitialRanksMC
    InitialMembers <- InitialMembersMC
    InitialMobl = 4
    RankMovers <- UsersMC
    Payments = {150}
    MaxSubmissions = 2
    MaxOnRecord = 5
    MaxTally = 2
    MaxTime = 2
SYMMETRY Symmetry
CONSTRAINT Bounded
INVARIANTS
    FirstTypeOK
    NoContractPendingTwice
    NothingSavedTwice
    RewardsMatchGoodVotes
PROPERTIES
    IndicesStay
CHECK_DEADLOCK FALSE
