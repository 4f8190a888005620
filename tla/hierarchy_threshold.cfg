SPECIFICATION VotesOnlySpec
CONSTANTS
    u1 = u1
    u2 = u2
    Users <- UsersMC
    InitialRanks <- SeededRanksMC
    MaxTally = 3
    MaxSetting = 2
INVARIANT PromotedAtThreshold
CHECK_DEADLOCK FALSE
