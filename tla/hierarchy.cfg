SPECIFICATION HierarchySpec
CONSTANTS
    u1 = u1
    u2 = u2
    Users <- UsersMC
    InitialRanks <- FreshRanksMC
    MaxTally = 3
    MaxSetting = 2
SYMMETRY Symmetry
INVARIANTS
    HierarchyTypeOK
    NoTallyBeyondReach
