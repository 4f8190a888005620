SPECIFICATION StakingSpec
CONSTANTS
    u1 = u1
    u2 = u2
    u3 = u3
    Vault = Vault
    Users <- UsersMC
    maximumLocked = 3
    RewardUnit = 2
    InitialSafu = 2
    Amounts = {1,2}
    Rates = {0, 3}
    MaxSent = 2
    MaxBlock = 3
SYMMETRY Symmetry
INVARIANTS
    StakingTypeOK
    StakersConsistent
    StakesAreBacked
    LockedIsSum
PROPERTIES
    EarnedIsKept
CHECK_DEADLOCK FALSE
