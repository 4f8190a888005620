SPECIFICATION GovernorSpec
CONSTANTS
    u1 = u1
    u2 = u2
    Users <- UsersMC
    CREATE_PROPOSAL_MIN_SHARE = 40
    VOTING_PERIOD = 1
    ShareAmounts = {0, 1, 40}
    MaxProposals = 2
    StartTime = 2
    MaxTime = 5
SYMMETRY Symmetry
INVARIANTS
    GovernorTypeOK
    CountersCoverOpen
    ScanFindsLive
    VotesCountedOnce
PROPERTIES
    StatusChangesAreJustified
CHECK_DEADLOCK FALSE
