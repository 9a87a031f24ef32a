CONSTANTS
    a1 = a1
    a2 = a2
    Accounts = {a1, a2}
    Zero = Zero
    Vetoers = {v1}
    InitialVotes <- TwoVoters
    InitialSupply = 3
    Moves <- BothWays
    MaxSupply = 4
    CallLists <- RefusedList
    Supports = {0, 1, 2}
    VotingDelays = {1}
    VotingPeriods = {1}
    ThresholdBPSs = {2500}
    MinQuorumBPSs = {2000}
    MaxQuorumBPSs = {6000}
    Coefficients = {200000}
    MINIMUM_DELAY = 1
    MAXIMUM_DELAY = 1
    GRACE_PERIOD = 2
    BlockTimes = {1}
    MaxProposals = 1
    MaxBlock = 6
SPECIFICATION Spec
INVARIANTS
    EachVoteCountsOnce
PROPERTIES
    VetoBurnedForever
CHECK_DEADLOCK FALSE
