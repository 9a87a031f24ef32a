CONSTANTS
    a1 = a1
    a2 = a2
    Accounts = {a1, a2}
    Zero = Zero
    Vetoers = {}
    InitialVotes <- UnevenVoters
    InitialSupply = 5
    Moves = {}
    MaxSupply = 5
    CallLists <- MixedLists
    Supports = {0, 1}
    VotingDelays = {1}
    VotingPeriods = {1}
    ThresholdBPSs = {2500}
    MinQuorumBPSs = {2000, 6000}
    MaxQuorumBPSs = {6000}
    Coefficients = {200000}
    MINIMUM_DELAY = 1
    MAXIMUM_DELAY = 2
    GRACE_PERIOD = 1
    BlockTimes = {1}
    MaxProposals = 2
    MaxBlock = 6
SPECIFICATION Spec
INVARIANTS
    OneLiveProposal
    OnlyApprovedQueued
    ExecutedOnce
PROPERTIES
    QuorumSettled
    ImplementsLifecycle
CHECK_DEADLOCK FALSE
