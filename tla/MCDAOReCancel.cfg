CONSTANTS
    a1 = a1
    a2 = a2
    Accounts = {a1, a2}
    Zero = Zero
    Vetoers = {}
    InitialVotes <- EvenVoters
    InitialSupply = 2
    Moves = {}
    MaxSupply = 2
    CallLists <- OneList
    Supports = {1}
    VotingDelays = {1}
    VotingPeriods = {1}
    ThresholdBPSs = {2500}
    MinQuorumBPSs = {2000}
    MaxQuorumBPSs = {6000}
    Coefficients = {200000}
    MINIMUM_DELAY = 1
    MAXIMUM_DELAY = 1
    GRACE_PERIOD = 2
    BlockTimes = {1}
    MaxProposals = 2
    MaxBlock = 7
SPECIFICATION Spec
INVARIANTS
    QueuedIsExecutable
CHECK_DEADLOCK FALSE
