CONSTANTS
    Zero = Zero
    None = None
    a1 = a1
    a2 = a2
    Holders = {a1, a2}
    House = House
    Treasury = Treasury
    HallOfFame = HallOfFame
    RewardIds = {1}
    Alper = a1
    ParamSets <- MCParamSets
    FirstParams <- Growing
    MaxAlps = 2
    MaxProposals = 1
    MaxBlock = 3
    MaxTx = 7
SPECIFICATION Spec
CHECK_DEADLOCK FALSE
INVARIANTS
    HoldersMirrored
    VotesMirrored
    QuorumMirrored
    ProposalsMirrored
    AuctionMirrored
