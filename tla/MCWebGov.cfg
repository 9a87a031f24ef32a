SPECIFICATION FairSpec
CONSTANTS
    None = None
    Failed = Failed
    Grace = 1
    Unit = 10
    Mine = {"me", "poor"}
    Others = {"whale"}
    Proposer = "me"
    Balance <- MCBalance
    Created = 0
    Start = 1
    End = 3
    Delay = 1
    ParamsAt <- MCParamsAt
    Supply = 7
    Threshold = 0
    LogBlocks = {1, 2, 4}
    PerCall = 2
    Names <- MCNames
    NameOf <- MCNameOf
    ABI <- MCABI
    Arity <- MCArity
    Pages = {"vote", "list", "offline", "create", "form", "delegate"}
    Supports = {0, 1}
    MaxBlock = 6
    MaxDeeds = 2
    MaxChanges = 1
    MaxCalls = 2
INVARIANTS
    PageShowsChain
    SuccessIsReal
    CalldataMatchesSignature
    LogsComplete
PROPERTY SpinnerEnds
CHECK_DEADLOCK FALSE
