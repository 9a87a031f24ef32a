SPECIFICATION Spec
CONSTANTS
    None = None
    Me = "me"
    Other = "other"
    Reserved = 2
    Duration = 1
    TimeBuffer = 2
    SettleWait = 0
    Day = 1
    FirstAlp = 1
    MaxAlp = 3
    MaxBid = 2
    MaxBids = 2
    MaxNow = 2
    MaxDeeds = 1
    Pages <- MCPages
CONSTRAINT OneThingAtATime
INVARIANTS
    BidsOfTheirAuction
    CaughtUpShowsHouse
    ShownInRange
    SettleOfferedWhenOver
    OwnBidsWereClicked
CHECK_DEADLOCK FALSE
