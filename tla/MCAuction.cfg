CONSTANTS
    Bidders = {b1, b2}
    Rejecting = {b2}
    Owner = Owner
    House = House
    HallOfFame = HallOfFame
    AlpersDAO = AlpersDAO
    AlpsCouncil = AlpsCouncil
    Zero = Zero
    Funds = 4
    Bids = {0, 1, 2, 3}
    MaxTime = 5
    Duration = 2
    TimeBuffers = {0, 1, 2}
    ReservePrices = {0, 2}
    Increments = {50}
    MintModes = {"ok", "error", "panic"}
SPECIFICATION FairSpec
INVARIANTS
    Solvent
    NoAlpStranded
PROPERTIES
    EndTimeNeverEarlier
    ImplementsAuction
    AuctionSettlesUnlessPanic
