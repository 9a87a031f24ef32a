CONSTANTS
    Bidders = {b1, b2}
    Rejecting = {b2}
    Owner = Owner
    House = House
    HallOfFame = HallOfFame
    AlpersDAO = AlpersDAO
    AlpsCouncil = AlpsCouncil
    Zero = Zero
    Funds = 2
    Bids = {1, 2}
    MaxTime = 5
    Duration = 2
    TimeBuffers = {1}
    ReservePrices = {1}
    Increments = {50}
    MintModes = {"ok", "error", "panic"}
SPECIFICATION FairSpec
PROPERTIES
    EndedAuctionSettles
