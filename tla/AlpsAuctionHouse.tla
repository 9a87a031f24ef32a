-------------------------- MODULE AlpsAuctionHouse --------------------------
(***************************************************************************)
(* AlpsAuctionHouse.sol with the part of AlpsToken.sol it drives: mint()   *)
(* and the custody of the Alp on sale. A transaction is one action, except *)
(* createBid, which calls the last bidder in the middle: the call is the   *)
(* state between CreateBid and FinishBid, in which the code the bidder     *)
(* runs may try to enter the house again.                                  *)
(*                                                                         *)
(* Money is counted per account, in ETH, which bidders start with and can  *)
(* bid, and in WETH, which they cannot.                                    *)
(***************************************************************************)
EXTENDS Integers, Sequences

CONSTANTS
    Bidders,         \* the accounts that bid
    Rejecting,       \* the accounts that do not accept ETH within 30,000 gas
    Owner,           \* the owner of the house, who is paid at settlement
    House,           \* the address of the house itself
    HallOfFame,      \* where _settleAuction sends an Alp without a bid
    AlpersDAO,       \* holders of the reward Alps
    AlpsCouncil,
    Zero,            \* address(0)
    Funds,           \* the ETH each bidder starts with
    Bids,            \* bound: the amounts bidders send
    MaxTime,         \* bound: block.timestamp stops here
    Duration,        \* the duration given to initialize
    TimeBuffers,     \* the values initialize and the setters choose from
    ReservePrices,
    Increments,
    MintModes        \* how a call of mint() by the house may end

Accounts == Bidders \cup {Owner}
Holders == Accounts \cup {House, HallOfFame, AlpersDAO, AlpsCouncil}

ASSUME AccountsAssumption ==
    /\ Rejecting \subseteq Accounts
    /\ Owner \notin Bidders
    /\ Zero \notin Holders
    /\ House \notin Accounts \cup {HallOfFame, AlpersDAO, AlpsCouncil}
ASSUME NumbersAssumption ==
    /\ Funds \in Nat /\ Bids \subseteq Nat /\ MaxTime \in Nat \ {0} /\ Duration \in Nat
    /\ TimeBuffers \subseteq Nat /\ ReservePrices \subseteq Nat /\ Increments \subseteq Nat
    /\ "ok" \in MintModes /\ MintModes \subseteq {"ok", "error", "panic"}

VARIABLES
    now,             \* block.timestamp
    paused,
    auction,         \* the auction storage struct
    timeBuffer,
    reservePrice,
    minBidIncrementPercentage,
    bidding,         \* the createBid whose refund call is under way: the lock of nonReentrant
    balance,         \* the ETH the house holds
    eth,             \* the ETH of each account
    weth,            \* the WETH of each account
    currentAlpId,    \* AlpsToken: the next id to mint
    holder,          \* AlpsToken: the owner of each Alp minted
    mintMode,        \* AlpsToken: how a call of mint() by the house ends
    sales            \* the AuctionSettled events

tokenVars == <<currentAlpId, holder, mintMode>>
moneyVars == <<balance, eth, weth>>
paramVars == <<timeBuffer, reservePrice, minBidIncrementPercentage>>
vars == <<now, paused, auction, paramVars, bidding, moneyVars, tokenVars, sales>>

NoBid == [bidder |-> Zero, value |-> 0, endTime |-> 0]

\* The state initialize leaves: paused, no auction yet.
Init ==
    /\ now = 1
    /\ paused = TRUE
    /\ auction = [alpId |-> 0, amount |-> 0, startTime |-> 0, endTime |-> 0,
                  bidder |-> Zero, settled |-> FALSE]
    /\ timeBuffer \in TimeBuffers
    /\ reservePrice \in ReservePrices
    /\ minBidIncrementPercentage \in Increments
    /\ bidding = NoBid
    /\ balance = 0
    /\ eth = [a \in Accounts |-> IF a = Owner THEN 0 ELSE Funds]
    /\ weth = [a \in Accounts |-> 0]
    /\ currentAlpId = 0
    /\ holder = << >>
    /\ mintMode = "ok"
    /\ sales = << >>

-----------------------------------------------------------------------------
\* A fault: the house can be entered during the refund of a bid.
Reentrant == TRUE

\* nonReentrant: no other guarded call is under way.
NonReentrant == bidding = NoBid

\* No transaction is under way: during the refund of createBid only the code
\* of the last bidder runs, and that is not the owner of the house or of the
\* token.
NoTransaction == bidding = NoBid

HasBegun == auction.startTime # 0

\* The smallest bid the percentage allows: the division rounds down.
MinimumBid == auction.amount + (auction.amount * minBidIncrementPercentage) \div 100

\* A fault: a refund that is rejected is dropped.
NoFallback(a, to, amount) == 0

\* _safeTransferETHWithFallback(): ETH, or WETH to an account that rejects it.
EthPaid(a, to, amount) == IF a = to /\ a \notin Rejecting THEN amount ELSE 0
WethPaid(a, to, amount) == IF a = to /\ a \in Rejecting THEN amount ELSE 0

\* The refund of createBid: nothing before the first bid.
Refund == IF auction.bidder = Zero THEN 0 ELSE auction.amount

\* AlpsToken.mint(): every tenth Alp first mints a reward for the alpers DAO,
\* every other fifth one for the council.
RewardOf(id) == IF id <= 14600 /\ id % 10 = 0 THEN {AlpersDAO}
                ELSE IF id <= 14600 /\ id % 5 = 0 THEN {AlpsCouncil}
                ELSE {}
MintedId == IF RewardOf(currentAlpId) = {} THEN currentAlpId ELSE currentAlpId + 1
Minted(held) ==
    [id \in 0..MintedId |->
        IF id < currentAlpId THEN held[id]
        ELSE IF id = MintedId THEN House
        ELSE CHOOSE r \in RewardOf(id) : TRUE]

\* A fault: a mint that reverts is not caught.
CreateAuctionUncaught(settledAuction, held, isPaused) ==
    /\ mintMode = "ok"
    /\ holder' = Minted(held)
    /\ currentAlpId' = MintedId + 1
    /\ auction' = [alpId |-> MintedId, amount |-> 0, startTime |-> now,
                   endTime |-> now + Duration, bidder |-> Zero, settled |-> FALSE]
    /\ paused' = isPaused

\* _createAuction() on the state the caller has reached: a mint that reverts
\* with a message pauses the house, any other revert is not caught.
CreateAuction(settledAuction, held, isPaused) ==
    \/ /\ mintMode = "ok"
       /\ holder' = Minted(held)
       /\ currentAlpId' = MintedId + 1
       /\ auction' = [alpId |-> MintedId, amount |-> 0, startTime |-> now,
                      endTime |-> now + Duration, bidder |-> Zero, settled |-> FALSE]
       /\ paused' = isPaused
    \/ /\ mintMode = "error"
       /\ ~isPaused
       /\ paused' = TRUE
       /\ auction' = settledAuction
       /\ holder' = held
       /\ UNCHANGED currentAlpId

\* _settleAuction(): the checks (the last one is transferFrom's), who gets the
\* Alp, and the payment to the owner.
CanSettle ==
    /\ HasBegun
    /\ ~auction.settled
    /\ now >= auction.endTime
    /\ holder[auction.alpId] = House
Winner == IF auction.bidder = Zero THEN HallOfFame ELSE auction.bidder
SettledAuction == [auction EXCEPT !.settled = TRUE]
SettledHolder == [holder EXCEPT ![auction.alpId] = Winner]
PayOwner ==
    /\ balance >= auction.amount
    /\ balance' = balance - auction.amount
    /\ eth' = [a \in Accounts |-> eth[a] + EthPaid(a, Owner, auction.amount)]
    /\ weth' = [a \in Accounts |-> weth[a] + WethPaid(a, Owner, auction.amount)]
    /\ sales' = Append(sales, [id |-> auction.alpId, price |-> auction.amount, winner |-> Winner])

-----------------------------------------------------------------------------
\* createBid(), up to the refund of the last bidder, which hands over control.
CreateBid(sender, alpId, value) ==
    /\ NonReentrant
    /\ value <= eth[sender]
    /\ alpId = auction.alpId
    /\ now < auction.endTime
    /\ value >= reservePrice
    /\ value >= MinimumBid
    /\ bidding' = [bidder |-> sender, value |-> value, endTime |-> auction.endTime]
    /\ balance + value >= Refund
    /\ balance' = balance + value - Refund
    /\ eth' = [a \in Accounts |-> eth[a] - (IF a = sender THEN value ELSE 0)
                                         + EthPaid(a, auction.bidder, auction.amount)]
    /\ weth' = [a \in Accounts |-> weth[a] + WethPaid(a, auction.bidder, auction.amount)]
    /\ UNCHANGED <<now, paused, auction, paramVars, tokenVars, sales>>

\* A fault: a bid sets the end of the auction even when it is further away.
FinishBidShortens ==
    /\ bidding # NoBid
    /\ auction' = [auction EXCEPT
          !.amount = bidding.value, !.bidder = bidding.bidder, !.endTime = now + timeBuffer]
    /\ bidding' = NoBid
    /\ UNCHANGED <<now, paused, paramVars, moneyVars, tokenVars, sales>>

\* createBid(), from the return of the refund: the new bid is stored, and the
\* end of the auction moves when it is closer than timeBuffer.
FinishBid ==
    /\ bidding # NoBid
    /\ auction' = [auction EXCEPT
          !.amount = bidding.value,
          !.bidder = bidding.bidder,
          !.endTime = IF bidding.endTime - now < timeBuffer THEN now + timeBuffer ELSE @]
    /\ bidding' = NoBid
    /\ UNCHANGED <<now, paused, paramVars, moneyVars, tokenVars, sales>>

\* settleCurrentAndCreateNewAuction()
SettleCurrentAndCreateNewAuction ==
    /\ NonReentrant
    /\ ~paused
    /\ CanSettle
    /\ PayOwner
    /\ CreateAuction(SettledAuction, SettledHolder, paused)
    /\ UNCHANGED <<now, paramVars, bidding, mintMode>>

\* settleAuction()
SettleAuction ==
    /\ paused
    /\ NonReentrant
    /\ CanSettle
    /\ PayOwner
    /\ auction' = SettledAuction
    /\ holder' = SettledHolder
    /\ UNCHANGED <<now, paused, paramVars, bidding, currentAlpId, mintMode>>

\* pause()
Pause ==
    /\ NoTransaction
    /\ ~paused
    /\ paused' = TRUE
    /\ UNCHANGED <<now, auction, paramVars, bidding, moneyVars, tokenVars, sales>>

\* A fault: unpausing starts an auction although one is under way.
UnpauseAnew ==
    /\ NoTransaction
    /\ paused
    /\ CreateAuction(auction, holder, FALSE)
    /\ UNCHANGED <<now, paramVars, bidding, moneyVars, mintMode, sales>>

\* unpause(), which starts an auction when none is under way.
Unpause ==
    /\ NoTransaction
    /\ paused
    /\ \/ /\ ~HasBegun \/ auction.settled
          /\ CreateAuction(auction, holder, FALSE)
       \/ /\ HasBegun /\ ~auction.settled
          /\ paused' = FALSE
          /\ UNCHANGED <<auction, currentAlpId, holder>>
    /\ UNCHANGED <<now, paramVars, bidding, moneyVars, mintMode, sales>>

\* setTimeBuffer(), setReservePrice() and setMinBidIncrementPercentage().
SetTimeBuffer ==
    /\ NoTransaction
    /\ timeBuffer' \in TimeBuffers
    /\ UNCHANGED <<now, paused, auction, reservePrice, minBidIncrementPercentage, bidding,
                   moneyVars, tokenVars, sales>>
SetReservePrice ==
    /\ NoTransaction
    /\ reservePrice' \in ReservePrices
    /\ UNCHANGED <<now, paused, auction, timeBuffer, minBidIncrementPercentage, bidding,
                   moneyVars, tokenVars, sales>>
SetMinBidIncrementPercentage ==
    /\ NoTransaction
    /\ minBidIncrementPercentage' \in Increments
    /\ UNCHANGED <<now, paused, auction, timeBuffer, reservePrice, bidding,
                   moneyVars, tokenVars, sales>>

\* The owner of the token replaces its minter ("error": mint() reverts with a
\* message) or its seeder or descriptor ("panic": it reverts without one).
SetMintMode ==
    /\ NoTransaction
    /\ mintMode' \in MintModes
    /\ UNCHANGED <<now, paused, auction, paramVars, bidding, moneyVars, currentAlpId, holder, sales>>

\* A new block with a later timestamp.
Tick ==
    /\ NoTransaction
    /\ now < MaxTime
    /\ now' = now + 1
    /\ UNCHANGED <<paused, auction, paramVars, bidding, moneyVars, tokenVars, sales>>

Settle == SettleCurrentAndCreateNewAuction \/ SettleAuction

Next ==
    \/ \E sender \in Bidders, alpId \in DOMAIN holder, value \in Bids : CreateBid(sender, alpId, value)
    \/ FinishBid
    \/ SettleCurrentAndCreateNewAuction
    \/ SettleAuction
    \/ Pause
    \/ Unpause
    \/ SetTimeBuffer
    \/ SetReservePrice
    \/ SetMinBidIncrementPercentage
    \/ SetMintMode
    \/ Tick

Spec == Init /\ [][Next]_vars

\* Anyone can settle, and a transaction that has started finishes.
FairSpec == Spec /\ WF_vars(FinishBid) /\ WF_vars(Settle)

-----------------------------------------------------------------------------
Auction == [alpId : Nat, amount : Nat, startTime : Nat, endTime : Nat,
            bidder : Bidders \cup {Zero}, settled : BOOLEAN]
Sale == [id : Nat, price : Nat, winner : Bidders \cup {HallOfFame}]

\* The types of the variables; an Alp id has a holder exactly when minted, the
\* Alp of the auction included.
TypeOK ==
    /\ now \in 1..MaxTime
    /\ paused \in BOOLEAN
    /\ auction \in Auction
    /\ timeBuffer \in TimeBuffers
    /\ reservePrice \in ReservePrices
    /\ minBidIncrementPercentage \in Increments
    /\ bidding \in [bidder : Bidders \cup {Zero}, value : Nat, endTime : Nat]
    /\ balance \in Nat
    /\ eth \in [Accounts -> Nat]
    /\ weth \in [Accounts -> Nat]
    /\ currentAlpId \in Nat
    /\ holder \in [0..(currentAlpId - 1) -> Holders]
    /\ HasBegun => auction.alpId < currentAlpId
    /\ mintMode \in MintModes
    /\ sales \in Seq(Sale)

OnSale == HasBegun /\ ~auction.settled

\* The money at stake: the bid under way, or the best bid until it is settled.
Escrow == IF bidding # NoBid THEN bidding.value
          ELSE IF OnSale THEN auction.amount ELSE 0

\* The house holds the money at stake and nothing else: no refund, payment or
\* fallback to WETH leaves ETH behind or spends the same ETH twice, not even
\* when the refunded bidder calls back into the house.
Solvent == balance = Escrow

\* The house holds the Alp on sale and no other: whatever pauses, failed mints
\* and settlements happen in between, no Alp is stranded in the house.
NoAlpStranded ==
    {id \in DOMAIN holder : holder[id] = House} = IF OnSale THEN {auction.alpId} ELSE {}

\* A live auction never ends earlier than it was last announced to, through
\* bids, changes of timeBuffer and pauses.
EndTimeNeverEarlier ==
    [][OnSale /\ auction'.alpId = auction.alpId => auction'.endTime >= auction.endTime]_vars

\* An auction that is over is settled, whatever the owner does with pause and
\* unpause: one of the two settling calls is always open to anyone.
EndedAuctionSettles ==
    \A n \in 0..MaxTime :
        (OnSale /\ now >= auction.endTime /\ Len(sales) = n) ~> Len(sales) > n

\* The same while minting does not panic: also when the minter was replaced, the only
\* failure _createAuction is written for.
AuctionSettlesUnlessPanic ==
    \A n \in 0..MaxTime :
        (OnSale /\ now >= auction.endTime /\ Len(sales) = n) ~>
            (Len(sales) > n \/ mintMode = "panic")

\* An Alp nobody has bid on no longer exists once its auction is settled ("If
\* there are no bids, the Alp is burned").
UnsoldAlpBurned ==
    \A i \in 1..Len(sales) :
        sales[i].winner = HallOfFame => holder[sales[i].id] \notin Holders

-----------------------------------------------------------------------------
\* The refinement: between CreateBid and FinishBid the new bid already stands
\* in the abstract auction, WETH is as good as ETH, and time, pauses and
\* parameters are hidden.
Lot == [id     |-> auction.alpId,
        price  |-> IF bidding # NoBid THEN bidding.value ELSE auction.amount,
        leader |-> IF bidding # NoBid THEN bidding.bidder ELSE auction.bidder,
        open   |-> OnSale]
Money == [a \in Accounts |-> eth[a] + weth[a]]

Auctions == INSTANCE EnglishAuction WITH Nobody <- Zero, lot <- Lot, money <- Money

\* The house with its pauses, lock, fallbacks and failing mints implements the
\* English auction: every account's money and every sale is as it promises.
ImplementsAuction == Auctions!Spec
=============================================================================
