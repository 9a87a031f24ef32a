----------------------- MODULE AlpsAuctionHouse_proofs -----------------------
(***************************************************************************)
(* Proofs about AlpsAuctionHouse for any bidders, amounts, parameters and  *)
(* time bound: the house is solvent, strands no Alp, never shortens an     *)
(* auction, and implements the English auction.                            *)
(***************************************************************************)
EXTENDS AlpsAuctionHouse, TLAPS

\* While the refund of a bid is under way the auction it bids on is live.
BidUnderWay ==
    bidding # NoBid => /\ OnSale
                       /\ now < auction.endTime
                       /\ bidding.bidder \in Bidders
                       /\ bidding.endTime = auction.endTime

\* An auction that takes no more bids is over; one without a bidder has no amount.
AuctionConsistent ==
    /\ ~OnSale => now >= auction.endTime
    /\ auction.bidder = Zero => auction.amount = 0

\* No Alp was sold before it was minted, and none is sold twice.
SoldOnce ==
    \A i \in 1..Len(sales) : /\ sales[i].id < currentAlpId
                             /\ OnSale => sales[i].id # auction.alpId

\* The inductive invariant.
HouseInv ==
    /\ TypeOK
    /\ Solvent
    /\ NoAlpStranded
    /\ BidUnderWay
    /\ AuctionConsistent
    /\ SoldOnce

-----------------------------------------------------------------------------
\* Every mint gives the house one new Alp and touches none minted before.
LEMMA MintedFacts ==
    ASSUME currentAlpId \in Nat, NEW held \in [0..(currentAlpId - 1) -> Holders]
    PROVE  /\ MintedId \in Nat /\ MintedId >= currentAlpId
           /\ Minted(held) \in [0..MintedId -> Holders]
           /\ \A id \in 0..(currentAlpId - 1) : Minted(held)[id] = held[id]
           /\ \A id \in currentAlpId..MintedId : Minted(held)[id] = House <=> id = MintedId
<1>1. MintedId \in {currentAlpId, currentAlpId + 1}  BY DEF MintedId
<1>2. RewardOf(currentAlpId) \subseteq {AlpersDAO, AlpsCouncil}  BY DEF RewardOf
<1>3. ASSUME NEW id \in currentAlpId..MintedId
      PROVE  Minted(held)[id] \in Holders /\ (Minted(held)[id] = House <=> id = MintedId)
  <2>1. CASE id = MintedId
    <3>1. ~(id < currentAlpId)  BY <1>1
    <3>2. id \in 0..MintedId  BY <1>1, <2>1
    <3>3. Minted(held)[id] = House  BY <2>1, <3>1, <3>2 DEF Minted
    <3> QED  BY <2>1, <3>3 DEF Holders
  <2>2. CASE id # MintedId
    <3>1. id = currentAlpId /\ MintedId = currentAlpId + 1  BY <1>1, <2>2
    <3>2. RewardOf(id) # {}  BY <3>1 DEF MintedId
    <3> DEFINE r == CHOOSE x \in RewardOf(id) : TRUE
    <3>3. r \in {AlpersDAO, AlpsCouncil}  BY <1>2, <3>1, <3>2
    <3>4. Minted(held)[id] = r  BY <2>2, <3>1 DEF Minted
    <3> HIDE DEF r
    <3> QED  BY <2>2, <3>3, <3>4, AccountsAssumption DEF Holders
  <2> QED  BY <2>1, <2>2
<1>4. \A id \in 0..(currentAlpId - 1) : Minted(held)[id] = held[id]
  BY <1>1 DEF Minted
<1>5. ASSUME NEW id \in 0..MintedId
      PROVE  Minted(held)[id] \in Holders
  <2>1. id \in 0..(currentAlpId - 1) \/ id \in currentAlpId..MintedId  BY <1>1
  <2> QED  BY <1>3, <1>4, <2>1
<1>6. Minted(held) \in [0..MintedId -> Holders]
  <2>1. \E g : Minted(held) = [id \in 0..MintedId |-> g[id]] /\ \A id \in 0..MintedId : g[id] \in Holders
    <3>1. Minted(held) = [id \in 0..MintedId |-> Minted(held)[id]]  BY DEF Minted
    <3> QED  BY <1>5, <3>1
  <2> QED  BY <2>1
<1> QED  BY <1>1, <1>3, <1>4, <1>6

\* Money received in one currency or the other is a natural number.
LEMMA PaidFacts ==
    ASSUME NEW a, NEW to, NEW amount \in Nat
    PROVE  /\ EthPaid(a, to, amount) \in Nat /\ WethPaid(a, to, amount) \in Nat
           /\ EthPaid(a, to, amount) + WethPaid(a, to, amount) = IF a = to THEN amount ELSE 0
BY DEF EthPaid, WethPaid

-----------------------------------------------------------------------------
LEMMA InitHouseInv == Init => HouseInv
<1> SUFFICES ASSUME Init PROVE HouseInv
  OBVIOUS
<1>1. ~HasBegun /\ ~OnSale  BY DEF Init, HasBegun, OnSale
<1>2. TypeOK
  <2>1. auction \in Auction /\ bidding \in [bidder : Bidders \cup {Zero}, value : Nat, endTime : Nat]
    BY DEF Init, Auction, NoBid
  <2>2. /\ eth \in [Accounts -> Nat] /\ weth \in [Accounts -> Nat]
    BY NumbersAssumption DEF Init
  <2>3. holder \in [0..(currentAlpId - 1) -> Holders]  BY DEF Init
  <2>4. sales \in Seq(Sale)  BY DEF Init
  <2>5. now \in 1..MaxTime /\ balance \in Nat /\ currentAlpId \in Nat /\ mintMode \in MintModes
    BY NumbersAssumption DEF Init
  <2> QED  BY <1>1, <2>1, <2>2, <2>3, <2>4, <2>5 DEF Init, TypeOK
<1>3. Solvent  BY <1>1 DEF Init, Solvent, Escrow
<1>4. NoAlpStranded  BY <1>1 DEF Init, NoAlpStranded
<1>5. BidUnderWay /\ AuctionConsistent /\ SoldOnce
  BY DEF Init, BidUnderWay, AuctionConsistent, SoldOnce
<1> QED  BY <1>2, <1>3, <1>4, <1>5 DEF HouseInv

-----------------------------------------------------------------------------
\* What _createAuction does to an auction that is over and to the holders: it
\* puts one new Alp on sale, or pauses and leaves both alone.
LEMMA CreateAuctionFacts ==
    ASSUME now \in 1..MaxTime, currentAlpId \in Nat,
           NEW sa \in Auction, NEW held \in [0..(currentAlpId - 1) -> Holders],
           NEW p \in BOOLEAN, CreateAuction(sa, held, p),
           \A id \in 0..(currentAlpId - 1) : held[id] # House,
           sa.startTime = 0 \/ sa.settled,
           sa.startTime # 0 => sa.alpId < currentAlpId,
           now >= sa.endTime,
           sa.bidder = Zero => sa.amount = 0
    PROVE  /\ paused' \in BOOLEAN /\ auction' \in Auction
           /\ currentAlpId' \in Nat /\ currentAlpId' >= currentAlpId
           /\ holder' \in [0..(currentAlpId' - 1) -> Holders]
           /\ HasBegun' => auction'.alpId < currentAlpId'
           /\ NoAlpStranded'
           /\ ~OnSale' => now >= auction'.endTime
           /\ auction'.bidder = Zero => auction'.amount = 0
           /\ OnSale' => /\ auction'.alpId >= currentAlpId
                         /\ auction' = [alpId |-> auction'.alpId, amount |-> 0, startTime |-> now,
                                        endTime |-> now + Duration, bidder |-> Zero, settled |-> FALSE]
           /\ ~OnSale' => auction' = sa
<1>1. ASSUME mintMode = "ok",
             holder' = Minted(held),
             currentAlpId' = MintedId + 1,
             auction' = [alpId |-> MintedId, amount |-> 0, startTime |-> now,
                         endTime |-> now + Duration, bidder |-> Zero, settled |-> FALSE],
             paused' = p
      PROVE  /\ paused' \in BOOLEAN /\ auction' \in Auction
             /\ currentAlpId' \in Nat /\ currentAlpId' >= currentAlpId
             /\ holder' \in [0..(currentAlpId' - 1) -> Holders]
             /\ auction'.alpId < currentAlpId' /\ auction'.alpId >= currentAlpId
             /\ OnSale' /\ HasBegun'
             /\ NoAlpStranded'
             /\ auction'.amount = 0
  <2>1. /\ MintedId \in Nat /\ MintedId >= currentAlpId
        /\ Minted(held) \in [0..MintedId -> Holders]
        /\ \A id \in 0..(currentAlpId - 1) : Minted(held)[id] = held[id]
        /\ \A id \in currentAlpId..MintedId : Minted(held)[id] = House <=> id = MintedId
    BY MintedFacts
  <2>2. OnSale' /\ HasBegun'  BY <1>1 DEF OnSale, HasBegun
  <2>3. auction' \in Auction  BY <1>1, <2>1, NumbersAssumption DEF Auction
  <2>4. \A id \in 0..MintedId : Minted(held)[id] = House <=> id = MintedId
    <3>1. \A id \in 0..MintedId : id \in 0..(currentAlpId - 1) \/ id \in currentAlpId..MintedId
      BY <2>1
    <3>2. MintedId \in currentAlpId..MintedId  BY <2>1
    <3> QED  BY <2>1, <3>1, <3>2
  <2>5. DOMAIN holder' = 0..MintedId  BY <1>1, <2>1
  <2>6. NoAlpStranded'
    BY <1>1, <2>1, <2>2, <2>4, <2>5 DEF NoAlpStranded
  <2> QED  BY <1>1, <2>1, <2>2, <2>3, <2>6
<1>2. ASSUME auction' = sa, holder' = held, currentAlpId' = currentAlpId, paused' = TRUE
      PROVE  /\ ~OnSale'
             /\ NoAlpStranded'
             /\ HasBegun' => auction'.alpId < currentAlpId'
             /\ auction'.bidder = Zero => auction'.amount = 0
  <2>1. ~OnSale'  BY <1>2 DEF OnSale, HasBegun
  <2>2. NoAlpStranded'  BY <1>2, <2>1 DEF NoAlpStranded
  <2> QED  BY <1>2, <2>1, <2>2 DEF HasBegun
<1>3. \/ /\ mintMode = "ok"
         /\ holder' = Minted(held)
         /\ currentAlpId' = MintedId + 1
         /\ auction' = [alpId |-> MintedId, amount |-> 0, startTime |-> now,
                        endTime |-> now + Duration, bidder |-> Zero, settled |-> FALSE]
         /\ paused' = p
      \/ auction' = sa /\ holder' = held /\ currentAlpId' = currentAlpId /\ paused' = TRUE
  BY DEF CreateAuction
<1>4. CASE OnSale'
  <2>1. mintMode = "ok" /\ holder' = Minted(held) /\ currentAlpId' = MintedId + 1
        /\ auction' = [alpId |-> MintedId, amount |-> 0, startTime |-> now,
                       endTime |-> now + Duration, bidder |-> Zero, settled |-> FALSE]
        /\ paused' = p
    BY <1>2, <1>3, <1>4
  <2> QED  BY <1>1, <1>4, <2>1
<1>5. CASE ~OnSale'
  <2>1. auction' = sa /\ holder' = held /\ currentAlpId' = currentAlpId /\ paused' = TRUE
    BY <1>1, <1>3, <1>5
  <2> QED  BY <1>2, <1>5, <2>1
<1> QED  BY <1>4, <1>5

-----------------------------------------------------------------------------
\* A step that leaves the auction, the money and the Alps alone.
LEMMA QuietStep ==
    ASSUME HouseInv, TypeOK', now' >= now, bidding # NoBid => now' = now,
           UNCHANGED <<auction, bidding, moneyVars, currentAlpId, holder, sales>>
    PROVE  HouseInv'
<1>1. OnSale' = OnSale /\ HasBegun' = HasBegun  BY DEF OnSale, HasBegun
<1>2. Solvent'  BY <1>1 DEF HouseInv, Solvent, Escrow, moneyVars, NoBid
<1>3. NoAlpStranded'  BY <1>1 DEF HouseInv, NoAlpStranded
<1>4. BidUnderWay'  BY <1>1 DEF HouseInv, BidUnderWay, NoBid
<1>5. AuctionConsistent'
  <2>1. now \in Nat /\ now' \in Nat /\ auction.endTime \in Nat
    BY NumbersAssumption DEF HouseInv, TypeOK, Auction
  <2> QED  BY <1>1, <2>1 DEF HouseInv, AuctionConsistent
<1>6. SoldOnce'  BY <1>1 DEF HouseInv, SoldOnce
<1> QED  BY <1>2, <1>3, <1>4, <1>5, <1>6 DEF HouseInv

LEMMA CreateBidInv ==
    ASSUME HouseInv, NEW sender \in Bidders, NEW alpId, NEW value \in Bids,
           CreateBid(sender, alpId, value)
    PROVE  HouseInv'
<1>1. /\ bidding = NoBid /\ now < auction.endTime
      /\ value <= eth[sender]
      /\ bidding' = [bidder |-> sender, value |-> value, endTime |-> auction.endTime]
      /\ balance' = balance + value - Refund /\ balance + value >= Refund
      /\ UNCHANGED <<now, paused, auction, paramVars, tokenVars, sales>>
  BY DEF CreateBid, NonReentrant
<1>2. /\ now \in Nat /\ auction.endTime \in Nat /\ auction.amount \in Nat /\ value \in Nat
      /\ balance \in Nat /\ sender # Zero
  BY NumbersAssumption, AccountsAssumption DEF HouseInv, TypeOK, Auction, Holders, Accounts
<1>3. bidding' # NoBid  BY <1>1, <1>2 DEF NoBid
<1>4. OnSale /\ OnSale' = OnSale /\ HasBegun' = HasBegun
  <2>1. OnSale  BY <1>1, <1>2 DEF HouseInv, AuctionConsistent
  <2> QED  BY <1>1, <2>1 DEF OnSale, HasBegun
<1>5. Refund = auction.amount  BY DEF HouseInv, AuctionConsistent, Refund
<1>6. TypeOK'
  <2>1. eth' \in [Accounts -> Nat] /\ weth' \in [Accounts -> Nat]
    <3>1. \A a \in Accounts : /\ EthPaid(a, auction.bidder, auction.amount) \in Nat
                              /\ WethPaid(a, auction.bidder, auction.amount) \in Nat
      BY <1>2, PaidFacts
    <3>2. /\ eth' = [a \in Accounts |-> eth[a] - (IF a = sender THEN value ELSE 0)
                                               + EthPaid(a, auction.bidder, auction.amount)]
          /\ weth' = [a \in Accounts |-> weth[a] + WethPaid(a, auction.bidder, auction.amount)]
      BY DEF CreateBid
    <3>3. ASSUME NEW a \in Accounts
          PROVE  /\ eth[a] - (IF a = sender THEN value ELSE 0)
                      + EthPaid(a, auction.bidder, auction.amount) \in Nat
                 /\ weth[a] + WethPaid(a, auction.bidder, auction.amount) \in Nat
      <4>1. eth[a] \in Nat /\ weth[a] \in Nat  BY DEF HouseInv, TypeOK
      <4>2. a = sender => value <= eth[a]  BY <1>1
      <4> QED  BY <1>2, <3>1, <4>1, <4>2
    <3> QED  BY <3>2, <3>3
  <2>2. bidding' \in [bidder : Bidders \cup {Zero}, value : Nat, endTime : Nat]  BY <1>1, <1>2
  <2>3. balance' \in Nat  BY <1>1, <1>2, <1>5
  <2> QED  BY <1>1, <1>4, <2>1, <2>2, <2>3 DEF HouseInv, TypeOK, paramVars, tokenVars
<1>7. Solvent'
  <2>1. balance = auction.amount  BY <1>1, <1>4 DEF HouseInv, Solvent, Escrow
  <2>2. balance' = value  BY <1>1, <1>2, <1>5, <2>1
  <2>3. bidding'.value = value  BY <1>1
  <2> QED  BY <1>3, <2>2, <2>3 DEF Solvent, Escrow, NoBid
<1>8. NoAlpStranded'  BY <1>1, <1>4 DEF HouseInv, NoAlpStranded, tokenVars
<1>9. BidUnderWay'  BY <1>1, <1>4 DEF BidUnderWay
<1>10. AuctionConsistent'  BY <1>1, <1>4 DEF HouseInv, AuctionConsistent
<1>11. SoldOnce'  BY <1>1, <1>4 DEF HouseInv, SoldOnce, tokenVars
<1> QED  BY <1>6, <1>7, <1>8, <1>9, <1>10, <1>11 DEF HouseInv

LEMMA FinishBidInv ==
    ASSUME HouseInv, FinishBid
    PROVE  HouseInv' /\ auction'.endTime >= auction.endTime /\ OnSale /\ OnSale'
<1>1. /\ bidding # NoBid /\ bidding' = NoBid
      /\ OnSale /\ now < auction.endTime
      /\ bidding.bidder \in Bidders /\ bidding.endTime = auction.endTime
      /\ UNCHANGED <<now, paused, paramVars, moneyVars, tokenVars, sales>>
  BY DEF FinishBid, HouseInv, BidUnderWay
<1>2. /\ now \in Nat /\ timeBuffer \in Nat /\ auction \in Auction /\ bidding.value \in Nat
      /\ auction.endTime \in Nat
  BY NumbersAssumption DEF HouseInv, TypeOK, Auction
<1> DEFINE end == IF auction.endTime - now < timeBuffer THEN now + timeBuffer ELSE auction.endTime
<1>3. end \in Nat /\ end >= auction.endTime /\ end > now  BY <1>1, <1>2
<1>4. auction' = [alpId |-> auction.alpId, amount |-> bidding.value, startTime |-> auction.startTime,
                  endTime |-> end, bidder |-> bidding.bidder, settled |-> auction.settled]
  BY <1>1, <1>2 DEF FinishBid, Auction
<1> HIDE DEF end
<1>5. auction' \in Auction  BY <1>1, <1>2, <1>3, <1>4 DEF Auction
<1>6. OnSale' /\ HasBegun' = HasBegun  BY <1>1, <1>4 DEF OnSale, HasBegun
<1>7. TypeOK'
  <2>1. bidding' \in [bidder : Bidders \cup {Zero}, value : Nat, endTime : Nat]  BY <1>1 DEF NoBid
  <2> QED
    BY <1>1, <1>4, <1>5, <1>6, <2>1 DEF HouseInv, TypeOK, paramVars, tokenVars, moneyVars
<1>8. Solvent'
  <2>1. balance = bidding.value  BY <1>1 DEF HouseInv, Solvent, Escrow
  <2>2. auction'.amount = bidding.value  BY <1>4
  <2> QED  BY <1>1, <1>6, <2>1, <2>2 DEF Solvent, Escrow, moneyVars, NoBid
<1>9. NoAlpStranded'  BY <1>1, <1>4, <1>6 DEF HouseInv, NoAlpStranded, tokenVars
<1>10. BidUnderWay'  BY <1>1 DEF BidUnderWay, NoBid
<1>11. AuctionConsistent'  BY <1>1, <1>4, <1>6, AccountsAssumption DEF AuctionConsistent, Holders, Accounts
<1>12. SoldOnce'  BY <1>1, <1>4, <1>6 DEF HouseInv, SoldOnce, tokenVars
<1> QED  BY <1>1, <1>3, <1>4, <1>6, <1>7, <1>8, <1>9, <1>10, <1>11, <1>12 DEF HouseInv

\* What _settleAuction leaves behind, before any new auction is created.
LEMMA SettleFacts ==
    ASSUME HouseInv, NonReentrant, CanSettle, PayOwner
    PROVE  /\ OnSale
           /\ SettledAuction \in Auction /\ SettledAuction.settled
           /\ SettledAuction.alpId = auction.alpId /\ SettledAuction.alpId < currentAlpId
           /\ now >= SettledAuction.endTime
           /\ SettledAuction.bidder = Zero => SettledAuction.amount = 0
           /\ SettledHolder \in [0..(currentAlpId - 1) -> Holders]
           /\ \A id \in 0..(currentAlpId - 1) : SettledHolder[id] # House
           /\ balance' = 0
           /\ eth' \in [Accounts -> Nat] /\ weth' \in [Accounts -> Nat]
           /\ sales' \in Seq(Sale)
           /\ \A i \in 1..Len(sales') : sales'[i].id < currentAlpId
<1>1. OnSale /\ HasBegun  BY DEF CanSettle, OnSale
<1>2. /\ auction \in Auction /\ auction.amount \in Nat /\ auction.alpId \in Nat
      /\ auction.alpId < currentAlpId /\ currentAlpId \in Nat
      /\ holder \in [0..(currentAlpId - 1) -> Holders] /\ sales \in Seq(Sale)
  BY <1>1 DEF HouseInv, TypeOK, Auction
<1>3. /\ SettledAuction \in Auction /\ SettledAuction.settled
      /\ SettledAuction.alpId = auction.alpId /\ SettledAuction.endTime = auction.endTime
      /\ SettledAuction.bidder = auction.bidder /\ SettledAuction.amount = auction.amount
  BY <1>2 DEF SettledAuction, Auction
<1>4. Winner \in Bidders \cup {HallOfFame}  BY <1>2 DEF Winner, Auction
<1>5. Winner \in Holders /\ Winner # House
  BY <1>4, AccountsAssumption DEF Holders, Accounts
<1>6. auction.alpId \in 0..(currentAlpId - 1)  BY <1>2
<1>7. SettledHolder \in [0..(currentAlpId - 1) -> Holders]
  BY <1>2, <1>5 DEF SettledHolder
<1>8. \A id \in 0..(currentAlpId - 1) : SettledHolder[id] # House
  BY <1>1, <1>2, <1>5 DEF SettledHolder, HouseInv, NoAlpStranded
<1>9. balance' = 0
  <2>1. balance = auction.amount  BY <1>1 DEF HouseInv, Solvent, Escrow, NonReentrant
  <2> QED  BY <1>2, <2>1 DEF PayOwner
<1>10. eth' \in [Accounts -> Nat] /\ weth' \in [Accounts -> Nat]
  <2>1. \A a \in Accounts : /\ EthPaid(a, Owner, auction.amount) \in Nat
                            /\ WethPaid(a, Owner, auction.amount) \in Nat
    BY <1>2, PaidFacts
  <2>2. \A a \in Accounts : eth[a] \in Nat /\ weth[a] \in Nat  BY DEF HouseInv, TypeOK
  <2> QED  BY <2>1, <2>2 DEF PayOwner
<1> DEFINE sale == [id |-> auction.alpId, price |-> auction.amount, winner |-> Winner]
<1>11. sale \in Sale /\ sale.id = auction.alpId  BY <1>2, <1>4 DEF Sale
<1>12. sales' = Append(sales, sale)  BY DEF PayOwner
<1> HIDE DEF sale
<1>13. /\ sales' \in Seq(Sale) /\ Len(sales') = Len(sales) + 1
       /\ \A i \in 1..Len(sales) : sales'[i] = sales[i]
       /\ sales'[Len(sales) + 1] = sale
  BY <1>2, <1>11, <1>12
<1>14. ASSUME NEW i \in 1..Len(sales')
       PROVE  sales'[i].id < currentAlpId
  <2>1. CASE i \in 1..Len(sales)  BY <1>13, <2>1 DEF HouseInv, SoldOnce
  <2>2. CASE i = Len(sales) + 1  BY <1>2, <1>11, <1>13, <2>2
  <2> QED  BY <1>2, <1>13, <2>1, <2>2
<1>15. now >= auction.endTime  BY DEF CanSettle
<1>16. auction.bidder = Zero => auction.amount = 0  BY DEF HouseInv, AuctionConsistent
<1> QED  BY <1>1, <1>2, <1>3, <1>7, <1>8, <1>9, <1>10, <1>13, <1>14, <1>15, <1>16

LEMMA SettleAuctionInv ==
    ASSUME HouseInv, SettleAuction
    PROVE  HouseInv' /\ ~OnSale'
<1>1. /\ NonReentrant /\ CanSettle /\ PayOwner
      /\ auction' = SettledAuction /\ holder' = SettledHolder
      /\ UNCHANGED <<now, paused, paramVars, bidding, currentAlpId, mintMode>>
  BY DEF SettleAuction
<1>2. /\ SettledAuction \in Auction /\ SettledAuction.settled
      /\ SettledAuction.alpId < currentAlpId
      /\ now >= SettledAuction.endTime
      /\ SettledAuction.bidder = Zero => SettledAuction.amount = 0
      /\ SettledHolder \in [0..(currentAlpId - 1) -> Holders]
      /\ \A id \in 0..(currentAlpId - 1) : SettledHolder[id] # House
      /\ balance' = 0
      /\ eth' \in [Accounts -> Nat] /\ weth' \in [Accounts -> Nat]
      /\ sales' \in Seq(Sale)
      /\ \A i \in 1..Len(sales') : sales'[i].id < currentAlpId
  BY <1>1, SettleFacts
<1>3. ~OnSale' /\ bidding' = NoBid  BY <1>1, <1>2 DEF OnSale, NonReentrant
<1>4. TypeOK'
  BY <1>1, <1>2 DEF HouseInv, TypeOK, paramVars
<1>5. Solvent'  BY <1>2, <1>3 DEF Solvent, Escrow, NoBid
<1>6. NoAlpStranded'  BY <1>1, <1>2, <1>3 DEF NoAlpStranded
<1>7. BidUnderWay'  BY <1>3 DEF BidUnderWay, NoBid
<1>8. AuctionConsistent'  BY <1>1, <1>2 DEF AuctionConsistent
<1>9. SoldOnce'  BY <1>1, <1>2, <1>3 DEF SoldOnce
<1> QED  BY <1>3, <1>4, <1>5, <1>6, <1>7, <1>8, <1>9 DEF HouseInv

LEMMA SettleCurrentInv ==
    ASSUME HouseInv, SettleCurrentAndCreateNewAuction
    PROVE  /\ HouseInv'
           /\ OnSale' => auction'.alpId >= currentAlpId
           /\ OnSale' => auction' = [alpId |-> auction'.alpId, amount |-> 0, startTime |-> now,
                                     endTime |-> now + Duration, bidder |-> Zero, settled |-> FALSE]
           /\ ~OnSale' => auction' = SettledAuction
<1>1. /\ NonReentrant /\ CanSettle /\ PayOwner
      /\ CreateAuction(SettledAuction, SettledHolder, paused)
      /\ UNCHANGED <<now, paramVars, bidding, mintMode>>
  BY DEF SettleCurrentAndCreateNewAuction
<1>2. /\ SettledAuction \in Auction /\ SettledAuction.settled
      /\ SettledAuction.alpId < currentAlpId
      /\ now >= SettledAuction.endTime
      /\ SettledAuction.bidder = Zero => SettledAuction.amount = 0
      /\ SettledHolder \in [0..(currentAlpId - 1) -> Holders]
      /\ \A id \in 0..(currentAlpId - 1) : SettledHolder[id] # House
      /\ balance' = 0
      /\ eth' \in [Accounts -> Nat] /\ weth' \in [Accounts -> Nat]
      /\ sales' \in Seq(Sale)
      /\ \A i \in 1..Len(sales') : sales'[i].id < currentAlpId
  BY <1>1, SettleFacts
<1>3. now \in 1..MaxTime /\ currentAlpId \in Nat /\ paused \in BOOLEAN
  BY DEF HouseInv, TypeOK
<1> DEFINE sa == SettledAuction
           held == SettledHolder
<1>4. /\ paused' \in BOOLEAN /\ auction' \in Auction
      /\ currentAlpId' \in Nat /\ currentAlpId' >= currentAlpId
      /\ holder' \in [0..(currentAlpId' - 1) -> Holders]
      /\ HasBegun' => auction'.alpId < currentAlpId'
      /\ NoAlpStranded'
      /\ ~OnSale' => now >= auction'.endTime
      /\ auction'.bidder = Zero => auction'.amount = 0
      /\ OnSale' => /\ auction'.alpId >= currentAlpId
                    /\ auction' = [alpId |-> auction'.alpId, amount |-> 0, startTime |-> now,
                                   endTime |-> now + Duration, bidder |-> Zero, settled |-> FALSE]
      /\ ~OnSale' => auction' = SettledAuction
  <2>1. /\ sa \in Auction /\ sa.settled /\ sa.alpId < currentAlpId /\ now >= sa.endTime
        /\ sa.bidder = Zero => sa.amount = 0
        /\ held \in [0..(currentAlpId - 1) -> Holders]
        /\ \A id \in 0..(currentAlpId - 1) : held[id] # House
        /\ CreateAuction(sa, held, paused)
    BY <1>1, <1>2
  <2> HIDE DEF sa, held
  <2>2. /\ paused' \in BOOLEAN /\ auction' \in Auction
        /\ currentAlpId' \in Nat /\ currentAlpId' >= currentAlpId
        /\ holder' \in [0..(currentAlpId' - 1) -> Holders]
        /\ HasBegun' => auction'.alpId < currentAlpId'
        /\ NoAlpStranded'
        /\ ~OnSale' => now >= auction'.endTime
        /\ auction'.bidder = Zero => auction'.amount = 0
        /\ OnSale' => /\ auction'.alpId >= currentAlpId
                      /\ auction' = [alpId |-> auction'.alpId, amount |-> 0, startTime |-> now,
                                     endTime |-> now + Duration, bidder |-> Zero, settled |-> FALSE]
        /\ ~OnSale' => auction' = sa
    BY <1>3, <2>1, CreateAuctionFacts
  <2> QED  BY <2>2 DEF sa
<1>5. bidding' = NoBid /\ now' = now  BY <1>1 DEF NonReentrant
<1>6. TypeOK'
  BY <1>1, <1>2, <1>4, <1>5 DEF HouseInv, TypeOK, paramVars
<1>7. Solvent'  BY <1>2, <1>4, <1>5 DEF Solvent, Escrow, NoBid
<1>8. BidUnderWay'  BY <1>5 DEF BidUnderWay, NoBid
<1>9. AuctionConsistent'  BY <1>4, <1>5 DEF AuctionConsistent
<1>10. SoldOnce'
  <2>1. ASSUME NEW i \in 1..Len(sales')
        PROVE  sales'[i].id < currentAlpId' /\ (OnSale' => sales'[i].id # auction'.alpId)
    <3> DEFINE sale == sales'[i]
    <3>0. sale \in Sale /\ sale.id < currentAlpId  BY <1>2
    <3>1. sale.id \in Nat /\ sale.id < currentAlpId
      <4> HIDE DEF sale
      <4> QED  BY <3>0 DEF Sale
    <3>2. auction'.alpId \in Nat  BY <1>4 DEF Auction
    <3> QED  BY <1>3, <1>4, <3>1, <3>2
  <2> QED  BY <2>1 DEF SoldOnce
<1> QED  BY <1>4, <1>6, <1>7, <1>8, <1>9, <1>10 DEF HouseInv

LEMMA UnpauseInv ==
    ASSUME HouseInv, Unpause
    PROVE  /\ HouseInv'
           /\ OnSale => UNCHANGED auction
           /\ ~OnSale /\ OnSale' => auction'.alpId >= currentAlpId
           /\ ~OnSale /\ OnSale' =>
                auction' = [alpId |-> auction'.alpId, amount |-> 0, startTime |-> now,
                            endTime |-> now + Duration, bidder |-> Zero, settled |-> FALSE]
           /\ ~OnSale' => UNCHANGED auction
<1>1. bidding = NoBid /\ UNCHANGED <<now, paramVars, bidding, moneyVars, mintMode, sales>>
  BY DEF Unpause, NoTransaction
<1>2. now \in 1..MaxTime /\ currentAlpId \in Nat /\ auction \in Auction
      /\ holder \in [0..(currentAlpId - 1) -> Holders]
  BY DEF HouseInv, TypeOK
<1>3. CASE OnSale
  <2>1. paused' = FALSE /\ UNCHANGED <<auction, currentAlpId, holder>>
    BY <1>3 DEF Unpause, OnSale
  <2>2. TypeOK'  BY <1>1, <2>1 DEF HouseInv, TypeOK, paramVars, moneyVars, HasBegun
  <2>3. now' >= now /\ OnSale'  BY <1>1, <1>2, <1>3, <2>1 DEF OnSale, HasBegun
  <2>4. UNCHANGED <<auction, bidding, moneyVars, currentAlpId, holder, sales>>  BY <1>1, <2>1
  <2>5. HouseInv'  BY <1>1, <2>2, <2>3, <2>4, QuietStep
  <2> QED  BY <1>3, <2>1, <2>3, <2>5
<1>4. CASE ~OnSale
  <2>1. CreateAuction(auction, holder, FALSE)  BY <1>4 DEF Unpause, OnSale
  <2>2. /\ \A id \in 0..(currentAlpId - 1) : holder[id] # House
        /\ auction.startTime = 0 \/ auction.settled
        /\ auction.startTime # 0 => auction.alpId < currentAlpId
        /\ now >= auction.endTime
        /\ auction.bidder = Zero => auction.amount = 0
    BY <1>2, <1>4 DEF HouseInv, NoAlpStranded, OnSale, HasBegun, TypeOK, AuctionConsistent
  <2>3. /\ paused' \in BOOLEAN /\ auction' \in Auction
        /\ currentAlpId' \in Nat /\ currentAlpId' >= currentAlpId
        /\ holder' \in [0..(currentAlpId' - 1) -> Holders]
        /\ HasBegun' => auction'.alpId < currentAlpId'
        /\ NoAlpStranded'
        /\ ~OnSale' => now >= auction'.endTime
        /\ auction'.bidder = Zero => auction'.amount = 0
        /\ OnSale' => /\ auction'.alpId >= currentAlpId
                      /\ auction' = [alpId |-> auction'.alpId, amount |-> 0, startTime |-> now,
                                     endTime |-> now + Duration, bidder |-> Zero, settled |-> FALSE]
        /\ ~OnSale' => auction' = auction
    BY <1>2, <2>1, <2>2, CreateAuctionFacts
  <2>4. TypeOK'  BY <1>1, <2>3 DEF HouseInv, TypeOK, paramVars, moneyVars
  <2>5. Solvent'
    <3>1. balance' = 0  BY <1>1, <1>4 DEF HouseInv, Solvent, Escrow, moneyVars
    <3>2. OnSale' => auction'.amount = 0  BY <2>3
    <3> QED  BY <1>1, <3>1, <3>2 DEF Solvent, Escrow, NoBid
  <2>6. BidUnderWay'  BY <1>1 DEF BidUnderWay, NoBid
  <2>7. AuctionConsistent'  BY <1>1, <2>3 DEF AuctionConsistent
  <2>8. SoldOnce'
    <3>1. ASSUME NEW i \in 1..Len(sales)
          PROVE  sales[i].id < currentAlpId' /\ (OnSale' => sales[i].id # auction'.alpId)
      <4> DEFINE sale == sales[i]
      <4>0. sale \in Sale /\ sale.id < currentAlpId
        BY DEF HouseInv, SoldOnce, TypeOK
      <4>1. sale.id \in Nat /\ sale.id < currentAlpId
        <5> HIDE DEF sale
        <5> QED  BY <4>0 DEF Sale
      <4>2. auction'.alpId \in Nat  BY <2>3 DEF Auction
      <4> QED  BY <1>2, <2>3, <4>1, <4>2
    <3> QED  BY <1>1, <3>1 DEF SoldOnce
  <2> QED  BY <1>4, <2>3, <2>4, <2>5, <2>6, <2>7, <2>8 DEF HouseInv
<1> QED  BY <1>3, <1>4

LEMMA NextHouseInv ==
    ASSUME HouseInv, [Next]_vars
    PROVE  HouseInv'
<1>0. now \in 1..MaxTime /\ MaxTime \in Nat  BY NumbersAssumption DEF HouseInv, TypeOK
<1>1. ASSUME NEW sender \in Bidders, NEW alpId \in DOMAIN holder, NEW value \in Bids,
             CreateBid(sender, alpId, value)
      PROVE  HouseInv'
  BY <1>1, CreateBidInv
<1>2. CASE FinishBid  BY <1>2, FinishBidInv
<1>3. CASE SettleCurrentAndCreateNewAuction  BY <1>3, SettleCurrentInv
<1>4. CASE SettleAuction  BY <1>4, SettleAuctionInv
<1>5. CASE Unpause  BY <1>5, UnpauseInv
<1> DEFINE quiet == UNCHANGED <<auction, bidding, moneyVars, currentAlpId, holder, sales>>
<1>6. ASSUME quiet, TypeOK', now' >= now, bidding # NoBid => now' = now
      PROVE  HouseInv'
  BY <1>6, QuietStep
<1>7. CASE Pause
  <2>1. quiet /\ now' = now /\ TypeOK'
    BY <1>7 DEF Pause, HouseInv, TypeOK, paramVars, moneyVars, tokenVars, HasBegun
  <2> QED  BY <1>0, <1>6, <2>1
<1>8. CASE SetTimeBuffer
  <2>1. quiet /\ now' = now /\ TypeOK'
    BY <1>8 DEF SetTimeBuffer, HouseInv, TypeOK, moneyVars, tokenVars, HasBegun
  <2> QED  BY <1>0, <1>6, <2>1
<1>9. CASE SetReservePrice
  <2>1. quiet /\ now' = now /\ TypeOK'
    BY <1>9 DEF SetReservePrice, HouseInv, TypeOK, moneyVars, tokenVars, HasBegun
  <2> QED  BY <1>0, <1>6, <2>1
<1>10. CASE SetMinBidIncrementPercentage
  <2>1. quiet /\ now' = now /\ TypeOK'
    BY <1>10 DEF SetMinBidIncrementPercentage, HouseInv, TypeOK, moneyVars, tokenVars, HasBegun
  <2> QED  BY <1>0, <1>6, <2>1
<1>11. CASE SetMintMode
  <2>1. quiet /\ now' = now /\ TypeOK'
    BY <1>11 DEF SetMintMode, HouseInv, TypeOK, paramVars, moneyVars, HasBegun
  <2> QED  BY <1>0, <1>6, <2>1
<1>12. CASE Tick
  <2>1. quiet /\ now' = now + 1 /\ now' \in 1..MaxTime /\ bidding = NoBid
    BY <1>0, <1>12 DEF Tick, tokenVars, NoTransaction
  <2>2. TypeOK'
    BY <1>12, <2>1 DEF Tick, HouseInv, TypeOK, paramVars, moneyVars, tokenVars, HasBegun
  <2> QED  BY <1>0, <1>6, <2>1, <2>2
<1>13. CASE UNCHANGED vars
  <2>1. quiet /\ now' = now /\ TypeOK'
    BY <1>13 DEF vars, HouseInv, TypeOK, paramVars, moneyVars, tokenVars, HasBegun
  <2> QED  BY <1>0, <1>6, <2>1
<1> QED
  BY <1>1, <1>2, <1>3, <1>4, <1>5, <1>7, <1>8, <1>9, <1>10, <1>11, <1>12, <1>13 DEF Next

\* The house always holds exactly the money at stake (no call of createBid,
\* _settleAuction or the WETH fallback loses or creates ETH, re-entered refunds
\* included), exactly the Alp on sale, and its variables have their types.
THEOREM HouseSafe == Spec => [](TypeOK /\ Solvent /\ NoAlpStranded)
<1>1. Init => HouseInv  BY InitHouseInv
<1>2. HouseInv /\ [Next]_vars => HouseInv'  BY NextHouseInv
<1>3. HouseInv => TypeOK /\ Solvent /\ NoAlpStranded  BY DEF HouseInv
<1> QED  BY <1>1, <1>2, <1>3, PTL DEF Spec

\* No step shortens a live auction: createBid only ever moves endTime later,
\* and nothing else touches it.
THEOREM EndTimeMonotone == Spec => EndTimeNeverEarlier
<1> DEFINE Later == OnSale /\ auction'.alpId = auction.alpId => auction'.endTime >= auction.endTime
<1>1. ASSUME HouseInv, [Next]_vars
      PROVE  Later
  <2>0. auction.endTime \in Nat /\ auction.alpId \in Nat /\ currentAlpId \in Nat
        /\ (OnSale => auction.alpId < currentAlpId)
    BY <1>1 DEF HouseInv, TypeOK, Auction, OnSale
  <2>1. UNCHANGED auction => Later  BY <2>0
  <2>2. CASE FinishBid  BY <1>1, <2>2, FinishBidInv
  <2>3. CASE SettleCurrentAndCreateNewAuction
    <3>1. OnSale' => auction'.alpId >= currentAlpId  BY <1>1, <2>3, SettleCurrentInv
    <3>2. ~OnSale' => auction' = SettledAuction  BY <1>1, <2>3, SettleCurrentInv
    <3>3. SettledAuction.endTime = auction.endTime
      BY <1>1 DEF SettledAuction, HouseInv, TypeOK, Auction
    <3> QED  BY <2>0, <3>1, <3>2, <3>3
  <2>4. CASE SettleAuction
    <3>1. auction'.endTime = auction.endTime
      BY <1>1, <2>4 DEF SettleAuction, SettledAuction, HouseInv, TypeOK, Auction
    <3> QED  BY <2>0, <3>1
  <2>5. CASE Unpause
    <3>1. OnSale => UNCHANGED auction  BY <1>1, <2>5, UnpauseInv
    <3> QED  BY <2>1, <3>1
  <2> QED
    BY <1>1, <2>1, <2>2, <2>3, <2>4, <2>5
       DEF Next, CreateBid, Pause, SetTimeBuffer, SetReservePrice,
           SetMinBidIncrementPercentage, SetMintMode, Tick, vars
<1>2. HouseInv /\ [Next]_vars => [Later]_vars  BY <1>1
<1>3. Init => HouseInv  BY InitHouseInv
<1>4. HouseInv /\ [Next]_vars => HouseInv'  BY NextHouseInv
<1> QED  BY <1>2, <1>3, <1>4, PTL DEF Spec, EndTimeNeverEarlier

-----------------------------------------------------------------------------
\* The refinement, step by step.
LEMMA LotSame ==
    ASSUME UNCHANGED <<auction, bidding>>
    PROVE  Lot' = Lot
BY DEF Lot, OnSale, HasBegun, NoBid

LEMMA CreateBidOutbids ==
    ASSUME HouseInv, NEW sender \in Bidders, NEW alpId, NEW value \in Bids,
           CreateBid(sender, alpId, value)
    PROVE  Auctions!Outbid
<1>1. /\ bidding = NoBid /\ now < auction.endTime
      /\ value >= MinimumBid
      /\ bidding' = [bidder |-> sender, value |-> value, endTime |-> auction.endTime]
      /\ auction' = auction /\ sales' = sales
  BY DEF CreateBid, NonReentrant
<1>2. /\ now \in Nat /\ auction.endTime \in Nat /\ auction.amount \in Nat /\ value \in Nat
      /\ minBidIncrementPercentage \in Nat /\ sender # Zero
  BY NumbersAssumption, AccountsAssumption DEF HouseInv, TypeOK, Auction, Holders, Accounts
<1>3. OnSale  BY <1>1, <1>2 DEF HouseInv, AuctionConsistent
<1>4. bidding' # NoBid  BY <1>1, <1>2 DEF NoBid
<1>5. Lot = [id |-> auction.alpId, price |-> auction.amount, leader |-> auction.bidder, open |-> TRUE]
  BY <1>1, <1>3 DEF Lot
<1>6. Lot' = [id |-> auction.alpId, price |-> value, leader |-> sender, open |-> TRUE]
  BY <1>1, <1>3, <1>4 DEF Lot, NoBid, OnSale, HasBegun
<1>7. value >= auction.amount
  <2>1. (auction.amount * minBidIncrementPercentage) \div 100 \in Nat
    <3> DEFINE x == auction.amount * minBidIncrementPercentage
    <3>1. x \in Nat  BY <1>2
    <3>2. x \div 100 \in Nat
      <4> HIDE DEF x
      <4> QED  BY <3>1
    <3> QED  BY <3>2
  <2> QED  BY <1>1, <1>2, <2>1 DEF MinimumBid
<1>8. Money' = [a \in Bidders \cup {Owner} |->
                  Money[a] - (IF a = sender THEN value ELSE 0)
                           + (IF a = auction.bidder THEN auction.amount ELSE 0)]
  <2>1. ASSUME NEW a \in Accounts
        PROVE  eth'[a] + weth'[a] = (eth[a] + weth[a]) - (IF a = sender THEN value ELSE 0)
                                      + (IF a = auction.bidder THEN auction.amount ELSE 0)
    <3>1. /\ eth'[a] = eth[a] - (IF a = sender THEN value ELSE 0)
                              + EthPaid(a, auction.bidder, auction.amount)
          /\ weth'[a] = weth[a] + WethPaid(a, auction.bidder, auction.amount)
      BY DEF CreateBid
    <3>2. /\ EthPaid(a, auction.bidder, auction.amount) \in Nat
          /\ WethPaid(a, auction.bidder, auction.amount) \in Nat
          /\ EthPaid(a, auction.bidder, auction.amount) + WethPaid(a, auction.bidder, auction.amount)
               = IF a = auction.bidder THEN auction.amount ELSE 0
      BY <1>2, PaidFacts
    <3>3. eth[a] \in Nat /\ weth[a] \in Nat  BY DEF HouseInv, TypeOK
    <3> QED  BY <1>2, <3>1, <3>2, <3>3
  <2>2. Money' = [a \in Accounts |-> eth'[a] + weth'[a]]  BY DEF Money
  <2>3. \A a \in Accounts : Money[a] = eth[a] + weth[a]  BY DEF Money
  <2> QED  BY <2>1, <2>2, <2>3 DEF Accounts
<1>9. /\ Lot'.price = value
      /\ Lot.open /\ Lot.price = auction.amount /\ Lot.leader = auction.bidder /\ Lot.id = auction.alpId
  BY <1>5, <1>6
<1>10. \E b \in Bidders :
         /\ Lot'.price >= Lot.price
         /\ Lot' = [id |-> Lot.id, price |-> Lot'.price, leader |-> b, open |-> TRUE]
         /\ Money' = [a \in Bidders \cup {Owner} |->
                        Money[a] - (IF a = b THEN Lot'.price ELSE 0)
                                 + (IF a = Lot.leader THEN Lot.price ELSE 0)]
  <2>1. Lot'.price >= Lot.price  BY <1>7, <1>9
  <2>2. Lot' = [id |-> Lot.id, price |-> Lot'.price, leader |-> sender, open |-> TRUE]
    BY <1>6, <1>9
  <2>3. Money' = [a \in Bidders \cup {Owner} |->
                    Money[a] - (IF a = sender THEN Lot'.price ELSE 0)
                             + (IF a = Lot.leader THEN Lot.price ELSE 0)]
    BY <1>8, <1>9
  <2> QED  BY <2>1, <2>2, <2>3
<1> QED  BY <1>1, <1>9, <1>10 DEF Auctions!Outbid

\* Storing the bid after the refund changes nothing abstractly.
LEMMA FinishBidStutters ==
    ASSUME HouseInv, FinishBid
    PROVE  UNCHANGED <<Lot, Money, sales>>
<1>1. OnSale /\ OnSale'  BY FinishBidInv
<1>2. bidding # NoBid /\ bidding' = NoBid /\ UNCHANGED <<moneyVars, sales>>
  BY DEF FinishBid
<1>3. /\ auction'.alpId = auction.alpId /\ auction'.amount = bidding.value
      /\ auction'.bidder = bidding.bidder
  BY DEF FinishBid, HouseInv, TypeOK, Auction
<1>4. Lot' = Lot  BY <1>1, <1>2, <1>3 DEF Lot, NoBid
<1>5. Money' = Money  BY <1>2 DEF Money, moneyVars
<1> QED  BY <1>2, <1>4, <1>5

\* OnSale is a Boolean, so it is FALSE when it does not hold.
LEMMA NotOnSale == (~OnSale => OnSale = FALSE) /\ (~OnSale => OnSale = FALSE)'
<1>1. OnSale \in BOOLEAN  BY DEF OnSale
<1>2. (OnSale \in BOOLEAN)'  BY DEF OnSale
<1> QED  BY <1>1, <1>2

\* A settlement sells the lot to the winner and pays the owner, whatever
\* becomes of the next auction.
LEMMA SettleCloses ==
    ASSUME HouseInv, NonReentrant, CanSettle, PayOwner, UNCHANGED bidding,
           \/ auction' = SettledAuction /\ ~OnSale'
           \/ /\ OnSale' /\ auction'.alpId \in Nat /\ auction'.alpId >= currentAlpId
              /\ auction' = [alpId |-> auction'.alpId, amount |-> 0, startTime |-> now,
                             endTime |-> now + Duration, bidder |-> Zero, settled |-> FALSE]
    PROVE  Auctions!CloseLot
<1>1. /\ OnSale /\ bidding = NoBid /\ bidding' = NoBid
      /\ auction \in Auction /\ auction.amount \in Nat
      /\ currentAlpId \in Nat
  BY SettleFacts DEF NonReentrant, HouseInv, TypeOK, Auction
<1>2. /\ Lot.id = auction.alpId /\ Lot.price = auction.amount
      /\ Lot.leader = auction.bidder /\ Lot.open
  BY <1>1 DEF Lot
<1>3. sales' = Append(sales, [id |-> Lot.id, price |-> Lot.price,
                              winner |-> IF Lot.leader = Zero THEN HallOfFame ELSE Lot.leader])
  BY <1>2 DEF PayOwner, Winner
<1>4. Money' = [Money EXCEPT ![Owner] = @ + Lot.price]
  <2>1. ASSUME NEW a \in Accounts
        PROVE  eth'[a] + weth'[a] = IF a = Owner THEN (eth[a] + weth[a]) + auction.amount
                                    ELSE eth[a] + weth[a]
    <3>1. /\ eth'[a] = eth[a] + EthPaid(a, Owner, auction.amount)
          /\ weth'[a] = weth[a] + WethPaid(a, Owner, auction.amount)
      BY DEF PayOwner
    <3>2. /\ EthPaid(a, Owner, auction.amount) \in Nat /\ WethPaid(a, Owner, auction.amount) \in Nat
          /\ EthPaid(a, Owner, auction.amount) + WethPaid(a, Owner, auction.amount)
               = IF a = Owner THEN auction.amount ELSE 0
      BY <1>1, PaidFacts
    <3>3. eth[a] \in Nat /\ weth[a] \in Nat  BY DEF HouseInv, TypeOK
    <3> QED  BY <1>1, <3>1, <3>2, <3>3
  <2>2. Money' = [a \in Accounts |-> eth'[a] + weth'[a]]  BY DEF Money
  <2>3. Money = [a \in Accounts |-> eth[a] + weth[a]]  BY DEF Money
  <2> QED  BY <1>2, <2>1, <2>2, <2>3
<1>5. \/ Lot' = [id |-> Lot.id, price |-> Lot.price, leader |-> Lot.leader, open |-> FALSE]
      \/ Auctions!NewLot(Lot', sales')
  <2>1. CASE auction' = SettledAuction /\ ~OnSale'
    <3>1. /\ auction'.alpId = auction.alpId /\ auction'.amount = auction.amount
          /\ auction'.bidder = auction.bidder
      BY <1>1, <2>1 DEF SettledAuction, Auction
    <3>2. OnSale' = FALSE  BY <2>1, NotOnSale
    <3>3. Lot' = [id |-> auction'.alpId, price |-> auction'.amount,
                  leader |-> auction'.bidder, open |-> OnSale']
      BY <1>1 DEF Lot
    <3>4. Lot' = [id |-> Lot.id, price |-> Lot.price, leader |-> Lot.leader, open |-> OnSale']
      BY <1>2, <3>1, <3>3
    <3> QED  BY <3>2, <3>4
  <2>2. CASE /\ OnSale' /\ auction'.alpId \in Nat /\ auction'.alpId >= currentAlpId
             /\ auction' = [alpId |-> auction'.alpId, amount |-> 0, startTime |-> now,
                            endTime |-> now + Duration, bidder |-> Zero, settled |-> FALSE]
    <3>1. auction'.amount = 0 /\ auction'.bidder = Zero  BY <2>2
    <3>2. Lot' = [id |-> auction'.alpId, price |-> 0, leader |-> Zero, open |-> TRUE]
      BY <1>1, <2>2, <3>1 DEF Lot, NoBid
    <3>3. Lot'.id = auction'.alpId  BY <3>2
    <3>4. ASSUME NEW i \in 1..Len(sales')
          PROVE  sales'[i].id # Lot'.id
      <4> DEFINE sale == sales'[i]
      <4>1. sale \in Sale /\ sale.id < currentAlpId  BY SettleFacts
      <4>2. sale.id \in Nat
        <5> HIDE DEF sale
        <5> QED  BY <4>1 DEF Sale
      <4> QED  BY <1>1, <2>2, <3>3, <4>1, <4>2
    <3> QED  BY <3>2, <3>3, <3>4 DEF Auctions!NewLot
  <2> QED  BY <2>1, <2>2
<1> QED  BY <1>2, <1>3, <1>4, <1>5 DEF Auctions!CloseLot

\* unpause() opens a lot when none is open, and otherwise changes nothing.
LEMMA UnpauseOpens ==
    ASSUME HouseInv, Unpause
    PROVE  Auctions!OpenLot \/ UNCHANGED <<Lot, Money, sales>>
<1>1. /\ OnSale => UNCHANGED auction
      /\ ~OnSale /\ OnSale' => auction'.alpId >= currentAlpId
      /\ ~OnSale /\ OnSale' =>
           auction' = [alpId |-> auction'.alpId, amount |-> 0, startTime |-> now,
                       endTime |-> now + Duration, bidder |-> Zero, settled |-> FALSE]
      /\ ~OnSale' => UNCHANGED auction
      /\ TypeOK'
  BY UnpauseInv DEF HouseInv
<1>2. bidding = NoBid /\ bidding' = NoBid /\ sales' = sales /\ UNCHANGED moneyVars
  BY DEF Unpause, NoTransaction
<1>3. Money' = Money  BY <1>2 DEF Money, moneyVars
<1>4. CASE UNCHANGED auction
  <2>1. Lot' = Lot  BY <1>2, <1>4, LotSame
  <2> QED  BY <1>2, <1>3, <2>1
<1>5. CASE ~UNCHANGED auction
  <2>1. ~OnSale /\ OnSale'  BY <1>1, <1>5
  <2>2. ~Lot.open  BY <2>1 DEF Lot
  <2>3. auction'.amount = 0 /\ auction'.bidder = Zero  BY <1>1, <2>1
  <2>4. Lot' = [id |-> auction'.alpId, price |-> 0, leader |-> Zero, open |-> TRUE]
    BY <1>2, <2>1, <2>3 DEF Lot, NoBid
  <2>5. Lot'.id = auction'.alpId  BY <2>4
  <2>6. ASSUME NEW i \in 1..Len(sales)
        PROVE  sales[i].id # Lot'.id
    <3> DEFINE sale == sales[i]
    <3>1. sale \in Sale /\ sale.id < currentAlpId /\ currentAlpId \in Nat
      BY DEF HouseInv, SoldOnce, TypeOK
    <3>2. sale.id \in Nat
      <4> HIDE DEF sale
      <4> QED  BY <3>1 DEF Sale
    <3>3. auction'.alpId \in Nat  BY <1>1 DEF TypeOK, Auction
    <3> QED  BY <1>1, <2>1, <2>5, <3>1, <3>2, <3>3
  <2>7. Auctions!NewLot(Lot', sales)  BY <2>4, <2>5, <2>6 DEF Auctions!NewLot
  <2> QED  BY <1>2, <1>3, <2>2, <2>7 DEF Auctions!OpenLot
<1> QED  BY <1>4, <1>5

\* The auction house implements the English auction: every account ends up
\* with the money and every Alp with the owner that the abstract auction
\* promises, through pauses, failing mints, rejected refunds and re-entry.
THEOREM HouseRefinesAuction == Spec => ImplementsAuction
<1>1. Init => Auctions!Init
  <2> SUFFICES ASSUME Init PROVE Auctions!Init
    OBVIOUS
  <2>1. ~OnSale /\ bidding = NoBid  BY DEF Init, OnSale, HasBegun
  <2>2. Lot = [id |-> 0, price |-> 0, leader |-> Zero, open |-> FALSE]
    <3>1. OnSale = FALSE  BY <2>1, NotOnSale
    <3>2. Lot = [id |-> 0, price |-> 0, leader |-> Zero, open |-> OnSale]
      BY <2>1 DEF Init, Lot
    <3> QED  BY <3>1, <3>2
  <2>3. Money = [a \in Bidders \cup {Owner} |-> IF a = Owner THEN 0 ELSE Funds]
    <3>1. \A a \in Accounts : eth[a] + weth[a] = IF a = Owner THEN 0 ELSE Funds
      BY NumbersAssumption DEF Init
    <3>2. Money = [a \in Accounts |-> eth[a] + weth[a]]  BY DEF Money
    <3> QED  BY <3>1, <3>2 DEF Accounts
  <2>4. sales = << >>  BY DEF Init
  <2> QED  BY <2>2, <2>3, <2>4 DEF Auctions!Init
<1>2. ASSUME HouseInv, [Next]_vars
      PROVE  Auctions!Next \/ UNCHANGED <<Lot, Money, sales>>
  <2>1. ASSUME NEW sender \in Bidders, NEW alpId \in DOMAIN holder, NEW value \in Bids,
               CreateBid(sender, alpId, value)
        PROVE  Auctions!Next
    BY <1>2, <2>1, CreateBidOutbids DEF Auctions!Next
  <2>2. CASE FinishBid  BY <1>2, <2>2, FinishBidStutters
  <2>3. CASE SettleCurrentAndCreateNewAuction
    <3>1. NonReentrant /\ CanSettle /\ PayOwner /\ UNCHANGED bidding
      BY <2>3 DEF SettleCurrentAndCreateNewAuction
    <3>2. /\ OnSale' => auction'.alpId >= currentAlpId
          /\ OnSale' => auction' = [alpId |-> auction'.alpId, amount |-> 0, startTime |-> now,
                                    endTime |-> now + Duration, bidder |-> Zero, settled |-> FALSE]
          /\ ~OnSale' => auction' = SettledAuction
          /\ auction'.alpId \in Nat
      BY <1>2, <2>3, SettleCurrentInv DEF HouseInv, TypeOK, Auction
    <3> QED  BY <1>2, <3>1, <3>2, SettleCloses DEF Auctions!Next
  <2>4. CASE SettleAuction
    <3>1. NonReentrant /\ CanSettle /\ PayOwner /\ UNCHANGED bidding /\ auction' = SettledAuction
      BY <2>4 DEF SettleAuction
    <3>2. ~OnSale'  BY <1>2, <2>4, SettleAuctionInv
    <3> QED  BY <1>2, <3>1, <3>2, SettleCloses DEF Auctions!Next
  <2>5. CASE Unpause  BY <1>2, <2>5, UnpauseOpens DEF Auctions!Next
  <2>6. UNCHANGED <<auction, bidding, moneyVars, sales>> => UNCHANGED <<Lot, Money, sales>>
    BY LotSame DEF Money, moneyVars
  <2> QED
    BY <1>2, <2>1, <2>2, <2>3, <2>4, <2>5, <2>6
       DEF Next, Pause, SetTimeBuffer, SetReservePrice, SetMinBidIncrementPercentage,
           SetMintMode, Tick, vars
<1>3. HouseInv /\ [Next]_vars => [Auctions!Next]_(Auctions!vars)
  BY <1>2 DEF Auctions!vars
<1>4. Init => HouseInv  BY InitHouseInv
<1>5. HouseInv /\ [Next]_vars => HouseInv'  BY NextHouseInv
<1> QED  BY <1>1, <1>3, <1>4, <1>5, PTL DEF Spec, ImplementsAuction, Auctions!Spec
=============================================================================
