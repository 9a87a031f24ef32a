---------------------------- MODULE WebAuctionStore ----------------------------
(***************************************************************************)
(* The redux store of nouns-webapp, as far as auctions go: the reducers of *)
(* its three slices, and the hooks through which the components read it.   *)
(* A store is a record: the active auction and its bids, newest first; the *)
(* Alp last put up for auction and the one on display; the past auctions   *)
(* as the subgraph gave them. JSON forms of numbers are the numbers.       *)
(***************************************************************************)
EXTENDS Integers, Sequences, FiniteSets

CONSTANTS
    Reserved,   \* every Reserved-th Alp is not auctioned but given away: 5 in the code
    None

NoBidder == "0x0"   \* the zero address, the bidder of an auction without bids

ASSUME StoreAssumption == Reserved \in Nat \ {0}

EmptyStore == [active |-> None, bids |-> <<>>, last |-> None, shown |-> None, past |-> {}]

\* Founders' Alps and those of the council: both are multiples of Reserved.
isAlperAlp(alp) == alp % Reserved = 0

-----------------------------------------------------------------------------
(* state/slices/auction.ts *)

\* An auction learned from its event has no bidder at all, not the zero address.
reduxSafeNewAuction(alp, start, end) ==
    [alp |-> alp, amount |-> 0, bidder |-> "", start |-> start, end |-> end]

setActiveAuction(s, auction) == [s EXCEPT !.active = auction, !.bids = <<>>]

setFullAuction(s, auction) == [s EXCEPT !.active = auction]

auctionsEqual(s, alp) == s.active # None /\ s.active.alp = alp

\* Among equal bids the one further back in the list wins.
maxBid(bids) ==
    LET best == CHOOSE i \in DOMAIN bids :
                    \A j \in DOMAIN bids : \/ bids[i].value > bids[j].value
                                           \/ bids[i].value = bids[j].value /\ i >= j
    IN bids[best]

containsBid(bids, bid) == \E i \in DOMAIN bids : bids[i].tx = bid.tx

\* A fault: a bid is appended whichever Alp it is for.
appendBidAnyAlp(s, bid) ==
    IF s.active = None \/ containsBid(s.bids, bid) THEN s
    ELSE LET bids == <<bid>> \o s.bids
         IN [s EXCEPT !.bids = bids, !.active.amount = maxBid(bids).value,
                      !.active.bidder = maxBid(bids).sender]

\* A fault: the bid that arrives last is taken for the highest.
appendBidLatest(s, bid) ==
    IF ~auctionsEqual(s, bid.alp) \/ containsBid(s.bids, bid) THEN s
    ELSE [s EXCEPT !.bids = <<bid>> \o s.bids, !.active.amount = bid.value,
                   !.active.bidder = bid.sender]

appendBid(s, bid) ==
    IF ~auctionsEqual(s, bid.alp) \/ containsBid(s.bids, bid) THEN s
    ELSE LET bids == <<bid>> \o s.bids
         IN [s EXCEPT !.bids = bids, !.active.amount = maxBid(bids).value,
                      !.active.bidder = maxBid(bids).sender]

setAuctionSettled(s, alp, winner, amount) ==
    IF auctionsEqual(s, alp)
    THEN [s EXCEPT !.active.bidder = winner, !.active.amount = amount] ELSE s

setAuctionExtended(s, alp, end) ==
    IF auctionsEqual(s, alp) THEN [s EXCEPT !.active.end = end] ELSE s

-----------------------------------------------------------------------------
(* state/slices/onDisplayAuction.ts: an id of 0 is as good as no id to     *)
(* setPrevOnDisplayAuctionAlpId.                                           *)

setLastAuctionAlpId(s, alp) == [s EXCEPT !.last = alp]

setOnDisplayAuctionAlpId(s, alp) == [s EXCEPT !.shown = alp]

setPrevOnDisplayAuctionAlpId(s) ==
    IF s.shown \in {None, 0} THEN s ELSE [s EXCEPT !.shown = @ - 1]

setNextOnDisplayAuctionAlpId(s) ==
    IF s.shown \in {None, s.last} THEN s ELSE [s EXCEPT !.shown = @ + 1]

-----------------------------------------------------------------------------
(* state/slices/pastAuctions.ts: the list is replaced, not extended. *)

addPastAuctions(s, auctions) == [s EXCEPT !.past = auctions]

PastAuction(s, alp) ==
    IF \E a \in s.past : a.auction.alp = alp
    THEN CHOOSE a \in s.past : a.auction.alp = alp ELSE None

-----------------------------------------------------------------------------
(* What the components read. *)

\* A given-away Alp has no auction; it was minted when the next one was put up.
generateEmptyAlperAuction(s, alp) ==
    LET above == PastAuction(s, alp + 1)
    IN reduxSafeNewAuction(alp, IF above = None THEN 0 ELSE above.auction.start, 0)

useOnDisplayAuction(s) ==
    IF s.shown = None \/ s.active = None THEN None
    ELSE IF s.shown = s.active.alp THEN s.active
    ELSE IF isAlperAlp(s.shown) THEN generateEmptyAlperAuction(s, s.shown)
    ELSE LET a == PastAuction(s, s.shown) IN IF a = None THEN None ELSE a.auction

\* Latest block first; bids of one block stay in the order they have in the list, since
\* the sort is stable.
deserializeBids(bids) ==
    LET Before(i, j) == \/ bids[i].time > bids[j].time
                        \/ bids[i].time = bids[j].time /\ i < j
        place == [i \in DOMAIN bids |-> 1 + Cardinality({j \in DOMAIN bids : Before(j, i)})]
    IN [k \in DOMAIN bids |-> bids[CHOOSE i \in DOMAIN bids : place[i] = k]]

\* None when the Alp's auction is not known.
useAuctionBids(s, alp) ==
    IF s.last = alp THEN deserializeBids(s.bids)
    ELSE LET a == PastAuction(s, alp) IN IF a = None THEN None ELSE deserializeBids(a.bids)

-----------------------------------------------------------------------------
(* What is on the screen. *)

\* The heading tells a bid that won from one that leads.
CurrentBid(amount, over) == [won |-> over, amount |-> amount]

\* The name shown for a winner: an Alp nobody bid for goes to the Warming Hut.
Winner(winner, account) ==
    CASE winner = account -> "You"
      [] winner = NoBidder -> "Warming Hut"
      [] OTHER -> winner

\* The latest bids, at most max of them.
BidHistory(s, alp, max) ==
    LET bids == useAuctionBids(s, alp)
    IN IF bids = None THEN <<>> ELSE [i \in DOMAIN bids \cap 1..max |-> bids[i]]

\* A row of all the bids in a dialog: the first one bears the trophy.
BidHistoryModalRow(bid, index) == [bid |-> bid, trophy |-> index = 1]

BidHistoryModal(s, alp) ==
    LET bids == useAuctionBids(s, alp)
    IN IF bids = None THEN <<>> ELSE [i \in DOMAIN bids |-> BidHistoryModalRow(bids[i], i)]
=============================================================================
