------------------------------ MODULE WebAuction ------------------------------
(***************************************************************************)
(* The auction page of nouns-webapp: one browser tab that follows the      *)
(* auction house over a websocket, shows an auction and lets the user bid  *)
(* and settle. The house is reduced to what the tab sees of it; it and the *)
(* subgraph go on while the tab waits for an answer.                       *)
(*                                                                         *)
(* React runs the effects of a render before it handles the next event, so *)
(* an action that changes the store or the route runs them too (Rendered). *)
(* Bids below the reserve price, typing over an amount while its bid is    *)
(* under way, texts, colours and alerts are left out.                      *)
(***************************************************************************)
EXTENDS WebAuctionStore

CONSTANTS
    Me, Other,    \* the account of the wallet, and everybody else
    Duration, TimeBuffer, SettleWait,   \* times, in steps of the clock
    Day,          \* how far back the tab asks for bids: BLOCKS_PER_DAY, in steps of the clock
    Pages,        \* the pages the user opens: None for /, or an Alp
    FirstAlp, MaxAlp, MaxBid, MaxNow,   \* bounds
    MaxBids,      \* bound: bids after which nobody else bids
    MaxDeeds      \* bound: transactions the user starts

ASSUME WebAssumption ==
    {FirstAlp, MaxAlp, MaxBid, Duration, TimeBuffer, SettleWait, Day} \subseteq Nat
ASSUME PeopleAssumption == Me # Other /\ {Me, Other} \cap {NoBidder, ""} = {}
ASSUME PagesAssumption == Pages \subseteq Int \cup {None}

\* A bid and an auction, as the events, the house and the store hold them.
Bids == [alp : Nat, sender : {Me, Other}, value : Nat \ {0}, time : Nat, tx : Nat]
Auctions == [alp : Nat, amount : Nat, bidder : {Me, Other, NoBidder, ""}, start : Nat, end : Nat]
ASSUME NoneAssumption == None \notin Int \cup Auctions \cup Seq(Bids)

VARIABLES
    now,
    house,     \* the auction house: the auction, and whether it is settled
    bidLog,    \* every bid the house took, in order
    ended,     \* past auctions as the subgraph answers them
    socket,    \* loadState: its next step, events that have not been handled, bids whose
               \* block is being fetched, whether an event was lost, and the time from
               \* which bids were asked for
    store,     \* the redux store
    route,     \* the Alp named by the page's address, None for /
    over,      \* AuctionActivity's auctionEnded
    form,      \* the Bid form while it is mounted: its input and two transactions
    deeds,     \* the transactions the user started
    clicked    \* history: what the page showed when the user clicked

chain == <<now, house, bidLog, ended>>
page == <<store, route, over, form>>
vars == <<chain, socket, page, deeds, clicked>>

NextAlp(alp) == IF isAlperAlp(alp + 1) THEN alp + 2 ELSE alp + 1
NewAuction(alp, start) == [alp |-> alp, amount |-> 0, bidder |-> NoBidder,
                           start |-> start, end |-> start + Duration]
NewForm == [input |-> 0, place |-> "None", settle |-> "None"]

Init ==
    /\ now = 0
    /\ house = NewAuction(FirstAlp, 0)
    /\ bidLog = <<>> /\ ended = {}
    /\ socket = [pc |-> "fetch", inbox |-> <<>>, blocks |-> {}, missed |-> FALSE, from |-> 0]
    /\ store = EmptyStore
    /\ route \in Pages
    /\ over = FALSE /\ form = None
    /\ deeds = <<>> /\ clicked = {}

-----------------------------------------------------------------------------
(* The page: what it shows of a store s. *)

OnDisplay(s) == useOnDisplayAuction(s)

\* Auction shows AuctionActivity for an auctioned Alp, AlperAlpContent for the others.
ShowsActivity(s) == /\ OnDisplay(s) # None /\ s.last \notin {None, 0}
                    /\ ~isAlperAlp(OnDisplay(s).alp)
IsLastAuction(s) == OnDisplay(s).alp = s.last

\* A fault: an address past the last auction is not corrected.
PageEffectUnbounded(s, r) ==
    IF s.last \in {None, 0} THEN s
    ELSE IF r = None \/ r < 0 THEN setOnDisplayAuctionAlpId(s, s.last)
    ELSE IF OnDisplay(s) = None THEN setOnDisplayAuctionAlpId(s, r)
    ELSE s

\* AuctionPage's effect, which runs after every render.
PageEffect(s, r) ==
    IF s.last \in {None, 0} THEN s
    ELSE IF r = None \/ r > s.last \/ r < 0 THEN setOnDisplayAuctionAlpId(s, s.last)
    ELSE IF OnDisplay(s) = None THEN setOnDisplayAuctionAlpId(s, r)
    ELSE s

\* A fault: an auction once found over stays so.
EndedEffectSticky(s) == ShowsActivity(s) /\ (over \/ OnDisplay(s).end <= now)

\* AuctionActivity's effect: is the auction on display over?
EndedEffect(s) == ShowsActivity(s) /\ OnDisplay(s).end <= now

\* Bid is mounted with the last auction only. A bid being mined is taken for placed
\* once the store shows the user with the amount in the field.
BidEffect(s, f) ==
    IF ~(ShowsActivity(s) /\ IsLastAuction(s)) THEN None
    ELSE IF f = None THEN NewForm
    ELSE IF /\ f.place = "Mining" /\ OnDisplay(s).bidder = Me
            /\ f.input = OnDisplay(s).amount
         THEN [f EXCEPT !.place = "Success", !.input = 0]
    ELSE f

Rendered(s, r) ==
    LET t == PageEffect(s, r) IN
    /\ store' = t
    /\ route' = r
    /\ over' = EndedEffect(t)
    /\ form' = BidEffect(t, form)

\* The countdown, which goes by the second and stops at 0.
AuctionTimer(auction) == IF auction.end <= now THEN 0 ELSE auction.end - now

\* AuctionActivity: who won or holds the Alp once the auction is over, before that the
\* time left; the form with the button to bid or to settle for the last auction only.
AuctionActivity ==
    LET auction == OnDisplay(store) IN
    [bid |-> CurrentBid(auction.amount, over),
     side |-> IF ~over THEN [left |-> AuctionTimer(auction)]
              ELSE IF IsLastAuction(store) THEN [winner |-> Winner(auction.bidder, Me)]
              ELSE [holder |-> auction.alp],
     button |-> IF form = None THEN "none" ELSE IF over THEN "settle" ELSE "bid",
     history |-> IF IsLastAuction(store) THEN BidHistory(store, auction.alp, 3) ELSE <<>>,
     modal |-> BidHistoryModal(store, auction.alp)]

-----------------------------------------------------------------------------
(* The house. Only what happens while the tab listens reaches it. *)

Send(events) ==
    socket' = CASE socket.pc = "live"  -> [socket EXCEPT !.inbox = @ \o events]
                [] socket.pc = "fetch" -> socket
                [] OTHER               -> [socket EXCEPT !.missed = TRUE]

Bidding(who, v) ==
    /\ now < house.end
    /\ v > house.amount
    /\ LET bid == [alp |-> house.alp, sender |-> who, value |-> v, time |-> now,
                   tx |-> Len(bidLog) + 1]
           extended == house.end - now < TimeBuffer
       IN /\ bidLog' = Append(bidLog, bid)
          /\ house' = [house EXCEPT !.amount = v, !.bidder = who,
                                    !.end = IF extended THEN now + TimeBuffer ELSE @]
          /\ Send(<<[type |-> "AuctionBid", bid |-> bid]>> \o
                  IF extended THEN <<[type |-> "AuctionExtended", alp |-> house.alp,
                                      end |-> now + TimeBuffer]>> ELSE <<>>)
    /\ UNCHANGED <<now, ended>>

\* The bids for an Alp, oldest first.
BidsOf(alp) ==
    LET upTo[n \in 0..Len(bidLog)] ==
            IF n = 0 THEN <<>>
            ELSE IF bidLog[n].alp = alp THEN Append(upTo[n - 1], bidLog[n])
            ELSE upTo[n - 1]
    IN upTo[Len(bidLog)]

\* The house's auction as the subgraph answers it: no bidder is no account at all.
reduxSafePastAuction ==
    [auction |-> [house EXCEPT !.bidder = IF @ = NoBidder THEN "" ELSE @],
     bids |-> BidsOf(house.alp)]

SettlingAndCreating ==
    /\ now >= house.end
    /\ house.alp < MaxAlp
    /\ house' = NewAuction(NextAlp(house.alp), now)
    /\ ended' = ended \cup {reduxSafePastAuction}
    /\ Send(<<[type |-> "AuctionSettled", alp |-> house.alp, winner |-> house.bidder,
               amount |-> house.amount],
              [type |-> "AuctionCreated", auction |-> house']>>)
    /\ UNCHANGED <<now, bidLog>>

Tick ==
    /\ now < MaxNow /\ now' = now + 1
    /\ UNCHANGED <<house, bidLog, ended, socket, page, deeds, clicked>>

OtherBids(v) == Len(bidLog) < MaxBids /\ Bidding(Other, v) /\ UNCHANGED <<page, deeds, clicked>>
OtherSettles == SettlingAndCreating /\ UNCHANGED <<page, deeds, clicked>>

-----------------------------------------------------------------------------
(* ChainSubscriber and PastAuctions. *)

FetchAuction ==
    /\ socket.pc = "fetch"
    /\ socket' = [socket EXCEPT !.pc = "query"]
    /\ Rendered(setLastAuctionAlpId(setFullAuction(store, house), house.alp), route)
    /\ UNCHANGED <<chain, deeds, clicked>>

\* The bids of the last day, older ones are never asked for; the block of each is then
\* fetched, as for a bid that is heard of later, and whichever answer comes first is
\* handled first.
QueryBids ==
    /\ socket.pc = "query"
    /\ socket' = [socket EXCEPT !.pc = "listen", !.from = now - Day,
           !.blocks = {bidLog[i] : i \in {j \in DOMAIN bidLog : bidLog[j].time >= now - Day}}]
    /\ UNCHANGED <<chain, page, deeds, clicked>>

Listen ==
    /\ socket.pc = "listen"
    /\ socket' = [socket EXCEPT !.pc = "live"]
    /\ UNCHANGED <<chain, page, deeds, clicked>>

\* loadState is not tried again.
LoadFails ==
    /\ socket.pc \in {"fetch", "query"}
    /\ socket' = [socket EXCEPT !.pc = "failed", !.missed = TRUE]
    /\ UNCHANGED <<chain, page, deeds, clicked>>

\* A new auction is shown, but the address of the page stays: push() is for the history
\* of the outer router, to which App's BrowserRouter does not listen.
Receive ==
    /\ socket.inbox # <<>>
    /\ LET event == Head(socket.inbox)
           rest == [socket EXCEPT !.inbox = Tail(@)]
       IN \/ /\ event.type = "AuctionBid"
             /\ socket' = [rest EXCEPT !.blocks = @ \cup {event.bid}]
             /\ UNCHANGED page
          \/ /\ event.type = "AuctionCreated"
             /\ socket' = rest
             /\ LET alp == event.auction.alp
                    new == reduxSafeNewAuction(alp, event.auction.start, event.auction.end)
                    s == setOnDisplayAuctionAlpId(setActiveAuction(store, new), alp)
                IN Rendered(setLastAuctionAlpId(s, alp), route)
          \/ /\ event.type = "AuctionExtended"
             /\ socket' = rest
             /\ Rendered(setAuctionExtended(store, event.alp, event.end), route)
          \/ /\ event.type = "AuctionSettled"
             /\ socket' = rest
             /\ Rendered(setAuctionSettled(store, event.alp, event.winner, event.amount), route)
    /\ UNCHANGED <<chain, deeds, clicked>>

BlockFetched(bid) ==
    /\ bid \in socket.blocks
    /\ socket' = [socket EXCEPT !.blocks = @ \ {bid}]
    /\ Rendered(appendBid(store, bid), route)
    /\ UNCHANGED <<chain, deeds, clicked>>

BlockFails(bid) ==
    /\ bid \in socket.blocks
    /\ socket' = [socket EXCEPT !.blocks = @ \ {bid}, !.missed = TRUE]
    /\ UNCHANGED <<chain, page, deeds, clicked>>

\* The query runs once. Its answer has the running auction too, as it is now: that entry
\* is shown, and grows old, once the next auction has begun.
PastAuctionsLoaded ==
    /\ store.past = {}
    /\ Rendered(addPastAuctions(store, ended \cup {reduxSafePastAuction}), route)
    /\ UNCHANGED <<chain, socket, deeds, clicked>>

-----------------------------------------------------------------------------
(* Clocks of the page, and moving through the Alps. *)

\* The timer runs while the auction has not been found over.
PollTimer ==
    /\ ShowsActivity(store) /\ ~over
    /\ over' = EndedEffect(store)
    /\ UNCHANGED <<chain, socket, store, route, form, deeds, clicked>>

Opened(s, r) == /\ Rendered(s, r)
                /\ UNCHANGED <<chain, socket, deeds, clicked>>

\* What the handlers make of the store and the route, <<store, route>>.
prevAuctionHandler(s, r) ==
    <<setPrevOnDisplayAuctionAlpId(s), IF OnDisplay(s) = None THEN r ELSE OnDisplay(s).alp - 1>>
nextAuctionHandler(s, r) ==
    <<setNextOnDisplayAuctionAlpId(s), IF OnDisplay(s) = None THEN r ELSE OnDisplay(s).alp + 1>>

\* The arrows are disabled at the first and the last auction.
ClickArrow ==
    /\ OnDisplay(store) # None /\ store.last \notin {None, 0}
    /\ \/ /\ OnDisplay(store).alp # 0
          /\ LET q == prevAuctionHandler(store, route) IN Opened(q[1], q[2])
       \/ /\ ~IsLastAuction(store)
          /\ LET q == nextAuctionHandler(store, route) IN Opened(q[1], q[2])

\* The arrow keys do what the arrows do. On a given-away Alp AlperAlpContent listens to
\* them too, without stopping at the ends, and one key press may be handled twice: that
\* depends on when React drops the listener of the page that was.
PressKey ==
    /\ OnDisplay(store) # None /\ store.last \notin {None, 0}
    /\ isAlperAlp(OnDisplay(store).alp)
    /\ \/ LET p == IF OnDisplay(store).alp = 0 THEN <<store, route>>
                   ELSE prevAuctionHandler(store, route)
          IN LET q == prevAuctionHandler(PageEffect(p[1], p[2]), p[2]) IN Opened(q[1], q[2])
       \/ LET p == IF IsLastAuction(store) THEN <<store, route>>
                   ELSE nextAuctionHandler(store, route)
          IN LET q == nextAuctionHandler(PageEffect(p[1], p[2]), p[2]) IN Opened(q[1], q[2])

-----------------------------------------------------------------------------
(* Bidding and settling: Bid, SettleManuallyBtn and useTransaction. *)

Shown == OnDisplay(store)

\* The least bid the form lets pass: the increment is a step of the smallest unit here,
\* and the form asks for nothing when there is no bid yet.
computeMinimumNextBid(amount) == IF amount = 0 THEN 0 ELSE amount + 1

isDisabled == form.place = "Mining" \/ form.settle = "Mining"

\* A bound: the user starts a transaction in a tab that has missed nothing so far.
Deed(kind, alp, v, stage) ==
    /\ Len(deeds) < MaxDeeds /\ socket.pc = "live" /\ ~socket.missed
    /\ deeds' = Append(deeds, [kind |-> kind, alp |-> alp, value |-> v, stage |-> stage])
    /\ clicked' = clicked \cup {<<kind, Shown.alp, v>>}

placeBidHandler(v) ==
    /\ form # None /\ ~over /\ ~isDisabled
    /\ v >= computeMinimumNextBid(Shown.amount)
    /\ Deed("bid", Shown.alp, v, "estimate")
    /\ form' = [form EXCEPT !.input = v]
    /\ UNCHANGED <<chain, socket, store, route, over>>

\* SettleManuallyBtn counts down from the end of the auction before it is enabled.
settleAuctionHandler ==
    /\ form # None /\ over
    /\ now >= Shown.end + SettleWait
    /\ Deed("settle", Shown.alp, 0, "sign")
    /\ form' = [form EXCEPT !.settle = "PendingSignature"]
    /\ UNCHANGED <<chain, socket, store, route, over>>

\* The status of a transaction whose form is gone is lost.
SetStatus(d, status) ==
    form' = IF form = None THEN None
            ELSE BidEffect(store, IF deeds[d].kind = "bid" THEN [form EXCEPT !.place = status]
                                  ELSE [form EXCEPT !.settle = status])

At(d, stage) == d \in DOMAIN deeds /\ deeds[d].stage = stage
Go(d, stage) == deeds' = [deeds EXCEPT ![d].stage = stage]

\* A fault: the bid is for the auction that is the last one when the handler gets on.
BidForLast(d) == store.last

\* The auction of the render in which the button was pressed.
BidFor(d) == deeds[d].alp

\* The gas of a bid is estimated before it is signed; an estimate that fails ends the
\* handler without a word.
Estimated(d) ==
    /\ At(d, "estimate")
    /\ IF BidFor(d) = house.alp /\ now < house.end /\ deeds[d].value > house.amount
       THEN /\ deeds' = [deeds EXCEPT ![d].stage = "sign", ![d].alp = BidFor(d)]
            /\ SetStatus(d, "PendingSignature")
       ELSE Go(d, "done") /\ UNCHANGED form
    /\ UNCHANGED <<chain, socket, store, route, over, clicked>>

Signed(d) ==
    /\ At(d, "sign")
    /\ Go(d, "mining") /\ SetStatus(d, "Mining")
    /\ UNCHANGED <<chain, socket, store, route, over, clicked>>

Rejected(d) ==
    /\ At(d, "sign")
    /\ Go(d, "done") /\ SetStatus(d, "Exception")
    /\ UNCHANGED <<chain, socket, store, route, over, clicked>>

\* The chain takes the transaction or reverts it.
Mined(d) ==
    /\ At(d, "mining")
    /\ LET taken == IF deeds[d].kind = "settle" THEN now >= house.end
                    ELSE /\ deeds[d].alp = house.alp /\ now < house.end
                         /\ deeds[d].value > house.amount
       IN IF ~taken THEN Go(d, "Fail") /\ UNCHANGED <<chain, socket>>
          ELSE /\ Go(d, "Success")
               /\ IF deeds[d].kind = "settle" THEN SettlingAndCreating
                  ELSE Bidding(Me, deeds[d].value)
    /\ UNCHANGED <<page, clicked>>

Receipt(d) ==
    /\ d \in DOMAIN deeds /\ deeds[d].stage \in {"Success", "Fail"}
    /\ Go(d, "done") /\ SetStatus(d, deeds[d].stage)
    /\ UNCHANGED <<chain, socket, store, route, over, clicked>>

-----------------------------------------------------------------------------
Next ==
    \/ Tick \/ OtherSettles \/ \E v \in 1..MaxBid : OtherBids(v)
    \/ FetchAuction \/ QueryBids \/ Listen \/ LoadFails \/ Receive \/ PastAuctionsLoaded
    \/ \E bid \in socket.blocks : BlockFetched(bid) \/ BlockFails(bid)
    \/ PollTimer \/ ClickArrow \/ PressKey
    \/ \E r \in Pages : r # route /\ Opened(store, r)
    \/ settleAuctionHandler
    \/ \E v \in 1..MaxBid : placeBidHandler(v)
    \/ \E d \in DOMAIN deeds : Estimated(d) \/ Signed(d) \/ Rejected(d) \/ Mined(d) \/ Receipt(d)

Spec == Init /\ [][Next]_vars

-----------------------------------------------------------------------------
(* Properties. *)

CaughtUp == socket.pc = "live" /\ ~socket.missed /\ socket.inbox = <<>> /\ socket.blocks = {}
LastShown == ShowsActivity(store) /\ IsLastAuction(store)
\* The house's bids since the time from which the tab has asked for them.
Houses == {bidLog[i] : i \in {j \in DOMAIN bidLog :
              bidLog[j].alp = house.alp /\ bidLog[j].time >= socket.from}}

\* The page never lists a bid under an Alp it was not for, nor counts one for the active
\* auction: bids wait for their block while auctions come and go (index.tsx
\* processBidFilter, state/slices/auction.ts appendBid).
BidsOfTheirAuction ==
    /\ \A i \in DOMAIN store.bids : store.bids[i].alp = store.active.alp
    /\ \A alp \in 0..MaxAlp : useAuctionBids(store, alp) # None =>
           \A i \in DOMAIN useAuctionBids(store, alp) : useAuctionBids(store, alp)[i].alp = alp
    /\ store.active # None /\ store.active.amount # 0 =>
           \E i \in DOMAIN bidLog : /\ bidLog[i].alp = store.active.alp
                                     /\ bidLog[i].value = store.active.amount

\* Once everything heard of is handled and nothing was missed, the page shows the house's
\* auction as it is, in whatever order the blocks of its bids were answered: its amount,
\* its winner or the time left, and those of its bids that are no older than a day before
\* the tab asked for them, no more and no less (AuctionActivity over
\* state/slices/auction.ts; BLOCKS_PER_DAY of index.tsx). Older bids are not listed.
CaughtUpShowsHouse ==
    CaughtUp /\ LastShown
    => LET screen == AuctionActivity IN
       /\ screen.bid.amount = house.amount
       /\ screen.side = IF ~over THEN [left |-> AuctionTimer(house)]
                        ELSE IF house.amount = 0
                             THEN [winner |-> Winner(store.active.bidder, Me)]
                             ELSE [winner |-> IF house.bidder = Me THEN "You" ELSE house.bidder]
       /\ {screen.modal[i].bid : i \in DOMAIN screen.modal} = Houses

\* The Alp on display is one that exists, wherever the user navigates while auctions are
\* created (state/slices/onDisplayAuction.ts, pages/Auction).
ShownInRange == store.shown # None => store.shown \in 0..store.last

\* The page offers to settle, and names a winner, only when the auction it shows has run
\* out: auctionEnded is kept from one render to the next, while extensions arrive and the
\* user moves to other auctions (AuctionActivity).
SettleOfferedWhenOver ==
    ShowsActivity(store) => LET screen == AuctionActivity IN
        screen.bid.won \/ screen.button = "settle" => Shown.end <= now

\* A bid of the user's is for the Alp and the amount that were on the page when the button
\* was pressed, though the house may have moved on while the gas was estimated and the
\* wallet asked (Bid, placeBidHandler).
OwnBidsWereClicked ==
    \A i \in DOMAIN bidLog : bidLog[i].sender = Me =>
        <<"bid", bidLog[i].alp, bidLog[i].value>> \in clicked

\* What the trophy of BidHistoryModalRow says of the first row, "Winning bidder": it stands
\* by the bid that leads the auction. Rows are sorted by the time of the block alone, so two
\* bids of one block may stand the wrong way round; no run states it.
TrophyOnWinner ==
    CaughtUp /\ LastShown => \A i \in DOMAIN AuctionActivity.modal :
        LET row == AuctionActivity.modal[i]
        IN row.trophy => row.bid.sender = Shown.bidder /\ row.bid.value = Shown.amount
=============================================================================
