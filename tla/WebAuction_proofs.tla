-------------------------- MODULE WebAuction_proofs --------------------------
(***************************************************************************)
(* Proofs about WebAuction for any accounts, times, pages and bounds: what *)
(* the auction page lists, shows and offers, while auctions, extensions,   *)
(* bids and navigation come in any order.                                  *)
(***************************************************************************)
EXTENDS WebAuction, SequenceTheorems, FiniteSetTheorems, WellFoundedInduction, TLAPS

-----------------------------------------------------------------------------
(* Induction on the natural numbers, for the loops: about sets, not predicates. *)

\* A set that holds 0 and the successor of each of its numbers holds them all.
LEMMA SetInduction ==
    ASSUME NEW S, 0 \in S, \A n \in Nat : n \in S => n + 1 \in S
    PROVE  Nat \subseteq S
<1> DEFINE R == OpToRel(<, Nat)
           T == Nat \ S
<1>1. IsWellFoundedOn(R, Nat)  BY NatLessThanWellFounded
<1>2. \A x, y \in Nat : x < y => <<x, y>> \in R  BY DEF R, OpToRel
<1> HIDE DEF R
<1>3. CASE T # {}
  <2>1. PICK n \in T : \A m \in T : ~(<<m, n>> \in R)  BY <1>1, <1>3, WFMin
  <2>2. n \in Nat /\ n # 0 /\ n - 1 \in Nat /\ n - 1 \notin S  OBVIOUS
  <2>3. n - 1 < n  BY <2>2
  <2>4. <<n - 1, n>> \in R  BY <1>2, <2>2, <2>3
  <2> QED  BY <2>1, <2>2, <2>4
<1> QED  BY <1>3

-----------------------------------------------------------------------------
\* The types of the variables.
Pasts == [auction : Auctions, bids : Seq(Bids)]
Events ==
    [type : {"AuctionBid"}, bid : Bids]
    \cup [type : {"AuctionExtended"}, alp : Nat, end : Nat]
    \cup [type : {"AuctionCreated"}, auction : Auctions]
    \cup [type : {"AuctionSettled"}, alp : Nat, winner : {Me, Other, NoBidder, ""}, amount : Nat]
Sockets == [pc : {"fetch", "query", "listen", "live", "failed"}, inbox : Seq(Events),
            blocks : SUBSET Bids, missed : BOOLEAN, from : Int]
Stores == [active : Auctions \cup {None}, bids : Seq(Bids), last : Nat \cup {None},
           shown : Nat \cup {None}, past : SUBSET Pasts]
ChainTyped == now \in Nat /\ house \in Auctions /\ bidLog \in Seq(Bids) /\ ended \in SUBSET Pasts
TabTyped == socket \in Sockets /\ route \in Int \cup {None}

\* The bids the house took.
Logged == {bidLog[i] : i \in DOMAIN bidLog}

\* The log: each bid has the number of its transaction, none is for a later Alp, and
\* the highest one for the house's Alp is the house's.
LogInv ==
    /\ \A i \in DOMAIN bidLog : bidLog[i].tx = i /\ bidLog[i].alp <= house.alp
    /\ \A b \in Logged : b.alp = house.alp =>
         /\ b.value <= house.amount
         /\ b.value = house.amount => b.sender = house.bidder
    /\ house.amount # 0 => \E b \in Logged : b.alp = house.alp /\ b.value = house.amount

\* Bids stay what they were on their way from the log to the page, and every amount is a bid's.
BidLogged(L, alp, amount) == amount # 0 => \E b \in L : b.alp = alp /\ b.value = amount
EventLogged(L, e) ==
    /\ e.type = "AuctionBid" => e.bid \in L
    /\ e.type = "AuctionSettled" => BidLogged(L, e.alp, e.amount)
BidsMatch(p) == \A i \in DOMAIN p.bids : p.bids[i].alp = p.auction.alp

\* A store is about one auction, the last one; its bids are the house's for it, its amount
\* is one of theirs, and the Alp on display is not past it.
InRange(s) == s.shown # None => s.last # None /\ s.shown <= s.last
StoreInv(L, s) ==
    /\ s \in Stores
    /\ \A i \in DOMAIN s.bids : /\ s.bids[i] \in L
                                /\ s.active # None /\ s.bids[i].alp = s.active.alp
    /\ s.active # None => s.active.alp = s.last /\ BidLogged(L, s.active.alp, s.active.amount)
    /\ s.active = None => s.last = None
    /\ \A p \in s.past : BidsMatch(p)
    /\ InRange(s)

\* What is on its way to the store, and that nothing is before the auction is fetched.
SocketInv ==
    /\ socket.blocks \subseteq Logged
    /\ \A i \in DOMAIN socket.inbox : EventLogged(Logged, socket.inbox[i])
    /\ socket.pc = "fetch" => /\ store.active = None /\ store.bids = <<>> /\ store.shown = None
                              /\ socket.blocks = {}
    /\ socket.pc # "live" => socket.inbox = <<>>

CoreInv ==
    /\ ChainTyped /\ TabTyped /\ LogInv /\ SocketInv /\ StoreInv(Logged, store)
    /\ \A p \in ended : BidsMatch(p)

\* What a click leaves behind, the form that stays with the last auction, and that an auction
\* found over is.
Stages == {"estimate", "sign", "mining", "Success", "Fail", "done"}
Deeds == [kind : {"bid", "settle"}, alp : Nat, value : Nat, stage : Stages]
ClickInv ==
    /\ deeds \in Seq(Deeds)
    /\ \A i \in DOMAIN bidLog : bidLog[i].sender = Me =>
         <<"bid", bidLog[i].alp, bidLog[i].value>> \in clicked
    /\ \A d \in DOMAIN deeds : deeds[d].kind = "bid" =>
         <<"bid", deeds[d].alp, deeds[d].value>> \in clicked
FormInv == form # None => LastShown
OverInv == over => EndedEffect(store)

\* While nothing is missed the events on their way, q, lead from the auction in the store s
\* to the house's, h: the last one created is the house's, and the last end announced is its
\* end; B are the bids whose block is being fetched.
Later(q, i, T) == \E j \in DOMAIN q : j > i /\ q[j].type \in T
CreatedAfter(q, i) == Later(q, i, {"AuctionCreated"})
EndAfter(q, i) == Later(q, i, {"AuctionCreated", "AuctionExtended"})
EventFollows(h, q, i) ==
    LET e == q[i] IN
    /\ e.type = "AuctionCreated" =>
         /\ IF CreatedAfter(q, i) THEN e.auction.alp < h.alp ELSE e.auction.alp = h.alp
         /\ EndAfter(q, i) \/ e.auction.end = h.end
    /\ e.type = "AuctionExtended" =>
         /\ IF CreatedAfter(q, i) THEN e.alp < h.alp ELSE e.alp = h.alp
         /\ EndAfter(q, i) \/ e.end = h.end
    /\ e.type = "AuctionBid" => (CreatedAfter(q, i) => e.bid.alp < h.alp)
    /\ e.type = "AuctionSettled" => CreatedAfter(q, i)
ActiveFollows(h, q, s, B) ==
    /\ IF CreatedAfter(q, 0) THEN s.active.alp < h.alp /\ \A b \in B : b.alp < h.alp
                             ELSE s.active.alp = h.alp
    /\ EndAfter(q, 0) \/ s.active.end = h.end
HighestShown(s) == s.bids # <<>> => /\ s.active.amount = maxBid(s.bids).value
                                    /\ s.active.bidder = maxBid(s.bids).sender
Listed(s, b) == \E i \in DOMAIN s.bids : s.bids[i] = b
Heard(q, b) == \E i \in DOMAIN q : q[i].type = "AuctionBid" /\ q[i].bid = b
NoneLost(h, L, q, s, B) == \A b \in L : b.alp = h.alp => Listed(s, b) \/ b \in B \/ Heard(q, b)

\* A page that lists no bid for the house's Alp shows the amount that was fetched, which is
\* the house's as long as no bid is on its way.
Coming(h, q, B) == \E b : b.alp = h.alp /\ (b \in B \/ Heard(q, b))
SameLead(h, s) == s.active.amount = h.amount /\ (h.amount # 0 => s.active.bidder = h.bidder)
Lead(h, q, s, B) ==
    \/ Coming(h, q, B)
    \/ IF CreatedAfter(q, 0) THEN h.amount = 0 ELSE s.bids # <<>> \/ SameLead(h, s)

Following == ~socket.missed /\ socket.pc \in {"query", "listen", "live"}
Follows(h, L, q, s, B, asked) ==
    /\ s.active # None
    /\ \A i \in DOMAIN q : EventFollows(h, q, i)
    /\ ActiveFollows(h, q, s, B)
    /\ CreatedAfter(q, 0) \/ HighestShown(s)
    /\ Lead(h, q, s, B)
    /\ asked => NoneLost(h, L, q, s, B)

\* The bids that are no older than the tab has asked for; what it knows of are such bids, and
\* the latest of the house's bids is its highest.
Wanted == {b \in Logged : b.time >= socket.from}
Known(b) == Listed(store, b) \/ b \in socket.blocks \/ Heard(socket.inbox, b)
WindowInv ==
    /\ \A b \in Logged : b.time <= now
    /\ \A b, c \in Logged :
         b.alp = house.alp /\ c.alp = house.alp /\ c.value = house.amount => b.time <= c.time
    /\ socket.from <= now
    /\ \A b : Known(b) => b.time >= socket.from
    /\ socket.pc \in {"fetch", "query"} => \A b : ~Known(b)

FollowInv ==
    Following => Follows(house, Wanted, socket.inbox, store, socket.blocks,
                         socket.pc \in {"listen", "live"})

-----------------------------------------------------------------------------
(* What the page makes of a list of bids.                                  *)

\* maxBid() finds a highest bid.
LEMMA MaxBidFacts ==
    ASSUME NEW bids \in Seq(Bids), bids # <<>>
    PROVE  \E i \in DOMAIN bids :
             maxBid(bids) = bids[i] /\ \A j \in DOMAIN bids : bids[j].value <= bids[i].value
<1> DEFINE n == Len(bids)
           Beats(i, j) == \/ bids[i].value > bids[j].value
                          \/ bids[i].value = bids[j].value /\ i >= j
           S == {m \in Nat : m \in 1..n => \E i \in 1..m : \A j \in 1..m : Beats(i, j)}
<1>1. n \in Nat \ {0} /\ DOMAIN bids = 1..n  OBVIOUS
<1>2. \A i \in 1..n : bids[i].value \in Nat
  <2> SUFFICES ASSUME NEW i \in 1..n PROVE bids[i].value \in Nat
    OBVIOUS
  <2>1. PICK b \in Bids : b = bids[i]  OBVIOUS
  <2> QED  BY <2>1 DEF Bids
<1>3. 0 \in S  BY <1>1
<1>4. ASSUME NEW m \in Nat, m \in S PROVE m + 1 \in S
  <2> SUFFICES ASSUME m + 1 \in 1..n
               PROVE  \E i \in 1..(m + 1) : \A j \in 1..(m + 1) : Beats(i, j)
    BY DEF S
  <2>1. CASE m = 0  BY <1>2, <2>1
  <2>2. CASE m # 0
    <3>1. m \in 1..n  BY <1>1, <2>2
    <3>2. PICK i \in 1..m : \A j \in 1..m : Beats(i, j)  BY <1>4, <3>1
    <3>3. CASE bids[m + 1].value >= bids[i].value
      <4>1. \A j \in 1..m : bids[m + 1].value >= bids[j].value  BY <1>2, <3>1, <3>2, <3>3
      <4>2. \A j \in 1..(m + 1) : Beats(m + 1, j)  BY <1>2, <3>1, <4>1
      <4> QED  BY <4>2
    <3>4. CASE bids[m + 1].value < bids[i].value
      <4>1. Beats(i, m + 1)  BY <1>2, <3>1, <3>4
      <4>2. \A j \in 1..(m + 1) : Beats(i, j)  BY <3>2, <4>1
      <4> QED  BY <4>2
    <3>5. bids[m + 1].value >= bids[i].value \/ bids[m + 1].value < bids[i].value
      <4>1. m + 1 \in 1..n /\ i \in 1..n  BY <3>1
      <4>2. bids[m + 1].value \in Nat /\ bids[i].value \in Nat  BY <1>2, <4>1
      <4> QED  BY <4>2
    <3> QED  BY <3>3, <3>4, <3>5
  <2> QED  BY <2>1, <2>2
<1>5. n \in S
  <2> HIDE DEF S
  <2>1. Nat \subseteq S  BY <1>3, <1>4, SetInduction
  <2> QED  BY <1>1, <2>1
<1>6. \E i \in DOMAIN bids : \A j \in DOMAIN bids : Beats(i, j)
  <2>1. n \in 1..n  BY <1>1
  <2>2. \E i \in 1..n : \A j \in 1..n : Beats(i, j)  BY <1>5, <2>1
  <2> HIDE DEF Beats, n
  <2> QED  BY <1>1, <2>2
<1> DEFINE best == CHOOSE i \in DOMAIN bids : \A j \in DOMAIN bids : Beats(i, j)
<1>7. maxBid(bids) = bids[best]  BY DEF maxBid
<1>8. best \in DOMAIN bids /\ \A j \in DOMAIN bids : Beats(best, j)  BY <1>6
<1> HIDE DEF best
<1>9. \A j \in DOMAIN bids : bids[j].value <= bids[best].value  BY <1>1, <1>2, <1>8
<1> QED  BY <1>7, <1>8, <1>9

\* The sort of a list of bids keeps each of them: every bid has a place of its own.
LEMMA SortKeepsBids ==
    ASSUME NEW bids \in Seq(Bids)
    PROVE  LET sorted == deserializeBids(bids)
           IN  /\ sorted \in Seq(Bids)
               /\ \A k \in DOMAIN sorted : \E i \in DOMAIN bids : sorted[k] = bids[i]
               /\ \A i \in DOMAIN bids : \E k \in DOMAIN sorted : sorted[k] = bids[i]
<1> DEFINE n == Len(bids)
           Before(i, j) == \/ bids[i].time > bids[j].time
                           \/ bids[i].time = bids[j].time /\ i < j
           first(i) == {j \in DOMAIN bids : Before(j, i)}
           place == [i \in DOMAIN bids |-> 1 + Cardinality(first(i))]
           sorted == [k \in DOMAIN bids |-> bids[CHOOSE i \in DOMAIN bids : place[i] = k]]
<1>1. n \in Nat /\ DOMAIN bids = 1..n  OBVIOUS
<1>2. \A i \in 1..n : bids[i].time \in Nat
  <2> SUFFICES ASSUME NEW i \in 1..n PROVE bids[i].time \in Nat
    OBVIOUS
  <2>1. PICK b \in Bids : b = bids[i]  OBVIOUS
  <2> QED  BY <2>1 DEF Bids
<1>3. IsFiniteSet(1..n) /\ Cardinality(1..n) = n  BY <1>1, FS_Interval
<1>4. ASSUME NEW i \in 1..n
      PROVE  /\ first(i) \in SUBSET (1..n) /\ i \notin first(i)
             /\ IsFiniteSet(first(i)) /\ Cardinality(first(i)) \in Nat
             /\ Cardinality(first(i) \cup {i}) = Cardinality(first(i)) + 1
  <2>1. first(i) \in SUBSET (1..n) /\ i \notin first(i)  BY <1>1, <1>2
  <2>2. IsFiniteSet(first(i))  BY <1>3, <2>1, FS_Subset
  <2> HIDE DEF first
  <2>3. Cardinality(first(i)) \in Nat /\ Cardinality(first(i) \cup {i}) = Cardinality(first(i)) + 1
    BY <2>1, <2>2, FS_CardinalityType, FS_AddElement
  <2> QED  BY <2>1, <2>2, <2>3
<1>5. ASSUME NEW i \in 1..n PROVE place[i] \in 1..n
  <2>1. first(i) \cup {i} \in SUBSET (1..n)  BY <1>4
  <2>2. Cardinality(first(i) \cup {i}) <= n  BY <1>3, <2>1, FS_Subset
  <2>3. Cardinality(first(i)) + 1 <= n /\ Cardinality(first(i)) \in Nat  BY <1>4, <2>2
  <2>4. place[i] = 1 + Cardinality(first(i))  BY <1>1
  <2> HIDE DEF first, place
  <2> QED  BY <1>1, <2>3, <2>4
<1>6. ASSUME NEW i \in 1..n, NEW j \in 1..n, Before(i, j) PROVE place[i] < place[j]
  <2>1. first(i) \cup {i} \in SUBSET first(j)  BY <1>1, <1>2, <1>6
  <2>2. Cardinality(first(i) \cup {i}) <= Cardinality(first(j))  BY <1>4, <2>1, FS_Subset
  <2>3. Cardinality(first(i)) + 1 <= Cardinality(first(j))
        /\ Cardinality(first(i)) \in Nat /\ Cardinality(first(j)) \in Nat
    BY <1>4, <2>2
  <2>4. place[i] = 1 + Cardinality(first(i)) /\ place[j] = 1 + Cardinality(first(j))  BY <1>1
  <2> HIDE DEF first, place
  <2> QED  BY <2>3, <2>4
<1>7. ASSUME NEW i \in 1..n, NEW j \in 1..n, i # j PROVE place[i] # place[j]
  <2>1. Before(i, j) \/ Before(j, i)  BY <1>2, <1>7
  <2> HIDE DEF place
  <2>2. place[i] \in Nat /\ place[j] \in Nat
    <3>1. place[i] \in 1..n /\ place[j] \in 1..n  BY <1>5
    <3> QED  BY <1>1, <3>1
  <2>3. CASE Before(i, j)
    <3>1. place[i] < place[j]  BY <1>6, <2>3
    <3> QED  BY <2>2, <3>1
  <2>4. CASE Before(j, i)
    <3>1. place[j] < place[i]  BY <1>6, <2>4
    <3> QED  BY <2>2, <3>1
  <2> QED  BY <2>1, <2>3, <2>4
<1> HIDE DEF place
<1>8. \A k \in 1..n : \E i \in 1..n : place[i] = k
  <2>1. place \in [1..n -> 1..n]  BY <1>1, <1>5 DEF place
  <2>2. place \in Injection(1..n, 1..n)  BY <1>7, <2>1 DEF Injection, IsInjective
  <2>3. place \in Surjection(1..n, 1..n)  BY <1>3, <2>2, FS_Injection
  <2> QED  BY <2>3 DEF Surjection
<1>9. ASSUME NEW k \in 1..n
      PROVE  \E i \in 1..n : sorted[k] = bids[i] /\ place[i] = k
  <2> DEFINE i == CHOOSE x \in DOMAIN bids : place[x] = k
  <2>1. i \in 1..n /\ place[i] = k  BY <1>1, <1>8
  <2>2. sorted[k] = bids[i]  BY <1>1
  <2> HIDE DEF i, sorted
  <2> QED  BY <2>1, <2>2
<1>10. deserializeBids(bids) = sorted  BY DEF deserializeBids, place
<1>11. sorted \in [1..n -> Bids]
  <2>1. DOMAIN sorted = 1..n /\ sorted = [k \in 1..n |-> sorted[k]]  BY <1>1
  <2> HIDE DEF sorted
  <2>2. \A k \in 1..n : sorted[k] \in Bids  BY <1>9
  <2> QED  BY <2>1, <2>2
<1> HIDE DEF sorted
<1>12. sorted \in Seq(Bids) /\ DOMAIN sorted = 1..n
  <2>1. PICK m \in Nat : m = n  BY <1>1
  <2> QED  BY <1>11, <2>1, SeqDef
<1>13. ASSUME NEW i \in 1..n PROVE \E k \in 1..n : sorted[k] = bids[i]
  <2>1. place[i] \in 1..n  BY <1>5
  <2>2. PICK j \in 1..n : sorted[place[i]] = bids[j] /\ place[j] = place[i]  BY <1>9, <2>1
  <2>3. j = i  BY <1>7, <2>2
  <2> QED  BY <2>1, <2>2, <2>3
<1> HIDE DEF n
<1> QED  BY <1>1, <1>9, <1>10, <1>12, <1>13

\* The bids of an Alp in the log: no other, and each of them a bid.
LEMMA BidsOfFacts ==
    ASSUME bidLog \in Seq(Bids), NEW alp
    PROVE  /\ BidsOf(alp) \in Seq(Bids)
           /\ \A i \in DOMAIN BidsOf(alp) : BidsOf(alp)[i].alp = alp
<1> DEFINE n == Len(bidLog)
           Good(s) == s \in Seq(Bids) /\ \A i \in DOMAIN s : s[i].alp = alp
           Next1(g, m) == IF m = 0 THEN <<>>
                         ELSE IF bidLog[m].alp = alp THEN Append(g[m - 1], bidLog[m])
                         ELSE g[m - 1]
           IsTable(g) == g = [m \in 0..n |-> Next1(g, m)]
<1>1. n \in Nat  OBVIOUS
<1>2. \A s : Good(s) => \A m \in 1..n : bidLog[m].alp = alp => Good(Append(s, bidLog[m]))
  <2> SUFFICES ASSUME NEW s, Good(s), NEW m \in 1..n, bidLog[m].alp = alp
               PROVE  Good(Append(s, bidLog[m]))
    OBVIOUS
  <2>1. PICK b \in Bids : b = bidLog[m]  OBVIOUS
  <2> QED  BY <2>1
<1>3. Good(<<>>)  OBVIOUS
<1> HIDE DEF Good
<1>4. ASSUME NEW m \in Nat, NEW g, \A k \in 0..m : Good(g[k]), m + 1 \in 0..n
      PROVE  Good(Next1(g, m + 1))
  <2>1. Good(g[m]) /\ (m + 1) - 1 = m /\ m + 1 # 0 /\ m + 1 \in 1..n  BY <1>4
  <2> QED  BY <1>2, <2>1
<1>5. \E g : IsTable(g)
  <2> DEFINE UpTo(g, m) == \A k \in 0..n : k <= m => g[k] = Next1(g, k)
             S == {m \in Nat : \E g : UpTo(g, m)}
  <2>1. 0 \in S
    <3> DEFINE g == [k \in 0..n |-> <<>>]
    <3>1. UpTo(g, 0)  BY <1>1
    <3> QED  BY <3>1
  <2>2. ASSUME NEW m \in Nat, m \in S PROVE m + 1 \in S
    <3>1. PICK g : UpTo(g, m)  BY <2>2
    <3> DEFINE h == [k \in 0..n |-> IF k <= m THEN g[k] ELSE Next1(g, k)]
    <3>2. ASSUME NEW k \in 0..n, k <= m + 1 PROVE h[k] = Next1(h, k)
      <4>1. k = 0 \/ (k - 1 \in 0..n /\ k - 1 <= m)  BY <1>1, <3>2
      <4>2. Next1(h, k) = Next1(g, k)  BY <4>1
      <4>3. h[k] = Next1(g, k)  BY <3>1, <3>2
      <4> QED  BY <4>2, <4>3
    <3> HIDE DEF h
    <3>3. UpTo(h, m + 1)  BY <3>2
    <3> QED  BY <3>3
  <2>3. n \in S
    <3> HIDE DEF S
    <3>1. Nat \subseteq S  BY <2>1, <2>2, SetInduction
    <3> QED  BY <1>1, <3>1
  <2>4. PICK g : UpTo(g, n)  BY <2>3
  <2> DEFINE h == [k \in 0..n |-> g[k]]
  <2>5. ASSUME NEW k \in 0..n PROVE h[k] = Next1(h, k)
    <3>1. k = 0 \/ k - 1 \in 0..n  BY <1>1
    <3>2. Next1(h, k) = Next1(g, k)  BY <3>1
    <3>3. g[k] = Next1(g, k)  BY <1>1, <2>4
    <3> QED  BY <3>2, <3>3
  <2>6. h = [k \in 0..n |-> h[k]]  OBVIOUS
  <2> HIDE DEF h
  <2>7. IsTable(h)  BY <2>5, <2>6
  <2> QED  BY <2>7
<1> DEFINE f == CHOOSE g : IsTable(g)
<1>6. BidsOf(alp) = f[n]  BY DEF BidsOf
<1>7. IsTable(f)  BY <1>5
<1> HIDE DEF f
<1>8. \A k \in 0..n : f[k] = Next1(f, k)  BY <1>7
<1> DEFINE S == {m \in Nat : m <= n => \A k \in 0..m : Good(f[k])}
<1>9. 0 \in S  BY <1>1, <1>3, <1>8
<1>10. ASSUME NEW m \in Nat, m \in S PROVE m + 1 \in S
  <2> SUFFICES ASSUME m + 1 <= n, NEW k \in 0..(m + 1) PROVE Good(f[k])
    BY DEF S
  <2>1. m + 1 \in 0..n /\ \A i \in 0..m : Good(f[i])  BY <1>1, <1>10
  <2>2. CASE k = m + 1
    <3>1. Good(Next1(f, m + 1))  BY <1>4, <2>1
    <3> QED  BY <1>8, <2>1, <2>2, <3>1
  <2>3. CASE k # m + 1  BY <2>1, <2>3
  <2> QED  BY <2>2, <2>3
<1>11. Good(f[n])
  <2>1. Nat \subseteq S
    <3> HIDE DEF S
    <3> QED  BY <1>9, <1>10, SetInduction
  <2>2. n \in S  BY <1>1, <2>1
  <2> QED  BY <1>1, <2>2
<1> QED  BY <1>6, <1>11 DEF Good

-----------------------------------------------------------------------------
(* The store and the socket, one operation at a time.                      *)

\* The auction on display is the active one or another, for the Alp asked for.
LEMMA OnDisplayFacts ==
    ASSUME NEW s \in Stores, OnDisplay(s) # None
    PROVE  /\ s.shown \in Nat /\ s.active \in Auctions
           /\ OnDisplay(s).alp = s.shown
           /\ s.shown = s.active.alp => OnDisplay(s) = s.active
<1> USE DEF OnDisplay, useOnDisplayAuction
<1>1. s.shown # None /\ s.active # None  OBVIOUS
<1>2. s.shown \in Nat /\ s.active \in Auctions  BY <1>1 DEF Stores
<1>3. CASE s.shown = s.active.alp  BY <1>1, <1>2, <1>3
<1>4. CASE s.shown # s.active.alp /\ isAlperAlp(s.shown)
  <2>1. OnDisplay(s) = generateEmptyAlperAuction(s, s.shown)  BY <1>1, <1>4
  <2> QED  BY <1>2, <1>4, <2>1 DEF generateEmptyAlperAuction, reduxSafeNewAuction
<1>5. CASE s.shown # s.active.alp /\ ~isAlperAlp(s.shown)
  <2> DEFINE a == PastAuction(s, s.shown)
  <2>1. a # None /\ OnDisplay(s) = a.auction
    <3> HIDE DEF a
    <3>1. OnDisplay(s) = IF a = None THEN None ELSE a.auction  BY <1>1, <1>5 DEF a
    <3> QED  BY <3>1
  <2>2. a.auction.alp = s.shown  BY <2>1 DEF PastAuction
  <2> QED  BY <1>2, <1>5, <2>1, <2>2
<1> QED  BY <1>3, <1>4, <1>5

\* The effect of AuctionPage moves the display only, and not out of range.
LEMMA PageEffectFacts ==
    ASSUME NEW s \in Stores, NEW r \in Int \cup {None}, InRange(s)
    PROVE  LET t == PageEffect(s, r)
           IN  /\ t \in Stores /\ InRange(t)
               /\ t.active = s.active /\ t.bids = s.bids /\ t.last = s.last /\ t.past = s.past
               /\ s.last = None => t = s
<1>1. None \notin Int  BY NoneAssumption
<1>2. /\ s.last \in Nat \cup {None} /\ s.shown \in Nat \cup {None}
      /\ s.active \in Auctions \cup {None} /\ s.bids \in Seq(Bids) /\ s.past \in SUBSET Pasts
  BY DEF Stores
<1>3. ASSUME NEW x \in Nat, x <= s.last, s.last # None
      PROVE  LET t == setOnDisplayAuctionAlpId(s, x)
             IN  /\ t \in Stores /\ InRange(t)
                 /\ t.active = s.active /\ t.bids = s.bids /\ t.last = s.last /\ t.past = s.past
  BY <1>1, <1>3 DEF setOnDisplayAuctionAlpId, InRange, Stores
<1>4. CASE s.last \in {None, 0}  BY <1>4 DEF PageEffect
<1>5. CASE s.last \notin {None, 0} /\ (r = None \/ r > s.last \/ r < 0)
  <2>1. PageEffect(s, r) = setOnDisplayAuctionAlpId(s, s.last)  BY <1>5 DEF PageEffect
  <2>2. s.last \in Nat /\ s.last <= s.last  BY <1>2, <1>5
  <2> QED  BY <1>3, <1>5, <2>1, <2>2
<1>6. CASE s.last \notin {None, 0} /\ ~(r = None \/ r > s.last \/ r < 0)
  <2>1. r \in Nat /\ r <= s.last  BY <1>1, <1>2, <1>6
  <2>2. \/ PageEffect(s, r) = setOnDisplayAuctionAlpId(s, r)
        \/ PageEffect(s, r) = s
    BY <1>6 DEF PageEffect
  <2> QED  BY <1>3, <1>6, <2>1, <2>2
<1> QED  BY <1>4, <1>5, <1>6

\* A render.
LEMMA RenderedFacts ==
    ASSUME NEW s \in Stores, NEW r \in Int \cup {None}, InRange(s), Rendered(s, r)
    PROVE  /\ store' \in Stores /\ InRange(store') /\ route' = r
           /\ store'.active = s.active /\ store'.bids = s.bids
           /\ store'.last = s.last /\ store'.past = s.past
           /\ s.last = None => store' = s
           /\ over' = EndedEffect(store')
  BY PageEffectFacts DEF Rendered

\* The events the house sends while the tab listens are put at the end of the inbox.
LEMMA SendFacts ==
    ASSUME TabTyped, NEW events \in Seq(Events), Send(events)
    PROVE  /\ socket' \in Sockets /\ socket'.pc = socket.pc /\ socket'.blocks = socket.blocks
           /\ socket'.from = socket.from
           /\ IF socket.pc = "live" THEN socket'.inbox = socket.inbox \o events
                                    ELSE socket'.inbox = socket.inbox
           /\ socket.pc = "live" \/ socket.pc = "fetch" => socket'.missed = socket.missed
           /\ socket.pc # "live" /\ socket.pc # "fetch" => socket'.missed
<1> USE DEF TabTyped, Sockets
<1>1. CASE socket.pc = "live"
  <2>1. socket.inbox \o events \in Seq(Events)  OBVIOUS
  <2>2. socket' = [socket EXCEPT !.inbox = socket.inbox \o events]  BY <1>1 DEF Send
  <2> QED  BY <1>1, <2>1, <2>2
<1>2. CASE socket.pc = "fetch"  BY <1>2 DEF Send
<1>3. CASE socket.pc # "live" /\ socket.pc # "fetch"
  <2>1. socket' = [socket EXCEPT !.missed = TRUE]  BY <1>3 DEF Send
  <2> QED  BY <1>3, <2>1
<1> QED  BY <1>1, <1>2, <1>3

-----------------------------------------------------------------------------
(* The house: its clock, its bids and its auctions.                        *)

\* The bid a step of the house takes, and the end it leaves.
BidTaken(who, v) ==
    [alp |-> house.alp, sender |-> who, value |-> v, time |-> now, tx |-> Len(bidLog) + 1]
EndLeft == IF house.end - now < TimeBuffer THEN now + TimeBuffer ELSE house.end

\* A logged bid stays logged, and so does what was heard of it.
LEMMA LoggedGrows ==
    ASSUME NEW L, NEW M, L \subseteq M
    PROVE  /\ \A alp, amount : BidLogged(L, alp, amount) => BidLogged(M, alp, amount)
           /\ \A e : EventLogged(L, e) => EventLogged(M, e)
           /\ \A s : StoreInv(L, s) => StoreInv(M, s)
<1>1. \A alp, amount : BidLogged(L, alp, amount) => BidLogged(M, alp, amount)  BY DEF BidLogged
<1>2. \A e : EventLogged(L, e) => EventLogged(M, e)  BY <1>1 DEF EventLogged
<1>3. \A s : StoreInv(L, s) => StoreInv(M, s)
  <2> SUFFICES ASSUME NEW s, StoreInv(L, s) PROVE StoreInv(M, s)
    OBVIOUS
  <2>1. s.active # None => BidLogged(M, s.active.alp, s.active.amount)
    <3>1. s.active # None => BidLogged(L, s.active.alp, s.active.amount)  BY DEF StoreInv
    <3> QED  BY <1>1, <3>1
  <2> QED  BY <2>1 DEF StoreInv
<1> QED  BY <1>1, <1>2, <1>3

\* A bid the house takes becomes the highest one for its Alp.
LEMMA BiddingFacts ==
    ASSUME ChainTyped, LogInv, NEW who \in {Me, Other}, NEW v \in Nat \ {0}, Bidding(who, v)
    PROVE  /\ ChainTyped' /\ LogInv'
           /\ BidTaken(who, v) \in Bids /\ BidTaken(who, v) \in Logged'
           /\ Logged' \subseteq Logged \cup {BidTaken(who, v)} /\ Logged \subseteq Logged'
           /\ house' = [house EXCEPT !.amount = v, !.bidder = who, !.end = EndLeft]
           /\ house'.alp = house.alp /\ house'.end = EndLeft /\ EndLeft \in Nat
           /\ UNCHANGED <<now, ended>>
<1> DEFINE bid == BidTaken(who, v)
           n == Len(bidLog)
<1>1. /\ now \in Nat /\ house \in Auctions /\ bidLog \in Seq(Bids) /\ ended \in SUBSET Pasts
      /\ house.alp \in Nat /\ house.amount \in Nat /\ house.end \in Nat
  BY DEF ChainTyped, Auctions
<1>2. TimeBuffer \in Nat  BY WebAssumption
<1>3. n \in Nat /\ DOMAIN bidLog = 1..n  BY <1>1
<1>4. bid \in Bids  BY <1>1, <1>3 DEF BidTaken, Bids
<1>5. bid.alp = house.alp /\ bid.value = v /\ bid.sender = who /\ bid.tx = n + 1  BY DEF BidTaken
<1>6. EndLeft \in Nat  BY <1>1, <1>2 DEF EndLeft
<1>7. bidLog' = Append(bidLog, bid) /\ v > house.amount /\ UNCHANGED <<now, ended>>
  BY DEF Bidding, BidTaken
<1>8. house' = [house EXCEPT !.amount = v, !.bidder = who, !.end = EndLeft]
  BY DEF Bidding, EndLeft
<1>9. /\ house' \in Auctions /\ house'.alp = house.alp /\ house'.end = EndLeft
      /\ house'.amount = v /\ house'.bidder = who
  BY <1>1, <1>6, <1>8 DEF Auctions
<1> HIDE DEF bid
<1>10. /\ bidLog' \in Seq(Bids) /\ DOMAIN bidLog' = 1..(n + 1) /\ bidLog'[n + 1] = bid
       /\ \A i \in 1..n : bidLog'[i] = bidLog[i]
  BY <1>1, <1>3, <1>4, <1>7
<1>11. ChainTyped'  BY <1>1, <1>7, <1>9, <1>10 DEF ChainTyped
<1>12. bid \in Logged' /\ Logged \subseteq Logged'
  <2>1. n + 1 \in 1..(n + 1) /\ \A i \in 1..n : i \in 1..(n + 1)  BY <1>3
  <2> HIDE DEF n
  <2> QED  BY <1>3, <1>10, <2>1 DEF Logged
<1>13. Logged' \subseteq Logged \cup {bid}
  <2> SUFFICES ASSUME NEW i \in 1..(n + 1) PROVE bidLog'[i] \in Logged \cup {bid}
    BY <1>10 DEF Logged
  <2>1. i \in 1..n \/ i = n + 1  BY <1>3
  <2> QED  BY <1>3, <1>10, <2>1 DEF Logged
<1>14. \A b \in Logged : b.value \in Nat
  <2> SUFFICES ASSUME NEW i \in 1..n PROVE bidLog[i].value \in Nat
    BY <1>3 DEF Logged
  <2>1. PICK b \in Bids : b = bidLog[i]  BY <1>1, <1>3
  <2> QED  BY <2>1 DEF Bids
<1>15. \A i \in 1..(n + 1) : bidLog'[i].tx = i /\ bidLog'[i].alp <= house'.alp
  <2> SUFFICES ASSUME NEW i \in 1..(n + 1) PROVE bidLog'[i].tx = i /\ bidLog'[i].alp <= house'.alp
    OBVIOUS
  <2>1. CASE i = n + 1  BY <1>1, <1>5, <1>9, <1>10, <2>1
  <2>2. CASE i # n + 1
    <3>1. i \in 1..n  BY <1>3, <2>2
    <3> QED  BY <1>3, <1>9, <1>10, <3>1 DEF LogInv
  <2> QED  BY <2>1, <2>2
<1>16. ASSUME NEW b \in Logged', b.alp = house'.alp
       PROVE  b.value <= house'.amount /\ (b.value = house'.amount => b.sender = house'.bidder)
  <2>1. CASE b = bid  BY <1>5, <1>9, <2>1
  <2>2. CASE b \in Logged
    <3>1. b.value <= house.amount /\ b.value \in Nat  BY <1>9, <1>14, <1>16, <2>2 DEF LogInv
    <3>2. b.value < v  BY <1>1, <1>7, <3>1
    <3> QED  BY <1>9, <3>1, <3>2
  <2> QED  BY <1>13, <2>1, <2>2
<1>17. \E b \in Logged' : b.alp = house'.alp /\ b.value = house'.amount
  BY <1>5, <1>9, <1>12
<1>18. LogInv'  BY <1>10, <1>15, <1>16, <1>17 DEF LogInv
<1> QED  BY <1>4, <1>6, <1>7, <1>8, <1>9, <1>11, <1>12, <1>13, <1>18 DEF bid

\* A new auction has no bid, and ends after Duration.
LEMMA NewAuctionFacts ==
    ASSUME NEW alp \in Nat, NEW start \in Nat
    PROVE  /\ NewAuction(alp, start) \in Auctions
           /\ NewAuction(alp, start).alp = alp /\ NewAuction(alp, start).amount = 0
<1>1. start + Duration \in Nat  BY WebAssumption
<1> DEFINE end == start + Duration
<1>2. NewAuction(alp, start) = [alp |-> alp, amount |-> 0, bidder |-> NoBidder,
                               start |-> start, end |-> end]
  BY DEF NewAuction
<1> HIDE DEF end
<1> QED  BY <1>1, <1>2 DEF Auctions, end

\* The running auction as the subgraph answers it.
LEMMA PastAuctionFacts ==
    ASSUME ChainTyped
    PROVE  reduxSafePastAuction \in Pasts /\ BidsMatch(reduxSafePastAuction)
<1> DEFINE a == [house EXCEPT !.bidder = IF @ = NoBidder THEN "" ELSE @]
<1>1. a \in Auctions /\ a.alp = house.alp  BY DEF ChainTyped, Auctions
<1>2. /\ BidsOf(house.alp) \in Seq(Bids)
      /\ \A i \in DOMAIN BidsOf(house.alp) : BidsOf(house.alp)[i].alp = house.alp
  BY BidsOfFacts DEF ChainTyped
<1>3. reduxSafePastAuction = [auction |-> a, bids |-> BidsOf(house.alp)]  BY DEF reduxSafePastAuction
<1> HIDE DEF a
<1> QED  BY <1>1, <1>2, <1>3 DEF Pasts, BidsMatch

\* Settling puts up a later Alp, for which there is no bid yet.
LEMMA SettlingFacts ==
    ASSUME ChainTyped, LogInv, SettlingAndCreating
    PROVE  /\ ChainTyped' /\ LogInv' /\ Logged' = Logged
           /\ house' = NewAuction(NextAlp(house.alp), now) /\ house.alp < house'.alp
           /\ house'.amount = 0
           /\ UNCHANGED <<now, bidLog>>
           /\ \A p \in ended' : p \in ended \/ BidsMatch(p)
<1>1. /\ now \in Nat /\ house \in Auctions /\ bidLog \in Seq(Bids) /\ ended \in SUBSET Pasts
      /\ house.alp \in Nat /\ house.amount \in Nat /\ house.end \in Nat
  BY DEF ChainTyped, Auctions
<1> DEFINE p0 == reduxSafePastAuction
<1>2. /\ house' = NewAuction(NextAlp(house.alp), now) /\ UNCHANGED <<now, bidLog>>
      /\ ended' = ended \cup {p0}
  BY DEF SettlingAndCreating
<1>3. NextAlp(house.alp) \in Nat /\ house.alp < NextAlp(house.alp)  BY <1>1 DEF NextAlp
<1>4. /\ NewAuction(NextAlp(house.alp), now) \in Auctions
      /\ NewAuction(NextAlp(house.alp), now).alp = NextAlp(house.alp)
      /\ NewAuction(NextAlp(house.alp), now).amount = 0
  BY <1>1, <1>3, NewAuctionFacts
<1>5. house' \in Auctions /\ house'.alp = NextAlp(house.alp) /\ house'.amount = 0
  BY <1>2, <1>4
<1> HIDE DEF p0
<1>7. p0 \in Pasts /\ BidsMatch(p0)  BY PastAuctionFacts DEF p0
<1>8. BidsMatch(p0)  BY <1>7
<1>9. ChainTyped'  BY <1>1, <1>2, <1>5, <1>7 DEF ChainTyped
<1>10. Logged' = Logged  BY <1>2 DEF Logged
<1>11. \A i \in DOMAIN bidLog : bidLog[i].alp \in Nat
  <2> SUFFICES ASSUME NEW i \in DOMAIN bidLog PROVE bidLog[i].alp \in Nat
    OBVIOUS
  <2>1. PICK b \in Bids : b = bidLog[i]  BY <1>1
  <2> QED  BY <2>1 DEF Bids
<1>12. \A i \in DOMAIN bidLog : bidLog[i].tx = i /\ bidLog[i].alp < house'.alp
  <2> SUFFICES ASSUME NEW i \in DOMAIN bidLog PROVE bidLog[i].tx = i /\ bidLog[i].alp < house'.alp
    OBVIOUS
  <2>1. bidLog[i].tx = i /\ bidLog[i].alp <= house.alp /\ bidLog[i].alp \in Nat
    BY <1>11 DEF LogInv
  <2> QED  BY <1>1, <1>3, <1>5, <2>1
<1>13. \A b \in Logged : b.alp # house'.alp
  <2> SUFFICES ASSUME NEW i \in DOMAIN bidLog PROVE bidLog[i].alp # house'.alp
    BY DEF Logged
  <2>1. bidLog[i].alp < house'.alp /\ bidLog[i].alp \in Nat /\ house'.alp \in Nat
    BY <1>3, <1>5, <1>11, <1>12
  <2> QED  BY <2>1
<1>14. LogInv'
  <2>1. \A i \in DOMAIN bidLog : bidLog[i].tx = i /\ bidLog[i].alp <= house'.alp
    <3> SUFFICES ASSUME NEW i \in DOMAIN bidLog PROVE bidLog[i].tx = i /\ bidLog[i].alp <= house'.alp
      OBVIOUS
    <3>1. bidLog[i].tx = i /\ bidLog[i].alp < house'.alp /\ bidLog[i].alp \in Nat /\ house'.alp \in Nat
      BY <1>3, <1>5, <1>11, <1>12
    <3> QED  BY <3>1
  <2> QED  BY <1>2, <1>5, <1>10, <1>13, <2>1 DEF LogInv
<1> QED  BY <1>2, <1>3, <1>5, <1>8, <1>9, <1>10, <1>14

-----------------------------------------------------------------------------
(* What the reducers keep.                                                 *)

\* The parts of a store.
LEMMA StoreParts ==
    ASSUME NEW s \in Stores
    PROVE  /\ s.active \in Auctions \cup {None} /\ s.bids \in Seq(Bids)
           /\ s.last \in Nat \cup {None} /\ s.shown \in Nat \cup {None} /\ s.past \in SUBSET Pasts
           /\ None \notin Int /\ None \notin Auctions /\ None \notin Seq(Bids)
           /\ s.active # None => s.active.alp \in Nat /\ s.active.amount \in Nat /\ s.active.end \in Nat
  BY NoneAssumption DEF Stores, Auctions

\* The auction fetched when the page is loaded.
LEMMA FetchKeeps ==
    ASSUME NEW s, StoreInv(Logged, s), s.active = None, s.bids = <<>>, s.shown = None,
           ChainTyped, LogInv
    PROVE  StoreInv(Logged, setLastAuctionAlpId(setFullAuction(s, house), house.alp))
<1> DEFINE t == [s EXCEPT !.active = house, !.last = house.alp]
<1>1. setLastAuctionAlpId(setFullAuction(s, house), house.alp) = t
  BY DEF setLastAuctionAlpId, setFullAuction, StoreInv, Stores
<1>2. s \in Stores  BY DEF StoreInv
<1>3. house \in Auctions /\ house.alp \in Nat  BY DEF ChainTyped, Auctions
<1>4. /\ t \in Stores /\ t.active = house /\ t.last = house.alp
      /\ t.bids = <<>> /\ t.shown = None /\ t.past = s.past
  BY <1>2, <1>3 DEF Stores
<1> HIDE DEF t
<1>5. BidLogged(Logged, house.alp, house.amount)  BY DEF BidLogged, LogInv
<1>6. house # None  BY <1>3, NoneAssumption
<1>7. StoreInv(Logged, t)  BY <1>4, <1>5, <1>6 DEF StoreInv, InRange
<1> QED  BY <1>1, <1>7

\* An auction that is heard of takes the place of the active one.
LEMMA CreatedKeeps ==
    ASSUME NEW s, StoreInv(Logged, s), NEW alp \in Nat, NEW start \in Nat, NEW end \in Nat
    PROVE  LET new == reduxSafeNewAuction(alp, start, end)
               t == setLastAuctionAlpId(setOnDisplayAuctionAlpId(setActiveAuction(s, new), alp), alp)
           IN  StoreInv(Logged, t) /\ t.active = new /\ t.bids = <<>>
<1> DEFINE new == reduxSafeNewAuction(alp, start, end)
           t1 == setActiveAuction(s, new)
           t2 == setOnDisplayAuctionAlpId(t1, alp)
           t == setLastAuctionAlpId(t2, alp)
<1>1. s \in Stores  BY DEF StoreInv
<1>2. <<>> \in Seq(Bids)  OBVIOUS
<1>3. new \in Auctions /\ new.alp = alp /\ new.amount = 0
  BY DEF reduxSafeNewAuction, Auctions
<1> HIDE DEF new
<1>4. /\ t \in Stores /\ t.active = new /\ t.last = alp
      /\ t.bids = <<>> /\ t.shown = alp /\ t.past = s.past
  <2>1. /\ t1 \in Stores /\ t1.active = new /\ t1.last = s.last
        /\ t1.bids = <<>> /\ t1.shown = s.shown /\ t1.past = s.past
    BY <1>1, <1>2, <1>3 DEF Stores, setActiveAuction
  <2> HIDE DEF t1
  <2>2. /\ t2 \in Stores /\ t2.active = new /\ t2.last = s.last
        /\ t2.bids = <<>> /\ t2.shown = alp /\ t2.past = s.past
    BY <2>1 DEF Stores, setOnDisplayAuctionAlpId
  <2> HIDE DEF t2
  <2> QED  BY <2>2 DEF Stores, setLastAuctionAlpId
<1> HIDE DEF t
<1>5. BidLogged(Logged, alp, 0)  BY DEF BidLogged
<1>6. new # None /\ alp # None  BY <1>3, NoneAssumption
<1>7. StoreInv(Logged, t)  BY <1>3, <1>4, <1>5, <1>6 DEF StoreInv, InRange
<1> QED  BY <1>4, <1>7 DEF new, t

\* A later end, and a settlement, of the active auction or of another.
LEMMA ExtendedKeeps ==
    ASSUME NEW s, StoreInv(Logged, s), NEW alp, NEW end \in Nat
    PROVE  /\ StoreInv(Logged, setAuctionExtended(s, alp, end))
           /\ setAuctionExtended(s, alp, end) =
                IF s.active # None /\ s.active.alp = alp THEN [s EXCEPT !.active.end = end] ELSE s
<1> DEFINE a == [s.active EXCEPT !.end = end]
           t == [s EXCEPT !.active = a]
<1>1. CASE s.active # None /\ s.active.alp = alp
  <2>1. setAuctionExtended(s, alp, end) = t  BY <1>1 DEF setAuctionExtended, auctionsEqual
  <2>2. s \in Stores /\ s.active \in Auctions  BY <1>1, StoreParts DEF StoreInv
  <2>3. a \in Auctions /\ a.alp = s.active.alp /\ a.amount = s.active.amount
    BY <2>2 DEF Auctions
  <2> HIDE DEF a
  <2>4. /\ t \in Stores /\ t.active = a /\ t.bids = s.bids /\ t.last = s.last
        /\ t.shown = s.shown /\ t.past = s.past
    BY <2>2, <2>3 DEF Stores
  <2> HIDE DEF t
  <2>5. a # None  BY <2>3, NoneAssumption
  <2>6. StoreInv(Logged, t)  BY <1>1, <2>3, <2>4, <2>5 DEF StoreInv, InRange
  <2> QED  BY <1>1, <2>1, <2>6 DEF t, a
<1>2. CASE ~(s.active # None /\ s.active.alp = alp)
  BY <1>2 DEF setAuctionExtended, auctionsEqual
<1> QED  BY <1>1, <1>2

LEMMA SettledKeeps ==
    ASSUME NEW s, StoreInv(Logged, s), NEW alp, NEW winner \in {Me, Other, NoBidder, ""}, NEW amount \in Nat,
           BidLogged(Logged, alp, amount)
    PROVE  StoreInv(Logged, setAuctionSettled(s, alp, winner, amount))
<1> DEFINE a == [s.active EXCEPT !.bidder = winner, !.amount = amount]
           t == [s EXCEPT !.active = a]
<1>1. CASE s.active # None /\ s.active.alp = alp
  <2>1. s \in Stores /\ s.active \in Auctions  BY <1>1, StoreParts DEF StoreInv
  <2>2. setAuctionSettled(s, alp, winner, amount) = t
    BY <1>1, <2>1 DEF setAuctionSettled, auctionsEqual, Stores, Auctions
  <2>3. a \in Auctions /\ a.alp = s.active.alp /\ a.amount = amount
    BY <2>1 DEF Auctions
  <2> HIDE DEF a
  <2>4. /\ t \in Stores /\ t.active = a /\ t.bids = s.bids /\ t.last = s.last
        /\ t.shown = s.shown /\ t.past = s.past
    BY <2>1, <2>3 DEF Stores
  <2> HIDE DEF t
  <2>5. a # None  BY <2>3, NoneAssumption
  <2>6. StoreInv(Logged, t)  BY <1>1, <2>3, <2>4, <2>5 DEF StoreInv, InRange
  <2> QED  BY <2>2, <2>6
<1>2. CASE ~(s.active # None /\ s.active.alp = alp)
  BY <1>2 DEF setAuctionSettled, auctionsEqual
<1> QED  BY <1>1, <1>2

\* A bid heard of: it is put before the others when it is for the active auction and new,
\* and the auction shows the highest of them.
LEMMA AppendKeeps ==
    ASSUME NEW s, StoreInv(Logged, s), NEW bid \in Bids, bid \in Logged
    PROVE  LET t == appendBid(s, bid)
               skipped == ~auctionsEqual(s, bid.alp) \/ containsBid(s.bids, bid)
           IN  /\ StoreInv(Logged, t) /\ t.last = s.last
               /\ skipped => t = s
               /\ ~skipped =>
                    /\ t.bids = <<bid>> \o s.bids /\ t.active \in Auctions
                    /\ t.active.alp = s.active.alp /\ t.active.end = s.active.end
                    /\ t.active.amount = maxBid(t.bids).value
                    /\ t.active.bidder = maxBid(t.bids).sender
<1> DEFINE t == appendBid(s, bid)
           skipped == ~auctionsEqual(s, bid.alp) \/ containsBid(s.bids, bid)
           bids == <<bid>> \o s.bids
           top == maxBid(bids)
           a == [s.active EXCEPT !.amount = top.value, !.bidder = top.sender]
           u == [s EXCEPT !.bids = bids, !.active = a]
<1>1. CASE skipped
  <2>1. t = s  BY <1>1 DEF appendBid
  <2> QED  BY <1>1, <2>1
<1>2. CASE ~skipped
  <2>1. s.active # None /\ s.active.alp = bid.alp  BY <1>2 DEF auctionsEqual
  <2>2. /\ s \in Stores /\ s.active \in Auctions /\ s.bids \in Seq(Bids)
    BY <2>1, StoreParts DEF StoreInv
  <2>3. /\ bids \in Seq(Bids) /\ bids # <<>>
        /\ \A i \in DOMAIN bids : bids[i] = bid \/ \E j \in DOMAIN s.bids : bids[i] = s.bids[j]
    <3>1. <<bid>> \in Seq(Bids)  OBVIOUS
    <3>2. DOMAIN bids = 1..(1 + Len(s.bids)) /\ bids \in Seq(Bids)  BY <2>2, <3>1
    <3>3. ASSUME NEW i \in DOMAIN bids
          PROVE  bids[i] = bid \/ \E j \in DOMAIN s.bids : bids[i] = s.bids[j]
      <4>1. CASE i = 1  BY <2>2, <4>1
      <4>2. CASE i # 1
        <5>1. i - 1 \in 1..Len(s.bids) /\ Len(s.bids) \in Nat  BY <2>2, <3>2, <4>2
        <5>2. bids[i] = s.bids[i - 1]  BY <2>2, <3>1, <3>2, <4>2
        <5> QED  BY <2>2, <5>1, <5>2
      <4> QED  BY <4>1, <4>2
    <3>4. 1 \in DOMAIN bids  BY <2>2, <3>2
    <3> QED  BY <3>2, <3>3, <3>4
  <2> HIDE DEF bids
  <2>4. t = u
    BY <1>2, <2>1, <2>2 DEF appendBid, Stores, Auctions, bids
  <2>5. PICK i0 \in DOMAIN bids : top = bids[i0]
    <3> HIDE DEF top
    <3> QED  BY <2>3, MaxBidFacts DEF top
  <2>6. \A i \in DOMAIN bids : bids[i] \in Logged /\ bids[i].alp = bid.alp
    <3> SUFFICES ASSUME NEW i \in DOMAIN bids PROVE bids[i] \in Logged /\ bids[i].alp = bid.alp
      OBVIOUS
    <3>1. CASE bids[i] = bid  BY <3>1
    <3>2. CASE \E j \in DOMAIN s.bids : bids[i] = s.bids[j]
      <4>1. PICK j \in DOMAIN s.bids : bids[i] = s.bids[j]  BY <3>2
      <4>2. s.bids[j] \in Logged /\ s.bids[j].alp = s.active.alp  BY DEF StoreInv
      <4> QED  BY <2>1, <4>1, <4>2
    <3> QED  BY <2>3, <3>1, <3>2
  <2>7. top \in Bids /\ top \in Logged /\ top.alp = bid.alp
    <3> HIDE DEF top
    <3> QED  BY <2>3, <2>5, <2>6
  <2> HIDE DEF top
  <2>8. top.value \in Nat /\ top.sender \in {Me, Other, NoBidder, ""}  BY <2>7 DEF Bids
  <2>9. /\ a \in Auctions /\ a.alp = s.active.alp /\ a.end = s.active.end
        /\ a.amount = top.value /\ a.bidder = top.sender
    BY <2>2, <2>8 DEF Auctions
  <2> HIDE DEF a
  <2>10. /\ u \in Stores /\ u.active = a /\ u.bids = bids /\ u.last = s.last
         /\ u.shown = s.shown /\ u.past = s.past
    BY <2>2, <2>3, <2>9 DEF Stores
  <2> HIDE DEF u
  <2>11. a # None  BY <2>9, NoneAssumption
  <2>12. BidLogged(Logged, a.alp, a.amount)  BY <2>1, <2>7, <2>9 DEF BidLogged
  <2>13. StoreInv(Logged, u)  BY <2>1, <2>6, <2>9, <2>10, <2>11, <2>12 DEF StoreInv, InRange
  <2> HIDE DEF skipped, t
  <2>14. StoreInv(Logged, t) /\ t.last = s.last  BY <2>4, <2>10, <2>13
  <2>15. /\ t.bids = bids /\ t.active \in Auctions
         /\ t.active.alp = s.active.alp /\ t.active.end = s.active.end
         /\ t.active.amount = maxBid(t.bids).value
         /\ t.active.bidder = maxBid(t.bids).sender
    BY <2>4, <2>9, <2>10 DEF top
  <2> QED  BY <1>2, <2>14, <2>15 DEF t, skipped, bids
<1> QED  BY <1>1, <1>2

\* The past auctions are replaced by what the subgraph answers.
LEMMA PastKeeps ==
    ASSUME NEW s, StoreInv(Logged, s), NEW auctions \in SUBSET Pasts, \A p \in auctions : BidsMatch(p)
    PROVE  LET t == addPastAuctions(s, auctions)
           IN  StoreInv(Logged, t) /\ t.active = s.active /\ t.bids = s.bids /\ t.last = s.last
<1> DEFINE t == addPastAuctions(s, auctions)
<1>1. s \in Stores  BY DEF StoreInv
<1>2. /\ t \in Stores /\ t.active = s.active /\ t.bids = s.bids /\ t.last = s.last
      /\ t.shown = s.shown /\ t.past = auctions
  BY <1>1 DEF Stores, addPastAuctions
<1> HIDE DEF t
<1>3. StoreInv(Logged, t)  BY <1>2 DEF StoreInv, InRange
<1> QED  BY <1>2, <1>3 DEF t

\* Moving the display keeps the rest; one to the left or the right stays in range.
LEMMA ShownKeeps ==
    ASSUME NEW s, StoreInv(Logged, s), NEW t \in Stores, InRange(t),
           t.active = s.active, t.bids = s.bids, t.last = s.last, t.past = s.past
    PROVE  StoreInv(Logged, t)
  BY DEF StoreInv

LEMMA ArrowsKeep ==
    ASSUME NEW s, StoreInv(Logged, s)
    PROVE  \A t \in {setPrevOnDisplayAuctionAlpId(s), setNextOnDisplayAuctionAlpId(s)} :
               StoreInv(Logged, t) /\ t.active = s.active /\ t.bids = s.bids /\ t.last = s.last
<1>1. s \in Stores /\ InRange(s)  BY DEF StoreInv
<1>2. /\ s.last \in Nat \cup {None} /\ s.shown \in Nat \cup {None} /\ None \notin Int
  BY <1>1, StoreParts
<1>3. ASSUME NEW x \in Nat, s.last # None, x <= s.last
      PROVE  LET t == [s EXCEPT !.shown = x]
             IN  StoreInv(Logged, t) /\ t.active = s.active /\ t.bids = s.bids /\ t.last = s.last
  <2> DEFINE t == [s EXCEPT !.shown = x]
  <2>1. /\ t \in Stores /\ t.active = s.active /\ t.bids = s.bids /\ t.last = s.last
        /\ t.shown = x /\ t.past = s.past
    BY <1>1 DEF Stores
  <2> HIDE DEF t
  <2>2. InRange(t)  BY <1>3, <2>1 DEF InRange
  <2>3. StoreInv(Logged, t)  BY <2>1, <2>2, ShownKeeps
  <2> QED  BY <2>1, <2>3 DEF t
<1>4. LET t == setPrevOnDisplayAuctionAlpId(s)
      IN  StoreInv(Logged, t) /\ t.active = s.active /\ t.bids = s.bids /\ t.last = s.last
  <2>1. CASE s.shown \in {None, 0}  BY <2>1 DEF setPrevOnDisplayAuctionAlpId
  <2>2. CASE s.shown \notin {None, 0}
    <3>1. s.shown - 1 \in Nat /\ s.last # None /\ s.shown - 1 <= s.last
      BY <1>1, <1>2, <2>2 DEF InRange
    <3> DEFINE x == s.shown - 1
    <3>2. setPrevOnDisplayAuctionAlpId(s) = [s EXCEPT !.shown = x]
      BY <2>2 DEF setPrevOnDisplayAuctionAlpId
    <3> HIDE DEF x
    <3>3. x \in Nat /\ x <= s.last  BY <3>1 DEF x
    <3> QED  BY <1>3, <3>1, <3>2, <3>3
  <2> QED  BY <2>1, <2>2
<1>5. LET t == setNextOnDisplayAuctionAlpId(s)
      IN  StoreInv(Logged, t) /\ t.active = s.active /\ t.bids = s.bids /\ t.last = s.last
  <2>1. CASE s.shown \in {None, s.last}  BY <2>1 DEF setNextOnDisplayAuctionAlpId
  <2>2. CASE s.shown \notin {None, s.last}
    <3>1. s.shown + 1 \in Nat /\ s.last # None /\ s.shown + 1 <= s.last
      BY <1>1, <1>2, <2>2 DEF InRange
    <3> DEFINE x == s.shown + 1
    <3>2. setNextOnDisplayAuctionAlpId(s) = [s EXCEPT !.shown = x]
      BY <2>2 DEF setNextOnDisplayAuctionAlpId
    <3> HIDE DEF x
    <3>3. x \in Nat /\ x <= s.last  BY <3>1 DEF x
    <3> QED  BY <1>3, <3>1, <3>2, <3>3
  <2> QED  BY <2>1, <2>2
<1> QED  BY <1>4, <1>5

-----------------------------------------------------------------------------
(* The core of the page is kept by every step.                             *)

\* The parts of a socket and of an event.
LEMMA SocketParts ==
    ASSUME TabTyped
    PROVE  /\ socket.inbox \in Seq(Events) /\ socket.blocks \in SUBSET Bids
           /\ socket.pc \in {"fetch", "query", "listen", "live", "failed"}
           /\ socket.missed \in BOOLEAN /\ socket.from \in Int
  BY DEF TabTyped, Sockets

LEMMA EventParts ==
    ASSUME NEW e \in Events
    PROVE  /\ e.type \in {"AuctionBid", "AuctionExtended", "AuctionCreated", "AuctionSettled"}
           /\ e.type = "AuctionBid" => e.bid \in Bids
           /\ e.type = "AuctionExtended" => e.alp \in Nat /\ e.end \in Nat
           /\ e.type = "AuctionCreated" =>
                /\ e.auction \in Auctions
                /\ e.auction.alp \in Nat /\ e.auction.start \in Nat /\ e.auction.end \in Nat
           /\ e.type = "AuctionSettled" =>
                /\ e.alp \in Nat /\ e.amount \in Nat
                /\ e.winner \in {Me, Other, NoBidder, ""}
<1>1. CASE e \in [type : {"AuctionBid"}, bid : Bids]  BY <1>1
<1>2. CASE e \in [type : {"AuctionExtended"}, alp : Nat, end : Nat]  BY <1>2
<1>3. CASE e \in [type : {"AuctionCreated"}, auction : Auctions]  BY <1>3 DEF Auctions
<1>4. CASE e \in [type : {"AuctionSettled"}, alp : Nat, winner : {Me, Other, NoBidder, ""}, amount : Nat]
  BY <1>4
<1> QED  BY <1>1, <1>2, <1>3, <1>4 DEF Events

\* The events of a concatenation are those of its parts, one after the other.
LEMMA ConcatElements ==
    ASSUME NEW S, NEW s \in Seq(S), NEW t \in Seq(S)
    PROVE  /\ DOMAIN (s \o t) = 1..(Len(s) + Len(t))
           /\ \A i \in DOMAIN s : (s \o t)[i] = s[i]
           /\ \A j \in DOMAIN t : (s \o t)[Len(s) + j] = t[j]
           /\ \A i \in DOMAIN (s \o t) :
                i \in DOMAIN s \/ \E j \in DOMAIN t : i = Len(s) + j
           /\ \A i \in DOMAIN (s \o t) :
                (\E j \in DOMAIN s : (s \o t)[i] = s[j]) \/ (\E j \in DOMAIN t : (s \o t)[i] = t[j])
<1>1. DOMAIN (s \o t) = 1..(Len(s) + Len(t))  OBVIOUS
<1>2. ASSUME NEW i \in DOMAIN (s \o t), i \notin DOMAIN s PROVE \E j \in DOMAIN t : i = Len(s) + j
  <2>1. i - Len(s) \in DOMAIN t /\ i = Len(s) + (i - Len(s))  BY <1>1, <1>2
  <2> QED  BY <2>1
<1>3. \A i \in DOMAIN s : (s \o t)[i] = s[i]  OBVIOUS
<1>4. \A j \in DOMAIN t : (s \o t)[Len(s) + j] = t[j]  OBVIOUS
<1> DEFINE long == s \o t
<1> HIDE DEF long
<1>5. ASSUME NEW i \in DOMAIN long
      PROVE  (\E j \in DOMAIN s : long[i] = s[j]) \/ (\E j \in DOMAIN t : long[i] = t[j])
  <2>1. CASE i \in DOMAIN s  BY <1>3, <2>1 DEF long
  <2>2. CASE i \notin DOMAIN s
    <3>1. PICK j \in DOMAIN t : i = Len(s) + j  BY <1>2, <2>2 DEF long
    <3> QED  BY <1>4, <3>1 DEF long
  <2> QED  BY <2>1, <2>2
<1>6. \A i \in DOMAIN long : i \in DOMAIN s \/ \E j \in DOMAIN t : i = Len(s) + j
  BY <1>2 DEF long
<1>7. \A i \in DOMAIN long : (\E j \in DOMAIN s : long[i] = s[j]) \/ (\E j \in DOMAIN t : long[i] = t[j])
  BY <1>5
<1> QED  BY <1>1, <1>3, <1>4, <1>6, <1>7 DEF long

\* A step of the house.
LEMMA SentKeeps ==
    ASSUME CoreInv, NEW events \in Seq(Events), Send(events), UNCHANGED <<store, route>>,
           ChainTyped', LogInv', Logged \subseteq Logged',
           \A i \in DOMAIN events : EventLogged(Logged', events[i]),
           \A p \in ended' : p \in ended \/ BidsMatch(p)
    PROVE  CoreInv'
<1>1. TabTyped'  BY SendFacts DEF CoreInv, TabTyped
<1>2. StoreInv(Logged', store')
  <2>1. StoreInv(Logged', store)  BY LoggedGrows DEF CoreInv
  <2> QED  BY <2>1
<1>3. /\ socket'.pc = socket.pc /\ socket'.blocks = socket.blocks
      /\ IF socket.pc = "live" THEN socket'.inbox = socket.inbox \o events
                               ELSE socket'.inbox = socket.inbox
  BY SendFacts DEF CoreInv
<1>4. \A i \in DOMAIN socket.inbox : EventLogged(Logged', socket.inbox[i])
  BY LoggedGrows DEF CoreInv, SocketInv
<1>5. \A i \in DOMAIN socket'.inbox : EventLogged(Logged', socket'.inbox[i])
  <2>1. CASE socket.pc = "live"
    <3>1. PICK old \in Seq(Events) : old = socket.inbox  BY SocketParts DEF CoreInv
    <3>2. \A i \in DOMAIN (old \o events) :
            (\E j \in DOMAIN old : (old \o events)[i] = old[j])
            \/ (\E j \in DOMAIN events : (old \o events)[i] = events[j])
      BY ConcatElements
    <3> DEFINE long == old \o events
    <3>3. socket'.inbox = long  BY <1>3, <2>1, <3>1
    <3> HIDE DEF long
    <3> QED  BY <1>4, <3>1, <3>2, <3>3 DEF long
  <2>2. CASE socket.pc # "live"  BY <1>3, <1>4, <2>2
  <2> QED  BY <2>1, <2>2
<1>6. SocketInv'
  <2>1. socket'.blocks \subseteq Logged'  BY <1>3 DEF CoreInv, SocketInv
  <2>2. socket'.pc = "fetch" => /\ store'.active = None /\ store'.bids = <<>> /\ store'.shown = None
                                /\ socket'.blocks = {}
    BY <1>3 DEF CoreInv, SocketInv
  <2>3. socket'.pc # "live" => socket'.inbox = <<>>
    BY <1>3 DEF CoreInv, SocketInv
  <2> QED  BY <1>5, <2>1, <2>2, <2>3 DEF SocketInv
<1> QED  BY <1>1, <1>2, <1>6 DEF CoreInv, BidsMatch

\* A step of the tab that leaves the chain alone.
LEMMA TabKeeps ==
    ASSUME CoreInv, UNCHANGED chain, StoreInv(Logged, store'), route' \in Int \cup {None},
           socket' \in Sockets, socket'.blocks \subseteq Logged,
           \A i \in DOMAIN socket'.inbox : EventLogged(Logged, socket'.inbox[i]),
           socket'.pc # "live" => socket'.inbox = <<>>,
           socket'.pc = "fetch" => /\ store'.active = None /\ store'.bids = <<>>
                                   /\ store'.shown = None /\ socket'.blocks = {}
    PROVE  CoreInv'
<1>1. ChainTyped' /\ Logged' = Logged  BY DEF CoreInv, chain, ChainTyped, Logged
<1>2. LogInv'  BY <1>1 DEF CoreInv, LogInv, chain
<1>3. SocketInv'  BY <1>1 DEF SocketInv
<1> QED  BY <1>1, <1>2, <1>3 DEF CoreInv, TabTyped, chain, BidsMatch

\* A render.
LEMMA RenderKeeps ==
    ASSUME NEW s, StoreInv(Logged, s), NEW r \in Int \cup {None}, Rendered(s, r)
    PROVE  /\ StoreInv(Logged, store') /\ route' \in Int \cup {None}
           /\ store'.active = s.active /\ store'.bids = s.bids /\ store'.last = s.last
           /\ s.active = None => store' = s
<1>1. s \in Stores /\ InRange(s)  BY DEF StoreInv
<1>2. /\ store' \in Stores /\ InRange(store') /\ route' = r
      /\ store'.active = s.active /\ store'.bids = s.bids
      /\ store'.last = s.last /\ store'.past = s.past
      /\ s.last = None => store' = s
  BY <1>1, RenderedFacts
<1>3. StoreInv(Logged, store')  BY <1>2, ShownKeeps
<1>4. s.active = None => store' = s  BY <1>2 DEF StoreInv
<1> QED  BY <1>2, <1>3, <1>4

\* What the house sends when it takes a bid, and when an auction is settled.
BidHeard(who, v) ==
    <<[type |-> "AuctionBid", bid |-> BidTaken(who, v)]>> \o
    IF house.end - now < TimeBuffer
    THEN <<[type |-> "AuctionExtended", alp |-> house.alp, end |-> now + TimeBuffer]>> ELSE <<>>
SettleHeard ==
    <<[type |-> "AuctionSettled", alp |-> house.alp, winner |-> house.bidder, amount |-> house.amount],
      [type |-> "AuctionCreated", auction |-> house']>>

LEMMA BidHeardFacts ==
    ASSUME ChainTyped, NEW who, NEW v, BidTaken(who, v) \in Bids
    PROVE  LET heard == BidHeard(who, v)
           IN  /\ heard \in Seq(Events) /\ DOMAIN heard \in {1..1, 1..2}
               /\ heard[1].type = "AuctionBid" /\ heard[1].bid = BidTaken(who, v)
               /\ DOMAIN heard = 1..1 => EndLeft = house.end
               /\ DOMAIN heard = 1..2 => /\ heard[2].type = "AuctionExtended"
                                         /\ heard[2].alp = house.alp /\ heard[2].end = EndLeft
<1> DEFINE bid == BidTaken(who, v)
           e1 == [type |-> "AuctionBid", bid |-> bid]
           e2 == [type |-> "AuctionExtended", alp |-> house.alp, end |-> EndLeft]
<1>1. EndLeft \in Nat /\ house.alp \in Nat
  <2>1. now \in Nat /\ house.end \in Nat /\ house.alp \in Nat  BY DEF ChainTyped, Auctions
  <2>2. TimeBuffer \in Nat  BY WebAssumption
  <2> QED  BY <2>1, <2>2 DEF EndLeft
<1>2. e1 \in Events /\ e1.type = "AuctionBid" /\ e1.bid = bid  BY DEF Events
<1>3. e2 \in Events /\ e2.type = "AuctionExtended" /\ e2.alp = house.alp /\ e2.end = EndLeft
  BY <1>1 DEF Events
<1>4. CASE house.end - now < TimeBuffer
  <2>1. BidHeard(who, v) = <<e1>> \o <<e2>>  BY <1>4 DEF BidHeard, EndLeft
  <2> HIDE DEF e1, e2
  <2>2. <<e1>> \in Seq(Events) /\ <<e2>> \in Seq(Events)  BY <1>2, <1>3
  <2>3. <<e1>> \o <<e2>> \in Seq(Events)  BY <2>2
  <2> DEFINE heard == <<e1>> \o <<e2>>
  <2>4. DOMAIN heard = 1..2 /\ heard[1] = e1 /\ heard[2] = e2  OBVIOUS
  <2>5. 1..2 # 1..1
    <3>1. 2 \in 1..2 /\ 2 \notin 1..1  OBVIOUS
    <3> QED  BY <3>1
  <2> HIDE DEF heard
  <2>6. BidHeard(who, v) = heard  BY <2>1 DEF heard
  <2> QED  BY <1>2, <1>3, <2>3, <2>4, <2>5, <2>6 DEF heard
<1>5. CASE ~(house.end - now < TimeBuffer)
  <2>1. BidHeard(who, v) = <<e1>> \o <<>>  BY <1>5 DEF BidHeard
  <2>2. EndLeft = house.end  BY <1>5 DEF EndLeft
  <2> HIDE DEF e1, e2
  <2>3. <<e1>> \o <<>> = <<e1>>  OBVIOUS
  <2>4. <<e1>> \in Seq(Events)  BY <1>2
  <2> DEFINE heard == <<e1>>
  <2>5. DOMAIN heard = 1..1 /\ heard[1] = e1  OBVIOUS
  <2>6. 1..2 # 1..1
    <3>1. 2 \in 1..2 /\ 2 \notin 1..1  OBVIOUS
    <3> QED  BY <3>1
  <2> HIDE DEF heard
  <2>7. BidHeard(who, v) = heard  BY <2>1, <2>3 DEF heard
  <2> QED  BY <1>2, <2>2, <2>4, <2>5, <2>6, <2>7 DEF heard
<1> QED  BY <1>4, <1>5

LEMMA SettleHeardFacts ==
    ASSUME ChainTyped, ChainTyped'
    PROVE  LET heard == SettleHeard
           IN  /\ heard \in Seq(Events) /\ DOMAIN heard = 1..2
               /\ heard[1].type = "AuctionSettled" /\ heard[1].alp = house.alp
               /\ heard[1].amount = house.amount
               /\ heard[2].type = "AuctionCreated" /\ heard[2].auction = house'
<1> DEFINE e1 == [type |-> "AuctionSettled", alp |-> house.alp, winner |-> house.bidder,
                  amount |-> house.amount]
           e2 == [type |-> "AuctionCreated", auction |-> house']
<1>1. e1 \in Events /\ e1.type = "AuctionSettled" /\ e1.alp = house.alp /\ e1.amount = house.amount
  BY DEF Events, ChainTyped, Auctions
<1>2. e2 \in Events /\ e2.type = "AuctionCreated" /\ e2.auction = house'
  BY DEF Events, ChainTyped
<1>3. SettleHeard = <<e1, e2>>  BY DEF SettleHeard
<1> HIDE DEF e1, e2
<1> DEFINE heard == <<e1, e2>>
<1>4. heard \in Seq(Events)  BY <1>1, <1>2
<1>5. DOMAIN heard = 1..2 /\ heard[1] = e1 /\ heard[2] = e2  OBVIOUS
<1> HIDE DEF heard
<1> QED  BY <1>1, <1>2, <1>3, <1>4, <1>5 DEF heard

\* A bid, and a settlement, keep the core.
LEMMA BiddingKeeps ==
    ASSUME CoreInv, NEW who \in {Me, Other}, NEW v \in Nat \ {0}, Bidding(who, v),
           UNCHANGED <<store, route>>
    PROVE  CoreInv' /\ Send(BidHeard(who, v)) /\ BidHeard(who, v) \in Seq(Events)
<1>1. /\ ChainTyped' /\ LogInv'
      /\ BidTaken(who, v) \in Bids /\ BidTaken(who, v) \in Logged' /\ Logged \subseteq Logged'
      /\ ended' = ended
  BY BiddingFacts DEF CoreInv
<1>2. Send(BidHeard(who, v))  BY DEF Bidding, BidHeard, BidTaken
<1> DEFINE heard == BidHeard(who, v)
<1>3. /\ heard \in Seq(Events) /\ DOMAIN heard \in {1..1, 1..2}
      /\ heard[1].type = "AuctionBid" /\ heard[1].bid = BidTaken(who, v)
      /\ DOMAIN heard = 1..2 => heard[2].type = "AuctionExtended"
  BY <1>1, BidHeardFacts DEF CoreInv
<1> HIDE DEF heard
<1>4. \A i \in DOMAIN heard : EventLogged(Logged', heard[i])
  <2> SUFFICES ASSUME NEW i \in DOMAIN heard PROVE EventLogged(Logged', heard[i])
    OBVIOUS
  <2>1. i = 1 \/ (i = 2 /\ DOMAIN heard = 1..2)  BY <1>3
  <2> QED  BY <1>1, <1>3, <2>1 DEF EventLogged
<1>5. CoreInv'  BY <1>1, <1>2, <1>3, <1>4, SentKeeps DEF heard
<1> QED  BY <1>2, <1>3, <1>5 DEF heard

LEMMA SettlingKeeps ==
    ASSUME CoreInv, SettlingAndCreating, UNCHANGED <<store, route>>
    PROVE  CoreInv' /\ Send(SettleHeard) /\ SettleHeard \in Seq(Events)
<1>1. /\ ChainTyped' /\ LogInv' /\ Logged' = Logged
      /\ \A p \in ended' : p \in ended \/ BidsMatch(p)
  BY SettlingFacts DEF CoreInv
<1>2. Send(SettleHeard)  BY DEF SettlingAndCreating, SettleHeard
<1> DEFINE heard == SettleHeard
<1>3. /\ heard \in Seq(Events) /\ DOMAIN heard = 1..2
      /\ heard[1].type = "AuctionSettled" /\ heard[1].alp = house.alp
      /\ heard[1].amount = house.amount
      /\ heard[2].type = "AuctionCreated"
  BY <1>1, SettleHeardFacts DEF CoreInv
<1> HIDE DEF heard
<1>4. BidLogged(Logged', house.alp, house.amount)  BY <1>1 DEF BidLogged, CoreInv, LogInv
<1>5. \A i \in DOMAIN heard : EventLogged(Logged', heard[i])
  <2> SUFFICES ASSUME NEW i \in DOMAIN heard PROVE EventLogged(Logged', heard[i])
    OBVIOUS
  <2>1. i = 1 \/ i = 2  BY <1>3
  <2> QED  BY <1>3, <1>4, <2>1 DEF EventLogged
<1>6. CoreInv'  BY <1>1, <1>2, <1>3, <1>5, SentKeeps DEF heard
<1> QED  BY <1>2, <1>3, <1>6 DEF heard

\* The empty page.
LEMMA CoreInit ==
    ASSUME Init
    PROVE  CoreInv
<1> USE DEF Init
<1>1. FirstAlp \in Nat  BY WebAssumption
<1>2. <<>> \in Seq(Bids) /\ <<>> \in Seq(Events) /\ Pages \subseteq Int \cup {None}
  BY PagesAssumption
<1>3. ChainTyped /\ house.amount = 0
  BY <1>1, <1>2, NewAuctionFacts DEF ChainTyped
<1>4. TabTyped  BY <1>2 DEF TabTyped, Sockets
<1>5. bidLog = <<>> /\ Logged = {}  BY DEF Logged
<1>6. LogInv  BY <1>3, <1>5 DEF LogInv
<1>7. store \in Stores  BY <1>2 DEF EmptyStore, Stores
<1>8. StoreInv(Logged, store)  BY <1>7 DEF StoreInv, EmptyStore, InRange
<1>9. SocketInv  BY DEF SocketInv, EmptyStore
<1> QED  BY <1>3, <1>4, <1>6, <1>8, <1>9 DEF CoreInv

\* A render while the socket stays as it is.
LEMMA OpenedKeeps ==
    ASSUME CoreInv, NEW s, StoreInv(Logged, s), NEW r \in Int \cup {None}, Rendered(s, r),
           UNCHANGED <<chain, socket>>, s.active = store.active, s.bids = store.bids,
           s.shown = None \/ s.last # None
    PROVE  CoreInv'
<1>1. /\ StoreInv(Logged, store') /\ route' \in Int \cup {None}
      /\ store'.active = s.active /\ store'.bids = s.bids
      /\ s.active = None => store' = s
  BY RenderKeeps
<1>2. /\ socket' \in Sockets /\ socket'.blocks \subseteq Logged
      /\ \A i \in DOMAIN socket'.inbox : EventLogged(Logged, socket'.inbox[i])
      /\ socket'.pc # "live" => socket'.inbox = <<>>
  BY DEF CoreInv, TabTyped, SocketInv
<1>3. socket'.pc = "fetch" => /\ store'.active = None /\ store'.bids = <<>>
                              /\ store'.shown = None /\ socket'.blocks = {}
  BY <1>1 DEF CoreInv, SocketInv, StoreInv
<1> QED  BY <1>1, <1>2, <1>3, TabKeeps

\* An event that is handled leaves the inbox.
LEMMA ReceiveFacts ==
    ASSUME CoreInv, socket.inbox # <<>>
    PROVE  LET rest == [socket EXCEPT !.inbox = Tail(@)]
           IN  /\ socket.pc = "live" /\ Head(socket.inbox) \in Events
               /\ Head(socket.inbox) = socket.inbox[1] /\ EventLogged(Logged, Head(socket.inbox))
               /\ rest \in Sockets /\ rest.pc = "live" /\ rest.blocks = socket.blocks
               /\ rest.missed = socket.missed /\ rest.inbox = Tail(socket.inbox)
               /\ rest.from = socket.from
               /\ \A i \in DOMAIN rest.inbox : /\ i + 1 \in DOMAIN socket.inbox
                                               /\ rest.inbox[i] = socket.inbox[i + 1]
<1>1. PICK inbox \in Seq(Events) : inbox = socket.inbox  BY SocketParts DEF CoreInv
<1>2. /\ Tail(inbox) \in Seq(Events) /\ Head(inbox) \in Events /\ Head(inbox) = inbox[1]
      /\ \A i \in DOMAIN Tail(inbox) : i + 1 \in DOMAIN inbox /\ Tail(inbox)[i] = inbox[i + 1]
      /\ 1 \in DOMAIN inbox
  BY <1>1
<1>3. EventLogged(Logged, inbox[1])  BY <1>1, <1>2 DEF CoreInv, SocketInv
<1>4. socket.pc = "live" /\ socket \in Sockets  BY DEF CoreInv, SocketInv, TabTyped
<1> DEFINE rest == [socket EXCEPT !.inbox = Tail(inbox)]
<1>5. /\ rest \in Sockets /\ rest.pc = "live" /\ rest.blocks = socket.blocks
      /\ rest.missed = socket.missed /\ rest.inbox = Tail(inbox) /\ rest.from = socket.from
  BY <1>2, <1>4 DEF Sockets
<1> HIDE DEF rest
<1>6. \A i \in DOMAIN rest.inbox : /\ i + 1 \in DOMAIN socket.inbox
                                   /\ rest.inbox[i] = socket.inbox[i + 1]
  BY <1>1, <1>2, <1>5
<1>7. [socket EXCEPT !.inbox = Tail(@)] = rest  BY <1>1, <1>4 DEF rest, Sockets
<1> QED  BY <1>1, <1>2, <1>3, <1>4, <1>5, <1>6, <1>7

\* The handlers of the arrows and of the keys.
LEMMA HandlersKeep ==
    ASSUME NEW s, StoreInv(Logged, s), NEW r \in Int \cup {None}
    PROVE  \A q \in {prevAuctionHandler(s, r), nextAuctionHandler(s, r)} :
             /\ StoreInv(Logged, q[1]) /\ q[2] \in Int \cup {None}
             /\ q[1].active = s.active /\ q[1].bids = s.bids /\ q[1].last = s.last
<1>1. \A t \in {setPrevOnDisplayAuctionAlpId(s), setNextOnDisplayAuctionAlpId(s)} :
        StoreInv(Logged, t) /\ t.active = s.active /\ t.bids = s.bids /\ t.last = s.last
  BY ArrowsKeep
<1>2. OnDisplay(s) # None => OnDisplay(s).alp \in Nat
  <2>1. s \in Stores  BY DEF StoreInv
  <2> QED  BY <2>1, OnDisplayFacts
<1> QED  BY <1>1, <1>2 DEF prevAuctionHandler, nextAuctionHandler

LEMMA EffectKeeps ==
    ASSUME NEW s, StoreInv(Logged, s), NEW r \in Int \cup {None}
    PROVE  LET t == PageEffect(s, r)
           IN  /\ StoreInv(Logged, t)
               /\ t.active = s.active /\ t.bids = s.bids /\ t.last = s.last
<1>1. s \in Stores /\ InRange(s)  BY DEF StoreInv
<1> DEFINE t == PageEffect(s, r)
<1>2. /\ t \in Stores /\ InRange(t)
      /\ t.active = s.active /\ t.bids = s.bids /\ t.last = s.last /\ t.past = s.past
  BY <1>1, PageEffectFacts
<1> HIDE DEF t
<1>3. StoreInv(Logged, t)  BY <1>2, ShownKeeps
<1> QED  BY <1>2, <1>3 DEF t

\* What a key or an arrow opens is the same auction's store, moved.
LEMMA ClickArrowOpens ==
    ASSUME CoreInv, ClickArrow \/ PressKey
    PROVE  \E s, r : /\ Opened(s, r) /\ StoreInv(Logged, s) /\ r \in Int \cup {None}
                     /\ s.active = store.active /\ s.bids = store.bids /\ s.last # None
<1>1. StoreInv(Logged, store) /\ route \in Int \cup {None}  BY DEF CoreInv, TabTyped
<1>2. store.last # None  BY DEF ClickArrow, PressKey
<1> DEFINE Same(s) == /\ StoreInv(Logged, s)
                      /\ s.active = store.active /\ s.bids = store.bids /\ s.last = store.last
           Fine(q) == Same(q[1]) /\ q[2] \in Int \cup {None}
<1>3. Fine(prevAuctionHandler(store, route)) /\ Fine(nextAuctionHandler(store, route))
  BY <1>1, HandlersKeep
<1>4. Fine(<<store, route>>)  BY <1>1
<1>5. ASSUME NEW p, Fine(p)
      PROVE  /\ Fine(prevAuctionHandler(PageEffect(p[1], p[2]), p[2]))
             /\ Fine(nextAuctionHandler(PageEffect(p[1], p[2]), p[2]))
  <2> DEFINE t == PageEffect(p[1], p[2])
  <2>1. Same(t) /\ p[2] \in Int \cup {None}  BY <1>5, EffectKeeps
  <2> HIDE DEF t
  <2>2. \A q \in {prevAuctionHandler(t, p[2]), nextAuctionHandler(t, p[2])} :
             /\ StoreInv(Logged, q[1]) /\ q[2] \in Int \cup {None}
             /\ q[1].active = t.active /\ q[1].bids = t.bids /\ q[1].last = t.last
    BY <2>1, HandlersKeep
  <2> QED  BY <2>1, <2>2 DEF t
<1>6. ASSUME NEW q, Fine(q), Opened(q[1], q[2])
      PROVE  \E s, r : /\ Opened(s, r) /\ StoreInv(Logged, s) /\ r \in Int \cup {None}
                       /\ s.active = store.active /\ s.bids = store.bids /\ s.last # None
  BY <1>2, <1>6
<1> HIDE DEF Fine
<1>7. CASE ClickArrow  BY <1>3, <1>6, <1>7 DEF ClickArrow
<1>8. CASE PressKey
  <2>1. \/ \E p : Fine(p) /\ LET q == prevAuctionHandler(PageEffect(p[1], p[2]), p[2])
                             IN Opened(q[1], q[2])
        \/ \E p : Fine(p) /\ LET q == nextAuctionHandler(PageEffect(p[1], p[2]), p[2])
                             IN Opened(q[1], q[2])
    BY <1>3, <1>4, <1>8 DEF PressKey
  <2> QED  BY <1>5, <1>6, <2>1
<1> QED  BY <1>7, <1>8

\* The store after an event or a block, before it is rendered.
LEMMA HandledKeeps ==
    ASSUME CoreInv, NEW s, StoreInv(Logged, s), Rendered(s, route), UNCHANGED chain,
           socket' \in Sockets, socket'.pc = socket.pc, socket.pc # "fetch",
           socket'.blocks \subseteq Logged,
           \A i \in DOMAIN socket'.inbox : EventLogged(Logged, socket'.inbox[i]),
           socket'.pc # "live" => socket'.inbox = <<>>
    PROVE  CoreInv'
<1>1. route \in Int \cup {None}  BY DEF CoreInv, TabTyped
<1>2. StoreInv(Logged, store') /\ route' \in Int \cup {None}  BY <1>1, RenderKeeps
<1> QED  BY <1>2, TabKeeps

LEMMA ReceiveKeeps ==
    ASSUME CoreInv, Receive
    PROVE  CoreInv'
<1> DEFINE event == Head(socket.inbox)
           rest == [socket EXCEPT !.inbox = Tail(@)]
<1>1. /\ socket.pc = "live" /\ event \in Events /\ EventLogged(Logged, event)
      /\ rest \in Sockets /\ rest.pc = "live" /\ rest.blocks = socket.blocks
      /\ rest.inbox = Tail(socket.inbox)
      /\ \A i \in DOMAIN rest.inbox : /\ i + 1 \in DOMAIN socket.inbox
                                      /\ rest.inbox[i] = socket.inbox[i + 1]
  BY ReceiveFacts DEF Receive
<1>2. \A i \in DOMAIN rest.inbox : EventLogged(Logged, rest.inbox[i])
  <2>1. \A j \in DOMAIN socket.inbox : EventLogged(Logged, socket.inbox[j])
    BY DEF CoreInv, SocketInv
  <2> HIDE DEF rest
  <2> QED  BY <1>1, <2>1
<1>3. socket.blocks \subseteq Logged /\ StoreInv(Logged, store) /\ route \in Int \cup {None}
  BY DEF CoreInv, SocketInv, TabTyped
<1>4. UNCHANGED chain  BY DEF Receive
<1>5. CASE /\ event.type = "AuctionBid"
           /\ socket' = [rest EXCEPT !.blocks = @ \cup {event.bid}]
           /\ UNCHANGED page
  <2>1. event.bid \in Bids /\ event.bid \in Logged  BY <1>1, <1>5, EventParts DEF EventLogged
  <2> HIDE DEF event, rest
  <2>2. /\ socket' \in Sockets /\ socket'.pc = "live" /\ socket'.inbox = rest.inbox
        /\ socket'.blocks = rest.blocks \cup {event.bid}
    BY <1>1, <1>5, <2>1 DEF Sockets
  <2>3. store' = store /\ route' = route  BY <1>5 DEF page
  <2> QED  BY <1>1, <1>2, <1>3, <1>4, <2>1, <2>2, <2>3, TabKeeps
<1>6. CASE /\ event.type = "AuctionCreated" /\ socket' = rest
           /\ LET alp == event.auction.alp
                  new == reduxSafeNewAuction(alp, event.auction.start, event.auction.end)
                  s == setOnDisplayAuctionAlpId(setActiveAuction(store, new), alp)
              IN Rendered(setLastAuctionAlpId(s, alp), route)
  <2>1. event.auction.alp \in Nat /\ event.auction.start \in Nat /\ event.auction.end \in Nat
    BY <1>1, <1>6, EventParts
  <2> HIDE DEF event, rest
  <2>2. PICK s : StoreInv(Logged, s) /\ Rendered(s, route)  BY <1>3, <1>6, <2>1, CreatedKeeps
  <2> QED  BY <1>1, <1>2, <1>3, <1>4, <1>6, <2>2, HandledKeeps
<1>7. CASE /\ event.type = "AuctionExtended" /\ socket' = rest
           /\ Rendered(setAuctionExtended(store, event.alp, event.end), route)
  <2>1. event.end \in Nat  BY <1>1, <1>7, EventParts
  <2> HIDE DEF event, rest
  <2>2. PICK s : StoreInv(Logged, s) /\ Rendered(s, route)  BY <1>3, <1>7, <2>1, ExtendedKeeps
  <2> QED  BY <1>1, <1>2, <1>3, <1>4, <1>7, <2>2, HandledKeeps
<1>8. CASE /\ event.type = "AuctionSettled" /\ socket' = rest
           /\ Rendered(setAuctionSettled(store, event.alp, event.winner, event.amount), route)
  <2>1. /\ event.winner \in {Me, Other, NoBidder, ""} /\ event.amount \in Nat
        /\ BidLogged(Logged, event.alp, event.amount)
    BY <1>1, <1>8, EventParts DEF EventLogged
  <2> HIDE DEF event, rest
  <2>2. PICK s : StoreInv(Logged, s) /\ Rendered(s, route)  BY <1>3, <1>8, <2>1, SettledKeeps
  <2> QED  BY <1>1, <1>2, <1>3, <1>4, <1>8, <2>2, HandledKeeps
<1> QED  BY <1>5, <1>6, <1>7, <1>8 DEF Receive

LEMMA BlockFetchedKeeps ==
    ASSUME CoreInv, NEW bid, BlockFetched(bid)
    PROVE  CoreInv'
<1>1. bid \in socket.blocks /\ UNCHANGED chain /\ Rendered(appendBid(store, bid), route)
      /\ socket' = [socket EXCEPT !.blocks = @ \ {bid}]
  BY DEF BlockFetched
<1>2. bid \in Bids /\ bid \in Logged /\ StoreInv(Logged, store)
  BY <1>1, SocketParts DEF CoreInv, SocketInv
<1>3. socket.pc # "fetch"  BY <1>1 DEF CoreInv, SocketInv
<1>4. /\ socket' \in Sockets /\ socket'.pc = socket.pc /\ socket'.inbox = socket.inbox
      /\ socket'.blocks \subseteq socket.blocks
  BY <1>1 DEF CoreInv, TabTyped, Sockets
<1>5. PICK s : StoreInv(Logged, s) /\ Rendered(s, route)  BY <1>1, <1>2, AppendKeeps
<1>6. /\ socket'.blocks \subseteq Logged
      /\ \A i \in DOMAIN socket'.inbox : EventLogged(Logged, socket'.inbox[i])
      /\ socket'.pc # "live" => socket'.inbox = <<>>
  BY <1>4 DEF CoreInv, SocketInv
<1> QED  BY <1>1, <1>3, <1>4, <1>5, <1>6, HandledKeeps

\* The bids that are asked for.
LEMMA QueryFacts ==
    ASSUME CoreInv, QueryBids
    PROVE  /\ socket' \in Sockets /\ socket'.pc = "listen" /\ socket'.inbox = socket.inbox
           /\ socket'.missed = socket.missed
           /\ socket'.from = now - Day /\ now - Day <= now
           /\ socket'.blocks = {b \in Logged : b.time >= now - Day}
           /\ socket'.blocks \subseteq Logged
<1> DEFINE from == now - Day
           B == {b \in Logged : b.time >= now - Day}
<1>1. now \in Nat /\ Day \in Nat  BY WebAssumption DEF CoreInv, ChainTyped
<1>2. from \in Int /\ from <= now  BY <1>1
<1>3. {bidLog[i] : i \in {j \in DOMAIN bidLog : bidLog[j].time >= now - Day}} = B
  BY DEF Logged
<1>4. Logged \subseteq Bids
  <2> SUFFICES ASSUME NEW i \in DOMAIN bidLog PROVE bidLog[i] \in Bids
    BY DEF Logged
  <2> QED  BY DEF CoreInv, ChainTyped
<1>5. B \subseteq Logged /\ B \subseteq Bids  BY <1>4
<1>6. socket' = [socket EXCEPT !.pc = "listen", !.from = from, !.blocks = B]
  BY <1>3 DEF QueryBids
<1>7. socket \in Sockets  BY DEF CoreInv, TabTyped
<1> HIDE DEF from, B
<1>8. /\ socket' \in Sockets /\ socket'.pc = "listen" /\ socket'.inbox = socket.inbox
      /\ socket'.missed = socket.missed /\ socket'.from = from /\ socket'.blocks = B
  BY <1>2, <1>5, <1>6, <1>7 DEF Sockets
<1> QED  BY <1>2, <1>5, <1>8 DEF from, B

\* Every step keeps the core.
LEMMA CoreNext ==
    ASSUME CoreInv, deeds \in Seq(Deeds), [Next]_vars
    PROVE  CoreInv'
<1>1. StoreInv(Logged, store) /\ route \in Int \cup {None} /\ None \notin Int
  BY NoneAssumption DEF CoreInv, TabTyped
<1>2. /\ socket \in Sockets /\ socket.blocks \subseteq Logged
      /\ \A i \in DOMAIN socket.inbox : EventLogged(Logged, socket.inbox[i])
      /\ socket.pc # "live" => socket.inbox = <<>>
  BY DEF CoreInv, TabTyped, SocketInv
<1>3. ASSUME UNCHANGED <<chain, store, route>>, socket' \in Sockets, socket'.blocks \subseteq Logged,
             socket'.inbox = socket.inbox, socket'.pc # "live" => socket.pc # "live",
             socket'.pc = "fetch" => socket.pc = "fetch" /\ socket'.blocks = {}
      PROVE  CoreInv'
  <2>1. StoreInv(Logged, store') /\ route' \in Int \cup {None}  BY <1>1, <1>3
  <2>2. socket'.pc = "fetch" => /\ store'.active = None /\ store'.bids = <<>>
                                /\ store'.shown = None /\ socket'.blocks = {}
    BY <1>3 DEF CoreInv, SocketInv
  <2> QED  BY <1>2, <1>3, <2>1, <2>2, TabKeeps
<1>4. UNCHANGED <<chain, socket, store, route>> => CoreInv'
  <2>1. socket.pc = "fetch" => socket.blocks = {}  BY DEF CoreInv, SocketInv
  <2> QED  BY <1>2, <1>3, <2>1
<1>5. ASSUME Tick PROVE CoreInv'
  <2>1. now' = now + 1 /\ UNCHANGED <<house, bidLog, ended, socket, store, route>>
    BY <1>5 DEF Tick, page
  <2>2. ChainTyped' /\ Logged' = Logged  BY <2>1 DEF CoreInv, ChainTyped, Logged
  <2>3. LogInv'  BY <2>1, <2>2 DEF CoreInv, LogInv
  <2>4. SocketInv'  BY <2>1, <2>2 DEF CoreInv, SocketInv
  <2> QED  BY <2>1, <2>2, <2>3, <2>4 DEF CoreInv, TabTyped, BidsMatch
<1>6. ASSUME NEW v \in 1..MaxBid, OtherBids(v) PROVE CoreInv'
  <2>1. v \in Nat \ {0}  BY WebAssumption
  <2>2. Bidding(Other, v) /\ UNCHANGED <<store, route>>  BY <1>6 DEF OtherBids, page
  <2> QED  BY <2>1, <2>2, BiddingKeeps
<1>7. ASSUME OtherSettles PROVE CoreInv'
  BY <1>7, SettlingKeeps DEF OtherSettles, page
<1>8. ASSUME NEW d \in DOMAIN deeds, Mined(d) PROVE CoreInv'
  <2>1. UNCHANGED <<store, route>>  BY <1>8 DEF Mined, page
  <2>2. PICK deed \in Deeds : deed = deeds[d]  BY <1>8
  <2>3. deed.value \in Nat  BY <2>2 DEF Deeds
  <2>4. house.amount \in Nat  BY DEF CoreInv, ChainTyped, Auctions
  <2>5. CASE UNCHANGED <<chain, socket>>  BY <1>4, <2>1, <2>5
  <2>6. CASE SettlingAndCreating  BY <2>1, <2>6, SettlingKeeps
  <2>7. CASE deed.value > house.amount /\ Bidding(Me, deed.value)
    <3>1. deed.value \in Nat \ {0}  BY <2>3, <2>4, <2>7
    <3> QED  BY <2>1, <2>7, <3>1, BiddingKeeps
  <2> QED  BY <1>8, <2>2, <2>5, <2>6, <2>7 DEF Mined
<1>9. ASSUME FetchAuction PROVE CoreInv'
  <2>1. store.active = None /\ store.bids = <<>> /\ store.shown = None /\ socket.blocks = {}
        /\ UNCHANGED chain /\ socket' = [socket EXCEPT !.pc = "query"]
    BY <1>9 DEF FetchAuction, CoreInv, SocketInv
  <2>2. PICK s : StoreInv(Logged, s) /\ Rendered(s, route)
    BY <1>1, <1>9, <2>1, FetchKeeps DEF FetchAuction, CoreInv
  <2>3. StoreInv(Logged, store') /\ route' \in Int \cup {None}  BY <1>1, <2>2, RenderKeeps
  <2>4. /\ socket' \in Sockets /\ socket'.pc = "query" /\ socket'.inbox = socket.inbox
        /\ socket'.blocks = {}
    BY <1>2, <2>1 DEF Sockets
  <2>5. socket.inbox = <<>>  BY <1>2, <1>9 DEF FetchAuction
  <2> QED  BY <1>2, <2>1, <2>3, <2>4, <2>5, TabKeeps
<1>10. ASSUME QueryBids PROVE CoreInv'
  <2>1. UNCHANGED <<chain, store, route>> /\ socket.pc = "query"
    BY <1>10 DEF QueryBids, page
  <2>2. /\ socket' \in Sockets /\ socket'.pc = "listen" /\ socket'.inbox = socket.inbox
        /\ socket'.blocks \subseteq Logged
    BY <1>10, QueryFacts
  <2> QED  BY <1>3, <2>1, <2>2
<1>11. ASSUME Listen PROVE CoreInv'
  <2>1. /\ UNCHANGED <<chain, store, route>> /\ socket' \in Sockets /\ socket'.pc = "live"
        /\ socket'.inbox = socket.inbox /\ socket'.blocks = socket.blocks
    BY <1>2, <1>11 DEF Listen, page, Sockets
  <2> QED  BY <1>2, <1>3, <2>1
<1>12. ASSUME LoadFails PROVE CoreInv'
  <2>1. /\ UNCHANGED <<chain, store, route>> /\ socket' \in Sockets /\ socket'.pc = "failed"
        /\ socket.pc # "live" /\ socket'.inbox = socket.inbox /\ socket'.blocks = socket.blocks
    BY <1>2, <1>12 DEF LoadFails, page, Sockets
  <2> QED  BY <1>2, <1>3, <2>1
<1>13. ASSUME PastAuctionsLoaded PROVE CoreInv'
  <2> DEFINE all == ended \cup {reduxSafePastAuction}
             s == addPastAuctions(store, all)
  <2>0. all \in SUBSET Pasts /\ \A p \in all : BidsMatch(p)
    BY PastAuctionFacts DEF CoreInv, ChainTyped
  <2> HIDE DEF all
  <2>1. /\ StoreInv(Logged, s) /\ s.active = store.active /\ s.bids = store.bids
        /\ s.last = store.last
    BY <1>1, <2>0, PastKeeps
  <2>2. s.shown = None \/ s.last # None  BY <2>1 DEF StoreInv, InRange
  <2> HIDE DEF s
  <2>3. Rendered(s, route) /\ UNCHANGED <<chain, socket>>  BY <1>13 DEF PastAuctionsLoaded, s, all
  <2> QED  BY <1>1, <2>1, <2>2, <2>3, OpenedKeeps
<1>14. ASSUME NEW bid \in socket.blocks, BlockFails(bid) PROVE CoreInv'
  <2>1. /\ UNCHANGED <<chain, store, route>> /\ socket' \in Sockets /\ socket'.pc = socket.pc
        /\ socket'.inbox = socket.inbox /\ socket'.blocks \subseteq socket.blocks
    BY <1>2, <1>14 DEF BlockFails, page, Sockets
  <2>2. socket.pc # "fetch"  BY <1>14 DEF CoreInv, SocketInv
  <2> QED  BY <1>2, <1>3, <2>1, <2>2
<1>15. ASSUME ClickArrow \/ PressKey PROVE CoreInv'
  <2>1. PICK s, r : /\ Opened(s, r) /\ StoreInv(Logged, s) /\ r \in Int \cup {None}
                    /\ s.active = store.active /\ s.bids = store.bids /\ s.last # None
    BY <1>15, ClickArrowOpens
  <2> QED  BY <2>1, OpenedKeeps DEF Opened
<1>16. ASSUME NEW r \in Pages, Opened(store, r) PROVE CoreInv'
  <2>1. r \in Int \cup {None}  BY PagesAssumption
  <2>2. store.shown = None \/ store.last # None  BY <1>1 DEF StoreInv, InRange
  <2> QED  BY <1>1, <1>16, <2>1, <2>2, OpenedKeeps DEF Opened
<1>17. ASSUME \/ PollTimer \/ settleAuctionHandler \/ \E v \in 1..MaxBid : placeBidHandler(v)
              \/ \E d \in DOMAIN deeds : Estimated(d) \/ Signed(d) \/ Rejected(d) \/ Receipt(d)
              \/ UNCHANGED vars
       PROVE  CoreInv'
  <2>1. UNCHANGED <<chain, socket, store, route>>
    BY <1>17 DEF PollTimer, settleAuctionHandler, placeBidHandler, Estimated, Signed, Rejected,
                 Receipt, vars, page
  <2> QED  BY <1>4, <2>1
<1> QED
  BY <1>5, <1>6, <1>7, <1>8, <1>9, <1>10, <1>11, <1>12, <1>13, <1>14, <1>15, <1>16, <1>17,
     ReceiveKeeps, BlockFetchedKeeps
  DEF Next

-----------------------------------------------------------------------------
(* The form, the end of the auction on display, and the user's clicks.     *)

\* An action that leaves store and form alone, or renders, or sets a status.
Rerendered == (\E s, r : Rendered(s, r)) \/ (\E d, status : SetStatus(d, status) /\ UNCHANGED store)

LEMMA FormKept ==
    ASSUME FormInv, \/ Rerendered \/ UNCHANGED <<store, form>>
                    \/ form # None /\ UNCHANGED store
    PROVE  FormInv'
<1>1. \A t, f : BidEffect(t, f) # None => ShowsActivity(t) /\ IsLastAuction(t)  BY DEF BidEffect
<1>2. CASE \E s, r : Rendered(s, r)  BY <1>1, <1>2 DEF Rendered, FormInv, LastShown
<1>3. CASE \E d, status : SetStatus(d, status) /\ UNCHANGED store
  BY <1>1, <1>3 DEF SetStatus, FormInv, LastShown
<1>4. CASE UNCHANGED <<store, form>>  BY <1>4 DEF FormInv, LastShown
<1>5. CASE form # None /\ UNCHANGED store  BY <1>5 DEF FormInv, LastShown
<1> QED  BY <1>2, <1>3, <1>4, <1>5 DEF Rerendered

LEMMA FormNext ==
    ASSUME FormInv, [Next]_vars
    PROVE  FormInv'
<1>1. CASE Receive  BY <1>1, FormKept DEF Receive, Rerendered, page
<1>2. CASE \E bid \in socket.blocks : BlockFetched(bid) \/ BlockFails(bid)
  BY <1>2, FormKept DEF BlockFetched, BlockFails, Rerendered, page
<1>3. CASE FetchAuction \/ PastAuctionsLoaded \/ ClickArrow \/ PressKey
           \/ \E r \in Pages : r # route /\ Opened(store, r)
  BY <1>3, FormKept DEF FetchAuction, PastAuctionsLoaded, ClickArrow, PressKey, Opened, Rerendered
<1>4. CASE UNCHANGED vars \/ Tick \/ OtherSettles \/ (\E v \in 1..MaxBid : OtherBids(v))
           \/ QueryBids \/ Listen \/ LoadFails \/ PollTimer
           \/ \E d \in DOMAIN deeds : Mined(d)
  BY <1>4, FormKept DEF vars, page, Tick, OtherSettles, OtherBids, QueryBids, Listen, LoadFails,
                        PollTimer, Mined
<1>5. CASE settleAuctionHandler \/ \E v \in 1..MaxBid : placeBidHandler(v)
  BY <1>5, FormKept DEF settleAuctionHandler, placeBidHandler
<1>6. CASE \E d \in DOMAIN deeds : Estimated(d) \/ Signed(d) \/ Rejected(d) \/ Receipt(d)
  BY <1>6, FormKept DEF Estimated, Signed, Rejected, Receipt, Rerendered
<1> QED  BY <1>1, <1>2, <1>3, <1>4, <1>5, <1>6 DEF Next

\* The end of an auction on display is a time.
LEMMA DisplayedEnd ==
    ASSUME NEW s \in Stores, OnDisplay(s) # None
    PROVE  OnDisplay(s).end \in Nat
<1>0. \A x : generateEmptyAlperAuction(s, x).end = 0
  BY DEF generateEmptyAlperAuction, reduxSafeNewAuction
<1> USE DEF OnDisplay, useOnDisplayAuction
<1>1. s.shown # None /\ s.active # None  OBVIOUS
<1>2. s.past \in SUBSET Pasts /\ s.active.end \in Nat  BY <1>1, StoreParts
<1>3. CASE s.shown = s.active.alp  BY <1>1, <1>2, <1>3
<1>4. CASE s.shown # s.active.alp /\ isAlperAlp(s.shown)
  <2>1. OnDisplay(s) = generateEmptyAlperAuction(s, s.shown)  BY <1>1, <1>4
  <2>2. OnDisplay(s).end = 0  BY <1>0, <2>1
  <2> QED  BY <2>2
<1>5. CASE s.shown # s.active.alp /\ ~isAlperAlp(s.shown)
  <2> DEFINE a == PastAuction(s, s.shown)
  <2>1. a # None /\ OnDisplay(s) = a.auction
    <3> HIDE DEF a
    <3>1. OnDisplay(s) = IF a = None THEN None ELSE a.auction  BY <1>1, <1>5 DEF a
    <3> QED  BY <3>1
  <2>2. a \in s.past  BY <2>1 DEF PastAuction
  <2> HIDE DEF a
  <2>3. a.auction \in Auctions  BY <1>2, <2>2 DEF Pasts
  <2>4. a.auction.end \in Nat  BY <2>3 DEF Auctions
  <2> QED  BY <2>1, <2>4
<1> QED  BY <1>3, <1>4, <1>5

\* The auction found over is looked at again by every render.
LEMMA OverNext ==
    ASSUME OverInv, CoreInv, [Next]_vars
    PROVE  OverInv'
<1>1. ASSUME NEW s, NEW r, Rendered(s, r), UNCHANGED now PROVE OverInv'
  BY <1>1 DEF OverInv, Rendered, EndedEffect
<1>2. ASSUME UNCHANGED <<now, store, over>> PROVE OverInv'
  BY <1>2 DEF OverInv, EndedEffect
<1>3. CASE Receive
  BY <1>1, <1>2, <1>3 DEF Receive, page, chain
<1>4. CASE \E bid \in socket.blocks : BlockFetched(bid) \/ BlockFails(bid)
  BY <1>1, <1>2, <1>4 DEF BlockFetched, BlockFails, page, chain
<1>5. CASE FetchAuction \/ PastAuctionsLoaded \/ ClickArrow \/ PressKey
           \/ \E r \in Pages : r # route /\ Opened(store, r)
  BY <1>1, <1>5 DEF FetchAuction, PastAuctionsLoaded, ClickArrow, PressKey, Opened, chain
<1>6. CASE Tick
  <2>1. UNCHANGED <<store, over>> /\ now' = now + 1  BY <1>6 DEF Tick, page
  <2>2. now \in Nat /\ store \in Stores  BY DEF CoreInv, ChainTyped, StoreInv
  <2>3. ASSUME over PROVE EndedEffect(store)'
    <3>1. ShowsActivity(store) /\ OnDisplay(store).end <= now  BY <2>3 DEF OverInv, EndedEffect
    <3>2. OnDisplay(store).end \in Nat  BY <2>2, <3>1, DisplayedEnd DEF ShowsActivity
    <3>3. OnDisplay(store).end <= now + 1  BY <2>2, <3>1, <3>2
    <3> QED  BY <2>1, <3>1, <3>3 DEF EndedEffect
  <2> QED  BY <2>1, <2>3 DEF OverInv
<1>7. CASE PollTimer  BY <1>7 DEF PollTimer, OverInv, EndedEffect, chain
<1>8. CASE UNCHANGED vars \/ OtherSettles \/ (\E v \in 1..MaxBid : OtherBids(v))
           \/ QueryBids \/ Listen \/ LoadFails
           \/ (\E d \in DOMAIN deeds : Mined(d))
           \/ settleAuctionHandler \/ (\E v \in 1..MaxBid : placeBidHandler(v))
           \/ \E d \in DOMAIN deeds : Estimated(d) \/ Signed(d) \/ Rejected(d) \/ Receipt(d)
  BY <1>2, <1>8 DEF vars, page, chain, OtherSettles, OtherBids, SettlingAndCreating, Bidding,
                    QueryBids, Listen, LoadFails, Mined, settleAuctionHandler, placeBidHandler,
                    Estimated, Signed, Rejected, Receipt
<1> QED  BY <1>3, <1>4, <1>5, <1>6, <1>7, <1>8 DEF Next

\* Of a transaction only the stage it is at changes.
SameDeed(a, b) == a.kind = b.kind /\ a.alp = b.alp /\ a.value = b.value

LEMMA DeedsStaged ==
    ASSUME ClickInv, NEW d \in DOMAIN deeds, NEW t \in Stages,
           \/ deeds' = [deeds EXCEPT ![d].stage = t]
           \/ deeds' = [deeds EXCEPT ![d].stage = t, ![d].alp = deeds[d].alp]
    PROVE  /\ deeds' \in Seq(Deeds) /\ DOMAIN deeds' = DOMAIN deeds
           /\ \A e \in DOMAIN deeds : SameDeed(deeds'[e], deeds[e])
<1>1. deeds \in Seq(Deeds)  BY DEF ClickInv
<1>2. PICK old \in Deeds : old = deeds[d]  BY <1>1
<1>3. PICK new \in Deeds : new = [old EXCEPT !.stage = t] /\ SameDeed(new, old)
  BY <1>2 DEF Deeds, SameDeed
<1>4. deeds' = [deeds EXCEPT ![d] = new]
  <2>1. [old EXCEPT !.stage = t, !.alp = old.alp] = [old EXCEPT !.stage = t]  BY <1>2 DEF Deeds
  <2> QED  BY <1>1, <1>2, <1>3, <2>1
<1>5. deeds' \in Seq(Deeds) /\ DOMAIN deeds' = DOMAIN deeds  BY <1>1, <1>4
<1>6. ASSUME NEW e \in DOMAIN deeds PROVE SameDeed(deeds'[e], deeds[e])
  <2>1. CASE e = d
    <3>1. deeds'[e] = new /\ deeds[e] = old  BY <1>1, <1>2, <1>4, <2>1
    <3> QED  BY <1>3, <3>1
  <2>2. CASE e # d
    <3>1. deeds'[e] = deeds[e]  BY <1>1, <1>4, <2>2
    <3> QED  BY <3>1 DEF SameDeed
  <2> QED  BY <2>1, <2>2
<1> QED  BY <1>5, <1>6

\* The transactions are those of clicks, when they are staged and when none is.
LEMMA ClickKept ==
    ASSUME ClickInv, UNCHANGED clicked,
           \/ UNCHANGED deeds
           \/ /\ deeds' \in Seq(Deeds) /\ DOMAIN deeds' = DOMAIN deeds
              /\ \A e \in DOMAIN deeds : SameDeed(deeds'[e], deeds[e]),
           \A i \in DOMAIN bidLog' : bidLog'[i].sender = Me =>
               <<"bid", bidLog'[i].alp, bidLog'[i].value>> \in clicked
    PROVE  ClickInv'
<1>1. CASE UNCHANGED deeds  BY <1>1 DEF ClickInv
<1>2. CASE /\ deeds' \in Seq(Deeds) /\ DOMAIN deeds' = DOMAIN deeds
           /\ \A e \in DOMAIN deeds : SameDeed(deeds'[e], deeds[e])
  <2>1. \A d \in DOMAIN deeds' : deeds'[d].kind = "bid" =>
            <<"bid", deeds'[d].alp, deeds'[d].value>> \in clicked
    BY <1>2 DEF ClickInv, SameDeed
  <2> QED  BY <1>2, <2>1 DEF ClickInv
<1> QED  BY <1>1, <1>2

\* A bid the house takes from somebody else, or from a transaction of the user's.
LEMMA ClickBidding ==
    ASSUME ClickInv, ChainTyped, NEW who, NEW v, Bidding(who, v),
           who = Me => <<"bid", house.alp, v>> \in clicked
    PROVE  \A i \in DOMAIN bidLog' : bidLog'[i].sender = Me =>
               <<"bid", bidLog'[i].alp, bidLog'[i].value>> \in clicked
<1> DEFINE bid == BidTaken(who, v)
<1>1. bidLog \in Seq(Bids)  BY DEF ChainTyped
<1>2. bidLog' = Append(bidLog, bid)  BY DEF Bidding, BidTaken
<1>3. bid.sender = who /\ bid.alp = house.alp /\ bid.value = v  BY DEF BidTaken
<1> HIDE DEF bid
<1> SUFFICES ASSUME NEW i \in DOMAIN bidLog', bidLog'[i].sender = Me
             PROVE  <<"bid", bidLog'[i].alp, bidLog'[i].value>> \in clicked
  OBVIOUS
<1>4. CASE i \in DOMAIN bidLog
  <2>1. bidLog'[i] = bidLog[i]  BY <1>1, <1>2, <1>4
  <2> QED  BY <1>4, <2>1 DEF ClickInv
<1>5. CASE i \notin DOMAIN bidLog
  <2>1. bidLog'[i] = bid  BY <1>1, <1>2, <1>5
  <2> QED  BY <1>3, <2>1
<1> QED  BY <1>4, <1>5

\* A click starts a transaction for what the page shows.
LEMMA Clicking ==
    ASSUME ClickInv, FormInv, CoreInv, form # None, UNCHANGED bidLog,
           NEW kind \in {"bid", "settle"}, NEW v \in Nat, NEW stage \in Stages,
           Deed(kind, Shown.alp, v, stage)
    PROVE  ClickInv'
<1>1. Shown.alp \in Nat
  <2>1. OnDisplay(store) # None  BY DEF FormInv, LastShown, ShowsActivity
  <2>2. store \in Stores  BY DEF CoreInv, StoreInv
  <2> QED  BY <2>1, <2>2, OnDisplayFacts DEF Shown
<1> DEFINE deed == [kind |-> kind, alp |-> Shown.alp, value |-> v, stage |-> stage]
<1>2. deed \in Deeds /\ deed.kind = kind /\ deed.alp = Shown.alp /\ deed.value = v
  BY <1>1 DEF Deeds
<1>3. deeds' = Append(deeds, deed) /\ clicked' = clicked \cup {<<kind, Shown.alp, v>>}
  BY DEF Deed
<1> HIDE DEF deed
<1>4. deeds \in Seq(Deeds)  BY DEF ClickInv
<1>5. deeds' \in Seq(Deeds)  BY <1>2, <1>3, <1>4
<1>6. ASSUME NEW d \in DOMAIN deeds', deeds'[d].kind = "bid"
      PROVE  <<"bid", deeds'[d].alp, deeds'[d].value>> \in clicked'
  <2>1. CASE d \in DOMAIN deeds
    <3>1. deeds'[d] = deeds[d]  BY <1>3, <1>4, <2>1
    <3> QED  BY <1>3, <1>6, <2>1, <3>1 DEF ClickInv
  <2>2. CASE d \notin DOMAIN deeds
    <3>1. deeds'[d] = deed  BY <1>3, <1>4, <2>2
    <3> QED  BY <1>2, <1>3, <1>6, <3>1
  <2> QED  BY <2>1, <2>2
<1>7. \A i \in DOMAIN bidLog' : bidLog'[i].sender = Me =>
          <<"bid", bidLog'[i].alp, bidLog'[i].value>> \in clicked'
  BY <1>3 DEF ClickInv
<1> QED  BY <1>5, <1>6, <1>7 DEF ClickInv

LEMMA ClickNext ==
    ASSUME ClickInv, FormInv, CoreInv, [Next]_vars
    PROVE  ClickInv'
<1>1. UNCHANGED <<bidLog, deeds, clicked>> => ClickInv'  BY DEF ClickInv
<1>2. ASSUME UNCHANGED <<bidLog, clicked>>,
             \/ UNCHANGED deeds
             \/ /\ deeds' \in Seq(Deeds) /\ DOMAIN deeds' = DOMAIN deeds
                /\ \A e \in DOMAIN deeds : SameDeed(deeds'[e], deeds[e])
      PROVE  ClickInv'
  <2>1. \A i \in DOMAIN bidLog' : bidLog'[i].sender = Me =>
            <<"bid", bidLog'[i].alp, bidLog'[i].value>> \in clicked
    BY <1>2 DEF ClickInv
  <2> QED  BY <1>2, <2>1, ClickKept
<1>3. ASSUME NEW d \in DOMAIN deeds, NEW t \in Stages, Go(d, t)
      PROVE  /\ deeds' \in Seq(Deeds) /\ DOMAIN deeds' = DOMAIN deeds
             /\ \A e \in DOMAIN deeds : SameDeed(deeds'[e], deeds[e])
  BY <1>3, DeedsStaged DEF Go
<1>4. CASE \/ UNCHANGED vars \/ Tick \/ OtherSettles \/ FetchAuction \/ QueryBids \/ Listen
           \/ LoadFails \/ Receive \/ PastAuctionsLoaded
           \/ (\E bid \in socket.blocks : BlockFetched(bid) \/ BlockFails(bid))
           \/ PollTimer \/ ClickArrow \/ PressKey
           \/ \E r \in Pages : r # route /\ Opened(store, r)
  BY <1>1, <1>4 DEF vars, chain, Tick, OtherSettles, SettlingAndCreating, FetchAuction, QueryBids,
                    Listen, LoadFails, Receive, PastAuctionsLoaded, BlockFetched, BlockFails,
                    PollTimer, ClickArrow, PressKey, Opened
<1>5. ASSUME NEW v \in 1..MaxBid, OtherBids(v) PROVE ClickInv'
  <2>1. Bidding(Other, v) /\ UNCHANGED <<deeds, clicked>>  BY <1>5 DEF OtherBids
  <2>2. Other # Me  BY PeopleAssumption
  <2>3. \A i \in DOMAIN bidLog' : bidLog'[i].sender = Me =>
            <<"bid", bidLog'[i].alp, bidLog'[i].value>> \in clicked
    BY <2>1, <2>2, ClickBidding DEF CoreInv
  <2> QED  BY <2>1, <2>3, ClickKept
<1>6. ASSUME settleAuctionHandler PROVE ClickInv'
  <2>1. form # None /\ UNCHANGED bidLog /\ Deed("settle", Shown.alp, 0, "sign")
    BY <1>6 DEF settleAuctionHandler, chain
  <2> QED  BY <2>1, Clicking DEF Stages
<1>7. ASSUME NEW v \in 1..MaxBid, placeBidHandler(v) PROVE ClickInv'
  <2>1. form # None /\ UNCHANGED bidLog /\ Deed("bid", Shown.alp, v, "estimate")
    BY <1>7 DEF placeBidHandler, chain
  <2>2. v \in Nat  BY WebAssumption
  <2> QED  BY <2>1, <2>2, Clicking DEF Stages
<1>8. ASSUME NEW d \in DOMAIN deeds, Estimated(d) PROVE ClickInv'
  <2>1. UNCHANGED <<bidLog, clicked>>  BY <1>8 DEF Estimated, chain
  <2>2. CASE deeds' = [deeds EXCEPT ![d].stage = "sign", ![d].alp = deeds[d].alp]
    BY <1>2, <2>1, <2>2, DeedsStaged DEF Stages
  <2>3. CASE Go(d, "done")  BY <1>2, <1>3, <2>1, <2>3 DEF Stages
  <2> QED  BY <1>8, <2>2, <2>3 DEF Estimated, BidFor
<1>9. ASSUME NEW d \in DOMAIN deeds, Signed(d) \/ Rejected(d) PROVE ClickInv'
  <2>1. UNCHANGED <<bidLog, clicked>> /\ (Go(d, "mining") \/ Go(d, "done"))
    BY <1>9 DEF Signed, Rejected, chain
  <2> QED  BY <1>2, <1>3, <2>1 DEF Stages
<1>10. ASSUME NEW d \in DOMAIN deeds, Receipt(d) PROVE ClickInv'
  <2>1. UNCHANGED <<bidLog, clicked>> /\ Go(d, "done")  BY <1>10 DEF Receipt, chain
  <2> QED  BY <1>2, <1>3, <2>1 DEF Stages
<1>11. ASSUME NEW d \in DOMAIN deeds, Mined(d) PROVE ClickInv'
  <2>1. UNCHANGED clicked  BY <1>11 DEF Mined
  <2>2. PICK deed \in Deeds : deed = deeds[d]  BY <1>11 DEF ClickInv
  <2>3. CASE Go(d, "Fail") /\ UNCHANGED chain  BY <1>2, <1>3, <2>1, <2>3 DEF chain, Stages
  <2>4. CASE Go(d, "Success") /\ SettlingAndCreating
    BY <1>2, <1>3, <2>1, <2>4 DEF SettlingAndCreating, Stages
  <2>5. CASE /\ Go(d, "Success") /\ deed.kind # "settle" /\ deed.alp = house.alp
             /\ Bidding(Me, deed.value)
    <3>1. deed.kind = "bid"  BY <2>2, <2>5 DEF Deeds
    <3>2. <<"bid", house.alp, deed.value>> \in clicked  BY <2>2, <2>5, <3>1 DEF ClickInv
    <3>3. \A i \in DOMAIN bidLog' : bidLog'[i].sender = Me =>
              <<"bid", bidLog'[i].alp, bidLog'[i].value>> \in clicked
      BY <2>5, <3>2, ClickBidding DEF CoreInv
    <3> QED  BY <1>3, <2>1, <2>5, <3>3, ClickKept DEF Stages
  <2> QED  BY <1>11, <2>2, <2>3, <2>4, <2>5 DEF Mined
<1> QED  BY <1>4, <1>5, <1>6, <1>7, <1>8, <1>9, <1>10, <1>11 DEF Next

\* The first four theorems rest on these invariants together.
WebInv == CoreInv /\ ClickInv /\ FormInv /\ OverInv

LEMMA WebInvInit == Init => WebInv
<1> SUFFICES ASSUME Init PROVE WebInv
  OBVIOUS
<1>1. <<>> \in Seq(Deeds)  OBVIOUS
<1>2. ClickInv  BY <1>1 DEF Init, ClickInv
<1>3. FormInv /\ OverInv  BY DEF Init, FormInv, OverInv
<1> QED  BY <1>2, <1>3, CoreInit DEF WebInv

LEMMA WebInvNext == WebInv /\ [Next]_vars => WebInv'
  BY CoreNext, ClickNext, FormNext, OverNext DEF WebInv, ClickInv

LEMMA WebInvHolds == Spec => []WebInv
<1>1. Init => WebInv  BY WebInvInit
<1>2. WebInv /\ [Next]_vars => WebInv'  BY WebInvNext
<1> QED  BY <1>1, <1>2, PTL DEF Spec

\* The display stays within the Alps that exist, wherever the user navigates while auctions
\* are created (state/slices/onDisplayAuction.ts, pages/Auction).
THEOREM DisplayInRange == Spec => []ShownInRange
<1>1. WebInv => ShownInRange
  <2> SUFFICES ASSUME WebInv, store.shown # None PROVE store.shown \in 0..store.last
    BY DEF ShownInRange
  <2>1. store \in Stores /\ store.last # None /\ store.shown <= store.last
    BY DEF WebInv, CoreInv, StoreInv, InRange
  <2>2. store.shown \in Nat /\ store.last \in Nat  BY <2>1, StoreParts
  <2> QED  BY <2>1, <2>2
<1> QED  BY <1>1, WebInvHolds, PTL

\* The page offers to settle, and names a winner, only for an auction that has run out,
\* whatever extensions and moves came between two renders (AuctionActivity).
THEOREM SettleOnlyWhenOver == Spec => []SettleOfferedWhenOver
<1>1. WebInv => SettleOfferedWhenOver
  <2>1. ASSUME over, WebInv PROVE Shown.end <= now
    BY <2>1 DEF WebInv, OverInv, EndedEffect, Shown
  <2>2. AuctionActivity.bid.won => over  BY DEF AuctionActivity, CurrentBid
  <2>3. AuctionActivity.button = "settle" => over  BY DEF AuctionActivity
  <2> QED  BY <2>1, <2>2, <2>3 DEF SettleOfferedWhenOver
<1> QED  BY <1>1, WebInvHolds, PTL

\* A bid the house took from the user is for the Alp and the amount that were on the page when
\* the button was pressed (Bid, placeBidHandler).
THEOREM BidsAreClicked == Spec => []OwnBidsWereClicked
<1>1. WebInv => OwnBidsWereClicked  BY DEF WebInv, ClickInv, OwnBidsWereClicked
<1> QED  BY <1>1, WebInvHolds, PTL

\* The lists of bids the hooks give are for the Alp asked for, whether it is the last one or
\* a past one (useAuctionBids).
LEMMA AuctionBidsFacts ==
    ASSUME CoreInv, NEW alp, useAuctionBids(store, alp) # None
    PROVE  \A i \in DOMAIN useAuctionBids(store, alp) : useAuctionBids(store, alp)[i].alp = alp
<1> DEFINE Sorted(bids) == deserializeBids(bids)
<1>1. ASSUME NEW bids \in Seq(Bids), NEW a, \A i \in DOMAIN bids : bids[i].alp = a
      PROVE  \A i \in DOMAIN Sorted(bids) : Sorted(bids)[i].alp = a
  <2>1. \A k \in DOMAIN Sorted(bids) : \E i \in DOMAIN bids : Sorted(bids)[k] = bids[i]
    BY SortKeepsBids
  <2> HIDE DEF Sorted
  <2> QED  BY <1>1, <2>1
<1>2. StoreInv(Logged, store) /\ store \in Stores  BY DEF CoreInv, StoreInv
<1>3. CASE store.last = alp
  <2>1. useAuctionBids(store, alp) = Sorted(store.bids)  BY <1>3 DEF useAuctionBids
  <2>2. store.bids \in Seq(Bids)  BY <1>2, StoreParts
  <2>3. \A i \in DOMAIN store.bids : store.bids[i].alp = alp  BY <1>2, <1>3 DEF StoreInv
  <2> HIDE DEF Sorted
  <2> QED  BY <1>1, <2>1, <2>2, <2>3
<1>4. CASE store.last # alp
  <2> DEFINE a == PastAuction(store, alp)
  <2>1. useAuctionBids(store, alp) = IF a = None THEN None ELSE Sorted(a.bids)
    BY <1>4 DEF useAuctionBids
  <2>2. a # None  BY <2>1
  <2>3. a \in store.past /\ a.auction.alp = alp  BY <2>2 DEF PastAuction
  <2> HIDE DEF a, Sorted
  <2>4. a \in Pasts /\ BidsMatch(a)  BY <1>2, <2>3, StoreParts DEF StoreInv
  <2>5. a.bids \in Seq(Bids) /\ \A i \in DOMAIN a.bids : a.bids[i].alp = alp
    BY <2>3, <2>4 DEF Pasts, BidsMatch
  <2> QED  BY <1>1, <2>1, <2>2, <2>5
<1> QED  BY <1>3, <1>4

\* The page lists a bid under its own Alp only, and every amount it shows is a bid's, while
\* bids wait for their block and auctions come and go (index.tsx, state/slices/auction.ts).
THEOREM BidsListedWhereTheyBelong == Spec => []BidsOfTheirAuction
<1>1. WebInv => BidsOfTheirAuction
  <2> SUFFICES ASSUME WebInv PROVE BidsOfTheirAuction
    OBVIOUS
  <2>1. CoreInv  BY DEF WebInv
  <2>2. \A i \in DOMAIN store.bids : store.bids[i].alp = store.active.alp
    BY <2>1 DEF CoreInv, StoreInv
  <2>3. store.active # None /\ store.active.amount # 0 =>
            \E i \in DOMAIN bidLog : /\ bidLog[i].alp = store.active.alp
                                      /\ bidLog[i].value = store.active.amount
    BY <2>1 DEF CoreInv, StoreInv, BidLogged, Logged
  <2>4. \A alp \in 0..MaxAlp : useAuctionBids(store, alp) # None =>
            \A i \in DOMAIN useAuctionBids(store, alp) : useAuctionBids(store, alp)[i].alp = alp
    BY <2>1, AuctionBidsFacts
  <2> QED  BY <2>2, <2>3, <2>4 DEF BidsOfTheirAuction
<1> QED  BY <1>1, WebInvHolds, PTL

-----------------------------------------------------------------------------
(* The bids the tab asks for and hears of.                                 *)

\* No bid in the log is for an Alp past the house's.
LEMMA LoggedAlps ==
    ASSUME CoreInv
    PROVE  /\ \A b \in Logged : b \in Bids /\ b.alp \in Nat /\ b.value \in Nat \ {0} /\ b.alp <= house.alp
           /\ house \in Auctions /\ house.alp \in Nat /\ house.amount \in Nat /\ house.end \in Nat
<1>1. ASSUME NEW i \in DOMAIN bidLog
      PROVE  /\ bidLog[i] \in Bids /\ bidLog[i].alp \in Nat /\ bidLog[i].value \in Nat \ {0}
             /\ bidLog[i].alp <= house.alp
  <2>1. PICK b \in Bids : b = bidLog[i]  BY DEF CoreInv, ChainTyped
  <2>2. b.alp \in Nat /\ b.value \in Nat \ {0}  BY DEF Bids
  <2>3. bidLog[i].alp <= house.alp  BY DEF CoreInv, LogInv
  <2> QED  BY <2>1, <2>2, <2>3
<1>2. house \in Auctions /\ house.alp \in Nat /\ house.amount \in Nat /\ house.end \in Nat
  BY DEF CoreInv, ChainTyped, Auctions
<1> QED  BY <1>1, <1>2 DEF Logged

\* A step of the tab after which it knows of no more bids.
LEMMA KnownShrinks ==
    ASSUME WindowInv, UNCHANGED <<now, house, bidLog>>, socket'.from = socket.from,
           \A b : Known(b)' => Known(b),
           socket'.pc \in {"fetch", "query"} => socket.pc \in {"fetch", "query"}
    PROVE  WindowInv'
<1>1. Logged' = Logged  BY DEF Logged
<1> HIDE DEF Known
<1> QED  BY <1>1 DEF WindowInv

LEMMA HeardSplits ==
    ASSUME NEW q \in Seq(Events), NEW t \in Seq(Events), NEW b, Heard(q \o t, b)
    PROVE  Heard(q, b) \/ Heard(t, b)
<1> DEFINE long == q \o t
<1>1. \A i \in DOMAIN long :
        (\E j \in DOMAIN q : long[i] = q[j]) \/ (\E j \in DOMAIN t : long[i] = t[j])
  BY ConcatElements
<1>2. PICK i \in DOMAIN long : long[i].type = "AuctionBid" /\ long[i].bid = b  BY DEF Heard
<1> HIDE DEF long
<1> QED  BY <1>1, <1>2 DEF Heard

\* The house sends no bid but one of this moment.
LEMMA SentWindow ==
    ASSUME CoreInv, WindowInv, NEW events \in Seq(Events), Send(events),
           store' = store, now' = now, \A b \in Logged' : b.time <= now,
           \A b, c \in Logged' :
             b.alp = house'.alp /\ c.alp = house'.alp /\ c.value = house'.amount => b.time <= c.time,
           \A b : Heard(events, b) => b.time = now
    PROVE  WindowInv'
<1>1. /\ socket'.pc = socket.pc /\ socket'.blocks = socket.blocks /\ socket'.from = socket.from
      /\ IF socket.pc = "live" THEN socket'.inbox = socket.inbox \o events
                               ELSE socket'.inbox = socket.inbox
  BY SendFacts DEF CoreInv
<1>2. socket.from \in Int /\ now \in Nat /\ socket.from <= now
  BY SocketParts DEF CoreInv, ChainTyped, WindowInv
<1>3. PICK q \in Seq(Events) : q = socket.inbox  BY SocketParts DEF CoreInv
<1>4. ASSUME NEW b, Known(b)' PROVE Known(b) \/ (socket.pc = "live" /\ b.time = now)
  <2>1. Listed(store, b) \/ b \in socket.blocks \/ Heard(socket'.inbox, b)
    BY <1>1, <1>4 DEF Known
  <2>2. CASE socket.pc = "live" /\ Heard(socket'.inbox, b)
    <3>1. Heard(q \o events, b)  BY <1>1, <1>3, <2>2
    <3>2. Heard(q, b) \/ Heard(events, b)  BY <3>1, HeardSplits
    <3> QED  BY <1>3, <2>2, <3>2 DEF Known
  <2>3. CASE socket.pc # "live" \/ ~Heard(socket'.inbox, b)  BY <1>1, <2>1, <2>3 DEF Known
  <2> QED  BY <2>2, <2>3
<1>5. ASSUME NEW b, Known(b)' PROVE b.time >= socket.from
  <2>1. CASE Known(b)  BY <2>1 DEF WindowInv
  <2>2. CASE b.time = now  BY <1>2, <2>2
  <2> QED  BY <1>4, <1>5, <2>1, <2>2
<1>6. socket'.pc \in {"fetch", "query"} => \A b : ~Known(b)'
  <2> SUFFICES ASSUME socket'.pc \in {"fetch", "query"}, NEW b, Known(b)' PROVE FALSE
    OBVIOUS
  <2>1. Known(b)  BY <1>1, <1>4
  <2> QED  BY <1>1, <2>1 DEF WindowInv
<1> HIDE DEF Known
<1> QED  BY <1>1, <1>2, <1>5, <1>6 DEF WindowInv

LEMMA BiddingWindow ==
    ASSUME CoreInv, WindowInv, NEW who \in {Me, Other}, NEW v \in Nat \ {0}, Bidding(who, v),
           UNCHANGED <<store, route>>
    PROVE  WindowInv'
<1> DEFINE heard == BidHeard(who, v)
           bid == BidTaken(who, v)
<1>1. Send(heard) /\ heard \in Seq(Events)  BY BiddingKeeps
<1>2. /\ bid \in Bids /\ Logged' \subseteq Logged \cup {bid}
      /\ house' = [house EXCEPT !.amount = v, !.bidder = who, !.end = EndLeft]
      /\ house'.alp = house.alp /\ now' = now
  BY BiddingFacts DEF CoreInv
<1>3. house'.amount = v /\ house.amount \in Nat /\ v > house.amount /\ now \in Nat
  BY <1>2 DEF CoreInv, ChainTyped, Auctions, Bidding
<1>4. bid.time = now /\ bid.value = v  BY DEF BidTaken
<1>5. /\ DOMAIN heard \in {1..1, 1..2} /\ heard[1].type = "AuctionBid" /\ heard[1].bid = bid
      /\ DOMAIN heard = 1..2 => heard[2].type = "AuctionExtended"
  BY <1>2, BidHeardFacts DEF CoreInv
<1> HIDE DEF heard, bid
<1>6. \A b \in Logged' : b.time <= now
  <2> SUFFICES ASSUME NEW b \in Logged' PROVE b.time <= now  OBVIOUS
  <2>1. CASE b = bid  BY <1>3, <1>4, <2>1
  <2>2. CASE b \in Logged  BY <2>2 DEF WindowInv
  <2> QED  BY <1>2, <2>1, <2>2
<1>7. ASSUME NEW b \in Logged', NEW c \in Logged', c.alp = house'.alp, c.value = house'.amount
      PROVE  b.time <= c.time
  <2>1. c \notin Logged
    <3> SUFFICES ASSUME c \in Logged PROVE FALSE  OBVIOUS
    <3>1. c.value <= house.amount /\ c.value = v  BY <1>2, <1>3, <1>7 DEF CoreInv, LogInv
    <3> QED  BY <1>3, <3>1
  <2>2. c.time = now  BY <1>2, <1>4, <2>1
  <2> QED  BY <1>6, <2>2
<1>8. ASSUME NEW b, Heard(heard, b) PROVE b.time = now
  <2>1. PICK i \in DOMAIN heard : heard[i].type = "AuctionBid" /\ heard[i].bid = b
    BY <1>8 DEF Heard
  <2>2. i = 1  BY <1>5, <2>1
  <2> QED  BY <1>4, <1>5, <2>1, <2>2
<1> QED  BY <1>1, <1>2, <1>6, <1>7, <1>8, SentWindow

LEMMA SettlingWindow ==
    ASSUME CoreInv, WindowInv, SettlingAndCreating, UNCHANGED <<store, route>>
    PROVE  WindowInv'
<1>1. Send(SettleHeard) /\ SettleHeard \in Seq(Events)  BY SettlingKeeps
<1>2. Logged' = Logged /\ house.alp < house'.alp /\ ChainTyped' /\ now' = now
  BY SettlingFacts DEF CoreInv
<1>3. house'.alp \in Nat  BY <1>2 DEF ChainTyped, Auctions
<1>4. \A b \in Logged' : b.alp # house'.alp
  <2> SUFFICES ASSUME NEW b \in Logged PROVE b.alp # house'.alp  BY <1>2
  <2>1. b.alp \in Nat /\ b.alp <= house.alp /\ house.alp \in Nat  BY LoggedAlps
  <2> QED  BY <1>2, <1>3, <2>1
<1> DEFINE heard == SettleHeard
<1>5. /\ DOMAIN heard = 1..2 /\ heard[1].type = "AuctionSettled"
      /\ heard[2].type = "AuctionCreated"
  BY <1>2, SettleHeardFacts DEF CoreInv
<1> HIDE DEF heard
<1>6. \A b : ~Heard(heard, b)
  <2>1. \A i \in DOMAIN heard : heard[i].type # "AuctionBid"  BY <1>5
  <2> QED  BY <2>1 DEF Heard
<1>7. \A b \in Logged' : b.time <= now  BY <1>2 DEF WindowInv
<1> QED  BY <1>1, <1>2, <1>4, <1>6, <1>7, SentWindow DEF heard

\* A bid that is handled was heard of; it waits for its block.
LEMMA ReceiveWindow ==
    ASSUME CoreInv, WindowInv, Receive
    PROVE  WindowInv'
<1> DEFINE event == Head(socket.inbox)
           rest == [socket EXCEPT !.inbox = Tail(@)]
<1>1. /\ socket.pc = "live" /\ event \in Events /\ event = socket.inbox[1]
      /\ rest \in Sockets /\ rest.pc = "live" /\ rest.blocks = socket.blocks
      /\ rest.inbox = Tail(socket.inbox) /\ rest.from = socket.from
      /\ \A i \in DOMAIN rest.inbox : /\ i + 1 \in DOMAIN socket.inbox
                                      /\ rest.inbox[i] = socket.inbox[i + 1]
  BY ReceiveFacts DEF Receive
<1>2. 1 \in DOMAIN socket.inbox
  <2>1. PICK q \in Seq(Events) : q = socket.inbox  BY SocketParts DEF CoreInv
  <2>2. q # <<>>  BY <2>1 DEF Receive
  <2> QED  BY <2>1, <2>2
<1>3. StoreInv(Logged, store) /\ route \in Int \cup {None}  BY DEF CoreInv, TabTyped
<1> HIDE DEF event, rest
<1>4. \A b : Heard(rest.inbox, b) => Heard(socket.inbox, b)  BY <1>1 DEF Heard
<1>5. UNCHANGED <<now, house, bidLog>>  BY DEF Receive, chain
<1>6. \/ socket' = rest
      \/ event.type = "AuctionBid" /\ socket' = [rest EXCEPT !.blocks = @ \cup {event.bid}]
  BY DEF Receive, event, rest
<1>7. /\ socket'.pc = "live" /\ socket'.from = socket.from /\ socket'.inbox = rest.inbox
      /\ \/ socket'.blocks = socket.blocks
         \/ event.type = "AuctionBid" /\ socket'.blocks = socket.blocks \cup {event.bid}
  BY <1>1, <1>6 DEF Sockets
<1>8. event.type = "AuctionBid" => Heard(socket.inbox, event.bid)  BY <1>1, <1>2 DEF Heard
<1>9. store'.bids = store.bids \/ store'.bids = <<>>
  <2>1. CASE UNCHANGED page  BY <2>1 DEF page
  <2>2. CASE /\ event.type = "AuctionCreated"
             /\ LET alp == event.auction.alp
                    new == reduxSafeNewAuction(alp, event.auction.start, event.auction.end)
                    s == setOnDisplayAuctionAlpId(setActiveAuction(store, new), alp)
                IN Rendered(setLastAuctionAlpId(s, alp), route)
    <3>1. event.auction.alp \in Nat /\ event.auction.start \in Nat /\ event.auction.end \in Nat
      BY <1>1, <2>2, EventParts
    <3>2. PICK alp \in Nat, start \in Nat, end \in Nat :
            alp = event.auction.alp /\ start = event.auction.start /\ end = event.auction.end
      BY <3>1
    <3> DEFINE n == reduxSafeNewAuction(alp, start, end)
               t == setLastAuctionAlpId(setOnDisplayAuctionAlpId(setActiveAuction(store, n), alp), alp)
    <3>3. StoreInv(Logged, t) /\ t.bids = <<>>  BY <1>3, CreatedKeeps
    <3>4. Rendered(t, route)  BY <2>2, <3>2
    <3> HIDE DEF t
    <3> QED  BY <1>3, <3>3, <3>4, RenderKeeps
  <2>3. CASE /\ event.type = "AuctionExtended"
             /\ Rendered(setAuctionExtended(store, event.alp, event.end), route)
    <3>1. event.end \in Nat  BY <1>1, <2>3, EventParts
    <3> DEFINE s == setAuctionExtended(store, event.alp, event.end)
    <3>2. StoreInv(Logged, s)  BY <1>3, <3>1, ExtendedKeeps
    <3>3. s.bids = store.bids  BY <1>3 DEF setAuctionExtended, StoreInv, Stores
    <3>4. Rendered(s, route)  BY <2>3
    <3> HIDE DEF s
    <3> QED  BY <1>3, <3>2, <3>3, <3>4, RenderKeeps
  <2>4. CASE /\ event.type = "AuctionSettled"
             /\ Rendered(setAuctionSettled(store, event.alp, event.winner, event.amount), route)
    <3>1. /\ event.winner \in {Me, Other, NoBidder, ""} /\ event.amount \in Nat
          /\ BidLogged(Logged, event.alp, event.amount)
      <4>1. EventLogged(Logged, event)  BY ReceiveFacts DEF Receive, event
      <4> QED  BY <1>1, <2>4, <4>1, EventParts DEF EventLogged
    <3> DEFINE s == setAuctionSettled(store, event.alp, event.winner, event.amount)
    <3>2. StoreInv(Logged, s)  BY <1>3, <3>1, SettledKeeps
    <3>3. s.bids = store.bids  BY <1>3 DEF setAuctionSettled, StoreInv, Stores
    <3>4. Rendered(s, route)  BY <2>4
    <3> HIDE DEF s
    <3> QED  BY <1>3, <3>2, <3>3, <3>4, RenderKeeps
  <2> QED  BY <2>1, <2>2, <2>3, <2>4 DEF Receive, event
<1>10. ASSUME NEW b, Known(b)' PROVE Known(b)
  <2>1. Listed(store', b) => Listed(store, b)  BY <1>9 DEF Listed
  <2>2. b \in socket'.blocks => b \in socket.blocks \/ Heard(socket.inbox, b)  BY <1>7, <1>8
  <2>3. Heard(socket'.inbox, b) => Heard(socket.inbox, b)  BY <1>4, <1>7
  <2> QED  BY <1>10, <2>1, <2>2, <2>3 DEF Known
<1>11. socket'.pc \notin {"fetch", "query"}  BY <1>7
<1> QED  BY <1>5, <1>7, <1>10, <1>11, KnownShrinks

\* A bid whose block is fetched was waiting for it.
LEMMA BlockWindow ==
    ASSUME CoreInv, WindowInv, NEW bid, BlockFetched(bid)
    PROVE  WindowInv'
<1>1. /\ bid \in socket.blocks /\ UNCHANGED <<now, house, bidLog>>
      /\ Rendered(appendBid(store, bid), route)
      /\ socket' = [socket EXCEPT !.blocks = @ \ {bid}]
  BY DEF BlockFetched, chain
<1>2. /\ bid \in Bids /\ bid \in Logged /\ StoreInv(Logged, store) /\ socket \in Sockets
      /\ route \in Int \cup {None} /\ store \in Stores
  BY <1>1, SocketParts DEF CoreInv, SocketInv, TabTyped, StoreInv
<1>3. /\ socket'.pc = socket.pc /\ socket'.inbox = socket.inbox /\ socket'.from = socket.from
      /\ socket'.blocks \subseteq socket.blocks
  BY <1>1, <1>2 DEF Sockets
<1> DEFINE t == appendBid(store, bid)
           skipped == ~auctionsEqual(store, bid.alp) \/ containsBid(store.bids, bid)
<1>4. /\ StoreInv(Logged, t)
      /\ skipped => t = store
      /\ ~skipped => t.bids = <<bid>> \o store.bids
  BY <1>2, AppendKeeps
<1>5. Rendered(t, route)  BY <1>1
<1> HIDE DEF t, skipped
<1>6. store'.bids = t.bids  BY <1>2, <1>4, <1>5, RenderKeeps
<1>7. ASSUME NEW b, Listed(store', b) PROVE Listed(store, b) \/ b = bid
  <2>1. CASE skipped  BY <1>4, <1>6, <1>7, <2>1 DEF Listed
  <2>2. CASE ~skipped
    <3>1. PICK old \in Seq(Bids) : old = store.bids  BY <1>2, StoreParts
    <3>2. <<bid>> \in Seq(Bids) /\ DOMAIN <<bid>> = 1..1 /\ <<bid>>[1] = bid  BY <1>2
    <3> DEFINE long == <<bid>> \o old
    <3>3. \A i \in DOMAIN long :
            (\E j \in DOMAIN <<bid>> : long[i] = <<bid>>[j]) \/ (\E j \in DOMAIN old : long[i] = old[j])
      BY <3>2, ConcatElements
    <3>4. store'.bids = long  BY <1>4, <1>6, <2>2, <3>1
    <3> HIDE DEF long
    <3>5. PICK i \in DOMAIN long : long[i] = b  BY <1>7, <3>4 DEF Listed
    <3>6. b = bid \/ \E j \in DOMAIN old : old[j] = b  BY <3>2, <3>3, <3>5
    <3> QED  BY <3>1, <3>6 DEF Listed
  <2> QED  BY <2>1, <2>2
<1>8. ASSUME NEW b, Known(b)' PROVE Known(b)
  <2>1. Listed(store', b) => Listed(store, b) \/ b \in socket.blocks  BY <1>1, <1>7
  <2> QED  BY <1>3, <1>8, <2>1 DEF Known
<1> QED  BY <1>1, <1>3, <1>8, KnownShrinks

\* Every step keeps to the bids that are asked for.
LEMMA WindowNext ==
    ASSUME CoreInv, WindowInv, deeds \in Seq(Deeds), [Next]_vars
    PROVE  WindowInv'
<1>1. StoreInv(Logged, store) /\ route \in Int \cup {None} /\ socket \in Sockets
  BY DEF CoreInv, TabTyped
<1>2. ASSUME UNCHANGED <<now, house, bidLog>>, socket'.from = socket.from,
             store'.bids = store.bids, socket'.inbox = socket.inbox,
             socket'.blocks \subseteq socket.blocks,
             socket'.pc \in {"fetch", "query"} => socket.pc \in {"fetch", "query"}
      PROVE  WindowInv'
  <2>1. \A b : Known(b)' => Known(b)  BY <1>2 DEF Known, Listed
  <2> QED  BY <1>2, <2>1, KnownShrinks
<1>3. ASSUME \/ PollTimer \/ settleAuctionHandler \/ \E v \in 1..MaxBid : placeBidHandler(v)
             \/ \E d \in DOMAIN deeds : Estimated(d) \/ Signed(d) \/ Rejected(d) \/ Receipt(d)
             \/ UNCHANGED vars
      PROVE  WindowInv'
  <2>1. UNCHANGED <<now, house, bidLog, socket, store>>
    BY <1>3 DEF PollTimer, settleAuctionHandler, placeBidHandler, Estimated, Signed, Rejected,
                Receipt, vars, page, chain
  <2> QED  BY <1>2, <2>1
<1>4. ASSUME Tick PROVE WindowInv'
  <2>1. now' = now + 1 /\ UNCHANGED <<house, bidLog, socket, store>>  BY <1>4 DEF Tick, page
  <2>2. Logged' = Logged /\ \A b : Known(b)' <=> Known(b)  BY <2>1 DEF Logged, Known
  <2>3. now \in Nat /\ socket.from \in Int /\ socket.from <= now
    BY SocketParts DEF CoreInv, ChainTyped, WindowInv
  <2>4. \A b \in Logged : b.time <= now + 1
    <3> SUFFICES ASSUME NEW b \in Logged PROVE b.time <= now + 1  OBVIOUS
    <3>1. b \in Bids /\ b.time <= now  BY LoggedAlps DEF WindowInv
    <3>2. b.time \in Nat  BY <3>1 DEF Bids
    <3> QED  BY <2>3, <3>1, <3>2
  <2>5. socket.from <= now + 1  BY <2>3
  <2> HIDE DEF Known
  <2> QED  BY <2>1, <2>2, <2>4, <2>5 DEF WindowInv
<1>5. ASSUME NEW v \in 1..MaxBid, OtherBids(v) PROVE WindowInv'
  <2>1. v \in Nat \ {0}  BY WebAssumption
  <2>2. Bidding(Other, v) /\ UNCHANGED <<store, route>>  BY <1>5 DEF OtherBids, page
  <2> QED  BY <2>1, <2>2, BiddingWindow
<1>6. ASSUME OtherSettles PROVE WindowInv'
  BY <1>6, SettlingWindow DEF OtherSettles, page
<1>7. ASSUME NEW d \in DOMAIN deeds, Mined(d) PROVE WindowInv'
  <2>1. UNCHANGED <<store, route>>  BY <1>7 DEF Mined, page
  <2>2. PICK deed \in Deeds : deed = deeds[d]  BY <1>7
  <2>3. deed.value \in Nat  BY <2>2 DEF Deeds
  <2>4. house.amount \in Nat  BY DEF CoreInv, ChainTyped, Auctions
  <2>5. CASE UNCHANGED <<chain, socket>>  BY <1>2, <2>1, <2>5 DEF chain
  <2>6. CASE SettlingAndCreating  BY <2>1, <2>6, SettlingWindow
  <2>7. CASE deed.value > house.amount /\ Bidding(Me, deed.value)
    <3>1. deed.value \in Nat \ {0}  BY <2>3, <2>4, <2>7
    <3> QED  BY <2>1, <2>7, <3>1, BiddingWindow
  <2> QED  BY <1>7, <2>2, <2>5, <2>6, <2>7 DEF Mined
<1>8. ASSUME FetchAuction PROVE WindowInv'
  <2>1. /\ UNCHANGED <<now, house, bidLog>> /\ socket.pc = "fetch"
        /\ socket' = [socket EXCEPT !.pc = "query"]
    BY <1>8 DEF FetchAuction, chain
  <2>2. /\ socket'.pc = "query" /\ socket'.inbox = socket.inbox /\ socket'.blocks = socket.blocks
        /\ socket'.from = socket.from
    BY <1>1, <2>1 DEF Sockets
  <2>3. store.bids = <<>> /\ store.active = None /\ store.shown = None
    BY <2>1 DEF CoreInv, SocketInv
  <2> DEFINE s == setLastAuctionAlpId(setFullAuction(store, house), house.alp)
  <2>4. StoreInv(Logged, s)  BY <1>1, <2>3, FetchKeeps DEF CoreInv
  <2>5. s.bids = <<>>
    BY <1>1, <2>3 DEF setLastAuctionAlpId, setFullAuction, StoreInv, Stores
  <2>6. Rendered(s, route)  BY <1>8 DEF FetchAuction
  <2> HIDE DEF s
  <2>7. store'.bids = store.bids  BY <1>1, <2>3, <2>4, <2>5, <2>6, RenderKeeps
  <2> QED  BY <1>2, <2>1, <2>2, <2>7
<1>9. ASSUME QueryBids PROVE WindowInv'
  <2>1. UNCHANGED <<now, house, bidLog, store>> /\ socket.pc = "query"
    BY <1>9 DEF QueryBids, page, chain
  <2>2. /\ socket'.pc = "listen" /\ socket'.inbox = socket.inbox
        /\ socket'.from = now - Day /\ now - Day <= now
        /\ socket'.blocks = {b \in Logged : b.time >= now - Day}
    BY <1>9, QueryFacts
  <2>3. Logged' = Logged  BY <2>1 DEF Logged
  <2>4. ASSUME NEW b, Known(b)' PROVE b.time >= socket'.from
    <3>1. ~Known(b)  BY <2>1 DEF WindowInv
    <3>2. b \in socket'.blocks  BY <2>1, <2>2, <2>4, <3>1 DEF Known
    <3> QED  BY <2>2, <3>2
  <2> HIDE DEF Known
  <2> QED  BY <2>1, <2>2, <2>3, <2>4 DEF WindowInv
<1>10. ASSUME Listen \/ LoadFails \/ \E bid \in socket.blocks : BlockFails(bid)
       PROVE  WindowInv'
  <2>1. /\ UNCHANGED <<now, house, bidLog, store>> /\ socket'.from = socket.from
        /\ socket'.inbox = socket.inbox /\ socket'.blocks \subseteq socket.blocks
        /\ socket'.pc \in {"fetch", "query"} => socket.pc \in {"fetch", "query"}
    BY <1>1, <1>10 DEF Listen, LoadFails, BlockFails, page, chain, Sockets
  <2> QED  BY <1>2, <2>1
<1>11. ASSUME PastAuctionsLoaded PROVE WindowInv'
  <2> DEFINE all == ended \cup {reduxSafePastAuction}
             s == addPastAuctions(store, all)
  <2>1. all \in SUBSET Pasts /\ \A p \in all : BidsMatch(p)
    BY PastAuctionFacts DEF CoreInv, ChainTyped
  <2> HIDE DEF all
  <2>2. StoreInv(Logged, s) /\ s.bids = store.bids  BY <1>1, <2>1, PastKeeps
  <2> HIDE DEF s
  <2>3. Rendered(s, route) /\ UNCHANGED <<chain, socket>>  BY <1>11 DEF PastAuctionsLoaded, s, all
  <2>4. store'.bids = store.bids  BY <1>1, <2>2, <2>3, RenderKeeps
  <2> QED  BY <1>2, <2>3, <2>4 DEF chain
<1>12. ASSUME ClickArrow \/ PressKey PROVE WindowInv'
  <2>1. PICK s, r : /\ Opened(s, r) /\ StoreInv(Logged, s) /\ r \in Int \cup {None}
                    /\ s.bids = store.bids
    BY <1>12, ClickArrowOpens
  <2>2. store'.bids = store.bids  BY <2>1, RenderKeeps DEF Opened
  <2> QED  BY <1>2, <2>1, <2>2 DEF Opened, chain
<1>13. ASSUME NEW r \in Pages, Opened(store, r) PROVE WindowInv'
  <2>1. r \in Int \cup {None}  BY PagesAssumption
  <2>2. store'.bids = store.bids  BY <1>1, <1>13, <2>1, RenderKeeps DEF Opened
  <2> QED  BY <1>2, <1>13, <2>2 DEF Opened, chain
<1> QED
  BY <1>3, <1>4, <1>5, <1>6, <1>7, <1>8, <1>9, <1>10, <1>11, <1>12, <1>13,
     ReceiveWindow, BlockWindow
  DEF Next

\* Nothing is known before the auction is fetched and the bids are asked for.
LEMMA WindowInvHolds == Spec => []WindowInv
<1>1. Init => WindowInv
  <2> SUFFICES ASSUME Init PROVE WindowInv  OBVIOUS
  <2>1. /\ now = 0 /\ bidLog = <<>> /\ socket.inbox = <<>> /\ socket.blocks = {}
        /\ socket.from = 0 /\ store.bids = <<>>
    BY DEF Init, EmptyStore
  <2>2. \A b : ~Known(b)  BY <2>1 DEF Known, Listed, Heard
  <2>3. Logged = {}  BY <2>1 DEF Logged
  <2> HIDE DEF Known
  <2> QED  BY <2>1, <2>2, <2>3 DEF WindowInv
<1>2. WebInv /\ WindowInv /\ [Next]_vars => WindowInv'
  BY WindowNext DEF WebInv, ClickInv
<1> QED  BY <1>1, <1>2, WebInvHolds, PTL DEF Spec

-----------------------------------------------------------------------------
(* The events on their way to the page, and what they make of it.          *)

\* What comes later in a queue that got longer, and in one that got shorter.
LEMMA LaterConcat ==
    ASSUME NEW q \in Seq(Events), NEW t \in Seq(Events), NEW T
    PROVE  /\ \A i \in 0..Len(q) : Later(q \o t, i, T) <=> Later(q, i, T) \/ Later(t, 0, T)
           /\ \A j \in DOMAIN t : Later(q \o t, Len(q) + j, T) <=> Later(t, j, T)
<1> DEFINE n == Len(q)
           long == q \o t
<1>1. n \in Nat /\ DOMAIN q = 1..n /\ DOMAIN t = 1..Len(t) /\ Len(t) \in Nat  OBVIOUS
<1>2. /\ DOMAIN long = 1..(n + Len(t))
      /\ \A i \in DOMAIN q : long[i] = q[i]
      /\ \A j \in DOMAIN t : long[n + j] = t[j]
      /\ \A i \in DOMAIN long : i \in DOMAIN q \/ \E j \in DOMAIN t : i = n + j
  BY ConcatElements
<1> HIDE DEF n, long
<1>3. ASSUME NEW i \in 0..n, Later(long, i, T) PROVE Later(q, i, T) \/ Later(t, 0, T)
  <2>1. PICK k \in DOMAIN long : k > i /\ long[k].type \in T  BY <1>3 DEF Later
  <2>2. CASE k \in DOMAIN q  BY <1>2, <2>1, <2>2 DEF Later
  <2>3. CASE \E j \in DOMAIN t : k = n + j
    <3>1. PICK j \in DOMAIN t : k = n + j  BY <2>3
    <3>2. j > 0 /\ t[j].type \in T  BY <1>1, <1>2, <2>1, <3>1
    <3> QED  BY <3>2 DEF Later
  <2> QED  BY <1>2, <2>1, <2>2, <2>3
<1>4. ASSUME NEW i \in 0..n, Later(q, i, T) PROVE Later(long, i, T)
  <2>1. PICK k \in DOMAIN q : k > i /\ q[k].type \in T  BY <1>4 DEF Later
  <2>2. k \in DOMAIN long /\ long[k] = q[k]  BY <1>1, <1>2
  <2> QED  BY <2>1, <2>2 DEF Later
<1>5. ASSUME NEW i \in 0..n, Later(t, 0, T) PROVE Later(long, i, T)
  <2>1. PICK j \in DOMAIN t : j > 0 /\ t[j].type \in T  BY <1>5 DEF Later
  <2>2. n + j \in DOMAIN long /\ n + j > i  BY <1>1, <1>2, <2>1
  <2>3. long[n + j] = t[j]  BY <1>2
  <2> QED  BY <2>1, <2>2, <2>3 DEF Later
<1>6. ASSUME NEW j \in DOMAIN t, Later(long, n + j, T) PROVE Later(t, j, T)
  <2>1. PICK k \in DOMAIN long : k > n + j /\ long[k].type \in T  BY <1>6 DEF Later
  <2>2. k \notin DOMAIN q  BY <1>1, <2>1
  <2>3. PICK m \in DOMAIN t : k = n + m  BY <1>2, <2>2
  <2>4. m > j  BY <1>1, <2>1, <2>3
  <2>5. t[m].type \in T  BY <1>2, <2>1, <2>3
  <2> QED  BY <2>4, <2>5 DEF Later
<1>7. ASSUME NEW j \in DOMAIN t, Later(t, j, T) PROVE Later(long, n + j, T)
  <2>1. PICK m \in DOMAIN t : m > j /\ t[m].type \in T  BY <1>7 DEF Later
  <2>2. n + m \in DOMAIN long /\ n + m > n + j  BY <1>1, <1>2, <2>1
  <2>3. long[n + m] = t[m]  BY <1>2
  <2> QED  BY <2>1, <2>2, <2>3 DEF Later
<1> QED  BY <1>3, <1>4, <1>5, <1>6, <1>7 DEF n, long

LEMMA LaterTail ==
    ASSUME NEW q \in Seq(Events), q # <<>>, NEW T
    PROVE  /\ \A i \in 0..Len(Tail(q)) : Later(Tail(q), i, T) <=> Later(q, i + 1, T)
           /\ Later(q, 0, T) <=> q[1].type \in T \/ Later(q, 1, T)
<1> DEFINE n == Len(q)
           r == Tail(q)
<1>1. n \in Nat \ {0} /\ DOMAIN q = 1..n  OBVIOUS
<1>2. Len(r) = n - 1 /\ DOMAIN r = 1..(n - 1) /\ \A k \in 1..(n - 1) : r[k] = q[k + 1]
  OBVIOUS
<1> HIDE DEF n, r
<1>3. ASSUME NEW i \in 0..(n - 1), Later(r, i, T) PROVE Later(q, i + 1, T)
  <2>1. PICK k \in 1..(n - 1) : k > i /\ r[k].type \in T  BY <1>2, <1>3 DEF Later
  <2>2. k + 1 \in 1..n /\ k + 1 > i + 1  BY <1>1, <2>1
  <2>3. r[k] = q[k + 1]  BY <1>2
  <2> QED  BY <1>1, <2>1, <2>2, <2>3 DEF Later
<1>4. ASSUME NEW i \in 0..(n - 1), Later(q, i + 1, T) PROVE Later(r, i, T)
  <2>1. PICK k \in 1..n : k > i + 1 /\ q[k].type \in T  BY <1>1, <1>4 DEF Later
  <2>2. k - 1 \in 1..(n - 1) /\ k - 1 > i /\ (k - 1) + 1 = k  BY <1>1, <2>1
  <2>3. r[k - 1] = q[k]  BY <1>2, <2>2
  <2> QED  BY <1>2, <2>1, <2>2, <2>3 DEF Later
<1>5. ASSUME Later(q, 0, T), q[1].type \notin T PROVE Later(q, 1, T)
  <2>1. PICK k \in 1..n : k > 0 /\ q[k].type \in T  BY <1>1, <1>5 DEF Later
  <2>2. k # 1  BY <1>5, <2>1
  <2>3. k > 1  BY <2>1, <2>2
  <2> QED  BY <1>1, <2>1, <2>3 DEF Later
<1>6. ASSUME q[1].type \in T \/ Later(q, 1, T) PROVE Later(q, 0, T)
  <2>1. CASE q[1].type \in T
    <3>1. 1 \in 1..n /\ 1 > 0  BY <1>1
    <3> QED  BY <1>1, <2>1, <3>1 DEF Later
  <2>2. CASE Later(q, 1, T)
    <3>1. PICK k \in 1..n : k > 1 /\ q[k].type \in T  BY <1>1, <2>2 DEF Later
    <3> QED  BY <1>1, <3>1 DEF Later
  <2> QED  BY <1>6, <2>1, <2>2
<1> QED  BY <1>2, <1>3, <1>4, <1>5, <1>6 DEF r

\* The events that remain when the first is handled follow as they did.
LEMMA TailFollows ==
    ASSUME NEW q \in Seq(Events), q # <<>>, NEW h, \A i \in DOMAIN q : EventFollows(h, q, i)
    PROVE  /\ EventFollows(h, q, 1)
           /\ \A i \in DOMAIN Tail(q) : EventFollows(h, Tail(q), i)
           /\ CreatedAfter(Tail(q), 0) <=> CreatedAfter(q, 1)
           /\ EndAfter(Tail(q), 0) <=> EndAfter(q, 1)
           /\ CreatedAfter(q, 0) <=> q[1].type = "AuctionCreated" \/ CreatedAfter(q, 1)
           /\ EndAfter(q, 0) <=> q[1].type \in {"AuctionCreated", "AuctionExtended"} \/ EndAfter(q, 1)
           /\ \A b : Heard(q, b) =>
                Heard(Tail(q), b) \/ (q[1].type = "AuctionBid" /\ q[1].bid = b)
<1> DEFINE r == Tail(q)
<1>1. Len(q) \in Nat \ {0} /\ DOMAIN q = 1..Len(q)  OBVIOUS
<1>2. /\ Len(r) \in Nat /\ DOMAIN r = 1..Len(r) /\ Len(q) = Len(r) + 1
      /\ \A k \in DOMAIN r : r[k] = q[k + 1]
  OBVIOUS
<1>3. \A T : /\ \A i \in 0..Len(r) : Later(r, i, T) <=> Later(q, i + 1, T)
             /\ Later(q, 0, T) <=> q[1].type \in T \/ Later(q, 1, T)
  BY LaterTail
<1> HIDE DEF r
<1>4. EventFollows(h, q, 1)  BY <1>1
<1>5. ASSUME NEW i \in DOMAIN r PROVE EventFollows(h, r, i)
  <2>1. i + 1 \in DOMAIN q /\ i \in 0..Len(r)  BY <1>1, <1>2
  <2>2. EventFollows(h, q, i + 1) /\ r[i] = q[i + 1]  BY <1>2, <2>1
  <2>3. /\ CreatedAfter(r, i) <=> CreatedAfter(q, i + 1)
        /\ EndAfter(r, i) <=> EndAfter(q, i + 1)
    BY <1>3, <2>1 DEF CreatedAfter, EndAfter
  <2> QED  BY <2>2, <2>3 DEF EventFollows
<1>6. /\ CreatedAfter(r, 0) <=> CreatedAfter(q, 1)
      /\ EndAfter(r, 0) <=> EndAfter(q, 1)
      /\ CreatedAfter(q, 0) <=> q[1].type = "AuctionCreated" \/ CreatedAfter(q, 1)
      /\ EndAfter(q, 0) <=> q[1].type \in {"AuctionCreated", "AuctionExtended"} \/ EndAfter(q, 1)
  <2>1. 0 \in 0..Len(r) /\ 0 + 1 = 1  BY <1>2
  <2> QED  BY <1>3, <2>1 DEF CreatedAfter, EndAfter
<1>7. ASSUME NEW b, Heard(q, b), ~(q[1].type = "AuctionBid" /\ q[1].bid = b)
      PROVE  Heard(r, b)
  <2>1. PICK i \in DOMAIN q : q[i].type = "AuctionBid" /\ q[i].bid = b  BY <1>7 DEF Heard
  <2>2. i # 1  BY <1>7, <2>1
  <2>3. i - 1 \in DOMAIN r /\ (i - 1) + 1 = i  BY <1>1, <1>2, <2>2
  <2>4. r[i - 1] = q[i]  BY <1>2, <2>3
  <2> QED  BY <2>1, <2>3, <2>4 DEF Heard
<1> QED  BY <1>4, <1>5, <1>6, <1>7 DEF r

LEMMA HeardConcat ==
    ASSUME NEW q \in Seq(Events), NEW t \in Seq(Events), NEW b, Heard(q, b) \/ Heard(t, b)
    PROVE  Heard(q \o t, b)
<1> DEFINE long == q \o t
<1>1. /\ DOMAIN long = 1..(Len(q) + Len(t)) /\ DOMAIN q = 1..Len(q) /\ DOMAIN t = 1..Len(t)
      /\ Len(q) \in Nat /\ Len(t) \in Nat
      /\ \A i \in DOMAIN q : long[i] = q[i]
      /\ \A j \in DOMAIN t : long[Len(q) + j] = t[j]
  OBVIOUS
<1> HIDE DEF long
<1>2. CASE Heard(q, b)
  <2>1. PICK i \in DOMAIN q : q[i].type = "AuctionBid" /\ q[i].bid = b  BY <1>2 DEF Heard
  <2>2. i \in DOMAIN long /\ long[i] = q[i]  BY <1>1
  <2> QED  BY <2>1, <2>2 DEF Heard, long
<1>3. CASE Heard(t, b)
  <2>1. PICK j \in DOMAIN t : t[j].type = "AuctionBid" /\ t[j].bid = b  BY <1>3 DEF Heard
  <2>2. Len(q) + j \in DOMAIN long /\ long[Len(q) + j] = t[j]  BY <1>1
  <2> QED  BY <2>1, <2>2 DEF Heard, long
<1> QED  BY <1>2, <1>3

\* What the events of a step of the house are, as far as what follows goes.
LEMMA SentFollows ==
    ASSUME TabTyped, NEW events \in Seq(Events), Send(events), Following'
    PROVE  /\ Following /\ socket'.blocks = socket.blocks /\ socket'.pc = "live" /\ socket.pc = "live"
           /\ socket'.from = socket.from
           /\ socket'.inbox = socket.inbox \o events
<1>1. /\ socket'.pc = socket.pc /\ socket'.blocks = socket.blocks /\ socket'.from = socket.from
      /\ IF socket.pc = "live" THEN socket'.inbox = socket.inbox \o events
                               ELSE socket'.inbox = socket.inbox
      /\ socket.pc = "live" \/ socket.pc = "fetch" => socket'.missed = socket.missed
      /\ socket.pc # "live" /\ socket.pc # "fetch" => socket'.missed
  BY SendFacts
<1>2. ~socket'.missed /\ socket'.pc \in {"query", "listen", "live"}  BY DEF Following
<1> QED  BY <1>1, <1>2 DEF Following

\* A bid is heard of after all the rest, and so is the end it leaves.
LEMMA BiddingFollows ==
    ASSUME CoreInv, FollowInv, NEW who \in {Me, Other}, NEW v \in Nat \ {0}, Bidding(who, v),
           UNCHANGED <<store, route>>
    PROVE  FollowInv'
<1> SUFFICES ASSUME Following'
             PROVE  Follows(house', Wanted', socket'.inbox, store', socket'.blocks,
                            socket'.pc \in {"listen", "live"})
  BY DEF FollowInv
<1> DEFINE heard == BidHeard(who, v)
           bid == BidTaken(who, v)
<1>1. Send(heard) /\ heard \in Seq(Events)  BY BiddingKeeps
<1>2. /\ bid \in Bids /\ Logged' \subseteq Logged \cup {bid}
      /\ house'.alp = house.alp /\ house'.end = EndLeft
  BY BiddingFacts DEF CoreInv
<1>2a. bid.alp = house.alp  BY DEF BidTaken
<1>3. /\ DOMAIN heard \in {1..1, 1..2}
      /\ heard[1].type = "AuctionBid" /\ heard[1].bid = bid
      /\ DOMAIN heard = 1..1 => EndLeft = house.end
      /\ DOMAIN heard = 1..2 => /\ heard[2].type = "AuctionExtended"
                                /\ heard[2].alp = house.alp /\ heard[2].end = EndLeft
  BY <1>2, BidHeardFacts DEF CoreInv
<1>4. PICK t \in Seq(Events) : t = heard  BY <1>1
<1>5. PICK q \in Seq(Events) : q = socket.inbox  BY SocketParts DEF CoreInv
<1>6. /\ Following /\ socket'.blocks = socket.blocks /\ socket.pc = "live" /\ socket'.inbox = q \o t
      /\ socket'.from = socket.from
  BY <1>1, <1>4, <1>5, SentFollows DEF CoreInv
<1>7. Follows(house, Wanted, q, store, socket.blocks, TRUE)  BY <1>5, <1>6 DEF FollowInv
<1> HIDE DEF heard, bid
<1>7a. Wanted' \subseteq Wanted \cup {bid}  BY <1>2, <1>6 DEF Wanted
<1> DEFINE long == q \o t
<1>8. Len(q) \in Nat /\ DOMAIN q = 1..Len(q)  OBVIOUS
<1>9. /\ \A i \in DOMAIN q : long[i] = q[i]
      /\ \A j \in DOMAIN t : long[Len(q) + j] = t[j]
      /\ \A i \in DOMAIN long : i \in DOMAIN q \/ \E j \in DOMAIN t : i = Len(q) + j
  BY ConcatElements
<1>10. \A T : /\ \A i \in 0..Len(q) : Later(long, i, T) <=> Later(q, i, T) \/ Later(t, 0, T)
              /\ \A j \in DOMAIN t : Later(long, Len(q) + j, T) <=> Later(t, j, T)
  BY LaterConcat
<1>11. \A i \in DOMAIN t : \/ i = 1 /\ t[i].type = "AuctionBid" /\ t[i].bid = bid
                           \/ /\ i = 2 /\ DOMAIN t = 1..2 /\ t[i].type = "AuctionExtended"
                              /\ t[i].alp = house.alp /\ t[i].end = EndLeft
  <2> SUFFICES ASSUME NEW i \in DOMAIN t
               PROVE  \/ i = 1 /\ t[i].type = "AuctionBid" /\ t[i].bid = bid
                      \/ /\ i = 2 /\ DOMAIN t = 1..2 /\ t[i].type = "AuctionExtended"
                         /\ t[i].alp = house.alp /\ t[i].end = EndLeft
    OBVIOUS
  <2>1. i = 1 \/ (i = 2 /\ DOMAIN t = 1..2)  BY <1>3, <1>4
  <2> QED  BY <1>3, <1>4, <2>1
<1>12. ~CreatedAfter(t, 0) /\ \A j \in DOMAIN t : ~CreatedAfter(t, j)
  BY <1>11 DEF CreatedAfter, Later
<1>13. EndAfter(t, 0) \/ EndLeft = house.end
  <2>1. CASE DOMAIN t = 1..2
    <3>1. 2 \in DOMAIN t /\ 2 > 0 /\ t[2].type = "AuctionExtended"  BY <1>3, <1>4, <2>1
    <3> QED  BY <3>1 DEF EndAfter, Later
  <2>2. CASE DOMAIN t = 1..1  BY <1>3, <1>4, <2>2
  <2> QED  BY <1>3, <1>4, <2>1, <2>2
<1> HIDE DEF long
<1>14. \A i \in 0..Len(q) : /\ CreatedAfter(long, i) <=> CreatedAfter(q, i)
                            /\ EndAfter(long, i) <=> EndAfter(q, i) \/ EndAfter(t, 0)
  BY <1>10, <1>12 DEF CreatedAfter, EndAfter
<1>15. ASSUME NEW i \in DOMAIN long PROVE EventFollows(house', long, i)
  <2>1. CASE i \in DOMAIN q
    <3>1. EventFollows(house, q, i) /\ i \in 0..Len(q)  BY <1>7, <1>8, <2>1 DEF Follows
    <3>2. /\ CreatedAfter(long, i) <=> CreatedAfter(q, i)
          /\ EndAfter(long, i) <=> EndAfter(q, i) \/ EndAfter(t, 0)
      BY <1>14, <3>1
    <3>3. long[i] = q[i]  BY <1>9, <2>1
    <3> QED  BY <1>2, <1>13, <3>1, <3>2, <3>3 DEF EventFollows
  <2>2. CASE \E j \in DOMAIN t : i = Len(q) + j
    <3>1. PICK j \in DOMAIN t : i = Len(q) + j  BY <2>2
    <3>2. long[i] = t[j] /\ ~CreatedAfter(long, i)
      BY <1>9, <1>10, <1>12, <3>1 DEF CreatedAfter
    <3>3. \/ t[j].type = "AuctionBid"
          \/ t[j].type = "AuctionExtended" /\ t[j].alp = house.alp /\ t[j].end = EndLeft
      BY <1>11
    <3> QED  BY <1>2, <3>2, <3>3 DEF EventFollows
  <2> QED  BY <1>9, <2>1, <2>2
<1>16. 0 \in 0..Len(q)  BY <1>8
<1>17. ActiveFollows(house', long, store, socket.blocks)
  BY <1>2, <1>7, <1>13, <1>14, <1>16 DEF Follows, ActiveFollows
<1>18. CreatedAfter(long, 0) \/ HighestShown(store)  BY <1>7, <1>14, <1>16 DEF Follows
<1>18a. 1 \in DOMAIN t /\ t[1].type = "AuctionBid" /\ t[1].bid = bid  BY <1>3, <1>4
<1>18b. Heard(long, bid)
  <2>1. Heard(t, bid)  BY <1>18a DEF Heard
  <2> QED  BY <2>1, HeardConcat DEF long
<1>18c. Lead(house', long, store, socket.blocks)  BY <1>2, <1>2a, <1>18b DEF Lead, Coming
<1>19. NoneLost(house', Wanted', long, store, socket.blocks)
  <2> SUFFICES ASSUME NEW b \in Wanted', b.alp = house'.alp
               PROVE  Listed(store, b) \/ b \in socket.blocks \/ Heard(long, b)
    BY DEF NoneLost
  <2>1. CASE b \in Wanted
    <3>1. Listed(store, b) \/ b \in socket.blocks \/ Heard(q, b)
      BY <1>2, <1>7, <2>1 DEF Follows, NoneLost
    <3> QED  BY <3>1, HeardConcat DEF long
  <2>2. CASE b = bid  BY <1>18b, <2>2
  <2> QED  BY <1>7a, <2>1, <2>2
<1>20. /\ Follows(house', Wanted', long, store, socket.blocks, TRUE)
       /\ socket'.inbox = long /\ store' = store /\ socket'.blocks = socket.blocks
  BY <1>6, <1>7, <1>15, <1>17, <1>18, <1>18c, <1>19 DEF Follows, long
<1> QED  BY <1>20 DEF Follows

\* The new auction is heard of last, so that whatever was on its way is for an earlier one.
LEMMA SettlingFollows ==
    ASSUME CoreInv, FollowInv, SettlingAndCreating, UNCHANGED <<store, route>>
    PROVE  FollowInv'
<1> SUFFICES ASSUME Following'
             PROVE  Follows(house', Wanted', socket'.inbox, store', socket'.blocks,
                            socket'.pc \in {"listen", "live"})
  BY DEF FollowInv
<1>1. Send(SettleHeard) /\ SettleHeard \in Seq(Events) /\ CoreInv'  BY SettlingKeeps
<1>2. Logged' = Logged /\ house.alp < house'.alp /\ ChainTyped' /\ house'.amount = 0
  BY SettlingFacts DEF CoreInv
<1>3. house'.alp \in Nat /\ house'.end \in Nat  BY <1>2 DEF ChainTyped, Auctions
<1>4. PICK t \in Seq(Events) : t = SettleHeard  BY <1>1
<1>5. /\ DOMAIN t = 1..2 /\ t[1].type = "AuctionSettled"
      /\ t[2].type = "AuctionCreated" /\ t[2].auction = house'
  BY <1>2, <1>4, SettleHeardFacts DEF CoreInv
<1>6. PICK q \in Seq(Events) : q = socket.inbox  BY SocketParts DEF CoreInv
<1>7. Following /\ socket'.blocks = socket.blocks /\ socket.pc = "live" /\ socket'.inbox = q \o t
  BY <1>1, <1>4, <1>6, SentFollows DEF CoreInv
<1>8. Follows(house, Wanted, q, store, socket.blocks, TRUE)  BY <1>6, <1>7 DEF FollowInv
<1> DEFINE long == q \o t
<1>9. Len(q) \in Nat /\ DOMAIN q = 1..Len(q)  OBVIOUS
<1>10. /\ \A i \in DOMAIN q : long[i] = q[i]
       /\ \A j \in DOMAIN t : long[Len(q) + j] = t[j]
       /\ \A i \in DOMAIN long : i \in DOMAIN q \/ \E j \in DOMAIN t : i = Len(q) + j
  BY ConcatElements
<1>11. \A T : /\ \A i \in 0..Len(q) : Later(long, i, T) <=> Later(q, i, T) \/ Later(t, 0, T)
              /\ \A j \in DOMAIN t : Later(long, Len(q) + j, T) <=> Later(t, j, T)
  BY LaterConcat
<1> HIDE DEF long
<1>12. CreatedAfter(t, 0) /\ CreatedAfter(t, 1) /\ EndAfter(t, 0) /\ ~CreatedAfter(t, 2)
  <2>1. 2 \in DOMAIN t /\ 2 > 0 /\ 2 > 1 /\ \A j \in DOMAIN t : ~(j > 2)  BY <1>5
  <2> QED  BY <1>5, <2>1 DEF CreatedAfter, EndAfter, Later
<1>13. \A i \in 0..Len(q) : CreatedAfter(long, i) /\ EndAfter(long, i)
  BY <1>11, <1>12 DEF CreatedAfter, EndAfter
<1>14. \A b \in Logged : b.alp \in Nat /\ b.alp <= house.alp /\ b.alp < house'.alp
  BY <1>2, <1>3, LoggedAlps
<1>15. house.alp \in Nat  BY LoggedAlps
<1>16. ASSUME NEW i \in DOMAIN long PROVE EventFollows(house', long, i)
  <2>1. CASE i \in DOMAIN q
    <3>1. /\ EventFollows(house, q, i) /\ CreatedAfter(long, i) /\ EndAfter(long, i) /\ long[i] = q[i]
      BY <1>8, <1>9, <1>10, <1>13, <2>1 DEF Follows
    <3>2. PICK e \in Events : e = q[i]  BY <2>1
    <3>3. EventLogged(Logged, e)  BY <1>6, <2>1, <3>2 DEF CoreInv, SocketInv
    <3>4. e.type = "AuctionCreated" => e.auction.alp < house'.alp
      <4> SUFFICES ASSUME e.type = "AuctionCreated" PROVE e.auction.alp < house'.alp
        OBVIOUS
      <4>1. e.auction.alp \in Nat  BY EventParts
      <4>2. e.auction.alp < house.alp \/ e.auction.alp = house.alp
        BY <3>1, <3>2 DEF EventFollows
      <4> QED  BY <1>2, <1>3, <1>15, <4>1, <4>2
    <3>5. e.type = "AuctionExtended" => e.alp < house'.alp
      <4> SUFFICES ASSUME e.type = "AuctionExtended" PROVE e.alp < house'.alp
        OBVIOUS
      <4>1. e.alp \in Nat  BY EventParts
      <4>2. e.alp < house.alp \/ e.alp = house.alp  BY <3>1, <3>2 DEF EventFollows
      <4> QED  BY <1>2, <1>3, <1>15, <4>1, <4>2
    <3>6. e.type = "AuctionBid" => e.bid.alp < house'.alp  BY <1>14, <3>3 DEF EventLogged
    <3> QED  BY <3>1, <3>2, <3>4, <3>5, <3>6 DEF EventFollows
  <2>2. CASE \E j \in DOMAIN t : i = Len(q) + j
    <3>1. PICK j \in DOMAIN t : i = Len(q) + j  BY <2>2
    <3>2. long[i] = t[j] /\ (CreatedAfter(long, i) <=> CreatedAfter(t, j))
      BY <1>10, <1>11, <3>1 DEF CreatedAfter
    <3>3. j = 1 \/ j = 2  BY <1>5
    <3>4. CASE j = 1  BY <1>5, <1>12, <3>2, <3>4 DEF EventFollows
    <3>5. CASE j = 2
      <4>1. long[i].type = "AuctionCreated" /\ long[i].auction = house' /\ ~CreatedAfter(long, i)
        BY <1>5, <1>12, <3>2, <3>5
      <4> QED  BY <4>1 DEF EventFollows
    <3> QED  BY <3>3, <3>4, <3>5
  <2> QED  BY <1>10, <2>1, <2>2
<1>17. CreatedAfter(long, 0) /\ EndAfter(long, 0)  BY <1>9, <1>13
<1>18. store.active # None /\ store.active.alp < house'.alp
  <2>1. store.active # None /\ (store.active.alp < house.alp \/ store.active.alp = house.alp)
    BY <1>8 DEF Follows, ActiveFollows
  <2>2. store.active.alp \in Nat  BY <2>1, StoreParts DEF CoreInv, StoreInv
  <2> QED  BY <1>2, <1>3, <1>15, <2>1, <2>2
<1>19. \A b \in socket.blocks : b.alp < house'.alp  BY <1>14 DEF CoreInv, SocketInv
<1>20. ActiveFollows(house', long, store, socket.blocks)
  BY <1>17, <1>18, <1>19 DEF ActiveFollows
<1>21. NoneLost(house', Wanted', long, store, socket.blocks)
  <2>1. \A b \in Logged : b.alp # house'.alp
    <3> SUFFICES ASSUME NEW b \in Logged PROVE b.alp # house'.alp
      OBVIOUS
    <3>1. b.alp \in Nat /\ b.alp < house'.alp  BY <1>14
    <3> QED  BY <1>3, <3>1
  <2>2. Wanted' \subseteq Logged  BY <1>2 DEF Wanted
  <2> QED  BY <2>1, <2>2 DEF NoneLost
<1>21a. Lead(house', long, store, socket.blocks)  BY <1>2, <1>17 DEF Lead
<1>22. /\ Follows(house', Wanted', long, store, socket.blocks, TRUE)
       /\ socket'.inbox = long /\ store' = store /\ socket'.blocks = socket.blocks
  BY <1>7, <1>16, <1>17, <1>18, <1>20, <1>21, <1>21a DEF Follows, long
<1> QED  BY <1>22 DEF Follows

\* What is on display makes no difference to what follows.
LEMMA FollowsSame ==
    ASSUME NEW h, NEW L, NEW q, NEW B, NEW asked, NEW s, NEW t,
           Follows(h, L, q, s, B, asked), t.active = s.active, t.bids = s.bids
    PROVE  Follows(h, L, q, t, B, asked)
<1>1. \A b : Listed(t, b) <=> Listed(s, b)  BY DEF Listed
<1>2. HighestShown(s) => HighestShown(t)  BY DEF HighestShown
<1>3. asked => NoneLost(h, L, q, t, B)  BY <1>1 DEF Follows, NoneLost
<1>4. Lead(h, q, t, B)  BY DEF Follows, Lead, SameLead
<1> QED  BY <1>2, <1>3, <1>4 DEF Follows, ActiveFollows

\* A bid leaves the inbox for the blocks.
LEMMA BidFollows ==
    ASSUME NEW q \in Seq(Events), q # <<>>, NEW h, NEW L, NEW s, NEW B,
           Follows(h, L, q, s, B, TRUE), q[1].type = "AuctionBid"
    PROVE  Follows(h, L, Tail(q), s, B \cup {q[1].bid}, TRUE)
<1> DEFINE r == Tail(q)
           C == B \cup {q[1].bid}
<1>1. /\ EventFollows(h, q, 1)
      /\ \A i \in DOMAIN r : EventFollows(h, r, i)
      /\ CreatedAfter(r, 0) <=> CreatedAfter(q, 1)
      /\ EndAfter(r, 0) <=> EndAfter(q, 1)
      /\ CreatedAfter(q, 0) <=> q[1].type = "AuctionCreated" \/ CreatedAfter(q, 1)
      /\ EndAfter(q, 0) <=> q[1].type \in {"AuctionCreated", "AuctionExtended"} \/ EndAfter(q, 1)
      /\ \A b : Heard(q, b) => Heard(r, b) \/ (q[1].type = "AuctionBid" /\ q[1].bid = b)
  BY TailFollows DEF Follows
<1> HIDE DEF r
<1>2. (CreatedAfter(r, 0) <=> CreatedAfter(q, 0)) /\ (EndAfter(r, 0) <=> EndAfter(q, 0))  BY <1>1
<1>3. CreatedAfter(r, 0) => q[1].bid.alp < h.alp  BY <1>1 DEF EventFollows
<1>4. ActiveFollows(h, r, s, C)  BY <1>2, <1>3 DEF Follows, ActiveFollows
<1>5. NoneLost(h, L, r, s, C)  BY <1>1 DEF Follows, NoneLost
<1>6. Coming(h, q, B) => Coming(h, r, C)  BY <1>1 DEF Coming
<1>7. Lead(h, r, s, C)  BY <1>2, <1>6 DEF Follows, Lead
<1> QED  BY <1>1, <1>2, <1>4, <1>5, <1>7 DEF Follows, r

\* A new auction starts afresh: what was listed was for an earlier one.
LEMMA CreatedFollows ==
    ASSUME NEW q \in Seq(Events), q # <<>>, NEW h \in Auctions, NEW L, NEW M, NEW s, StoreInv(M, s),
           NEW t, NEW B,
           Follows(h, L, q, s, B, TRUE), q[1].type = "AuctionCreated",
           t.active # None, t.active.alp = q[1].auction.alp, t.active.end = q[1].auction.end,
           t.bids = <<>>, t.active.amount = 0
    PROVE  Follows(h, L, Tail(q), t, B, TRUE)
<1> DEFINE r == Tail(q)
<1>1. /\ EventFollows(h, q, 1)
      /\ \A i \in DOMAIN r : EventFollows(h, r, i)
      /\ CreatedAfter(r, 0) <=> CreatedAfter(q, 1)
      /\ EndAfter(r, 0) <=> EndAfter(q, 1)
      /\ CreatedAfter(q, 0) <=> q[1].type = "AuctionCreated" \/ CreatedAfter(q, 1)
      /\ \A b : Heard(q, b) => Heard(r, b) \/ (q[1].type = "AuctionBid" /\ q[1].bid = b)
  BY TailFollows DEF Follows
<1> HIDE DEF r
<1>2. CreatedAfter(q, 0)  BY <1>1
<1>3. s.active # None /\ s.active.alp < h.alp /\ \A b \in B : b.alp < h.alp
  BY <1>2 DEF Follows, ActiveFollows
<1>4. ActiveFollows(h, r, t, B)
  <2>1. IF CreatedAfter(r, 0) THEN t.active.alp < h.alp ELSE t.active.alp = h.alp
    BY <1>1 DEF EventFollows
  <2>2. EndAfter(r, 0) \/ t.active.end = h.end  BY <1>1 DEF EventFollows
  <2> QED  BY <1>3, <2>1, <2>2 DEF ActiveFollows
<1>5. HighestShown(t)  BY DEF HighestShown
<1>6. NoneLost(h, L, r, t, B)
  <2> SUFFICES ASSUME NEW b \in L, b.alp = h.alp PROVE Listed(t, b) \/ b \in B \/ Heard(r, b)
    BY DEF NoneLost
  <2>1. Listed(s, b) \/ b \in B \/ Heard(q, b)  BY DEF Follows, NoneLost
  <2>2. ~Listed(s, b)
    <3>1. Listed(s, b) => b.alp = s.active.alp  BY DEF Listed, StoreInv
    <3>2. s.active.alp \in Nat /\ h.alp \in Nat  BY <1>3, StoreParts DEF StoreInv, Auctions
    <3>3. s.active.alp # h.alp  BY <1>3, <3>2
    <3> QED  BY <3>1, <3>3
  <2> QED  BY <1>1, <2>1, <2>2
<1>7. Lead(h, r, t, B)
  <2>1. Coming(h, q, B) \/ h.amount = 0  BY <1>2 DEF Follows, Lead
  <2>2. Coming(h, q, B) => Coming(h, r, B)  BY <1>1 DEF Coming
  <2> QED  BY <2>1, <2>2 DEF Lead, SameLead
<1> QED  BY <1>1, <1>4, <1>5, <1>6, <1>7 DEF Follows, r

\* An extension gives the active auction the house's end when it is the last one announced.
LEMMA ExtendedFollows ==
    ASSUME NEW q \in Seq(Events), q # <<>>, NEW h, NEW L, NEW s \in Stores, NEW t, NEW B,
           Follows(h, L, q, s, B, TRUE), q[1].type = "AuctionExtended",
           q[1].end \in Nat,
           t = IF s.active # None /\ s.active.alp = q[1].alp
               THEN [s EXCEPT !.active.end = q[1].end] ELSE s
    PROVE  Follows(h, L, Tail(q), t, B, TRUE)
<1> DEFINE r == Tail(q)
<1>1. /\ EventFollows(h, q, 1)
      /\ \A i \in DOMAIN r : EventFollows(h, r, i)
      /\ CreatedAfter(r, 0) <=> CreatedAfter(q, 1)
      /\ EndAfter(r, 0) <=> EndAfter(q, 1)
      /\ CreatedAfter(q, 0) <=> q[1].type = "AuctionCreated" \/ CreatedAfter(q, 1)
      /\ \A b : Heard(q, b) => Heard(r, b) \/ (q[1].type = "AuctionBid" /\ q[1].bid = b)
  BY TailFollows DEF Follows
<1> HIDE DEF r
<1>2. s.active # None /\ s.active \in Auctions  BY StoreParts DEF Follows
<1> DEFINE a == [s.active EXCEPT !.end = q[1].end]
<1>3. /\ a \in Auctions /\ a.alp = s.active.alp /\ a.amount = s.active.amount
      /\ a.bidder = s.active.bidder /\ a.end = q[1].end
  BY <1>2 DEF Auctions
<1>4. \/ t = s /\ s.active.alp # q[1].alp
      \/ t.active = a /\ t.bids = s.bids
  BY <1>2 DEF Stores
<1> HIDE DEF a
<1>5. /\ t.active # None /\ t.bids = s.bids
      /\ t.active.alp = s.active.alp /\ t.active.amount = s.active.amount
      /\ t.active.bidder = s.active.bidder
      /\ t = s \/ t.active.end = q[1].end
      /\ s.active.alp = q[1].alp => t.active.end = q[1].end
  BY <1>2, <1>3, <1>4, NoneAssumption
<1>6. CreatedAfter(r, 0) <=> CreatedAfter(q, 0)  BY <1>1
<1>7. EndAfter(r, 0) \/ t.active.end = h.end
  <2>1. CASE EndAfter(q, 1)  BY <1>1, <2>1
  <2>2. CASE ~EndAfter(q, 1)
    <3>1. ~CreatedAfter(q, 1)  BY <2>2 DEF EndAfter, CreatedAfter, Later
    <3>2. q[1].alp = h.alp /\ q[1].end = h.end  BY <1>1, <2>2, <3>1 DEF EventFollows
    <3>3. s.active.alp = h.alp  BY <1>1, <1>6, <3>1 DEF Follows, ActiveFollows
    <3> QED  BY <1>5, <3>2, <3>3
  <2> QED  BY <2>1, <2>2
<1>8. ActiveFollows(h, r, t, B)  BY <1>5, <1>6, <1>7 DEF Follows, ActiveFollows
<1>9. HighestShown(s) => HighestShown(t)  BY <1>5 DEF HighestShown
<1>10. NoneLost(h, L, r, t, B)
  <2>1. \A b : Listed(t, b) <=> Listed(s, b)  BY <1>5 DEF Listed
  <2> QED  BY <1>1, <2>1 DEF Follows, NoneLost
<1>11. Lead(h, r, t, B)
  <2>1. Coming(h, q, B) => Coming(h, r, B)  BY <1>1 DEF Coming
  <2>2. SameLead(h, s) => SameLead(h, t)  BY <1>5 DEF SameLead
  <2> QED  BY <1>5, <1>6, <2>1, <2>2 DEF Follows, Lead
<1> QED  BY <1>1, <1>5, <1>6, <1>8, <1>9, <1>10, <1>11 DEF Follows, r

\* A settlement is followed by a new auction, whatever it says of this one.
LEMMA SettledFollows ==
    ASSUME NEW q \in Seq(Events), q # <<>>, NEW h, NEW L, NEW s, NEW t, NEW B,
           Follows(h, L, q, s, B, TRUE), q[1].type = "AuctionSettled",
           t.active # None, t.active.alp = s.active.alp, t.active.end = s.active.end, t.bids = s.bids
    PROVE  Follows(h, L, Tail(q), t, B, TRUE)
<1> DEFINE r == Tail(q)
<1>1. /\ EventFollows(h, q, 1)
      /\ \A i \in DOMAIN r : EventFollows(h, r, i)
      /\ CreatedAfter(r, 0) <=> CreatedAfter(q, 1)
      /\ EndAfter(r, 0) <=> EndAfter(q, 1)
      /\ CreatedAfter(q, 0) <=> q[1].type = "AuctionCreated" \/ CreatedAfter(q, 1)
      /\ EndAfter(q, 0) <=> q[1].type \in {"AuctionCreated", "AuctionExtended"} \/ EndAfter(q, 1)
      /\ \A b : Heard(q, b) => Heard(r, b) \/ (q[1].type = "AuctionBid" /\ q[1].bid = b)
  BY TailFollows DEF Follows
<1> HIDE DEF r
<1>2. CreatedAfter(r, 0) /\ CreatedAfter(q, 0)  BY <1>1 DEF EventFollows
<1>3. EndAfter(r, 0) <=> EndAfter(q, 0)  BY <1>1
<1>4. ActiveFollows(h, r, t, B)  BY <1>2, <1>3 DEF Follows, ActiveFollows
<1>5. NoneLost(h, L, r, t, B)
  <2>1. \A b : Listed(t, b) <=> Listed(s, b)  BY DEF Listed
  <2> QED  BY <1>1, <2>1 DEF Follows, NoneLost
<1>6. Lead(h, r, t, B)
  <2>1. Coming(h, q, B) => Coming(h, r, B)  BY <1>1 DEF Coming
  <2> QED  BY <1>2, <2>1 DEF Follows, Lead
<1> QED  BY <1>1, <1>2, <1>4, <1>5, <1>6 DEF Follows, r

\* A bid whose block is fetched is listed, unless it is already or is for another Alp.
LEMMA BlockFollows ==
    ASSUME CoreInv, NEW q, NEW bid \in socket.blocks, NEW asked,
           Follows(house, Wanted, q, store, socket.blocks, asked)
    PROVE  Follows(house, Wanted, q, appendBid(store, bid), socket.blocks \ {bid}, asked)
<1> DEFINE t == appendBid(store, bid)
           B == socket.blocks \ {bid}
           skipped == ~auctionsEqual(store, bid.alp) \/ containsBid(store.bids, bid)
<1>1. StoreInv(Logged, store) /\ bid \in Logged /\ bid \in Bids /\ store \in Stores
  BY SocketParts DEF CoreInv, SocketInv, StoreInv
<1>2. /\ skipped => t = store
      /\ ~skipped =>
           /\ t.bids = <<bid>> \o store.bids /\ t.active \in Auctions
           /\ t.active.alp = store.active.alp /\ t.active.end = store.active.end
           /\ t.active.amount = maxBid(t.bids).value
           /\ t.active.bidder = maxBid(t.bids).sender
  BY <1>1, AppendKeeps
<1>3. store.active # None  BY DEF Follows
<1>4. CASE skipped
  <2>1. t = store  BY <1>2, <1>4
  <2>2. bid.alp = house.alp => Listed(store, bid)
    <3> SUFFICES ASSUME bid.alp = house.alp PROVE Listed(store, bid)
      OBVIOUS
    <3>1. CASE ~auctionsEqual(store, bid.alp)
      <4>1. store.active.alp # house.alp  BY <1>3, <3>1 DEF auctionsEqual
      <4>2. CreatedAfter(q, 0)  BY <4>1 DEF Follows, ActiveFollows
      <4>3. bid.alp < house.alp  BY <4>2 DEF Follows, ActiveFollows
      <4>4. house.alp \in Nat  BY LoggedAlps
      <4> QED  BY <4>3, <4>4
    <3>2. CASE containsBid(store.bids, bid)
      <4>1. PICK i \in DOMAIN store.bids : store.bids[i].tx = bid.tx  BY <3>2 DEF containsBid
      <4>2. store.bids[i] \in Logged  BY <1>1 DEF StoreInv
      <4>3. PICK j \in DOMAIN bidLog : store.bids[i] = bidLog[j]  BY <4>2 DEF Logged
      <4>4. PICK k \in DOMAIN bidLog : bid = bidLog[k]  BY <1>1 DEF Logged
      <4>5. bidLog[j].tx = j /\ bidLog[k].tx = k  BY DEF CoreInv, LogInv
      <4>6. store.bids[i] = bid  BY <4>1, <4>3, <4>4, <4>5
      <4> QED  BY <4>6 DEF Listed
    <3> QED  BY <1>4, <3>1, <3>2
  <2> HIDE DEF t
  <2>3. asked => NoneLost(house, Wanted, q, store, B)  BY <2>2 DEF Follows, NoneLost
  <2>4. ActiveFollows(house, q, store, B)  BY DEF Follows, ActiveFollows
  <2>5. Lead(house, q, store, B)
    <3>1. Coming(house, q, socket.blocks) => Coming(house, q, B) \/ bid.alp = house.alp
      BY DEF Coming
    <3>2. CASE bid.alp = house.alp
      <4>1. store.bids # <<>>  BY <2>2, <3>2 DEF Listed
      <4>2. ~CreatedAfter(q, 0)
        <5>1. bid.alp \in Nat  BY <1>1 DEF Bids
        <5> QED  BY <3>2, <5>1 DEF Follows, ActiveFollows
      <4> QED  BY <4>1, <4>2 DEF Lead
    <3>3. CASE bid.alp # house.alp  BY <3>1, <3>3 DEF Follows, Lead
    <3> QED  BY <3>2, <3>3
  <2> QED  BY <2>1, <2>3, <2>4, <2>5 DEF Follows, t
<1>5. CASE ~skipped
  <2>1. /\ t.bids = <<bid>> \o store.bids /\ t.active \in Auctions
        /\ t.active.alp = store.active.alp /\ t.active.end = store.active.end
        /\ t.active.amount = maxBid(t.bids).value
        /\ t.active.bidder = maxBid(t.bids).sender
    BY <1>2, <1>5
  <2> HIDE DEF t, skipped
  <2>2. \A b : Listed(store, b) \/ b = bid => Listed(t, b)
    <3>1. PICK old \in Seq(Bids) : old = store.bids  BY <1>1, StoreParts
    <3> DEFINE long == <<bid>> \o old
    <3>2. <<bid>> \in Seq(Bids) /\ Len(<<bid>>) = 1 /\ DOMAIN <<bid>> = 1..1 /\ <<bid>>[1] = bid
      BY <1>1
    <3>3. DOMAIN long = 1..(1 + Len(old)) /\ long[1] = bid
          /\ \A i \in DOMAIN old : long[1 + i] = old[i]
      BY <1>1
    <3> HIDE DEF long
    <3>4. 1 \in DOMAIN long /\ \A i \in DOMAIN old : 1 + i \in DOMAIN long
      BY <3>3
    <3>5. t.bids = long  BY <2>1, <3>1 DEF long
    <3> QED  BY <3>1, <3>3, <3>4, <3>5 DEF Listed
  <2>3. t.active # None  BY <2>1, NoneAssumption
  <2>4. HighestShown(t)  BY <2>1 DEF HighestShown
  <2>5. ActiveFollows(house, q, t, B)  BY <2>1 DEF Follows, ActiveFollows
  <2>6. asked => NoneLost(house, Wanted, q, t, B)  BY <2>2 DEF Follows, NoneLost
  <2>7. Lead(house, q, t, B)
    <3>1. t.bids # <<>>  BY <2>2 DEF Listed
    <3>2. ASSUME CreatedAfter(q, 0) PROVE Coming(house, q, B) \/ house.amount = 0
      <4>1. bid.alp \in Nat /\ bid.alp < house.alp  BY <1>1, <3>2 DEF Follows, ActiveFollows, Bids
      <4>2. bid.alp # house.alp  BY <4>1
      <4> QED  BY <3>2, <4>2 DEF Follows, Lead, Coming
    <3> QED  BY <3>1, <3>2 DEF Lead
  <2> QED  BY <2>3, <2>4, <2>5, <2>6, <2>7 DEF Follows, t
<1> QED  BY <1>4, <1>5

\* The auction that is fetched is the house's.
LEMMA FetchFollows ==
    ASSUME CoreInv, socket.pc = "fetch", NEW s, s.active = house, s.bids = <<>>
    PROVE  Follows(house, Wanted, <<>>, s, {}, FALSE)
<1>1. house # None  BY LoggedAlps, NoneAssumption
<1>2. ~CreatedAfter(<<>>, 0)  BY DEF CreatedAfter, Later
<1>3. Lead(house, <<>>, s, {})  BY <1>2 DEF Lead, SameLead
<1> QED  BY <1>1, <1>2, <1>3 DEF Follows, ActiveFollows, HighestShown

\* An event that is handled.
LEMMA ReceiveFollows ==
    ASSUME CoreInv, FollowInv, Receive
    PROVE  FollowInv'
<1> SUFFICES ASSUME Following'
             PROVE  Follows(house', Wanted', socket'.inbox, store', socket'.blocks,
                            socket'.pc \in {"listen", "live"})
  BY DEF FollowInv
<1> DEFINE event == Head(socket.inbox)
           rest == [socket EXCEPT !.inbox = Tail(@)]
<1>1. /\ socket.pc = "live" /\ event \in Events
      /\ event = socket.inbox[1]
      /\ rest \in Sockets /\ rest.pc = "live" /\ rest.blocks = socket.blocks
      /\ rest.missed = socket.missed /\ rest.inbox = Tail(socket.inbox)
      /\ rest.from = socket.from
  BY ReceiveFacts DEF Receive
<1>2. PICK q \in Seq(Events) : q = socket.inbox  BY SocketParts DEF CoreInv
<1>3. q # <<>> /\ UNCHANGED chain  BY <1>2 DEF Receive
<1>5. StoreInv(Logged, store) /\ store \in Stores /\ route \in Int \cup {None}
  BY DEF CoreInv, StoreInv, TabTyped
<1> HIDE DEF event, rest
<1>6. \/ socket' = rest
      \/ socket' = [rest EXCEPT !.blocks = @ \cup {event.bid}]
  BY DEF Receive, event, rest
<1>7. /\ socket'.pc = "live" /\ socket'.missed = socket.missed /\ socket'.inbox = Tail(q)
      /\ socket'.from = socket.from
  BY <1>1, <1>2, <1>6 DEF Sockets
<1>4. house' = house /\ Wanted' = Wanted  BY <1>3, <1>7 DEF chain, Logged, Wanted
<1>8. Following  BY <1>1, <1>7 DEF Following
<1>9. Follows(house, Wanted, q, store, socket.blocks, TRUE)
  BY <1>1, <1>2, <1>8 DEF FollowInv
<1>10. event = q[1]  BY <1>1, <1>2
<1>11. ASSUME NEW s, StoreInv(Logged, s), Rendered(s, route), socket' = rest,
              Follows(house, Wanted, Tail(q), s, socket.blocks, TRUE)
       PROVE  Follows(house', Wanted', socket'.inbox, store', socket'.blocks, TRUE)
  <2>1. store'.active = s.active /\ store'.bids = s.bids  BY <1>5, <1>11, RenderKeeps
  <2>2. Follows(house, Wanted, Tail(q), store', socket.blocks, TRUE)
    BY <1>11, <2>1, FollowsSame
  <2> QED  BY <1>1, <1>4, <1>7, <1>11, <2>2
<1>12. CASE /\ event.type = "AuctionBid"
            /\ socket' = [rest EXCEPT !.blocks = @ \cup {event.bid}]
            /\ UNCHANGED page
  <2>1. socket'.blocks = socket.blocks \cup {event.bid} /\ store' = store
    BY <1>1, <1>12 DEF Sockets, page
  <2>2. Follows(house, Wanted, Tail(q), store, socket.blocks \cup {q[1].bid}, TRUE)
    BY <1>3, <1>9, <1>10, <1>12, BidFollows
  <2> QED  BY <1>4, <1>7, <1>10, <2>1, <2>2 DEF Follows
<1>13. CASE /\ event.type = "AuctionCreated" /\ socket' = rest
            /\ LET alp == event.auction.alp
                   new == reduxSafeNewAuction(alp, event.auction.start, event.auction.end)
                   s == setOnDisplayAuctionAlpId(setActiveAuction(store, new), alp)
               IN Rendered(setLastAuctionAlpId(s, alp), route)
  <2>1. event.auction.alp \in Nat /\ event.auction.start \in Nat /\ event.auction.end \in Nat
    BY <1>1, <1>13, EventParts
  <2> DEFINE new == reduxSafeNewAuction(event.auction.alp, event.auction.start, event.auction.end)
           s == setLastAuctionAlpId(setOnDisplayAuctionAlpId(setActiveAuction(store, new),
                                                             event.auction.alp), event.auction.alp)
  <2>2. StoreInv(Logged, s) /\ s.active = new /\ s.bids = <<>>
    <3>1. PICK alp \in Nat, start \in Nat, end \in Nat :
            alp = event.auction.alp /\ start = event.auction.start /\ end = event.auction.end
      BY <2>1
    <3> DEFINE n == reduxSafeNewAuction(alp, start, end)
               t == setLastAuctionAlpId(setOnDisplayAuctionAlpId(setActiveAuction(store, n), alp), alp)
    <3>2. StoreInv(Logged, t) /\ t.active = n /\ t.bids = <<>>  BY <1>5, CreatedKeeps
    <3> QED  BY <3>1, <3>2
  <2>3. Rendered(s, route)  BY <1>13
  <2>4. /\ new \in Auctions /\ new.alp = event.auction.alp /\ new.end = event.auction.end
        /\ new.amount = 0
    BY <2>1 DEF reduxSafeNewAuction, Auctions
  <2> HIDE DEF new, s
  <2>5. new # None  BY <2>4, NoneAssumption
  <2>6. house \in Auctions  BY LoggedAlps
  <2>7. Follows(house, Wanted, Tail(q), s, socket.blocks, TRUE)
    BY <1>3, <1>5, <1>9, <1>10, <1>13, <2>2, <2>4, <2>5, <2>6, CreatedFollows
  <2> QED  BY <1>7, <1>11, <1>13, <2>2, <2>7, <2>3 DEF Follows
<1>14. CASE /\ event.type = "AuctionExtended" /\ socket' = rest
            /\ Rendered(setAuctionExtended(store, event.alp, event.end), route)
  <2>1. event.end \in Nat  BY <1>1, <1>14, EventParts
  <2> DEFINE s == setAuctionExtended(store, event.alp, event.end)
  <2>2. /\ StoreInv(Logged, s)
        /\ s = IF store.active # None /\ store.active.alp = event.alp
               THEN [store EXCEPT !.active.end = event.end] ELSE store
    BY <1>5, <2>1, ExtendedKeeps
  <2> HIDE DEF s
  <2>3. Follows(house, Wanted, Tail(q), s, socket.blocks, TRUE)
    BY <1>3, <1>5, <1>9, <1>10, <1>14, <2>1, <2>2, ExtendedFollows
  <2>4. Rendered(s, route)  BY <1>14 DEF s
  <2> QED  BY <1>7, <1>11, <1>14, <2>2, <2>3, <2>4 DEF Follows
<1>15. CASE /\ event.type = "AuctionSettled" /\ socket' = rest
            /\ Rendered(setAuctionSettled(store, event.alp, event.winner, event.amount), route)
  <2>1. /\ event.winner \in {Me, Other, NoBidder, ""} /\ event.amount \in Nat
        /\ BidLogged(Logged, event.alp, event.amount)
    <3>1. EventLogged(Logged, event)  BY ReceiveFacts DEF Receive, event
    <3> QED  BY <1>1, <1>15, <3>1, EventParts DEF EventLogged
  <2> DEFINE s == setAuctionSettled(store, event.alp, event.winner, event.amount)
  <2>2. StoreInv(Logged, s)  BY <1>5, <2>1, SettledKeeps
  <2>3. store.active # None /\ store.active \in Auctions  BY <1>5, <1>9, StoreParts DEF Follows
  <2>4. s.active.alp = store.active.alp /\ s.active.end = store.active.end /\ s.bids = store.bids
    BY <1>5, <2>3 DEF setAuctionSettled, Stores, Auctions
  <2> HIDE DEF s
  <2>5. s.active # None
    <3>1. s.last = store.last  BY <1>5, <2>3 DEF s, setAuctionSettled, Stores
    <3>2. store.last \in Nat /\ None \notin Int
      BY <1>5, <2>3, StoreParts, NoneAssumption DEF StoreInv, Auctions
    <3>3. s.last # None  BY <3>1, <3>2
    <3> QED  BY <2>2, <3>3 DEF StoreInv
  <2>6. Follows(house, Wanted, Tail(q), s, socket.blocks, TRUE)
    BY <1>3, <1>9, <1>10, <1>15, <2>4, <2>5, SettledFollows
  <2>7. Rendered(s, route)  BY <1>15 DEF s
  <2> QED  BY <1>7, <1>11, <1>15, <2>2, <2>6, <2>7 DEF Follows
<1> QED  BY <1>12, <1>13, <1>14, <1>15 DEF Receive, event, rest

\* A render of the same auction while chain and socket stay.
LEMMA OpenedFollows ==
    ASSUME CoreInv, FollowInv, NEW s, StoreInv(Logged, s), NEW r \in Int \cup {None}, Rendered(s, r),
           UNCHANGED <<chain, socket>>, s.active = store.active, s.bids = store.bids
    PROVE  FollowInv'
<1> SUFFICES ASSUME Following'
             PROVE  Follows(house', Wanted', socket'.inbox, store', socket'.blocks,
                            socket'.pc \in {"listen", "live"})
  BY DEF FollowInv
<1>1. store'.active = store.active /\ store'.bids = store.bids  BY RenderKeeps
<1>2. Following /\ house' = house /\ Wanted' = Wanted /\ socket' = socket
  BY DEF Following, chain, Logged, Wanted
<1>3. Follows(house, Wanted, socket.inbox, store, socket.blocks, socket.pc \in {"listen", "live"})
  BY <1>2 DEF FollowInv
<1> DEFINE asked == socket.pc \in {"listen", "live"}
<1>4. Follows(house, Wanted, socket.inbox, store', socket.blocks, asked)
  BY <1>1, <1>3, FollowsSame
<1> QED  BY <1>2, <1>4

\* A step that leaves alone what the events lead from and to.
LEMMA UnchangedFollows ==
    ASSUME FollowInv, UNCHANGED <<house, bidLog, socket, store>>
    PROVE  FollowInv'
<1>1. Wanted' = Wanted  BY DEF Logged, Wanted
<1> QED  BY <1>1 DEF FollowInv, Following

\* The bids of the window are asked for: the block of each is fetched.
LEMMA QueryFollows ==
    ASSUME CoreInv, WindowInv, FollowInv, QueryBids
    PROVE  FollowInv'
<1> SUFFICES ASSUME Following'
             PROVE  Follows(house', Wanted', socket'.inbox, store', socket'.blocks,
                            socket'.pc \in {"listen", "live"})
  BY DEF FollowInv
<1>1. house' = house /\ Logged' = Logged /\ store' = store /\ socket.pc = "query"
  BY DEF QueryBids, chain, page, Logged
<1>2. /\ socket'.pc = "listen" /\ socket'.inbox = socket.inbox /\ socket'.missed = socket.missed
      /\ socket'.from = now - Day /\ socket'.blocks = {b \in Logged : b.time >= now - Day}
  BY QueryFacts
<1>3. Following /\ socket.inbox = <<>>  BY <1>1, <1>2 DEF Following, CoreInv, SocketInv
<1> PICK W : W = Wanted'  OBVIOUS
<1>4. socket'.blocks = W  BY <1>1, <1>2 DEF Wanted
<1>5. Follows(house, Wanted, <<>>, store, socket.blocks, FALSE)
  <2> DEFINE asked == socket.pc \in {"listen", "live"}
  <2>1. Follows(house, Wanted, <<>>, store, socket.blocks, asked)  BY <1>3 DEF FollowInv
  <2> HIDE DEF asked
  <2> QED  BY <2>1 DEF Follows
<1>6. ~CreatedAfter(<<>>, 0)  BY DEF CreatedAfter, Later
<1>7. NoneLost(house, W, <<>>, store, W)  BY DEF NoneLost
<1>8. \A b : ~Known(b)  BY <1>1 DEF WindowInv
<1>9. ~Coming(house, <<>>, socket.blocks)  BY <1>3, <1>8 DEF Coming, Known
<1>10. Lead(house, <<>>, store, W)  BY <1>5, <1>6, <1>9 DEF Follows, Lead
<1>11. Follows(house, W, <<>>, store, W, TRUE)
  BY <1>5, <1>6, <1>7, <1>10 DEF Follows, ActiveFollows
<1> QED  BY <1>1, <1>2, <1>3, <1>4, <1>11

\* Every step leaves the events leading to the house's auction.
LEMMA FollowNext ==
    ASSUME CoreInv, WindowInv, FollowInv, deeds \in Seq(Deeds), [Next]_vars
    PROVE  FollowInv'
<1>1. StoreInv(Logged, store) /\ route \in Int \cup {None} /\ socket \in Sockets
  BY DEF CoreInv, TabTyped
<1>2. ASSUME \/ Tick \/ PollTimer \/ settleAuctionHandler \/ \E v \in 1..MaxBid : placeBidHandler(v)
             \/ \E d \in DOMAIN deeds : Estimated(d) \/ Signed(d) \/ Rejected(d) \/ Receipt(d)
             \/ UNCHANGED vars
      PROVE  FollowInv'
  <2>1. UNCHANGED <<house, bidLog, socket, store>>
    BY <1>2 DEF Tick, PollTimer, settleAuctionHandler, placeBidHandler, Estimated, Signed, Rejected,
                Receipt, vars, page, chain
  <2> QED  BY <2>1, UnchangedFollows
<1>3. ASSUME NEW v \in 1..MaxBid, OtherBids(v) PROVE FollowInv'
  <2>1. v \in Nat \ {0}  BY WebAssumption
  <2>2. Bidding(Other, v) /\ UNCHANGED <<store, route>>  BY <1>3 DEF OtherBids, page
  <2> QED  BY <2>1, <2>2, BiddingFollows
<1>4. ASSUME OtherSettles PROVE FollowInv'
  BY <1>4, SettlingFollows DEF OtherSettles, page
<1>5. ASSUME NEW d \in DOMAIN deeds, Mined(d) PROVE FollowInv'
  <2>1. UNCHANGED <<store, route>>  BY <1>5 DEF Mined, page
  <2>2. PICK deed \in Deeds : deed = deeds[d]  BY <1>5
  <2>3. deed.value \in Nat  BY <2>2 DEF Deeds
  <2>4. house.amount \in Nat  BY DEF CoreInv, ChainTyped, Auctions
  <2>5. CASE UNCHANGED <<chain, socket>>  BY <2>1, <2>5, UnchangedFollows DEF chain
  <2>6. CASE SettlingAndCreating  BY <2>1, <2>6, SettlingFollows
  <2>7. CASE deed.value > house.amount /\ Bidding(Me, deed.value)
    <3>1. deed.value \in Nat \ {0}  BY <2>3, <2>4, <2>7
    <3> QED  BY <2>1, <2>7, <3>1, BiddingFollows
  <2> QED  BY <1>5, <2>2, <2>5, <2>6, <2>7 DEF Mined
<1>6. ASSUME FetchAuction PROVE FollowInv'
  <2> SUFFICES ASSUME Following'
               PROVE  Follows(house', Wanted', socket'.inbox, store', socket'.blocks,
                              socket'.pc \in {"listen", "live"})
    BY DEF FollowInv
  <2>1. /\ house' = house /\ Logged' = Logged
        /\ socket.pc = "fetch" /\ socket' = [socket EXCEPT !.pc = "query"]
    BY <1>6 DEF FetchAuction, chain, Logged
  <2>1a. Wanted' = Wanted  BY <1>1, <2>1 DEF Wanted, Sockets
  <2>2. socket'.pc = "query" /\ socket'.inbox = <<>> /\ socket'.blocks = {} /\ store.bids = <<>>
        /\ store.active = None /\ store.shown = None
    BY <1>1, <2>1 DEF CoreInv, SocketInv, Sockets
  <2> DEFINE s == setLastAuctionAlpId(setFullAuction(store, house), house.alp)
  <2>3. StoreInv(Logged, s)  BY <1>1, <2>2, FetchKeeps DEF CoreInv
  <2>4. s.active = house /\ s.bids = <<>>
    BY <1>1, <2>2 DEF setLastAuctionAlpId, setFullAuction, StoreInv, Stores
  <2> HIDE DEF s
  <2>5. Rendered(s, route)  BY <1>6 DEF FetchAuction, s
  <2>6. store'.active = s.active /\ store'.bids = s.bids  BY <1>1, <2>3, <2>5, RenderKeeps
  <2>7. Follows(house, Wanted, <<>>, store', {}, FALSE)
    BY <2>1, <2>4, <2>6, FetchFollows
  <2> QED  BY <2>1, <2>1a, <2>2, <2>7 DEF Follows
<1>7. ASSUME Listen PROVE FollowInv'
  <2>1. /\ UNCHANGED <<house, bidLog, store>> /\ socket'.pc = "live" /\ socket.pc = "listen"
        /\ socket'.missed = socket.missed
        /\ socket'.inbox = socket.inbox /\ socket'.blocks = socket.blocks
        /\ socket'.from = socket.from
    BY <1>1, <1>7 DEF Listen, page, chain, Sockets
  <2>2. Wanted' = Wanted  BY <2>1 DEF Logged, Wanted
  <2>3. Following' => Following  BY <2>1 DEF Following
  <2> QED  BY <2>1, <2>2, <2>3 DEF FollowInv, Follows
<1>8. ASSUME LoadFails \/ \E bid \in socket.blocks : BlockFails(bid) PROVE FollowInv'
  <2>1. socket'.missed = TRUE  BY <1>1, <1>8 DEF LoadFails, BlockFails, Sockets
  <2> QED  BY <2>1 DEF FollowInv, Following
<1>9. ASSUME PastAuctionsLoaded PROVE FollowInv'
  <2> DEFINE all == ended \cup {reduxSafePastAuction}
             s == addPastAuctions(store, all)
  <2>0. all \in SUBSET Pasts /\ \A p \in all : BidsMatch(p)
    BY PastAuctionFacts DEF CoreInv, ChainTyped
  <2> HIDE DEF all
  <2>1. StoreInv(Logged, s) /\ s.active = store.active /\ s.bids = store.bids
    BY <1>1, <2>0, PastKeeps
  <2> HIDE DEF s
  <2>2. Rendered(s, route) /\ UNCHANGED <<chain, socket>>  BY <1>9 DEF PastAuctionsLoaded, s, all
  <2> QED  BY <1>1, <2>1, <2>2, OpenedFollows
<1>10. ASSUME NEW bid \in socket.blocks, BlockFetched(bid) PROVE FollowInv'
  <2> SUFFICES ASSUME Following'
               PROVE  Follows(house', Wanted', socket'.inbox, store', socket'.blocks,
                              socket'.pc \in {"listen", "live"})
    BY DEF FollowInv
  <2> DEFINE s == appendBid(store, bid)
             asked == socket.pc \in {"listen", "live"}
  <2>1. /\ house' = house /\ Logged' = Logged /\ Rendered(s, route)
        /\ socket' = [socket EXCEPT !.blocks = socket.blocks \ {bid}]
    BY <1>10 DEF BlockFetched, chain, Logged
  <2>2. /\ socket'.pc = socket.pc /\ socket'.inbox = socket.inbox /\ socket'.missed = socket.missed
        /\ socket'.blocks = socket.blocks \ {bid} /\ Wanted' = Wanted
    BY <1>1, <2>1 DEF Sockets, Wanted
  <2>3. Following  BY <2>2 DEF Following
  <2>4. Follows(house, Wanted, socket.inbox, store, socket.blocks, asked)  BY <2>3 DEF FollowInv
  <2>5. bid \in Bids /\ bid \in Logged  BY SocketParts DEF CoreInv, SocketInv
  <2>6. StoreInv(Logged, s)  BY <1>1, <2>5, AppendKeeps
  <2> HIDE DEF asked
  <2>7. Follows(house, Wanted, socket.inbox, s, socket.blocks \ {bid}, asked)
    BY <2>4, BlockFollows
  <2> HIDE DEF s
  <2>8. store'.active = s.active /\ store'.bids = s.bids  BY <1>1, <2>1, <2>6, RenderKeeps
  <2>9. Follows(house, Wanted, socket.inbox, store', socket.blocks \ {bid}, asked)
    BY <2>7, <2>8, FollowsSame
  <2> QED  BY <2>1, <2>2, <2>9 DEF asked
<1>11. ASSUME ClickArrow \/ PressKey PROVE FollowInv'
  <2>1. PICK s, r : /\ Opened(s, r) /\ StoreInv(Logged, s) /\ r \in Int \cup {None}
                    /\ s.active = store.active /\ s.bids = store.bids
    BY <1>11, ClickArrowOpens
  <2> QED  BY <2>1, OpenedFollows DEF Opened
<1>12. ASSUME NEW r \in Pages, Opened(store, r) PROVE FollowInv'
  <2>1. r \in Int \cup {None}  BY PagesAssumption
  <2> QED  BY <1>1, <1>12, <2>1, OpenedFollows DEF Opened
<1> QED
  BY <1>2, <1>3, <1>4, <1>5, <1>6, <1>7, <1>8, <1>9, <1>10, <1>11, <1>12, ReceiveFollows, QueryFollows
  DEF Next


\* Nothing is followed before the auction is fetched.
LEMMA FollowInvHolds == Spec => []FollowInv
<1>1. Init => FollowInv  BY DEF Init, FollowInv, Following
<1>2. WebInv /\ WindowInv /\ FollowInv /\ [Next]_vars => FollowInv'
  BY FollowNext DEF WebInv, ClickInv
<1> QED  BY <1>1, <1>2, WebInvHolds, WindowInvHolds, PTL DEF Spec

\* The store of a page that has caught up: its auction is the house's and its bids are those
\* of the house that were asked for. When there are none the amount is the one fetched; when
\* there are, the highest of all is one of them, since it is the latest.
LEMMA CaughtUpStore ==
    ASSUME CoreInv, WindowInv, FollowInv, CaughtUp
    PROVE  /\ store.active \in Auctions
           /\ store.active.alp = house.alp /\ store.active.end = house.end
           /\ store.active.amount = house.amount
           /\ house.amount # 0 => store.active.bidder = house.bidder /\ house.bidder \in {Me, Other}
           /\ \A i \in DOMAIN store.bids : store.bids[i] \in Wanted /\ store.bids[i].alp = house.alp
           /\ \A b \in Wanted : b.alp = house.alp => Listed(store, b)
<1>1. Follows(house, Wanted, <<>>, store, {}, TRUE)  BY DEF FollowInv, Following, CaughtUp
<1>2. ~CreatedAfter(<<>>, 0) /\ ~EndAfter(<<>>, 0)  BY DEF CreatedAfter, EndAfter, Later
<1>3. /\ store.active # None /\ store.active.alp = house.alp /\ store.active.end = house.end
      /\ HighestShown(store) /\ NoneLost(house, Wanted, <<>>, store, {})
      /\ Lead(house, <<>>, store, {})
  BY <1>1, <1>2 DEF Follows, ActiveFollows
<1>4. \A b \in Wanted : b.alp = house.alp => Listed(store, b)
  BY <1>3 DEF NoneLost, Heard
<1>5. StoreInv(Logged, store) /\ store \in Stores  BY DEF CoreInv, StoreInv
<1>6. store.active \in Auctions /\ store.bids \in Seq(Bids)  BY <1>3, <1>5, StoreParts
<1>7. ASSUME NEW i \in DOMAIN store.bids
      PROVE  store.bids[i] \in Wanted /\ store.bids[i].alp = house.alp
  <2> PICK b : b = store.bids[i]  OBVIOUS
  <2>1. b \in Logged /\ b.alp = house.alp  BY <1>3, <1>5 DEF StoreInv
  <2>2. Known(b)  BY DEF Known, Listed
  <2>3. b.time >= socket.from  BY <2>2 DEF WindowInv
  <2> QED  BY <2>1, <2>3 DEF Wanted
<1>8. \A b \in Logged : b \in Bids /\ b.value \in Nat \ {0} /\ b.time \in Nat
  BY LoggedAlps DEF Bids
<1>9. house.amount \in Nat  BY LoggedAlps
<1>10. /\ \A b \in Logged : b.alp = house.alp =>
            /\ b.value <= house.amount
            /\ b.value = house.amount => b.sender = house.bidder
       /\ house.amount # 0 => \E b \in Logged : b.alp = house.alp /\ b.value = house.amount
  BY DEF CoreInv, LogInv
<1>11. house.amount # 0 => house.bidder \in {Me, Other}
  <2> SUFFICES ASSUME house.amount # 0 PROVE house.bidder \in {Me, Other}  OBVIOUS
  <2>1. PICK b \in Logged : b.alp = house.alp /\ b.value = house.amount  BY <1>10
  <2>2. b.sender \in {Me, Other}  BY <1>8 DEF Bids
  <2> QED  BY <1>10, <2>1, <2>2
<1>12. CASE store.bids = <<>>
  <2>1. ~Coming(house, <<>>, {})  BY DEF Coming, Heard
  <2>2. SameLead(house, store)  BY <1>2, <1>3, <1>12, <2>1 DEF Lead
  <2> QED  BY <1>3, <1>4, <1>6, <1>7, <1>11, <2>2 DEF SameLead
<1>13. CASE store.bids # <<>>
  <2>1. PICK bids \in Seq(Bids) : bids = store.bids  BY <1>6
  <2>2. PICK i \in DOMAIN bids :
          maxBid(bids) = bids[i] /\ \A j \in DOMAIN bids : bids[j].value <= bids[i].value
    BY <1>13, <2>1, MaxBidFacts
  <2>3. PICK top \in Wanted : top = bids[i] /\ top.alp = house.alp  BY <1>7, <2>1, <2>2
  <2>4. top \in Logged /\ top.time >= socket.from  BY DEF Wanted
  <2>5. top.value \in Nat \ {0} /\ top.value <= house.amount /\ top.time \in Nat
    BY <1>8, <1>10, <2>3, <2>4
  <2>6. house.amount # 0  BY <1>9, <2>5
  <2>7. PICK b \in Logged : b.alp = house.alp /\ b.value = house.amount  BY <1>10, <2>6
  <2>8. b \in Wanted
    <3>1. top.time <= b.time  BY <2>3, <2>4, <2>7 DEF WindowInv
    <3>2. b.time \in Nat /\ socket.from \in Int  BY <1>8, <2>7, SocketParts DEF CoreInv
    <3>3. b.time >= socket.from  BY <2>4, <2>5, <3>1, <3>2
    <3> QED  BY <2>7, <3>3 DEF Wanted
  <2>9. b.value <= top.value
    <3>1. PICK j \in DOMAIN bids : bids[j] = b  BY <1>4, <2>1, <2>7, <2>8 DEF Listed
    <3> QED  BY <2>2, <2>3, <3>1
  <2>10. top.value = house.amount  BY <1>9, <2>5, <2>7, <2>9
  <2>11. top.sender = house.bidder  BY <1>10, <2>3, <2>4, <2>10
  <2>12. store.active.amount = top.value /\ store.active.bidder = top.sender
    BY <1>3, <1>13, <2>1, <2>2, <2>3 DEF HighestShown
  <2> QED  BY <1>3, <1>4, <1>6, <1>7, <1>11, <2>10, <2>11, <2>12
<1> QED  BY <1>12, <1>13

\* The rows of the dialog are the bids of the list.
LEMMA ModalFacts ==
    ASSUME CoreInv, NEW alp, store.last = alp
    PROVE  LET modal == BidHistoryModal(store, alp)
           IN  /\ \A i \in DOMAIN modal : \E j \in DOMAIN store.bids : modal[i].bid = store.bids[j]
               /\ \A j \in DOMAIN store.bids : \E i \in DOMAIN modal : modal[i].bid = store.bids[j]
<1>1. store \in Stores  BY DEF CoreInv, StoreInv
<1>2. PICK bids \in Seq(Bids) : bids = store.bids  BY <1>1, StoreParts
<1> DEFINE sorted == deserializeBids(bids)
<1>3. /\ sorted \in Seq(Bids)
      /\ \A k \in DOMAIN sorted : \E i \in DOMAIN bids : sorted[k] = bids[i]
      /\ \A i \in DOMAIN bids : \E k \in DOMAIN sorted : sorted[k] = bids[i]
  BY SortKeepsBids
<1>4. useAuctionBids(store, alp) = sorted  BY <1>2 DEF useAuctionBids
<1> HIDE DEF sorted
<1>5. sorted # None  BY <1>3, NoneAssumption
<1> DEFINE modal == [i \in DOMAIN sorted |-> BidHistoryModalRow(sorted[i], i)]
<1>6. BidHistoryModal(store, alp) = modal  BY <1>4, <1>5 DEF BidHistoryModal
<1>7. DOMAIN modal = DOMAIN sorted /\ \A i \in DOMAIN sorted : modal[i].bid = sorted[i]
  BY DEF BidHistoryModalRow
<1> HIDE DEF modal
<1>8. \A i \in DOMAIN modal : \E j \in DOMAIN bids : modal[i].bid = bids[j]
  <2> SUFFICES ASSUME NEW i \in DOMAIN modal PROVE \E j \in DOMAIN bids : modal[i].bid = bids[j]
    OBVIOUS
  <2>1. PICK j \in DOMAIN bids : sorted[i] = bids[j]  BY <1>3, <1>7
  <2> QED  BY <1>7, <2>1
<1>9. \A j \in DOMAIN bids : \E i \in DOMAIN modal : modal[i].bid = bids[j]
  <2> SUFFICES ASSUME NEW j \in DOMAIN bids PROVE \E i \in DOMAIN modal : modal[i].bid = bids[j]
    OBVIOUS
  <2>1. PICK k \in DOMAIN sorted : sorted[k] = bids[j]  BY <1>3
  <2> QED  BY <1>7, <2>1
<1> QED  BY <1>2, <1>6, <1>8, <1>9

\* A page that has missed nothing and has nothing left to handle shows the house's auction as
\* it is, in whatever order the blocks of its bids were answered: the amount, the winner or the
\* time left, and those of its bids that are no older than a day before the tab asked for them,
\* no more and no less (AuctionActivity over state/slices/auction.ts; index.tsx, BLOCKS_PER_DAY).
THEOREM CaughtUpPageIsRight == Spec => []CaughtUpShowsHouse
<1>1. ASSUME WebInv, WindowInv, FollowInv, CaughtUp, LastShown
      PROVE  LET screen == AuctionActivity IN
             /\ screen.bid.amount = house.amount
             /\ screen.side = IF ~over THEN [left |-> AuctionTimer(house)]
                              ELSE IF house.amount = 0
                                   THEN [winner |-> Winner(store.active.bidder, Me)]
                                   ELSE [winner |-> IF house.bidder = Me THEN "You" ELSE house.bidder]
             /\ {screen.modal[i].bid : i \in DOMAIN screen.modal} = Houses
  <2>1. CoreInv  BY <1>1 DEF WebInv
  <2>2. /\ store.active \in Auctions
        /\ store.active.alp = house.alp /\ store.active.end = house.end
        /\ store.active.amount = house.amount
        /\ house.amount # 0 => store.active.bidder = house.bidder /\ house.bidder \in {Me, Other}
        /\ \A i \in DOMAIN store.bids : store.bids[i] \in Wanted /\ store.bids[i].alp = house.alp
        /\ \A b \in Wanted : b.alp = house.alp => Listed(store, b)
    BY <1>1, <2>1, CaughtUpStore
  <2>3. store \in Stores /\ store.active # None /\ store.active.alp = store.last
    BY <2>1, <2>2, NoneAssumption DEF CoreInv, StoreInv
  <2>4. OnDisplay(store) = store.active
    <3>1. OnDisplay(store) # None /\ OnDisplay(store).alp = store.last
      BY <1>1 DEF LastShown, ShowsActivity, IsLastAuction
    <3> QED  BY <2>3, <3>1, OnDisplayFacts
  <2> DEFINE screen == AuctionActivity
             modal == BidHistoryModal(store, store.active.alp)
  <2>5. /\ screen.bid.amount = store.active.amount /\ screen.modal = modal
        /\ screen.side = IF ~over THEN [left |-> AuctionTimer(store.active)]
                         ELSE [winner |-> Winner(store.active.bidder, Me)]
    BY <1>1, <2>4 DEF AuctionActivity, CurrentBid, LastShown
  <2> HIDE DEF screen
  <2>6. AuctionTimer(store.active) = AuctionTimer(house)  BY <2>2 DEF AuctionTimer
  <2>7. house.amount # 0 =>
          Winner(store.active.bidder, Me) = IF house.bidder = Me THEN "You" ELSE house.bidder
    BY <2>2, PeopleAssumption DEF Winner
  <2>8. {modal[i].bid : i \in DOMAIN modal} = Houses
    <3>1. /\ \A i \in DOMAIN modal : \E j \in DOMAIN store.bids : modal[i].bid = store.bids[j]
          /\ \A j \in DOMAIN store.bids : \E i \in DOMAIN modal : modal[i].bid = store.bids[j]
      BY <2>1, <2>3, ModalFacts
    <3> HIDE DEF modal
    <3>2. \A b : b \in Houses <=> b \in Wanted /\ b.alp = house.alp
      BY DEF Houses, Logged, Wanted
    <3>3. ASSUME NEW i \in DOMAIN modal PROVE modal[i].bid \in Houses
      BY <2>2, <3>1, <3>2
    <3>4. ASSUME NEW b \in Houses PROVE \E i \in DOMAIN modal : modal[i].bid = b
      BY <2>2, <3>1, <3>2 DEF Listed
    <3> QED  BY <3>3, <3>4
  <2> QED  BY <2>2, <2>5, <2>6, <2>7, <2>8 DEF screen
<1>2. WebInv /\ WindowInv /\ FollowInv => CaughtUpShowsHouse  BY <1>1 DEF CaughtUpShowsHouse
<1> QED  BY <1>2, WebInvHolds, WindowInvHolds, FollowInvHolds, PTL


=============================================================================
