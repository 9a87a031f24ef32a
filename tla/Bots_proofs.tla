----------------------------- MODULE Bots_proofs -----------------------------
(***************************************************************************)
(* Proofs about Bots for any number of overlapping runs, proposals, votes, *)
(* auctions, bids and faults: no run puts into the cache of a proposal     *)
(* what the handlers were not given, and runs that do not overlap repeat   *)
(* no message about an auction.                                            *)
(***************************************************************************)
EXTENDS Bots, TLAPS

Bid == Nat \X Nat
Proposal == [status : Nat, votes : SUBSET Votes]
Snapshot == [Proposals -> Proposal \cup {None}]
Todo == [id : Nat, bid : Bid \cup {None}, soon : BOOLEAN]

AuctionSteps == {"discover", "announce", "bid", "postBid", "soon", "postSoon"}
ProposalSteps == {"read", "new", "status", "hasWarned", "warn", "mark", "store"}

Chain == [pc : {"idle", "query"} \cup AuctionSteps \cup ProposalSteps,
          id : Nat, known : {None} \cup (IF timer = "auction" THEN Bid ELSE Proposal), soon : Nat,
          last : {None} \cup (IF timer = "auction" THEN Todo ELSE Proposal)]

Message == ({"auction", "soon"} \X Nat) \cup ({"bid"} \X (Bid \cup {None})) \cup ({"warning"} \X Proposals)

TypeOK ==
    /\ timer \in {"auction", "governance"}
    /\ auction \in [id : Nat, bid : Bid \cup {None}, soon : BOOLEAN]
    /\ proposals \in Snapshot
    /\ cache \in [auction : Nat, bid : Bid \cup {None}, soon : Nat,
                  proposals : Snapshot, warned : SUBSET Proposals]
    /\ setup \in [step : {"query", "store", "done"},
                  read : {None} \cup IF timer = "auction" THEN Nat ELSE Snapshot]
    /\ run \in [Runs -> [Threads -> Chain]]
    /\ posted \subseteq Message
    /\ overlapped \in BOOLEAN

\* A chain holds what its step works on; the two timers have no run in common.
HoldsItsData(t, c) ==
    IF t = "auction"
    THEN /\ timer = "governance" => c = NotRunning
         /\ c.pc \in {"idle", "query"} \cup AuctionSteps
         /\ c.pc \in AuctionSteps => c.last \in Todo
    ELSE /\ timer = "auction" => c = NotRunning
         /\ c.pc \in {"idle"} \cup ProposalSteps
         /\ c.pc \in ProposalSteps => c.last \in Proposal
         /\ c.pc = "status" => c.known \in Proposal

StepsHoldTheirData ==
    /\ setup.step = "store" => setup.read \in IF timer = "auction" THEN Nat ELSE Snapshot
    /\ \A r \in Runs, t \in Threads : HoldsItsData(t, run[r][t])

\* What the handlers have been given and what setupGovernance has put into the cache.
told == handed \cup seeded

\* What a chain is about to compare with or to store was told.
WasHanded(p, c) ==
    /\ c.pc = "status" => Facts(p, c.known) \subseteq told
    /\ c.pc \in {"hasWarned", "warn", "mark", "store"} => Facts(p, c.last) \subseteq told

ChainsHanded == \A r \in Runs, p \in Proposals : WasHanded(p, run[r][p])

-----------------------------------------------------------------------------
\* Bids in the order in which the house takes them.
NotAfter(b, c) == b[1] < c[1] \/ (b[1] = c[1] /\ b[2] <= c[2])
Taken(b) == b[1] < auction.id \/ (auction.bid # None /\ NotAfter(b, auction.bid))

\* While no run overlaps another or the setup, at most one is in progress, and none
\* during the setup.
OneAtATime ==
    /\ \A r, s \in Runs : run[r]["auction"] # NotRunning /\ run[s]["auction"] # NotRunning => r = s
    /\ setup.step # "done" => \A r \in Runs : run[r]["auction"] = NotRunning

\* The cache is no newer than the subgraph.
CacheBehindSubgraph ==
    /\ auction.bid # None => auction.bid[1] = auction.id
    /\ cache.auction <= auction.id
    /\ setup.step = "store" => cache.auction <= setup.read /\ setup.read <= auction.id
    /\ cache.bid # None => Taken(cache.bid)

\* No message is newer than the cache.
PostedBehindCache ==
    \A msg \in posted :
        /\ msg[1] = "auction" => msg[2] <= cache.auction
        /\ msg[1] = "soon" => msg[2] <= cache.soon
        /\ msg[1] = "bid" => cache.bid # None /\ msg[2] # None /\ NotAfter(msg[2], cache.bid)

\* The run in progress has read the cache as it still is, and what it is to post was
\* not posted.
IsAhead(c) ==
    /\ c.pc = "query" => c.id = cache.auction /\ c.known = cache.bid /\ c.soon = cache.soon
    /\ c.pc = "discover" => cache.auction < c.last.id /\ c.last.id <= auction.id
    /\ c.pc = "announce" => cache.auction = c.last.id /\ <<"auction", c.last.id>> \notin posted
    /\ c.pc \in {"discover", "announce", "bid"} /\ c.last.bid # None =>
          Taken(c.last.bid) /\ (cache.bid # None => ~NotAfter(c.last.bid, cache.bid))
    /\ c.pc = "postBid" => /\ c.last.bid # None /\ cache.bid = c.last.bid
                           /\ <<"bid", c.last.bid>> \notin posted
    /\ c.pc \in {"discover", "announce", "bid", "postBid"} /\ c.last.soon => cache.soon < c.last.id
    /\ c.pc = "soon" => cache.soon < c.last.id
    /\ c.pc = "postSoon" => cache.soon = c.last.id /\ <<"soon", c.last.id>> \notin posted

RunAheadOfCache == \A r \in Runs : IsAhead(run[r]["auction"])

\* The auction timer while no run overlaps.
NoRepeat ==
    /\ repeated = {}
    /\ OneAtATime
    /\ CacheBehindSubgraph
    /\ PostedBehindCache
    /\ RunAheadOfCache

NoRepeatInv ==
    IF timer = "governance" THEN repeated = {}
    ELSE ~overlapped => NoRepeat

\* The inductive invariant.
BotsInv ==
    /\ TypeOK
    /\ StepsHoldTheirData
    /\ CacheNeverAhead
    /\ ChainsHanded
    /\ NoRepeatInv

-----------------------------------------------------------------------------
Steps == {"idle", "query"} \cup AuctionSteps \cup ProposalSteps

\* Replacing one chain of one run leaves the others as they are.
LEMMA MovedFacts ==
    ASSUME run \in [Runs -> [Threads -> Chain]], NEW r \in Runs, NEW t \in Threads, NEW c \in Chain,
           run' = [run EXCEPT ![r][t] = c]
    PROVE  /\ run' \in [Runs -> [Threads -> Chain]]
           /\ run'[r][t] = c
           /\ \A s \in Runs, u \in Threads : s # r \/ u # t => run'[s][u] = run[s][u]
<1>1. \A f \in [Threads -> Chain] : [f EXCEPT ![t] = c] \in [Threads -> Chain]
  OBVIOUS
<1>2. run[r] \in [Threads -> Chain]
  OBVIOUS
<1> HIDE DEF Chain, Threads
<1>3. run' = [run EXCEPT ![r] = [run[r] EXCEPT ![t] = c]]
  OBVIOUS
<1> QED  BY <1>1, <1>2, <1>3

\* A chain that is not running holds nothing.
LEMMA NotRunningFacts ==
    /\ NotRunning \in Chain /\ NotRunning.pc = "idle"
    /\ \A t : HoldsItsData(t, NotRunning)
<1>1. NotRunning \in Chain  BY DEF NotRunning, Chain
<1>2. NotRunning.pc = "idle"  BY DEF NotRunning
<1> QED  BY <1>1, <1>2 DEF HoldsItsData, AuctionSteps, ProposalSteps

\* A chain that goes on (Continue) keeps what it was given and is at the next step, or
\* is over.
LEMMA ContinueFacts ==
    ASSUME NEW r \in Runs, NEW t \in Threads, NEW c \in Chain, NEW next \in Steps,
           Continue(r, t, c, next)
    PROVE  \E d \in Chain :
              /\ run' = [run EXCEPT ![r][t] = d]
              /\ \/ d = NotRunning
                 \/ next # "idle" /\ d.pc = next /\ d.last = c.last /\ d.known = c.known
                    /\ d.id = c.id /\ d.soon = c.soon
<1>1. CASE next = "idle"
  BY <1>1, NotRunningFacts DEF Continue
<1>2. CASE next # "idle"
  <2> DEFINE d == [c EXCEPT !.pc = next]
  <2>1. d \in Chain  BY DEF Chain, Steps
  <2>2. d.pc = next /\ d.last = c.last /\ d.known = c.known /\ d.id = c.id /\ d.soon = c.soon
    BY DEF Chain
  <2>3. run' = [run EXCEPT ![r][t] = d]  BY <1>2 DEF Continue
  <2> HIDE DEF d
  <2> QED  BY <1>2, <2>1, <2>2, <2>3
<1> QED  BY <1>1, <1>2

\* The same for a step that may also be rejected (Deliver): the chain forgets what it
\* compared with, and keeps its snapshot.
LEMMA DeliverFacts ==
    ASSUME TypeOK, NEW r \in Runs, NEW t \in Threads, NEW next \in Steps, Deliver(r, t, next)
    PROVE  \E d \in Chain :
              /\ run' = [run EXCEPT ![r][t] = d]
              /\ \/ d = NotRunning
                 \/ next # "idle" /\ d.pc = next /\ d.last = run[r][t].last /\ UNCHANGED faults
<1> DEFINE c == [run[r][t] EXCEPT !.known = None]
<1>1. run[r][t] \in Chain  BY DEF TypeOK
<1>2. c \in Chain /\ c.last = run[r][t].last  BY <1>1 DEF Chain
<1>3. CASE Rejected(r, t)
  BY <1>3, NotRunningFacts DEF Rejected, Goto, Continue
<1>4. CASE Continue(r, t, c, next) /\ UNCHANGED faults
  <2> HIDE DEF c
  <2> QED  BY <1>2, <1>4, ContinueFacts
<1> QED  BY <1>3, <1>4 DEF Deliver

-----------------------------------------------------------------------------
(* Types. *)

RunsOK == /\ run \in [Runs -> [Threads -> Chain]]
          /\ \A r \in Runs, t \in Threads : HoldsItsData(t, run[r][t])

\* A chain that moves to a state in which it holds its data leaves all chains so.
LEMMA MoveKeepsRuns ==
    ASSUME RunsOK, NEW r \in Runs, NEW t \in Threads, NEW c \in Chain, HoldsItsData(t, c),
           run' = [run EXCEPT ![r][t] = c], UNCHANGED timer
    PROVE  RunsOK'
<1>1. Chain' = Chain  BY DEF Chain
<1>2. \A u, d : HoldsItsData(u, d)' <=> HoldsItsData(u, d)  BY DEF HoldsItsData
<1>3. /\ run' \in [Runs -> [Threads -> Chain]]
      /\ run'[r][t] = c
      /\ \A s \in Runs, u \in Threads : s # r \/ u # t => run'[s][u] = run[s][u]
  BY MovedFacts DEF RunsOK
<1>4. ASSUME NEW s \in Runs, NEW u \in Threads PROVE HoldsItsData(u, run'[s][u])
  BY <1>3 DEF RunsOK
<1> QED  BY <1>1, <1>2, <1>3, <1>4 DEF RunsOK

\* The shape of a step that moves one chain: to the end, or to a step whose data it has.
LEMMA StopOrMove ==
    ASSUME RunsOK, NEW r \in Runs, NEW t \in Threads, UNCHANGED timer,
           \E d \in Chain : /\ run' = [run EXCEPT ![r][t] = d]
                            /\ d = NotRunning \/ HoldsItsData(t, d)
    PROVE  RunsOK'
BY MoveKeepsRuns, NotRunningFacts

\* Every step of an auction run.
LEMMA AuctionRunTyped ==
    ASSUME TypeOK, StepsHoldTheirData, NEW r \in Runs,
           \/ GetLastAuctionBids(r) \/ DiscoverAuction(r)
           \/ HandleNewAuction(r) \/ CheckBid(r) \/ HandleNewBid(r)
           \/ UpdateEndingSoonCache(r) \/ HandleAuctionEndingSoon(r)
    PROVE  TypeOK' /\ StepsHoldTheirData'
<1> DEFINE t == "auction"
           c == run[r][t]
<1>1. RunsOK /\ t \in Threads /\ c \in Chain /\ HoldsItsData(t, c)
  BY DEF TypeOK, StepsHoldTheirData, RunsOK, Threads
<1>2. c # NotRunning => timer = "auction"
  BY <1>1 DEF HoldsItsData, TypeOK
<1>3. ASSUME c.pc # "idle" PROVE timer = "auction"
  BY <1>2, <1>3, NotRunningFacts
<1>4. ASSUME c.pc \in AuctionSteps PROVE c.last \in Todo
  BY <1>1, <1>4 DEF HoldsItsData
<1>5. \A d : d.pc \in AuctionSteps /\ d.last \in Todo /\ timer = "auction" => HoldsItsData(t, d)
  BY DEF HoldsItsData, AuctionSteps
<1>6. Bid' = Bid /\ Message' = Message /\ Snapshot' = Snapshot
  BY DEF Bid, Message, Snapshot
<1>7. "idle" \in Steps /\ AuctionSteps \subseteq Steps
  BY DEF Steps
<1>8. "auction" = t
  OBVIOUS
<1> HIDE DEF t, c
<1> SUFFICES /\ UNCHANGED <<world, timer, setup, overlapped>>
             /\ \E d \in Chain : /\ run' = [run EXCEPT ![r][t] = d]
                                 /\ d = NotRunning \/ HoldsItsData(t, d)
             /\ cache' \in [auction : Nat, bid : Bid \cup {None}, soon : Nat,
                            proposals : Snapshot, warned : SUBSET Proposals]
             /\ posted' \subseteq Message
  <2>1. RunsOK'  BY <1>1, StopOrMove
  <2>2. TypeOK'  BY <1>6, <2>1 DEF TypeOK, RunsOK, world
  <2> QED  BY <1>6, <2>1, <2>2 DEF StepsHoldTheirData, RunsOK, world
<1>9. CASE GetLastAuctionBids(r)
  <2> DEFINE d == [NotRunning EXCEPT !.last = LastAuctionBids(c)]
             next == IF c.id < auction.id THEN "discover" ELSE "bid"
  <2>1. timer = "auction"  BY <1>3, <1>9 DEF GetLastAuctionBids, At, c, t
  <2>2. LastAuctionBids(c) \in Todo
    BY <1>1, <2>1 DEF LastAuctionBids, Todo, TypeOK, Chain
  <2>3. d \in Chain /\ d.last \in Todo  BY <2>1, <2>2 DEF NotRunning, Chain
  <2>4. next \in Steps /\ next \in AuctionSteps  BY DEF Steps, AuctionSteps
  <2>5. \/ Continue(r, t, d, next)
        \/ Rejected(r, t)
    BY <1>9 DEF GetLastAuctionBids, c, t
  <2>6. UNCHANGED <<world, timer, setup, overlapped, cache, posted>>
    BY <1>9 DEF GetLastAuctionBids
  <2> HIDE DEF d, next
  <2>7. CASE Rejected(r, t)
    BY <2>7, <2>6, NotRunningFacts DEF Rejected, Goto, Continue, TypeOK
  <2>8. CASE Continue(r, t, d, next)
    <3>1. PICK e \in Chain : /\ run' = [run EXCEPT ![r][t] = e]
                             /\ e = NotRunning \/ (e.pc = next /\ e.last = d.last)
      BY <1>1, <2>3, <2>4, <2>8, ContinueFacts
    <3> QED  BY <1>5, <2>1, <2>3, <2>4, <2>6, <3>1 DEF TypeOK
  <2> QED  BY <2>5, <2>7, <2>8
<1>10. ASSUME NEW next \in Steps, next \in AuctionSteps \cup {"idle"}, c.pc \in AuctionSteps,
              Goto(r, t, next)
       PROVE  \E d \in Chain : /\ run' = [run EXCEPT ![r][t] = d]
                               /\ d = NotRunning \/ HoldsItsData(t, d)
  <2>1. timer = "auction" /\ c.last \in Todo  BY <1>3, <1>4, <1>10 DEF AuctionSteps
  <2>2. Continue(r, t, c, next)  BY <1>10 DEF Goto, c
  <2>3. PICK e \in Chain : /\ run' = [run EXCEPT ![r][t] = e]
                           /\ e = NotRunning \/ (next # "idle" /\ e.pc = next /\ e.last = c.last)
    BY <1>1, <2>2, ContinueFacts
  <2> QED  BY <1>5, <1>10, <2>1, <2>3
<1>11. ASSUME NEW next \in Steps, next \in AuctionSteps \cup {"idle"}, c.pc \in AuctionSteps,
              Deliver(r, t, next)
       PROVE  \E d \in Chain : /\ run' = [run EXCEPT ![r][t] = d]
                               /\ d = NotRunning \/ HoldsItsData(t, d)
  <2>1. timer = "auction" /\ c.last \in Todo  BY <1>3, <1>4, <1>11 DEF AuctionSteps
  <2>3. PICK e \in Chain : /\ run' = [run EXCEPT ![r][t] = e]
                           /\ e = NotRunning \/ (next # "idle" /\ e.pc = next /\ e.last = c.last)
    BY <1>1, <1>11, DeliverFacts DEF c
  <2> QED  BY <1>5, <1>11, <2>1, <2>3
<1>12. CASE DiscoverAuction(r)
  <2>1. c.pc \in AuctionSteps  BY <1>12 DEF DiscoverAuction, At, c, t, AuctionSteps
  <2>2. UNCHANGED <<world, timer, setup, overlapped, posted>>
    BY <1>12 DEF DiscoverAuction
  <2>3. /\ Goto(r, t, "announce") \/ Goto(r, t, "idle")
        /\ cache' = cache \/ cache' = [cache EXCEPT !.auction = c.last.id]
    BY <1>12 DEF DiscoverAuction, Rejected, c, t
  <2>4. c.last.id \in Nat  BY <1>4, <2>1 DEF Todo
  <2>5. cache' \in [auction : Nat, bid : Bid \cup {None}, soon : Nat,
                    proposals : Snapshot, warned : SUBSET Proposals]
    BY <2>3, <2>4 DEF TypeOK
  <2>6. "announce" \in Steps /\ "announce" \in AuctionSteps  BY DEF Steps, AuctionSteps
  <2> QED  BY <1>7, <1>10, <2>1, <2>2, <2>3, <2>5, <2>6 DEF TypeOK
<1>13. CASE HandleNewAuction(r)
  <2>1. c.pc \in AuctionSteps  BY <1>13 DEF HandleNewAuction, At, c, t, AuctionSteps
  <2>2. UNCHANGED <<world, timer, setup, overlapped, cache>>
    BY <1>13 DEF HandleNewAuction
  <2>3. Deliver(r, t, "bid") /\ posted' \in {posted, posted \cup {<<"auction", c.last.id>>}}
    BY <1>13 DEF HandleNewAuction, Post, c, t
  <2>4. <<"auction", c.last.id>> \in Message  BY <1>4, <2>1 DEF Todo, Message
  <2>6. "bid" \in Steps /\ "bid" \in AuctionSteps  BY DEF Steps, AuctionSteps
  <2> QED  BY <1>11, <2>1, <2>2, <2>3, <2>4, <2>6 DEF TypeOK
<1>14. CASE CheckBid(r)
  <2>1. c.pc \in AuctionSteps  BY <1>14 DEF CheckBid, At, c, t, AuctionSteps
  <2>2. UNCHANGED <<world, timer, setup, overlapped, posted>>
    BY <1>14 DEF CheckBid
  <2>3. /\ Goto(r, t, "postBid") \/ Goto(r, t, "soon") \/ Goto(r, t, "idle")
        /\ cache' = cache \/ cache' = [cache EXCEPT !.bid = c.last.bid]
    BY <1>14 DEF CheckBid, Rejected, AfterBid, c, t
  <2>4. c.last.bid \in Bid \cup {None}  BY <1>4, <2>1 DEF Todo
  <2>5. cache' \in [auction : Nat, bid : Bid \cup {None}, soon : Nat,
                    proposals : Snapshot, warned : SUBSET Proposals]
    BY <2>3, <2>4 DEF TypeOK
  <2>6. {"postBid", "soon"} \subseteq Steps /\ {"postBid", "soon"} \subseteq AuctionSteps
    BY DEF Steps, AuctionSteps
  <2> QED  BY <1>7, <1>10, <2>1, <2>2, <2>3, <2>5, <2>6 DEF TypeOK
<1>15. CASE HandleNewBid(r)
  <2>1. c.pc \in AuctionSteps  BY <1>15 DEF HandleNewBid, At, c, t, AuctionSteps
  <2>2. UNCHANGED <<world, timer, setup, overlapped, cache>>
    BY <1>15 DEF HandleNewBid
  <2>3. /\ Deliver(r, t, "soon") \/ Deliver(r, t, "idle")
        /\ posted' \in {posted, posted \cup {<<"bid", c.last.bid>>}}
    BY <1>15 DEF HandleNewBid, Post, AfterBid, c, t
  <2>4. <<"bid", c.last.bid>> \in Message  BY <1>4, <2>1 DEF Todo, Message
  <2>6. "soon" \in Steps /\ "soon" \in AuctionSteps  BY DEF Steps, AuctionSteps
  <2> QED  BY <1>7, <1>11, <2>1, <2>2, <2>3, <2>4, <2>6 DEF TypeOK
<1>16. CASE UpdateEndingSoonCache(r)
  <2>1. c.pc \in AuctionSteps  BY <1>16 DEF UpdateEndingSoonCache, At, c, t, AuctionSteps
  <2>2. UNCHANGED <<world, timer, setup, overlapped, posted>>
    BY <1>16 DEF UpdateEndingSoonCache
  <2>3. Goto(r, t, "postSoon") /\ cache' = [cache EXCEPT !.soon = c.last.id]
    BY <1>16 DEF UpdateEndingSoonCache, c, t
  <2>4. c.last.id \in Nat  BY <1>4, <2>1 DEF Todo
  <2>5. cache' \in [auction : Nat, bid : Bid \cup {None}, soon : Nat,
                    proposals : Snapshot, warned : SUBSET Proposals]
    BY <2>3, <2>4 DEF TypeOK
  <2>6. "postSoon" \in Steps /\ "postSoon" \in AuctionSteps  BY DEF Steps, AuctionSteps
  <2> QED  BY <1>10, <2>1, <2>2, <2>3, <2>5, <2>6 DEF TypeOK
<1>17. CASE HandleAuctionEndingSoon(r)
  <2>1. c.pc \in AuctionSteps  BY <1>17 DEF HandleAuctionEndingSoon, At, c, t, AuctionSteps
  <2>2. UNCHANGED <<world, timer, setup, overlapped, cache>>
    BY <1>17 DEF HandleAuctionEndingSoon
  <2>3. Deliver(r, t, "idle") /\ posted' \in {posted, posted \cup {<<"soon", c.last.id>>}}
    BY <1>17 DEF HandleAuctionEndingSoon, Post, c, t
  <2>4. <<"soon", c.last.id>> \in Message  BY <1>4, <2>1 DEF Todo, Message
  <2> QED  BY <1>7, <1>11, <2>1, <2>2, <2>3, <2>4 DEF TypeOK
<1> QED  BY <1>9, <1>12, <1>13, <1>14, <1>15, <1>16, <1>17

\* Every step of a governance run.
LEMMA GovernanceRunTyped ==
    ASSUME TypeOK, StepsHoldTheirData, NEW r \in Runs, NEW p \in Proposals,
           \/ ReadProposalCache(r, p) \/ HandleNewProposal(r, p) \/ HandleUpdatedProposal(r, p)
           \/ HasWarnedOfExpiry(r, p) \/ HandleProposalAtRiskOfExpiry(r, p)
           \/ SetProposalExpiryWarningSent(r, p) \/ UpdateProposalCache(r, p)
    PROVE  TypeOK' /\ StepsHoldTheirData'
<1> DEFINE c == run[r][p]
<1>1. RunsOK /\ p \in Threads /\ p # "auction" /\ c \in Chain /\ HoldsItsData(p, c)
  <2>1. RunsOK  BY DEF TypeOK, StepsHoldTheirData, RunsOK
  <2>2. p \in Threads  BY DEF Threads
  <2>3. p # "auction"  BY BotsAssumption
  <2> QED  BY <2>1, <2>2, <2>3 DEF RunsOK
<1>3. ASSUME c.pc # "idle" PROVE timer = "governance"
  BY <1>1, <1>3, NotRunningFacts DEF HoldsItsData, TypeOK
<1>4. ASSUME c.pc \in ProposalSteps PROVE c.last \in Proposal
  BY <1>1, <1>4 DEF HoldsItsData
<1>5. \A d : d.pc \in ProposalSteps /\ d.last \in Proposal /\ timer = "governance"
             /\ (d.pc = "status" => d.known \in Proposal)
             => HoldsItsData(p, d)
  BY <1>1 DEF HoldsItsData, ProposalSteps
<1>6. Bid' = Bid /\ Message' = Message /\ Snapshot' = Snapshot
  BY DEF Bid, Message, Snapshot
<1>7. "idle" \in Steps /\ ProposalSteps \subseteq Steps
  BY DEF Steps
<1> HIDE DEF c
<1> SUFFICES /\ UNCHANGED <<world, timer, setup, overlapped>>
             /\ \E d \in Chain : /\ run' = [run EXCEPT ![r][p] = d]
                                 /\ d = NotRunning \/ HoldsItsData(p, d)
             /\ cache' \in [auction : Nat, bid : Bid \cup {None}, soon : Nat,
                            proposals : Snapshot, warned : SUBSET Proposals]
             /\ posted' \subseteq Message
  <2>1. RunsOK'  BY <1>1, StopOrMove
  <2>2. TypeOK'  BY <1>6, <2>1 DEF TypeOK, RunsOK, world
  <2> QED  BY <1>6, <2>1, <2>2 DEF StepsHoldTheirData, RunsOK, world
<1>10. ASSUME NEW next \in Steps, next \in (ProposalSteps \ {"status"}) \cup {"idle"},
              c.pc \in ProposalSteps, Goto(r, p, next) \/ Deliver(r, p, next)
       PROVE  \E d \in Chain : /\ run' = [run EXCEPT ![r][p] = d]
                               /\ d = NotRunning \/ HoldsItsData(p, d)
  <2>1. timer = "governance" /\ c.last \in Proposal  BY <1>3, <1>4, <1>10 DEF ProposalSteps
  <2>2. Goto(r, p, next) => Continue(r, p, c, next)  BY DEF Goto, c
  <2>3. PICK e \in Chain : /\ run' = [run EXCEPT ![r][p] = e]
                           /\ e = NotRunning \/ (next # "idle" /\ e.pc = next /\ e.last = c.last)
    BY <1>1, <1>10, <2>2, ContinueFacts, DeliverFacts DEF c
  <2> QED  BY <1>5, <1>10, <2>1, <2>3
<1>11. CASE ReadProposalCache(r, p)
  <2> DEFINE d == [c EXCEPT !.known = cache.proposals[p]]
             next == IF cache.proposals[p] = None THEN "new" ELSE "status"
  <2>1. c.pc \in ProposalSteps /\ timer = "governance" /\ c.last \in Proposal
    BY <1>3, <1>4, <1>11 DEF ReadProposalCache, At, c, ProposalSteps
  <2>2. cache.proposals[p] \in Proposal \cup {None}  BY DEF TypeOK, Snapshot
  <2>3. d \in Chain /\ d.last = c.last /\ d.known = cache.proposals[p]
    BY <1>1, <2>1, <2>2 DEF Chain
  <2>4. next \in Steps /\ next \in ProposalSteps  BY DEF Steps, ProposalSteps
  <2>5. Continue(r, p, d, next) /\ UNCHANGED <<world, timer, setup, overlapped, cache, posted>>
    BY <1>11 DEF ReadProposalCache, c
  <2>6. next = "status" => cache.proposals[p] \in Proposal  BY <2>2
  <2> HIDE DEF d, next
  <2>7. PICK e \in Chain : /\ run' = [run EXCEPT ![r][p] = e]
                           /\ e = NotRunning \/ (e.pc = next /\ e.last = d.last /\ e.known = d.known)
    BY <1>1, <2>3, <2>4, <2>5, ContinueFacts
  <2> QED  BY <1>5, <2>1, <2>3, <2>4, <2>5, <2>6, <2>7 DEF TypeOK
<1>12. CASE HandleNewProposal(r, p)
  <2>1. c.pc \in ProposalSteps  BY <1>12 DEF HandleNewProposal, At, c, ProposalSteps
  <2>2. Deliver(r, p, "store") /\ UNCHANGED <<world, timer, setup, overlapped, cache, posted>>
    BY <1>12 DEF HandleNewProposal
  <2>3. "store" \in Steps /\ "store" \in ProposalSteps  BY DEF Steps, ProposalSteps
  <2> QED  BY <1>10, <2>1, <2>2, <2>3 DEF TypeOK
<1>13. CASE HandleUpdatedProposal(r, p)
  <2> DEFINE next == IF IsAtRiskOfExpiry(p, c.last) THEN "hasWarned" ELSE "store"
             d == [c EXCEPT !.known = None]
  <2>1. c.pc \in ProposalSteps /\ timer = "governance" /\ c.last \in Proposal
    BY <1>3, <1>4, <1>13 DEF HandleUpdatedProposal, At, c, ProposalSteps
  <2>2. /\ Deliver(r, p, next) \/ Continue(r, p, d, next)
        /\ UNCHANGED <<world, timer, setup, overlapped, cache, posted>>
    BY <1>13 DEF HandleUpdatedProposal, c
  <2>3. next \in Steps /\ next \in ProposalSteps \ {"status"}  BY DEF Steps, ProposalSteps
  <2>4. d \in Chain /\ d.last = c.last  BY <1>1 DEF Chain
  <2> HIDE DEF d, next
  <2>5. CASE Deliver(r, p, next)
    BY <1>10, <2>1, <2>2, <2>3, <2>5 DEF TypeOK
  <2>6. CASE Continue(r, p, d, next)
    <3>1. PICK e \in Chain : /\ run' = [run EXCEPT ![r][p] = e]
                             /\ e = NotRunning \/ (e.pc = next /\ e.last = d.last)
      BY <1>1, <2>3, <2>4, <2>6, ContinueFacts
    <3> QED  BY <1>5, <2>1, <2>2, <2>3, <2>4, <3>1 DEF TypeOK
  <2> QED  BY <2>2, <2>5, <2>6
<1>14. CASE HasWarnedOfExpiry(r, p)
  <2>1. c.pc \in ProposalSteps  BY <1>14 DEF HasWarnedOfExpiry, At, c, ProposalSteps
  <2>2. /\ Goto(r, p, "store") \/ Goto(r, p, "warn")
        /\ UNCHANGED <<world, timer, setup, overlapped, cache, posted>>
    BY <1>14 DEF HasWarnedOfExpiry
  <2>3. {"store", "warn"} \subseteq Steps /\ {"store", "warn"} \subseteq ProposalSteps
    BY DEF Steps, ProposalSteps
  <2> QED  BY <1>10, <2>1, <2>2, <2>3 DEF TypeOK
<1>15. CASE HandleProposalAtRiskOfExpiry(r, p)
  <2>1. c.pc \in ProposalSteps  BY <1>15 DEF HandleProposalAtRiskOfExpiry, At, c, ProposalSteps
  <2>2. /\ Deliver(r, p, "mark") /\ UNCHANGED <<world, timer, setup, overlapped, cache>>
        /\ posted' \in {posted, posted \cup {<<"warning", p>>}}
    BY <1>15 DEF HandleProposalAtRiskOfExpiry, Post
  <2>3. "mark" \in Steps /\ "mark" \in ProposalSteps /\ <<"warning", p>> \in Message
    BY DEF Steps, ProposalSteps, Message
  <2> QED  BY <1>10, <2>1, <2>2, <2>3 DEF TypeOK
<1>16. CASE SetProposalExpiryWarningSent(r, p)
  <2>1. c.pc \in ProposalSteps  BY <1>16 DEF SetProposalExpiryWarningSent, At, c, ProposalSteps
  <2>2. /\ Goto(r, p, "store") /\ UNCHANGED <<world, timer, setup, overlapped, posted>>
        /\ cache' = [cache EXCEPT !.warned = @ \cup {p}]
    BY <1>16 DEF SetProposalExpiryWarningSent
  <2>3. "store" \in Steps /\ "store" \in ProposalSteps  BY DEF Steps, ProposalSteps
  <2> QED  BY <1>10, <2>1, <2>2, <2>3 DEF TypeOK
<1>17. CASE UpdateProposalCache(r, p)
  <2>1. c.pc \in ProposalSteps  BY <1>17 DEF UpdateProposalCache, At, c, ProposalSteps
  <2>2. /\ Goto(r, p, "idle") /\ UNCHANGED <<world, timer, setup, overlapped, posted>>
        /\ cache' = [cache EXCEPT !.proposals[p] = c.last]
    BY <1>17 DEF UpdateProposalCache, c
  <2>3. c.last \in Proposal \cup {None}  BY <1>4, <2>1
  <2>4. cache' \in [auction : Nat, bid : Bid \cup {None}, soon : Nat,
                    proposals : Snapshot, warned : SUBSET Proposals]
    BY <2>2, <2>3 DEF TypeOK, Snapshot
  <2> QED  BY <1>7, <1>10, <2>1, <2>2, <2>4 DEF TypeOK
<1> QED  BY <1>11, <1>12, <1>13, <1>14, <1>15, <1>16, <1>17

\* A process that starts: no chain runs, the cache is empty.
LEMMA InitTyped == Init => TypeOK /\ StepsHoldTheirData
<1> SUFFICES ASSUME Init PROVE TypeOK /\ StepsHoldTheirData
  OBVIOUS
<1>1. run \in [Runs -> [Threads -> Chain]]  BY NotRunningFacts DEF Init
<1>2. \A r \in Runs, t \in Threads : HoldsItsData(t, run[r][t])  BY NotRunningFacts DEF Init
<1>3. cache \in [auction : Nat, bid : Bid \cup {None}, soon : Nat,
                 proposals : Snapshot, warned : SUBSET Proposals]
  BY DEF Init, Redis, Snapshot
<1>4. proposals \in Snapshot  BY DEF Init, Snapshot
<1>5. setup \in [step : {"query", "store", "done"},
                 read : {None} \cup IF timer = "auction" THEN Nat ELSE Snapshot]
  BY DEF Init
<1> QED  BY <1>1, <1>2, <1>3, <1>4, <1>5 DEF Init, TypeOK, StepsHoldTheirData

\* The subgraph, a crash, the setup and the start of a run.
LEMMA OthersTyped ==
    ASSUME TypeOK, StepsHoldTheirData, World \/ Crash \/ Setup \/ Starting \/ UNCHANGED vars
    PROVE  TypeOK' /\ StepsHoldTheirData'
<1>1. Bid' = Bid /\ Message' = Message /\ Snapshot' = Snapshot
  BY DEF Bid, Message, Snapshot
<1>2. RunsOK  BY DEF TypeOK, StepsHoldTheirData, RunsOK
<1>3. ASSUME UNCHANGED <<run, timer>> PROVE RunsOK'
  BY <1>2, <1>3 DEF RunsOK, Chain, HoldsItsData
<1>4. ASSUME RunsOK', UNCHANGED <<timer, setup, cache, posted>>, overlapped' \in BOOLEAN,
             auction' \in [id : Nat, bid : Bid \cup {None}, soon : BOOLEAN],
             proposals' \in Snapshot
      PROVE  TypeOK' /\ StepsHoldTheirData'
  BY <1>1, <1>4 DEF TypeOK, StepsHoldTheirData, RunsOK
<1>5. CASE World
  <2>1. UNCHANGED bot  BY <1>5 DEF World, NewAuction, NewBid, EndsSoon, NewProposal, NewStatus, NewVote, Ages
  <2>2. RunsOK' /\ UNCHANGED <<timer, setup, cache, posted>> /\ overlapped' \in BOOLEAN
    BY <1>3, <2>1 DEF bot, TypeOK
  <2>3. /\ auction' \in [id : Nat, bid : Bid \cup {None}, soon : BOOLEAN]
        /\ proposals' \in Snapshot
    <3>1. CASE NewAuction \/ EndsSoon \/ \E b \in 1..MaxBids : NewBid(b)
      <4>1. \A b \in 1..MaxBids : <<auction.id, b>> \in Bid  BY DEF TypeOK, Bid
      <4>2. CASE NewAuction
        BY <4>2 DEF TypeOK, NewAuction
      <4>4. CASE EndsSoon
        BY <4>4 DEF TypeOK, EndsSoon
      <4>3. ASSUME NEW b \in 1..MaxBids, NewBid(b)
            PROVE  /\ auction' \in [id : Nat, bid : Bid \cup {None}, soon : BOOLEAN]
                   /\ proposals' = proposals
        <5>1. auction' = [auction EXCEPT !.bid = <<auction.id, b>>] /\ proposals' = proposals
          BY <4>3 DEF NewBid
        <5>2. <<auction.id, b>> \in Bid  BY <4>1
        <5> DEFINE x == <<auction.id, b>>
        <5> HIDE DEF x
        <5> QED  BY <5>1, <5>2 DEF TypeOK, x
      <4> QED  BY <3>1, <4>2, <4>3, <4>4 DEF TypeOK
    <3>2. ASSUME NEW p \in Proposals, NewProposal(p) PROVE proposals' \in Snapshot /\ UNCHANGED auction
      <4>1. [status |-> 1, votes |-> {}] \in Proposal  BY DEF Proposal
      <4> QED  BY <3>2, <4>1 DEF NewProposal, TypeOK, Snapshot
    <3>3. ASSUME NEW p \in Proposals, NEW x \in Proposal, proposals' = [proposals EXCEPT ![p] = x]
          PROVE  proposals' \in Snapshot
      BY <3>3 DEF TypeOK, Snapshot
    <3>4. ASSUME NEW p \in Proposals, NewStatus(p) PROVE proposals' \in Snapshot /\ UNCHANGED auction
      <4>1. proposals[p] \in Proposal  BY <3>4 DEF NewStatus, TypeOK, Snapshot
      <4>2. [proposals[p] EXCEPT !.status = @ + 1] \in Proposal  BY <4>1 DEF Proposal
      <4> QED  BY <3>3, <3>4, <4>2 DEF NewStatus
    <3>5. ASSUME NEW p \in Proposals, NEW v \in Votes, NewVote(p, v)
          PROVE  proposals' \in Snapshot /\ UNCHANGED auction
      <4>1. proposals[p] \in Proposal  BY <3>5 DEF NewVote, TypeOK, Snapshot
      <4>2. [proposals[p] EXCEPT !.votes = @ \cup {v}] \in Proposal  BY <4>1 DEF Proposal
      <4> QED  BY <3>3, <3>5, <4>2 DEF NewVote
    <3>6. ASSUME NEW p \in Proposals, Ages(p) PROVE UNCHANGED <<auction, proposals>>
      BY <3>6 DEF Ages
    <3> QED  BY <1>5, <3>1, <3>2, <3>4, <3>5, <3>6 DEF World, TypeOK
  <2> QED  BY <1>4, <2>2, <2>3
<1>6. CASE Crash
  <2>1. Chain' = Chain /\ \A t, d : HoldsItsData(t, d)' <=> HoldsItsData(t, d)
    BY <1>6 DEF Crash, Chain, HoldsItsData
  <2>2. /\ run' \in [Runs -> [Threads -> Chain]]
        /\ \A r \in Runs, t \in Threads : HoldsItsData(t, run'[r][t])
    BY <1>6, NotRunningFacts DEF Crash
  <2>3. RunsOK'  BY <2>1, <2>2 DEF RunsOK
  <2>4. setup' \in [step : {"query", "store", "done"},
                    read : {None} \cup IF timer = "auction" THEN Nat ELSE Snapshot]
        /\ setup'.step = "query"
    BY <1>6 DEF Crash
  <2> QED  BY <1>1, <1>6, <2>3, <2>4 DEF Crash, TypeOK, StepsHoldTheirData, RunsOK, world
<1>7. CASE SetupQuery
  <2>1. RunsOK'  BY <1>3, <1>7 DEF SetupQuery
  <2>2. setup' = [step |-> "store", read |-> IF timer = "auction" THEN auction.id ELSE proposals]
    BY <1>7 DEF SetupQuery
  <2>3. setup'.read \in IF timer = "auction" THEN Nat ELSE Snapshot
    BY <2>2 DEF TypeOK
  <2> QED  BY <1>1, <1>7, <2>1, <2>2, <2>3 DEF SetupQuery, TypeOK, StepsHoldTheirData, RunsOK, world
<1>8. CASE SetupStore
  <2>1. RunsOK'  BY <1>3, <1>8 DEF SetupStore
  <2>2. setup.read \in IF timer = "auction" THEN Nat ELSE Snapshot
    BY <1>8 DEF SetupStore, StepsHoldTheirData
  <2>3. cache' \in [auction : Nat, bid : Bid \cup {None}, soon : Nat,
                    proposals : Snapshot, warned : SUBSET Proposals]
    <3>1. CASE timer = "auction"
      BY <1>8, <2>2, <3>1 DEF SetupStore, TypeOK
    <3>2. CASE timer # "auction"
      <4> DEFINE known == {p \in Proposals : setup.read[p] # None}
                 both == [p \in Proposals |-> IF p \in known THEN setup.read[p] ELSE cache.proposals[p]]
      <4>1. both \in Snapshot  BY <2>2, <3>2 DEF Snapshot, TypeOK
      <4>2. cache' = [cache EXCEPT !.proposals = both]  BY <1>8, <3>2 DEF SetupStore
      <4> HIDE DEF both
      <4> QED  BY <4>1, <4>2 DEF TypeOK
    <3> QED  BY <3>1, <3>2
  <2> QED  BY <1>1, <1>8, <2>1, <2>3 DEF SetupStore, TypeOK, StepsHoldTheirData, RunsOK, world
<1>9. ASSUME NEW r \in Runs, StartAuctionTick(r)
      PROVE  TypeOK' /\ StepsHoldTheirData'
  <2> DEFINE d == [NotRunning EXCEPT !.id = cache.auction, !.known = cache.bid, !.soon = cache.soon]
  <2>1. timer = "auction" /\ UNCHANGED <<world, timer, cache, setup, posted>> /\ overlapped' \in BOOLEAN
    BY <1>9 DEF StartAuctionTick, Starts, TypeOK
  <2>2. d \in Chain  BY <2>1 DEF NotRunning, Chain, TypeOK
  <2>3. "auction" \in Threads /\ "query" \in Steps  BY DEF Threads, Steps
  <2>4. Continue(r, "auction", d, "query")  BY <1>9 DEF StartAuctionTick
  <2> HIDE DEF d
  <2>5. PICK e \in Chain : /\ run' = [run EXCEPT ![r]["auction"] = e]
                           /\ e = NotRunning \/ e.pc = "query"
    BY <2>2, <2>3, <2>4, ContinueFacts
  <2>6. e.pc = "query" => HoldsItsData("auction", e)  BY <2>1 DEF HoldsItsData, AuctionSteps
  <2>7. RunsOK'  BY <1>2, <2>1, <2>3, <2>5, <2>6, StopOrMove
  <2> QED  BY <1>4, <2>1, <2>7 DEF world, TypeOK
<1>10. ASSUME NEW r \in Runs, StartGovernanceTick(r)
       PROVE  TypeOK' /\ StepsHoldTheirData'
  <2> DEFINE new(t) == IF t = "auction" \/ proposals[t] = None THEN NotRunning
                       ELSE [NotRunning EXCEPT !.last = proposals[t], !.pc = "read"]
  <2>1. timer = "governance" /\ UNCHANGED <<world, timer, cache, setup, posted>> /\ overlapped' \in BOOLEAN
    BY <1>10 DEF StartGovernanceTick, Starts, TypeOK
  <2>2. Chain' = Chain /\ \A t, d : HoldsItsData(t, d)' <=> HoldsItsData(t, d)
    BY <2>1 DEF Chain, HoldsItsData
  <2>3. ASSUME NEW t \in Threads PROVE new(t) \in Chain /\ HoldsItsData(t, new(t))
    <3>1. CASE t = "auction" \/ proposals[t] = None  BY <3>1, NotRunningFacts
    <3>2. CASE t # "auction" /\ proposals[t] # None
      <4>1. proposals[t] \in Proposal  BY <3>2 DEF Threads, TypeOK, Snapshot
      <4>2. /\ new(t) \in Chain /\ new(t).pc = "read" /\ new(t).last = proposals[t]
        BY <2>1, <3>2, <4>1 DEF NotRunning, Chain, ProposalSteps
      <4> HIDE DEF new
      <4> QED  BY <2>1, <3>2, <4>1, <4>2 DEF HoldsItsData, ProposalSteps
    <3> QED  BY <3>1, <3>2
  <2>4. run' = [run EXCEPT ![r] = [t \in Threads |-> new(t)]]  BY <1>10 DEF StartGovernanceTick
  <2> HIDE DEF new
  <2>5. run' \in [Runs -> [Threads -> Chain]]  BY <1>2, <2>3, <2>4 DEF RunsOK
  <2>6. ASSUME NEW s \in Runs, NEW t \in Threads PROVE HoldsItsData(t, run'[s][t])
    BY <1>2, <2>3, <2>4 DEF RunsOK
  <2>7. RunsOK'  BY <2>2, <2>5, <2>6 DEF RunsOK
  <2> QED  BY <1>4, <2>1, <2>7 DEF world, TypeOK
<1>11. CASE UNCHANGED vars
  <2>1. RunsOK'  BY <1>3, <1>11 DEF vars
  <2> QED  BY <1>4, <1>11, <2>1 DEF vars, TypeOK
<1> QED  BY <1>5, <1>6, <1>7, <1>8, <1>9, <1>10, <1>11 DEF Setup, Starting

\* The types, and the data each step relies on, through every step.
LEMMA NextTyped ==
    ASSUME TypeOK, StepsHoldTheirData, [Next]_vars
    PROVE  TypeOK' /\ StepsHoldTheirData'
BY OthersTyped, AuctionRunTyped, GovernanceRunTyped DEF Next, Step

-----------------------------------------------------------------------------
(* The cache of a proposal. *)

\* A chain that moves on holds what was told, and telling more takes nothing back.
LEMMA MoveKeepsHanded ==
    ASSUME TypeOK, ChainsHanded, NEW r \in Runs, NEW t \in Threads, NEW d \in Chain,
           run' = [run EXCEPT ![r][t] = d], told \subseteq told',
           t \in Proposals => d = NotRunning \/ WasHanded(t, d)'
    PROVE  ChainsHanded'
<1>1. /\ run'[r][t] = d
      /\ \A s \in Runs, u \in Threads : s # r \/ u # t => run'[s][u] = run[s][u]
  BY MovedFacts DEF TypeOK
<1>2. ASSUME NEW s \in Runs, NEW p \in Proposals PROVE (WasHanded(p, run[s][p]))'
  <2>1. p \in Threads  BY DEF Threads
  <2>2. CASE s = r /\ p = t
    BY <1>1, <2>2, NotRunningFacts DEF WasHanded
  <2>3. CASE ~(s = r /\ p = t)
    <3>1. run'[s][p] = run[s][p]  BY <1>1, <2>1, <2>3
    <3>2. WasHanded(p, run[s][p])  BY DEF ChainsHanded
    <3> QED  BY <3>1, <3>2 DEF WasHanded
  <2> QED  BY <2>2, <2>3
<1> QED  BY <1>2 DEF ChainsHanded

\* A step of an auction run moves the auction chain and no cached proposal.
LEMMA AuctionRunHanded ==
    ASSUME TypeOK, CacheNeverAhead, ChainsHanded, NEW r \in Runs,
           \/ GetLastAuctionBids(r) \/ DiscoverAuction(r)
           \/ HandleNewAuction(r) \/ CheckBid(r) \/ HandleNewBid(r)
           \/ UpdateEndingSoonCache(r) \/ HandleAuctionEndingSoon(r)
    PROVE  CacheNeverAhead' /\ ChainsHanded'
<1>1. UNCHANGED <<handed, seeded>> /\ cache'.proposals = cache.proposals
  BY DEF GetLastAuctionBids, DiscoverAuction, HandleNewAuction, CheckBid, HandleNewBid,
         UpdateEndingSoonCache, HandleAuctionEndingSoon, TypeOK
<1>2. \E x : run' = [run EXCEPT ![r]["auction"] = x]
  BY DEF GetLastAuctionBids, DiscoverAuction, HandleNewAuction, CheckBid, HandleNewBid,
         UpdateEndingSoonCache, HandleAuctionEndingSoon, Post, Deliver, Rejected, Goto, Continue
<1>3. ASSUME NEW s \in Runs, NEW p \in Proposals PROVE run'[s][p] = run[s][p]
  <2>1. p # "auction"  BY BotsAssumption
  <2>2. run \in [Runs -> [Threads -> Chain]] /\ p \in Threads  BY DEF TypeOK, Threads
  <2> QED  BY <1>2, <2>1, <2>2
<1> QED  BY <1>1, <1>3 DEF CacheNeverAhead, told, ChainsHanded, WasHanded

\* A step of a governance run: the cache is written last, from what was told.
LEMMA GovernanceRunHanded ==
    ASSUME TypeOK, StepsHoldTheirData, CacheNeverAhead, ChainsHanded,
           NEW r \in Runs, NEW p \in Proposals,
           \/ ReadProposalCache(r, p) \/ HandleNewProposal(r, p) \/ HandleUpdatedProposal(r, p)
           \/ HasWarnedOfExpiry(r, p) \/ HandleProposalAtRiskOfExpiry(r, p)
           \/ SetProposalExpiryWarningSent(r, p) \/ UpdateProposalCache(r, p)
    PROVE  CacheNeverAhead' /\ ChainsHanded'
<1> DEFINE c == run[r][p]
           late == {"hasWarned", "warn", "mark", "store"}
<1>0. UNCHANGED <<handed, seeded>> => told' = told  BY DEF told
<1>1. p \in Threads /\ c \in Chain /\ WasHanded(p, c)
  BY DEF TypeOK, Threads, ChainsHanded
<1>2. ASSUME cache'.proposals = cache.proposals, told \subseteq told'
      PROVE  CacheNeverAhead'
  BY <1>2 DEF CacheNeverAhead, told
<1>3. ASSUME told \subseteq told',
             \E d \in Chain : /\ run' = [run EXCEPT ![r][p] = d]
                              /\ d = NotRunning \/ WasHanded(p, d)'
      PROVE  ChainsHanded'
  BY <1>1, <1>3, MoveKeepsHanded
<1>4. \A d : d.pc \in late /\ Facts(p, d.last) \subseteq told' => WasHanded(p, d)'
  BY DEF WasHanded
<1>5. late \cup {"idle"} \subseteq Steps  BY DEF Steps, ProposalSteps
<1> HIDE DEF c, late
\* A chain that goes on to a late step is over, or hands on what it had.
<1>6. ASSUME NEW next \in late \cup {"idle"}, Goto(r, p, next) \/ Deliver(r, p, next),
             Facts(p, c.last) \subseteq told', told \subseteq told'
      PROVE  ChainsHanded'
  <2>1. Goto(r, p, next) => Continue(r, p, c, next)  BY DEF Goto, c
  <2>2. PICK e \in Chain : /\ run' = [run EXCEPT ![r][p] = e]
                           /\ e = NotRunning \/ (next # "idle" /\ e.pc = next /\ e.last = c.last)
    BY <1>1, <1>5, <1>6, <2>1, ContinueFacts, DeliverFacts DEF c
  <2> QED  BY <1>3, <1>4, <1>6, <2>2
<1>7. CASE ReadProposalCache(r, p)
  <2> DEFINE d == [c EXCEPT !.known = cache.proposals[p]]
             next == IF cache.proposals[p] = None THEN "new" ELSE "status"
  <2>1. /\ Continue(r, p, d, next) /\ UNCHANGED <<cache, handed, seeded, timer>>
        /\ c.pc = "read"
    BY <1>7 DEF ReadProposalCache, At, c
  <2>2. timer = "governance"
    BY <2>1, NotRunningFacts, BotsAssumption, <1>1
       DEF StepsHoldTheirData, HoldsItsData, TypeOK, c
  <2>3. d \in Chain /\ d.known = cache.proposals[p]
    BY <1>1, <2>2 DEF Chain, TypeOK, Snapshot
  <2>4. next \in Steps  BY DEF Steps, ProposalSteps
  <2>5. next = "status" => Facts(p, cache.proposals[p]) \subseteq told
    BY DEF CacheNeverAhead, told
  <2>6. next \in {"new", "status"}  OBVIOUS
  <2> HIDE DEF d, next
  <2>7. PICK e \in Chain : /\ run' = [run EXCEPT ![r][p] = e]
                           /\ e = NotRunning \/ (e.pc = next /\ e.known = d.known)
    BY <1>1, <2>1, <2>3, <2>4, ContinueFacts
  <2>8. e = NotRunning \/ WasHanded(p, e)'
    BY <1>0, <2>1, <2>3, <2>5, <2>6, <2>7 DEF WasHanded
  <2> QED  BY <1>0, <1>2, <1>3, <2>1, <2>7, <2>8
<1>8. CASE HandleNewProposal(r, p)
  <2>1. /\ Deliver(r, p, "store") /\ UNCHANGED cache
        /\ UNCHANGED seeded
        /\ handed' = IF faults' = faults THEN handed \cup Facts(p, c.last) ELSE handed
    BY <1>8 DEF HandleNewProposal, c
  <2>2. PICK e \in Chain : /\ run' = [run EXCEPT ![r][p] = e]
                           /\ \/ e = NotRunning
                              \/ e.pc = "store" /\ e.last = c.last /\ UNCHANGED faults
    BY <1>1, <1>5, <2>1, DeliverFacts DEF c, late
  <2>3. e = NotRunning \/ Facts(p, e.last) \subseteq told'
    BY <2>1, <2>2 DEF told
  <2>4. e = NotRunning \/ WasHanded(p, e)'
    BY <1>4, <2>2, <2>3 DEF late
  <2>5. told \subseteq told'  BY <2>1 DEF told
  <2> QED  BY <1>2, <1>3, <2>1, <2>2, <2>4, <2>5
<1>9. CASE HandleUpdatedProposal(r, p)
  <2> DEFINE next == IF IsAtRiskOfExpiry(p, c.last) THEN "hasWarned" ELSE "store"
             d == [c EXCEPT !.known = None]
             news == (IF c.known.status # c.last.status THEN {<<"status", p, c.last.status>>} ELSE {})
                     \cup {<<"vote", p, v>> : v \in ExtractNewVotes(c.known, c.last)}
  <2>1. /\ c.pc = "status" /\ UNCHANGED cache
        /\ Deliver(r, p, next) \/ (Continue(r, p, d, next) /\ UNCHANGED faults)
        /\ UNCHANGED seeded
        /\ handed' = IF faults' = faults THEN handed \cup news ELSE handed
    BY <1>9 DEF HandleUpdatedProposal, At, c
  <2>2. Facts(p, c.last) \subseteq told \cup news
    BY <1>1, <2>1 DEF WasHanded, Facts, ExtractNewVotes
  <2>3. next \in Steps /\ next \in late /\ next # "idle"  BY DEF Steps, ProposalSteps, late
  <2>4. d \in Chain /\ d.last = c.last  BY <1>1 DEF Chain
  <2> HIDE DEF d, next, news
  <2>5. PICK e \in Chain : /\ run' = [run EXCEPT ![r][p] = e]
                           /\ \/ e = NotRunning
                              \/ e.pc = next /\ e.last = c.last /\ UNCHANGED faults
    <3>1. CASE Deliver(r, p, next)
      BY <1>1, <2>3, <3>1, DeliverFacts DEF c
    <3>2. CASE Continue(r, p, d, next) /\ UNCHANGED faults
      BY <1>1, <2>3, <2>4, <3>2, ContinueFacts
    <3> QED  BY <2>1, <3>1, <3>2
  <2>6. e = NotRunning \/ Facts(p, e.last) \subseteq told'
    BY <2>1, <2>2, <2>5 DEF told
  <2>7. e = NotRunning \/ WasHanded(p, e)'
    BY <1>4, <2>3, <2>5, <2>6
  <2>8. told \subseteq told'  BY <2>1 DEF told
  <2> QED  BY <1>2, <1>3, <2>1, <2>5, <2>7, <2>8
\* The other steps hand nothing out.
<1>10. ASSUME c.pc \in late PROVE Facts(p, c.last) \subseteq told
  BY <1>1, <1>10 DEF WasHanded, late
<1>11. CASE HasWarnedOfExpiry(r, p)
  <2>1. /\ c.pc \in late /\ UNCHANGED <<cache, handed, seeded>>
        /\ Goto(r, p, "store") \/ Goto(r, p, "warn")
    BY <1>11 DEF HasWarnedOfExpiry, At, c, late
  <2> QED  BY <1>0, <1>2, <1>6, <1>10, <2>1 DEF late
<1>12. CASE HandleProposalAtRiskOfExpiry(r, p)
  <2>1. c.pc \in late /\ UNCHANGED <<cache, handed, seeded>> /\ Deliver(r, p, "mark")
    BY <1>12 DEF HandleProposalAtRiskOfExpiry, Post, At, c, late
  <2> QED  BY <1>0, <1>2, <1>6, <1>10, <2>1 DEF late
<1>13. CASE SetProposalExpiryWarningSent(r, p)
  <2>1. /\ c.pc \in late /\ UNCHANGED <<handed, seeded>> /\ Goto(r, p, "store")
        /\ cache' = [cache EXCEPT !.warned = @ \cup {p}]
    BY <1>13 DEF SetProposalExpiryWarningSent, At, c, late
  <2>2. cache'.proposals = cache.proposals  BY <2>1 DEF TypeOK
  <2> QED  BY <1>0, <1>2, <1>6, <1>10, <2>1, <2>2 DEF late
<1>14. CASE UpdateProposalCache(r, p)
  <2>1. /\ c.pc \in late /\ UNCHANGED <<handed, seeded>> /\ Goto(r, p, "idle")
        /\ cache' = [cache EXCEPT !.proposals[p] = c.last]
    BY <1>14 DEF UpdateProposalCache, At, c, late
  <2>2. cache'.proposals = [cache.proposals EXCEPT ![p] = c.last]
    BY <2>1 DEF TypeOK
  <2>3. \A q \in Proposals : cache'.proposals[q] = IF q = p THEN c.last ELSE cache.proposals[q]
    BY <2>2 DEF TypeOK, Snapshot
  <2>4. CacheNeverAhead'  BY <1>10, <2>1, <2>3 DEF CacheNeverAhead, told
  <2>5. Goto(r, p, "idle") /\ "idle" \in late \cup {"idle"}  BY <2>1
  <2> QED  BY <1>0, <1>6, <1>10, <2>1, <2>4, <2>5
<1> QED  BY <1>7, <1>8, <1>9, <1>11, <1>12, <1>13, <1>14

\* The subgraph, a crash, the setup and the start of a run hand nothing out, and cache
\* nothing but what the setup has read.
LEMMA OthersHanded ==
    ASSUME TypeOK, StepsHoldTheirData, CacheNeverAhead, ChainsHanded,
           World \/ Crash \/ Setup \/ Starting \/ UNCHANGED vars
    PROVE  CacheNeverAhead' /\ ChainsHanded'
<1>1. ASSUME UNCHANGED <<cache, run, handed, seeded>> PROVE CacheNeverAhead' /\ ChainsHanded'
  BY <1>1 DEF CacheNeverAhead, told, ChainsHanded, WasHanded
<1>2. CASE World
  BY <1>1, <1>2 DEF World, NewAuction, NewBid, EndsSoon, NewProposal, NewStatus, NewVote, Ages, bot
<1>3. CASE UNCHANGED vars
  BY <1>1, <1>3 DEF vars
<1>4. CASE Crash
  <2>1. \A r \in Runs, p \in Proposals : run'[r][p] = NotRunning  BY <1>4 DEF Crash, Threads
  <2> QED  BY <1>4, <2>1, NotRunningFacts DEF Crash, CacheNeverAhead, ChainsHanded, WasHanded
<1>5. CASE SetupQuery
  BY <1>1, <1>5 DEF SetupQuery
<1>6. CASE SetupStore
  <2>1. ASSUME told \subseteq told' PROVE ChainsHanded'
    BY <1>6, <2>1 DEF SetupStore, ChainsHanded, WasHanded
  <2>2. CASE timer = "auction"
    <3>1. cache'.proposals = cache.proposals /\ UNCHANGED <<handed, seeded>>
      BY <1>6, <2>2 DEF SetupStore, TypeOK
    <3> QED  BY <2>1, <3>1 DEF CacheNeverAhead, told
  <2>3. CASE timer # "auction"
    <3> DEFINE known == {p \in Proposals : setup.read[p] # None}
               both == [p \in Proposals |-> IF p \in known THEN setup.read[p] ELSE cache.proposals[p]]
    <3>1. /\ cache' = [cache EXCEPT !.proposals = both]
          /\ UNCHANGED handed
          /\ seeded' = seeded \cup UNION {Facts(p, setup.read[p]) : p \in known}
      BY <1>6, <2>3 DEF SetupStore
    <3>2. cache'.proposals = both
      <4> HIDE DEF both
      <4> QED  BY <3>1 DEF TypeOK
    <3>3. ASSUME NEW p \in Proposals, cache'.proposals[p] # None
          PROVE  Facts(p, cache'.proposals[p]) \subseteq told'
      <4>1. CASE p \in known
        <5>1. cache'.proposals[p] = setup.read[p]  BY <3>2, <4>1
        <5>2. Facts(p, setup.read[p]) \in {Facts(q, setup.read[q]) : q \in known}  BY <4>1
        <5> HIDE DEF known
        <5> QED  BY <3>1, <5>1, <5>2 DEF told
      <4>2. CASE p \notin known
        <5>1. cache'.proposals[p] = cache.proposals[p]  BY <3>2, <4>2
        <5> HIDE DEF known
        <5> QED  BY <3>1, <3>3, <5>1 DEF CacheNeverAhead, told
      <4> QED  BY <4>1, <4>2
    <3> HIDE DEF known
    <3>4. told \subseteq told'  BY <3>1 DEF told
    <3> QED  BY <2>1, <3>3, <3>4 DEF CacheNeverAhead, told
  <2> QED  BY <2>2, <2>3
<1>7. ASSUME NEW r \in Runs, StartAuctionTick(r) PROVE CacheNeverAhead' /\ ChainsHanded'
  <2>1. \E x : run' = [run EXCEPT ![r]["auction"] = x]  BY <1>7 DEF StartAuctionTick, Continue
  <2>2. ASSUME NEW s \in Runs, NEW p \in Proposals PROVE run'[s][p] = run[s][p]
    <3>1. p # "auction"  BY BotsAssumption
    <3>2. run \in [Runs -> [Threads -> Chain]] /\ p \in Threads  BY DEF TypeOK, Threads
    <3> QED  BY <2>1, <3>1, <3>2
  <2> QED  BY <1>7, <2>2 DEF StartAuctionTick, CacheNeverAhead, ChainsHanded, WasHanded, told
<1>8. ASSUME NEW r \in Runs, StartGovernanceTick(r) PROVE CacheNeverAhead' /\ ChainsHanded'
  <2> DEFINE new(t) == IF t = "auction" \/ proposals[t] = None THEN NotRunning
                       ELSE [NotRunning EXCEPT !.last = proposals[t], !.pc = "read"]
  <2>1. run' = [run EXCEPT ![r] = [t \in Threads |-> new(t)]] /\ UNCHANGED <<cache, handed, seeded>>
    BY <1>8 DEF StartGovernanceTick
  <2>2. \A t : new(t).pc \in {"idle", "read"}  BY DEF NotRunning
  <2>3. run \in [Runs -> [Threads -> Chain]]  BY DEF TypeOK
  <2> HIDE DEF new
  <2>4. ASSUME NEW s \in Runs, NEW p \in Proposals PROVE (WasHanded(p, run[s][p]))'
    <3>1. p \in Threads  BY DEF Threads
    <3>2. CASE s = r
      <4>1. run'[s][p] = new(p)  BY <2>1, <2>3, <3>1, <3>2
      <4> QED  BY <2>2, <4>1 DEF WasHanded
    <3>3. CASE s # r
      <4>1. run'[s][p] = run[s][p]  BY <2>1, <2>3, <3>1, <3>3
      <4>2. WasHanded(p, run[s][p])  BY DEF ChainsHanded
      <4> QED  BY <2>1, <4>1, <4>2 DEF WasHanded, told
    <3> QED  BY <3>2, <3>3
  <2> QED  BY <2>1, <2>4 DEF CacheNeverAhead, told, ChainsHanded
<1> QED  BY <1>2, <1>3, <1>4, <1>5, <1>6, <1>7, <1>8 DEF Setup, Starting

-----------------------------------------------------------------------------
(* Messages about auctions. *)

\* While runs do not overlap, the run in progress may change the cache freely: there is
\* no other to hold an older copy of it, and no setup under way.
LEMMA MoveKeepsAhead ==
    ASSUME TypeOK, OneAtATime, NEW r \in Runs, run[r]["auction"] # NotRunning,
           NEW d \in Chain, run' = [run EXCEPT ![r]["auction"] = d], UNCHANGED setup,
           d = NotRunning \/ IsAhead(d)'
    PROVE  OneAtATime' /\ RunAheadOfCache' /\ setup.step = "done"
<1>1. "auction" \in Threads  BY DEF Threads
<1>2. /\ run'[r]["auction"] = d
      /\ \A s \in Runs : s # r => run'[s]["auction"] = run[s]["auction"]
  BY <1>1, MovedFacts DEF TypeOK
<1>3. setup.step = "done"  BY DEF OneAtATime
<1>4. \A s \in Runs : s # r => run'[s]["auction"] = NotRunning
  BY <1>2 DEF OneAtATime
<1>5. OneAtATime'  BY <1>3, <1>4 DEF OneAtATime
<1>6. ASSUME NEW s \in Runs PROVE IsAhead(run[s]["auction"])'
  <2>1. CASE s # r \/ d = NotRunning
    <3>1. run'[s]["auction"].pc = "idle"  BY <1>2, <1>4, <2>1, NotRunningFacts
    <3> QED  BY <3>1 DEF IsAhead
  <2>2. CASE s = r /\ d # NotRunning
    BY <1>2, <2>2 DEF IsAhead
  <2> QED  BY <2>1, <2>2
<1> QED  BY <1>3, <1>5, <1>6 DEF RunAheadOfCache

\* A bid that was taken stays taken, and the subgraph only goes on.
LEMMA WorldMovesOn ==
    ASSUME TypeOK, auction.bid # None => auction.bid[1] = auction.id, World
    PROVE  /\ auction'.id \in Nat /\ auction.id <= auction'.id
           /\ auction'.bid # None => auction'.bid[1] = auction'.id
           /\ \A b \in Bid : Taken(b) => Taken(b)'
<1>1. auction.id \in Nat /\ auction.bid \in Bid \cup {None}  BY DEF TypeOK
<1>2. CASE UNCHANGED auction
  BY <1>1, <1>2 DEF Taken
<1>3. CASE EndsSoon
  <2>1. auction'.id = auction.id /\ auction'.bid = auction.bid  BY <1>3 DEF EndsSoon, TypeOK
  <2> QED  BY <1>1, <2>1 DEF Taken
<1>4. CASE NewAuction
  <2>1. auction'.id = auction.id + 1 /\ auction'.bid = None  BY <1>4 DEF NewAuction
  <2>2. ASSUME NEW b \in Bid, Taken(b) PROVE b[1] < auction.id + 1
    BY <1>1, <2>2 DEF Taken, NotAfter, Bid
  <2> QED  BY <1>1, <2>1, <2>2 DEF Taken
<1>5. ASSUME NEW v \in 1..MaxBids, NewBid(v)
      PROVE  /\ auction'.id = auction.id /\ auction'.bid[1] = auction.id
             /\ \A b \in Bid : Taken(b) => Taken(b)'
  <2>1. /\ auction'.id = auction.id /\ auction'.bid = <<auction.id, v>>
        /\ auction.bid # None => auction.bid[2] < v
    BY <1>5 DEF NewBid, TypeOK
  <2>2. v \in Nat  OBVIOUS
  <2>3. auction'.bid # None  BY <1>1, <2>1, <2>2, BotsAssumption
  <2>4. ASSUME NEW b \in Bid, Taken(b) PROVE b[1] < auction.id \/ (b[1] = auction.id /\ b[2] <= v)
    BY <1>1, <2>1, <2>2, <2>4 DEF Taken, NotAfter, Bid
  <2> QED  BY <1>1, <2>1, <2>3, <2>4 DEF Taken, NotAfter
<1> QED  BY <1>1, <1>2, <1>3, <1>4, <1>5 DEF World, NewProposal, NewStatus, NewVote, Ages

\* The subgraph going on leaves cache, messages and runs in step.
LEMMA WorldNoRepeat ==
    ASSUME TypeOK, StepsHoldTheirData, timer = "auction", NoRepeat, World
    PROVE  NoRepeat'
<1>1. UNCHANGED bot
  BY DEF World, NewAuction, NewBid, EndsSoon, NewProposal, NewStatus, NewVote, Ages
<1>2. UNCHANGED <<cache, setup, run, posted, repeated>>  BY <1>1 DEF bot
<1>3. /\ auction'.id \in Nat /\ auction.id <= auction'.id
      /\ auction'.bid # None => auction'.bid[1] = auction'.id
      /\ \A b \in Bid : Taken(b) => Taken(b)'
  BY WorldMovesOn DEF NoRepeat, CacheBehindSubgraph
<1>4. CacheBehindSubgraph'
  BY <1>2, <1>3 DEF NoRepeat, CacheBehindSubgraph, TypeOK, StepsHoldTheirData
<1>5. ASSUME NEW r \in Runs PROVE IsAhead(run[r]["auction"])'
  <2> DEFINE c == run[r]["auction"]
  <2>1. HoldsItsData("auction", c) /\ IsAhead(c)
    BY DEF StepsHoldTheirData, Threads, NoRepeat, RunAheadOfCache
  <2>2. c.pc \in AuctionSteps => c.last.id \in Nat /\ c.last.bid \in Bid \cup {None}
    BY <2>1 DEF HoldsItsData, Todo
  <2>3. c' = c  BY <1>2
  <2> HIDE DEF c
  <2>4. IsAhead(c)'
    BY <1>2, <1>3, <2>1, <2>2, <2>3 DEF IsAhead, AuctionSteps, TypeOK
  <2> QED  BY <2>4 DEF c
<1> QED  BY <1>2, <1>4, <1>5 DEF NoRepeat, OneAtATime, PostedBehindCache, RunAheadOfCache

\* A crash loses the runs and keeps redis; the setup caches what it read.
LEMMA RestartNoRepeat ==
    ASSUME TypeOK, StepsHoldTheirData, timer = "auction", NoRepeat,
           Crash \/ SetupQuery \/ SetupStore \/ UNCHANGED vars
    PROVE  NoRepeat'
<1>1. UNCHANGED <<auction, posted, repeated>>
  BY DEF Crash, SetupQuery, SetupStore, vars, world
<1>2. \A b : Taken(b)' <=> Taken(b)  BY <1>1 DEF Taken
<1>3. ASSUME \A r \in Runs : run'[r]["auction"] = NotRunning
      PROVE  OneAtATime' /\ RunAheadOfCache'
  BY <1>3, NotRunningFacts DEF OneAtATime, RunAheadOfCache, IsAhead
<1>4. CASE Crash
  <2>1. \A r \in Runs : run'[r]["auction"] = NotRunning  BY <1>4 DEF Crash, Threads
  <2>2. UNCHANGED cache /\ setup'.step = "query"  BY <1>4 DEF Crash
  <2> QED  BY <1>1, <1>2, <1>3, <2>1, <2>2 DEF NoRepeat, CacheBehindSubgraph, PostedBehindCache
<1>5. CASE SetupQuery
  <2>1. \A r \in Runs : run'[r]["auction"] = NotRunning
    BY <1>5 DEF SetupQuery, NoRepeat, OneAtATime
  <2>2. UNCHANGED cache /\ setup'.read = auction.id  BY <1>5 DEF SetupQuery
  <2>3. auction.id \in Nat  BY DEF TypeOK
  <2> QED  BY <1>1, <1>2, <1>3, <2>1, <2>2, <2>3 DEF NoRepeat, CacheBehindSubgraph, PostedBehindCache
<1>6. CASE SetupStore
  <2>1. \A r \in Runs : run'[r]["auction"] = NotRunning
    BY <1>6 DEF SetupStore, NoRepeat, OneAtATime
  <2>2. /\ cache' = [cache EXCEPT !.auction = setup.read] /\ setup.step = "store"
        /\ setup'.step = "done"
    BY <1>6 DEF SetupStore
  <2>3. setup.read \in Nat /\ cache.auction \in Nat  BY <2>2 DEF StepsHoldTheirData, TypeOK
  <2>4. cache'.auction = setup.read /\ cache'.bid = cache.bid /\ cache'.soon = cache.soon
    BY <2>2 DEF TypeOK
  <2>5. cache.auction <= setup.read /\ setup.read <= auction.id
    BY <2>2 DEF NoRepeat, CacheBehindSubgraph
  <2>6. \A msg \in posted : msg[1] = "auction" => msg[2] \in Nat
    BY DEF TypeOK, Message
  <2>7. PostedBehindCache'
    BY <1>1, <2>3, <2>4, <2>5, <2>6 DEF NoRepeat, PostedBehindCache
  <2> QED  BY <1>1, <1>2, <1>3, <2>1, <2>2, <2>4, <2>5, <2>7 DEF NoRepeat, CacheBehindSubgraph
<1>7. CASE UNCHANGED vars
  BY <1>1, <1>2, <1>7
     DEF vars, NoRepeat, OneAtATime, CacheBehindSubgraph, PostedBehindCache, RunAheadOfCache, IsAhead
<1> QED  BY <1>4, <1>5, <1>6, <1>7

\* A step of a run, one by one: what is posted is new to the cache, and the cache holds
\* it before it is posted.
LEMMA AuctionRunNoRepeat ==
    ASSUME TypeOK, StepsHoldTheirData, timer = "auction", NoRepeat, NEW r \in Runs,
           \/ GetLastAuctionBids(r) \/ DiscoverAuction(r)
           \/ HandleNewAuction(r) \/ CheckBid(r) \/ HandleNewBid(r)
           \/ UpdateEndingSoonCache(r) \/ HandleAuctionEndingSoon(r)
    PROVE  NoRepeat'
<1> DEFINE c == run[r]["auction"]
<1>1. "auction" \in Threads /\ c \in Chain /\ HoldsItsData("auction", c) /\ IsAhead(c)
  BY DEF TypeOK, Threads, StepsHoldTheirData, NoRepeat, RunAheadOfCache
<1>2. /\ UNCHANGED <<auction, setup>> /\ c # NotRunning
      /\ c.pc \in {"query"} \cup AuctionSteps
  <2>1. UNCHANGED <<auction, setup>> /\ c.pc \in {"query"} \cup AuctionSteps
    BY DEF GetLastAuctionBids, DiscoverAuction, HandleNewAuction, CheckBid, HandleNewBid,
           UpdateEndingSoonCache, HandleAuctionEndingSoon, At, world, AuctionSteps
  <2> QED  BY <2>1, NotRunningFacts DEF AuctionSteps
<1>3. \A b : Taken(b)' <=> Taken(b)  BY <1>2 DEF Taken
<1>4. c.pc \in AuctionSteps => /\ c.last.id \in Nat /\ c.last.bid \in Bid \cup {None}
                               /\ c.last.soon \in BOOLEAN
  BY <1>1 DEF HoldsItsData, Todo
<1>5. /\ auction.id \in Nat /\ auction.bid \in Bid \cup {None} /\ auction.soon \in BOOLEAN
      /\ cache.auction \in Nat /\ cache.bid \in Bid \cup {None} /\ cache.soon \in Nat
  BY DEF TypeOK
<1>6. \A msg \in posted : /\ msg[1] \in {"auction", "soon"} => msg[2] \in Nat
                          /\ msg[1] = "bid" => msg[2] \in Bid \cup {None}
  BY DEF TypeOK, Message
<1>7. ASSUME NEW d \in Chain, run' = [run EXCEPT ![r]["auction"] = d],
             d = NotRunning \/ IsAhead(d)', CacheBehindSubgraph', PostedBehindCache', repeated' = {}
      PROVE  NoRepeat'
  BY <1>2, <1>7, MoveKeepsAhead DEF NoRepeat
<1>8. setup.step = "done" /\ setup'.step = "done"  BY <1>2 DEF NoRepeat, OneAtATime
<1>9. ASSUME UNCHANGED cache PROVE CacheBehindSubgraph'
  BY <1>2, <1>3, <1>9 DEF NoRepeat, CacheBehindSubgraph
<1>10. ASSUME UNCHANGED <<cache, posted>> PROVE PostedBehindCache'
  BY <1>10 DEF NoRepeat, PostedBehindCache
<1>11. repeated = {}  BY DEF NoRepeat
<1> HIDE DEF c
\* A chain that goes on from c to a step at which it is ahead of the cache.
<1>12. ASSUME NEW next \in Steps, Goto(r, "auction", next) \/ Deliver(r, "auction", next),
              \A d \in Chain : next # "idle" /\ d.pc = next /\ d.last = c.last => IsAhead(d)',
              CacheBehindSubgraph', PostedBehindCache', repeated' = {}
       PROVE  NoRepeat'
  <2>1. Goto(r, "auction", next) => Continue(r, "auction", c, next)  BY DEF Goto, c
  <2>2. PICK e \in Chain : /\ run' = [run EXCEPT ![r]["auction"] = e]
                           /\ e = NotRunning \/ (next # "idle" /\ e.pc = next /\ e.last = c.last)
    BY <1>1, <1>12, <2>1, ContinueFacts, DeliverFacts DEF c
  <2> QED  BY <1>7, <1>12, <2>2
<1>13. "idle" \in Steps /\ AuctionSteps \subseteq Steps  BY DEF Steps
\* A chain that is rejected, having changed nothing.
<1>14. ASSUME Rejected(r, "auction"), UNCHANGED <<cache, posted, repeated>> PROVE NoRepeat'
  <2>1. Goto(r, "auction", "idle")  BY <1>14 DEF Rejected
  <2> QED  BY <1>9, <1>10, <1>11, <1>12, <1>13, <1>14, <2>1
\* What has been posted was not posted before.
<1>15. ASSUME NEW msg, msg \notin posted, msg[1] # "warning", NEW next,
              Post(r, "auction", msg, next)
       PROVE  repeated' = {} /\ posted' \in {posted, posted \cup {msg}} /\ Deliver(r, "auction", next)
  BY <1>11, <1>15 DEF Post
<1>16. CASE GetLastAuctionBids(r)
  <2> DEFINE todo == LastAuctionBids(c)
             d == [NotRunning EXCEPT !.last = todo]
             next == IF c.id < auction.id THEN "discover" ELSE "bid"
  <2>1. /\ c.pc = "query" /\ UNCHANGED <<cache, posted, repeated>>
        /\ Continue(r, "auction", d, next) \/ Rejected(r, "auction")
    BY <1>16 DEF GetLastAuctionBids, At, c
  <2>2. c.id = cache.auction /\ c.known = cache.bid /\ c.soon = cache.soon
    BY <1>1, <2>1 DEF IsAhead
  <2>3. /\ todo \in Todo /\ todo.id = auction.id
        /\ todo.bid = IF auction.bid = cache.bid THEN None ELSE auction.bid
        /\ todo.soon => cache.soon < auction.id
    BY <1>5, <2>2 DEF LastAuctionBids, Todo
  <2>4. d \in Chain /\ d.last = todo  BY <2>3 DEF NotRunning, Chain
  <2>5. next \in {"discover", "bid"} /\ (next = "discover" => cache.auction < auction.id)
    BY <2>2
  <2>6. ASSUME todo.bid # None
        PROVE  Taken(todo.bid) /\ (cache.bid # None => ~NotAfter(todo.bid, cache.bid))
    <3>1. todo.bid = auction.bid /\ auction.bid # None /\ auction.bid # cache.bid
      BY <2>3, <2>6
    <3>2. auction.bid \in Bid /\ auction.bid[1] = auction.id
      BY <1>5, <3>1 DEF NoRepeat, CacheBehindSubgraph
    <3>3. Taken(auction.bid)  BY <3>1, <3>2 DEF Taken, NotAfter, Bid
    <3>4. ASSUME cache.bid # None PROVE ~NotAfter(auction.bid, cache.bid)
      <4>1. cache.bid \in Bid /\ Taken(cache.bid)  BY <1>5, <3>4 DEF NoRepeat, CacheBehindSubgraph
      <4>2. cache.bid[1] < auction.id \/ NotAfter(cache.bid, auction.bid)  BY <4>1 DEF Taken
      <4>3. auction.bid[1] # cache.bid[1] \/ auction.bid[2] # cache.bid[2]
        BY <3>1, <3>2, <4>1 DEF Bid
      <4> QED  BY <1>5, <3>2, <4>1, <4>2, <4>3 DEF NotAfter, Bid
    <3> QED  BY <3>1, <3>3, <3>4
  <2> HIDE DEF d, todo, next
  <2>7. CASE Continue(r, "auction", d, next)
    <3>1. next \in Steps /\ next # "idle"  BY <2>5 DEF Steps, AuctionSteps
    <3>2. PICK e \in Chain : /\ run' = [run EXCEPT ![r]["auction"] = e]
                             /\ e = NotRunning \/ (e.pc = next /\ e.last = todo)
      BY <1>1, <2>4, <2>7, <3>1, ContinueFacts
    <3>3. ASSUME e # NotRunning PROVE IsAhead(e)'
      BY <1>2, <1>3, <1>5, <2>1, <2>3, <2>5, <2>6, <3>2, <3>3 DEF IsAhead
    <3> QED  BY <1>7, <1>9, <1>10, <1>11, <2>1, <3>2, <3>3
  <2> QED  BY <1>14, <2>1, <2>7
<1>17. CASE DiscoverAuction(r)
  <2>1. /\ c.pc = "discover" /\ UNCHANGED <<posted, repeated>>
        /\ \/ cache' = [cache EXCEPT !.auction = c.last.id] /\ Goto(r, "auction", "announce")
           \/ Rejected(r, "auction") /\ UNCHANGED cache
    BY <1>17 DEF DiscoverAuction, At, c
  <2>2. CASE cache' = [cache EXCEPT !.auction = c.last.id] /\ Goto(r, "auction", "announce")
    <3>1. cache'.auction = c.last.id /\ cache'.bid = cache.bid /\ cache'.soon = cache.soon
      BY <2>2 DEF TypeOK
    <3>2. c.last.id \in Nat /\ cache.auction < c.last.id /\ c.last.id <= auction.id
      BY <1>1, <1>4, <2>1 DEF IsAhead, AuctionSteps
    <3>3. CacheBehindSubgraph'
      BY <1>2, <1>3, <1>8, <3>1, <3>2 DEF NoRepeat, CacheBehindSubgraph
    <3>4. PostedBehindCache'
      BY <1>5, <1>6, <2>1, <3>1, <3>2 DEF NoRepeat, PostedBehindCache
    <3>5. <<"auction", c.last.id>> \notin posted
      <4>1. ASSUME <<"auction", c.last.id>> \in posted PROVE c.last.id <= cache.auction
        <5> DEFINE m == <<"auction", c.last.id>>
        <5>1. m \in posted /\ m[1] = "auction" /\ m[2] = c.last.id  BY <4>1
        <5> HIDE DEF m
        <5> QED  BY <5>1 DEF NoRepeat, PostedBehindCache
      <4> QED  BY <1>5, <3>2, <4>1
    <3>6. ASSUME NEW d \in Chain, d.pc = "announce", d.last = c.last PROVE IsAhead(d)'
      BY <1>1, <1>3, <2>1, <3>1, <3>5, <3>6 DEF IsAhead
    <3> QED  BY <1>11, <1>12, <1>13, <2>1, <2>2, <3>3, <3>4, <3>6 DEF AuctionSteps
  <2> QED  BY <1>14, <2>1, <2>2
<1>18. CASE HandleNewAuction(r)
  <2> DEFINE msg == <<"auction", c.last.id>>
  <2>1. c.pc = "announce" /\ UNCHANGED cache /\ Post(r, "auction", msg, "bid")
    BY <1>18 DEF HandleNewAuction, At, c
  <2>2. msg \notin posted /\ cache.auction = c.last.id  BY <1>1, <2>1 DEF IsAhead
  <2>3. msg[1] = "auction" /\ msg[2] = c.last.id  OBVIOUS
  <2> HIDE DEF msg
  <2>4. repeated' = {} /\ posted' \in {posted, posted \cup {msg}} /\ Deliver(r, "auction", "bid")
    BY <1>15, <2>1, <2>2, <2>3
  <2>5. PostedBehindCache'
    BY <1>5, <2>1, <2>2, <2>3, <2>4 DEF NoRepeat, PostedBehindCache
  <2>6. ASSUME NEW d \in Chain, d.pc = "bid", d.last = c.last PROVE IsAhead(d)'
    BY <1>1, <1>3, <2>1, <2>6 DEF IsAhead
  <2> QED  BY <1>9, <1>12, <1>13, <2>1, <2>4, <2>5, <2>6 DEF AuctionSteps
<1>19. CASE CheckBid(r)
  <2>1. /\ c.pc = "bid" /\ UNCHANGED <<posted, repeated>>
        /\ \/ /\ cache' = IF c.last.bid # None THEN [cache EXCEPT !.bid = c.last.bid] ELSE cache
              /\ Goto(r, "auction", IF c.last.bid # None THEN "postBid" ELSE AfterBid(c.last))
           \/ Rejected(r, "auction") /\ UNCHANGED cache
    BY <1>19 DEF CheckBid, At, c
  <2>2. CASE /\ c.last.bid # None
             /\ cache' = [cache EXCEPT !.bid = c.last.bid]
             /\ Goto(r, "auction", "postBid")
    <3>1. cache'.auction = cache.auction /\ cache'.bid = c.last.bid /\ cache'.soon = cache.soon
      BY <2>2 DEF TypeOK
    <3>2. /\ c.last.bid \in Bid /\ Taken(c.last.bid)
          /\ cache.bid # None => cache.bid \in Bid /\ ~NotAfter(c.last.bid, cache.bid)
      BY <1>1, <1>4, <1>5, <2>1, <2>2 DEF IsAhead, AuctionSteps
    <3>3. CacheBehindSubgraph'
      BY <1>2, <1>3, <1>8, <3>1, <3>2 DEF NoRepeat, CacheBehindSubgraph
    <3>4. ASSUME NEW msg \in posted, msg[1] = "bid"
          PROVE  msg[2] \in Bid /\ NotAfter(msg[2], c.last.bid) /\ msg[2] # c.last.bid /\ msg[2] # None
      <4>1. cache.bid # None /\ msg[2] # None /\ NotAfter(msg[2], cache.bid)
        BY <3>4 DEF NoRepeat, PostedBehindCache
      <4>2. msg[2] \in Bid  BY <1>6, <3>4, <4>1
      <4> QED  BY <3>2, <4>1, <4>2 DEF NotAfter, Bid
    <3>5. PostedBehindCache'
      BY <2>1, <2>2, <3>1, <3>4 DEF NoRepeat, PostedBehindCache
    <3>6. <<"bid", c.last.bid>> \notin posted
      <4> DEFINE m == <<"bid", c.last.bid>>
      <4>1. m[1] = "bid" /\ m[2] = c.last.bid  OBVIOUS
      <4> HIDE DEF m
      <4>2. m \notin posted  BY <3>4, <4>1
      <4> QED  BY <4>2 DEF m
    <3>7. ASSUME NEW d \in Chain, d.pc = "postBid", d.last = c.last PROVE IsAhead(d)'
      BY <1>1, <1>3, <2>1, <2>2, <3>1, <3>6, <3>7 DEF IsAhead
    <3> QED  BY <1>11, <1>12, <1>13, <2>1, <2>2, <3>3, <3>5, <3>7 DEF AuctionSteps
  <2>3. CASE c.last.bid = None /\ UNCHANGED cache /\ Goto(r, "auction", AfterBid(c.last))
    <3>1. ASSUME NEW d \in Chain, d.pc = "soon", c.last.soon, d.last = c.last PROVE IsAhead(d)'
      BY <1>1, <1>3, <2>1, <2>3, <3>1 DEF IsAhead
    <3>2. AfterBid(c.last) = (IF c.last.soon THEN "soon" ELSE "idle")  BY DEF AfterBid
    <3> QED  BY <1>9, <1>10, <1>11, <1>12, <1>13, <2>1, <2>3, <3>1, <3>2 DEF AuctionSteps
  <2> QED  BY <1>14, <2>1, <2>2, <2>3
<1>20. CASE HandleNewBid(r)
  <2> DEFINE msg == <<"bid", c.last.bid>>
  <2>1. c.pc = "postBid" /\ UNCHANGED cache /\ Post(r, "auction", msg, AfterBid(c.last))
    BY <1>20 DEF HandleNewBid, At, c
  <2>2. msg \notin posted /\ c.last.bid # None /\ cache.bid = c.last.bid
    BY <1>1, <2>1 DEF IsAhead
  <2>3. msg[1] = "bid" /\ msg[2] = c.last.bid  OBVIOUS
  <2> HIDE DEF msg
  <2>4. /\ repeated' = {} /\ posted' \in {posted, posted \cup {msg}}
        /\ Deliver(r, "auction", AfterBid(c.last))
    BY <1>15, <2>1, <2>2, <2>3
  <2>5. c.last.bid \in Bid  BY <1>4, <2>1, <2>2 DEF AuctionSteps
  <2>6. NotAfter(c.last.bid, c.last.bid)  BY <2>5 DEF NotAfter, Bid
  <2>7. PostedBehindCache'
    BY <2>1, <2>2, <2>3, <2>4, <2>6 DEF NoRepeat, PostedBehindCache
  <2>8. ASSUME NEW d \in Chain, d.pc = "soon", c.last.soon, d.last = c.last PROVE IsAhead(d)'
    BY <1>1, <1>3, <2>1, <2>8 DEF IsAhead
  <2>9. AfterBid(c.last) = (IF c.last.soon THEN "soon" ELSE "idle")  BY DEF AfterBid
  <2> QED  BY <1>9, <1>12, <1>13, <2>1, <2>4, <2>7, <2>8, <2>9 DEF AuctionSteps
<1>21. CASE UpdateEndingSoonCache(r)
  <2>1. /\ c.pc = "soon" /\ UNCHANGED <<posted, repeated>>
        /\ cache' = [cache EXCEPT !.soon = c.last.id] /\ Goto(r, "auction", "postSoon")
    BY <1>21 DEF UpdateEndingSoonCache, At, c
  <2>2. cache'.auction = cache.auction /\ cache'.bid = cache.bid /\ cache'.soon = c.last.id
    BY <2>1 DEF TypeOK
  <2>3. c.last.id \in Nat /\ cache.soon < c.last.id
    BY <1>1, <1>4, <2>1 DEF IsAhead, AuctionSteps
  <2>4. CacheBehindSubgraph'
    BY <1>2, <1>3, <1>8, <2>2 DEF NoRepeat, CacheBehindSubgraph
  <2>5. PostedBehindCache'
    BY <1>5, <1>6, <2>1, <2>2, <2>3 DEF NoRepeat, PostedBehindCache
  <2>6. <<"soon", c.last.id>> \notin posted
    <3> DEFINE m == <<"soon", c.last.id>>
    <3>1. m[1] = "soon" /\ m[2] = c.last.id  OBVIOUS
    <3> HIDE DEF m
    <3>2. m \notin posted  BY <1>5, <2>3, <3>1 DEF NoRepeat, PostedBehindCache
    <3> QED  BY <3>2 DEF m
  <2>7. ASSUME NEW d \in Chain, d.pc = "postSoon", d.last = c.last PROVE IsAhead(d)'
    BY <2>1, <2>2, <2>6, <2>7 DEF IsAhead
  <2> QED  BY <1>11, <1>12, <1>13, <2>1, <2>4, <2>5, <2>7 DEF AuctionSteps
<1>22. CASE HandleAuctionEndingSoon(r)
  <2> DEFINE msg == <<"soon", c.last.id>>
  <2>1. c.pc = "postSoon" /\ UNCHANGED cache /\ Post(r, "auction", msg, "idle")
    BY <1>22 DEF HandleAuctionEndingSoon, At, c
  <2>2. msg \notin posted /\ cache.soon = c.last.id  BY <1>1, <2>1 DEF IsAhead
  <2>3. msg[1] = "soon" /\ msg[2] = c.last.id  OBVIOUS
  <2> HIDE DEF msg
  <2>4. repeated' = {} /\ posted' \in {posted, posted \cup {msg}} /\ Deliver(r, "auction", "idle")
    BY <1>15, <2>1, <2>2, <2>3
  <2>5. PostedBehindCache'
    BY <1>5, <2>1, <2>2, <2>3, <2>4 DEF NoRepeat, PostedBehindCache
  <2> QED  BY <1>9, <1>12, <1>13, <2>1, <2>4, <2>5
<1> QED  BY <1>16, <1>17, <1>18, <1>19, <1>20, <1>21, <1>22

-----------------------------------------------------------------------------
\* The inductive invariant holds at first.
LEMMA InitBotsInv == Init => BotsInv
<1> SUFFICES ASSUME Init PROVE BotsInv
  OBVIOUS
<1>1. \A r \in Runs, t \in Threads : run[r][t] = NotRunning  BY DEF Init
<1>2. CacheNeverAhead  BY DEF Init, Redis, CacheNeverAhead
<1>3. ChainsHanded  BY <1>1, NotRunningFacts DEF ChainsHanded, WasHanded, Threads
<1>4. OneAtATime /\ RunAheadOfCache
  BY <1>1, NotRunningFacts DEF OneAtATime, RunAheadOfCache, IsAhead, Threads
<1>5. CacheBehindSubgraph  BY DEF Init, Redis, CacheBehindSubgraph
<1>6. PostedBehindCache  BY DEF Init, PostedBehindCache
<1>7. repeated = {}  BY DEF Init
<1> QED
  BY <1>2, <1>3, <1>4, <1>5, <1>6, <1>7, InitTyped DEF BotsInv, NoRepeatInv, NoRepeat

\* No step caches what was neither handed nor read by the setup.
LEMMA NextHanded ==
    ASSUME TypeOK, StepsHoldTheirData, CacheNeverAhead, ChainsHanded, [Next]_vars
    PROVE  CacheNeverAhead' /\ ChainsHanded'
BY OthersHanded, AuctionRunHanded, GovernanceRunHanded DEF Next, Step

\* The governance timer posts nothing but warnings; its runs move no auction chain.
LEMMA GovernanceNoRepeat ==
    ASSUME TypeOK, StepsHoldTheirData, timer = "governance", repeated = {}, [Next]_vars
    PROVE  repeated' = {}
<1>1. ASSUME NEW r \in Runs PROVE run[r]["auction"].pc = "idle"
  <2>1. HoldsItsData("auction", run[r]["auction"])  BY DEF StepsHoldTheirData, Threads
  <2> QED  BY <2>1, NotRunningFacts DEF HoldsItsData
<1>2. ASSUME NEW r \in Runs, Step(r) PROVE repeated' = {}
  <2>1. CASE \/ GetLastAuctionBids(r) \/ DiscoverAuction(r)
             \/ HandleNewAuction(r) \/ CheckBid(r) \/ HandleNewBid(r)
             \/ UpdateEndingSoonCache(r) \/ HandleAuctionEndingSoon(r)
    BY <1>1, <2>1 DEF GetLastAuctionBids, DiscoverAuction, HandleNewAuction, CheckBid, HandleNewBid,
           UpdateEndingSoonCache, HandleAuctionEndingSoon, At
  <2>2. ASSUME NEW p \in Proposals,
               \/ ReadProposalCache(r, p) \/ HandleNewProposal(r, p) \/ HandleUpdatedProposal(r, p)
               \/ HasWarnedOfExpiry(r, p)
               \/ SetProposalExpiryWarningSent(r, p) \/ UpdateProposalCache(r, p)
        PROVE  repeated' = {}
    BY <2>2 DEF ReadProposalCache, HandleNewProposal, HandleUpdatedProposal, HasWarnedOfExpiry,
           SetProposalExpiryWarningSent, UpdateProposalCache
  <2>3. ASSUME NEW p \in Proposals, HandleProposalAtRiskOfExpiry(r, p) PROVE repeated' = {}
    <3>1. Post(r, p, <<"warning", p>>, "mark")  BY <2>3 DEF HandleProposalAtRiskOfExpiry
    <3> QED  BY <3>1 DEF Post
  <2> QED  BY <1>2, <2>1, <2>2, <2>3 DEF Step
<1>3. CASE World \/ Crash \/ Setup \/ Starting \/ UNCHANGED vars
  BY <1>3 DEF World, NewAuction, NewBid, EndsSoon, NewProposal, NewStatus, NewVote, Ages, bot,
         Crash, Setup, SetupQuery, SetupStore, Starting, StartAuctionTick, StartGovernanceTick, vars
<1> QED  BY <1>2, <1>3 DEF Next

\* A run that starts when nothing else is in progress reads the cache as it is.
LEMMA StartNoRepeat ==
    ASSUME TypeOK, StepsHoldTheirData, timer = "auction", NoRepeat, NEW r \in Runs,
           StartAuctionTick(r), ~overlapped'
    PROVE  NoRepeat'
<1> DEFINE d == [NotRunning EXCEPT !.id = cache.auction, !.known = cache.bid, !.soon = cache.soon]
<1>1. /\ UNCHANGED <<world, cache, setup, posted, repeated>>
      /\ Continue(r, "auction", d, "query")
      /\ setup.step = "done" /\ \A s \in Runs : Idle(s)
  BY DEF StartAuctionTick, Starts
<1>2. \A s \in Runs : run[s]["auction"] = NotRunning  BY <1>1 DEF Idle, Threads
<1>3. d \in Chain /\ d.id = cache.auction /\ d.known = cache.bid /\ d.soon = cache.soon
  BY DEF NotRunning, Chain, TypeOK
<1>4. "auction" \in Threads /\ "query" \in Steps  BY DEF Threads, Steps
<1> HIDE DEF d
<1>5. PICK e \in Chain : /\ run' = [run EXCEPT ![r]["auction"] = e]
                         /\ \/ e = NotRunning
                            \/ /\ e.pc = "query" /\ e.id = cache.auction
                               /\ e.known = cache.bid /\ e.soon = cache.soon
  BY <1>1, <1>3, <1>4, ContinueFacts
<1>6. /\ run'[r]["auction"] = e
      /\ \A s \in Runs : s # r => run'[s]["auction"] = NotRunning
  BY <1>2, <1>4, <1>5, MovedFacts DEF TypeOK
<1>7. IsAhead(e)' /\ IsAhead(NotRunning)'  BY <1>1, <1>5, NotRunningFacts DEF IsAhead
<1>8. RunAheadOfCache'
  <2>1. ASSUME NEW s \in Runs PROVE IsAhead(run[s]["auction"])'
    <3>1. CASE s = r  BY <1>6, <1>7, <3>1 DEF IsAhead
    <3>2. CASE s # r  BY <1>6, <1>7, <3>2 DEF IsAhead
    <3> QED  BY <3>1, <3>2
  <2> QED  BY <2>1 DEF RunAheadOfCache
<1>9. OneAtATime'  BY <1>1, <1>6 DEF OneAtATime
<1> QED
  BY <1>1, <1>8, <1>9 DEF NoRepeat, CacheBehindSubgraph, PostedBehindCache, Taken, world

\* No step of an auction run that overlaps nothing repeats a message.
LEMMA NextNoRepeat ==
    ASSUME TypeOK, StepsHoldTheirData, NoRepeatInv, [Next]_vars
    PROVE  NoRepeatInv'
<1>1. UNCHANGED timer
  BY DEF Next, World, NewAuction, NewBid, EndsSoon, NewProposal, NewStatus, NewVote, Ages, bot,
         Crash, Setup, SetupQuery, SetupStore, Starting, StartAuctionTick, StartGovernanceTick, vars,
         Step, GetLastAuctionBids, DiscoverAuction, HandleNewAuction, CheckBid, HandleNewBid,
         UpdateEndingSoonCache, HandleAuctionEndingSoon, ReadProposalCache, HandleNewProposal,
         HandleUpdatedProposal, HasWarnedOfExpiry, SetProposalExpiryWarningSent, UpdateProposalCache,
         HandleProposalAtRiskOfExpiry
<1>2. CASE timer = "governance"
  BY <1>1, <1>2, GovernanceNoRepeat DEF NoRepeatInv
<1>3. CASE timer = "auction" /\ ~overlapped'
  <2>1. ~overlapped
    BY <1>3 DEF Next, World, NewAuction, NewBid, EndsSoon, NewProposal, NewStatus, NewVote, Ages, bot,
         Crash, Setup, SetupQuery, SetupStore, Starting, StartAuctionTick, StartGovernanceTick, Starts,
         vars, Step, GetLastAuctionBids, DiscoverAuction, HandleNewAuction, CheckBid, HandleNewBid,
         UpdateEndingSoonCache, HandleAuctionEndingSoon, ReadProposalCache, HandleNewProposal,
         HandleUpdatedProposal, HasWarnedOfExpiry, SetProposalExpiryWarningSent, UpdateProposalCache,
         HandleProposalAtRiskOfExpiry
  <2>2. NoRepeat  BY <1>3, <2>1 DEF NoRepeatInv
  <2> SUFFICES NoRepeat'  BY <1>1, <1>3 DEF NoRepeatInv
  <2>3. ASSUME NEW r \in Runs, Step(r) PROVE NoRepeat'
    <3>1. ASSUME NEW p \in Proposals PROVE run[r][p].pc = "idle"
      <4>1. p \in Threads /\ p # "auction"
        <5>1. p # "auction"  BY BotsAssumption
        <5> QED  BY <5>1 DEF Threads
      <4>2. HoldsItsData(p, run[r][p])  BY <4>1 DEF StepsHoldTheirData
      <4> QED  BY <1>3, <4>1, <4>2, NotRunningFacts DEF HoldsItsData
    <3>2. \A p \in Proposals :
             ~ (\/ ReadProposalCache(r, p) \/ HandleNewProposal(r, p) \/ HandleUpdatedProposal(r, p)
                \/ HasWarnedOfExpiry(r, p) \/ HandleProposalAtRiskOfExpiry(r, p)
                \/ SetProposalExpiryWarningSent(r, p) \/ UpdateProposalCache(r, p))
      BY <3>1 DEF ReadProposalCache, HandleNewProposal, HandleUpdatedProposal, HasWarnedOfExpiry,
             SetProposalExpiryWarningSent, UpdateProposalCache, HandleProposalAtRiskOfExpiry, At
    <3> QED  BY <1>3, <2>2, <2>3, <3>2, AuctionRunNoRepeat DEF Step
  <2>4. ASSUME NEW r \in Runs, StartAuctionTick(r) \/ StartGovernanceTick(r) PROVE NoRepeat'
    BY <1>3, <2>2, <2>4, StartNoRepeat DEF StartGovernanceTick
  <2>5. CASE World \/ Crash \/ Setup \/ UNCHANGED vars
    <3>1. CASE World
      BY <1>3, <2>2, <3>1, WorldNoRepeat
    <3>2. CASE Crash \/ SetupQuery \/ SetupStore \/ UNCHANGED vars
      BY <1>3, <2>2, <3>2, RestartNoRepeat
    <3> QED  BY <2>5, <3>1, <3>2 DEF Setup
  <2>6. CASE Starting
    BY <2>4, <2>6 DEF Starting
  <2>7. CASE \E r \in Runs : Step(r)
    BY <2>3, <2>7
  <2> QED  BY <2>5, <2>6, <2>7 DEF Next
<1> QED  BY <1>1, <1>2, <1>3 DEF TypeOK, NoRepeatInv

\* The types hold and each step of a run has the data it uses, the cache of a proposal
\* holds only what was told, and auction runs that do not overlap repeat nothing
\* (processAuctionTick, processGovernanceTick and their setups).
THEOREM BotsInvHolds == Spec => []BotsInv
<1>1. Init => BotsInv  BY InitBotsInv
<1>2. BotsInv /\ [Next]_vars => BotsInv'
  BY NextTyped, NextHanded, NextNoRepeat DEF BotsInv
<1> QED  BY <1>1, <1>2, PTL DEF Spec

-----------------------------------------------------------------------------
\* Whatever overlaps, fails or crashes, redis holds no status and no vote but those that
\* the handlers were given, or that a run saw with a new proposal, or that
\* setupGovernance stored without telling anyone (updateProposalCache, which a run calls
\* after its handlers): only a restart hides news.
THEOREM OnlySetupHidesNews == Spec => []CacheNeverAhead
<1>1. BotsInv => CacheNeverAhead  BY DEF BotsInv
<1> QED  BY <1>1, BotsInvHolds, PTL

\* For any number of auctions, bids, failed requests and crashes: as long as the runs of
\* processAuctionTick do not overlap, no message about an auction is posted twice.
THEOREM SerialRunsPostOnce == Spec => []PostedAtMostOnce
<1>1. BotsInv => PostedAtMostOnce  BY DEF BotsInv, NoRepeatInv, NoRepeat, PostedAtMostOnce
<1> QED  BY <1>1, BotsInvHolds, PTL
=============================================================================
