---------------------------- MODULE AlpsSubgraph ----------------------------
(***************************************************************************)
(* The subgraph following the contracts: a transaction changes the chain   *)
(* and the handlers of SubgraphHandlers process its events, in the order   *)
(* the contracts emit them. No handler reads the chain and graph-node      *)
(* commits the entities of a block together, so a transaction and its      *)
(* indexing are one step; the lag between the two is not visible here.     *)
(*                                                                         *)
(* The votes of an account are those of its representative's tokens, what  *)
(* VotesConserved of ERC721Checkpointable_proofs shows of the token. The   *)
(* governor is reduced to what its events depend on; AlpsDAOLogicV2 has    *)
(* the rest.                                                               *)
(***************************************************************************)
EXTENDS SubgraphHandlers, FiniteSets, SequencesExt

CONSTANTS
    Holders,      \* accounts that trade, delegate, bid and vote
    House,        \* the auction house, which the token mints to
    Treasury,     \* owner() of the token: the creator in the logs of a mint
    HallOfFame,   \* the address that gets the Alps nobody bid for
    RewardIds,    \* the Alps that go to the alpers instead of an auction
    Alper,        \* who gets those
    ParamSets,    \* dynamic quorum parameters a proposal may set
    FirstParams,  \* the ones the governor is initialized with
    MaxAlps,      \* bound: Alps minted
    MaxProposals, \* bound: proposals
    MaxBlock,     \* bound: block.number
    MaxTx         \* bound: transactions

Accounts == Holders \cup {House, Treasury, HallOfFame}
Param == [min : 0..10000, max : 0..10000, coefficient : Nat]

\* The house is a contract that trades with nobody, and the alpers are not the treasury:
\* the second log of a mint would be from the treasury to itself.
ASSUME AccountsAssumption ==
    /\ IsFiniteSet(Holders) /\ Alper \in Holders
    /\ Zero \notin Accounts
    /\ House \notin Holders \cup {Treasury, HallOfFame} /\ Alper # Treasury
ASSUME NoneAssumption == None \notin Accounts \cup {Zero} \cup Nat

\* _setDynamicQuorumParams() refuses a minimum above the maximum.
ASSUME ParamsAssumption ==
    /\ FirstParams \in ParamSets
    /\ \A p \in ParamSets : p \in Param /\ p.min <= p.max

VARIABLES
    owner,       \* the owner of each Alp minted so far, Zero when burned
    delegateOf,  \* _delegates of the token
    house,       \* the auction of the house: [alp, amount, bidder, endTime, settled]
    proposals,   \* the proposals of the governor
    params,      \* the dynamic quorum parameters at the end of each block
    block,
    txs,         \* transactions so far
    selfSent,    \* history: the accounts that have sent an Alp to themselves
    store        \* the entities of the subgraph

vars == <<owner, delegateOf, house, proposals, params, block, txs, selfSent, store>>

Alps == DOMAIN owner
Rep(a) == IF delegateOf[a] = Zero THEN a ELSE delegateOf[a]
AlpsOf(a) == {t \in Alps : owner[t] = a}
RepresentedBy(a) == {t \in Alps : owner[t] # Zero /\ Rep(owner[t]) = a}
Votes(a) == Cardinality(RepresentedBy(a))
Supply == Cardinality({t \in Alps : owner[t] # Zero})

-----------------------------------------------------------------------------
(* The events of the contracts. *)

\* _moveDelegates and _writeCheckpoint
VoteEvents(src, dst, n) ==
    LET moved(a, new) == [event |-> "DelegateVotesChanged", delegate |-> a,
                          previous |-> Votes(a), new |-> new]
    IN  IF src = dst \/ n = 0 THEN << >>
        ELSE (IF src = Zero THEN << >> ELSE <<moved(src, Votes(src) - n)>>)
             \o (IF dst = Zero THEN << >> ELSE <<moved(dst, Votes(dst) + n)>>)

Transferred(from, to, t) == [event |-> "Transfer", from |-> from, to |-> to, token |-> t]

\* _mint names the creator first, then the receiver.
MintEvents(to, t) ==
    VoteEvents(Zero, Rep(to), 1) \o <<Transferred(Zero, Treasury, t), Transferred(Treasury, to, t)>>

TransferEvents(from, to, t) ==
    VoteEvents(Rep(from), IF to = Zero THEN Zero ELSE Rep(to), 1) \o <<Transferred(from, to, t)>>

ParamEvents(p, at) ==
    << [event |-> "QuorumParamSet", param |-> "min", value |-> p.min, block |-> at],
       [event |-> "QuorumParamSet", param |-> "max", value |-> p.max, block |-> at],
       [event |-> "QuorumParamSet", param |-> "coefficient", value |-> p.coefficient, block |-> at] >>

\* Every transaction is indexed, its events in order.
Indexed(events) ==
    /\ txs < MaxTx
    /\ txs' = txs + 1
    /\ store' = FoldLeft(Handle, store, events)

-----------------------------------------------------------------------------
NoAuction == [alp |-> 0, amount |-> 0, bidder |-> None, endTime |-> 0, settled |-> TRUE]

\* initialize() of the governor has set the parameters, in block 0.
Init ==
    /\ owner = << >>
    /\ delegateOf = [a \in Accounts |-> Zero]
    /\ house = NoAuction
    /\ proposals = << >>
    /\ params = <<FirstParams>>
    /\ block = 1
    /\ txs = 0
    /\ selfSent = {}
    /\ store = FoldLeft(Handle, EmptyStore, ParamEvents(FirstParams, 0))

\* mint() of the token for the alpers: the reward Alp comes before the auctioned one.
MintReward ==
    /\ Len(owner) + 1 \in RewardIds
    /\ Len(owner) < MaxAlps
    /\ owner' = Append(owner, Alper)
    /\ Indexed(MintEvents(Alper, Len(owner) + 1))
    /\ UNCHANGED <<delegateOf, house, proposals, params, block, selfSent>>

\* _createAuction(), once the previous auction is settled.
CreateAuction ==
    LET t == Len(owner) + 1
    IN  /\ t \notin RewardIds
        /\ t <= MaxAlps
        /\ house.settled
        /\ owner' = Append(owner, House)
        /\ house' = [alp |-> t, amount |-> 0, bidder |-> None, endTime |-> block + 1, settled |-> FALSE]
        /\ Indexed(Append(MintEvents(House, t),
                          [event |-> "AuctionCreated", token |-> t, endTime |-> block + 1]))
        /\ UNCHANGED <<delegateOf, proposals, params, block, selfSent>>

\* createBid(); a bid in the last block of the auction extends it.
Bid(bidder) ==
    LET value == house.amount + 1
        extended == house.endTime = block + 1
        placed == [event |-> "AuctionBid", token |-> house.alp, sender |-> bidder,
                   value |-> value, hash |-> txs]
        moved == [event |-> "AuctionExtended", token |-> house.alp, endTime |-> block + 2]
    IN  /\ ~house.settled
        /\ block < house.endTime
        /\ house' = [house EXCEPT !.amount = value, !.bidder = bidder,
                                  !.endTime = IF extended THEN block + 2 ELSE @]
        /\ Indexed(IF extended THEN <<placed, moved>> ELSE <<placed>>)
        /\ UNCHANGED <<owner, delegateOf, proposals, params, block, selfSent>>

\* _settleAuction()
Settle ==
    LET winner == IF house.bidder = None THEN HallOfFame ELSE house.bidder
    IN  /\ ~house.settled
        /\ block >= house.endTime
        /\ house' = [house EXCEPT !.settled = TRUE]
        /\ owner' = [owner EXCEPT ![house.alp] = winner]
        /\ Indexed(Append(TransferEvents(House, winner, house.alp),
                          [event |-> "AuctionSettled", token |-> house.alp]))
        /\ UNCHANGED <<delegateOf, proposals, params, block, selfSent>>

\* transferFrom() of a holder, to itself included
Transfer(t, to) ==
    /\ owner[t] \in Holders
    /\ owner' = [owner EXCEPT ![t] = to]
    /\ selfSent' = IF to = owner[t] THEN selfSent \cup {to} ELSE selfSent
    /\ Indexed(TransferEvents(owner[t], to, t))
    /\ UNCHANGED <<delegateOf, house, proposals, params, block>>

\* burn(), by whoever is the minter
Burn(t) ==
    /\ owner[t] \in Holders
    /\ owner' = [owner EXCEPT ![t] = Zero]
    /\ Indexed(TransferEvents(owner[t], Zero, t))
    /\ UNCHANGED <<delegateOf, house, proposals, params, block, selfSent>>

\* delegate()
Delegate(a, d) ==
    /\ delegateOf' = [delegateOf EXCEPT ![a] = d]
    /\ Indexed(<<[event |-> "DelegateChanged", delegator |-> a, from |-> Rep(a), to |-> d]>>
               \o VoteEvents(Rep(a), d, Cardinality(AlpsOf(a))))
    /\ UNCHANGED <<owner, house, proposals, params, block, selfSent>>

\* propose(): the supply is kept, the parameters are those at the end of the block.
Propose(proposer) ==
    LET p == params[block]
    IN  /\ Len(proposals) < MaxProposals
        /\ Votes(proposer) > 0
        /\ proposals' = Append(proposals,
               [created |-> block, supply |-> Supply, seen |-> p,
                snapshot |-> [a \in Holders |-> Votes(a)], voted |-> {}, for |-> 0, against |-> 0,
                queued |-> FALSE, executed |-> FALSE, canceled |-> FALSE, vetoed |-> FALSE])
        /\ Indexed(<<[event |-> "ProposalCreated", id |-> Len(proposals) + 1, proposer |-> proposer,
                      block |-> block, startBlock |-> block + 1,
                      quorumVotes |-> (Supply * p.min) \div 10000]>>)
        /\ UNCHANGED <<owner, delegateOf, house, params, block, selfSent>>

Open(i) == LET p == proposals[i] IN ~(p.queued \/ p.executed \/ p.canceled \/ p.vetoed)

\* quorumVotes() of the governor
QuorumVotes(i) ==
    DynamicQuorumVotes(proposals[i].against, proposals[i].supply, params[proposals[i].created])

\* castVote(), from the block after the proposal's
CastVote(i, voter, support) ==
    LET votes == proposals[i].snapshot[voter]
    IN  /\ Open(i)
        /\ block > proposals[i].created
        /\ voter \notin proposals[i].voted
        /\ proposals' = [proposals EXCEPT ![i].voted = @ \cup {voter},
                             ![i].for = IF support = 1 THEN @ + votes ELSE @,
                             ![i].against = IF support = 0 THEN @ + votes ELSE @]
        /\ Indexed(<<[event |-> "VoteCast", voter |-> voter, id |-> i, support |-> support,
                      votes |-> votes]>>)
        /\ UNCHANGED <<owner, delegateOf, house, params, block, selfSent>>

\* queue(), execute(), cancel() and veto(): a proposal may be cancelled or vetoed
\* again, at any time before its execution.
Advance(i, event, field) ==
    /\ proposals' = [proposals EXCEPT ![i][field] = TRUE]
    /\ Indexed(<<[event |-> event, id |-> i]>>)
    /\ UNCHANGED <<owner, delegateOf, house, params, block, selfSent>>

Queue(i) ==
    /\ Open(i)
    /\ block > proposals[i].created
    /\ proposals[i].for > proposals[i].against
    /\ proposals[i].for >= QuorumVotes(i)
    /\ Advance(i, "ProposalQueued", "queued")

Execute(i) ==
    /\ proposals[i].queued
    /\ ~(proposals[i].executed \/ proposals[i].canceled \/ proposals[i].vetoed)
    /\ Advance(i, "ProposalExecuted", "executed")

Cancel(i) == ~proposals[i].executed /\ Advance(i, "ProposalCanceled", "canceled")
Veto(i) == ~proposals[i].executed /\ Advance(i, "ProposalVetoed", "vetoed")

\* _setDynamicQuorumParams()
SetParams(p) ==
    /\ p # params[block]
    /\ params' = [params EXCEPT ![block] = p]
    /\ Indexed(ParamEvents(p, block))
    /\ UNCHANGED <<owner, delegateOf, house, proposals, block, selfSent>>

NextBlock ==
    /\ block < MaxBlock
    /\ block' = block + 1
    /\ params' = Append(params, params[block])
    /\ UNCHANGED <<owner, delegateOf, house, proposals, txs, selfSent, store>>

Next ==
    \/ MintReward
    \/ CreateAuction
    \/ \E bidder \in Holders : Bid(bidder)
    \/ Settle
    \/ \E t \in Alps, to \in Holders : Transfer(t, to)
    \/ \E t \in Alps : Burn(t)
    \/ \E a, d \in Holders : Delegate(a, d)
    \/ \E proposer \in Holders : Propose(proposer)
    \/ \E i \in DOMAIN proposals, voter \in Holders, support \in 0..2 : CastVote(i, voter, support)
    \/ \E i \in DOMAIN proposals : Queue(i) \/ Execute(i) \/ Cancel(i) \/ Veto(i)
    \/ \E p \in ParamSets : SetParams(p)
    \/ NextBlock

Spec == Init /\ [][Next]_vars

-----------------------------------------------------------------------------
\* The owner of every Alp in the store is its owner on the chain, and an account's
\* list and balance are its Alps on the chain as long as it has never sent one to
\* itself: the copies handleTransfer works on do not disturb each other, through
\* the two logs of a mint, resales, auctions and burns.
HoldersMirrored ==
    /\ DOMAIN store.alps = Alps
    /\ \A t \in Alps : store.alps[t] = owner[t]
    /\ \A a \in (DOMAIN store.accounts \cap Accounts) \ selfSent :
          /\ Members(store.accounts[a].alps) = AlpsOf(a)
          /\ store.accounts[a].balance = Cardinality(AlpsOf(a))
          /\ Len(store.accounts[a].alps) = store.accounts[a].balance

\* The votes of every delegate, their sum and the number of delegates that have any
\* are the chain's, although handleDelegateVotesChanged puts back a governance
\* entity it loaded before it created the delegate.
VotesMirrored ==
    LET counted(a) == IF a \in DOMAIN store.delegates THEN store.delegates[a].votes ELSE 0
    IN  /\ \A a \in Accounts : counted(a) = Votes(a)
        /\ store.governance.delegatedVotes = Supply
        /\ store.governance.currentDelegates = Cardinality({a \in Accounts : Votes(a) > 0})

\* The tallies and the quorum the subgraph shows for a proposal are the governor's,
\* after any votes and changes of the parameters, unless the parameters changed
\* later in the very block of the proposal: the governor then uses the later ones.
QuorumMirrored ==
    \A i \in DOMAIN proposals :
        LET p == proposals[i] IN
        /\ store.proposals[i].totalSupply = p.supply
        /\ store.proposals[i].forVotes = p.for /\ store.proposals[i].againstVotes = p.against
        /\ params[p.created] = p.seen => store.proposals[i].quorumVotes = QuorumVotes(i)

\* A proposal is shown as executed exactly when it is, and a proposal shown as
\* queued has not been cancelled or vetoed.
ProposalsMirrored ==
    \A i \in DOMAIN proposals :
        /\ store.proposals[i].status = "EXECUTED" <=> proposals[i].executed
        /\ store.proposals[i].status = "QUEUED" <=>
             proposals[i].queued /\ ~(proposals[i].executed \/ proposals[i].canceled \/ proposals[i].vetoed)

\* The auction entity of the Alp on auction is the auction of the house, end time and
\* highest bid included, and an entity is unsettled only while its auction is.
AuctionMirrored ==
    /\ house.alp # 0 =>
         store.auctions[house.alp] = [amount |-> house.amount, bidder |-> house.bidder,
                                      endTime |-> house.endTime, settled |-> house.settled]
    /\ \A t \in DOMAIN store.auctions : ~store.auctions[t].settled => t = house.alp

\* schema.graphql:174 "Alps that this delegate represents": the Alps listed for a
\* delegate are those whose votes it has.
RepresentedAlpsMirrored ==
    \A a \in DOMAIN store.delegates \cap Holders : Members(store.delegates[a].alps) = RepresentedBy(a)

\* schema.graphql:315 "Number of proposals currently queued for execution".
QueuedCountMirrored ==
    store.governance.proposalsQueued =
        Cardinality({i \in DOMAIN proposals : store.proposals[i].status = "QUEUED"})
=============================================================================
