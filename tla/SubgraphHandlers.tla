-------------------------- MODULE SubgraphHandlers --------------------------
(***************************************************************************)
(* The event handlers of nouns-subgraph, each a function from the store of *)
(* entities and an event to the next store. A handler works on copies: an  *)
(* entity it has loaded does not see what a helper saves meanwhile, and    *)
(* its own save puts the whole copy back. LET g == s.governance at the top *)
(* of a handler is such a copy.                                            *)
(*                                                                         *)
(* Left out: TransferEvent and DelegationEvent, a log no handler reads;    *)
(* the seed of an Alp; texts, hashes and timestamps.                       *)
(***************************************************************************)
EXTENDS Integers, Sequences

CONSTANTS
    Zero,   \* ZERO_ADDRESS
    None    \* null

\* Governance of helpers.ts: getGovernanceEntity() answers with zeros until it is saved.
EmptyGovernance ==
    [proposals |-> 0, totalTokenHolders |-> 0, currentTokenHolders |-> 0, currentDelegates |-> 0,
     totalDelegates |-> 0, delegatedVotes |-> 0, proposalsQueued |-> 0]

NewAccount == [delegate |-> None, balance |-> 0, held |-> 0, alps |-> << >>]
NewDelegate == [votes |-> 0, holders |-> 0, alps |-> << >>]
NewParams == [min |-> 0, max |-> 0, coefficient |-> 0, start |-> None]

\* The entities by kind, each kind a function from the ids that exist.
EmptyStore ==
    [governance |-> EmptyGovernance, params |-> NewParams, accounts |-> << >>, delegates |-> << >>,
     alps |-> << >>, auctions |-> << >>, bids |-> << >>, proposals |-> << >>, votes |-> << >>]

\* Entity.save()
Put(entities, id, entity) ==
    [x \in DOMAIN entities \cup {id} |-> IF x = id THEN entity ELSE entities[x]]

GetOrCreateAccount(s, id) ==
    IF id \in DOMAIN s.accounts THEN s
    ELSE [s EXCEPT !.accounts = Put(@, id, NewAccount)]

\* Saves the governance entity too, behind the back of a handler that has loaded it.
GetOrCreateDelegate(s, id) ==
    IF id \in DOMAIN s.delegates THEN s
    ELSE [s EXCEPT !.delegates = Put(@, id, NewDelegate),
                   !.governance.totalDelegates = IF id = Zero THEN @ ELSE @ + 1]

\* alps.filter(n => !lost.includes(n))
Without(alps, lost) ==
    LET kept[n \in 0..Len(alps)] ==
            IF n = 0 THEN << >>
            ELSE IF alps[n] \in lost THEN kept[n - 1] ELSE Append(kept[n - 1], alps[n])
    IN  kept[Len(alps)]
Members(alps) == {alps[i] : i \in DOMAIN alps}

-----------------------------------------------------------------------------
(* alps-erc-721.ts *)

\* Both delegates are loaded before either is saved, the new one last: when they
\* are the same entity the new one's save wins.
HandleDelegateChanged(s, e) ==
    LET s1 == GetOrCreateDelegate(GetOrCreateDelegate(GetOrCreateAccount(s, e.delegator), e.from), e.to)
        accountAlps == s1.accounts[e.delegator].alps
        previous == [s1.delegates[e.from] EXCEPT !.holders = @ - 1,
                                                 !.alps = Without(@, Members(accountAlps))]
        new == [s1.delegates[e.to] EXCEPT !.holders = @ + 1, !.alps = @ \o accountAlps]
    IN  [s1 EXCEPT !.accounts[e.delegator].delegate = e.to,
                   !.delegates = Put(Put(@, e.from, previous), e.to, new)]

\* A fault: a delegate that already had votes is counted again.
HandleDelegateVotesChangedAgain(s, e) ==
    LET s1 == GetOrCreateDelegate(s, e.delegate)
    IN  [s1 EXCEPT !.delegates[e.delegate].votes = e.new,
                   !.governance = [s.governance EXCEPT
                       !.currentDelegates = @ + (IF e.new > 0 THEN 1 ELSE -1),
                       !.delegatedVotes = @ + e.new - e.previous]]

HandleDelegateVotesChanged(s, e) ==
    LET g == s.governance
        s1 == GetOrCreateDelegate(s, e.delegate)
        joins == e.previous = 0 /\ e.new > 0
    IN  [s1 EXCEPT !.delegates[e.delegate].votes = e.new,
                   !.governance = [g EXCEPT
                       !.currentDelegates = IF joins THEN @ + 1 ELSE IF e.new = 0 THEN @ - 1 ELSE @,
                       !.delegatedVotes = @ + e.new - e.previous]]

\* The first half of handleTransfer, with the copies the handler has loaded: the
\* governance entity as it leaves it and the store it has saved so far.
FromHolder(s, g, from, e) ==
    LET leaves == from.balance = 1
        g1 == [g EXCEPT !.currentTokenHolders = IF leaves THEN @ - 1 ELSE @]
        from1 == [from EXCEPT !.balance = @ - 1, !.alps = Without(@, {e.token}),
                              !.delegate = IF leaves THEN None ELSE @]
        s1 == IF from.delegate = None THEN s
              ELSE LET s2 == GetOrCreateDelegate(s, from.delegate)
                   IN  [s2 EXCEPT !.delegates[from.delegate].alps = Without(@, {e.token})]
    IN  [g |-> g1,
         store |-> [s1 EXCEPT !.accounts[e.from] = from1,
                              !.governance = IF leaves THEN g1 ELSE @]]

\* The second half: the Alp joins the delegate of the receiver, the receiver itself
\* if it has none; a receiver that held nothing represents itself from now on.
ToHolder(s, g, to, e) ==
    LET arrives == to.balance = 0
        representative == IF to.delegate = None THEN e.to ELSE to.delegate
        s1 == GetOrCreateDelegate(s, representative)
        to1 == [delegate |-> IF arrives THEN e.to ELSE to.delegate, balance |-> to.balance + 1,
                held |-> to.held + 1, alps |-> Append(to.alps, e.token)]
    IN  [s1 EXCEPT !.delegates[representative].alps = Append(@, e.token),
                   !.governance = IF arrives THEN [g EXCEPT !.currentTokenHolders = @ + 1] ELSE @,
                   !.alps = Put(@, e.token, e.to),
                   !.accounts[e.to] = to1]

\* A fault: an Alp is given to a receiver without being taken from its holder.
HandleTransferKeeping(s, e) ==
    LET s1 == GetOrCreateAccount(GetOrCreateAccount(s, e.from), e.to)
        g == [s1.governance EXCEPT !.totalTokenHolders = IF e.from = Zero THEN @ + 1 ELSE @]
    IN  ToHolder([s1 EXCEPT !.governance = g], g, s1.accounts[e.to], e)

\* Sender and receiver are loaded first: of an Alp sent to its own holder only the
\* receiver's copy survives.
HandleTransfer(s, e) ==
    LET s1 == GetOrCreateAccount(GetOrCreateAccount(s, e.from), e.to)
        g1 == [s1.governance EXCEPT !.totalTokenHolders = @ + 1]
        out == IF e.from = Zero THEN [g |-> g1, store |-> [s1 EXCEPT !.governance = g1]]
               ELSE FromHolder(s1, s1.governance, s1.accounts[e.from], e)
        g2 == [out.g EXCEPT !.totalTokenHolders = @ - 1]
        in == IF e.to = Zero THEN [g |-> g2, store |-> [out.store EXCEPT !.governance = g2]]
              ELSE out
    IN  ToHolder(in.store, in.g, s1.accounts[e.to], e)

-----------------------------------------------------------------------------
(* alps-auction-house.ts *)

HandleAuctionCreated(s, e) ==
    IF e.token \notin DOMAIN s.alps THEN s
    ELSE [s EXCEPT !.auctions = Put(@, e.token,
             [amount |-> 0, bidder |-> None, endTime |-> e.endTime, settled |-> FALSE])]

\* A fault: the first bid of an auction is the one that stays.
HandleAuctionBidFirst(s, e) ==
    IF e.token \notin DOMAIN s.auctions \/ s.auctions[e.token].amount > 0 THEN s
    ELSE [s EXCEPT !.auctions[e.token].amount = e.value, !.auctions[e.token].bidder = e.sender]

\* One Bid entity per transaction.
HandleAuctionBid(s, e) ==
    LET s1 == GetOrCreateAccount(s, e.sender)
    IN  IF e.token \notin DOMAIN s1.auctions THEN s1
        ELSE [s1 EXCEPT !.auctions[e.token].amount = e.value,
                        !.auctions[e.token].bidder = e.sender,
                        !.bids = Put(@, e.hash, [bidder |-> e.sender, amount |-> e.value, alp |-> e.token])]

HandleAuctionExtended(s, e) ==
    IF e.token \notin DOMAIN s.auctions THEN s
    ELSE [s EXCEPT !.auctions[e.token].endTime = e.endTime]

HandleAuctionSettled(s, e) ==
    IF e.token \notin DOMAIN s.auctions THEN s
    ELSE [s EXCEPT !.auctions[e.token].settled = TRUE]

-----------------------------------------------------------------------------
(* alps-dao.ts *)

\* utils/dynamicQuorum.ts. The supply is never zero once a proposal exists.
DynamicQuorumVotes(againstVotes, totalSupply, p) ==
    LET againstVotesBPS == (againstVotes * 10000) \div totalSupply
        adjustedQuorumBPS == p.min + (p.coefficient * againstVotesBPS) \div 1000000
        quorumBPS == IF p.max < adjustedQuorumBPS THEN p.max ELSE adjustedQuorumBPS
    IN  (totalSupply * quorumBPS) \div 10000

\* A new proposal is counted, and saved by its handler. The counters of a
\* handler's own copy of governance do not see it.
GetOrCreateProposal(s, id) ==
    IF id \in DOMAIN s.proposals THEN s ELSE [s EXCEPT !.governance.proposals = @ + 1]

GetOrCreateDynamicQuorumParams(s, block) ==
    IF s.params.start = None THEN [s EXCEPT !.params.start = block] ELSE s

HandleProposalCreatedWithRequirements(s, e) ==
    LET s1 == GetOrCreateDelegate(GetOrCreateProposal(s, e.id), e.proposer)
        proposal == [proposer |-> e.proposer, createdBlock |-> e.block, quorumVotes |-> e.quorumVotes,
                     forVotes |-> 0, againstVotes |-> 0, abstainVotes |-> 0,
                     status |-> IF e.block >= e.startBlock THEN "ACTIVE" ELSE "PENDING",
                     totalSupply |-> s1.governance.totalTokenHolders,
                     params |-> [min |-> s1.params.min, max |-> s1.params.max,
                                 coefficient |-> s1.params.coefficient]]
    IN  [s1 EXCEPT !.proposals = Put(@, e.id, proposal)]

\* A fault: the cancellation of a queued proposal is not shown.
HandleProposalCanceledOpen(s, e) ==
    IF s.proposals[e.id].status = "QUEUED" THEN s
    ELSE [s EXCEPT !.proposals[e.id].status = "CANCELLED"]

HandleProposalCanceled(s, e) ==
    [GetOrCreateProposal(s, e.id) EXCEPT !.proposals[e.id].status = "CANCELLED"]

HandleProposalVetoed(s, e) ==
    [GetOrCreateProposal(s, e.id) EXCEPT !.proposals[e.id].status = "VETOED"]

HandleProposalQueued(s, e) ==
    LET g == s.governance
    IN  [GetOrCreateProposal(s, e.id) EXCEPT
            !.proposals[e.id].status = "QUEUED",
            !.governance = [g EXCEPT !.proposalsQueued = @ + 1]]

HandleProposalExecuted(s, e) ==
    LET g == s.governance
    IN  [GetOrCreateProposal(s, e.id) EXCEPT
            !.proposals[e.id].status = "EXECUTED",
            !.governance = [g EXCEPT !.proposalsQueued = @ - 1]]

\* A vote more for a proposal, which is active from the first one on.
WithVote(p, e) ==
    [p EXCEPT !.forVotes = IF e.support = 1 THEN @ + e.votes ELSE @,
              !.againstVotes = IF e.support = 0 THEN @ + e.votes ELSE @,
              !.abstainVotes = IF e.support = 2 THEN @ + e.votes ELSE @,
              !.status = IF @ = "PENDING" THEN "ACTIVE" ELSE @]

\* A fault: the quorum is not brought up to date with the votes against.
HandleVoteCastStaleQuorum(s, e) ==
    LET s1 == GetOrCreateDelegate(s, e.voter)
    IN  [s1 EXCEPT !.votes = Put(@, <<e.voter, e.id>>,
                       [support |-> e.support, votes |-> e.votes, alps |-> s1.delegates[e.voter].alps]),
                   !.proposals[e.id] = WithVote(@, e)]

\* The quorum follows the votes against when the first parameters were set in a
\* block before the proposal's.
HandleVoteCast(s, e) ==
    LET s1 == GetOrCreateDelegate(GetOrCreateProposal(s, e.id), e.voter)
        counted == WithVote(s1.proposals[e.id], e)
        s2 == GetOrCreateDynamicQuorumParams(s1, None)
        dynamic == s2.params.start # None /\ s2.params.start < counted.createdBlock
        quorum == DynamicQuorumVotes(counted.againstVotes, counted.totalSupply, counted.params)
    IN  [s2 EXCEPT !.votes = Put(@, <<e.voter, e.id>>,
                       [support |-> e.support, votes |-> e.votes, alps |-> s2.delegates[e.voter].alps]),
                   !.proposals[e.id] = IF dynamic THEN [counted EXCEPT !.quorumVotes = quorum]
                                       ELSE counted]

\* handleMinQuorumVotesBPSSet, handleMaxQuorumVotesBPSSet and handleQuorumCoefficientSet.
HandleQuorumParamSet(s, e) ==
    LET s1 == GetOrCreateDynamicQuorumParams(s, e.block)
    IN  [s1 EXCEPT !.params[e.param] = e.value]

-----------------------------------------------------------------------------
\* The handlers by event, as subgraph.yaml assigns them. AlpCreated only adds the seed.
Handle(s, e) ==
    CASE e.event = "DelegateChanged" -> HandleDelegateChanged(s, e)
      [] e.event = "DelegateVotesChanged" -> HandleDelegateVotesChanged(s, e)
      [] e.event = "Transfer" -> HandleTransfer(s, e)
      [] e.event = "AuctionCreated" -> HandleAuctionCreated(s, e)
      [] e.event = "AuctionBid" -> HandleAuctionBid(s, e)
      [] e.event = "AuctionExtended" -> HandleAuctionExtended(s, e)
      [] e.event = "AuctionSettled" -> HandleAuctionSettled(s, e)
      [] e.event = "ProposalCreated" -> HandleProposalCreatedWithRequirements(s, e)
      [] e.event = "ProposalCanceled" -> HandleProposalCanceled(s, e)
      [] e.event = "ProposalVetoed" -> HandleProposalVetoed(s, e)
      [] e.event = "ProposalQueued" -> HandleProposalQueued(s, e)
      [] e.event = "ProposalExecuted" -> HandleProposalExecuted(s, e)
      [] e.event = "VoteCast" -> HandleVoteCast(s, e)
      [] e.event = "QuorumParamSet" -> HandleQuorumParamSet(s, e)
=============================================================================
