--------------------------- MODULE AlpsDAOLogicV2 ---------------------------
(***************************************************************************)
(* The governor, AlpsDAOLogicV2.sol, with the timelock it drives and the   *)
(* votes of the Alps token as it reads them: the current votes of each     *)
(* account move between accounts or are minted at any moment, and those at *)
(* the end of a past block are what getPriorVotes returns                  *)
(* (ERC721Checkpointable shows that they never change).                    *)
(*                                                                         *)
(* The admin of the DAO is the timelock, so that its parameters change     *)
(* only when a proposal is executed. A transaction is one action; what the *)
(* targets of a proposal do beyond the calls modelled here is left out.    *)
(***************************************************************************)
EXTENDS AlpsDAOExecutor, FiniteSets, Functions

CONSTANTS
    Accounts,         \* the accounts that hold votes
    Zero,             \* address(0)
    Vetoers,          \* the accounts that hold the veto, in turn
    InitialVotes,     \* the votes when the DAO is deployed
    InitialSupply,    \* and their sum, the Alps minted by then
    Moves,            \* bound: the <<from, to>> pairs between which votes move
    MaxSupply,        \* bound: totalSupply stops here
    CallLists,        \* the lists of calls proposed
    Supports,         \* bound: the ways accounts vote, of 0 against, 1 for, 2 abstain
    VotingDelays,     \* from MIN_VOTING_DELAY to MAX_VOTING_DELAY
    VotingPeriods,    \* from MIN_VOTING_PERIOD to MAX_VOTING_PERIOD
    ThresholdBPSs,    \* the bounds of the proposal threshold
    MinQuorumBPSs,    \* the bounds of the quorum, in basis points
    MaxQuorumBPSs,
    Coefficients,     \* the quorum coefficient, with 6 decimals
    BlockTimes,       \* the time from a block to the next
    MaxProposals,     \* bound: no proposal after this many
    MaxBlock          \* bound: no block after this one

Call == [kind : {"external", "delay", "votingDelay", "votingPeriod", "proposalThresholdBPS",
                 "minQuorumVotesBPS", "maxQuorumVotesBPS", "quorumCoefficient"},
         value : Nat]
proposalMaxOperations == 10

ASSUME VotesAssumption ==
    /\ IsFiniteSet(Accounts) /\ Zero \notin Accounts \cup Vetoers
    /\ InitialVotes \in [Accounts -> Nat]
    /\ InitialSupply \in Nat
    /\ Moves \subseteq Accounts \X Accounts
    /\ MaxSupply \in Nat /\ Supports \subseteq 0..2
ASSUME SupplyAssumption == InitialSupply = FoldFunction(+, 0, InitialVotes)
ASSUME CallListsAssumption ==
    \A calls \in CallLists : calls \in Seq(Call) /\ Len(calls) \in 1..proposalMaxOperations
ASSUME ParametersAssumption ==
    /\ VotingDelays \subseteq Nat \ {0} /\ VotingPeriods \subseteq Nat \ {0}
    /\ ThresholdBPSs \subseteq Nat /\ MinQuorumBPSs \subseteq Nat
    /\ MaxQuorumBPSs \subseteq Nat /\ Coefficients \subseteq Nat
    /\ BlockTimes \subseteq Nat \ {0} /\ MaxProposals \in Nat /\ MaxBlock \in Nat \ {0}

VARIABLES
    block,                     \* block.number
    votes,                     \* AlpsToken: getCurrentVotes of each account
    totalSupply,               \* AlpsToken: totalSupply
    priorVotes,                \* AlpsToken: the votes at the end of the past blocks still asked for
    proposals,                 \* _proposals, by id
    latestProposalIds,
    votingDelay,
    votingPeriod,
    proposalThresholdBPS,
    quorumParamsCheckpoints,
    vetoer,
    pendingVetoer

tokenVars == <<votes, totalSupply, priorVotes>>
paramVars == <<votingDelay, votingPeriod, proposalThresholdBPS, quorumParamsCheckpoints>>
vetoVars == <<vetoer, pendingVetoer>>
vars == <<now, timelockVars, block, tokenVars, proposals, latestProposalIds, paramVars, vetoVars>>

QuorumParams == [minQuorumVotesBPS : Nat, maxQuorumVotesBPS : Nat, quorumCoefficient : Nat]
\* A receipt is the support of the vote, NotVoted before it.
NotVoted == 3
Proposal == [proposer : Accounts, proposalThreshold : Nat, calls : CallLists, eta : Nat,
             startBlock : Nat, endBlock : Nat, tally : [0..2 -> Nat], totalSupply : Nat,
             canceled : BOOLEAN, vetoed : BOOLEAN, executed : BOOLEAN, creationBlock : Nat,
             receipts : [Accounts -> 0..3]]

\* The state after initialize(), with the first Alps minted in the block before.
Init ==
    /\ now = 1
    /\ delay \in Delays
    /\ queuedTransactions = {}
    /\ executions = << >>
    /\ block = 1
    /\ votes = InitialVotes
    /\ totalSupply = InitialSupply
    /\ priorVotes = [b \in {0} |-> InitialVotes]
    /\ proposals = << >>
    /\ latestProposalIds = [a \in Accounts |-> 0]
    /\ votingDelay \in VotingDelays
    /\ votingPeriod \in VotingPeriods
    /\ proposalThresholdBPS \in ThresholdBPSs
    /\ \E low \in MinQuorumBPSs, high \in MaxQuorumBPSs, coefficient \in Coefficients :
         /\ low <= high
         /\ quorumParamsCheckpoints =
              << [fromBlock |-> 1, params |-> [minQuorumVotesBPS |-> low, maxQuorumVotesBPS |-> high,
                                               quorumCoefficient |-> coefficient]] >>
    /\ vetoer \in Vetoers \cup {Zero}
    /\ pendingVetoer = Zero

-----------------------------------------------------------------------------
bps2Uint(bps, number) == (number * bps) \div 10000

\* getDynamicQuorumParamsAt(): the last checkpoint written in the block or
\* before it, the fixed quorumVotesBPS, which is 0, when there is none.
getDynamicQuorumParamsAt(blockNumber) ==
    LET written == {i \in 1..Len(quorumParamsCheckpoints) :
                      quorumParamsCheckpoints[i].fromBlock <= blockNumber}
        last == {i \in written : \A j \in written : j <= i}
    IN  IF last = {}
        THEN [minQuorumVotesBPS |-> 0, maxQuorumVotesBPS |-> 0, quorumCoefficient |-> 0]
        ELSE quorumParamsCheckpoints[CHOOSE i \in last : TRUE].params

dynamicQuorumVotes(againstVotes, supply, params) ==
    LET againstVotesBPS == (10000 * againstVotes) \div supply
        adjusted == params.minQuorumVotesBPS
                      + (params.quorumCoefficient * againstVotesBPS) \div 1000000
    IN  bps2Uint(IF params.maxQuorumVotesBPS < adjusted THEN params.maxQuorumVotesBPS
                 ELSE adjusted, supply)

\* A fault: the parameters of the moment decide, not those at the creation.
quorumVotesNow(p) == dynamicQuorumVotes(p.tally[0], p.totalSupply, getDynamicQuorumParamsAt(block))

quorumVotes(p) == dynamicQuorumVotes(p.tally[0], p.totalSupply,
                                     getDynamicQuorumParamsAt(p.creationBlock))

\* A fault: the grace period is tested before the execution.
StateOfExpiring(p) ==
    IF p.vetoed THEN "Vetoed"
    ELSE IF p.canceled THEN "Canceled"
    ELSE IF block <= p.startBlock THEN "Pending"
    ELSE IF block <= p.endBlock THEN "Active"
    ELSE IF p.tally[1] <= p.tally[0] \/ p.tally[1] < quorumVotes(p) THEN "Defeated"
    ELSE IF p.eta = 0 THEN "Succeeded"
    ELSE IF now >= p.eta + GRACE_PERIOD THEN "Expired"
    ELSE IF p.executed THEN "Executed"
    ELSE "Queued"

\* state()
StateOf(p) ==
    IF p.vetoed THEN "Vetoed"
    ELSE IF p.canceled THEN "Canceled"
    ELSE IF block <= p.startBlock THEN "Pending"
    ELSE IF block <= p.endBlock THEN "Active"
    ELSE IF p.tally[1] <= p.tally[0] \/ p.tally[1] < quorumVotes(p) THEN "Defeated"
    ELSE IF p.eta = 0 THEN "Succeeded"
    ELSE IF p.executed THEN "Executed"
    ELSE IF now >= p.eta + GRACE_PERIOD THEN "Expired"
    ELSE "Queued"
state(id) == StateOf(proposals[id])

\* A block the DAO reads the votes of is the last one, or one in which a
\* proposal was created that can still be voted on.
AskedBlocks == {block} \cup
    {proposals[id].creationBlock : id \in {i \in 1..Len(proposals) : block < proposals[i].endBlock}}

-----------------------------------------------------------------------------
\* A fault: the latest proposal of the sender is not looked at.
ProposeAnew(sender, calls) ==
    /\ Len(proposals) < MaxProposals
    /\ LET threshold == bps2Uint(proposalThresholdBPS, totalSupply)
       IN  /\ priorVotes[block - 1][sender] > threshold
           /\ proposals' = Append(proposals,
                [proposer |-> sender, proposalThreshold |-> threshold, calls |-> calls, eta |-> 0,
                 startBlock |-> block + votingDelay,
                 endBlock |-> block + votingDelay + votingPeriod,
                 tally |-> [s \in 0..2 |-> 0], totalSupply |-> totalSupply,
                 canceled |-> FALSE, vetoed |-> FALSE, executed |-> FALSE,
                 creationBlock |-> block, receipts |-> [a \in Accounts |-> NotVoted]])
    /\ latestProposalIds' = [latestProposalIds EXCEPT ![sender] = Len(proposals) + 1]
    /\ UNCHANGED <<now, timelockVars, block, tokenVars, paramVars, vetoVars>>

\* propose()
Propose(sender, calls) ==
    /\ Len(proposals) < MaxProposals
    /\ LET threshold == bps2Uint(proposalThresholdBPS, totalSupply)
           id == latestProposalIds[sender]
       IN  /\ priorVotes[block - 1][sender] > threshold
           /\ id # 0 => state(id) \notin {"Active", "Pending"}
           /\ proposals' = Append(proposals,
                [proposer |-> sender, proposalThreshold |-> threshold, calls |-> calls, eta |-> 0,
                 startBlock |-> block + votingDelay,
                 endBlock |-> block + votingDelay + votingPeriod,
                 tally |-> [s \in 0..2 |-> 0], totalSupply |-> totalSupply,
                 canceled |-> FALSE, vetoed |-> FALSE, executed |-> FALSE,
                 creationBlock |-> block, receipts |-> [a \in Accounts |-> NotVoted]])
    /\ latestProposalIds' = [latestProposalIds EXCEPT ![sender] = Len(proposals) + 1]
    /\ UNCHANGED <<now, timelockVars, block, tokenVars, paramVars, vetoVars>>

\* A fault: the votes of the moment are counted.
CastVoteOfNow(voter, id, support) ==
    /\ state(id) = "Active"
    /\ proposals[id].receipts[voter] = NotVoted
    /\ proposals' = [proposals EXCEPT
          ![id].tally[support] = @ + votes[voter],
          ![id].receipts[voter] = support]
    /\ UNCHANGED <<now, timelockVars, block, tokenVars, latestProposalIds, paramVars, vetoVars>>

\* castVote() and its variants: with a reason, with a gas refund, by signature.
CastVote(voter, id, support) ==
    /\ state(id) = "Active"
    /\ proposals[id].receipts[voter] = NotVoted
    /\ proposals' = [proposals EXCEPT
          ![id].tally[support] = @ + priorVotes[proposals[id].creationBlock][voter],
          ![id].receipts[voter] = support]
    /\ UNCHANGED <<now, timelockVars, block, tokenVars, latestProposalIds, paramVars, vetoVars>>

\* queue(): refused when the timelock holds an identical call with the same
\* eta, one from the same proposal included.
Queue(id) ==
    LET calls == proposals[id].calls
        eta == now + delay
    IN  /\ state(id) = "Succeeded"
        /\ Transactions(calls, eta) \cap queuedTransactions = {}
        /\ NoRepeats(calls)
        /\ QueueTransactions(calls, eta)
        /\ proposals' = [proposals EXCEPT ![id].eta = eta]
        /\ UNCHANGED <<now, block, tokenVars, latestProposalIds, paramVars, vetoVars>>

\* The setters of the DAO that only its admin calls, as calls of a proposal:
\* the bounds each checks, and the quorum parameters after the first n calls.
ParamsAfter(calls, n) ==
    LET params == getDynamicQuorumParamsAt(block)
        Set(kind, old) == LastSet(SubSeq(calls, 1, n), kind, old)
    IN  [minQuorumVotesBPS |-> Set("minQuorumVotesBPS", params.minQuorumVotesBPS),
         maxQuorumVotesBPS |-> Set("maxQuorumVotesBPS", params.maxQuorumVotesBPS),
         quorumCoefficient |-> Set("quorumCoefficient", params.quorumCoefficient)]
QuorumKinds == {"minQuorumVotesBPS", "maxQuorumVotesBPS", "quorumCoefficient"}
Accepted(calls) ==
    \A i \in 1..Len(calls) :
        LET value == calls[i].value
        IN  /\ calls[i].kind = "votingDelay" => value \in VotingDelays
            /\ calls[i].kind = "votingPeriod" => value \in VotingPeriods
            /\ calls[i].kind = "proposalThresholdBPS" => value \in ThresholdBPSs
            /\ calls[i].kind = "minQuorumVotesBPS" => value \in MinQuorumBPSs
            /\ calls[i].kind = "maxQuorumVotesBPS" => value \in MaxQuorumBPSs
            /\ ParamsAfter(calls, i).minQuorumVotesBPS <= ParamsAfter(calls, i).maxQuorumVotesBPS

\* _writeQuorumParamsCheckpoint(): one checkpoint per block, the last write counts.
WriteQuorumParamsCheckpoint(params) ==
    LET checkpoint == [fromBlock |-> block, params |-> params]
        pos == Len(quorumParamsCheckpoints)
    IN  quorumParamsCheckpoints' =
            IF quorumParamsCheckpoints[pos].fromBlock = block
            THEN [quorumParamsCheckpoints EXCEPT ![pos] = checkpoint]
            ELSE Append(quorumParamsCheckpoints, checkpoint)

\* A fault: the execution is not recorded.
ExecuteUnmarked(id) ==
    LET calls == proposals[id].calls
    IN  /\ state(id) = "Queued"
        /\ ExecuteTransactions(calls, proposals[id].eta)
        /\ UNCHANGED <<now, block, tokenVars, proposals, latestProposalIds, paramVars, vetoVars>>

\* execute(): marks the proposal and has the timelock make its calls.
Execute(id) ==
    LET calls == proposals[id].calls
    IN  /\ state(id) = "Queued"
        /\ proposals' = [proposals EXCEPT ![id].executed = TRUE]
        /\ ExecuteTransactions(calls, proposals[id].eta)
        /\ Accepted(calls)
        /\ votingDelay' = LastSet(calls, "votingDelay", votingDelay)
        /\ votingPeriod' = LastSet(calls, "votingPeriod", votingPeriod)
        /\ proposalThresholdBPS' = LastSet(calls, "proposalThresholdBPS", proposalThresholdBPS)
        /\ IF \E i \in 1..Len(calls) : calls[i].kind \in QuorumKinds
           THEN WriteQuorumParamsCheckpoint(ParamsAfter(calls, Len(calls)))
           ELSE UNCHANGED quorumParamsCheckpoints
        /\ UNCHANGED <<now, block, tokenVars, latestProposalIds, vetoVars>>

\* cancel(): by the proposer, or by anyone once the proposer has lost the votes.
Cancel(sender, id) ==
    LET proposal == proposals[id]
    IN  /\ state(id) # "Executed"
        /\ \/ sender = proposal.proposer
           \/ priorVotes[block - 1][proposal.proposer] <= proposal.proposalThreshold
        /\ proposals' = [proposals EXCEPT ![id].canceled = TRUE]
        /\ CancelTransactions(proposal.calls, proposal.eta)
        /\ UNCHANGED <<now, block, tokenVars, latestProposalIds, paramVars, vetoVars>>

\* veto()
Veto(sender, id) ==
    /\ vetoer # Zero
    /\ sender = vetoer
    /\ state(id) # "Executed"
    /\ proposals' = [proposals EXCEPT ![id].vetoed = TRUE]
    /\ CancelTransactions(proposals[id].calls, proposals[id].eta)
    /\ UNCHANGED <<now, block, tokenVars, latestProposalIds, paramVars, vetoVars>>

\* A fault: a handover that was begun survives the burning of the veto.
BurnVetoPowerOnly(sender) ==
    /\ sender = vetoer
    /\ vetoer' = Zero
    /\ UNCHANGED <<now, timelockVars, block, tokenVars, proposals, latestProposalIds, paramVars,
                   pendingVetoer>>

\* _setPendingVetoer(), _acceptVetoer() and _burnVetoPower()
SetPendingVetoer(sender, newPendingVetoer) ==
    /\ sender = vetoer
    /\ pendingVetoer' = newPendingVetoer
    /\ UNCHANGED <<now, timelockVars, block, tokenVars, proposals, latestProposalIds, paramVars, vetoer>>
AcceptVetoer(sender) ==
    /\ sender = pendingVetoer
    /\ vetoer' = pendingVetoer
    /\ pendingVetoer' = Zero
    /\ UNCHANGED <<now, timelockVars, block, tokenVars, proposals, latestProposalIds, paramVars>>
BurnVetoPower(sender) ==
    /\ sender = vetoer
    /\ vetoer' = Zero
    /\ pendingVetoer' = Zero
    /\ UNCHANGED <<now, timelockVars, block, tokenVars, proposals, latestProposalIds, paramVars>>

-----------------------------------------------------------------------------
\* The token: a transfer or a delegation moves votes, a sale mints one.
MoveVotes(from, to) ==
    /\ votes[from] > 0
    /\ votes' = [[votes EXCEPT ![from] = @ - 1] EXCEPT ![to] = @ + 1]
    /\ UNCHANGED <<now, timelockVars, block, totalSupply, priorVotes, proposals, latestProposalIds,
                   paramVars, vetoVars>>
MintVote(to) ==
    /\ totalSupply < MaxSupply
    /\ votes' = [votes EXCEPT ![to] = @ + 1]
    /\ totalSupply' = totalSupply + 1
    /\ UNCHANGED <<now, timelockVars, block, priorVotes, proposals, latestProposalIds, paramVars, vetoVars>>

\* The chain appends a block: the votes of the moment are those of its end.
NextBlock ==
    /\ block < MaxBlock
    /\ block' = block + 1
    /\ \E t \in BlockTimes : now' = now + t
    /\ priorVotes' = [b \in AskedBlocks |-> IF b = block THEN votes ELSE priorVotes[b]]
    /\ UNCHANGED <<timelockVars, votes, totalSupply, proposals, latestProposalIds, paramVars, vetoVars>>

Next ==
    \/ \E sender \in Accounts, calls \in CallLists : Propose(sender, calls)
    \/ \E voter \in Accounts, id \in 1..Len(proposals), support \in Supports : CastVote(voter, id, support)
    \/ \E id \in 1..Len(proposals) : Queue(id)
    \/ \E id \in 1..Len(proposals) : Execute(id)
    \/ \E sender \in Accounts, id \in 1..Len(proposals) : Cancel(sender, id)
    \/ \E sender \in Vetoers, id \in 1..Len(proposals) : Veto(sender, id)
    \/ \E sender \in Vetoers, new \in Vetoers \cup {Zero} : SetPendingVetoer(sender, new)
    \/ \E sender \in Vetoers : AcceptVetoer(sender)
    \/ \E sender \in Vetoers : BurnVetoPower(sender)
    \/ \E move \in Moves : MoveVotes(move[1], move[2])
    \/ \E to \in Accounts : MintVote(to)
    \/ NextBlock

Spec == Init /\ [][Next]_vars

-----------------------------------------------------------------------------
VotesAvailable ==
    \A id \in 1..Len(proposals) :
        LET p == proposals[id]
        IN  p.creationBlock < block /\ block <= p.endBlock => p.creationBlock \in DOMAIN priorVotes

\* The types of the variables. The votes of a block that can still be asked
\* for are there to be read.
TypeOK ==
    /\ now \in Nat \ {0}
    /\ delay \in Delays
    /\ queuedTransactions \subseteq [call : Call, eta : Nat]
    /\ executions \in Seq([call : Call, eta : Nat])
    /\ block \in 1..MaxBlock
    /\ votes \in [Accounts -> Nat]
    /\ totalSupply \in Nat
    /\ priorVotes \in [DOMAIN priorVotes -> [Accounts -> Nat]]
    /\ block - 1 \in DOMAIN priorVotes
    /\ proposals \in Seq(Proposal)
    /\ VotesAvailable
    /\ latestProposalIds \in [Accounts -> 0..Len(proposals)]
    /\ votingDelay \in VotingDelays
    /\ votingPeriod \in VotingPeriods
    /\ proposalThresholdBPS \in ThresholdBPSs
    /\ quorumParamsCheckpoints \in Seq([fromBlock : Nat, params : QuorumParams])
    /\ vetoer \in Vetoers \cup {Zero}
    /\ pendingVetoer \in Vetoers \cup {Zero}

Sum(f) == FoldFunction(+, 0, f)

\* Every vote is counted once: the tally of a proposal is the votes that its
\* voters had at the end of the block it was created in, whatever votes moved
\* to other voters or were minted since.
EachVoteCountsOnce ==
    \A id \in 1..Len(proposals) :
        LET p == proposals[id]
        IN  p.creationBlock \in DOMAIN priorVotes =>
              \A s \in 0..2 :
                p.tally[s] = Sum([a \in {v \in Accounts : p.receipts[v] = s} |->
                                    priorVotes[p.creationBlock][a]])

\* No proposer has two proposals that are pending or active, although propose()
\* looks only at the latest one.
OneLiveProposal ==
    \A i, j \in 1..Len(proposals) :
        /\ proposals[i].proposer = proposals[j].proposer
        /\ state(i) \in {"Pending", "Active"} /\ state(j) \in {"Pending", "Active"}
        => i = j

\* The timelock holds nothing that is not approved: each of its transactions is
\* a call of a proposal that is queued, or expired before it was executed, and
\* none of a proposal that was cancelled, vetoed or executed.
OnlyApprovedQueued ==
    \A tx \in queuedTransactions :
        \E id \in 1..Len(proposals) :
            /\ state(id) \in {"Queued", "Expired"}
            /\ tx \in Transactions(proposals[id].calls, proposals[id].eta)

\* A transaction is executed once for every executed proposal it is a call of,
\* and never otherwise.
ExecutedOnce ==
    \A tx \in {executions[i] : i \in 1..Len(executions)}
                \cup UNION {Transactions(proposals[id].calls, proposals[id].eta) :
                             id \in 1..Len(proposals)} :
        Cardinality({i \in 1..Len(executions) : executions[i] = tx})
          = Cardinality({id \in 1..Len(proposals) :
                           /\ proposals[id].executed
                           /\ tx \in Transactions(proposals[id].calls, proposals[id].eta)})

\* The quorum of a proposal moves with the votes against it and with nothing
\* else once its voting has begun: parameters set later, by another proposal,
\* do not reach it.
QuorumSettled ==
    [][\A id \in 1..Len(proposals) :
          /\ block > proposals[id].startBlock
          /\ proposals'[id].tally[0] = proposals[id].tally[0]
          => quorumVotes(proposals[id])' = quorumVotes(proposals[id])]_vars

\* A burned veto stays burned ("destroying veto power forever"): no handover
\* that was begun before is accepted after.
VetoBurnedForever == [][vetoer = Zero => vetoer' = Zero]_vars

\* A proposal that is queued and whose eta has passed can be executed
\* ("Executes a queued proposal if eta has passed"): the timelock still holds
\* its transactions.
QueuedIsExecutable ==
    \A id \in 1..Len(proposals) :
        state(id) = "Queued" /\ now >= proposals[id].eta =>
            Transactions(proposals[id].calls, proposals[id].eta) \subseteq queuedTransactions

-----------------------------------------------------------------------------
\* The refinement: a proposal's abstract status is what state() computes from
\* its votes, flags, blocks and times.
Lifecycle == INSTANCE ProposalLifecycle WITH
    MinimumDelay <- MINIMUM_DELAY,
    GracePeriod  <- GRACE_PERIOD,
    status       <- [id \in 1..Len(proposals) |-> state(id)],
    eta          <- [id \in 1..Len(proposals) |-> proposals[id].eta],
    time         <- now

\* state() never takes back a result, and execution is bound to the announced
\* time, through every change of parameters, votes and vetoers.
ImplementsLifecycle == Lifecycle!Spec
=============================================================================
