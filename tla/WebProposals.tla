----------------------------- MODULE WebProposals -----------------------------
(***************************************************************************)
(* What nouns-webapp makes of a proposal: the state it computes from the   *)
(* subgraph's entity and a block number, and what the vote page, its       *)
(* header, the list of proposals and the quorum window show.               *)
(*                                                                         *)
(* A date of the page is a number of blocks from now: the page reckons the *)
(* dates of a vote from the average time of a block. Titles, texts and     *)
(* colours are left out. `late` says whether a millisecond passes between  *)
(* two readings of the clock in one render.                                *)
(***************************************************************************)
EXTENDS Integers, Sequences, FiniteSets, FiniteSetsExt

CONSTANTS
    None,
    Failed,   \* the answer of a query that fails, the result of a call that throws
    Grace,    \* the grace period, in seconds; a block is a second long
    Unit      \* what the quorum coefficient is a multiple of (1e6 in the code)

States == {"Undetermined", "Pending", "Active", "Cancelled", "Defeated", "Succeeded",
           "Queued", "Expired", "Executed", "Vetoed"}

\* The state of a proposal, from the entity's status at the time of the query and the
\* latest block then. The entity of a proposal nobody voted on stays Pending, and the
\* page takes it for Active ever after.
getProposalState(n, time, p) ==
    CASE p.status = "Pending" ->
           IF n = None THEN "Undetermined" ELSE IF n <= p.startBlock THEN "Pending" ELSE "Active"
      [] p.status = "Active" ->
           IF n = None THEN "Undetermined"
           ELSE IF n <= p.endBlock THEN "Active"
           ELSE IF p.forVotes <= p.againstVotes \/ p.forVotes < p.quorumVotes THEN "Defeated"
           ELSE IF p.eta = None THEN "Succeeded" ELSE "Active"
      [] p.status = "Queued" ->
           IF p.eta = None THEN "Undetermined"
           ELSE IF time >= p.eta + Grace THEN "Expired" ELSE "Queued"
      [] OTHER -> p.status

\* The proposals of the subgraph's answer, each with its state. A block's time that has
\* not arrived counts as 0.
useAllProposalsViaSubgraph(entities, n, time) ==
    [i \in DOMAIN entities |->
        [entities[i] EXCEPT !.status =
            getProposalState(n, IF time = None THEN 0 ELSE time, entities[i])]]

\* When the subgraph fails, the proposals are read from the chain: never, since the
\* governor has no method `proposal`, and the page goes on loading.
useAllProposalsViaChain == <<>>

useAllProposals(answer, n, time) ==
    CASE answer = None    -> <<>>
      [] answer = Failed  -> useAllProposalsViaChain
      [] OTHER            -> useAllProposalsViaSubgraph(answer, n, time)

\* The proposal an address names, or None while it is not there.
useProposal(proposals, id) ==
    IF \E i \in DOMAIN proposals : proposals[i].id = id
    THEN proposals[CHOOSE i \in DOMAIN proposals : proposals[i].id = id]
    ELSE None

-----------------------------------------------------------------------------
(* The vote page. *)

startDate(p, n) == p.startBlock - n
endDate(p, n) == p.endBlock - n
isBefore(date, late) == date < 0 \/ (date = 0 /\ late)
isAfter(date) == date > 0

startOrEndTime(p, n, late) ==
    IF n = None THEN <<"Starts", None>>
    ELSE LET started == isBefore(startDate(p, n), late)
         IN <<IF started /\ isAfter(endDate(p, n)) THEN "Ends"
              ELSE IF isBefore(endDate(p, n), late) THEN "Ended" ELSE "Starts",
              IF started THEN endDate(p, n) ELSE startDate(p, n)>>

\* Whether the header shows its button to vote: by the dates alone, whatever the state.
isActiveForVoting(p, n, late) ==
    n # None /\ isBefore(startDate(p, n), late) /\ isAfter(endDate(p, n))

percentage(p, votes) ==
    LET total == p.forVotes + p.againstVotes + p.abstainVotes
    IN IF total = 0 THEN 0 ELSE (votes * 100) \div total

\* The clock of the user's machine says when a queued proposal may be executed.
isAwaitingStateChange(p, clock) ==
    p.status = "Succeeded" \/ (p.status = "Queued" /\ clock >= p.eta)

moveStateAction(p) == IF p.status = "Succeeded" THEN "queue" ELSE "execute"

\* The Alps of a set of accounts, from how many each has.
Alps(count, accounts) == MapThenSumSet(LAMBDA a : count[a], accounts)

\* The number of Alps of those who voted one way: those that the subgraph's delegates
\* represented at the block of the proposal's creation. Who is not in the lists has none.
getAlpVotes(voters, lists, support) ==
    Alps(lists, {a \in DOMAIN lists : [voter |-> a, support |-> support] \in voters})

voteCard(p, lists, support, votes) ==
    [percentage |-> percentage(p, votes), votes |-> votes,
     alps |-> getAlpVotes(p.voters, lists, support)]

\* A receipt is None before it is fetched: no vote then, and the kind of vote is -1. The
\* chain's receipt of an account without a vote has the kind 0.
hasVoted(receipt) == receipt # None /\ receipt.hasVoted

\* What an account is told of its vote: '' and abstentions read the same.
useProposalVote(receipt) ==
    IF receipt = None THEN "" ELSE <<"Against", "For", "Abstain">>[receipt.support + 1]
getTranslatedVoteCopyFromString(vote) == IF vote \in {"For", "Against"} THEN vote ELSE "Abstained"

disableVoteButton(account, availableVotes, receipt) ==
    account = None \/ availableVotes \in {None, 0} \/ hasVoted(receipt)

\* ProposalHeader: the state, the button and what it says beside it.
ProposalHeader(p, active, account, availableVotes, receipt) ==
    [status |-> p.status,
     voteButton |-> IF ~active THEN "none"
                    ELSE IF disableVoteButton(account, availableVotes, receipt) THEN "disabled"
                    ELSE "enabled",
     note |-> IF ~active THEN "none"
              ELSE IF account = None THEN "connect a wallet"
              ELSE IF availableVotes \in {None, 0} THEN "no votes" ELSE "votes",
     voted |-> IF active /\ hasVoted(receipt)
               THEN getTranslatedVoteCopyFromString(useProposalVote(receipt)) ELSE "none"]

\* The vote page once it is loaded: header, cards of the three tallies, the button that
\* moves the proposal on, disabled while one of its transactions is pending, and below
\* them the quorum, the date and the snapshot. A quorum that has not arrived is 0.
VotePage(p, header, lists, pending, clock) ==
    [header |-> header,
     cards |-> [support \in 0..2 |-> voteCard(p, lists, support,
                   <<p.againstVotes, p.forVotes, p.abstainVotes>>[support + 1])],
     move |-> IF ~isAwaitingStateChange(p, clock) THEN "none"
              ELSE IF pending THEN "spinner" ELSE moveStateAction(p)]

VoteInfo(p, isV2Prop, currentQuorum, n, late) ==
    [quorum |-> IF ~isV2Prop THEN p.quorumVotes
                ELSE IF currentQuorum = None THEN 0 ELSE currentQuorum,
     time |-> startOrEndTime(p, n, late),
     snapshot |-> p.createdBlock]

-----------------------------------------------------------------------------
(* The dynamic quorum window. Parameters that have not arrived count as 0. *)

\* Whether the quorum has reached its maximum at a share of Alps against.
pastCrossover(params, bps) == bps * params.coefficient >= (params.max - params.min) * Unit

\* The quorum at a share of Alps against, times Unit: the page does not round it yet.
dqmFunction(params, bps) ==
    LET q == params.min * Unit + params.coefficient * bps
    IN IF q < params.max * Unit THEN q ELSE params.max * Unit

\* What the window shows at a share of Alps against, and whether the point is past the
\* crossover of its plot.
DynamicQuorumInfoModalOverlay(params, bps, supply) ==
    [min |-> (params.min * supply) \div 10000,
     current |-> (dqmFunction(params, bps) * supply) \div (10000 * Unit),
     max |-> (params.max * supply) \div 10000,
     flat |-> pastCrossover(params, bps)]

DynamicQuorumInfoModal(answer, againstAlps, supply) ==
    DynamicQuorumInfoModalOverlay(
        IF answer = None THEN [min |-> 0, max |-> 0, coefficient |-> 0] ELSE answer,
        (againstAlps * 10000) \div supply, supply)

-----------------------------------------------------------------------------
(* The list of proposals. *)

\* The label of a live proposal's countdown. Its unknown block is passed as 0, which
\* leaves the dates undefined.
getCountdownCopy(p, n, late) ==
    IF n = None THEN "Starts"
    ELSE IF isBefore(startDate(p, n), late) /\ isAfter(endDate(p, n)) THEN "Ends"
    ELSE IF isBefore(endDate(p, n), late) THEN "Expires" ELSE "Starts"

isPropInStateToHaveCountDown(p) == p.status \in {"Pending", "Active", "Queued"}

statusVariant(status) ==
    CASE status \in {"Pending", "Active"}     -> "primary"
      [] status \in {"Succeeded", "Executed"} -> "success"
      [] status \in {"Defeated", "Vetoed"}    -> "danger"
      [] OTHER                                -> "secondary"

Zero(x) == IF x = None THEN 0 ELSE x

hasEnoughVotesToPropose(account, votes, threshold) ==
    account # None /\ Zero(votes) >= Zero(threshold) + 1

\* `account !== null` holds of a missing account too.
nullStateCopy(votes) == IF Zero(votes) > 0 THEN "requires votes" ELSE "no votes"

\* Proposals: the newest first.
Proposals(proposals, account, votes, threshold, balance, n, late) ==
    [submit |-> IF hasEnoughVotesToPropose(account, votes, threshold) THEN "enabled"
                ELSE nullStateCopy(votes),
     delegate |-> Zero(balance) > 0,
     rows |-> [i \in DOMAIN proposals |->
                 LET p == proposals[Len(proposals) + 1 - i]
                 IN [id |-> p.id, status |-> p.status, variant |-> statusVariant(p.status),
                     countdown |-> IF isPropInStateToHaveCountDown(p)
                                   THEN getCountdownCopy(p, n, late) ELSE "none"]]]
=============================================================================
