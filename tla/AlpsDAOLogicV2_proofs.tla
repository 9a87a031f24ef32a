------------------------ MODULE AlpsDAOLogicV2_proofs ------------------------
(***************************************************************************)
(* Proofs about AlpsDAOLogicV2 for any accounts, votes, lists of calls,    *)
(* parameters and bounds.                                                  *)
(***************************************************************************)
EXTENDS AlpsDAOLogicV2, SequenceTheorems, FiniteSetTheorems, WellFoundedInduction, TLAPS

-----------------------------------------------------------------------------
(* Induction on the natural numbers, for the loops: about sets, not predicates. *)

\* A set that holds 0 and the successor of each of its numbers holds them all.
LEMMA SetInduction ==
    ASSUME NEW S, 0 \in S, \A n \in Nat : n \in S => n + 1 \in S
    PROVE  Nat \subseteq S
<1> DEFINE R == OpToRel(<, Nat)
           T == Nat \ S
<1>1. IsWellFoundedOn(R, Nat)  BY NatLessThanWellFounded
<1>2. \A x, y \in Nat : x < y => <<x, y>> \in R  BY DEF R, OpToRel
<1> HIDE DEF R
<1>3. CASE T # {}
  <2>1. PICK n \in T : \A m \in T : ~(<<m, n>> \in R)  BY <1>1, <1>3, WFMin
  <2>2. n \in Nat /\ n # 0 /\ n - 1 \in Nat /\ n - 1 \notin S  OBVIOUS
  <2>3. n - 1 < n  BY <2>2
  <2>4. <<n - 1, n>> \in R  BY <1>2, <2>2, <2>3
  <2> QED  BY <2>1, <2>2, <2>4
<1> QED  BY <1>3

-----------------------------------------------------------------------------
\* Voting on a proposal starts and ends in order, after its creation; it is
\* queued after its vote, and executed after it was queued.
ProposalsInOrder ==
    \A id \in 1..Len(proposals) :
        LET p == proposals[id]
        IN  /\ p.creationBlock \in 1..block
            /\ p.creationBlock < p.startBlock /\ p.startBlock < p.endBlock
            /\ p.eta # 0 => block > p.endBlock
            /\ p.executed => p.eta # 0

\* There is a checkpoint of the quorum parameters, and none of a later block.
ParamsCheckpointed ==
    /\ Len(quorumParamsCheckpoints) >= 1
    /\ \A i \in 1..Len(quorumParamsCheckpoints) : quorumParamsCheckpoints[i].fromBlock \in 1..block

\* latestProposalIds names the last proposal of each proposer, and every older
\* one is past its vote.
LatestIsLast ==
    /\ \A a \in Accounts :
         latestProposalIds[a] # 0 => proposals[latestProposalIds[a]].proposer = a
    /\ \A id \in 1..Len(proposals) :
         \/ id = latestProposalIds[proposals[id].proposer]
         \/ state(id) \notin {"Pending", "Active"}

\* The inductive invariant.
DAOInv ==
    /\ TypeOK
    /\ ProposalsInOrder
    /\ ParamsCheckpointed
    /\ LatestIsLast
    /\ OnlyApprovedQueued

-----------------------------------------------------------------------------
\* A checkpoint written now leaves the parameters of every past block alone.
LEMMA PastParamsKept ==
    ASSUME TypeOK, ParamsCheckpointed, NEW params, WriteQuorumParamsCheckpoint(params),
           NEW b \in Nat, b < block
    PROVE  getDynamicQuorumParamsAt(b)' = getDynamicQuorumParamsAt(b)
<1> DEFINE cps == quorumParamsCheckpoints
           n == Len(cps)
           checkpoint == [fromBlock |-> block, params |-> params]
           written == {i \in 1..n : cps[i].fromBlock <= b}
           last == {i \in written : \A j \in written : j <= i}
<1>1. block \in Nat /\ n \in Nat \ {0} /\ cps \in Seq([fromBlock : Nat, params : QuorumParams])
  BY DEF TypeOK, ParamsCheckpointed
<1>2. cps' = IF cps[n].fromBlock = block THEN [cps EXCEPT ![n] = checkpoint] ELSE Append(cps, checkpoint)
  BY DEF WriteQuorumParamsCheckpoint
<1>3. checkpoint.fromBlock = block  OBVIOUS
<1>4. /\ \A i \in written : i \in 1..Len(cps') /\ cps'[i] = cps[i]
      /\ {i \in 1..Len(cps') : cps'[i].fromBlock <= b} = written
  <2> HIDE DEF checkpoint
  <2>1. CASE cps[n].fromBlock = block
    <3>1. /\ Len(cps') = n /\ cps'[n] = checkpoint
          /\ \A i \in 1..n : i # n => cps'[i] = cps[i]
      BY <1>1, <1>2, <2>1
    <3> QED  BY <1>1, <1>3, <2>1, <3>1
  <2>2. CASE cps[n].fromBlock # block
    <3>1. /\ Len(cps') = n + 1 /\ cps'[n + 1] = checkpoint
          /\ \A i \in 1..n : cps'[i] = cps[i]
      BY <1>1, <1>2, <2>2
    <3> QED  BY <1>1, <1>3, <3>1
  <2> QED  BY <2>1, <2>2
<1>5. last = {} => getDynamicQuorumParamsAt(b)' = getDynamicQuorumParamsAt(b)
  BY <1>4 DEF getDynamicQuorumParamsAt
<1>6. last # {} => getDynamicQuorumParamsAt(b)' = getDynamicQuorumParamsAt(b)
  <2> SUFFICES ASSUME last # {} PROVE getDynamicQuorumParamsAt(b)' = getDynamicQuorumParamsAt(b)
    OBVIOUS
  <2> DEFINE i == CHOOSE x \in last : TRUE
  <2>1. i \in written  OBVIOUS
  <2>2. getDynamicQuorumParamsAt(b) = cps[i].params  BY DEF getDynamicQuorumParamsAt
  <2>3. getDynamicQuorumParamsAt(b)' = cps'[i].params  BY <1>4 DEF getDynamicQuorumParamsAt
  <2> QED  BY <1>4, <2>1, <2>2, <2>3
<1> QED  BY <1>5, <1>6

\* The state of a proposal that a transaction leaves alone stays the same, even
\* when the transaction changes the quorum parameters.
LEMMA StateKept ==
    ASSUME TypeOK, ProposalsInOrder, ParamsCheckpointed,
           UNCHANGED <<block, now>>,
           NEW params, UNCHANGED quorumParamsCheckpoints \/ WriteQuorumParamsCheckpoint(params),
           NEW id \in 1..Len(proposals), proposals'[id] = proposals[id]
    PROVE  state(id)' = state(id)
<1> DEFINE p == proposals[id]
<1>1. /\ block \in Nat /\ p.creationBlock \in Nat /\ p.creationBlock < p.startBlock
      /\ p.startBlock \in Nat /\ p.endBlock \in Nat /\ p.startBlock < p.endBlock
  <2>1. p \in Proposal  BY DEF TypeOK
  <2> HIDE DEF p
  <2>2. block \in Nat  BY DEF TypeOK
  <2> QED  BY <2>1, <2>2 DEF Proposal, ProposalsInOrder, p
<1>2. block > p.endBlock => quorumVotes(p)' = quorumVotes(p)
  <2> SUFFICES ASSUME block > p.endBlock PROVE quorumVotes(p)' = quorumVotes(p)
    OBVIOUS
  <2>1. p.creationBlock < block  BY <1>1
  <2>2. getDynamicQuorumParamsAt(p.creationBlock)' = getDynamicQuorumParamsAt(p.creationBlock)
    <3>1. CASE UNCHANGED quorumParamsCheckpoints  BY <3>1 DEF getDynamicQuorumParamsAt
    <3>2. CASE WriteQuorumParamsCheckpoint(params)
      <4>1. PICK b \in Nat : b = p.creationBlock  BY <1>1
      <4>2. getDynamicQuorumParamsAt(b)' = getDynamicQuorumParamsAt(b)
        BY <2>1, <3>2, <4>1, PastParamsKept
      <4>3. (p.creationBlock)' = b  BY <4>1
      <4> QED  BY <4>1, <4>2, <4>3, Zenon
    <3> QED  BY <3>1, <3>2
  <2> QED  BY <2>2 DEF quorumVotes
<1>3. StateOf(p)' = StateOf(p)
  <2>1. CASE block > p.endBlock  BY <1>1, <1>2, <2>1 DEF StateOf
  <2>2. CASE block <= p.endBlock  BY <1>1, <2>2 DEF StateOf
  <2> QED  BY <1>1, <2>1, <2>2
<1> QED  BY <1>3 DEF state

-----------------------------------------------------------------------------
\* A transaction that changes one proposal.
LEMMA OneProposalChanged ==
    ASSUME proposals \in Seq(Proposal), NEW id \in 1..Len(proposals), NEW q \in Proposal,
           proposals' = [proposals EXCEPT ![id] = q]
    PROVE  /\ proposals' \in Seq(Proposal) /\ Len(proposals') = Len(proposals)
           /\ proposals'[id] = q
           /\ \A i \in 1..Len(proposals) : i # id => proposals'[i] = proposals[i]
OBVIOUS

\* q is p with the vote of the voter.
Counts(p, q, voter, support) ==
    /\ q.tally = [p.tally EXCEPT ![support] = @ + priorVotes[p.creationBlock][voter]]
    /\ q.receipts = [p.receipts EXCEPT ![voter] = support]

\* What a vote does to the proposal it is about: the votes of the creation
\* block, which are still there to be read, go to one tally, and the receipt
\* to the voter.
LEMMA CountedProposal ==
    ASSUME TypeOK, ProposalsInOrder, NEW id \in 1..Len(proposals), NEW voter \in Accounts,
           NEW support \in 0..2, CastVote(voter, id, support)
    PROVE  \E q \in Proposal :
             /\ proposals' = [proposals EXCEPT ![id] = q]
             /\ \E t, r : q = [proposals[id] EXCEPT !.tally = t, !.receipts = r]
             /\ proposals[id].creationBlock \in DOMAIN priorVotes
             /\ Counts(proposals[id], q, voter, support)
<1> DEFINE p == proposals[id]
<1>1. p \in Proposal /\ block \in Nat  BY DEF TypeOK
<1>2. p.creationBlock < block /\ block <= p.endBlock
  <2>1. p.creationBlock \in Nat /\ p.startBlock \in Nat /\ p.endBlock \in Nat
    <3> HIDE DEF p
    <3> QED  BY <1>1 DEF Proposal
  <2>2. p.creationBlock < p.startBlock  BY DEF ProposalsInOrder
  <2>3. StateOf(p) = "Active"  BY DEF CastVote, state
  <2>4. block > p.startBlock /\ block <= p.endBlock  BY <1>1, <2>1, <2>3 DEF StateOf
  <2> QED  BY <1>1, <2>1, <2>2, <2>4
<1>3. priorVotes[p.creationBlock][voter] \in Nat
  <2>1. p.creationBlock \in DOMAIN priorVotes  BY <1>2 DEF TypeOK, VotesAvailable
  <2> QED  BY <2>1 DEF TypeOK
<1> DEFINE n == priorVotes[p.creationBlock][voter]
           t == [p.tally EXCEPT ![support] = @ + n]
           r == [p.receipts EXCEPT ![voter] = support]
           q == [p EXCEPT !.tally = t, !.receipts = r]
<1>4. t \in [0..2 -> Nat] /\ r \in [Accounts -> 0..3]
  <2> HIDE DEF p, n
  <2>1. p.tally \in [0..2 -> Nat] /\ p.receipts \in [Accounts -> 0..3]  BY <1>1 DEF Proposal
  <2> QED  BY <1>3, <2>1 DEF n
<1>5. q \in Proposal
  <2> HIDE DEF p, t, r
  <2> QED  BY <1>1, <1>4 DEF Proposal
<1>6. proposals' = [proposals EXCEPT ![id] = q]
  <2>1. proposals' = [proposals EXCEPT ![id].tally[support] = @ + n, ![id].receipts[voter] = support]
    BY DEF CastVote
  <2>2. DOMAIN p = {"proposer", "proposalThreshold", "calls", "eta", "startBlock", "endBlock",
                    "tally", "totalSupply", "canceled", "vetoed", "executed", "creationBlock",
                    "receipts"}
    <3> HIDE DEF p
    <3> QED  BY <1>1 DEF Proposal
  <2> HIDE DEF n
  <2> QED  BY <2>1, <2>2
<1>7. p.creationBlock \in DOMAIN priorVotes  BY <1>2 DEF TypeOK, VotesAvailable
<1>8. Counts(p, q, voter, support)
  <2>1. q.tally = t /\ q.receipts = r
    <3> HIDE DEF p, t, r
    <3> QED  BY <1>1 DEF Proposal
  <2> QED  BY <2>1 DEF Counts
<1> QED  BY <1>5, <1>6, <1>7, <1>8

LEMMA VotedProposal ==
    ASSUME TypeOK, ProposalsInOrder, NEW id \in 1..Len(proposals), NEW voter \in Accounts,
           NEW support \in 0..2, CastVote(voter, id, support)
    PROVE  \E q \in Proposal :
             /\ proposals' = [proposals EXCEPT ![id] = q]
             /\ \E t, r : q = [proposals[id] EXCEPT !.tally = t, !.receipts = r]
<1>1. PICK q \in Proposal :
        /\ proposals' = [proposals EXCEPT ![id] = q]
        /\ \E t, r : q = [proposals[id] EXCEPT !.tally = t, !.receipts = r]
        /\ proposals[id].creationBlock \in DOMAIN priorVotes
        /\ Counts(proposals[id], q, voter, support)
  BY CountedProposal
<1> QED  BY <1>1

\* A change of one proposal that leaves its proposer and blocks alone keeps the
\* order of its life and the state of every other proposal.
LEMMA ChangeFacts ==
    ASSUME TypeOK, ProposalsInOrder, ParamsCheckpointed, UNCHANGED <<block, now>>,
           NEW params, UNCHANGED quorumParamsCheckpoints \/ WriteQuorumParamsCheckpoint(params),
           NEW id \in 1..Len(proposals), NEW q \in Proposal,
           proposals' = [proposals EXCEPT ![id] = q],
           q.creationBlock = proposals[id].creationBlock,
           q.startBlock = proposals[id].startBlock, q.endBlock = proposals[id].endBlock,
           q.eta # 0 => block > q.endBlock, q.executed => q.eta # 0
    PROVE  /\ proposals' \in Seq(Proposal) /\ Len(proposals') = Len(proposals)
           /\ proposals'[id] = q /\ state(id)' = StateOf(q)'
           /\ \A i \in 1..Len(proposals) :
                i # id => proposals'[i] = proposals[i] /\ state(i)' = state(i)
           /\ ProposalsInOrder'
           /\ UNCHANGED priorVotes => VotesAvailable'
<1>1. /\ proposals' \in Seq(Proposal) /\ Len(proposals') = Len(proposals)
      /\ proposals'[id] = q
      /\ \A i \in 1..Len(proposals) : i # id => proposals'[i] = proposals[i]
  BY OneProposalChanged DEF TypeOK
<1>2. \A i \in 1..Len(proposals) : i # id => state(i)' = state(i)
  BY <1>1, StateKept
<1>3. ProposalsInOrder'
  <2>1. ASSUME NEW i \in 1..Len(proposals)
        PROVE  LET p == proposals'[i]
               IN  /\ p.creationBlock \in 1..block
                   /\ p.creationBlock < p.startBlock /\ p.startBlock < p.endBlock
                   /\ p.eta # 0 => block > p.endBlock
                   /\ p.executed => p.eta # 0
    <3>1. CASE i = id  BY <1>1, <3>1 DEF ProposalsInOrder
    <3>2. CASE i # id  BY <1>1, <3>2 DEF ProposalsInOrder
    <3> QED  BY <3>1, <3>2
  <2> QED  BY <1>1, <2>1 DEF ProposalsInOrder
<1>4. UNCHANGED priorVotes => VotesAvailable'
  <2> SUFFICES ASSUME UNCHANGED priorVotes, NEW i \in 1..Len(proposals)
               PROVE  LET p == proposals'[i]
                      IN  p.creationBlock < block /\ block <= p.endBlock =>
                            p.creationBlock \in DOMAIN priorVotes
    BY <1>1 DEF VotesAvailable
  <2>1. CASE i = id  BY <1>1, <2>1 DEF TypeOK, VotesAvailable
  <2>2. CASE i # id  BY <1>1, <2>2 DEF TypeOK, VotesAvailable
  <2> QED  BY <2>1, <2>2
<1>5. state(id)' = StateOf(q)'  BY <1>1 DEF state
<1> QED  BY <1>1, <1>2, <1>3, <1>4, <1>5

\* castVote() keeps a proposal active.
LEMMA CastVoteFacts ==
    ASSUME TypeOK, ProposalsInOrder, ParamsCheckpointed, NEW id \in 1..Len(proposals),
           NEW voter \in Accounts, NEW support \in 0..2, CastVote(voter, id, support)
    PROVE  /\ proposals' \in Seq(Proposal) /\ Len(proposals') = Len(proposals)
           /\ proposals'[id].proposer = proposals[id].proposer
           /\ proposals'[id].calls = proposals[id].calls /\ proposals'[id].eta = proposals[id].eta
           /\ \A i \in 1..Len(proposals) :
                i # id => proposals'[i] = proposals[i] /\ state(i)' = state(i)
           /\ state(id) = "Active" /\ state(id)' = "Active"
           /\ ProposalsInOrder' /\ VotesAvailable'
<1> DEFINE p == proposals[id]
<1>1. p \in Proposal /\ block \in Nat  BY DEF TypeOK
<1>2. PICK q \in Proposal :
        /\ proposals' = [proposals EXCEPT ![id] = q]
        /\ \E t, r : q = [p EXCEPT !.tally = t, !.receipts = r]
  BY VotedProposal
<1>3. /\ q.proposer = p.proposer /\ q.calls = p.calls /\ q.eta = p.eta
      /\ q.creationBlock = p.creationBlock /\ q.startBlock = p.startBlock /\ q.endBlock = p.endBlock
      /\ q.canceled = p.canceled /\ q.vetoed = p.vetoed /\ q.executed = p.executed
  <2> HIDE DEF p
  <2> QED  BY <1>1, <1>2 DEF Proposal
<1>4. UNCHANGED <<block, now, quorumParamsCheckpoints, priorVotes>>
  BY DEF CastVote, tokenVars, paramVars
<1>5. (q.eta # 0 => block > q.endBlock) /\ (q.executed => q.eta # 0)
  BY <1>3 DEF ProposalsInOrder
<1>6. /\ proposals' \in Seq(Proposal) /\ Len(proposals') = Len(proposals)
      /\ proposals'[id] = q /\ state(id)' = StateOf(q)'
      /\ \A i \in 1..Len(proposals) :
           i # id => proposals'[i] = proposals[i] /\ state(i)' = state(i)
      /\ ProposalsInOrder' /\ VotesAvailable'
  BY <1>2, <1>3, <1>4, <1>5, ChangeFacts
<1>7. StateOf(p) = "Active"  BY DEF CastVote, state
<1>8. StateOf(q)' = "Active"
  <2>1. ~p.vetoed /\ ~p.canceled /\ ~(block <= p.startBlock) /\ block <= p.endBlock
    BY <1>7 DEF StateOf
  <2> QED  BY <1>3, <1>4, <2>1 DEF StateOf
<1> QED  BY <1>3, <1>6, <1>7, <1>8 DEF state

\* queue() takes a proposal from Succeeded to Queued.
LEMMA QueueFacts ==
    ASSUME TypeOK, ProposalsInOrder, ParamsCheckpointed, NEW id \in 1..Len(proposals), Queue(id)
    PROVE  /\ proposals' \in Seq(Proposal) /\ Len(proposals') = Len(proposals)
           /\ proposals'[id].proposer = proposals[id].proposer
           /\ proposals'[id].calls = proposals[id].calls
           /\ proposals'[id].eta = now + delay /\ now + delay \in Nat
           /\ \A i \in 1..Len(proposals) :
                i # id => proposals'[i] = proposals[i] /\ state(i)' = state(i)
           /\ state(id) = "Succeeded" /\ state(id)' = "Queued"
           /\ ProposalsInOrder' /\ VotesAvailable'
<1> DEFINE p == proposals[id]
<1>1. p \in Proposal /\ block \in Nat /\ now \in Nat /\ delay \in Nat \ {0} /\ GRACE_PERIOD \in Nat
  BY DelaysAssumption DEF TypeOK, Delays
<1>2. proposals' = [proposals EXCEPT ![id] = [p EXCEPT !.eta = now + delay]]
  BY DEF Queue
<1>3. [p EXCEPT !.eta = now + delay] \in Proposal
  <2>1. ASSUME NEW e \in Nat PROVE [p EXCEPT !.eta = e] \in Proposal
    <3> HIDE DEF p
    <3> QED  BY <1>1 DEF Proposal
  <2>2. now + delay \in Nat  BY <1>1
  <2> QED  BY <2>1, <2>2
<1>4. PICK q \in Proposal : q = [p EXCEPT !.eta = now + delay]  BY <1>3
<1>5. /\ q.proposer = p.proposer /\ q.calls = p.calls /\ q.eta = now + delay
      /\ q.creationBlock = p.creationBlock /\ q.startBlock = p.startBlock /\ q.endBlock = p.endBlock
      /\ q.canceled = p.canceled /\ q.vetoed = p.vetoed /\ q.executed = p.executed
      /\ q.tally = p.tally /\ q.totalSupply = p.totalSupply
  <2> HIDE DEF p
  <2> QED  BY <1>1, <1>4 DEF Proposal
<1>6. UNCHANGED <<block, now, quorumParamsCheckpoints, priorVotes>>
  BY DEF Queue, tokenVars, paramVars
<1>7. q.eta # 0 /\ block > q.endBlock
  <2>1. block > p.endBlock /\ now + delay # 0
    <3>1. p.endBlock \in Nat
      <4> HIDE DEF p
      <4> QED  BY <1>1 DEF Proposal
    <3>2. StateOf(p) = "Succeeded"  BY DEF Queue, state
    <3> QED  BY <1>1, <3>1, <3>2 DEF StateOf
  <2> QED  BY <1>5, <2>1
<1>8. /\ proposals' \in Seq(Proposal) /\ Len(proposals') = Len(proposals)
      /\ proposals'[id] = q /\ state(id)' = StateOf(q)'
      /\ \A i \in 1..Len(proposals) :
           i # id => proposals'[i] = proposals[i] /\ state(i)' = state(i)
      /\ ProposalsInOrder' /\ VotesAvailable'
  BY <1>2, <1>4, <1>5, <1>6, <1>7, ChangeFacts
<1>9. StateOf(p) = "Succeeded"  BY DEF Queue, state
<1>10. StateOf(q)' = "Queued"
  <2>1. /\ ~p.vetoed /\ ~p.canceled /\ ~(block <= p.startBlock) /\ ~(block <= p.endBlock)
        /\ ~(p.tally[1] <= p.tally[0] \/ p.tally[1] < quorumVotes(p)) /\ p.eta = 0
    BY <1>9 DEF StateOf
  <2>2. ~p.executed  BY <2>1 DEF ProposalsInOrder
  <2>3. quorumVotes(q)' = quorumVotes(p)
    BY <1>5, <1>6 DEF quorumVotes, getDynamicQuorumParamsAt
  <2>4. q.eta # 0 /\ ~(now >= q.eta + GRACE_PERIOD)  BY <1>1, <1>5
  <2> QED  BY <1>5, <1>6, <2>1, <2>2, <2>3, <2>4 DEF StateOf
<1> QED  BY <1>1, <1>5, <1>8, <1>9, <1>10 DEF state

\* execute() takes a proposal from Queued to Executed.
LEMMA ExecuteFacts ==
    ASSUME TypeOK, ProposalsInOrder, ParamsCheckpointed, NEW id \in 1..Len(proposals), Execute(id)
    PROVE  /\ proposals' \in Seq(Proposal) /\ Len(proposals') = Len(proposals)
           /\ proposals'[id].proposer = proposals[id].proposer
           /\ proposals'[id].calls = proposals[id].calls /\ proposals'[id].eta = proposals[id].eta
           /\ \A i \in 1..Len(proposals) :
                i # id => proposals'[i] = proposals[i] /\ state(i)' = state(i)
           /\ state(id) = "Queued" /\ state(id)' = "Executed"
           /\ now < proposals[id].eta + GRACE_PERIOD
           /\ ProposalsInOrder' /\ VotesAvailable'
<1> DEFINE p == proposals[id]
<1>1. p \in Proposal /\ block \in Nat /\ now \in Nat /\ GRACE_PERIOD \in Nat
  BY DelaysAssumption DEF TypeOK
<1>2. proposals' = [proposals EXCEPT ![id] = [p EXCEPT !.executed = TRUE]]
  BY DEF Execute
<1>3. [p EXCEPT !.executed = TRUE] \in Proposal
  <2> HIDE DEF p
  <2> QED  BY <1>1 DEF Proposal
<1>4. PICK q \in Proposal : q = [p EXCEPT !.executed = TRUE]  BY <1>3
<1>5. /\ q.proposer = p.proposer /\ q.calls = p.calls /\ q.eta = p.eta
      /\ q.creationBlock = p.creationBlock /\ q.startBlock = p.startBlock /\ q.endBlock = p.endBlock
      /\ q.canceled = p.canceled /\ q.vetoed = p.vetoed /\ q.executed
      /\ q.tally = p.tally /\ q.totalSupply = p.totalSupply
      /\ p.eta \in Nat /\ p.creationBlock \in Nat /\ p.startBlock \in Nat /\ p.endBlock \in Nat
  <2> HIDE DEF p
  <2> QED  BY <1>1, <1>4 DEF Proposal
<1>6. UNCHANGED <<block, now, priorVotes>>  BY DEF Execute, tokenVars
<1>7. PICK params : UNCHANGED quorumParamsCheckpoints \/ WriteQuorumParamsCheckpoint(params)
  BY DEF Execute
<1>8. StateOf(p) = "Queued"  BY DEF Execute, state
<1>9. /\ ~p.vetoed /\ ~p.canceled /\ ~(block <= p.startBlock) /\ ~(block <= p.endBlock)
      /\ ~(p.tally[1] <= p.tally[0] \/ p.tally[1] < quorumVotes(p)) /\ p.eta # 0
      /\ ~(now >= p.eta + GRACE_PERIOD)
  BY <1>8 DEF StateOf
<1>10. /\ proposals' \in Seq(Proposal) /\ Len(proposals') = Len(proposals)
       /\ proposals'[id] = q /\ state(id)' = StateOf(q)'
       /\ \A i \in 1..Len(proposals) :
            i # id => proposals'[i] = proposals[i] /\ state(i)' = state(i)
       /\ ProposalsInOrder' /\ VotesAvailable'
  <2>1. block > q.endBlock /\ q.eta # 0  BY <1>1, <1>5, <1>9
  <2> QED  BY <1>2, <1>4, <1>5, <1>6, <1>7, <2>1, ChangeFacts
<1>11. StateOf(q)' = "Executed"
  <2>1. q.creationBlock < block /\ q.creationBlock \in Nat
    <3>1. p.creationBlock < p.startBlock  BY DEF ProposalsInOrder
    <3> QED  BY <1>1, <1>5, <1>9, <3>1
  <2>2. getDynamicQuorumParamsAt(q.creationBlock)' = getDynamicQuorumParamsAt(q.creationBlock)
    <3>1. CASE UNCHANGED quorumParamsCheckpoints  BY <3>1 DEF getDynamicQuorumParamsAt
    <3>2. CASE WriteQuorumParamsCheckpoint(params)  BY <2>1, <3>2, PastParamsKept
    <3> QED  BY <1>7, <3>1, <3>2
  <2>3. quorumVotes(q)' = quorumVotes(p)  BY <1>5, <2>2 DEF quorumVotes
  <2> QED  BY <1>5, <1>6, <1>9, <2>3 DEF StateOf
<1> QED  BY <1>1, <1>5, <1>8, <1>9, <1>10, <1>11 DEF state

\* cancel() and veto() take a proposal that is not executed to its end.
LEMMA KillFacts ==
    ASSUME TypeOK, ProposalsInOrder, ParamsCheckpointed, NEW id \in 1..Len(proposals),
           \E sender : Cancel(sender, id) \/ Veto(sender, id)
    PROVE  /\ proposals' \in Seq(Proposal) /\ Len(proposals') = Len(proposals)
           /\ proposals'[id].proposer = proposals[id].proposer
           /\ proposals'[id].calls = proposals[id].calls /\ proposals'[id].eta = proposals[id].eta
           /\ \A i \in 1..Len(proposals) :
                i # id => proposals'[i] = proposals[i] /\ state(i)' = state(i)
           /\ state(id) # "Executed" /\ state(id)' \in {"Canceled", "Vetoed"}
           /\ state(id) = "Vetoed" => state(id)' = "Vetoed"
           /\ ProposalsInOrder' /\ VotesAvailable'
<1> DEFINE p == proposals[id]
<1>1. p \in Proposal  BY DEF TypeOK
<1>2. \/ proposals' = [proposals EXCEPT ![id] = [p EXCEPT !.canceled = TRUE]]
      \/ proposals' = [proposals EXCEPT ![id] = [p EXCEPT !.vetoed = TRUE]]
  BY DEF Cancel, Veto
<1>3. [p EXCEPT !.canceled = TRUE] \in Proposal /\ [p EXCEPT !.vetoed = TRUE] \in Proposal
  <2> HIDE DEF p
  <2> QED  BY <1>1 DEF Proposal
<1>4. PICK q \in Proposal : /\ proposals' = [proposals EXCEPT ![id] = q]
                            /\ \/ q = [p EXCEPT !.canceled = TRUE]
                               \/ q = [p EXCEPT !.vetoed = TRUE]
  BY <1>2, <1>3
<1>5. /\ q.proposer = p.proposer /\ q.calls = p.calls /\ q.eta = p.eta
      /\ q.creationBlock = p.creationBlock /\ q.startBlock = p.startBlock /\ q.endBlock = p.endBlock
      /\ q.executed = p.executed
      /\ q.canceled \/ q.vetoed
      /\ p.vetoed => q.vetoed
  <2> HIDE DEF p
  <2> QED  BY <1>1, <1>4 DEF Proposal
<1>6. UNCHANGED <<block, now, quorumParamsCheckpoints, priorVotes>>
  BY DEF Cancel, Veto, tokenVars, paramVars
<1>7. (q.eta # 0 => block > q.endBlock) /\ (q.executed => q.eta # 0)
  BY <1>5 DEF ProposalsInOrder
<1>8. /\ proposals' \in Seq(Proposal) /\ Len(proposals') = Len(proposals)
      /\ proposals'[id] = q /\ state(id)' = StateOf(q)'
      /\ \A i \in 1..Len(proposals) :
           i # id => proposals'[i] = proposals[i] /\ state(i)' = state(i)
      /\ ProposalsInOrder' /\ VotesAvailable'
  BY <1>4, <1>5, <1>6, <1>7, ChangeFacts
<1>9. StateOf(p) # "Executed"  BY DEF Cancel, Veto, state
<1>10. StateOf(q)' \in {"Canceled", "Vetoed"} /\ (StateOf(p) = "Vetoed" => StateOf(q)' = "Vetoed")
  BY <1>5 DEF StateOf
<1> QED  BY <1>5, <1>8, <1>9, <1>10 DEF state

\* propose() adds a pending proposal.
LEMMA ProposeFacts ==
    ASSUME TypeOK, ProposalsInOrder, ParamsCheckpointed,
           NEW sender \in Accounts, NEW calls \in CallLists, Propose(sender, calls)
    PROVE  LET n == Len(proposals)
           IN  /\ proposals' \in Seq(Proposal) /\ Len(proposals') = n + 1
               /\ proposals'[n + 1].proposer = sender /\ proposals'[n + 1].eta = 0
               /\ \A i \in 1..n : proposals'[i] = proposals[i] /\ state(i)' = state(i)
               /\ state(Len(proposals))' = "Pending"
               /\ latestProposalIds[sender] # 0 =>
                    state(latestProposalIds[sender]) \notin {"Pending", "Active"}
               /\ latestProposalIds' = [latestProposalIds EXCEPT ![sender] = n + 1]
               /\ ProposalsInOrder' /\ VotesAvailable'
<1> DEFINE n == Len(proposals)
           threshold == bps2Uint(proposalThresholdBPS, totalSupply)
           q == [proposer |-> sender, proposalThreshold |-> threshold, calls |-> calls, eta |-> 0,
                 startBlock |-> block + votingDelay,
                 endBlock |-> block + votingDelay + votingPeriod,
                 tally |-> [s \in 0..2 |-> 0], totalSupply |-> totalSupply,
                 canceled |-> FALSE, vetoed |-> FALSE, executed |-> FALSE,
                 creationBlock |-> block, receipts |-> [a \in Accounts |-> NotVoted]]
<1>1. /\ block \in Nat \ {0} /\ votingDelay \in Nat \ {0} /\ votingPeriod \in Nat \ {0}
      /\ proposalThresholdBPS \in Nat /\ totalSupply \in Nat /\ n \in Nat
      /\ proposals \in Seq(Proposal)
  BY ParametersAssumption DEF TypeOK
<1>2. threshold \in Nat
  <2>1. totalSupply * proposalThresholdBPS \in Nat  BY <1>1
  <2> QED  BY <2>1 DEF bps2Uint
<1>3. q \in Proposal
  <2> HIDE DEF threshold
  <2> QED  BY <1>1, <1>2 DEF Proposal, NotVoted
<1>4. proposals' = Append(proposals, q)  BY DEF Propose
<1>5. UNCHANGED <<block, now, quorumParamsCheckpoints, priorVotes>>
  BY DEF Propose, tokenVars, paramVars
<1>6. /\ q.creationBlock = block /\ q.startBlock = block + votingDelay
      /\ q.endBlock = block + votingDelay + votingPeriod /\ q.eta = 0
      /\ ~q.executed /\ ~q.vetoed /\ ~q.canceled /\ q.proposer = sender
  OBVIOUS
<1>7. PICK r \in Proposal : r = q  BY <1>3
<1> HIDE DEF q
<1>8. /\ proposals' \in Seq(Proposal) /\ Len(proposals') = n + 1 /\ proposals'[n + 1] = r
      /\ \A i \in 1..n : proposals'[i] = proposals[i]
  BY <1>1, <1>3, <1>4, <1>7
<1>9. \A i \in 1..n : state(i)' = state(i)  BY <1>5, <1>8, StateKept
<1>10. state(Len(proposals))' = "Pending"
  <2>1. ~r.vetoed /\ ~r.canceled /\ block <= r.startBlock  BY <1>1, <1>6, <1>7
  <2>2. proposals'[Len(proposals')] = r  BY <1>8
  <2> QED  BY <1>5, <2>1, <2>2 DEF state, StateOf
<1>11. ProposalsInOrder' /\ VotesAvailable'
  <2>1. ASSUME NEW i \in 1..(n + 1)
        PROVE  LET p == proposals'[i]
               IN  /\ p.creationBlock \in 1..block
                   /\ p.creationBlock < p.startBlock /\ p.startBlock < p.endBlock
                   /\ p.eta # 0 => block > p.endBlock
                   /\ p.executed => p.eta # 0
                   /\ p.creationBlock < block /\ block <= p.endBlock =>
                        p.creationBlock \in DOMAIN priorVotes
    <3>1. CASE i = n + 1
      <4>1. /\ r.creationBlock = block /\ r.startBlock = block + votingDelay
            /\ r.endBlock = block + votingDelay + votingPeriod /\ r.eta = 0 /\ ~r.executed
        BY <1>6, <1>7
      <4> QED  BY <1>1, <1>8, <3>1, <4>1
    <3>2. CASE i # n + 1
      <4>1. i \in 1..n  BY <1>1, <3>2
      <4>2. proposals'[i] = proposals[i]  BY <1>8, <4>1
      <4> QED  BY <4>1, <4>2 DEF ProposalsInOrder, TypeOK, VotesAvailable
    <3> QED  BY <3>1, <3>2
  <2> QED  BY <1>5, <1>8, <2>1 DEF ProposalsInOrder, VotesAvailable
<1> QED  BY <1>6, <1>7, <1>8, <1>9, <1>10, <1>11 DEF Propose

\* A new block moves each proposal along, and never back.
LEMMA NextBlockFacts ==
    ASSUME TypeOK, ProposalsInOrder, ParamsCheckpointed, NextBlock
    PROVE  /\ now' \in Nat /\ now' > now /\ block' = block + 1 /\ UNCHANGED proposals
           /\ \A id \in 1..Len(proposals) :
                state(id)' \in
                  IF state(id) = "Pending" THEN {"Pending", "Active"}
                  ELSE IF state(id) = "Active" THEN {"Active", "Defeated", "Succeeded"}
                  ELSE IF state(id) = "Queued" /\ now' >= proposals[id].eta + GRACE_PERIOD
                  THEN {"Expired"}
                  ELSE {state(id)}
           /\ ProposalsInOrder' /\ VotesAvailable'
<1>1. /\ block \in Nat /\ now \in Nat /\ GRACE_PERIOD \in Nat /\ block' = block + 1
      /\ UNCHANGED <<proposals, quorumParamsCheckpoints>>
  BY DelaysAssumption DEF TypeOK, NextBlock, paramVars
<1>2. now' \in Nat /\ now' > now
  <2>1. PICK t \in BlockTimes : now' = now + t  BY DEF NextBlock
  <2> QED  BY <1>1, <2>1, ParametersAssumption
<1>3. ASSUME NEW id \in 1..Len(proposals)
      PROVE  /\ proposals[id].creationBlock \in Nat /\ proposals[id].startBlock \in Nat
             /\ proposals[id].endBlock \in Nat /\ proposals[id].eta \in Nat
             /\ proposals[id].creationBlock \in 1..block
             /\ proposals[id].creationBlock < proposals[id].startBlock
             /\ proposals[id].startBlock < proposals[id].endBlock
             /\ proposals[id].eta # 0 => block > proposals[id].endBlock
             /\ proposals[id].executed => proposals[id].eta # 0
  <2> DEFINE p == proposals[id]
  <2>1. p \in Proposal  BY DEF TypeOK
  <2>2. p.creationBlock \in Nat /\ p.startBlock \in Nat /\ p.endBlock \in Nat /\ p.eta \in Nat
    <3> HIDE DEF p
    <3> QED  BY <2>1 DEF Proposal
  <2> QED  BY <2>2 DEF ProposalsInOrder
<1>4. ASSUME NEW id \in 1..Len(proposals)
      PROVE  state(id)' \in
               IF state(id) = "Pending" THEN {"Pending", "Active"}
               ELSE IF state(id) = "Active" THEN {"Active", "Defeated", "Succeeded"}
               ELSE IF state(id) = "Queued" /\ now' >= proposals[id].eta + GRACE_PERIOD
               THEN {"Expired"}
               ELSE {state(id)}
  <2> PICK p : p = proposals[id]  OBVIOUS
  <2>1. /\ p.startBlock \in Nat /\ p.endBlock \in Nat /\ p.eta \in Nat
        /\ p.startBlock < p.endBlock
        /\ p.eta # 0 => block > p.endBlock
    BY <1>3
  <2>2. quorumVotes(p)' = quorumVotes(p)
    BY <1>1 DEF quorumVotes, getDynamicQuorumParamsAt
  <2>3. state(id) = StateOf(p) /\ state(id)' = StateOf(p)'  BY <1>1 DEF state, StateOf, quorumVotes
  <2>4. CASE p.vetoed \/ p.canceled  BY <2>3, <2>4 DEF StateOf
  <2>5. CASE ~p.vetoed /\ ~p.canceled /\ block <= p.endBlock
    BY <1>1, <2>1, <2>3, <2>5 DEF StateOf
  <2>6. CASE ~p.vetoed /\ ~p.canceled /\ block > p.endBlock
    <3>1. /\ ~(block <= p.startBlock) /\ ~(block <= p.endBlock)
          /\ ~(block' <= p.startBlock) /\ ~(block' <= p.endBlock)
      BY <1>1, <2>1, <2>6
    <3>2. now >= p.eta + GRACE_PERIOD => now' >= p.eta + GRACE_PERIOD  BY <1>1, <1>2, <2>1
    <3> QED  BY <2>2, <2>3, <2>6, <3>1, <3>2 DEF StateOf
  <2> QED  BY <1>1, <2>1, <2>4, <2>5, <2>6
<1>5. ProposalsInOrder'
  <2>1. ASSUME NEW id \in 1..Len(proposals)
        PROVE  LET p == proposals[id]
               IN  /\ p.creationBlock \in 1..block'
                   /\ p.creationBlock < p.startBlock /\ p.startBlock < p.endBlock
                   /\ p.eta # 0 => block' > p.endBlock
                   /\ p.executed => p.eta # 0
    BY <1>1, <1>3
  <2> QED  BY <1>1, <2>1 DEF ProposalsInOrder
<1>6. VotesAvailable'
  <2> SUFFICES ASSUME NEW id \in 1..Len(proposals),
                      proposals[id].creationBlock < block', block' <= proposals[id].endBlock
               PROVE  proposals[id].creationBlock \in DOMAIN priorVotes'
    BY <1>1 DEF VotesAvailable
  <2>1. DOMAIN priorVotes' = AskedBlocks  BY DEF NextBlock
  <2>2. block < proposals[id].endBlock  BY <1>1, <1>3
  <2> QED  BY <2>1, <2>2 DEF AskedBlocks
<1> QED  BY <1>1, <1>2, <1>4, <1>5, <1>6

-----------------------------------------------------------------------------
\* The calls of a proposal and the transactions made of them.
LEMMA CallsOfProposal ==
    ASSUME proposals \in Seq(Proposal), NEW id \in 1..Len(proposals)
    PROVE  /\ proposals[id].calls \in Seq(Call) /\ proposals[id].eta \in Nat
           /\ proposals[id].proposer \in Accounts
<1>1. PICK p \in Proposal : p = proposals[id]  OBVIOUS
<1>2. p.calls \in CallLists /\ p.eta \in Nat /\ p.proposer \in Accounts  BY DEF Proposal
<1> QED  BY <1>1, <1>2, CallListsAssumption

LEMMA TransactionsType ==
    ASSUME NEW calls \in Seq(Call), NEW eta \in Nat
    PROVE  Transactions(calls, eta) \subseteq [call : Call, eta : Nat]
BY DEF Transactions

\* A slot keeps the type that its old value and every value assigned have.
LEMMA LastSetType ==
    ASSUME NEW calls, NEW kind, NEW S, NEW old \in S,
           \A i \in 1..Len(calls) : calls[i].kind = kind => calls[i].value \in S
    PROVE  LastSet(calls, kind, old) \in S
<1> DEFINE assigning == {i \in 1..Len(calls) : calls[i].kind = kind}
           last == {i \in assigning : \A j \in assigning : j <= i}
<1>1. CASE last = {}  BY <1>1 DEF LastSet
<1>2. CASE last # {}
  <2> DEFINE i == CHOOSE x \in last : TRUE
  <2>1. i \in assigning  BY <1>2
  <2>2. LastSet(calls, kind, old) = calls[i].value  BY <1>2 DEF LastSet
  <2> HIDE DEF i
  <2> QED  BY <2>1, <2>2
<1> QED  BY <1>1, <1>2

\* The timelock, while it executes the calls of a proposal.
LEMMA ExecuteTransactionsType ==
    ASSUME TypeOK, NEW calls \in Seq(Call), NEW eta \in Nat, ExecuteTransactions(calls, eta)
    PROVE  /\ delay' \in Delays
           /\ queuedTransactions' \subseteq [call : Call, eta : Nat]
           /\ executions' \in Seq([call : Call, eta : Nat])
<1>1. delay' \in Delays
  <2>1. delay \in Delays  BY DEF TypeOK
  <2>2. \A i \in 1..Len(calls) : calls[i].kind = "delay" => calls[i].value \in Delays
    BY DEF ExecuteTransactions
  <2>3. delay' = LastSet(calls, "delay", delay)  BY DEF ExecuteTransactions
  <2> QED  BY <2>1, <2>2, <2>3, LastSetType
<1>2. queuedTransactions' \subseteq [call : Call, eta : Nat]
  BY DEF TypeOK, ExecuteTransactions
<1>3. executions' \in Seq([call : Call, eta : Nat])
  <2> DEFINE done == [i \in 1..Len(calls) |-> [call |-> calls[i], eta |-> eta]]
             Tx == [call : Call, eta : Nat]
  <2>1. Len(calls) \in Nat /\ \A i \in 1..Len(calls) : done[i] \in Tx  OBVIOUS
  <2>2. done \in Seq(Tx)
    <3>1. done \in [1..Len(calls) -> Tx]
      <4> HIDE DEF Tx
      <4> QED  BY <2>1
    <3> HIDE DEF done, Tx
    <3>2. PICK m \in Nat : m = Len(calls)  BY <2>1
    <3>3. done \in [1..m -> Tx]  BY <3>1, <3>2
    <3> QED  BY <3>3, SeqDef
  <2>3. executions \in Seq(Tx) /\ executions' = executions \o done
    BY DEF TypeOK, ExecuteTransactions
  <2> HIDE DEF Tx, done
  <2>4. executions' \in Seq(Tx)  BY <2>2, <2>3
  <2> QED  BY <2>4 DEF Tx
<1> QED  BY <1>1, <1>2, <1>3

\* A checkpoint of the quorum parameters, well typed and of this block.
LEMMA WriteQuorumParamsType ==
    ASSUME TypeOK, ParamsCheckpointed, NEW params \in QuorumParams,
           WriteQuorumParamsCheckpoint(params), UNCHANGED block
    PROVE  /\ quorumParamsCheckpoints' \in Seq([fromBlock : Nat, params : QuorumParams])
           /\ ParamsCheckpointed'
<1> DEFINE cps == quorumParamsCheckpoints
           n == Len(cps)
           CP == [fromBlock : Nat, params : QuorumParams]
<1>1. PICK checkpoint \in CP : checkpoint = [fromBlock |-> block, params |-> params]
  <2>1. block \in Nat  BY DEF TypeOK
  <2>2. [fromBlock |-> block, params |-> params] \in CP  BY <2>1
  <2> QED  BY <2>2
<1>2. cps \in Seq(CP) /\ block \in Nat \ {0} /\ n \in Nat \ {0}  BY DEF TypeOK, ParamsCheckpointed
<1>3. checkpoint.fromBlock = block  BY <1>1
<1>4. cps' = IF cps[n].fromBlock = block THEN [cps EXCEPT ![n] = checkpoint] ELSE Append(cps, checkpoint)
  BY <1>1 DEF WriteQuorumParamsCheckpoint
<1> HIDE DEF CP
<1>5. cps' \in Seq(CP) /\ Len(cps') >= 1 /\ \A i \in 1..Len(cps') : cps'[i].fromBlock \in 1..block
  <2>1. CASE cps[n].fromBlock = block
    <3>1. /\ cps' \in Seq(CP) /\ Len(cps') = n /\ cps'[n] = checkpoint
          /\ \A i \in 1..n : i # n => cps'[i] = cps[i]
      BY <1>2, <1>4, <2>1
    <3> QED  BY <1>2, <1>3, <3>1 DEF ParamsCheckpointed
  <2>2. CASE cps[n].fromBlock # block
    <3>1. /\ cps' \in Seq(CP) /\ Len(cps') = n + 1 /\ cps'[n + 1] = checkpoint
          /\ \A i \in 1..n : cps'[i] = cps[i]
      BY <1>2, <1>4, <2>2
    <3> QED  BY <1>2, <1>3, <3>1 DEF ParamsCheckpointed
  <2> QED  BY <2>1, <2>2
<1> QED  BY <1>5 DEF CP, ParamsCheckpointed

-----------------------------------------------------------------------------
\* A step after which no proposal is live that was not keeps LatestIsLast.
LEMMA LatestKept ==
    ASSUME TypeOK, LatestIsLast, UNCHANGED latestProposalIds, Len(proposals') = Len(proposals),
           \A i \in 1..Len(proposals) : proposals'[i].proposer = proposals[i].proposer,
           \A i \in 1..Len(proposals) :
             state(i)' \in {"Pending", "Active"} => state(i) \in {"Pending", "Active"}
    PROVE  LatestIsLast'
<1>1. ASSUME NEW a \in Accounts, latestProposalIds[a] # 0
      PROVE  proposals'[latestProposalIds[a]].proposer = a
  <2>1. latestProposalIds[a] \in 1..Len(proposals)
    <3>1. latestProposalIds[a] \in 0..Len(proposals) /\ Len(proposals) \in Nat  BY DEF TypeOK
    <3> QED  BY <1>1, <3>1
  <2>2. proposals[latestProposalIds[a]].proposer = a  BY <1>1 DEF LatestIsLast
  <2> QED  BY <2>1, <2>2
<1>2. ASSUME NEW i \in 1..Len(proposals)
      PROVE  \/ i = latestProposalIds[proposals'[i].proposer]
             \/ state(i)' \notin {"Pending", "Active"}
  BY DEF LatestIsLast
<1> QED  BY <1>1, <1>2 DEF LatestIsLast

\* A transaction that dequeues the calls of the proposal it changes, or finds
\* none of them queued, or queues them, keeps OnlyApprovedQueued.
LEMMA ApprovedKept ==
    ASSUME TypeOK, OnlyApprovedQueued, NEW id \in 1..Len(proposals), Len(proposals') = Len(proposals),
           \A i \in 1..Len(proposals) :
             i # id => proposals'[i] = proposals[i] /\ state(i)' = state(i),
           \A tx \in queuedTransactions' :
             \/ /\ tx \in queuedTransactions
                /\ tx \notin Transactions(proposals[id].calls, proposals[id].eta)
             \/ tx \in queuedTransactions /\ state(id) \notin {"Queued", "Expired"}
             \/ /\ state(id)' \in {"Queued", "Expired"}
                /\ tx \in Transactions(proposals'[id].calls, proposals'[id].eta)
    PROVE  OnlyApprovedQueued'
<1> SUFFICES ASSUME NEW tx \in queuedTransactions'
             PROVE  \E i \in 1..Len(proposals) :
                      /\ state(i)' \in {"Queued", "Expired"}
                      /\ tx \in Transactions(proposals'[i].calls, proposals'[i].eta)
  BY DEF OnlyApprovedQueued
<1>1. CASE /\ state(id)' \in {"Queued", "Expired"}
           /\ tx \in Transactions(proposals'[id].calls, proposals'[id].eta)
  BY <1>1
<1>2. CASE /\ tx \in queuedTransactions
           /\ \/ tx \notin Transactions(proposals[id].calls, proposals[id].eta)
              \/ state(id) \notin {"Queued", "Expired"}
  <2>1. PICK i \in 1..Len(proposals) :
          /\ state(i) \in {"Queued", "Expired"}
          /\ tx \in Transactions(proposals[i].calls, proposals[i].eta)
    BY <1>2 DEF OnlyApprovedQueued
  <2>2. i # id  BY <1>2, <2>1
  <2> QED  BY <2>1, <2>2
<1> QED  BY <1>1, <1>2

LEMMA InitInv == Init => DAOInv
<1> SUFFICES ASSUME Init PROVE DAOInv
  OBVIOUS
<1>1. proposals = << >> /\ Len(proposals) = 0 /\ queuedTransactions = {} /\ block = 1 /\ now = 1
  BY DEF Init
<1>2. PICK low \in MinQuorumBPSs, high \in MaxQuorumBPSs, coefficient \in Coefficients :
        quorumParamsCheckpoints =
          << [fromBlock |-> 1, params |-> [minQuorumVotesBPS |-> low, maxQuorumVotesBPS |-> high,
                                           quorumCoefficient |-> coefficient]] >>
  BY DEF Init
<1> DEFINE params == [minQuorumVotesBPS |-> low, maxQuorumVotesBPS |-> high,
                      quorumCoefficient |-> coefficient]
           CP == [fromBlock : Nat, params : QuorumParams]
<1>3. low \in Nat /\ high \in Nat /\ coefficient \in Nat  BY ParametersAssumption
<1>4. [fromBlock |-> 1, params |-> params] \in CP  BY <1>3 DEF QuorumParams
<1>5. PICK checkpoint \in CP : checkpoint = [fromBlock |-> 1, params |-> params]  BY <1>4
<1>6. quorumParamsCheckpoints = << checkpoint >> /\ checkpoint.fromBlock = 1  BY <1>2, <1>5
<1>7. quorumParamsCheckpoints \in Seq(CP) /\ ParamsCheckpointed
  <2> HIDE DEF CP
  <2> QED  BY <1>1, <1>6 DEF ParamsCheckpointed
<1>8. TypeOK
  <2>1. proposals \in Seq(Proposal) /\ executions \in Seq([call : Call, eta : Nat]) /\ VotesAvailable
    BY <1>1 DEF Init, VotesAvailable
  <2>2. priorVotes \in [DOMAIN priorVotes -> [Accounts -> Nat]] /\ block - 1 \in DOMAIN priorVotes
    BY <1>1, VotesAssumption DEF Init
  <2>3. latestProposalIds \in [Accounts -> 0..Len(proposals)]  BY <1>1 DEF Init
  <2> QED
    BY <1>1, <1>7, <2>1, <2>2, <2>3, VotesAssumption, ParametersAssumption DEF Init, TypeOK
<1>9. ProposalsInOrder /\ OnlyApprovedQueued /\ LatestIsLast
  BY <1>1 DEF Init, ProposalsInOrder, OnlyApprovedQueued, LatestIsLast
<1> QED  BY <1>7, <1>8, <1>9 DEF DAOInv

LEMMA ProposeInv ==
    ASSUME DAOInv, NEW sender \in Accounts, NEW calls \in CallLists, Propose(sender, calls)
    PROVE  DAOInv'
<1> DEFINE n == Len(proposals)
<1>1. TypeOK /\ ProposalsInOrder /\ ParamsCheckpointed /\ LatestIsLast /\ OnlyApprovedQueued
  BY DEF DAOInv
<1>2. n \in Nat /\ latestProposalIds \in [Accounts -> 0..n] /\ proposals \in Seq(Proposal)
  BY <1>1 DEF TypeOK
<1>3. /\ proposals' \in Seq(Proposal) /\ Len(proposals') = n + 1
      /\ proposals'[n + 1].proposer = sender
      /\ \A i \in 1..n : proposals'[i] = proposals[i] /\ state(i)' = state(i)
      /\ latestProposalIds[sender] # 0 =>
           state(latestProposalIds[sender]) \notin {"Pending", "Active"}
      /\ latestProposalIds' = [latestProposalIds EXCEPT ![sender] = n + 1]
      /\ ProposalsInOrder' /\ VotesAvailable'
  BY <1>1, ProposeFacts
<1>4. TypeOK' /\ ParamsCheckpointed'
  <2>1. UNCHANGED <<now, timelockVars, block, tokenVars, paramVars, vetoVars>>  BY DEF Propose
  <2>2. latestProposalIds' \in [Accounts -> 0..Len(proposals')]  BY <1>2, <1>3
  <2> QED
    BY <1>1, <1>3, <2>1, <2>2
       DEF TypeOK, ParamsCheckpointed, timelockVars, tokenVars, paramVars, vetoVars
<1>5. LatestIsLast'
  <2>1. ASSUME NEW a \in Accounts, latestProposalIds'[a] # 0
        PROVE  proposals'[latestProposalIds'[a]].proposer = a
    <3>1. CASE a = sender  BY <1>2, <1>3, <3>1
    <3>2. CASE a # sender
      <4>1. latestProposalIds'[a] = latestProposalIds[a] /\ latestProposalIds[a] \in 1..n
        BY <1>2, <1>3, <2>1, <3>2
      <4>2. proposals[latestProposalIds[a]].proposer = a  BY <1>1, <2>1, <4>1 DEF LatestIsLast
      <4> QED  BY <1>3, <4>1, <4>2
    <3> QED  BY <3>1, <3>2
  <2>2. ASSUME NEW i \in 1..(n + 1)
        PROVE  \/ i = latestProposalIds'[proposals'[i].proposer]
               \/ state(i)' \notin {"Pending", "Active"}
    <3>1. CASE i = n + 1  BY <1>2, <1>3, <3>1
    <3>2. CASE i # n + 1
      <4>1. i \in 1..n  BY <1>2, <3>2
      <4>2. proposals'[i] = proposals[i] /\ state(i)' = state(i)  BY <1>3, <4>1
      <4>3. proposals[i].proposer \in Accounts  BY <1>2, <4>1, CallsOfProposal
      <4>4. CASE proposals[i].proposer = sender
        <5>1. \/ i = latestProposalIds[sender]
              \/ state(i) \notin {"Pending", "Active"}
          BY <1>1, <4>1, <4>4 DEF LatestIsLast
        <5> QED  BY <1>2, <1>3, <4>1, <4>2, <5>1
      <4>5. CASE proposals[i].proposer # sender
        <5>1. latestProposalIds'[proposals[i].proposer] = latestProposalIds[proposals[i].proposer]
          BY <1>2, <1>3, <4>3, <4>5
        <5> QED  BY <1>1, <4>1, <4>2, <5>1 DEF LatestIsLast
      <4> QED  BY <4>4, <4>5
    <3> QED  BY <3>1, <3>2
  <2> QED  BY <1>3, <2>1, <2>2 DEF LatestIsLast
<1>6. OnlyApprovedQueued'
  <2>1. queuedTransactions' = queuedTransactions  BY DEF Propose, timelockVars
  <2>2. ASSUME NEW tx \in queuedTransactions
        PROVE  \E i \in 1..(n + 1) :
                 /\ state(i)' \in {"Queued", "Expired"}
                 /\ tx \in Transactions(proposals'[i].calls, proposals'[i].eta)
    <3>1. PICK i \in 1..n : /\ state(i) \in {"Queued", "Expired"}
                            /\ tx \in Transactions(proposals[i].calls, proposals[i].eta)
      BY <1>1 DEF OnlyApprovedQueued
    <3> QED  BY <1>2, <1>3, <3>1
  <2> QED  BY <1>3, <2>1, <2>2 DEF OnlyApprovedQueued
<1> QED  BY <1>3, <1>4, <1>5, <1>6 DEF DAOInv

LEMMA CastVoteInv ==
    ASSUME DAOInv, NEW id \in 1..Len(proposals), NEW voter \in Accounts, NEW support \in 0..2,
           CastVote(voter, id, support)
    PROVE  DAOInv'
<1>1. TypeOK /\ ProposalsInOrder /\ ParamsCheckpointed /\ LatestIsLast /\ OnlyApprovedQueued
  BY DEF DAOInv
<1>2. /\ proposals' \in Seq(Proposal) /\ Len(proposals') = Len(proposals)
      /\ proposals'[id].proposer = proposals[id].proposer
      /\ \A i \in 1..Len(proposals) :
           i # id => proposals'[i] = proposals[i] /\ state(i)' = state(i)
      /\ state(id) = "Active"
      /\ ProposalsInOrder' /\ VotesAvailable'
  BY <1>1, CastVoteFacts
<1>3. UNCHANGED <<now, timelockVars, block, tokenVars, latestProposalIds, paramVars, vetoVars>>
  BY DEF CastVote
<1>4. TypeOK' /\ ParamsCheckpointed'
  BY <1>1, <1>2, <1>3 DEF TypeOK, ParamsCheckpointed, timelockVars, tokenVars, paramVars, vetoVars
<1>5. LatestIsLast'  BY <1>1, <1>2, <1>3, LatestKept
<1>6. OnlyApprovedQueued'
  <2>1. queuedTransactions' = queuedTransactions  BY <1>3 DEF timelockVars
  <2>2. state(id) \notin {"Queued", "Expired"}  BY <1>2
  <2> QED  BY <1>1, <1>2, <2>1, <2>2, ApprovedKept
<1> QED  BY <1>2, <1>4, <1>5, <1>6 DEF DAOInv

LEMMA QueueInv ==
    ASSUME DAOInv, NEW id \in 1..Len(proposals), Queue(id)
    PROVE  DAOInv'
<1>1. TypeOK /\ ProposalsInOrder /\ ParamsCheckpointed /\ LatestIsLast /\ OnlyApprovedQueued
  BY DEF DAOInv
<1>2. /\ proposals' \in Seq(Proposal) /\ Len(proposals') = Len(proposals)
      /\ proposals'[id].proposer = proposals[id].proposer
      /\ proposals'[id].calls = proposals[id].calls
      /\ proposals'[id].eta = now + delay /\ now + delay \in Nat
      /\ \A i \in 1..Len(proposals) :
           i # id => proposals'[i] = proposals[i] /\ state(i)' = state(i)
      /\ state(id) = "Succeeded" /\ state(id)' = "Queued"
      /\ ProposalsInOrder' /\ VotesAvailable'
  BY <1>1, QueueFacts
<1>3. UNCHANGED <<now, delay, executions, block, tokenVars, latestProposalIds, paramVars, vetoVars>>
  BY DEF Queue, QueueTransactions
<1>4. queuedTransactions' =
        queuedTransactions \cup Transactions(proposals[id].calls, now + delay)
  BY DEF Queue, QueueTransactions
<1>5. TypeOK' /\ ParamsCheckpointed'
  <2>1. Transactions(proposals[id].calls, now + delay) \subseteq [call : Call, eta : Nat]
    BY <1>1, <1>2, CallsOfProposal, TransactionsType DEF TypeOK
  <2>2. queuedTransactions' \subseteq [call : Call, eta : Nat]  BY <1>1, <1>4, <2>1 DEF TypeOK
  <2> QED
    BY <1>1, <1>2, <1>3, <2>2 DEF TypeOK, ParamsCheckpointed, tokenVars, paramVars, vetoVars
<1>6. LatestIsLast'  BY <1>1, <1>2, <1>3, LatestKept
<1>7. OnlyApprovedQueued'
  <2>1. ASSUME NEW tx \in queuedTransactions'
        PROVE  \/ tx \in queuedTransactions /\ state(id) \notin {"Queued", "Expired"}
               \/ /\ state(id)' \in {"Queued", "Expired"}
                  /\ tx \in Transactions(proposals'[id].calls, proposals'[id].eta)
    BY <1>2, <1>4
  <2> QED  BY <1>1, <1>2, <2>1, ApprovedKept
<1> QED  BY <1>2, <1>5, <1>6, <1>7 DEF DAOInv

\* The parameters in force at a block are a checkpoint's, or zeros.
LEMMA ParamsType ==
    ASSUME TypeOK, NEW b PROVE getDynamicQuorumParamsAt(b) \in QuorumParams
<1> DEFINE cps == quorumParamsCheckpoints
           written == {i \in 1..Len(cps) : cps[i].fromBlock <= b}
           last == {i \in written : \A j \in written : j <= i}
<1>1. CASE last = {}  BY <1>1 DEF getDynamicQuorumParamsAt, QuorumParams
<1>2. CASE last # {}
  <2> DEFINE i == CHOOSE x \in last : TRUE
  <2>1. i \in 1..Len(cps)  BY <1>2
  <2>2. getDynamicQuorumParamsAt(b) = cps[i].params  BY <1>2 DEF getDynamicQuorumParamsAt
  <2> HIDE DEF i
  <2>3. PICK cp \in [fromBlock : Nat, params : QuorumParams] : cp = cps[i]
    <3> DEFINE CP == [fromBlock : Nat, params : QuorumParams]
    <3>1. cps \in Seq(CP)  BY DEF TypeOK
    <3> SUFFICES cps[i] \in CP  OBVIOUS
    <3> HIDE DEF CP, cps, written, last
    <3> QED  BY <2>1, <3>1
  <2>4. cp.params \in QuorumParams
    <3>1. \A S : cp \in [fromBlock : Nat, params : S] => cp.params \in S  OBVIOUS
    <3> QED  BY <3>1
  <2> QED  BY <2>2, <2>3, <2>4
<1> QED  BY <1>1, <1>2

\* The setters that a proposal calls leave the parameters well typed.
LEMMA ExecuteParams ==
    ASSUME TypeOK, ParamsCheckpointed, NEW id \in 1..Len(proposals), Execute(id)
    PROVE  /\ votingDelay' \in VotingDelays /\ votingPeriod' \in VotingPeriods
           /\ proposalThresholdBPS' \in ThresholdBPSs
           /\ quorumParamsCheckpoints' \in Seq([fromBlock : Nat, params : QuorumParams])
           /\ ParamsCheckpointed'
<1> DEFINE calls == proposals[id].calls
           n == Len(calls)
<1>1. calls \in Seq(Call) /\ n \in Nat  BY CallsOfProposal DEF TypeOK
<1>2. votingDelay' \in VotingDelays
  <2>1. \A i \in 1..n : calls[i].kind = "votingDelay" => calls[i].value \in VotingDelays
    BY DEF Execute, Accepted
  <2>2. votingDelay \in VotingDelays  BY DEF TypeOK
  <2>3. votingDelay' = LastSet(calls, "votingDelay", votingDelay)  BY DEF Execute
  <2> HIDE DEF calls
  <2> QED  BY <2>1, <2>2, <2>3, LastSetType
<1>3. votingPeriod' \in VotingPeriods
  <2>1. \A i \in 1..n : calls[i].kind = "votingPeriod" => calls[i].value \in VotingPeriods
    BY DEF Execute, Accepted
  <2>2. votingPeriod \in VotingPeriods  BY DEF TypeOK
  <2>3. votingPeriod' = LastSet(calls, "votingPeriod", votingPeriod)  BY DEF Execute
  <2> HIDE DEF calls
  <2> QED  BY <2>1, <2>2, <2>3, LastSetType
<1>4. proposalThresholdBPS' \in ThresholdBPSs
  <2>1. \A i \in 1..n : calls[i].kind = "proposalThresholdBPS" => calls[i].value \in ThresholdBPSs
    BY DEF Execute, Accepted
  <2>2. proposalThresholdBPS \in ThresholdBPSs  BY DEF TypeOK
  <2>3. proposalThresholdBPS' = LastSet(calls, "proposalThresholdBPS", proposalThresholdBPS)
    BY DEF Execute
  <2> HIDE DEF calls
  <2> QED  BY <2>1, <2>2, <2>3, LastSetType
<1>5. ParamsAfter(calls, n) \in QuorumParams
  <2> DEFINE prefix == SubSeq(calls, 1, n)
             params == getDynamicQuorumParamsAt(block)
  <2> HIDE DEF calls
  <2>1. prefix = calls  BY <1>1
  <2>2. \A i \in 1..Len(prefix) : prefix[i].value \in Nat
    <3>1. ASSUME NEW i \in 1..n PROVE calls[i].value \in Nat
      <4>1. calls[i] \in Call  BY <1>1
      <4> QED  BY <4>1 DEF Call
    <3> QED  BY <2>1, <3>1
  <2>3. params \in QuorumParams  BY ParamsType
  <2>4. /\ params.minQuorumVotesBPS \in Nat /\ params.maxQuorumVotesBPS \in Nat
        /\ params.quorumCoefficient \in Nat
    <3> HIDE DEF params
    <3> QED  BY <2>3 DEF QuorumParams
  <2> HIDE DEF prefix, params
  <2>5. \A kind : \A old \in Nat : LastSet(prefix, kind, old) \in Nat
    <3> SUFFICES ASSUME NEW kind, NEW old \in Nat PROVE LastSet(prefix, kind, old) \in Nat
      OBVIOUS
    <3> QED  BY <2>2, LastSetType
  <2>6. /\ LastSet(prefix, "minQuorumVotesBPS", params.minQuorumVotesBPS) \in Nat
        /\ LastSet(prefix, "maxQuorumVotesBPS", params.maxQuorumVotesBPS) \in Nat
        /\ LastSet(prefix, "quorumCoefficient", params.quorumCoefficient) \in Nat
    BY <2>4, <2>5
  <2> QED  BY <2>6 DEF ParamsAfter, QuorumParams, prefix, params
<1>6. UNCHANGED block  BY DEF Execute
<1>7. \/ UNCHANGED quorumParamsCheckpoints
      \/ WriteQuorumParamsCheckpoint(ParamsAfter(calls, n))
  BY DEF Execute
<1>8. CASE UNCHANGED quorumParamsCheckpoints
  BY <1>2, <1>3, <1>4, <1>6, <1>8 DEF TypeOK, ParamsCheckpointed
<1>9. CASE WriteQuorumParamsCheckpoint(ParamsAfter(calls, n))
  <2>1. PICK params \in QuorumParams : params = ParamsAfter(calls, n)  BY <1>5
  <2>2. WriteQuorumParamsCheckpoint(params)  BY <1>9, <2>1
  <2> QED  BY <1>2, <1>3, <1>4, <1>6, <2>2, WriteQuorumParamsType
<1> QED  BY <1>7, <1>8, <1>9

LEMMA ExecuteInv ==
    ASSUME DAOInv, NEW id \in 1..Len(proposals), Execute(id)
    PROVE  DAOInv'
<1>1. TypeOK /\ ProposalsInOrder /\ ParamsCheckpointed /\ LatestIsLast /\ OnlyApprovedQueued
  BY DEF DAOInv
<1>2. /\ proposals' \in Seq(Proposal) /\ Len(proposals') = Len(proposals)
      /\ proposals'[id].proposer = proposals[id].proposer
      /\ \A i \in 1..Len(proposals) :
           i # id => proposals'[i] = proposals[i] /\ state(i)' = state(i)
      /\ state(id) = "Queued" /\ state(id)' = "Executed"
      /\ ProposalsInOrder' /\ VotesAvailable'
  BY <1>1, ExecuteFacts
<1>3. UNCHANGED <<now, block, tokenVars, latestProposalIds, vetoVars>>  BY DEF Execute
<1>4. ExecuteTransactions(proposals[id].calls, proposals[id].eta)  BY DEF Execute
<1>5. TypeOK' /\ ParamsCheckpointed'
  <2>1. proposals[id].calls \in Seq(Call) /\ proposals[id].eta \in Nat
    BY <1>1, CallsOfProposal DEF TypeOK
  <2>2. /\ delay' \in Delays
        /\ queuedTransactions' \subseteq [call : Call, eta : Nat]
        /\ executions' \in Seq([call : Call, eta : Nat])
    BY <1>1, <1>4, <2>1, ExecuteTransactionsType
  <2>3. /\ votingDelay' \in VotingDelays /\ votingPeriod' \in VotingPeriods
        /\ proposalThresholdBPS' \in ThresholdBPSs
        /\ quorumParamsCheckpoints' \in Seq([fromBlock : Nat, params : QuorumParams])
        /\ ParamsCheckpointed'
    BY <1>1, ExecuteParams
  <2> QED  BY <1>1, <1>2, <1>3, <2>2, <2>3 DEF TypeOK, tokenVars, vetoVars
<1>6. LatestIsLast'  BY <1>1, <1>2, <1>3, LatestKept
<1>7. OnlyApprovedQueued'
  <2>1. queuedTransactions' =
          queuedTransactions \ Transactions(proposals[id].calls, proposals[id].eta)
    BY <1>4 DEF ExecuteTransactions
  <2>2. ASSUME NEW tx \in queuedTransactions'
        PROVE  /\ tx \in queuedTransactions
               /\ tx \notin Transactions(proposals[id].calls, proposals[id].eta)
    BY <2>1
  <2> QED  BY <1>1, <1>2, <2>2, ApprovedKept
<1> QED  BY <1>2, <1>5, <1>6, <1>7 DEF DAOInv

LEMMA KillInv ==
    ASSUME DAOInv, NEW id \in 1..Len(proposals), \E sender : Cancel(sender, id) \/ Veto(sender, id)
    PROVE  DAOInv'
<1>1. TypeOK /\ ProposalsInOrder /\ ParamsCheckpointed /\ LatestIsLast /\ OnlyApprovedQueued
  BY DEF DAOInv
<1>2. /\ proposals' \in Seq(Proposal) /\ Len(proposals') = Len(proposals)
      /\ proposals'[id].proposer = proposals[id].proposer
      /\ \A i \in 1..Len(proposals) :
           i # id => proposals'[i] = proposals[i] /\ state(i)' = state(i)
      /\ state(id)' \in {"Canceled", "Vetoed"}
      /\ ProposalsInOrder' /\ VotesAvailable'
  BY <1>1, KillFacts
<1>3. /\ UNCHANGED <<now, delay, executions, block, tokenVars, latestProposalIds, paramVars, vetoVars>>
      /\ queuedTransactions' =
           queuedTransactions \ Transactions(proposals[id].calls, proposals[id].eta)
  BY DEF Cancel, Veto, CancelTransactions
<1>4. TypeOK' /\ ParamsCheckpointed'
  <2>1. queuedTransactions' \subseteq [call : Call, eta : Nat]  BY <1>1, <1>3 DEF TypeOK
  <2> QED
    BY <1>1, <1>2, <1>3, <2>1 DEF TypeOK, ParamsCheckpointed, tokenVars, paramVars, vetoVars
<1>5. LatestIsLast'  BY <1>1, <1>2, <1>3, LatestKept
<1>6. OnlyApprovedQueued'
  <2>1. ASSUME NEW tx \in queuedTransactions'
        PROVE  /\ tx \in queuedTransactions
               /\ tx \notin Transactions(proposals[id].calls, proposals[id].eta)
    BY <1>3
  <2> QED  BY <1>1, <1>2, <2>1, ApprovedKept
<1> QED  BY <1>2, <1>4, <1>5, <1>6 DEF DAOInv

LEMMA NextBlockInv ==
    ASSUME DAOInv, NextBlock
    PROVE  DAOInv'
<1>1. TypeOK /\ ProposalsInOrder /\ ParamsCheckpointed /\ LatestIsLast /\ OnlyApprovedQueued
  BY DEF DAOInv
<1>2. /\ now' \in Nat /\ now' > now /\ block' = block + 1 /\ UNCHANGED proposals
      /\ \A id \in 1..Len(proposals) :
           state(id)' \in
             IF state(id) = "Pending" THEN {"Pending", "Active"}
             ELSE IF state(id) = "Active" THEN {"Active", "Defeated", "Succeeded"}
             ELSE IF state(id) = "Queued" /\ now' >= proposals[id].eta + GRACE_PERIOD
             THEN {"Expired"}
             ELSE {state(id)}
      /\ ProposalsInOrder' /\ VotesAvailable'
  BY <1>1, NextBlockFacts
<1>3. /\ block \in Nat /\ block < MaxBlock /\ now \in Nat \ {0} /\ MaxBlock \in Nat
      /\ UNCHANGED <<timelockVars, votes, totalSupply, latestProposalIds, paramVars, vetoVars>>
      /\ priorVotes' = [b \in AskedBlocks |-> IF b = block THEN votes ELSE priorVotes[b]]
  BY <1>1, ParametersAssumption DEF TypeOK, NextBlock
<1>4. ASSUME NEW b \in AskedBlocks
      PROVE  (IF b = block THEN votes ELSE priorVotes[b]) \in [Accounts -> Nat]
  <2>1. CASE b = block  BY <1>1, <2>1 DEF TypeOK
  <2>2. CASE b # block
    <3>1. PICK id \in 1..Len(proposals) :
            b = proposals[id].creationBlock /\ block < proposals[id].endBlock
      BY <2>2 DEF AskedBlocks
    <3>2. b \in 1..block  BY <1>1, <3>1 DEF ProposalsInOrder
    <3>3. block <= proposals[id].endBlock
      <4>1. PICK p \in Proposal : p = proposals[id]  BY <1>1 DEF TypeOK
      <4>2. p.endBlock \in Nat  BY DEF Proposal
      <4> QED  BY <1>3, <3>1, <4>1, <4>2
    <3>4. b \in DOMAIN priorVotes
      BY <1>1, <1>3, <2>2, <3>1, <3>2, <3>3 DEF TypeOK, VotesAvailable
    <3> QED  BY <1>1, <2>2, <3>4 DEF TypeOK
  <2> QED  BY <2>1, <2>2
<1>5. TypeOK' /\ ParamsCheckpointed'
  <2>1. block' \in 1..MaxBlock /\ now' \in Nat \ {0} /\ block' - 1 = block  BY <1>2, <1>3
  <2>2. priorVotes' \in [DOMAIN priorVotes' -> [Accounts -> Nat]]  BY <1>3, <1>4
  <2>3. block' - 1 \in DOMAIN priorVotes'  BY <1>3, <2>1 DEF AskedBlocks
  <2>4. ParamsCheckpointed'  BY <1>1, <1>2, <1>3 DEF ParamsCheckpointed, paramVars
  <2> QED
    BY <1>1, <1>2, <1>3, <2>1, <2>2, <2>3, <2>4 DEF TypeOK, timelockVars, paramVars, vetoVars
<1>6. LatestIsLast'
  <2>1. \A i \in 1..Len(proposals) :
          state(i)' \in {"Pending", "Active"} => state(i) \in {"Pending", "Active"}
    BY <1>2
  <2> QED  BY <1>1, <1>2, <1>3, <2>1, LatestKept
<1>7. OnlyApprovedQueued'
  <2>1. queuedTransactions' = queuedTransactions  BY <1>3 DEF timelockVars
  <2>2. \A i \in 1..Len(proposals) :
          state(i) \in {"Queued", "Expired"} => state(i)' \in {"Queued", "Expired"}
    BY <1>2
  <2> SUFFICES ASSUME NEW tx \in queuedTransactions
               PROVE  \E i \in 1..Len(proposals) :
                        /\ state(i)' \in {"Queued", "Expired"}
                        /\ tx \in Transactions(proposals[i].calls, proposals[i].eta)
    BY <1>2, <2>1 DEF OnlyApprovedQueued
  <2> QED  BY <1>1, <2>2 DEF OnlyApprovedQueued
<1> QED  BY <1>2, <1>5, <1>6, <1>7 DEF DAOInv

\* A step that is about the veto or the votes alone.
LEMMA OtherInv ==
    ASSUME DAOInv, TypeOK',
           UNCHANGED <<now, queuedTransactions, block, proposals, latestProposalIds,
                       quorumParamsCheckpoints>>
    PROVE  DAOInv'
<1>1. TypeOK /\ ProposalsInOrder /\ ParamsCheckpointed /\ LatestIsLast /\ OnlyApprovedQueued
  BY DEF DAOInv
<1>2. \A id \in 1..Len(proposals) : state(id)' = state(id)
  BY <1>1, StateKept
<1>3. ProposalsInOrder' /\ ParamsCheckpointed'
  BY <1>1 DEF ProposalsInOrder, ParamsCheckpointed
<1>4. LatestIsLast'  BY <1>1, <1>2, LatestKept
<1>5. OnlyApprovedQueued'  BY <1>1, <1>2 DEF OnlyApprovedQueued
<1> QED  BY <1>3, <1>4, <1>5 DEF DAOInv

LEMMA NextInv == DAOInv /\ [Next]_vars => DAOInv'
<1> SUFFICES ASSUME DAOInv, [Next]_vars PROVE DAOInv'
  OBVIOUS
<1>1. TypeOK  BY DEF DAOInv
<1>2. ASSUME NEW sender \in Accounts, NEW calls \in CallLists, Propose(sender, calls)
      PROVE  DAOInv'
  BY <1>2, ProposeInv
<1>3. ASSUME NEW voter \in Accounts, NEW id \in 1..Len(proposals), NEW support \in Supports,
             CastVote(voter, id, support)
      PROVE  DAOInv'
  BY <1>3, CastVoteInv, VotesAssumption
<1>4. ASSUME NEW id \in 1..Len(proposals), Queue(id) PROVE DAOInv'
  BY <1>4, QueueInv
<1>5. ASSUME NEW id \in 1..Len(proposals), Execute(id) PROVE DAOInv'
  BY <1>5, ExecuteInv
<1>6. ASSUME NEW sender, NEW id \in 1..Len(proposals), Cancel(sender, id) \/ Veto(sender, id)
      PROVE  DAOInv'
  BY <1>6, KillInv
<1>7. ASSUME NEW sender \in Vetoers,
             \/ \E new \in Vetoers \cup {Zero} : SetPendingVetoer(sender, new)
             \/ AcceptVetoer(sender)
             \/ BurnVetoPower(sender)
      PROVE  DAOInv'
  <2>1. UNCHANGED <<now, timelockVars, block, tokenVars, proposals, latestProposalIds, paramVars>>
    BY <1>7 DEF SetPendingVetoer, AcceptVetoer, BurnVetoPower
  <2>2. vetoer' \in Vetoers \cup {Zero} /\ pendingVetoer' \in Vetoers \cup {Zero}
    BY <1>1, <1>7 DEF TypeOK, SetPendingVetoer, AcceptVetoer, BurnVetoPower
  <2>3. TypeOK'
    BY <1>1, <2>1, <2>2 DEF TypeOK, VotesAvailable, timelockVars, tokenVars, paramVars
  <2> QED  BY <2>1, <2>3, OtherInv DEF timelockVars, paramVars
<1>8. ASSUME NEW move \in Moves, MoveVotes(move[1], move[2])
      PROVE  DAOInv'
  <2>1. move[1] \in Accounts /\ move[2] \in Accounts  BY VotesAssumption
  <2>2. votes' \in [Accounts -> Nat]
    <3> PICK from \in Accounts, to \in Accounts : from = move[1] /\ to = move[2]  BY <2>1
    <3>1. votes \in [Accounts -> Nat] /\ votes[from] > 0  BY <1>1, <1>8 DEF TypeOK, MoveVotes
    <3>2. [votes EXCEPT ![from] = @ - 1] \in [Accounts -> Nat]  BY <3>1
    <3>3. votes' = [[votes EXCEPT ![from] = @ - 1] EXCEPT ![to] = @ + 1]  BY <1>8 DEF MoveVotes
    <3> QED  BY <3>2, <3>3
  <2>3. UNCHANGED <<now, timelockVars, block, totalSupply, priorVotes, proposals, latestProposalIds,
                    paramVars, vetoVars>>
    BY <1>8 DEF MoveVotes
  <2>4. TypeOK'
    BY <1>1, <2>2, <2>3 DEF TypeOK, VotesAvailable, timelockVars, paramVars, vetoVars
  <2> QED  BY <2>3, <2>4, OtherInv DEF timelockVars, paramVars
<1>9. ASSUME NEW to \in Accounts, MintVote(to)
      PROVE  DAOInv'
  <2>1. votes' \in [Accounts -> Nat] /\ totalSupply' \in Nat  BY <1>1, <1>9 DEF TypeOK, MintVote
  <2>2. UNCHANGED <<now, timelockVars, block, priorVotes, proposals, latestProposalIds, paramVars,
                    vetoVars>>
    BY <1>9 DEF MintVote
  <2>3. TypeOK'
    BY <1>1, <2>1, <2>2 DEF TypeOK, VotesAvailable, timelockVars, paramVars, vetoVars
  <2> QED  BY <2>2, <2>3, OtherInv DEF timelockVars, paramVars
<1>10. CASE UNCHANGED vars
  <2>1. TypeOK'
    BY <1>1, <1>10
       DEF TypeOK, VotesAvailable, vars, timelockVars, tokenVars, paramVars, vetoVars
  <2> QED  BY <1>10, <2>1, OtherInv DEF vars, timelockVars, paramVars
<1> QED
  BY <1>2, <1>3, <1>4, <1>5, <1>6, <1>7, <1>8, <1>9, <1>10, NextBlockInv DEF Next

LEMMA InvHolds == Spec => []DAOInv
BY InitInv, NextInv, PTL DEF Spec

-----------------------------------------------------------------------------
\* The variables keep their types, and every read of past votes, those of
\* propose(), castVote() and cancel(), finds the votes of the block it asks for.
THEOREM DAOTyped == Spec => []TypeOK
BY InvHolds, PTL DEF DAOInv

\* The timelock never holds a transaction of a proposal that was cancelled,
\* vetoed or executed, nor one of no proposal: what it could still execute has
\* been approved.
THEOREM ApprovedOnly == Spec => []OnlyApprovedQueued
BY InvHolds, PTL DEF DAOInv

\* No proposer has two live proposals, although propose() looks at the latest
\* one alone.
THEOREM OneLive == Spec => []OneLiveProposal
<1>1. DAOInv => OneLiveProposal
  <2> SUFFICES ASSUME DAOInv, NEW i \in 1..Len(proposals), NEW j \in 1..Len(proposals),
                      proposals[i].proposer = proposals[j].proposer,
                      state(i) \in {"Pending", "Active"}, state(j) \in {"Pending", "Active"}
               PROVE  i = j
    BY DEF OneLiveProposal
  <2>1. /\ i = latestProposalIds[proposals[i].proposer]
        /\ j = latestProposalIds[proposals[j].proposer]
    BY DEF DAOInv, LatestIsLast
  <2> QED  BY <2>1
<1> QED  BY <1>1, InvHolds, PTL

\* A veto power that was burned, or never given, is not accepted by anyone
\* later: no handover is pending once there is no vetoer.
THEOREM VetoStaysBurned == Spec => VetoBurnedForever
<1> DEFINE NoHandover == vetoer = Zero => pendingVetoer = Zero
<1>1. Init => NoHandover  BY DEF Init
<1>2. TypeOK /\ NoHandover /\ [Next]_vars => NoHandover' /\ (vetoer = Zero => vetoer' = Zero)
  <2> SUFFICES ASSUME TypeOK, NoHandover, [Next]_vars
               PROVE  NoHandover' /\ (vetoer = Zero => vetoer' = Zero)
    OBVIOUS
  <2>1. CASE UNCHANGED vetoVars  BY <2>1 DEF vetoVars
  <2>2. ASSUME NEW sender \in Vetoers,
               \/ \E new \in Vetoers \cup {Zero} : SetPendingVetoer(sender, new)
               \/ AcceptVetoer(sender)
               \/ BurnVetoPower(sender)
        PROVE  NoHandover' /\ (vetoer = Zero => vetoer' = Zero)
    <3>1. sender # Zero  BY VotesAssumption
    <3> QED  BY <2>2, <3>1 DEF SetPendingVetoer, AcceptVetoer, BurnVetoPower
  <2> QED
    BY <2>1, <2>2
       DEF Next, vars, vetoVars, Propose, CastVote, Queue, Execute, Cancel, Veto, MoveVotes,
           MintVote, NextBlock
<1> QED  BY <1>1, <1>2, DAOTyped, PTL DEF Spec, VetoBurnedForever

-----------------------------------------------------------------------------
(***************************************************************************)
(* The refinement of ProposalLifecycle.                                    *)
(***************************************************************************)
Statuses == [id \in 1..Len(proposals) |-> state(id)]
Etas == [id \in 1..Len(proposals) |-> proposals[id].eta]

LEMMA Mapped ==
    ASSUME TypeOK
    PROVE  Len(Statuses) = Len(proposals) /\ Len(Etas) = Len(proposals)
<1>0. Len(proposals) \in Nat  BY DEF TypeOK
<1>1. PICK n \in Nat : n = Len(proposals)  BY <1>0
<1>2. DOMAIN Statuses = 1..n /\ DOMAIN Etas = 1..n  BY <1>1 DEF Statuses, Etas
<1> QED  BY <1>1, <1>2

\* A step that changes one proposal changes one entry of the mapped state.
LEMMA MappedChange ==
    ASSUME NEW id \in 1..Len(proposals), Len(proposals') = Len(proposals),
           \A i \in 1..Len(proposals) :
             i # id => proposals'[i] = proposals[i] /\ state(i)' = state(i)
    PROVE  /\ Statuses' = [Statuses EXCEPT ![id] = state(id)']
           /\ Etas' = [Etas EXCEPT ![id] = proposals'[id].eta]
<1>1. PICK n : n = Len(proposals)  OBVIOUS
<1>2. Statuses' = [i \in 1..n |-> state(i)'] /\ Statuses = [i \in 1..n |-> state(i)]
  BY <1>1 DEF Statuses
<1>3. Etas' = [i \in 1..n |-> proposals'[i].eta] /\ Etas = [i \in 1..n |-> proposals[i].eta]
  BY <1>1 DEF Etas
<1>4. Statuses' = [Statuses EXCEPT ![id] = state(id)']  BY <1>1, <1>2
<1>5. Etas' = [Etas EXCEPT ![id] = proposals'[id].eta]  BY <1>1, <1>3
<1> QED  BY <1>4, <1>5

\* Appending to a sequence that is given entry by entry.
LEMMA AppendIs ==
    ASSUME NEW n \in Nat, NEW S, NEW e \in S,
           NEW s \in [1..n -> S], NEW t \in [1..(n + 1) -> S],
           \A i \in 1..n : t[i] = s[i], t[n + 1] = e
    PROVE  t = Append(s, e)
<1>1. s \in Seq(S) /\ Len(s) = n
  <2>1. s \in Seq(S)  BY SeqDef
  <2> QED  BY <2>1
<1>2. t \in Seq(S) /\ Len(t) = n + 1
  <2>1. PICK m \in Nat : m = n + 1  OBVIOUS
  <2>2. t \in [1..m -> S]  BY <2>1
  <2>3. t \in Seq(S)  BY <2>2, SeqDef
  <2> QED  BY <2>1, <2>2, <2>3
<1>3. /\ Append(s, e) \in Seq(S) /\ Len(Append(s, e)) = n + 1
      /\ \A i \in 1..n : Append(s, e)[i] = s[i]
      /\ Append(s, e)[n + 1] = e
  BY <1>1, AppendProperties
<1>4. \A i \in 1..(n + 1) : t[i] = Append(s, e)[i]
  <2>1. \A i \in 1..(n + 1) : i \in 1..n \/ i = n + 1  OBVIOUS
  <2> QED  BY <1>3, <2>1
<1> QED  BY <1>2, <1>3, <1>4, SeqEqual

\* The steps, as steps of ProposalLifecycle. The mapping goes by name: Statuses
\* and Etas are the expressions that the instance substitutes.
LEMMA ProposeRefines ==
    ASSUME TypeOK, ProposalsInOrder, ParamsCheckpointed,
           NEW sender \in Accounts, NEW calls \in CallLists, Propose(sender, calls)
    PROVE  Lifecycle!Submit
<1>1. PICK n \in Nat : n = Len(proposals)
  <2>1. Len(proposals) \in Nat  BY DEF TypeOK
  <2> QED  BY <2>1
<1>2. /\ Len(proposals') = n + 1
      /\ proposals'[n + 1].eta = 0
      /\ \A i \in 1..n : proposals'[i] = proposals[i] /\ state(i)' = state(i)
      /\ state(Len(proposals))' = "Pending"
  BY <1>1, ProposeFacts
<1>4. state(n + 1)' = "Pending"  BY <1>2 DEF state
<1>5. Statuses' = Append(Statuses, "Pending")
  <2>1. PICK t : t = Statuses'  OBVIOUS
  <2>2. t = [i \in 1..(n + 1) |-> state(i)'] /\ Statuses = [i \in 1..n |-> state(i)]
    BY <1>1, <1>2, <2>1 DEF Statuses
  <2> DEFINE S == {t[i] : i \in 1..(n + 1)}
  <2>3. /\ \A i \in 1..n : t[i] = Statuses[i]
        /\ t[n + 1] = "Pending"
    BY <1>2, <1>4, <2>2
  <2>4. Statuses \in [1..n -> S] /\ t \in [1..(n + 1) -> S] /\ "Pending" \in S
    <3>1. n + 1 \in 1..(n + 1) /\ \A i \in 1..n : i \in 1..(n + 1)  OBVIOUS
    <3>2. \A i \in 1..(n + 1) : t[i] \in S  OBVIOUS
    <3> HIDE DEF S
    <3>3. t[n + 1] \in S  BY <3>1, <3>2
    <3>4. \A i \in 1..n : Statuses[i] \in S
      <4> SUFFICES ASSUME NEW i \in 1..n PROVE Statuses[i] \in S  OBVIOUS
      <4>1. i \in 1..(n + 1) /\ t[i] = Statuses[i]  BY <2>3, <3>1
      <4> QED  BY <3>2, <4>1
    <3>5. Statuses \in [1..n -> S]  BY <2>2, <3>4
    <3>6. t \in [1..(n + 1) -> S]  BY <2>2, <3>2
    <3> QED  BY <2>3, <3>3, <3>5, <3>6
  <2> HIDE DEF S
  <2>5. t = Append(Statuses, "Pending")  BY <2>3, <2>4, AppendIs
  <2> QED  BY <2>1, <2>5
<1>6. Etas' = Append(Etas, 0)
  <2>1. PICK t : t = Etas'  OBVIOUS
  <2>2. t = [i \in 1..(n + 1) |-> proposals'[i].eta] /\ Etas = [i \in 1..n |-> proposals[i].eta]
    BY <1>1, <1>2, <2>1 DEF Etas
  <2> DEFINE S == {t[i] : i \in 1..(n + 1)}
  <2>3. /\ \A i \in 1..n : t[i] = Etas[i]
        /\ t[n + 1] = 0
    BY <1>2, <2>2
  <2>4. Etas \in [1..n -> S] /\ t \in [1..(n + 1) -> S] /\ 0 \in S
    <3>1. n + 1 \in 1..(n + 1) /\ \A i \in 1..n : i \in 1..(n + 1)  OBVIOUS
    <3>2. \A i \in 1..(n + 1) : t[i] \in S  OBVIOUS
    <3> HIDE DEF S
    <3>3. t[n + 1] \in S  BY <3>1, <3>2
    <3>4. \A i \in 1..n : Etas[i] \in S
      <4> SUFFICES ASSUME NEW i \in 1..n PROVE Etas[i] \in S  OBVIOUS
      <4>1. i \in 1..(n + 1) /\ t[i] = Etas[i]  BY <2>3, <3>1
      <4> QED  BY <3>2, <4>1
    <3>5. Etas \in [1..n -> S]  BY <2>2, <3>4
    <3>6. t \in [1..(n + 1) -> S]  BY <2>2, <3>2
    <3> QED  BY <2>3, <3>3, <3>5, <3>6
  <2> HIDE DEF S
  <2>5. t = Append(Etas, 0)  BY <2>3, <2>4, AppendIs
  <2> QED  BY <2>1, <2>5
<1>7. now' = now  BY DEF Propose
<1> QED  BY <1>5, <1>6, <1>7 DEF Lifecycle!Submit, Statuses, Etas

LEMMA QueueRefines ==
    ASSUME TypeOK, ProposalsInOrder, ParamsCheckpointed, NEW id \in 1..Len(proposals), Queue(id)
    PROVE  Lifecycle!Queue(id)
<1>1. /\ Len(proposals') = Len(proposals)
      /\ proposals'[id].eta = now + delay /\ now + delay \in Nat
      /\ \A i \in 1..Len(proposals) :
           i # id => proposals'[i] = proposals[i] /\ state(i)' = state(i)
      /\ state(id) = "Succeeded" /\ state(id)' = "Queued"
  BY QueueFacts
<1>2. /\ Statuses' = [Statuses EXCEPT ![id] = "Queued"]
      /\ Etas' = [Etas EXCEPT ![id] = now + delay]
  BY <1>1, MappedChange
<1>3. Statuses[id] = "Succeeded" /\ Etas'[id] = now + delay
  BY <1>1, <1>2 DEF Statuses, Etas
<1>4. now + delay >= now + MINIMUM_DELAY
  <2>1. delay \in Nat /\ delay >= MINIMUM_DELAY /\ now \in Nat /\ MINIMUM_DELAY \in Nat
    BY DelaysAssumption DEF TypeOK, Delays
  <2> QED  BY <2>1
<1>5. now' = now  BY DEF Queue
<1> QED  BY <1>1, <1>2, <1>3, <1>4, <1>5 DEF Lifecycle!Queue, Statuses, Etas

LEMMA ExecuteRefines ==
    ASSUME TypeOK, ProposalsInOrder, ParamsCheckpointed, NEW id \in 1..Len(proposals), Execute(id)
    PROVE  Lifecycle!Execute(id)
<1>1. /\ Len(proposals') = Len(proposals)
      /\ proposals'[id].eta = proposals[id].eta
      /\ \A i \in 1..Len(proposals) :
           i # id => proposals'[i] = proposals[i] /\ state(i)' = state(i)
      /\ state(id) = "Queued" /\ state(id)' = "Executed"
      /\ now < proposals[id].eta + GRACE_PERIOD
  BY ExecuteFacts
<1>2. /\ Statuses' = [Statuses EXCEPT ![id] = "Executed"]
      /\ Etas' = [Etas EXCEPT ![id] = proposals[id].eta]
  BY <1>1, MappedChange
<1>3. Statuses[id] = "Queued" /\ Etas[id] = proposals[id].eta  BY <1>1 DEF Statuses, Etas
<1>4. Etas' = Etas  BY <1>2, <1>3 DEF Etas
<1>5. proposals[id].eta <= now
  <2>1. now >= proposals[id].eta  BY DEF Execute, ExecuteTransactions
  <2>2. now \in Nat /\ proposals[id].eta \in Nat  BY CallsOfProposal DEF TypeOK
  <2> QED  BY <2>1, <2>2
<1>6. now' = now  BY DEF Execute
<1> QED  BY <1>1, <1>2, <1>3, <1>4, <1>5, <1>6 DEF Lifecycle!Execute, Statuses, Etas

\* A cancellation of a vetoed proposal changes nothing that is promised.
LEMMA KillRefines ==
    ASSUME TypeOK, ProposalsInOrder, ParamsCheckpointed, NEW id \in 1..Len(proposals),
           \E sender : Cancel(sender, id) \/ Veto(sender, id)
    PROVE  Lifecycle!Kill(id) \/ UNCHANGED Lifecycle!vars
<1>1. /\ Len(proposals') = Len(proposals)
      /\ proposals'[id].eta = proposals[id].eta
      /\ \A i \in 1..Len(proposals) :
           i # id => proposals'[i] = proposals[i] /\ state(i)' = state(i)
      /\ state(id) # "Executed" /\ state(id)' \in {"Canceled", "Vetoed"}
      /\ state(id) = "Vetoed" => state(id)' = "Vetoed"
  BY KillFacts
<1>2. /\ Statuses' = [Statuses EXCEPT ![id] = state(id)']
      /\ Etas' = [Etas EXCEPT ![id] = proposals[id].eta]
  BY <1>1, MappedChange
<1>3. Statuses[id] = state(id) /\ Etas[id] = proposals[id].eta  BY DEF Statuses, Etas
<1>4. Etas' = Etas  BY <1>2, <1>3 DEF Etas
<1>5. now' = now  BY DEF Cancel, Veto
<1>6. CASE state(id) = "Vetoed"
  <2>1. Statuses' = Statuses  BY <1>1, <1>2, <1>3, <1>6 DEF Statuses
  <2> QED  BY <1>4, <1>5, <2>1 DEF Lifecycle!vars, Statuses, Etas
<1>7. CASE state(id) # "Vetoed"
  <2>1. PICK s \in {"Canceled", "Vetoed"} : s = state(id)'  BY <1>1
  <2>2. Statuses' = [Statuses EXCEPT ![id] = s]  BY <1>2, <2>1
  <2> QED  BY <1>1, <1>3, <1>4, <1>5, <1>7, <2>2 DEF Lifecycle!Kill, Statuses, Etas
<1> QED  BY <1>6, <1>7

LEMMA NextBlockRefines ==
    ASSUME TypeOK, ProposalsInOrder, ParamsCheckpointed, NextBlock
    PROVE  Lifecycle!Pass
<1>1. /\ now' \in Nat /\ now' > now /\ UNCHANGED proposals
      /\ \A id \in 1..Len(proposals) :
           state(id)' \in
             IF state(id) = "Pending" THEN {"Pending", "Active"}
             ELSE IF state(id) = "Active" THEN {"Active", "Defeated", "Succeeded"}
             ELSE IF state(id) = "Queued" /\ now' >= proposals[id].eta + GRACE_PERIOD
             THEN {"Expired"}
             ELSE {state(id)}
  BY NextBlockFacts
<1>2. PICK n : n = Len(proposals)  OBVIOUS
<1>3. Statuses' = [i \in 1..n |-> state(i)'] /\ Statuses = [i \in 1..n |-> state(i)]
  BY <1>1, <1>2 DEF Statuses
<1>4. Len(Statuses) = n  BY <1>2, Mapped
<1>5. Etas' = Etas /\ \A i \in 1..n : Etas[i] = proposals[i].eta  BY <1>1, <1>2 DEF Etas
<1>6. DOMAIN Statuses' = DOMAIN Statuses /\ Statuses' = [p \in 1..Len(Statuses) |-> Statuses'[p]]
  BY <1>3, <1>4
<1>7. ASSUME NEW p \in 1..n PROVE Statuses'[p] \in Lifecycle!Aged(p, now')
  <2>1. Statuses'[p] = state(p)' /\ Statuses[p] = state(p) /\ Etas[p] = proposals[p].eta
    BY <1>3, <1>5
  <2>2. Lifecycle!Aged(p, now') =
          IF Statuses[p] = "Pending" THEN {"Pending", "Active"}
          ELSE IF Statuses[p] = "Active" THEN {"Active", "Defeated", "Succeeded"}
          ELSE IF Statuses[p] = "Queued" /\ now' >= Etas[p] + GRACE_PERIOD THEN {"Expired"}
          ELSE {Statuses[p]}
    BY DEF Lifecycle!Aged, Statuses, Etas
  <2> QED  BY <1>1, <1>2, <2>1, <2>2
<1> QED  BY <1>1, <1>4, <1>5, <1>6, <1>7 DEF Lifecycle!Pass, Statuses, Etas

\* The DAO keeps every promise of ProposalLifecycle: results are final, only a
\* queued proposal is executed, between its announced time and the end of its
\* grace period, and nothing that was cancelled or vetoed ever is.
THEOREM DAORefinesLifecycle == Spec => ImplementsLifecycle
<1>1. Init => Lifecycle!Init
  <2> SUFFICES ASSUME Init PROVE Lifecycle!Init
    OBVIOUS
  <2>1. Len(proposals) = 0 /\ now \in Nat  BY DEF Init
  <2>2. Statuses = << >> /\ Etas = << >>  BY <2>1 DEF Statuses, Etas
  <2> QED  BY <2>1, <2>2 DEF Lifecycle!Init, Statuses, Etas
<1>2. DAOInv /\ [Next]_vars => [Lifecycle!Next]_(Lifecycle!vars)
  <2> SUFFICES ASSUME DAOInv, [Next]_vars PROVE [Lifecycle!Next]_(Lifecycle!vars)
    OBVIOUS
  <2>1. TypeOK /\ ProposalsInOrder /\ ParamsCheckpointed  BY DEF DAOInv
  <2>2. Len(Statuses) = Len(proposals)  BY <2>1, Mapped
  <2>3. ASSUME NEW sender \in Accounts, NEW calls \in CallLists, Propose(sender, calls)
        PROVE  Lifecycle!Next
    BY <2>1, <2>3, ProposeRefines DEF Lifecycle!Next
  <2>4. ASSUME NEW id \in 1..Len(proposals), Queue(id) PROVE Lifecycle!Next
    <3>1. Lifecycle!Queue(id)  BY <2>1, <2>4, QueueRefines
    <3> QED  BY <2>2, <3>1 DEF Lifecycle!Next, Statuses
  <2>5. ASSUME NEW id \in 1..Len(proposals), Execute(id) PROVE Lifecycle!Next
    <3>1. Lifecycle!Execute(id)  BY <2>1, <2>5, ExecuteRefines
    <3> QED  BY <2>2, <3>1 DEF Lifecycle!Next, Statuses
  <2>6. ASSUME NEW sender, NEW id \in 1..Len(proposals), Cancel(sender, id) \/ Veto(sender, id)
        PROVE  Lifecycle!Next \/ UNCHANGED Lifecycle!vars
    <3>1. Lifecycle!Kill(id) \/ UNCHANGED Lifecycle!vars  BY <2>1, <2>6, KillRefines
    <3> QED  BY <2>2, <3>1 DEF Lifecycle!Next, Statuses
  <2>7. NextBlock => Lifecycle!Next  BY <2>1, NextBlockRefines DEF Lifecycle!Next
  <2>8. ASSUME Len(proposals') = Len(proposals), now' = now,
               \A i \in 1..Len(proposals) :
                 proposals'[i].eta = proposals[i].eta /\ state(i)' = state(i)
        PROVE  UNCHANGED Lifecycle!vars
    BY <2>8 DEF Lifecycle!vars
  <2>9. ASSUME NEW voter \in Accounts, NEW id \in 1..Len(proposals), NEW support \in Supports,
               CastVote(voter, id, support)
        PROVE  UNCHANGED Lifecycle!vars
    <3>1. support \in 0..2  BY VotesAssumption
    <3>2. now' = now  BY <2>9 DEF CastVote
    <3>3. /\ Len(proposals') = Len(proposals)
          /\ proposals'[id].eta = proposals[id].eta
          /\ \A i \in 1..Len(proposals) :
               i # id => proposals'[i] = proposals[i] /\ state(i)' = state(i)
          /\ state(id) = "Active" /\ state(id)' = "Active"
      BY <2>1, <2>9, <3>1, CastVoteFacts
    <3> QED  BY <2>8, <3>2, <3>3
  <2>10. ASSUME UNCHANGED <<now, block, proposals, quorumParamsCheckpoints>>
         PROVE  UNCHANGED Lifecycle!vars
    <3>1. \A i \in 1..Len(proposals) : state(i)' = state(i)  BY <2>1, <2>10, StateKept
    <3> QED  BY <2>8, <2>10, <3>1
  <2>11. ASSUME \/ UNCHANGED vars
                \/ \E sender, new : SetPendingVetoer(sender, new)
                \/ \E sender : AcceptVetoer(sender) \/ BurnVetoPower(sender) \/ MintVote(sender)
                \/ \E from, to : MoveVotes(from, to)
         PROVE  UNCHANGED Lifecycle!vars
    <3>1. UNCHANGED <<now, block, proposals, paramVars>>
      BY <2>11 DEF vars, SetPendingVetoer, AcceptVetoer, BurnVetoPower, MintVote, MoveVotes
    <3> QED  BY <2>10, <3>1 DEF paramVars
  <2> QED  BY <2>3, <2>4, <2>5, <2>6, <2>7, <2>9, <2>11 DEF Next
<1> QED  BY <1>1, <1>2, InvHolds, PTL DEF Spec, ImplementsLifecycle, Lifecycle!Spec

-----------------------------------------------------------------------------
\* What a proposal's quorum is computed from, votes aside, is fixed when it is
\* created.
LEMMA QuorumBasisKept ==
    ASSUME TypeOK, ProposalsInOrder, Next, NEW id \in 1..Len(proposals)
    PROVE  /\ proposals'[id].totalSupply = proposals[id].totalSupply
           /\ proposals'[id].creationBlock = proposals[id].creationBlock
<1> DEFINE Kept == /\ proposals'[id].totalSupply = proposals[id].totalSupply
                   /\ proposals'[id].creationBlock = proposals[id].creationBlock
<1>1. PICK n \in Nat : n = Len(proposals)
  <2>1. Len(proposals) \in Nat  BY DEF TypeOK
  <2> QED  BY <2>1
<1>2. ASSUME NEW i \in 1..n, NEW q \in Proposal, proposals' = [proposals EXCEPT ![i] = q],
             q.totalSupply = proposals[i].totalSupply, q.creationBlock = proposals[i].creationBlock
      PROVE  Kept
  <2>1. proposals'[i] = q /\ (i # id => proposals'[id] = proposals[id])
    BY <1>1, <1>2, OneProposalChanged DEF TypeOK
  <2> QED  BY <1>2, <2>1
<1>3. ASSUME NEW i \in 1..n, NEW p \in Proposal, p = proposals[i]
      PROVE  /\ \A e \in Nat : /\ [p EXCEPT !.eta = e] \in Proposal
                               /\ [p EXCEPT !.eta = e].totalSupply = p.totalSupply
                               /\ [p EXCEPT !.eta = e].creationBlock = p.creationBlock
             /\ [p EXCEPT !.executed = TRUE] \in Proposal
             /\ [p EXCEPT !.executed = TRUE].totalSupply = p.totalSupply
             /\ [p EXCEPT !.executed = TRUE].creationBlock = p.creationBlock
             /\ [p EXCEPT !.canceled = TRUE] \in Proposal
             /\ [p EXCEPT !.canceled = TRUE].totalSupply = p.totalSupply
             /\ [p EXCEPT !.canceled = TRUE].creationBlock = p.creationBlock
             /\ [p EXCEPT !.vetoed = TRUE] \in Proposal
             /\ [p EXCEPT !.vetoed = TRUE].totalSupply = p.totalSupply
             /\ [p EXCEPT !.vetoed = TRUE].creationBlock = p.creationBlock
  BY <1>3 DEF Proposal
<1>4. ASSUME NEW i \in 1..n PROVE proposals[i] \in Proposal
  BY <1>1 DEF TypeOK
<1>5. CASE \E sender \in Accounts, calls \in CallLists : Propose(sender, calls)
  <2>1. PICK q : proposals' = Append(proposals, q)  BY <1>5 DEF Propose
  <2>2. proposals'[id] = proposals[id]  BY <2>1 DEF TypeOK
  <2> QED  BY <2>2
<1>6. CASE \E voter \in Accounts, i \in 1..n, support \in Supports : CastVote(voter, i, support)
  <2>1. PICK voter \in Accounts, i \in 1..n, support \in 0..2 : CastVote(voter, i, support)
    BY <1>6, VotesAssumption
  <2>2. PICK q \in Proposal :
          /\ proposals' = [proposals EXCEPT ![i] = q]
          /\ \E t, r : q = [proposals[i] EXCEPT !.tally = t, !.receipts = r]
    BY <1>1, <2>1, VotedProposal
  <2>3. PICK p \in Proposal : p = proposals[i]  BY <1>4
  <2>4. q.totalSupply = p.totalSupply /\ q.creationBlock = p.creationBlock
    BY <2>2, <2>3 DEF Proposal
  <2> QED  BY <1>2, <2>2, <2>3, <2>4
<1>7. CASE \E i \in 1..n : Queue(i)
  <2>1. PICK i \in 1..n : Queue(i)  BY <1>7
  <2>2. PICK p \in Proposal : p = proposals[i]  BY <1>4
  <2>3. PICK e \in Nat : e = now + delay
    <3>1. now \in Nat /\ delay \in Nat  BY DelaysAssumption DEF TypeOK, Delays
    <3>2. now + delay \in Nat  BY <3>1
    <3> QED  BY <3>2
  <2>4. proposals' = [proposals EXCEPT ![i] = [p EXCEPT !.eta = e]]  BY <2>1, <2>2, <2>3 DEF Queue
  <2> QED  BY <1>2, <1>3, <2>2, <2>4
<1>8. CASE \E i \in 1..n : Execute(i)
  <2>1. PICK i \in 1..n : Execute(i)  BY <1>8
  <2>2. PICK p \in Proposal : p = proposals[i]  BY <1>4
  <2>3. proposals' = [proposals EXCEPT ![i] = [p EXCEPT !.executed = TRUE]]
    BY <2>1, <2>2 DEF Execute
  <2> QED  BY <1>2, <1>3, <2>2, <2>3
<1>9. CASE \E sender \in Accounts \cup Vetoers, i \in 1..n : Cancel(sender, i) \/ Veto(sender, i)
  <2>1. PICK sender \in Accounts \cup Vetoers, i \in 1..n : Cancel(sender, i) \/ Veto(sender, i)  BY <1>9
  <2>2. PICK p \in Proposal : p = proposals[i]  BY <1>4
  <2>3. \/ proposals' = [proposals EXCEPT ![i] = [p EXCEPT !.canceled = TRUE]]
        \/ proposals' = [proposals EXCEPT ![i] = [p EXCEPT !.vetoed = TRUE]]
    BY <2>1, <2>2 DEF Cancel, Veto
  <2> QED  BY <1>2, <1>3, <2>2, <2>3
<1>10. CASE UNCHANGED proposals  BY <1>10
<1> QED
  BY <1>1, <1>5, <1>6, <1>7, <1>8, <1>9, <1>10
     DEF Next, SetPendingVetoer, AcceptVetoer, BurnVetoPower, MoveVotes, MintVote, NextBlock

\* Parameters that a proposal changes do not reach the quorum of another whose
\* voting has begun.
THEOREM QuorumStaysSettled == Spec => QuorumSettled
<1>1. DAOInv /\ [Next]_vars =>
        [\A id \in 1..Len(proposals) :
            /\ block > proposals[id].startBlock
            /\ proposals'[id].tally[0] = proposals[id].tally[0]
            => quorumVotes(proposals[id])' = quorumVotes(proposals[id])]_vars
  <2> SUFFICES ASSUME DAOInv, Next, NEW id \in 1..Len(proposals),
                      block > proposals[id].startBlock,
                      proposals'[id].tally[0] = proposals[id].tally[0]
               PROVE  quorumVotes(proposals[id])' = quorumVotes(proposals[id])
    OBVIOUS
  <2>1. TypeOK /\ ProposalsInOrder /\ ParamsCheckpointed  BY DEF DAOInv
  <2>2. /\ proposals'[id].totalSupply = proposals[id].totalSupply
        /\ proposals'[id].creationBlock = proposals[id].creationBlock
    BY <2>1, QuorumBasisKept
  <2>3. PICK b \in Nat : b = proposals[id].creationBlock /\ b < block
    <3>1. PICK p \in Proposal : p = proposals[id]  BY <2>1 DEF TypeOK
    <3>2. p.creationBlock \in Nat /\ p.startBlock \in Nat  BY DEF Proposal
    <3>3. p.creationBlock < p.startBlock /\ block \in Nat
      BY <2>1, <3>1 DEF ProposalsInOrder, TypeOK
    <3> QED  BY <3>1, <3>2, <3>3
  <2>4. getDynamicQuorumParamsAt(b)' = getDynamicQuorumParamsAt(b)
    <3>1. CASE UNCHANGED quorumParamsCheckpoints  BY <3>1 DEF getDynamicQuorumParamsAt
    <3>2. ASSUME NEW params, WriteQuorumParamsCheckpoint(params)
          PROVE  getDynamicQuorumParamsAt(b)' = getDynamicQuorumParamsAt(b)
      BY <2>1, <2>3, <3>2, PastParamsKept
    <3> QED
      BY <3>1, <3>2
         DEF Next, Propose, CastVote, Queue, Execute, Cancel, Veto, SetPendingVetoer, AcceptVetoer,
             BurnVetoPower, MoveVotes, MintVote, NextBlock, paramVars
  <2> QED  BY <2>2, <2>3, <2>4 DEF quorumVotes
<1> QED  BY <1>1, InvHolds, PTL DEF Spec, QuorumSettled

-----------------------------------------------------------------------------
(* Sums of votes.                                                          *)

\* Sum adds one element after another: the sum of s from the sums g of smaller sets.
First(s) == CHOOSE x \in s : TRUE
SumStep(w, g, s) == IF s = {} THEN 0 ELSE w[First(s)] + g[s \ {First(s)}]
IsSums(w, A, g) == g = [s \in SUBSET A |-> SumStep(w, g, s)]

\* One element less is one set smaller.
LEMMA FirstFacts ==
    ASSUME NEW A, IsFiniteSet(A), NEW s \in SUBSET A
    PROVE  /\ IsFiniteSet(s) /\ Cardinality(s) \in Nat
           /\ s = {} <=> Cardinality(s) = 0
           /\ s # {} => /\ First(s) \in s
                        /\ s \ {First(s)} \in SUBSET A
                        /\ Cardinality(s \ {First(s)}) = Cardinality(s) - 1
<1>1. IsFiniteSet(s) /\ Cardinality(s) \in Nat  BY FS_Subset, FS_CardinalityType
<1>2. s = {} <=> Cardinality(s) = 0  BY <1>1, FS_EmptySet
<1>3. s # {} => First(s) \in s  BY DEF First
<1>4. s # {} => Cardinality(s \ {First(s)}) = Cardinality(s) - 1
  BY <1>1, <1>3, FS_RemoveElement
<1> QED  BY <1>1, <1>2, <1>3, <1>4

\* A set of no elements.
LEMMA NoneLeft ==
    ASSUME NEW A, IsFiniteSet(A), NEW s \in SUBSET A, Cardinality(s) <= 0
    PROVE  s = {}
<1>1. IsFiniteSet(s) /\ Cardinality(s) \in Nat  BY FS_Subset, FS_CardinalityType
<1>2. Cardinality(s) = 0  BY <1>1
<1> QED  BY <1>1, <1>2, FS_EmptySet

\* There is a table of the sums of all subsets.
LEMMA SumsExist ==
    ASSUME NEW A, IsFiniteSet(A), NEW w, \A a \in A : w[a] \in Nat
    PROVE  \E g \in [SUBSET A -> Nat] : IsSums(w, A, g)
<1> DEFINE Agrees(g, n) == \A s \in SUBSET A : Cardinality(s) <= n => g[s] = SumStep(w, g, s)
           S == {n \in Nat : \E g \in [SUBSET A -> Nat] : Agrees(g, n)}
<1>1. 0 \in S
  <2> DEFINE g == [s \in SUBSET A |-> 0]
  <2>1. g \in [SUBSET A -> Nat]  OBVIOUS
  <2>2. ASSUME NEW s \in SUBSET A, Cardinality(s) <= 0
        PROVE  g[s] = SumStep(w, g, s)
    <3>1. s = {}  BY <2>2, NoneLeft
    <3> QED  BY <3>1 DEF SumStep
  <2> HIDE DEF g
  <2>3. Agrees(g, 0)  BY <2>2
  <2> QED  BY <2>1, <2>3
<1>2. ASSUME NEW n \in Nat, n \in S
      PROVE  n + 1 \in S
  <2>1. PICK g \in [SUBSET A -> Nat] : Agrees(g, n)  BY <1>2
  <2> DEFINE h == [s \in SUBSET A |-> SumStep(w, g, s)]
  <2>2. ASSUME NEW s \in SUBSET A PROVE SumStep(w, g, s) \in Nat
    <3>1. CASE s = {}  BY <3>1 DEF SumStep
    <3>2. CASE s # {}
      <4>1. /\ w[First(s)] \in Nat /\ g[s \ {First(s)}] \in Nat
        BY <3>2, FirstFacts
      <4> QED  BY <3>2, <4>1 DEF SumStep
    <3> QED  BY <3>1, <3>2
  <2>3. h \in [SUBSET A -> Nat]  BY <2>2
  <2>4. \A s \in SUBSET A : h[s] = SumStep(w, g, s)  OBVIOUS
  <2> HIDE DEF h
  <2>5. ASSUME NEW s \in SUBSET A, Cardinality(s) <= n + 1
        PROVE  h[s] = SumStep(w, h, s)
    <3>1. CASE s = {}  BY <2>4, <3>1 DEF SumStep
    <3>2. CASE s # {}
      <4>1. /\ s \ {First(s)} \in SUBSET A
            /\ Cardinality(s \ {First(s)}) = Cardinality(s) - 1 /\ Cardinality(s) \in Nat
        BY <3>2, FirstFacts
      <4>2. Cardinality(s \ {First(s)}) <= n  BY <2>5, <4>1
      <4>3. h[s \ {First(s)}] = g[s \ {First(s)}]  BY <2>1, <2>4, <4>1, <4>2
      <4> QED  BY <2>4, <4>3 DEF SumStep
    <3> QED  BY <3>1, <3>2
  <2>6. Agrees(h, n + 1)  BY <2>5
  <2> QED  BY <2>3, <2>6
<1>3. Nat \subseteq S
  <2> HIDE DEF S
  <2> QED  BY <1>1, <1>2, SetInduction
<1>4. Cardinality(A) \in Nat  BY FS_CardinalityType
<1>5. PICK g \in [SUBSET A -> Nat] : Agrees(g, Cardinality(A))  BY <1>3, <1>4
<1>6. \A s \in SUBSET A : Cardinality(s) <= Cardinality(A)  BY FS_Subset
<1>7. \A s \in SUBSET A : g[s] = SumStep(w, g, s)  BY <1>5, <1>6
<1>8. g = [s \in SUBSET A |-> SumStep(w, g, s)]  BY <1>7
<1> QED  BY <1>8 DEF IsSums

\* Sum is one entry of that table.
LEMMA SumIsEntry ==
    ASSUME NEW A, IsFiniteSet(A), NEW w \in [A -> Nat]
    PROVE  \E g \in [SUBSET A -> Nat] : IsSums(w, A, g) /\ Sum(w) = g[A]
<1> DEFINE g == CHOOSE h : IsSums(w, A, h)
<1>1. Sum(w) = g[A]
  <2>1. DOMAIN w = A  OBVIOUS
  <2>2. Sum(w) = (CHOOSE h : h = [s \in SUBSET DOMAIN w |-> SumStep(w, h, s)])[DOMAIN w]
    BY DEF Sum, FoldFunction, FoldFunctionOnSet, MapThenFoldSet, SumStep, First
  <2> QED  BY <2>1, <2>2 DEF IsSums
<1>2. PICK h \in [SUBSET A -> Nat] : IsSums(w, A, h)  BY SumsExist
<1>3. IsSums(w, A, g)  BY <1>2
<1> HIDE DEF g
<1>4. g = [s \in SUBSET A |-> SumStep(w, g, s)]  BY <1>3 DEF IsSums
<1>5. g \in [SUBSET A -> Nat]
  <2> DEFINE S == {n \in Nat : \A s \in SUBSET A : Cardinality(s) <= n => g[s] \in Nat}
  <2>1. 0 \in S
    <3> SUFFICES ASSUME NEW s \in SUBSET A, Cardinality(s) <= 0 PROVE g[s] \in Nat
      OBVIOUS
    <3>1. s = {}  BY NoneLeft
    <3> QED  BY <1>4, <3>1 DEF SumStep
  <2>2. ASSUME NEW n \in Nat, n \in S PROVE n + 1 \in S
    <3> SUFFICES ASSUME NEW s \in SUBSET A, Cardinality(s) <= n + 1 PROVE g[s] \in Nat
      OBVIOUS
    <3>1. CASE s = {}  BY <1>4, <3>1 DEF SumStep
    <3>2. CASE s # {}
      <4>1. /\ First(s) \in A /\ s \ {First(s)} \in SUBSET A
            /\ Cardinality(s \ {First(s)}) = Cardinality(s) - 1 /\ Cardinality(s) \in Nat
        BY <3>2, FirstFacts
      <4>2. g[s \ {First(s)}] \in Nat /\ w[First(s)] \in Nat  BY <2>2, <4>1
      <4>3. g[s] = w[First(s)] + g[s \ {First(s)}]  BY <1>4, <3>2 DEF SumStep
      <4> QED  BY <4>2, <4>3
    <3> QED  BY <3>1, <3>2
  <2>3. Nat \subseteq S
    <3> HIDE DEF S
    <3> QED  BY <2>1, <2>2, SetInduction
  <2>4. \A s \in SUBSET A : Cardinality(s) \in Nat  BY FirstFacts
  <2>5. \A s \in SUBSET A : g[s] \in Nat  BY <2>3, <2>4
  <2> QED  BY <1>4, <2>5
<1> QED  BY <1>1, <1>3, <1>5

\* Two tables with the same weights agree on the sets they share.
LEMMA SumsAgree ==
    ASSUME NEW B, IsFiniteSet(B), NEW A \in SUBSET B, NEW v, NEW w, \A a \in A : v[a] = w[a],
           NEW g, IsSums(v, A, g), NEW h, IsSums(w, B, h)
    PROVE  g[A] = h[A]
<1> DEFINE S == {n \in Nat : \A s \in SUBSET A : Cardinality(s) <= n => g[s] = h[s]}
<1>1. IsFiniteSet(A)  BY FS_Subset
<1>2. \A s \in SUBSET A : g[s] = SumStep(v, g, s) /\ h[s] = SumStep(w, h, s)
  BY DEF IsSums
<1>3. 0 \in S
  <2> SUFFICES ASSUME NEW s \in SUBSET A, Cardinality(s) <= 0 PROVE g[s] = h[s]
    OBVIOUS
  <2>1. s = {}  BY <1>1, NoneLeft
  <2> QED  BY <1>2, <2>1 DEF SumStep
<1>4. ASSUME NEW n \in Nat, n \in S PROVE n + 1 \in S
  <2> SUFFICES ASSUME NEW s \in SUBSET A, Cardinality(s) <= n + 1 PROVE g[s] = h[s]
    OBVIOUS
  <2>1. CASE s = {}  BY <1>2, <2>1 DEF SumStep
  <2>2. CASE s # {}
    <3>1. /\ First(s) \in A /\ s \ {First(s)} \in SUBSET A
          /\ Cardinality(s \ {First(s)}) = Cardinality(s) - 1 /\ Cardinality(s) \in Nat
      BY <1>1, <2>2, FirstFacts
    <3>2. g[s \ {First(s)}] = h[s \ {First(s)}]  BY <1>4, <3>1
    <3> QED  BY <1>2, <2>2, <3>1, <3>2 DEF SumStep
  <2> QED  BY <2>1, <2>2
<1>5. Nat \subseteq S
  <2> HIDE DEF S
  <2> QED  BY <1>3, <1>4, SetInduction
<1>6. Cardinality(A) \in Nat  BY <1>1, FS_CardinalityType
<1> QED  BY <1>5, <1>6

\* The sum over T and x is the sum over T and the weight of x.
Adds(g, w, T, x) == g[T \cup {x}] = g[T] + w[x]

\* The order in which the elements are taken does not matter: whichever element is
\* added last, it adds its weight.
LEMMA SumsExtend ==
    ASSUME NEW B, IsFiniteSet(B), NEW w, \A a \in B : w[a] \in Nat,
           NEW g \in [SUBSET B -> Nat], IsSums(w, B, g)
    PROVE  \A T \in SUBSET B : \A x \in B : x \notin T => Adds(g, w, T, x)
<1> DEFINE S == {n \in Nat : \A s \in SUBSET B : \A y \in B :
                   Cardinality(s) <= n /\ y \notin s => g[s \cup {y}] = g[s] + w[y]}
<1>1. \A s \in SUBSET B : g[s] = SumStep(w, g, s)  BY DEF IsSums
<1>2. ASSUME NEW s \in SUBSET B, NEW y \in B, y \notin s, First(s \cup {y}) = y
      PROVE  g[s \cup {y}] = g[s] + w[y]
  <2>1. s \cup {y} # {} /\ (s \cup {y}) \ {y} = s /\ s \cup {y} \in SUBSET B  BY <1>2
  <2>2. g[s \cup {y}] = w[y] + g[s]  BY <1>1, <1>2, <2>1 DEF SumStep
  <2>3. w[y] \in Nat /\ g[s] \in Nat  OBVIOUS
  <2> QED  BY <2>2, <2>3
<1>3. 0 \in S
  <2> SUFFICES ASSUME NEW s \in SUBSET B, NEW y \in B, Cardinality(s) <= 0, y \notin s
               PROVE  g[s \cup {y}] = g[s] + w[y]
    OBVIOUS
  <2>1. s = {}  BY NoneLeft
  <2>2. First(s \cup {y}) = y  BY <2>1 DEF First
  <2> QED  BY <1>2, <2>2
<1>4. ASSUME NEW n \in Nat, n \in S PROVE n + 1 \in S
  <2> SUFFICES ASSUME NEW s \in SUBSET B, NEW y \in B, Cardinality(s) <= n + 1, y \notin s
               PROVE  g[s \cup {y}] = g[s] + w[y]
    OBVIOUS
  <2> DEFINE z == First(s \cup {y})
             r == s \ {z}
  <2>1. CASE z = y  BY <1>2, <2>1
  <2>2. CASE z # y
    <3>1. z \in s /\ z \in B  BY <2>2 DEF First
    <3> HIDE DEF z
    <3>2. IsFiniteSet(s) /\ Cardinality(s) \in Nat  BY FirstFacts
    <3>3. Cardinality(r) = Cardinality(s) - 1  BY <3>1, <3>2, FS_RemoveElement
    <3>4. /\ r \in SUBSET B /\ Cardinality(r) <= n /\ z \notin r /\ y \notin r
          /\ r \cup {z} = s /\ (s \cup {y}) \ {z} = r \cup {y}
          /\ s \cup {y} \in SUBSET B /\ s \cup {y} # {} /\ r \cup {y} \in SUBSET B
      BY <2>2, <3>1, <3>2, <3>3
    <3>5. g[s] = g[r] + w[z] /\ g[r \cup {y}] = g[r] + w[y]
      BY <1>4, <3>1, <3>4
    <3>6. g[s \cup {y}] = w[z] + g[r \cup {y}]
      BY <1>1, <3>4 DEF SumStep, z
    <3>7. g[r] \in Nat /\ w[z] \in Nat /\ w[y] \in Nat  BY <3>1, <3>4
    <3> HIDE DEF r
    <3> QED  BY <3>5, <3>6, <3>7
  <2> QED  BY <2>1, <2>2
<1>5. Nat \subseteq S
  <2> HIDE DEF S
  <2> QED  BY <1>3, <1>4, SetInduction
<1>6. \A T \in SUBSET B : Cardinality(T) \in Nat  BY FirstFacts
<1> QED  BY <1>5, <1>6 DEF Adds

\* One more account adds its votes to the sum over the accounts of T.
OneMore(w, T, x) == Sum([a \in T \cup {x} |-> w[a]]) = Sum([a \in T |-> w[a]]) + w[x]

\* The sum over some of the accounts: none gives 0, and one more adds its votes.
LEMMA SumOver ==
    ASSUME NEW B, IsFiniteSet(B), NEW w \in [B -> Nat]
    PROVE  /\ Sum([a \in {} |-> w[a]]) = 0
           /\ \A T \in SUBSET B : Sum([a \in T |-> w[a]]) \in Nat
           /\ \A T \in SUBSET B : \A x \in B : x \notin T => OneMore(w, T, x)
<1>1. PICK h \in [SUBSET B -> Nat] : IsSums(w, B, h)  BY SumsExist
<1>2. ASSUME NEW T \in SUBSET B
      PROVE  Sum([a \in T |-> w[a]]) = h[T]
  <2> DEFINE v == [a \in T |-> w[a]]
  <2>1. IsFiniteSet(T) /\ v \in [T -> Nat] /\ \A a \in T : v[a] = w[a]  BY FS_Subset
  <2> HIDE DEF v
  <2>2. PICK g \in [SUBSET T -> Nat] : IsSums(v, T, g) /\ Sum(v) = g[T]
    BY <2>1, SumIsEntry
  <2>3. g[T] = h[T]  BY <1>1, <2>1, <2>2, SumsAgree
  <2> QED  BY <2>2, <2>3 DEF v
<1>3. h[{}] = 0
  <2>1. h[{}] = SumStep(w, h, {})  BY <1>1 DEF IsSums
  <2> QED  BY <2>1 DEF SumStep
<1>4. \A T \in SUBSET B : \A x \in B : x \notin T => h[T \cup {x}] = h[T] + w[x]
  <2>1. \A a \in B : w[a] \in Nat  OBVIOUS
  <2>2. \A T \in SUBSET B : \A x \in B : x \notin T => Adds(h, w, T, x)
    BY <1>1, <2>1, SumsExtend
  <2> QED  BY <2>2 DEF Adds
<1>5. Sum([a \in {} |-> w[a]]) = 0  BY <1>2, <1>3
<1>6. ASSUME NEW T \in SUBSET B, NEW x \in B, x \notin T
      PROVE  OneMore(w, T, x)
  <2>1. T \cup {x} \in SUBSET B  OBVIOUS
  <2> QED  BY <1>2, <1>4, <1>6, <2>1 DEF OneMore
<1>7. \A T \in SUBSET B : Sum([a \in T |-> w[a]]) \in Nat  BY <1>2
<1> QED  BY <1>5, <1>6, <1>7


-----------------------------------------------------------------------------
(* The count of the votes.                                                 *)

\* Who voted s on a proposal, and whether its tally is their votes at the end
\* of a block.
Voters(p, s) == {v \in Accounts : p.receipts[v] = s}
CountOf(p, past) == \A s \in 0..2 : p.tally[s] = Sum([a \in Voters(p, s) |-> past[a]])
Unvoted(p) == \A s \in 0..2 : p.tally[s] = 0 /\ Voters(p, s) = {}

\* The past votes that are kept are of past blocks, nobody has voted on a
\* proposal before its voting starts, and every tally is what its voters had.
PastBlocksOnly == DOMAIN priorVotes \subseteq 0..(block - 1)
UnvotedYet == \A id \in 1..Len(proposals) : block <= proposals[id].startBlock => Unvoted(proposals[id])
TallyInv ==
    /\ PastBlocksOnly
    /\ UnvotedYet
    /\ EachVoteCountsOnce

\* EachVoteCountsOnce, with the count of a proposal named.
LEMMA CountsAre ==
    EachVoteCountsOnce <=>
      \A id \in 1..Len(proposals) :
        proposals[id].creationBlock \in DOMAIN priorVotes =>
          CountOf(proposals[id], priorVotes[proposals[id].creationBlock])
BY DEF EachVoteCountsOnce, CountOf, Voters

LEMMA CountsAreNext ==
    ASSUME \A i \in 1..Len(proposals') :
             proposals'[i].creationBlock \in DOMAIN priorVotes' =>
               CountOf(proposals'[i], priorVotes'[proposals'[i].creationBlock])
    PROVE  EachVoteCountsOnce'
BY DEF EachVoteCountsOnce, CountOf, Voters

\* Nobody's votes are 0 votes.
LEMMA UnvotedCount ==
    ASSUME NEW p, Unvoted(p), NEW past \in [Accounts -> Nat]
    PROVE  CountOf(p, past)
<1> SUFFICES ASSUME NEW s \in 0..2 PROVE p.tally[s] = Sum([a \in Voters(p, s) |-> past[a]])
  BY DEF CountOf
<1>1. p.tally[s] = 0 /\ Voters(p, s) = {}  BY DEF Unvoted
<1>2. Sum([a \in {} |-> past[a]]) = 0  BY SumOver, VotesAssumption
<1> QED  BY <1>1, <1>2

\* A change of a proposal that leaves its votes and blocks alone.
SameVotes(p, q) ==
    /\ q.tally = p.tally /\ q.receipts = p.receipts
    /\ q.creationBlock = p.creationBlock /\ q.startBlock = p.startBlock

LEMMA SameCount ==
    ASSUME NEW p, NEW q, SameVotes(p, q)
    PROVE  /\ Unvoted(p) => Unvoted(q)
           /\ \A past : CountOf(p, past) => CountOf(q, past)
<1>1. \A s : Voters(q, s) = Voters(p, s)  BY DEF Voters, SameVotes
<1> QED  BY <1>1 DEF Unvoted, CountOf, SameVotes

\* A step that casts no vote keeps every count.
LEMMA CountsKept ==
    ASSUME TallyInv, UNCHANGED <<block, priorVotes>>, Len(proposals') = Len(proposals),
           \A i \in 1..Len(proposals) : SameVotes(proposals[i], proposals'[i])
    PROVE  TallyInv'
<1>1. ASSUME NEW i \in 1..Len(proposals)
      PROVE  /\ proposals'[i].creationBlock = proposals[i].creationBlock
             /\ proposals'[i].startBlock = proposals[i].startBlock
             /\ Unvoted(proposals[i]) => Unvoted(proposals'[i])
             /\ \A past : CountOf(proposals[i], past) => CountOf(proposals'[i], past)
  <2>1. SameVotes(proposals[i], proposals'[i])  OBVIOUS
  <2>2. /\ Unvoted(proposals[i]) => Unvoted(proposals'[i])
        /\ \A past : CountOf(proposals[i], past) => CountOf(proposals'[i], past)
    BY <2>1, SameCount
  <2> QED  BY <2>1, <2>2 DEF SameVotes
<1>2. UnvotedYet'  BY <1>1 DEF TallyInv, UnvotedYet, Unvoted, Voters
<1>3. PastBlocksOnly'  BY DEF TallyInv, PastBlocksOnly
<1>4. EachVoteCountsOnce'
  <2>1. ASSUME NEW i \in 1..Len(proposals), proposals'[i].creationBlock \in DOMAIN priorVotes
        PROVE  CountOf(proposals'[i], priorVotes[proposals'[i].creationBlock])
    <3>1. EachVoteCountsOnce  BY DEF TallyInv
    <3>2. CountOf(proposals[i], priorVotes[proposals[i].creationBlock])
      BY <1>1, <2>1, <3>1, CountsAre
    <3> QED  BY <1>1, <3>2
  <2> QED  BY <2>1, CountsAreNext
<1> QED  BY <1>2, <1>3, <1>4 DEF TallyInv

\* Setting the eta or a flag of a proposal casts no vote.
LEMMA FlagsCastNoVote ==
    ASSUME proposals \in Seq(Proposal), NEW id \in 1..Len(proposals),
           \/ \E e \in Nat : proposals' = [proposals EXCEPT ![id].eta = e]
           \/ proposals' = [proposals EXCEPT ![id].executed = TRUE]
           \/ proposals' = [proposals EXCEPT ![id].canceled = TRUE]
           \/ proposals' = [proposals EXCEPT ![id].vetoed = TRUE]
    PROVE  /\ Len(proposals') = Len(proposals)
           /\ \A i \in 1..Len(proposals) : SameVotes(proposals[i], proposals'[i])
<1> PICK p \in Proposal : p = proposals[id]  OBVIOUS
<1>1. PICK q \in Proposal : SameVotes(p, q) /\ proposals' = [proposals EXCEPT ![id] = q]
  <2>1. CASE \E e \in Nat : proposals' = [proposals EXCEPT ![id].eta = e]
    <3> PICK e \in Nat : proposals' = [proposals EXCEPT ![id].eta = e]  BY <2>1
    <3>1. [p EXCEPT !.eta = e] \in Proposal /\ SameVotes(p, [p EXCEPT !.eta = e])
      BY DEF Proposal, SameVotes
    <3> QED  BY <3>1
  <2>2. CASE proposals' = [proposals EXCEPT ![id].executed = TRUE]
    <3>1. [p EXCEPT !.executed = TRUE] \in Proposal /\ SameVotes(p, [p EXCEPT !.executed = TRUE])
      BY DEF Proposal, SameVotes
    <3> QED  BY <2>2, <3>1
  <2>3. CASE proposals' = [proposals EXCEPT ![id].canceled = TRUE]
    <3>1. [p EXCEPT !.canceled = TRUE] \in Proposal /\ SameVotes(p, [p EXCEPT !.canceled = TRUE])
      BY DEF Proposal, SameVotes
    <3> QED  BY <2>3, <3>1
  <2>4. CASE proposals' = [proposals EXCEPT ![id].vetoed = TRUE]
    <3>1. [p EXCEPT !.vetoed = TRUE] \in Proposal /\ SameVotes(p, [p EXCEPT !.vetoed = TRUE])
      BY DEF Proposal, SameVotes
    <3> QED  BY <2>4, <3>1
  <2> QED  BY <2>1, <2>2, <2>3, <2>4
<1>2. /\ Len(proposals') = Len(proposals) /\ proposals'[id] = q
      /\ \A i \in 1..Len(proposals) : i # id => proposals'[i] = proposals[i]
  BY <1>1, OneProposalChanged
<1> QED  BY <1>1, <1>2 DEF SameVotes

\* castVote() moves the voter, who had not voted, to one tally, and adds to it
\* what the voter had when the proposal was created.
LEMMA CastVoteCounts ==
    ASSUME DAOInv, TallyInv, NEW id \in 1..Len(proposals), NEW voter \in Accounts,
           NEW support \in 0..2, CastVote(voter, id, support)
    PROVE  TallyInv'
<1>1. TypeOK /\ ProposalsInOrder /\ EachVoteCountsOnce  BY DEF DAOInv, TallyInv
<1>2. PICK q \in Proposal :
        /\ proposals' = [proposals EXCEPT ![id] = q]
        /\ \E t, r : q = [proposals[id] EXCEPT !.tally = t, !.receipts = r]
        /\ proposals[id].creationBlock \in DOMAIN priorVotes
        /\ Counts(proposals[id], q, voter, support)
  BY <1>1, CountedProposal
<1> PICK p \in Proposal : p = proposals[id]  BY <1>1 DEF TypeOK
<1>3. /\ q.tally = [p.tally EXCEPT ![support] = @ + priorVotes[p.creationBlock][voter]]
       /\ q.receipts = [p.receipts EXCEPT ![voter] = support]
  BY <1>2 DEF Counts
<1>4. /\ q.creationBlock = p.creationBlock /\ q.startBlock = p.startBlock
      /\ p.tally \in [0..2 -> Nat] /\ p.receipts \in [Accounts -> 0..3]
  BY <1>2 DEF Proposal
<1>5. /\ Len(proposals') = Len(proposals) /\ proposals'[id] = q
      /\ \A i \in 1..Len(proposals) : i # id => proposals'[i] = proposals[i]
  BY <1>1, <1>2, OneProposalChanged DEF TypeOK
<1>6. UNCHANGED <<block, priorVotes>>  BY DEF CastVote, tokenVars
<1>7. ~(block <= p.startBlock) /\ p.receipts[voter] = 3
  <2>1. StateOf(p) = "Active"  BY DEF CastVote, state
  <2> QED  BY <2>1 DEF StateOf, CastVote, NotVoted
<1>8. PICK w \in [Accounts -> Nat] : w = priorVotes[p.creationBlock]  BY <1>1, <1>2 DEF TypeOK
<1>9. CountOf(p, w)  BY <1>1, <1>2, <1>8, CountsAre
<1>10. CountOf(q, w)
  <2> SUFFICES ASSUME NEW s \in 0..2 PROVE q.tally[s] = Sum([a \in Voters(q, s) |-> w[a]])
    BY DEF CountOf
  <2>1. p.tally[s] = Sum([a \in Voters(p, s) |-> w[a]])  BY <1>9 DEF CountOf
  <2>2. CASE s # support
    <3>1. Voters(q, s) = Voters(p, s)  BY <1>3, <1>4, <1>7, <2>2 DEF Voters
    <3>2. q.tally[s] = p.tally[s]  BY <1>3, <1>4, <2>2
    <3> QED  BY <2>1, <3>1, <3>2
  <2>3. CASE s = support
    <3>1. Voters(q, s) = Voters(p, s) \cup {voter} /\ voter \notin Voters(p, s)
      BY <1>3, <1>4, <1>7, <2>3 DEF Voters
    <3>2. Sum([a \in Voters(p, s) \cup {voter} |-> w[a]])
            = Sum([a \in Voters(p, s) |-> w[a]]) + w[voter]
      <4>1. Voters(p, s) \in SUBSET Accounts  BY DEF Voters
      <4>2. \A T \in SUBSET Accounts : \A x \in Accounts : x \notin T => OneMore(w, T, x)
        BY SumOver, VotesAssumption
      <4> QED  BY <3>1, <4>1, <4>2 DEF OneMore
    <3>3. q.tally[s] = p.tally[s] + w[voter]  BY <1>3, <1>4, <1>8, <2>3
    <3> QED  BY <2>1, <3>1, <3>2, <3>3
  <2> QED  BY <2>2, <2>3
<1>11. EachVoteCountsOnce'
  <2>1. ASSUME NEW i \in 1..Len(proposals), proposals'[i].creationBlock \in DOMAIN priorVotes
        PROVE  CountOf(proposals'[i], priorVotes[proposals'[i].creationBlock])
    <3>1. CASE i = id  BY <1>4, <1>5, <1>8, <1>10, <3>1
    <3>2. CASE i # id
      <4>1. CountOf(proposals[i], priorVotes[proposals[i].creationBlock])
        BY <1>1, <1>5, <2>1, <3>2, CountsAre
      <4> QED  BY <1>5, <3>2, <4>1
    <3> QED  BY <3>1, <3>2
  <2>2. priorVotes' = priorVotes  BY <1>6
  <2> QED  BY <1>5, <2>1, <2>2, CountsAreNext
<1>12. UnvotedYet'
  <2>1. ASSUME NEW i \in 1..Len(proposals), block <= proposals'[i].startBlock
        PROVE  Unvoted(proposals'[i])
    <3>1. i # id  BY <1>4, <1>5, <1>7, <2>1
    <3> QED  BY <1>5, <2>1, <3>1 DEF TallyInv, UnvotedYet
  <2> QED  BY <1>5, <1>6, <2>1 DEF UnvotedYet, Unvoted, Voters
<1>13. PastBlocksOnly'  BY <1>6 DEF TallyInv, PastBlocksOnly
<1> QED  BY <1>11, <1>12, <1>13 DEF TallyInv


\* propose() adds a proposal nobody has voted on, created in a block whose votes
\* are not read yet.
LEMMA ProposeCounts ==
    ASSUME DAOInv, TallyInv, NEW sender \in Accounts, NEW calls \in CallLists, Propose(sender, calls)
    PROVE  TallyInv'
<1> DEFINE n == Len(proposals)
<1>1. TypeOK /\ ProposalsInOrder /\ ParamsCheckpointed  BY DEF DAOInv
<1>2. block \in Nat /\ n \in Nat /\ proposals \in Seq(Proposal)  BY <1>1 DEF TypeOK
<1>3. UNCHANGED <<block, priorVotes>>  BY DEF Propose, tokenVars
<1>4. PICK r : /\ proposals' = Append(proposals, r)
               /\ r.tally = [s \in 0..2 |-> 0] /\ r.creationBlock = block
               /\ r.receipts = [a \in Accounts |-> 3]
  BY DEF Propose, NotVoted
<1>5. Unvoted(r)
  <2> SUFFICES ASSUME NEW s \in 0..2 PROVE r.tally[s] = 0 /\ Voters(r, s) = {}
    BY DEF Unvoted
  <2> QED  BY <1>4 DEF Voters
<1>6. /\ Len(proposals') = n + 1 /\ proposals'[n + 1] = r
      /\ \A i \in 1..n : proposals'[i] = proposals[i]
  BY <1>2, <1>4
<1>7. PastBlocksOnly'  BY <1>3 DEF TallyInv, PastBlocksOnly
<1>8. UnvotedYet'
  <2>1. ASSUME NEW i \in 1..(n + 1), block <= proposals'[i].startBlock
        PROVE  Unvoted(proposals'[i])
    <3>1. CASE i = n + 1  BY <1>5, <1>6, <3>1
    <3>2. CASE i # n + 1
      <4>1. i \in 1..n  BY <1>2, <3>2
      <4>2. block <= proposals[i].startBlock => Unvoted(proposals[i])  BY <4>1 DEF TallyInv, UnvotedYet
      <4> QED  BY <1>6, <2>1, <4>1, <4>2
    <3> QED  BY <3>1, <3>2
  <2> QED  BY <1>3, <1>6, <2>1 DEF UnvotedYet, Unvoted, Voters
<1>9. EachVoteCountsOnce'
  <2>1. ASSUME NEW i \in 1..(n + 1), proposals'[i].creationBlock \in DOMAIN priorVotes
        PROVE  CountOf(proposals'[i], priorVotes[proposals'[i].creationBlock])
    <3>1. CASE i = n + 1
      <4>1. block \notin DOMAIN priorVotes  BY <1>2 DEF TallyInv, PastBlocksOnly
      <4>2. proposals'[i].creationBlock = block  BY <1>4, <1>6, <3>1
      <4> QED  BY <2>1, <4>1, <4>2
    <3>2. CASE i # n + 1
      <4>1. i \in 1..n  BY <1>2, <3>2
      <4>2. proposals'[i] = proposals[i]  BY <1>6, <4>1
      <4>3. EachVoteCountsOnce  BY DEF TallyInv
      <4> QED  BY <2>1, <4>1, <4>2, <4>3, CountsAre
    <3> QED  BY <3>1, <3>2
  <2>2. priorVotes' = priorVotes  BY <1>3
  <2> QED  BY <1>6, <2>1, <2>2, CountsAreNext
<1> QED  BY <1>7, <1>8, <1>9 DEF TallyInv

\* A new block fixes the votes of the last one. Those of an older block that is
\* still asked for stay, and nobody has voted on a proposal of the last block.
LEMMA NextBlockCounts ==
    ASSUME DAOInv, TallyInv, NextBlock
    PROVE  TallyInv'
<1>1. TypeOK /\ ProposalsInOrder  BY DEF DAOInv
<1>2. /\ block \in Nat /\ block' = block + 1 /\ UNCHANGED proposals
      /\ priorVotes' = [b \in AskedBlocks |-> IF b = block THEN votes ELSE priorVotes[b]]
      /\ votes \in [Accounts -> Nat]
  BY <1>1 DEF TypeOK, NextBlock
<1>3. ASSUME NEW i \in 1..Len(proposals)
      PROVE  /\ proposals[i].creationBlock \in 1..block
             /\ proposals[i].startBlock \in Nat /\ proposals[i].endBlock \in Nat
             /\ proposals[i].creationBlock < proposals[i].startBlock
             /\ proposals[i].startBlock < proposals[i].endBlock
  <2>1. PICK p \in Proposal : p = proposals[i]  BY <1>1 DEF TypeOK
  <2>2. p.startBlock \in Nat /\ p.endBlock \in Nat  BY DEF Proposal
  <2> QED  BY <1>1, <2>1, <2>2 DEF ProposalsInOrder
<1>4. PastBlocksOnly'
  <2>1. DOMAIN priorVotes' = AskedBlocks  BY <1>2
  <2>2. AskedBlocks \subseteq 0..block  BY <1>2, <1>3 DEF AskedBlocks
  <2> QED  BY <1>2, <2>1, <2>2 DEF PastBlocksOnly
<1>5. UnvotedYet'
  <2>1. ASSUME NEW i \in 1..Len(proposals), block' <= proposals[i].startBlock
        PROVE  Unvoted(proposals[i])
    <3>1. block <= proposals[i].startBlock  BY <1>2, <1>3, <2>1
    <3> QED  BY <3>1 DEF TallyInv, UnvotedYet
  <2> QED  BY <1>2, <2>1 DEF UnvotedYet, Unvoted, Voters
<1>6. EachVoteCountsOnce'
  <2>1. ASSUME NEW i \in 1..Len(proposals), proposals[i].creationBlock \in DOMAIN priorVotes'
        PROVE  CountOf(proposals[i], priorVotes'[proposals[i].creationBlock])
    <3>1. CASE proposals[i].creationBlock = block
      <4>1. block <= proposals[i].startBlock  BY <1>2, <1>3, <3>1
      <4>2. Unvoted(proposals[i])  BY <4>1 DEF TallyInv, UnvotedYet
      <4>3. priorVotes'[block] = votes  BY <1>2 DEF AskedBlocks
      <4> QED  BY <1>2, <3>1, <4>2, <4>3, UnvotedCount
    <3>2. CASE proposals[i].creationBlock # block
      <4>1. PICK b : b = proposals[i].creationBlock  OBVIOUS
      <4>2. b \in AskedBlocks /\ b # block  BY <1>2, <2>1, <3>2, <4>1
      <4>3. PICK j \in 1..Len(proposals) :
              b = proposals[j].creationBlock /\ block < proposals[j].endBlock
        BY <4>2 DEF AskedBlocks
      <4>4. b < block /\ block <= proposals[j].endBlock  BY <1>2, <1>3, <4>2, <4>3
      <4>5. b \in DOMAIN priorVotes  BY <1>1, <4>3, <4>4 DEF TypeOK, VotesAvailable
      <4>6. priorVotes'[b] = priorVotes[b]  BY <1>2, <4>2
      <4>7. EachVoteCountsOnce  BY DEF TallyInv
      <4> QED  BY <4>1, <4>5, <4>6, <4>7, CountsAre
    <3> QED  BY <3>1, <3>2
  <2> QED  BY <1>2, <2>1, CountsAreNext
<1> QED  BY <1>4, <1>5, <1>6 DEF TallyInv

LEMMA TallyInit == Init => TallyInv
<1> SUFFICES ASSUME Init PROVE TallyInv
  OBVIOUS
<1>1. proposals = << >> /\ Len(proposals) = 0 /\ block = 1 /\ DOMAIN priorVotes = {0}
  BY DEF Init
<1> QED  BY <1>1 DEF TallyInv, PastBlocksOnly, UnvotedYet, EachVoteCountsOnce

LEMMA TallyNext == DAOInv /\ TallyInv /\ [Next]_vars => TallyInv'
<1> SUFFICES ASSUME DAOInv, TallyInv, [Next]_vars PROVE TallyInv'
  OBVIOUS
<1>1. proposals \in Seq(Proposal) /\ now \in Nat /\ delay \in Nat
  BY DelaysAssumption DEF DAOInv, TypeOK, Delays
<1>2. ASSUME NEW sender \in Accounts, NEW calls \in CallLists, Propose(sender, calls)
      PROVE  TallyInv'
  BY <1>2, ProposeCounts
<1>3. ASSUME NEW voter \in Accounts, NEW id \in 1..Len(proposals), NEW support \in Supports,
             CastVote(voter, id, support)
      PROVE  TallyInv'
  BY <1>3, CastVoteCounts, VotesAssumption
<1>4. ASSUME NEW id \in 1..Len(proposals),
             \/ Queue(id) \/ Execute(id) \/ \E sender : Cancel(sender, id) \/ Veto(sender, id)
      PROVE  TallyInv'
  <2>1. UNCHANGED <<block, priorVotes>>
    BY <1>4 DEF Queue, Execute, Cancel, Veto, tokenVars
  <2>2. \/ \E e \in Nat : proposals' = [proposals EXCEPT ![id].eta = e]
        \/ proposals' = [proposals EXCEPT ![id].executed = TRUE]
        \/ proposals' = [proposals EXCEPT ![id].canceled = TRUE]
        \/ proposals' = [proposals EXCEPT ![id].vetoed = TRUE]
    <3>1. now + delay \in Nat  BY <1>1
    <3> QED  BY <1>4, <3>1 DEF Queue, Execute, Cancel, Veto
  <2>3. /\ Len(proposals') = Len(proposals)
        /\ \A i \in 1..Len(proposals) : SameVotes(proposals[i], proposals'[i])
    BY <1>1, <2>2, FlagsCastNoVote
  <2> QED  BY <2>1, <2>3, CountsKept
<1>5. CASE UNCHANGED <<block, priorVotes, proposals>>
  <2>1. \A i \in 1..Len(proposals) : SameVotes(proposals[i], proposals'[i])  BY <1>5 DEF SameVotes
  <2> QED  BY <1>5, <2>1, CountsKept
<1>6. CASE NextBlock  BY <1>6, NextBlockCounts
<1>7. \/ Next
      \/ UNCHANGED <<block, priorVotes, proposals>>
  BY DEF vars, tokenVars
<1>8. ASSUME \/ \E sender \in Vetoers, new \in Vetoers \cup {Zero} : SetPendingVetoer(sender, new)
             \/ \E sender \in Vetoers : AcceptVetoer(sender)
             \/ \E sender \in Vetoers : BurnVetoPower(sender)
             \/ \E move \in Moves : MoveVotes(move[1], move[2])
             \/ \E to \in Accounts : MintVote(to)
      PROVE  UNCHANGED <<block, priorVotes, proposals>>
  BY <1>8 DEF SetPendingVetoer, AcceptVetoer, BurnVetoPower, MoveVotes, MintVote, tokenVars
<1> QED  BY <1>2, <1>3, <1>4, <1>5, <1>6, <1>7, <1>8 DEF Next

\* Every vote is counted once: the tally that castVote() adds to is the votes
\* that the voters had at the end of the block the proposal was created in,
\* whatever votes moved or were minted since.
THEOREM VotesCountedOnce == Spec => []EachVoteCountsOnce
<1>1. Spec => []TallyInv  BY InvHolds, TallyInit, TallyNext, PTL DEF Spec
<1>2. TallyInv => EachVoteCountsOnce  BY DEF TallyInv
<1> QED  BY <1>1, <1>2, PTL


-----------------------------------------------------------------------------
(* The executions.                                                         *)

\* The executions of a transaction, and the executed proposals it is a call of.
Times(tx) == {i \in 1..Len(executions) : executions[i] = tx}
MadeBy(p, tx) == p.executed /\ tx \in Transactions(p.calls, p.eta)
Callers(tx) == {id \in 1..Len(proposals) : MadeBy(proposals[id], tx)}
OnceInv == \A tx : Cardinality(Times(tx)) = Cardinality(Callers(tx))

\* A step that executes nothing and changes no executed proposal.
LEMMA OnceKept ==
    ASSUME OnceInv, TypeOK, UNCHANGED executions,
           Len(proposals') \in Nat, Len(proposals') >= Len(proposals),
           \A i \in 1..Len(proposals) : \A tx :
             MadeBy(proposals'[i], tx) <=> MadeBy(proposals[i], tx),
           \A i \in 1..Len(proposals') : i \notin 1..Len(proposals) => ~proposals'[i].executed
    PROVE  OnceInv'
<1> SUFFICES ASSUME NEW tx PROVE Cardinality(Times(tx))' = Cardinality(Callers(tx))'
  BY DEF OnceInv
<1>1. Times(tx)' = Times(tx)  BY DEF Times
<1>2. \A i : i \in 1..Len(proposals) => i \in 1..Len(proposals')
  BY DEF TypeOK
<1>3. Callers(tx)' = {i \in 1..Len(proposals') : MadeBy(proposals'[i], tx)}
  BY DEF Callers, MadeBy
<1>4. \A i \in 1..Len(proposals') : MadeBy(proposals'[i], tx) =>
        i \in 1..Len(proposals) /\ MadeBy(proposals[i], tx)
  BY DEF MadeBy
<1>5. Callers(tx)' = Callers(tx)  BY <1>2, <1>3, <1>4 DEF Callers
<1> QED  BY <1>1, <1>5 DEF OnceInv

\* One proposal changed, from or to one that is not executed.
LEMMA OnceKeptByOne ==
    ASSUME OnceInv, TypeOK, UNCHANGED executions, NEW id \in 1..Len(proposals),
           Len(proposals') = Len(proposals),
           \A i \in 1..Len(proposals) : i # id => proposals'[i] = proposals[i],
           \A tx : MadeBy(proposals'[id], tx) <=> MadeBy(proposals[id], tx)
    PROVE  OnceInv'
<1>1. Len(proposals) \in Nat  BY DEF TypeOK
<1>2. \A i \in 1..Len(proposals) : \A tx : MadeBy(proposals'[i], tx) <=> MadeBy(proposals[i], tx)
  OBVIOUS
<1> QED  BY <1>1, <1>2, OnceKept

\* execute() makes each call of the proposal once: none is repeated, and the
\* proposal was not executed before.
LEMMA ExecuteOnce ==
    ASSUME DAOInv, OnceInv, NEW id \in 1..Len(proposals), Execute(id)
    PROVE  OnceInv'
<1> DEFINE calls == proposals[id].calls
           eta == proposals[id].eta
           m == Len(calls)
           n == Len(executions)
           done == [i \in 1..m |-> [call |-> calls[i], eta |-> eta]]
<1>1. TypeOK /\ ProposalsInOrder /\ ParamsCheckpointed  BY DEF DAOInv
<1>2. calls \in Seq(Call) /\ m \in Nat /\ n \in Nat /\ Len(proposals) \in Nat
  BY <1>1, CallsOfProposal DEF TypeOK
<1>3. NoRepeats(calls) /\ executions' = executions \o done
  BY DEF Execute, ExecuteTransactions
<1>4. /\ Len(executions') = n + m
      /\ \A i \in 1..n : executions'[i] = executions[i]
      /\ \A i \in 1..m : executions'[n + i] = done[i]
  <2>1. Len(done) = m /\ done \in Seq({done[i] : i \in 1..m})
    <3>1. done \in [1..m -> {done[i] : i \in 1..m}]  OBVIOUS
    <3> HIDE DEF done
    <3>2. PICK k \in Nat : k = m  BY <1>2
    <3>3. done \in [1..k -> {done[i] : i \in 1..m}]  BY <3>1, <3>2
    <3>4. done \in Seq({done[i] : i \in 1..m})  BY <3>3, SeqDef
    <3>5. DOMAIN done = 1..k  BY <3>3
    <3>6. Len(done) = k  BY <3>4, <3>5
    <3> QED  BY <3>2, <3>4, <3>6
  <2>2. executions \in Seq([call : Call, eta : Nat])  BY <1>1 DEF TypeOK
  <2> HIDE DEF done, calls, eta
  <2> QED  BY <1>2, <1>3, <2>1, <2>2
<1>5. /\ Len(proposals') = Len(proposals)
      /\ proposals'[id] = [proposals[id] EXCEPT !.executed = TRUE]
      /\ \A i \in 1..Len(proposals) : i # id => proposals'[i] = proposals[i]
  <2>1. proposals \in Seq(Proposal)  BY <1>1 DEF TypeOK
  <2>2. PICK q : q = [proposals[id] EXCEPT !.executed = TRUE]  OBVIOUS
  <2>3. proposals' = [proposals EXCEPT ![id] = q]  BY <2>2 DEF Execute
  <2>4. /\ Len(proposals') = Len(proposals) /\ proposals'[id] = q
        /\ \A i \in 1..Len(proposals) : i # id => proposals'[i] = proposals[i]
    BY <2>1, <2>3
  <2> QED  BY <2>2, <2>4
<1>6. ~proposals[id].executed  BY DEF Execute, state, StateOf
<1>7. \A tx : MadeBy(proposals'[id], tx) <=> tx \in Transactions(calls, eta)
  <2>1. PICK p \in Proposal : p = proposals[id]  BY <1>1 DEF TypeOK
  <2>2. PICK q : q = [p EXCEPT !.executed = TRUE]  OBVIOUS
  <2>3. q.executed /\ q.calls = p.calls /\ q.eta = p.eta  BY <2>2 DEF Proposal
  <2> QED  BY <1>5, <2>1, <2>2, <2>3 DEF MadeBy
<1> SUFFICES ASSUME NEW tx PROVE Cardinality(Times(tx))' = Cardinality(Callers(tx))'
  BY DEF OnceInv
<1>8. Times(tx)' = {i \in 1..(n + m) : executions'[i] = tx}  BY <1>4 DEF Times
<1>9. Callers(tx)' = {i \in 1..Len(proposals) : MadeBy(proposals'[i], tx)}
  BY <1>5 DEF Callers, MadeBy
<1>10. id \notin Callers(tx)  BY <1>6 DEF Callers, MadeBy
<1>11. Times(tx) \subseteq 1..n /\ Callers(tx) \subseteq 1..Len(proposals)
  BY DEF Times, Callers
<1>12. IsFiniteSet(Times(tx)) /\ IsFiniteSet(Callers(tx))
  <2>1. IsFiniteSet(1..n) /\ IsFiniteSet(1..Len(proposals))  BY <1>2, FS_Interval
  <2> QED  BY <1>11, <2>1, FS_Subset
<1>13. Cardinality(Times(tx)) = Cardinality(Callers(tx))  BY DEF OnceInv
<1>14. Times(tx)' \cap 1..n = Times(tx)
  BY <1>2, <1>4, <1>8 DEF Times
<1>15. CASE tx \in Transactions(calls, eta)
  <2>1. PICK j \in 1..m : tx = done[j]  BY <1>15 DEF Transactions
  <2>2. \A i \in 1..m : executions'[n + i] = tx <=> i = j
    <3>1. ASSUME NEW i \in 1..m, done[i] = done[j] PROVE i = j
      <4>1. calls[i] = calls[j]  BY <3>1
      <4> QED  BY <1>3, <4>1 DEF NoRepeats
    <3> QED  BY <1>4, <2>1, <3>1
  <2>3. \A k \in 1..(n + m) : k \notin 1..n => k - n \in 1..m /\ k = n + (k - n)
    BY <1>2
  <2>4. \A k \in 1..(n + m) : k \notin 1..n => (executions'[k] = tx <=> k = n + j)
    BY <1>2, <2>2, <2>3
  <2>5. n + j \in 1..(n + m) /\ n + j \notin 1..n /\ 1..n \subseteq 1..(n + m)  BY <1>2
  <2>6. Times(tx)' = Times(tx) \cup {n + j} /\ n + j \notin Times(tx)
    BY <1>8, <1>11, <1>14, <2>4, <2>5
  <2>7. Callers(tx)' = Callers(tx) \cup {id}
    BY <1>5, <1>7, <1>9, <1>15 DEF Callers
  <2>8. /\ Cardinality(Times(tx)') = Cardinality(Times(tx)) + 1
        /\ Cardinality(Callers(tx)') = Cardinality(Callers(tx)) + 1
    BY <1>10, <1>12, <2>6, <2>7, FS_AddElement
  <2> QED  BY <1>13, <2>8
<1>16. CASE tx \notin Transactions(calls, eta)
  <2>1. \A i \in 1..m : executions'[n + i] # tx  BY <1>4, <1>16 DEF Transactions
  <2>2. \A k \in 1..(n + m) : k \notin 1..n => k - n \in 1..m /\ k = n + (k - n)
    BY <1>2
  <2>3. \A k \in 1..(n + m) : k \notin 1..n => executions'[k] # tx
    BY <2>1, <2>2
  <2>4. Times(tx)' = Times(tx)  BY <1>8, <1>14, <2>3
  <2>5. Callers(tx)' = Callers(tx)
    BY <1>5, <1>7, <1>9, <1>10, <1>16 DEF Callers
  <2> QED  BY <1>13, <2>4, <2>5
<1> QED  BY <1>15, <1>16

LEMMA OnceInit == Init => OnceInv
<1> SUFFICES ASSUME Init, NEW tx PROVE Cardinality(Times(tx)) = Cardinality(Callers(tx))
  BY DEF OnceInv
<1>1. Len(executions) = 0 /\ Len(proposals) = 0  BY DEF Init
<1>2. Times(tx) = Callers(tx)  BY <1>1 DEF Times, Callers
<1> QED  BY <1>2

LEMMA OnceNext == DAOInv /\ OnceInv /\ [Next]_vars => OnceInv'
<1> SUFFICES ASSUME DAOInv, OnceInv, [Next]_vars PROVE OnceInv'
  OBVIOUS
<1>1. TypeOK /\ ProposalsInOrder /\ ParamsCheckpointed  BY DEF DAOInv
<1>2. ASSUME NEW sender \in Accounts, NEW calls \in CallLists, Propose(sender, calls)
      PROVE  OnceInv'
  <2>1. Len(proposals) \in Nat /\ UNCHANGED executions  BY <1>1, <1>2 DEF TypeOK, Propose, timelockVars
  <2>2. PICK r : proposals' = Append(proposals, r) /\ r.executed = FALSE
    BY <1>2 DEF Propose
  <2>3. /\ Len(proposals') = Len(proposals) + 1 /\ proposals'[Len(proposals) + 1] = r
        /\ \A i \in 1..Len(proposals) : proposals'[i] = proposals[i]
    BY <1>1, <2>2 DEF TypeOK
  <2>4. \A i \in 1..Len(proposals') : i \notin 1..Len(proposals) => i = Len(proposals) + 1
    BY <2>1, <2>3
  <2>5. /\ Len(proposals') \in Nat /\ Len(proposals') >= Len(proposals)
        /\ \A i \in 1..Len(proposals') : i \notin 1..Len(proposals) => ~proposals'[i].executed
    BY <2>1, <2>2, <2>3, <2>4
  <2>6. \A i \in 1..Len(proposals) : \A tx : MadeBy(proposals'[i], tx) <=> MadeBy(proposals[i], tx)
    BY <2>3
  <2> QED  BY <1>1, <2>1, <2>5, <2>6, OnceKept
<1>3. ASSUME NEW voter \in Accounts, NEW id \in 1..Len(proposals), NEW support \in Supports,
             CastVote(voter, id, support)
      PROVE  OnceInv'
  <2>1. support \in 0..2  BY VotesAssumption
  <2>2. PICK q \in Proposal :
          /\ proposals' = [proposals EXCEPT ![id] = q]
          /\ \E t, r : q = [proposals[id] EXCEPT !.tally = t, !.receipts = r]
    BY <1>1, <1>3, <2>1, VotedProposal
  <2>3. PICK p \in Proposal : p = proposals[id]  BY <1>1 DEF TypeOK
  <2>4. q.executed = p.executed /\ q.calls = p.calls /\ q.eta = p.eta  BY <2>2, <2>3 DEF Proposal
  <2>5. /\ Len(proposals') = Len(proposals) /\ proposals'[id] = q
        /\ \A i \in 1..Len(proposals) : i # id => proposals'[i] = proposals[i]
    BY <1>1, <2>2, OneProposalChanged DEF TypeOK
  <2>6. \A tx : MadeBy(proposals'[id], tx) <=> MadeBy(proposals[id], tx)
    BY <2>3, <2>4, <2>5 DEF MadeBy
  <2>7. UNCHANGED executions  BY <1>3 DEF CastVote, timelockVars
  <2> QED  BY <1>1, <2>5, <2>6, <2>7, OnceKeptByOne
<1>4. ASSUME NEW id \in 1..Len(proposals), Queue(id)
      PROVE  OnceInv'
  <2>1. PICK p \in Proposal : p = proposals[id]  BY <1>1 DEF TypeOK
  <2>2. PICK q : q = [p EXCEPT !.eta = now + delay]  OBVIOUS
  <2>3. q.executed = p.executed  BY <2>1, <2>2 DEF Proposal
  <2>4. ~p.executed
    <3>1. proposals[id].eta = 0  BY <1>4 DEF Queue, state, StateOf
    <3> QED  BY <1>1, <2>1, <3>1 DEF ProposalsInOrder
  <2>5. /\ Len(proposals') = Len(proposals) /\ proposals'[id] = q
        /\ \A i \in 1..Len(proposals) : i # id => proposals'[i] = proposals[i]
    <3>1. proposals \in Seq(Proposal)  BY <1>1 DEF TypeOK
    <3>2. proposals' = [proposals EXCEPT ![id] = q]  BY <1>4, <2>1, <2>2 DEF Queue
    <3> QED  BY <3>1, <3>2
  <2>6. \A tx : MadeBy(proposals'[id], tx) <=> MadeBy(proposals[id], tx)
    BY <2>1, <2>3, <2>4, <2>5 DEF MadeBy
  <2>7. UNCHANGED executions  BY <1>4 DEF Queue, QueueTransactions
  <2> QED  BY <1>1, <2>5, <2>6, <2>7, OnceKeptByOne
<1>5. ASSUME NEW id \in 1..Len(proposals), Execute(id) PROVE OnceInv'
  BY <1>5, ExecuteOnce
<1>6. ASSUME NEW id \in 1..Len(proposals), \E sender : Cancel(sender, id) \/ Veto(sender, id)
      PROVE  OnceInv'
  <2>1. PICK p \in Proposal : p = proposals[id]  BY <1>1 DEF TypeOK
  <2>2. PICK q : /\ proposals' = [proposals EXCEPT ![id] = q]
                 /\ \/ q = [p EXCEPT !.canceled = TRUE]
                    \/ q = [p EXCEPT !.vetoed = TRUE]
    BY <1>6, <2>1 DEF Cancel, Veto
  <2>3. q.executed = p.executed /\ q.calls = p.calls /\ q.eta = p.eta  BY <2>2 DEF Proposal
  <2>4. /\ Len(proposals') = Len(proposals) /\ proposals'[id] = q
        /\ \A i \in 1..Len(proposals) : i # id => proposals'[i] = proposals[i]
    BY <1>1, <2>2 DEF TypeOK
  <2>5. \A tx : MadeBy(proposals'[id], tx) <=> MadeBy(proposals[id], tx)
    BY <2>1, <2>3, <2>4 DEF MadeBy
  <2>6. UNCHANGED executions  BY <1>6 DEF Cancel, Veto, CancelTransactions
  <2> QED  BY <1>1, <2>4, <2>5, <2>6, OnceKeptByOne
<1>7. CASE UNCHANGED <<executions, proposals>>
  <2>1. Len(proposals) \in Nat  BY <1>1 DEF TypeOK
  <2> QED  BY <1>1, <1>7, <2>1, OnceKept
<1>8. ASSUME \/ \E sender \in Vetoers, new \in Vetoers \cup {Zero} : SetPendingVetoer(sender, new)
             \/ \E sender \in Vetoers : AcceptVetoer(sender)
             \/ \E sender \in Vetoers : BurnVetoPower(sender)
             \/ \E move \in Moves : MoveVotes(move[1], move[2])
             \/ \E to \in Accounts : MintVote(to)
             \/ NextBlock
      PROVE  UNCHANGED <<executions, proposals>>
  BY <1>8
     DEF SetPendingVetoer, AcceptVetoer, BurnVetoPower, MoveVotes, MintVote, NextBlock, timelockVars
<1>9. Next \/ UNCHANGED <<executions, proposals>>  BY DEF vars, timelockVars
<1> QED  BY <1>2, <1>3, <1>4, <1>5, <1>6, <1>7, <1>8, <1>9 DEF Next

\* The timelock executes a transaction once for each executed proposal it is a
\* call of, and never otherwise: execute() marks the proposal, and queue() and
\* executeTransaction() refuse the repetitions that could run a call twice.
THEOREM EachExecutedOnce == Spec => []ExecutedOnce
<1>1. Spec => []OnceInv  BY InvHolds, OnceInit, OnceNext, PTL DEF Spec
<1>2. OnceInv => ExecutedOnce  BY DEF OnceInv, ExecutedOnce, Times, Callers, MadeBy
<1> QED  BY <1>1, <1>2, PTL

=============================================================================
