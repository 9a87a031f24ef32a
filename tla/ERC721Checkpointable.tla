------------------------ MODULE ERC721Checkpointable ------------------------
(***************************************************************************)
(* The vote accounting of the Alps token: base/ERC721.sol's _mint, _burn   *)
(* and _transfer with the hook of base/ERC721Checkpointable.sol, and the   *)
(* two ways to delegate. Each transaction is one action; blocks pass in    *)
(* between. Who may call the token operations is the matter of the token's *)
(* external functions, not of this module.                                 *)
(*                                                                         *)
(* block.timestamp is measured in blocks: it matters here only to the      *)
(* expiry of a signed delegation.                                          *)
(***************************************************************************)
EXTENDS Integers, FiniteSets, Sequences

CONSTANTS
    Accounts,     \* the addresses that hold tokens and votes
    Zero,         \* address(0)
    TokenIds,     \* the token ids
    Signatures,   \* the delegations signed off-chain, which anyone may submit
    MaxBlock      \* bound: no block after this one

ASSUME ZeroAssumption == Zero \notin Accounts
ASSUME TokenIdsAssumption == IsFiniteSet(TokenIds)
ASSUME SignaturesAssumption ==
    Signatures \subseteq [signatory : Accounts, delegatee : Accounts \cup {Zero},
                          nonce : Nat, expiry : Nat]
ASSUME MaxBlockAssumption == MaxBlock \in Nat \ {0}

VARIABLES
    owners,       \* _owners: the owner of each token, Zero when it does not exist
    balances,     \* _balances
    delegateOf,   \* _delegates: Zero when never set
    checkpoints,  \* checkpoints and numCheckpoints, one sequence per account
    nonces,       \* the next signature nonce of each account
    block,        \* block.number
    voided        \* history: the votes each account has signed away to address(0)

vars == <<owners, balances, delegateOf, checkpoints, nonces, block, voided>>

Checkpoint == [fromBlock : Nat, votes : Nat]

Init ==
    /\ owners = [t \in TokenIds |-> Zero]
    /\ balances = [a \in Accounts |-> 0]
    /\ delegateOf = [a \in Accounts |-> Zero]
    /\ checkpoints = [a \in Accounts |-> << >>]
    /\ nonces = [a \in Accounts |-> 0]
    /\ block = 1
    /\ voided = [a \in Accounts |-> 0]

-----------------------------------------------------------------------------
\* delegates(): an account represents itself until it delegates. It maps
\* Zero, the source of a mint and the target of a burn, to Zero.
Delegates(a) == IF a = Zero \/ delegateOf[a] = Zero THEN a ELSE delegateOf[a]

VotesOf(cps) == IF cps = << >> THEN 0 ELSE cps[Len(cps)].votes

\* getCurrentVotes()
GetCurrentVotes(a) == VotesOf(checkpoints[a])

\* A fault: the search skips the checkpoint it has just compared.
SearchSkipping(cps, blockNumber) ==
    LET search[range \in (1..Len(cps)) \X (1..Len(cps))] ==
            LET lower  == range[1]
                upper  == range[2]
                center == upper - (upper - lower) \div 2
            IN  IF upper <= lower THEN cps[lower].votes
                ELSE IF cps[center].fromBlock < blockNumber
                THEN search[<<IF center < upper THEN center + 1 ELSE upper, upper>>]
                ELSE search[<<lower, center - 1>>]
    IN  search

\* The loop of getPriorVotes: what it returns from each <<lower, upper>>.
Search(cps, blockNumber) ==
    LET search[range \in (1..Len(cps)) \X (1..Len(cps))] ==
            LET lower  == range[1]
                upper  == range[2]
                center == upper - (upper - lower) \div 2
            IN  IF upper <= lower THEN cps[lower].votes
                ELSE IF cps[center].fromBlock = blockNumber THEN cps[center].votes
                ELSE IF cps[center].fromBlock < blockNumber THEN search[<<center, upper>>]
                ELSE search[<<lower, center - 1>>]
    IN  search

\* getPriorVotes() of a block that has ended.
GetPriorVotes(a, blockNumber) ==
    LET cps == checkpoints[a]
    IN  IF cps = << >> THEN 0
        ELSE IF cps[Len(cps)].fromBlock <= blockNumber THEN VotesOf(cps)
        ELSE IF cps[1].fromBlock > blockNumber THEN 0
        ELSE Search(cps, blockNumber)[<<1, Len(cps)>>]

\* Faults: two checkpoints of one block; the votes of an earlier block overwritten.
WriteCheckpointAgain(cps, newVotes) == Append(cps, [fromBlock |-> block, votes |-> newVotes])
WriteCheckpointOver(cps, newVotes) ==
    LET cp == [fromBlock |-> block, votes |-> newVotes]
    IN  IF cps # << >> THEN [cps EXCEPT ![Len(cps)] = cp] ELSE Append(cps, cp)

\* _writeCheckpoint(): one checkpoint per block, the last write of the block wins.
WriteCheckpoint(cps, newVotes) ==
    LET cp == [fromBlock |-> block, votes |-> newVotes]
    IN  IF cps # << >> /\ cps[Len(cps)].fromBlock = block
        THEN [cps EXCEPT ![Len(cps)] = cp]
        ELSE Append(cps, cp)

\* _moveDelegates(): reverts when the source has fewer votes than it gives.
MoveDelegates(srcRep, dstRep, amount) ==
    IF srcRep = dstRep \/ amount = 0
    THEN UNCHANGED checkpoints
    ELSE /\ srcRep # Zero => GetCurrentVotes(srcRep) >= amount
         /\ checkpoints' = [a \in Accounts |->
               IF a = srcRep THEN WriteCheckpoint(checkpoints[a], GetCurrentVotes(a) - amount)
               ELSE IF a = dstRep THEN WriteCheckpoint(checkpoints[a], GetCurrentVotes(a) + amount)
               ELSE checkpoints[a]]

\* A fault: the old representative is read after the new one is stored.
DelegateToReadLate(delegator, delegatee) ==
    /\ delegateOf' = [delegateOf EXCEPT ![delegator] = delegatee]
    /\ MoveDelegates(delegatee, delegatee, balances[delegator])

\* _delegate(): moves the whole balance from the old representative to the new one.
DelegateTo(delegator, delegatee) ==
    /\ delegateOf' = [delegateOf EXCEPT ![delegator] = delegatee]
    /\ MoveDelegates(Delegates(delegator), delegatee, balances[delegator])

-----------------------------------------------------------------------------
\* A fault: a token that exists is minted again.
MintAgain(to, t) ==
    /\ MoveDelegates(Zero, Delegates(to), 1)
    /\ balances' = [balances EXCEPT ![to] = @ + 1]
    /\ owners' = [owners EXCEPT ![t] = to]
    /\ UNCHANGED <<delegateOf, nonces, block, voided>>

\* _mint()
Mint(to, t) ==
    /\ owners[t] = Zero
    /\ MoveDelegates(Zero, Delegates(to), 1)
    /\ balances' = [balances EXCEPT ![to] = @ + 1]
    /\ owners' = [owners EXCEPT ![t] = to]
    /\ UNCHANGED <<delegateOf, nonces, block, voided>>

\* _burn()
Burn(t) ==
    /\ owners[t] # Zero
    /\ MoveDelegates(Delegates(owners[t]), Zero, 1)
    /\ balances' = [balances EXCEPT ![owners[t]] = @ - 1]
    /\ owners' = [owners EXCEPT ![t] = Zero]
    /\ UNCHANGED <<delegateOf, nonces, block, voided>>

\* A fault: a token is transferred from an account that does not own it.
TransferFromAnyone(from, to, t) ==
    /\ owners[t] # Zero
    /\ MoveDelegates(Delegates(from), Delegates(to), 1)
    /\ balances' = [[balances EXCEPT ![from] = @ - 1] EXCEPT ![to] = @ + 1]
    /\ owners' = [owners EXCEPT ![t] = to]
    /\ UNCHANGED <<delegateOf, nonces, block, voided>>

\* _transfer()
Transfer(from, to, t) ==
    /\ owners[t] = from
    /\ MoveDelegates(Delegates(from), Delegates(to), 1)
    /\ balances' = [[balances EXCEPT ![from] = @ - 1] EXCEPT ![to] = @ + 1]
    /\ owners' = [owners EXCEPT ![t] = to]
    /\ UNCHANGED <<delegateOf, nonces, block, voided>>

\* A fault: votes are delegated to Zero.
DelegateToZero(sender, delegatee) ==
    /\ DelegateTo(sender, delegatee)
    /\ UNCHANGED <<owners, balances, nonces, block, voided>>

\* delegate(): naming Zero means naming oneself.
Delegate(sender, delegatee) ==
    /\ DelegateTo(sender, IF delegatee = Zero THEN sender ELSE delegatee)
    /\ UNCHANGED <<owners, balances, nonces, block, voided>>

\* A fault: the nonce of a signature is not spent.
DelegateBySigReplayed(m) ==
    /\ m.nonce = nonces[m.signatory]
    /\ block <= m.expiry
    /\ DelegateTo(m.signatory, m.delegatee)
    /\ UNCHANGED <<owners, balances, nonces, block, voided>>

\* delegateBySig(): the delegatee of the message is taken as it is. One that is Zero gets no
\* votes, although delegates() says from then on that the signatory represents itself.
DelegateBySig(m) ==
    /\ m.nonce = nonces[m.signatory]
    /\ block <= m.expiry
    /\ nonces' = [nonces EXCEPT ![m.signatory] = @ + 1]
    /\ DelegateTo(m.signatory, m.delegatee)
    /\ voided' = IF m.delegatee = Zero THEN [voided EXCEPT ![m.signatory] = @ + balances[m.signatory]]
                 ELSE voided
    /\ UNCHANGED <<owners, balances, block>>

\* The chain appends a block.
NextBlock ==
    /\ block < MaxBlock
    /\ block' = block + 1
    /\ UNCHANGED <<owners, balances, delegateOf, checkpoints, nonces, voided>>

Next ==
    \/ \E to \in Accounts, t \in TokenIds : Mint(to, t)
    \/ \E t \in TokenIds : Burn(t)
    \/ \E from, to \in Accounts, t \in TokenIds : Transfer(from, to, t)
    \/ \E sender \in Accounts, delegatee \in Accounts \cup {Zero} : Delegate(sender, delegatee)
    \/ \E m \in Signatures : DelegateBySig(m)
    \/ NextBlock

Spec == Init /\ [][Next]_vars

-----------------------------------------------------------------------------
\* The types of the variables, and an account's balance never below zero.
TypeOK ==
    /\ owners \in [TokenIds -> Accounts \cup {Zero}]
    /\ balances \in [Accounts -> Nat]
    /\ delegateOf \in [Accounts -> Accounts \cup {Zero}]
    /\ checkpoints \in [Accounts -> Seq(Checkpoint)]
    /\ nonces \in [Accounts -> Nat]
    /\ block \in 1..MaxBlock
    /\ voided \in [Accounts -> Nat]

\* The tokens whose owner a represents.
TokensRepresentedBy(a) == {t \in TokenIds : owners[t] # Zero /\ Delegates(owners[t]) = a}

\* _balances counts the tokens of every account.
BalancesMatchTokens ==
    \A a \in Accounts : balances[a] = Cardinality({t \in TokenIds : owners[t] = a})

\* Every existing token counts exactly once, for the representative of its
\* owner: the incremental bookkeeping of _moveDelegates neither loses nor
\* invents a vote through any sequence of mints, burns, transfers and
\* delegations, but for those that a signed delegation to address(0) took
\* from its signatory.
VotesMatchTokens ==
    \A a \in Accounts : GetCurrentVotes(a) + voided[a] = Cardinality(TokensRepresentedBy(a))

\* What the binary search of getPriorVotes and the same-block overwrite of
\* _writeCheckpoint rely on: an account has at most one checkpoint per block,
\* in the order of blocks, none from a later block.
CheckpointsOrdered ==
    \A a \in Accounts :
        /\ \A i \in 1..Len(checkpoints[a]) : checkpoints[a][i].fromBlock \in 1..block
        /\ \A i, j \in 1..Len(checkpoints[a]) :
             i < j => checkpoints[a][i].fromBlock < checkpoints[a][j].fromBlock

\* The requires of sub96 fire for nobody whose representative has not signed its
\* own votes away to address(0): a representative has the votes that a transfer
\* of a token or a change of delegate by one of those it represents takes away,
\* and lacks no more than it has signed away. A signature that names address(0)
\* may lock in its signatory, and those the signatory represents, but no others.
HoldersCanMove ==
    \A a \in Accounts : GetCurrentVotes(Delegates(a)) + voided[Delegates(a)] >= balances[a]

\* An account that has named no delegate represents itself with at least its
\* own tokens (the auto-delegation delegates() is documented to give).
SelfDelegateHasVotes ==
    \A a \in Accounts : delegateOf[a] = Zero => GetCurrentVotes(a) >= balances[a]

\* The answer of getPriorVotes for a block that has ended never changes again,
\* whatever the accounts do in later blocks.
PriorVotesFinal ==
    [][\A a \in Accounts : \A b \in 0..(block - 1) :
          GetPriorVotes(a, b)' = GetPriorVotes(a, b)]_vars

-----------------------------------------------------------------------------
\* The refinement of the abstract ledger: past blocks are read through
\* getPriorVotes, spent signatures through nonces.
Ledger == INSTANCE VotesLedger WITH
    owner <- owners,
    rep   <- [a \in Accounts |-> Delegates(a)],
    void  <- voided,
    past  <- [b \in 1..(block - 1) |-> [a \in Accounts |-> GetPriorVotes(a, b)]],
    spent <- {s \in {<<m.signatory, m.nonce>> : m \in Signatures} : s[2] < nonces[s[1]]}

\* The checkpoint arrays with their binary search, the nonces and the incremental
\* vote counts implement the ledger of votes.
ImplementsLedger == Ledger!Spec
=============================================================================
