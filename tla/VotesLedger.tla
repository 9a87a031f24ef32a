----------------------------- MODULE VotesLedger -----------------------------
(***************************************************************************)
(* What the vote accounting of the Alps token promises to its readers: one *)
(* vote per token, held by the representative of the token's owner, less   *)
(* the votes an account has signed away to nobody, and a table of those    *)
(* votes at the end of every past block that never changes.                *)
(* ERC721Checkpointable implements this specification with checkpoint      *)
(* arrays and a binary search.                                             *)
(***************************************************************************)
EXTENDS Integers, FiniteSets, Sequences

CONSTANTS Accounts,     \* the addresses that hold tokens and votes
          Zero,         \* address(0): the owner of a token that does not exist
          TokenIds,     \* the token ids
          Signatures    \* the delegations signed off-chain

VARIABLES owner,        \* the owner of each token
          rep,          \* the representative of each account
          void,         \* the votes each account has signed away to nobody
          past,         \* past[b]: the votes of every account at the end of block b
          spent         \* the <<signatory, nonce>> pairs already used

vars == <<owner, rep, void, past, spent>>

\* The votes of a representative: the tokens of those it represents.
Votes(a) == Cardinality({t \in TokenIds : owner[t] # Zero /\ rep[owner[t]] = a}) - void[a]

Init ==
    /\ owner = [t \in TokenIds |-> Zero]
    /\ rep = [a \in Accounts |-> a]
    /\ void = [a \in Accounts |-> 0]
    /\ past = << >>
    /\ spent = {}

\* A token is created, changes hands or is destroyed.
MoveToken ==
    /\ \E t \in TokenIds, a \in Accounts \cup {Zero} : owner' = [owner EXCEPT ![t] = a]
    /\ UNCHANGED <<rep, void, past, spent>>

\* An account chooses its own representative.
Choose ==
    /\ \E a, d \in Accounts : rep' = [rep EXCEPT ![a] = d]
    /\ UNCHANGED <<owner, void, past, spent>>

\* The tokens of an account.
TokensOf(a) == {t \in TokenIds : owner[t] = a}

\* A signed choice takes effect, once. The choice of nobody is the choice of oneself
\* without the votes of the moment.
ChooseBySignature ==
    /\ \E m \in Signatures :
         /\ <<m.signatory, m.nonce>> \notin spent
         /\ spent' = spent \cup {<<m.signatory, m.nonce>>}
         /\ IF m.delegatee # Zero
            THEN rep' = [rep EXCEPT ![m.signatory] = m.delegatee] /\ UNCHANGED void
            ELSE /\ rep' = [rep EXCEPT ![m.signatory] = m.signatory]
                 /\ void' = [void EXCEPT ![m.signatory] = @ + Cardinality(TokensOf(m.signatory))]
    /\ UNCHANGED <<owner, past>>

\* A block ends: the votes of the moment become the votes of that block.
EndBlock ==
    /\ past' = Append(past, [a \in Accounts |-> Votes(a)])
    /\ UNCHANGED <<owner, rep, void, spent>>

Next == MoveToken \/ Choose \/ ChooseBySignature \/ EndBlock

Spec == Init /\ [][Next]_vars
=============================================================================
