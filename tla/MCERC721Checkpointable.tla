----------------------- MODULE MCERC721Checkpointable -----------------------
(* Instances of ERC721Checkpointable for TLC. *)
EXTENDS ERC721Checkpointable, TLC

CONSTANTS a1, a2, a3

Signed(s, d, n, e) == [signatory |-> s, delegatee |-> d, nonce |-> n, expiry |-> e]

\* Two uses of nonce 0, of which the one that names address(0) expires first, and a message
\* that follows them.
MCSignatures == {Signed(a1, a2, 0, 2), Signed(a1, Zero, 0, 1), Signed(a1, a2, 1, 2)}

\* Token ids are interchangeable: no definition tells one from another.
TokenSymmetry == Permutations(TokenIds)

\* A bound: all three accounts and both tokens in the first block, one of them left out in
\* the second, and two accounts with one token at a time after it.
FewerMoveOn ==
    LET oneToken == Cardinality({t \in TokenIds : owners[t] # Zero}) <= 1
        two == checkpoints[a3] = <<>> /\ delegateOf[a3] = Zero
    IN (block > 1 => oneToken \/ two) /\ (block > 2 => oneToken /\ two)
=============================================================================
