CONSTANTS
    a1 = a1
    a2 = a2
    a3 = a3
    Accounts = {a1, a2, a3}
    Zero = Zero
    TokenIds = {t1, t2}
    Signatures <- MCSignatures
    MaxBlock = 4
SYMMETRY TokenSymmetry
CONSTRAINT FewerMoveOn
SPECIFICATION Spec
INVARIANTS
    TypeOK
    BalancesMatchTokens
    VotesMatchTokens
    CheckpointsOrdered
    HoldersCanMove
PROPERTIES
    PriorVotesFinal
    ImplementsLedger
