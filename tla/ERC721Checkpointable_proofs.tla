-------------------- MODULE ERC721Checkpointable_proofs --------------------
(***************************************************************************)
(* Proofs about ERC721Checkpointable: every token counts exactly once for  *)
(* its owner's representative, but for the votes that were signed away to  *)
(* address(0), for any accounts, tokens, signatures and block bound.       *)
(***************************************************************************)
EXTENDS ERC721Checkpointable, FiniteSetTheorems, WellFoundedInduction, TLAPS

-----------------------------------------------------------------------------
(* Induction on the natural numbers, for the loops: about sets, not predicates. *)

\* A set that holds 0 and the successor of each of its numbers holds them all.
LEMMA SetInduction ==
    ASSUME NEW S, 0 \in S, \A n \in Nat : n \in S => n + 1 \in S
    PROVE  Nat \subseteq S
<1> DEFINE R == OpToRel(<, Nat)
           T == Nat \ S
<1>1. IsWellFoundedOn(R, Nat)  BY NatLessThanWellFounded
<1>2. \A x, y \in Nat : x < y => <<x, y>> \in R  BY DEF R, OpToRel
<1> HIDE DEF R
<1>3. CASE T # {}
  <2>1. PICK n \in T : \A m \in T : ~(<<m, n>> \in R)  BY <1>1, <1>3, WFMin
  <2>2. n \in Nat /\ n # 0 /\ n - 1 \in Nat /\ n - 1 \notin S  OBVIOUS
  <2>3. n - 1 < n  BY <2>2
  <2>4. <<n - 1, n>> \in R  BY <1>2, <2>2, <2>3
  <2> QED  BY <2>1, <2>2, <2>4
<1> QED  BY <1>3

\* A set of numbers up to a bound that is not empty has a greatest element.
LEMMA GreatestNatural ==
    ASSUME NEW N \in Nat, NEW T \in SUBSET (0..N), T # {}
    PROVE  \E n \in T : \A m \in T : m <= n
<1> DEFINE Has(U) == \E n \in U : \A m \in U : m <= n
           S == {n \in Nat : \A U \in SUBSET (0..n) : U # {} => Has(U)}
<1>1. 0 \in S
  <2>1. ASSUME NEW U \in SUBSET (0..0), U # {} PROVE Has(U)
    <3>1. \A m \in U : m = 0  OBVIOUS
    <3>2. 0 \in U  BY <2>1, <3>1
    <3> QED  BY <3>1, <3>2
  <2> QED  BY <2>1
<1>2. ASSUME NEW n \in Nat, n \in S, NEW U \in SUBSET (0..n + 1), U # {} PROVE Has(U)
  <2>1. CASE n + 1 \in U  BY <2>1
  <2>2. CASE n + 1 \notin U
    <3>1. U \in SUBSET (0..n)  BY <2>2
    <3> QED  BY <1>2, <3>1
  <2> QED  BY <2>1, <2>2
<1>3. \A n \in Nat : n \in S => n + 1 \in S  BY <1>2
<1> HIDE DEF S
<1>4. N \in S  BY <1>1, <1>3, SetInduction
<1> QED  BY <1>4 DEF S

-----------------------------------------------------------------------------
TokensOf(a) == {t \in TokenIds : owners[t] = a}

\* The inductive invariant: the counts, and what they are counted over.
VotesInv == TypeOK /\ BalancesMatchTokens /\ VotesMatchTokens

-----------------------------------------------------------------------------
\* The value and the type of a freshly written checkpoint array.
LEMMA WriteCheckpointVotes ==
    ASSUME NEW cps \in Seq(Checkpoint), NEW v \in Nat, block \in Nat
    PROVE  /\ WriteCheckpoint(cps, v) \in Seq(Checkpoint)
           /\ VotesOf(WriteCheckpoint(cps, v)) = v
<1>1. CASE cps # << >> /\ cps[Len(cps)].fromBlock = block
  <2>1. Len(cps) \in 1..Len(cps)  BY <1>1
  <2>2. cps[Len(cps)] \in Checkpoint  BY <2>1
  <2> DEFINE new == [cps EXCEPT ![Len(cps)] = [fromBlock |-> block, votes |-> v]]
  <2>3. /\ new \in Seq(Checkpoint)
        /\ Len(new) = Len(cps)
        /\ new # << >>
    BY <1>1, <2>1, <2>2 DEF Checkpoint
  <2>4. new[Len(new)].votes = v  BY <2>1, <2>2, <2>3 DEF Checkpoint
  <2> QED  BY <1>1, <2>3, <2>4 DEF WriteCheckpoint, VotesOf
<1>2. CASE ~(cps # << >> /\ cps[Len(cps)].fromBlock = block)
  <2> DEFINE new == Append(cps, [fromBlock |-> block, votes |-> v])
  <2>1. new \in Seq(Checkpoint) /\ Len(new) = Len(cps) + 1 /\ new # << >>
    BY DEF Checkpoint
  <2>2. new[Len(new)].votes = v  BY <2>1
  <2>3. WriteCheckpoint(cps, v) = new  BY <1>2 DEF WriteCheckpoint
  <2> QED  BY <2>1, <2>2, <2>3 DEF VotesOf
<1> QED  BY <1>1, <1>2

\* The votes of an account are a natural number.
LEMMA VotesType ==
    ASSUME TypeOK, NEW a \in Accounts
    PROVE  GetCurrentVotes(a) \in Nat
<1>1. checkpoints[a] \in Seq(Checkpoint)  BY DEF TypeOK
<1>2. CASE checkpoints[a] = << >>  BY <1>2 DEF GetCurrentVotes, VotesOf
<1>3. CASE checkpoints[a] # << >>
  <2>1. Len(checkpoints[a]) \in 1..Len(checkpoints[a])  BY <1>1, <1>3
  <2>2. checkpoints[a][Len(checkpoints[a])] \in Checkpoint  BY <1>1, <2>1
  <2> QED  BY <1>3, <2>2 DEF GetCurrentVotes, VotesOf, Checkpoint
<1> QED  BY <1>2, <1>3

\* A move of n votes takes n from the source, gives n to the target and leaves
\* every other account alone, whichever of the two is address(0).
LEMMA MoveDelegatesVotes ==
    ASSUME TypeOK, NEW src \in Accounts \cup {Zero}, NEW dst \in Accounts \cup {Zero},
           NEW n \in Nat, MoveDelegates(src, dst, n)
    PROVE  /\ checkpoints' \in [Accounts -> Seq(Checkpoint)]
           /\ \A a \in Accounts :
                GetCurrentVotes(a)' = IF src = dst THEN GetCurrentVotes(a)
                                      ELSE IF a = src THEN GetCurrentVotes(a) - n
                                      ELSE IF a = dst THEN GetCurrentVotes(a) + n
                                      ELSE GetCurrentVotes(a)
<1>1. CASE src = dst \/ n = 0
  <2>1. checkpoints' = checkpoints  BY <1>1 DEF MoveDelegates
  <2>2. \A a \in Accounts : GetCurrentVotes(a)' = GetCurrentVotes(a) /\ GetCurrentVotes(a) \in Nat
    BY <2>1, VotesType DEF GetCurrentVotes
  <2> QED  BY <1>1, <2>1, <2>2 DEF TypeOK
<1>2. CASE ~(src = dst \/ n = 0)
  <2> DEFINE new(a) == IF a = src THEN WriteCheckpoint(checkpoints[a], GetCurrentVotes(a) - n)
                     ELSE IF a = dst THEN WriteCheckpoint(checkpoints[a], GetCurrentVotes(a) + n)
                     ELSE checkpoints[a]
  <2>1. /\ src # Zero => GetCurrentVotes(src) >= n
        /\ checkpoints' = [a \in Accounts |-> new(a)]
    BY <1>2 DEF MoveDelegates
  <2>2. ASSUME NEW a \in Accounts
        PROVE  /\ new(a) \in Seq(Checkpoint)
               /\ VotesOf(new(a)) = IF a = src THEN GetCurrentVotes(a) - n
                                    ELSE IF a = dst THEN GetCurrentVotes(a) + n
                                    ELSE GetCurrentVotes(a)
    <3>1. checkpoints[a] \in Seq(Checkpoint) /\ block \in Nat  BY DEF TypeOK
    <3>2. GetCurrentVotes(a) \in Nat  BY VotesType
    <3>3. a # Zero  BY ZeroAssumption
    <3>4. CASE a = src
      <4>1. GetCurrentVotes(a) - n \in Nat  BY <2>1, <3>2, <3>3, <3>4
      <4> QED  BY <3>1, <3>4, <4>1, WriteCheckpointVotes
    <3>5. CASE a # src /\ a = dst
      <4>1. GetCurrentVotes(a) + n \in Nat  BY <3>2
      <4> QED  BY <3>1, <3>5, <4>1, WriteCheckpointVotes
    <3>6. CASE a # src /\ a # dst  BY <3>1, <3>6 DEF GetCurrentVotes
    <3> QED  BY <3>4, <3>5, <3>6
  <2>3. checkpoints' \in [Accounts -> Seq(Checkpoint)]  BY <2>1, <2>2
  <2>4. \A a \in Accounts : GetCurrentVotes(a)' = VotesOf(new(a))
    BY <2>1 DEF GetCurrentVotes
  <2> QED  BY <1>2, <2>2, <2>3, <2>4
<1> QED  BY <1>1, <1>2

-----------------------------------------------------------------------------
\* Delegates() stays among the addresses, and is never Zero for an account.
LEMMA DelegatesType ==
    ASSUME TypeOK, NEW a \in Accounts
    PROVE  Delegates(a) \in Accounts
BY ZeroAssumption DEF Delegates, TypeOK

\* The sets whose sizes are counted are finite, before and after any step.
LEMMA CountedSetsFinite ==
    ASSUME NEW a
    PROVE  /\ IsFiniteSet(TokensRepresentedBy(a)) /\ IsFiniteSet(TokensRepresentedBy(a)')
           /\ IsFiniteSet(TokensOf(a)) /\ IsFiniteSet(TokensOf(a)')
BY TokenIdsAssumption, FS_Subset DEF TokensRepresentedBy, TokensOf

\* One token changing its representative: what _beforeTokenTransfer moves.
LEMMA MoveOneToken ==
    ASSUME VotesInv, TypeOK', NEW t \in TokenIds, NEW o \in Accounts \cup {Zero},
           o # owners[t],
           owners' = [owners EXCEPT ![t] = o], delegateOf' = delegateOf, voided' = voided,
           MoveDelegates(Delegates(owners[t]), Delegates(o), 1)
    PROVE  VotesMatchTokens'
<1> DEFINE src == Delegates(owners[t])
           dst == Delegates(o)
<1>1. owners[t] \in Accounts \cup {Zero}  BY DEF VotesInv, TypeOK
<1>2. src \in Accounts \cup {Zero} /\ dst \in Accounts \cup {Zero}
  BY <1>1, DelegatesType DEF VotesInv, Delegates
<1>3. \A a \in Accounts : GetCurrentVotes(a)' = IF src = dst THEN GetCurrentVotes(a)
                                               ELSE IF a = src THEN GetCurrentVotes(a) - 1
                                               ELSE IF a = dst THEN GetCurrentVotes(a) + 1
                                               ELSE GetCurrentVotes(a)
  <2>1. TypeOK /\ MoveDelegates(src, dst, 1) /\ 1 \in Nat  BY DEF VotesInv
  <2> HIDE DEF src, dst
  <2> QED  BY <1>2, <2>1, MoveDelegatesVotes
<1>4. SUFFICES ASSUME NEW a \in Accounts
               PROVE  GetCurrentVotes(a)' + voided[a] = Cardinality(TokensRepresentedBy(a)')
  BY DEF VotesMatchTokens
<1> DEFINE R == TokensRepresentedBy(a)
<1>5. IsFiniteSet(R) /\ GetCurrentVotes(a) + voided[a] = Cardinality(R)
  BY CountedSetsFinite DEF VotesInv, VotesMatchTokens
<1>6. t \in R <=> a = src
  BY <1>1, ZeroAssumption DEF TokensRepresentedBy, Delegates
<1>7. TokensRepresentedBy(a)' = IF a = dst THEN R \cup {t} ELSE R \ {t}
  <2>1. \A x : Delegates(x)' = Delegates(x)  BY DEF Delegates
  <2>2. a = dst => o # Zero  BY ZeroAssumption DEF Delegates
  <2>3. \A s \in TokenIds : owners'[s] = IF s = t THEN o ELSE owners[s]
    BY DEF VotesInv, TypeOK
  <2>4. o = Zero => dst = Zero  BY DEF Delegates
  <2>5. TokensRepresentedBy(a)' = {s \in TokenIds : owners'[s] # Zero /\ Delegates(owners'[s]) = a}
    BY <2>1 DEF TokensRepresentedBy
  <2>6. ASSUME NEW s \in TokenIds
        PROVE  s \in TokensRepresentedBy(a)' <=> s \in IF a = dst THEN R \cup {t} ELSE R \ {t}
    <3>1. CASE s = t  BY <2>2, <2>3, <2>5, <3>1
    <3>2. CASE s # t
      <4>1. s \in TokensRepresentedBy(a)' <=> owners[s] # Zero /\ Delegates(owners[s]) = a
        BY <2>3, <2>5, <3>2
      <4> QED  BY <3>2, <4>1 DEF TokensRepresentedBy
    <3> QED  BY <3>1, <3>2
  <2> QED  BY <2>5, <2>6 DEF TokensRepresentedBy
<1>8. /\ Cardinality(R \cup {t}) = IF t \in R THEN Cardinality(R) ELSE Cardinality(R) + 1
      /\ Cardinality(R \ {t}) = IF t \in R THEN Cardinality(R) - 1 ELSE Cardinality(R)
  BY <1>5, FS_AddElement, FS_RemoveElement
<1>9. GetCurrentVotes(a) \in Nat /\ voided[a] \in Nat  BY VotesType DEF VotesInv, TypeOK
<1> HIDE DEF R, src, dst
<1> QED  BY <1>3, <1>5, <1>6, <1>7, <1>8, <1>9

\* A change of delegate: the whole balance follows the delegator. To address(0) it is lost,
\* and the delegator represents itself.
LEMMA MoveBalance ==
    ASSUME VotesInv, NEW s \in Accounts, NEW d \in Accounts \cup {Zero},
           owners' = owners, DelegateTo(s, d),
           voided' = IF d = Zero THEN [voided EXCEPT ![s] = @ + balances[s]] ELSE voided
    PROVE  VotesMatchTokens'
<1> DEFINE src == Delegates(s)
           O == TokensOf(s)
<1>1. /\ TypeOK
      /\ src \in Accounts
      /\ balances[s] \in Nat /\ balances[s] = Cardinality(O)
      /\ delegateOf' = [delegateOf EXCEPT ![s] = d]
      /\ MoveDelegates(src, d, balances[s])
  BY DelegatesType DEF VotesInv, TypeOK, BalancesMatchTokens, TokensOf, DelegateTo
<1>2. \A a \in Accounts : GetCurrentVotes(a)' = IF src = d THEN GetCurrentVotes(a)
                                               ELSE IF a = src THEN GetCurrentVotes(a) - balances[s]
                                               ELSE IF a = d THEN GetCurrentVotes(a) + balances[s]
                                               ELSE GetCurrentVotes(a)
  <2> HIDE DEF src
  <2> QED  BY <1>1, MoveDelegatesVotes
<1>3. SUFFICES ASSUME NEW a \in Accounts
               PROVE  GetCurrentVotes(a)' + voided'[a] = Cardinality(TokensRepresentedBy(a)')
  BY DEF VotesMatchTokens
<1> DEFINE R == TokensRepresentedBy(a)
           e == IF d = Zero THEN s ELSE d
           lost == IF d = Zero /\ a = s THEN balances[s] ELSE 0
<1>4. IsFiniteSet(R) /\ IsFiniteSet(O) /\ GetCurrentVotes(a) + voided[a] = Cardinality(R)
  BY CountedSetsFinite DEF VotesInv, VotesMatchTokens
<1>5. /\ Cardinality(R) \in Nat /\ Cardinality(O) \in Nat
      /\ GetCurrentVotes(a) \in Nat /\ voided[a] \in Nat
      /\ voided'[a] = voided[a] + lost
  <2>1. Cardinality(R) \in Nat /\ Cardinality(O) \in Nat  BY <1>4, FS_CardinalityType
  <2>2. GetCurrentVotes(a) \in Nat  BY <1>1, VotesType
  <2>3. voided \in [Accounts -> Nat]  BY <1>1 DEF TypeOK
  <2>4. voided[a] \in Nat  BY <2>3
  <2>5. voided'[a] = voided[a] + lost  BY <1>1, <2>3, <2>4
  <2> QED  BY <2>1, <2>2, <2>4, <2>5
<1>6. /\ a = src => O \subseteq R
      /\ a # src => O \cap R = {}
  BY ZeroAssumption DEF TokensOf, TokensRepresentedBy
<1>7. TokensRepresentedBy(a)' = IF a = e THEN R \cup O ELSE R \ O
  <2>1. \A x \in Accounts : Delegates(x)' = IF x = s THEN e ELSE Delegates(x)
    BY <1>1, ZeroAssumption DEF Delegates, TypeOK
  <2>2. \A t \in TokenIds : owners[t] # Zero => owners[t] \in Accounts
    BY <1>1 DEF TypeOK
  <2>3. TokensRepresentedBy(a)' = {t \in TokenIds : owners[t] # Zero /\ Delegates(owners[t])' = a}
    BY DEF TokensRepresentedBy, Delegates
  <2>4. ASSUME NEW t \in TokenIds
        PROVE  t \in TokensRepresentedBy(a)' <=> t \in IF a = e THEN R \cup O ELSE R \ O
    <3>1. CASE owners[t] = s
      <4>1. Delegates(owners[t])' = e /\ owners[t] # Zero /\ t \in O
        BY <2>1, <3>1, ZeroAssumption DEF TokensOf
      <4> QED  BY <2>3, <4>1
    <3>2. CASE owners[t] # s
      <4>1. t \notin O  BY <3>2 DEF TokensOf
      <4>2. t \in TokensRepresentedBy(a)' <=> t \in R
        BY <2>1, <2>2, <2>3, <3>2 DEF TokensRepresentedBy
      <4> QED  BY <4>1, <4>2
    <3> QED  BY <3>1, <3>2
  <2> QED  BY <2>3, <2>4 DEF TokensRepresentedBy, TokensOf
<1>8. /\ Cardinality(R \cup O) = IF a = src THEN Cardinality(R) ELSE Cardinality(R) + Cardinality(O)
      /\ Cardinality(R \ O) = IF a = src THEN Cardinality(R) - Cardinality(O) ELSE Cardinality(R)
  <2>1. /\ Cardinality(R \cup O) = Cardinality(R) + Cardinality(O) - Cardinality(R \cap O)
        /\ Cardinality(R \ O) = Cardinality(R) - Cardinality(R \cap O)
    BY <1>4, FS_Union, FS_Difference
  <2>2. CASE a = src
    <3>1. R \cap O = O  BY <1>6, <2>2
    <3> QED  BY <1>5, <2>1, <2>2, <3>1
  <2>3. CASE a # src
    <3>1. R \cap O = {}  BY <1>6, <2>3
    <3>2. Cardinality(R \cap O) = 0  BY <3>1, FS_EmptySet
    <3> QED  BY <1>5, <2>1, <2>3, <3>2
  <2> QED  BY <2>2, <2>3
<1>9. s # Zero /\ a # Zero /\ src # Zero  BY <1>1, ZeroAssumption
<1> HIDE DEF R, O, src
<1>10. CASE d = Zero
  BY <1>1, <1>2, <1>4, <1>5, <1>7, <1>8, <1>9, <1>10
<1>11. CASE d # Zero
  BY <1>1, <1>2, <1>4, <1>5, <1>7, <1>8, <1>9, <1>11
<1> QED  BY <1>10, <1>11

\* A token changing its owner keeps the balances the sizes of what is owned.
LEMMA BalancesFollow ==
    ASSUME TypeOK, BalancesMatchTokens, NEW t \in TokenIds, NEW o \in Accounts \cup {Zero},
           owners' = [owners EXCEPT ![t] = o],
           \A a \in Accounts :
              balances'[a] = IF owners[t] = o THEN balances[a]
                             ELSE IF a = owners[t] THEN balances[a] - 1
                             ELSE IF a = o THEN balances[a] + 1
                             ELSE balances[a]
    PROVE  BalancesMatchTokens'
<1>1. SUFFICES ASSUME NEW a \in Accounts
               PROVE  balances'[a] = Cardinality(TokensOf(a)')
  BY DEF BalancesMatchTokens, TokensOf
<1>2. IsFiniteSet(TokensOf(a)) /\ balances[a] = Cardinality(TokensOf(a))
  BY CountedSetsFinite DEF BalancesMatchTokens, TokensOf
<1>3. TokensOf(a)' = IF a = o THEN TokensOf(a) \cup {t} ELSE TokensOf(a) \ {t}
  BY DEF TokensOf, TypeOK
<1>4. t \in TokensOf(a) <=> a = owners[t]  BY DEF TokensOf
<1>5. /\ Cardinality(TokensOf(a) \cup {t}) =
           IF t \in TokensOf(a) THEN Cardinality(TokensOf(a)) ELSE Cardinality(TokensOf(a)) + 1
      /\ Cardinality(TokensOf(a) \ {t}) =
           IF t \in TokensOf(a) THEN Cardinality(TokensOf(a)) - 1 ELSE Cardinality(TokensOf(a))
  BY <1>2, FS_AddElement, FS_RemoveElement
<1> QED  BY <1>2, <1>3, <1>4, <1>5

\* An owner has at least the token it gives away.
LEMMA OwnerHasBalance ==
    ASSUME TypeOK, BalancesMatchTokens, NEW t \in TokenIds, owners[t] \in Accounts
    PROVE  balances[owners[t]] >= 1
<1> DEFINE a == owners[t]
<1>1. IsFiniteSet(TokensOf(a)) /\ balances[a] = Cardinality(TokensOf(a)) /\ balances[a] \in Nat
  BY CountedSetsFinite DEF BalancesMatchTokens, TokensOf, TypeOK
<1>2. TokensOf(a) # {}  BY DEF TokensOf
<1> QED  BY <1>1, <1>2, FS_EmptySet

-----------------------------------------------------------------------------
LEMMA InitVotesInv == Init => VotesInv /\ CheckpointsOrdered
<1> SUFFICES ASSUME Init PROVE VotesInv /\ CheckpointsOrdered
  OBVIOUS
<1>1. TypeOK  BY MaxBlockAssumption DEF Init, TypeOK
<1>2. \A a \in Accounts : /\ {t \in TokenIds : owners[t] = a} = {}
                          /\ TokensRepresentedBy(a) = {}
  BY ZeroAssumption DEF Init, TokensRepresentedBy
<1>3. BalancesMatchTokens  BY <1>2, FS_EmptySet DEF Init, BalancesMatchTokens
<1>4. VotesMatchTokens
  <2>1. \A a \in Accounts : GetCurrentVotes(a) = 0 /\ voided[a] = 0
    BY DEF Init, GetCurrentVotes, VotesOf
  <2>2. \A a \in Accounts : Cardinality(TokensRepresentedBy(a)) = 0  BY <1>2, FS_EmptySet
  <2> QED  BY <2>1, <2>2 DEF VotesMatchTokens
<1>5. CheckpointsOrdered  BY DEF Init, CheckpointsOrdered
<1> QED  BY <1>1, <1>3, <1>4, <1>5 DEF VotesInv

\* The types and the balances do not depend on the votes: a burn or a transfer
\* takes a token its owner has, and a move takes no vote that is not there.
LEMMA MintTyped ==
    ASSUME TypeOK, BalancesMatchTokens, NEW to \in Accounts, NEW t \in TokenIds, Mint(to, t)
    PROVE  TypeOK' /\ BalancesMatchTokens'
<1>1. /\ owners[t] = Zero /\ owners' = [owners EXCEPT ![t] = to]
      /\ balances' = [balances EXCEPT ![to] = @ + 1]
      /\ delegateOf' = delegateOf /\ nonces' = nonces /\ block' = block /\ voided' = voided
      /\ MoveDelegates(Zero, Delegates(to), 1)
  BY DEF Mint
<1>2. checkpoints' \in [Accounts -> Seq(Checkpoint)]
  <2>1. Zero \in Accounts \cup {Zero} /\ Delegates(to) \in Accounts \cup {Zero} /\ 1 \in Nat
    BY DelegatesType
  <2> QED  BY <1>1, <2>1, MoveDelegatesVotes
<1>3. TypeOK'
  <2>1. balances[to] + 1 \in Nat  BY DEF TypeOK
  <2>2. balances' \in [Accounts -> Nat]  BY <1>1, <2>1 DEF TypeOK
  <2> QED  BY <1>1, <1>2, <2>2 DEF TypeOK
<1>4. \A a \in Accounts : balances'[a] = IF owners[t] = to THEN balances[a]
                                        ELSE IF a = owners[t] THEN balances[a] - 1
                                        ELSE IF a = to THEN balances[a] + 1
                                        ELSE balances[a]
  BY <1>1, ZeroAssumption DEF TypeOK
<1>5. to \in Accounts \cup {Zero}  OBVIOUS
<1>6. BalancesMatchTokens'  BY <1>1, <1>4, <1>5, BalancesFollow
<1> QED  BY <1>3, <1>6

LEMMA BurnTyped ==
    ASSUME TypeOK, BalancesMatchTokens, NEW t \in TokenIds, Burn(t)
    PROVE  TypeOK' /\ BalancesMatchTokens'
<1>1. /\ owners[t] \in Accounts /\ owners' = [owners EXCEPT ![t] = Zero]
      /\ balances' = [balances EXCEPT ![owners[t]] = @ - 1]
      /\ delegateOf' = delegateOf /\ nonces' = nonces /\ block' = block /\ voided' = voided
      /\ MoveDelegates(Delegates(owners[t]), Zero, 1)
  BY DEF TypeOK, Burn
<1>2. checkpoints' \in [Accounts -> Seq(Checkpoint)]
  <2>1. Delegates(owners[t]) \in Accounts \cup {Zero} /\ Zero \in Accounts \cup {Zero} /\ 1 \in Nat
    BY <1>1, DelegatesType
  <2> QED  BY <1>1, <2>1, MoveDelegatesVotes
<1>3. balances' \in [Accounts -> Nat]
  <2>1. balances[owners[t]] >= 1  BY <1>1, OwnerHasBalance
  <2>2. balances[owners[t]] \in Nat  BY <1>1 DEF TypeOK
  <2>3. balances[owners[t]] - 1 \in Nat  BY <2>1, <2>2
  <2> QED  BY <1>1, <2>3 DEF TypeOK
<1>4. TypeOK'  BY <1>1, <1>2, <1>3 DEF TypeOK
<1>5. \A a \in Accounts : balances'[a] = IF owners[t] = Zero THEN balances[a]
                                        ELSE IF a = owners[t] THEN balances[a] - 1
                                        ELSE IF a = Zero THEN balances[a] + 1
                                        ELSE balances[a]
  BY <1>1, ZeroAssumption DEF TypeOK
<1>6. Zero \in Accounts \cup {Zero}  OBVIOUS
<1>7. BalancesMatchTokens'  BY <1>1, <1>5, <1>6, BalancesFollow
<1> QED  BY <1>4, <1>7

LEMMA TransferTyped ==
    ASSUME TypeOK, BalancesMatchTokens, NEW from \in Accounts, NEW to \in Accounts,
           NEW t \in TokenIds, Transfer(from, to, t)
    PROVE  TypeOK' /\ BalancesMatchTokens'
<1>1. /\ owners[t] = from /\ owners' = [owners EXCEPT ![t] = to]
      /\ balances' = [[balances EXCEPT ![from] = @ - 1] EXCEPT ![to] = @ + 1]
      /\ delegateOf' = delegateOf /\ nonces' = nonces /\ block' = block /\ voided' = voided
      /\ MoveDelegates(Delegates(from), Delegates(to), 1)
  BY DEF Transfer
<1>2. checkpoints' \in [Accounts -> Seq(Checkpoint)]
  <2>1. Delegates(from) \in Accounts \cup {Zero} /\ Delegates(to) \in Accounts \cup {Zero} /\ 1 \in Nat
    BY DelegatesType
  <2> QED  BY <1>1, <2>1, MoveDelegatesVotes
<1>3. balances[from] >= 1  BY <1>1, OwnerHasBalance
<1>4. \A a \in Accounts : balances'[a] = IF owners[t] = to THEN balances[a]
                                        ELSE IF a = owners[t] THEN balances[a] - 1
                                        ELSE IF a = to THEN balances[a] + 1
                                        ELSE balances[a]
  BY <1>1 DEF TypeOK
<1>5. balances' \in [Accounts -> Nat]
  <2>1. balances \in [Accounts -> Nat] /\ balances[from] - 1 \in Nat
    BY <1>1, <1>3 DEF TypeOK
  <2> DEFINE left == [balances EXCEPT ![from] = @ - 1]
  <2>2. left \in [Accounts -> Nat]  BY <2>1
  <2>3. balances' = [left EXCEPT ![to] = @ + 1]  BY <1>1
  <2> HIDE DEF left
  <2>4. left[to] + 1 \in Nat  BY <2>2
  <2> QED  BY <2>2, <2>3, <2>4
<1>6. TypeOK'  BY <1>1, <1>2, <1>5 DEF TypeOK
<1>7. to \in Accounts \cup {Zero}  OBVIOUS
<1>8. BalancesMatchTokens'  BY <1>1, <1>4, <1>7, BalancesFollow
<1> QED  BY <1>6, <1>8

\* A delegation, to address(0) too, changes no balance.
LEMMA DelegateTyped ==
    ASSUME TypeOK, BalancesMatchTokens, NEW s \in Accounts, NEW d \in Accounts \cup {Zero},
           DelegateTo(s, d), UNCHANGED <<owners, balances, block>>,
           nonces' \in [Accounts -> Nat], voided' \in [Accounts -> Nat]
    PROVE  TypeOK' /\ BalancesMatchTokens'
<1>1. /\ Delegates(s) \in Accounts \cup {Zero} /\ balances[s] \in Nat
      /\ MoveDelegates(Delegates(s), d, balances[s])
  BY DelegatesType DEF TypeOK, DelegateTo
<1>2. checkpoints' \in [Accounts -> Seq(Checkpoint)]  BY <1>1, MoveDelegatesVotes
<1>3. TypeOK'  BY <1>1, <1>2 DEF TypeOK, DelegateTo
<1>4. BalancesMatchTokens'  BY DEF BalancesMatchTokens
<1> QED  BY <1>3, <1>4

LEMMA NextTyped ==
    ASSUME TypeOK, BalancesMatchTokens, [Next]_vars
    PROVE  TypeOK' /\ BalancesMatchTokens'
<1>1. ASSUME NEW to \in Accounts, NEW t \in TokenIds, Mint(to, t)
      PROVE  TypeOK' /\ BalancesMatchTokens'
  BY <1>1, MintTyped
<1>2. ASSUME NEW t \in TokenIds, Burn(t)
      PROVE  TypeOK' /\ BalancesMatchTokens'
  BY <1>2, BurnTyped
<1>3. ASSUME NEW from \in Accounts, NEW to \in Accounts, NEW t \in TokenIds, Transfer(from, to, t)
      PROVE  TypeOK' /\ BalancesMatchTokens'
  BY <1>3, TransferTyped
<1>4. ASSUME NEW s \in Accounts, NEW d \in Accounts \cup {Zero}, Delegate(s, d)
      PROVE  TypeOK' /\ BalancesMatchTokens'
  <2> DEFINE to == IF d = Zero THEN s ELSE d
  <2>1. /\ to \in Accounts \cup {Zero} /\ nonces' \in [Accounts -> Nat]
        /\ voided' \in [Accounts -> Nat]
    BY <1>4 DEF TypeOK, Delegate
  <2>2. DelegateTo(s, to) /\ UNCHANGED <<owners, balances, block>>  BY <1>4 DEF Delegate
  <2> HIDE DEF to
  <2> QED  BY <2>1, <2>2, DelegateTyped
<1>5. ASSUME NEW m \in Signatures, DelegateBySig(m)
      PROVE  TypeOK' /\ BalancesMatchTokens'
  <2>1. m.signatory \in Accounts /\ m.delegatee \in Accounts \cup {Zero}
    BY SignaturesAssumption
  <2>2. nonces' \in [Accounts -> Nat]  BY <1>5, <2>1 DEF TypeOK, DelegateBySig
  <2>3. DelegateTo(m.signatory, m.delegatee) /\ UNCHANGED <<owners, balances, block>>
    BY <1>5 DEF DelegateBySig
  <2>4. voided' \in [Accounts -> Nat]
    <3>1. voided[m.signatory] + balances[m.signatory] \in Nat  BY <2>1 DEF TypeOK
    <3> QED  BY <1>5, <2>1, <3>1 DEF TypeOK, DelegateBySig
  <2> QED  BY <2>1, <2>2, <2>3, <2>4, DelegateTyped
<1>6. CASE NextBlock
  BY <1>6, MaxBlockAssumption DEF TypeOK, NextBlock, BalancesMatchTokens
<1>7. CASE UNCHANGED vars
  BY <1>7 DEF TypeOK, vars, BalancesMatchTokens
<1> QED  BY <1>1, <1>2, <1>3, <1>4, <1>5, <1>6, <1>7 DEF Next

\* The votes follow each kind of step.
LEMMA NextVotesInv ==
    ASSUME VotesInv, [Next]_vars
    PROVE  VotesInv'
<1>1. TypeOK /\ BalancesMatchTokens /\ TypeOK' /\ BalancesMatchTokens'
  BY NextTyped DEF VotesInv
<1>2. ASSUME NEW to \in Accounts, NEW t \in TokenIds, Mint(to, t)
      PROVE  VotesMatchTokens'
  <2>1. /\ owners[t] = Zero /\ owners' = [owners EXCEPT ![t] = to] /\ delegateOf' = delegateOf
        /\ voided' = voided /\ MoveDelegates(Delegates(owners[t]), Delegates(to), 1)
    BY <1>2 DEF Mint, Delegates
  <2>2. to # owners[t] /\ to \in Accounts \cup {Zero}  BY <2>1, ZeroAssumption
  <2> QED  BY <1>1, <2>1, <2>2, MoveOneToken
<1>3. ASSUME NEW t \in TokenIds, Burn(t)
      PROVE  VotesMatchTokens'
  <2>1. /\ owners[t] # Zero /\ owners' = [owners EXCEPT ![t] = Zero] /\ delegateOf' = delegateOf
        /\ voided' = voided /\ MoveDelegates(Delegates(owners[t]), Delegates(Zero), 1)
    BY <1>3 DEF Burn, Delegates
  <2>2. Zero \in Accounts \cup {Zero}  OBVIOUS
  <2> QED  BY <1>1, <2>1, <2>2, MoveOneToken
<1>4. ASSUME NEW from \in Accounts, NEW to \in Accounts, NEW t \in TokenIds, Transfer(from, to, t)
      PROVE  VotesMatchTokens'
  <2>1. /\ owners[t] = from /\ owners' = [owners EXCEPT ![t] = to] /\ delegateOf' = delegateOf
        /\ voided' = voided /\ MoveDelegates(Delegates(owners[t]), Delegates(to), 1)
    BY <1>4 DEF Transfer
  <2>2. CASE to = from
    <3>1. owners' = owners /\ checkpoints' = checkpoints
      BY <1>1, <2>1, <2>2 DEF TypeOK, MoveDelegates
    <3> QED  BY <2>1, <3>1 DEF VotesInv, VotesMatchTokens, GetCurrentVotes,
                               TokensRepresentedBy, Delegates
  <2>3. CASE to # from
    <3>1. to \in Accounts \cup {Zero}  OBVIOUS
    <3> QED  BY <1>1, <2>1, <2>3, <3>1, MoveOneToken
  <2> QED  BY <2>2, <2>3
<1>5. ASSUME NEW s \in Accounts, NEW d \in Accounts \cup {Zero}, Delegate(s, d)
      PROVE  VotesMatchTokens'
  <2> DEFINE to == IF d = Zero THEN s ELSE d
  <2>1. to \in Accounts \cup {Zero} /\ to # Zero  BY ZeroAssumption
  <2>2. DelegateTo(s, to) /\ owners' = owners /\ voided' = voided  BY <1>5 DEF Delegate
  <2> HIDE DEF to
  <2> QED  BY <2>1, <2>2, MoveBalance
<1>6. ASSUME NEW m \in Signatures, DelegateBySig(m)
      PROVE  VotesMatchTokens'
  <2>1. m.signatory \in Accounts /\ m.delegatee \in Accounts \cup {Zero}
    BY SignaturesAssumption
  <2>2. /\ DelegateTo(m.signatory, m.delegatee) /\ owners' = owners
        /\ voided' = IF m.delegatee = Zero
                     THEN [voided EXCEPT ![m.signatory] = @ + balances[m.signatory]] ELSE voided
    BY <1>6 DEF DelegateBySig
  <2> QED  BY <2>1, <2>2, MoveBalance
<1>7. NextBlock => VotesMatchTokens'
  BY DEF VotesInv, NextBlock, VotesMatchTokens, GetCurrentVotes, TokensRepresentedBy,
              Delegates
<1>8. UNCHANGED vars => VotesMatchTokens'
  BY DEF VotesInv, vars, VotesMatchTokens, GetCurrentVotes, TokensRepresentedBy, Delegates
<1>9. VotesMatchTokens'
  BY <1>2, <1>3, <1>4, <1>5, <1>6, <1>7, <1>8 DEF Next
<1> QED  BY <1>1, <1>9 DEF VotesInv

\* The types hold and every balance is the number of tokens owned, whatever is
\* delegated to whom.
THEOREM BalancesConserved == Spec => [](TypeOK /\ BalancesMatchTokens)
<1>1. Init => TypeOK /\ BalancesMatchTokens  BY InitVotesInv DEF VotesInv
<1>2. TypeOK /\ BalancesMatchTokens /\ [Next]_vars => (TypeOK /\ BalancesMatchTokens)'
  BY NextTyped
<1> QED  BY <1>1, <1>2, PTL DEF Spec

\* The types hold, every balance is the number of tokens owned, and every
\* token is one vote of its owner's representative: _moveDelegates never loses
\* or invents a vote, but for those that signatures gave to address(0).
THEOREM VotesConserved == Spec => [](TypeOK /\ BalancesMatchTokens /\ VotesMatchTokens)
<1>1. Init => VotesInv  BY InitVotesInv
<1>2. VotesInv /\ [Next]_vars => VotesInv'  BY NextVotesInv
<1>3. VotesInv => TypeOK /\ BalancesMatchTokens /\ VotesMatchTokens  BY DEF VotesInv
<1> QED  BY <1>1, <1>2, <1>3, PTL DEF Spec

\* Whatever is signed: the representative of an account has the votes that the
\* account's transfers, burns and delegations take away, less at most those that it
\* has itself signed away to address(0), so that the subtraction in _moveDelegates
\* reverts for nobody else's.
THEOREM HoldersLockedBySignatureOnly == Spec => []HoldersCanMove
<1>1. VotesInv => HoldersCanMove
  <2> SUFFICES ASSUME VotesInv, NEW a \in Accounts
               PROVE  GetCurrentVotes(Delegates(a)) + voided[Delegates(a)] >= balances[a]
    BY DEF HoldersCanMove
  <2> DEFINE d == Delegates(a)
  <2>1. d \in Accounts  BY DelegatesType DEF VotesInv
  <2>2. GetCurrentVotes(d) + voided[d] = Cardinality(TokensRepresentedBy(d))
    <3> HIDE DEF d
    <3> QED  BY <2>1 DEF VotesInv, VotesMatchTokens
  <2>3. balances[a] = Cardinality(TokensOf(a))
    BY DEF VotesInv, BalancesMatchTokens, TokensOf
  <2>4. TokensOf(a) \subseteq TokensRepresentedBy(d)
    BY ZeroAssumption DEF TokensOf, TokensRepresentedBy
  <2>5. IsFiniteSet(TokensRepresentedBy(d))  BY CountedSetsFinite
  <2>6. /\ Cardinality(TokensOf(a)) <= Cardinality(TokensRepresentedBy(d))
        /\ IsFiniteSet(TokensOf(a))
    BY <2>4, <2>5, FS_Subset
  <2>7. Cardinality(TokensOf(a)) \in Nat /\ Cardinality(TokensRepresentedBy(d)) \in Nat
    BY <2>5, <2>6, FS_CardinalityType
  <2> QED  BY <2>2, <2>3, <2>6, <2>7
<1>2. VotesInv <=> TypeOK /\ BalancesMatchTokens /\ VotesMatchTokens  BY DEF VotesInv
<1> QED  BY <1>1, <1>2, VotesConserved, PTL

-----------------------------------------------------------------------------
\* The order of one array of checkpoints as of block b.
OrderedUpTo(cps, b) ==
    /\ \A i \in 1..Len(cps) : cps[i].fromBlock \in 1..b
    /\ \A i, j \in 1..Len(cps) : i < j => cps[i].fromBlock < cps[j].fromBlock

\* A write keeps one array in order: it replaces the last checkpoint of the
\* same block or comes after every earlier one.
LEMMA WriteCheckpointOrdered ==
    ASSUME NEW cps \in Seq(Checkpoint), NEW v \in Nat, block \in Nat \ {0},
           OrderedUpTo(cps, block)
    PROVE  OrderedUpTo(WriteCheckpoint(cps, v), block)
<1> DEFINE cp == [fromBlock |-> block, votes |-> v]
<1>1. cp \in Checkpoint /\ cp.fromBlock = block  BY DEF Checkpoint
<1>2. \A i \in 1..Len(cps) : cps[i] \in Checkpoint  OBVIOUS
<1> HIDE DEF cp
<1>3. CASE cps # << >> /\ cps[Len(cps)].fromBlock = block
  <2> DEFINE new == [cps EXCEPT ![Len(cps)] = cp]
  <2>1. WriteCheckpoint(cps, v) = new  BY <1>3 DEF WriteCheckpoint, cp
  <2>2. Len(new) = Len(cps)  OBVIOUS
  <2>3. \A i \in 1..Len(cps) : new[i].fromBlock = cps[i].fromBlock
    BY <1>1, <1>3
  <2> HIDE DEF new
  <2> QED  BY <2>1, <2>2, <2>3 DEF OrderedUpTo
<1>4. CASE ~(cps # << >> /\ cps[Len(cps)].fromBlock = block)
  <2> DEFINE new == Append(cps, cp)
  <2>1. WriteCheckpoint(cps, v) = new  BY <1>4 DEF WriteCheckpoint, cp
  <2>2. /\ Len(new) = Len(cps) + 1
        /\ \A i \in 1..Len(cps) : new[i] = cps[i]
        /\ new[Len(cps) + 1] = cp
        /\ Len(cps) \in Nat
    OBVIOUS
  <2> HIDE DEF new
  <2>3. ASSUME NEW i \in 1..Len(cps)
        PROVE  cps[i].fromBlock \in Nat /\ cps[i].fromBlock < block
    <3>1. Len(cps) \in 1..Len(cps) /\ cps # << >>  OBVIOUS
    <3>2. cps[Len(cps)].fromBlock # block  BY <1>4, <3>1
    <3>3. cps[Len(cps)].fromBlock \in 1..block /\ cps[i].fromBlock \in 1..block
      BY <3>1 DEF OrderedUpTo
    <3>4. i = Len(cps) \/ cps[i].fromBlock < cps[Len(cps)].fromBlock
      BY <3>1 DEF OrderedUpTo
    <3> QED  BY <3>2, <3>3, <3>4
  <2>4. ASSUME NEW i \in 1..Len(new)
        PROVE  new[i].fromBlock \in 1..block
    <3>1. CASE i \in 1..Len(cps)  BY <2>2, <3>1 DEF OrderedUpTo
    <3>2. CASE i = Len(cps) + 1  BY <1>1, <2>2, <3>2
    <3> QED  BY <2>2, <3>1, <3>2
  <2>5. ASSUME NEW i \in 1..Len(new), NEW j \in 1..Len(new), i < j
        PROVE  new[i].fromBlock < new[j].fromBlock
    <3>1. i \in 1..Len(cps)  BY <2>2, <2>5
    <3>2. CASE j \in 1..Len(cps)  BY <2>2, <2>5, <3>1, <3>2 DEF OrderedUpTo
    <3>3. CASE j = Len(cps) + 1  BY <1>1, <2>2, <2>3, <3>1, <3>3
    <3> QED  BY <2>2, <3>2, <3>3
  <2> QED  BY <2>1, <2>4, <2>5 DEF OrderedUpTo
<1> QED  BY <1>3, <1>4

\* A move of votes keeps every array in order.
LEMMA MoveDelegatesOrdered ==
    ASSUME TypeOK, CheckpointsOrdered, NEW src \in Accounts \cup {Zero},
           NEW dst \in Accounts \cup {Zero}, NEW n \in Nat,
           MoveDelegates(src, dst, n), block' = block
    PROVE  CheckpointsOrdered'
<1>1. CASE checkpoints' = checkpoints  BY <1>1 DEF CheckpointsOrdered
<1>2. CASE checkpoints' # checkpoints
  <2>1. /\ src # Zero => GetCurrentVotes(src) >= n
        /\ checkpoints' = [a \in Accounts |->
             IF a = src THEN WriteCheckpoint(checkpoints[a], GetCurrentVotes(a) - n)
             ELSE IF a = dst THEN WriteCheckpoint(checkpoints[a], GetCurrentVotes(a) + n)
             ELSE checkpoints[a]]
    BY <1>2 DEF MoveDelegates
  <2>2. SUFFICES ASSUME NEW a \in Accounts
                 PROVE  OrderedUpTo(checkpoints'[a], block)
    BY DEF CheckpointsOrdered, OrderedUpTo
  <2>3. /\ checkpoints[a] \in Seq(Checkpoint)
        /\ block \in Nat \ {0}
        /\ OrderedUpTo(checkpoints[a], block)
        /\ GetCurrentVotes(a) \in Nat
    BY VotesType DEF TypeOK, CheckpointsOrdered, OrderedUpTo
  <2>4. CASE a = src
    <3>1. GetCurrentVotes(a) - n \in Nat  BY <2>1, <2>3, <2>4, ZeroAssumption
    <3>2. checkpoints'[a] = WriteCheckpoint(checkpoints[a], GetCurrentVotes(a) - n)
      BY <2>1, <2>4
    <3> QED  BY <2>3, <3>1, <3>2, WriteCheckpointOrdered
  <2>5. CASE a # src /\ a = dst
    <3>1. GetCurrentVotes(a) + n \in Nat  BY <2>3
    <3>2. checkpoints'[a] = WriteCheckpoint(checkpoints[a], GetCurrentVotes(a) + n)
      BY <2>1, <2>5
    <3> QED  BY <2>3, <3>1, <3>2, WriteCheckpointOrdered
  <2>6. CASE a # src /\ a # dst
    <3>1. checkpoints'[a] = checkpoints[a]  BY <2>1, <2>6
    <3> QED  BY <2>3, <3>1
  <2> QED  BY <2>4, <2>5, <2>6
<1> QED  BY <1>1, <1>2

\* The inductive invariant of the checkpoint arrays.
HistoryInv == TypeOK /\ BalancesMatchTokens /\ CheckpointsOrdered

LEMMA NextHistoryInv ==
    ASSUME HistoryInv, [Next]_vars
    PROVE  HistoryInv'
<1>1. TypeOK' /\ BalancesMatchTokens'  BY NextTyped DEF HistoryInv
<1>2. TypeOK /\ CheckpointsOrdered  BY DEF HistoryInv
<1>3. 1 \in Nat /\ Delegates(Zero) \in Accounts \cup {Zero}  BY DEF Delegates
<1>4. ASSUME NEW to \in Accounts, NEW t \in TokenIds, Mint(to, t)
      PROVE  CheckpointsOrdered'
  <2>1. MoveDelegates(Zero, Delegates(to), 1) /\ block' = block  BY <1>4 DEF Mint
  <2>2. Delegates(to) \in Accounts \cup {Zero}  BY <1>2, DelegatesType
  <2> QED  BY <1>2, <1>3, <2>1, <2>2, MoveDelegatesOrdered
<1>5. ASSUME NEW t \in TokenIds, Burn(t)
      PROVE  CheckpointsOrdered'
  <2>1. MoveDelegates(Delegates(owners[t]), Zero, 1) /\ block' = block  BY <1>5 DEF Burn
  <2>2. owners[t] \in Accounts  BY <1>2, <1>5 DEF Burn, TypeOK
  <2>3. Delegates(owners[t]) \in Accounts \cup {Zero}  BY <1>2, <2>2, DelegatesType
  <2> QED  BY <1>2, <1>3, <2>1, <2>3, MoveDelegatesOrdered
<1>6. ASSUME NEW from \in Accounts, NEW to \in Accounts, NEW t \in TokenIds, Transfer(from, to, t)
      PROVE  CheckpointsOrdered'
  <2>1. MoveDelegates(Delegates(from), Delegates(to), 1) /\ block' = block  BY <1>6 DEF Transfer
  <2>2. Delegates(from) \in Accounts \cup {Zero} /\ Delegates(to) \in Accounts \cup {Zero}
    BY <1>2, DelegatesType
  <2> QED  BY <1>2, <1>3, <2>1, <2>2, MoveDelegatesOrdered
<1>7. ASSUME NEW s \in Accounts, NEW d \in Accounts \cup {Zero}, DelegateTo(s, d), block' = block
      PROVE  CheckpointsOrdered'
  <2>1. MoveDelegates(Delegates(s), d, balances[s])  BY <1>7 DEF DelegateTo
  <2>2. Delegates(s) \in Accounts \cup {Zero} /\ balances[s] \in Nat
    BY <1>2, DelegatesType DEF TypeOK
  <2> QED  BY <1>2, <1>7, <2>1, <2>2, MoveDelegatesOrdered
<1>8. ASSUME NEW s \in Accounts, NEW d \in Accounts \cup {Zero}, Delegate(s, d)
      PROVE  CheckpointsOrdered'
  <2> DEFINE to == IF d = Zero THEN s ELSE d
  <2>1. to \in Accounts \cup {Zero}  OBVIOUS
  <2>2. DelegateTo(s, to) /\ block' = block  BY <1>8 DEF Delegate
  <2> HIDE DEF to
  <2> QED  BY <1>7, <2>1, <2>2
<1>9. ASSUME NEW m \in Signatures, DelegateBySig(m)
      PROVE  CheckpointsOrdered'
  <2>1. m.signatory \in Accounts /\ m.delegatee \in Accounts \cup {Zero}
    BY SignaturesAssumption
  <2>2. DelegateTo(m.signatory, m.delegatee) /\ block' = block  BY <1>9 DEF DelegateBySig
  <2> QED  BY <1>7, <2>1, <2>2
<1>10. NextBlock => CheckpointsOrdered'
  BY <1>2 DEF TypeOK, CheckpointsOrdered, NextBlock
<1>11. UNCHANGED vars => CheckpointsOrdered'  BY <1>2 DEF CheckpointsOrdered, vars
<1>12. CheckpointsOrdered'
  BY <1>4, <1>5, <1>6, <1>8, <1>9, <1>10, <1>11 DEF Next
<1> QED  BY <1>1, <1>12 DEF HistoryInv

\* getPriorVotes' precondition: the checkpoints of an account are strictly
\* ordered by block and none is of a later block, for any sequence of
\* operations, several of them in one block and delegations to address(0)
\* included.
THEOREM CheckpointsStayOrdered == Spec => []CheckpointsOrdered
<1>1. Init => HistoryInv  BY InitVotesInv DEF VotesInv, HistoryInv
<1>2. HistoryInv /\ [Next]_vars => HistoryInv'  BY NextHistoryInv
<1>3. HistoryInv => CheckpointsOrdered  BY DEF HistoryInv
<1> QED  BY <1>1, <1>2, <1>3, PTL DEF Spec

-----------------------------------------------------------------------------
\* The last checkpoint of cps at or before block b is the i-th.
IsLast(cps, b, i) ==
    /\ i \in 1..Len(cps)
    /\ cps[i].fromBlock <= b
    /\ \A j \in 1..Len(cps) : j > i => cps[j].fromBlock > b

\* The pairs <<lower, upper>> of the loop in getPriorVotes, and one turn of it:
\* what it returns when the rest of the loop returns what f says.
Pairs(cps) == (1..Len(cps)) \X (1..Len(cps))
Center(range) == range[2] - (range[2] - range[1]) \div 2
Turn(cps, b, f, range) ==
    IF range[2] <= range[1] THEN cps[range[1]].votes
    ELSE IF cps[Center(range)].fromBlock = b THEN cps[Center(range)].votes
    ELSE IF cps[Center(range)].fromBlock < b THEN f[<<Center(range), range[2]>>]
    ELSE f[<<range[1], Center(range) - 1>>]

\* The fields of a checkpoint in an array.
LEMMA EntryType ==
    ASSUME NEW cps \in Seq(Checkpoint), NEW i \in 1..Len(cps)
    PROVE  cps[i].fromBlock \in Nat /\ cps[i].votes \in Nat
<1>1. cps[i] \in Checkpoint  OBVIOUS
<1> QED  BY <1>1 DEF Checkpoint

\* Both halves of a range are ranges, and shorter ones: the loop terminates.
LEMMA HalvesShrink ==
    ASSUME NEW cps \in Seq(Checkpoint), NEW x \in Pairs(cps), x[1] < x[2]
    PROVE  /\ x[1] < Center(x) /\ Center(x) <= x[2] /\ Center(x) \in 1..Len(cps)
           /\ x[1] <= Center(x) - 1
           /\ <<Center(x), x[2]>> \in Pairs(cps)
           /\ <<x[1], Center(x) - 1>> \in Pairs(cps)
           /\ x[2] - Center(x) < x[2] - x[1]
           /\ (Center(x) - 1) - x[1] < x[2] - x[1]
<1>1. x[1] \in 1..Len(cps) /\ x[2] \in 1..Len(cps) /\ Len(cps) \in Nat  BY DEF Pairs
<1>2. x[1] < Center(x) /\ Center(x) <= x[2] /\ Center(x) \in Int  BY <1>1 DEF Center
<1>3. Center(x) \in 1..Len(cps) /\ Center(x) - 1 \in 1..Len(cps)  BY <1>1, <1>2
<1> HIDE DEF Center
<1> QED  BY <1>1, <1>2, <1>3 DEF Pairs

\* A turn of the loop looks only at shorter ranges.
LEMMA TurnType ==
    ASSUME NEW cps \in Seq(Checkpoint), NEW b \in Int, NEW f \in [Pairs(cps) -> Nat],
           NEW x \in Pairs(cps)
    PROVE  Turn(cps, b, f, x) \in Nat
<1>1. x[1] \in 1..Len(cps) /\ x[2] \in 1..Len(cps)  BY DEF Pairs
<1>2. \A i \in 1..Len(cps) : cps[i].votes \in Nat  BY EntryType
<1>3. CASE x[2] <= x[1]  BY <1>1, <1>2, <1>3 DEF Turn
<1>4. CASE x[1] < x[2]
  <2>1. /\ ~(x[2] <= x[1])
        /\ Center(x) \in 1..Len(cps)
        /\ <<Center(x), x[2]>> \in Pairs(cps) /\ <<x[1], Center(x) - 1>> \in Pairs(cps)
    BY <1>1, <1>4, HalvesShrink
  <2>2. f[<<Center(x), x[2]>>] \in Nat /\ f[<<x[1], Center(x) - 1>>] \in Nat  BY <2>1
  <2> QED  BY <1>2, <2>1, <2>2 DEF Turn
<1> QED  BY <1>1, <1>3, <1>4

\* The loop always answers: for any number of turns there is a table of answers
\* that its turns agree with.
LEMMA SearchDefined ==
    ASSUME NEW cps \in Seq(Checkpoint), NEW b \in Int
    PROVE  \E f \in [Pairs(cps) -> Nat] : f = [x \in Pairs(cps) |-> Turn(cps, b, f, x)]
<1> DEFINE D == Pairs(cps)
           Agrees(f, n) == \A x \in D : x[2] - x[1] <= n => f[x] = Turn(cps, b, f, x)
           S == {n \in Nat : \E f \in [D -> Nat] : Agrees(f, n)}
<1>1. \A x \in D : /\ x[1] \in 1..Len(cps) /\ x[2] \in 1..Len(cps)
                   /\ cps[x[1]].votes \in Nat
  BY EntryType DEF Pairs
<1>2. Len(cps) \in Nat  OBVIOUS
<1>3. 0 \in S
  <2> DEFINE f == [x \in D |-> cps[x[1]].votes]
  <2>1. f \in [D -> Nat]  BY <1>1
  <2>2. ASSUME NEW x \in D, x[2] - x[1] <= 0
        PROVE  f[x] = Turn(cps, b, f, x)
    <3>1. x[2] <= x[1] /\ f[x] = cps[x[1]].votes  BY <1>1, <2>2
    <3> QED  BY <3>1 DEF Turn
  <2> HIDE DEF f
  <2>3. Agrees(f, 0)  BY <2>2
  <2> QED  BY <2>1, <2>3
<1>4. ASSUME NEW n \in Nat, n \in S
      PROVE  n + 1 \in S
  <2>1. PICK f \in [D -> Nat] : Agrees(f, n)  BY <1>4
  <2> DEFINE g == [x \in D |-> Turn(cps, b, f, x)]
  <2> HIDE DEF D
  <2>2. \A x \in D : Turn(cps, b, f, x) \in Nat
    BY TurnType DEF D
  <2>3. g \in [D -> Nat]  BY <2>2
  <2>4. \A x \in D : g[x] = Turn(cps, b, f, x)  OBVIOUS
  <2> HIDE DEF g
  <2>5. ASSUME NEW x \in D, x[2] - x[1] <= n + 1
        PROVE  g[x] = Turn(cps, b, g, x)
    <3>1. CASE x[2] <= x[1]  BY <2>4, <3>1 DEF Turn
    <3>2. CASE x[1] < x[2]
      <4> DEFINE y == <<Center(x), x[2]>>
                 z == <<x[1], Center(x) - 1>>
      <4>1. /\ y \in D /\ z \in D
            /\ x[2] - Center(x) < x[2] - x[1]
            /\ (Center(x) - 1) - x[1] < x[2] - x[1]
            /\ Center(x) \in Int
        BY <3>2, HalvesShrink DEF D
      <4>2. y[2] - y[1] <= n /\ z[2] - z[1] <= n
        BY <1>1, <2>5, <4>1
      <4>3. g[y] = f[y] /\ g[z] = f[z]
        <5> HIDE DEF y, z
        <5> QED  BY <2>1, <2>4, <4>1, <4>2
      <4> QED  BY <2>4, <4>3 DEF Turn
    <3> QED  BY <1>1, <3>1, <3>2
  <2>6. Agrees(g, n + 1)  BY <2>5
  <2> QED  BY <2>3, <2>6
<1>5. Nat \subseteq S
  <2> HIDE DEF S
  <2> QED  BY <1>3, <1>4, SetInduction
<1>6. PICK f \in [D -> Nat] : Agrees(f, Len(cps))  BY <1>2, <1>5
<1>7. \A x \in D : f[x] = Turn(cps, b, f, x)
  <2>1. \A x \in D : x[2] - x[1] <= Len(cps)  BY <1>1, <1>2
  <2> QED  BY <1>6, <2>1
<1>8. f = [x \in D |-> Turn(cps, b, f, x)]
  <2> HIDE DEF D
  <2> QED  BY <1>7
<1> QED  BY <1>8

\* The function that the model calls Search is that table.
LEMMA SearchTurns ==
    ASSUME NEW cps \in Seq(Checkpoint), NEW b \in Int
    PROVE  \A x \in Pairs(cps) : Search(cps, b)[x] = Turn(cps, b, Search(cps, b), x)
<1> DEFINE P(f) == f = [x \in Pairs(cps) |-> Turn(cps, b, f, x)]
<1>1. Search(cps, b) = CHOOSE f : P(f)  BY DEF Search, Turn, Center, Pairs
<1>2. \E f : P(f)  BY SearchDefined
<1> HIDE DEF P
<1>3. P(Search(cps, b))  BY <1>1, <1>2
<1>4. Search(cps, b) = [x \in Pairs(cps) |-> Turn(cps, b, Search(cps, b), x)]
  BY <1>3 DEF P
<1> QED  BY <1>4
\* The loop finds the last checkpoint at or before the block, from any range
\* that holds it.
LEMMA SearchFinds ==
    ASSUME NEW cps \in Seq(Checkpoint), NEW b \in Int, NEW i,
           \A j, k \in 1..Len(cps) : j < k => cps[j].fromBlock < cps[k].fromBlock,
           IsLast(cps, b, i)
    PROVE  Search(cps, b)[<<1, Len(cps)>>] = cps[i].votes
<1> DEFINE D == Pairs(cps)
           s == Search(cps, b)
           Finds(n) == \A x \in D : x[2] - x[1] <= n /\ x[1] <= i /\ i <= x[2]
                                    => s[x] = cps[i].votes
           S == {n \in Nat : Finds(n)}
<1>1. \A x \in D : /\ x[1] \in 1..Len(cps) /\ x[2] \in 1..Len(cps)
                   /\ s[x] = Turn(cps, b, s, x)
  BY SearchTurns DEF Pairs
<1>2. /\ i \in 1..Len(cps) /\ Len(cps) \in Nat
      /\ \A j \in 1..Len(cps) : cps[j].fromBlock \in Nat
  BY EntryType DEF IsLast
<1> HIDE DEF D, s
<1>3. 0 \in S
  <2> SUFFICES ASSUME NEW x \in D, x[2] - x[1] <= 0, x[1] <= i, i <= x[2]
               PROVE  s[x] = cps[i].votes
    OBVIOUS
  <2>1. x[1] = i /\ x[2] <= x[1]  BY <1>1, <1>2
  <2> QED  BY <1>1, <2>1 DEF Turn
<1>4. ASSUME NEW n \in Nat, n \in S
      PROVE  n + 1 \in S
  <2> SUFFICES ASSUME NEW x \in D, x[2] - x[1] <= n + 1, x[1] <= i, i <= x[2]
               PROVE  s[x] = cps[i].votes
    OBVIOUS
  <2>1. CASE x[2] <= x[1]
    <3>1. x[1] = i  BY <1>1, <1>2, <2>1
    <3> QED  BY <1>1, <2>1, <3>1 DEF Turn
  <2>2. CASE x[1] < x[2]
    <3> DEFINE c == Center(x)
               y == <<c, x[2]>>
               z == <<x[1], c - 1>>
    <3>1. /\ ~(x[2] <= x[1])
          /\ y \in D /\ z \in D /\ c \in 1..Len(cps)
          /\ y[1] = c /\ y[2] = x[2] /\ z[1] = x[1] /\ z[2] = c - 1
          /\ x[2] - c < x[2] - x[1] /\ (c - 1) - x[1] < x[2] - x[1]
      BY <1>1, <2>2, HalvesShrink DEF D
    <3>2. s[x] = IF cps[c].fromBlock = b THEN cps[c].votes
                 ELSE IF cps[c].fromBlock < b THEN s[y] ELSE s[z]
      BY <1>1, <3>1 DEF Turn
    <3> HIDE DEF c, y, z
    <3>3. c <= i <=> cps[c].fromBlock <= b  BY <1>2, <3>1 DEF IsLast
    <3>4. CASE cps[c].fromBlock = b
      <4>1. ~(c < i)
        BY <1>2, <3>1, <3>4 DEF IsLast
      <4>2. c = i  BY <1>2, <3>1, <3>3, <3>4, <4>1
      <4> QED  BY <3>2, <3>4, <4>2
    <3>5. CASE cps[c].fromBlock < b
      <4>1. y[1] <= i /\ i <= y[2]  BY <1>2, <3>1, <3>3, <3>5
      <4>2. y[2] - y[1] <= n  BY <1>1, <1>2, <3>1
      <4>3. s[y] = cps[i].votes  BY <1>4, <3>1, <4>1, <4>2
      <4> QED  BY <3>2, <3>5, <4>3
    <3>6. CASE b < cps[c].fromBlock
      <4>1. z[1] <= i /\ i <= z[2]  BY <1>2, <3>1, <3>3, <3>6
      <4>2. z[2] - z[1] <= n  BY <1>1, <1>2, <3>1
      <4>3. s[z] = cps[i].votes  BY <1>4, <3>1, <4>1, <4>2
      <4> QED  BY <1>2, <3>1, <3>2, <3>6, <4>3
    <3> QED  BY <1>2, <3>1, <3>4, <3>5, <3>6
  <2> QED  BY <1>1, <2>1, <2>2
<1>5. Nat \subseteq S
  <2> HIDE DEF S
  <2> QED  BY <1>3, <1>4, SetInduction
<1>6. Finds(Len(cps))  BY <1>2, <1>5
<1>7. <<1, Len(cps)>> \in D /\ 1 <= i /\ i <= Len(cps)  BY <1>2 DEF D, Pairs
<1>8. s[<<1, Len(cps)>>] = cps[i].votes
  <2> DEFINE x == <<1, Len(cps)>>
  <2>1. x[1] = 1 /\ x[2] = Len(cps)  OBVIOUS
  <2> HIDE DEF x
  <2>2. x \in D  BY <1>7 DEF x
  <2>3. x[2] - x[1] <= Len(cps)  BY <1>2, <2>1
  <2>4. s[x] = cps[i].votes  BY <1>6, <1>7, <2>1, <2>2, <2>3
  <2> QED  BY <2>4 DEF x
<1> QED  BY <1>8 DEF s
-----------------------------------------------------------------------------
\* getPriorVotes over one array of checkpoints.
PriorOf(cps, b) ==
    IF cps = << >> THEN 0
    ELSE IF cps[Len(cps)].fromBlock <= b THEN VotesOf(cps)
    ELSE IF cps[1].fromBlock > b THEN 0
    ELSE Search(cps, b)[<<1, Len(cps)>>]

\* An ordered array either has a last checkpoint at or before b or begins after b.
LEMMA LastExists ==
    ASSUME NEW cps \in Seq(Checkpoint), NEW b \in Int
    PROVE  \/ \A j \in 1..Len(cps) : cps[j].fromBlock > b
           \/ \E i : IsLast(cps, b, i)
<1> DEFINE T == {j \in 1..Len(cps) : cps[j].fromBlock <= b}
<1>1. \A j \in 1..Len(cps) : cps[j].fromBlock \in Nat  BY EntryType
<1>2. CASE T = {}  BY <1>1, <1>2
<1>3. CASE T # {}
  <2>1. Len(cps) \in Nat /\ T \in SUBSET (0..Len(cps))  OBVIOUS
  <2> HIDE DEF T
  <2>2. PICK i \in T : \A j \in T : j <= i  BY <1>3, <2>1, GreatestNatural
  <2>3. IsLast(cps, b, i)
    <3>1. i \in 1..Len(cps) /\ cps[i].fromBlock <= b  BY DEF T
    <3>2. ASSUME NEW j \in 1..Len(cps), j > i
          PROVE  cps[j].fromBlock > b
      <4>1. j \notin T  BY <2>2, <3>1, <3>2
      <4> QED  BY <1>1, <4>1 DEF T
    <3> QED  BY <3>1, <3>2 DEF IsLast
  <2> QED  BY <2>3
<1> QED  BY <1>2, <1>3

\* What getPriorVotes answers: the votes of the last checkpoint at or before
\* the block, or none.
LEMMA PriorIsLast ==
    ASSUME NEW cps \in Seq(Checkpoint), NEW b \in Int, NEW top, OrderedUpTo(cps, top)
    PROVE  /\ (\A j \in 1..Len(cps) : cps[j].fromBlock > b) => PriorOf(cps, b) = 0
           /\ \A i : IsLast(cps, b, i) => PriorOf(cps, b) = cps[i].votes
<1>1. \A j \in 1..Len(cps) : cps[j].fromBlock \in Nat  BY EntryType
<1>2. Len(cps) \in Nat /\ (cps # << >> => 1 \in 1..Len(cps) /\ Len(cps) \in 1..Len(cps))
  OBVIOUS
<1>3. ASSUME \A j \in 1..Len(cps) : cps[j].fromBlock > b
      PROVE  PriorOf(cps, b) = 0
  <2>1. CASE cps = << >>  BY <2>1 DEF PriorOf
  <2>2. CASE cps # << >>
    <3>1. cps[1].fromBlock > b /\ ~(cps[Len(cps)].fromBlock <= b)
      BY <1>1, <1>2, <1>3, <2>2
    <3> QED  BY <2>2, <3>1 DEF PriorOf
  <2> QED  BY <2>1, <2>2
<1>4. ASSUME NEW i, IsLast(cps, b, i)
      PROVE  PriorOf(cps, b) = cps[i].votes
  <2>1. /\ i \in 1..Len(cps) /\ cps[i].fromBlock <= b
        /\ \A j \in 1..Len(cps) : j > i => cps[j].fromBlock > b
    BY <1>4 DEF IsLast
  <2>2. cps # << >>  BY <2>1
  <2>3. CASE cps[Len(cps)].fromBlock <= b
    <3>1. i = Len(cps)  BY <1>1, <1>2, <2>1, <2>2, <2>3
    <3> QED  BY <2>2, <2>3, <3>1 DEF PriorOf, VotesOf
  <2>4. CASE ~(cps[Len(cps)].fromBlock <= b)
    <3>1. ~(cps[1].fromBlock > b)
      <4>1. i = 1 \/ cps[1].fromBlock < cps[i].fromBlock
        BY <1>2, <2>1, <2>2 DEF OrderedUpTo
      <4> QED  BY <1>1, <1>2, <2>1, <2>2, <4>1
    <3>2. Search(cps, b)[<<1, Len(cps)>>] = cps[i].votes
      BY <1>4, SearchFinds DEF OrderedUpTo
    <3> QED  BY <2>2, <2>4, <3>1, <3>2 DEF PriorOf
  <2> QED  BY <2>3, <2>4
<1> QED  BY <1>3, <1>4

\* A write of this block leaves what is answered about earlier blocks alone:
\* it replaces or follows a checkpoint that they do not see.
LEMMA WriteKeepsPrior ==
    ASSUME NEW cps \in Seq(Checkpoint), NEW v \in Nat, block \in Nat \ {0},
           OrderedUpTo(cps, block), NEW b \in Int, b < block
    PROVE  PriorOf(WriteCheckpoint(cps, v), b) = PriorOf(cps, b)
<1> DEFINE new == WriteCheckpoint(cps, v)
           cp == [fromBlock |-> block, votes |-> v]
<1>1. new \in Seq(Checkpoint) /\ OrderedUpTo(new, block)
  BY WriteCheckpointVotes, WriteCheckpointOrdered
<1>2. Len(cps) \in Nat /\ cp \in Checkpoint /\ cp.fromBlock = block  BY DEF Checkpoint
<1>3. \/ /\ Len(new) = Len(cps) /\ cps # << >> /\ cps[Len(cps)].fromBlock = block
         /\ new[Len(cps)] = cp
         /\ \A j \in 1..Len(cps) : j # Len(cps) => new[j] = cps[j]
      \/ /\ Len(new) = Len(cps) + 1
         /\ new[Len(cps) + 1] = cp
         /\ \A j \in 1..Len(cps) : new[j] = cps[j]
  <2> HIDE DEF cp
  <2>1. CASE cps # << >> /\ cps[Len(cps)].fromBlock = block
    <3>1. new = [cps EXCEPT ![Len(cps)] = cp]  BY <2>1 DEF WriteCheckpoint, cp
    <3>2. Len(cps) \in 1..Len(cps)  BY <2>1
    <3> HIDE DEF new
    <3> QED  BY <2>1, <3>1, <3>2
  <2>2. CASE ~(cps # << >> /\ cps[Len(cps)].fromBlock = block)
    <3>1. new = Append(cps, cp)  BY <2>2 DEF WriteCheckpoint, cp
    <3> HIDE DEF new
    <3> QED  BY <1>2, <3>1
  <2> QED  BY <2>1, <2>2
<1> HIDE DEF new, cp
<1>4. CASE \A j \in 1..Len(cps) : cps[j].fromBlock > b
  <2>1. \A j \in 1..Len(new) : new[j].fromBlock > b
    BY <1>2, <1>3, <1>4
  <2> QED  BY <1>1, <1>4, <2>1, PriorIsLast DEF new
<1>5. ASSUME NEW i, IsLast(cps, b, i)
      PROVE  PriorOf(new, b) = PriorOf(cps, b)
  <2>1. /\ i \in 1..Len(cps) /\ cps[i].fromBlock <= b
        /\ \A j \in 1..Len(cps) : j > i => cps[j].fromBlock > b
    BY <1>5 DEF IsLast
  <2>2. i \in 1..Len(new) /\ new[i] = cps[i]
    <3>1. cps[i].fromBlock # block  BY <2>1, EntryType
    <3> QED  BY <1>2, <1>3, <2>1, <3>1
  <2>3. \A j \in 1..Len(new) : j > i => new[j].fromBlock > b
    BY <1>2, <1>3, <2>1
  <2>4. IsLast(new, b, i)  BY <2>1, <2>2, <2>3 DEF IsLast
  <2>5. PriorOf(cps, b) = cps[i].votes /\ PriorOf(new, b) = new[i].votes
    BY <1>1, <1>5, <2>4, PriorIsLast
  <2> QED  BY <2>2, <2>5
<1>6. PriorOf(new, b) = PriorOf(cps, b)  BY <1>4, <1>5, LastExists DEF new
<1> QED  BY <1>6 DEF new

\* A move of votes changes no answer about an earlier block.
LEMMA MoveKeepsPrior ==
    ASSUME HistoryInv, NEW src \in Accounts \cup {Zero}, NEW dst \in Accounts \cup {Zero},
           NEW n \in Nat, MoveDelegates(src, dst, n),
           NEW a \in Accounts, NEW b \in Int, b < block
    PROVE  PriorOf(checkpoints'[a], b) = PriorOf(checkpoints[a], b)
<1>1. CASE checkpoints' = checkpoints  BY <1>1
<1>2. CASE checkpoints' # checkpoints
  <2>1. /\ src # Zero => GetCurrentVotes(src) >= n
        /\ checkpoints' = [x \in Accounts |->
             IF x = src THEN WriteCheckpoint(checkpoints[x], GetCurrentVotes(x) - n)
             ELSE IF x = dst THEN WriteCheckpoint(checkpoints[x], GetCurrentVotes(x) + n)
             ELSE checkpoints[x]]
    BY <1>2 DEF MoveDelegates
  <2>2. /\ checkpoints[a] \in Seq(Checkpoint)
        /\ block \in Nat \ {0}
        /\ OrderedUpTo(checkpoints[a], block)
        /\ GetCurrentVotes(a) \in Nat
    <3>1. checkpoints[a] \in Seq(Checkpoint) /\ block \in Nat \ {0}
      BY MaxBlockAssumption DEF HistoryInv, TypeOK
    <3>2. OrderedUpTo(checkpoints[a], block)
      BY DEF HistoryInv, CheckpointsOrdered, OrderedUpTo
    <3>3. GetCurrentVotes(a) \in Nat  BY VotesType DEF HistoryInv
    <3> QED  BY <3>1, <3>2, <3>3
  <2>3. CASE a = src
    <3>1. GetCurrentVotes(a) - n \in Nat  BY <2>1, <2>2, <2>3, ZeroAssumption
    <3>2. checkpoints'[a] = WriteCheckpoint(checkpoints[a], GetCurrentVotes(a) - n)
      BY <2>1, <2>3
    <3> QED  BY <2>2, <3>1, <3>2, WriteKeepsPrior
  <2>4. CASE a # src /\ a = dst
    <3>1. GetCurrentVotes(a) + n \in Nat  BY <2>2
    <3>2. checkpoints'[a] = WriteCheckpoint(checkpoints[a], GetCurrentVotes(a) + n)
      BY <2>1, <2>4
    <3> QED  BY <2>2, <3>1, <3>2, WriteKeepsPrior
  <2>5. CASE a # src /\ a # dst  BY <2>1, <2>5
  <2> QED  BY <2>3, <2>4, <2>5
<1> QED  BY <1>1, <1>2

\* Every step is a move of votes or leaves the checkpoints alone.
LEMMA StepMoves ==
    ASSUME HistoryInv, [Next]_vars
    PROVE  \/ checkpoints' = checkpoints
           \/ \E src, dst \in Accounts \cup {Zero}, n \in Nat : MoveDelegates(src, dst, n)
<1> DEFINE Moves == \E src, dst \in Accounts \cup {Zero}, n \in Nat : MoveDelegates(src, dst, n)
<1>1. TypeOK /\ 1 \in Nat /\ Zero \in Accounts \cup {Zero}  BY DEF HistoryInv
<1>2. ASSUME NEW src \in Accounts \cup {Zero}, NEW dst \in Accounts \cup {Zero}, NEW n \in Nat,
             MoveDelegates(src, dst, n)
      PROVE  Moves
  BY <1>2
<1> HIDE DEF Moves
<1>3. ASSUME NEW to \in Accounts, NEW t \in TokenIds, Mint(to, t)
      PROVE  Moves
  BY <1>1, <1>2, <1>3, DelegatesType DEF Mint
<1>4. ASSUME NEW t \in TokenIds, Burn(t)
      PROVE  Moves
  <2>1. owners[t] \in Accounts  BY <1>1, <1>4 DEF Burn, TypeOK
  <2> QED  BY <1>1, <1>2, <1>4, <2>1, DelegatesType DEF Burn
<1>5. ASSUME NEW from \in Accounts, NEW to \in Accounts, NEW t \in TokenIds, Transfer(from, to, t)
      PROVE  Moves
  BY <1>1, <1>2, <1>5, DelegatesType DEF Transfer
<1>6. ASSUME NEW s \in Accounts, NEW d \in Accounts \cup {Zero}, DelegateTo(s, d)
      PROVE  Moves
  <2>1. MoveDelegates(Delegates(s), d, balances[s])  BY <1>6 DEF DelegateTo
  <2>2. Delegates(s) \in Accounts \cup {Zero} /\ balances[s] \in Nat
    BY <1>1, DelegatesType DEF TypeOK
  <2> QED  BY <1>2, <2>1, <2>2
<1>7. ASSUME NEW s \in Accounts, NEW d \in Accounts \cup {Zero}, Delegate(s, d)
      PROVE  Moves
  BY <1>6, <1>7 DEF Delegate
<1>8. ASSUME NEW m \in Signatures, DelegateBySig(m)
      PROVE  Moves
  <2>1. m.signatory \in Accounts /\ m.delegatee \in Accounts \cup {Zero}
    BY SignaturesAssumption
  <2> QED  BY <1>6, <1>8, <2>1 DEF DelegateBySig
<1>9. NextBlock => checkpoints' = checkpoints  BY DEF NextBlock
<1>10. UNCHANGED vars => checkpoints' = checkpoints  BY DEF vars
<1>11. Moves \/ checkpoints' = checkpoints
  BY <1>3, <1>4, <1>5, <1>7, <1>8, <1>9, <1>10 DEF Next
<1> QED  BY <1>11 DEF Moves

\* The answer of getPriorVotes about a block that has ended never changes,
\* whatever is minted, burned, moved and delegated afterwards: the same-block
\* overwrite of _writeCheckpoint and the binary search never meet in a way
\* that rewrites the past.
THEOREM PriorVotesNeverChange == Spec => PriorVotesFinal
<1>1. Init => HistoryInv  BY InitVotesInv DEF VotesInv, HistoryInv
<1>2. HistoryInv /\ [Next]_vars => HistoryInv'  BY NextHistoryInv
<1> DEFINE Final == \A a \in Accounts : \A b \in 0..(block - 1) :
                      GetPriorVotes(a, b)' = GetPriorVotes(a, b)
<1>3. ASSUME HistoryInv, [Next]_vars
      PROVE  Final
  <2> SUFFICES ASSUME NEW a \in Accounts, NEW b \in 0..(block - 1)
               PROVE  GetPriorVotes(a, b)' = GetPriorVotes(a, b)
    OBVIOUS
  <2>1. b \in Int /\ b < block  BY <1>3 DEF HistoryInv, TypeOK
  <2>2. PriorOf(checkpoints'[a], b) = PriorOf(checkpoints[a], b)
    BY <1>3, <2>1, StepMoves, MoveKeepsPrior
  <2>3. /\ GetPriorVotes(a, b) = PriorOf(checkpoints[a], b)
        /\ GetPriorVotes(a, b)' = PriorOf(checkpoints'[a], b)
    BY DEF GetPriorVotes, PriorOf
  <2> QED  BY <2>2, <2>3
<1>4. HistoryInv /\ [Next]_vars => [Final]_vars  BY <1>3
<1>5. [][Final]_vars => PriorVotesFinal  BY PTL DEF PriorVotesFinal
<1>6. Spec => [][Final]_vars
  <2> HIDE DEF Final
  <2> QED  BY <1>1, <1>2, <1>4, PTL DEF Spec
<1> QED  BY <1>5, <1>6
-----------------------------------------------------------------------------
\* A table of one more block is the table with the new block's row at its end.
LEMMA AppendRow ==
    ASSUME NEW n \in Nat, NEW R, NEW f \in [1..n -> R], NEW g \in [1..(n + 1) -> R],
           \A i \in 1..n : g[i] = f[i]
    PROVE  g = Append(f, g[n + 1])
<1>1. f \in Seq(R) /\ Len(f) = n  OBVIOUS
<1>2. g \in Seq(R) /\ Len(g) = n + 1  OBVIOUS
<1>3. g[n + 1] \in R  OBVIOUS
<1> DEFINE h == Append(f, g[n + 1])
<1>4. /\ h \in Seq(R) /\ Len(h) = n + 1
      /\ \A i \in 1..n : h[i] = f[i]
      /\ h[n + 1] = g[n + 1]
  BY <1>1, <1>3
<1> HIDE DEF h
<1>5. \A i \in 1..(n + 1) : g[i] = h[i]  BY <1>4
<1>6. g = h  BY <1>2, <1>4, <1>5
<1> QED  BY <1>6 DEF h

\* The mapping of the refinement, by name.
Reps == [a \in Accounts |-> Delegates(a)]
Past == [b \in 1..(block - 1) |-> [a \in Accounts |-> GetPriorVotes(a, b)]]
Spent == {s \in {<<m.signatory, m.nonce>> : m \in Signatures} : s[2] < nonces[s[1]]}

\* Within a block the table of past votes stands still.
LEMMA PastStands ==
    ASSUME HistoryInv, [Next]_vars, block' = block
    PROVE  Past' = Past
<1>1. ASSUME NEW a \in Accounts, NEW b \in 1..(block - 1)
      PROVE  GetPriorVotes(a, b)' = GetPriorVotes(a, b)
  <2>1. b \in Int /\ b < block  BY DEF HistoryInv, TypeOK
  <2>2. PriorOf(checkpoints'[a], b) = PriorOf(checkpoints[a], b)
    BY <2>1, StepMoves, MoveKeepsPrior
  <2>3. /\ GetPriorVotes(a, b) = PriorOf(checkpoints[a], b)
        /\ GetPriorVotes(a, b)' = PriorOf(checkpoints'[a], b)
    BY DEF GetPriorVotes, PriorOf
  <2> QED  BY <2>2, <2>3
<1> QED  BY <1>1 DEF Past

\* A step of a token only moves that token in the ledger.
LEMMA TokenStep ==
    ASSUME HistoryInv, [Next]_vars, NEW t \in TokenIds, NEW o \in Accounts \cup {Zero},
           owners' = [owners EXCEPT ![t] = o], UNCHANGED <<delegateOf, nonces, block, voided>>
    PROVE  Ledger!MoveToken
<1>1. Past' = Past  BY PastStands
<1>2. Reps' = Reps /\ Spent' = Spent  BY DEF Reps, Delegates, Spent
<1> QED  BY <1>1, <1>2 DEF Ledger!MoveToken, Past, Reps, Spent

\* A delegation changes what one account chose, and nothing else.
LEMMA RepsFollow ==
    ASSUME HistoryInv, NEW s \in Accounts, NEW d \in Accounts \cup {Zero}, DelegateTo(s, d)
    PROVE  Reps' = [Reps EXCEPT ![s] = IF d = Zero THEN s ELSE d]
<1>1. delegateOf' = [delegateOf EXCEPT ![s] = d] /\ delegateOf \in [Accounts -> Accounts \cup {Zero}]
  BY DEF DelegateTo, HistoryInv, TypeOK
<1>2. \A a \in Accounts : Delegates(a)' = IF a = s THEN (IF d = Zero THEN s ELSE d) ELSE Delegates(a)
  BY <1>1, ZeroAssumption DEF Delegates
<1> QED  BY <1>2 DEF Reps

\* The end of a block writes its row: getPriorVotes about the block that ends
\* is the last checkpoint, which counts the tokens represented.
LEMMA BlockStep ==
    ASSUME HistoryInv, VotesMatchTokens, NextBlock
    PROVE  Ledger!EndBlock
<1>1. /\ block \in Nat \ {0} /\ block' = block + 1 /\ checkpoints' = checkpoints
      /\ UNCHANGED <<owners, delegateOf, nonces, voided>>
  BY DEF HistoryInv, TypeOK, NextBlock
<1> DEFINE Row == [a \in Accounts |-> Ledger!Votes(a)]
           R == {[a \in Accounts |-> GetPriorVotes(a, b)] : b \in 1..block}
           n == block - 1
<1>2. n \in Nat /\ n + 1 = block /\ block' - 1 = block /\ 1..n \subseteq 1..block
  BY <1>1
<1>3. \A a \in Accounts, b \in 1..block : GetPriorVotes(a, b)' = GetPriorVotes(a, b)
  BY <1>1 DEF GetPriorVotes
<1>4. Past' = [b \in 1..block |-> [a \in Accounts |-> GetPriorVotes(a, b)]]
  BY <1>2, <1>3 DEF Past
<1>5. ASSUME NEW a \in Accounts
      PROVE  GetPriorVotes(a, block) = Ledger!Votes(a)
  <2>1. GetCurrentVotes(a) = Cardinality(TokensRepresentedBy(a)) - voided[a]
    <3>1. GetCurrentVotes(a) + voided[a] = Cardinality(TokensRepresentedBy(a))
      BY DEF VotesMatchTokens
    <3>2. GetCurrentVotes(a) \in Nat /\ voided[a] \in Nat  BY VotesType DEF HistoryInv, TypeOK
    <3> QED  BY <3>1, <3>2
  <2>2. TokensRepresentedBy(a) = {t \in TokenIds : owners[t] # Zero /\ Reps[owners[t]] = a}
    BY DEF TokensRepresentedBy, Reps, HistoryInv, TypeOK
  <2>3. GetPriorVotes(a, block) = GetCurrentVotes(a)
    <3>1. checkpoints[a] \in Seq(Checkpoint) /\ OrderedUpTo(checkpoints[a], block)
      BY DEF HistoryInv, TypeOK, CheckpointsOrdered, OrderedUpTo
    <3>2. CASE checkpoints[a] = << >>
      BY <3>2 DEF GetPriorVotes, GetCurrentVotes, VotesOf
    <3>3. CASE checkpoints[a] # << >>
      <4>1. Len(checkpoints[a]) \in 1..Len(checkpoints[a])  BY <3>1, <3>3
      <4>2. checkpoints[a][Len(checkpoints[a])].fromBlock <= block
        BY <1>1, <3>1, <4>1 DEF OrderedUpTo
      <4> QED  BY <3>3, <4>2 DEF GetPriorVotes, GetCurrentVotes
    <3> QED  BY <3>2, <3>3
  <2> QED  BY <2>1, <2>2, <2>3 DEF Ledger!Votes, Reps, Cardinality, Ledger!Cardinality,
      IsFiniteSet, Ledger!IsFiniteSet
<1>6. Past \in [1..n -> R]
  <2>1. \A b \in 1..n : [a \in Accounts |-> GetPriorVotes(a, b)] \in R  BY <1>2
  <2> HIDE DEF R
  <2> QED  BY <2>1 DEF Past
<1>7. Past' \in [1..block -> R] /\ \A i \in 1..n : Past'[i] = Past[i]
  BY <1>2, <1>4 DEF Past
<1>8. Past'[block] = Row
  <2>1. block \in 1..block  BY <1>1
  <2>2. Past'[block] = [a \in Accounts |-> GetPriorVotes(a, block)]  BY <1>4, <2>1
  <2> QED  BY <1>5, <2>2
<1>9. Past' = Append(Past, Row)
  <2> HIDE DEF n, R, Row
  <2>1. Past' \in [1..(n + 1) -> R] /\ Past'[n + 1] = Row  BY <1>2, <1>7, <1>8
  <2> QED  BY <1>2, <1>6, <1>7, <2>1, AppendRow
<1>10. Reps' = Reps /\ Spent' = Spent  BY <1>1 DEF Reps, Delegates, Spent
<1> QED  BY <1>1, <1>9, <1>10 DEF Ledger!EndBlock, Past, Reps, Spent

\* The checkpoint arrays, their binary search, the nonces and the incremental
\* counts implement the ledger: one vote per token, a table of past votes that
\* only grows, and every signature used at most once.
THEOREM CheckpointsImplementLedger == Spec => ImplementsLedger
<1> DEFINE Inv == VotesInv /\ CheckpointsOrdered
           Mapped == <<owners, Reps, voided, Past, Spent>>
<1>1. Init => Ledger!Init
  <2> SUFFICES ASSUME Init PROVE Ledger!Init
    OBVIOUS
  <2>1. Reps = [a \in Accounts |-> a]  BY DEF Init, Reps, Delegates
  <2>2. Past = << >>
    <3>1. Past \in Seq({Past[b] : b \in 1..0}) /\ Len(Past) = 0  BY DEF Init, Past
    <3> QED  BY <3>1
  <2>3. Spent = {}  BY SignaturesAssumption DEF Init, Spent
  <2>4. owners = [t \in TokenIds |-> Zero]  BY DEF Init
  <2>5. voided = [a \in Accounts |-> 0]  BY DEF Init
  <2> QED  BY <2>1, <2>2, <2>3, <2>4, <2>5 DEF Ledger!Init, Reps, Past, Spent
<1>2. ASSUME Inv, [Next]_vars
      PROVE  Ledger!Next \/ UNCHANGED Mapped
  <2>1. HistoryInv /\ TypeOK /\ VotesMatchTokens
    BY <1>2 DEF VotesInv, HistoryInv
  <2>2. ASSUME NEW to \in Accounts, NEW t \in TokenIds, Mint(to, t)
        PROVE  Ledger!Next
    <3>1. owners' = [owners EXCEPT ![t] = to] /\ UNCHANGED <<delegateOf, nonces, block, voided>>
      BY <2>2 DEF Mint
    <3>2. to \in Accounts \cup {Zero}  OBVIOUS
    <3> QED  BY <1>2, <2>1, <3>1, <3>2, TokenStep DEF Ledger!Next
  <2>3. ASSUME NEW t \in TokenIds, Burn(t)
        PROVE  Ledger!Next
    <3>1. owners' = [owners EXCEPT ![t] = Zero] /\ UNCHANGED <<delegateOf, nonces, block, voided>>
      BY <2>3 DEF Burn
    <3>2. Zero \in Accounts \cup {Zero}  OBVIOUS
    <3> QED  BY <1>2, <2>1, <3>1, <3>2, TokenStep DEF Ledger!Next
  <2>4. ASSUME NEW from \in Accounts, NEW to \in Accounts, NEW t \in TokenIds, Transfer(from, to, t)
        PROVE  Ledger!Next
    <3>1. owners' = [owners EXCEPT ![t] = to] /\ UNCHANGED <<delegateOf, nonces, block, voided>>
      BY <2>4 DEF Transfer
    <3>2. to \in Accounts \cup {Zero}  OBVIOUS
    <3> QED  BY <1>2, <2>1, <3>1, <3>2, TokenStep DEF Ledger!Next
  <2>5. ASSUME NEW s \in Accounts, NEW d \in Accounts \cup {Zero}, Delegate(s, d)
        PROVE  Ledger!Next
    <3> DEFINE to == IF d = Zero THEN s ELSE d
    <3>1. /\ DelegateTo(s, to) /\ UNCHANGED <<owners, balances, nonces, block, voided>>
          /\ to \in Accounts /\ to # Zero
      BY <2>5, ZeroAssumption DEF Delegate
    <3> HIDE DEF to
    <3>2. Reps' = [Reps EXCEPT ![s] = to]  BY <2>1, <3>1, RepsFollow
    <3>3. Past' = Past  BY <1>2, <2>1, <3>1, PastStands
    <3>4. Spent' = Spent  BY <3>1 DEF Spent
    <3>5. Ledger!Choose
      BY <3>1, <3>2, <3>3, <3>4 DEF Ledger!Choose, Reps, Past, Spent
    <3> QED  BY <3>5 DEF Ledger!Next
  <2>6. ASSUME NEW m \in Signatures, DelegateBySig(m)
        PROVE  Ledger!Next
    <3>1. /\ m.signatory \in Accounts /\ m.delegatee \in Accounts \cup {Zero}
          /\ m.nonce = nonces[m.signatory] /\ m.nonce \in Nat
          /\ nonces' = [nonces EXCEPT ![m.signatory] = @ + 1]
          /\ DelegateTo(m.signatory, m.delegatee)
          /\ UNCHANGED <<owners, balances, block>>
      BY <2>6, SignaturesAssumption DEF DelegateBySig
    <3>2. Reps' = [Reps EXCEPT ![m.signatory] = IF m.delegatee = Zero THEN m.signatory ELSE m.delegatee]
      BY <2>1, <3>1, RepsFollow
    <3>3. Past' = Past  BY <1>2, <2>1, <3>1, PastStands
    <3> DEFINE p == <<m.signatory, m.nonce>>
    <3>4. p \notin Spent  BY <3>1 DEF Spent
    <3>5. Spent' = Spent \cup {p}
      <4>1. nonces \in [Accounts -> Nat]  BY <2>1 DEF TypeOK
      <4>2. ASSUME NEW k \in Signatures
            PROVE  /\ <<k.signatory, k.nonce>> \in Spent <=> k.nonce < nonces[k.signatory]
                   /\ <<k.signatory, k.nonce>> \in Spent' <=> k.nonce < nonces'[k.signatory]
                   /\ k.nonce < nonces'[k.signatory] <=>
                        \/ k.nonce < nonces[k.signatory]
                        \/ <<k.signatory, k.nonce>> = p
        <5>1. k.signatory \in Accounts /\ k.nonce \in Nat  BY SignaturesAssumption
        <5>2. /\ <<k.signatory, k.nonce>> \in Spent <=> k.nonce < nonces[k.signatory]
              /\ <<k.signatory, k.nonce>> \in Spent' <=> k.nonce < nonces'[k.signatory]
          BY DEF Spent
        <5>3. CASE k.signatory = m.signatory
          <6>1. nonces'[k.signatory] = m.nonce + 1 /\ nonces[k.signatory] = m.nonce
            BY <3>1, <4>1, <5>3
          <6>2. k.nonce < m.nonce + 1 <=> (k.nonce < m.nonce \/ k.nonce = m.nonce)
            BY <3>1, <5>1
          <6> QED  BY <5>2, <5>3, <6>1, <6>2
        <5>4. CASE k.signatory # m.signatory
          <6>1. nonces'[k.signatory] = nonces[k.signatory]
            BY <3>1, <4>1, <5>1, <5>4
          <6> QED  BY <5>2, <5>4, <6>1
        <5> QED  BY <5>3, <5>4
      <4>3. \A x : x \in Spent' => x \in Spent \cup {p}  BY <4>2 DEF Spent
      <4>4. \A x : x \in Spent \cup {p} => x \in Spent'  BY <4>2 DEF Spent
      <4> QED  BY <4>3, <4>4
    <3>6. voided' = IF m.delegatee = Zero
                    THEN [voided EXCEPT ![m.signatory] = @ + Cardinality(TokensOf(m.signatory))]
                    ELSE voided
      <4>1. balances[m.signatory] = Cardinality(TokensOf(m.signatory))
        BY <2>1, <3>1 DEF HistoryInv, BalancesMatchTokens, TokensOf
      <4> QED  BY <2>6, <4>1 DEF DelegateBySig
    <3>7. Ledger!TokensOf(m.signatory) = TokensOf(m.signatory)
      BY DEF Ledger!TokensOf, TokensOf
    <3>8. CASE m.delegatee = Zero
      <4>1. /\ Reps' = [Reps EXCEPT ![m.signatory] = m.signatory]
            /\ voided' = [voided EXCEPT ![m.signatory] = @ + Ledger!Cardinality(Ledger!TokensOf(m.signatory))]
        BY <3>2, <3>6, <3>7, <3>8 DEF Cardinality, Ledger!Cardinality, IsFiniteSet, Ledger!IsFiniteSet
      <4> QED  BY <3>1, <3>3, <3>4, <3>5, <3>8, <4>1
          DEF Ledger!Next, Ledger!ChooseBySignature, Reps, Past, Spent
    <3>9. CASE m.delegatee # Zero
      <4>1. Reps' = [Reps EXCEPT ![m.signatory] = m.delegatee] /\ voided' = voided
        BY <3>2, <3>6, <3>9
      <4> QED  BY <3>1, <3>3, <3>4, <3>5, <3>9, <4>1
          DEF Ledger!Next, Ledger!ChooseBySignature, Reps, Past, Spent
    <3> QED  BY <3>8, <3>9
  <2>7. NextBlock => Ledger!Next  BY <2>1, BlockStep DEF Ledger!Next
  <2>8. UNCHANGED vars => UNCHANGED Mapped
    BY DEF vars, Reps, Past, Spent, Delegates, GetPriorVotes
  <2> QED  BY <1>2, <2>2, <2>3, <2>4, <2>5, <2>6, <2>7, <2>8 DEF Next
<1>3. Inv /\ [Next]_vars => [Ledger!Next]_(Ledger!vars)
  BY <1>2 DEF Ledger!vars, Reps, Past, Spent
<1>4. Init => Inv  BY InitVotesInv
<1>5. ASSUME Inv, [Next]_vars
      PROVE  Inv'
  <2>1. VotesInv'  BY <1>5, NextVotesInv
  <2>2. HistoryInv  BY <1>5 DEF VotesInv, HistoryInv
  <2>3. HistoryInv'  BY <1>5, <2>2, NextHistoryInv
  <2> QED  BY <2>1, <2>3 DEF HistoryInv
<1>6. Inv /\ [Next]_vars => Inv'  BY <1>5
<1> QED  BY <1>1, <1>3, <1>4, <1>6, PTL DEF Spec, ImplementsLedger, Ledger!Spec
=============================================================================
