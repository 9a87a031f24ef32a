------------------------ MODULE AlpsSubgraph_proofs ------------------------
(***************************************************************************)
(* Proofs about the subgraph: its entities follow the contracts, for any   *)
(* accounts, Alps, proposals, parameters and bounds.                       *)
(***************************************************************************)
EXTENDS AlpsSubgraph, SequenceTheorems, FiniteSetTheorems, WellFoundedInduction, TLAPS

-----------------------------------------------------------------------------
(* Induction on the natural numbers, for the loops: about sets, not predicates. *)

\* A set that holds 0 and the successor of each of its numbers holds them all.
LEMMA SetInduction ==
    ASSUME NEW S, 0 \in S, \A n \in Nat : n \in S => n + 1 \in S
    PROVE  Nat \subseteq S
<1> DEFINE R == OpToRel(<, Nat)
           T == Nat \ S
<1>1. IsWellFoundedOn(R, Nat)  BY NatLessThanWellFounded
<1>2. \A x, y \in Nat : x < y => <<x, y>> \in R  BY DEF R, OpToRel
<1> HIDE DEF R
<1>3. CASE T # {}
  <2>1. PICK n \in T : \A m \in T : ~(<<m, n>> \in R)  BY <1>1, <1>3, WFMin
  <2>2. n \in Nat /\ n # 0 /\ n - 1 \in Nat /\ n - 1 \notin S  OBVIOUS
  <2>3. n - 1 < n  BY <2>2
  <2>4. <<n - 1, n>> \in R  BY <1>2, <2>2, <2>3
  <2> QED  BY <2>1, <2>2, <2>4
<1> QED  BY <1>3

\* A set of numbers up to a bound that is not empty has a greatest element.
LEMMA GreatestNatural ==
    ASSUME NEW N \in Nat, NEW T \in SUBSET (0..N), T # {}
    PROVE  \E n \in T : \A m \in T : m <= n
<1> DEFINE Has(U) == \E n \in U : \A m \in U : m <= n
           S == {n \in Nat : \A U \in SUBSET (0..n) : U # {} => Has(U)}
<1>1. 0 \in S
  <2>1. ASSUME NEW U \in SUBSET (0..0), U # {} PROVE Has(U)
    <3>1. \A m \in U : m = 0  OBVIOUS
    <3>2. 0 \in U  BY <2>1, <3>1
    <3> QED  BY <3>1, <3>2
  <2> QED  BY <2>1
<1>2. ASSUME NEW n \in Nat, n \in S, NEW U \in SUBSET (0..n + 1), U # {} PROVE Has(U)
  <2>1. CASE n + 1 \in U  BY <2>1
  <2>2. CASE n + 1 \notin U
    <3>1. U \in SUBSET (0..n)  BY <2>2
    <3> QED  BY <1>2, <3>1
  <2> QED  BY <2>1, <2>2
<1>3. \A n \in Nat : n \in S => n + 1 \in S  BY <1>2
<1> HIDE DEF S
<1>4. N \in S  BY <1>1, <1>3, SetInduction
<1> QED  BY <1>4 DEF S

-----------------------------------------------------------------------------
(* The events of a transaction, one after another.                         *)

\* FoldLeft is an entry of the table g of the stores after some of the events of q.
Step(s, q, g, T) == IF T = {} THEN s ELSE Handle(g[T \ {Max(T)}], q[Max(T)])
IsRun(s, q, g) == g = [T \in SUBSET DOMAIN q |-> Step(s, q, g, T)]

\* The last of some of the positions of a list.
LEMMA LastPosition ==
    ASSUME NEW n \in Nat, NEW T \in SUBSET (1..n), T # {}
    PROVE  /\ Max(T) \in T
           /\ T \ {Max(T)} \in SUBSET (1..n)
           /\ IsFiniteSet(T) /\ Cardinality(T) \in Nat
           /\ Cardinality(T \ {Max(T)}) = Cardinality(T) - 1
<1>1. T \in SUBSET (0..n)  OBVIOUS
<1>2. \E x \in T : \A y \in T : y <= x  BY <1>1, GreatestNatural
<1>3. \E x \in T : \A y \in T : x >= y
  <2>1. PICK x \in T : \A y \in T : y <= x  BY <1>2
  <2>2. \A y \in T : x >= y  BY <2>1
  <2> QED  BY <2>2
<1>4. Max(T) \in T  BY <1>3 DEF Max
<1>5. IsFiniteSet(T)
  <2>1. IsFiniteSet(1..n)  BY FS_Interval
  <2> QED  BY <2>1, FS_Subset
<1> QED  BY <1>4, <1>5, FS_RemoveElement, FS_CardinalityType

\* There is such a table.
LEMMA RunExists ==
    ASSUME NEW s, NEW q, NEW n \in Nat, DOMAIN q = 1..n
    PROVE  \E g : IsRun(s, q, g)
<1> DEFINE Agrees(g, k) == \A T \in SUBSET (1..n) : Cardinality(T) <= k => g[T] = Step(s, q, g, T)
           S == {k \in Nat : \E g : Agrees(g, k)}
<1>1. \A T \in SUBSET (1..n) : Cardinality(T) \in Nat /\ (T = {} <=> Cardinality(T) = 0)
  <2>1. IsFiniteSet(1..n)  BY FS_Interval
  <2> QED  BY <2>1, FS_Subset, FS_CardinalityType, FS_EmptySet
<1>2. 0 \in S
  <2> DEFINE g == [T \in SUBSET (1..n) |-> s]
  <2>1. ASSUME NEW T \in SUBSET (1..n), Cardinality(T) <= 0
        PROVE  g[T] = Step(s, q, g, T)
    <3>1. T = {}  BY <1>1, <2>1
    <3> QED  BY <3>1 DEF Step
  <2> HIDE DEF g
  <2>2. Agrees(g, 0)  BY <2>1
  <2> QED  BY <2>2
<1>3. ASSUME NEW k \in Nat, k \in S
      PROVE  k + 1 \in S
  <2>1. PICK g : Agrees(g, k)  BY <1>3
  <2> DEFINE h == [T \in SUBSET (1..n) |-> Step(s, q, g, T)]
  <2>2. \A T \in SUBSET (1..n) : h[T] = Step(s, q, g, T)  OBVIOUS
  <2> HIDE DEF h
  <2>3. ASSUME NEW T \in SUBSET (1..n), Cardinality(T) <= k + 1
        PROVE  h[T] = Step(s, q, h, T)
    <3>1. CASE T = {}  BY <2>2, <3>1 DEF Step
    <3>2. CASE T # {}
      <4>1. /\ T \ {Max(T)} \in SUBSET (1..n)
            /\ Cardinality(T \ {Max(T)}) = Cardinality(T) - 1 /\ Cardinality(T) \in Nat
        BY <3>2, LastPosition
      <4>2. Cardinality(T \ {Max(T)}) <= k  BY <2>3, <4>1
      <4>3. h[T \ {Max(T)}] = g[T \ {Max(T)}]  BY <2>1, <2>2, <4>1, <4>2
      <4> QED  BY <2>2, <3>2, <4>3 DEF Step
    <3> QED  BY <3>1, <3>2
  <2>4. Agrees(h, k + 1)  BY <2>3
  <2> QED  BY <2>4
<1>4. Nat \subseteq S
  <2> HIDE DEF S
  <2> QED  BY <1>2, <1>3, SetInduction
<1>5. PICK g : Agrees(g, n)  BY <1>4
<1>6. \A T \in SUBSET (1..n) : Cardinality(T) <= n
  <2>1. IsFiniteSet(1..n) /\ Cardinality(1..n) = n  BY FS_Interval
  <2> QED  BY <2>1, FS_Subset
<1>7. \A T \in SUBSET (1..n) : g[T] = Step(s, q, g, T)  BY <1>5, <1>6
<1> DEFINE h == [T \in SUBSET (1..n) |-> g[T]]
<1>8. \A T \in SUBSET (1..n) : h[T] = g[T]  OBVIOUS
<1>9. ASSUME NEW T \in SUBSET (1..n)
      PROVE  h[T] = Step(s, q, h, T)
  <2> HIDE DEF h
  <2>1. CASE T = {}  BY <1>7, <1>8, <2>1 DEF Step
  <2>2. CASE T # {}
    <3>1. T \ {Max(T)} \in SUBSET (1..n)  BY <2>2, LastPosition
    <3> QED  BY <1>7, <1>8, <2>2, <3>1 DEF Step
  <2> QED  BY <2>1, <2>2
<1>10. h = [T \in SUBSET (1..n) |-> h[T]]  OBVIOUS
<1> HIDE DEF h
<1>11. h = [T \in SUBSET (1..n) |-> Step(s, q, h, T)]  BY <1>9, <1>10
<1> QED  BY <1>11 DEF IsRun

\* FoldLeft is its last entry.
LEMMA FoldIsEntry ==
    ASSUME NEW s, NEW q, NEW n \in Nat, DOMAIN q = 1..n
    PROVE  \E g : IsRun(s, q, g) /\ FoldLeft(Handle, s, q) = g[1..n]
<1> DEFINE g == CHOOSE h : IsRun(s, q, h)
<1>1. FoldLeft(Handle, s, q) = (CHOOSE h : h = [T \in SUBSET DOMAIN q |-> Step(s, q, h, T)])[DOMAIN q]
  BY DEF FoldLeft, MapThenFoldSet, Step
<1>2. FoldLeft(Handle, s, q) = g[1..n]  BY <1>1 DEF IsRun
<1>3. IsRun(s, q, g)  BY RunExists
<1> QED  BY <1>2, <1>3

Handled(s, events) == FoldLeft(Handle, s, events)

\* No events, no change.
LEMMA NothingHandled ==
    ASSUME NEW s
    PROVE  Handled(s, << >>) = s
<1>1. 0 \in Nat /\ DOMAIN << >> = 1..0  OBVIOUS
<1>2. PICK g : IsRun(s, << >>, g) /\ FoldLeft(Handle, s, << >>) = g[1..0]  BY <1>1, FoldIsEntry
<1>3. 1..0 = {} /\ {} \in SUBSET DOMAIN << >>  OBVIOUS
<1> QED  BY <1>2, <1>3 DEF IsRun, Step, Handled

\* The last event is handled in the store the others leave.
LEMMA LastHandled ==
    ASSUME NEW s, NEW E, NEW q \in Seq(E), NEW e
    PROVE  Handled(s, Append(q, e)) = Handle(Handled(s, q), e)
<1> DEFINE n == Len(q)
           r == Append(q, e)
<1>1. n \in Nat /\ DOMAIN q = 1..n /\ DOMAIN r = 1..(n + 1) /\ r[n + 1] = e /\ n + 1 \in Nat
  OBVIOUS
<1>2. \A i \in 1..n : r[i] = q[i]  OBVIOUS
<1> HIDE DEF n, r
<1>3. PICK g : IsRun(s, q, g) /\ FoldLeft(Handle, s, q) = g[1..n]  BY <1>1, FoldIsEntry
<1>4. PICK h : IsRun(s, r, h) /\ FoldLeft(Handle, s, r) = h[1..(n + 1)]  BY <1>1, FoldIsEntry
<1>5. \A T \in SUBSET (1..n) : g[T] = Step(s, q, g, T)  BY <1>1, <1>3 DEF IsRun
<1>6. \A T \in SUBSET (1..(n + 1)) : h[T] = Step(s, r, h, T)  BY <1>1, <1>4 DEF IsRun
<1> DEFINE S == {k \in Nat : \A T \in SUBSET (1..n) : Cardinality(T) <= k => g[T] = h[T]}
<1>7. \A T \in SUBSET (1..n) : T \in SUBSET (1..(n + 1))  BY <1>1
<1>8. 0 \in S
  <2> SUFFICES ASSUME NEW T \in SUBSET (1..n), Cardinality(T) <= 0 PROVE g[T] = h[T]
    OBVIOUS
  <2>1. CASE T = {}  BY <1>5, <1>6, <1>7, <2>1 DEF Step
  <2>2. CASE T # {}
    <3>1. IsFiniteSet(T) /\ Cardinality(T) \in Nat  BY <1>1, <2>2, LastPosition
    <3>2. Cardinality(T) = 0  BY <3>1
    <3> QED  BY <2>2, <3>1, <3>2, FS_EmptySet
  <2> QED  BY <2>1, <2>2
<1>9. ASSUME NEW k \in Nat, k \in S PROVE k + 1 \in S
  <2> SUFFICES ASSUME NEW T \in SUBSET (1..n), Cardinality(T) <= k + 1 PROVE g[T] = h[T]
    OBVIOUS
  <2>1. CASE T = {}  BY <1>5, <1>6, <1>7, <2>1 DEF Step
  <2>2. CASE T # {}
    <3>1. /\ Max(T) \in 1..n /\ T \ {Max(T)} \in SUBSET (1..n)
          /\ Cardinality(T \ {Max(T)}) = Cardinality(T) - 1 /\ Cardinality(T) \in Nat
      BY <1>1, <2>2, LastPosition
    <3>2. g[T \ {Max(T)}] = h[T \ {Max(T)}]  BY <1>9, <3>1
    <3>3. g[T] = Handle(g[T \ {Max(T)}], q[Max(T)])  BY <1>5, <2>2 DEF Step
    <3>4. h[T] = Handle(h[T \ {Max(T)}], r[Max(T)])  BY <1>6, <1>7, <2>2 DEF Step
    <3> QED  BY <1>2, <3>1, <3>2, <3>3, <3>4
  <2> QED  BY <2>1, <2>2
<1>10. Nat \subseteq S
  <2> HIDE DEF S
  <2> QED  BY <1>8, <1>9, SetInduction
<1>11. g[1..n] = h[1..n]
  <2>1. Cardinality(1..n) \in Nat
    <3>1. IsFiniteSet(1..n)  BY <1>1, FS_Interval
    <3> QED  BY <3>1, FS_CardinalityType
  <2>2. Cardinality(1..n) \in S  BY <1>10, <2>1
  <2>3. \A k \in S : \A T \in SUBSET (1..n) : Cardinality(T) <= k => g[T] = h[T]  OBVIOUS
  <2>4. Cardinality(1..n) <= Cardinality(1..n)  BY <2>1
  <2>5. 1..n \in SUBSET (1..n)  OBVIOUS
  <2> HIDE DEF S
  <2> QED  BY <2>2, <2>3, <2>4, <2>5
<1>12. Max(1..(n + 1)) = n + 1
  <2>1. /\ n + 1 \in 1..(n + 1)
        /\ \A y \in 1..(n + 1) : n + 1 >= y
        /\ \A x \in 1..(n + 1) : x >= n + 1 => x = n + 1
    BY <1>1
  <2> QED  BY <2>1 DEF Max
<1>13. h[1..(n + 1)] = Handle(h[1..n], e)
  <2>1. 1..(n + 1) # {} /\ (1..(n + 1)) \ {n + 1} = 1..n
    <3>1. n + 1 \in 1..(n + 1)  BY <1>1
    <3>2. \A x : x \in (1..(n + 1)) \ {n + 1} <=> x \in 1..n  BY <1>1
    <3> QED  BY <3>1, <3>2
  <2> QED  BY <1>1, <1>6, <1>12, <2>1 DEF Step
<1> QED  BY <1>3, <1>4, <1>11, <1>13 DEF r, Handled
-----------------------------------------------------------------------------
(* The shape of the store, and what the helpers leave in it.               *)

Kinds == {"governance", "params", "accounts", "delegates", "alps", "auctions", "bids", "proposals",
          "votes"}
Counters == {"proposals", "totalTokenHolders", "currentTokenHolders", "currentDelegates",
             "totalDelegates", "delegatedVotes", "proposalsQueued"}
AccountFields == {"delegate", "balance", "held", "alps"}
DelegateFields == {"votes", "holders", "alps"}
ParamFields == {"min", "max", "coefficient", "start"}

IsGovernance(g) == DOMAIN g = Counters
IsAccount(account) == DOMAIN account = AccountFields
IsStore(s) ==
    /\ DOMAIN s = Kinds
    /\ IsGovernance(s.governance)
    /\ DOMAIN s.params = ParamFields
    /\ \A a \in DOMAIN s.accounts : IsAccount(s.accounts[a])
    /\ \A d \in DOMAIN s.delegates : DOMAIN s.delegates[d] = DelegateFields

\* What a handler about something else leaves alone.
SameGovernor(s, t) == t.proposals = s.proposals /\ t.params = s.params
SameAuctions(s, t) == t.auctions = s.auctions /\ t.alps = s.alps

\* The votes the store has for a delegate.
Counted(s, a) == IF a \in DOMAIN s.delegates THEN s.delegates[a].votes ELSE 0
SameVotes(s, t) ==
    /\ \A a : Counted(t, a) = Counted(s, a)
    /\ t.governance.delegatedVotes = s.governance.delegatedVotes
    /\ t.governance.currentDelegates = s.governance.currentDelegates

LEMMA GetAccount ==
    ASSUME NEW s, IsStore(s), NEW id, NEW t, t = GetOrCreateAccount(s, id)
    PROVE  /\ IsStore(t)
           /\ SameGovernor(s, t) /\ SameAuctions(s, t)
           /\ t.governance = s.governance /\ t.delegates = s.delegates
           /\ DOMAIN t.accounts = DOMAIN s.accounts \cup {id}
           /\ \A a \in DOMAIN s.accounts : t.accounts[a] = s.accounts[a]
           /\ id \notin DOMAIN s.accounts => t.accounts[id] = NewAccount
<1>1. CASE id \in DOMAIN s.accounts
  BY <1>1 DEF GetOrCreateAccount, SameGovernor, SameAuctions
<1>2. CASE id \notin DOMAIN s.accounts
  <2>1. PICK f : f = Put(s.accounts, id, NewAccount)  OBVIOUS
  <2>2. /\ DOMAIN f = DOMAIN s.accounts \cup {id} /\ f[id] = NewAccount
        /\ \A a \in DOMAIN s.accounts : a # id => f[a] = s.accounts[a]
    BY <2>1 DEF Put
  <2>3. IsAccount(NewAccount)  BY DEF NewAccount, AccountFields, IsAccount
  <2>4. t = [s EXCEPT !.accounts = f]  BY <1>2, <2>1 DEF GetOrCreateAccount
  <2>5. DOMAIN t = Kinds /\ t.accounts = f /\ t.governance = s.governance
        /\ t.delegates = s.delegates /\ t.proposals = s.proposals /\ t.params = s.params
        /\ t.auctions = s.auctions /\ t.alps = s.alps
    BY <2>4 DEF IsStore, Kinds
  <2> QED  BY <1>2, <2>2, <2>3, <2>5 DEF IsStore, SameGovernor, SameAuctions
<1> QED  BY <1>1, <1>2

\* The counters that a new delegate does not move.
SameTotals(g, h) ==
    /\ h.totalTokenHolders = g.totalTokenHolders
    /\ h.delegatedVotes = g.delegatedVotes
    /\ h.currentDelegates = g.currentDelegates

\* A delegate that is new has no votes.
LEMMA GetDelegate ==
    ASSUME NEW s, IsStore(s), NEW id, NEW t, t = GetOrCreateDelegate(s, id)
    PROVE  /\ IsStore(t)
           /\ SameGovernor(s, t) /\ SameAuctions(s, t) /\ SameVotes(s, t)
           /\ SameTotals(s.governance, t.governance)
           /\ t.accounts = s.accounts
           /\ DOMAIN t.delegates = DOMAIN s.delegates \cup {id}
<1>1. CASE id \in DOMAIN s.delegates
  BY <1>1 DEF GetOrCreateDelegate, SameGovernor, SameAuctions, SameVotes, SameTotals
<1>2. CASE id \notin DOMAIN s.delegates
  <2>1. PICK f : f = Put(s.delegates, id, NewDelegate)  OBVIOUS
  <2>2. PICK n : n = IF id = Zero THEN s.governance.totalDelegates
                     ELSE s.governance.totalDelegates + 1
    OBVIOUS
  <2>3. PICK g : g = [s.governance EXCEPT !.totalDelegates = n]  OBVIOUS
  <2>4. /\ DOMAIN f = DOMAIN s.delegates \cup {id} /\ f[id] = NewDelegate
        /\ \A a \in DOMAIN s.delegates : a # id => f[a] = s.delegates[a]
    BY <2>1 DEF Put
  <2>5. DOMAIN NewDelegate = DelegateFields /\ NewDelegate.votes = 0
    BY DEF NewDelegate, DelegateFields
  <2>6. IsGovernance(g) /\ SameTotals(s.governance, g)
    BY <2>3 DEF IsStore, IsGovernance, Counters, SameTotals
  <2>7. t = [s EXCEPT !.delegates = f, !.governance = g]
    <3>1. t = [s EXCEPT !.delegates = Put(@, id, NewDelegate),
                        !.governance.totalDelegates = IF id = Zero THEN @ ELSE @ + 1]
      BY <1>2 DEF GetOrCreateDelegate
    <3> QED  BY <3>1, <2>1, <2>2, <2>3 DEF IsStore, Kinds
  <2>8. /\ DOMAIN t = Kinds /\ t.delegates = f /\ t.governance = g /\ t.accounts = s.accounts
        /\ t.proposals = s.proposals /\ t.params = s.params
        /\ t.auctions = s.auctions /\ t.alps = s.alps
    BY <2>7 DEF IsStore, Kinds
  <2>9. ASSUME NEW a PROVE Counted(t, a) = Counted(s, a)
    BY <1>2, <2>4, <2>5, <2>8 DEF Counted
  <2>10. IsStore(t)  BY <2>4, <2>5, <2>6, <2>8 DEF IsStore
  <2> QED
    BY <2>4, <2>6, <2>8, <2>9, <2>10 DEF SameGovernor, SameAuctions, SameVotes, SameTotals
<1> QED  BY <1>1, <1>2

-----------------------------------------------------------------------------
(* A transfer.                                                             *)

\* Saving a delegate with other Alps does not change its votes.
AlpsSaved(s, d, alps) == [s EXCEPT !.delegates[d].alps = alps]

LEMMA DelegateAlps ==
    ASSUME NEW s, IsStore(s), NEW d, NEW alps, NEW t, t = AlpsSaved(s, d, alps)
    PROVE  /\ IsStore(t)
           /\ SameGovernor(s, t) /\ SameAuctions(s, t) /\ SameVotes(s, t)
           /\ t.governance = s.governance /\ t.accounts = s.accounts
<1>1. PICK r : r = [s.delegates[d] EXCEPT !.alps = alps]  OBVIOUS
<1>2. PICK f : f = [s.delegates EXCEPT ![d] = r]  OBVIOUS
<1>3. t = [s EXCEPT !.delegates = f]  BY <1>1, <1>2 DEF AlpsSaved
<1>4. /\ DOMAIN t = Kinds /\ t.delegates = f /\ t.governance = s.governance
      /\ t.accounts = s.accounts /\ t.proposals = s.proposals /\ t.params = s.params
      /\ t.auctions = s.auctions /\ t.alps = s.alps
  BY <1>3 DEF IsStore, Kinds
<1>5. d \in DOMAIN s.delegates => DOMAIN r = DelegateFields /\ r.votes = s.delegates[d].votes
  BY <1>1 DEF IsStore, DelegateFields
<1>6. /\ DOMAIN f = DOMAIN s.delegates
      /\ \A a \in DOMAIN f : f[a] = IF a = d THEN r ELSE s.delegates[a]
  BY <1>2
<1>7. ASSUME NEW a PROVE Counted(t, a) = Counted(s, a)
  BY <1>4, <1>5, <1>6 DEF Counted
<1>8. IsStore(t)  BY <1>4, <1>5, <1>6 DEF IsStore
<1> QED  BY <1>4, <1>7, <1>8 DEF SameGovernor, SameAuctions, SameVotes

\* Saving an account and the copy of the governance entity.
Changed(f, id, v) == [f EXCEPT ![id] = v]
Saved(s, id, account, g) == [s EXCEPT !.accounts[id] = account, !.governance = g]

LEMMA AccountSaved ==
    ASSUME NEW s, IsStore(s), NEW id, NEW account, IsAccount(account),
           NEW g, IsGovernance(g), SameTotals(s.governance, g),
           NEW t, t = Saved(s, id, account, g)
    PROVE  /\ IsStore(t)
           /\ SameGovernor(s, t) /\ SameAuctions(s, t) /\ SameVotes(s, t)
           /\ t.governance = g
           /\ t.accounts = Changed(s.accounts, id, account)
<1>1. PICK f : f = [s.accounts EXCEPT ![id] = account]  OBVIOUS
<1>2. t = [s EXCEPT !.accounts = f, !.governance = g]  BY <1>1 DEF Saved
<1>3. /\ DOMAIN t = Kinds /\ t.delegates = s.delegates /\ t.governance = g
      /\ t.accounts = f /\ t.proposals = s.proposals /\ t.params = s.params
      /\ t.auctions = s.auctions /\ t.alps = s.alps
  BY <1>2 DEF IsStore, Kinds
<1>4. /\ DOMAIN f = DOMAIN s.accounts
      /\ \A a \in DOMAIN f : f[a] = IF a = id THEN account ELSE s.accounts[a]
  BY <1>1
<1>5. IsStore(t)  BY <1>3, <1>4 DEF IsStore
<1> QED
  BY <1>1, <1>3, <1>5 DEF SameGovernor, SameAuctions, SameVotes, SameTotals, Counted, Changed

\* An account that loses the Alp t.
Taken(account, t) ==
    [account EXCEPT !.balance = @ - 1, !.alps = Without(@, {t}),
                    !.delegate = IF account.balance = 1 THEN None ELSE @]

\* The sender's half.
LEMMA FromHolderEffect ==
    ASSUME NEW s, IsStore(s), NEW g, IsGovernance(g), SameTotals(s.governance, g),
           NEW from, IsAccount(from), NEW e, NEW o, o = FromHolder(s, g, from, e),
           NEW st, st = o.store, NEW g2, g2 = o.g
    PROVE  /\ IsStore(st)
           /\ SameGovernor(s, st) /\ SameAuctions(s, st) /\ SameVotes(s, st)
           /\ SameTotals(s.governance, st.governance)
           /\ IsGovernance(g2) /\ SameTotals(s.governance, g2)
           /\ st.accounts = Changed(s.accounts, e.from, Taken(from, e.token))
<1>1. PICK n : n = IF from.balance = 1 THEN g.currentTokenHolders - 1 ELSE g.currentTokenHolders
  OBVIOUS
<1>2. PICK g1 : g1 = [g EXCEPT !.currentTokenHolders = n]  OBVIOUS
<1>3. IsGovernance(g1) /\ SameTotals(g, g1)  BY <1>2 DEF IsGovernance, Counters, SameTotals
<1>4. PICK s2 : s2 = GetOrCreateDelegate(s, from.delegate)  OBVIOUS
<1>5. PICK alps : alps = Without(s2.delegates[from.delegate].alps, {e.token})  OBVIOUS
<1>6. PICK s1 : s1 = IF from.delegate = None THEN s
                     ELSE AlpsSaved(s2, from.delegate, alps)
  OBVIOUS
<1>7. /\ IsStore(s2) /\ SameGovernor(s, s2) /\ SameAuctions(s, s2) /\ SameVotes(s, s2)
      /\ SameTotals(s.governance, s2.governance) /\ s2.accounts = s.accounts
  BY <1>4, GetDelegate
<1>8. /\ IsStore(s1) /\ SameGovernor(s, s1) /\ SameAuctions(s, s1) /\ SameVotes(s, s1)
      /\ SameTotals(s.governance, s1.governance) /\ s1.accounts = s.accounts
  <2>1. CASE from.delegate = None
    BY <1>6, <2>1 DEF SameGovernor, SameAuctions, SameVotes, SameTotals
  <2>2. CASE from.delegate # None
    <3>1. s1 = AlpsSaved(s2, from.delegate, alps)  BY <1>6, <2>2
    <3>2. /\ IsStore(s1) /\ SameGovernor(s2, s1) /\ SameAuctions(s2, s1) /\ SameVotes(s2, s1)
          /\ s1.governance = s2.governance /\ s1.accounts = s2.accounts
      BY <1>7, <3>1, DelegateAlps
    <3> QED  BY <1>7, <3>2 DEF SameGovernor, SameAuctions, SameVotes
  <2> QED  BY <2>1, <2>2
<1>9. PICK from1 : from1 = Taken(from, e.token)  OBVIOUS
<1>10. IsAccount(from1)  BY <1>9 DEF Taken, IsAccount
<1>11. PICK h : h = IF from.balance = 1 THEN g1 ELSE s1.governance  OBVIOUS
<1>12. IsGovernance(h) /\ SameTotals(s1.governance, h)
  BY <1>3, <1>8, <1>11 DEF IsStore, SameTotals
<1>13. o = [g |-> g1, store |-> [s1 EXCEPT !.accounts[e.from] = from1, !.governance = h]]
  <2>1. g1 = [g EXCEPT !.currentTokenHolders = IF from.balance = 1 THEN @ - 1 ELSE @]
    BY <1>1, <1>2
  <2>2. from1 = [from EXCEPT !.balance = @ - 1, !.alps = Without(@, {e.token}),
                             !.delegate = IF from.balance = 1 THEN None ELSE @]
    BY <1>9 DEF Taken, IsAccount
  <2>3. s1 = IF from.delegate = None THEN s
             ELSE [s2 EXCEPT !.delegates[from.delegate].alps = Without(@, {e.token})]
    BY <1>5, <1>6 DEF AlpsSaved
  <2>4. [s1 EXCEPT !.accounts[e.from] = from1, !.governance = h]
          = [s1 EXCEPT !.accounts[e.from] = from1,
                       !.governance = IF from.balance = 1 THEN g1 ELSE @]
    BY <1>11 DEF IsStore, Kinds
  <2> QED  BY <1>4, <2>1, <2>2, <2>3, <2>4 DEF FromHolder
<1>14. PICK id : id = e.from  OBVIOUS
<1>15. PICK t : t = Saved(s1, id, from1, h)  OBVIOUS
<1>16. o.g = g1 /\ o.store = t  BY <1>13, <1>14, <1>15 DEF Saved
<1>17. /\ IsStore(t) /\ SameGovernor(s1, t) /\ SameAuctions(s1, t) /\ SameVotes(s1, t)
       /\ t.governance = h /\ t.accounts = Changed(s1.accounts, id, from1)
  BY <1>8, <1>10, <1>12, <1>15, AccountSaved
<1> QED
  BY <1>3, <1>8, <1>9, <1>12, <1>14, <1>16, <1>17
     DEF SameGovernor, SameAuctions, SameVotes, SameTotals

\* An account that gets the Alp t.
Given(account, id, t) ==
    [delegate |-> IF account.balance = 0 THEN id ELSE account.delegate,
     balance |-> account.balance + 1, held |-> account.held + 1, alps |-> Append(account.alps, t)]

\* The receiver's half.
LEMMA ToHolderEffect ==
    ASSUME NEW s, IsStore(s), NEW g, IsGovernance(g), SameTotals(s.governance, g),
           NEW to, IsAccount(to), NEW e, NEW t, t = ToHolder(s, g, to, e)
    PROVE  /\ IsStore(t)
           /\ SameGovernor(s, t) /\ SameVotes(s, t)
           /\ t.auctions = s.auctions /\ t.alps = Put(s.alps, e.token, e.to)
           /\ SameTotals(s.governance, t.governance)
           /\ t.accounts = Changed(s.accounts, e.to, Given(to, e.to, e.token))
<1>1. PICK r : r = IF to.delegate = None THEN e.to ELSE to.delegate  OBVIOUS
<1>2. PICK s1 : s1 = GetOrCreateDelegate(s, r)  OBVIOUS
<1>3. PICK alps : alps = Append(s1.delegates[r].alps, e.token)  OBVIOUS
<1>4. PICK s2 : s2 = AlpsSaved(s1, r, alps)  OBVIOUS
<1>5. PICK g1 : g1 = [g EXCEPT !.currentTokenHolders = @ + 1]  OBVIOUS
<1>6. PICK h : h = IF to.balance = 0 THEN g1 ELSE s2.governance  OBVIOUS
<1>7. PICK id : id = e.to  OBVIOUS
<1>8. PICK to1 : to1 = Given(to, id, e.token)  OBVIOUS
<1>9. PICK s3 : s3 = Saved(s2, id, to1, h)  OBVIOUS
<1>10. PICK f : f = Put(s3.alps, e.token, id)  OBVIOUS
<1>11. /\ IsStore(s1) /\ SameGovernor(s, s1) /\ SameAuctions(s, s1) /\ SameVotes(s, s1)
       /\ SameTotals(s.governance, s1.governance) /\ s1.accounts = s.accounts
  BY <1>2, GetDelegate
<1>12. /\ IsStore(s2) /\ SameGovernor(s1, s2) /\ SameAuctions(s1, s2) /\ SameVotes(s1, s2)
       /\ s2.governance = s1.governance /\ s2.accounts = s1.accounts
  BY <1>4, <1>11, DelegateAlps
<1>13. IsGovernance(g1) /\ SameTotals(g, g1)
  BY <1>5 DEF IsGovernance, Counters, SameTotals
<1>14. IsGovernance(h) /\ SameTotals(s2.governance, h)
  BY <1>6, <1>11, <1>12, <1>13 DEF IsStore, SameTotals
<1>15. IsAccount(to1)  BY <1>8 DEF Given, IsAccount, AccountFields
<1>16. /\ IsStore(s3) /\ SameGovernor(s2, s3) /\ SameAuctions(s2, s3) /\ SameVotes(s2, s3)
       /\ s3.governance = h /\ s3.accounts = Changed(s2.accounts, id, to1)
  BY <1>9, <1>12, <1>14, <1>15, AccountSaved
<1>17. t = [s3 EXCEPT !.alps = f]
  <2>1. t = [s1 EXCEPT !.delegates[r].alps = Append(@, e.token),
                       !.governance = IF to.balance = 0
                                      THEN [g EXCEPT !.currentTokenHolders = @ + 1] ELSE @,
                       !.alps = Put(@, e.token, e.to),
                       !.accounts[e.to] = to1]
    BY <1>1, <1>2, <1>7, <1>8 DEF ToHolder, Given
  <2>2. PICK ds : ds = [s1.delegates EXCEPT ![r].alps = alps]  OBVIOUS
  <2>3. PICK as : as = [s1.accounts EXCEPT ![id] = to1]  OBVIOUS
  <2>4. s1.alps = s3.alps /\ s2.governance = s1.governance /\ s2.accounts = s1.accounts
    BY <1>12, <1>16 DEF SameAuctions
  <2>5. t = [s1 EXCEPT !.delegates = ds, !.governance = h, !.alps = f, !.accounts = as]
    <3>1. /\ DOMAIN s1 = Kinds
          /\ ds = [s1.delegates EXCEPT ![r].alps = Append(@, e.token)]
          /\ h = IF to.balance = 0 THEN [g EXCEPT !.currentTokenHolders = @ + 1]
                 ELSE s1.governance
          /\ f = Put(s1.alps, e.token, e.to)
          /\ as = [s1.accounts EXCEPT ![e.to] = to1]
      BY <1>3, <1>5, <1>6, <1>7, <1>10, <1>11, <2>2, <2>3, <2>4 DEF IsStore
    <3> QED  BY <2>1, <3>1 DEF Kinds
  <2>6. s3 = [s1 EXCEPT !.delegates = ds, !.accounts = as, !.governance = h]
    BY <1>4, <1>9, <1>11, <2>2, <2>3, <2>4 DEF Saved, AlpsSaved, IsStore, Kinds
  <2> QED  BY <1>11, <2>5, <2>6 DEF IsStore, Kinds
<1>18. /\ DOMAIN t = Kinds /\ t.alps = f /\ t.governance = s3.governance
       /\ t.accounts = s3.accounts /\ t.delegates = s3.delegates /\ t.proposals = s3.proposals
       /\ t.params = s3.params /\ t.auctions = s3.auctions
  BY <1>16, <1>17 DEF IsStore, Kinds
<1>19. IsStore(t) /\ SameGovernor(s3, t) /\ SameVotes(s3, t)
  BY <1>16, <1>18 DEF IsStore, SameGovernor, SameVotes, Counted
<1> QED
  BY <1>7, <1>8, <1>10, <1>11, <1>12, <1>14, <1>16, <1>18, <1>19
     DEF SameGovernor, SameAuctions, SameVotes, SameTotals

\* Saving the governance entity.
GovernanceSaved(s, g) == [s EXCEPT !.governance = g]
SameCounts(g, h) ==
    h.delegatedVotes = g.delegatedVotes /\ h.currentDelegates = g.currentDelegates

LEMMA GovernanceSavedEffect ==
    ASSUME NEW s, IsStore(s), NEW g, IsGovernance(g), SameCounts(s.governance, g),
           NEW t, t = GovernanceSaved(s, g)
    PROVE  /\ IsStore(t)
           /\ SameGovernor(s, t) /\ SameAuctions(s, t) /\ SameVotes(s, t)
           /\ t.governance = g /\ t.accounts = s.accounts
<1>1. /\ DOMAIN t = Kinds /\ t.delegates = s.delegates /\ t.governance = g
      /\ t.accounts = s.accounts /\ t.proposals = s.proposals /\ t.params = s.params
      /\ t.auctions = s.auctions /\ t.alps = s.alps
  BY DEF IsStore, Kinds, GovernanceSaved
<1> QED
  BY <1>1 DEF IsStore, SameGovernor, SameAuctions, SameVotes, SameCounts, Counted

\* The account as a handler sees it: a new one when there is none.
AccountOf(s, a) == IF a \in DOMAIN s.accounts THEN s.accounts[a] ELSE NewAccount

\* What a transfer makes of the accounts.
AccountsMoved(s, t, e) ==
    /\ DOMAIN t.accounts = DOMAIN s.accounts \cup {e.from, e.to}
    /\ \A a : a \notin {e.from, e.to} => AccountOf(t, a) = AccountOf(s, a)
    /\ e.from # e.to =>
         /\ e.from # Zero => AccountOf(t, e.from) = Taken(AccountOf(s, e.from), e.token)
         /\ AccountOf(t, e.to) = Given(AccountOf(s, e.to), e.to, e.token)

\* A transfer moves one Alp, and no votes.
TransferMade(s, t, e, n) ==
    /\ IsStore(t)
    /\ SameGovernor(s, t) /\ SameVotes(s, t)
    /\ t.auctions = s.auctions /\ t.alps = Put(s.alps, e.token, e.to)
    /\ t.governance.totalTokenHolders =
         n + (IF e.from = Zero THEN 1 ELSE 0) - (IF e.to = Zero THEN 1 ELSE 0)
    /\ AccountsMoved(s, t, e)

LEMMA TransferEffect ==
    ASSUME NEW s, IsStore(s), NEW n \in Int, s.governance.totalTokenHolders = n,
           NEW e, NEW t, t = HandleTransfer(s, e)
    PROVE  TransferMade(s, t, e, n)
<1>1. PICK s0 : s0 = GetOrCreateAccount(s, e.from)  OBVIOUS
<1>2. PICK s1 : s1 = GetOrCreateAccount(s0, e.to)  OBVIOUS
<1>3. /\ IsStore(s0) /\ SameGovernor(s, s0) /\ SameAuctions(s, s0)
      /\ s0.governance = s.governance /\ s0.delegates = s.delegates
      /\ DOMAIN s0.accounts = DOMAIN s.accounts \cup {e.from}
      /\ \A a : AccountOf(s0, a) = AccountOf(s, a)
  <2>1. /\ IsStore(s0) /\ SameGovernor(s, s0) /\ SameAuctions(s, s0)
        /\ s0.governance = s.governance /\ s0.delegates = s.delegates
        /\ DOMAIN s0.accounts = DOMAIN s.accounts \cup {e.from}
        /\ \A a \in DOMAIN s.accounts : s0.accounts[a] = s.accounts[a]
        /\ e.from \notin DOMAIN s.accounts => s0.accounts[e.from] = NewAccount
    BY <1>1, GetAccount
  <2> QED  BY <2>1 DEF AccountOf
<1>4. /\ IsStore(s1) /\ SameGovernor(s, s1) /\ SameAuctions(s, s1) /\ SameVotes(s, s1)
      /\ s1.governance = s.governance
      /\ DOMAIN s1.accounts = DOMAIN s.accounts \cup {e.from, e.to}
      /\ \A a : AccountOf(s1, a) = AccountOf(s, a)
  <2>1. /\ IsStore(s1) /\ SameGovernor(s0, s1) /\ SameAuctions(s0, s1)
        /\ s1.governance = s0.governance /\ s1.delegates = s0.delegates
        /\ DOMAIN s1.accounts = DOMAIN s0.accounts \cup {e.to}
        /\ \A a \in DOMAIN s0.accounts : s1.accounts[a] = s0.accounts[a]
        /\ e.to \notin DOMAIN s0.accounts => s1.accounts[e.to] = NewAccount
    BY <1>2, <1>3, GetAccount
  <2>2. \A a : AccountOf(s1, a) = AccountOf(s0, a)  BY <2>1 DEF AccountOf
  <2>3. SameVotes(s, s1)  BY <1>3, <2>1 DEF SameVotes, Counted
  <2> QED  BY <1>3, <2>1, <2>2, <2>3 DEF SameGovernor, SameAuctions
<1>5. PICK from : from = s1.accounts[e.from]  OBVIOUS
<1>6. PICK to : to = s1.accounts[e.to]  OBVIOUS
<1>7. /\ IsAccount(from) /\ IsAccount(to)
      /\ from = AccountOf(s, e.from) /\ to = AccountOf(s, e.to)
  <2>1. e.from \in DOMAIN s1.accounts /\ e.to \in DOMAIN s1.accounts  BY <1>4
  <2>2. from = AccountOf(s1, e.from) /\ to = AccountOf(s1, e.to)  BY <1>5, <1>6, <2>1 DEF AccountOf
  <2> QED  BY <1>4, <1>5, <1>6, <2>1, <2>2 DEF IsStore
<1>8. PICK g1 : g1 = [s1.governance EXCEPT !.totalTokenHolders = @ + 1]  OBVIOUS
<1>9. /\ IsGovernance(g1) /\ SameCounts(s1.governance, g1) /\ g1.totalTokenHolders = n + 1
  BY <1>4, <1>8 DEF IsStore, IsGovernance, Counters, SameCounts
<1>10. PICK out : out = IF e.from = Zero THEN [g |-> g1, store |-> GovernanceSaved(s1, g1)]
                        ELSE FromHolder(s1, s1.governance, from, e)
  OBVIOUS
<1>11. PICK g2 : g2 = [out.g EXCEPT !.totalTokenHolders = @ - 1]  OBVIOUS
<1>12. PICK in : in = IF e.to = Zero THEN [g |-> g2, store |-> GovernanceSaved(out.store, g2)]
                      ELSE out
  OBVIOUS
<1>13. t = ToHolder(in.store, in.g, to, e)
  BY <1>1, <1>2, <1>5, <1>6, <1>8, <1>10, <1>11, <1>12 DEF HandleTransfer, GovernanceSaved
<1> DEFINE m == n + (IF e.from = Zero THEN 1 ELSE 0)
           accounts == IF e.from = Zero THEN s1.accounts
                       ELSE Changed(s1.accounts, e.from, Taken(from, e.token))
<1>14. /\ IsStore(out.store) /\ SameGovernor(s1, out.store) /\ SameAuctions(s1, out.store)
       /\ SameVotes(s1, out.store)
       /\ IsGovernance(out.g) /\ SameTotals(out.store.governance, out.g)
       /\ out.g.totalTokenHolders = m
       /\ out.store.accounts = accounts
  <2>1. CASE e.from = Zero
    <3>1. PICK s2 : s2 = GovernanceSaved(s1, g1)  OBVIOUS
    <3>2. out.g = g1 /\ out.store = s2  BY <1>10, <2>1, <3>1
    <3>3. /\ IsStore(s2) /\ SameGovernor(s1, s2) /\ SameAuctions(s1, s2) /\ SameVotes(s1, s2)
          /\ s2.governance = g1 /\ s2.accounts = s1.accounts
      BY <1>4, <1>9, <3>1, GovernanceSavedEffect
    <3>4. SameTotals(s2.governance, g1)  BY <3>3 DEF SameTotals
    <3> QED  BY <1>9, <2>1, <3>2, <3>3, <3>4
  <2>2. CASE e.from # Zero
    <3>1. PICK g : g = s1.governance  OBVIOUS
    <3>2. /\ out = FromHolder(s1, g, from, e) /\ IsAccount(from) /\ IsStore(s1)
          /\ IsGovernance(g) /\ SameTotals(s1.governance, g)
      BY <1>4, <1>7, <1>10, <2>2, <3>1 DEF IsStore, SameTotals
    <3>3. PICK s2 : s2 = out.store  OBVIOUS
    <3>4. PICK g3 : g3 = out.g  OBVIOUS
    <3>5. /\ IsStore(s2)
          /\ SameGovernor(s1, s2) /\ SameAuctions(s1, s2) /\ SameVotes(s1, s2)
          /\ SameTotals(s1.governance, s2.governance)
          /\ IsGovernance(g3) /\ SameTotals(s1.governance, g3)
          /\ s2.accounts = Changed(s1.accounts, e.from, Taken(from, e.token))
      BY <3>2, <3>3, <3>4, FromHolderEffect
    <3>6. SameTotals(s2.governance, g3) /\ g3.totalTokenHolders = n
      BY <1>4, <3>5 DEF SameTotals
    <3> QED  BY <2>2, <3>3, <3>4, <3>5, <3>6
  <2> QED  BY <2>1, <2>2
<1>15. m \in Int  OBVIOUS
<1> DEFINE k == m - (IF e.to = Zero THEN 1 ELSE 0)
<1> HIDE DEF m, accounts
<1>16. /\ IsStore(in.store) /\ SameGovernor(s1, in.store) /\ SameAuctions(s1, in.store)
       /\ SameVotes(s1, in.store)
       /\ IsGovernance(in.g) /\ SameTotals(in.store.governance, in.g)
       /\ in.g.totalTokenHolders = k
       /\ in.store.accounts = accounts
  <2>1. CASE e.to = Zero
    <3>1. PICK s2 : s2 = GovernanceSaved(out.store, g2)  OBVIOUS
    <3>2. in.g = g2 /\ in.store = s2  BY <1>12, <2>1, <3>1
    <3>3. /\ IsGovernance(g2) /\ SameCounts(out.store.governance, g2)
          /\ g2.totalTokenHolders = m - 1
      BY <1>11, <1>14, <1>15 DEF IsGovernance, Counters, SameCounts, SameTotals
    <3>4. /\ IsStore(s2) /\ SameGovernor(out.store, s2) /\ SameAuctions(out.store, s2)
          /\ SameVotes(out.store, s2) /\ s2.governance = g2 /\ s2.accounts = out.store.accounts
      BY <1>14, <3>1, <3>3, GovernanceSavedEffect
    <3>5. SameTotals(s2.governance, g2)  BY <3>4 DEF SameTotals
    <3>6. SameGovernor(s1, s2) /\ SameAuctions(s1, s2) /\ SameVotes(s1, s2)
      BY <1>14, <3>4 DEF SameGovernor, SameAuctions, SameVotes
    <3> QED  BY <1>14, <2>1, <3>2, <3>3, <3>4, <3>5, <3>6
  <2>2. CASE e.to # Zero
    BY <1>12, <1>14, <1>15, <2>2
  <2> QED  BY <2>1, <2>2
<1>17. PICK st : st = in.store  OBVIOUS
<1>18. PICK g : g = in.g  OBVIOUS
<1>19. /\ t = ToHolder(st, g, to, e) /\ IsAccount(to)
       /\ IsStore(st) /\ IsGovernance(g) /\ SameTotals(st.governance, g)
  BY <1>7, <1>13, <1>16, <1>17, <1>18
<1>20. /\ IsStore(t) /\ SameGovernor(st, t) /\ SameVotes(st, t)
       /\ t.auctions = st.auctions /\ t.alps = Put(st.alps, e.token, e.to)
       /\ SameTotals(st.governance, t.governance)
       /\ t.accounts = Changed(st.accounts, e.to, Given(to, e.to, e.token))
  BY <1>19, ToHolderEffect
<1>21. SameGovernor(s, t) /\ SameVotes(s, t)
  BY <1>4, <1>16, <1>17, <1>20 DEF SameGovernor, SameVotes
<1>22. t.auctions = s.auctions /\ t.alps = Put(s.alps, e.token, e.to)
  BY <1>4, <1>16, <1>17, <1>20 DEF SameAuctions
<1>23. t.governance.totalTokenHolders = k
  BY <1>16, <1>17, <1>18, <1>20 DEF SameTotals
<1>24. AccountsMoved(s, t, e)
  <2>1. t.accounts = Changed(accounts, e.to, Given(to, e.to, e.token))
    BY <1>16, <1>17, <1>20
  <2>2. DOMAIN accounts = DOMAIN s1.accounts
    BY DEF accounts, Changed
  <2>3. /\ DOMAIN t.accounts = DOMAIN s1.accounts
        /\ \A a \in DOMAIN s1.accounts :
             t.accounts[a] = IF a = e.to THEN Given(to, e.to, e.token) ELSE accounts[a]
    BY <2>1, <2>2 DEF Changed
  <2>4. \A a \in DOMAIN s1.accounts :
           accounts[a] = IF e.from # Zero /\ a = e.from THEN Taken(from, e.token)
                         ELSE s1.accounts[a]
    BY DEF accounts, Changed
  <2>5. ASSUME NEW a, a \notin {e.from, e.to}
        PROVE  AccountOf(t, a) = AccountOf(s, a)
    <3>1. AccountOf(t, a) = AccountOf(s1, a)  BY <2>3, <2>4, <2>5 DEF AccountOf
    <3> QED  BY <1>4, <3>1
  <2>6. e.from \in DOMAIN s1.accounts /\ e.to \in DOMAIN s1.accounts  BY <1>4
  <2>7. e.from # e.to =>
         /\ e.from # Zero => AccountOf(t, e.from) = Taken(from, e.token)
         /\ AccountOf(t, e.to) = Given(to, e.to, e.token)
    BY <2>3, <2>4, <2>6 DEF AccountOf
  <2> QED  BY <1>4, <1>7, <2>3, <2>5, <2>7 DEF AccountsMoved
<1> QED  BY <1>20, <1>21, <1>22, <1>23, <1>24 DEF m, TransferMade

-----------------------------------------------------------------------------
(* The list of an account.                                                 *)

KeptStep(q, lost, g, n) ==
    IF n = 0 THEN << >> ELSE IF q[n] \in lost THEN g[n - 1] ELSE Append(g[n - 1], q[n])

LEMMA KeptExists ==
    ASSUME NEW q, NEW lost, NEW m \in Nat
    PROVE  \E g : g = [n \in 0..m |-> KeptStep(q, lost, g, n)]
<1> DEFINE S == {k \in Nat : \E g : g = [n \in 0..k |-> KeptStep(q, lost, g, n)]}
<1>1. 0 \in S
  <2>1. PICK g : g = [n \in 0..0 |-> << >>]  OBVIOUS
  <2>2. \A n \in 0..0 : KeptStep(q, lost, g, n) = << >>  BY DEF KeptStep
  <2>3. g = [n \in 0..0 |-> KeptStep(q, lost, g, n)]  BY <2>1, <2>2
  <2> QED  BY <2>3
<1>2. ASSUME NEW k \in Nat, k \in S PROVE k + 1 \in S
  <2>1. PICK g : g = [n \in 0..k |-> KeptStep(q, lost, g, n)]  BY <1>2
  <2>2. PICK last : last = KeptStep(q, lost, g, k + 1)  OBVIOUS
  <2>3. PICK h : h = [n \in 0..(k + 1) |-> IF n = k + 1 THEN last ELSE g[n]]  OBVIOUS
  <2>4. \A n \in 0..k : h[n] = g[n]  BY <2>3
  <2>5. ASSUME NEW n \in 0..(k + 1) PROVE h[n] = KeptStep(q, lost, h, n)
    <3>1. CASE n = k + 1
      <4>1. h[n] = last /\ n # 0 /\ n - 1 = k /\ k \in 0..k  BY <2>3, <3>1
      <4> QED  BY <2>2, <2>4, <3>1, <4>1 DEF KeptStep
    <3>2. CASE n = 0
      <4>1. 0 \in 0..k  OBVIOUS
      <4>2. h[0] = KeptStep(q, lost, g, 0)  BY <2>1, <2>4, <4>1
      <4> QED  BY <3>2, <4>2 DEF KeptStep
    <3>3. CASE n \in 1..k
      <4>1. n \in 0..k /\ n - 1 \in 0..k  BY <3>3
      <4>2. h[n] = KeptStep(q, lost, g, n) /\ h[n - 1] = g[n - 1]  BY <2>1, <2>4, <4>1
      <4> QED  BY <4>2 DEF KeptStep
    <3>4. n = k + 1 \/ n = 0 \/ n \in 1..k  OBVIOUS
    <3> QED  BY <3>1, <3>2, <3>3, <3>4
  <2>6. h = [n \in 0..(k + 1) |-> KeptStep(q, lost, h, n)]
    <3> DEFINE F == [n \in 0..(k + 1) |-> KeptStep(q, lost, h, n)]
    <3>1. DOMAIN h = DOMAIN F /\ \A n \in DOMAIN F : h[n] = F[n]  BY <2>3, <2>5
    <3>2. h = [n \in DOMAIN h |-> h[n]] /\ F = [n \in DOMAIN F |-> F[n]]  BY <2>3
    <3> QED  BY <3>1, <3>2
  <2> QED  BY <2>6
<1> HIDE DEF S
<1>3. Nat \subseteq S  BY <1>1, <1>2, SetInduction
<1> QED  BY <1>3 DEF S

LEMMA WithoutIsKept ==
    ASSUME NEW q, Len(q) \in Nat, NEW lost
    PROVE  \E g : /\ g = [n \in 0..Len(q) |-> KeptStep(q, lost, g, n)]
                  /\ Without(q, lost) = g[Len(q)]
<1> DEFINE G == CHOOSE g : g = [n \in 0..Len(q) |-> KeptStep(q, lost, g, n)]
<1>1. G = [n \in 0..Len(q) |-> KeptStep(q, lost, G, n)]  BY KeptExists
<1>2. Without(q, lost) = G[Len(q)]  BY DEF Without, KeptStep
<1> QED  BY <1>1, <1>2

\* A list without repetitions.
Distinct(q) == \A i, j \in DOMAIN q : q[i] = q[j] => i = j
IsList(q, S) == q \in Seq(Nat) /\ Distinct(q) /\ Members(q) = S

LEMMA ListSize ==
    ASSUME NEW q, NEW S, IsList(q, S)
    PROVE  IsFiniteSet(S) /\ Cardinality(S) = Len(q)
<1>1. q \in Seq(Nat) /\ DOMAIN q = 1..Len(q) /\ Len(q) \in Nat  BY DEF IsList
<1>2. S = {q[i] : i \in DOMAIN q}  BY DEF IsList, Members
<1>3. q \in Bijection(1..Len(q), S)
  <2>1. q \in [1..Len(q) -> S]  BY <1>1, <1>2
  <2>2. \A s \in S : \E i \in 1..Len(q) : q[i] = s  BY <1>1, <1>2
  <2>3. \A i, j \in 1..Len(q) : q[i] = q[j] => i = j  BY <1>1 DEF IsList, Distinct
  <2> QED  BY <2>1, <2>2, <2>3 DEF Bijection, Injection, Surjection, IsInjective
<1>4. ExistsBijection(1..Len(q), S)  BY <1>3 DEF ExistsBijection
<1>5. IsFiniteSet(1..Len(q)) /\ Cardinality(1..Len(q)) = Len(q)
  <2>1. PICK n \in Nat : n = Len(q)  BY <1>1
  <2>2. IsFiniteSet(1..n) /\ Cardinality(1..n) = n  BY FS_Interval
  <2> QED  BY <2>1, <2>2
<1> QED  BY <1>4, <1>5, FS_Bijection

LEMMA ListAppended ==
    ASSUME NEW q, NEW S, IsList(q, S), NEW x \in Nat, x \notin S,
           NEW r, r = Append(q, x)
    PROVE  IsList(r, S \cup {x}) /\ Len(r) = Len(q) + 1
<1>1. q \in Seq(Nat) /\ Len(q) \in Nat /\ DOMAIN q = 1..Len(q)  BY DEF IsList
<1>2. PICK n \in Nat : n = Len(q)  BY <1>1
<1>3. /\ r \in Seq(Nat) /\ Len(r) = n + 1 /\ DOMAIN r = 1..(n + 1) /\ r[n + 1] = x
      /\ \A i \in 1..n : r[i] = q[i]
  BY <1>1, <1>2
<1>4. \A i \in 1..(n + 1) : i \in 1..n \/ i = n + 1  OBVIOUS
<1>5. \A i \in 1..n : q[i] \in S  BY <1>1, <1>2 DEF IsList, Members
<1>6. Members(r) = S \cup {x}
  <2>1. \A i \in DOMAIN r : r[i] \in S \cup {x}  BY <1>3, <1>4, <1>5
  <2>2. ASSUME NEW s \in S PROVE \E i \in DOMAIN r : r[i] = s
    <3>1. PICK i \in DOMAIN q : q[i] = s  BY DEF IsList, Members
    <3>2. i \in 1..n /\ i \in 1..(n + 1)  BY <1>1, <1>2, <3>1
    <3> QED  BY <1>3, <3>1, <3>2
  <2>3. n + 1 \in DOMAIN r /\ r[n + 1] = x  BY <1>3
  <2> QED  BY <2>1, <2>2, <2>3 DEF Members
<1>7. Distinct(r)
  <2> SUFFICES ASSUME NEW i \in 1..(n + 1), NEW j \in 1..(n + 1), r[i] = r[j] PROVE i = j
    BY <1>3 DEF Distinct
  <2>1. CASE i \in 1..n /\ j \in 1..n
    BY <1>1, <1>2, <1>3, <2>1 DEF IsList, Distinct
  <2>2. CASE i = n + 1 \/ j = n + 1
    BY <1>3, <1>4, <1>5, <2>2
  <2> QED  BY <1>4, <2>1, <2>2
<1> QED  BY <1>2, <1>3, <1>6, <1>7 DEF IsList

\* Taking one Alp from a list that has it once.
LEMMA ListWithout ==
    ASSUME NEW q, NEW S, IsList(q, S), NEW x
    PROVE  IsList(Without(q, {x}), S \ {x})
<1>1. q \in Seq(Nat) /\ Len(q) \in Nat /\ DOMAIN q = 1..Len(q) /\ \A i \in DOMAIN q : q[i] \in Nat
  BY DEF IsList
<1>2. PICK m \in Nat : m = Len(q)  BY <1>1
<1>3. PICK g : /\ g = [n \in 0..Len(q) |-> KeptStep(q, {x}, g, n)]
               /\ Without(q, {x}) = g[Len(q)]
  BY <1>1, WithoutIsKept
<1>4. \A n \in 0..m : g[n] = KeptStep(q, {x}, g, n)  BY <1>2, <1>3
<1> DEFINE First(n) == {q[i] : i \in 1..n}
<1> DEFINE G == {n \in Nat : n <= m => IsList(g[n], First(n) \ {x})}
<1>5. 0 \in G
  <2>1. g[0] = << >>  BY <1>4 DEF KeptStep
  <2>2. First(0) = {}  OBVIOUS
  <2>3. IsList(<< >>, {})  BY DEF IsList, Distinct, Members
  <2> QED  BY <2>1, <2>2, <2>3
<1>6. ASSUME NEW n \in Nat, n \in G PROVE n + 1 \in G
  <2> SUFFICES ASSUME n + 1 <= m PROVE IsList(g[n + 1], First(n + 1) \ {x})
    OBVIOUS
  <2>1. IsList(g[n], First(n) \ {x})  BY <1>6
  <2>2. g[n + 1] = IF q[n + 1] \in {x} THEN g[n] ELSE Append(g[n], q[n + 1])
    <3>1. n + 1 \in 0..m /\ n + 1 # 0 /\ (n + 1) - 1 = n  OBVIOUS
    <3> QED  BY <1>4, <3>1 DEF KeptStep
  <2>3. First(n + 1) = First(n) \cup {q[n + 1]}
    <3>1. 1..(n + 1) = (1..n) \cup {n + 1}  OBVIOUS
    <3> QED  BY <3>1
  <2>4. q[n + 1] \notin First(n) /\ q[n + 1] \in Nat
    <3>1. n + 1 \in DOMAIN q /\ \A i \in 1..n : i \in DOMAIN q /\ i # n + 1  BY <1>1, <1>2
    <3> QED  BY <1>1, <3>1 DEF IsList, Distinct
  <2> HIDE DEF First
  <2>5. CASE q[n + 1] = x
    <3>1. First(n + 1) \ {x} = First(n) \ {x}  BY <2>3, <2>5
    <3> QED  BY <2>1, <2>2, <2>5, <3>1
  <2>6. CASE q[n + 1] # x
    <3>1. PICK y \in Nat : y = q[n + 1]  BY <2>4
    <3>2. PICK T : T = First(n) \ {x}  OBVIOUS
    <3>3. y \notin T /\ IsList(g[n], T)  BY <2>1, <2>4, <3>1, <3>2
    <3>4. g[n + 1] = Append(g[n], y)  BY <2>2, <2>6, <3>1
    <3>5. IsList(g[n + 1], T \cup {y})  BY <3>3, <3>4, ListAppended
    <3>6. First(n + 1) \ {x} = T \cup {y}  BY <2>3, <2>6, <3>1, <3>2
    <3> QED  BY <3>5, <3>6
  <2> QED  BY <2>5, <2>6
<1>7. First(m) = S  BY <1>1, <1>2 DEF IsList, Members
<1> HIDE DEF G, First
<1>8. Nat \subseteq G  BY <1>5, <1>6, SetInduction
<1>9. m \in G /\ m <= m  BY <1>8
<1>10. IsList(g[m], First(m) \ {x})  BY <1>9 DEF G
<1> QED  BY <1>2, <1>3, <1>7, <1>10

-----------------------------------------------------------------------------
(* The other handlers of the token.                                        *)

\* What everything but a transfer leaves alone.
SameHolders(s, t) ==
    \A a : /\ AccountOf(t, a).balance = AccountOf(s, a).balance
           /\ AccountOf(t, a).alps = AccountOf(s, a).alps

\* A delegation moves Alps between lists of delegates, and no votes.
LEMMA DelegateChangedEffect ==
    ASSUME NEW s, IsStore(s), NEW e, NEW t, t = HandleDelegateChanged(s, e)
    PROVE  /\ IsStore(t)
           /\ SameGovernor(s, t) /\ SameAuctions(s, t) /\ SameVotes(s, t) /\ SameHolders(s, t)
           /\ SameTotals(s.governance, t.governance)
<1>1. PICK a : a = e.delegator  OBVIOUS
<1>2. PICK from : from = e.from  OBVIOUS
<1>3. PICK to : to = e.to  OBVIOUS
<1>4. PICK s0 : s0 = GetOrCreateAccount(s, a)  OBVIOUS
<1>5. PICK r : r = GetOrCreateDelegate(s0, from)  OBVIOUS
<1>6. PICK s1 : s1 = GetOrCreateDelegate(r, to)  OBVIOUS
<1>7. /\ IsStore(s0) /\ SameGovernor(s, s0) /\ SameAuctions(s, s0)
      /\ s0.governance = s.governance /\ s0.delegates = s.delegates
      /\ DOMAIN s0.accounts = DOMAIN s.accounts \cup {a}
      /\ \A b \in DOMAIN s.accounts : s0.accounts[b] = s.accounts[b]
      /\ a \notin DOMAIN s.accounts => s0.accounts[a] = NewAccount
  BY <1>4, GetAccount
<1>8. /\ IsStore(r) /\ SameGovernor(s0, r) /\ SameAuctions(s0, r) /\ SameVotes(s0, r)
      /\ SameTotals(s0.governance, r.governance) /\ r.accounts = s0.accounts
      /\ DOMAIN r.delegates = DOMAIN s0.delegates \cup {from}
  BY <1>5, <1>7, GetDelegate
<1>9. /\ IsStore(s1) /\ SameGovernor(r, s1) /\ SameAuctions(r, s1) /\ SameVotes(r, s1)
      /\ SameTotals(r.governance, s1.governance) /\ s1.accounts = r.accounts
      /\ DOMAIN s1.delegates = DOMAIN r.delegates \cup {to}
  BY <1>6, <1>8, GetDelegate
<1>10. PICK alps : alps = s1.accounts[a].alps  OBVIOUS
<1>11. PICK previous :
         previous = [s1.delegates[from] EXCEPT !.holders = @ - 1, !.alps = Without(@, Members(alps))]
  OBVIOUS
<1>12. PICK new : new = [s1.delegates[to] EXCEPT !.holders = @ + 1, !.alps = @ \o alps]  OBVIOUS
<1>13. PICK f : f = Put(s1.delegates, from, previous)  OBVIOUS
<1>14. PICK h : h = Put(f, to, new)  OBVIOUS
<1>15. PICK account : account = [s1.accounts[a] EXCEPT !.delegate = to]  OBVIOUS
<1>16. PICK as : as = [s1.accounts EXCEPT ![a] = account]  OBVIOUS
<1>17. t = [s1 EXCEPT !.accounts = as, !.delegates = h]
  <2>1. t = [s1 EXCEPT !.accounts[a].delegate = to,
                       !.delegates = Put(Put(@, from, previous), to, new)]
    BY <1>1, <1>2, <1>3, <1>4, <1>5, <1>6, <1>10, <1>11, <1>12 DEF HandleDelegateChanged
  <2>2. t = [s1 EXCEPT !.accounts = as, !.delegates = Put(Put(@, from, previous), to, new)]
    BY <1>15, <1>16, <2>1
  <2>3. [s1 EXCEPT !.accounts = as].delegates = s1.delegates
    BY <1>9 DEF IsStore, Kinds
  <2> QED  BY <1>13, <1>14, <2>2, <2>3
<1>18. /\ DOMAIN t = Kinds /\ t.accounts = as /\ t.delegates = h /\ t.governance = s1.governance
       /\ t.proposals = s1.proposals /\ t.params = s1.params
       /\ t.auctions = s1.auctions /\ t.alps = s1.alps
  BY <1>9, <1>17 DEF IsStore, Kinds
<1>19. from \in DOMAIN s1.delegates /\ to \in DOMAIN s1.delegates  BY <1>8, <1>9
<1>20. /\ DOMAIN previous = DelegateFields /\ previous.votes = s1.delegates[from].votes
       /\ DOMAIN new = DelegateFields /\ new.votes = s1.delegates[to].votes
  <2>1. DOMAIN s1.delegates[from] = DelegateFields /\ DOMAIN s1.delegates[to] = DelegateFields
    BY <1>9, <1>19 DEF IsStore
  <2> QED  BY <1>11, <1>12, <2>1 DEF DelegateFields
<1>21. /\ DOMAIN h = DOMAIN s1.delegates
       /\ \A d \in DOMAIN h : h[d] = IF d = to THEN new ELSE IF d = from THEN previous
                                     ELSE s1.delegates[d]
  <2>1. /\ DOMAIN f = DOMAIN s1.delegates
        /\ \A d \in DOMAIN f : f[d] = IF d = from THEN previous ELSE s1.delegates[d]
    BY <1>13, <1>19 DEF Put
  <2> QED  BY <1>14, <1>19, <2>1 DEF Put
<1>22. ASSUME NEW d PROVE Counted(t, d) = Counted(s1, d)
  BY <1>18, <1>20, <1>21 DEF Counted
<1>23. /\ DOMAIN as = DOMAIN s1.accounts
       /\ \A b \in DOMAIN as : as[b] = IF b = a THEN account ELSE s1.accounts[b]
  BY <1>16
<1>24. a \in DOMAIN s1.accounts  BY <1>7, <1>8, <1>9
<1>25. /\ IsAccount(account) /\ account.balance = s1.accounts[a].balance
       /\ account.alps = s1.accounts[a].alps
  <2>1. DOMAIN s1.accounts[a] = AccountFields  BY <1>9, <1>24 DEF IsStore, IsAccount
  <2> QED  BY <1>15, <2>1 DEF IsAccount, AccountFields
<1>26. IsStore(t)
  <2>1. \A d \in DOMAIN t.delegates : DOMAIN t.delegates[d] = DelegateFields
    BY <1>9, <1>18, <1>20, <1>21 DEF IsStore
  <2>2. \A b \in DOMAIN t.accounts : IsAccount(t.accounts[b])
    BY <1>9, <1>18, <1>23, <1>25 DEF IsStore
  <2> QED  BY <1>9, <1>18, <2>1, <2>2 DEF IsStore
<1>27. SameHolders(s, t)
  <2>1. ASSUME NEW b
        PROVE  /\ AccountOf(t, b).balance = AccountOf(s, b).balance
               /\ AccountOf(t, b).alps = AccountOf(s, b).alps
    <3>1. /\ AccountOf(t, b).balance = AccountOf(s1, b).balance
          /\ AccountOf(t, b).alps = AccountOf(s1, b).alps
      BY <1>18, <1>23, <1>24, <1>25 DEF AccountOf
    <3>2. s1.accounts = s0.accounts  BY <1>8, <1>9
    <3>3. AccountOf(s1, b) = AccountOf(s, b)  BY <1>7, <3>2 DEF AccountOf
    <3> QED  BY <3>1, <3>3
  <2> QED  BY <2>1 DEF SameHolders
<1>28. SameVotes(s, t)
  <2>1. \A d : Counted(s0, d) = Counted(s, d)  BY <1>7 DEF Counted
  <2> QED  BY <1>7, <1>8, <1>9, <1>18, <1>22, <2>1 DEF SameVotes
<1> QED
  BY <1>7, <1>8, <1>9, <1>18, <1>26, <1>27, <1>28 DEF SameGovernor, SameAuctions, SameTotals

\* The votes of one delegate, the sum and the number of delegates with votes.
LEMMA VotesChangedEffect ==
    ASSUME NEW s, IsStore(s), NEW d, NEW n \in Int, NEW m \in Int,
           NEW e, e.delegate = d /\ e.previous = n /\ e.new = m,
           NEW t, t = HandleDelegateVotesChanged(s, e)
    PROVE  /\ IsStore(t)
           /\ SameGovernor(s, t) /\ SameAuctions(s, t) /\ SameHolders(s, t)
           /\ t.governance.totalTokenHolders = s.governance.totalTokenHolders
           /\ \A a : Counted(t, a) = IF a = d THEN m ELSE Counted(s, a)
           /\ t.governance.delegatedVotes = s.governance.delegatedVotes + m - n
           /\ t.governance.currentDelegates =
                IF n = 0 /\ m > 0 THEN s.governance.currentDelegates + 1
                ELSE IF m = 0 THEN s.governance.currentDelegates - 1
                ELSE s.governance.currentDelegates
<1>1. PICK s1 : s1 = GetOrCreateDelegate(s, d)  OBVIOUS
<1>2. /\ IsStore(s1) /\ SameGovernor(s, s1) /\ SameAuctions(s, s1) /\ SameVotes(s, s1)
      /\ s1.accounts = s.accounts /\ DOMAIN s1.delegates = DOMAIN s.delegates \cup {d}
  BY <1>1, GetDelegate
<1>3. PICK x : x = IF n = 0 /\ m > 0 THEN s.governance.currentDelegates + 1
                   ELSE IF m = 0 THEN s.governance.currentDelegates - 1
                   ELSE s.governance.currentDelegates
  OBVIOUS
<1>4. PICK y : y = s.governance.delegatedVotes + m - n  OBVIOUS
<1>5. PICK g : g = [s.governance EXCEPT !.currentDelegates = x, !.delegatedVotes = y]  OBVIOUS
<1>6. PICK r : r = [s1.delegates[d] EXCEPT !.votes = m]  OBVIOUS
<1>7. PICK f : f = [s1.delegates EXCEPT ![d] = r]  OBVIOUS
<1>8. t = [s1 EXCEPT !.delegates = f, !.governance = g]
  <2>1. DOMAIN s.governance = Counters  BY DEF IsStore, IsGovernance
  <2>2. g = [s.governance EXCEPT
               !.currentDelegates = IF e.previous = 0 /\ e.new > 0 THEN @ + 1
                                    ELSE IF e.new = 0 THEN @ - 1 ELSE @,
               !.delegatedVotes = @ + e.new - e.previous]
    BY <1>3, <1>4, <1>5, <2>1 DEF Counters
  <2>3. t = [s1 EXCEPT !.delegates[d].votes = m, !.governance = g]
    BY <1>1, <2>2 DEF HandleDelegateVotesChanged
  <2> QED  BY <1>6, <1>7, <2>3
<1>9. /\ DOMAIN t = Kinds /\ t.accounts = s1.accounts /\ t.delegates = f /\ t.governance = g
      /\ t.proposals = s1.proposals /\ t.params = s1.params
      /\ t.auctions = s1.auctions /\ t.alps = s1.alps
  BY <1>2, <1>8 DEF IsStore, Kinds
<1>10. DOMAIN r = DelegateFields /\ r.votes = m
  <2>1. DOMAIN s1.delegates[d] = DelegateFields  BY <1>2 DEF IsStore
  <2> QED  BY <1>6, <2>1 DEF DelegateFields
<1>11. /\ DOMAIN f = DOMAIN s1.delegates
       /\ \A a \in DOMAIN f : f[a] = IF a = d THEN r ELSE s1.delegates[a]
  BY <1>7
<1>12. /\ IsGovernance(g) /\ g.totalTokenHolders = s.governance.totalTokenHolders
       /\ g.currentDelegates = x /\ g.delegatedVotes = y
  <2>1. DOMAIN s.governance = Counters  BY DEF IsStore, IsGovernance
  <2> QED  BY <1>5, <2>1 DEF IsGovernance, Counters
<1>13. IsStore(t)  BY <1>2, <1>9, <1>10, <1>11, <1>12 DEF IsStore
<1>14. ASSUME NEW a PROVE Counted(t, a) = IF a = d THEN m ELSE Counted(s, a)
  <2>1. Counted(t, a) = IF a = d THEN m ELSE Counted(s1, a)
    BY <1>2, <1>9, <1>10, <1>11 DEF Counted
  <2> QED  BY <1>2, <2>1 DEF SameVotes
<1>15. SameHolders(s, t)  BY <1>2, <1>9 DEF SameHolders, AccountOf
<1> QED
  BY <1>2, <1>3, <1>4, <1>9, <1>12, <1>13, <1>14, <1>15 DEF SameGovernor, SameAuctions

-----------------------------------------------------------------------------
(* The handlers of the auction house and of the governor.                  *)

AuctionOnly(s, t) ==
    /\ IsStore(t)
    /\ SameGovernor(s, t) /\ SameVotes(s, t) /\ SameHolders(s, t)
    /\ t.governance = s.governance /\ t.alps = s.alps

GovernorOnly(s, t) ==
    /\ IsStore(t)
    /\ SameAuctions(s, t) /\ SameVotes(s, t) /\ SameHolders(s, t)
    /\ t.governance.totalTokenHolders = s.governance.totalTokenHolders

AuctionsSaved(s, f, b) == [s EXCEPT !.auctions = f, !.bids = b]

LEMMA AuctionsSavedEffect ==
    ASSUME NEW s, IsStore(s), NEW f, NEW b, NEW t, t = AuctionsSaved(s, f, b)
    PROVE  AuctionOnly(s, t) /\ t.auctions = f
<1>1. /\ DOMAIN t = Kinds /\ t.accounts = s.accounts /\ t.delegates = s.delegates
      /\ t.governance = s.governance /\ t.proposals = s.proposals /\ t.params = s.params
      /\ t.auctions = f /\ t.alps = s.alps
  BY DEF AuctionsSaved, IsStore, Kinds
<1> QED
  BY <1>1 DEF AuctionOnly, IsStore, SameGovernor, SameVotes, SameHolders, AccountOf, Counted

LEMMA AuctionCreatedEffect ==
    ASSUME NEW s, IsStore(s), NEW e, e.token \in DOMAIN s.alps,
           NEW t, t = HandleAuctionCreated(s, e)
    PROVE  /\ AuctionOnly(s, t)
           /\ t.auctions = Put(s.auctions, e.token,
                 [amount |-> 0, bidder |-> None, endTime |-> e.endTime, settled |-> FALSE])
<1>1. PICK f : f = Put(s.auctions, e.token,
                 [amount |-> 0, bidder |-> None, endTime |-> e.endTime, settled |-> FALSE])
  OBVIOUS
<1>2. PICK b : b = s.bids  OBVIOUS
<1>3. PICK u : u = AuctionsSaved(s, f, b)  OBVIOUS
<1>4. t = u
  <2>1. t = [s EXCEPT !.auctions = f]  BY <1>1 DEF HandleAuctionCreated
  <2> QED  BY <1>2, <1>3, <2>1 DEF AuctionsSaved, IsStore, Kinds
<1>5. AuctionOnly(s, u) /\ u.auctions = f  BY <1>3, AuctionsSavedEffect
<1> QED  BY <1>1, <1>4, <1>5

LEMMA AuctionBidEffect ==
    ASSUME NEW s, IsStore(s), NEW e, e.token \in DOMAIN s.auctions,
           NEW t, t = HandleAuctionBid(s, e)
    PROVE  /\ AuctionOnly(s, t)
           /\ t.auctions = [s.auctions EXCEPT ![e.token].amount = e.value,
                                              ![e.token].bidder = e.sender]
<1>1. PICK s1 : s1 = GetOrCreateAccount(s, e.sender)  OBVIOUS
<1>2. /\ IsStore(s1) /\ SameGovernor(s, s1) /\ SameAuctions(s, s1)
      /\ s1.governance = s.governance /\ s1.delegates = s.delegates
      /\ DOMAIN s1.accounts = DOMAIN s.accounts \cup {e.sender}
      /\ \A a \in DOMAIN s.accounts : s1.accounts[a] = s.accounts[a]
      /\ e.sender \notin DOMAIN s.accounts => s1.accounts[e.sender] = NewAccount
  BY <1>1, GetAccount
<1>3. PICK f : f = [s.auctions EXCEPT ![e.token].amount = e.value,
                                      ![e.token].bidder = e.sender]
  OBVIOUS
<1>4. PICK b : b = Put(s1.bids, e.hash, [bidder |-> e.sender, amount |-> e.value, alp |-> e.token])
  OBVIOUS
<1>5. PICK u : u = AuctionsSaved(s1, f, b)  OBVIOUS
<1>6. t = u
  <2>1. s1.auctions = s.auctions  BY <1>2 DEF SameAuctions
  <2>2. t = [s1 EXCEPT !.auctions[e.token].amount = e.value,
                       !.auctions[e.token].bidder = e.sender,
                       !.bids = Put(@, e.hash, [bidder |-> e.sender, amount |-> e.value,
                                                alp |-> e.token])]
    BY <1>1, <2>1 DEF HandleAuctionBid
  <2>3. PICK f1 : f1 = [s.auctions EXCEPT ![e.token].amount = e.value]  OBVIOUS
  <2>4. f = [f1 EXCEPT ![e.token].bidder = e.sender]  BY <1>3, <2>3
  <2>5. PICK s2 : s2 = [s1 EXCEPT !.auctions = f1]  OBVIOUS
  <2>6. s2.auctions = f1 /\ DOMAIN s2 = Kinds /\ s2.bids = s1.bids
    BY <1>2, <2>5 DEF IsStore, Kinds
  <2>7. PICK s3 : s3 = [s2 EXCEPT !.auctions = f]  OBVIOUS
  <2>8. s3.bids = s1.bids  BY <2>6, <2>7 DEF Kinds
  <2>9. t = [s3 EXCEPT !.bids = b]
    <3>1. s2 = [s1 EXCEPT !.auctions[e.token].amount = e.value]
      BY <2>1, <2>3, <2>5
    <3>2. s3 = [s2 EXCEPT !.auctions[e.token].bidder = e.sender]
      BY <2>4, <2>6, <2>7
    <3> QED  BY <1>4, <2>2, <2>8, <3>1, <3>2
  <2> QED  BY <1>2, <1>5, <2>5, <2>7, <2>9 DEF AuctionsSaved, IsStore, Kinds
<1>7. AuctionOnly(s1, u) /\ u.auctions = f  BY <1>2, <1>5, AuctionsSavedEffect
<1>8. SameHolders(s, s1) /\ SameVotes(s, s1)
  BY <1>2 DEF SameHolders, SameVotes, AccountOf, Counted
<1>9. AuctionOnly(s, u)
  BY <1>2, <1>7, <1>8 DEF AuctionOnly, SameGovernor, SameAuctions, SameVotes, SameHolders
<1> QED  BY <1>3, <1>6, <1>7, <1>9

LEMMA AuctionExtendedEffect ==
    ASSUME NEW s, IsStore(s), NEW e, e.token \in DOMAIN s.auctions,
           NEW t, t = HandleAuctionExtended(s, e)
    PROVE  /\ AuctionOnly(s, t)
           /\ t.auctions = [s.auctions EXCEPT ![e.token].endTime = e.endTime]
<1>1. PICK f : f = [s.auctions EXCEPT ![e.token].endTime = e.endTime]  OBVIOUS
<1>2. PICK b : b = s.bids  OBVIOUS
<1>3. PICK u : u = AuctionsSaved(s, f, b)  OBVIOUS
<1>4. t = u
  <2>1. t = [s EXCEPT !.auctions = f]  BY <1>1 DEF HandleAuctionExtended
  <2> QED  BY <1>2, <1>3, <2>1 DEF AuctionsSaved, IsStore, Kinds
<1>5. AuctionOnly(s, u) /\ u.auctions = f  BY <1>3, AuctionsSavedEffect
<1> QED  BY <1>1, <1>4, <1>5

LEMMA AuctionSettledEffect ==
    ASSUME NEW s, IsStore(s), NEW e, e.token \in DOMAIN s.auctions,
           NEW t, t = HandleAuctionSettled(s, e)
    PROVE  /\ AuctionOnly(s, t)
           /\ t.auctions = [s.auctions EXCEPT ![e.token].settled = TRUE]
<1>1. PICK f : f = [s.auctions EXCEPT ![e.token].settled = TRUE]  OBVIOUS
<1>2. PICK b : b = s.bids  OBVIOUS
<1>3. PICK u : u = AuctionsSaved(s, f, b)  OBVIOUS
<1>4. t = u
  <2>1. t = [s EXCEPT !.auctions = f]  BY <1>1 DEF HandleAuctionSettled
  <2> QED  BY <1>2, <1>3, <2>1 DEF AuctionsSaved, IsStore, Kinds
<1>5. AuctionOnly(s, u) /\ u.auctions = f  BY <1>3, AuctionsSavedEffect
<1> QED  BY <1>1, <1>4, <1>5

\* Saving the proposals, the governance entity and the votes.
GovernorSaved(s, ps, g, vs) == [s EXCEPT !.proposals = ps, !.governance = g, !.votes = vs]

LEMMA GovernorSavedEffect ==
    ASSUME NEW s, IsStore(s), NEW ps, NEW g, IsGovernance(g), SameTotals(s.governance, g), NEW vs,
           NEW t, t = GovernorSaved(s, ps, g, vs)
    PROVE  /\ GovernorOnly(s, t)
           /\ t.proposals = ps /\ t.params = s.params
<1>1. /\ DOMAIN t = Kinds /\ t.accounts = s.accounts /\ t.delegates = s.delegates
      /\ t.governance = g /\ t.proposals = ps /\ t.params = s.params
      /\ t.auctions = s.auctions /\ t.alps = s.alps
  BY DEF GovernorSaved, IsStore, Kinds
<1> QED
  BY <1>1 DEF GovernorOnly, IsStore, SameAuctions, SameVotes, SameTotals, SameHolders, AccountOf,
              Counted

\* The status of a proposal that exists.
LEMMA CanceledEffect ==
    ASSUME NEW s, IsStore(s), NEW e, e.id \in DOMAIN s.proposals,
           NEW t, t = HandleProposalCanceled(s, e)
    PROVE  /\ GovernorOnly(s, t) /\ t.params = s.params
           /\ t.proposals = [s.proposals EXCEPT ![e.id].status = "CANCELLED"]
<1>1. PICK ps : ps = [s.proposals EXCEPT ![e.id].status = "CANCELLED"]  OBVIOUS
<1>2. PICK g : g = s.governance  OBVIOUS
<1>3. PICK vs : vs = s.votes  OBVIOUS
<1>4. PICK u : u = GovernorSaved(s, ps, g, vs)  OBVIOUS
<1>5. t = u
  <2>1. t = [s EXCEPT !.proposals = ps]  BY <1>1 DEF HandleProposalCanceled, GetOrCreateProposal
  <2> QED  BY <1>2, <1>3, <1>4, <2>1 DEF GovernorSaved, IsStore, Kinds
<1>6. IsGovernance(g) /\ SameTotals(s.governance, g)  BY <1>2 DEF IsStore, SameTotals
<1>7. GovernorOnly(s, u) /\ u.proposals = ps /\ u.params = s.params
  BY <1>4, <1>6, GovernorSavedEffect
<1> QED  BY <1>1, <1>5, <1>7

LEMMA VetoedEffect ==
    ASSUME NEW s, IsStore(s), NEW e, e.id \in DOMAIN s.proposals,
           NEW t, t = HandleProposalVetoed(s, e)
    PROVE  /\ GovernorOnly(s, t) /\ t.params = s.params
           /\ t.proposals = [s.proposals EXCEPT ![e.id].status = "VETOED"]
<1>1. PICK ps : ps = [s.proposals EXCEPT ![e.id].status = "VETOED"]  OBVIOUS
<1>2. PICK g : g = s.governance  OBVIOUS
<1>3. PICK vs : vs = s.votes  OBVIOUS
<1>4. PICK u : u = GovernorSaved(s, ps, g, vs)  OBVIOUS
<1>5. t = u
  <2>1. t = [s EXCEPT !.proposals = ps]  BY <1>1 DEF HandleProposalVetoed, GetOrCreateProposal
  <2> QED  BY <1>2, <1>3, <1>4, <2>1 DEF GovernorSaved, IsStore, Kinds
<1>6. IsGovernance(g) /\ SameTotals(s.governance, g)  BY <1>2 DEF IsStore, SameTotals
<1>7. GovernorOnly(s, u) /\ u.proposals = ps /\ u.params = s.params
  BY <1>4, <1>6, GovernorSavedEffect
<1> QED  BY <1>1, <1>5, <1>7

LEMMA QueuedEffect ==
    ASSUME NEW s, IsStore(s), NEW e, e.id \in DOMAIN s.proposals,
           NEW t, t = HandleProposalQueued(s, e)
    PROVE  /\ GovernorOnly(s, t) /\ t.params = s.params
           /\ t.proposals = [s.proposals EXCEPT ![e.id].status = "QUEUED"]
<1>1. PICK ps : ps = [s.proposals EXCEPT ![e.id].status = "QUEUED"]  OBVIOUS
<1>2. PICK g : g = [s.governance EXCEPT !.proposalsQueued = @ + 1]  OBVIOUS
<1>3. PICK vs : vs = s.votes  OBVIOUS
<1>4. PICK u : u = GovernorSaved(s, ps, g, vs)  OBVIOUS
<1>5. t = u
  <2>1. t = [s EXCEPT !.proposals = ps, !.governance = g]
    BY <1>1, <1>2 DEF HandleProposalQueued, GetOrCreateProposal
  <2> QED  BY <1>3, <1>4, <2>1 DEF GovernorSaved, IsStore, Kinds
<1>6. IsGovernance(g) /\ SameTotals(s.governance, g)
  BY <1>2 DEF IsStore, IsGovernance, Counters, SameTotals
<1>7. GovernorOnly(s, u) /\ u.proposals = ps /\ u.params = s.params
  BY <1>4, <1>6, GovernorSavedEffect
<1> QED  BY <1>1, <1>5, <1>7

LEMMA ExecutedEffect ==
    ASSUME NEW s, IsStore(s), NEW e, e.id \in DOMAIN s.proposals,
           NEW t, t = HandleProposalExecuted(s, e)
    PROVE  /\ GovernorOnly(s, t) /\ t.params = s.params
           /\ t.proposals = [s.proposals EXCEPT ![e.id].status = "EXECUTED"]
<1>1. PICK ps : ps = [s.proposals EXCEPT ![e.id].status = "EXECUTED"]  OBVIOUS
<1>2. PICK g : g = [s.governance EXCEPT !.proposalsQueued = @ - 1]  OBVIOUS
<1>3. PICK vs : vs = s.votes  OBVIOUS
<1>4. PICK u : u = GovernorSaved(s, ps, g, vs)  OBVIOUS
<1>5. t = u
  <2>1. t = [s EXCEPT !.proposals = ps, !.governance = g]
    BY <1>1, <1>2 DEF HandleProposalExecuted, GetOrCreateProposal
  <2> QED  BY <1>3, <1>4, <2>1 DEF GovernorSaved, IsStore, Kinds
<1>6. IsGovernance(g) /\ SameTotals(s.governance, g)
  BY <1>2 DEF IsStore, IsGovernance, Counters, SameTotals
<1>7. GovernorOnly(s, u) /\ u.proposals = ps /\ u.params = s.params
  BY <1>4, <1>6, GovernorSavedEffect
<1> QED  BY <1>1, <1>5, <1>7

\* A proposal as its creation makes it.
NewProposal(s, e) ==
    [proposer |-> e.proposer, createdBlock |-> e.block, quorumVotes |-> e.quorumVotes,
     forVotes |-> 0, againstVotes |-> 0, abstainVotes |-> 0,
     status |-> IF e.block >= e.startBlock THEN "ACTIVE" ELSE "PENDING",
     totalSupply |-> s.governance.totalTokenHolders,
     params |-> [min |-> s.params.min, max |-> s.params.max, coefficient |-> s.params.coefficient]]

LEMMA ProposalCreatedEffect ==
    ASSUME NEW s, IsStore(s), NEW e, e.id \notin DOMAIN s.proposals,
           NEW t, t = HandleProposalCreatedWithRequirements(s, e)
    PROVE  /\ GovernorOnly(s, t) /\ t.params = s.params
           /\ t.proposals = Put(s.proposals, e.id, NewProposal(s, e))
<1>1. PICK g : g = [s.governance EXCEPT !.proposals = @ + 1]  OBVIOUS
<1>2. IsGovernance(g) /\ SameTotals(s.governance, g)
  BY <1>1 DEF IsStore, IsGovernance, Counters, SameTotals
<1>3. PICK s0 : s0 = GovernorSaved(s, s.proposals, g, s.votes)  OBVIOUS
<1>4. s0 = GetOrCreateProposal(s, e.id)
  <2>1. GetOrCreateProposal(s, e.id) = [s EXCEPT !.governance = g]
    BY <1>1 DEF GetOrCreateProposal
  <2> QED  BY <1>3, <2>1 DEF GovernorSaved, IsStore, Kinds
<1>5. GovernorOnly(s, s0) /\ s0.proposals = s.proposals /\ s0.params = s.params
  <2>1. PICK ps : ps = s.proposals  OBVIOUS
  <2>2. PICK vs : vs = s.votes  OBVIOUS
  <2>3. s0 = GovernorSaved(s, ps, g, vs)  BY <1>3, <2>1, <2>2
  <2> QED  BY <1>2, <2>1, <2>3, GovernorSavedEffect
<1>6. PICK a : a = e.proposer  OBVIOUS
<1>7. PICK s1 : s1 = GetOrCreateDelegate(s0, a)  OBVIOUS
<1>8. /\ IsStore(s1)
      /\ SameGovernor(s0, s1) /\ SameAuctions(s0, s1) /\ SameVotes(s0, s1)
      /\ SameTotals(s0.governance, s1.governance) /\ s1.accounts = s0.accounts
  BY <1>5, <1>7, GetDelegate DEF GovernorOnly
<1>9. PICK ps : ps = Put(s1.proposals, e.id, NewProposal(s, e))  OBVIOUS
<1>10. PICK h : h = s1.governance  OBVIOUS
<1>11. PICK vs : vs = s1.votes  OBVIOUS
<1>12. PICK u : u = GovernorSaved(s1, ps, h, vs)  OBVIOUS
<1>13. t = u
  <2>1. NewProposal(s, e) = NewProposal(s1, e)
    BY <1>5, <1>8 DEF NewProposal, SameGovernor, SameTotals, GovernorOnly
  <2>2. t = [s1 EXCEPT !.proposals = Put(@, e.id, NewProposal(s1, e))]
    BY <1>4, <1>6, <1>7 DEF HandleProposalCreatedWithRequirements, NewProposal
  <2>3. t = [s1 EXCEPT !.proposals = ps]  BY <1>9, <2>1, <2>2
  <2> QED  BY <1>8, <1>10, <1>11, <1>12, <2>3 DEF GovernorSaved, IsStore, Kinds
<1>14. IsGovernance(h) /\ SameTotals(s1.governance, h)  BY <1>8, <1>10 DEF IsStore, SameTotals
<1>15. GovernorOnly(s1, u) /\ u.proposals = ps /\ u.params = s1.params
  BY <1>8, <1>12, <1>14, GovernorSavedEffect
<1>16. GovernorOnly(s, u)
  <2>1. SameHolders(s0, s1)  BY <1>8 DEF SameHolders, AccountOf
  <2>2. SameHolders(s, u)  BY <1>5, <1>15, <2>1 DEF GovernorOnly, SameHolders
  <2>3. SameVotes(s, u)  BY <1>5, <1>8, <1>15 DEF GovernorOnly, SameVotes
  <2> QED
    BY <1>5, <1>8, <1>15, <2>2, <2>3 DEF GovernorOnly, SameAuctions, SameTotals
<1> QED  BY <1>5, <1>8, <1>9, <1>13, <1>15, <1>16 DEF SameGovernor

\* A proposal with one more vote, and its quorum brought up to date.
Tallied(s, p, e) ==
    LET counted == WithVote(p, e)
        dynamic == s.params.start # None /\ s.params.start < counted.createdBlock
        quorum == DynamicQuorumVotes(counted.againstVotes, counted.totalSupply, counted.params)
    IN  IF dynamic THEN [counted EXCEPT !.quorumVotes = quorum] ELSE counted

LEMMA VoteCastEffect ==
    ASSUME NEW s, IsStore(s), NEW e, e.id \in DOMAIN s.proposals, s.params.start # None,
           NEW t, t = HandleVoteCast(s, e)
    PROVE  /\ GovernorOnly(s, t) /\ t.params = s.params
           /\ t.proposals = [s.proposals EXCEPT ![e.id] = Tallied(s, s.proposals[e.id], e)]
<1>1. PICK a : a = e.voter  OBVIOUS
<1>2. PICK s1 : s1 = GetOrCreateDelegate(s, a)  OBVIOUS
<1>3. /\ IsStore(s1)
      /\ SameGovernor(s, s1) /\ SameAuctions(s, s1) /\ SameVotes(s, s1)
      /\ SameTotals(s.governance, s1.governance) /\ s1.accounts = s.accounts
  BY <1>2, GetDelegate
<1>4. s1.proposals = s.proposals /\ s1.params = s.params  BY <1>3 DEF SameGovernor
<1>5. GetOrCreateDynamicQuorumParams(s1, None) = s1
  BY <1>4 DEF GetOrCreateDynamicQuorumParams
<1>6. PICK p : p = Tallied(s, s.proposals[e.id], e)  OBVIOUS
<1>7. PICK ps : ps = [s.proposals EXCEPT ![e.id] = p]  OBVIOUS
<1>8. PICK vs : vs = Put(s1.votes, <<e.voter, e.id>>,
                         [support |-> e.support, votes |-> e.votes,
                          alps |-> s1.delegates[e.voter].alps])
  OBVIOUS
<1>9. PICK h : h = s1.governance  OBVIOUS
<1>10. PICK u : u = GovernorSaved(s1, ps, h, vs)  OBVIOUS
<1>11. t = u
  <2>1. s1 = GetOrCreateDelegate(GetOrCreateProposal(s, e.id), e.voter)
    BY <1>1, <1>2 DEF GetOrCreateProposal
  <2>2. t = [s1 EXCEPT !.votes = Put(@, <<e.voter, e.id>>,
                           [support |-> e.support, votes |-> e.votes,
                            alps |-> s1.delegates[e.voter].alps]),
                       !.proposals[e.id] = Tallied(s1, s1.proposals[e.id], e)]
    BY <1>5, <2>1 DEF HandleVoteCast, Tallied
  <2>3. Tallied(s1, s1.proposals[e.id], e) = p  BY <1>4, <1>6 DEF Tallied
  <2>4. t = [s1 EXCEPT !.votes = vs, !.proposals[e.id] = p]  BY <1>8, <2>2, <2>3
  <2>5. [s1 EXCEPT !.votes = vs].proposals = s.proposals  BY <1>3, <1>4 DEF IsStore, Kinds
  <2>6. t = [s1 EXCEPT !.votes = vs, !.proposals = ps]  BY <1>7, <2>4, <2>5
  <2> QED  BY <1>3, <1>9, <1>10, <2>6 DEF GovernorSaved, IsStore, Kinds
<1>12. IsGovernance(h) /\ SameTotals(s1.governance, h)  BY <1>3, <1>9 DEF IsStore, SameTotals
<1>13. GovernorOnly(s1, u) /\ u.proposals = ps /\ u.params = s1.params
  BY <1>3, <1>10, <1>12, GovernorSavedEffect
<1>14. GovernorOnly(s, u)
  <2>1. SameHolders(s, s1)  BY <1>3 DEF SameHolders, AccountOf
  <2>2. SameHolders(s, u)  BY <1>13, <2>1 DEF GovernorOnly, SameHolders
  <2>3. SameVotes(s, u)  BY <1>3, <1>13 DEF GovernorOnly, SameVotes
  <2> QED  BY <1>3, <1>13, <2>2, <2>3 DEF GovernorOnly, SameAuctions, SameTotals
<1> QED  BY <1>4, <1>6, <1>7, <1>11, <1>13, <1>14

\* One of the parameters of the dynamic quorum.
LEMMA QuorumParamEffect ==
    ASSUME NEW s, IsStore(s), NEW e, e.param \in {"min", "max", "coefficient"},
           NEW t, t = HandleQuorumParamSet(s, e)
    PROVE  /\ GovernorOnly(s, t) /\ t.proposals = s.proposals
           /\ t.params[e.param] = e.value
           /\ \A x \in {"min", "max", "coefficient"} : x # e.param => t.params[x] = s.params[x]
           /\ t.params.start = IF s.params.start = None THEN e.block ELSE s.params.start
<1>1. PICK x : x = IF s.params.start = None THEN e.block ELSE s.params.start  OBVIOUS
<1>2. PICK ps : ps = [s.params EXCEPT !.start = x]  OBVIOUS
<1>3. DOMAIN s.params = ParamFields  BY DEF IsStore
<1>4. PICK s1 : s1 = GetOrCreateDynamicQuorumParams(s, e.block)  OBVIOUS
<1>5. /\ DOMAIN s1 = Kinds /\ s1.accounts = s.accounts /\ s1.delegates = s.delegates
      /\ s1.governance = s.governance /\ s1.proposals = s.proposals
      /\ s1.auctions = s.auctions /\ s1.alps = s.alps
      /\ DOMAIN s1.params = ParamFields /\ s1.params.start = x
      /\ \A y \in {"min", "max", "coefficient"} : s1.params[y] = s.params[y]
  <2>1. CASE s.params.start = None
    <3>1. s1 = [s EXCEPT !.params = ps]
      BY <1>1, <1>2, <1>4, <2>1 DEF GetOrCreateDynamicQuorumParams
    <3>2. /\ DOMAIN ps = ParamFields /\ ps.start = x
          /\ \A y \in {"min", "max", "coefficient"} : ps[y] = s.params[y]
      BY <1>2, <1>3 DEF ParamFields
    <3> QED  BY <3>1, <3>2 DEF IsStore, Kinds
  <2>2. CASE s.params.start # None
    <3>1. s1 = s  BY <1>4, <2>2 DEF GetOrCreateDynamicQuorumParams
    <3> QED  BY <1>1, <1>3, <2>2, <3>1 DEF IsStore
  <2> QED  BY <2>1, <2>2
<1>6. PICK qs : qs = [s1.params EXCEPT ![e.param] = e.value]  OBVIOUS
<1>7. /\ DOMAIN qs = ParamFields /\ qs[e.param] = e.value /\ qs.start = x
      /\ \A y \in {"min", "max", "coefficient"} : y # e.param => qs[y] = s.params[y]
  BY <1>6, <1>5 DEF ParamFields
<1>8. t = [s1 EXCEPT !.params = qs]
  BY <1>6, <1>4 DEF HandleQuorumParamSet
<1>9. /\ DOMAIN t = Kinds /\ t.accounts = s.accounts /\ t.delegates = s.delegates
       /\ t.governance = s.governance /\ t.proposals = s.proposals /\ t.params = qs
       /\ t.auctions = s.auctions /\ t.alps = s.alps
  BY <1>5, <1>8 DEF Kinds
<1>10. GovernorOnly(s, t)
  BY <1>7, <1>9 DEF GovernorOnly, IsStore, SameAuctions, SameVotes, SameHolders, AccountOf, Counted
<1> QED  BY <1>1, <1>7, <1>10, <1>9

-----------------------------------------------------------------------------
(* Transactions: several events.                                           *)

\* Lists of events put together.
LEMMA JoinLists ==
    ASSUME NEW E, NEW q \in Seq(E), NEW e1, NEW e2
    PROVE  /\ << >> \o q = q /\ q \o << >> = q
           /\ q \o <<e1>> = Append(q, e1)
           /\ q \o <<e1, e2>> = Append(Append(q, e1), e2)
           /\ Append(q, e1) \in Seq(E \cup {e1})
<1>1. << >> \o q = q /\ q \o << >> = q  OBVIOUS
<1>2. q \o <<e1>> = Append(q, e1)  OBVIOUS
<1>3. q \o <<e1, e2>> = Append(Append(q, e1), e2)  OBVIOUS
<1>4. q \in Seq(E \cup {e1})  OBVIOUS
<1> QED  BY <1>1, <1>2, <1>3, <1>4

LEMMA OneHandled ==
    ASSUME NEW s, NEW e
    PROVE  Handled(s, <<e>>) = Handle(s, e)
<1>1. << >> \in Seq({e})  OBVIOUS
<1>2. <<e>> = Append(<< >>, e)  OBVIOUS
<1>3. Handled(s, Append(<< >>, e)) = Handle(Handled(s, << >>), e)  BY <1>1, LastHandled
<1>4. Handled(s, << >>) = s  BY NothingHandled
<1> QED  BY <1>2, <1>3, <1>4

LEMMA TwoHandled ==
    ASSUME NEW s, NEW e1, NEW e2
    PROVE  Handled(s, <<e1, e2>>) = Handle(Handle(s, e1), e2)
<1>1. <<e1>> \in Seq({e1})  OBVIOUS
<1>2. <<e1, e2>> = Append(<<e1>>, e2)  OBVIOUS
<1>3. Handled(s, Append(<<e1>>, e2)) = Handle(Handled(s, <<e1>>), e2)  BY <1>1, LastHandled
<1>4. Handled(s, <<e1>>) = Handle(s, e1)  BY OneHandled
<1> QED  BY <1>2, <1>3, <1>4

LEMMA ThreeHandled ==
    ASSUME NEW s, NEW e1, NEW e2, NEW e3
    PROVE  Handled(s, <<e1, e2, e3>>) = Handle(Handle(Handle(s, e1), e2), e3)
<1>1. <<e1, e2>> \in Seq({e1, e2})  OBVIOUS
<1>2. <<e1, e2, e3>> = Append(<<e1, e2>>, e3)  OBVIOUS
<1>3. Handled(s, Append(<<e1, e2>>, e3)) = Handle(Handled(s, <<e1, e2>>), e3)
  BY <1>1, LastHandled
<1>4. Handled(s, <<e1, e2>>) = Handle(Handle(s, e1), e2)  BY TwoHandled
<1> QED  BY <1>2, <1>3, <1>4

\* The sum of votes k and the votes w of every account, as the store has them.
Voters(w) == {a \in Accounts : w[a] > 0}
VotesMatch(s, w, k) ==
    /\ \A a \in Accounts : Counted(s, a) = w[a]
    /\ s.governance.delegatedVotes = k
    /\ s.governance.currentDelegates = Cardinality(Voters(w))

\* What vote events leave alone.
VotesOnly(s, t) ==
    /\ IsStore(t)
    /\ SameGovernor(s, t) /\ SameAuctions(s, t) /\ SameHolders(s, t)
    /\ t.governance.totalTokenHolders = s.governance.totalTokenHolders

VoteEvent(d, n, m) == [event |-> "DelegateVotesChanged", delegate |-> d, previous |-> n, new |-> m]

\* The votes of one account change.
LEMMA VotesChange ==
    ASSUME NEW s, IsStore(s), NEW w \in [Accounts -> Nat], NEW k \in Int, VotesMatch(s, w, k),
           IsFiniteSet(Accounts),
           NEW d \in Accounts, NEW m \in Nat, m # w[d],
           NEW w2, w2 = [w EXCEPT ![d] = m],
           NEW t, t = Handle(s, VoteEvent(d, w[d], m))
    PROVE  VotesOnly(s, t) /\ VotesMatch(t, w2, k + m - w[d])
<1>1. PICK e : e = VoteEvent(d, w[d], m)  OBVIOUS
<1>2. PICK n \in Nat : n = w[d]  OBVIOUS
<1>3. t = HandleDelegateVotesChanged(s, e)  BY <1>1 DEF VoteEvent, Handle
<1>4. e.delegate = d /\ e.previous = n /\ e.new = m  BY <1>1, <1>2 DEF VoteEvent
<1>5. n \in Int /\ m \in Int  OBVIOUS
<1>6. /\ IsStore(t)
      /\ SameGovernor(s, t) /\ SameAuctions(s, t) /\ SameHolders(s, t)
      /\ t.governance.totalTokenHolders = s.governance.totalTokenHolders
      /\ \A a : Counted(t, a) = IF a = d THEN m ELSE Counted(s, a)
      /\ t.governance.delegatedVotes = s.governance.delegatedVotes + m - n
      /\ t.governance.currentDelegates =
           IF n = 0 /\ m > 0 THEN s.governance.currentDelegates + 1
           ELSE IF m = 0 THEN s.governance.currentDelegates - 1
           ELSE s.governance.currentDelegates
  BY <1>3, <1>4, <1>5, VotesChangedEffect
<1>7. \A a \in Accounts : Counted(t, a) = w2[a]  BY <1>6 DEF VotesMatch
<1>8. t.governance.delegatedVotes = k + m - w[d]  BY <1>2, <1>6 DEF VotesMatch
<1>9. t.governance.currentDelegates = Cardinality(Voters(w2))
  <2>1. IsFiniteSet(Voters(w))  BY FS_Subset DEF Voters
  <2>2. Cardinality(Voters(w)) \in Nat  BY <2>1, FS_CardinalityType
  <2>3. CASE n = 0 /\ m > 0
    <3>1. ~(w[d] > 0)  BY <1>2, <2>3
    <3>2. d \notin Voters(w)  BY <3>1 DEF Voters
    <3>3. \A a \in Accounts : w2[a] > 0 <=> w[a] > 0 \/ a = d  BY <1>2, <2>3
    <3>4. Voters(w2) = Voters(w) \cup {d}  BY <3>3 DEF Voters
    <3> QED  BY <1>6, <2>1, <2>3, <3>2, <3>4, FS_AddElement DEF VotesMatch
  <2>4. CASE m = 0
    <3>1. d \in Voters(w) /\ Voters(w2) = Voters(w) \ {d}  BY <2>4 DEF Voters
    <3> QED  BY <1>2, <1>6, <2>1, <2>4, <3>1, FS_RemoveElement DEF VotesMatch
  <2>5. CASE n > 0 /\ m > 0
    <3>1. Voters(w2) = Voters(w)  BY <1>2, <2>5 DEF Voters
    <3> QED  BY <1>6, <2>5, <3>1 DEF VotesMatch
  <2> QED  BY <2>3, <2>4, <2>5
<1> QED  BY <1>6, <1>7, <1>8, <1>9 DEF VotesOnly, VotesMatch

\* Votes w of which n move from src to dst, and what that does to their sum.
Moved(w, src, dst, n) ==
    [a \in Accounts |-> IF src = dst THEN w[a] ELSE IF a = src THEN w[a] - n
                        ELSE IF a = dst THEN w[a] + n ELSE w[a]]
Added(src, dst, n) == IF src = dst THEN 0 ELSE IF src = Zero THEN n ELSE IF dst = Zero THEN 0 - n ELSE 0

\* VoteEvents, one case after another.
LEMMA VoteEventsCases ==
    ASSUME NEW src, NEW dst, NEW n \in Nat
    PROVE  /\ src = dst \/ n = 0 => VoteEvents(src, dst, n) = << >>
           /\ src # dst /\ n # 0 /\ src = Zero =>
                VoteEvents(src, dst, n) = <<VoteEvent(dst, Votes(dst), Votes(dst) + n)>>
           /\ src # dst /\ n # 0 /\ dst = Zero =>
                VoteEvents(src, dst, n) = <<VoteEvent(src, Votes(src), Votes(src) - n)>>
           /\ src # dst /\ n # 0 /\ src # Zero /\ dst # Zero =>
                VoteEvents(src, dst, n) = <<VoteEvent(src, Votes(src), Votes(src) - n),
                                            VoteEvent(dst, Votes(dst), Votes(dst) + n)>>
<1>1. PICK e1 : e1 = VoteEvent(src, Votes(src), Votes(src) - n)  OBVIOUS
<1>2. PICK e2 : e2 = VoteEvent(dst, Votes(dst), Votes(dst) + n)  OBVIOUS
<1>3. VoteEvents(src, dst, n) = IF src = dst \/ n = 0 THEN << >>
                                ELSE (IF src = Zero THEN << >> ELSE <<e1>>)
                                     \o (IF dst = Zero THEN << >> ELSE <<e2>>)
  BY <1>1, <1>2 DEF VoteEvents, VoteEvent
<1>4. <<e1>> \o <<e2>> = <<e1, e2>> /\ <<e1>> \o << >> = <<e1>> /\ << >> \o <<e2>> = <<e2>>
  <2>1. <<e1>> \in Seq({e1}) /\ <<e2>> \in Seq({e2})  OBVIOUS
  <2>2. PICK q \in Seq({e1}) : q = <<e1>>  BY <2>1
  <2>3. PICK r \in Seq({e2}) : r = <<e2>>  BY <2>1
  <2>4. q \o <<e2>> = Append(q, e2)  BY JoinLists
  <2>5. <<e1, e2>> = Append(q, e2)  BY <2>2
  <2>6. q \o << >> = q /\ << >> \o r = r  BY JoinLists
  <2> QED  BY <2>2, <2>3, <2>4, <2>5, <2>6
<1> QED  BY <1>1, <1>2, <1>3, <1>4

LEMMA VoteEventsEffect ==
    ASSUME NEW w \in [Accounts -> Nat], \A a \in Accounts : w[a] = Votes(a), IsFiniteSet(Accounts),
           NEW src \in Accounts \cup {Zero}, NEW dst \in Accounts \cup {Zero}, NEW n \in Nat,
           src \in Accounts => n <= w[src],
           NEW s, IsStore(s), NEW k \in Int, VotesMatch(s, w, k),
           NEW t, t = Handled(s, VoteEvents(src, dst, n)),
           NEW w2, w2 = Moved(w, src, dst, n)
    PROVE  /\ VotesOnly(s, t)
           /\ VotesMatch(t, w2, k + Added(src, dst, n))
           /\ w2 \in [Accounts -> Nat]
<1>1. w2 \in [Accounts -> Nat]  BY DEF Moved
<1>2. CASE src = dst \/ n = 0
  <2>1. t = s  BY <1>2, VoteEventsCases, NothingHandled
  <2>2. w2 = w  BY <1>2 DEF Moved
  <2>3. k + Added(src, dst, n) = k  BY <1>2 DEF Added
  <2> QED  BY <1>1, <2>1, <2>2, <2>3 DEF VotesOnly, SameGovernor, SameAuctions, SameHolders
<1>3. CASE src # dst /\ n # 0 /\ src = Zero
  <2>1. dst \in Accounts /\ Zero \notin Accounts  BY <1>3, AccountsAssumption
  <2>2. PICK m \in Nat : m = w[dst] + n  BY <2>1
  <2>3. t = Handled(s, <<VoteEvent(dst, w[dst], m)>>)  BY <1>3, <2>1, <2>2, VoteEventsCases
  <2>4. t = Handle(s, VoteEvent(dst, w[dst], m))  BY <2>3, OneHandled
  <2>5. w2 = [w EXCEPT ![dst] = m]  BY <1>3, <2>1, <2>2 DEF Moved
  <2>6. m # w[dst]  BY <1>3, <2>1, <2>2
  <2>7. VotesOnly(s, t) /\ VotesMatch(t, w2, k + m - w[dst])
    BY <2>1, <2>4, <2>5, <2>6, VotesChange
  <2>8. k + m - w[dst] = k + Added(src, dst, n)  BY <1>3, <2>1, <2>2 DEF Added
  <2> QED  BY <1>1, <2>7, <2>8
<1>4. CASE src # dst /\ n # 0 /\ dst = Zero
  <2>1. src \in Accounts /\ Zero \notin Accounts  BY <1>4, AccountsAssumption
  <2>2. PICK m \in Nat : m = w[src] - n  BY <2>1
  <2>3. t = Handled(s, <<VoteEvent(src, w[src], m)>>)  BY <1>4, <2>1, <2>2, VoteEventsCases
  <2>4. t = Handle(s, VoteEvent(src, w[src], m))  BY <2>3, OneHandled
  <2>5. w2 = [w EXCEPT ![src] = m]  BY <1>4, <2>1, <2>2 DEF Moved
  <2>6. m # w[src]  BY <1>4, <2>1, <2>2
  <2>7. VotesOnly(s, t) /\ VotesMatch(t, w2, k + m - w[src])
    BY <2>1, <2>4, <2>5, <2>6, VotesChange
  <2>8. k + m - w[src] = k + Added(src, dst, n)  BY <1>4, <2>1, <2>2 DEF Added
  <2> QED  BY <1>1, <2>7, <2>8
<1>5. CASE src # dst /\ n # 0 /\ src # Zero /\ dst # Zero
  <2>1. src \in Accounts /\ dst \in Accounts  BY <1>5
  <2>2. PICK m \in Nat : m = w[src] - n  BY <2>1
  <2>3. PICK x \in Nat : x = w[dst] + n  BY <2>1
  <2>4. t = Handled(s, <<VoteEvent(src, w[src], m), VoteEvent(dst, w[dst], x)>>)
    BY <1>5, <2>1, <2>2, <2>3, VoteEventsCases
  <2>5. PICK r : r = Handle(s, VoteEvent(src, w[src], m))  OBVIOUS
  <2>6. t = Handle(r, VoteEvent(dst, w[dst], x))  BY <2>4, <2>5, TwoHandled
  <2>7. PICK v \in [Accounts -> Nat] : v = [w EXCEPT ![src] = m]  OBVIOUS
  <2>8. v[dst] = w[dst] /\ x # v[dst] /\ m # w[src]  BY <1>5, <2>1, <2>2, <2>3, <2>7
  <2>9. VotesOnly(s, r) /\ VotesMatch(r, v, k + m - w[src])
    BY <2>1, <2>5, <2>7, <2>8, VotesChange
  <2>10. w2 = [v EXCEPT ![dst] = x]
    BY <1>5, <2>1, <2>2, <2>3, <2>7 DEF Moved
  <2>11. PICK j \in Int : j = k + m - w[src]  BY <2>1
  <2>12. t = Handle(r, VoteEvent(dst, v[dst], x)) /\ IsStore(r) /\ VotesMatch(r, v, j)
    BY <2>6, <2>8, <2>9, <2>11 DEF VotesOnly
  <2>13. VotesOnly(r, t) /\ VotesMatch(t, w2, j + x - v[dst])
    BY <2>1, <2>8, <2>10, <2>12, VotesChange
  <2>14. j + x - v[dst] = k + Added(src, dst, n)
    BY <1>5, <2>1, <2>2, <2>3, <2>8, <2>11 DEF Added
  <2>15. VotesOnly(s, t)
    BY <2>9, <2>13 DEF VotesOnly, SameGovernor, SameAuctions, SameHolders
  <2> QED  BY <1>1, <2>13, <2>14, <2>15
<1> QED  BY <1>2, <1>3, <1>4, <1>5

-----------------------------------------------------------------------------
(* The invariant.                                                          *)

\* The Alps that are not burned, and those an account represents, with owners o and
\* delegates r.
RepOf(r, a) == IF r[a] = Zero THEN a ELSE r[a]
Represented(o, r, a) == {t \in DOMAIN o : o[t] # Zero /\ RepOf(r, o[t]) = a}
Living(o) == {t \in DOMAIN o : o[t] # Zero}
VotesOf(o, r) == [a \in Accounts |-> Cardinality(Represented(o, r, a))]

Proposal ==
    [created : Nat, supply : Nat, seen : ParamSets, snapshot : [Holders -> Nat], voted : SUBSET Holders,
     for : Nat, against : Nat, queued : BOOLEAN, executed : BOOLEAN, canceled : BOOLEAN,
     vetoed : BOOLEAN]
Auction == [alp : Nat, amount : Nat, bidder : Holders \cup {None}, endTime : Nat, settled : BOOLEAN]

\* The contracts: an Alp on auction is the house's, and a proposal is of a past or
\* the present block and of a supply that is not zero.
ChainTyped ==
    /\ owner \in Seq(Accounts \cup {Zero})
    /\ delegateOf \in [Accounts -> Accounts \cup {Zero}]
    /\ block \in Nat \ {0}
    /\ params \in Seq(ParamSets) /\ Len(params) = block
    /\ house \in Auction /\ house.alp \in 0..Len(owner)
    /\ ~house.settled => house.alp # 0 /\ owner[house.alp] = House
    /\ proposals \in Seq(Proposal)
    /\ \A i \in DOMAIN proposals : proposals[i].created \in 1..block /\ proposals[i].supply > 0

\* The entities of the auctions are of minted Alps, and the one of the house's auction is there.
AuctionsFollow ==
    /\ DOMAIN store.alps = Alps
    /\ \A t \in Alps : store.alps[t] = owner[t]
    /\ DOMAIN store.auctions \subseteq Alps
    /\ house.alp # 0 => house.alp \in DOMAIN store.auctions
    /\ AuctionMirrored

ProposalFields == {"proposer", "createdBlock", "quorumVotes", "forVotes", "againstVotes",
                   "abstainVotes", "status", "totalSupply", "params"}

\* Every proposal has its entity, which knows the parameters the proposal saw.
ProposalFollows(q, p) ==
    /\ DOMAIN q = ProposalFields
    /\ q.status = "EXECUTED" <=> p.executed
    /\ q.status = "QUEUED" <=> p.queued /\ ~(p.executed \/ p.canceled \/ p.vetoed)
    /\ q.totalSupply = p.supply /\ q.forVotes = p.for /\ q.againstVotes = p.against
    /\ q.createdBlock = p.created /\ q.params = p.seen
    /\ q.quorumVotes = DynamicQuorumVotes(p.against, p.supply, p.seen)

GovernorFollows ==
    /\ DOMAIN store.proposals = DOMAIN proposals
    /\ \A i \in DOMAIN proposals : ProposalFollows(store.proposals[i], proposals[i])
    /\ store.params.min = params[block].min /\ store.params.max = params[block].max
    /\ store.params.coefficient = params[block].coefficient
    /\ store.params.start = 0
    /\ store.governance.totalTokenHolders = Cardinality(Living(owner))

VotesFollow == VotesMatch(store, VotesOf(owner, delegateOf), Cardinality(Living(owner)))

Owned(o, a) == {t \in DOMAIN o : o[t] = a}
Holds(account, S) == IsList(account.alps, S) /\ account.balance = Len(account.alps)

\* Every account but those in out has the Alps that o gives it.
HoldersMatch(s, o, out) == \A a \in Accounts \ out : Holds(AccountOf(s, a), Owned(o, a))

HoldersFollow == HoldersMatch(store, owner, selfSent)
Senders(out, from, to) == IF to = from THEN out \cup {to} ELSE out

\* The entities of the store follow the contracts.
Follows == IsStore(store) /\ AuctionsFollow /\ GovernorFollows /\ VotesFollow /\ HoldersFollow

SubgraphInv == ChainTyped /\ Follows

-----------------------------------------------------------------------------
(* The contracts.                                                          *)

LEMMA AccountsFinite ==
    /\ IsFiniteSet(Accounts)
    /\ Holders \subseteq Accounts
    /\ House \in Accounts /\ Treasury \in Accounts /\ HallOfFame \in Accounts
<1>1. IsFiniteSet({House, Treasury, HallOfFame})
  <2>1. IsFiniteSet({House}) /\ IsFiniteSet({Treasury}) /\ IsFiniteSet({HallOfFame})
    BY FS_Singleton
  <2>2. {House, Treasury, HallOfFame} = ({House} \cup {Treasury}) \cup {HallOfFame}  OBVIOUS
  <2>3. IsFiniteSet({House} \cup {Treasury})  BY <2>1, FS_Union
  <2>4. IsFiniteSet(({House} \cup {Treasury}) \cup {HallOfFame})  BY <2>1, <2>3, FS_Union
  <2> QED  BY <2>2, <2>4
<1>2. IsFiniteSet(Holders)  BY AccountsAssumption
<1> QED  BY <1>1, <1>2, FS_Union DEF Accounts

\* Votes and supply are numbers, and who has votes has a living Alp.
LEMMA VotesCount ==
    ASSUME owner \in Seq(Accounts \cup {Zero})
    PROVE  /\ Alps = 1..Len(owner) /\ Len(owner) \in Nat
           /\ Supply \in Nat
           /\ \A a : Votes(a) \in Nat /\ Votes(a) <= Supply
<1>1. Alps = 1..Len(owner) /\ Len(owner) \in Nat  BY DEF Alps
<1>2. IsFiniteSet(Alps)  BY <1>1, FS_Interval
<1> DEFINE L == {t \in Alps : owner[t] # Zero}
<1>3. IsFiniteSet(L)  BY <1>2, FS_Subset
<1>4. Supply \in Nat /\ Supply = Cardinality(L)  BY <1>3, FS_CardinalityType DEF Supply
<1>5. ASSUME NEW a PROVE Votes(a) \in Nat /\ Votes(a) <= Supply
  <2>1. RepresentedBy(a) \subseteq L  BY DEF RepresentedBy
  <2>2. IsFiniteSet(RepresentedBy(a)) /\ Cardinality(RepresentedBy(a)) <= Cardinality(L)
    BY <1>3, <2>1, FS_Subset
  <2> QED  BY <1>4, <2>2, FS_CardinalityType DEF Votes
<1> QED  BY <1>1, <1>4, <1>5

\* An Alp with a new owner, and a new Alp.
LEMMA OwnerChanged ==
    ASSUME NEW o \in Seq(Accounts \cup {Zero}), NEW t \in DOMAIN o, NEW a \in Accounts \cup {Zero},
           NEW o2, o2 = [o EXCEPT ![t] = a]
    PROVE  /\ o2 \in Seq(Accounts \cup {Zero}) /\ Len(o2) = Len(o) /\ DOMAIN o2 = DOMAIN o
           /\ o2[t] = a /\ \A u \in DOMAIN o : u # t => o2[u] = o[u]
OBVIOUS

LEMMA OwnerAdded ==
    ASSUME NEW o \in Seq(Accounts \cup {Zero}), NEW a \in Accounts \cup {Zero},
           NEW o2, o2 = Append(o, a)
    PROVE  /\ o2 \in Seq(Accounts \cup {Zero}) /\ Len(o2) = Len(o) + 1 /\ Len(o) \in Nat
           /\ DOMAIN o = 1..Len(o) /\ DOMAIN o2 = 1..(Len(o) + 1)
           /\ o2[Len(o) + 1] = a /\ \A u \in DOMAIN o : o2[u] = o[u]
OBVIOUS

LEMMA ChainInit ==
    ASSUME Init
    PROVE  ChainTyped
<1>1. owner \in Seq(Accounts \cup {Zero}) /\ Len(owner) = 0  BY DEF Init
<1>2. delegateOf \in [Accounts -> Accounts \cup {Zero}]  BY DEF Init
<1>3. params \in Seq(ParamSets) /\ Len(params) = 1 /\ block = 1
  BY ParamsAssumption DEF Init
<1>4. house \in Auction /\ house.alp = 0 /\ house.settled  BY DEF Init, NoAuction, Auction
<1>5. proposals \in Seq(Proposal) /\ DOMAIN proposals = {}  BY DEF Init
<1> QED  BY <1>1, <1>2, <1>3, <1>4, <1>5 DEF ChainTyped

\* A proposal replaced by one of the same creation and supply.
LEMMA ProposalReplaced ==
    ASSUME ChainTyped, NEW i \in DOMAIN proposals, NEW p \in Proposal,
           p.created = proposals[i].created, p.supply = proposals[i].supply,
           NEW ps, ps = [proposals EXCEPT ![i] = p]
    PROVE  /\ ps \in Seq(Proposal)
           /\ \A j \in DOMAIN ps : ps[j].created \in 1..block /\ ps[j].supply > 0
<1>1. ps \in Seq(Proposal) /\ DOMAIN ps = DOMAIN proposals  BY DEF ChainTyped
<1>2. \A j \in DOMAIN ps : ps[j] = IF j = i THEN p ELSE proposals[j]  OBVIOUS
<1> QED  BY <1>1, <1>2 DEF ChainTyped

LEMMA AdvanceTyped ==
    ASSUME ChainTyped, NEW i \in DOMAIN proposals, NEW ev,
           NEW field \in {"queued", "executed", "canceled", "vetoed"}, Advance(i, ev, field)
    PROVE  ChainTyped'
<1>1. PICK p : p = [proposals[i] EXCEPT ![field] = TRUE]  OBVIOUS
<1>2. proposals' = [proposals EXCEPT ![i] = p]  BY <1>1 DEF Advance
<1>3. proposals[i] \in Proposal  BY DEF ChainTyped
<1>4. p \in Proposal /\ p.created = proposals[i].created /\ p.supply = proposals[i].supply
  BY <1>1, <1>3 DEF Proposal
<1>5. /\ proposals' \in Seq(Proposal)
      /\ \A j \in DOMAIN proposals' : proposals'[j].created \in 1..block /\ proposals'[j].supply > 0
  BY <1>2, <1>4, ProposalReplaced
<1>6. UNCHANGED <<owner, delegateOf, house, params, block, selfSent>>  BY DEF Advance
<1> QED  BY <1>5, <1>6 DEF ChainTyped

LEMMA ChainNext ==
    ASSUME ChainTyped, [Next]_vars
    PROVE  ChainTyped'
<1>1. /\ Alps = 1..Len(owner) /\ Len(owner) \in Nat /\ Supply \in Nat
      /\ \A a : Votes(a) \in Nat /\ Votes(a) <= Supply
  BY VotesCount DEF ChainTyped
<1>2. CASE MintReward
  <2>1. owner' = Append(owner, Alper) /\ Alper \in Accounts \cup {Zero}
    BY <1>2, AccountsAssumption, AccountsFinite DEF MintReward
  <2>2. owner \in Seq(Accounts \cup {Zero})  BY DEF ChainTyped
  <2>3. /\ owner' \in Seq(Accounts \cup {Zero}) /\ Len(owner') = Len(owner) + 1
        /\ \A u \in DOMAIN owner : owner'[u] = owner[u]
    BY <2>1, <2>2, OwnerAdded
  <2>4. UNCHANGED <<delegateOf, house, proposals, params, block, selfSent>>
    BY <1>2 DEF MintReward
  <2>5. house.alp # 0 => house.alp \in DOMAIN owner  BY <1>1 DEF ChainTyped, Alps
  <2> QED  BY <1>1, <2>3, <2>4, <2>5 DEF ChainTyped
<1>3. CASE CreateAuction
  <2>1. owner' = Append(owner, House) /\ House \in Accounts \cup {Zero}
    BY <1>3, AccountsFinite DEF CreateAuction
  <2>2. owner \in Seq(Accounts \cup {Zero})  BY DEF ChainTyped
  <2>3. /\ owner' \in Seq(Accounts \cup {Zero}) /\ Len(owner') = Len(owner) + 1
        /\ owner'[Len(owner) + 1] = House
    BY <2>1, <2>2, OwnerAdded
  <2>4. UNCHANGED <<delegateOf, proposals, params, block, selfSent>>
    BY <1>3 DEF CreateAuction
  <2>5. house' = [alp |-> Len(owner) + 1, amount |-> 0, bidder |-> None, endTime |-> block + 1,
                  settled |-> FALSE]
    BY <1>3 DEF CreateAuction
  <2>6. house' \in Auction /\ house'.alp = Len(owner) + 1
    BY <1>1, <2>5 DEF Auction, ChainTyped
  <2> QED  BY <1>1, <2>3, <2>4, <2>6 DEF ChainTyped
<1>4. ASSUME NEW bidder \in Holders, Bid(bidder) PROVE ChainTyped'
  <2>1. house \in Auction /\ block \in Nat  BY DEF ChainTyped
  <2>2. PICK x \in Nat : x = IF house.endTime = block + 1 THEN block + 2 ELSE house.endTime
    BY <2>1 DEF Auction
  <2>3. PICK v \in Nat : v = house.amount + 1  BY <2>1 DEF Auction
  <2>4. house' = [house EXCEPT !.amount = v, !.bidder = bidder, !.endTime = x]
    BY <1>4, <2>1, <2>2, <2>3 DEF Bid, Auction
  <2>5. bidder \in Holders \cup {None}  OBVIOUS
  <2>6. house' \in Auction /\ house'.alp = house.alp /\ house'.settled = house.settled
    BY <2>1, <2>4, <2>5 DEF Auction
  <2>7. UNCHANGED <<owner, delegateOf, proposals, params, block, selfSent>>  BY <1>4 DEF Bid
  <2> QED  BY <2>6, <2>7 DEF ChainTyped
<1>5. CASE Settle
  <2>1. PICK w : w = IF house.bidder = None THEN HallOfFame ELSE house.bidder  OBVIOUS
  <2>2. owner' = [owner EXCEPT ![house.alp] = w] /\ house' = [house EXCEPT !.settled = TRUE]
        /\ ~house.settled
    BY <1>5, <2>1 DEF Settle
  <2>3. house \in Auction /\ owner \in Seq(Accounts \cup {Zero}) /\ house.alp \in DOMAIN owner
    BY <1>1, <2>2 DEF ChainTyped, Alps
  <2>4. w \in Accounts \cup {Zero}  BY <2>1, <2>3, AccountsFinite DEF Auction
  <2>5. owner' \in Seq(Accounts \cup {Zero}) /\ Len(owner') = Len(owner)
    BY <2>2, <2>3, <2>4, OwnerChanged
  <2>6. house' \in Auction /\ house'.alp = house.alp /\ house'.settled
    BY <2>2, <2>3 DEF Auction
  <2>7. UNCHANGED <<delegateOf, proposals, params, block, selfSent>>  BY <1>5 DEF Settle
  <2> QED  BY <2>5, <2>6, <2>7 DEF ChainTyped
<1>6. ASSUME NEW t \in Alps, NEW to \in Accounts \cup {Zero}, owner[t] \in Holders,
             owner' = [owner EXCEPT ![t] = to],
             UNCHANGED <<delegateOf, house, proposals, params, block>>
      PROVE  ChainTyped'
  <2>1. owner \in Seq(Accounts \cup {Zero}) /\ t \in DOMAIN owner  BY DEF ChainTyped, Alps
  <2>2. /\ owner' \in Seq(Accounts \cup {Zero}) /\ Len(owner') = Len(owner)
        /\ \A u \in DOMAIN owner : u # t => owner'[u] = owner[u]
    BY <1>6, <2>1, OwnerChanged
  <2>3. ~house.settled => house.alp \in DOMAIN owner /\ house.alp # t
    BY <1>1, <1>6, AccountsAssumption DEF ChainTyped, Alps
  <2> QED  BY <1>6, <2>2, <2>3 DEF ChainTyped
<1>7. ASSUME NEW t \in Alps, NEW to \in Holders, Transfer(t, to) PROVE ChainTyped'
  <2>1. to \in Accounts \cup {Zero}  BY AccountsFinite
  <2>2. /\ owner[t] \in Holders /\ owner' = [owner EXCEPT ![t] = to]
        /\ UNCHANGED <<delegateOf, house, proposals, params, block>>
    BY <1>7 DEF Transfer
  <2> QED  BY <1>6, <2>1, <2>2
<1>8. ASSUME NEW t \in Alps, Burn(t) PROVE ChainTyped'
  <2>1. Zero \in Accounts \cup {Zero}  OBVIOUS
  <2>2. /\ owner[t] \in Holders /\ owner' = [owner EXCEPT ![t] = Zero]
        /\ UNCHANGED <<delegateOf, house, proposals, params, block>>
    BY <1>8 DEF Burn
  <2> QED  BY <1>6, <2>1, <2>2
<1>9. ASSUME NEW a \in Holders, NEW d \in Holders, Delegate(a, d) PROVE ChainTyped'
  <2>1. delegateOf' \in [Accounts -> Accounts \cup {Zero}]
    BY <1>9, AccountsFinite DEF Delegate, ChainTyped
  <2>2. UNCHANGED <<owner, house, proposals, params, block, selfSent>>  BY <1>9 DEF Delegate
  <2> QED  BY <2>1, <2>2 DEF ChainTyped
<1>10. ASSUME NEW proposer \in Holders, Propose(proposer) PROVE ChainTyped'
  <2>1. PICK f : f = [a \in Holders |-> Votes(a)]  OBVIOUS
  <2>2. f \in [Holders -> Nat]  BY <1>1, <2>1
  <2>3. PICK p : p = [created |-> block, supply |-> Supply, seen |-> params[block],
                 snapshot |-> f, voted |-> {}, for |-> 0, against |-> 0,
                 queued |-> FALSE, executed |-> FALSE, canceled |-> FALSE, vetoed |-> FALSE]
    OBVIOUS
  <2>4. proposals' = Append(proposals, p) /\ Votes(proposer) > 0  BY <1>10, <2>1, <2>3 DEF Propose
  <2>5. Supply > 0  BY <1>1, <2>4
  <2>6. block \in Nat \ {0} /\ params[block] \in ParamSets  BY DEF ChainTyped
  <2>7. p \in Proposal /\ p.created = block /\ p.supply = Supply
    BY <1>1, <2>2, <2>3, <2>6 DEF Proposal
  <2>8. UNCHANGED <<owner, delegateOf, house, params, block, selfSent>>  BY <1>10 DEF Propose
  <2>9. proposals \in Seq(Proposal)  BY DEF ChainTyped
  <2>10. /\ proposals' \in Seq(Proposal)
         /\ \A j \in DOMAIN proposals' :
              \/ proposals'[j] = p
              \/ j \in DOMAIN proposals /\ proposals'[j] = proposals[j]
    <3>1. proposals' \in Seq(Proposal)  BY <2>4, <2>7, <2>9
    <3>2. PICK n \in Nat : n = Len(proposals) /\ DOMAIN proposals = 1..n  BY <2>9
    <3>3. DOMAIN proposals' = 1..(n + 1)  BY <2>4, <2>9, <3>2
    <3>4. \A j \in 1..n : proposals'[j] = proposals[j]  BY <2>4, <2>9, <3>2
    <3>5. proposals'[n + 1] = p  BY <2>4, <2>9, <3>2
    <3> QED  BY <3>1, <3>2, <3>3, <3>4, <3>5
  <2>11. \A j \in DOMAIN proposals' : proposals'[j].created \in 1..block /\ proposals'[j].supply > 0
    BY <2>5, <2>6, <2>7, <2>10 DEF ChainTyped
  <2> QED  BY <2>8, <2>10, <2>11 DEF ChainTyped
<1>11. ASSUME NEW i \in DOMAIN proposals, NEW voter \in Holders, NEW support \in 0..2,
              CastVote(i, voter, support)
       PROVE  ChainTyped'
  <2>1. PICK n : n = proposals[i].snapshot[voter]  OBVIOUS
  <2>2. proposals[i] \in Proposal  BY DEF ChainTyped
  <2>3. n \in Nat  BY <2>1, <2>2 DEF Proposal
  <2>4. PICK f \in Nat : f = IF support = 1 THEN proposals[i].for + n ELSE proposals[i].for
    BY <2>2, <2>3 DEF Proposal
  <2>5. PICK g \in Nat : g = IF support = 0 THEN proposals[i].against + n ELSE proposals[i].against
    BY <2>2, <2>3 DEF Proposal
  <2>6. PICK v \in SUBSET Holders : v = proposals[i].voted \cup {voter}  BY <2>2 DEF Proposal
  <2>7. PICK p : p = [proposals[i] EXCEPT !.voted = v, !.for = f, !.against = g]  OBVIOUS
  <2>8. p \in Proposal /\ p.created = proposals[i].created /\ p.supply = proposals[i].supply
    BY <2>2, <2>7 DEF Proposal
  <2>9. proposals' = [proposals EXCEPT ![i].voted = v, ![i].for = f, ![i].against = g]
    <3>1. PICK q : q = [proposals[i] EXCEPT !.voted = v]  OBVIOUS
    <3>2. q.for = proposals[i].for /\ q.against = proposals[i].against
      BY <2>2, <3>1 DEF Proposal
    <3> QED  BY <1>11, <2>1, <2>2, <2>4, <2>5, <2>6 DEF CastVote, ChainTyped, Proposal
  <2>10. proposals' = [proposals EXCEPT ![i] = p]
    BY <2>7, <2>9
  <2>11. /\ proposals' \in Seq(Proposal)
        /\ \A j \in DOMAIN proposals' : proposals'[j].created \in 1..block /\ proposals'[j].supply > 0
    BY <2>8, <2>10, ProposalReplaced
  <2>12. UNCHANGED <<owner, delegateOf, house, params, block, selfSent>>  BY <1>11 DEF CastVote
  <2> QED  BY <2>11, <2>12 DEF ChainTyped
<1>12. ASSUME NEW i \in DOMAIN proposals, Queue(i) \/ Execute(i) \/ Cancel(i) \/ Veto(i)
       PROVE  ChainTyped'
  BY <1>12, AdvanceTyped DEF Queue, Execute, Cancel, Veto
<1>13. ASSUME NEW p \in ParamSets, SetParams(p) PROVE ChainTyped'
  <2>1. params' = [params EXCEPT ![block] = p]  BY <1>13 DEF SetParams
  <2>2. params' \in Seq(ParamSets) /\ Len(params') = Len(params)  BY <2>1 DEF ChainTyped
  <2>3. UNCHANGED <<owner, delegateOf, house, proposals, block, selfSent>>
    BY <1>13 DEF SetParams
  <2> QED  BY <2>2, <2>3 DEF ChainTyped
<1>14. CASE NextBlock
  <2>1. /\ block' = block + 1 /\ params' = Append(params, params[block])
        /\ UNCHANGED <<owner, delegateOf, house, proposals, txs, selfSent, store>>
    BY <1>14 DEF NextBlock
  <2>2. block \in Nat \ {0} /\ params \in Seq(ParamSets) /\ Len(params) = block  BY DEF ChainTyped
  <2>3. params' \in Seq(ParamSets) /\ Len(params') = block + 1  BY <2>1, <2>2
  <2> QED  BY <2>1, <2>2, <2>3 DEF ChainTyped
<1>15. CASE UNCHANGED vars
  BY <1>15 DEF vars, ChainTyped
<1> QED
  BY <1>2, <1>3, <1>4, <1>5, <1>7, <1>8, <1>9, <1>10, <1>11, <1>12, <1>13, <1>14, <1>15 DEF Next

-----------------------------------------------------------------------------
(* The votes after a mint, a transfer and a delegation.                    *)

LEMMA VotesOfFacts ==
    ASSUME NEW o \in Seq(Accounts \cup {Zero}), NEW r \in [Accounts -> Accounts \cup {Zero}]
    PROVE  /\ IsFiniteSet(DOMAIN o) /\ IsFiniteSet(Living(o)) /\ Cardinality(Living(o)) \in Nat
           /\ \A a : IsFiniteSet(Represented(o, r, a)) /\ Cardinality(Represented(o, r, a)) \in Nat
           /\ VotesOf(o, r) \in [Accounts -> Nat]
           /\ \A a \in Accounts : RepOf(r, a) \in Accounts
<1>1. DOMAIN o = 1..Len(o) /\ Len(o) \in Nat  OBVIOUS
<1>2. IsFiniteSet(DOMAIN o)  BY <1>1, FS_Interval
<1>3. IsFiniteSet(Living(o)) /\ Cardinality(Living(o)) \in Nat
  BY <1>2, FS_Subset, FS_CardinalityType DEF Living
<1>4. ASSUME NEW a
      PROVE  IsFiniteSet(Represented(o, r, a)) /\ Cardinality(Represented(o, r, a)) \in Nat
  BY <1>2, FS_Subset, FS_CardinalityType DEF Represented
<1>5. VotesOf(o, r) \in [Accounts -> Nat]  BY <1>4 DEF VotesOf
<1>6. \A a \in Accounts : RepOf(r, a) \in Accounts  BY DEF RepOf
<1> QED  BY <1>2, <1>3, <1>4, <1>5, <1>6

\* One element more or less, or none.
LEMMA CountOne ==
    ASSUME NEW S, IsFiniteSet(S), NEW x
    PROVE  /\ x \notin S => Cardinality(S \cup {x}) = Cardinality(S) + 1
           /\ x \in S => Cardinality(S \ {x}) = Cardinality(S) - 1 /\ Cardinality(S) >= 1
<1>1. Cardinality(S) \in Nat /\ (S = {} <=> Cardinality(S) = 0)
  BY FS_CardinalityType, FS_EmptySet
<1>2. x \notin S => Cardinality(S \cup {x}) = Cardinality(S) + 1  BY FS_AddElement
<1>3. x \in S => Cardinality(S \ {x}) = Cardinality(S) - 1  BY FS_RemoveElement
<1> QED  BY <1>1, <1>2, <1>3

\* Whom an Alp sent to an account counts for.
Joined(r, to) == IF to = Zero THEN Zero ELSE RepOf(r, to)

\* n votes move from src to dst when the owners change from o to o2 and the delegates
\* from r to r2.
VotesMoved(o, r, o2, r2, src, dst, n) ==
    /\ dst \in Accounts \cup {Zero}
    /\ VotesOf(o2, r2) = Moved(VotesOf(o, r), src, dst, n)
    /\ Cardinality(Living(o2)) = Cardinality(Living(o)) + Added(src, dst, n)

LEMMA TransferVotes ==
    ASSUME NEW o \in Seq(Accounts \cup {Zero}), NEW r \in [Accounts -> Accounts \cup {Zero}],
           NEW t \in DOMAIN o, o[t] \in Accounts, NEW to \in Accounts \cup {Zero},
           NEW o2, o2 = Changed(o, t, to),
           NEW src, src = RepOf(r, o[t]),
           NEW dst, dst = Joined(r, to)
    PROVE  /\ src \in Accounts /\ 1 <= VotesOf(o, r)[src]
           /\ VotesMoved(o, r, o2, r, src, dst, 1)
<1>1. /\ IsFiniteSet(DOMAIN o) /\ IsFiniteSet(Living(o)) /\ Cardinality(Living(o)) \in Nat
      /\ \A a : IsFiniteSet(Represented(o, r, a)) /\ Cardinality(Represented(o, r, a)) \in Nat
      /\ \A a \in Accounts : RepOf(r, a) \in Accounts
  BY VotesOfFacts
<1>2. src \in Accounts /\ dst \in Accounts \cup {Zero} /\ Zero \notin Accounts
  BY <1>1, AccountsAssumption DEF Joined
<1>3. /\ DOMAIN o2 = DOMAIN o /\ o2[t] = to /\ \A u \in DOMAIN o : u # t => o2[u] = o[u]
  BY DEF Changed
<1>4. t \in Represented(o, r, src)  BY <1>2 DEF Represented
<1>5. \A a \in Accounts : t \in Represented(o, r, a) <=> a = src  BY <1>2 DEF Represented
<1>6. \A a \in Accounts : Represented(o2, r, a) = (Represented(o, r, a) \ {t}) \cup (IF a = dst THEN {t} ELSE {})
  BY <1>2, <1>3 DEF Represented, Joined
<1>7. 1 <= VotesOf(o, r)[src]
  <2>1. Cardinality(Represented(o, r, src)) >= 1  BY <1>1, <1>4, CountOne
  <2> QED  BY <1>1, <1>2, <2>1 DEF VotesOf
<1>8. ASSUME NEW a \in Accounts
      PROVE  Cardinality(Represented(o2, r, a)) =
               IF src = dst THEN Cardinality(Represented(o, r, a))
               ELSE IF a = src THEN Cardinality(Represented(o, r, a)) - 1
               ELSE IF a = dst THEN Cardinality(Represented(o, r, a)) + 1
               ELSE Cardinality(Represented(o, r, a))
  <2>1. PICK S : S = Represented(o, r, a)  OBVIOUS
  <2>2. IsFiniteSet(S) /\ Cardinality(S) \in Nat /\ (t \in S <=> a = src)  BY <1>1, <1>5, <2>1
  <2>3. Represented(o2, r, a) = (S \ {t}) \cup (IF a = dst THEN {t} ELSE {})  BY <1>6, <2>1
  <2>4. CASE a = src /\ a = dst
    <3>1. Represented(o2, r, a) = S  BY <2>2, <2>3, <2>4
    <3> QED  BY <2>1, <2>4, <3>1
  <2>5. CASE a = src /\ a # dst
    <3>1. Represented(o2, r, a) = S \ {t}  BY <2>3, <2>5
    <3>2. Cardinality(S \ {t}) = Cardinality(S) - 1  BY <2>2, <2>5, CountOne
    <3> QED  BY <2>1, <2>5, <3>1, <3>2
  <2>6. CASE a # src /\ a = dst
    <3>1. Represented(o2, r, a) = S \cup {t}  BY <2>2, <2>3, <2>6
    <3>2. Cardinality(S \cup {t}) = Cardinality(S) + 1  BY <2>2, <2>6, CountOne
    <3> QED  BY <2>1, <2>6, <3>1, <3>2
  <2>7. CASE a # src /\ a # dst
    <3>1. Represented(o2, r, a) = S  BY <2>2, <2>3, <2>7
    <3> QED  BY <2>1, <2>7, <3>1
  <2> QED  BY <2>4, <2>5, <2>6, <2>7
<1>9. VotesOf(o2, r) = Moved(VotesOf(o, r), src, dst, 1)
  BY <1>8 DEF VotesOf, Moved
<1>10. Cardinality(Living(o2)) = Cardinality(Living(o)) + Added(src, dst, 1)
  <2>1. t \in Living(o)  BY <1>2 DEF Living
  <2>2. CASE to = Zero
    <3>1. Living(o2) = Living(o) \ {t}  BY <1>3, <2>2 DEF Living
    <3>2. Added(src, dst, 1) = 0 - 1  BY <1>2, <2>2 DEF Added, Joined
    <3>3. Cardinality(Living(o) \ {t}) = Cardinality(Living(o)) - 1  BY <1>1, <2>1, CountOne
    <3>4. Cardinality(Living(o2)) = Cardinality(Living(o)) - 1  BY <3>1, <3>3
    <3> QED  BY <1>1, <3>2, <3>4
  <2>3. CASE to # Zero
    <3>1. Living(o2) = Living(o)  BY <1>2, <1>3, <2>3 DEF Living
    <3>2. dst \in Accounts  BY <1>1, <2>3 DEF Joined
    <3>3. Added(src, dst, 1) = 0  BY <1>2, <3>2 DEF Added
    <3> QED  BY <1>1, <3>1, <3>3
  <2> QED  BY <2>2, <2>3
<1> QED  BY <1>2, <1>7, <1>9, <1>10 DEF VotesMoved

LEMMA MintVotes ==
    ASSUME NEW o \in Seq(Accounts \cup {Zero}), NEW r \in [Accounts -> Accounts \cup {Zero}],
           NEW to \in Accounts, NEW o2, o2 = Append(o, to), NEW dst, dst = RepOf(r, to)
    PROVE  VotesMoved(o, r, o2, r, Zero, dst, 1)
<1>1. /\ IsFiniteSet(Living(o)) /\ Cardinality(Living(o)) \in Nat
      /\ \A a : IsFiniteSet(Represented(o, r, a)) /\ Cardinality(Represented(o, r, a)) \in Nat
      /\ \A a \in Accounts : RepOf(r, a) \in Accounts
  BY VotesOfFacts
<1>2. dst \in Accounts /\ Zero \notin Accounts  BY <1>1, AccountsAssumption
<1>3. PICK n : n = Len(o) + 1  OBVIOUS
<1>4. /\ n \notin DOMAIN o /\ DOMAIN o2 = DOMAIN o \cup {n}
      /\ o2[n] = to /\ \A u \in DOMAIN o : o2[u] = o[u]
  <2>1. to \in Accounts \cup {Zero}  OBVIOUS
  <2>2. /\ Len(o) \in Nat /\ DOMAIN o = 1..Len(o) /\ DOMAIN o2 = 1..(Len(o) + 1)
        /\ o2[Len(o) + 1] = to /\ \A u \in DOMAIN o : o2[u] = o[u]
    BY <2>1, OwnerAdded
  <2> QED  BY <1>3, <2>2
<1>5. \A a \in Accounts :
        /\ n \notin Represented(o, r, a)
        /\ Represented(o2, r, a) = IF a = dst THEN Represented(o, r, a) \cup {n}
                                   ELSE Represented(o, r, a)
  BY <1>2, <1>4 DEF Represented
<1>6. \A a \in Accounts :
        Cardinality(Represented(o2, r, a)) =
          IF a = dst THEN Cardinality(Represented(o, r, a)) + 1 ELSE Cardinality(Represented(o, r, a))
  BY <1>1, <1>5, CountOne
<1>7. VotesOf(o2, r) = Moved(VotesOf(o, r), Zero, dst, 1)
  BY <1>2, <1>6 DEF VotesOf, Moved
<1>8. n \notin Living(o) /\ Living(o2) = Living(o) \cup {n}  BY <1>2, <1>4 DEF Living
<1>9. Added(Zero, dst, 1) = 1  BY <1>2 DEF Added
<1>10. Cardinality(Living(o2)) = Cardinality(Living(o)) + Added(Zero, dst, 1)
  BY <1>1, <1>8, <1>9, CountOne
<1> QED  BY <1>2, <1>7, <1>10 DEF VotesMoved

LEMMA DelegateVotes ==
    ASSUME NEW o \in Seq(Accounts \cup {Zero}), NEW r \in [Accounts -> Accounts \cup {Zero}],
           NEW a \in Accounts, NEW d \in Accounts, NEW r2, r2 = [r EXCEPT ![a] = d],
           NEW src, src = RepOf(r, a),
           NEW n, n = Cardinality({t \in DOMAIN o : o[t] = a})
    PROVE  /\ src \in Accounts /\ n \in Nat
           /\ n <= VotesOf(o, r)[src]
           /\ VotesMoved(o, r, o, r2, src, d, n)
<1>1. /\ IsFiniteSet(DOMAIN o)
      /\ \A b : IsFiniteSet(Represented(o, r, b)) /\ Cardinality(Represented(o, r, b)) \in Nat
      /\ \A b \in Accounts : RepOf(r, b) \in Accounts
  BY VotesOfFacts
<1>2. src \in Accounts /\ Zero \notin Accounts  BY <1>1, AccountsAssumption
<1>3. PICK T : T = {t \in DOMAIN o : o[t] = a}  OBVIOUS
<1>4. T \subseteq DOMAIN o /\ IsFiniteSet(T) /\ Cardinality(T) = n /\ n \in Nat
  BY <1>1, <1>3, FS_Subset, FS_CardinalityType
<1>5. T \subseteq Represented(o, r, src)  BY <1>2, <1>3 DEF Represented
<1>6. \A b \in Accounts : b # src => T \cap Represented(o, r, b) = {}
  BY <1>3 DEF Represented
<1>7. \A b \in Accounts : b # a => RepOf(r2, b) = RepOf(r, b)  BY DEF RepOf
<1>8. RepOf(r2, a) = d  BY <1>2 DEF RepOf
<1>9. \A t \in DOMAIN o : o[t] \in Accounts \cup {Zero}  OBVIOUS
<1>10. \A b \in Accounts :
         Represented(o, r2, b) = (Represented(o, r, b) \ T) \cup (IF b = d THEN T ELSE {})
  BY <1>2, <1>3, <1>7, <1>8, <1>9 DEF Represented
<1>11. n <= VotesOf(o, r)[src]
  <2>1. Cardinality(T) <= Cardinality(Represented(o, r, src))  BY <1>1, <1>5, FS_Subset
  <2> QED  BY <1>2, <1>4, <2>1 DEF VotesOf
<1>12. ASSUME NEW b \in Accounts
       PROVE  Cardinality(Represented(o, r2, b)) =
                IF src = d THEN Cardinality(Represented(o, r, b))
                ELSE IF b = src THEN Cardinality(Represented(o, r, b)) - n
                ELSE IF b = d THEN Cardinality(Represented(o, r, b)) + n
                ELSE Cardinality(Represented(o, r, b))
  <2>1. PICK S : S = Represented(o, r, b)  OBVIOUS
  <2>2. IsFiniteSet(S) /\ Cardinality(S) \in Nat  BY <1>1, <2>1
  <2>3. Represented(o, r2, b) = (S \ T) \cup (IF b = d THEN T ELSE {})  BY <1>10, <2>1
  <2>4. b = src => T \subseteq S  BY <1>5, <2>1
  <2>5. b # src => T \cap S = {}  BY <1>6, <2>1
  <2>6. CASE b = src /\ b = d
    <3>1. Represented(o, r2, b) = S  BY <2>3, <2>4, <2>6
    <3> QED  BY <2>1, <2>6, <3>1
  <2>7. CASE b = src /\ b # d
    <3>1. Represented(o, r2, b) = S \ T  BY <2>3, <2>7
    <3>2. S \cap T = T  BY <2>4, <2>7
    <3>3. Cardinality(S \ T) = Cardinality(S) - Cardinality(S \cap T)  BY <1>4, <2>2, FS_Difference
    <3> QED  BY <1>4, <2>1, <2>7, <3>1, <3>2, <3>3
  <2>8. CASE b # src /\ b = d
    <3>1. Represented(o, r2, b) = S \cup T /\ S \cap T = {}  BY <2>3, <2>5, <2>8
    <3>2. Cardinality(S \cup T) = Cardinality(S) + Cardinality(T) - Cardinality(S \cap T)
      BY <1>4, <2>2, FS_Union
    <3>3. Cardinality(S \cap T) = 0
      <4>1. Cardinality({}) = 0  BY FS_EmptySet
      <4> QED  BY <3>1, <4>1
    <3>4. Cardinality(S \cup T) = Cardinality(S) + n  BY <1>4, <2>2, <3>2, <3>3
    <3> QED  BY <2>1, <2>8, <3>1, <3>4
  <2>9. CASE b # src /\ b # d
    <3>1. Represented(o, r2, b) = S  BY <2>3, <2>5, <2>9
    <3> QED  BY <2>1, <2>9, <3>1
  <2> QED  BY <2>6, <2>7, <2>8, <2>9
<1>13. VotesOf(o, r2) = Moved(VotesOf(o, r), src, d, n)
  BY <1>12 DEF VotesOf, Moved
<1>14. Added(src, d, n) = 0  BY <1>2 DEF Added
<1>15. Cardinality(Living(o)) \in Nat  BY VotesOfFacts
<1>16. Cardinality(Living(o)) = Cardinality(Living(o)) + Added(src, d, n)  BY <1>14, <1>15
<1>17. VotesMoved(o, r, o, r2, src, d, n)  BY <1>13, <1>16 DEF VotesMoved
<1> QED  BY <1>2, <1>4, <1>11, <1>17

-----------------------------------------------------------------------------
(* The transactions, as the subgraph indexes them.                         *)

\* The votes and the supply of the chain.
LEMMA VotesAreCounted ==
    ASSUME owner \in Seq(Accounts \cup {Zero})
    PROVE  /\ Supply = Cardinality(Living(owner)) /\ Supply \in Nat
           /\ \A a \in Accounts : VotesOf(owner, delegateOf)[a] = Votes(a)
<1>1. Supply = Cardinality(Living(owner))  BY DEF Supply, Living, Alps
<1>2. \A a \in Accounts : Represented(owner, delegateOf, a) = RepresentedBy(a)
  BY DEF Represented, RepresentedBy, Rep, RepOf, Alps
<1>3. \A a \in Accounts : VotesOf(owner, delegateOf)[a] = Votes(a)  BY <1>2 DEF VotesOf, Votes
<1> QED  BY <1>1, <1>3, VotesCount

\* The lists of vote events are lists.
LEMMA VoteEventsList ==
    ASSUME NEW src, NEW dst, NEW n \in Nat
    PROVE  \E E : VoteEvents(src, dst, n) \in Seq(E)
<1>1. PICK e1 : e1 = VoteEvent(src, Votes(src), Votes(src) - n)  OBVIOUS
<1>2. PICK e2 : e2 = VoteEvent(dst, Votes(dst), Votes(dst) + n)  OBVIOUS
<1>3. \/ VoteEvents(src, dst, n) = << >> \/ VoteEvents(src, dst, n) = <<e1>>
      \/ VoteEvents(src, dst, n) = <<e2>> \/ VoteEvents(src, dst, n) = <<e1, e2>>
  BY <1>1, <1>2, VoteEventsCases
<1>4. << >> \in Seq({e1, e2}) /\ <<e1>> \in Seq({e1, e2}) /\ <<e2>> \in Seq({e1, e2})
      /\ <<e1, e2>> \in Seq({e1, e2})
  OBVIOUS
<1> QED  BY <1>3, <1>4

\* What the store knows after a transaction of the token, the owners being o and the
\* delegates r.
Indexes(s, t, o, r) ==
    /\ IsStore(t)
    /\ SameGovernor(s, t)
    /\ VotesMatch(t, VotesOf(o, r), Cardinality(Living(o)))
    /\ t.governance.totalTokenHolders = Cardinality(Living(o))

\* A log of a transfer, after the votes have moved.
LEMMA TransferLogged ==
    ASSUME NEW s, IsStore(s), NEW w, NEW k, VotesMatch(s, w, k),
           NEW n \in Int, s.governance.totalTokenHolders = n,
           NEW from, NEW to, NEW x,
           NEW t, t = Handle(s, Transferred(from, to, x))
    PROVE  /\ IsStore(t) /\ SameGovernor(s, t) /\ VotesMatch(t, w, k)
           /\ t.auctions = s.auctions /\ t.alps = Put(s.alps, x, to)
           /\ t.governance.totalTokenHolders =
                n + (IF from = Zero THEN 1 ELSE 0) - (IF to = Zero THEN 1 ELSE 0)
           /\ AccountsMoved(s, t, Transferred(from, to, x))
<1>1. PICK e : e = Transferred(from, to, x)  OBVIOUS
<1>2. t = HandleTransfer(s, e)  BY <1>1 DEF Transferred, Handle
<1>3. e.from = from /\ e.to = to /\ e.token = x  BY <1>1 DEF Transferred
<1>4. TransferMade(s, t, e, n)  BY <1>2, TransferEffect
<1>5. VotesMatch(t, w, k)  BY <1>4 DEF VotesMatch, SameVotes, TransferMade
<1> QED  BY <1>1, <1>3, <1>4, <1>5 DEF TransferMade

\* What the other entities know of the Alp x, which has moved.
AlpIndexed(s, t, x, to) == t.auctions = s.auctions /\ t.alps = Put(s.alps, x, to)
HolderIndexed(s, t, from, to, x) ==
    \E r : IsStore(r) /\ SameHolders(s, r) /\ AccountsMoved(r, t, Transferred(from, to, x))

\* A transfer or a burn.
LEMMA MoveIndexed ==
    ASSUME ChainTyped, IsStore(store), VotesFollow,
           store.governance.totalTokenHolders = Cardinality(Living(owner)),
           NEW x \in Alps, NEW from \in Accounts, from = owner[x], NEW to \in Accounts \cup {Zero},
           NEW o2, o2 = [owner EXCEPT ![x] = to],
           NEW t, t = Handled(store, TransferEvents(from, to, x))
    PROVE  /\ Indexes(store, t, o2, delegateOf)
           /\ AlpIndexed(store, t, x, to)
           /\ HolderIndexed(store, t, from, to, x)
<1>1. PICK o : o = owner  OBVIOUS
<1>2. PICK r : r = delegateOf  OBVIOUS
<1>3. PICK src : src = RepOf(r, o[x])  OBVIOUS
<1>4. PICK dst : dst = Joined(r, to)  OBVIOUS
<1>5. /\ o \in Seq(Accounts \cup {Zero}) /\ r \in [Accounts -> Accounts \cup {Zero}]
      /\ x \in DOMAIN o /\ o[x] \in Accounts
  BY <1>1, <1>2 DEF ChainTyped, Alps
<1>6. o2 = Changed(o, x, to)  BY <1>1 DEF Changed
<1>7. /\ src \in Accounts /\ 1 <= VotesOf(o, r)[src]
      /\ VotesMoved(o, r, o2, r, src, dst, 1)
  BY <1>3, <1>4, <1>5, <1>6, TransferVotes
<1>8. PICK w : w = VotesOf(o, r)  OBVIOUS
<1>9. /\ w \in [Accounts -> Nat] /\ \A a \in Accounts : w[a] = Votes(a)
      /\ IsFiniteSet(Accounts) /\ Cardinality(Living(o)) \in Nat
  BY <1>1, <1>2, <1>5, <1>8, VotesAreCounted, VotesOfFacts, AccountsFinite
<1>10. PICK k \in Int : k = Cardinality(Living(o))  BY <1>9
<1>11. VotesMatch(store, w, k)  BY <1>1, <1>2, <1>8, <1>10 DEF VotesFollow
<1>12. PICK s : s = Handled(store, VoteEvents(src, dst, 1))  OBVIOUS
<1>13. PICK w2 : w2 = Moved(w, src, dst, 1)  OBVIOUS
<1>14. /\ VotesOnly(store, s)
       /\ VotesMatch(s, w2, k + Added(src, dst, 1))
       /\ w2 \in [Accounts -> Nat]
  <2>1. src \in Accounts \cup {Zero} /\ 1 \in Nat /\ (src \in Accounts => 1 <= w[src])
    BY <1>7, <1>8
  <2> QED  BY <1>7, <1>9, <1>11, <1>12, <1>13, <2>1, VoteEventsEffect DEF VotesMoved
<1>15. t = Handle(s, Transferred(from, to, x))
  <2>1. src = Rep(from) /\ dst = IF to = Zero THEN Zero ELSE Rep(to)
    BY <1>1, <1>2, <1>3, <1>4 DEF Rep, RepOf, Joined
  <2>2. PICK e : e = Transferred(from, to, x)  OBVIOUS
  <2>3. PICK E : VoteEvents(src, dst, 1) \in Seq(E)  BY VoteEventsList
  <2>4. PICK q \in Seq(E) : q = VoteEvents(src, dst, 1)  BY <2>3
  <2>5. TransferEvents(from, to, x) = q \o <<e>>  BY <2>1, <2>2, <2>4 DEF TransferEvents
  <2>6. q \o <<e>> = Append(q, e)  BY JoinLists
  <2>7. Handled(store, Append(q, e)) = Handle(Handled(store, q), e)  BY LastHandled
  <2> QED  BY <1>12, <2>2, <2>4, <2>5, <2>6, <2>7
<1>16. PICK m \in Int : m = Cardinality(Living(o))  BY <1>9
<1>17. s.governance.totalTokenHolders = m /\ IsStore(s)  BY <1>1, <1>14, <1>16 DEF VotesOnly
<1>18. PICK j : j = k + Added(src, dst, 1)  OBVIOUS
<1>19. /\ IsStore(t) /\ SameGovernor(s, t) /\ VotesMatch(t, w2, j)
       /\ t.auctions = s.auctions /\ t.alps = Put(s.alps, x, to)
       /\ t.governance.totalTokenHolders =
            m + (IF from = Zero THEN 1 ELSE 0) - (IF to = Zero THEN 1 ELSE 0)
       /\ AccountsMoved(s, t, Transferred(from, to, x))
  BY <1>14, <1>15, <1>17, <1>18, TransferLogged
<1>20. w2 = VotesOf(o2, r) /\ j = Cardinality(Living(o2))  BY <1>7, <1>8, <1>10, <1>13, <1>18 DEF VotesMoved
<1>21. t.governance.totalTokenHolders = Cardinality(Living(o2))
  <2>1. Zero \notin Accounts  BY AccountsAssumption
  <2>2. dst = Zero <=> to = Zero
    <3>1. \A a \in Accounts : RepOf(r, a) \in Accounts  BY <1>5, VotesOfFacts
    <3> QED  BY <1>4, <2>1, <3>1 DEF Joined
  <2>3. m + (IF from = Zero THEN 1 ELSE 0) - (IF to = Zero THEN 1 ELSE 0) = m + Added(src, dst, 1)
    BY <1>7, <2>1, <2>2 DEF Added
  <2> QED  BY <1>7, <1>16, <1>19, <2>3 DEF VotesMoved
<1>22. SameGovernor(store, t)  BY <1>14, <1>19 DEF VotesOnly, SameGovernor
<1>23. Indexes(store, t, o2, delegateOf)  BY <1>2, <1>19, <1>20, <1>21, <1>22 DEF Indexes
<1>24. AlpIndexed(store, t, x, to)
  BY <1>14, <1>19 DEF VotesOnly, SameAuctions, AlpIndexed
<1>25. HolderIndexed(store, t, from, to, x)
  BY <1>14, <1>19 DEF VotesOnly, HolderIndexed
<1> QED  BY <1>23, <1>24, <1>25

\* A mint: the votes of the receiver, a log for the treasury and one for the receiver.
MintedHolder(s, t, to, x) ==
    \E r, u : /\ IsStore(r) /\ IsStore(u) /\ SameHolders(s, r)
              /\ AccountsMoved(r, u, Transferred(Zero, Treasury, x))
              /\ AccountsMoved(u, t, Transferred(Treasury, to, x))

LEMMA MintIndexed ==
    ASSUME ChainTyped, IsStore(store), VotesFollow,
           store.governance.totalTokenHolders = Cardinality(Living(owner)),
           NEW x, NEW to \in Accounts,
           NEW o2, o2 = Append(owner, to),
           NEW t, t = Handled(store, MintEvents(to, x))
    PROVE  /\ Indexes(store, t, o2, delegateOf)
           /\ AlpIndexed(store, t, x, to)
           /\ MintedHolder(store, t, to, x)
           /\ \E E : MintEvents(to, x) \in Seq(E)
<1>1. PICK o : o = owner  OBVIOUS
<1>2. PICK r : r = delegateOf  OBVIOUS
<1>3. PICK dst : dst = RepOf(r, to)  OBVIOUS
<1>4. o \in Seq(Accounts \cup {Zero}) /\ r \in [Accounts -> Accounts \cup {Zero}]
  BY <1>1, <1>2 DEF ChainTyped
<1>5. VotesMoved(o, r, o2, r, Zero, dst, 1)  BY <1>1, <1>3, <1>4, MintVotes
<1>6. PICK w : w = VotesOf(o, r)  OBVIOUS
<1>7. /\ w \in [Accounts -> Nat] /\ \A a \in Accounts : w[a] = Votes(a)
      /\ IsFiniteSet(Accounts) /\ Cardinality(Living(o)) \in Nat
  BY <1>1, <1>2, <1>4, <1>6, VotesAreCounted, VotesOfFacts, AccountsFinite
<1>8. PICK k \in Int : k = Cardinality(Living(o))  BY <1>7
<1>9. VotesMatch(store, w, k)  BY <1>1, <1>2, <1>6, <1>8 DEF VotesFollow
<1>10. PICK s : s = Handled(store, VoteEvents(Zero, dst, 1))  OBVIOUS
<1>11. PICK w2 : w2 = Moved(w, Zero, dst, 1)  OBVIOUS
<1>12. dst \in Accounts /\ Zero \notin Accounts /\ Treasury \in Accounts
  BY <1>3, <1>4, VotesOfFacts, AccountsAssumption, AccountsFinite
<1>13. /\ VotesOnly(store, s)
       /\ VotesMatch(s, w2, k + Added(Zero, dst, 1))
       /\ w2 \in [Accounts -> Nat]
  <2>1. Zero \in Accounts \cup {Zero} /\ 1 \in Nat /\ (Zero \in Accounts => 1 <= w[Zero])
        /\ dst \in Accounts \cup {Zero}
    BY <1>12
  <2> QED  BY <1>7, <1>9, <1>10, <1>11, <2>1, VoteEventsEffect
<1>14. PICK u : u = Handle(s, Transferred(Zero, Treasury, x))  OBVIOUS
<1>15. /\ t = Handle(u, Transferred(Treasury, to, x))
       /\ \E E : MintEvents(to, x) \in Seq(E)
  <2>1. dst = Rep(to)  BY <1>2, <1>3 DEF Rep, RepOf
  <2>2. PICK e1 : e1 = Transferred(Zero, Treasury, x)  OBVIOUS
  <2>3. PICK e2 : e2 = Transferred(Treasury, to, x)  OBVIOUS
  <2>4. PICK E : VoteEvents(Zero, dst, 1) \in Seq(E)  BY VoteEventsList
  <2>5. PICK q \in Seq(E) : q = VoteEvents(Zero, dst, 1)  BY <2>4
  <2>6. MintEvents(to, x) = q \o <<e1, e2>>  BY <2>1, <2>2, <2>3, <2>5 DEF MintEvents
  <2>7. q \o <<e1, e2>> = Append(Append(q, e1), e2) /\ Append(q, e1) \in Seq(E \cup {e1})
    BY JoinLists
  <2>8. PICK p \in Seq(E \cup {e1}) : p = Append(q, e1)  BY <2>7
  <2>9. Handled(store, Append(q, e1)) = Handle(Handled(store, q), e1)  BY LastHandled
  <2>10. Handled(store, Append(p, e2)) = Handle(Handled(store, p), e2)  BY LastHandled
  <2>11. Append(p, e2) \in Seq((E \cup {e1}) \cup {e2})  BY JoinLists
  <2>12. MintEvents(to, x) = Append(p, e2)  BY <2>6, <2>7, <2>8
  <2> QED  BY <1>10, <1>14, <2>2, <2>3, <2>5, <2>8, <2>9, <2>10, <2>11, <2>12
<1>16. PICK m \in Int : m = Cardinality(Living(o))  BY <1>7
<1>17. s.governance.totalTokenHolders = m /\ IsStore(s)  BY <1>1, <1>13, <1>16 DEF VotesOnly
<1>18. PICK j : j = k + Added(Zero, dst, 1)  OBVIOUS
<1>19. /\ IsStore(u) /\ SameGovernor(s, u) /\ VotesMatch(u, w2, j)
       /\ u.auctions = s.auctions /\ u.alps = Put(s.alps, x, Treasury)
       /\ u.governance.totalTokenHolders =
            m + (IF Zero = Zero THEN 1 ELSE 0) - (IF Treasury = Zero THEN 1 ELSE 0)
       /\ AccountsMoved(s, u, Transferred(Zero, Treasury, x))
  <2>1. PICK z : z = Zero  OBVIOUS
  <2>2. u = Handle(s, Transferred(z, Treasury, x))  BY <1>14, <2>1
  <2>3. /\ IsStore(u) /\ SameGovernor(s, u) /\ VotesMatch(u, w2, j)
        /\ u.auctions = s.auctions /\ u.alps = Put(s.alps, x, Treasury)
        /\ u.governance.totalTokenHolders =
             m + (IF z = Zero THEN 1 ELSE 0) - (IF Treasury = Zero THEN 1 ELSE 0)
        /\ AccountsMoved(s, u, Transferred(z, Treasury, x))
    BY <1>13, <1>17, <1>18, <2>2, TransferLogged
  <2> QED  BY <2>1, <2>3
<1>20. PICK i \in Int : i = m + 1  OBVIOUS
<1>21. u.governance.totalTokenHolders = i  BY <1>12, <1>19, <1>20
<1>22. /\ IsStore(t) /\ SameGovernor(u, t) /\ VotesMatch(t, w2, j)
       /\ t.auctions = u.auctions /\ t.alps = Put(u.alps, x, to)
       /\ t.governance.totalTokenHolders =
            i + (IF Treasury = Zero THEN 1 ELSE 0) - (IF to = Zero THEN 1 ELSE 0)
       /\ AccountsMoved(u, t, Transferred(Treasury, to, x))
  <2>1. PICK z : z = Treasury  OBVIOUS
  <2>2. t = Handle(u, Transferred(z, to, x))  BY <1>15, <2>1
  <2>3. /\ IsStore(t) /\ SameGovernor(u, t) /\ VotesMatch(t, w2, j)
        /\ t.auctions = u.auctions /\ t.alps = Put(u.alps, x, to)
        /\ t.governance.totalTokenHolders =
             i + (IF z = Zero THEN 1 ELSE 0) - (IF to = Zero THEN 1 ELSE 0)
        /\ AccountsMoved(u, t, Transferred(z, to, x))
    BY <1>19, <1>21, <2>2, TransferLogged
  <2> QED  BY <2>1, <2>3
<1>23. w2 = VotesOf(o2, r) /\ j = Cardinality(Living(o2))
  BY <1>5, <1>6, <1>8, <1>11, <1>18 DEF VotesMoved
<1>24. t.governance.totalTokenHolders = Cardinality(Living(o2))
  <2>1. to # Zero /\ Treasury # Zero  BY <1>12
  <2>2. t.governance.totalTokenHolders = i  BY <1>20, <1>22, <2>1
  <2>3. Added(Zero, dst, 1) = 1  BY <1>12 DEF Added
  <2> QED  BY <1>5, <1>16, <1>20, <2>2, <2>3 DEF VotesMoved
<1>25. SameGovernor(store, t)  BY <1>13, <1>19, <1>22 DEF VotesOnly, SameGovernor
<1>26. Indexes(store, t, o2, delegateOf)  BY <1>2, <1>22, <1>23, <1>24, <1>25 DEF Indexes
<1>27. AlpIndexed(store, t, x, to)
  <2>1. t.auctions = store.auctions  BY <1>13, <1>19, <1>22 DEF VotesOnly, SameAuctions
  <2>2. PICK f : f = store.alps  OBVIOUS
  <2>3. t.alps = Put(Put(f, x, Treasury), x, to)
    BY <1>13, <1>19, <1>22, <2>2 DEF VotesOnly, SameAuctions
  <2>4. Put(Put(f, x, Treasury), x, to) = Put(f, x, to)  BY DEF Put
  <2> QED  BY <2>1, <2>2, <2>3, <2>4 DEF AlpIndexed
<1>28. MintedHolder(store, t, to, x)
  BY <1>13, <1>19, <1>22 DEF VotesOnly, MintedHolder
<1> QED  BY <1>15, <1>26, <1>27, <1>28

\* The first event of a list with the vote events.
LEMMA FirstHandled ==
    ASSUME NEW s, NEW e, NEW src, NEW dst, NEW n \in Nat
    PROVE  Handled(s, <<e>> \o VoteEvents(src, dst, n)) = Handled(Handle(s, e), VoteEvents(src, dst, n))
<1>1. PICK e1 : e1 = VoteEvent(src, Votes(src), Votes(src) - n)  OBVIOUS
<1>2. PICK e2 : e2 = VoteEvent(dst, Votes(dst), Votes(dst) + n)  OBVIOUS
<1>3. PICK r : r = Handle(s, e)  OBVIOUS
<1>4. \A f, g : /\ <<e>> \o << >> = <<e>> /\ <<e>> \o <<f>> = <<e, f>>
                /\ <<e>> \o <<f, g>> = <<e, f, g>>
  <2> TAKE f, g
  <2>1. <<e>> \in Seq({e})  OBVIOUS
  <2>2. PICK q \in Seq({e}) : q = <<e>>  BY <2>1
  <2>3. q \o << >> = q /\ q \o <<f>> = Append(q, f) /\ q \o <<f, g>> = Append(Append(q, f), g)
    BY JoinLists
  <2>4. <<e, f>> = Append(q, f)  BY <2>2
  <2>5. <<e, f, g>> = Append(<<e, f>>, g)  OBVIOUS
  <2> QED  BY <2>2, <2>3, <2>4, <2>5
<1>5. CASE VoteEvents(src, dst, n) = << >>
  <2>1. Handled(s, <<e>>) = r  BY <1>3, OneHandled
  <2>2. Handled(r, << >>) = r  BY NothingHandled
  <2> QED  BY <1>3, <1>4, <1>5, <2>1, <2>2
<1>6. CASE \E f : VoteEvents(src, dst, n) = <<f>>
  <2>1. PICK f : VoteEvents(src, dst, n) = <<f>>  BY <1>6
  <2>2. Handled(s, <<e, f>>) = Handle(r, f)  BY <1>3, TwoHandled
  <2>3. Handled(r, <<f>>) = Handle(r, f)  BY OneHandled
  <2> QED  BY <1>3, <1>4, <2>1, <2>2, <2>3
<1>7. CASE VoteEvents(src, dst, n) = <<e1, e2>>
  <2>1. Handled(s, <<e, e1, e2>>) = Handle(Handle(r, e1), e2)  BY <1>3, ThreeHandled
  <2>2. Handled(r, <<e1, e2>>) = Handle(Handle(r, e1), e2)  BY TwoHandled
  <2> QED  BY <1>3, <1>4, <1>7, <2>1, <2>2
<1>8. \/ VoteEvents(src, dst, n) = << >> \/ VoteEvents(src, dst, n) = <<e1>>
      \/ VoteEvents(src, dst, n) = <<e2>> \/ VoteEvents(src, dst, n) = <<e1, e2>>
  BY <1>1, <1>2, VoteEventsCases
<1> QED  BY <1>5, <1>6, <1>7, <1>8

\* A delegation.
DelegateEvents(a, d) ==
    <<[event |-> "DelegateChanged", delegator |-> a, from |-> Rep(a), to |-> d]>>
    \o VoteEvents(Rep(a), d, Cardinality(AlpsOf(a)))

LEMMA DelegateIndexed ==
    ASSUME ChainTyped, IsStore(store), VotesFollow,
           store.governance.totalTokenHolders = Cardinality(Living(owner)),
           NEW a \in Accounts, NEW d \in Accounts,
           NEW r2, r2 = Changed(delegateOf, a, d),
           NEW t, t = Handled(store, DelegateEvents(a, d))
    PROVE  /\ Indexes(store, t, owner, r2)
           /\ SameAuctions(store, t) /\ SameHolders(store, t)
<1>1. PICK o : o = owner  OBVIOUS
<1>2. PICK r : r = delegateOf  OBVIOUS
<1>3. PICK src : src = RepOf(r, a)  OBVIOUS
<1>4. PICK n : n = Cardinality({x \in DOMAIN o : o[x] = a})  OBVIOUS
<1>5. o \in Seq(Accounts \cup {Zero}) /\ r \in [Accounts -> Accounts \cup {Zero}]
  BY <1>1, <1>2 DEF ChainTyped
<1>6. r2 = [r EXCEPT ![a] = d]  BY <1>2 DEF Changed
<1>7. /\ src \in Accounts /\ n \in Nat
      /\ n <= VotesOf(o, r)[src]
      /\ VotesMoved(o, r, o, r2, src, d, n)
  BY <1>3, <1>4, <1>5, <1>6, DelegateVotes
<1>8. PICK w : w = VotesOf(o, r)  OBVIOUS
<1>9. /\ w \in [Accounts -> Nat] /\ \A b \in Accounts : w[b] = Votes(b)
      /\ IsFiniteSet(Accounts) /\ Cardinality(Living(o)) \in Nat
  BY <1>1, <1>2, <1>5, <1>8, VotesAreCounted, VotesOfFacts, AccountsFinite
<1>10. PICK k \in Int : k = Cardinality(Living(o))  BY <1>9
<1>11. VotesMatch(store, w, k)  BY <1>1, <1>2, <1>8, <1>10 DEF VotesFollow
<1>12. PICK e : e = [event |-> "DelegateChanged", delegator |-> a, from |-> src, to |-> d]
  OBVIOUS
<1>13. PICK s : s = Handle(store, e)  OBVIOUS
<1>14. s = HandleDelegateChanged(store, e)  BY <1>12, <1>13 DEF Handle
<1>15. /\ IsStore(s)
       /\ SameGovernor(store, s) /\ SameAuctions(store, s) /\ SameVotes(store, s)
       /\ SameHolders(store, s) /\ SameTotals(store.governance, s.governance)
  BY <1>14, DelegateChangedEffect
<1>16. VotesMatch(s, w, k)  BY <1>11, <1>15 DEF VotesMatch, SameVotes
<1>17. t = Handled(s, VoteEvents(src, d, n))
  <2>1. src = Rep(a)  BY <1>2, <1>3 DEF Rep, RepOf
  <2>2. n = Cardinality(AlpsOf(a))  BY <1>1, <1>4 DEF AlpsOf, Alps
  <2>3. DelegateEvents(a, d) = <<e>> \o VoteEvents(src, d, n)
    BY <1>12, <2>1, <2>2 DEF DelegateEvents
  <2> QED  BY <1>7, <1>13, <2>3, FirstHandled
<1>18. PICK w2 : w2 = Moved(w, src, d, n)  OBVIOUS
<1>19. /\ VotesOnly(s, t)
       /\ VotesMatch(t, w2, k + Added(src, d, n))
       /\ w2 \in [Accounts -> Nat]
  <2>1. src \in Accounts \cup {Zero} /\ d \in Accounts \cup {Zero}
        /\ (src \in Accounts => n <= w[src])
    BY <1>7, <1>8
  <2> QED  BY <1>7, <1>9, <1>15, <1>16, <1>17, <1>18, <2>1, VoteEventsEffect
<1>20. w2 = VotesOf(o, r2) /\ k + Added(src, d, n) = Cardinality(Living(o))
  BY <1>7, <1>8, <1>10, <1>18 DEF VotesMoved
<1>21. Indexes(store, t, owner, r2)
  <2>1. t.governance.totalTokenHolders = Cardinality(Living(owner))
    BY <1>15, <1>19 DEF VotesOnly, SameTotals
  <2>2. SameGovernor(store, t)  BY <1>15, <1>19 DEF VotesOnly, SameGovernor
  <2> QED  BY <1>1, <1>19, <1>20, <2>1, <2>2 DEF VotesOnly, Indexes
<1>22. SameAuctions(store, t) /\ SameHolders(store, t)
  BY <1>15, <1>19 DEF VotesOnly, SameAuctions, SameHolders
<1> QED  BY <1>21, <1>22

-----------------------------------------------------------------------------
(* The accounts.                                                           *)

LEMMA TakenHolds ==
    ASSUME NEW account, IsAccount(account), NEW S, Holds(account, S), NEW x \in S
    PROVE  Holds(Taken(account, x), S \ {x})
<1>1. PICK q : q = account.alps  OBVIOUS
<1>2. PICK w : w = Without(q, {x})  OBVIOUS
<1>3. PICK n : n = account.balance  OBVIOUS
<1>4. PICK d : d = IF account.balance = 1 THEN None ELSE account.delegate  OBVIOUS
<1>5. IsList(q, S) /\ n = Len(q)  BY <1>1, <1>3 DEF Holds
<1>6. IsList(w, S \ {x})  BY <1>2, <1>5, ListWithout
<1>7. Len(w) = n - 1
  <2>1. IsFiniteSet(S) /\ Cardinality(S) = n  BY <1>5, ListSize
  <2>2. Cardinality(S \ {x}) = n - 1  BY <2>1, FS_RemoveElement
  <2> QED  BY <1>6, <2>2, ListSize
<1>8. PICK r : r = Taken(account, x)  OBVIOUS
<1>9. r = [account EXCEPT !.balance = n - 1, !.alps = w, !.delegate = d]
  BY <1>1, <1>2, <1>3, <1>4, <1>8 DEF Taken, IsAccount, AccountFields
<1>10. r.balance = n - 1 /\ r.alps = w  BY <1>9 DEF IsAccount, AccountFields
<1>11. Holds(r, S \ {x})  BY <1>6, <1>7, <1>10 DEF Holds
<1> QED  BY <1>8, <1>11

LEMMA GivenHolds ==
    ASSUME NEW account, NEW S, Holds(account, S), NEW x \in Nat, x \notin S, NEW id
    PROVE  Holds(Given(account, id, x), S \cup {x})
<1>1. PICK q : q = account.alps  OBVIOUS
<1>2. PICK r : r = Append(q, x)  OBVIOUS
<1>3. IsList(q, S) /\ account.balance = Len(q)  BY <1>1 DEF Holds
<1>4. IsList(r, S \cup {x}) /\ Len(r) = Len(q) + 1  BY <1>2, <1>3, ListAppended
<1>5. PICK c : c = Given(account, id, x)  OBVIOUS
<1>6. c.alps = r /\ c.balance = Len(q) + 1  BY <1>1, <1>2, <1>3, <1>5 DEF Given
<1>7. Holds(c, S \cup {x})  BY <1>4, <1>6 DEF Holds
<1> QED  BY <1>5, <1>7

LEMMA AccountShape ==
    ASSUME NEW s, IsStore(s), NEW a
    PROVE  IsAccount(AccountOf(s, a))
<1>1. IsAccount(NewAccount)  BY DEF NewAccount, IsAccount, AccountFields
<1> QED  BY <1>1 DEF IsStore, AccountOf

LEMMA SameHoldersMatch ==
    ASSUME NEW s, NEW t, SameHolders(s, t), NEW o, NEW out, HoldersMatch(s, o, out)
    PROVE  HoldersMatch(t, o, out)
BY DEF SameHolders, HoldersMatch, Holds

\* After a transfer or a burn, to an account that may be the sender itself.
LEMMA HoldersMoved ==
    ASSUME NEW s, NEW t, NEW o \in Seq(Accounts \cup {Zero}), NEW out, HoldersMatch(s, o, out),
           NEW x \in DOMAIN o, NEW from \in Accounts, from = o[x], NEW to \in Accounts \cup {Zero},
           HolderIndexed(s, t, from, to, x),
           NEW o2, o2 = [o EXCEPT ![x] = to],
           NEW out2, out2 = Senders(out, from, to)
    PROVE  HoldersMatch(t, o2, out2)
<1>1. PICK e : e = Transferred(from, to, x)  OBVIOUS
<1>2. PICK r : IsStore(r) /\ SameHolders(s, r) /\ AccountsMoved(r, t, e)
  BY <1>1 DEF HolderIndexed
<1>3. out2 = IF to = from THEN out \cup {to} ELSE out  BY DEF Senders
<1>4. HoldersMatch(r, o, out)  BY <1>2, SameHoldersMatch
<1>5. e.from = from /\ e.to = to /\ e.token = x  BY <1>1 DEF Transferred
<1>6. x \in Nat /\ Zero \notin Accounts
  <2>1. DOMAIN o = 1..Len(o) /\ Len(o) \in Nat  OBVIOUS
  <2> QED  BY <2>1, AccountsAssumption
<1>7. DOMAIN o2 = DOMAIN o /\ o2[x] = to /\ \A y \in DOMAIN o : y # x => o2[y] = o[y]
  OBVIOUS
<1> SUFFICES ASSUME NEW a \in Accounts \ out2 PROVE Holds(AccountOf(t, a), Owned(o2, a))
  BY DEF HoldersMatch
<1>8. PICK c : c = AccountOf(r, a)  OBVIOUS
<1>9. PICK S : S = Owned(o, a)  OBVIOUS
<1>10. a \in Accounts /\ a # Zero /\ a \notin out  BY <1>3, <1>6
<1>11. Holds(c, S) /\ IsAccount(c)
  BY <1>2, <1>4, <1>8, <1>9, <1>10, AccountShape DEF HoldersMatch
<1>12. CASE a # from /\ a # to
  <2>1. AccountOf(t, a) = c  BY <1>2, <1>5, <1>8, <1>12 DEF AccountsMoved
  <2>2. Owned(o2, a) = S  BY <1>7, <1>9, <1>12 DEF Owned
  <2> QED  BY <1>11, <2>1, <2>2
<1>13. CASE a = from
  <2>1. to # from  BY <1>3, <1>13
  <2>2. AccountOf(t, a) = Taken(c, x)  BY <1>2, <1>5, <1>8, <1>10, <1>13, <2>1 DEF AccountsMoved
  <2>3. x \in S /\ Owned(o2, a) = S \ {x}  BY <1>7, <1>9, <1>13, <2>1 DEF Owned
  <2>4. Holds(Taken(c, x), S \ {x})  BY <1>11, <2>3, TakenHolds
  <2> QED  BY <2>2, <2>3, <2>4
<1>14. CASE a = to /\ a # from
  <2>1. AccountOf(t, a) = Given(c, a, x)  BY <1>2, <1>5, <1>8, <1>14 DEF AccountsMoved
  <2>2. x \notin S /\ Owned(o2, a) = S \cup {x}  BY <1>7, <1>9, <1>14 DEF Owned
  <2>3. Holds(Given(c, a, x), S \cup {x})  BY <1>6, <1>11, <2>2, GivenHolds
  <2> QED  BY <2>1, <2>2, <2>3
<1> QED  BY <1>12, <1>13, <1>14

\* After a mint, through the hands of the treasury.
LEMMA HoldersMinted ==
    ASSUME NEW s, NEW t, NEW o \in Seq(Accounts \cup {Zero}), NEW out, HoldersMatch(s, o, out),
           NEW x, x = Len(o) + 1, NEW to \in Accounts, to # Treasury,
           MintedHolder(s, t, to, x),
           NEW o2, o2 = Append(o, to)
    PROVE  HoldersMatch(t, o2, out)
<1>1. PICK e : e = Transferred(Zero, Treasury, x)  OBVIOUS
<1>2. PICK f : f = Transferred(Treasury, to, x)  OBVIOUS
<1>3. PICK r, u : /\ IsStore(r) /\ IsStore(u) /\ SameHolders(s, r)
                  /\ AccountsMoved(r, u, e) /\ AccountsMoved(u, t, f)
  BY <1>1, <1>2 DEF MintedHolder
<1>4. HoldersMatch(r, o, out)  BY <1>3, SameHoldersMatch
<1>5. /\ e.from = Zero /\ e.to = Treasury /\ e.token = x
      /\ f.from = Treasury /\ f.to = to /\ f.token = x
  BY <1>1, <1>2 DEF Transferred
<1>6. Zero \notin Accounts /\ Treasury \in Accounts  BY AccountsAssumption, AccountsFinite
<1>7. /\ x \in Nat /\ x \notin DOMAIN o /\ DOMAIN o2 = DOMAIN o \cup {x}
      /\ o2[x] = to /\ \A y \in DOMAIN o : o2[y] = o[y]
  <2>1. /\ DOMAIN o = 1..Len(o) /\ DOMAIN o2 = 1..(Len(o) + 1) /\ Len(o) \in Nat
        /\ o2[Len(o) + 1] = to /\ \A u1 \in DOMAIN o : o2[u1] = o[u1]
    BY OwnerAdded
  <2>2. \A n \in Nat : 1..(n + 1) = (1..n) \cup {n + 1} /\ n + 1 \notin 1..n /\ n + 1 \in Nat
    OBVIOUS
  <2> QED  BY <2>1, <2>2
<1> SUFFICES ASSUME NEW a \in Accounts \ out PROVE Holds(AccountOf(t, a), Owned(o2, a))
  BY DEF HoldersMatch
<1>8. PICK c : c = AccountOf(r, a)  OBVIOUS
<1>9. PICK d : d = AccountOf(u, a)  OBVIOUS
<1>10. PICK S : S = Owned(o, a)  OBVIOUS
<1>11. Holds(c, S) /\ IsAccount(c) /\ IsAccount(d)
  BY <1>3, <1>4, <1>8, <1>9, <1>10, AccountShape DEF HoldersMatch
<1>12. x \notin S  BY <1>7, <1>10 DEF Owned
<1>13. CASE a # Treasury
  <2>1. d = c  BY <1>3, <1>5, <1>6, <1>8, <1>9, <1>13 DEF AccountsMoved
  <2>2. CASE a # to
    <3>1. AccountOf(t, a) = d  BY <1>3, <1>5, <1>9, <1>13, <2>2 DEF AccountsMoved
    <3>2. Owned(o2, a) = S  BY <1>7, <1>10, <2>2 DEF Owned
    <3> QED  BY <1>11, <2>1, <3>1, <3>2
  <2>3. CASE a = to
    <3>1. AccountOf(t, a) = Given(d, a, x)  BY <1>3, <1>5, <1>9, <2>3 DEF AccountsMoved
    <3>2. Owned(o2, a) = S \cup {x}  BY <1>7, <1>10, <2>3 DEF Owned
    <3>3. Holds(Given(c, a, x), S \cup {x})  BY <1>7, <1>11, <1>12, GivenHolds
    <3> QED  BY <2>1, <3>1, <3>2, <3>3
  <2> QED  BY <2>2, <2>3
<1>14. CASE a = Treasury
  <2>1. d = Given(c, a, x)  BY <1>3, <1>5, <1>6, <1>8, <1>9, <1>14 DEF AccountsMoved
  <2>2. AccountOf(t, a) = Taken(d, x)  BY <1>3, <1>5, <1>6, <1>9, <1>14 DEF AccountsMoved
  <2>3. PICK T : T = S \cup {x}  OBVIOUS
  <2>4. Holds(d, T)
    <3>1. Holds(Given(c, a, x), S \cup {x})  BY <1>7, <1>11, <1>12, GivenHolds
    <3> QED  BY <2>1, <2>3, <3>1
  <2>5. x \in T /\ T \ {x} = S  BY <1>12, <2>3
  <2>6. Holds(Taken(d, x), T \ {x})  BY <1>11, <2>4, <2>5, TakenHolds
  <2>7. Owned(o2, a) = S  BY <1>7, <1>10, <1>14 DEF Owned
  <2> QED  BY <2>2, <2>5, <2>6, <2>7
<1> QED  BY <1>13, <1>14

-----------------------------------------------------------------------------
(* A transaction keeps the entities it is not about.                       *)

\* No Alp moved.
LEMMA HoldersKept ==
    ASSUME HoldersFollow, SameHolders(store, store'), UNCHANGED <<owner, selfSent>>
    PROVE  HoldersFollow'
<1>1. PICK t : t = store'  OBVIOUS
<1>2. SameHolders(store, t) /\ HoldersMatch(store, owner, selfSent)  BY <1>1 DEF HoldersFollow
<1>3. HoldersMatch(t, owner, selfSent)  BY <1>2, SameHoldersMatch
<1> QED  BY <1>1, <1>3 DEF HoldersFollow

\* Alps or delegations moved.
LEMMA TokenStep ==
    ASSUME GovernorFollows, Indexes(store, store', owner', delegateOf'),
           UNCHANGED <<proposals, params, block>>
    PROVE  IsStore(store)' /\ GovernorFollows' /\ VotesFollow'
<1>1. /\ IsStore(store') /\ store'.proposals = store.proposals /\ store'.params = store.params
      /\ VotesMatch(store', VotesOf(owner', delegateOf'), Cardinality(Living(owner')))
      /\ store'.governance.totalTokenHolders = Cardinality(Living(owner'))
  BY DEF Indexes, SameGovernor
<1>2. GovernorFollows'  BY <1>1 DEF GovernorFollows
<1>3. VotesFollow'  BY <1>1 DEF VotesFollow
<1> QED  BY <1>1, <1>2, <1>3

\* The auction house moved.
LEMMA HouseStep ==
    ASSUME GovernorFollows, VotesFollow, HoldersFollow, AuctionOnly(store, store'),
           UNCHANGED <<owner, delegateOf, proposals, params, block, selfSent>>
    PROVE  IsStore(store)' /\ GovernorFollows' /\ VotesFollow' /\ HoldersFollow'
<1>1. /\ IsStore(store') /\ store'.proposals = store.proposals /\ store'.params = store.params
      /\ SameVotes(store, store') /\ store'.governance = store.governance
  BY DEF AuctionOnly, SameGovernor
<1>2. GovernorFollows'  BY <1>1 DEF GovernorFollows
<1>3. VotesFollow'  BY <1>1 DEF VotesFollow, VotesMatch, SameVotes
<1>4. HoldersFollow'  BY HoldersKept DEF AuctionOnly
<1> QED  BY <1>1, <1>2, <1>3, <1>4

\* The governor moved.
LEMMA GovernorStep ==
    ASSUME AuctionsFollow, VotesFollow, HoldersFollow, GovernorOnly(store, store'),
           UNCHANGED <<owner, delegateOf, house, selfSent>>
    PROVE  /\ IsStore(store)' /\ AuctionsFollow' /\ VotesFollow' /\ HoldersFollow'
           /\ store'.governance.totalTokenHolders = store.governance.totalTokenHolders
<1>1. /\ IsStore(store') /\ store'.auctions = store.auctions /\ store'.alps = store.alps
      /\ SameVotes(store, store')
      /\ store'.governance.totalTokenHolders = store.governance.totalTokenHolders
  BY DEF GovernorOnly, SameAuctions
<1>2. AuctionsFollow'  BY <1>1 DEF AuctionsFollow, AuctionMirrored, Alps
<1>3. VotesFollow'  BY <1>1 DEF VotesFollow, VotesMatch, SameVotes
<1>4. HoldersFollow'  BY HoldersKept DEF GovernorOnly
<1> QED  BY <1>1, <1>2, <1>3, <1>4

\* An Alp moved: the store knows its owner.
LEMMA AlpKnown ==
    ASSUME ChainTyped, AuctionsFollow, NEW s, NEW x, NEW to, AlpIndexed(store, s, x, to),
           \/ x \in Alps /\ owner' = [owner EXCEPT ![x] = to]
           \/ x = Len(owner) + 1 /\ owner' = Append(owner, to) /\ to \in Accounts
    PROVE  /\ s.auctions = store.auctions
           /\ Alps' = Alps \cup {x}
           /\ DOMAIN s.alps = Alps' /\ \A u \in Alps' : s.alps[u] = owner'[u]
<1>1. s.auctions = store.auctions /\ s.alps = Put(store.alps, x, to)
  BY DEF AlpIndexed
<1>2. Alps' = Alps \cup {x} /\ owner'[x] = to /\ \A u \in Alps : u # x => owner'[u] = owner[u]
  <2>1. owner \in Seq(Accounts \cup {Zero})  BY DEF ChainTyped
  <2>2. CASE x \in Alps /\ owner' = [owner EXCEPT ![x] = to]
    BY <2>2 DEF Alps
  <2>3. CASE x = Len(owner) + 1 /\ owner' = Append(owner, to) /\ to \in Accounts
    <3>1. to \in Accounts \cup {Zero}  BY <2>3
    <3>2. /\ DOMAIN owner = 1..Len(owner) /\ DOMAIN owner' = 1..(Len(owner) + 1)
          /\ Len(owner) \in Nat
          /\ owner'[Len(owner) + 1] = to /\ \A u \in DOMAIN owner : owner'[u] = owner[u]
      BY <2>1, <2>3, <3>1, OwnerAdded
    <3>3. \A n \in Nat : 1..(n + 1) = (1..n) \cup {n + 1} /\ n + 1 \notin 1..n  OBVIOUS
    <3>4. DOMAIN owner' = DOMAIN owner \cup {x}  BY <2>3, <3>2, <3>3
    <3>5. x \notin DOMAIN owner  BY <2>3, <3>2, <3>3
    <3> QED  BY <2>3, <3>2, <3>4, <3>5 DEF Alps
  <2> QED  BY <2>2, <2>3
<1>3. DOMAIN s.alps = Alps' /\ \A u \in Alps' : s.alps[u] = owner'[u]
  <2>1. DOMAIN store.alps = Alps /\ \A u \in Alps : store.alps[u] = owner[u]
    BY DEF AuctionsFollow
  <2>2. /\ DOMAIN s.alps = Alps \cup {x} /\ s.alps[x] = to
        /\ \A u \in Alps : u # x => s.alps[u] = store.alps[u]
    BY <1>1, <2>1 DEF Put
  <2> QED  BY <1>2, <2>1, <2>2
<1> QED  BY <1>1, <1>2, <1>3

\* An Alp that no auction is about moved.
LEMMA AlpMoved ==
    ASSUME ChainTyped, AuctionsFollow, NEW x, NEW to, AlpIndexed(store, store', x, to),
           \/ x \in Alps /\ owner' = [owner EXCEPT ![x] = to]
           \/ x = Len(owner) + 1 /\ owner' = Append(owner, to) /\ to \in Accounts,
           house' = house
    PROVE  AuctionsFollow'
<1>1. PICK s : s = store'  OBVIOUS
<1>2. /\ s.auctions = store.auctions
      /\ Alps' = Alps \cup {x}
      /\ DOMAIN s.alps = Alps' /\ \A u \in Alps' : s.alps[u] = owner'[u]
  <2>1. AlpIndexed(store, s, x, to)  BY <1>1
  <2> QED  BY <2>1, AlpKnown
<1>3. DOMAIN store'.auctions \subseteq Alps'  BY <1>1, <1>2 DEF AuctionsFollow
<1>4. AuctionMirrored' /\ (house'.alp # 0 => house'.alp \in DOMAIN store'.auctions)
  BY <1>1, <1>2 DEF AuctionsFollow, AuctionMirrored
<1> QED  BY <1>1, <1>2, <1>3, <1>4 DEF AuctionsFollow

-----------------------------------------------------------------------------
(* The entities follow: one lemma per transaction.                         *)

LEMMA TransferFollows ==
    ASSUME ChainTyped, Follows, NEW x \in Alps, NEW from \in Accounts, from = owner[x],
           NEW to \in Accounts \cup {Zero}, owner' = [owner EXCEPT ![x] = to],
           Indexed(TransferEvents(from, to, x)),
           selfSent' = Senders(selfSent, from, to),
           UNCHANGED <<delegateOf, house, proposals, params, block>>
    PROVE  Follows'
<1>1. PICK o2 : o2 = [owner EXCEPT ![x] = to]  OBVIOUS
<1>2. PICK t : t = Handled(store, TransferEvents(from, to, x))  OBVIOUS
<1>3. store' = t  BY <1>2 DEF Indexed, Handled
<1>4. IsStore(store) /\ VotesFollow /\ store.governance.totalTokenHolders = Cardinality(Living(owner))
  BY DEF Follows, GovernorFollows
<1>5. /\ Indexes(store, t, o2, delegateOf)
      /\ AlpIndexed(store, t, x, to)
      /\ HolderIndexed(store, t, from, to, x)
  BY <1>1, <1>2, <1>4, MoveIndexed
<1>6. Indexes(store, store', owner', delegateOf')  BY <1>1, <1>3, <1>5
<1>7. AuctionsFollow'  BY <1>3, <1>5, AlpMoved DEF Follows
<1>8. HoldersFollow'
  <2>1. PICK out2 : out2 = Senders(selfSent, from, to)  OBVIOUS
  <2>2. HoldersMatch(store, owner, selfSent) /\ owner \in Seq(Accounts \cup {Zero}) /\ x \in DOMAIN owner
    BY DEF Follows, HoldersFollow, ChainTyped, Alps
  <2>3. HoldersMatch(t, o2, out2)  BY <1>1, <1>5, <2>1, <2>2, HoldersMoved
  <2> QED  BY <1>1, <1>3, <2>1, <2>3 DEF HoldersFollow
<1> QED  BY <1>6, <1>7, <1>8, TokenStep DEF Follows

LEMMA MintRewardFollows ==
    ASSUME ChainTyped, Follows, MintReward
    PROVE  Follows'
<1>1. PICK x : x = Len(owner) + 1  OBVIOUS
<1>2. /\ owner' = Append(owner, Alper) /\ Indexed(MintEvents(Alper, x))
      /\ UNCHANGED <<delegateOf, house, proposals, params, block, selfSent>>
  BY <1>1 DEF MintReward
<1>3. PICK t : t = Handled(store, MintEvents(Alper, x))  OBVIOUS
<1>4. store' = t  BY <1>2, <1>3 DEF Indexed, Handled
<1>5. IsStore(store) /\ VotesFollow /\ store.governance.totalTokenHolders = Cardinality(Living(owner))
  BY DEF Follows, GovernorFollows
<1>6. PICK o2 : o2 = Append(owner, Alper)  OBVIOUS
<1>7. Alper \in Accounts  BY AccountsAssumption, AccountsFinite
<1>8. /\ Indexes(store, t, o2, delegateOf) /\ AlpIndexed(store, t, x, Alper)
      /\ MintedHolder(store, t, Alper, x)
  BY <1>3, <1>5, <1>6, <1>7, MintIndexed
<1>9. Indexes(store, store', owner', delegateOf')  BY <1>2, <1>4, <1>6, <1>8
<1>10. AuctionsFollow'  BY <1>1, <1>2, <1>4, <1>7, <1>8, AlpMoved DEF Follows
<1>11. HoldersFollow'
  <2>1. HoldersMatch(store, owner, selfSent) /\ owner \in Seq(Accounts \cup {Zero})
    BY DEF Follows, HoldersFollow, ChainTyped
  <2>2. Alper # Treasury  BY AccountsAssumption
  <2>3. HoldersMatch(t, o2, selfSent)  BY <1>1, <1>6, <1>7, <1>8, <2>1, <2>2, HoldersMinted
  <2> QED  BY <1>2, <1>4, <1>6, <2>3 DEF HoldersFollow
<1> QED  BY <1>2, <1>9, <1>10, <1>11, TokenStep DEF Follows

LEMMA DelegateFollows ==
    ASSUME ChainTyped, Follows, NEW a \in Holders, NEW d \in Holders, Delegate(a, d)
    PROVE  Follows'
<1>1. PICK r2 : r2 = Changed(delegateOf, a, d)  OBVIOUS
<1>2. PICK t : t = Handled(store, DelegateEvents(a, d))  OBVIOUS
<1>3. delegateOf' = r2 /\ UNCHANGED <<owner, house, proposals, params, block, selfSent>>
  BY <1>1 DEF Delegate, Changed
<1>4. store' = t  BY <1>2 DEF Delegate, Indexed, Handled, DelegateEvents
<1>5. IsStore(store) /\ VotesFollow /\ store.governance.totalTokenHolders = Cardinality(Living(owner))
  BY DEF Follows, GovernorFollows
<1>6. a \in Accounts /\ d \in Accounts  BY AccountsFinite
<1>7. Indexes(store, t, owner, r2) /\ SameAuctions(store, t) /\ SameHolders(store, t)
  BY <1>1, <1>2, <1>5, <1>6, DelegateIndexed
<1>8. Indexes(store, store', owner', delegateOf')  BY <1>3, <1>4, <1>7
<1>9. AuctionsFollow'
  BY <1>3, <1>4, <1>7 DEF Follows, AuctionsFollow, SameAuctions, AuctionMirrored, Alps
<1>10. HoldersFollow'  BY <1>3, <1>4, <1>7, HoldersKept DEF Follows
<1> QED  BY <1>3, <1>8, <1>9, <1>10, TokenStep DEF Follows

\* An event of the auction house after those of the token.
LEMMA ThenTheHouse ==
    ASSUME NEW s, NEW u, NEW t, NEW o, NEW r, Indexes(s, u, o, r), AuctionOnly(u, t)
    PROVE  Indexes(s, t, o, r) /\ t.alps = u.alps
BY DEF Indexes, AuctionOnly, SameGovernor, SameVotes, VotesMatch

LEMMA TransferEventsList ==
    ASSUME NEW from, NEW to, NEW x
    PROVE  \E E : TransferEvents(from, to, x) \in Seq(E)
<1>1. PICK src : src = Rep(from)  OBVIOUS
<1>2. PICK dst : dst = IF to = Zero THEN Zero ELSE Rep(to)  OBVIOUS
<1>3. PICK e : e = Transferred(from, to, x)  OBVIOUS
<1>4. PICK E : VoteEvents(src, dst, 1) \in Seq(E)  BY VoteEventsList
<1>5. PICK q \in Seq(E) : q = VoteEvents(src, dst, 1)  BY <1>4
<1>6. TransferEvents(from, to, x) = q \o <<e>>  BY <1>1, <1>2, <1>3, <1>5 DEF TransferEvents
<1>7. q \o <<e>> = Append(q, e) /\ Append(q, e) \in Seq(E \cup {e})  BY JoinLists
<1> QED  BY <1>6, <1>7

LEMMA CreateAuctionFollows ==
    ASSUME ChainTyped, Follows, CreateAuction
    PROVE  Follows'
<1>1. PICK x : x = Len(owner) + 1  OBVIOUS
<1>2. PICK at : at = block + 1  OBVIOUS
<1>3. PICK e : e = [event |-> "AuctionCreated", token |-> x, endTime |-> at]  OBVIOUS
<1>4. /\ owner' = Append(owner, House) /\ Indexed(Append(MintEvents(House, x), e))
      /\ house.settled
      /\ house' = [alp |-> x, amount |-> 0, bidder |-> None, endTime |-> at, settled |-> FALSE]
      /\ UNCHANGED <<delegateOf, proposals, params, block, selfSent>>
  BY <1>1, <1>2, <1>3 DEF CreateAuction
<1>5. PICK u : u = Handled(store, MintEvents(House, x))  OBVIOUS
<1>6. PICK o2 : o2 = Append(owner, House)  OBVIOUS
<1>7. IsStore(store) /\ VotesFollow /\ store.governance.totalTokenHolders = Cardinality(Living(owner))
      /\ House \in Accounts
  BY AccountsFinite DEF Follows, GovernorFollows
<1>8. /\ Indexes(store, u, o2, delegateOf) /\ AlpIndexed(store, u, x, House)
      /\ MintedHolder(store, u, House, x)
      /\ \E E : MintEvents(House, x) \in Seq(E)
  BY <1>5, <1>6, <1>7, MintIndexed
<1>9. store' = Handle(u, e)
  <2>1. PICK E : MintEvents(House, x) \in Seq(E)  BY <1>8
  <2>2. PICK q \in Seq(E) : q = MintEvents(House, x)  BY <2>1
  <2>3. Handled(store, Append(q, e)) = Handle(Handled(store, q), e)  BY LastHandled
  <2> QED  BY <1>4, <1>5, <2>2, <2>3 DEF Indexed, Handled
<1>10. /\ u.auctions = store.auctions
       /\ Alps' = Alps \cup {x}
       /\ DOMAIN u.alps = Alps' /\ \A y \in Alps' : u.alps[y] = owner'[y]
  BY <1>1, <1>4, <1>7, <1>8, AlpKnown DEF Follows
<1>11. PICK t : t = HandleAuctionCreated(u, e)  OBVIOUS
<1>12. store' = t  BY <1>3, <1>9, <1>11 DEF Handle
<1>13. /\ AuctionOnly(u, t)
       /\ t.auctions = Put(u.auctions, e.token,
             [amount |-> 0, bidder |-> None, endTime |-> e.endTime, settled |-> FALSE])
  <2>1. IsStore(u) /\ e.token \in DOMAIN u.alps  BY <1>3, <1>8, <1>10 DEF Indexes
  <2> QED  BY <1>11, <2>1, AuctionCreatedEffect
<1>14. Indexes(store, t, o2, delegateOf) /\ t.alps = u.alps  BY <1>8, <1>13, ThenTheHouse
<1>15. Indexes(store, store', owner', delegateOf')  BY <1>4, <1>6, <1>12, <1>14
<1>16. AuctionsFollow'
  <2>1. PICK new : new = [amount |-> 0, bidder |-> None, endTime |-> at, settled |-> FALSE]
    OBVIOUS
  <2>2. store'.auctions = Put(store.auctions, x, new)  BY <1>3, <1>10, <1>12, <1>13, <2>1
  <2>3. /\ DOMAIN store'.auctions = DOMAIN store.auctions \cup {x} /\ store'.auctions[x] = new
        /\ \A y \in DOMAIN store.auctions : y # x => store'.auctions[y] = store.auctions[y]
    BY <2>2 DEF Put
  <2>4. DOMAIN store.auctions \subseteq Alps /\ 0 \notin Alps /\ Len(owner) \in Nat
    BY VotesCount DEF Follows, AuctionsFollow, ChainTyped
  <2>5. \A y \in DOMAIN store.auctions : store.auctions[y].settled
    <3>1. house.alp # 0 => store.auctions[house.alp].settled
      BY <1>4 DEF Follows, AuctionsFollow, AuctionMirrored
    <3> QED  BY <2>4, <3>1 DEF Follows, AuctionsFollow, AuctionMirrored
  <2>6. AuctionMirrored'
    <3>1. house'.alp = x /\ house'.amount = 0 /\ house'.bidder = None /\ house'.endTime = at
          /\ house'.settled = FALSE
      BY <1>4
    <3>2. store'.auctions[house'.alp] = [amount |-> house'.amount, bidder |-> house'.bidder,
                                         endTime |-> house'.endTime, settled |-> house'.settled]
      BY <2>1, <2>3, <3>1
    <3>3. \A y \in DOMAIN store'.auctions : ~store'.auctions[y].settled => y = house'.alp
      BY <2>3, <2>5, <3>1
    <3> QED  BY <3>2, <3>3 DEF AuctionMirrored
  <2>7. DOMAIN store'.alps = Alps' /\ \A y \in Alps' : store'.alps[y] = owner'[y]
    BY <1>10, <1>12, <1>14
  <2>8. DOMAIN store'.auctions \subseteq Alps' /\ house'.alp \in DOMAIN store'.auctions
    BY <1>4, <1>10, <2>3, <2>4
  <2> QED  BY <2>6, <2>7, <2>8 DEF AuctionsFollow
<1>17. HoldersFollow'
  <2>1. HoldersMatch(store, owner, selfSent) /\ owner \in Seq(Accounts \cup {Zero})
    BY DEF Follows, HoldersFollow, ChainTyped
  <2>2. House # Treasury  BY AccountsAssumption
  <2>3. HoldersMatch(u, o2, selfSent)  BY <1>1, <1>6, <1>7, <1>8, <2>1, <2>2, HoldersMinted
  <2>4. HoldersMatch(t, o2, selfSent)  BY <1>13, <2>3, SameHoldersMatch DEF AuctionOnly
  <2> QED  BY <1>4, <1>6, <1>12, <2>4 DEF HoldersFollow
<1> QED  BY <1>4, <1>15, <1>16, <1>17, TokenStep DEF Follows

\* The entity of an auction, with one field changed.
Entity(a, b, c, d) == [amount |-> a, bidder |-> b, endTime |-> c, settled |-> d]
LEMMA EntityChanged ==
    ASSUME NEW e, NEW a, NEW b, NEW c, NEW d, NEW x, e = Entity(a, b, c, d)
    PROVE  /\ Changed(e, "amount", x) = Entity(x, b, c, d)
           /\ Changed(e, "bidder", x) = Entity(a, x, c, d)
           /\ Changed(e, "endTime", x) = Entity(a, b, x, d)
           /\ Changed(e, "settled", x) = Entity(a, b, c, x)
<1>1. [Entity(a, b, c, d) EXCEPT !.amount = x] = Entity(x, b, c, d)  BY DEF Entity
<1>2. [Entity(a, b, c, d) EXCEPT !.bidder = x] = Entity(a, x, c, d)  BY DEF Entity
<1>3. [Entity(a, b, c, d) EXCEPT !.endTime = x] = Entity(a, b, x, d)  BY DEF Entity
<1>4. [Entity(a, b, c, d) EXCEPT !.settled = x] = Entity(a, b, c, x)  BY DEF Entity
<1> QED  BY <1>1, <1>2, <1>3, <1>4 DEF Changed

\* The auction of the house has an entity, which is as it.
LEMMA HouseEntity ==
    ASSUME ChainTyped, AuctionsFollow, ~house.settled
    PROVE  /\ house.alp \in DOMAIN store.auctions /\ house.alp \in Alps /\ house.alp # 0
           /\ store.auctions[house.alp] = [amount |-> house.amount, bidder |-> house.bidder,
                                           endTime |-> house.endTime, settled |-> FALSE]
<1>1. house.alp # 0  BY DEF ChainTyped
<1>2. house.settled = FALSE  BY DEF ChainTyped, Auction
<1> QED  BY <1>1, <1>2 DEF AuctionsFollow, AuctionMirrored

LEMMA SettleFollows ==
    ASSUME ChainTyped, Follows, Settle
    PROVE  Follows'
<1>1. PICK x : x = house.alp  OBVIOUS
<1>2. PICK to : to = IF house.bidder = None THEN HallOfFame ELSE house.bidder  OBVIOUS
<1>3. PICK e : e = [event |-> "AuctionSettled", token |-> x]  OBVIOUS
<1>4. /\ ~house.settled
      /\ house' = [house EXCEPT !.settled = TRUE]
      /\ owner' = [owner EXCEPT ![x] = to]
      /\ Indexed(Append(TransferEvents(House, to, x), e))
      /\ UNCHANGED <<delegateOf, proposals, params, block, selfSent>>
  BY <1>1, <1>2, <1>3 DEF Settle
<1>5. /\ x \in DOMAIN store.auctions /\ x \in Alps
      /\ store.auctions[x] = [amount |-> house.amount, bidder |-> house.bidder,
                              endTime |-> house.endTime, settled |-> FALSE]
      /\ House = owner[x] /\ House \in Accounts /\ to \in Accounts /\ to \in Accounts \cup {Zero}
      /\ house \in Auction
  <2>1. owner[x] = House /\ house \in Auction  BY <1>1, <1>4 DEF ChainTyped
  <2>2. to \in Accounts  BY <1>2, <2>1, AccountsFinite DEF Auction
  <2> QED  BY <1>1, <1>4, <2>1, <2>2, HouseEntity, AccountsFinite DEF Follows
<1>6. PICK u : u = Handled(store, TransferEvents(House, to, x))  OBVIOUS
<1>7. PICK o2 : o2 = [owner EXCEPT ![x] = to]  OBVIOUS
<1>8. IsStore(store) /\ VotesFollow /\ store.governance.totalTokenHolders = Cardinality(Living(owner))
  BY DEF Follows, GovernorFollows
<1>9. PICK from \in Accounts : from = House  BY <1>5
<1>10. /\ Indexes(store, u, o2, delegateOf)
       /\ AlpIndexed(store, u, x, to)
       /\ HolderIndexed(store, u, from, to, x)
  <2>1. u = Handled(store, TransferEvents(from, to, x)) /\ from = owner[x]  BY <1>5, <1>6, <1>9
  <2> QED  BY <1>5, <1>7, <1>8, <2>1, MoveIndexed
<1>11. store' = Handle(u, e)
  <2>1. PICK E : TransferEvents(House, to, x) \in Seq(E)  BY TransferEventsList
  <2>2. PICK q \in Seq(E) : q = TransferEvents(House, to, x)  BY <2>1
  <2>3. Handled(store, Append(q, e)) = Handle(Handled(store, q), e)  BY LastHandled
  <2> QED  BY <1>4, <1>6, <2>2, <2>3 DEF Indexed, Handled
<1>12. /\ u.auctions = store.auctions
       /\ Alps' = Alps \cup {x}
       /\ DOMAIN u.alps = Alps' /\ \A y \in Alps' : u.alps[y] = owner'[y]
  BY <1>4, <1>5, <1>8, <1>10, AlpKnown DEF Follows
<1>13. PICK t : t = HandleAuctionSettled(u, e)  OBVIOUS
<1>14. store' = t  BY <1>3, <1>11, <1>13 DEF Handle
<1>15. AuctionOnly(u, t) /\ t.auctions = [u.auctions EXCEPT ![e.token].settled = TRUE]
  <2>1. IsStore(u) /\ e.token \in DOMAIN u.auctions  BY <1>3, <1>5, <1>10, <1>12 DEF Indexes
  <2> QED  BY <1>13, <2>1, AuctionSettledEffect
<1>16. Indexes(store, t, o2, delegateOf) /\ t.alps = u.alps  BY <1>10, <1>15, ThenTheHouse
<1>17. Indexes(store, store', owner', delegateOf')  BY <1>4, <1>7, <1>14, <1>16
<1>18. AuctionsFollow'
  <2>1. store'.auctions = [store.auctions EXCEPT ![x].settled = TRUE]
    BY <1>3, <1>12, <1>14, <1>15
  <2>2. PICK new : new = [amount |-> house.amount, bidder |-> house.bidder,
                          endTime |-> house.endTime, settled |-> TRUE]
    OBVIOUS
  <2>3. /\ DOMAIN store'.auctions = DOMAIN store.auctions /\ store'.auctions[x] = new
        /\ \A y \in DOMAIN store.auctions : y # x => store'.auctions[y] = store.auctions[y]
    <3>1. PICK no, yes : no = FALSE /\ yes = TRUE  OBVIOUS
    <3>2. PICK a, b, c : a = house.amount /\ b = house.bidder /\ c = house.endTime  OBVIOUS
    <3>3. PICK e1 : e1 = store.auctions[x]  OBVIOUS
    <3>4. e1 = Entity(a, b, c, no)  BY <1>5, <3>1, <3>2, <3>3 DEF Entity
    <3>5. Changed(e1, "settled", yes) = Entity(a, b, c, yes)  BY <3>4, EntityChanged
    <3>6. [e1 EXCEPT !.settled = TRUE] = new  BY <2>2, <3>1, <3>2, <3>5 DEF Entity, Changed
    <3>7. store'.auctions = [store.auctions EXCEPT ![x] = new]  BY <2>1, <3>3, <3>6
    <3> QED  BY <1>5, <3>7
  <2>4. AuctionMirrored'
    <3>1. house'.alp = x /\ house'.amount = house.amount /\ house'.bidder = house.bidder
          /\ house'.endTime = house.endTime /\ house'.settled = TRUE
      BY <1>1, <1>4, <1>5 DEF Auction
    <3>2. store'.auctions[house'.alp] = [amount |-> house'.amount, bidder |-> house'.bidder,
                                         endTime |-> house'.endTime, settled |-> house'.settled]
      BY <2>2, <2>3, <3>1
    <3>3. \A y \in DOMAIN store'.auctions : ~store'.auctions[y].settled => y = house'.alp
      BY <1>1, <2>3, <3>1 DEF Follows, AuctionsFollow, AuctionMirrored
    <3> QED  BY <3>2, <3>3 DEF AuctionMirrored
  <2>5. DOMAIN store'.alps = Alps' /\ \A y \in Alps' : store'.alps[y] = owner'[y]
    BY <1>12, <1>14, <1>16
  <2>6. house'.alp = x  BY <1>1, <1>4, <1>5 DEF Auction
  <2>7. DOMAIN store'.auctions \subseteq Alps' /\ house'.alp \in DOMAIN store'.auctions
    BY <1>5, <1>12, <2>3, <2>6 DEF Follows, AuctionsFollow
  <2> QED  BY <2>4, <2>5, <2>7 DEF AuctionsFollow
<1>19. HoldersFollow'
  <2>1. HoldersMatch(store, owner, selfSent) /\ owner \in Seq(Accounts \cup {Zero}) /\ x \in DOMAIN owner
    BY <1>5 DEF Follows, HoldersFollow, ChainTyped, Alps
  <2>2. to # from  BY <1>2, <1>5, <1>9, AccountsAssumption DEF Auction
  <2>3. PICK out2 : out2 = Senders(selfSent, from, to)  OBVIOUS
  <2>4. HoldersMatch(u, o2, out2)  BY <1>5, <1>7, <1>9, <1>10, <2>1, <2>3, HoldersMoved
  <2>5. HoldersMatch(t, o2, selfSent)
    BY <1>15, <2>2, <2>3, <2>4, SameHoldersMatch DEF AuctionOnly, Senders
  <2> QED  BY <1>4, <1>7, <1>14, <2>5 DEF HoldersFollow
<1> QED  BY <1>4, <1>17, <1>18, <1>19, TokenStep DEF Follows

LEMMA BidFollows ==
    ASSUME ChainTyped, Follows, NEW bidder \in Holders, Bid(bidder)
    PROVE  Follows'
<1>1. PICK x : x = house.alp  OBVIOUS
<1>2. PICK v : v = house.amount + 1  OBVIOUS
<1>3. PICK at : at = IF house.endTime = block + 1 THEN block + 2 ELSE house.endTime  OBVIOUS
<1>4. PICK e : e = [event |-> "AuctionBid", token |-> x, sender |-> bidder, value |-> v, hash |-> txs]
  OBVIOUS
<1>5. PICK f : f = [event |-> "AuctionExtended", token |-> x, endTime |-> block + 2]  OBVIOUS
<1>6. house \in Auction  BY DEF ChainTyped
<1>7. /\ ~house.settled
      /\ house' = [house EXCEPT !.amount = v, !.bidder = bidder, !.endTime = at]
      /\ Indexed(IF house.endTime = block + 1 THEN <<e, f>> ELSE <<e>>)
      /\ UNCHANGED <<owner, delegateOf, proposals, params, block, selfSent>>
  BY <1>1, <1>2, <1>3, <1>4, <1>5, <1>6 DEF Bid, Auction
<1>8. /\ x \in DOMAIN store.auctions /\ x \in Alps /\ x # 0
      /\ store.auctions[x] = [amount |-> house.amount, bidder |-> house.bidder,
                              endTime |-> house.endTime, settled |-> FALSE]
  BY <1>1, <1>7, HouseEntity DEF Follows
<1>9. PICK u : u = HandleAuctionBid(store, e)  OBVIOUS
<1>10. u = Handle(store, e)  BY <1>4, <1>9 DEF Handle
<1>11. /\ AuctionOnly(store, u)
       /\ u.auctions = [store.auctions EXCEPT ![e.token].amount = e.value,
                                              ![e.token].bidder = e.sender]
  <2>1. IsStore(store) /\ e.token \in DOMAIN store.auctions  BY <1>4, <1>8 DEF Follows
  <2> QED  BY <1>9, <2>1, AuctionBidEffect
<1>12. PICK placed : placed = [amount |-> v, bidder |-> bidder, endTime |-> house.endTime,
                               settled |-> FALSE]
  OBVIOUS
<1>13. u.auctions = [store.auctions EXCEPT ![x] = placed]
  <2>1. u.auctions = [store.auctions EXCEPT ![x].amount = v, ![x].bidder = bidder]
    BY <1>4, <1>11
  <2>2. PICK g : g = [store.auctions[x] EXCEPT !.amount = v]  OBVIOUS
  <2>3. [g EXCEPT !.bidder = bidder] = placed
    <3>1. PICK no : no = FALSE  OBVIOUS
    <3>2. PICK a, b, c : a = house.amount /\ b = house.bidder /\ c = house.endTime  OBVIOUS
    <3>3. PICK e1 : e1 = store.auctions[x]  OBVIOUS
    <3>4. e1 = Entity(a, b, c, no)  BY <1>8, <3>1, <3>2, <3>3 DEF Entity
    <3>5. Changed(e1, "amount", v) = Entity(v, b, c, no)  BY <3>4, EntityChanged
    <3>6. g = Entity(v, b, c, no)  BY <2>2, <3>3, <3>5 DEF Changed
    <3>7. Changed(g, "bidder", bidder) = Entity(v, bidder, c, no)  BY <3>6, EntityChanged
    <3> QED  BY <1>12, <3>1, <3>2, <3>7 DEF Entity, Changed
  <2>4. PICK h : h = [store.auctions EXCEPT ![x] = g]  OBVIOUS
  <2>5. u.auctions = [h EXCEPT ![x] = placed]
    <3>1. h = [store.auctions EXCEPT ![x].amount = v] /\ h[x] = g  BY <1>8, <2>2, <2>4
    <3>2. u.auctions = [h EXCEPT ![x].bidder = bidder]  BY <2>1, <3>1
    <3> QED  BY <2>3, <3>1, <3>2
  <2> QED  BY <2>4, <2>5
<1>14. PICK new : new = [amount |-> v, bidder |-> bidder, endTime |-> at, settled |-> FALSE]
  OBVIOUS
<1>15. /\ AuctionOnly(store, store') /\ DOMAIN store'.auctions = DOMAIN store.auctions
       /\ store'.auctions[x] = new
       /\ \A y \in DOMAIN store.auctions : y # x => store'.auctions[y] = store.auctions[y]
  <2>1. CASE house.endTime # block + 1
    <3>1. store' = Handled(store, <<e>>)  BY <1>7, <2>1 DEF Indexed, Handled
    <3>2. store' = u  BY <1>10, <3>1, OneHandled
    <3>3. new = placed  BY <1>3, <1>12, <1>14, <2>1
    <3> QED  BY <1>8, <1>11, <1>13, <3>2, <3>3
  <2>2. CASE house.endTime = block + 1
    <3>1. store' = Handled(store, <<e, f>>)  BY <1>7, <2>2 DEF Indexed, Handled
    <3>2. store' = Handle(u, f)  BY <1>10, <3>1, TwoHandled
    <3>3. PICK t : t = HandleAuctionExtended(u, f)  OBVIOUS
    <3>4. store' = t  BY <1>5, <3>2, <3>3 DEF Handle
    <3>5. AuctionOnly(u, t) /\ t.auctions = [u.auctions EXCEPT ![f.token].endTime = f.endTime]
      <4>1. IsStore(u) /\ f.token \in DOMAIN u.auctions  BY <1>5, <1>8, <1>11, <1>13 DEF AuctionOnly
      <4> QED  BY <3>3, <4>1, AuctionExtendedEffect
    <3>6. AuctionOnly(store, t)
      BY <1>11, <3>5 DEF AuctionOnly, SameGovernor, SameVotes, SameHolders
    <3>7. t.auctions = [u.auctions EXCEPT ![x].endTime = at]  BY <1>3, <1>5, <2>2, <3>5
    <3>8. u.auctions[x] = placed  BY <1>8, <1>13
    <3>9. [placed EXCEPT !.endTime = at] = new
      <4>1. PICK no, c : no = FALSE /\ c = house.endTime  OBVIOUS
      <4>2. placed = Entity(v, bidder, c, no)  BY <1>12, <4>1 DEF Entity
      <4>3. Changed(placed, "endTime", at) = Entity(v, bidder, at, no)  BY <4>2, EntityChanged
      <4> QED  BY <1>14, <4>1, <4>3 DEF Entity, Changed
    <3>10. t.auctions = [u.auctions EXCEPT ![x] = new]  BY <3>7, <3>8, <3>9
    <3> QED  BY <1>8, <1>13, <3>4, <3>6, <3>10
  <2> QED  BY <2>1, <2>2
<1>16. AuctionsFollow'
  <2>1. house'.alp = x /\ house'.amount = v /\ house'.bidder = bidder
        /\ house'.endTime = at /\ house'.settled = FALSE
    BY <1>1, <1>6, <1>7 DEF Auction
  <2>2. AuctionMirrored'
    <3>1. store'.auctions[house'.alp] = [amount |-> house'.amount, bidder |-> house'.bidder,
                                         endTime |-> house'.endTime, settled |-> house'.settled]
      BY <1>14, <1>15, <2>1
    <3>2. \A y \in DOMAIN store'.auctions : ~store'.auctions[y].settled => y = house'.alp
      BY <1>1, <1>15, <2>1 DEF Follows, AuctionsFollow, AuctionMirrored
    <3> QED  BY <3>1, <3>2 DEF AuctionMirrored
  <2>3. DOMAIN store'.alps = Alps' /\ \A y \in Alps' : store'.alps[y] = owner'[y]
    BY <1>7, <1>15 DEF AuctionOnly, Follows, AuctionsFollow, Alps
  <2>4. DOMAIN store'.auctions \subseteq Alps' /\ house'.alp \in DOMAIN store'.auctions
    BY <1>7, <1>8, <1>15, <2>1 DEF Follows, AuctionsFollow, Alps
  <2> QED  BY <2>2, <2>3, <2>4 DEF AuctionsFollow
<1> QED  BY <1>7, <1>15, <1>16, HouseStep DEF Follows

\* What a proposal may set the parameters to.
LEMMA ParamShape ==
    ASSUME NEW p \in ParamSets
    PROVE  /\ p.min \in Nat /\ p.max \in Nat /\ p.coefficient \in Nat /\ p.min <= p.max
           /\ p = [min |-> p.min, max |-> p.max, coefficient |-> p.coefficient]
<1> DEFINE B == 0..10000
<1>1. Param = [min : B, max : B, coefficient : Nat]  BY DEF Param
<1>2. B \subseteq Nat  OBVIOUS
<1> HIDE DEF B
<1>3. p \in [min : B, max : B, coefficient : Nat]  BY <1>1, ParamsAssumption
<1>4. p.min \in Nat /\ p.max \in Nat /\ p.coefficient \in Nat  BY <1>2, <1>3
<1>5. p.min <= p.max  BY ParamsAssumption
<1>6. p = [min |-> p.min, max |-> p.max, coefficient |-> p.coefficient]  BY <1>3
<1> QED  BY <1>4, <1>5, <1>6

\* Without votes against, the quorum is the smallest one.
LEMMA QuorumAtStart ==
    ASSUME NEW n \in Nat, n > 0, NEW p \in ParamSets
    PROVE  DynamicQuorumVotes(0, n, p) = (n * p.min) \div 10000
<1>1. p.min \in Nat /\ p.max \in Nat /\ p.coefficient \in Nat /\ p.min <= p.max
  BY ParamShape
<1>2. (0 * 10000) \div n = 0
  <2>1. 0 * 10000 = 0  OBVIOUS
  <2>2. 0 \div n = 0  OBVIOUS
  <2> QED  BY <2>1, <2>2
<1>3. (p.coefficient * 0) \div 1000000 = 0  BY <1>1
<1>4. ~(p.max < p.min + 0) /\ p.min + 0 = p.min  BY <1>1
<1> QED  BY <1>2, <1>3, <1>4 DEF DynamicQuorumVotes

LEMMA ProposeFollows ==
    ASSUME ChainTyped, Follows, NEW proposer \in Holders, Propose(proposer)
    PROVE  Follows'
<1>1. PICK n \in Nat : n = Len(proposals) /\ DOMAIN proposals = 1..n  BY DEF ChainTyped
<1>2. PICK k : k = Supply  OBVIOUS
<1>3. PICK p : p = params[block]  OBVIOUS
<1>4. PICK q : q = (k * p.min) \div 10000  OBVIOUS
<1>5. PICK e : e = [event |-> "ProposalCreated", id |-> n + 1, proposer |-> proposer,
                    block |-> block, startBlock |-> block + 1, quorumVotes |-> q]
  OBVIOUS
<1>6. PICK f : f = [a \in Holders |-> Votes(a)]  OBVIOUS
<1>7. PICK new : new = [created |-> block, supply |-> k, seen |-> p,
                 snapshot |-> f, voted |-> {}, for |-> 0, against |-> 0,
                 queued |-> FALSE, executed |-> FALSE, canceled |-> FALSE, vetoed |-> FALSE]
  OBVIOUS
<1>8. /\ Votes(proposer) > 0 /\ proposals' = Append(proposals, new)
      /\ Indexed(<<e>>)
      /\ UNCHANGED <<owner, delegateOf, house, params, block, selfSent>>
  BY <1>1, <1>2, <1>3, <1>4, <1>5, <1>6, <1>7 DEF Propose
<1>9. k \in Nat /\ k > 0 /\ k = Cardinality(Living(owner))
  <2>1. owner \in Seq(Accounts \cup {Zero})  BY DEF ChainTyped
  <2>2. Votes(proposer) \in Nat /\ Votes(proposer) <= Supply /\ Supply \in Nat
    BY <2>1, VotesCount
  <2> QED  BY <1>2, <1>8, <2>1, <2>2, VotesAreCounted
<1>10. p \in ParamSets /\ block \in Nat  BY <1>3 DEF ChainTyped
<1>11. PICK t : t = HandleProposalCreatedWithRequirements(store, e)  OBVIOUS
<1>12. store' = t
  <2>1. store' = Handled(store, <<e>>)  BY <1>8 DEF Indexed, Handled
  <2>2. store' = Handle(store, e)  BY <2>1, OneHandled
  <2> QED  BY <1>5, <1>11, <2>2 DEF Handle
<1>13. DOMAIN store.proposals = 1..n  BY <1>1 DEF Follows, GovernorFollows
<1>14. /\ GovernorOnly(store, t) /\ t.params = store.params
       /\ t.proposals = Put(store.proposals, e.id, NewProposal(store, e))
  <2>1. IsStore(store) /\ e.id \notin DOMAIN store.proposals  BY <1>5, <1>13 DEF Follows
  <2> QED  BY <1>11, <2>1, ProposalCreatedEffect
<1>15. PICK entity : entity = NewProposal(store, e)  OBVIOUS
<1>16. ProposalFollows(entity, new)
  <2>1. entity = [proposer |-> proposer, createdBlock |-> block, quorumVotes |-> q,
                  forVotes |-> 0, againstVotes |-> 0, abstainVotes |-> 0,
                  status |-> IF block >= block + 1 THEN "ACTIVE" ELSE "PENDING",
                  totalSupply |-> store.governance.totalTokenHolders,
                  params |-> [min |-> store.params.min, max |-> store.params.max,
                              coefficient |-> store.params.coefficient]]
    BY <1>5, <1>15 DEF NewProposal
  <2>2. DOMAIN entity = ProposalFields  BY <2>1 DEF ProposalFields
  <2>3. entity.status = "PENDING"  BY <1>10, <2>1
  <2>4. entity.totalSupply = k  BY <1>9, <2>1 DEF Follows, GovernorFollows
  <2>5. entity.params = p
    <3>1. /\ store.params.min = p.min /\ store.params.max = p.max
          /\ store.params.coefficient = p.coefficient
      BY <1>3 DEF Follows, GovernorFollows
    <3>2. p = [min |-> p.min, max |-> p.max, coefficient |-> p.coefficient]  BY <1>10, ParamShape
    <3> QED  BY <2>1, <3>1, <3>2
  <2>6. entity.quorumVotes = DynamicQuorumVotes(0, k, p)
    BY <1>4, <1>9, <1>10, <2>1, QuorumAtStart
  <2>7. /\ entity.forVotes = 0 /\ entity.againstVotes = 0 /\ entity.createdBlock = block
    BY <2>1
  <2>8. /\ new.created = block /\ new.supply = k /\ new.seen = p /\ new.for = 0 /\ new.against = 0
        /\ new.queued = FALSE /\ new.executed = FALSE
    BY <1>7
  <2> QED  BY <2>2, <2>3, <2>4, <2>5, <2>6, <2>7, <2>8 DEF ProposalFollows
<1>17. GovernorFollows'
  <2>1. proposals \in Seq(Proposal)  BY DEF ChainTyped
  <2>2. /\ DOMAIN proposals' = 1..(n + 1) /\ proposals'[n + 1] = new
        /\ \A i \in 1..n : proposals'[i] = proposals[i]
    BY <1>1, <1>8, <2>1
  <2>3. (1..n) \cup {n + 1} = 1..(n + 1) /\ n + 1 \notin 1..n  OBVIOUS
  <2>4. store'.proposals = Put(store.proposals, n + 1, entity)  BY <1>5, <1>12, <1>14, <1>15
  <2>5. /\ DOMAIN store'.proposals = 1..(n + 1) /\ store'.proposals[n + 1] = entity
        /\ \A i \in 1..n : store'.proposals[i] = store.proposals[i]
    BY <1>13, <2>3, <2>4 DEF Put
  <2>6. \A i \in DOMAIN proposals' : ProposalFollows(store'.proposals[i], proposals'[i])
    <3>1. \A i \in 1..n : ProposalFollows(store.proposals[i], proposals[i])
      BY <1>1 DEF Follows, GovernorFollows
    <3>2. \A i \in 1..(n + 1) : i \in 1..n \/ i = n + 1  BY <2>3
    <3> QED  BY <1>16, <2>2, <2>5, <3>1, <3>2
  <2>7. store'.params = store.params
        /\ store'.governance.totalTokenHolders = store.governance.totalTokenHolders
    BY <1>12, <1>14 DEF GovernorOnly
  <2> QED  BY <1>8, <2>2, <2>5, <2>6, <2>7 DEF Follows, GovernorFollows
<1> QED  BY <1>8, <1>12, <1>14, <1>17, GovernorStep DEF Follows

\* A proposal that only changes its status.
StatusOnly(s, t, i, status) ==
    /\ GovernorOnly(s, t) /\ t.params = s.params
    /\ t.proposals = [s.proposals EXCEPT ![i].status = status]
Shown(status, p) ==
    /\ status = "EXECUTED" <=> p.executed
    /\ status = "QUEUED" <=> p.queued /\ ~(p.executed \/ p.canceled \/ p.vetoed)
IdEvent(ev, i) == [event |-> ev, id |-> i]
Flags == {"queued", "executed", "canceled", "vetoed"}

LEMMA AdvanceFollows ==
    ASSUME ChainTyped, Follows, NEW i \in DOMAIN proposals, NEW ev, NEW field \in Flags,
           Advance(i, ev, field), NEW status,
           NEW t, t = Handle(store, IdEvent(ev, i)), StatusOnly(store, t, i, status),
           Shown(status, Changed(proposals[i], field, TRUE))
    PROVE  Follows'
<1>1. store' = t
  <2>1. PICK e : e = IdEvent(ev, i)  OBVIOUS
  <2>2. store' = Handled(store, <<e>>)  BY <2>1 DEF Advance, Indexed, Handled, IdEvent
  <2> QED  BY <2>1, <2>2, OneHandled
<1>2. PICK p : p = proposals[i]  OBVIOUS
<1>3. PICK p2 : p2 = Changed(p, field, TRUE)  OBVIOUS
<1>4. p \in Proposal  BY <1>2 DEF ChainTyped
<1>5. /\ DOMAIN proposals' = DOMAIN proposals /\ proposals'[i] = p2
      /\ \A j \in DOMAIN proposals : j # i => proposals'[j] = proposals[j]
  <2>1. proposals' = [proposals EXCEPT ![i] = p2]  BY <1>2, <1>3 DEF Advance, Changed
  <2> QED  BY <2>1
<1>6. /\ p2.for = p.for /\ p2.against = p.against /\ p2.supply = p.supply
      /\ p2.seen = p.seen /\ p2.created = p.created
  BY <1>3, <1>4 DEF Proposal, Changed, Flags
<1>7. PICK q : q = store.proposals[i]  OBVIOUS
<1>8. DOMAIN store.proposals = DOMAIN proposals /\ ProposalFollows(q, p)
  BY <1>2, <1>7 DEF Follows, GovernorFollows
<1>9. PICK q2 : q2 = [q EXCEPT !.status = status]  OBVIOUS
<1>10. ProposalFollows(q2, p2)
  <2>1. DOMAIN q = ProposalFields  BY <1>8 DEF ProposalFollows
  <2>2. /\ DOMAIN q2 = ProposalFields /\ q2.status = status
        /\ q2.totalSupply = q.totalSupply /\ q2.forVotes = q.forVotes
        /\ q2.againstVotes = q.againstVotes /\ q2.createdBlock = q.createdBlock
        /\ q2.params = q.params /\ q2.quorumVotes = q.quorumVotes
    BY <1>9, <2>1 DEF ProposalFields
  <2>3. Shown(status, p2)  BY <1>2, <1>3
  <2> QED  BY <1>6, <1>8, <2>2, <2>3 DEF ProposalFollows, Shown
<1>11. t.proposals = [store.proposals EXCEPT ![i] = q2]  BY <1>7, <1>9 DEF StatusOnly
<1>12. UNCHANGED <<owner, delegateOf, house, params, block, selfSent>>  BY DEF Advance
<1>13. GovernorFollows'
  <2>1. /\ DOMAIN store'.proposals = DOMAIN proposals' /\ store'.proposals[i] = q2
        /\ \A j \in DOMAIN proposals : j # i => store'.proposals[j] = store.proposals[j]
    BY <1>1, <1>5, <1>8, <1>11
  <2>2. \A j \in DOMAIN proposals' : ProposalFollows(store'.proposals[j], proposals'[j])
    <3>1. \A j \in DOMAIN proposals : ProposalFollows(store.proposals[j], proposals[j])
      BY DEF Follows, GovernorFollows
    <3> QED  BY <1>5, <1>10, <2>1, <3>1
  <2>3. store'.params = store.params
        /\ store'.governance.totalTokenHolders = store.governance.totalTokenHolders
    BY <1>1 DEF StatusOnly, GovernorOnly
  <2> QED  BY <1>12, <2>1, <2>2, <2>3 DEF Follows, GovernorFollows
<1> QED  BY <1>1, <1>12, <1>13, GovernorStep DEF Follows, StatusOnly

LEMMA QueueFollows ==
    ASSUME ChainTyped, Follows, NEW i \in DOMAIN proposals, Queue(i)
    PROVE  Follows'
<1>1. PICK e : e = IdEvent("ProposalQueued", i)  OBVIOUS
<1>2. PICK t : t = HandleProposalQueued(store, e)  OBVIOUS
<1>3. /\ GovernorOnly(store, t) /\ t.params = store.params
      /\ t.proposals = [store.proposals EXCEPT ![e.id].status = "QUEUED"]
  <2>1. IsStore(store) /\ e.id \in DOMAIN store.proposals
    BY <1>1 DEF IdEvent, Follows, GovernorFollows
  <2> QED  BY <1>2, <2>1, QueuedEffect
<1>4. t = Handle(store, IdEvent("ProposalQueued", i))  BY <1>1, <1>2 DEF Handle, IdEvent
<1>5. PICK status : status = "QUEUED"  OBVIOUS
<1>6. StatusOnly(store, t, i, status)  BY <1>1, <1>3, <1>5 DEF StatusOnly, IdEvent
<1>7. Advance(i, "ProposalQueued", "queued") /\ Open(i)
  BY DEF Queue
<1>8. Shown(status, Changed(proposals[i], "queued", TRUE))
  <2>1. PICK p : p = proposals[i]  OBVIOUS
  <2>2. p \in Proposal  BY <2>1 DEF ChainTyped
  <2>3. PICK p2 : p2 = [p EXCEPT !.queued = TRUE]  OBVIOUS
  <2>4. p2.queued /\ \A x \in Flags : x # "queued" => p2[x] = p[x]
    BY <2>2, <2>3 DEF Proposal, Flags
  <2>5. Shown(status, p2)  BY <1>5, <1>7, <2>1, <2>4 DEF Shown, Flags, Open
  <2> QED  BY <2>1, <2>3, <2>5 DEF Changed
<1>9. PICK ev : ev = "ProposalQueued"  OBVIOUS
<1>10. PICK field \in Flags : field = "queued"  BY DEF Flags
<1>11. /\ Advance(i, ev, field) /\ t = Handle(store, IdEvent(ev, i))
       /\ Shown(status, Changed(proposals[i], field, TRUE))
  BY <1>4, <1>7, <1>8, <1>9, <1>10
<1> QED  BY <1>6, <1>11, AdvanceFollows

LEMMA ExecuteFollows ==
    ASSUME ChainTyped, Follows, NEW i \in DOMAIN proposals, Execute(i)
    PROVE  Follows'
<1>1. PICK e : e = IdEvent("ProposalExecuted", i)  OBVIOUS
<1>2. PICK t : t = HandleProposalExecuted(store, e)  OBVIOUS
<1>3. /\ GovernorOnly(store, t) /\ t.params = store.params
      /\ t.proposals = [store.proposals EXCEPT ![e.id].status = "EXECUTED"]
  <2>1. IsStore(store) /\ e.id \in DOMAIN store.proposals
    BY <1>1 DEF IdEvent, Follows, GovernorFollows
  <2> QED  BY <1>2, <2>1, ExecutedEffect
<1>4. t = Handle(store, IdEvent("ProposalExecuted", i))  BY <1>1, <1>2 DEF Handle, IdEvent
<1>5. PICK status : status = "EXECUTED"  OBVIOUS
<1>6. StatusOnly(store, t, i, status)  BY <1>1, <1>3, <1>5 DEF StatusOnly, IdEvent
<1>7. Advance(i, "ProposalExecuted", "executed")
  BY DEF Execute
<1>8. Shown(status, Changed(proposals[i], "executed", TRUE))
  <2>1. PICK p : p = proposals[i]  OBVIOUS
  <2>2. p \in Proposal  BY <2>1 DEF ChainTyped
  <2>3. PICK p2 : p2 = [p EXCEPT !.executed = TRUE]  OBVIOUS
  <2>4. p2.executed /\ \A x \in Flags : x # "executed" => p2[x] = p[x]
    BY <2>2, <2>3 DEF Proposal, Flags
  <2>5. Shown(status, p2)  BY <1>5, <1>7, <2>1, <2>4 DEF Shown, Flags
  <2> QED  BY <2>1, <2>3, <2>5 DEF Changed
<1>9. PICK ev : ev = "ProposalExecuted"  OBVIOUS
<1>10. PICK field \in Flags : field = "executed"  BY DEF Flags
<1>11. /\ Advance(i, ev, field) /\ t = Handle(store, IdEvent(ev, i))
       /\ Shown(status, Changed(proposals[i], field, TRUE))
  BY <1>4, <1>7, <1>8, <1>9, <1>10
<1> QED  BY <1>6, <1>11, AdvanceFollows

LEMMA CancelFollows ==
    ASSUME ChainTyped, Follows, NEW i \in DOMAIN proposals, Cancel(i)
    PROVE  Follows'
<1>1. PICK e : e = IdEvent("ProposalCanceled", i)  OBVIOUS
<1>2. PICK t : t = HandleProposalCanceled(store, e)  OBVIOUS
<1>3. /\ GovernorOnly(store, t) /\ t.params = store.params
      /\ t.proposals = [store.proposals EXCEPT ![e.id].status = "CANCELLED"]
  <2>1. IsStore(store) /\ e.id \in DOMAIN store.proposals
    BY <1>1 DEF IdEvent, Follows, GovernorFollows
  <2> QED  BY <1>2, <2>1, CanceledEffect
<1>4. t = Handle(store, IdEvent("ProposalCanceled", i))  BY <1>1, <1>2 DEF Handle, IdEvent
<1>5. PICK status : status = "CANCELLED"  OBVIOUS
<1>6. StatusOnly(store, t, i, status)  BY <1>1, <1>3, <1>5 DEF StatusOnly, IdEvent
<1>7. Advance(i, "ProposalCanceled", "canceled") /\ ~proposals[i].executed
  BY DEF Cancel
<1>8. Shown(status, Changed(proposals[i], "canceled", TRUE))
  <2>1. PICK p : p = proposals[i]  OBVIOUS
  <2>2. p \in Proposal  BY <2>1 DEF ChainTyped
  <2>3. PICK p2 : p2 = [p EXCEPT !.canceled = TRUE]  OBVIOUS
  <2>4. p2.canceled /\ \A x \in Flags : x # "canceled" => p2[x] = p[x]
    BY <2>2, <2>3 DEF Proposal, Flags
  <2>5. Shown(status, p2)  BY <1>5, <1>7, <2>1, <2>4 DEF Shown, Flags
  <2> QED  BY <2>1, <2>3, <2>5 DEF Changed
<1>9. PICK ev : ev = "ProposalCanceled"  OBVIOUS
<1>10. PICK field \in Flags : field = "canceled"  BY DEF Flags
<1>11. /\ Advance(i, ev, field) /\ t = Handle(store, IdEvent(ev, i))
       /\ Shown(status, Changed(proposals[i], field, TRUE))
  BY <1>4, <1>7, <1>8, <1>9, <1>10
<1> QED  BY <1>6, <1>11, AdvanceFollows

LEMMA VetoFollows ==
    ASSUME ChainTyped, Follows, NEW i \in DOMAIN proposals, Veto(i)
    PROVE  Follows'
<1>1. PICK e : e = IdEvent("ProposalVetoed", i)  OBVIOUS
<1>2. PICK t : t = HandleProposalVetoed(store, e)  OBVIOUS
<1>3. /\ GovernorOnly(store, t) /\ t.params = store.params
      /\ t.proposals = [store.proposals EXCEPT ![e.id].status = "VETOED"]
  <2>1. IsStore(store) /\ e.id \in DOMAIN store.proposals
    BY <1>1 DEF IdEvent, Follows, GovernorFollows
  <2> QED  BY <1>2, <2>1, VetoedEffect
<1>4. t = Handle(store, IdEvent("ProposalVetoed", i))  BY <1>1, <1>2 DEF Handle, IdEvent
<1>5. PICK status : status = "VETOED"  OBVIOUS
<1>6. StatusOnly(store, t, i, status)  BY <1>1, <1>3, <1>5 DEF StatusOnly, IdEvent
<1>7. Advance(i, "ProposalVetoed", "vetoed") /\ ~proposals[i].executed
  BY DEF Veto
<1>8. Shown(status, Changed(proposals[i], "vetoed", TRUE))
  <2>1. PICK p : p = proposals[i]  OBVIOUS
  <2>2. p \in Proposal  BY <2>1 DEF ChainTyped
  <2>3. PICK p2 : p2 = [p EXCEPT !.vetoed = TRUE]  OBVIOUS
  <2>4. p2.vetoed /\ \A x \in Flags : x # "vetoed" => p2[x] = p[x]
    BY <2>2, <2>3 DEF Proposal, Flags
  <2>5. Shown(status, p2)  BY <1>5, <1>7, <2>1, <2>4 DEF Shown, Flags
  <2> QED  BY <2>1, <2>3, <2>5 DEF Changed
<1>9. PICK ev : ev = "ProposalVetoed"  OBVIOUS
<1>10. PICK field \in Flags : field = "vetoed"  BY DEF Flags
<1>11. /\ Advance(i, ev, field) /\ t = Handle(store, IdEvent(ev, i))
       /\ Shown(status, Changed(proposals[i], field, TRUE))
  BY <1>4, <1>7, <1>8, <1>9, <1>10
<1> QED  BY <1>6, <1>11, AdvanceFollows

\* The entity of an open proposal after a vote, in a block after the first parameters'.
LEMMA VoteTallied ==
    ASSUME NEW p \in Proposal, ~(p.queued \/ p.executed), p.created \in Nat \ {0},
           NEW q, ProposalFollows(q, p),
           NEW s, s.params.start = 0,
           NEW e, NEW n \in Nat, e.votes = n, e.support \in 0..2,
           NEW f \in Nat, f = IF e.support = 1 THEN p.for + n ELSE p.for,
           NEW g \in Nat, g = IF e.support = 0 THEN p.against + n ELSE p.against,
           NEW v, NEW p2, p2 = [p EXCEPT !.voted = v, !.for = f, !.against = g]
    PROVE  ProposalFollows(Tallied(s, q, e), p2)
<1>1. DOMAIN q = ProposalFields  BY DEF ProposalFollows
<1>2. PICK c : c = WithVote(q, e)  OBVIOUS
<1>3. PICK x : x = IF q.status = "PENDING" THEN "ACTIVE" ELSE q.status  OBVIOUS
<1>4. PICK y : y = IF e.support = 2 THEN q.abstainVotes + e.votes ELSE q.abstainVotes  OBVIOUS
<1>5. c = [q EXCEPT !.forVotes = f, !.againstVotes = g, !.abstainVotes = y, !.status = x]
  <2>1. q.forVotes = p.for /\ q.againstVotes = p.against  BY DEF ProposalFollows
  <2> QED  BY <1>1, <1>2, <1>3, <1>4, <2>1 DEF WithVote, ProposalFields
<1>6. /\ DOMAIN c = ProposalFields /\ c.forVotes = f /\ c.againstVotes = g /\ c.status = x
      /\ c.totalSupply = q.totalSupply /\ c.createdBlock = q.createdBlock /\ c.params = q.params
  BY <1>1, <1>5 DEF ProposalFields
<1>7. PICK k : k = DynamicQuorumVotes(c.againstVotes, c.totalSupply, c.params)  OBVIOUS
<1>8. Tallied(s, q, e) = [c EXCEPT !.quorumVotes = k]
  <2>1. c.createdBlock = p.created  BY <1>6 DEF ProposalFollows
  <2>2. 0 # None  BY NoneAssumption
  <2>3. s.params.start # None /\ s.params.start < c.createdBlock  BY <2>1, <2>2
  <2> QED  BY <1>2, <1>7, <2>3 DEF Tallied
<1>9. PICK r : r = Tallied(s, q, e)  OBVIOUS
<1>10. /\ DOMAIN r = ProposalFields /\ r.forVotes = f /\ r.againstVotes = g /\ r.status = x
       /\ r.totalSupply = q.totalSupply /\ r.createdBlock = q.createdBlock /\ r.params = q.params
       /\ r.quorumVotes = k
  BY <1>6, <1>8, <1>9 DEF ProposalFields
<1>11. /\ p2.for = f /\ p2.against = g /\ p2.created = p.created /\ p2.supply = p.supply
       /\ p2.seen = p.seen /\ p2.queued = p.queued /\ p2.executed = p.executed
  BY DEF Proposal
<1>12. k = DynamicQuorumVotes(g, p.supply, p.seen)  BY <1>6, <1>7 DEF ProposalFollows
<1>13. x # "EXECUTED" /\ x # "QUEUED"  BY <1>3 DEF ProposalFollows
<1>14. ProposalFollows(r, p2)
  BY <1>10, <1>11, <1>12, <1>13 DEF ProposalFollows
<1> QED  BY <1>9, <1>14

LEMMA CastVoteFollows ==
    ASSUME ChainTyped, Follows, NEW i \in DOMAIN proposals, NEW voter \in Holders,
           NEW support \in 0..2, CastVote(i, voter, support)
    PROVE  Follows'
<1>1. PICK p : p = proposals[i]  OBVIOUS
<1>2. p \in Proposal /\ p.created \in Nat \ {0}
  <2>1. p \in Proposal /\ p.created \in 1..block /\ block \in Nat  BY <1>1 DEF ChainTyped
  <2> QED  BY <2>1
<1>3. PICK n : n = p.snapshot[voter]  OBVIOUS
<1>4. n \in Nat  BY <1>2, <1>3 DEF Proposal
<1>5. PICK f \in Nat : f = IF support = 1 THEN p.for + n ELSE p.for
  BY <1>2, <1>4 DEF Proposal
<1>6. PICK g \in Nat : g = IF support = 0 THEN p.against + n ELSE p.against
  BY <1>2, <1>4 DEF Proposal
<1>7. PICK v \in SUBSET Holders : v = p.voted \cup {voter}  BY <1>2 DEF Proposal
<1>8. PICK p2 : p2 = [p EXCEPT !.voted = v, !.for = f, !.against = g]  OBVIOUS
<1>9. PICK e : e = [event |-> "VoteCast", voter |-> voter, id |-> i, support |-> support,
                    votes |-> n]
  OBVIOUS
<1>10. /\ ~(p.queued \/ p.executed) /\ Indexed(<<e>>)
       /\ UNCHANGED <<owner, delegateOf, house, params, block, selfSent>>
  BY <1>1, <1>3, <1>9 DEF CastVote, Open
<1>11. proposals' = [proposals EXCEPT ![i] = p2]
  <2>1. proposals' = [proposals EXCEPT ![i].voted = v, ![i].for = f, ![i].against = g]
    BY <1>1, <1>2, <1>3, <1>5, <1>6, <1>7 DEF CastVote, ChainTyped, Proposal
  <2> QED  BY <1>1, <1>8, <2>1
<1>12. PICK t : t = HandleVoteCast(store, e)  OBVIOUS
<1>13. store' = t
  <2>1. store' = Handled(store, <<e>>)  BY <1>10 DEF Indexed, Handled
  <2>2. store' = Handle(store, e)  BY <2>1, OneHandled
  <2> QED  BY <1>9, <1>12, <2>2 DEF Handle
<1>14. PICK q : q = store.proposals[i]  OBVIOUS
<1>15. DOMAIN store.proposals = DOMAIN proposals /\ ProposalFollows(q, p) /\ store.params.start = 0
  BY <1>1, <1>14 DEF Follows, GovernorFollows
<1>16. PICK q2 : q2 = Tallied(store, q, e)  OBVIOUS
<1>17. /\ GovernorOnly(store, t) /\ t.params = store.params
       /\ t.proposals = [store.proposals EXCEPT ![i] = q2]
  <2>1. e.id = i  BY <1>9
  <2>2. 0 # None  BY NoneAssumption
  <2>3. /\ IsStore(store) /\ e.id \in DOMAIN store.proposals /\ store.params.start # None
    BY <1>15, <2>1, <2>2 DEF Follows
  <2> QED  BY <1>12, <1>14, <1>16, <2>1, <2>3, VoteCastEffect
<1>18. ProposalFollows(q2, p2)
  <2>1. e.votes = n /\ e.support = support  BY <1>9
  <2> QED  BY <1>2, <1>4, <1>5, <1>6, <1>8, <1>10, <1>15, <1>16, <2>1, VoteTallied
<1>19. GovernorFollows'
  <2>1. /\ DOMAIN proposals' = DOMAIN proposals /\ proposals'[i] = p2
        /\ \A j \in DOMAIN proposals : j # i => proposals'[j] = proposals[j]
    BY <1>11
  <2>2. /\ DOMAIN store'.proposals = DOMAIN proposals' /\ store'.proposals[i] = q2
        /\ \A j \in DOMAIN proposals : j # i => store'.proposals[j] = store.proposals[j]
    BY <1>13, <1>15, <1>17, <2>1
  <2>3. \A j \in DOMAIN proposals' : ProposalFollows(store'.proposals[j], proposals'[j])
    <3>1. \A j \in DOMAIN proposals : ProposalFollows(store.proposals[j], proposals[j])
      BY DEF Follows, GovernorFollows
    <3> QED  BY <1>18, <2>1, <2>2, <3>1
  <2>4. store'.params = store.params
        /\ store'.governance.totalTokenHolders = store.governance.totalTokenHolders
    BY <1>13, <1>17 DEF GovernorOnly
  <2> QED  BY <1>10, <2>2, <2>3, <2>4 DEF Follows, GovernorFollows
<1> QED  BY <1>10, <1>13, <1>17, <1>19, GovernorStep DEF Follows

-----------------------------------------------------------------------------
(* The parameters of the quorum, and the blocks.                           *)

LEMMA GovernorOnlyTwice ==
    ASSUME NEW s, NEW t, NEW u, GovernorOnly(s, t), GovernorOnly(t, u)
    PROVE  GovernorOnly(s, u)
<1>1. SameHolders(s, u)  BY DEF GovernorOnly, SameHolders
<1>2. SameVotes(s, u)  BY DEF GovernorOnly, SameVotes
<1> QED  BY <1>1, <1>2 DEF GovernorOnly, SameAuctions

StartAfter(start, at) == IF start = None THEN at ELSE start

LEMMA ParamsSaved ==
    ASSUME NEW s, IsStore(s), NEW p, NEW at, at # None,
           NEW t, t = Handled(s, ParamEvents(p, at))
    PROVE  /\ GovernorOnly(s, t) /\ t.proposals = s.proposals
           /\ t.params.min = p.min /\ t.params.max = p.max /\ t.params.coefficient = p.coefficient
           /\ t.params.start = StartAfter(s.params.start, at)
<1>1. PICK e1 : e1 = [event |-> "QuorumParamSet", param |-> "min", value |-> p.min, block |-> at]
  OBVIOUS
<1>2. PICK e2 : e2 = [event |-> "QuorumParamSet", param |-> "max", value |-> p.max, block |-> at]
  OBVIOUS
<1>3. PICK e3 : e3 = [event |-> "QuorumParamSet", param |-> "coefficient", value |-> p.coefficient,
                      block |-> at]
  OBVIOUS
<1>4. PICK s1 : s1 = HandleQuorumParamSet(s, e1)  OBVIOUS
<1>5. PICK s2 : s2 = HandleQuorumParamSet(s1, e2)  OBVIOUS
<1>6. t = HandleQuorumParamSet(s2, e3)
  <2>1. ParamEvents(p, at) = <<e1, e2, e3>>  BY <1>1, <1>2, <1>3 DEF ParamEvents
  <2>2. t = Handle(Handle(Handle(s, e1), e2), e3)  BY <2>1, ThreeHandled
  <2>3. \A r : Handle(r, e1) = HandleQuorumParamSet(r, e1)  BY <1>1 DEF Handle
  <2>4. \A r : Handle(r, e2) = HandleQuorumParamSet(r, e2)  BY <1>2 DEF Handle
  <2>5. \A r : Handle(r, e3) = HandleQuorumParamSet(r, e3)  BY <1>3 DEF Handle
  <2> QED  BY <1>4, <1>5, <2>2, <2>3, <2>4, <2>5
<1>7. e1.param = "min" /\ e1.value = p.min /\ e1.block = at  BY <1>1
<1>8. e2.param = "max" /\ e2.value = p.max /\ e2.block = at  BY <1>2
<1>9. e3.param = "coefficient" /\ e3.value = p.coefficient /\ e3.block = at  BY <1>3
<1>10. PICK x : x = StartAfter(s.params.start, at)  OBVIOUS
<1>11. x # None  BY <1>10 DEF StartAfter
<1>12. /\ GovernorOnly(s, s1) /\ s1.proposals = s.proposals
       /\ s1.params.min = p.min /\ s1.params.start = x
  BY <1>4, <1>7, <1>10, QuorumParamEffect DEF StartAfter
<1>13. IsStore(s1)  BY <1>12 DEF GovernorOnly
<1>14. /\ GovernorOnly(s1, s2) /\ s2.proposals = s1.proposals
       /\ s2.params.max = p.max /\ s2.params.min = s1.params.min /\ s2.params.start = x
  <2>1. /\ GovernorOnly(s1, s2) /\ s2.proposals = s1.proposals
        /\ s2.params[e2.param] = e2.value
        /\ \A y \in {"min", "max", "coefficient"} : y # e2.param => s2.params[y] = s1.params[y]
        /\ s2.params.start = IF s1.params.start = None THEN e2.block ELSE s1.params.start
    BY <1>5, <1>8, <1>13, QuorumParamEffect
  <2> QED  BY <1>8, <1>11, <1>12, <2>1
<1>15. IsStore(s2)  BY <1>14 DEF GovernorOnly
<1>16. /\ GovernorOnly(s2, t) /\ t.proposals = s2.proposals
       /\ t.params.coefficient = p.coefficient
       /\ t.params.min = s2.params.min /\ t.params.max = s2.params.max /\ t.params.start = x
  <2>1. /\ GovernorOnly(s2, t) /\ t.proposals = s2.proposals
        /\ t.params[e3.param] = e3.value
        /\ \A y \in {"min", "max", "coefficient"} : y # e3.param => t.params[y] = s2.params[y]
        /\ t.params.start = IF s2.params.start = None THEN e3.block ELSE s2.params.start
    BY <1>6, <1>9, <1>15, QuorumParamEffect
  <2> QED  BY <1>9, <1>11, <1>14, <2>1
<1>17. GovernorOnly(s, t)  BY <1>12, <1>14, <1>16, GovernorOnlyTwice
<1> QED  BY <1>10, <1>12, <1>14, <1>16, <1>17

LEMMA SetParamsFollows ==
    ASSUME ChainTyped, Follows, NEW p \in ParamSets, SetParams(p)
    PROVE  Follows'
<1>1. PICK t : t = Handled(store, ParamEvents(p, block))  OBVIOUS
<1>2. store' = t  BY <1>1 DEF SetParams, Indexed, Handled
<1>3. block \in Nat /\ block # None  BY NoneAssumption DEF ChainTyped
<1>4. IsStore(store) /\ store.params.start = 0  BY DEF Follows, GovernorFollows
<1>5. /\ GovernorOnly(store, t) /\ t.proposals = store.proposals
      /\ t.params.min = p.min /\ t.params.max = p.max /\ t.params.coefficient = p.coefficient
      /\ t.params.start = StartAfter(store.params.start, block)
  BY <1>1, <1>3, <1>4, ParamsSaved
<1>6. t.params.start = 0
  <2>1. 0 # None  BY NoneAssumption
  <2> QED  BY <1>4, <1>5, <2>1 DEF StartAfter
<1>7. UNCHANGED <<owner, delegateOf, house, proposals, block, selfSent>>  BY DEF SetParams
<1>8. params'[block'] = p
  <2>1. params \in Seq(ParamSets) /\ block \in DOMAIN params  BY DEF ChainTyped
  <2>2. params' = [params EXCEPT ![block] = p]  BY DEF SetParams
  <2> QED  BY <1>7, <2>1, <2>2
<1>9. GovernorFollows'
  <2>1. store'.governance.totalTokenHolders = store.governance.totalTokenHolders
    BY <1>2, <1>5 DEF GovernorOnly
  <2> QED  BY <1>2, <1>5, <1>6, <1>7, <1>8, <2>1 DEF Follows, GovernorFollows
<1> QED  BY <1>2, <1>5, <1>7, <1>9, GovernorStep DEF Follows

LEMMA NextBlockFollows ==
    ASSUME ChainTyped, Follows, NextBlock
    PROVE  Follows'
<1>1. /\ block' = block + 1 /\ params' = Append(params, params[block])
      /\ UNCHANGED <<owner, delegateOf, house, proposals, txs, selfSent, store>>
  BY DEF NextBlock
<1>2. params'[block'] = params[block]
  <2>1. params \in Seq(ParamSets) /\ Len(params) = block /\ block \in Nat  BY DEF ChainTyped
  <2> QED  BY <1>1, <2>1
<1>3. IsStore(store)' /\ AuctionsFollow' /\ VotesFollow' /\ HoldersFollow'
  BY <1>1 DEF Follows, AuctionsFollow, AuctionMirrored, VotesFollow, HoldersFollow, Alps
<1>4. GovernorFollows'  BY <1>1, <1>2 DEF Follows, GovernorFollows
<1> QED  BY <1>3, <1>4 DEF Follows

-----------------------------------------------------------------------------
(* The invariant.                                                          *)

LEMMA FollowsInit ==
    ASSUME Init
    PROVE  Follows
<1>1. PICK s : s = EmptyStore  OBVIOUS
<1>2. /\ DOMAIN s = Kinds /\ s.governance = EmptyGovernance /\ s.params = NewParams
      /\ s.accounts = << >> /\ s.delegates = << >> /\ s.alps = << >> /\ s.auctions = << >>
      /\ s.proposals = << >>
  BY <1>1 DEF EmptyStore, Kinds
<1>3. IsStore(s)
  <2>1. IsGovernance(s.governance)  BY <1>2 DEF EmptyGovernance, IsGovernance, Counters
  <2>2. DOMAIN s.params = ParamFields  BY <1>2 DEF NewParams, ParamFields
  <2>3. DOMAIN s.accounts = {} /\ DOMAIN s.delegates = {}  BY <1>2
  <2> QED  BY <1>2, <2>1, <2>2, <2>3 DEF IsStore
<1>4. PICK t : t = Handled(s, ParamEvents(FirstParams, 0))  OBVIOUS
<1>5. store = t  BY <1>1, <1>4 DEF Init, Handled
<1>6. 0 # None  BY NoneAssumption
<1>7. /\ GovernorOnly(s, t) /\ t.proposals = s.proposals
      /\ t.params.min = FirstParams.min /\ t.params.max = FirstParams.max
      /\ t.params.coefficient = FirstParams.coefficient
      /\ t.params.start = StartAfter(s.params.start, 0)
  BY <1>3, <1>4, <1>6, ParamsSaved
<1>8. t.params.start = 0  BY <1>2, <1>7 DEF StartAfter, NewParams
<1>9. DOMAIN owner = {} /\ DOMAIN proposals = {}  BY DEF Init
<1>10. Living(owner) = {} /\ Cardinality(Living(owner)) = 0
  BY <1>9, FS_EmptySet DEF Living
<1>11. s.governance.totalTokenHolders = 0 /\ s.governance.delegatedVotes = 0
       /\ s.governance.currentDelegates = 0
  BY <1>2 DEF EmptyGovernance
<1>12. AuctionsFollow
  <2>1. t.auctions = << >> /\ t.alps = << >>  BY <1>2, <1>7 DEF GovernorOnly, SameAuctions
  <2>2. house.alp = 0  BY DEF Init, NoAuction
  <2>3. DOMAIN store.auctions = {} /\ DOMAIN store.alps = {} /\ Alps = {}
    BY <1>5, <1>9, <2>1 DEF Alps
  <2> QED  BY <2>2, <2>3 DEF AuctionsFollow, AuctionMirrored
<1>13. GovernorFollows
  <2>1. DOMAIN store.proposals = {}  BY <1>2, <1>5, <1>7
  <2>2. params[block] = FirstParams  BY DEF Init
  <2>3. store.governance.totalTokenHolders = Cardinality(Living(owner))
    BY <1>5, <1>7, <1>10, <1>11 DEF GovernorOnly
  <2> QED  BY <1>5, <1>7, <1>8, <1>9, <2>1, <2>2, <2>3 DEF GovernorFollows
<1>14. VotesFollow
  <2>1. PICK w : w = VotesOf(owner, delegateOf)  OBVIOUS
  <2>2. \A a : Represented(owner, delegateOf, a) = {}  BY <1>9 DEF Represented
  <2>3. \A a \in Accounts : w[a] = 0  BY <2>1, <2>2, FS_EmptySet DEF VotesOf
  <2>4. Voters(w) = {}  BY <2>3 DEF Voters
  <2>5. DOMAIN s.delegates = {}  BY <1>2
  <2>6. \A a : Counted(s, a) = 0  BY <2>5 DEF Counted
  <2>7. VotesMatch(t, w, 0)
    BY <1>7, <1>11, <2>3, <2>4, <2>6, FS_EmptySet DEF VotesMatch, GovernorOnly, SameVotes
  <2> QED  BY <1>5, <1>10, <2>1, <2>7 DEF VotesFollow
<1>15. HoldersFollow
  <2>1. DOMAIN s.accounts = {}  BY <1>2
  <2>2. \A a : AccountOf(s, a) = NewAccount  BY <2>1 DEF AccountOf
  <2>3. IsList(<< >>, {}) /\ Len(<< >>) = 0  BY DEF IsList, Distinct, Members
  <2>4. Holds(NewAccount, {})  BY <2>3 DEF Holds, NewAccount
  <2>5. \A a : Owned(owner, a) = {}  BY <1>9 DEF Owned
  <2>6. HoldersMatch(s, owner, selfSent)  BY <2>2, <2>4, <2>5 DEF HoldersMatch
  <2>7. HoldersMatch(t, owner, selfSent)  BY <1>7, <2>6, SameHoldersMatch DEF GovernorOnly
  <2> QED  BY <1>5, <2>7 DEF HoldersFollow
<1> QED  BY <1>5, <1>7, <1>12, <1>13, <1>14, <1>15 DEF Follows, GovernorOnly

LEMMA FollowsNext ==
    ASSUME ChainTyped, Follows, [Next]_vars
    PROVE  Follows'
<1>1. CASE MintReward  BY <1>1, MintRewardFollows
<1>2. CASE CreateAuction  BY <1>2, CreateAuctionFollows
<1>3. ASSUME NEW bidder \in Holders, Bid(bidder) PROVE Follows'
  BY <1>3, BidFollows
<1>4. CASE Settle  BY <1>4, SettleFollows
<1>5. ASSUME NEW t \in Alps, NEW to \in Holders, Transfer(t, to) PROVE Follows'
  <2>1. PICK from : from = owner[t]  OBVIOUS
  <2>2. from \in Accounts /\ to \in Accounts \cup {Zero}
    BY <1>5, <2>1, AccountsFinite DEF Transfer
  <2>3. /\ owner' = [owner EXCEPT ![t] = to] /\ Indexed(TransferEvents(from, to, t))
        /\ selfSent' = Senders(selfSent, from, to)
        /\ UNCHANGED <<delegateOf, house, proposals, params, block>>
    BY <1>5, <2>1 DEF Transfer, Senders
  <2> QED  BY <2>1, <2>2, <2>3, TransferFollows
<1>6. ASSUME NEW t \in Alps, Burn(t) PROVE Follows'
  <2>1. PICK from : from = owner[t]  OBVIOUS
  <2>2. PICK to : to = Zero  OBVIOUS
  <2>3. from \in Accounts /\ to \in Accounts \cup {Zero}
    BY <1>6, <2>1, <2>2, AccountsFinite DEF Burn
  <2>4. /\ owner' = [owner EXCEPT ![t] = to] /\ Indexed(TransferEvents(from, to, t))
        /\ UNCHANGED <<delegateOf, house, proposals, params, block>>
    BY <1>6, <2>1, <2>2 DEF Burn
  <2>5. to # from  BY <1>6, <2>1, <2>2, AccountsAssumption, AccountsFinite DEF Burn
  <2>6. selfSent' = Senders(selfSent, from, to)
    BY <1>6, <2>5 DEF Burn, Senders
  <2> QED  BY <2>1, <2>3, <2>4, <2>6, TransferFollows
<1>7. ASSUME NEW a \in Holders, NEW d \in Holders, Delegate(a, d) PROVE Follows'
  BY <1>7, DelegateFollows
<1>8. ASSUME NEW proposer \in Holders, Propose(proposer) PROVE Follows'
  BY <1>8, ProposeFollows
<1>9. ASSUME NEW i \in DOMAIN proposals, NEW voter \in Holders, NEW support \in 0..2,
             CastVote(i, voter, support)
      PROVE  Follows'
  BY <1>9, CastVoteFollows
<1>10. ASSUME NEW i \in DOMAIN proposals, Queue(i) \/ Execute(i) \/ Cancel(i) \/ Veto(i)
       PROVE  Follows'
  BY <1>10, QueueFollows, ExecuteFollows, CancelFollows, VetoFollows
<1>11. ASSUME NEW p \in ParamSets, SetParams(p) PROVE Follows'
  BY <1>11, SetParamsFollows
<1>12. CASE NextBlock  BY <1>12, NextBlockFollows
<1>13. CASE UNCHANGED vars
  BY <1>13 DEF vars, Follows, IsStore, AuctionsFollow, AuctionMirrored, GovernorFollows, VotesFollow,
     HoldersFollow, Alps
<1> QED
  BY <1>1, <1>2, <1>3, <1>4, <1>5, <1>6, <1>7, <1>8, <1>9, <1>10, <1>11, <1>12, <1>13 DEF Next

\* What the handlers keep true of the store and the contracts: the shapes of the
\* entities, the owner of every Alp, the auction of the house, and for every proposal
\* and delegate what its entity says.
THEOREM SubgraphFollows == Spec => []SubgraphInv
<1>1. Init => SubgraphInv  BY ChainInit, FollowsInit DEF SubgraphInv
<1>2. SubgraphInv /\ [Next]_vars => SubgraphInv'  BY ChainNext, FollowsNext DEF SubgraphInv
<1> QED  BY <1>1, <1>2, PTL DEF Spec

\* auction.ts: the auction entity of the Alp on auction is the house's auction after
\* any bids, extensions and settlements, and no other entity is left unsettled.
THEOREM AuctionAlwaysMirrored == Spec => []AuctionMirrored
<1>1. SubgraphInv => AuctionMirrored  BY DEF SubgraphInv, Follows, AuctionsFollow
<1> QED  BY <1>1, SubgraphFollows, PTL

\* alps-dao.ts: whatever the order of queue(), execute(), cancel() and veto(), the
\* status shown says executed exactly when it is, and queued only while it can be executed.
THEOREM ProposalsAlwaysMirrored == Spec => []ProposalsMirrored
<1>1. SubgraphInv => ProposalsMirrored
  BY DEF SubgraphInv, Follows, GovernorFollows, ProposalFollows, ProposalsMirrored
<1> QED  BY <1>1, SubgraphFollows, PTL

\* alps-dao.ts and utils/dynamicQuorum.ts: the supply and the votes of a proposal are the
\* governor's, and so is the quorum handleVoteCast computes, as long as the parameters
\* did not change again in the block of the proposal.
THEOREM QuorumAlwaysMirrored == Spec => []QuorumMirrored
<1>1. SubgraphInv => QuorumMirrored
  BY DEF SubgraphInv, Follows, GovernorFollows, ProposalFollows, QuorumMirrored, QuorumVotes
<1> QED  BY <1>1, SubgraphFollows, PTL

\* alps-erc-721.ts: the votes of every delegate, their sum and the number of delegates
\* with any are the chain's, through mints, transfers, burns, auctions and delegations.
THEOREM VotesAlwaysMirrored == Spec => []VotesMirrored
<1>1. SubgraphInv => VotesMirrored
  <2> SUFFICES ASSUME SubgraphInv PROVE VotesMirrored  OBVIOUS
  <2>1. PICK w : w = VotesOf(owner, delegateOf)  OBVIOUS
  <2>2. owner \in Seq(Accounts \cup {Zero})  BY DEF SubgraphInv, ChainTyped
  <2>3. Supply = Cardinality(Living(owner)) /\ \A a \in Accounts : w[a] = Votes(a)
    BY <2>1, <2>2, VotesAreCounted
  <2>4. VotesMatch(store, w, Supply)  BY <2>1, <2>3 DEF SubgraphInv, Follows, VotesFollow
  <2>5. Voters(w) = {a \in Accounts : Votes(a) > 0}  BY <2>3 DEF Voters
  <2> QED  BY <2>3, <2>4, <2>5 DEF VotesMatch, VotesMirrored, Counted
<1> QED  BY <1>1, SubgraphFollows, PTL

\* alps-erc-721.ts, handleTransfer: the owner of every Alp in the store is its owner, and
\* the list and the balance of every account that never sent an Alp to itself are its
\* Alps, through the two logs of a mint, resales, auctions and burns.
THEOREM HoldersAlwaysMirrored == Spec => []HoldersMirrored
<1>1. SubgraphInv => HoldersMirrored
  <2> SUFFICES ASSUME SubgraphInv PROVE HoldersMirrored  OBVIOUS
  <2>1. AuctionsFollow /\ HoldersFollow  BY DEF SubgraphInv, Follows
  <2>2. ASSUME NEW a \in (DOMAIN store.accounts \cap Accounts) \ selfSent
        PROVE  /\ Members(store.accounts[a].alps) = AlpsOf(a)
               /\ store.accounts[a].balance = Cardinality(AlpsOf(a))
               /\ Len(store.accounts[a].alps) = store.accounts[a].balance
    <3>1. PICK c : c = store.accounts[a]  OBVIOUS
    <3>2. PICK S : S = AlpsOf(a)  OBVIOUS
    <3>3. Owned(owner, a) = S  BY <3>2 DEF Owned, AlpsOf, Alps
    <3>4. Holds(c, S)  BY <2>1, <3>1, <3>3 DEF HoldersFollow, HoldersMatch, AccountOf
    <3>5. IsList(c.alps, S) /\ c.balance = Len(c.alps)  BY <3>4 DEF Holds
    <3>6. Cardinality(S) = Len(c.alps)  BY <3>5, ListSize
    <3> QED  BY <3>1, <3>2, <3>5, <3>6 DEF IsList
  <2> QED  BY <2>1, <2>2 DEF AuctionsFollow, HoldersMirrored
<1> QED  BY <1>1, SubgraphFollows, PTL
=============================================================================
