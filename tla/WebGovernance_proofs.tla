------------------------ MODULE WebGovernance_proofs ------------------------
(***************************************************************************)
(* Proofs about the governance pages of nouns-webapp, for any accounts,    *)
(* proposals, ABIs, ranges of logs and bounds: what a call of a proposal   *)
(* carries, what the event logs hold, what a success means, and that the   *)
(* pages show the chain as it is.                                          *)
(***************************************************************************)
EXTENDS WebGovernance, SequenceTheorems, FiniteSetTheorems, WellFoundedInduction, TLAPS

-----------------------------------------------------------------------------
(* The states of the pages.                                                *)

\* The page is open.
Opened ==
    /\ page = "vote" => ui \in VoteUI
    /\ page \in {"list", "offline"} => ui \in ListUI
    /\ page \in {"create", "form"} => ui \in CreateUI
    /\ page = "delegate" => ui \in DelegateUI

\* Transactions are started, ABIs searched and names looked up from an open page only.
PageInv ==
    /\ Opened \/ (ui = None /\ deeds = <<>>)
    /\ \A q \in asked : /\ q[1] = "abi" => page = "form" /\ Opened
                        /\ q[1] = "name" => page = "delegate" /\ Opened

\* The transactions a page starts, and what they carry.
CallsOf(p) ==
    CASE p = "vote"     -> {"castVote", "castVoteWithReason", "queue", "execute"}
      [] p = "create"   -> {"propose"}
      [] p = "delegate" -> {"delegate"}
      [] OTHER          -> {}
ArgsOf(p) ==
    CASE p = "vote"   -> Supports \cup {None}
      [] p = "create" -> Seq(MatchingCalls)
      [] OTHER        -> Texts
DeedsOf(p) ==
    [call : CallsOf(p), arg : ArgsOf(p), who : Mine \cup {None},
     stage : {"sign", "mining", "mined", "done"}, replaced : {"no", "repriced", "other"},
     ok : BOOLEAN]

ChainTyped ==
    /\ block \in Nat
    /\ gov \in [votes : [Accounts -> Supports \cup {None}], eta : Nat \cup {None},
                canceled : BOOLEAN, vetoed : BOOLEAN, executed : BOOLEAN,
                status : {"Pending", "Active", "Queued", "Executed", "Cancelled", "Vetoed"}]

TabTyped ==
    /\ page \in Pages
    /\ account \in Mine \cup {None}
    /\ status \in [Calls -> {"None", "PendingSignature", "Mining", "Success", "Fail", "Exception"}]
    /\ deeds \in Seq(DeedsOf(page))

-----------------------------------------------------------------------------
(* The transactions.                                                       *)

VoteCalls == {"castVote", "castVoteWithReason"}

\* What a transaction has done on the chain.
DoneBy(e) ==
    CASE e.call \in VoteCalls -> gov.votes[e.who] = e.arg
      [] e.call = "queue"     -> gov.eta # None
      [] e.call = "execute"   -> gov.executed
      [] OTHER                -> e.ok

\* A transaction that went through has done its work and keeps it done: an account votes
\* once, and what is queued or executed stays so. One that is not mined has done nothing.
DeedInv(e) ==
    /\ e.call \in VoteCalls => e.arg \in Supports
    /\ e.stage = "mining" => e.who \in Mine
    /\ e.stage \in {"sign", "mining"} => ~e.ok
    /\ e.ok /\ e.replaced # "other" => DoneBy(e)
DeedsInv == \A d \in DOMAIN deeds : DeedInv(deeds[d])

\* A transaction of one of these calls went through, and not another one in its place.
WentThrough(calls) ==
    \E d \in DOMAIN deeds : deeds[d].call \in calls /\ deeds[d].ok /\ deeds[d].replaced # "other"

\* What the page says.
ToldInv ==
    /\ \A call \in Calls : status[call] = "Success" => WentThrough({call})
    /\ Opened /\ page = "vote" /\ ui.voted => WentThrough(VoteCalls)
    /\ Opened /\ page = "delegate" /\ ui.state = "success" => WentThrough({"delegate"})

-----------------------------------------------------------------------------
(* The event logs.                                                         *)

\* The results there are hold every log up to their block.
LogsInv ==
    /\ DOMAIN got = Hooks
    /\ got["block"] \in Nat \cup {None}
    /\ logs \in [listeners : Nat, block : Nat, fetching : Nat,
                 results : {None} \cup [block : Nat, logs : {None} \cup SUBSET LogBlocks]]
    /\ logs.results = None \/ logs.results.logs = None
       \/ \A b \in LogBlocks : b <= logs.results.block => b \in logs.results.logs

WebInv == ChainTyped /\ TabTyped /\ PageInv /\ DeedsInv /\ ToldInv /\ LogsInv

-----------------------------------------------------------------------------
(* The chain.                                                              *)

LEMMA NextBlock ==
    ASSUME block \in Nat
    PROVE  next \in Nat
BY NumbersAssumption DEF next

\* Nothing is neither a number nor a vote.
LEMMA NoneIsNone == None \notin Nat /\ None \notin Supports
<1>1. None \notin Int  BY NoneAssumption
<1>2. \A n \in Nat : n \in Int  OBVIOUS
<1>3. \A s \in Supports : s \in 0..2  BY NumbersAssumption
<1>4. \A s \in 0..2 : s \in Int  OBVIOUS
<1> QED  BY <1>1, <1>2, <1>3, <1>4

\* A transaction the chain takes undoes no vote, queueing or execution, and does its own work.
LEMMA EffectKeeps ==
    ASSUME NEW call, NEW who, NEW arg, ChainTyped, Accepts(call, who, arg), Effect(call, who, arg),
           call \in VoteCalls => who \in Accounts /\ arg \in Supports
    PROVE  /\ ChainTyped'
           /\ \A e : (e.call \in VoteCalls => e.arg \in Supports) /\ DoneBy(e) => DoneBy(e)'
           /\ call \in VoteCalls => gov'.votes[who] = arg
           /\ call = "queue" => gov'.eta # None
           /\ call = "execute" => gov'.executed
<1>1. next \in Nat /\ next + Delay \in Nat  BY NextBlock, NumbersAssumption DEF ChainTyped
<1>2. block' \in Nat  BY <1>1 DEF Effect
<1>3. None \notin Supports  BY NoneIsNone
<1>4. CASE call \in VoteCalls
  <2>1. gov.votes[who] = None  BY <1>4 DEF Accepts, VoteCalls
  <2>2. gov' = [gov EXCEPT !.votes[who] = arg, !.status = IF @ = "Pending" THEN "Active" ELSE @]
    BY <1>4 DEF Effect, VoteCalls
  <2>3. ChainTyped'  BY <1>2, <1>4, <2>2 DEF ChainTyped
  <2>4. /\ gov'.votes[who] = arg /\ gov'.eta = gov.eta /\ gov'.executed = gov.executed
        /\ \A a : a # who => gov'.votes[a] = gov.votes[a]
    BY <1>4, <2>2 DEF ChainTyped
  <2>5. \A e : (e.call \in VoteCalls => e.arg \in Supports) /\ DoneBy(e) => DoneBy(e)'
    BY <1>3, <2>1, <2>4 DEF DoneBy
  <2> QED  BY <1>4, <2>3, <2>4, <2>5 DEF VoteCalls
<1>5. CASE call = "queue"
  <2>1. gov' = [gov EXCEPT !.eta = next + Delay, !.status = "Queued"]  BY <1>5 DEF Effect
  <2>2. ChainTyped' /\ gov'.eta # None /\ gov'.votes = gov.votes /\ gov'.executed = gov.executed
    BY <1>1, <1>2, <2>1, NoneIsNone DEF ChainTyped
  <2> QED  BY <1>5, <2>2 DEF DoneBy, VoteCalls
<1>6. CASE call = "execute"
  <2>1. gov' = [gov EXCEPT !.executed = TRUE, !.status = "Executed"]  BY <1>6 DEF Effect
  <2>2. ChainTyped' /\ gov'.eta = gov.eta /\ gov'.votes = gov.votes /\ gov'.executed
    BY <1>1, <1>2, <2>1 DEF ChainTyped
  <2> QED  BY <1>6, <2>2 DEF DoneBy, VoteCalls
<1>7. CASE call \notin VoteCalls \cup {"queue", "execute"}
  <2>1. \/ gov' = [gov EXCEPT !.canceled = TRUE, !.status = "Cancelled"]
        \/ gov' = [gov EXCEPT !.vetoed = TRUE, !.status = "Vetoed"]
        \/ gov' = gov
    BY <1>7 DEF Effect, VoteCalls
  <2>2. ChainTyped' /\ gov'.eta = gov.eta /\ gov'.votes = gov.votes /\ gov'.executed = gov.executed
    BY <1>1, <1>2, <2>1 DEF ChainTyped
  <2> QED  BY <1>7, <2>2 DEF DoneBy, VoteCalls
<1> QED  BY <1>4, <1>5, <1>6, <1>7

LEMMA AcceptsBoolean ==
    ASSUME NEW call, NEW who, NEW arg
    PROVE  Accepts(call, who, arg) \in BOOLEAN
BY DEF Accepts

-----------------------------------------------------------------------------
(* Transactions that stay done.                                            *)

\* The transactions that went through are kept.
Kept == \A d \in DOMAIN deeds : deeds[d].ok /\ deeds[d].replaced # "other" =>
            /\ d \in DOMAIN deeds'
            /\ deeds'[d].call = deeds[d].call /\ deeds'[d].ok /\ deeds'[d].replaced # "other"

LEMMA WentThroughStays ==
    ASSUME Kept, NEW calls, WentThrough(calls)
    PROVE  WentThrough(calls)'
BY DEF Kept, WentThrough

\* The page says nothing new.
Still ==
    /\ page' = page
    /\ Opened' /\ page = "vote" /\ ui'.voted => Opened /\ ui.voted
    /\ Opened' /\ page = "delegate" /\ ui'.state = "success" => Opened /\ ui.state = "success"

-----------------------------------------------------------------------------
(* Steps of the chain, of the answers and of the windows.                  *)

\* Whatever others do on the chain.
LEMMA ChainMoves ==
    ASSUME WebInv, ChainTyped',
           \A e : (e.call \in VoteCalls => e.arg \in Supports) /\ DoneBy(e) => DoneBy(e)',
           UNCHANGED <<page, account, asked, got, logs, ui, status, deeds>>
    PROVE  WebInv'
<1> USE DEF WebInv
<1>1. TabTyped' /\ LogsInv'  BY DEF TabTyped, LogsInv
<1>2. PageInv'  BY DEF PageInv, Opened
<1>3. DeedsInv'
  <2> SUFFICES ASSUME NEW d \in DOMAIN deeds PROVE DeedInv(deeds[d])'
    BY DEF DeedsInv
  <2> PICK e : e = deeds[d]  OBVIOUS
  <2>1. DeedInv(e) /\ deeds'[d] = e  BY DEF DeedsInv
  <2>2. DoneBy(e) => DoneBy(e)'  BY <2>1 DEF DeedInv
  <2> QED  BY <2>1, <2>2 DEF DeedInv
<1>4. ToldInv'
  <2>1. \A calls : WentThrough(calls) => WentThrough(calls)'  BY DEF WentThrough
  <2>2. Opened' <=> Opened  BY DEF Opened
  <2> QED  BY <2>1, <2>2 DEF ToldInv
<1> QED  BY <1>1, <1>2, <1>3, <1>4

\* The tab goes on while the chain stands still.
LEMMA TabMoves ==
    ASSUME WebInv, UNCHANGED chain, Still, Kept, TabTyped', PageInv', LogsInv', DeedsInv',
           \A call \in Calls : status'[call] = "Success" => status[call] = "Success"
    PROVE  WebInv'
<1>1. ChainTyped'  BY DEF WebInv, ChainTyped, chain
<1>2. ToldInv'
  <2>1. \A calls : WentThrough(calls) => WentThrough(calls)'  BY WentThroughStays
  <2>2. ToldInv  BY DEF WebInv
  <2> QED  BY <2>1, <2>2 DEF ToldInv, Still
<1> QED  BY <1>1, <1>2 DEF WebInv

LEMMA SameDeeds ==
    ASSUME WebInv, UNCHANGED <<chain, deeds>>
    PROVE  Kept /\ DeedsInv'
<1>1. Kept  BY DEF Kept
<1>2. ASSUME NEW d \in DOMAIN deeds PROVE DeedInv(deeds[d])'
  BY DEF WebInv, DeedsInv, DeedInv, DoneBy, chain
<1> QED  BY <1>1, <1>2 DEF DeedsInv

\* An answer, or another account.
LEMMA AnswerMoves ==
    ASSUME WebInv, UNCHANGED <<chain, page, ui, status, deeds>>, account' \in Mine \cup {None}, LogsInv',
           \A q \in asked' : q \in asked \/ q[1] \notin {"abi", "name"}
    PROVE  WebInv'
<1>1. TabTyped'  BY DEF WebInv, TabTyped
<1>2. Opened' <=> Opened  BY DEF Opened
<1>3. Still  BY <1>2 DEF Still
<1>4. PageInv'  BY <1>2 DEF WebInv, PageInv
<1> QED  BY <1>1, <1>3, <1>4, SameDeeds, TabMoves

\* What the user does in the page, short of a transaction.
LEMMA WindowMoves ==
    ASSUME WebInv, UNCHANGED <<chain, page, account, got, logs, status, deeds>>, Opened', Still,
           \A q \in asked' : q \in asked \/ /\ q[1] = "abi" => page = "form"
                                            /\ q[1] = "name" => page = "delegate"
    PROVE  WebInv' /\ Opened'
<1>1. TabTyped'  BY DEF WebInv, TabTyped
<1>2. LogsInv'  BY DEF WebInv, LogsInv
<1>3. PageInv'  BY DEF WebInv, PageInv
<1> QED  BY <1>1, <1>2, <1>3, SameDeeds, TabMoves

-----------------------------------------------------------------------------
(* Steps of the transactions.                                              *)

\* The calls and their arguments are those of the page.
LEMMA CallsOfPages ==
    ASSUME page \in Pages
    PROVE  /\ CallsOf(page) \subseteq Calls
           /\ CallsOf(page) = CASE page = "vote"     -> VoteCalls \cup {"queue", "execute"}
                                [] page = "create"   -> {"propose"}
                                [] page = "delegate" -> {"delegate"}
                                [] OTHER             -> {}
BY PagesAssumption DEF CallsOf, Calls, VoteCalls

\* A transaction is started.
LEMMA DeedMoves ==
    ASSUME WebInv, NEW call, NEW arg, Deed(call, arg), UNCHANGED <<chain, page, account, got, logs, asked>>,
           call \in CallsOf(page), arg \in ArgsOf(page), call \in VoteCalls => arg \in Supports,
           Opened', Still
    PROVE  WebInv' /\ Opened'
<1> DEFINE e == [call |-> call, arg |-> arg, who |-> account, stage |-> "sign",
                 replaced |-> "no", ok |-> FALSE]
<1>1. deeds \in Seq(DeedsOf(page)) /\ account \in Mine \cup {None}  BY DEF WebInv, TabTyped
<1>2. deeds' = Append(deeds, e)  BY DEF Deed
<1>3. e \in DeedsOf(page)  BY <1>1 DEF DeedsOf
<1>4. DeedInv(e)'  BY DEF DeedInv
<1> HIDE DEF e
<1>5. /\ deeds' \in Seq(DeedsOf(page))
      /\ \A d \in DOMAIN deeds : d \in DOMAIN deeds' /\ deeds'[d] = deeds[d]
      /\ \A d \in DOMAIN deeds' : d \in DOMAIN deeds \/ deeds'[d] = e
  BY <1>1, <1>2, <1>3
<1>6. Kept  BY <1>5 DEF Kept
<1>7. DeedsInv'
  <2>1. ASSUME NEW d \in DOMAIN deeds PROVE DeedInv(deeds[d])'
    BY <1>5 DEF WebInv, DeedsInv, DeedInv, DoneBy, chain
  <2>2. ASSUME NEW d \in DOMAIN deeds', d \notin DOMAIN deeds PROVE DeedInv(deeds[d])'
    <3>1. deeds'[d] = e  BY <1>5, <2>2
    <3>2. /\ deeds'[d].stage = "sign" /\ deeds'[d].call = call /\ deeds'[d].arg = arg
          /\ deeds'[d].ok = FALSE
      BY <3>1 DEF e
    <3> QED  BY <3>2 DEF DeedInv
  <2> QED  BY <2>1, <2>2 DEF DeedsInv
<1>8. /\ status' \in [Calls -> {"None", "PendingSignature", "Mining", "Success", "Fail", "Exception"}]
      /\ \A c \in Calls : status'[c] = "Success" => status[c] = "Success"
  BY CallsOfPages DEF Deed, WebInv, TabTyped
<1>9. TabTyped' /\ LogsInv'
  BY <1>5, <1>8 DEF WebInv, TabTyped, LogsInv
<1>10. PageInv'  BY DEF WebInv, PageInv
<1> QED  BY <1>6, <1>7, <1>8, <1>9, <1>10, TabMoves

\* A page is told how a transaction fares.
LEMMA StatusSet ==
    ASSUME TabTyped, Opened, page' = page, NEW call \in CallsOf(page),
           NEW s \in {"Mining", "Success", "Fail", "Exception"}, SetStatus(call, s)
    PROVE  /\ Opened'
           /\ status' \in [Calls -> {"None", "PendingSignature", "Mining", "Success", "Fail", "Exception"}]
           /\ \A c \in Calls : status'[c] = "Success" => status[c] = "Success" \/ (c = call /\ s = "Success")
           /\ page = "vote" /\ ui'.voted => ui.voted \/ (call \in VoteCalls /\ s = "Success")
           /\ page = "delegate" /\ ui'.state = "success" => call = "delegate" /\ s = "Success"
<1>1. page \in Pages /\ CallsOf(page) \subseteq Calls  BY CallsOfPages DEF TabTyped
<1>2. /\ status' \in [Calls -> {"None", "PendingSignature", "Mining", "Success", "Fail", "Exception"}]
      /\ \A c \in Calls : status'[c] = "Success" => status[c] = "Success" \/ (c = call /\ s = "Success")
  BY <1>1 DEF SetStatus, TabTyped
<1>3. CASE page = "vote"
  <2>1. ui \in VoteUI  BY <1>3 DEF Opened
  <2>2. CASE call \in VoteCalls
    <3>1. ui' = handleVoteStateChange(ui, s)  BY <2>2 DEF SetStatus, VoteCalls
    <3>2. ui' \in VoteUI /\ (ui'.voted => ui.voted \/ s = "Success")
      BY <2>1, <3>1 DEF handleVoteStateChange, VoteUI
    <3> QED  BY <1>2, <1>3, <2>2, <3>2 DEF Opened
  <2>3. CASE call \in {"queue", "execute"}
    <3>1. ui' = onTransactionStateChange(ui, call, s)  BY <2>3 DEF SetStatus
    <3>2. ui' \in VoteUI /\ ui'.voted = ui.voted
      BY <2>1, <2>3, <3>1 DEF onTransactionStateChange, VoteUI
    <3> QED  BY <1>2, <1>3, <3>2 DEF Opened
  <2> QED  BY <1>1, <1>3, <2>2, <2>3, CallsOfPages
<1>4. CASE page = "create"
  <2>1. ui \in CreateUI /\ call = "propose"  BY <1>1, <1>4, CallsOfPages DEF Opened
  <2>2. ui' = ProposeEffect(ui, s)  BY <2>1 DEF SetStatus
  <2>3. ui' \in CreateUI
    BY <2>1, <2>2 DEF ProposeEffect, CreateUI
  <2> QED  BY <1>2, <1>4, <2>3 DEF Opened
<1>5. CASE page = "delegate"
  <2>1. ui \in DelegateUI /\ call = "delegate"  BY <1>1, <1>5, CallsOfPages DEF Opened
  <2>2. ui' = DelegateEffect(ui, s)  BY <2>1 DEF SetStatus
  <2>3. ui' \in DelegateUI /\ (ui'.state = "success" => s = "Success")
    BY <2>1, <2>2 DEF DelegateEffect, DelegateUI
  <2> QED  BY <1>2, <1>5, <2>1, <2>3 DEF Opened
<1> QED  BY <1>1, <1>3, <1>4, <1>5, CallsOfPages

\* What has become of a transaction.
LEMMA DeedFares ==
    ASSUME WebInv, NEW d \in DOMAIN deeds, NEW e \in DeedsOf(page), deeds' = [deeds EXCEPT ![d] = e],
           e.call = deeds[d].call,
           deeds[d].ok /\ deeds[d].replaced # "other" => e.ok /\ e.replaced # "other",
           ChainTyped', DeedInv(e)',
           \A x : (x.call \in VoteCalls => x.arg \in Supports) /\ DoneBy(x) => DoneBy(x)',
           UNCHANGED <<page, account, asked, got, logs>>, Opened',
           status' \in [Calls -> {"None", "PendingSignature", "Mining", "Success", "Fail", "Exception"}],
           \A c \in Calls : status'[c] = "Success" =>
               status[c] = "Success" \/ (c = e.call /\ e.ok /\ e.replaced # "other"),
           page = "vote" /\ ui'.voted =>
               ui.voted \/ (e.call \in VoteCalls /\ e.ok /\ e.replaced # "other"),
           page = "delegate" /\ ui'.state = "success" =>
               ui.state = "success" \/ (e.call = "delegate" /\ e.ok /\ e.replaced # "other")
    PROVE  WebInv' /\ Opened'
<1> USE DEF WebInv
<1>1. deeds \in Seq(DeedsOf(page))  BY DEF TabTyped
<1>2. /\ deeds' \in Seq(DeedsOf(page)) /\ DOMAIN deeds' = DOMAIN deeds /\ deeds'[d] = e
      /\ \A i \in DOMAIN deeds : i # d => deeds'[i] = deeds[i]
  BY <1>1
<1>3. Opened
  <2>1. deeds # <<>>  BY <1>1
  <2> QED  BY <2>1 DEF PageInv
<1>4. TabTyped' /\ LogsInv'  BY <1>2 DEF TabTyped, LogsInv
<1>5. PageInv'  BY DEF PageInv
<1>6. DeedsInv'
  <2> SUFFICES ASSUME NEW i \in DOMAIN deeds PROVE DeedInv(deeds[i])'
    BY <1>2 DEF DeedsInv
  <2>1. CASE i = d
    <3>1. deeds'[i] = e  BY <1>2, <2>1
    <3> QED  BY <3>1 DEF DeedInv
  <2>2. CASE i # d
    <3> PICK x : x = deeds[i]  OBVIOUS
    <3>1. DeedInv(x) /\ deeds'[i] = x  BY <1>2, <2>2 DEF DeedsInv
    <3>2. DoneBy(x) => DoneBy(x)'  BY <3>1 DEF DeedInv
    <3> QED  BY <3>1, <3>2 DEF DeedInv
  <2> QED  BY <2>1, <2>2
<1>7. ToldInv'
  <2>1. Kept  BY <1>2 DEF Kept
  <2>2. \A calls : WentThrough(calls) => WentThrough(calls)'  BY <2>1, WentThroughStays
  <2>3. ASSUME NEW calls, e.call \in calls, e.ok, e.replaced # "other" PROVE WentThrough(calls)'
    BY <1>2, <2>3 DEF WentThrough
  <2>4. ToldInv  OBVIOUS
  <2> QED  BY <1>3, <2>2, <2>3, <2>4 DEF ToldInv
<1> QED  BY <1>4, <1>5, <1>6, <1>7

\* The transaction an action is about.
LEMMA DeedAt ==
    ASSUME WebInv, NEW d, NEW stage, At(d, stage)
    PROVE  /\ d \in DOMAIN deeds /\ deeds[d] \in DeedsOf(page) /\ deeds[d].stage = stage
           /\ DeedInv(deeds[d]) /\ Opened /\ TabTyped /\ deeds[d].call \in CallsOf(page)
<1>1. deeds \in Seq(DeedsOf(page)) /\ d \in DOMAIN deeds /\ deeds[d].stage = stage
  BY DEF WebInv, TabTyped, At
<1>2. deeds # <<>> /\ deeds[d] \in DeedsOf(page)  BY <1>1
<1>3. Opened /\ TabTyped  BY <1>2 DEF WebInv, PageInv
<1> QED  BY <1>1, <1>2, <1>3 DEF WebInv, DeedsInv, DeedsOf

LEMMA SignedKeeps ==
    ASSUME WebInv, NEW d \in DOMAIN deeds, NEW who \in Mine, Signed(d, who)
    PROVE  WebInv' /\ Opened'
<1> PICK x : x = deeds[d]  OBVIOUS
<1> DEFINE e == [x EXCEPT !.stage = "mining", !.who = who]
<1>1. /\ x \in DeedsOf(page) /\ x.stage = "sign" /\ DeedInv(x) /\ Opened /\ TabTyped
      /\ x.call \in CallsOf(page)
  BY DeedAt DEF Signed
<1>2. deeds' = [deeds EXCEPT ![d] = e]  BY DEF Signed
<1>3. /\ e \in DeedsOf(page) /\ e.call = x.call /\ e.arg = x.arg /\ e.ok = x.ok
      /\ e.stage = "mining" /\ e.who = who
  BY <1>1 DEF DeedsOf
<1> HIDE DEF e
<1>4. UNCHANGED <<chain, page, account, asked, got, logs>> /\ SetStatus(x.call, "Mining")
  BY DEF Signed
<1>5. ~x.ok  BY <1>1 DEF DeedInv
<1>6. DeedInv(e)'  BY <1>1, <1>3, <1>5 DEF DeedInv
<1>7. ChainTyped' /\ \A y : DoneBy(y) => DoneBy(y)'
  BY <1>4 DEF WebInv, ChainTyped, DoneBy, chain
<1>8. /\ Opened'
      /\ status' \in [Calls -> {"None", "PendingSignature", "Mining", "Success", "Fail", "Exception"}]
      /\ \A c \in Calls : status'[c] = "Success" => status[c] = "Success"
      /\ page = "vote" /\ ui'.voted => ui.voted
      /\ page = "delegate" => ui'.state # "success"
  BY <1>1, <1>4, StatusSet
<1> QED  BY <1>2, <1>3, <1>4, <1>5, <1>6, <1>7, <1>8, DeedFares

LEMMA RejectedKeeps ==
    ASSUME WebInv, NEW d \in DOMAIN deeds, Rejected(d)
    PROVE  WebInv' /\ Opened'
<1> PICK x : x = deeds[d]  OBVIOUS
<1> DEFINE e == [x EXCEPT !.stage = "done"]
<1>1. /\ x \in DeedsOf(page) /\ x.stage = "sign" /\ DeedInv(x) /\ Opened /\ TabTyped
      /\ x.call \in CallsOf(page)
  BY DeedAt DEF Rejected
<1>2. deeds' = [deeds EXCEPT ![d] = e]  BY DEF Rejected
<1>3. /\ e \in DeedsOf(page) /\ e.call = x.call /\ e.arg = x.arg /\ e.ok = x.ok
      /\ e.stage = "done"
  BY <1>1 DEF DeedsOf
<1> HIDE DEF e
<1>4. UNCHANGED <<chain, page, account, asked, got, logs>> /\ SetStatus(x.call, "Exception")
  BY DEF Rejected
<1>5. ~x.ok  BY <1>1 DEF DeedInv
<1>6. DeedInv(e)'  BY <1>1, <1>3, <1>5 DEF DeedInv
<1>7. ChainTyped' /\ \A y : DoneBy(y) => DoneBy(y)'
  BY <1>4 DEF WebInv, ChainTyped, DoneBy, chain
<1>8. /\ Opened'
      /\ status' \in [Calls -> {"None", "PendingSignature", "Mining", "Success", "Fail", "Exception"}]
      /\ \A c \in Calls : status'[c] = "Success" => status[c] = "Success"
      /\ page = "vote" /\ ui'.voted => ui.voted
      /\ page = "delegate" => ui'.state # "success"
  BY <1>1, <1>4, StatusSet
<1> QED  BY <1>2, <1>3, <1>4, <1>5, <1>6, <1>7, <1>8, DeedFares

\* A success is told of a transaction that went through itself.
LEMMA ReceiptKeeps ==
    ASSUME WebInv, NEW d \in DOMAIN deeds, Receipt(d)
    PROVE  WebInv' /\ Opened'
<1> PICK x : x = deeds[d]  OBVIOUS
<1> PICK s : s = IF (x.replaced = "no" \/ isDroppedAndReplaced(x)) /\ x.ok THEN "Success" ELSE "Fail"
  OBVIOUS
<1> DEFINE e == [x EXCEPT !.stage = "done"]
<1>1. /\ x \in DeedsOf(page) /\ x.stage = "mined" /\ DeedInv(x) /\ Opened /\ TabTyped
      /\ x.call \in CallsOf(page)
  BY DeedAt DEF Receipt
<1>2. deeds' = [deeds EXCEPT ![d] = e]  BY DEF Receipt
<1>3. /\ e \in DeedsOf(page) /\ e.call = x.call /\ e.arg = x.arg /\ e.ok = x.ok /\ e.who = x.who
      /\ e.replaced = x.replaced /\ e.stage = "done"
  BY <1>1 DEF DeedsOf
<1> HIDE DEF e
<1>4. UNCHANGED <<chain, page, account, asked, got, logs>> /\ SetStatus(x.call, s)
  BY DEF Receipt
<1>5. s \in {"Success", "Fail"} /\ (s = "Success" => x.ok /\ x.replaced # "other")
  BY DEF isDroppedAndReplaced
<1>6. ChainTyped' /\ \A y : DoneBy(y) => DoneBy(y)'
  BY <1>4 DEF WebInv, ChainTyped, DoneBy, chain
<1>7. DeedInv(e)'
  <2>1. DoneBy(x) => DoneBy(e)'
    BY <1>3, <1>4 DEF DoneBy, chain
  <2> QED  BY <1>1, <1>3, <2>1 DEF DeedInv
<1>8. /\ Opened'
      /\ status' \in [Calls -> {"None", "PendingSignature", "Mining", "Success", "Fail", "Exception"}]
      /\ \A c \in Calls : status'[c] = "Success" => status[c] = "Success" \/ (c = x.call /\ s = "Success")
      /\ page = "vote" /\ ui'.voted => ui.voted \/ (x.call \in VoteCalls /\ s = "Success")
      /\ page = "delegate" /\ ui'.state = "success" => x.call = "delegate" /\ s = "Success"
  <2>1. s \in {"Mining", "Success", "Fail", "Exception"} /\ page' = page  BY <1>4, <1>5
  <2> QED  BY <1>1, <1>4, <2>1, StatusSet
<1> QED  BY <1>2, <1>3, <1>4, <1>5, <1>6, <1>7, <1>8, DeedFares

\* The chain runs a transaction, or another one in its place.
LEMMA MinedKeeps ==
    ASSUME WebInv, NEW d \in DOMAIN deeds, Mined(d)
    PROVE  WebInv'
<1> PICK x : x = deeds[d]  OBVIOUS
<1>1. /\ x \in DeedsOf(page) /\ x.stage = "mining" /\ DeedInv(x) /\ Opened /\ TabTyped
  BY DeedAt DEF Mined
<1>2. ~x.ok /\ x.who \in Mine /\ (x.call \in VoteCalls => x.arg \in Supports)
  BY <1>1 DEF DeedInv
<1>3. UNCHANGED <<page, account, asked, got, logs, ui, status>>  BY DEF Mined
<1>4. Opened' /\ status' = status  BY <1>1, <1>3 DEF Opened
<1>5. status' \in [Calls -> {"None", "PendingSignature", "Mining", "Success", "Fail", "Exception"}]
  BY <1>1, <1>4 DEF TabTyped
<1>6. ASSUME NEW replaced \in {"no", "repriced", "other"}, NEW ok \in BOOLEAN,
             deeds' = [deeds EXCEPT ![d].stage = "mined", ![d].replaced = replaced, ![d].ok = ok],
             IF ok /\ replaced # "other"
             THEN Accepts(x.call, x.who, x.arg) /\ Effect(x.call, x.who, x.arg)
             ELSE UNCHANGED chain
      PROVE  WebInv'
  <2> DEFINE e == [x EXCEPT !.stage = "mined", !.replaced = replaced, !.ok = ok]
  <2>1. deeds' = [deeds EXCEPT ![d] = e]  BY <1>6
  <2>2. /\ e \in DeedsOf(page) /\ e.call = x.call /\ e.arg = x.arg /\ e.who = x.who
        /\ e.stage = "mined" /\ e.ok = ok /\ e.replaced = replaced
    BY <1>1 DEF DeedsOf
  <2> HIDE DEF e
  <2>3. /\ ChainTyped'
        /\ \A y : (y.call \in VoteCalls => y.arg \in Supports) /\ DoneBy(y) => DoneBy(y)'
        /\ ok /\ replaced # "other" => DoneBy(e)'
    <3>1. CASE ok /\ replaced # "other"
      <4>1. Accepts(x.call, x.who, x.arg) /\ Effect(x.call, x.who, x.arg)  BY <1>6, <3>1
      <4>2. x.call \in VoteCalls => x.who \in Accounts /\ x.arg \in Supports
        BY <1>2 DEF Accounts
      <4>3. ChainTyped  BY DEF WebInv
      <4>4. /\ ChainTyped'
            /\ \A y : (y.call \in VoteCalls => y.arg \in Supports) /\ DoneBy(y) => DoneBy(y)'
            /\ x.call \in VoteCalls => gov'.votes[x.who] = x.arg
            /\ x.call = "queue" => gov'.eta # None
            /\ x.call = "execute" => gov'.executed
        BY <4>1, <4>2, <4>3, EffectKeeps
      <4>5. DoneBy(e)'  BY <2>2, <3>1, <4>4 DEF DoneBy
      <4> QED  BY <4>4, <4>5
    <3>2. CASE ~(ok /\ replaced # "other")
      <4>1. UNCHANGED chain  BY <1>6, <3>2
      <4> QED  BY <3>2, <4>1 DEF WebInv, ChainTyped, DoneBy, chain
    <3> QED  BY <3>1, <3>2
  <2>4. DeedInv(e)'  BY <1>2, <2>2, <2>3 DEF DeedInv
  <2> QED  BY <1>2, <1>3, <1>4, <1>5, <2>1, <2>2, <2>3, <2>4, DeedFares
<1>7. CASE \E replaced \in {"no", "repriced"} :
             LET deed == deeds[d]
                 ok == Accepts(deed.call, deed.who, deed.arg)
             IN /\ deeds' = [deeds EXCEPT ![d].stage = "mined", ![d].replaced = replaced,
                                          ![d].ok = ok]
                /\ IF ok THEN Effect(deed.call, deed.who, deed.arg) /\ Outdated
                   ELSE UNCHANGED <<chain, off>>
  <2> PICK ok : ok = Accepts(x.call, x.who, x.arg)  OBVIOUS
  <2>1. ok \in BOOLEAN  BY AcceptsBoolean
  <2>2. PICK replaced \in {"no", "repriced"} :
          /\ deeds' = [deeds EXCEPT ![d].stage = "mined", ![d].replaced = replaced, ![d].ok = ok]
          /\ IF ok THEN Effect(x.call, x.who, x.arg) ELSE UNCHANGED chain
    BY <1>7
  <2>3. IF ok /\ replaced # "other"
        THEN Accepts(x.call, x.who, x.arg) /\ Effect(x.call, x.who, x.arg)
        ELSE UNCHANGED chain
    BY <2>2
  <2> QED  BY <1>6, <2>1, <2>2, <2>3
<1>8. CASE /\ deeds' = [deeds EXCEPT ![d].stage = "mined", ![d].replaced = "other", ![d].ok = TRUE]
           /\ UNCHANGED <<chain, off>>
  BY <1>6, <1>8
<1> QED  BY <1>7, <1>8 DEF Mined

-----------------------------------------------------------------------------
(* The ranges of the event logs.                                           *)

LEMMA Division ==
    ASSUME NEW b \in Nat, NEW p \in Nat \ {0}
    PROVE  /\ b \div p \in Nat
           /\ (b \div p) * p <= b
           /\ b < ((b \div p) + 1) * p
<1>1. b \div p \in Nat /\ b % p \in 0..(p - 1)  OBVIOUS
<1>2. b = p * (b \div p) + (b % p)  OBVIOUS
<1> QED  BY <1>1, <1>2

LEMMA DivisionGrows ==
    ASSUME NEW b \in Nat, NEW n \in Nat, b <= n, NEW p \in Nat \ {0}
    PROVE  b \div p <= n \div p
<1> DEFINE q == b \div p
           r == n \div p
<1>1. q \in Nat /\ r \in Nat /\ q * p <= b /\ n < (r + 1) * p  BY Division
<1> HIDE DEF q, r
<1>2. SUFFICES ASSUME r + 1 <= q PROVE FALSE  BY <1>1 DEF q, r
<1>3. (r + 1) * p <= q * p
  <2>1. PICK k \in Nat : q = r + 1 + k  BY <1>1, <1>2
  <2>2. q * p = (r + 1) * p + k * p /\ k * p >= 0  BY <1>1, <2>1
  <2> QED  BY <1>1, <2>2
<1>4. q * p <= n  BY <1>1
<1> QED  BY <1>1, <1>3, <1>4

\* No block up to the last one is left out.
LEMMA RangesCover ==
    ASSUME NEW n \in Nat, NEW b \in Nat, b <= n
    PROVE  \E range \in fetchedRanges(n) : b \in range[1]..range[2]
<1> DEFINE Upto(i) == IF (i + 1) * PerCall < n THEN (i + 1) * PerCall ELSE n
<1>1. PerCall \in Nat \ {0}  BY NumbersAssumption
<1> PICK i : i = b \div PerCall  OBVIOUS
<1>2. /\ i \in 0..(n \div PerCall)
      /\ i * PerCall \in Nat /\ (i + 1) * PerCall \in Nat
      /\ i * PerCall <= b /\ b < (i + 1) * PerCall
  BY <1>1, Division, DivisionGrows
<1>3. Upto(i) \in Nat /\ b <= Upto(i)  BY <1>2
<1>4. b \in (i * PerCall)..Upto(i)  BY <1>2, <1>3
<1>5. <<i * PerCall, Upto(i)>> \in fetchedRanges(n)  BY <1>2 DEF fetchedRanges
<1> QED  BY <1>4, <1>5

-----------------------------------------------------------------------------
(* The answers.                                                            *)

LEMMA FollowHooks ==
    ASSUME NEW hook, NEW more \in Follow(hook), NEW q \in more
    PROVE  q[1] \notin {"abi", "name"}
<1>1. CASE hook = "block"
  <2>1. more = {<<"time", block>>}  BY <1>1 DEF Follow
  <2> QED  BY <2>1
<1>2. CASE hook = "proposals" /\ page = "vote"
  <2> DEFINE votes == IF account = None THEN {} ELSE {<<"receipt", account>>, <<"priorVotes", account>>}
             lists == IF Entity.voters = {} THEN {}
                      ELSE {<<"represented", {v.voter : v \in Entity.voters}>>}
             all == votes \cup lists \cup {<<"quorum", 1>>}
  <2>1. Follow(hook) = {all, all \cup {<<"quorum", 0>>}}  BY <1>2 DEF Follow
  <2>2. q \in votes \/ q \in lists \/ q \in {<<"quorum", 0>>, <<"quorum", 1>>}  BY <2>1
  <2>3. q \in votes => q[1] \in {"receipt", "priorVotes"}  OBVIOUS
  <2>4. q \in lists => q[1] = "represented"  OBVIOUS
  <2>5. q \in {<<"quorum", 0>>, <<"quorum", 1>>} => q[1] = "quorum"  OBVIOUS
  <2> QED  BY <2>2, <2>3, <2>4, <2>5
<1>3. CASE hook # "block" /\ ~(hook = "proposals" /\ page = "vote")
  <2>1. more = {}  BY <1>3 DEF Follow
  <2> QED  BY <2>1
<1> QED  BY <1>1, <1>2, <1>3

LEMMA AskForHooks ==
    ASSUME page \in Pages, NEW a, NEW q \in AskFor(a)
    PROVE  q[1] \notin {"abi", "name"}
<1>1. AccountHooks(got) \subseteq {"receipt", "priorVotes", "votes", "balance", "delegate"}
  BY PagesAssumption DEF AccountHooks
<1> QED  BY <1>1 DEF AskFor

LEMMA AnsweredKeeps ==
    ASSUME WebInv, NEW hook \in Hooks, NEW key, Answered(hook, key)
    PROVE  WebInv'
<1>1. LogsInv'
  <2>1. got' = [got EXCEPT ![hook] = Answer(hook, key)] /\ logs' = logs /\ DOMAIN got = Hooks
    BY DEF Answered, WebInv, LogsInv
  <2>2. DOMAIN got' = Hooks /\ got'["block"] \in {got["block"], block}
    <3>1. CASE hook = "block"
      <4>1. Answer(hook, key) = block  BY <3>1 DEF Answer
      <4> QED  BY <2>1, <3>1, <4>1 DEF Hooks
    <3>2. CASE hook # "block"  BY <2>1, <3>2 DEF Hooks
    <3> QED  BY <3>1, <3>2
  <2> QED  BY <2>1, <2>2 DEF WebInv, LogsInv, ChainTyped
<1>2. UNCHANGED <<chain, page, ui, status, deeds>> /\ account' \in Mine \cup {None}
  BY DEF Answered, WebInv, TabTyped
<1>3. \A q \in asked' : q \in asked \/ q[1] \notin {"abi", "name"}
  <2>1. PICK more \in Follow(hook) : asked' = (asked \ {<<hook, key>>}) \cup more  BY DEF Answered
  <2> QED  BY <2>1, FollowHooks
<1> QED  BY <1>1, <1>2, <1>3, AnswerMoves

LEMMA UnansweredKeeps ==
    ASSUME WebInv, NEW hook \in Hooks, NEW key, Unanswered(hook, key)
    PROVE  WebInv'
<1>1. LogsInv'
  <2>1. CASE hook = "proposals"
    <3>1. got' = [got EXCEPT !["proposals"] = Failed] /\ DOMAIN got = Hooks
      BY <2>1 DEF Unanswered, WebInv, LogsInv
    <3>2. DOMAIN got' = Hooks /\ got'["block"] = got["block"]  BY <3>1 DEF Hooks
    <3>3. PICK n \in 1..block : logs' = [logs EXCEPT !.listeners = @ + 1, !.block = n]
      BY <2>1 DEF Unanswered
    <3>4. n \in Nat  BY DEF WebInv, ChainTyped
    <3> PICK R : R = {None} \cup [block : Nat, logs : {None} \cup SUBSET LogBlocks]  OBVIOUS
    <3>5. logs \in [listeners : Nat, block : Nat, fetching : Nat, results : R]
      BY DEF WebInv, LogsInv
    <3>6. /\ logs' \in [listeners : Nat, block : Nat, fetching : Nat, results : R]
          /\ logs'.results = logs.results
      <4> PICK more : more = [logs EXCEPT !.listeners = @ + 1]  OBVIOUS
      <4>1. /\ more \in [listeners : Nat, block : Nat, fetching : Nat, results : R]
            /\ more.results = logs.results
        BY <3>5
      <4>2. logs' = [more EXCEPT !.block = n]  BY <3>3
      <4> QED  BY <3>4, <4>1, <4>2
    <3> QED  BY <3>2, <3>6 DEF WebInv, LogsInv
  <2>2. CASE hook # "proposals"  BY <2>2 DEF Unanswered, WebInv, LogsInv
  <2> QED  BY <2>1, <2>2
<1>2. UNCHANGED <<chain, page, ui, status, deeds>> /\ account' \in Mine \cup {None}
  BY DEF Unanswered, WebInv, TabTyped
<1>3. \A q \in asked' : q \in asked \/ q[1] \notin {"abi", "name"}
  BY DEF Unanswered
<1> QED  BY <1>1, <1>2, <1>3, AnswerMoves

LEMMA AccountKeeps ==
    ASSUME WebInv, NEW a \in Mine \cup {None}, Account(a)
    PROVE  WebInv'
<1>1. LogsInv'
  <2>1. DOMAIN got' = Hooks /\ got'["block"] \in {got["block"], None} /\ logs' = logs
    BY DEF Account, WebInv, LogsInv, Hooks
  <2> QED  BY <2>1 DEF WebInv, LogsInv
<1>2. UNCHANGED <<chain, page, ui, status, deeds>> /\ account' \in Mine \cup {None}
  BY DEF Account
<1>3. \A q \in asked' : q \in asked \/ q[1] \notin {"abi", "name"}
  BY AskForHooks DEF Account, WebInv, TabTyped
<1> QED  BY <1>1, <1>2, <1>3, AnswerMoves

LEMMA FetchLogsKeeps ==
    ASSUME WebInv, FetchLogs
    PROVE  WebInv'
<1>1. LogsInv'  BY DEF FetchLogs, WebInv, LogsInv
<1>2. UNCHANGED <<chain, page, ui, status, deeds>> /\ account' \in Mine \cup {None}
  BY DEF FetchLogs, WebInv, TabTyped
<1>3. \A q \in asked' : q \in asked \/ q[1] \notin {"abi", "name"}
  BY DEF FetchLogs
<1> QED  BY <1>1, <1>2, <1>3, AnswerMoves

\* The answers for the ranges up to a block hold every log up to it.
LEMMA LogsFetchedKeeps ==
    ASSUME WebInv, NEW n \in 1..MaxBlock, LogsFetched(n)
    PROVE  WebInv'
<1> PICK found : found = {b \in LogBlocks : \E range \in fetchedRanges(n) : b \in range[1]..range[2]}
  OBVIOUS
<1>1. n \in Nat  BY NumbersAssumption
<1>2. \A b \in LogBlocks : b <= n => b \in found  BY <1>1, RangesCover, NumbersAssumption
<1>3. LogsInv'
  <2>1. PICK r \in {found, None} : logs' = [logs EXCEPT !.results = [block |-> n, logs |-> r]]
    BY DEF LogsFetched
  <2>2. r \in {None} \cup SUBSET LogBlocks  OBVIOUS
  <2>3. [block |-> n, logs |-> r] \in [block : Nat, logs : {None} \cup SUBSET LogBlocks]
    BY <1>1, <2>2
  <2>4. /\ logs' \in [listeners : Nat, block : Nat, fetching : Nat,
                      results : {None} \cup [block : Nat, logs : {None} \cup SUBSET LogBlocks]]
        /\ logs'.results = [block |-> n, logs |-> r]
    BY <2>1, <2>3 DEF WebInv, LogsInv
  <2>5. logs'.results.block = n /\ logs'.results.logs = r  BY <2>4
  <2>6. got' = got  BY DEF LogsFetched
  <2> QED  BY <1>2, <2>4, <2>5, <2>6 DEF WebInv, LogsInv
<1>4. UNCHANGED <<chain, page, ui, status, deeds>> /\ account' \in Mine \cup {None}
  BY DEF LogsFetched, WebInv, TabTyped
<1>5. \A q \in asked' : q \in asked \/ q[1] \notin {"abi", "name"}
  BY DEF LogsFetched
<1> QED  BY <1>3, <1>4, <1>5, AnswerMoves

-----------------------------------------------------------------------------
(* The pages and their windows.                                            *)

LEMMA OpenKeeps ==
    ASSUME WebInv, Open
    PROVE  WebInv' /\ Opened'
<1>1. page \in Pages /\ page' = page /\ ui' \in NewUI  BY DEF Open, WebInv, TabTyped
<1>2. /\ Opened'
      /\ page = "vote" => ~ui'.voted
      /\ page = "delegate" => ui'.state # "success"
  <2>1. CASE page = "vote"
    <3>1. ui' = [show |-> FALSE, loading |-> FALSE, voted |-> FALSE, failed |-> FALSE,
                 info |-> FALSE, pending |-> [queue |-> FALSE, execute |-> FALSE]]
      BY <1>1, <2>1 DEF NewUI
    <3>2. ui' \in VoteUI /\ ~ui'.voted  BY <3>1 DEF VoteUI
    <3> QED  BY <1>1, <2>1, <3>2 DEF Opened
  <2>2. CASE page \in {"list", "offline"}
    <3>1. ui' = [list |-> TRUE]  BY <1>1, <2>2 DEF NewUI
    <3>2. ui' \in ListUI  BY <3>1 DEF ListUI
    <3> QED  BY <1>1, <2>2, <3>2 DEF Opened
  <2>3. CASE page \in {"create", "form"}
    <3>1. EmptyCall \in Forms  BY DEF EmptyCall, Forms, Functions
    <3>2. <<>> \in Seq(MatchingCalls)  OBVIOUS
    <3>3. ui' = [show |-> FALSE, form |-> EmptyCall, calls |-> <<>>, pending |-> [propose |-> FALSE]]
      BY <1>1, <2>3 DEF NewUI
    <3>4. ui' \in CreateUI  BY <3>1, <3>2, <3>3 DEF CreateUI
    <3> QED  BY <1>1, <2>3, <3>4 DEF Opened
  <2>4. CASE page = "delegate"
    <3>1. PICK to \in Names \cup {None} : ui' = [state |-> "enter", to |-> to, text |-> to, address |-> to]
      BY <1>1, <2>4 DEF NewUI
    <3>2. ui' \in DelegateUI  BY <3>1 DEF DelegateUI, Texts
    <3> QED  BY <1>1, <2>4, <3>1, <3>2 DEF Opened
  <2> QED  BY <1>1, <2>1, <2>2, <2>3, <2>4, PagesAssumption
<1>3. Still  BY <1>1, <1>2 DEF Still
<1>4. \A q \in asked' : q \in asked \/ /\ q[1] = "abi" => page = "form"
                                       /\ q[1] = "name" => page = "delegate"
  <2>1. PageHooks \cap {"abi", "name"} = {}  BY DEF PageHooks
  <2>2. \A q \in AskFor(account) : q[1] \notin {"abi", "name"}  BY <1>1, AskForHooks
  <2>3. ASSUME NEW q \in asked'
        PROVE  \/ q \in {<<hook, None>> : hook \in PageHooks} \cup AskFor(account)
               \/ page = "delegate" /\ q[1] = "name"
    BY DEF Open
  <2> QED  BY <2>1, <2>2, <2>3
<1> QED  BY <1>2, <1>3, <1>4, WindowMoves DEF Open

\* The window to vote.
LEMMA VoteWindowKeeps ==
    ASSUME WebInv, page = "vote", Opened,
           NEW show \in BOOLEAN, NEW failed \in BOOLEAN, NEW loading \in BOOLEAN, NEW info \in BOOLEAN,
           ui' = [ui EXCEPT !.show = show, !.failed = failed, !.loading = loading, !.info = info],
           UNCHANGED <<chain, page, account, got, logs, status, deeds>>,
           \A q \in asked' : q \in asked \/ q[1] \notin {"abi", "name"}
    PROVE  WebInv' /\ Opened'
<1>1. ui \in VoteUI  BY DEF Opened
<1>2. ui' \in VoteUI /\ ui'.voted = ui.voted  BY <1>1 DEF VoteUI
<1>3. Opened' /\ Still  BY <1>2 DEF Opened, Still
<1> QED  BY <1>3, WindowMoves

\* A page is open where the user does something.
LEMMA OpenedPage ==
    ASSUME WebInv, ui # None
    PROVE  Opened
BY DEF WebInv, PageInv

LEMMA OpenVoteModalKeeps ==
    ASSUME WebInv, OpenVoteModal
    PROVE  WebInv' /\ Opened'
<1>1. ui \in VoteUI /\ Opened  BY OpenedPage DEF OpenVoteModal, Loaded, Opened
<1>2. ui' = [ui EXCEPT !.show = TRUE, !.failed = ui.failed, !.loading = ui.loading, !.info = ui.info]
  BY <1>1 DEF OpenVoteModal, VoteUI
<1>3. {ui.failed, ui.loading, ui.info} \subseteq BOOLEAN  BY <1>1 DEF VoteUI
<1> QED  BY <1>1, <1>2, <1>3, VoteWindowKeeps DEF OpenVoteModal, OnlyHere, Here

LEMMA DismissVoteModalKeeps ==
    ASSUME WebInv, DismissVoteModal
    PROVE  WebInv' /\ Opened'
<1>1. ui \in VoteUI /\ Opened  BY OpenedPage DEF DismissVoteModal, Loaded, Opened
<1>2. ui' = [ui EXCEPT !.show = FALSE, !.failed = FALSE, !.loading = FALSE, !.info = ui.info]
  BY <1>1 DEF DismissVoteModal, VoteUI
<1>3. ui.info \in BOOLEAN  BY <1>1 DEF VoteUI
<1> QED  BY <1>1, <1>2, <1>3, VoteWindowKeeps DEF DismissVoteModal, OnlyHere, Here

LEMMA CloseVoteModalKeeps ==
    ASSUME WebInv, CloseVoteModal
    PROVE  WebInv' /\ Opened'
<1>1. ui \in VoteUI /\ Opened  BY OpenedPage DEF CloseVoteModal, Loaded, Opened
<1>2. ui' = [ui EXCEPT !.show = FALSE, !.failed = FALSE, !.loading = ui.loading, !.info = ui.info]
  BY <1>1 DEF CloseVoteModal, VoteUI
<1>3. {ui.loading, ui.info} \subseteq BOOLEAN  BY <1>1 DEF VoteUI
<1> QED  BY <1>1, <1>2, <1>3, VoteWindowKeeps DEF CloseVoteModal, OnlyHere, Here

LEMMA OpenQuorumInfoKeeps ==
    ASSUME WebInv, OpenQuorumInfo
    PROVE  WebInv' /\ Opened'
<1>1. ui \in VoteUI /\ Opened  BY OpenedPage DEF OpenQuorumInfo, Loaded, Opened
<1>2. ui' = [ui EXCEPT !.show = ui.show, !.failed = ui.failed, !.loading = ui.loading, !.info = TRUE]
  BY <1>1 DEF OpenQuorumInfo, VoteUI
<1>3. {ui.show, ui.failed, ui.loading} \subseteq BOOLEAN  BY <1>1 DEF VoteUI
<1>4. \A q \in asked' : q \in asked \/ q[1] \notin {"abi", "name"}  BY DEF OpenQuorumInfo
<1> QED  BY <1>1, <1>2, <1>3, <1>4, VoteWindowKeeps DEF OpenQuorumInfo, Here

\* The window that delegates votes.
LEMMA DelegateWindowKeeps ==
    ASSUME WebInv, page = "delegate", Opened, ui' \in DelegateUI,
           ui'.state = "success" => ui.state = "success",
           UNCHANGED <<chain, page, account, got, logs, status, deeds>>,
           \A q \in asked' : q \in asked \/ q[1] = "name"
    PROVE  WebInv' /\ Opened'
<1>1. Opened' /\ Still  BY DEF Opened, Still
<1> QED  BY <1>1, WindowMoves

LEMMA NewAddressTyped ==
    ASSUME NEW u \in DelegateUI, NEW text \in Texts, NEW requests,
           NewAddress(u, text, requests)
    PROVE  /\ ui' \in DelegateUI /\ ui'.state = u.state
           /\ \A q \in asked' : q \in requests \/ q[1] = "name"
BY DEF NewAddress, DelegateUI

LEMMA TypeDelegateKeeps ==
    ASSUME WebInv, TypeDelegate
    PROVE  WebInv' /\ Opened'
<1>1. page = "delegate" /\ Opened /\ ui \in DelegateUI  BY OpenedPage DEF TypeDelegate, Opened
<1>2. PICK text \in Names : NewAddress([ui EXCEPT !.text = text], text, asked)  BY DEF TypeDelegate
<1>3. text \in Texts  BY DEF Texts
<1> PICK u : u = [ui EXCEPT !.text = text]  OBVIOUS
<1>4. u \in DelegateUI /\ u.state = ui.state  BY <1>1, <1>3 DEF DelegateUI
<1>5. /\ ui' \in DelegateUI /\ ui'.state = ui.state
      /\ \A q \in asked' : q \in asked \/ q[1] = "name"
  BY <1>2, <1>3, <1>4, NewAddressTyped
<1> QED  BY <1>1, <1>5, DelegateWindowKeeps DEF TypeDelegate, Here

LEMMA NameFoundKeeps ==
    ASSUME WebInv, NEW text \in Names \cup Accounts, checkIsValidENS(text)
    PROVE  WebInv' /\ Opened'
<1>1. page = "delegate" /\ Opened
  <2> PICK q : q = <<"name", text>>  OBVIOUS
  <2>1. q \in asked /\ q[1] = "name"  BY DEF checkIsValidENS
  <2>2. PageInv  BY DEF WebInv
  <2>3. q[1] = "name" => page = "delegate" /\ Opened  BY <2>1, <2>2 DEF PageInv
  <2> QED  BY <2>1, <2>3
<1>2. ui \in DelegateUI  BY <1>1 DEF Opened
<1> PICK found : found = IF NameOf[text] = None THEN ui.address ELSE NameOf[text]  OBVIOUS
<1>3. NewAddress(ui, found, asked \ {<<"name", text>>})  BY DEF checkIsValidENS
<1>4. found \in Texts
  <2>1. ui.address \in Texts  BY <1>2 DEF DelegateUI
  <2> QED  BY <2>1, NamesAssumption DEF Texts
<1>5. /\ ui' \in DelegateUI /\ ui'.state = ui.state
      /\ \A q \in asked' : q \in asked \ {<<"name", text>>} \/ q[1] = "name"
  BY <1>2, <1>3, <1>4, NewAddressTyped
<1> QED  BY <1>1, <1>5, DelegateWindowKeeps DEF checkIsValidENS, Here

LEMMA ChangeAgainKeeps ==
    ASSUME WebInv, ChangeAgain
    PROVE  WebInv' /\ Opened'
<1>1. page = "delegate" /\ Opened /\ ui \in DelegateUI  BY OpenedPage DEF ChangeAgain, Opened
<1>2. ui' \in DelegateUI /\ ui'.state = "enter"  BY <1>1 DEF ChangeAgain, DelegateUI, Texts
<1> QED  BY <1>1, <1>2, DelegateWindowKeeps DEF ChangeAgain, OnlyHere, Here

-----------------------------------------------------------------------------
(* The page of a new proposal.                                             *)

LEMMA CreateWindowKeeps ==
    ASSUME WebInv, page \in {"create", "form"}, Opened, ui' \in CreateUI,
           UNCHANGED <<chain, page, account, got, logs, status, deeds>>,
           \A q \in asked' : q \in asked \/ (page = "form" /\ q[1] = "abi")
    PROVE  WebInv' /\ Opened'
<1>1. Opened' /\ Still  BY DEF Opened, Still
<1> QED  BY <1>1, WindowMoves

\* The window is filled in.
LEMMA FormKeeps ==
    ASSUME WebInv, page = "form", Opened, NEW form \in Forms, FormBecomes(form),
           UNCHANGED <<chain, page, account, got, logs, status, deeds>>,
           \A q \in asked' : q \in asked \/ q[1] = "abi"
    PROVE  WebInv' /\ Opened'
<1>1. ui \in CreateUI  BY DEF Opened
<1>2. ui' \in CreateUI  BY <1>1 DEF FormBecomes, CreateUI
<1> QED  BY <1>2, CreateWindowKeeps

LEMMA FormOpen ==
    ASSUME WebInv, InForm
    PROVE  page = "form" /\ Opened /\ ui \in CreateUI /\ ui.form \in Forms
BY OpenedPage DEF InForm, Opened, CreateUI

LEMMA FillInKeeps ==
    ASSUME WebInv, FillIn
    PROVE  WebInv' /\ Opened'
<1>1. page = "form" /\ Opened /\ ui.form \in Forms  BY FormOpen DEF FillIn
<1> PICK f : f = ui.form  OBVIOUS
<1>2. \E form \in Forms : FormBecomes(form)
  <2>1. CASE \E a \in DOMAIN ABI : FormBecomes([draft EXCEPT !.address = a])
    <3>1. PICK a \in DOMAIN ABI : FormBecomes([f EXCEPT !.address = a])  BY <2>1 DEF draft
    <3>2. [f EXCEPT !.address = a] \in Forms  BY <1>1 DEF Forms
    <3> QED  BY <3>1, <3>2
  <2>2. CASE \E a \in DOMAIN ABI : ABI[a] # None /\ FormBecomes([draft EXCEPT !.abi = ABI[a]])
    <3>1. PICK a \in DOMAIN ABI : ABI[a] # None /\ FormBecomes([f EXCEPT !.abi = ABI[a]])
      BY <2>2 DEF draft
    <3>2. [f EXCEPT !.abi = ABI[a]] \in Forms  BY <1>1, <3>1 DEF Forms
    <3> QED  BY <3>1, <3>2
  <2>3. CASE draft.abi # None /\ \E func \in draft.abi \cup {Placeholder} :
                FormBecomes([draft EXCEPT !.func = func])
    <3>1. PICK func \in f.abi \cup {Placeholder} : FormBecomes([f EXCEPT !.func = func])
      BY <2>3 DEF draft
    <3>2. f.abi # None /\ f.abi \in {ABI[a] : a \in DOMAIN ABI}  BY <1>1, <2>3 DEF draft, Forms
    <3>3. func \in Functions  BY <3>2 DEF Functions
    <3>4. [f EXCEPT !.func = func] \in Forms  BY <1>1, <3>2, <3>3 DEF Forms
    <3> QED  BY <3>1, <3>4
  <2>4. CASE \E n \in 0..Arity[draft.func] : FormBecomes([draft EXCEPT !.args = n])
    <3>1. PICK n \in 0..Arity[f.func] : FormBecomes([f EXCEPT !.args = n])  BY <2>4 DEF draft
    <3>2. [f EXCEPT !.args = n] \in Forms  BY <1>1 DEF Forms
    <3> QED  BY <3>1, <3>2
  <2> QED  BY <2>1, <2>2, <2>3, <2>4 DEF FillIn
<1> QED  BY <1>1, <1>2, FormKeeps DEF FillIn, OnlyHere, Here

LEMMA StepForwardKeeps ==
    ASSUME WebInv, stepForward
    PROVE  WebInv' /\ Opened'
<1>1. page = "form" /\ Opened /\ ui.form \in Forms  BY FormOpen DEF stepForward
<1> PICK f : f = ui.form  OBVIOUS
<1> PICK form : form = [f EXCEPT !.step = @ + 1]  OBVIOUS
<1>2. FormBecomes(form) /\ f.step < 4  BY DEF stepForward, draft
<1>3. form \in Forms
  <2>1. f.step + 1 \in 0..4  BY <1>1, <1>2 DEF Forms
  <2> QED  BY <1>1, <2>1 DEF Forms
<1>4. \A q \in asked' : q \in asked \/ q[1] = "abi"  BY DEF stepForward
<1> QED  BY <1>1, <1>2, <1>3, <1>4, FormKeeps DEF stepForward, Here

LEMMA StepBackwardsKeeps ==
    ASSUME WebInv, stepBackwards
    PROVE  WebInv' /\ Opened'
<1>1. page = "form" /\ Opened /\ ui.form \in Forms  BY FormOpen DEF stepBackwards
<1> PICK f : f = ui.form  OBVIOUS
<1> PICK form : form = [f EXCEPT !.step = @ - 1]  OBVIOUS
<1>2. FormBecomes(form) /\ f.step > 0  BY DEF stepBackwards, draft
<1>3. form \in Forms
  <2>1. f.step - 1 \in 0..4  BY <1>1, <1>2 DEF Forms
  <2> QED  BY <1>1, <2>1 DEF Forms
<1> QED  BY <1>1, <1>2, <1>3, FormKeeps DEF stepBackwards, OnlyHere, Here

\* An ABI that is found takes the place of another one, and is not one that is missing.
LEMMA ABIFoundKeeps ==
    ASSUME WebInv, NEW a \in DOMAIN ABI, ABIFound(a)
    PROVE  WebInv' /\ Opened'
<1>1. page = "form" /\ Opened
  <2> PICK q : q = <<"abi", a>>  OBVIOUS
  <2>1. q \in asked /\ q[1] = "abi"  BY DEF ABIFound
  <2>2. PageInv  BY DEF WebInv
  <2>3. q[1] = "abi" => page = "form" /\ Opened  BY <2>1, <2>2 DEF PageInv
  <2> QED  BY <2>1, <2>3
<1>2. ui.form \in Forms  BY <1>1 DEF Opened, CreateUI
<1> PICK f : f = ui.form  OBVIOUS
<1> PICK form : form = populateABIIfExists(f, a)  OBVIOUS
<1>3. form \in Forms  BY <1>2 DEF populateABIIfExists, Forms
<1>4. FormBecomes(form) /\ \A q \in asked' : q \in asked  BY DEF ABIFound
<1> QED  BY <1>1, <1>3, <1>4, FormKeeps DEF ABIFound, Here

\* The call the window makes carries what its function takes: the function is among those
\* of an ABI, or there is none.
LEMMA CallMatches ==
    ASSUME NEW form \in Forms, Calldata(form) # Failed
    PROVE  [address |-> form.address, signature |-> form.func, calldata |-> Calldata(form)]
               \in MatchingCalls
<1>1. /\ form.address \in DOMAIN ABI \cup {None} /\ form.func \in Functions /\ form.args \in Nat
      /\ form.func # None => form.abi # None
  BY DEF Forms
<1>2. NoCalldata \in [func : Functions, args : Nat]  BY DEF NoCalldata, Functions
<1>3. CASE form.func = None
  <2>1. Calldata(form) = NoCalldata  BY <1>3 DEF Calldata
  <2> QED  BY <1>1, <1>2, <1>3, <2>1 DEF MatchingCalls
<1>4. CASE form.func # None
  <2>1. Calldata(form) = Encoded(form)  BY <1>1, <1>4 DEF Calldata
  <2>2. /\ Calldata(form) = [func |-> form.func, args |-> form.args]
        /\ form.args = Arity[form.func]
    BY <2>1 DEF Encoded
  <2>3. Calldata(form) = [func |-> form.func, args |-> Arity[form.func]]  BY <2>2
  <2>4. Calldata(form) \in [func : Functions, args : Nat]  BY <1>1, <2>2
  <2> QED  BY <1>1, <1>4, <2>3, <2>4 DEF MatchingCalls
<1> QED  BY <1>3, <1>4

LEMMA handleAddKeeps ==
    ASSUME WebInv, page \in {"create", "form"}, Opened, NEW call \in MatchingCalls, handleAdd(call),
           OnlyHere
    PROVE  WebInv' /\ Opened'
<1>1. ui \in CreateUI  BY DEF Opened
<1>2. EmptyCall \in Forms  BY DEF EmptyCall, Forms, Functions
<1>3. Append(ui.calls, call) \in Seq(MatchingCalls)  BY <1>1 DEF CreateUI
<1>4. ui' \in CreateUI  BY <1>1, <1>2, <1>3 DEF handleAdd, CreateUI
<1> QED  BY <1>4, CreateWindowKeeps DEF OnlyHere, Here

LEMMA AddKeeps ==
    ASSUME WebInv, handleAddProposalAction
    PROVE  WebInv' /\ Opened'
<1>1. CASE /\ InForm /\ draft.step = 4 /\ Calldata(draft) # Failed
           /\ handleAdd([address |-> draft.address, signature |-> draft.func,
                         calldata |-> Calldata(draft)])
  <2>1. page = "form" /\ Opened /\ ui.form \in Forms  BY <1>1, FormOpen
  <2> PICK call : call = [address |-> draft.address, signature |-> draft.func,
                          calldata |-> Calldata(draft)]
    OBVIOUS
  <2>2. call \in MatchingCalls  BY <1>1, <2>1, CallMatches DEF draft
  <2> QED  BY <1>1, <2>1, <2>2, handleAddKeeps DEF handleAddProposalAction
<1>2. CASE /\ page = "create" /\ ui # None /\ ui.calls = <<>>
           /\ \E a \in {x \in DOMAIN ABI : ABI[x] = None} :
                 handleAdd([address |-> a, signature |-> None, calldata |-> NoCalldata])
  <2>1. PICK a \in DOMAIN ABI : handleAdd([address |-> a, signature |-> None, calldata |-> NoCalldata])
    BY <1>2
  <2>2. [address |-> a, signature |-> None, calldata |-> NoCalldata] \in MatchingCalls
    BY DEF MatchingCalls, NoCalldata, Functions
  <2>3. Opened  BY <1>2, OpenedPage
  <2> QED  BY <1>2, <2>1, <2>2, <2>3, handleAddKeeps DEF handleAddProposalAction
<1> QED  BY <1>1, <1>2 DEF handleAddProposalAction

LEMMA HideTransactionFormKeeps ==
    ASSUME WebInv, HideTransactionForm
    PROVE  WebInv' /\ Opened'
<1>1. page = "form" /\ Opened /\ ui \in CreateUI  BY FormOpen DEF HideTransactionForm
<1>2. EmptyCall \in Forms  BY DEF EmptyCall, Forms, Functions
<1>3. ui' \in CreateUI  BY <1>1, <1>2 DEF HideTransactionForm, CreateUI
<1> QED  BY <1>1, <1>3, CreateWindowKeeps DEF HideTransactionForm, OnlyHere, Here

LEMMA ShowTransactionFormKeeps ==
    ASSUME WebInv, ShowTransactionForm
    PROVE  WebInv' /\ Opened'
<1>1. page = "form" /\ Opened /\ ui \in CreateUI
  BY OpenedPage DEF ShowTransactionForm, Opened
<1>2. ui' \in CreateUI  BY <1>1 DEF ShowTransactionForm, CreateUI
<1> QED  BY <1>1, <1>2, CreateWindowKeeps DEF ShowTransactionForm, OnlyHere, Here

LEMMA RemoveKeeps ==
    ASSUME WebInv, handleRemoveProposalAction
    PROVE  WebInv' /\ Opened'
<1>1. page \in {"create", "form"} /\ Opened /\ ui \in CreateUI
  BY OpenedPage DEF handleRemoveProposalAction, Opened
<1>2. PICK i \in DOMAIN ui.calls : ui' = [ui EXCEPT !.calls = RemoveAt(@, i)]
  BY DEF handleRemoveProposalAction
<1> PICK s : s = ui.calls  OBVIOUS
<1>3. s \in Seq(MatchingCalls) /\ i \in 1..Len(s)  BY <1>1 DEF CreateUI
<1>4. RemoveAt(s, i) \in Seq(MatchingCalls)
  <2>1. SubSeq(s, 1, i - 1) \in Seq(MatchingCalls)  BY <1>3
  <2>2. SubSeq(s, i + 1, Len(s)) \in Seq(MatchingCalls)  BY <1>3
  <2> QED  BY <2>1, <2>2, ConcatProperties DEF RemoveAt
<1>5. ui' \in CreateUI  BY <1>1, <1>2, <1>4 DEF CreateUI
<1> QED  BY <1>1, <1>5, CreateWindowKeeps DEF handleRemoveProposalAction, OnlyHere, Here

-----------------------------------------------------------------------------
(* Transactions that are started.                                          *)

LEMMA SubmitVoteKeeps ==
    ASSUME WebInv, SubmitVote
    PROVE  WebInv' /\ Opened'
<1>1. page = "vote" /\ Opened /\ ui \in VoteUI  BY OpenedPage DEF SubmitVote, Loaded, Opened
<1>2. PICK s \in Supports : Deed(IF s = 0 THEN "castVoteWithReason" ELSE "castVote", s)
  BY DEF SubmitVote
<1> PICK call : call = IF s = 0 THEN "castVoteWithReason" ELSE "castVote"  OBVIOUS
<1>3. Deed(call, s) /\ call \in CallsOf(page) /\ s \in ArgsOf(page)
  BY <1>1, <1>2 DEF CallsOf, ArgsOf
<1>4. ui' \in VoteUI /\ ui'.voted = ui.voted  BY <1>1 DEF SubmitVote, VoteUI
<1>5. UNCHANGED <<chain, page, account, got, logs, asked>>  BY DEF SubmitVote, Here
<1>6. Opened' /\ Still  BY <1>1, <1>4, <1>5 DEF Opened, Still
<1> QED  BY <1>3, <1>5, <1>6, DeedMoves

\* The other transactions leave the page as it is.
LEMMA PlainDeed ==
    ASSUME WebInv, Opened, NEW call \in CallsOf(page) \ VoteCalls, NEW arg \in ArgsOf(page),
           Deed(call, arg), UNCHANGED <<chain, page, account, got, logs, asked, ui>>
    PROVE  WebInv' /\ Opened'
<1>1. Opened' /\ Still  BY DEF Opened, Still
<1> QED  BY <1>1, DeedMoves

LEMMA MoveStateKeeps ==
    ASSUME WebInv, MoveState
    PROVE  WebInv' /\ Opened'
<1>1. page = "vote" /\ Opened  BY OpenedPage DEF MoveState, Loaded
<1>2. Shown.move \in {"queue", "execute"} /\ Deed(Shown.move, None)  BY DEF MoveState
<1> PICK move : move = Shown.move  OBVIOUS
<1>3. move \in CallsOf(page) \ VoteCalls /\ None \in ArgsOf(page)
  BY <1>1, <1>2 DEF CallsOf, ArgsOf, VoteCalls
<1> QED  BY <1>1, <1>2, <1>3, PlainDeed DEF MoveState, Here

LEMMA CreateProposalKeeps ==
    ASSUME WebInv, handleCreateProposal
    PROVE  WebInv' /\ Opened'
<1>1. page = "create" /\ Opened /\ ui \in CreateUI
  BY OpenedPage DEF handleCreateProposal, Opened
<1>2. "propose" \in CallsOf(page) \ VoteCalls /\ ui.calls \in ArgsOf(page)
  BY <1>1 DEF CallsOf, ArgsOf, VoteCalls, CreateUI
<1> QED  BY <1>1, <1>2, PlainDeed DEF handleCreateProposal, Here

LEMMA DelegateKeeps ==
    ASSUME WebInv, delegateVotes
    PROVE  WebInv' /\ Opened'
<1>1. page = "delegate" /\ Opened /\ ui \in DelegateUI
  BY OpenedPage DEF delegateVotes, Opened
<1>2. "delegate" \in CallsOf(page) \ VoteCalls /\ ui.address \in ArgsOf(page)
  BY <1>1 DEF CallsOf, ArgsOf, VoteCalls, DelegateUI
<1> QED  BY <1>1, <1>2, PlainDeed DEF delegateVotes, Here

-----------------------------------------------------------------------------
(* The chain, whatever others do.                                          *)

LEMMA FromElsewhereKeeps ==
    ASSUME WebInv, NEW call, NEW who, NEW arg, FromElsewhere(call, who, arg),
           call \in VoteCalls => who \in Accounts /\ arg \in Supports
    PROVE  WebInv'
<1>1. /\ ChainTyped'
      /\ \A e : (e.call \in VoteCalls => e.arg \in Supports) /\ DoneBy(e) => DoneBy(e)'
  BY EffectKeeps DEF FromElsewhere, WebInv
<1> QED  BY <1>1, ChainMoves DEF FromElsewhere

LEMMA OthersKeep ==
    ASSUME WebInv, NewBlock \/ OthersVote \/ OthersMoveOn \/ OthersStop \/ OthersDelegate
    PROVE  WebInv'
<1>1. CASE NewBlock  BY <1>1, FromElsewhereKeeps DEF NewBlock, VoteCalls
<1>2. CASE OthersVote
  <2>1. PICK a \in Accounts, s \in Supports : FromElsewhere("castVote", a, s)
    BY <1>2 DEF OthersVote, Accounts
  <2> QED  BY <2>1, FromElsewhereKeeps
<1>3. CASE OthersMoveOn
  <2>1. PICK call \in {"queue", "execute"} : FromElsewhere(call, None, None)
    BY <1>3 DEF OthersMoveOn
  <2> QED  BY <2>1, FromElsewhereKeeps DEF VoteCalls
<1>4. CASE OthersStop
  <2>1. FromElsewhere("cancel", None, None) \/ FromElsewhere("veto", None, None)
    BY <1>4 DEF OthersStop
  <2> QED  BY <2>1, FromElsewhereKeeps DEF VoteCalls
<1>5. CASE OthersDelegate
  <2>1. PICK a \in Others, b \in Accounts : FromElsewhere("delegate", a, b)
    BY <1>5 DEF OthersDelegate
  <2> QED  BY <2>1, FromElsewhereKeeps DEF VoteCalls
<1> QED  BY <1>1, <1>2, <1>3, <1>4, <1>5

-----------------------------------------------------------------------------
(* The invariant and what it says.                                         *)

LEMMA InitWeb ==
    ASSUME Init
    PROVE  WebInv
<1> USE DEF Init
<1>1. ChainTyped
  <2>1. block \in Nat  BY VoteAssumption
  <2>2. gov = [votes |-> [a \in Accounts |-> None], eta |-> None, canceled |-> FALSE,
               vetoed |-> FALSE, executed |-> FALSE, status |-> "Pending"]
    OBVIOUS
  <2> QED  BY <2>1, <2>2 DEF ChainTyped
<1>2. TabTyped  BY DEF TabTyped, Calls
<1>3. PageInv /\ DeedsInv  BY DEF PageInv, DeedsInv
<1>4. \A call \in Calls : status[call] # "Success"  OBVIOUS
<1>5. DOMAIN got = Hooks /\ got["block"] = None  BY DEF Nothing, Hooks
<1>6. LogsInv  BY <1>5 DEF LogsInv
<1>7. Opened => page \notin {"vote", "delegate"}  BY WindowAssumption DEF Opened
<1>8. ToldInv  BY <1>4, <1>7 DEF ToldInv
<1> QED  BY <1>1, <1>2, <1>3, <1>6, <1>8 DEF WebInv

LEMMA NextKeepsWeb ==
    ASSUME WebInv, [Next]_vars
    PROVE  WebInv'
<1>1. CASE NewBlock \/ OthersVote \/ OthersMoveOn \/ OthersStop \/ OthersDelegate
  BY <1>1, OthersKeep
<1>2. CASE Open  BY <1>2, OpenKeeps
<1>3. CASE \E q \in {r \in asked : r[1] \in Hooks} : Answered(q[1], q[2]) \/ Unanswered(q[1], q[2])
  BY <1>3, AnsweredKeeps, UnansweredKeeps
<1>4. CASE WalletConnectModal \/ disconnectWalletHandler
  BY <1>4, AccountKeeps DEF WalletConnectModal, disconnectWalletHandler, activate, deactivate
<1>5. CASE OnPage
  BY <1>5, OpenVoteModalKeeps, SubmitVoteKeeps, DismissVoteModalKeeps, CloseVoteModalKeeps,
     MoveStateKeeps, OpenQuorumInfoKeeps, ShowTransactionFormKeeps, FillInKeeps, StepForwardKeeps,
     StepBackwardsKeeps, AddKeeps, HideTransactionFormKeeps, RemoveKeeps, CreateProposalKeeps,
     TypeDelegateKeeps, DelegateKeeps, ChangeAgainKeeps
  DEF OnPage
<1>6. CASE \E a \in DOMAIN ABI : ABIFound(a)  BY <1>6, ABIFoundKeeps
<1>7. CASE \E text \in Names \cup Accounts : checkIsValidENS(text)  BY <1>7, NameFoundKeeps
<1>8. CASE FetchLogs  BY <1>8, FetchLogsKeeps
<1>9. CASE \E n \in 1..MaxBlock : LogsFetched(n)  BY <1>9, LogsFetchedKeeps
<1>10. CASE \E d \in DOMAIN deeds :
               (\E who \in Mine : Signed(d, who)) \/ Rejected(d) \/ Mined(d) \/ Receipt(d)
  BY <1>10, SignedKeeps, RejectedKeeps, MinedKeeps, ReceiptKeeps
<1>11. CASE UNCHANGED vars
  <2>1. UNCHANGED <<chain, page, account, asked, got, logs, ui, status, deeds>>
    BY <1>11 DEF vars
  <2>2. ChainTyped' /\ \A e : DoneBy(e) => DoneBy(e)'
    BY <2>1 DEF WebInv, ChainTyped, DoneBy, chain
  <2> QED  BY <2>1, <2>2, ChainMoves
<1> QED  BY <1>1, <1>2, <1>3, <1>4, <1>5, <1>6, <1>7, <1>8, <1>9, <1>10, <1>11 DEF Next

\* What the pages hold of their transactions, of the calls of a proposal and of the event
\* logs is inductive: each step of the chain, the wallet, the answers and the user keeps it.
THEOREM PagesKeepTrack == Spec => []WebInv
<1>1. Init => WebInv  BY InitWeb
<1>2. WebInv /\ [Next]_vars => WebInv'  BY NextKeepsWeb
<1> QED  BY <1>1, <1>2, PTL DEF Spec

\* Each call of a proposal carries arguments for the function it names, whichever ABIs are
\* found while the window is filled in (components/ProposalTransactionFormModal).
THEOREM CallsAlwaysMatch == Spec => []CalldataMatchesSignature
<1>1. WebInv => CalldataMatchesSignature
  <2> SUFFICES ASSUME WebInv, ui # None, page \in {"create", "form"}, NEW i \in DOMAIN ui.calls
               PROVE  ui.calls[i].calldata =
                          IF ui.calls[i].signature = None THEN NoCalldata
                          ELSE [func |-> ui.calls[i].signature, args |-> Arity[ui.calls[i].signature]]
    BY DEF CalldataMatchesSignature
  <2> PICK s : s = ui.calls  OBVIOUS
  <2>1. ui \in CreateUI  BY OpenedPage DEF Opened
  <2>2. s \in Seq(MatchingCalls)  BY <2>1 DEF CreateUI
  <2>3. s[i] \in MatchingCalls  BY <2>2
  <2> QED  BY <2>3 DEF MatchingCalls
<1> QED  BY <1>1, PagesKeepTrack, PTL

\* The event logs a page takes for complete are all there are up to its block, however they
\* were divided into ranges (state/updaters/logs.ts, hooks/useLogs.ts).
THEOREM LogsAlwaysComplete == Spec => []LogsComplete
<1>1. WebInv => LogsComplete
  <2> SUFFICES ASSUME WebInv, useLogs = "SYNCED", NEW b \in LogBlocks, b <= got["block"]
               PROVE  b \in logs.results.logs
    BY DEF LogsComplete
  <2>1. /\ got["block"] # None /\ logs.results # None /\ logs.results.logs # None
        /\ logs.results.block >= got["block"]
    BY DEF useLogs
  <2>2. /\ got["block"] \in Nat /\ logs.results.block \in Nat
        /\ b <= logs.results.block => b \in logs.results.logs
    BY <2>1 DEF WebInv, LogsInv
  <2>3. b \in Nat  BY NumbersAssumption
  <2> QED  BY <2>1, <2>2, <2>3
<1> QED  BY <1>1, PagesKeepTrack, PTL

\* A page says that a call has succeeded only when a transaction of its own went through,
\* not one in its place, and its work is still done (hooks/useTransaction.ts,
\* components/VoteModal, components/ChangeDelegatePannel).
THEOREM SuccessAlwaysReal == Spec => []SuccessIsReal
<1>1. WebInv => SuccessIsReal
  <2> SUFFICES ASSUME WebInv PROVE SuccessIsReal  OBVIOUS
  <2>1. ASSUME NEW d \in DOMAIN deeds, deeds[d].ok, deeds[d].replaced # "other" PROVE Done(d)
    <3>1. DoneBy(deeds[d])  BY <2>1 DEF WebInv, DeedsInv, DeedInv
    <3> QED  BY <3>1 DEF DoneBy, Done, VoteCalls
  <2>2. ASSUME NEW calls, WentThrough(calls)
        PROVE  \E d \in DOMAIN deeds : /\ deeds[d].call \in calls /\ deeds[d].ok
                                       /\ deeds[d].replaced # "other" /\ Done(d)
    BY <2>1, <2>2 DEF WentThrough
  <2>3. ui # None => Opened  BY OpenedPage
  <2>4. ToldInv  BY DEF WebInv
  <2>5. \A call \in Calls : status[call] = "Success" =>
            \E d \in DOMAIN deeds : /\ deeds[d].call \in {call} /\ deeds[d].ok
                                    /\ deeds[d].replaced # "other" /\ Done(d)
    BY <2>2, <2>4 DEF ToldInv
  <2>6. ui # None /\ page = "vote" /\ ui.voted =>
            \E d \in DOMAIN deeds : /\ deeds[d].call \in VoteCalls /\ deeds[d].ok
                                    /\ deeds[d].replaced # "other" /\ Done(d)
    BY <2>2, <2>3, <2>4 DEF ToldInv
  <2>7. ui # None /\ page = "delegate" /\ ui.state = "success" =>
            \E d \in DOMAIN deeds : /\ deeds[d].call \in {"delegate"} /\ deeds[d].ok
                                    /\ deeds[d].replaced # "other" /\ Done(d)
    BY <2>2, <2>3, <2>4 DEF ToldInv
  <2> QED  BY <2>5, <2>6, <2>7 DEF SuccessIsReal, VoteCalls
<1> QED  BY <1>1, PagesKeepTrack, PTL

-----------------------------------------------------------------------------
(* Induction on the natural numbers, for the loops: about sets, not predicates. *)

\* A set that holds 0 and the successor of each of its numbers holds them all.
LEMMA SetInduction ==
    ASSUME NEW S, 0 \in S, \A n \in Nat : n \in S => n + 1 \in S
    PROVE  Nat \subseteq S
<1> DEFINE R == OpToRel(<, Nat)
           T == Nat \ S
<1>1. IsWellFoundedOn(R, Nat)  BY NatLessThanWellFounded
<1>2. \A x, y \in Nat : x < y => <<x, y>> \in R  BY DEF R, OpToRel
<1> HIDE DEF R
<1>3. CASE T # {}
  <2>1. PICK n \in T : \A m \in T : ~(<<m, n>> \in R)  BY <1>1, <1>3, WFMin
  <2>2. n \in Nat /\ n # 0 /\ n - 1 \in Nat /\ n - 1 \notin S  OBVIOUS
  <2>3. n - 1 < n  BY <2>2
  <2>4. <<n - 1, n>> \in R  BY <1>2, <2>2, <2>3
  <2> QED  BY <2>1, <2>2, <2>4
<1> QED  BY <1>3

-----------------------------------------------------------------------------
(* The sums of votes.                                                      *)

\* A sum adds one element after another: the sum of s from the sums g of smaller sets.
First(s) == CHOOSE x \in s : TRUE
SumStep(w, g, s) == IF s = {} THEN 0 ELSE w[First(s)] + g[s \ {First(s)}]
IsSums(w, A, g) == g = [s \in SUBSET A |-> SumStep(w, g, s)]

\* One element less is one set smaller.
LEMMA FirstFacts ==
    ASSUME NEW A, IsFiniteSet(A), NEW s \in SUBSET A
    PROVE  /\ IsFiniteSet(s) /\ Cardinality(s) \in Nat
           /\ s = {} <=> Cardinality(s) = 0
           /\ s # {} => /\ First(s) \in s
                        /\ s \ {First(s)} \in SUBSET A
                        /\ Cardinality(s \ {First(s)}) = Cardinality(s) - 1
<1>1. IsFiniteSet(s) /\ Cardinality(s) \in Nat  BY FS_Subset, FS_CardinalityType
<1>2. s = {} <=> Cardinality(s) = 0  BY <1>1, FS_EmptySet
<1>3. s # {} => First(s) \in s  BY DEF First
<1>4. s # {} => Cardinality(s \ {First(s)}) = Cardinality(s) - 1
  BY <1>1, <1>3, FS_RemoveElement
<1> QED  BY <1>1, <1>2, <1>3, <1>4

\* A set of no elements.
LEMMA NoneLeft ==
    ASSUME NEW A, IsFiniteSet(A), NEW s \in SUBSET A, Cardinality(s) <= 0
    PROVE  s = {}
<1>1. IsFiniteSet(s) /\ Cardinality(s) \in Nat  BY FS_Subset, FS_CardinalityType
<1>2. Cardinality(s) = 0  BY <1>1
<1> QED  BY <1>1, <1>2, FS_EmptySet

\* There is a table of the sums of all subsets.
LEMMA SumsExist ==
    ASSUME NEW A, IsFiniteSet(A), NEW w, \A a \in A : w[a] \in Nat
    PROVE  \E g \in [SUBSET A -> Nat] : IsSums(w, A, g)
<1> DEFINE Agrees(g, n) == \A s \in SUBSET A : Cardinality(s) <= n => g[s] = SumStep(w, g, s)
           S == {n \in Nat : \E g \in [SUBSET A -> Nat] : Agrees(g, n)}
<1>1. 0 \in S
  <2> DEFINE g == [s \in SUBSET A |-> 0]
  <2>1. g \in [SUBSET A -> Nat]  OBVIOUS
  <2>2. ASSUME NEW s \in SUBSET A, Cardinality(s) <= 0
        PROVE  g[s] = SumStep(w, g, s)
    <3>1. s = {}  BY <2>2, NoneLeft
    <3> QED  BY <3>1 DEF SumStep
  <2> HIDE DEF g
  <2>3. Agrees(g, 0)  BY <2>2
  <2> QED  BY <2>1, <2>3
<1>2. ASSUME NEW n \in Nat, n \in S
      PROVE  n + 1 \in S
  <2>1. PICK g \in [SUBSET A -> Nat] : Agrees(g, n)  BY <1>2
  <2> DEFINE h == [s \in SUBSET A |-> SumStep(w, g, s)]
  <2>2. ASSUME NEW s \in SUBSET A PROVE SumStep(w, g, s) \in Nat
    <3>1. CASE s = {}  BY <3>1 DEF SumStep
    <3>2. CASE s # {}
      <4>1. /\ w[First(s)] \in Nat /\ g[s \ {First(s)}] \in Nat
        BY <3>2, FirstFacts
      <4> QED  BY <3>2, <4>1 DEF SumStep
    <3> QED  BY <3>1, <3>2
  <2>3. h \in [SUBSET A -> Nat]  BY <2>2
  <2>4. \A s \in SUBSET A : h[s] = SumStep(w, g, s)  OBVIOUS
  <2> HIDE DEF h
  <2>5. ASSUME NEW s \in SUBSET A, Cardinality(s) <= n + 1
        PROVE  h[s] = SumStep(w, h, s)
    <3>1. CASE s = {}  BY <2>4, <3>1 DEF SumStep
    <3>2. CASE s # {}
      <4>1. /\ s \ {First(s)} \in SUBSET A
            /\ Cardinality(s \ {First(s)}) = Cardinality(s) - 1 /\ Cardinality(s) \in Nat
        BY <3>2, FirstFacts
      <4>2. Cardinality(s \ {First(s)}) <= n  BY <2>5, <4>1
      <4>3. h[s \ {First(s)}] = g[s \ {First(s)}]  BY <2>1, <2>4, <4>1, <4>2
      <4> QED  BY <2>4, <4>3 DEF SumStep
    <3> QED  BY <3>1, <3>2
  <2>6. Agrees(h, n + 1)  BY <2>5
  <2> QED  BY <2>3, <2>6
<1>3. Nat \subseteq S
  <2> HIDE DEF S
  <2> QED  BY <1>1, <1>2, SetInduction
<1>4. Cardinality(A) \in Nat  BY FS_CardinalityType
<1>5. PICK g \in [SUBSET A -> Nat] : Agrees(g, Cardinality(A))  BY <1>3, <1>4
<1>6. \A s \in SUBSET A : Cardinality(s) <= Cardinality(A)  BY FS_Subset
<1>7. \A s \in SUBSET A : g[s] = SumStep(w, g, s)  BY <1>5, <1>6
<1>8. g = [s \in SUBSET A |-> SumStep(w, g, s)]  BY <1>7
<1> QED  BY <1>8 DEF IsSums

\* The Alps of accounts as a table holds them.
LEMMA AlpsAre ==
    ASSUME NEW w, NEW A
    PROVE  Alps(w, A) = (CHOOSE h : IsSums(w, A, h))[A]
<1>1. Alps(w, A) = (CHOOSE h : h = [s \in SUBSET A |-> SumStep(w, h, s)])[A]
  BY DEF Alps, MapThenSumSet, MapThenFoldSet, SumStep, First
<1> QED  BY <1>1 DEF IsSums

\* Accounts have the same sum by two tables that agree on them.
LEMMA AlpsAgree ==
    ASSUME NEW w, NEW v, NEW A, \A a \in A : w[a] = v[a]
    PROVE  Alps(w, A) = Alps(v, A)
<1>1. ASSUME NEW g, NEW s \in SUBSET A PROVE SumStep(w, g, s) = SumStep(v, g, s)
  <2>1. s # {} => First(s) \in A  BY DEF First
  <2> QED  BY <2>1 DEF SumStep
<1>2. ASSUME NEW g PROVE IsSums(w, A, g) <=> IsSums(v, A, g)
  <2>1. [s \in SUBSET A |-> SumStep(w, g, s)] = [s \in SUBSET A |-> SumStep(v, g, s)]  BY <1>1
  <2> QED  BY <2>1 DEF IsSums
<1>3. (CHOOSE h : IsSums(w, A, h)) = (CHOOSE h : IsSums(v, A, h))  BY <1>2, Zenon
<1> QED  BY <1>3, AlpsAre

\* The Alps of accounts are a natural number.
LEMMA WeightNat ==
    ASSUME NEW A \in SUBSET Accounts
    PROVE  Alps(Balance, A) \in Nat
<1> DEFINE g == CHOOSE h : IsSums(Balance, A, h)
<1>1. IsFiniteSet(A)  BY VoteAssumption, FS_Subset
<1>2. \A a \in A : Balance[a] \in Nat  BY VoteAssumption
<1>3. Alps(Balance, A) = g[A]  BY AlpsAre
<1>4. PICK h \in [SUBSET A -> Nat] : IsSums(Balance, A, h)  BY <1>1, <1>2, SumsExist
<1>5. IsSums(Balance, A, g)  BY <1>4
<1> HIDE DEF g
<1>6. \A s \in SUBSET A : g[s] = SumStep(Balance, g, s)  BY <1>5 DEF IsSums
<1> DEFINE S == {n \in Nat : \A s \in SUBSET A : Cardinality(s) <= n => g[s] \in Nat}
<1>7. 0 \in S
  <2> SUFFICES ASSUME NEW s \in SUBSET A, Cardinality(s) <= 0 PROVE g[s] \in Nat
    OBVIOUS
  <2>1. s = {}  BY <1>1, NoneLeft
  <2>2. SumStep(Balance, g, s) = 0  BY <2>1 DEF SumStep
  <2>3. g[s] = 0  BY <1>6, <2>2
  <2> QED  BY <2>3
<1>8. ASSUME NEW n \in Nat, n \in S PROVE n + 1 \in S
  <2> SUFFICES ASSUME NEW s \in SUBSET A, Cardinality(s) <= n + 1 PROVE g[s] \in Nat
    OBVIOUS
  <2>1. CASE s = {}  BY <1>6, <2>1 DEF SumStep
  <2>2. CASE s # {}
    <3>1. /\ First(s) \in A /\ s \ {First(s)} \in SUBSET A
          /\ Cardinality(s \ {First(s)}) = Cardinality(s) - 1 /\ Cardinality(s) \in Nat
      BY <1>1, <2>2, FirstFacts
    <3>2. g[s \ {First(s)}] \in Nat /\ Balance[First(s)] \in Nat  BY <1>2, <1>8, <3>1
    <3>3. g[s] = Balance[First(s)] + g[s \ {First(s)}]  BY <1>6, <2>2 DEF SumStep
    <3> QED  BY <3>2, <3>3
  <2> QED  BY <2>1, <2>2
<1>9. Nat \subseteq S
  <2> HIDE DEF S
  <2> QED  BY <1>7, <1>8, SetInduction
<1>10. Cardinality(A) \in Nat  BY <1>1, FS_CardinalityType
<1> QED  BY <1>3, <1>9, <1>10

\* The parameters of a block on the way, and those that the window is answered.
LEMMA ParamsTyped ==
    /\ \A n \in 0..MaxBlock : ParamsAt[n] \in [min : Nat, max : Nat, coefficient : Nat]
    /\ Created \in 0..MaxBlock
<1>1. \A n \in 0..MaxBlock : ParamsAt[n] \in [min : Nat, max : Nat, coefficient : Nat]
  BY VoteAssumption
<1>2. Created \in 0..MaxBlock  BY VoteAssumption, NumbersAssumption
<1> QED  BY <1>1, <1>2

\* A quorum is a natural number.
LEMMA QuorumNat ==
    ASSUME NEW t \in Nat, NEW params \in [min : Nat, max : Nat, coefficient : Nat]
    PROVE  dynamicQuorumVotes(t, params) \in Nat
<1>1. /\ params.min \in Nat /\ params.max \in Nat /\ params.coefficient \in Nat
      /\ Supply \in Nat \ {0} /\ Unit \in Nat \ {0}
  BY VoteAssumption
<1> PICK bps : bps = (10000 * t) \div Supply  OBVIOUS
<1>2. bps \in Nat  BY <1>1, Division
<1> PICK p : p = params.coefficient * bps  OBVIOUS
<1>3. p \in Nat /\ p \div Unit \in Nat  BY <1>1, <1>2, Division
<1> PICK b : b = params.min + p \div Unit  OBVIOUS
<1> PICK f : f = IF b < params.max THEN b ELSE params.max  OBVIOUS
<1>4. f \in Nat  BY <1>1, <1>3
<1>5. f * Supply \in Nat  BY <1>1, <1>4
<1>6. (f * Supply) \div 10000 \in Nat  BY <1>5, Division
<1>7. dynamicQuorumVotes(t, params) = (f * Supply) \div 10000  BY DEF dynamicQuorumVotes
<1> QED  BY <1>6, <1>7

\* So are tallies and the votes of an account.
LEMMA VotesNat ==
    /\ \A s : Tally(s) \in Nat
    /\ \A a : Votes(a) \in Nat
    /\ QuorumVotes \in Nat
<1>1. \A s : Tally(s) \in Nat  BY WeightNat DEF Tally, Voters
<1>2. \A a : Votes(a) \in Nat  BY WeightNat DEF Votes
<1>3. QuorumVotes \in Nat  BY <1>1, ParamsTyped, QuorumNat DEF QuorumVotes
<1> QED  BY <1>1, <1>2, <1>3

-----------------------------------------------------------------------------
(* The proposal on the chain.                                              *)

\* The subgraph's status is that of the last event; votes are cast once the voting period
\* has begun, and only a proposal that has passed is queued.
GovInv ==
    /\ gov.vetoed => gov.status = "Vetoed"
    /\ ~gov.vetoed /\ gov.canceled => gov.status = "Cancelled"
    /\ ~gov.vetoed /\ ~gov.canceled =>
         gov.status = IF gov.executed THEN "Executed" ELSE IF gov.eta # None THEN "Queued"
                      ELSE IF \E a \in Accounts : gov.votes[a] # None THEN "Active" ELSE "Pending"
    /\ \A a \in Accounts : gov.votes[a] # None => block > Start
    /\ gov.executed => gov.eta # None
    /\ gov.eta # None => /\ block > Start /\ block > End
                         /\ ~(Tally(1) <= Tally(0)) /\ ~(Tally(1) < QuorumVotes)

\* What the states of the governor mean.
LEMMA StateMeans ==
    ASSUME NEW n
    PROVE  /\ StateAt(n) = "Active" => ~gov.vetoed /\ ~gov.canceled /\ ~(n <= Start) /\ n <= End
           /\ StateAt(n) = "Succeeded" => /\ ~gov.vetoed /\ ~gov.canceled /\ ~(n <= Start) /\ ~(n <= End)
                                          /\ ~(Tally(1) <= Tally(0)) /\ ~(Tally(1) < QuorumVotes)
                                          /\ gov.eta = None
           /\ StateAt(n) = "Queued" => /\ ~gov.vetoed /\ ~gov.canceled /\ gov.eta # None
                                       /\ ~gov.executed
BY DEF StateAt

LEMMA TalliesStay ==
    ASSUME gov'.votes = gov.votes
    PROVE  Tally(0)' = Tally(0) /\ Tally(1)' = Tally(1) /\ QuorumVotes' = QuorumVotes
<1>1. Tally(0)' = Tally(0) /\ Tally(1)' = Tally(1)  BY DEF Tally, Voters
<1> QED  BY <1>1 DEF QuorumVotes

\* What holds of the next block.
LEMMA NextFacts ==
    ASSUME block \in Nat
    PROVE  /\ next \in Nat /\ next >= block
           /\ next <= End => next = block + 1
           /\ next = block => block > End
BY NumbersAssumption, VoteAssumption DEF next

\* A transaction the chain takes moves the proposal on as the governor does.
LEMMA EffectGov ==
    ASSUME NEW call, NEW who, NEW arg, ChainTyped, GovInv, Accepts(call, who, arg),
           Effect(call, who, arg),
           call \in VoteCalls => who \in Accounts /\ arg \in Supports,
           call \in {"cancel", "veto"} => ~gov.executed /\ ~gov.vetoed
    PROVE  GovInv'
<1>1. block \in Nat /\ next \in Nat /\ next >= block /\ block' = next /\ Start \in Nat /\ End \in Nat
  BY NextFacts, VoteAssumption DEF ChainTyped, Effect
<1>2. None \notin Supports  BY NoneIsNone
<1>3. CASE call \in VoteCalls
  <2>1. StateAt(next) = "Active" /\ gov.votes[who] = None  BY <1>3 DEF Accepts, VoteCalls
  <2>2. gov' = [gov EXCEPT !.votes[who] = arg, !.status = IF @ = "Pending" THEN "Active" ELSE @]
    BY <1>3 DEF Effect, VoteCalls
  <2>3. ~gov.vetoed /\ ~gov.canceled /\ next > Start /\ next <= End  BY <1>1, <2>1, StateMeans
  <2>4. gov.eta = None /\ ~gov.executed  BY <1>1, <2>3 DEF GovInv
  <2>5. /\ gov'.votes[who] = arg /\ gov'.eta = None /\ ~gov'.executed /\ ~gov'.vetoed /\ ~gov'.canceled
        /\ gov'.status = IF gov.status = "Pending" THEN "Active" ELSE gov.status
    BY <1>3, <2>2, <2>3, <2>4 DEF ChainTyped
  <2>6. gov.status \in {"Active", "Pending"}  BY <2>3, <2>4 DEF GovInv
  <2>7. gov'.status = "Active" /\ \E a \in Accounts : gov'.votes[a] # None
    BY <1>2, <1>3, <2>5, <2>6
  <2> QED  BY <1>1, <2>3, <2>5, <2>7 DEF GovInv
<1>4. CASE call = "queue"
  <2>1. StateAt(next) = "Succeeded"  BY <1>4 DEF Accepts
  <2>2. gov' = [gov EXCEPT !.eta = next + Delay, !.status = "Queued"]  BY <1>4 DEF Effect
  <2>3. /\ ~gov.vetoed /\ ~gov.canceled /\ next > Start /\ next > End /\ gov.eta = None
        /\ ~(Tally(1) <= Tally(0)) /\ ~(Tally(1) < QuorumVotes)
    BY <1>1, <2>1, StateMeans
  <2>4. next + Delay \in Nat  BY <1>1, NumbersAssumption
  <2>5. /\ gov'.votes = gov.votes /\ gov'.eta # None /\ gov'.executed = gov.executed
        /\ ~gov'.vetoed /\ ~gov'.canceled /\ gov'.status = "Queued"
    BY <2>2, <2>3, <2>4, NoneAssumption DEF ChainTyped
  <2>6. ~gov.executed  BY <2>3 DEF GovInv
  <2>7. ~(Tally(1) <= Tally(0))' /\ ~(Tally(1) < QuorumVotes)'  BY <2>3, <2>5, TalliesStay
  <2> QED  BY <1>1, <2>3, <2>5, <2>6, <2>7 DEF GovInv
<1>5. CASE call = "execute"
  <2>1. StateAt(next) = "Queued"  BY <1>5 DEF Accepts
  <2>2. gov' = [gov EXCEPT !.executed = TRUE, !.status = "Executed"]  BY <1>5 DEF Effect
  <2>3. ~gov.vetoed /\ ~gov.canceled /\ gov.eta # None  BY <2>1, StateMeans
  <2>4. /\ gov'.votes = gov.votes /\ gov'.eta = gov.eta /\ gov'.executed
        /\ ~gov'.vetoed /\ ~gov'.canceled /\ gov'.status = "Executed"
    BY <2>2, <2>3 DEF ChainTyped
  <2>5. /\ block > Start /\ block > End /\ ~(Tally(1) <= Tally(0)) /\ ~(Tally(1) < QuorumVotes)
    BY <2>3 DEF GovInv
  <2>6. ~(Tally(1) <= Tally(0))' /\ ~(Tally(1) < QuorumVotes)'  BY <2>4, <2>5, TalliesStay
  <2> QED  BY <1>1, <2>3, <2>4, <2>5, <2>6 DEF GovInv
<1>6. CASE call \notin VoteCalls \cup {"queue", "execute"}
  <2>1. \/ call = "cancel" /\ gov' = [gov EXCEPT !.canceled = TRUE, !.status = "Cancelled"]
        \/ call = "veto" /\ gov' = [gov EXCEPT !.vetoed = TRUE, !.status = "Vetoed"]
        \/ gov' = gov
    BY <1>6 DEF Effect, VoteCalls
  <2>2. gov'.votes = gov.votes /\ gov'.eta = gov.eta /\ gov'.executed = gov.executed
    BY <2>1 DEF ChainTyped
  <2>3. \/ gov'.canceled /\ ~gov'.vetoed /\ gov'.status = "Cancelled"
        \/ gov'.vetoed /\ gov'.status = "Vetoed"
        \/ gov' = gov
    BY <2>1 DEF ChainTyped
  <2>4. (Tally(0)' = Tally(0) /\ Tally(1)' = Tally(1)) /\ QuorumVotes' = QuorumVotes
    BY <2>2, TalliesStay
  <2>5. /\ gov'.vetoed => gov'.status = "Vetoed"
        /\ ~gov'.vetoed /\ gov'.canceled => gov'.status = "Cancelled"
        /\ ~gov'.vetoed /\ ~gov'.canceled =>
             gov'.status = IF gov'.executed THEN "Executed" ELSE IF gov'.eta # None THEN "Queued"
                  ELSE IF \E a \in Accounts : gov'.votes[a] # None THEN "Active" ELSE "Pending"
    BY <2>3 DEF GovInv
  <2>6. /\ \A a \in Accounts : gov'.votes[a] # None => block' > Start
        /\ gov'.executed => gov'.eta # None
    BY <1>1, <2>2 DEF GovInv
  <2>7. gov'.eta # None => /\ block' > Start /\ block' > End
                           /\ ~(Tally(1) <= Tally(0))' /\ ~(Tally(1) < QuorumVotes)'
    BY <1>1, <2>2, <2>4 DEF GovInv
  <2> QED  BY <2>5, <2>6, <2>7 DEF GovInv
<1> QED  BY <1>3, <1>4, <1>5, <1>6

\* Each account delegates to an account, and only that is asked for.
DelegatesInv ==
    /\ delegates \in [Accounts -> Accounts]
    /\ \A d \in DOMAIN deeds : deeds[d].call = "delegate" => deeds[d].arg \in Accounts

LEMMA EffectDelegates ==
    ASSUME NEW call, NEW who, NEW arg, Effect(call, who, arg), DelegatesInv,
           call = "delegate" => who \in Accounts /\ arg \in Accounts
    PROVE  delegates' \in [Accounts -> Accounts]
BY DEF Effect, DelegatesInv

\* What the subgraph holds of the proposal.
LEMMA EntityTyped ==
    ASSUME ChainTyped
    PROVE  Entity \in Entities
<1>1. gov.status \in States /\ gov.eta \in Nat \cup {None}  BY DEF ChainTyped, States
<1> PICK v : v = {x \in [voter : Accounts, support : 0..2] : x.voter \in Voters(x.support)}
  OBVIOUS
<1>2. v \in SUBSET [voter : Accounts, support : 0..2]  OBVIOUS
<1>3. Tally(0) \in Nat /\ Tally(1) \in Nat /\ Tally(2) \in Nat /\ QuorumVotes \in Nat  BY VotesNat
<1>4. Entity = [id |-> 1, status |-> gov.status, proposer |-> Proposer,
                forVotes |-> Tally(1), againstVotes |-> Tally(0), abstainVotes |-> Tally(2),
                createdBlock |-> Created, startBlock |-> Start, endBlock |-> End,
                eta |-> gov.eta, quorumVotes |-> QuorumVotes, voters |-> v]
  BY DEF Entity
<1> QED  BY <1>1, <1>2, <1>3, <1>4 DEF Entities

-----------------------------------------------------------------------------
(* The answers.                                                            *)

\* A request of the hook is under way, or the hook holds what is still so.
Held(hook, key) == <<hook, key>> \in asked \/ got[hook] = Answer(hook, key)

\* A page that is not open has asked for nothing.
NotYet == got = Nothing /\ \A q \in asked : q[1] = "logs"

\* What an open page reads is under way or as it is on the chain: what it asks when it is
\* opened, what it asks about the account it shows, and what answers made it ask. The time
\* that is awaited is that of the block there is.
Fresh ==
    /\ \A hook \in PageHooks : Held(hook, None)
    /\ \A hook \in AccountHooks(got) : account # None \/ hook = "votes" => Held(hook, account)
    /\ \A q \in asked : q[1] = "time" => q[2] = block /\ got["block"] # None
    /\ got["block"] # None => Held("time", block)
    /\ page = "vote" /\ got["proposals"] # None => Held("quorum", 1)

FreshInv == off \/ IF ui = None THEN NotYet ELSE Fresh

\* What the quorum window reads: the lists of the Alps of the voters there are, asked for
\* once the proposal is there, and the parameters at the start of the vote.
VoterIds == {v.voter : v \in Entity.voters}
VotersFresh ==
    /\ page = "vote" /\ got["proposals"] # None /\ VoterIds # {} =>
          <<"represented", VoterIds>> \in asked \/ got["represented"] # None
    /\ got["represented"] \in {None, [a \in VoterIds |-> Balance[a]]}
    /\ got["quorumParams"] \in {None, getDynamicQuorumParamsAt(Start)}
    /\ \A q \in asked :
          /\ q[1] = "proposals" => q = <<"proposals", None>> /\ got["proposals"] = None
          /\ q[1] = "represented" => q[2] = VoterIds /\ got["proposals"] # None
          /\ q[1] = "quorumParams" => q[2] = Start

VotersInv == off \/ ui = None \/ VotersFresh

\* The requests that pages which read the chain do not wait for.
Aside == {"abi", "name", "logs", "quorumParams"}
Beside(q) == q[1] \in Aside /\ (~off /\ q[1] = "quorumParams" => q[2] = Start)

LEMMA PageHooksAre ==
    PageHooks \subseteq {"proposals", "block", "threshold", "count"}
BY DEF PageHooks

LEMMA AccountHooksAre ==
    ASSUME page \in Pages, NEW g
    PROVE  AccountHooks(g) \subseteq {"receipt", "priorVotes", "votes", "balance", "delegate"}
BY PagesAssumption DEF AccountHooks

\* An answer says the same as long as the chain does.
LEMMA AnswersStay ==
    ASSUME UNCHANGED chain, NEW hook, NEW key
    PROVE  Answer(hook, key)' = Answer(hook, key)
<1>1. block' = block /\ gov' = gov /\ delegates' = delegates  BY DEF chain
<1>2. QuorumVotes' = QuorumVotes /\ Tally(0)' = Tally(0) /\ Tally(1)' = Tally(1)
  BY <1>1, TalliesStay
<1>3. Tally(2)' = Tally(2) /\ Votes(key)' = Votes(key)  BY <1>1 DEF Tally, Votes, Voters
<1>4. Entity' = Entity  BY <1>1, <1>2, <1>3 DEF Entity, Voters
<1>5. getDynamicQuorumParamsAt(key)' = getDynamicQuorumParamsAt(key)
  BY <1>1 DEF getDynamicQuorumParamsAt
<1> QED  BY <1>1, <1>2, <1>3, <1>4, <1>5 DEF Answer

\* No answer is mistaken for the absence of one.
LEMMA AnswersThere ==
    ASSUME ChainTyped, DelegatesInv, page \in Pages, account \in Mine \cup {None}
    PROVE  /\ \A hook \in PageHooks : Answer(hook, None) # None
           /\ \A hook \in AccountHooks(got) : account # None \/ hook = "votes" =>
                 Answer(hook, account) # None
<1>1. ASSUME NEW hook \in {"proposals", "block", "threshold", "count"}
      PROVE  Answer(hook, None) # None
  <2>1. CASE hook = "proposals"
    <3>1. <<Entity>> \in Seq(Entities)  BY EntityTyped
    <3>2. <<Entity>> # None  BY <3>1, AnswersAssumption
    <3>3. Answer(hook, None) = <<Entity>>  BY <2>1 DEF Answer
    <3> QED  BY <3>2, <3>3
  <2>2. CASE hook = "block"
    <3>1. Answer(hook, None) = block  BY <2>2 DEF Answer
    <3> QED  BY <3>1, NoneAssumption DEF ChainTyped
  <2>3. CASE hook = "threshold"
    <3>1. Answer(hook, None) = Threshold  BY <2>3 DEF Answer
    <3> QED  BY <3>1, NoneAssumption, VoteAssumption
  <2>4. CASE hook = "count"
    <3>1. Answer(hook, None) = 1  BY <2>4 DEF Answer
    <3> QED  BY <3>1, NoneAssumption
  <2> QED  BY <2>1, <2>2, <2>3, <2>4
<1>2. ASSUME NEW hook \in {"receipt", "priorVotes", "votes", "balance", "delegate"},
             account # None \/ hook = "votes"
      PROVE  Answer(hook, account) # None
  <2>1. account # None => account \in Accounts  BY DEF Accounts
  <2>2. CASE hook = "receipt"
    <3>1. gov.votes[account] # None => gov.votes[account] \in 0..2
      BY <1>2, <2>1, <2>2, NumbersAssumption DEF ChainTyped
    <3>2. Answer(hook, account) =
              [hasVoted |-> gov.votes[account] # None,
               support |-> IF gov.votes[account] = None THEN 0 ELSE gov.votes[account]]
      BY <2>2 DEF Answer
    <3>3. Answer(hook, account) \in Receipts  BY <3>1, <3>2 DEF Receipts
    <3> QED  BY <3>3, NoneAssumption
  <2>3. CASE hook \in {"priorVotes", "balance"}
    <3>1. Answer(hook, account) = Balance[account]  BY <2>3 DEF Answer
    <3>2. Balance[account] \in Nat  BY <1>2, <2>1, <2>3, VoteAssumption
    <3> QED  BY <3>1, <3>2, NoneAssumption
  <2>4. CASE hook = "votes"
    <3>1. Answer(hook, account) = IF account = None THEN 0 ELSE Votes(account)  BY <2>4 DEF Answer
    <3>2. Answer(hook, account) \in Nat  BY <3>1, VotesNat
    <3> QED  BY <3>2, NoneAssumption
  <2>5. CASE hook = "delegate"
    <3>1. Answer(hook, account) = delegates[account]  BY <2>5 DEF Answer
    <3>2. delegates[account] \in Accounts  BY <1>2, <2>1, <2>5 DEF DelegatesInv
    <3> QED  BY <3>1, <3>2, NoneAssumption
  <2> QED  BY <2>2, <2>3, <2>4, <2>5
<1> QED  BY <1>1, <1>2, PageHooksAre, AccountHooksAre

\* What is held stays so while the chain stands still.
LEMMA HeldStays ==
    ASSUME UNCHANGED chain, NEW hook, NEW key, got'[hook] = got[hook], Held(hook, key),
           <<hook, key>> \in asked => <<hook, key>> \in asked'
    PROVE  Held(hook, key)'
BY AnswersStay DEF Held

\* The same, about the account and the block there are.
LEMMA HeldNow ==
    ASSUME NEW a, account' = a, NEW b, block' = b, NEW hook
    PROVE  /\ Held(hook, a)' => Held(hook, account)'
           /\ Held(hook, b)' => Held(hook, block)'
BY DEF Held, Answer

\* The page reads the same.
LEMMA SamePage ==
    ASSUME page' = page, got' = got
    PROVE  PageHooks' = PageHooks /\ AccountHooks(got)' = AccountHooks(got)
BY DEF PageHooks, AccountHooks

\* Steps that are about other requests leave what the page reads alone.
LEMMA QuietKeeps ==
    ASSUME page \in Pages, FreshInv, UNCHANGED <<chain, page, account, got, off>>,
           ui' = None <=> ui = None,
           \A q \in asked' : q \in asked \/ (Beside(q) /\ (ui # None \/ q[1] = "logs")),
           \A q \in asked : q \in asked' \/ q[1] \in Aside
    PROVE  FreshInv'
<1>1. CASE off  BY <1>1 DEF FreshInv
<1>2. CASE ~off /\ ui = None
  <2>1. NotYet  BY <1>2 DEF FreshInv
  <2>2. NotYet'  BY <1>2, <2>1 DEF NotYet
  <2> QED  BY <1>2, <2>2 DEF FreshInv
<1>3. CASE ~off /\ ui # None
  <2> PICK a : a = account  OBVIOUS
  <2> PICK b : b = block  OBVIOUS
  <2>1. Fresh /\ account' = a /\ block' = b  BY <1>3 DEF FreshInv, chain
  <2>2. ASSUME NEW hook, hook \notin Aside, NEW key, Held(hook, key) PROVE Held(hook, key)'
    <3>1. <<hook, key>> \in asked => <<hook, key>> \in asked'
      <4> PICK q : q = <<hook, key>>  OBVIOUS
      <4>1. q[1] = hook  OBVIOUS
      <4> QED  BY <2>2, <4>1
    <3> QED  BY <2>2, <3>1, HeldStays
  <2>3. PageHooks' = PageHooks /\ AccountHooks(got)' = AccountHooks(got)  BY SamePage
  <2>4. \A hook \in PageHooks' : Held(hook, None)'
    BY <2>1, <2>2, <2>3, PageHooksAre DEF Fresh, Aside
  <2>5. \A hook \in AccountHooks(got)' : a # None \/ hook = "votes" => Held(hook, a)'
    BY <2>1, <2>2, <2>3, AccountHooksAre DEF Fresh, Aside
  <2>6. \A hook \in AccountHooks(got)' : account' # None \/ hook = "votes" => Held(hook, account)'
    BY <2>1, <2>5, HeldNow
  <2>7. \A q \in asked' : q[1] = "time" => q[2] = block' /\ got'["block"] # None
    BY <2>1 DEF Fresh, Aside, Beside
  <2>8. got'["block"] # None => Held("time", block)'
    <3>1. got'["block"] # None => Held("time", b)'  BY <2>1, <2>2 DEF Fresh, Aside
    <3> QED  BY <2>1, <3>1, HeldNow
  <2>9. page' = "vote" /\ got'["proposals"] # None => Held("quorum", 1)'
    BY <2>1, <2>2 DEF Fresh, Aside
  <2>10. Fresh'  BY <2>1, <2>4, <2>6, <2>7, <2>8, <2>9 DEF Fresh
  <2> QED  BY <1>3, <2>10 DEF FreshInv
<1> QED  BY <1>1, <1>2, <1>3

\* The chain moves on before a page knows anything, or makes what it knows out of date.
LEMMA ChainFresh ==
    ASSUME WebInv, DelegatesInv, FreshInv, Outdated, UNCHANGED <<page, account, asked, got, ui>>
    PROVE  FreshInv'
<1>1. CASE off'  BY <1>1 DEF FreshInv
<1>2. CASE ~off'
  <2>1. ~off /\ \A hook \in Hooks : got[hook] = None
    BY <1>2 DEF Outdated, WebInv, LogsInv
  <2>2. CASE ui = None
    <3>1. NotYet'  BY <2>1, <2>2 DEF FreshInv, NotYet
    <3> QED  BY <2>2, <3>1 DEF FreshInv
  <2>3. CASE ui # None
    <3>1. Fresh  BY <2>1, <2>3 DEF FreshInv
    <3>2. PageHooks' = PageHooks /\ AccountHooks(got)' = AccountHooks(got)  BY SamePage
    <3>3. page \in Pages /\ account \in Mine \cup {None}  BY DEF WebInv, TabTyped
    <3>4. /\ \A hook \in PageHooks : Answer(hook, None) # None
          /\ \A hook \in AccountHooks(got) : account # None \/ hook = "votes" =>
                Answer(hook, account) # None
      BY <3>3, AnswersThere DEF WebInv
    <3>5. \A hook \in PageHooks : <<hook, None>> \in asked
      BY <2>1, <3>1, <3>4, PageHooksAre DEF Fresh, Held, Hooks
    <3>6. \A hook \in AccountHooks(got) : account # None \/ hook = "votes" => <<hook, account>> \in asked
      BY <2>1, <3>1, <3>3, <3>4, AccountHooksAre DEF Fresh, Held, Hooks
    <3>7. \A hook \in PageHooks' : Held(hook, None)'  BY <3>2, <3>5 DEF Held
    <3>8. \A hook \in AccountHooks(got)' : account' # None \/ hook = "votes" => Held(hook, account)'
      BY <3>2, <3>6 DEF Held
    <3>9. /\ got'["block"] = None /\ got'["proposals"] = None
          /\ \A q \in asked' : q[1] # "time"
      BY <2>1, <3>1 DEF Fresh, Hooks
    <3>10. Fresh'  BY <3>7, <3>8, <3>9 DEF Fresh
    <3> QED  BY <2>3, <3>10 DEF FreshInv
  <2> QED  BY <2>2, <2>3
<1> QED  BY <1>1, <1>2

\* An open page has asked for all it reads.
LEMMA OpenFresh ==
    ASSUME WebInv, FreshInv, Open, ui' # None
    PROVE  FreshInv'
<1>1. CASE off  BY <1>1 DEF FreshInv, Open
<1>2. CASE ~off
  <2>1. NotYet /\ got' = got /\ page' = page /\ account' = account /\ page \in Pages
    BY <1>2 DEF FreshInv, Open, WebInv, TabTyped
  <2>2. \A hook \in Hooks : got'[hook] = None  BY <2>1 DEF NotYet, Nothing
  <2>3. PageHooks' = PageHooks /\ AccountHooks(got)' = AccountHooks(got)  BY <2>1, SamePage
  <2>4. \A hook \in PageHooks' : Held(hook, None)'  BY <2>3 DEF Open, Held
  <2>5. \A hook \in AccountHooks(got) : account # None \/ hook = "votes" => <<hook, account>> \in asked'
    BY DEF Open, AskFor
  <2>6. \A hook \in AccountHooks(got)' : account' # None \/ hook = "votes" => Held(hook, account)'
    BY <2>1, <2>3, <2>5 DEF Held
  <2>7. \A q \in asked' : q[1] # "time"
    <3>1. PICK r : r = IF page = "delegate" /\ ui'.address # None THEN {<<"name", ui'.address>>} ELSE {}
      OBVIOUS
    <3>2. asked' = {<<hook, None>> : hook \in PageHooks} \cup AskFor(account) \cup r  BY <3>1 DEF Open
    <3>3. \A q \in r : q[1] = "name"  BY <3>1
    <3>4. \A q \in AskFor(account) : q[1] # "time"  BY <2>1, AccountHooksAre DEF AskFor
    <3> QED  BY <3>2, <3>3, <3>4, PageHooksAre
  <2>8. got'["block"] = None /\ got'["proposals"] = None
    BY <2>2 DEF Hooks
  <2>9. Fresh'  BY <2>4, <2>6, <2>7, <2>8 DEF Fresh
  <2> QED  BY <2>9 DEF FreshInv
<1> QED  BY <1>1, <1>2

\* What an answer makes the page ask.
LEMMA FollowFacts ==
    ASSUME NEW hook, NEW more \in Follow(hook)
    PROVE  /\ hook = "block" => <<"time", block>> \in more
           /\ \A q \in more :
                 /\ q[1] = "time" => hook = "block" /\ q[2] = block
                 /\ q[1] = "represented" => hook = "proposals" /\ q[2] = VoterIds
                 /\ q[1] \notin {"proposals", "quorumParams"}
           /\ hook = "proposals" /\ page = "vote" =>
                /\ <<"quorum", 1>> \in more
                /\ VoterIds # {} => <<"represented", VoterIds>> \in more
                /\ account # None => <<"receipt", account>> \in more /\ <<"priorVotes", account>> \in more
<1>1. CASE hook = "block"
  <2>1. more = {<<"time", block>>}  BY <1>1 DEF Follow
  <2> QED  BY <1>1, <2>1
<1>2. CASE hook = "proposals" /\ page = "vote"
  <2> DEFINE votes == IF account = None THEN {} ELSE {<<"receipt", account>>, <<"priorVotes", account>>}
             lists == IF Entity.voters = {} THEN {} ELSE {<<"represented", VoterIds>>}
             all == votes \cup lists \cup {<<"quorum", 1>>}
  <2>1. Follow(hook) = {all, all \cup {<<"quorum", 0>>}}
    BY <1>2 DEF Follow, VoterIds
  <2>2. more = all \/ more = all \cup {<<"quorum", 0>>}  BY <2>1
  <2>3. \A q \in more : q[1] # "time"  BY <2>2
  <2>4. \A q \in more : q[1] = "represented" => q[2] = VoterIds  BY <2>2
  <2>5. \A q \in more : q[1] \notin {"proposals", "quorumParams"}  BY <2>2
  <2>6. VoterIds # {} => Entity.voters # {}  BY DEF VoterIds
  <2> QED  BY <1>2, <2>2, <2>3, <2>4, <2>5, <2>6
<1>3. CASE hook # "block" /\ ~(hook = "proposals" /\ page = "vote")
  <2>1. more = {}  BY <1>3 DEF Follow
  <2> QED  BY <1>3, <2>1
<1> QED  BY <1>1, <1>2, <1>3

\* An answer that is not overtaken leaves the page with what is so, or asks what it needs.
LEMMA AnsweredFresh ==
    ASSUME WebInv, DelegatesInv, FreshInv, NEW hook \in Hooks, NEW key, Answered(hook, key)
    PROVE  FreshInv'
<1>1. CASE off'  BY <1>1 DEF FreshInv
<1>2. CASE ~off'
  <2> PICK a : a = account  OBVIOUS
  <2> PICK b : b = block  OBVIOUS
  <2>1. ~off /\ ~Overtaken(hook, key) /\ <<hook, key>> \in asked  BY <1>2 DEF Answered
  <2>2. ui # None
    <3>1. SUFFICES ASSUME ui = None PROVE FALSE  OBVIOUS
    <3>2. NotYet  BY <2>1, <3>1 DEF FreshInv
    <3> PICK q : q = <<hook, key>>  OBVIOUS
    <3>3. q[1] = "logs" /\ q[1] = hook  BY <2>1, <3>2 DEF NotYet
    <3> QED  BY <3>3 DEF Hooks
  <2>3. Fresh  BY <2>1, <2>2 DEF FreshInv
  <2>4. /\ UNCHANGED chain /\ page' = page /\ account' = a /\ ui' = ui /\ block' = b
        /\ got' = [got EXCEPT ![hook] = Answer(hook, key)] /\ DOMAIN got = Hooks
    BY DEF Answered, WebInv, LogsInv, chain
  <2>5. PICK more \in Follow(hook) : asked' = (asked \ {<<hook, key>>}) \cup more
    BY DEF Answered
  <2>6. page \in Pages /\ account \in Mine \cup {None} /\ block \in Nat
    BY DEF WebInv, TabTyped, ChainTyped
  <2>7. got'[hook] = Answer(hook, key) /\ \A h \in Hooks : h # hook => got'[h] = got[h]
    BY <2>4
  <2>8. ASSUME NEW h \in Hooks, NEW k, h # hook, Held(h, k) PROVE Held(h, k)'
    <3>1. <<h, k>> \in asked => <<h, k>> \in asked'  BY <2>5, <2>8
    <3> QED  BY <2>4, <2>7, <2>8, <3>1, HeldStays
  <2>9. ASSUME NEW k, Answer(hook, k) = Answer(hook, key) PROVE Held(hook, k)'
    <3>1. got'[hook] = Answer(hook, k)  BY <2>7, <2>9
    <3>2. Answer(hook, k)' = Answer(hook, k)  BY <2>4, AnswersStay
    <3> QED  BY <3>1, <3>2 DEF Held
  <2>10. ASSUME NEW k, k # key, <<hook, k>> \in asked PROVE Held(hook, k)'
    BY <2>5, <2>10 DEF Held
  <2>11. \A h \in PageHooks' : Held(h, None)'
    <3> SUFFICES ASSUME NEW h \in PageHooks PROVE Held(h, None)'  BY <2>4 DEF PageHooks
    <3>1. h \in {"proposals", "block", "threshold", "count"} /\ h \in Hooks
      BY PageHooksAre DEF Hooks
    <3>2. CASE h # hook  BY <2>3, <2>8, <3>1, <3>2 DEF Fresh
    <3>3. CASE h = hook
      <4>1. Answer(hook, None) = Answer(hook, key)  BY <3>1, <3>3 DEF Answer
      <4> QED  BY <2>9, <3>3, <4>1
    <3> QED  BY <3>2, <3>3
  <2>12. \A h \in AccountHooks(got)' : a # None \/ h = "votes" => Held(h, a)'
    <3>1. CASE page = "vote" /\ hook = "proposals"
      <4>1. AccountHooks(got)' \subseteq {"receipt", "priorVotes"}  BY <2>4, <3>1 DEF AccountHooks
      <4>2. a # None => <<"receipt", a>> \in asked' /\ <<"priorVotes", a>> \in asked'
        BY <2>5, <3>1, FollowFacts
      <4> QED  BY <4>1, <4>2 DEF Held
    <3>2. CASE ~(page = "vote" /\ hook = "proposals")
      <4>1. AccountHooks(got)' = AccountHooks(got)
        <5>1. hook # "proposals" => got'["proposals"] = got["proposals"]  BY <2>7 DEF Hooks
        <5> QED  BY <2>4, <2>6, <3>2, <5>1, PagesAssumption DEF AccountHooks
      <4> SUFFICES ASSUME NEW h \in AccountHooks(got), a # None \/ h = "votes" PROVE Held(h, a)'
        BY <4>1
      <4>2. h \in {"receipt", "priorVotes", "votes", "balance", "delegate"} /\ h \in Hooks
        BY <2>6, AccountHooksAre DEF Hooks
      <4>3. Held(h, a)  BY <2>3 DEF Fresh
      <4>4. CASE h # hook  BY <2>8, <4>2, <4>3, <4>4
      <4>5. CASE h = hook /\ key = a  BY <2>9, <4>5
      <4>6. CASE h = hook /\ key # a
        <5>1. <<hook, a>> \in asked  BY <2>1, <4>2, <4>6 DEF Overtaken, ByAccount
        <5> QED  BY <2>10, <4>6, <5>1
      <4> QED  BY <4>4, <4>5, <4>6
    <3> QED  BY <3>1, <3>2
  <2>13. \A h \in AccountHooks(got)' : account' # None \/ h = "votes" => Held(h, account)'
    BY <2>4, <2>12, HeldNow
  <2>14. \A q \in asked' : q[1] = "time" => q[2] = block' /\ got'["block"] # None
    <3> SUFFICES ASSUME NEW q \in asked', q[1] = "time" PROVE q[2] = b /\ got'["block"] # None
      BY <2>4
    <3>1. CASE hook = "block"
      <4>1. Answer(hook, key) = b  BY <3>1 DEF Answer
      <4>2. got'["block"] # None  BY <2>6, <2>7, <3>1, <4>1, NoneAssumption
      <4>3. q \in asked => q[2] = b  BY <2>3 DEF Fresh
      <4>4. q \in more => q[2] = b
        <5>1. ASSUME q \in more PROVE q[2] = block  BY <2>5, <5>1, FollowFacts
        <5> QED  BY <5>1
      <4> QED  BY <2>5, <4>2, <4>3, <4>4
    <3>2. CASE hook # "block"
      <4>1. got'["block"] = got["block"]  BY <2>7, <3>2 DEF Hooks
      <4>3. q \notin more
        <5>1. ASSUME q \in more PROVE hook = "block"  BY <2>5, <5>1, FollowFacts
        <5> QED  BY <3>2, <5>1
      <4>2. q \in asked  BY <2>5, <4>3
      <4> QED  BY <2>3, <4>1, <4>2 DEF Fresh
    <3> QED  BY <3>1, <3>2
  <2>15. got'["block"] # None => Held("time", block)'
    <3> SUFFICES ASSUME got'["block"] # None PROVE Held("time", b)'  BY <2>4, HeldNow
    <3>1. CASE hook = "block"
      <4>1. <<"time", b>> \in asked'  BY <2>5, <3>1, FollowFacts
      <4> QED  BY <4>1 DEF Held
    <3>2. CASE hook # "block"
      <4>1. Held("time", b)  BY <2>3, <2>7, <3>2 DEF Fresh, Hooks
      <4>2. CASE hook # "time"  BY <2>8, <4>1, <4>2 DEF Hooks
      <4>3. CASE hook = "time"
        <5> PICK q : q = <<hook, key>>  OBVIOUS
        <5>1. q \in asked /\ q[1] = "time" /\ q[2] = key  BY <2>1, <4>3
        <5>2. key = b  BY <2>3, <5>1 DEF Fresh
        <5> QED  BY <2>9, <4>3, <5>2
      <4> QED  BY <4>2, <4>3
    <3> QED  BY <3>1, <3>2
  <2>16. page' = "vote" /\ got'["proposals"] # None => Held("quorum", 1)'
    <3> SUFFICES ASSUME page = "vote", got'["proposals"] # None PROVE Held("quorum", 1)'  BY <2>4
    <3>1. CASE hook = "proposals"
      <4>1. <<"quorum", 1>> \in asked'  BY <2>5, <3>1, FollowFacts
      <4> QED  BY <4>1 DEF Held
    <3>2. CASE hook # "proposals"
      <4>1. Held("quorum", 1)  BY <2>3, <2>7, <3>2 DEF Fresh, Hooks
      <4>2. CASE hook # "quorum"  BY <2>8, <4>1, <4>2 DEF Hooks
      <4>3. CASE hook = "quorum" /\ key = 0
        <5>1. <<hook, 1>> \in asked  BY <2>1, <4>3 DEF Overtaken
        <5> QED  BY <2>10, <4>3, <5>1
      <4>4. CASE hook = "quorum" /\ key # 0
        <5>1. Answer(hook, 1) = Answer(hook, key)  BY <4>4 DEF Answer
        <5> QED  BY <2>9, <4>4, <5>1
      <4> QED  BY <4>2, <4>3, <4>4
    <3> QED  BY <3>1, <3>2
  <2>17. Fresh'  BY <2>11, <2>13, <2>14, <2>15, <2>16 DEF Fresh
  <2> QED  BY <2>2, <2>4, <2>17 DEF FreshInv
<1> QED  BY <1>1, <1>2

\* Another account is asked about, and what was known of one that left is forgotten.
LEMMA AccountFresh ==
    ASSUME WebInv, FreshInv, ui # None, NEW a \in Mine \cup {None}, Account(a)
    PROVE  FreshInv'
<1>1. CASE off  BY <1>1 DEF FreshInv, Account
<1>2. CASE ~off
  <2> PICK b : b = block  OBVIOUS
  <2>1. Fresh /\ page \in Pages /\ DOMAIN got = Hooks
    BY <1>2 DEF FreshInv, WebInv, TabTyped, LogsInv
  <2>2. /\ UNCHANGED chain /\ page' = page /\ account' = a /\ ui' = ui /\ block' = b
        /\ asked' = asked \cup AskFor(a)
    BY DEF Account, chain
  <2>3. \A h \in Hooks : h \notin AccountHooks(got) => got'[h] = got[h]  BY <2>1 DEF Account
  <2>4. \A q \in AskFor(a) : q[1] # "time"  BY <2>1, AccountHooksAre DEF AskFor
  <2>5. got'["proposals"] = got["proposals"] /\ got'["block"] = got["block"]
    BY <2>1, <2>3, AccountHooksAre DEF Hooks
  <2>6. ASSUME NEW h \in Hooks, NEW k, h \notin AccountHooks(got), Held(h, k) PROVE Held(h, k)'
    BY <2>2, <2>3, <2>6, HeldStays
  <2>7. \A h \in PageHooks' : Held(h, None)'
    <3>1. PageHooks' = PageHooks  BY <2>2 DEF PageHooks
    <3> QED  BY <2>1, <2>6, <3>1, PageHooksAre, AccountHooksAre DEF Fresh, Hooks
  <2>8. AccountHooks(got)' = AccountHooks(got)
    BY <2>1, <2>2, <2>5, PagesAssumption DEF AccountHooks
  <2>9. \A h \in AccountHooks(got)' : a # None \/ h = "votes" => Held(h, a)'
    BY <2>2, <2>8 DEF AskFor, Held
  <2>10. \A h \in AccountHooks(got)' : account' # None \/ h = "votes" => Held(h, account)'
    BY <2>2, <2>9, HeldNow
  <2>11. \A q \in asked' : q[1] = "time" => q[2] = block' /\ got'["block"] # None
    BY <2>1, <2>2, <2>4, <2>5 DEF Fresh, chain
  <2>12. got'["block"] # None => Held("time", block)'
    <3>1. got'["block"] # None => Held("time", b)'
      BY <2>1, <2>5, <2>6, AccountHooksAre DEF Fresh, Hooks
    <3> QED  BY <2>2, <3>1, HeldNow
  <2>13. page' = "vote" /\ got'["proposals"] # None => Held("quorum", 1)'
    BY <2>1, <2>2, <2>5, <2>6, AccountHooksAre DEF Fresh, Hooks
  <2>14. Fresh'  BY <2>1, <2>5, <2>7, <2>10, <2>11, <2>12, <2>13 DEF Fresh
  <2> QED  BY <2>2, <2>14 DEF FreshInv
<1> QED  BY <1>1, <1>2

-----------------------------------------------------------------------------
(* What the quorum window reads.                                           *)

\* The same voters, and the same parameters, as long as the chain stands still.
LEMMA WindowStays ==
    ASSUME UNCHANGED chain
    PROVE  /\ VoterIds' = VoterIds
           /\ getDynamicQuorumParamsAt(Start)' = getDynamicQuorumParamsAt(Start)
<1>1. block' = block /\ gov' = gov  BY DEF chain
<1>2. Entity.voters = {x \in [voter : Accounts, support : 0..2] : x.voter \in Voters(x.support)}
  BY DEF Entity
<1>3. (Entity.voters)' = Entity.voters  BY <1>1 DEF Entity, Voters
<1> QED  BY <1>1, <1>3 DEF VoterIds, getDynamicQuorumParamsAt

LEMMA VotersQuiet ==
    ASSUME VotersInv, UNCHANGED <<chain, page, got, off>>, ui' = None <=> ui = None,
           \A q \in asked' : q \in asked \/ Beside(q),
           \A q \in asked : q \in asked' \/ q[1] \in Aside
    PROVE  VotersInv'
<1> SUFFICES ASSUME ~off, ui # None PROVE VotersFresh'  BY DEF VotersInv
<1> PICK ids : ids = VoterIds  OBVIOUS
<1> PICK params : params = getDynamicQuorumParamsAt(Start)  OBVIOUS
<1>1. VotersFresh  BY DEF VotersInv
<1>2. VoterIds' = ids /\ getDynamicQuorumParamsAt(Start)' = params  BY WindowStays
<1>3. <<"represented", ids>> \in asked => <<"represented", ids>> \in asked'
  <2> PICK q : q = <<"represented", ids>>  OBVIOUS
  <2>1. q[1] = "represented"  OBVIOUS
  <2> QED  BY <2>1 DEF Aside
<1>4. \A q \in asked' :
          /\ q[1] = "proposals" => q = <<"proposals", None>> /\ got'["proposals"] = None
          /\ q[1] = "represented" => q[2] = ids /\ got'["proposals"] # None
          /\ q[1] = "quorumParams" => q[2] = Start
  BY <1>1 DEF VotersFresh, Aside, Beside
<1> QED  BY <1>1, <1>2, <1>3, <1>4 DEF VotersFresh

LEMMA VotersChain ==
    ASSUME WebInv, VotersInv, Outdated, UNCHANGED <<page, account, asked, got, ui>>
    PROVE  VotersInv'
<1> SUFFICES ASSUME ~off', ui # None PROVE VotersFresh'  BY DEF VotersInv
<1>1. ~off /\ \A hook \in Hooks : got[hook] = None  BY DEF Outdated, WebInv, LogsInv
<1>2. /\ got["proposals"] = None /\ got["represented"] = None /\ got["quorumParams"] = None
  BY <1>1 DEF Hooks
<1>3. VotersFresh  BY <1>1 DEF VotersInv
<1> QED  BY <1>2, <1>3 DEF VotersFresh

LEMMA VotersOpen ==
    ASSUME WebInv, FreshInv, Open
    PROVE  VotersInv'
<1> SUFFICES ASSUME ~off PROVE VotersFresh'  BY DEF VotersInv, Open
<1>1. NotYet /\ got' = got /\ page \in Pages  BY DEF FreshInv, Open, WebInv, TabTyped
<1>2. /\ got'["proposals"] = None /\ got'["represented"] = None /\ got'["quorumParams"] = None
  BY <1>1 DEF NotYet, Nothing, Hooks
<1>3. \A q \in asked' :
          /\ q[1] = "proposals" => q = <<"proposals", None>>
          /\ q[1] \notin {"represented", "quorumParams"}
  <2>1. PICK r : r = IF page = "delegate" /\ ui'.address # None THEN {<<"name", ui'.address>>} ELSE {}
    OBVIOUS
  <2>2. asked' = {<<hook, None>> : hook \in PageHooks} \cup AskFor(account) \cup r  BY <2>1 DEF Open
  <2>3. \A q \in r : q[1] = "name"  BY <2>1
  <2>4. \A q \in AskFor(account) : q[1] \notin {"proposals", "represented", "quorumParams"}
    BY <1>1, AccountHooksAre DEF AskFor
  <2>5. \A q \in {<<hook, None>> : hook \in PageHooks} :
            q = <<q[1], None>> /\ q[1] \notin {"represented", "quorumParams"}
    BY PageHooksAre
  <2> QED  BY <2>2, <2>3, <2>4, <2>5
<1> QED  BY <1>2, <1>3 DEF VotersFresh

LEMMA VotersAnswered ==
    ASSUME WebInv, VotersInv, FreshInv, NEW hook \in Hooks, NEW key, Answered(hook, key)
    PROVE  VotersInv'
<1> SUFFICES ASSUME ~off', ui # None PROVE VotersFresh'  BY DEF VotersInv, Answered
<1> PICK ids : ids = VoterIds  OBVIOUS
<1> PICK params : params = getDynamicQuorumParamsAt(Start)  OBVIOUS
<1> PICK lists : lists = [a \in ids |-> Balance[a]]  OBVIOUS
<1>1. ~off /\ <<hook, key>> \in asked /\ UNCHANGED chain /\ page' = page  BY DEF Answered
<1>2. VotersFresh  BY <1>1 DEF VotersInv
<1>3. VoterIds' = ids /\ getDynamicQuorumParamsAt(Start)' = params  BY <1>1, WindowStays
<1>4. /\ got'[hook] = Answer(hook, key) /\ \A h \in Hooks : h # hook => got'[h] = got[h]
  BY DEF Answered, WebInv, LogsInv
<1>5. PICK more \in Follow(hook) : asked' = (asked \ {<<hook, key>>}) \cup more  BY DEF Answered
<1> PICK r : r = <<hook, key>>  OBVIOUS
<1>6. r \in asked /\ r[1] = hook /\ r[2] = key  BY <1>1
<1>7. /\ hook = "proposals" => key = None /\ got["proposals"] = None
      /\ hook = "represented" => key = ids /\ got["proposals"] # None
      /\ hook = "quorumParams" => key = Start
  BY <1>2, <1>6 DEF VotersFresh
<1>8. got'["proposals"] # None <=> got["proposals"] # None \/ hook = "proposals"
  <2>1. CASE hook = "proposals"
    <3>1. Entity \in Entities  BY EntityTyped DEF WebInv
    <3> PICK es : es = <<Entity>>  OBVIOUS
    <3>2. es \in Seq(Entities)  BY <3>1
    <3>3. got'["proposals"] = es  BY <1>4, <2>1 DEF Answer
    <3>4. None \notin Seq(Entities)  BY AnswersAssumption
    <3>5. es # None  BY <3>2, <3>4
    <3> QED  BY <2>1, <3>3, <3>5
  <2>2. CASE hook # "proposals"  BY <1>4, <2>2 DEF Hooks
  <2> QED  BY <2>1, <2>2
<1>9. got'["represented"] \in {None, lists} /\ (hook = "represented" => got'["represented"] # None)
  <2>1. CASE hook = "represented"
    <3>1. got'["represented"] = lists  BY <1>4, <1>7, <2>1 DEF Answer
    <3>2. ids \in SUBSET Accounts  BY DEF VoterIds, Entity
    <3>3. lists \in [ids -> Nat]  BY <3>2, VoteAssumption
    <3> QED  BY <3>1, <3>2, <3>3, NoneAssumption
  <2>2. CASE hook # "represented"  BY <1>2, <1>4, <2>2 DEF VotersFresh, Hooks
  <2> QED  BY <2>1, <2>2
<1>10. got'["quorumParams"] \in {None, params}
  <2>1. CASE hook = "quorumParams"  BY <1>4, <1>7, <2>1 DEF Answer
  <2>2. CASE hook # "quorumParams"  BY <1>2, <1>4, <2>2 DEF VotersFresh, Hooks
  <2> QED  BY <2>1, <2>2
<1>11. page = "vote" /\ got'["proposals"] # None /\ ids # {} =>
           <<"represented", ids>> \in asked' \/ got'["represented"] # None
  <2> SUFFICES ASSUME page = "vote", got'["proposals"] # None, ids # {}
               PROVE  <<"represented", ids>> \in asked' \/ got'["represented"] # None
    OBVIOUS
  <2>1. CASE hook = "proposals"  BY <1>5, <2>1, FollowFacts
  <2>2. CASE hook = "represented"  BY <1>9, <2>2
  <2>3. CASE hook \notin {"proposals", "represented"}
    <3>1. <<"represented", ids>> \in asked \/ got["represented"] # None
      BY <1>2, <1>8, <2>3 DEF VotersFresh
    <3>2. <<"represented", ids>> # <<hook, key>>  BY <2>3
    <3>3. <<"represented", ids>> \in asked => <<"represented", ids>> \in asked'  BY <1>5, <3>2
    <3>4. got'["represented"] = got["represented"]  BY <1>4, <2>3 DEF Hooks
    <3> QED  BY <3>1, <3>3, <3>4
  <2> QED  BY <2>1, <2>2, <2>3
<1>12. ASSUME NEW q \in asked'
       PROVE  /\ q[1] = "proposals" => q = <<"proposals", None>> /\ got'["proposals"] = None
              /\ q[1] = "represented" => q[2] = ids /\ got'["proposals"] # None
              /\ q[1] = "quorumParams" => q[2] = Start
  <2>1. CASE q \in more
    <3>1. q[1] = "represented" => hook = "proposals" /\ q[2] = ids  BY <2>1, FollowFacts
    <3>2. q[1] \notin {"proposals", "quorumParams"}  BY <2>1, FollowFacts
    <3> QED  BY <1>8, <3>1, <3>2
  <2>2. CASE q \in asked /\ q # r
    <3>1. /\ q[1] = "proposals" => q = <<"proposals", None>> /\ got["proposals"] = None
          /\ q[1] = "represented" => q[2] = ids /\ got["proposals"] # None
          /\ q[1] = "quorumParams" => q[2] = Start
      BY <1>2, <2>2 DEF VotersFresh
    <3>2. q[1] = "proposals" => hook # "proposals"
      <4> SUFFICES ASSUME q[1] = "proposals", hook = "proposals" PROVE FALSE  OBVIOUS
      <4>1. q = <<"proposals", None>>  BY <3>1
      <4>2. r = <<"proposals", None>>  BY <1>7
      <4> QED  BY <2>2, <4>1, <4>2
    <3> QED  BY <1>8, <3>1, <3>2
  <2>3. q \in more \/ (q \in asked /\ q # r)  BY <1>5
  <2> QED  BY <2>1, <2>2, <2>3
<1> QED  BY <1>1, <1>3, <1>9, <1>10, <1>11, <1>12 DEF VotersFresh

\* The proposal there is names the block at which its vote starts.
LEMMA StartOfProposal ==
    ASSUME WebInv, FreshInv, VotersInv, ~off, ui # None, page = "vote", got["proposals"] # None
    PROVE  proposal.startBlock = Start
<1>1. Fresh /\ VotersFresh  BY DEF FreshInv, VotersInv
<1>2. got["proposals"] = <<Entity>>
  <2>1. Held("proposals", None)  BY <1>1 DEF Fresh, PageHooks
  <2> PICK q : q = <<"proposals", None>>  OBVIOUS
  <2>2. q[1] = "proposals" /\ q \notin asked  BY <1>1 DEF VotersFresh
  <2> QED  BY <2>1, <2>2 DEF Held, Answer
<1> PICK e : e = Entity  OBVIOUS
<1> PICK s : s = getProposalState(got["block"], IF got["time"] = None THEN 0 ELSE got["time"], e)
  OBVIOUS
<1>3. e \in Entities  BY EntityTyped DEF WebInv
<1>4. <<e>> # None /\ <<e>> # Failed
  <2>1. <<e>> \in Seq(Entities)  BY <1>3
  <2> QED  BY <2>1, AnswersAssumption
<1> PICK p : p = [e EXCEPT !.status = s]  OBVIOUS
<1>5. useProposals = <<p>>
  <2>1. useProposals = useAllProposalsViaSubgraph(<<e>>, got["block"], got["time"])
    BY <1>2, <1>4 DEF useProposals, useAllProposals
  <2>2. useAllProposalsViaSubgraph(<<e>>, got["block"], got["time"]) = [i \in 1..1 |-> p]
    BY DEF useAllProposalsViaSubgraph
  <2> QED  BY <2>1, <2>2
<1>6. p.id = 1 /\ p.startBlock = Start  BY <1>3 DEF Entities
<1>7. useProposal(<<p>>, 1) = p
  <2> PICK ps : ps = <<p>>  OBVIOUS
  <2>1. DOMAIN ps = {1} /\ ps[1] = p  OBVIOUS
  <2>2. \A i \in DOMAIN ps : i = 1  BY <2>1
  <2>3. \E i \in DOMAIN ps : ps[i].id = 1  BY <1>6, <2>1
  <2>4. (CHOOSE i \in DOMAIN ps : ps[i].id = 1) = 1  BY <2>2, <2>3
  <2>5. useProposal(ps, 1) = ps[CHOOSE i \in DOMAIN ps : ps[i].id = 1]  BY <2>3 DEF useProposal
  <2> QED  BY <2>1, <2>4, <2>5
<1>8. proposal = p  BY <1>5, <1>7 DEF proposal
<1> QED  BY <1>6, <1>8

LEMMA VotersAccount ==
    ASSUME WebInv, VotersInv, ui # None, NEW a \in Mine \cup {None}, Account(a)
    PROVE  VotersInv'
<1> SUFFICES ASSUME ~off PROVE VotersFresh'  BY DEF VotersInv, Account
<1> PICK ids : ids = VoterIds  OBVIOUS
<1> PICK params : params = getDynamicQuorumParamsAt(Start)  OBVIOUS
<1>1. VotersFresh /\ page \in Pages /\ UNCHANGED chain /\ page' = page /\ DOMAIN got = Hooks
  BY DEF VotersInv, WebInv, TabTyped, LogsInv, Account
<1>2. VoterIds' = ids /\ getDynamicQuorumParamsAt(Start)' = params  BY <1>1, WindowStays
<1>3. \A h \in Hooks : h \notin AccountHooks(got) => got'[h] = got[h]  BY <1>1 DEF Account
<1>4. /\ got'["proposals"] = got["proposals"] /\ got'["represented"] = got["represented"]
      /\ got'["quorumParams"] = got["quorumParams"]
  BY <1>1, <1>3, AccountHooksAre DEF Hooks
<1>5. asked' = asked \cup AskFor(a)  BY DEF Account
<1>6. \A q \in AskFor(a) : q[1] \notin {"proposals", "represented", "quorumParams"}
  BY <1>1, AccountHooksAre DEF AskFor
<1> QED  BY <1>1, <1>2, <1>4, <1>5, <1>6 DEF VotersFresh

-----------------------------------------------------------------------------
(* Every step.                                                             *)

\* What is shown, and what is on the chain, which it is compared with.
ShownInv == GovInv /\ DelegatesInv /\ FreshInv /\ VotersInv

LEMMA OpenedIs ==
    ASSUME page \in Pages, page' = page, Opened'
    PROVE  ui' # None
BY WindowAssumption, FormAssumption, PagesAssumption DEF Opened

LEMMA GovStays ==
    ASSUME GovInv, UNCHANGED chain
    PROVE  GovInv'
<1>1. gov' = gov /\ block' = block  BY DEF chain
<1>2. (Tally(0)' = Tally(0) /\ Tally(1)' = Tally(1)) /\ QuorumVotes' = QuorumVotes
  BY <1>1, TalliesStay
<1> QED  BY <1>1, <1>2 DEF GovInv

\* What the transactions ask for.
Arguments == \A d \in DOMAIN deeds : deeds[d].call = "delegate" => deeds[d].arg \in Accounts

\* Steps that leave the chain and what the page reads alone.
LEMMA QuietStep ==
    ASSUME WebInv, ShownInv, UNCHANGED <<chain, page, account, got, off>>,
           ui' = None <=> ui = None, Arguments',
           \A q \in asked' : q \in asked \/ (Beside(q) /\ (ui # None \/ q[1] = "logs")),
           \A q \in asked : q \in asked' \/ q[1] \in Aside
    PROVE  ShownInv'
<1>1. page \in Pages  BY DEF WebInv, TabTyped
<1>2. FreshInv'  BY <1>1, QuietKeeps DEF ShownInv
<1>3. VotersInv'  BY VotersQuiet DEF ShownInv
<1>4. GovInv'  BY GovStays DEF ShownInv
<1>5. DelegatesInv'  BY DEF ShownInv, DelegatesInv, Arguments, chain
<1> QED  BY <1>2, <1>3, <1>4, <1>5 DEF ShownInv

\* What the user does in an open page.
LEMMA HereStep ==
    ASSUME WebInv, ShownInv, Here, ui # None, Opened', Arguments',
           \A q \in asked' : q \in asked \/ Beside(q),
           \A q \in asked : q \in asked' \/ q[1] \in Aside
    PROVE  ShownInv'
<1>1. page \in Pages /\ page' = page  BY DEF WebInv, TabTyped, Here
<1>2. ui' # None  BY <1>1, OpenedIs
<1> QED  BY <1>2, QuietStep DEF Here

LEMMA OnlyHereStep ==
    ASSUME WebInv, ShownInv, OnlyHere, ui # None, Opened'
    PROVE  ShownInv'
<1>1. Arguments'  BY DEF OnlyHere, ShownInv, DelegatesInv, Arguments
<1> QED  BY <1>1, HereStep DEF OnlyHere

LEMMA DeedArguments ==
    ASSUME WebInv, ShownInv, NEW call, NEW arg, Deed(call, arg),
           call = "delegate" => arg \in Accounts
    PROVE  Arguments'
<1> DEFINE e == [call |-> call, arg |-> arg, who |-> account, stage |-> "sign",
                 replaced |-> "no", ok |-> FALSE]
<1>1. deeds \in Seq(DeedsOf(page))  BY DEF WebInv, TabTyped
<1>2. deeds' = Append(deeds, e)  BY DEF Deed
<1>3. e.call = call /\ e.arg = arg  OBVIOUS
<1> HIDE DEF e
<1>4. \A d \in DOMAIN deeds' : (d \in DOMAIN deeds /\ deeds'[d] = deeds[d]) \/ deeds'[d] = e
  BY <1>1, <1>2
<1> QED  BY <1>3, <1>4 DEF ShownInv, DelegatesInv, Arguments

LEMMA DeedStep ==
    ASSUME WebInv, ShownInv, Here, asked' = asked, ui # None, Opened',
           NEW call, NEW arg, Deed(call, arg), call = "delegate" => arg \in Accounts
    PROVE  ShownInv'
<1>1. Arguments'  BY DeedArguments
<1> QED  BY <1>1, HereStep

LEMMA NewAddressAsks ==
    ASSUME NEW u, NEW text, NEW requests, NewAddress(u, text, requests)
    PROVE  /\ \A q \in asked' : q \in requests \/ q[1] = "name"
           /\ requests \subseteq asked'
BY DEF NewAddress

LEMMA OnPageStep ==
    ASSUME WebInv, ShownInv, OnPage
    PROVE  ShownInv'
<1>1. CASE OpenVoteModal
  BY <1>1, OpenVoteModalKeeps, OnlyHereStep DEF OpenVoteModal, Loaded
<1>2. CASE DismissVoteModal
  BY <1>2, DismissVoteModalKeeps, OnlyHereStep DEF DismissVoteModal, Loaded
<1>3. CASE CloseVoteModal
  BY <1>3, CloseVoteModalKeeps, OnlyHereStep DEF CloseVoteModal, Loaded
<1>4. CASE ShowTransactionForm
  BY <1>4, ShowTransactionFormKeeps, OnlyHereStep DEF ShowTransactionForm
<1>5. CASE FillIn  BY <1>5, FillInKeeps, OnlyHereStep DEF FillIn, InForm
<1>6. CASE stepBackwards  BY <1>6, StepBackwardsKeeps, OnlyHereStep DEF stepBackwards, InForm
<1>7. CASE handleAddProposalAction
  BY <1>7, AddKeeps, OnlyHereStep DEF handleAddProposalAction, InForm
<1>8. CASE HideTransactionForm
  BY <1>8, HideTransactionFormKeeps, OnlyHereStep DEF HideTransactionForm, InForm
<1>9. CASE handleRemoveProposalAction
  BY <1>9, RemoveKeeps, OnlyHereStep DEF handleRemoveProposalAction
<1>10. CASE ChangeAgain  BY <1>10, ChangeAgainKeeps, OnlyHereStep DEF ChangeAgain
<1>11. CASE OpenQuorumInfo
  <2>1. Opened' /\ Here /\ ui # None  BY <1>11, OpenQuorumInfoKeeps DEF OpenQuorumInfo, Loaded
  <2>2. asked' = asked \cup {<<"quorumParams", proposal.startBlock>>}  BY <1>11 DEF OpenQuorumInfo
  <2>3. Arguments'  BY <1>11 DEF OpenQuorumInfo, ShownInv, DelegatesInv, Arguments
  <2>4. ~off => proposal.startBlock = Start
    <3>1. FreshInv /\ VotersInv  BY DEF ShownInv
    <3>2. page = "vote" /\ got["proposals"] # None  BY <1>11 DEF OpenQuorumInfo, Loaded
    <3> QED  BY <2>1, <3>1, <3>2, StartOfProposal
  <2> QED  BY <2>1, <2>2, <2>3, <2>4, HereStep DEF Aside, Beside
<1>12. CASE stepForward
  <2>1. Opened' /\ Here /\ ui # None  BY <1>12, StepForwardKeeps DEF stepForward, InForm
  <2>2. asked' \in {asked, asked \cup {<<"abi", draft.address>>}}  BY <1>12 DEF stepForward
  <2>3. Arguments'  BY <1>12 DEF stepForward, ShownInv, DelegatesInv, Arguments
  <2> QED  BY <2>1, <2>2, <2>3, HereStep DEF Aside, Beside
<1>13. CASE TypeDelegate
  <2>1. Opened' /\ Here /\ ui # None  BY <1>13, TypeDelegateKeeps DEF TypeDelegate
  <2>2. (\A q \in asked' : q \in asked \/ q[1] = "name") /\ asked \subseteq asked'
    BY <1>13, NewAddressAsks DEF TypeDelegate
  <2>3. Arguments'  BY <1>13 DEF TypeDelegate, ShownInv, DelegatesInv, Arguments
  <2> QED  BY <2>1, <2>2, <2>3, HereStep DEF Aside, Beside
<1>14. CASE SubmitVote
  <2>1. Opened' /\ Here /\ ui # None /\ asked' = asked
    BY <1>14, SubmitVoteKeeps DEF SubmitVote, Loaded
  <2>2. PICK s \in Supports : Deed(IF s = 0 THEN "castVoteWithReason" ELSE "castVote", s)
    BY <1>14 DEF SubmitVote
  <2> PICK call : call = IF s = 0 THEN "castVoteWithReason" ELSE "castVote"  OBVIOUS
  <2>3. call # "delegate" /\ Deed(call, s)  BY <2>2
  <2> QED  BY <2>1, <2>3, DeedStep
<1>15. CASE MoveState
  <2>1. Opened' /\ Here /\ ui # None /\ asked' = asked
    BY <1>15, MoveStateKeeps DEF MoveState, Loaded
  <2> PICK move : move = Shown.move  OBVIOUS
  <2>2. move # "delegate" /\ Deed(move, None)  BY <1>15 DEF MoveState
  <2> QED  BY <2>1, <2>2, DeedStep
<1>16. CASE handleCreateProposal
  <2>1. Opened' /\ Here /\ ui # None /\ asked' = asked /\ Deed("propose", ui.calls)
    BY <1>16, CreateProposalKeeps DEF handleCreateProposal
  <2> QED  BY <2>1, DeedStep
<1>17. CASE delegateVotes
  <2>1. Opened' /\ Here /\ ui # None /\ asked' = asked /\ Deed("delegate", ui.address)
    BY <1>17, DelegateKeeps DEF delegateVotes
  <2>2. ui.address \in Accounts
    BY <1>17 DEF delegateVotes, ChangeDelegatePannel, isAddress
  <2> QED  BY <2>1, <2>2, DeedStep
<1> QED
  BY <1>1, <1>2, <1>3, <1>4, <1>5, <1>6, <1>7, <1>8, <1>9, <1>10, <1>11, <1>12, <1>13, <1>14,
     <1>15, <1>16, <1>17
  DEF OnPage

LEMMA ABIFoundStep ==
    ASSUME WebInv, ShownInv, NEW a \in DOMAIN ABI, ABIFound(a)
    PROVE  ShownInv'
<1>1. Opened' /\ Here  BY ABIFoundKeeps DEF ABIFound
<1> PICK q : q = <<"abi", a>>  OBVIOUS
<1>2. q \in asked /\ q[1] = "abi" /\ asked' = asked \ {q}  BY DEF ABIFound
<1>3. ui # None
  <2>1. Opened  BY <1>2 DEF WebInv, PageInv
  <2>2. page \in Pages  BY DEF WebInv, TabTyped
  <2> QED  BY <2>1, <2>2, WindowAssumption, FormAssumption, PagesAssumption DEF Opened
<1>4. Arguments'  BY DEF ABIFound, ShownInv, DelegatesInv, Arguments
<1> QED  BY <1>1, <1>2, <1>3, <1>4, HereStep DEF Aside, Beside

LEMMA NameFoundStep ==
    ASSUME WebInv, ShownInv, NEW text \in Names \cup Accounts, checkIsValidENS(text)
    PROVE  ShownInv'
<1>1. Opened' /\ Here  BY NameFoundKeeps DEF checkIsValidENS
<1> PICK q : q = <<"name", text>>  OBVIOUS
<1>2. q \in asked /\ q[1] = "name"  BY DEF checkIsValidENS
<1>3. ui # None
  <2>1. Opened  BY <1>2 DEF WebInv, PageInv
  <2>2. page \in Pages  BY DEF WebInv, TabTyped
  <2> QED  BY <2>1, <2>2, WindowAssumption, FormAssumption, PagesAssumption DEF Opened
<1>4. Arguments'  BY DEF checkIsValidENS, ShownInv, DelegatesInv, Arguments
<1>5. (\A r \in asked' : r \in asked \ {q} \/ r[1] = "name") /\ asked \ {q} \subseteq asked'
  BY NewAddressAsks DEF checkIsValidENS
<1> QED  BY <1>1, <1>2, <1>3, <1>4, <1>5, HereStep DEF Aside, Beside

LEMMA LogsStep ==
    ASSUME WebInv, ShownInv, FetchLogs \/ \E n \in 1..MaxBlock : LogsFetched(n)
    PROVE  ShownInv'
<1>1. UNCHANGED <<chain, page, account, got, off, ui, deeds>>  BY DEF FetchLogs, LogsFetched
<1>2. Arguments'  BY <1>1 DEF ShownInv, DelegatesInv, Arguments
<1>3. \/ asked' = asked \cup {<<"logs", logs.block>>}
      \/ \E n \in 1..MaxBlock : asked' = asked \ {<<"logs", n>>}
  BY DEF FetchLogs, LogsFetched
<1>4. /\ \A q \in asked' : q \in asked \/ q[1] = "logs"
      /\ \A q \in asked : q \in asked' \/ q[1] = "logs"
  BY <1>3
<1> QED  BY <1>1, <1>2, <1>4, QuietStep DEF Aside, Beside

LEMMA OpenStep ==
    ASSUME WebInv, ShownInv, Open
    PROVE  ShownInv'
<1>1. page \in Pages /\ page' = page /\ Opened'  BY OpenKeeps DEF WebInv, TabTyped, Open
<1>2. ui' # None  BY <1>1, OpenedIs
<1>3. FreshInv'  BY <1>2, OpenFresh DEF ShownInv
<1>4. VotersInv'  BY VotersOpen DEF ShownInv
<1>5. GovInv'  BY GovStays DEF ShownInv, Open
<1>6. DelegatesInv'  BY DEF ShownInv, DelegatesInv, Open, chain
<1> QED  BY <1>3, <1>4, <1>5, <1>6 DEF ShownInv

LEMMA AnswerStep ==
    ASSUME WebInv, ShownInv, NEW hook \in Hooks, NEW key, Answered(hook, key) \/ Unanswered(hook, key)
    PROVE  ShownInv'
<1>1. UNCHANGED <<chain, deeds>>  BY DEF Answered, Unanswered
<1>2. FreshInv' /\ VotersInv'
  <2>1. CASE Answered(hook, key)
    <3>1. FreshInv'  BY <2>1, AnsweredFresh DEF ShownInv
    <3>2. VotersInv'  BY <2>1, VotersAnswered DEF ShownInv
    <3> QED  BY <3>1, <3>2
  <2>2. CASE Unanswered(hook, key)  BY <2>2 DEF Unanswered, FreshInv, VotersInv
  <2> QED  BY <2>1, <2>2
<1>3. GovInv'  BY <1>1, GovStays DEF ShownInv
<1>4. DelegatesInv'  BY <1>1 DEF ShownInv, DelegatesInv, chain
<1> QED  BY <1>2, <1>3, <1>4 DEF ShownInv

LEMMA AccountStep ==
    ASSUME WebInv, ShownInv, ui # None, NEW a \in Mine \cup {None}, Account(a)
    PROVE  ShownInv'
<1>1. UNCHANGED <<chain, deeds>>  BY DEF Account
<1>2. FreshInv' /\ VotersInv'  BY AccountFresh, VotersAccount DEF ShownInv
<1>3. GovInv'  BY <1>1, GovStays DEF ShownInv
<1>4. DelegatesInv'  BY <1>1 DEF ShownInv, DelegatesInv, chain
<1> QED  BY <1>2, <1>3, <1>4 DEF ShownInv

\* The chain takes a transaction.
LEMMA ChainStep ==
    ASSUME WebInv, ShownInv, NEW call, NEW who, NEW arg, Accepts(call, who, arg),
           Effect(call, who, arg), Outdated, UNCHANGED <<page, account, asked, got, ui>>,
           call \in VoteCalls => who \in Accounts /\ arg \in Supports,
           call \in {"cancel", "veto"} => ~gov.executed /\ ~gov.vetoed,
           call = "delegate" => who \in Accounts /\ arg \in Accounts,
           Arguments'
    PROVE  ShownInv'
<1>1. GovInv'  BY EffectGov DEF ShownInv, WebInv
<1>2. FreshInv' /\ VotersInv'  BY ChainFresh, VotersChain DEF ShownInv
<1>3. DelegatesInv'  BY EffectDelegates DEF ShownInv, DelegatesInv, Arguments
<1> QED  BY <1>1, <1>2, <1>3 DEF ShownInv

LEMMA FromElsewhereStep ==
    ASSUME WebInv, ShownInv, NEW call, NEW who, NEW arg, FromElsewhere(call, who, arg),
           call \in VoteCalls => who \in Accounts /\ arg \in Supports,
           call \in {"cancel", "veto"} => ~gov.executed /\ ~gov.vetoed,
           call = "delegate" => who \in Accounts /\ arg \in Accounts
    PROVE  ShownInv'
<1>1. Arguments'  BY DEF FromElsewhere, ShownInv, DelegatesInv, Arguments
<1> QED  BY <1>1, ChainStep DEF FromElsewhere

LEMMA OthersStep ==
    ASSUME WebInv, ShownInv, NewBlock \/ OthersVote \/ OthersMoveOn \/ OthersStop \/ OthersDelegate
    PROVE  ShownInv'
<1>1. CASE NewBlock  BY <1>1, FromElsewhereStep DEF NewBlock, VoteCalls
<1>2. CASE OthersVote
  <2>1. PICK a \in Accounts, s \in Supports : FromElsewhere("castVote", a, s)
    BY <1>2 DEF OthersVote, Accounts
  <2> QED  BY <2>1, FromElsewhereStep
<1>3. CASE OthersMoveOn
  <2>1. PICK call \in {"queue", "execute"} : FromElsewhere(call, None, None)
    BY <1>3 DEF OthersMoveOn
  <2> QED  BY <2>1, FromElsewhereStep DEF VoteCalls
<1>4. CASE OthersStop
  <2>1. FromElsewhere("cancel", None, None) \/ FromElsewhere("veto", None, None)
    BY <1>4 DEF OthersStop
  <2> QED  BY <1>4, <2>1, FromElsewhereStep DEF VoteCalls, OthersStop
<1>5. CASE OthersDelegate
  <2>1. PICK a \in Accounts, b \in Accounts : FromElsewhere("delegate", a, b)
    BY <1>5 DEF OthersDelegate, Accounts
  <2> QED  BY <2>1, FromElsewhereStep DEF VoteCalls
<1> QED  BY <1>1, <1>2, <1>3, <1>4, <1>5

\* Transactions go on with what they ask for.
LEMMA SameArguments ==
    ASSUME ShownInv, DOMAIN deeds' = DOMAIN deeds,
           \A i \in DOMAIN deeds : deeds'[i].call = deeds[i].call /\ deeds'[i].arg = deeds[i].arg
    PROVE  Arguments'
BY DEF ShownInv, DelegatesInv, Arguments

LEMMA WalletStep ==
    ASSUME WebInv, ShownInv, NEW d \in DOMAIN deeds,
           (\E who \in Mine : Signed(d, who)) \/ Rejected(d) \/ Receipt(d)
    PROVE  ShownInv'
<1>1. page \in Pages /\ deeds \in Seq(DeedsOf(page))  BY DEF WebInv, TabTyped
<1>2. UNCHANGED <<chain, page, account, got, off, asked>>  BY DEF Signed, Rejected, Receipt
<1>3. Opened'  BY SignedKeeps, RejectedKeeps, ReceiptKeeps
<1>4. ui' # None  BY <1>1, <1>2, <1>3, OpenedIs
<1>5. ui # None
  <2>1. deeds # <<>>  BY <1>1
  <2>2. Opened  BY <2>1 DEF WebInv, PageInv
  <2> QED  BY <1>1, <2>2, WindowAssumption, FormAssumption, PagesAssumption DEF Opened
<1>6. Arguments'
  <2>1. \/ \E who \in Mine : deeds' = [deeds EXCEPT ![d].stage = "mining", ![d].who = who]
        \/ deeds' = [deeds EXCEPT ![d].stage = "done"]
    BY DEF Signed, Rejected, Receipt
  <2>2. /\ DOMAIN deeds' = DOMAIN deeds
        /\ \A i \in DOMAIN deeds : deeds'[i].call = deeds[i].call /\ deeds'[i].arg = deeds[i].arg
    <3> PICK x : x = deeds[d]  OBVIOUS
    <3>1. x \in DeedsOf(page)  BY <1>1
    <3>2. ASSUME NEW e, e.call = x.call, e.arg = x.arg, deeds' = [deeds EXCEPT ![d] = e]
          PROVE  /\ DOMAIN deeds' = DOMAIN deeds
                 /\ \A i \in DOMAIN deeds : deeds'[i].call = deeds[i].call /\ deeds'[i].arg = deeds[i].arg
      BY <1>1, <3>2
    <3>3. ASSUME NEW who PROVE /\ [x EXCEPT !.stage = "mining", !.who = who].call = x.call
                               /\ [x EXCEPT !.stage = "mining", !.who = who].arg = x.arg
      BY <3>1 DEF DeedsOf
    <3>4. [x EXCEPT !.stage = "done"].call = x.call /\ [x EXCEPT !.stage = "done"].arg = x.arg
      BY <3>1 DEF DeedsOf
    <3>5. \/ \E who \in Mine : deeds' = [deeds EXCEPT ![d] = [x EXCEPT !.stage = "mining", !.who = who]]
          \/ deeds' = [deeds EXCEPT ![d] = [x EXCEPT !.stage = "done"]]
      BY <2>1
    <3> QED  BY <3>2, <3>3, <3>4, <3>5
  <2> QED  BY <2>2, SameArguments
<1> QED  BY <1>2, <1>4, <1>5, <1>6, QuietStep

LEMMA MinedStep ==
    ASSUME WebInv, ShownInv, NEW d \in DOMAIN deeds, Mined(d)
    PROVE  ShownInv'
<1> PICK x : x = deeds[d]  OBVIOUS
<1>1. /\ x \in DeedsOf(page) /\ x.stage = "mining" /\ DeedInv(x) /\ page \in Pages
      /\ x.call \in CallsOf(page) /\ deeds \in Seq(DeedsOf(page))
  BY DeedAt DEF Mined, TabTyped
<1>2. /\ x.who \in Accounts /\ (x.call \in VoteCalls => x.arg \in Supports)
      /\ x.call = "delegate" => x.arg \in Accounts
  BY <1>1 DEF DeedInv, Accounts, ShownInv, DelegatesInv
<1>3. x.call \notin {"cancel", "veto"}
  <2>1. x.call \in Calls  BY <1>1, CallsOfPages
  <2> QED  BY <2>1 DEF Calls
<1>4. UNCHANGED <<page, account, asked, got, ui>>  BY DEF Mined
<1>5. Arguments'
  <2> DEFINE To(r, k) == deeds' = [deeds EXCEPT ![d].stage = "mined", ![d].replaced = r, ![d].ok = k]
  <2>1. PICK r, k : To(r, k)
    <3>1. (\E r \in {"no", "repriced"} : To(r, Accepts(x.call, x.who, x.arg))) \/ To("other", TRUE)
      BY DEF Mined
    <3> HIDE DEF To
    <3> QED  BY <3>1
  <2> DEFINE e == [x EXCEPT !.stage = "mined", !.replaced = r, !.ok = k]
  <2>2. e.call = x.call /\ e.arg = x.arg  BY <1>1 DEF DeedsOf
  <2> HIDE DEF e
  <2>3. deeds' = [deeds EXCEPT ![d] = e]  BY <2>1 DEF e
  <2>4. /\ DOMAIN deeds' = DOMAIN deeds
        /\ \A i \in DOMAIN deeds : deeds'[i].call = deeds[i].call /\ deeds'[i].arg = deeds[i].arg
    BY <1>1, <2>2, <2>3
  <2> QED  BY <2>4, SameArguments
<1>6. CASE Accepts(x.call, x.who, x.arg) /\ Effect(x.call, x.who, x.arg) /\ Outdated
  BY <1>2, <1>3, <1>4, <1>5, <1>6, ChainStep
<1>7. CASE UNCHANGED <<chain, off>>
  BY <1>4, <1>5, <1>7, QuietStep
<1>8. \/ Accepts(x.call, x.who, x.arg) /\ Effect(x.call, x.who, x.arg) /\ Outdated
      \/ UNCHANGED <<chain, off>>
  BY DEF Mined
<1> QED  BY <1>6, <1>7, <1>8

LEMMA InitShown ==
    ASSUME Init
    PROVE  ShownInv
<1> USE DEF Init
<1>1. GovInv  BY DEF GovInv
<1>2. DelegatesInv  BY DEF DelegatesInv
<1>3. FreshInv  BY DEF FreshInv, NotYet
<1>4. VotersInv  BY DEF VotersInv
<1> QED  BY <1>1, <1>2, <1>3, <1>4 DEF ShownInv

LEMMA NextKeepsShown ==
    ASSUME WebInv, ShownInv, [Next]_vars
    PROVE  ShownInv'
<1>1. CASE NewBlock \/ OthersVote \/ OthersMoveOn \/ OthersStop \/ OthersDelegate
  BY <1>1, OthersStep
<1>2. CASE Open  BY <1>2, OpenStep
<1>3. CASE \E q \in {r \in asked : r[1] \in Hooks} : Answered(q[1], q[2]) \/ Unanswered(q[1], q[2])
  BY <1>3, AnswerStep
<1>4. CASE ui # None /\ (WalletConnectModal \/ disconnectWalletHandler)
  BY <1>4, AccountStep DEF WalletConnectModal, disconnectWalletHandler, activate, deactivate
<1>5. CASE OnPage  BY <1>5, OnPageStep
<1>6. CASE \E a \in DOMAIN ABI : ABIFound(a)  BY <1>6, ABIFoundStep
<1>7. CASE \E text \in Names \cup Accounts : checkIsValidENS(text)  BY <1>7, NameFoundStep
<1>8. CASE FetchLogs \/ \E n \in 1..MaxBlock : LogsFetched(n)  BY <1>8, LogsStep
<1>9. CASE \E d \in DOMAIN deeds :
              (\E who \in Mine : Signed(d, who)) \/ Rejected(d) \/ Mined(d) \/ Receipt(d)
  BY <1>9, WalletStep, MinedStep
<1>10. CASE UNCHANGED vars
  <2>1. UNCHANGED <<chain, page, account, asked, got, ui, deeds, off>>  BY <1>10 DEF vars
  <2>2. Arguments'  BY <2>1 DEF ShownInv, DelegatesInv, Arguments
  <2> QED  BY <2>1, <2>2, QuietStep
<1> QED  BY <1>1, <1>2, <1>3, <1>4, <1>5, <1>6, <1>7, <1>8, <1>9, <1>10 DEF Next

\* What an open page shows is under way or as it is on the chain, which moves on as the
\* governor does, until an answer fails, is overtaken or goes out of date: inductive with
\* the invariant of the pages.
THEOREM PagesStayFresh == Spec => []ShownInv
<1>1. Init => ShownInv  BY InitShown
<1>2. WebInv /\ ShownInv /\ [Next]_vars => ShownInv'  BY NextKeepsShown
<1> QED  BY <1>1, <1>2, PagesKeepTrack, PTL DEF Spec

-----------------------------------------------------------------------------
(* The quorum, rounded down or not.                                        *)

LEMMA TimesGrows ==
    ASSUME NEW a \in Nat, NEW b \in Nat, a <= b, NEW d \in Nat
    PROVE  a * d \in Nat /\ b * d \in Nat /\ a * d <= b * d
<1>1. PICK k \in Nat : b = a + k
  <2>1. b - a \in Nat /\ b = a + (b - a)  OBVIOUS
  <2> QED  BY <2>1
<1>2. b * d = a * d + k * d  BY <1>1
<1>3. a * d \in Nat /\ k * d \in Nat  BY <1>1
<1> QED  BY <1>2, <1>3

\* A quotient between two bounds.
LEMMA DivisionBetween ==
    ASSUME NEW n \in Nat, NEW d \in Nat \ {0}, NEW q \in Nat, NEW p \in Nat,
           q * d <= n, n < p * d
    PROVE  n \div d \in Nat /\ q <= n \div d /\ n \div d < p
<1> PICK r : r = n \div d  OBVIOUS
<1>1. r \in Nat /\ r * d <= n /\ n < (r + 1) * d  BY Division
<1>2. q <= r
  <2> SUFFICES ASSUME r + 1 <= q PROVE FALSE  BY <1>1
  <2>1. (r + 1) * d <= q * d  BY <1>1, TimesGrows
  <2>2. q * d \in Nat /\ (r + 1) * d \in Nat  BY <1>1
  <2> QED  BY <1>1, <2>1, <2>2
<1>3. r < p
  <2> SUFFICES ASSUME p <= r PROVE FALSE  BY <1>1
  <2>1. p * d <= r * d  BY <1>1, TimesGrows
  <2>2. p * d \in Nat /\ r * d \in Nat  BY <1>1
  <2> QED  BY <1>1, <2>1, <2>2
<1> QED  BY <1>1, <1>2, <1>3

\* The smaller of two numbers of units, and the remainder the page keeps.
Units(m, M, c, u) == IF m * u + c < M * u THEN m * u + c ELSE M * u
BasisPoints(m, M, c, u) == IF m + c \div u < M THEN m + c \div u ELSE M
LEMMA CappedUnits ==
    ASSUME NEW m \in Nat, NEW M \in Nat, NEW c \in Nat, NEW u \in Nat \ {0}
    PROVE  /\ BasisPoints(m, M, c, u) \in Nat /\ Units(m, M, c, u) \in Nat
           /\ BasisPoints(m, M, c, u) * u <= Units(m, M, c, u)
           /\ Units(m, M, c, u) < BasisPoints(m, M, c, u) * u + u
<1> PICK q : q = c \div u  OBVIOUS
<1>1. q \in Nat /\ q * u <= c /\ c < (q + 1) * u /\ q * u \in Nat /\ (q + 1) * u = q * u + u
  BY Division
<1> PICK s : s = c - q * u  OBVIOUS
<1>2. s \in Nat /\ s < u /\ c = q * u + s  BY <1>1
<1>3. (m + q) * u = m * u + q * u /\ m * u \in Nat /\ M * u \in Nat  BY <1>1
<1>4. CASE m + q < M
  <2>1. m + q + 1 \in Nat /\ m + q + 1 <= M  BY <1>1, <1>4
  <2>2. (m + q + 1) * u <= M * u  BY <2>1, TimesGrows
  <2>3. (m + q + 1) * u = m * u + q * u + u  BY <1>1
  <2>4. m * u + c < M * u  BY <1>1, <1>2, <1>3, <2>2, <2>3
  <2>5. Units(m, M, c, u) = m * u + c /\ BasisPoints(m, M, c, u) = m + q
    BY <1>4, <2>4 DEF Units, BasisPoints
  <2> QED  BY <1>1, <1>2, <1>3, <2>5
<1>5. CASE ~(m + q < M)
  <2>1. m + q \in Nat /\ M <= m + q  BY <1>1, <1>5
  <2>2. M * u <= (m + q) * u  BY <2>1, TimesGrows
  <2>3. ~(m * u + c < M * u)  BY <1>1, <1>2, <1>3, <2>2
  <2>4. Units(m, M, c, u) = M * u /\ BasisPoints(m, M, c, u) = M
    BY <1>5, <2>3 DEF Units, BasisPoints
  <2> QED  BY <1>3, <2>4
<1> QED  BY <1>4, <1>5

\* The quorum of a share with a remainder, from that of the share without it.
LEMMA QuorumRounded ==
    ASSUME NEW F \in Nat, NEW s \in Nat, NEW u \in Nat \ {0}, NEW f \in Nat,
           F * u <= f, f < F * u + u
    PROVE  (f * s) \div (10000 * u) \in
               ((F * s) \div 10000)..((F * s) \div 10000 + 1 + s \div 10000)
<1> PICK r : r = f - F * u  OBVIOUS
<1>0. r \in Nat /\ r < u /\ f = F * u + r
  <2>1. F * u \in Nat  OBVIOUS
  <2> QED  BY <2>1
<1> DEFINE x == F * s
           d == 10000 * u
           n == f * s
<1> PICK q : q = x \div 10000  OBVIOUS
<1> PICK k : k = s \div 10000  OBVIOUS
<1>1. x \in Nat /\ q \in Nat /\ q * 10000 <= x /\ x < (q + 1) * 10000  BY Division
<1>2. k \in Nat /\ s < (k + 1) * 10000  BY Division
<1>3. d \in Nat \ {0}  OBVIOUS
<1>4. n = x * u + r * s /\ x * u \in Nat /\ r * s \in Nat
  <2>1. F * u \in Nat  OBVIOUS
  <2>2. n = (F * u) * s + r * s  BY <1>0, <2>1
  <2>3. (F * u) * s = (F * s) * u  OBVIOUS
  <2> QED  BY <1>0, <2>2, <2>3
<1>5. n \in Nat  BY <1>4
<1> HIDE DEF x, n
<1>6. q * d <= n
  <2>1. (q * 10000) * u <= x * u  BY <1>1, TimesGrows
  <2>2. (q * 10000) * u = q * d  BY <1>1
  <2> QED  BY <1>4, <2>1, <2>2
<1>7. n < (q + k + 2) * d
  <2>1. (x + 1) * u <= ((q + 1) * 10000) * u  BY <1>1, TimesGrows
  <2>2. ((q + 1) * 10000) * u = (q + 1) * d /\ (x + 1) * u = x * u + u  BY <1>1
  <2>3. r * s <= u * s  BY <1>0, TimesGrows
  <2>4. s * u <= ((k + 1) * 10000) * u  BY <1>2, TimesGrows
  <2>5. ((k + 1) * 10000) * u = (k + 1) * d /\ s * u = u * s  BY <1>2
  <2>6. (q + 1) * d \in Nat /\ (k + 1) * d \in Nat /\ u * s \in Nat  BY <1>1, <1>2, <1>3
  <2>7. x * u < (q + 1) * d /\ r * s <= (k + 1) * d  BY <1>4, <2>1, <2>2, <2>3, <2>4, <2>5, <2>6
  <2>8. n < (q + 1) * d + (k + 1) * d  BY <1>4, <2>6, <2>7
  <2>9. (q + 1) * d + (k + 1) * d = (q + k + 2) * d  BY <1>1, <1>2, <1>3
  <2> QED  BY <2>8, <2>9
<1> HIDE DEF d
<1>8. n \div d \in Nat /\ q <= n \div d /\ n \div d < q + k + 2
  <2>1. q + k + 2 \in Nat  BY <1>1, <1>2
  <2> QED  BY <1>1, <1>3, <1>5, <1>6, <1>7, <2>1, DivisionBetween
<1>9. n \div d \in q..(q + 1 + k)  BY <1>1, <1>2, <1>8
<1> QED  BY <1>9 DEF n, d, x

-----------------------------------------------------------------------------
(* What a page shows once all answers are in.                              *)

LEMMA AnswersIn ==
    ASSUME WebInv, ShownInv, Settled
    PROVE  /\ page \in Pages /\ account \in Mine \cup {None} /\ Opened /\ block \in Nat
           /\ \A hook \in PageHooks : got[hook] = Answer(hook, None)
           /\ \A hook \in AccountHooks(got) : account # None \/ hook = "votes" =>
                 got[hook] = Answer(hook, account)
           /\ got["block"] # None => got["time"] = block
           /\ page = "vote" /\ got["proposals"] # None => got["quorum"] = QuorumVotes
<1>1. page \in Pages /\ account \in Mine \cup {None} /\ Opened /\ block \in Nat
  BY OpenedPage DEF WebInv, TabTyped, ChainTyped, Settled
<1>2. Fresh /\ asked = {}  BY DEF ShownInv, FreshInv, Settled
<1>3. \A hook, key : Held(hook, key) <=> got[hook] = Answer(hook, key)  BY <1>2 DEF Held
<1>4. Answer("time", block) = block /\ Answer("quorum", 1) = QuorumVotes  BY DEF Answer
<1> QED  BY <1>1, <1>2, <1>3, <1>4 DEF Fresh

\* The state a page computes of the proposal.
Computed == getProposalState(block, block, Entity)

LEMMA ComputedIs ==
    ASSUME WebInv, ShownInv
    PROVE  /\ Computed \in States
           /\ \/ Computed = StateAt(block)
              \/ Unvoted /\ Computed = "Active" /\ ~gov.vetoed /\ ~gov.canceled /\ block > Start
<1>1. /\ block \in Nat /\ Start \in Nat /\ End \in Nat /\ Grace \in Nat /\ block # None
      /\ gov.eta \in Nat \cup {None} /\ GovInv /\ None \notin Nat
      /\ gov.canceled \in BOOLEAN /\ gov.vetoed \in BOOLEAN /\ gov.executed \in BOOLEAN
  BY VoteAssumption, NoneAssumption DEF WebInv, ChainTyped, ShownInv
<1>2. /\ Entity.status = gov.status /\ Entity.startBlock = Start /\ Entity.endBlock = End
      /\ Entity.forVotes = Tally(1) /\ Entity.againstVotes = Tally(0)
      /\ Entity.quorumVotes = QuorumVotes /\ Entity.eta = gov.eta
  BY DEF Entity
<1>3. CASE gov.vetoed \/ gov.canceled
  <2>1. gov.status = IF gov.vetoed THEN "Vetoed" ELSE "Cancelled"  BY <1>1, <1>3 DEF GovInv
  <2>2. Computed = gov.status  BY <1>2, <2>1 DEF Computed, getProposalState
  <2>3. StateAt(block) = gov.status  BY <1>1, <1>3, <2>1 DEF StateAt
  <2> QED  BY <2>1, <2>2, <2>3 DEF States
<1>4. CASE ~gov.vetoed /\ ~gov.canceled /\ gov.eta # None
  <2>1. /\ ~(block <= Start) /\ ~(block <= End)
        /\ ~(Tally(1) <= Tally(0)) /\ ~(Tally(1) < QuorumVotes)
    BY <1>1, <1>4 DEF GovInv
  <2>2. gov.status = IF gov.executed THEN "Executed" ELSE "Queued"  BY <1>4, <1>1 DEF GovInv
  <2>3. StateAt(block) = IF gov.executed THEN "Executed"
                         ELSE IF block >= gov.eta + Grace THEN "Expired" ELSE "Queued"
    BY <1>4, <2>1 DEF StateAt
  <2>4. Computed = StateAt(block)
    BY <1>2, <1>4, <2>2, <2>3 DEF Computed, getProposalState
  <2> QED  BY <2>3, <2>4 DEF States
<1>5. CASE ~gov.vetoed /\ ~gov.canceled /\ gov.eta = None /\ \E a \in Accounts : gov.votes[a] # None
  <2>1. ~(block <= Start) /\ ~gov.executed /\ gov.status = "Active"  BY <1>1, <1>5 DEF GovInv
  <2>2. StateAt(block) = IF block <= End THEN "Active"
                         ELSE IF Tally(1) <= Tally(0) \/ Tally(1) < QuorumVotes THEN "Defeated"
                         ELSE "Succeeded"
    BY <1>5, <2>1 DEF StateAt
  <2>3. Computed = StateAt(block)
    BY <1>1, <1>2, <1>5, <2>1, <2>2 DEF Computed, getProposalState
  <2> QED  BY <2>2, <2>3 DEF States
<1>6. CASE ~gov.vetoed /\ ~gov.canceled /\ gov.eta = None /\ ~\E a \in Accounts : gov.votes[a] # None
  <2>1. ~gov.executed /\ gov.status = "Pending"  BY <1>1, <1>6 DEF GovInv
  <2>2. Computed = IF block <= Start THEN "Pending" ELSE "Active"
    BY <1>1, <1>2, <2>1 DEF Computed, getProposalState
  <2>3. block <= Start => StateAt(block) = "Pending"  BY <1>6 DEF StateAt
  <2>4. ~(block <= Start) /\ block <= End => StateAt(block) = "Active"  BY <1>6 DEF StateAt
  <2>5. ~(block <= Start) => block > Start  BY <1>1
  <2>6. ~(block <= End) => Unvoted  BY <1>1, <2>1 DEF Unvoted
  <2> QED  BY <1>6, <2>2, <2>3, <2>4, <2>5, <2>6 DEF States
<1> QED  BY <1>1, <1>3, <1>4, <1>5, <1>6

\* The proposal of the pages that show it.
LEMMA ProposalIs ==
    ASSUME WebInv, ShownInv, Settled, page \in {"vote", "list", "create"}
    PROVE  /\ got["proposals"] # None /\ got["block"] = block
           /\ proposal = [Entity EXCEPT !.status = Computed]
           /\ proposal # None
<1>1. /\ \A hook \in PageHooks : got[hook] = Answer(hook, None)
      /\ got["block"] # None => got["time"] = block
      /\ block \in Nat
  BY AnswersIn
<1>2. /\ {"proposals", "block"} \subseteq PageHooks
      /\ page = "create" => "count" \in PageHooks
  BY DEF PageHooks
<1>3. got["proposals"] = <<Entity>> /\ got["block"] = block /\ (page = "create" => got["count"] = 1)
  BY <1>1, <1>2 DEF Answer
<1>4. block # None /\ 1 # None /\ got["time"] = block  BY <1>1, <1>3, NoneAssumption
<1> PICK e : e = Entity  OBVIOUS
<1>5. e \in Entities  BY EntityTyped DEF WebInv
<1>6. <<e>> \in Seq(Entities)  BY <1>5
<1>7. <<e>> # None /\ <<e>> # Failed  BY <1>6, AnswersAssumption
<1> PICK p : p = [e EXCEPT !.status = Computed]  OBVIOUS
<1>8. useProposals = <<p>>
  <2>1. useProposals = useAllProposalsViaSubgraph(<<e>>, block, block)
    BY <1>3, <1>4, <1>7 DEF useProposals, useAllProposals
  <2>2. useAllProposalsViaSubgraph(<<e>>, block, block) =
            [i \in 1..1 |-> [<<e>>[i] EXCEPT !.status = getProposalState(block, block, <<e>>[i])]]
    BY <1>4 DEF useAllProposalsViaSubgraph
  <2>3. [i \in 1..1 |-> [<<e>>[i] EXCEPT !.status = getProposalState(block, block, <<e>>[i])]]
            = <<p>>
    BY DEF Computed
  <2> QED  BY <2>1, <2>2, <2>3
<1>9. p.id = 1 /\ p \in Entities
  <2>1. Computed \in States  BY ComputedIs
  <2> QED  BY <1>5, <2>1 DEF Entities
<1>10. useProposal(<<p>>, 1) = p
  <2> PICK ps : ps = <<p>>  OBVIOUS
  <2>1. DOMAIN ps = {1} /\ ps[1] = p  OBVIOUS
  <2>2. \A i \in DOMAIN ps : i = 1  BY <2>1
  <2>3. \E i \in DOMAIN ps : ps[i].id = 1  BY <1>9, <2>1
  <2>4. (CHOOSE i \in DOMAIN ps : ps[i].id = 1) = 1  BY <2>2, <2>3
  <2>5. useProposal(ps, 1) = ps[CHOOSE i \in DOMAIN ps : ps[i].id = 1]  BY <2>3 DEF useProposal
  <2> QED  BY <2>1, <2>4, <2>5
<1>11. proposal = p  BY <1>3, <1>4, <1>8, <1>10 DEF proposal
<1>12. p # None  BY <1>9, AnswersAssumption
<1> QED  BY <1>3, <1>7, <1>11, <1>12

\* The proposal, entry by entry.
LEMMA ProposalSays ==
    ASSUME WebInv, ShownInv, Settled, page \in {"vote", "list", "create"}
    PROVE  /\ proposal.status = Computed /\ proposal.proposer = Proposer
           /\ proposal.startBlock = Start /\ proposal.endBlock = End /\ proposal.eta = gov.eta
           /\ proposal.againstVotes = Tally(0) /\ proposal.quorumVotes = QuorumVotes
<1> PICK e : e = Entity  OBVIOUS
<1>1. proposal = [e EXCEPT !.status = Computed]  BY ProposalIs
<1>2. e \in Entities  BY EntityTyped DEF WebInv
<1>3. /\ e.proposer = Proposer /\ e.startBlock = Start /\ e.endBlock = End /\ e.eta = gov.eta
      /\ e.againstVotes = Tally(0) /\ e.quorumVotes = QuorumVotes
  BY DEF Entity
<1> QED  BY <1>1, <1>2, <1>3 DEF Entities

\* The Alps in the lists are the votes against.
LEMMA AgainstAlps ==
    ASSUME WebInv, ShownInv, Settled, page = "vote"
    PROVE  getAlpVotes(proposal.voters, alpsRepresented, 0) = Tally(0)
<1>1. VotersFresh /\ asked = {} /\ got["proposals"] # None
  BY ProposalIs DEF ShownInv, VotersInv, Settled
<1> PICK ids : ids = VoterIds  OBVIOUS
<1> PICK lists : lists = alpsRepresented  OBVIOUS
<1> PICK e : e = Entity  OBVIOUS
<1>2. proposal.voters = e.voters
  <2>1. proposal = [e EXCEPT !.status = Computed]  BY ProposalIs
  <2>2. e \in Entities  BY EntityTyped DEF WebInv
  <2> QED  BY <2>1, <2>2 DEF Entities
<1>3. e.voters = {x \in [voter : Accounts, support : 0..2] : x.voter \in Voters(x.support)}
  BY DEF Entity
<1>4. ids = {x.voter : x \in e.voters}  BY DEF VoterIds
<1>5. DOMAIN lists = ids /\ \A a \in ids : lists[a] = Balance[a]
  <2>1. CASE got["represented"] = None
    <3>1. ids = {}  BY <1>1, <2>1 DEF VotersFresh
    <3>2. lists = <<>>  BY <2>1 DEF alpsRepresented
    <3> QED  BY <3>1, <3>2
  <2>2. CASE got["represented"] # None
    <3>1. lists = [a \in ids |-> Balance[a]]  BY <1>1, <2>2 DEF VotersFresh, alpsRepresented
    <3> QED  BY <3>1
  <2> QED  BY <2>1, <2>2
<1>6. {a \in ids : [voter |-> a, support |-> 0] \in e.voters} = Voters(0)
  <2>1. ASSUME NEW a \in Accounts
        PROVE  [voter |-> a, support |-> 0] \in e.voters <=> a \in Voters(0)
    <3> PICK x : x = [voter |-> a, support |-> 0]  OBVIOUS
    <3>1. x.voter = a /\ x.support = 0 /\ x \in [voter : Accounts, support : 0..2]  OBVIOUS
    <3> QED  BY <1>3, <3>1
  <2>2. ids \subseteq Accounts  BY <1>3, <1>4
  <2>3. ASSUME NEW a \in Voters(0) PROVE a \in ids
    <3> PICK x : x = [voter |-> a, support |-> 0]  OBVIOUS
    <3>1. a \in Accounts  BY DEF Voters
    <3>2. x \in e.voters /\ x.voter = a  BY <2>1, <3>1
    <3> QED  BY <1>4, <3>2
  <2>4. Voters(0) \subseteq Accounts  BY DEF Voters
  <2> QED  BY <2>1, <2>2, <2>3, <2>4
<1>7. getAlpVotes(e.voters, lists, 0) = Alps(lists, Voters(0))  BY <1>5, <1>6 DEF getAlpVotes
<1>8. \A a \in Voters(0) : lists[a] = Balance[a]  BY <1>5, <1>6
<1>9. Alps(lists, Voters(0)) = Alps(Balance, Voters(0))  BY <1>8, AlpsAgree
<1> QED  BY <1>2, <1>7, <1>9 DEF Tally

\* The window of the quorum.
LEMMA QuorumWindowRight ==
    ASSUME WebInv, ShownInv, Settled, page = "vote", got["quorumParams"] # None
    PROVE  QuorumInfo.current
               \in AboutQuorum(dynamicQuorumVotes(Tally(0), getDynamicQuorumParamsAt(Start)))
<1> PICK ps : ps = getDynamicQuorumParamsAt(Start)  OBVIOUS
<1>1. /\ ps.min \in Nat /\ ps.max \in Nat /\ ps.coefficient \in Nat
      /\ Supply \in Nat \ {0} /\ Unit \in Nat \ {0}
  <2> PICK n : n = IF Start < block THEN Start ELSE block  OBVIOUS
  <2>1. n \in 0..MaxBlock
    <3>1. /\ block \in Nat /\ Start \in Nat /\ End \in Nat /\ MaxBlock \in Nat
          /\ Start < End /\ End < MaxBlock
      BY VoteAssumption, NumbersAssumption DEF WebInv, ChainTyped
    <3> QED  BY <3>1
  <2>2. ps = ParamsAt[n]  BY DEF getDynamicQuorumParamsAt
  <2>3. ps \in [min : Nat, max : Nat, coefficient : Nat]  BY <2>1, <2>2, VoteAssumption
  <2> QED  BY <2>3, VoteAssumption
<1> DEFINE f(x) == Units(ps.min, ps.max, x, Unit)
           F(x) == BasisPoints(ps.min, ps.max, x, Unit)
<1>2. \A x \in Nat : F(x) \in Nat /\ f(x) \in Nat /\ F(x) * Unit <= f(x) /\ f(x) < F(x) * Unit + Unit
  BY <1>1, CappedUnits
<1> PICK t : t = Tally(0)  OBVIOUS
<1>3. t \in Nat  BY VotesNat
<1> PICK bps : bps = (10000 * t) \div Supply  OBVIOUS
<1>4. bps \in Nat /\ (t * 10000) \div Supply = bps
  <2>1. t * 10000 = 10000 * t /\ 10000 * t \in Nat  BY <1>3
  <2> QED  BY <1>1, <2>1, Division
<1> PICK c : c = ps.coefficient * bps  OBVIOUS
<1>5. c \in Nat  BY <1>1, <1>4
<1>6. dynamicQuorumVotes(t, ps) = (F(c) * Supply) \div 10000  BY DEF dynamicQuorumVotes, BasisPoints
<1>7. QuorumInfo.current = (f(c) * Supply) \div (10000 * Unit)
  <2>1. got["quorumParams"] = ps  BY DEF ShownInv, VotersInv, Settled, VotersFresh
  <2>2. getAlpVotes(proposal.voters, alpsRepresented, 0) = t  BY AgainstAlps
  <2>3. QuorumInfo = DynamicQuorumInfoModalOverlay(ps, bps, Supply)
    BY <1>4, <2>1, <2>2 DEF QuorumInfo, DynamicQuorumInfoModal
  <2>4. dqmFunction(ps, bps) = f(c)  BY DEF dqmFunction, Units
  <2> QED  BY <2>3, <2>4 DEF DynamicQuorumInfoModalOverlay
<1> HIDE DEF f, F
<1>8. (f(c) * Supply) \div (10000 * Unit)
          \in ((F(c) * Supply) \div 10000)..((F(c) * Supply) \div 10000 + 1 + Supply \div 10000)
  <2>1. F(c) \in Nat /\ f(c) \in Nat /\ F(c) * Unit <= f(c) /\ f(c) < F(c) * Unit + Unit
    BY <1>2, <1>5
  <2> QED  BY <1>1, <2>1, QuorumRounded
<1> QED  BY <1>6, <1>7, <1>8 DEF AboutQuorum

\* Accepts(call, who, arg) of a vote.
LEMMA VoteTaken ==
    ASSUME ChainTyped
    PROVE  Accepts("castVote", account, 1) <=>
               /\ ~gov.vetoed /\ ~gov.canceled /\ next > Start /\ next <= End
               /\ gov.votes[account] = None
<1>1. next \in Nat /\ Start \in Nat /\ End \in Nat
  BY NextFacts, VoteAssumption DEF ChainTyped
<1>2. StateAt(next) = "Active" <=> ~gov.vetoed /\ ~gov.canceled /\ next > Start /\ next <= End
  BY <1>1 DEF StateAt
<1> QED  BY <1>2 DEF Accepts

\* The button to vote.
LEMMA VoteButtonRight ==
    ASSUME WebInv, ShownInv, Settled, page = "vote", NEW late \in BOOLEAN
    PROVE  LET button == Header(late).voteButton
               taken == account # None /\ Accepts("castVote", account, 1)
           IN /\ button = "enabled" => taken \/ gov.canceled \/ gov.vetoed
              /\ taken /\ block > Start /\ Balance[account] > 0 => button = "enabled"
<1>1. /\ block \in Nat /\ Start \in Nat /\ End \in Nat /\ MaxBlock \in Nat /\ End < MaxBlock
      /\ account \in Mine \cup {None} /\ ChainTyped
  BY AnswersIn, VoteAssumption, NumbersAssumption DEF WebInv
<1>2. got["block"] = block /\ block # None
  BY <1>1, ProposalIs, NoneAssumption
<1> DEFINE active == block < End /\ (Start < block \/ (Start = block /\ late))
<1>3. isActiveForVoting(proposal, got["block"], late) <=> active
  <2>1. startDate(proposal, block) = Start - block /\ endDate(proposal, block) = End - block
    BY ProposalSays DEF startDate, endDate
  <2>2. /\ isBefore(Start - block, late) <=> (Start < block \/ (Start = block /\ late))
        /\ isAfter(End - block) <=> block < End
    BY <1>1 DEF isBefore, isAfter
  <2> QED  BY <1>2, <2>1, <2>2 DEF isActiveForVoting
<1> DEFINE able == /\ account # None /\ got["priorVotes"] \notin {None, 0}
                   /\ ~hasVoted(got["receipt"])
<1>4. Header(late).voteButton = IF ~active THEN "none" ELSE IF ~able THEN "disabled" ELSE "enabled"
  BY <1>3 DEF Header, ProposalHeader, disableVoteButton
<1>5. account # None => (able <=> Balance[account] > 0 /\ gov.votes[account] = None)
  <2> SUFFICES ASSUME account # None
               PROVE  able <=> Balance[account] > 0 /\ gov.votes[account] = None
    OBVIOUS
  <2>1. account \in Accounts  BY <1>1 DEF Accounts
  <2>2. AccountHooks(got) = {"receipt", "priorVotes"}  BY ProposalIs DEF AccountHooks
  <2>3. got["receipt"] = Answer("receipt", account) /\ got["priorVotes"] = Answer("priorVotes", account)
    BY <2>2, AnswersIn
  <2>4. /\ got["receipt"] = [hasVoted |-> gov.votes[account] # None,
                              support |-> IF gov.votes[account] = None THEN 0 ELSE gov.votes[account]]
        /\ got["priorVotes"] = Balance[account]
    BY <2>3 DEF Answer
  <2>5. Balance[account] \in Nat /\ Balance[account] # None
    BY <2>1, VoteAssumption, NoneAssumption
  <2>6. gov.votes[account] # None => gov.votes[account] \in 0..2
    BY <1>1, <2>1, NumbersAssumption DEF ChainTyped
  <2>7. hasVoted(got["receipt"]) <=> gov.votes[account] # None
    <3> PICK voted \in BOOLEAN : voted <=> gov.votes[account] # None  OBVIOUS
    <3> PICK support : support = IF gov.votes[account] = None THEN 0 ELSE gov.votes[account]
      OBVIOUS
    <3>1. (gov.votes[account] # None) = voted  OBVIOUS
    <3>2. got["receipt"] = [hasVoted |-> voted, support |-> support]  BY <2>4, <3>1
    <3>3. support \in 0..2  BY <2>6
    <3>4. got["receipt"] \in Receipts  BY <3>2, <3>3 DEF Receipts
    <3>5. got["receipt"] # None  BY <3>4, NoneAssumption
    <3>6. got["receipt"].hasVoted = voted  BY <3>2
    <3> QED  BY <3>5, <3>6 DEF hasVoted
  <2> QED  BY <2>4, <2>5, <2>7
<1> HIDE DEF active, able
<1>6. Accepts("castVote", account, 1) <=>
          /\ ~gov.vetoed /\ ~gov.canceled /\ next > Start /\ next <= End
          /\ gov.votes[account] = None
  BY <1>1, VoteTaken
<1>7. next \in Nat /\ (next <= End => next = block + 1) /\ (next = block => block > End)
  BY <1>1, NextFacts
<1>8. Header(late).voteButton = "enabled" =>
          (account # None /\ Accepts("castVote", account, 1)) \/ gov.canceled \/ gov.vetoed
  <2> SUFFICES ASSUME Header(late).voteButton = "enabled", ~gov.canceled, ~gov.vetoed
               PROVE  account # None /\ Accepts("castVote", account, 1)
    OBVIOUS
  <2>1. active /\ able  BY <1>4
  <2>2. account # None /\ gov.votes[account] = None  BY <1>5, <2>1 DEF able
  <2>3. block < End /\ Start <= block  BY <1>1, <2>1 DEF active
  <2>4. next = block + 1  BY <1>1, <2>3 DEF next
  <2> QED  BY <1>1, <1>6, <2>2, <2>3, <2>4
<1>9. account # None /\ Accepts("castVote", account, 1) /\ block > Start /\ Balance[account] > 0
          => Header(late).voteButton = "enabled"
  <2> SUFFICES ASSUME account # None, Accepts("castVote", account, 1), block > Start,
                      Balance[account] > 0
               PROVE  Header(late).voteButton = "enabled"
    OBVIOUS
  <2>1. gov.votes[account] = None /\ next = block + 1 /\ next <= End  BY <1>6, <1>7
  <2>2. active  BY <1>1, <2>1 DEF active
  <2>3. able  BY <1>5, <2>1
  <2> QED  BY <1>4, <2>2, <2>3
<1> QED  BY <1>8, <1>9

\* What the button that moves a proposal on says.
LEMMA MoveIs ==
    Shown.move = IF ~isAwaitingStateChange(proposal, block) THEN "none"
                 ELSE IF ui.pending["queue"] \/ ui.pending["execute"] THEN "spinner"
                 ELSE moveStateAction(proposal)
BY DEF Shown, VotePage

LEMMA VotePageIsRight ==
    ASSUME WebInv, ShownInv, Settled
    PROVE  VotePageRight
<1> SUFFICES ASSUME page = "vote" PROVE VotePageRight  BY DEF VotePageRight
<1>1. proposal.status = Computed /\ proposal.eta = gov.eta /\ proposal.quorumVotes = QuorumVotes
  BY ProposalSays
<1>2. Computed = StateAt(block) \/ (Unvoted /\ Computed = "Active")  BY ComputedIs
<1>3. Shown.move \in {"queue", "spinner"} \/ StateAt(block) # "Succeeded" \/ Unvoted
  <2> SUFFICES ASSUME StateAt(block) = "Succeeded", ~Unvoted PROVE Shown.move \in {"queue", "spinner"}
    OBVIOUS
  <2>1. proposal.status = "Succeeded"  BY <1>1, <1>2
  <2> QED  BY <2>1, MoveIs DEF isAwaitingStateChange, moveStateAction
<1>4. Shown.move = "queue" => StateAt(block) = "Succeeded"
  BY <1>1, <1>2, MoveIs DEF moveStateAction
<1>5. Shown.move = "execute" => StateAt(block) = "Queued" /\ block >= gov.eta
  BY <1>1, <1>2, MoveIs DEF moveStateAction, isAwaitingStateChange
<1>6. \A late : Info(late).quorum = QuorumVotes
  <2>1. got["quorum"] = QuorumVotes /\ QuorumVotes # None
    BY AnswersIn, ProposalIs, VotesNat, NoneAssumption
  <2> QED  BY <1>1, <2>1 DEF Info, VoteInfo
<1>7. got["quorumParams"] # None => QuorumInfo.current
          \in AboutQuorum(dynamicQuorumVotes(Tally(0), getDynamicQuorumParamsAt(Start)))
  BY QuorumWindowRight
<1> QED  BY <1>3, <1>4, <1>5, <1>6, <1>7, VoteButtonRight DEF VotePageRight

\* The list offers a new proposal above the threshold.
LEMMA ListRight ==
    ASSUME WebInv, ShownInv, Settled, page = "list"
    PROVE  LET list == Proposals(useProposals, account, got["votes"], got["threshold"],
                                 got["balance"], got["block"], FALSE)
           IN (list.submit = "enabled") <=> (account # None /\ Votes(account) > Threshold)
<1>1. PageHooks = {"proposals", "block", "threshold"} /\ AccountHooks(got) = {"votes", "balance"}
  BY DEF PageHooks, AccountHooks
<1>2. got["threshold"] = Threshold /\ got["votes"] = IF account = None THEN 0 ELSE Votes(account)
  <2>1. got["threshold"] = Answer("threshold", None) /\ got["votes"] = Answer("votes", account)
    BY <1>1, AnswersIn
  <2> QED  BY <2>1 DEF Answer
<1>3. Votes(account) \in Nat /\ Threshold \in Nat  BY VotesNat, VoteAssumption
<1>4. \A n \in Nat : Zero(n) = n  BY NoneAssumption DEF Zero
<1>5. hasEnoughVotesToPropose(account, got["votes"], got["threshold"])
          <=> (account # None /\ Votes(account) > Threshold)
  BY <1>2, <1>3, <1>4 DEF hasEnoughVotesToPropose
<1>6. nullStateCopy(got["votes"]) # "enabled"  BY DEF nullStateCopy
<1>7. Proposals(useProposals, account, got["votes"], got["threshold"], got["balance"],
                got["block"], FALSE).submit
          = IF hasEnoughVotesToPropose(account, got["votes"], got["threshold"]) THEN "enabled"
            ELSE nullStateCopy(got["votes"])
  BY DEF Proposals
<1> QED  BY <1>5, <1>6, <1>7

\* A proposer whose proposal goes on in the next block has one now.
LEMMA StillGoing ==
    ASSUME WebInv, ShownInv, StateAt(next) \in {"Pending", "Active"}
    PROVE  Computed \in {"Pending", "Active"}
<1>1. block \in Nat /\ next \in Nat /\ block <= next /\ Start \in Nat /\ End \in Nat
  BY NextFacts, VoteAssumption DEF WebInv, ChainTyped
<1>2. ~gov.vetoed /\ ~gov.canceled /\ (next <= Start \/ next <= End)
  BY DEF StateAt
<1>3. StateAt(block) \in {"Pending", "Active"}  BY <1>1, <1>2 DEF StateAt
<1> QED  BY <1>3, ComputedIs

\* The button to propose.
LEMMA CreateRight ==
    ASSUME WebInv, ShownInv, Settled, page = "create", account # None, CreateProposalButton.enabled
    PROVE  Accepts("propose", account, ui.calls)
<1>1. ~hasActiveOrPendingProposal /\ hasEnoughVote  BY DEF CreateProposalButton
<1>2. "threshold" \in PageHooks /\ AccountHooks(got) = {"votes"}  BY DEF PageHooks, AccountHooks
<1>3. got["threshold"] = Threshold /\ got["votes"] = Votes(account)
  <2>1. got["threshold"] = Answer("threshold", None) /\ got["votes"] = Answer("votes", account)
    BY <1>2, AnswersIn
  <2> QED  BY <2>1 DEF Answer
<1>4. Votes(account) > Threshold  BY <1>1, <1>3 DEF hasEnoughVote
<1>5. proposal # None /\ proposal.status = Computed /\ proposal.proposer = Proposer
  BY ProposalIs, ProposalSays
<1>6. ~(account = Proposer /\ StateAt(next) \in {"Pending", "Active"})
  BY <1>1, <1>5, StillGoing DEF hasActiveOrPendingProposal
<1> QED  BY <1>4, <1>6 DEF Accepts

\* The window that delegates knows the delegate.
LEMMA DelegateRight ==
    ASSUME WebInv, ShownInv, Settled, page = "delegate", account # None
    PROVE  ChangeDelegatePannel.already <=> (ui.state = "enter" /\ ui.address = delegates[account])
<1>1. AccountHooks(got) = {"balance", "delegate"}  BY DEF AccountHooks
<1>2. got["delegate"] = delegates[account]
  <2>1. got["delegate"] = Answer("delegate", account)  BY <1>1, AnswersIn
  <2> QED  BY <2>1 DEF Answer
<1>3. delegates[account] \in Accounts
  BY AnswersIn DEF ShownInv, DelegatesInv, Accounts
<1> QED  BY <1>2, <1>3 DEF ChangeDelegatePannel, isAddress

\* Once all answers are in, and none has failed, come after that to a later question or been
\* outdated by the chain, what the pages show and offer is what the governor says and takes:
\* the state of the proposal, the buttons to vote, queue, execute and propose, and the
\* delegate. The quorum window shows the quorum by the parameters at the start of the vote,
\* which are those of the governor if they did not change during the voting delay
\* (wrappers/alpsDao.ts and alpToken.ts under pages/Vote, components/DynamicQuorumInfoModal,
\* pages/CreateProposal, Proposals, ChangeDelegatePannel).
THEOREM PageAlwaysShowsChain == Spec => []PageShowsChain
<1>1. WebInv /\ ShownInv => PageShowsChain
  <2> SUFFICES ASSUME WebInv, ShownInv, Settled PROVE PageShowsChain  BY DEF PageShowsChain
  <2>1. Loaded => proposal.status = StateAt(block) \/ Unvoted
    BY ComputedIs, ProposalSays DEF Loaded
  <2> QED  BY <2>1, VotePageIsRight, ListRight, CreateRight, DelegateRight DEF PageShowsChain
<1> QED  BY <1>1, PagesKeepTrack, PagesStayFresh, PTL
=============================================================================
