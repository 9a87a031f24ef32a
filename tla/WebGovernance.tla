----------------------------- MODULE WebGovernance -----------------------------
(***************************************************************************)
(* The governance pages of nouns-webapp: one browser tab on the page of a  *)
(* proposal, the list of proposals, the form for a new one or the window   *)
(* that delegates votes. The governor and the token go on while the tab    *)
(* waits for answers, for the wallet and for its transactions. They are    *)
(* reduced to what the tab sees: one proposal, and who delegates to whom.  *)
(*                                                                         *)
(* A page asks for what it shows when it is opened, and again only when    *)
(* the account changes; the answers come in any order, or not at all. An   *)
(* answer is read and handed over in one step. A block holds at most one   *)
(* transaction, and a visit to one page is modelled, from opening to the   *)
(* end of the behaviour. The Apollo queries of a page answer together. The *)
(* page of a new proposal is seen twice, without what its window is filled *)
(* in with ("create") and in its window ("form"); and so is the list, with *)
(* a subgraph that answers ("list") and with one that does not ("offline").*)
(***************************************************************************)
EXTENDS WebProposals, SequencesExt

CONSTANTS
    Mine, Others,      \* the accounts of the wallet, and the voters outside it
    Balance,           \* the Alps of each account
    Proposer,          \* who proposed the proposal
    Created, Start, End, Delay,   \* its block, its voting period, and the delay of the timelock
    ParamsAt, Supply,  \* the dynamic quorum parameters at each block, and the supply
    Threshold,         \* the votes a proposer must exceed
    LogBlocks, PerCall,   \* the blocks with a ProposalCreated event; MAX_BLOCKS_PER_CALL
    Names, NameOf,     \* what the user types to delegate to, and the account it names
    ABI,               \* the functions etherscan knows of each address, or None
    Arity,             \* the arguments each function takes
    Pages,             \* the pages a user opens
    Supports,          \* bound: the kinds of votes cast
    MaxBlock, MaxDeeds, MaxChanges, MaxCalls   \* bounds: blocks, transactions, changes of
                       \* account, calls of a new proposal

Accounts == Mine \cup Others

ASSUME NumbersAssumption ==
    /\ {MaxBlock, Delay} \subseteq Nat /\ PerCall \in Nat \ {0}
    /\ LogBlocks \subseteq Nat /\ Supports \subseteq 0..2
\* The proposal and the accounts are those of the chain; the chain goes on past the vote.
ASSUME VoteAssumption ==
    /\ {Created, Start, End, Grace, Threshold} \subseteq Nat /\ {Supply, Unit} \subseteq Nat \ {0}
    /\ ParamsAt \in [0..MaxBlock -> [min : Nat, max : Nat, coefficient : Nat]]
    /\ IsFiniteSet(Accounts) /\ Balance \in [Accounts -> Nat]
    /\ Created < Start /\ Start < End /\ End < MaxBlock
\* No vote, time, block or account, and no answer, is mistaken for the absence of one.
Receipts == [hasVoted : BOOLEAN, support : 0..2]
ASSUME NoneAssumption ==
    /\ None \notin Int \cup Accounts /\ None \notin Receipts
    /\ None \notin [min : Nat, max : Nat, coefficient : Nat]
    /\ \A voters \in SUBSET Accounts : None \notin [voters -> Nat]
ASSUME PagesAssumption == Pages \subseteq {"vote", "list", "offline", "create", "form", "delegate"}
ASSUME NamesAssumption == NameOf \in [Names \cup Accounts -> Accounts \cup {None}]

\* The state of the vote page and its window, and of the window that delegates.
VoteUI == [show : BOOLEAN, loading : BOOLEAN, voted : BOOLEAN, failed : BOOLEAN, info : BOOLEAN,
           pending : [queue : BOOLEAN, execute : BOOLEAN]]
Texts == Names \cup Accounts \cup {None}
DelegateUI == [state : {"enter", "changing", "success", "failure"},
               to : Texts, text : Texts, address : Texts]
\* A page that is not open has none.
ASSUME WindowAssumption == None \notin VoteUI \cup DelegateUI

\* A proposal as the subgraph has it, with the state the page computes; no answer that
\* holds one is mistaken for none, or for a failure.
Entities ==
    [id : {1}, status : States, proposer : {Proposer}, forVotes : Nat, againstVotes : Nat,
     abstainVotes : Nat, createdBlock : {Created}, startBlock : {Start}, endBlock : {End},
     eta : Nat \cup {None}, quorumVotes : Nat, voters : SUBSET [voter : Accounts, support : 0..2]]
ASSUME AnswersAssumption == None \notin Entities /\ \A x \in {None, Failed} : x \notin Seq(Entities)

Calls == {"castVote", "castVoteWithReason", "queue", "execute", "propose", "delegate"}

VARIABLES
    block, gov, delegates,   \* the chain
    page, account,           \* the page the tab is on, and the account it shows
    asked,                   \* requests under way, <<hook, key>>
    got,                     \* what the hooks of the page hold
    logs,                    \* the redux slice of event logs, and the updater's fetches
    ui,                      \* the state of the page's components
    status,                  \* the status of each useTransaction hook
    deeds,                   \* the transactions the user started
    changes,                 \* how often the account changed
    off                      \* history: something shown was missed, overtaken or has changed

chain == <<block, gov, delegates>>
vars == <<chain, page, account, asked, got, logs, ui, status, deeds, changes, off>>

-----------------------------------------------------------------------------
(* The chain. *)

next == IF block < MaxBlock THEN block + 1 ELSE block
\* The votes of an account at the snapshot, the block of the proposal, are its Alps. A vote
\* cast without any adds nothing.
Voters(support) == {a \in Accounts : gov.votes[a] = support /\ Balance[a] > 0}
Tally(support) == Alps(Balance, Voters(support))
Votes(a) == Alps(Balance, {b \in Accounts : delegates[b] = a})

\* The parameters in force at block n, or for a later block those there are.
getDynamicQuorumParamsAt(n) == ParamsAt[IF n < block THEN n ELSE block]

\* The quorum for the votes against.
dynamicQuorumVotes(against, params) ==
    LET bps == params.min + (params.coefficient * ((10000 * against) \div Supply)) \div Unit
    IN ((IF bps < params.max THEN bps ELSE params.max) * Supply) \div 10000
\* At the current ones: the parameters are those at the block of the proposal.
QuorumVotes == dynamicQuorumVotes(Tally(0), ParamsAt[Created])

\* The governor's state() at block n.
StateAt(n) ==
    CASE gov.vetoed -> "Vetoed"
      [] ~gov.vetoed /\ gov.canceled -> "Cancelled"
      [] OTHER ->
           IF n <= Start THEN "Pending"
           ELSE IF n <= End THEN "Active"
           ELSE IF Tally(1) <= Tally(0) \/ Tally(1) < QuorumVotes THEN "Defeated"
           ELSE IF gov.eta = None THEN "Succeeded"
           ELSE IF gov.executed THEN "Executed"
           ELSE IF n >= gov.eta + Grace THEN "Expired" ELSE "Queued"

\* What the subgraph has made of the governor's events.
Entity ==
    [id |-> 1, status |-> gov.status, proposer |-> Proposer,
     forVotes |-> Tally(1), againstVotes |-> Tally(0), abstainVotes |-> Tally(2),
     createdBlock |-> Created, startBlock |-> Start, endBlock |-> End,
     eta |-> gov.eta, quorumVotes |-> QuorumVotes,
     voters |-> {v \in [voter : Accounts, support : 0..2] : v.voter \in Voters(v.support)}]

\* Whether the chain takes a call from an account in the next block, and what it does.
Accepts(call, who, arg) ==
    CASE call \in {"castVote", "castVoteWithReason"} ->
           StateAt(next) = "Active" /\ gov.votes[who] = None
      [] call = "queue"   -> StateAt(next) = "Succeeded"
      [] call = "execute" -> StateAt(next) = "Queued" /\ next >= gov.eta
      [] call = "propose" -> /\ Votes(who) > Threshold
                             /\ ~(who = Proposer /\ StateAt(next) \in {"Pending", "Active"})
      [] OTHER            -> TRUE

Effect(call, who, arg) ==
    /\ gov' = CASE call \in {"castVote", "castVoteWithReason"} ->
                     [gov EXCEPT !.votes[who] = arg,
                                 !.status = IF @ = "Pending" THEN "Active" ELSE @]
                [] call = "queue"   -> [gov EXCEPT !.eta = next + Delay, !.status = "Queued"]
                [] call = "execute" -> [gov EXCEPT !.executed = TRUE, !.status = "Executed"]
                [] call = "cancel"  -> [gov EXCEPT !.canceled = TRUE, !.status = "Cancelled"]
                [] call = "veto"    -> [gov EXCEPT !.vetoed = TRUE, !.status = "Vetoed"]
                [] OTHER            -> gov
    /\ delegates' = IF call = "delegate" THEN [delegates EXCEPT ![who] = arg] ELSE delegates
    /\ block' = next

\* What was shown is out of date once the chain moves on.
Outdated == off' = (off \/ \E hook \in DOMAIN got : got[hook] # None)

FromElsewhere(call, who, arg) ==
    /\ Accepts(call, who, arg)
    /\ Effect(call, who, arg)
    /\ Outdated
    /\ UNCHANGED <<page, account, asked, got, logs, ui, status, deeds, changes>>

Hooks == {"proposals", "represented", "block", "time", "receipt", "priorVotes", "quorum", "quorumParams",
          "votes", "count", "threshold", "balance", "delegate"}
Nothing == [hook \in Hooks |-> None]

\* What a page does not read stands still, and a bound: an open page is disturbed once, by
\* the chain, by an answer that fails or by the wallet, until a transaction is started, and
\* the first one is started once all answers are in. The list and the page of a new
\* proposal, which ask once and tell nothing of what happens afterwards, are not disturbed
\* by the chain, and a visit to the list ends when it is disturbed. A proposal is not
\* cancelled after its veto, which the subgraph would tell apart from the governor.
Undisturbed == ~off /\ changes = 0
BeforeOpen == ui = None /\ page \in {"list", "create"}
ProposalMoves == BeforeOpen \/ (page = "vote" /\ Undisturbed /\ (ui = None \/ got # Nothing))

NewBlock == (ProposalMoves \/ page = "offline") /\ block < MaxBlock /\ FromElsewhere("none", None, None)
OthersVote == /\ ProposalMoves
              /\ \E a \in IF page = "vote" THEN {b \in Accounts : Balance[b] > 0} ELSE Others, s \in Supports :
                    FromElsewhere("castVote", a, s)
OthersMoveOn == /\ ProposalMoves
                /\ \E call \in {"queue", "execute"} : FromElsewhere(call, None, None)
OthersStop == /\ ProposalMoves /\ ~gov.executed /\ ~gov.vetoed
              /\ \/ ~gov.canceled /\ FromElsewhere("cancel", None, None)
                 \/ FromElsewhere("veto", None, None)
OthersDelegate == /\ BeforeOpen
                  /\ \E a \in Others, b \in Accounts :
                        b # delegates[a] /\ FromElsewhere("delegate", a, b)

-----------------------------------------------------------------------------
(* The hooks that ask the chain and the subgraph. *)


useProposals == useAllProposals(got["proposals"], got["block"], got["time"])

\* The proposal of the vote page; for a new proposal the latest one, once their number is
\* known.
proposal == IF page = "create" /\ got["count"] = None THEN None ELSE useProposal(useProposals, 1)

\* What the answer to a request says, as the chain and the subgraph are. The subgraph's lists
\* of the Alps that voters represented at the block of the proposal come as their lengths.
Answer(hook, key) ==
    CASE hook = "proposals"    -> <<Entity>>
      [] hook = "block"        -> block
      [] hook = "time"         -> key
      [] hook = "represented"  -> [a \in key |-> Balance[a]]
      [] hook = "receipt"      -> [hasVoted |-> gov.votes[key] # None,
                                   support |-> IF gov.votes[key] = None THEN 0 ELSE gov.votes[key]]
      [] hook = "priorVotes"   -> Balance[key]
      [] hook = "quorum"       -> IF key = 0 THEN 0 ELSE QuorumVotes
      [] hook = "quorumParams" -> getDynamicQuorumParamsAt(key)
      [] hook = "votes"        -> IF key = None THEN 0 ELSE Votes(key)
      [] hook = "count"        -> 1
      [] hook = "threshold"    -> Threshold
      [] hook = "balance"      -> Balance[key]
      [] hook = "delegate"     -> delegates[key]

\* The hooks that ask about the account of the wallet. Nobody's votes are those of the
\* zero address; the others hold nothing while nobody is connected. A page has the hooks
\* its components call: the receipt and the votes at the snapshot wait for the proposal.
\* The two hooks of the header that fetch the receipt are taken as one.
AccountHooks(g) ==
    CASE page \in {"form", "offline"} -> {}
      [] page = "vote"     -> IF g["proposals"] = None THEN {} ELSE {"receipt", "priorVotes"}
      [] page = "list"     -> {"votes", "balance"}
      [] page = "create"   -> {"votes"}
      [] page = "delegate" -> {"balance", "delegate"}

\* A fault: a receipt is not fetched again for another account.
AskForOnce(a) == {<<hook, a>> : hook \in {h \in AccountHooks(got) \ {"receipt"} :
                                            a # None \/ h = "votes"}}

AskFor(a) == {<<hook, a>> : hook \in {h \in AccountHooks(got) : a # None \/ h = "votes"}}

PageHooks ==
    CASE page = "vote"   -> {"proposals", "block"}
      [] page = "list"   -> {"proposals", "block", "threshold"}
      [] page = "create" -> {"proposals", "block", "count", "threshold"}
      [] page = "offline" -> {"proposals", "block"}
      [] OTHER           -> {}

\* What an answer makes the page ask next: the time of the block, and for a proposal the
\* receipt, the votes at its snapshot, the Alps its voters represented there, unless there are
\* none, and its quorum. The query that tells whether the quorum is
\* dynamic may have been answered first: the quorum of proposal 0 was asked then.
Follow(hook) ==
    IF hook = "block" THEN {{<<"time", block>>}}
    ELSE IF hook = "proposals" /\ page = "vote"
    THEN LET votes == IF account = None THEN {}
                      ELSE {<<"receipt", account>>, <<"priorVotes", account>>}
             lists == IF Entity.voters = {} THEN {}
                      ELSE {<<"represented", {v.voter : v \in Entity.voters}>>}
             more == votes \cup lists \cup {<<"quorum", 1>>}
         IN {more, more \cup {<<"quorum", 0>>}}
    ELSE {{}}

ByAccount(hook) == hook \in {"receipt", "priorVotes", "votes", "balance", "delegate"}
\* Whether an answer comes after the one to a later question of the same hook.
Overtaken(hook, key) ==
    \/ ByAccount(hook) /\ key # account /\ <<hook, account>> \notin asked
    \/ hook = "quorum" /\ key = 0 /\ <<hook, 1>> \notin asked

Answered(hook, key) ==
    /\ <<hook, key>> \in asked
    /\ ~(page = "offline" /\ hook = "proposals") /\ ~(page = "list" /\ off)
    /\ got' = [got EXCEPT ![hook] = Answer(hook, key)]
    /\ \E more \in Follow(hook) : asked' = (asked \ {<<hook, key>>}) \cup more
    /\ off' = (off \/ Overtaken(hook, key))
    /\ UNCHANGED <<chain, page, account, logs, ui, status, deeds, changes>>

\* An answer that fails leaves the hook with what it has; it is not asked for again. A
\* query that fails turns the page to the chain's event logs, for the updater that knows
\* the block at which the application was loaded.
Unanswered(hook, key) ==
    /\ <<hook, key>> \in asked
    /\ IF hook = "proposals" THEN page = "offline" ELSE Undisturbed
    /\ IF hook = "proposals"
       THEN /\ got' = [got EXCEPT ![hook] = Failed]
            /\ \E n \in 1..block : logs' = [logs EXCEPT !.listeners = @ + 1, !.block = n]
       ELSE UNCHANGED <<got, logs>>
    /\ asked' = asked \ {<<hook, key>>}
    /\ off' = TRUE
    /\ UNCHANGED <<chain, page, account, ui, status, deeds, changes>>

-----------------------------------------------------------------------------
(* The wallet: useWallet, NavWallet and WalletConnectModal. *)

\* A bound: on the page of a proposal the account changes once only answers about the
\* account are awaited; and after a transaction was started, only while it waits to be signed.
Account(a) ==
    /\ changes < MaxChanges /\ a # account
    /\ page = "vote" => \A q \in asked : q[1] \in AccountHooks(got)
    /\ Undisturbed \/ (Len(deeds) = 1 /\ deeds[1].stage = "sign")
    /\ changes' = changes + 1
    /\ account' = a
    /\ got' = IF a # None THEN got
              ELSE [hook \in Hooks |-> IF hook \in AccountHooks(got) \ {"votes"} THEN None
                                       ELSE got[hook]]
    /\ asked' = asked \cup AskFor(a)
    /\ UNCHANGED <<chain, page, logs, ui, status, deeds, off>>

activate(a) == Account(a)
deactivate == Account(None)

\* Any wallet of the list may be connected while one is: switching leaves the list open.
WalletConnectModal == \E a \in Mine : activate(a)
disconnectWalletHandler == deactivate

-----------------------------------------------------------------------------
(* Transactions: useTransaction. *)

\* A button that calls the chain asks the wallet. The status of the hook is PendingSignature.
\* A bound: a second transaction is of the same hook, and starts while the first is mined.
Deed(call, arg) ==
    /\ Len(deeds) < MaxDeeds
    /\ IF deeds = <<>> THEN page = "delegate" \/ (asked = {} /\ ~off)
       ELSE /\ page = "vote" /\ changes = 0 /\ ~off
            /\ \A d \in DOMAIN deeds : deeds[d].call = call /\ deeds[d].stage = "mining"
    /\ deeds' = Append(deeds, [call |-> call, arg |-> arg, who |-> account, stage |-> "sign",
                               replaced |-> "no", ok |-> FALSE])
    /\ status' = [status EXCEPT ![call] = "PendingSignature"]

\* What the components make of a transaction's status.
handleVoteStateChange(u, s) ==
    CASE s = "Mining"  -> [u EXCEPT !.loading = TRUE]
      [] s = "Success" -> [u EXCEPT !.loading = FALSE, !.voted = TRUE]
      [] OTHER         -> [u EXCEPT !.loading = FALSE, !.failed = TRUE]

\* The button of a call is pending while it is mined; it is not while the wallet is asked.
onTransactionStateChange(u, call, s) == [u EXCEPT !.pending[call] = s = "Mining"]

ProposeEffect(u, s) == [u EXCEPT !.pending["propose"] = s = "Mining"]

\* A fault: a delegation that the wallet or the chain refuses leaves the window as it is.
DelegateEffectStuck(u, s) ==
    [u EXCEPT !.state = IF s = "Success" THEN "success" ELSE "changing"]

DelegateEffect(u, s) ==
    [u EXCEPT !.state = CASE s = "Success" -> "success" [] s = "Mining" -> "changing"
                          [] OTHER -> "failure"]

SetStatus(call, s) ==
    /\ status' = [status EXCEPT ![call] = s]
    /\ ui' = CASE call \in {"castVote", "castVoteWithReason"} -> handleVoteStateChange(ui, s)
               [] call \in {"queue", "execute"} -> onTransactionStateChange(ui, call, s)
               [] call = "propose"  -> ProposeEffect(ui, s)
               [] call = "delegate" -> DelegateEffect(ui, s)

At(d, stage) == d \in DOMAIN deeds /\ deeds[d].stage = stage

\* The wallet signs with the account it is on, which the page has not been told of when
\* the user changed it there. Without a wallet nothing is signed.
Signed(d, who) ==
    /\ At(d, "sign") /\ deeds[d].who # None
    /\ deeds' = [deeds EXCEPT ![d].stage = "mining", ![d].who = who]
    /\ SetStatus(deeds[d].call, "Mining")
    /\ UNCHANGED <<chain, page, account, asked, got, logs, changes, off>>

\* The user declines, or the call fails when its gas is estimated.
Rejected(d) ==
    /\ At(d, "sign")
    /\ deeds' = [deeds EXCEPT ![d].stage = "done"]
    /\ SetStatus(deeds[d].call, "Exception")
    /\ UNCHANGED <<chain, page, account, asked, got, logs, changes, off>>

\* The chain runs the transaction, the wallet having raised its fee perhaps, or another
\* one the user sent in its place.
Mined(d) ==
    /\ At(d, "mining")
    /\ \/ \E replaced \in {"no", "repriced"} :
             LET deed == deeds[d]
                 ok == Accepts(deed.call, deed.who, deed.arg)
             IN /\ deeds' = [deeds EXCEPT ![d].stage = "mined", ![d].replaced = replaced,
                                          ![d].ok = ok]
                /\ IF ok THEN Effect(deed.call, deed.who, deed.arg) /\ Outdated
                   ELSE UNCHANGED <<chain, off>>
       \/ /\ deeds' = [deeds EXCEPT ![d].stage = "mined", ![d].replaced = "other", ![d].ok = TRUE]
          /\ UNCHANGED <<chain, off>>
    /\ UNCHANGED <<page, account, asked, got, logs, ui, status, changes>>

\* A fault: whatever came in the place of a transaction counts as that transaction.
isDroppedAndReplacedAny(deed) == deed.replaced # "no"

\* Whether the transaction itself was mined, under another hash.
isDroppedAndReplaced(deed) == deed.replaced = "repriced"

Receipt(d) ==
    /\ At(d, "mined")
    /\ LET deed == deeds[d]
           mined == deed.replaced = "no" \/ isDroppedAndReplaced(deed)
       IN SetStatus(deed.call, IF mined /\ deed.ok THEN "Success" ELSE "Fail")
    /\ deeds' = [deeds EXCEPT ![d].stage = "done"]
    /\ UNCHANGED <<chain, page, account, asked, got, logs, changes, off>>

-----------------------------------------------------------------------------
(* The vote page. *)

Here == UNCHANGED <<chain, page, account, got, logs, changes, off>>
OnlyHere == Here /\ UNCHANGED <<asked, status, deeds>>

Loaded == page \in {"vote", "list"} /\ ui # None /\ got["proposals"] # None

Header(late) ==
    ProposalHeader(proposal, isActiveForVoting(proposal, got["block"], late), account,
                   got["priorVotes"], got["receipt"])
OpenVoteModal ==
    /\ page = "vote" /\ Loaded /\ ~ui.show
    /\ \E late \in BOOLEAN : Header(late).voteButton = "enabled"
    /\ ui' = [ui EXCEPT !.show = TRUE]
    /\ OnlyHere

\* What the window shows: after a success, that one voted, whoever is connected by then.
VoteModal == [voted |-> ui.voted, failed |-> ui.failed,
              buttons |-> IF ui.voted \/ ui.failed THEN "none"
                          ELSE IF ui.loading THEN "spinner" ELSE "enabled"]

\* A bound: who votes against gives a reason, the others none.
SubmitVote ==
    /\ page = "vote" /\ Loaded /\ ui.show
    /\ VoteModal.buttons = "enabled"
    /\ \E s \in Supports : Deed(IF s = 0 THEN "castVoteWithReason" ELSE "castVote", s)
    /\ ui' = [ui EXCEPT !.loading = TRUE]
    /\ Here /\ UNCHANGED asked

\* Closing the window forgets a failure, not a success. A vote under way goes on.
DismissVoteModal ==
    /\ page = "vote" /\ Loaded /\ ui.show
    /\ ui' = [ui EXCEPT !.show = FALSE, !.failed = FALSE, !.loading = FALSE]
    /\ OnlyHere

\* The timer of a success.
CloseVoteModal ==
    /\ page = "vote" /\ Loaded /\ ui.show /\ ui.voted
    /\ ui' = [ui EXCEPT !.show = FALSE, !.failed = FALSE]
    /\ OnlyHere

\* The lists of Alps are empty until they have arrived.
alpsRepresented == IF got["represented"] = None THEN <<>> ELSE got["represented"]
Shown == VotePage(proposal, Header(FALSE), alpsRepresented,
                  ui.pending["queue"] \/ ui.pending["execute"], block)
\* The quorum coefficient the subgraph has kept with the proposal.
isV2Prop == ParamsAt[Created].coefficient > 0
Info(late) == VoteInfo(proposal, isV2Prop, got["quorum"], got["block"], late)

MoveState ==
    /\ page = "vote" /\ Loaded
    /\ Shown.move \in {"queue", "execute"}
    /\ Deed(Shown.move, None)
    /\ Here /\ UNCHANGED <<asked, ui>>

\* The quorum window asks for the parameters at the start of the vote, where the governor
\* takes those at the block of the proposal. A bound: it is opened before there is a transaction.
OpenQuorumInfo ==
    /\ page = "vote" /\ Loaded /\ isV2Prop /\ ~ui.info /\ deeds = <<>>
    /\ ui' = [ui EXCEPT !.info = TRUE]
    /\ asked' = asked \cup {<<"quorumParams", proposal.startBlock>>}
    /\ Here /\ UNCHANGED <<status, deeds>>
QuorumInfo == DynamicQuorumInfoModal(got["quorumParams"],
                                     getAlpVotes(proposal.voters, alpsRepresented, 0), Supply)

-----------------------------------------------------------------------------
(* The page of a new proposal, and the window that adds a call to it. *)

EmptyCall == [step |-> 0, address |-> None, func |-> None, args |-> 0, abi |-> None]
Placeholder == "Select Contract Function"

NoCalldata == [func |-> None, args |-> 0]

Functions == {Placeholder, None} \cup (UNION ({ABI[a] : a \in DOMAIN ABI} \ {None}))

\* The window of a call: a function is chosen among those of an ABI, which may be replaced
\* later on but not taken away.
Forms == {f \in [step : 0..4, address : DOMAIN ABI \cup {None}, func : Functions, args : Nat,
                 abi : {ABI[a] : a \in DOMAIN ABI} \cup {None}] :
            f.func # None => f.abi # None}

\* The calls whose arguments are those of the function they name.
MatchingCalls ==
    {c \in [address : DOMAIN ABI \cup {None}, signature : Functions,
            calldata : [func : Functions, args : Nat]] :
        c.calldata = IF c.signature = None THEN NoCalldata
                     ELSE [func |-> c.signature, args |-> Arity[c.signature]]}

ListUI == [list : {TRUE}]
CreateUI == [show : BOOLEAN, form : Forms, calls : Seq(MatchingCalls), pending : [propose : BOOLEAN]]
\* These pages have none either before they are opened.
ASSUME FormAssumption == None \notin ListUI \cup CreateUI

\* The arguments as the interface encodes them, or the error it throws.
Encoded(form) == IF form.func \in form.abi /\ form.args = Arity[form.func] THEN [func |-> form.func, args |-> form.args]
              ELSE Failed
argumentsValidator(form) == form.func = None \/ (form.abi # None /\ Encoded(form) # Failed)
Calldata(form) == IF form.func = None \/ form.abi = None THEN NoCalldata ELSE Encoded(form)

InForm == page = "form" /\ ui # None /\ ui.show
draft == ui.form
FormBecomes(form) == ui' = [ui EXCEPT !.form = form]

ShowTransactionForm ==
    /\ page = "form" /\ ui # None /\ ~ui.show /\ Len(ui.calls) < MaxCalls
    /\ ui' = [ui EXCEPT !.show = TRUE]
    /\ OnlyHere

\* What the user fills in at each step: the callee, a file with an ABI, a function among
\* those of the ABI, the arguments.
FillIn ==
    /\ InForm
    /\ \/ draft.step = 0 /\ \E a \in DOMAIN ABI : FormBecomes([draft EXCEPT !.address = a])
       \/ draft.step = 2 /\ \E a \in DOMAIN ABI : ABI[a] # None /\ FormBecomes([draft EXCEPT !.abi = ABI[a]])
       \/ /\ draft.step = 2 /\ draft.abi # None
          /\ \E func \in draft.abi \cup {Placeholder} : FormBecomes([draft EXCEPT !.func = func])
       \/ /\ draft.step = 3 /\ draft.abi # None /\ draft.func \in draft.abi
          /\ \E n \in 0..Arity[draft.func] : FormBecomes([draft EXCEPT !.args = n])
    /\ OnlyHere

\* Next: an address starts the search of its ABI, which is not waited for.
stepForward ==
    /\ InForm /\ draft.step < 4
    /\ draft.step = 0 => draft.address # None
    /\ draft.step = 3 => argumentsValidator(draft)
    /\ FormBecomes([draft EXCEPT !.step = @ + 1])
    /\ asked' = IF draft.step = 0 THEN asked \cup {<<"abi", draft.address>>} ELSE asked
    /\ Here /\ UNCHANGED <<status, deeds>>

stepBackwards ==
    /\ InForm /\ draft.step > 0
    /\ FormBecomes([draft EXCEPT !.step = @ - 1])
    /\ OnlyHere

\* A fault: a search that finds nothing takes the ABI away.
populateABIReset(form, a) == [form EXCEPT !.abi = ABI[a]]

\* The ABI found for an address takes the place of any other, for whichever call the
\* window is by then. A search that finds nothing leaves the one there is.
populateABIIfExists(form, a) == IF ABI[a] = None THEN form ELSE [form EXCEPT !.abi = ABI[a]]

ABIFound(a) ==
    /\ <<"abi", a>> \in asked
    /\ asked' = asked \ {<<"abi", a>>}
    /\ FormBecomes(populateABIIfExists(ui.form, a))
    /\ Here /\ UNCHANGED <<status, deeds>>

handleAdd(call) ==
    ui' = [ui EXCEPT !.show = FALSE, !.form = EmptyCall, !.calls = Append(@, call)]

\* At the last step the call joins the proposal, unless its arguments do not encode. Seen
\* without its window, the call is a plain transfer.
handleAddProposalAction ==
    /\ \/ InForm /\ draft.step = 4 /\ Calldata(draft) # Failed
          /\ handleAdd([address |-> draft.address, signature |-> draft.func,
                        calldata |-> Calldata(draft)])
       \/ /\ page = "create" /\ ui # None /\ ui.calls = <<>>
          /\ \E a \in {x \in DOMAIN ABI : ABI[x] = None} :
                handleAdd([address |-> a, signature |-> None, calldata |-> NoCalldata])
    /\ OnlyHere

HideTransactionForm ==
    /\ InForm
    /\ ui' = [ui EXCEPT !.show = FALSE, !.form = EmptyCall]
    /\ OnlyHere

handleRemoveProposalAction ==
    /\ page \in {"create", "form"} /\ ui # None /\ ~ui.show
    /\ \E i \in DOMAIN ui.calls : ui' = [ui EXCEPT !.calls = RemoveAt(@, i)]
    /\ OnlyHere

hasActiveOrPendingProposal ==
    /\ proposal # None /\ proposal.status \in {"Active", "Pending"}
    /\ proposal.proposer = account
hasEnoughVote == /\ got["votes"] # None /\ got["threshold"] # None
                 /\ got["votes"] > got["threshold"]

\* The button spins while the proposal is mined, and can be pressed then too.
CreateProposalButton ==
    [text |-> IF ui.pending["propose"] THEN "spinner"
              ELSE IF hasActiveOrPendingProposal THEN "active or pending"
              ELSE IF ~hasEnoughVote THEN "not enough votes" ELSE "create",
     enabled |-> ui.calls # <<>> /\ ~hasActiveOrPendingProposal /\ hasEnoughVote]

handleCreateProposal ==
    /\ page = "create" /\ ui # None /\ ~ui.show
    /\ CreateProposalButton.enabled
    /\ Deed("propose", ui.calls)
    /\ Here /\ UNCHANGED <<asked, ui>>

-----------------------------------------------------------------------------
(* The window that delegates votes. *)

isAddress(text) == text \in Accounts

\* A new address is looked up as a name. Its answer takes the place of whatever address
\* there is by then, and is looked up again when it is another one.
NewAddress(u, text, requests) ==
    /\ ui' = [u EXCEPT !.address = text]
    /\ asked' = IF text = None \/ text = u.address THEN requests
                ELSE requests \cup {<<"name", text>>}

\* The field is there unless the address of the page names the delegate.
TypeDelegate ==
    /\ page = "delegate" /\ ui # None /\ ui.to = None /\ ui.state # "failure"
    /\ \E text \in Names : text # ui.text /\ NewAddress([ui EXCEPT !.text = text], text, asked)
    /\ Here /\ UNCHANGED <<status, deeds>>

checkIsValidENS(text) ==
    /\ <<"name", text>> \in asked
    /\ NewAddress(ui, IF NameOf[text] = None THEN ui.address ELSE NameOf[text],
                  asked \ {<<"name", text>>})
    /\ Here /\ UNCHANGED <<status, deeds>>

\* ChangeDelegatePannel: what it asks for, or says; and whether its button delegates.
ChangeDelegatePannel ==
    [state |-> ui.state,
     already |-> ui.state = "enter" /\ isAddress(ui.address) /\ ui.address = got["delegate"],
     enabled |-> ui.state = "enter" /\ isAddress(ui.address) /\ Zero(got["balance"]) > 0]

\* Who CurrentDelegatePannel names.
CurrentDelegate == IF got["delegate"] # None THEN got["delegate"] ELSE account

delegateVotes ==
    /\ page = "delegate" /\ ui # None
    /\ ChangeDelegatePannel.enabled
    /\ Deed("delegate", ui.address)
    /\ Here /\ UNCHANGED <<asked, ui>>

\* Once a delegation is done another one may be entered. What the window knows of the
\* account stays as it was.
ChangeAgain ==
    /\ page = "delegate" /\ ui # None /\ ui.state = "success"
    /\ ui' = [ui EXCEPT !.state = "enter", !.text = None, !.address = None]
    /\ OnlyHere

-----------------------------------------------------------------------------
(* Event logs: what the pages read when the subgraph fails. *)

\* A fault: the answers for all ranges but the last are dropped.
fetchedRangesLast(n) == {<<(n \div PerCall) * PerCall, n>>}

\* The ranges the events up to block n are asked for in; they share their ends.
fetchedRanges(n) ==
    {<<i * PerCall, IF (i + 1) * PerCall < n THEN (i + 1) * PerCall ELSE n>> :
        i \in 0..(n \div PerCall)}

\* The updater asks once per block number it knows, which is that of its start. An answer
\* for an older block than that of the results there are would be dropped.
FetchLogs ==
    /\ logs.listeners > 0 /\ logs.fetching < logs.block
    /\ logs' = [logs EXCEPT !.fetching = logs.block]
    /\ asked' = asked \cup {<<"logs", logs.block>>}
    /\ UNCHANGED <<chain, page, account, got, ui, status, deeds, changes, off>>

LogsFetched(n) ==
    /\ <<"logs", n>> \in asked
    /\ asked' = asked \ {<<"logs", n>>}
    /\ logs.results # None => logs.results.block <= n
    /\ \/ logs' = [logs EXCEPT !.results =
                    [block |-> n, logs |-> {b \in LogBlocks :
                        \E range \in fetchedRanges(n) : b \in range[1]..range[2]}]]
       \/ logs' = [logs EXCEPT !.results = [block |-> n, logs |-> None]]
    /\ UNCHANGED <<chain, page, account, got, ui, status, deeds, changes, off>>

useLogs ==
    CASE got["block"] = None  -> "INVALID"
      [] logs.results = None  -> "LOADING"
      [] OTHER -> IF logs.results.logs = None THEN "ERROR"
                  ELSE IF logs.results.block >= got["block"] THEN "SYNCED" ELSE "SYNCING"

-----------------------------------------------------------------------------
NewUI ==
    CASE page = "vote"   -> {[show |-> FALSE, loading |-> FALSE, voted |-> FALSE, failed |-> FALSE,
                              info |-> FALSE, pending |-> [queue |-> FALSE, execute |-> FALSE]]}
      [] page \in {"list", "offline"} -> {[list |-> TRUE]}
      [] page \in {"create", "form"} -> {[show |-> FALSE, form |-> EmptyCall, calls |-> <<>>,
                              pending |-> [propose |-> FALSE]]}
      [] OTHER -> {[state |-> "enter", to |-> to, text |-> to, address |-> to] : to \in Names \cup {None}}

Init ==
    /\ block = Created + 1
    /\ gov = [votes |-> [a \in Accounts |-> None], eta |-> None, canceled |-> FALSE,
              vetoed |-> FALSE, executed |-> FALSE, status |-> "Pending"]
    /\ delegates = [a \in Accounts |-> a]
    /\ page \in Pages
    /\ account \in IF page \in {"form", "offline"} THEN {None} ELSE Mine \cup {None}
    /\ asked = {} /\ got = Nothing /\ ui = None
    /\ logs = [listeners |-> 0, block |-> 0, fetching |-> 0, results |-> None]
    /\ status = [call \in Calls |-> "None"]
    /\ deeds = <<>> /\ changes = 0 /\ off = FALSE

\* The page is opened, with the wallet that is connected by then.
Open ==
    /\ ui = None
    /\ ui' \in NewUI
    /\ asked' = {<<hook, None>> : hook \in PageHooks} \cup AskFor(account)
                \cup IF page = "delegate" /\ ui'.address # None THEN {<<"name", ui'.address>>} ELSE {}
    /\ UNCHANGED <<chain, page, account, got, logs, status, deeds, changes, off>>

OnPage ==
    \/ OpenVoteModal \/ SubmitVote \/ DismissVoteModal \/ CloseVoteModal
    \/ MoveState \/ OpenQuorumInfo
    \/ ShowTransactionForm \/ FillIn \/ stepForward \/ stepBackwards
    \/ handleAddProposalAction \/ HideTransactionForm \/ handleRemoveProposalAction
    \/ handleCreateProposal
    \/ TypeDelegate \/ delegateVotes \/ ChangeAgain

Next ==
    \/ NewBlock \/ OthersVote \/ OthersMoveOn \/ OthersStop \/ OthersDelegate
    \/ Open
    \/ \E q \in {r \in asked : r[1] \in Hooks} : Answered(q[1], q[2]) \/ Unanswered(q[1], q[2])
    \/ ui # None /\ page \notin {"form", "offline"} /\ (WalletConnectModal \/ disconnectWalletHandler)
    \/ OnPage
    \/ \E a \in DOMAIN ABI : ABIFound(a)
    \/ \E text \in Names \cup Accounts : checkIsValidENS(text)
    \/ FetchLogs \/ \E n \in 1..MaxBlock : LogsFetched(n)
    \/ \E d \in DOMAIN deeds :
          (\E who \in Mine : Signed(d, who)) \/ Rejected(d) \/ Mined(d) \/ Receipt(d)

Spec == Init /\ [][Next]_vars

\* The network mines a transaction or one in its place, and the page is told.
FairSpec == Spec /\ \A d \in 1..MaxDeeds : WF_vars(Mined(d) \/ Receipt(d))

-----------------------------------------------------------------------------
(* Properties. *)

\* Nothing is under way, and what the page was told is still so: no answer failed or was
\* overtaken, and the chain has not moved since.
Settled == ui # None /\ asked = {} /\ ~off

\* An ended vote nobody took part in is still Pending for the subgraph.
Unvoted == gov.status = "Pending" /\ block > End

\* A quorum whose basis points are not rounded down, as the governor's are.
AboutQuorum(quorum) == quorum..(quorum + 1 + Supply \div 10000)

VotePageRight ==
    page = "vote" => \A late \in BOOLEAN :
        LET button == Header(late).voteButton
            taken == account # None /\ Accepts("castVote", account, 1)
        IN /\ button = "enabled" => taken \/ gov.canceled \/ gov.vetoed
           /\ taken /\ block > Start /\ Balance[account] > 0 => button = "enabled"
           /\ Shown.move \in {"queue", "spinner"} \/ StateAt(block) # "Succeeded" \/ Unvoted
           /\ Shown.move = "queue" => StateAt(block) = "Succeeded"
           /\ Shown.move = "execute" => StateAt(block) = "Queued" /\ block >= gov.eta
           /\ Info(late).quorum = QuorumVotes
           /\ got["quorumParams"] # None => QuorumInfo.current \in
                  AboutQuorum(dynamicQuorumVotes(Tally(0), getDynamicQuorumParamsAt(Start)))

\* Once all answers are in, in whatever order, and none has failed, come after that to a later
\* question or been outdated by the chain, the pages show the governor's state of the proposal
\* and offer what the governor takes: a vote only to an account with votes that has not voted
\* (but for a stopped proposal), Queue and Execute when it is time, a proposal only above the
\* threshold; and the delegation window knows the delegate. The quorum window, which rounds
\* later than the governor, shows the quorum by the parameters at the start of the vote, for
\* the Alps in the subgraph's lists (wrappers/alpsDao.ts and alpToken.ts under pages/Vote,
\* components/DynamicQuorumInfoModal, pages/CreateProposal, Proposals, ChangeDelegatePannel).
PageShowsChain ==
    Settled =>
    /\ Loaded => proposal.status = StateAt(block) \/ Unvoted
    /\ VotePageRight
    /\ page = "list" => (
           LET list == Proposals(useProposals, account, got["votes"], got["threshold"],
                                 got["balance"], got["block"], FALSE)
           IN (list.submit = "enabled") <=> (account # None /\ Votes(account) > Threshold))
    /\ page = "create" /\ account # None /\ CreateProposalButton.enabled
           => Accepts("propose", account, ui.calls)
    /\ page = "delegate" /\ account # None
           => (ChangeDelegatePannel.already
                 <=> (ui.state = "enter" /\ ui.address = delegates[account]))

\* The quorum window gives the votes required to pass the proposal
\* (components/DynamicQuorumInfoModal/index.tsx:94-96). Not so when the parameters change
\* during the voting delay.
CurveGivesQuorum ==
    Settled /\ page = "vote" /\ got["quorumParams"] # None
        => QuorumInfo.current \in AboutQuorum(QuorumVotes)

\* Once all answers are in, an account is told "You voted" only if it did
\* (components/ProposalHeader/index.tsx:28-35). Not so when the receipt of an account that was
\* connected before comes last.
OwnVoteShown ==
    page = "vote" /\ Loaded /\ asked = {} /\ account # None =>
        \A late \in BOOLEAN : Header(late).voted # "none" => gov.votes[account] # None

\* What a call of the tab has done on the chain when it is said to have succeeded.
Done(d) ==
    CASE deeds[d].call \in {"castVote", "castVoteWithReason"} -> gov.votes[deeds[d].who] = deeds[d].arg
      [] deeds[d].call = "queue"   -> gov.eta # None
      [] deeds[d].call = "execute" -> gov.executed
      [] OTHER -> deeds[d].ok

\* The page says that a call has succeeded only when one of its own did what it was to do
\* on the chain, though the wallet may have replaced the transaction and two of one hook
\* may be under way at once (hooks/useTransaction.ts, components/VoteModal,
\* components/ChangeDelegatePannel).
SuccessIsReal ==
    LET real(calls) == \E d \in DOMAIN deeds : /\ deeds[d].call \in calls /\ deeds[d].ok
                                               /\ deeds[d].replaced # "other" /\ Done(d)
    IN /\ \A call \in Calls : status[call] = "Success" => real({call})
       /\ ui # None /\ page = "vote" => (ui.voted => real({"castVote", "castVoteWithReason"}))
       /\ ui # None /\ page = "delegate" => (ui.state = "success" => real({"delegate"}))

\* A call of a proposal carries arguments for the function it names, and none without a
\* function, though ABIs of other addresses may be found at any time while the window is
\* filled in, closed and opened again (components/ProposalTransactionFormModal).
CalldataMatchesSignature ==
    ui # None /\ page \in {"create", "form"} => \A i \in DOMAIN ui.calls :
        LET call == ui.calls[i]
        IN call.calldata = IF call.signature = None THEN NoCalldata
                           ELSE [func |-> call.signature, args |-> Arity[call.signature]]

\* The logs said to be those up to the page's block are all of them, though they are asked
\* for in ranges and the updater knows another block than the page (state/updaters/logs.ts,
\* hooks/useLogs.ts).
LogsComplete ==
    useLogs = "SYNCED" => {b \in LogBlocks : b <= got["block"]} \subseteq logs.results.logs

Spinning == /\ ui # None
            /\ \/ page = "vote" /\ (ui.loading \/ ui.pending["queue"] \/ ui.pending["execute"])
               \/ page = "create" /\ ui.pending["propose"]
               \/ page = "delegate" /\ ui.state = "changing"

\* A button does not spin for ever, unless the wallet is never answered: each way a
\* transaction can end stops it, in whatever order two of them end (pages/Vote,
\* components/VoteModal, pages/CreateProposal, ChangeDelegatePannel).
SpinnerEnds == []<>(Spinning => \E d \in DOMAIN deeds : deeds[d].stage = "sign")
=============================================================================
