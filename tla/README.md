# A TLA+ specification of Alps DAO

Alps DAO sells one NFT, an *Alp*, after another at auction; every Alp is one vote in a
governor that owns the proceeds through a timelock. This directory specifies the contracts
that decide over votes, money and proposals, the scripts that deploy them, and the three
followers of their events: the subgraph, the bots and the web application. TLC checks all of it
on small instances; TLAPS proves what matters most of the contracts for all instances. Paths
below are relative to `src/packages/`; `C/` stands for `nouns-contracts/contracts/`, `W/` for
`nouns-webapp/src/`.

## 1. The system

| Component | State it keeps | Operations | Hard to get right |
|---|---|---|---|
| `C/base/ERC721Checkpointable.sol` | delegates, checkpoint arrays, nonces | `delegate`, `delegateBySig`, the transfer hook, `getPriorVotes` | votes kept by increments; several changes in one block; a binary search; signatures submitted by anybody |
| `C/base/ERC721.sol` | owners, balances, approvals | `_mint`, `_burn`, `_transfer`, `approve`, `safeTransferFrom` | the hook must run on every change, before it |
| `C/base/ERC721Enumerable.sol` | index arrays | the hook | swap-and-pop against the balance before the transfer |
| `C/AlpsToken.sol` | next id, minter, seeder, descriptor, locks | `mint`, `burn`, setters | two Alps for one call at some ids; every part of a mint can be replaced by one that reverts |
| `C/AlpsAuctionHouse.sol` | the auction, parameters, ETH | `createBid`, two settling calls, `pause`, `unpause`, setters | control handed to the outbid bidder; payments that are refused; a mint that fails inside a settlement |
| `C/governance/AlpsDAOLogicV2.sol` | proposals, parameters, quorum checkpoints, vetoer | `propose`, `castVote…`, `queue`, `execute`, `cancel`, `veto`, setters, veto handover | the state of a proposal is recomputed from live data; votes move while a vote is on |
| `C/governance/AlpsDAOExecutor.sol` | queued transactions, delay, admin | `queueTransaction`, `cancelTransaction`, `executeTransaction`, `setDelay` | transactions known only by hash; two grace-period tests in two contracts |
| `C/governance/AlpsDAOLogicV1.sol`, proxies | the same storage | the first governor; upgrade | proposals of V1 decided by V2 |
| Art: `AlpsArt`, `AlpsDescriptor(V2)`, `SVGRenderer`, `AlpsSeeder`, `libs/*` | image pages, palettes | add, update, lock, render | an index that spans pages; a run-length decoder |
| `nouns-contracts/tasks` | transactions sent with one key, addresses predicted from its nonce | deploy, check, populate, configure, hand over | a script that dies, a stray transaction, two terminals |
| `nouns-subgraph/src` | mirrored holders, delegates, proposals, auctions | one handler per event | increments over several events of a transaction; entities loaded before a helper saves them |
| `nouns-bots/src` | a cache of what was announced | two periodic ticks, setup | overlapping ticks; a cache written before or after the handlers; crashes |
| `W/state`, `W/index.tsx`, `W/pages/Auction`, `W/components/Auction*`, `Bid*` | the auction as shown, past auctions | reducers on events, navigation, bidding, settling | bids dispatched out of order after an `await`; state kept over renders |
| `W/wrappers`, `W/hooks`, `W/pages/Vote`, `CreateProposal`, `W/state/updaters` | answers of contracts and subgraph, logs, transactions | fetch, vote, queue, execute, propose, delegate | answers overtaken by a change of account, replaced transactions, late ABIs |
| `nouns-sdk`, `nouns-api`, `nouns-assets`, rest of the web application | – | encoders, endpoints, presentation | – |

How they interact: the auction house calls `AlpsToken.mint` and holds the Alp until it is
settled; mints and transfers move votes through the hook of the checkpoints; the governor
reads `getPriorVotes` and `totalSupply`; it is the admin of the timelock, which calls it back
to change its parameters and is its admin (`nouns-contracts/tasks/deploy-local.ts:133-140`).
The deployment tasks bring the contracts into that constellation. The subgraph follows their
events; the bots poll the subgraph; the web application reads subgraph, contracts and events,
and sends transactions through the user's wallet.

What makes each correct, in a sentence: *votes* – every Alp is one vote of its owner's
representative and the votes of an ended block never change; *auction* – everybody outbid has
the money back, winner and owner get Alp and price, and an auction that is over gets settled;
*governor* – a vote counts once, a result never changes, nothing runs that was not approved,
announced for the delay, and left standing by cancel and veto; *deployment* – no contract ends up
with an owner nobody controls; *subgraph* – it agrees with the chain after every transaction;
*bots* – no run passes over anything new, nothing is announced twice; *web application* – once its
answers are in it shows what the chain holds, offers what the contracts take, and calls a
success only what was one.

## 2. The modules

| Module | Models | State |
|---|---|---|
| `ERC721Checkpointable` | the vote accounting, driven by mint, burn, transfer, delegation | `owners`, `balances`, `delegateOf`, `checkpoints`, `nonces`, `block` |
| `VotesLedger` | abstract: one vote per token, a table of the votes of past blocks | `owner`, `rep`, `past`, `spent` |
| `AlpsAuctionHouse` | the auction house and `AlpsToken.mint` | auction, parameters, the call under way, money, Alps, sales |
| `EnglishAuction` | abstract: a sequence of English auctions | `lot`, `money`, `sales` |
| `AlpsDAOExecutor` | the timelock, as operators on lists of calls | `now`, `delay`, `queuedTransactions`, `executions` |
| `AlpsDAOLogicV2` | the governor; extends the timelock and reads votes | proposals, parameters, vetoers, votes |
| `ProposalLifecycle` | abstract: the life of a proposal | `status`, `eta`, `time` |
| `SubgraphHandlers` | every event handler, as a function from store and event to store | (none: operators) |
| `AlpsSubgraph` | token, governor and house as far as their events go, each transaction followed by its handlers | the chain, `store` |
| `Bots` | the two timers, await by await, over cache and subgraph | `cache`, `run`, `setup`, the world, histories |
| `WebAuctionStore` | the redux slices of auctions and their hooks | (none: operators) |
| `WebAuction` | the auction page, its socket and its user, against the house | `store`, `socket`, `route`, `over`, `form`, the house |
| `WebProposals` | what the pages compute from a proposal, a block and the clock | (none: operators) |
| `WebGovernance` | the governance pages, hooks and wallet against governor and token | the chain, `got`, `asked`, `ui`, `status`, `deeds`, `logs` |
| `Deploy` | the deployment tasks as scripts of steps run in terminals with one key | `sent`, `told`, `owner`, `shell`, … |
| `MC…` | constants for TLC | |
| `…_proofs` | the theorems | |

Variables and actions carry the names of the source. A transaction is atomic on the chain
and is one action; what a `require` refuses is a guard, since a reverted transaction leaves
nothing. Operators introduced as *a fault* are mutated forms of the definition that follows
them. No action uses them; replacing a definition by its fault shows that a property notices.

**ERC721Checkpointable.** `checkpoints[a]` is the sequence behind the mapping and
`numCheckpoints`. `delegateOf[a] = Zero` is an account that never delegated, or one whose
signed delegation named address(0): `Delegates` is what `delegates()` answers. The set
`Signatures` holds what accounts have signed; anyone may submit a member at any time, twice,
late, or in competition with another of the same nonce. Timestamps are measured in blocks,
because only `expiry` reads them. `voided[a]` is a history: the votes that `a` has signed away to
address(0), which nobody has any more.

**AlpsAuctionHouse.** `createBid` is the only function that calls a stranger before it is
finished. It is split at that call: between `CreateBid` and `FinishBid` the code of the outbid
bidder runs and may call whatever is not behind the lock, which is what `NonReentrant` guards.
(The payment of the owner in a settlement runs after all checks and the transfer, in a function of
the same lock. An owner that is a contract could call `pause` from there; that ends where pausing
right after does, and is left out, as is an owner that bids.) `mintMode` says how the next
`alps.mint()` ends: `ok`, `error` (a revert with a message, as after `setMinter`) or `panic` (a
revert without one, as after `setSeeder` or `setDescriptor` to an address without code). Funds are
counted per account so that "the money came back" can be stated. The owner is a constant; Alps
sold are not traded in this module.

**AlpsDAOLogicV2.** The calls of a proposal are records of a kind and a value: `external`
for a call that the governor does not see, the others for the setters of governor and
timelock, whose admin is the timelock. `votes` are the current votes, moved by transfers and
delegations (`MoveVotes`) and sales (`MintVote`) at any point of a block; `priorVotes` are
those of ended blocks, kept only while the governor may still read them (`AskedBlocks`), and
the type invariant proves that it never reads one that was dropped. That past votes do not
change is what `ERC721Checkpointable` establishes (`PriorVotesFinal`).
`getDynamicQuorumParamsAt` takes the last checkpoint not after the block; the code finds the
same one by the search that is modelled step by step in `GetPriorVotes`. The state of a
proposal is never stored: `StateOf` recomputes it, as the code does.

**AlpsSubgraph.** No handler reads the chain and graph-node commits a block as a whole, so a
transaction and its indexing are one action: what can go wrong is not a race between them but
the order of the events in a transaction, the copies of entities that helpers overwrite, and
increments. `SubgraphHandlers` keeps those copies: a handler that loaded an entity saves that
copy, whatever a helper saved in between. The votes of the reduced token are those that
`VotesConserved` proves of `ERC721Checkpointable`. The events of the `MintAlp`, `Transfer`,
`Delegate`, `Burn`, bid, settlement, proposal, vote and parameter transactions are in the order of
the contracts.

**Bots.** An action ends at an `await`. A run of a timer is a set of promise chains, one per
proposal in the governance tick (`R.map` starts them together). `Crash` loses all runs and keeps
the cache, which lives in redis; a failed request ends a chain. `overlapped` remembers that a run
began before the previous one was over, `handed` what the handlers were given or was there when a run
first saw a proposal, and `seeded` what `setupGovernance` stored: at every start it overwrites the
cached proposals, known ones too, with those of the subgraph and calls no handler. The two timers
share neither keys nor messages, so a behaviour shows one of them.

**WebAuction.** The socket delivers events in order; each bid then awaits its block, so bids
reach the store in any order. An event that comes between the answers of `loadState` and its
listeners is lost (`socket.missed`), as in the code. Bids older than `Day` when the tab asks
(`BLOCKS_PER_DAY`) are never asked for (`socket.from`). React runs effects before the next event:
`Rendered` is part of every action that changes store or route. The user's transactions pass
the estimate of gas, the wallet and the network, and fail at each.

**WebGovernance.** One visit of a tab to one page. `got` holds the answers its hooks have, `asked`
the requests under way; answers come in any order, fail, or come after that to a later question
of their hook (`Overtaken`) and overwrite it, as `useVoteReceipt` lets them. The subgraph's lists of the
Alps that the voters represented are a query of their own (`represented`), asked after the votes are
known, and the quorum window counts the Alps in them. The block of the proposal (`Created`) comes before
that of the vote (`Start`), and the parameters of the quorum (`ParamsAt`) may change in between. A transaction goes through wallet (signed, rejected, replaced by a dearer one or by
another call), mining (done or reverted) and receipt. The chain moves on by blocks, votes,
delegations and the whole life of the one proposal. `off` remembers that something shown has been
missed, overtaken or has changed since: the pages do not refetch, and `PageShowsChain` applies only
while it is false. What an overtaken answer does is stated apart (`OwnVoteShown`). "create" and "form", and "list" and "offline", are two views of
one page each, with the part of its state that the other leaves out.

**Deploy.** A task is a list of steps; contracts are told addresses computed from the nonce
beforehand, here the number of transactions `sent`. Every step may throw, every script may be
killed, and the other terminal may send with the same key in between; `MaxSwitches` bounds how
often control passes from one to the other. `validateDeployment` compares the predictions with
what came out, as in the code.

## 3. What is checked

Each passing run reaches every action it is meant to exercise, and each property is known to
fail for at least one fault.

| Run (`cfg`) | Question | Bounds |
|---|---|---|
| `MCVotes` | Do votes follow tokens? Whom can a signed delegation to address(0) lock in? Are past votes final, and is the whole an implementation of the ledger? | 3 accounts, 2 tokens, 3 signatures, one to address(0), 4 blocks; one account or one token less in the second block, both in the others (`FewerMoveOn`) |
| `MCAuction` | Where do money and Alps end? Does the house implement an English auction? Is an auction that is over settled? | 2 bidders (one refuses ETH), 5 time units, 3 buffers, 2 reserve prices, all mint modes |
| `MCDAOVoting` | Does each vote count once while votes move? Does a burned veto stay burned? | 2 voters, 3 votes and 1 minted later, 1 proposal, 6 blocks |
| `MCDAOTimelock` | Does the timelock hold and run only what is approved, and do parameters set by one proposal leave the other alone? | 2 proposals sharing a payment, one with the quorum setters and one with the delay, a grace period of 1, 6 blocks |
| `MCSubgraph` | Is the mirror that of the chain after every transaction? | 2 holders, 2 Alps, one of them a reward, 1 proposal, 2 sets of quorum parameters, 7 transactions in 3 blocks |
| `MCBots` | Is anything announced twice, or passed over but by the setup of a restart? Is a proposal about to expire warned about? | 2 overlapping runs, 2 auctions, 1 bid each, 1 proposal with 1 vote, 1 failure or crash |
| `MCWebAuction` | Does the page show the house's auction once caught up, and bid on what was clicked? | 3 Alps, every 2nd given away, 2 bids of others, 1 transaction of the user, 2 time steps, bids of the last one asked for |
| `MCDeploy` | Does any deployment, however disturbed, leave a contract with a stranger, or unwired? | 2 terminals, 9 tasks, 2 of them run, 2 changes between the terminals, a death at any step |
| `MCWebGov` | Do the governance pages show and offer what the governor holds and takes? Does every spinner end? | 6 views of 4 pages, 2 accounts of the wallet and a voter outside it, 2 transactions, 1 change of account, 6 blocks, parameters that change in the voting delay |
| `MCAuctionPanic`, `MCDAOReCancel`, `MCWebGovReceipt` | disagreements 1 to 3 of section 5 | the last: the vote page of `MCWebGov` |

*Why the bounds suffice.* Three accounts are source, target and bystander of a move of votes, and
two tokens give one account several; all of them move in the first block, where several writes
share a checkpoint. Four blocks give an account three older checkpoints to search among.
Two bidders are the last and the new one; each can be either. With delays of one block and six
blocks a proposal goes through its whole life, its grace period included, while another one
starts. Basis points keep their meaning but not their legal ranges: among five votes a quorum of
60% is met by one voter and one of 20% by either, a difference that 2% would not make.
`votingPeriod 0` is the value a setter refuses. Seven transactions mint both Alps, sell, delegate
and move one, and still propose and vote. A fault is one because a run of the bots ends at it; the
next run and the next process then meet what it left. In the web application a second transaction is there only to share a status with the first; the
user of the auction page starts one in a tab that has missed nothing, and then stays at the
plain address if the past auctions are there (`OneThingAtATime`); and a governance page is
disturbed once (by the chain, a failed answer or the wallet): every pair of one disturbance and
one answer is met, the wallet changing while answers about its account are awaited. Two time
steps and a `Day` of one leave the first bids of an auction out of what a late tab asks for, and
list those of another. Two changes of terminal are another key's transaction in the middle of a
script.
Deadlock is not checked where a bound ends every behaviour (governor,
subgraph, web application, deployment); the token, the auction and the bots always have a step.

*Fairness.* Safety properties need none. `MCAuction` and `MCAuctionPanic` use `FairSpec`: a
transaction that has begun ends (`FinishBid`), and somebody settles an auction that stays open to
settlement (`Settle`, the two calls anyone may make). The owner of the house owes nothing, and may
pause and unpause for ever: whichever state it leaves, one of the two calls is enabled. No
fairness is assumed for time or for bidders. In `Bots`, `setInterval` goes on starting runs, setup
is started by the process, and every await is answered or fails; the subgraph and the proposal owe
nothing. In `WebGovernance` the network mines a transaction that was signed, or one in its place,
and the page is told (`Mined`, `Receipt`); the user and the wallet owe nothing, and `SpinnerEnds`
excepts a wallet that is never answered.

*The properties*, by what they are about:

- `VotesMatchTokens`, `BalancesMatchTokens`, `HoldersCanMove`, `CheckpointsOrdered`,
  `PriorVotesFinal`; `ImplementsLedger` under the mapping that reads past blocks through
  `getPriorVotes` and spent signatures through nonces.
- `Solvent` (the ETH of the house is the best bid of the open auction), `NoAlpStranded`,
  `EndTimeNeverEarlier`, `EndedAuctionSettles`; `ImplementsAuction` under the mapping in which
  the new bid stands from `CreateBid` on and WETH is worth ETH.
- `EachVoteCountsOnce`, `OneLiveProposal`, `OnlyApprovedQueued`, `ExecutedOnce`,
  `QuorumSettled`, `VetoBurnedForever`; `ImplementsLifecycle` under the mapping that computes
  the status of every proposal: a result is never taken back although it is recomputed from
  live parameters, and execution happens in the announced window, on which the two different
  tests of governor (`>=` expired) and timelock (`<=` allowed) agree.
- `HoldersMirrored` (but for holders that sent an Alp to themselves), `VotesMirrored`,
  `QuorumMirrored` (but for parameters changed later in the block of a proposal),
  `ProposalsMirrored`, `AuctionMirrored`.
- `PostedAtMostOnce` (messages about auctions, while no runs overlap), `CacheNeverAhead`,
  `AtRiskWarned`.
- `BidsOfTheirAuction`, `CaughtUpShowsHouse`, `ShownInRange`, `SettleOfferedWhenOver`,
  `OwnBidsWereClicked`.
- `PageShowsChain`, with its exceptions: a stopped proposal still offers its vote, an ended vote
  nobody took part in is still pending for the subgraph, and the quorum window shows the quorum by the
  parameters at the start of the vote, rounded later than the governor's; `SuccessIsReal`,
  `CalldataMatchesSignature`, `LogsComplete`, `SpinnerEnds`.
- `NeverStranded`, `WiredOnceChecked`, `HandedOver`.

An exception in a property is something the code does; section 5 names the documents it disagrees
with, section 6 the rest.

## 4. What is proved

For every value of the constants that satisfies the `ASSUME`s of the modules:

| Theorem | States |
|---|---|
| `BalancesConserved`, `CheckpointsStayOrdered`, `PriorVotesNeverChange` | `[](TypeOK /\ BalancesMatchTokens)`, `[]CheckpointsOrdered`, `PriorVotesFinal` |
| `VotesConserved`, `HoldersLockedBySignatureOnly`, `CheckpointsImplementLedger` | `[]VotesMatchTokens`, `[]HoldersCanMove`, `ImplementsLedger` |
| `HouseSafe`, `EndTimeMonotone`, `HouseRefinesAuction` | `[](TypeOK /\ Solvent /\ NoAlpStranded)`, `EndTimeNeverEarlier`, `ImplementsAuction` |
| `DAOTyped`, `ApprovedOnly`, `OneLive`, `VetoStaysBurned`, `QuorumStaysSettled`, `DAORefinesLifecycle` | `[]TypeOK`, `[]OnlyApprovedQueued`, `[]OneLiveProposal`, `VetoBurnedForever`, `QuorumSettled`, `ImplementsLifecycle` |
| `VotesCountedOnce`, `EachExecutedOnce` | `[]EachVoteCountsOnce`, `[]ExecutedOnce` |
| `OnlySetupHidesNews`, `SerialRunsPostOnce` | `[]CacheNeverAhead`, `[]PostedAtMostOnce` |
| `SubgraphFollows` | `[]SubgraphInv`, the invariant the next five rest on |
| `HoldersAlwaysMirrored`, `VotesAlwaysMirrored`, `QuorumAlwaysMirrored`, `ProposalsAlwaysMirrored`, `AuctionAlwaysMirrored` | `[]HoldersMirrored`, `[]VotesMirrored`, `[]QuorumMirrored`, `[]ProposalsMirrored`, `[]AuctionMirrored` |
| `SuccessAlwaysReal`, `CallsAlwaysMatch`, `LogsAlwaysComplete` | `[]SuccessIsReal`, `[]CalldataMatchesSignature`, `[]LogsComplete`, from `PagesKeepTrack` |
| `PageAlwaysShowsChain` | `[]PageShowsChain`, from `PagesKeepTrack` and `PagesStayFresh` |
| `CaughtUpPageIsRight`, `BidsListedWhereTheyBelong`, `SettleOnlyWhenOver`, `BidsAreClicked`, `DisplayInRange` | `[]CaughtUpShowsHouse`, `[]BidsOfTheirAuction`, `[]SettleOfferedWhenOver`, `[]OwnBidsWereClicked`, `[]ShownInRange` |
| `NothingStranded`, `WiredWhenChecked`, `AllHandedOver` | `[]NeverStranded`, `[]WiredOnceChecked`, `[]HandedOver`, from `DeploymentInvariant` |

*Votes.* Nothing is assumed of the signatures; they may name address(0). An account that has signed
such a delegation lacks the votes of `voided`, and no other does: `VotesMatchTokens` adds them,
`HoldersCanMove` bounds what a representative lacks by them, and the ledger has the step that takes them
away. For an account whose representative never signed one, `voided` is 0 and `sub96` never reverts.
`VotesInv`, which is `VotesMatchTokens` with
`BalancesMatchTokens` and the types, is inductive: the proof follows the set of tokens a
representative stands for through each action, and lemmas about cardinalities turn "one token more
or less" and "the tokens of one delegator" into the sums of `_moveDelegates`. `HoldersCanMove`
follows because the tokens of an account are among those its representative stands for. That
past votes never change rests on what the binary search of `getPriorVotes` finds: among ordered
checkpoints it ends at the last one that is not later than the block (`SearchFinds`, by induction
on the width of the range it still looks at), and a write in the current block leaves that one
where it is. The refinement of `VotesLedger` maps each action to one of the ledger.

*Auction.* `HouseInv` adds three facts to `TypeOK`, `Solvent` and `NoAlpStranded`. While a
createBid is under way its auction is open and not over, and the end it has read is still the
end (`BidUnderWay`); without that, `FinishBid` could shorten an auction. An auction that is
closed is over, and one without a bidder has no amount (`AuctionConsistent`), so that a refund
or payment of nothing is nothing. No sale has the id of the open auction or one to come
(`SoldOnce`), which the abstract `NewLot` asks for.

*Governor.* `DAOInv` adds four facts. Proposals were created in the past, in order
and are queued after their vote and executed after they are queued (`ProposalsInOrder`); there
is a checkpoint of the quorum parameters and none of a later block (`ParamsCheckpointed`), so
that a write does not reach the creation block of a proposal whose voting has begun;
`latestProposalIds` names the last proposal of each proposer, and all its older ones are past
their vote (`LatestIsLast`), which is why `propose` may look at one alone; and
`OnlyApprovedQueued`. The parameters of an older block are then unchanged by every step, the
quorum with them, and each step maps to one of `ProposalLifecycle` or leaves it alone.
`EachVoteCountsOnce` is inductive with two more facts (`TallyInv`): the past votes that are kept
are of blocks that have ended, and a proposal has no votes before its voting starts. A fold over
a set of accounts is a sum whatever the order of its elements (`SumOver`), so that one more voter
is one more summand. `OnceInv` counts for every transaction the times it was executed and the
executed proposals it is a call of; a step of `execute` adds one to both, or to neither.

*Bots.* `BotsInv` says what each step of a run holds in its hands (`StepsHoldTheirData`), that the
cache is never past what the subgraph gave out (`CacheBehindSubgraph`), that what a run
is about to compare with or to store was handed or seeded (`ChainsHanded`), and, while no runs overlap,
that all that was posted is behind the cache or in the hands of the one run that is about to store
it (`PostedBehindCache`, `RunAheadOfCache`). The cache is written before a message is posted, so a
crash between the two loses the message and does not repeat it.

*Subgraph.* A lemma for every handler says what it does to the entities and what it leaves alone,
the copies it saves included (`TransferEffect`: a transfer moves an Alp from one account to another
and no votes, although the handler saves the governance entity over what a helper saved). A second
layer takes the events of a transaction one after another (`VoteEventsEffect`, `MoveIndexed`,
`MintIndexed`), and a third has a lemma per transaction (`TransferFollows`, `SettleFollows`,
`CastVoteFollows`, ...) that `SubgraphInv` holds after it. That invariant adds to the five mirrors
the shapes of the entities and the types of the chain, that every proposal has an entity which knows
the parameters the proposal saw and its creation block, that the current parameters are those of the
store and were first set in block 0 (so that `handleVoteCast` recomputes the quorum), that the counter
called `totalTokenHolders` is the supply (so that it is the supply of a new proposal), that an Alp on
auction belongs to the house, and that the list of an account has no Alp twice (so that the filter
of `handleTransfer` takes exactly one). The votes side counts: a transfer moves one token from one
set of represented tokens to another (`TransferVotes`), a delegation moves those of one account
(`DelegateVotes`), and the vote events carry exactly the difference. Assumed: the house never
holds Alps other than those it auctions, sends none to itself, and the alpers are not the treasury,
since the two logs of a mint would then be a transfer of the treasury to itself.

*Auction page.* `WebInv` has four parts. `CoreInv` follows every bid from the log through the inbox
and the blocks that are fetched to the list in the store, and says of the store that it is about one
auction, the last one, that its amount is that of a logged bid, and that what is on display is not
past it. `ClickInv` follows a transaction from the click to the log; `FormInv` and `OverInv`
tie the form and `auctionEnded` to the last render. `CaughtUpShowsHouse` needs more
(`FollowInv`): while nothing is missed the events in the inbox lead from the auction in the store to
that of the house. The last `AuctionCreated` among them is the house's auction, or the store already
has it; the last end that is announced is the house's; a settlement is always followed by the
creation that replaces its auction, and so never touches the one the page ends up with; and every
bid for the house's Alp since `socket.from` is listed, or has its block fetched, or is in the inbox,
and no older one is (`WindowInv`). When nothing is left to handle, those are the bids listed. The last
bid is the highest and is listed when any is; when none is, the amount is the one that the tab fetched with the
auction. The assumptions on the constants
say that the accounts differ from each other and from the zero address, and that `None` is no value.

*Governance pages.* `WebInv` (of `WebGovernance_proofs`) follows transactions, windows and logs. A transaction that is not
mined has done nothing; one that went through has done its work, and neither a later vote, a
queueing nor an execution undoes it, since an account votes once (`DeedsInv`); the statuses and windows
speak only of such transactions (`ToldInv`), because `Receipt` tells a success apart from what the wallet
put in a transaction's place. A function is chosen in the window of a call only from an ABI, and
an ABI is replaced but never taken away (`Forms`), so that a call that names a function is
encoded for it or refused (`CallMatches`). The ranges of the event logs leave out no block up to the last
one (`RangesCover`), and results there are hold every log up to theirs (`LogsInv`). Searches and names
are asked for from an open page of their kind only (`PageInv`), so that a late answer lands in the
state it was asked for. Assumed: the page without state is no state of a page, and a name is that
of an account or of nobody.

What a page shows needs three invariants more (`ShownInv`). `GovInv` is about the chain: votes are
cast after the start, only a proposal that has passed is queued, and only a queued one executed; and the
status in the subgraph is that of its last event, from which the page derives the governor's state, but
for a vote nobody took part in. `DelegatesInv` keeps delegates among the accounts. `FreshInv` is about
the hooks: everything an open page reads (the hooks of its kind, those of the account, the time of the
block it knows, the quorum of the proposal) is still asked for, or is what the chain would answer now,
until an answer fails, arrives after a newer one or is out of date. A new block or a transaction asks
again for all that it may change, a change of account for what is the account's, and an answer
for what depends on it (`ChainFresh`, `AccountFresh`, `AnsweredFresh`). When nothing is left to
wait for, the answers are the chain's, and the rest compares the computations of the page with those of
the governor on equal numbers: states (`StateMeans`), the votes of an account, and the quorum of the
parameters at the start of the vote, whose basis points the governor's formula rounds down and the window
does not (`QuorumRounded` bounds the difference); the Alps in the lists are the votes against. That the governor takes
the parameters of another block is no part of it (section 5). Assumed: the numbers of the vote are natural numbers, the supply and the unit of the
token positive; the chain goes on past the end of the vote (`End < MaxBlock`); and answers of
different kinds are told apart from none and from a failure.

*Deployment.* `DeployInv` says that no two tasks know the same contract (`Apart`), that the steps left of a
deployment are the last of its script, and that what it created are the first contracts of the list, at
addresses that grow by one at least (`ProgressInv`); that each of them was told what the list says
(`ToldInv`); and that a proxy which passed its check is at the predicted address (`CheckedInv`). The
addresses are where the argument lies. Another task's transaction may come in anywhere, and then every
later contract is further on; the 14th contract at the 13th address after the first leaves no room for
one, so that both checks together place every contract at its number in the list (`Placed`), the art
and the proxies that were told of before they existed among them. Without the second check, a
transaction after the auction house would give the contracts to an executor whose governor is
elsewhere. The two deployments with short times predict every address one too low and stop at their
first check: they hand nothing over, and no check of theirs ever passes. `NeverStranded` is part of
the invariant, with the handovers of a complete deployment (`HandedInv`).

*Assumed of all modules*, and checked by TLC for the instances: distinct special values, bounds and
times that are natural numbers, and in the contracts the ranges their setters enforce.

*Induction over data.* What a recursive function or a fold computes is proved by induction on a set of
numbers (`SetInduction`: a set of naturals that has 0 and, with n, n + 1 has them all), with a table of
the function's values in the place of an operator parameter.

*Only model-checked.* Liveness and fairness (`EndedAuctionSettles`, `AtRiskWarned`, `SpinnerEnds`), which
the prover does not reach. Every invariant of the runs that pass is stated by a theorem.

## 5. Where documentation and code disagree

The first three have runs that refute the documented property. The others are stated in the modules
under the names given, and violated when added to the run of their module as an invariant.

1. `_createAuction` catches only reverts with a message (`C/AlpsAuctionHouse.sol:212`); the comment
   at :194 promises a pause for any. After a revert of another kind nobody can settle the
   auction that is over until an owner acts (`MCAuctionPanic`).
2. `cancel` accepts a proposal that is already cancelled (`C/governance/AlpsDAOLogicV2.sol:359`), and
   takes its transactions from the timelock by hash. An identical transaction of another
   queued proposal with the same eta goes with it; that proposal reads as `Queued` and cannot
   be executed (:333, `MCDAOReCancel`).
3. `OwnVoteShown`: an answer of `getReceipt` is stored whenever it comes (`W/wrappers/alpsDao.ts:214-217`). After a
   change of account the answer about the first may come last, and the page tells the second "You
   voted For this proposal" (`W/components/ProposalHeader/index.tsx:30-35`) and takes its button away
   (`MCWebGovReceipt`).
4. `CurveGivesQuorum`: the quorum window computes with the parameters at the start of the vote
   (`W/components/DynamicQuorumInfoModal/index.tsx:299`), the governor with those at the block of the
   proposal (`C/governance/AlpsDAOLogicV2.sol:946`). When a proposal changes them in the voting delay,
   "the number of For votes required to pass" (:94-96) is another number.
5. `SelfDelegateHasVotes`: `delegateBySig` takes address(0) as it is
   (`C/base/ERC721Checkpointable.sol:143`). The votes of the signatory go to nobody, although
   `delegates()` then answers, as documented at :84-87, that the signatory represents itself. A
   later transfer of its tokens reverts, and so does a delegation to another, unless votes of others
   that it represents cover them; what it lacks is bounded by `HoldersCanMove`.
6. `UnsoldAlpBurned`: an Alp without a bid is sent to a hall of fame
   (`C/AlpsAuctionHouse.sol:232`), not burned as the comment at :219 and
   `nouns-contracts/test/auction.test.ts:315` say. It keeps counting in `totalSupply`.
7. `RepresentedAlpsMirrored`: the list of Alps of a delegate (`nouns-subgraph/schema.graphql:174`, "Alps
   that this delegate represents") goes wrong once a holder has sent its last Alp and got another.
8. `QueuedCountMirrored`: "Number of proposals currently queued for execution"
   (`nouns-subgraph/schema.graphql:315`) is not counted down by a cancellation or veto.
9. `BidPostedOnce`: "we do not double tweet a bid" (`nouns-bots/src/handlers/twitter.ts:32`) does not
   hold when runs of the timer overlap.
10. `TrophyOnWinner`: the trophy of the "Winning bidder"
   (`W/components/BidHistoryModalRow/index.tsx:47`) stands by the first of two bids of one block.
11. `FirstAuctionStarted`: `nouns-contracts/tasks/deploy-and-configure.ts` says "Started the first
   auction" after `unpause` was sent. The art went to the default descriptor of
   `populate-descriptor` instead of the new one, so the mint panics and the call reverts; with the
   gas limit given, nothing notices (`Unpause`).

## 6. What is not modelled

- Widths: votes are `uint96`, blocks `uint32`, parameters `uint16`; no bound is reachable with
  14,600 rewarded ids and block numbers of this chain, and the `safe…` helpers only revert.
- The signature check, the hash of a transaction (taken as injective), gas and its refund for
  votes, events except those a follower reads.
- The targets of proposals calling back during `execute`; the handover of the timelock's and the
  governor's admin; `_withdraw`; proposals made under V1.
- Approvals, safe transfers, locks and roles of the token; enumeration; art.
- Reorganisations of the chain, which graph-node undoes; the log entities and seeds of the subgraph.
- Texts, pictures and channels of the bots.
- In the web application: the playground, profiles, voter and delegate histories, ENS, and
  layout. What its code does and no document denies is in the models and excepted in the
  properties: a query of the subgraph that fails spins for ever (`W/pages/Vote/index.tsx:259-269`), answers are not fetched
  again when the chain moves on, the wallet may sign with another account than the one shown, a
  bid is called placed when an earlier one of the same amount lands, the quorum window multiplies
  the supply by basis points it has not rounded down (`W/components/DynamicQuorumInfoModal/index.tsx:110`;
  the instance of `MCWebGov` is one where it then shows an Alp more than the formula of the governor). The
  auction page asks for the bids of the last 6,500 blocks only (`W/index.tsx:91`, :146): an auction that
  was extended, or left unsettled for a day, is listed without its older bids. The entry of the auction
  that was running when the past ones were loaded is shown as it was then once the next has begun.
- Likewise of the bots: the setup of a restart stores what has happened to known proposals and announces
  none of it (`nouns-bots/src/index.ts:89-92`).
- Deployment tasks that send one transaction or proposal, and the verification on Etherscan.
- The SDK's encoder and the metadata API, which keep no state.

`PROJECT.json` lists each component with its status and each hazard with the properties that watch
it, or why none does.

## 7. Plan

Done: the contracts' checkpoints, auction, governor and timelock, with their abstract
specifications and theorems; then the followers (subgraph, bots, web application) and the
deployment, with theirs. Next, most important first:

1. **Governor**: one step per call of `execute`, with targets that call the governor back; proposals
   of V1; the admin handover of the timelock. Theorem: `OnlyApprovedQueued` and the refinement
   for the finer grain.
2. **AlpsToken**: roles and locks, `burn`, approvals, issuance, composed with `ERC721Checkpointable`
   and the enumeration arrays, shown to implement the owner map.
3. **Pure modules**: paging of `AlpsArt`, the run-length encoder against its decoder.

Runs are merged where one instance answers several questions.

## 8. Running it

    tlc -workers 2 -config MCVotes.cfg MCERC721Checkpointable
    tlapm ERC721Checkpointable_proofs.tla

and so for the other configurations (`MCVotes` with `MCERC721Checkpointable`, `MCAuction*` with
`MCAlpsAuctionHouse`, `MCDAO*` with `MCAlpsDAOLogicV2`, `MCSubgraph` with `MCAlpsSubgraph`,
`MCBots` with `Bots`, `MCWebGov*` with `MCWebGovernance`, `MCWebAuction` and `MCDeploy` with the
modules of their names) and proof modules. The largest runs take two to three minutes.
