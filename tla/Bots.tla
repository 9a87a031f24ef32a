-------------------------------- MODULE Bots --------------------------------
(***************************************************************************)
(* nouns-bots: two timers poll the subgraph, compare it with a redis cache *)
(* and post what is new. Every await is a place where the other runs of    *)
(* the timer, the subgraph and a crash may come in between: a run that     *)
(* takes longer than its interval overlaps the next one. The auction timer *)
(* writes the cache before it posts, the governance timer after.           *)
(*                                                                         *)
(* The two timers share no cache key and no message, so a behaviour shows  *)
(* one of them, timer. Posting is one step for all channels; texts and     *)
(* pictures are left out.                                                  *)
(***************************************************************************)
EXTENDS Integers, FiniteSets, Sequences, TLC

CONSTANTS
    Runs,         \* runs of a timer that may be in progress at once
    Proposals,
    Votes,        \* votes that may be cast on a proposal
    MaxAuction,   \* bound: the last auction
    MaxBids,      \* bound: bids of an auction
    MaxFaults,    \* bound: failed requests and crashes of the process
    None

\* The id of a proposal names its chain in a run, and a bid is never taken for none.
ASSUME BotsAssumption == "auction" \notin Proposals /\ None \notin Nat \X Nat

VARIABLES
    timer,        \* the timer this behaviour shows
    auction,      \* the latest auction in the subgraph: [id, bid, soon]
    proposals,    \* the proposals in the subgraph, None before they exist
    age,          \* how close a queued proposal is to its expiry
    cache,        \* redis
    setup,        \* setupAuction or setupGovernance: the step and what it has read
    run,          \* each run's promise chains, one per proposal in a governance run: the
                  \* next step and what has been read
    posted,       \* history: the messages about auctions and the warnings posted
    repeated,     \* history: those about auctions posted more than once
    handed,       \* history: the statuses and votes that were given to the handlers, or were
                  \* there when a run first saw the proposal
    seeded,       \* history: those that setupGovernance has put into the cache
    overlapped,   \* history: a run started before the previous one, or the setup, was over
    faults        \* failed requests and crashes so far

world == <<auction, proposals, age>>
vars == <<timer, auction, proposals, age, cache, setup, run, posted, repeated, handed, seeded, overlapped, faults>>

Threads == Proposals \cup {"auction"}
Statuses == <<"ACTIVE", "QUEUED", "EXECUTED">>
NotRunning == [pc |-> "idle", id |-> 0, known |-> None, soon |-> 0, last |-> None]
Queued(p) == proposals[p] # None /\ Statuses[proposals[p].status] = "QUEUED"
Idle(r) == \A t \in Threads : run[r][t] = NotRunning

\* The keys in redis, with what a bot holds that has announced auction 1 and its end.
Redis == [auction |-> 1, bid |-> None, soon |-> 1,
          proposals |-> [p \in Proposals |-> None], warned |-> {}]

\* The bots are started again while auction 1, which they have announced, is ending.
Init ==
    /\ timer \in {"auction", "governance"}
    /\ auction = [id |-> 1, bid |-> None, soon |-> TRUE]
    /\ proposals = [p \in Proposals |-> None]
    /\ age = [p \in Proposals |-> "fresh"]
    /\ cache = Redis
    /\ setup = [step |-> "query", read |-> None]
    /\ run = [r \in Runs |-> [t \in Threads |-> NotRunning]]
    /\ posted = {}
    /\ repeated = {}
    /\ handed = {}
    /\ seeded = {}
    /\ overlapped = FALSE
    /\ faults = 0

-----------------------------------------------------------------------------
(* The subgraph and the clock. *)

bot == <<timer, cache, setup, run, posted, repeated, handed, seeded, overlapped, faults>>

\* An auction ends before the next one begins.
NewAuction ==
    /\ timer = "auction" /\ auction.id < MaxAuction
    /\ auction.soon
    /\ auction' = [id |-> auction.id + 1, bid |-> None, soon |-> FALSE]
    /\ UNCHANGED <<proposals, age, bot>>

NewBid(b) ==
    /\ timer = "auction"
    /\ auction.bid # None => auction.bid[2] < b
    /\ auction' = [auction EXCEPT !.bid = <<auction.id, b>>]
    /\ UNCHANGED <<proposals, age, bot>>

EndsSoon ==
    /\ timer = "auction" /\ ~auction.soon
    /\ auction' = [auction EXCEPT !.soon = TRUE]
    /\ UNCHANGED <<proposals, age, bot>>

NewProposal(p) ==
    /\ timer = "governance" /\ proposals[p] = None
    /\ proposals' = [proposals EXCEPT ![p] = [status |-> 1, votes |-> {}]]
    /\ UNCHANGED <<auction, age, bot>>

NewStatus(p) ==
    /\ proposals[p] # None /\ proposals[p].status < Len(Statuses)
    /\ proposals' = [proposals EXCEPT ![p].status = @ + 1]
    /\ UNCHANGED <<auction, age, bot>>

NewVote(p, v) ==
    /\ proposals[p] # None /\ Statuses[proposals[p].status] = "ACTIVE"
    /\ v \notin proposals[p].votes
    /\ proposals' = [proposals EXCEPT ![p].votes = @ \cup {v}]
    /\ UNCHANGED <<auction, age, bot>>

\* A queued proposal comes within two days of its expiry, and expires.
Ages(p) ==
    /\ Queued(p)
    /\ age[p] # "expired"
    /\ age' = [age EXCEPT ![p] = IF @ = "fresh" THEN "atRisk" ELSE "expired"]
    /\ UNCHANGED <<auction, proposals, bot>>

World ==
    \/ NewAuction
    \/ \E b \in 1..MaxBids : NewBid(b)
    \/ EndsSoon
    \/ \E p \in Proposals : NewProposal(p) \/ NewStatus(p) \/ Ages(p)
    \/ \E p \in Proposals, v \in Votes : NewVote(p, v)

-----------------------------------------------------------------------------
(* Awaits. *)

\* The chain goes on with label, having read what chain says.
Continue(r, t, chain, label) ==
    run' = [run EXCEPT ![r][t] = IF label = "idle" THEN NotRunning ELSE [chain EXCEPT !.pc = label]]
Goto(r, t, label) == Continue(r, t, run[r][t], label)
At(r, t, label) == run[r][t].pc = label

\* A request that is rejected ends its promise chain; nothing catches it.
Rejected(r, t) ==
    /\ faults < MaxFaults
    /\ faults' = faults + 1
    /\ Goto(r, t, "idle")

\* Promise.all over the handlers: the chain goes on, or one of them is rejected.
Deliver(r, t, next) ==
    \/ Continue(r, t, [run[r][t] EXCEPT !.known = None], next) /\ UNCHANGED faults
    \/ Rejected(r, t)

\* A message is delivered, to some channels or none when a handler is rejected.
Post(r, t, msg, next) ==
    /\ Deliver(r, t, next)
    /\ \/ /\ posted' = posted \cup {msg}
          /\ repeated' = IF msg[1] = "warning" THEN {} ELSE repeated \cup ({msg} \cap posted)
       \/ faults' # faults /\ UNCHANGED <<posted, repeated>>

\* Node ends the process when a rejection is not handled, or a host restarts it.
Crash ==
    /\ faults < MaxFaults
    /\ faults' = faults + 1
    /\ run' = [r \in Runs |-> [t \in Threads |-> NotRunning]]
    /\ setup' = [step |-> "query", read |-> None]
    /\ UNCHANGED <<world, timer, cache, posted, repeated, handed, seeded, overlapped>>

\* setupAuction() and setupGovernance(): the cache starts from what the subgraph shows.
SetupQuery ==
    /\ setup.step = "query"
    /\ setup' = [step |-> "store", read |-> IF timer = "auction" THEN auction.id ELSE proposals]
    /\ UNCHANGED <<world, timer, cache, run, posted, repeated, handed, seeded, overlapped, faults>>

\* What a record of a proposal says: its status and its votes of more than zero votes.
Facts(p, proposal) ==
    {<<"status", p, proposal.status>>} \cup {<<"vote", p, v>> : v \in proposal.votes}

ExtractNewVotes(before, after) == after.votes \ before.votes

\* The time is that of the check, the rest is from the snapshot.
IsAtRiskOfExpiry(p, proposal) == Statuses[proposal.status] = "QUEUED" /\ age[p] = "atRisk"

\* getLastAuctionBids(), compared with the three values read from redis at the start
\* of the run: what there is to do is known from here on.
LastAuctionBids(read) ==
    [id |-> auction.id,
     bid |-> IF auction.bid = read.known THEN None ELSE auction.bid,
     soon |-> auction.soon /\ read.soon < auction.id]

SetupStore ==
    /\ setup.step = "store"
    /\ setup' = [step |-> "done", read |-> None]
    /\ IF timer = "auction"
       THEN cache' = [cache EXCEPT !.auction = setup.read] /\ UNCHANGED seeded
       ELSE LET known == {p \in Proposals : setup.read[p] # None}
            IN  /\ cache' = [cache EXCEPT !.proposals =
                       [p \in Proposals |-> IF p \in known THEN setup.read[p] ELSE @[p]]]
                /\ seeded' = seeded \cup UNION {Facts(p, setup.read[p]) : p \in known}
    /\ UNCHANGED <<world, timer, run, posted, repeated, handed, overlapped, faults>>

-----------------------------------------------------------------------------
(* processAuctionTick() *)

\* The interval has passed: a run starts, whatever the state of the previous one.
Starts(r) ==
    /\ Idle(r)
    /\ overlapped' = (overlapped \/ setup.step # "done" \/ \E other \in Runs : ~Idle(other))

\* The three reads of redis are one step.
StartAuctionTick(r) ==
    /\ timer = "auction"
    /\ Starts(r)
    /\ Continue(r, "auction",
                [NotRunning EXCEPT !.id = cache.auction, !.known = cache.bid, !.soon = cache.soon], "query")
    /\ UNCHANGED <<world, timer, cache, setup, posted, repeated, handed, seeded, faults>>

GetLastAuctionBids(r) ==
    LET read == run[r]["auction"]
    IN  /\ At(r, "auction", "query")
        /\ \/ /\ Continue(r, "auction", [NotRunning EXCEPT !.last = LastAuctionBids(read)],
                       IF read.id < auction.id THEN "discover" ELSE "bid")
              /\ UNCHANGED faults
           \/ Rejected(r, "auction")
        /\ UNCHANGED <<world, timer, cache, setup, posted, repeated, handed, seeded, overlapped>>

AfterBid(todo) == IF todo.soon THEN "soon" ELSE "idle"

\* incrementCounter and updateAuctionCache
DiscoverAuction(r) ==
    /\ At(r, "auction", "discover")
    /\ \/ /\ cache' = [cache EXCEPT !.auction = run[r]["auction"].last.id]
          /\ Goto(r, "auction", "announce")
          /\ UNCHANGED faults
       \/ Rejected(r, "auction") /\ UNCHANGED cache
    /\ UNCHANGED <<world, timer, setup, posted, repeated, handed, seeded, overlapped>>

HandleNewAuction(r) ==
    /\ At(r, "auction", "announce")
    /\ Post(r, "auction", <<"auction", run[r]["auction"].last.id>>, "bid")
    /\ UNCHANGED <<world, timer, cache, setup, handed, seeded, overlapped>>

\* A fault: the bid is stored in the cache by no one.
CheckBidForgotten(r) ==
    LET todo == run[r]["auction"].last
    IN  /\ At(r, "auction", "bid")
        /\ \/ /\ Goto(r, "auction", IF todo.bid # None THEN "postBid" ELSE AfterBid(todo))
              /\ UNCHANGED faults
           \/ Rejected(r, "auction")
        /\ UNCHANGED <<world, timer, cache, setup, posted, repeated, handed, seeded, overlapped>>

\* The counters, then a new bid: the cache first.
CheckBid(r) ==
    LET todo == run[r]["auction"].last
    IN  /\ At(r, "auction", "bid")
        /\ \/ /\ cache' = IF todo.bid # None THEN [cache EXCEPT !.bid = todo.bid] ELSE cache
              /\ Goto(r, "auction", IF todo.bid # None THEN "postBid" ELSE AfterBid(todo))
              /\ UNCHANGED faults
           \/ Rejected(r, "auction") /\ UNCHANGED cache
        /\ UNCHANGED <<world, timer, setup, posted, repeated, handed, seeded, overlapped>>

HandleNewBid(r) ==
    LET todo == run[r]["auction"].last
    IN  /\ At(r, "auction", "postBid")
        /\ Post(r, "auction", <<"bid", todo.bid>>, AfterBid(todo))
        /\ UNCHANGED <<world, timer, cache, setup, handed, seeded, overlapped>>

UpdateEndingSoonCache(r) ==
    /\ At(r, "auction", "soon")
    /\ cache' = [cache EXCEPT !.soon = run[r]["auction"].last.id]
    /\ Goto(r, "auction", "postSoon")
    /\ UNCHANGED <<world, timer, setup, posted, repeated, handed, seeded, overlapped, faults>>

HandleAuctionEndingSoon(r) ==
    /\ At(r, "auction", "postSoon")
    /\ Post(r, "auction", <<"soon", run[r]["auction"].last.id>>, "idle")
    /\ UNCHANGED <<world, timer, cache, setup, handed, seeded, overlapped>>

-----------------------------------------------------------------------------
(* processGovernanceTick(): one promise chain per proposal. *)

\* getAllProposals(): its answer starts a chain for every proposal.
StartGovernanceTick(r) ==
    /\ timer = "governance"
    /\ Starts(r)
    /\ run' = [run EXCEPT ![r] = [t \in Threads |->
           IF t = "auction" \/ proposals[t] = None THEN NotRunning
           ELSE [NotRunning EXCEPT !.last = proposals[t], !.pc = "read"]]]
    /\ UNCHANGED <<world, timer, cache, setup, posted, repeated, handed, seeded, faults>>

ReadProposalCache(r, p) ==
    /\ At(r, p, "read")
    /\ Continue(r, p, [run[r][p] EXCEPT !.known = cache.proposals[p]],
                IF cache.proposals[p] = None THEN "new" ELSE "status")
    /\ UNCHANGED <<world, timer, cache, setup, posted, repeated, handed, seeded, overlapped, faults>>

\* A fault: the chain goes on when posting fails.
HandleNewProposalSwallowed(r, p) ==
    /\ At(r, p, "new")
    /\ Goto(r, p, "store")
    /\ \/ handed' = handed \cup Facts(p, run[r][p].last) /\ UNCHANGED faults
       \/ faults < MaxFaults /\ faults' = faults + 1 /\ UNCHANGED handed
    /\ UNCHANGED <<world, timer, cache, setup, posted, repeated, seeded, overlapped>>

HandleNewProposal(r, p) ==
    /\ At(r, p, "new")
    /\ Deliver(r, p, "store")
    /\ handed' = IF faults' = faults THEN handed \cup Facts(p, run[r][p].last) ELSE handed
    /\ UNCHANGED <<world, timer, cache, setup, posted, repeated, seeded, overlapped>>

\* The new status; then, without waiting for them, the new votes; then the time.
HandleUpdatedProposal(r, p) ==
    LET before == run[r][p].known
        after == run[r][p].last
        next == IF IsAtRiskOfExpiry(p, after) THEN "hasWarned" ELSE "store"
        news == (IF before.status # after.status THEN {<<"status", p, after.status>>} ELSE {})
                \cup {<<"vote", p, v>> : v \in ExtractNewVotes(before, after)}
    IN  /\ At(r, p, "status")
        /\ IF before.status # after.status
           THEN Deliver(r, p, next)
           ELSE Continue(r, p, [run[r][p] EXCEPT !.known = None], next) /\ UNCHANGED faults
        /\ handed' = IF faults' = faults THEN handed \cup news ELSE handed
        /\ UNCHANGED <<world, timer, cache, setup, posted, repeated, seeded, overlapped>>

HasWarnedOfExpiry(r, p) ==
    /\ At(r, p, "hasWarned")
    /\ Goto(r, p, IF p \in cache.warned THEN "store" ELSE "warn")
    /\ UNCHANGED <<world, timer, cache, setup, posted, repeated, handed, seeded, overlapped, faults>>

\* A fault: the warning is marked as sent before it is.
HandleProposalAtRiskMarkFirst(r, p) ==
    /\ At(r, p, "warn")
    /\ cache' = [cache EXCEPT !.warned = @ \cup {p}]
    /\ Post(r, p, <<"warning", p>>, "store")
    /\ UNCHANGED <<world, timer, setup, handed, seeded, overlapped>>

HandleProposalAtRiskOfExpiry(r, p) ==
    /\ At(r, p, "warn")
    /\ Post(r, p, <<"warning", p>>, "mark")
    /\ UNCHANGED <<world, timer, cache, setup, handed, seeded, overlapped>>

SetProposalExpiryWarningSent(r, p) ==
    /\ At(r, p, "mark")
    /\ cache' = [cache EXCEPT !.warned = @ \cup {p}]
    /\ Goto(r, p, "store")
    /\ UNCHANGED <<world, timer, setup, posted, repeated, handed, seeded, overlapped, faults>>

UpdateProposalCache(r, p) ==
    /\ At(r, p, "store")
    /\ cache' = [cache EXCEPT !.proposals[p] = run[r][p].last]
    /\ Goto(r, p, "idle")
    /\ UNCHANGED <<world, timer, setup, posted, repeated, handed, seeded, overlapped, faults>>

-----------------------------------------------------------------------------
Step(r) ==
    \/ GetLastAuctionBids(r) \/ DiscoverAuction(r)
    \/ HandleNewAuction(r) \/ CheckBid(r) \/ HandleNewBid(r)
    \/ UpdateEndingSoonCache(r) \/ HandleAuctionEndingSoon(r)
    \/ \E p \in Proposals :
          \/ ReadProposalCache(r, p) \/ HandleNewProposal(r, p) \/ HandleUpdatedProposal(r, p)
          \/ HasWarnedOfExpiry(r, p) \/ HandleProposalAtRiskOfExpiry(r, p)
          \/ SetProposalExpiryWarningSent(r, p) \/ UpdateProposalCache(r, p)

Starting == \E r \in Runs : StartAuctionTick(r) \/ StartGovernanceTick(r)
Setup == SetupQuery \/ SetupStore

Next == World \/ Crash \/ Setup \/ Starting \/ \E r \in Runs : Step(r)

\* setInterval goes on starting runs, and an await is answered in the end.
Spec == Init /\ [][Next]_vars /\ WF_vars(Starting) /\ WF_vars(Setup)
             /\ \A r \in Runs : WF_vars(Step(r))

-----------------------------------------------------------------------------
\* A message about an auction is posted at most once, through failed requests and
\* crashes, as long as no run of the timer overlaps another or the setup: the cache
\* is written before the handlers are called.
PostedAtMostOnce ==
    ~overlapped => repeated = {}

\* Every status and vote in the cache of a proposal was given to the handlers, or was
\* there when a run first saw the proposal, or was in the subgraph when the bots were
\* started: a failed request, an older snapshot written late or overlapping runs may
\* repeat a message but hide none. A restart does: setupGovernance stores what has
\* happened since the last run and tells no one.
CacheNeverAhead ==
    \A p \in Proposals :
        cache.proposals[p] # None => Facts(p, cache.proposals[p]) \subseteq handed \cup seeded

\* A queued proposal in its last two days is warned about, unless it is executed or
\* expires first.
AtRiskWarned ==
    \A p \in Proposals :
        (Queued(p) /\ age[p] = "atRisk")
            ~> (<<"warning", p>> \in posted \/ age[p] = "expired" \/ ~Queued(p))

\* handlers/twitter.ts:32 "We intentionally update the bid cache before safety checks
\* to ensure we do not double tweet a bid".
BidPostedOnce == \A msg \in repeated : msg[1] # "bid"
=============================================================================
