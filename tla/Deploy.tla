-------------------------------- MODULE Deploy --------------------------------
(***************************************************************************)
(* The hardhat tasks that deploy and configure the contracts. The address  *)
(* of a contract is the number of transactions the deployer had sent       *)
(* before; contracts that need one another are told an address computed    *)
(* beforehand from that number. A task is a script of steps; a step that   *)
(* throws ends it and leaves what was done. The operator may run a second  *)
(* task with the same key at any time, and any script may be killed.       *)
(*                                                                         *)
(* Auction and voting parameters, gas prices, the verification on          *)
(* Etherscan and the printed tables are left out.                          *)
(***************************************************************************)
EXTENDS Integers, Sequences, FiniteSets

CONSTANTS
    Terminals,   \* shells the operator runs tasks in, with one key
    Tasks,       \* the tasks that are run
    MaxRuns,     \* bound: tasks started
    MaxSwitches  \* bound: how often another terminal's transactions come in between

\* The tasks of the command line that deploy or configure.
ASSUME TasksAssumption ==
    Tasks \subseteq {"deploy", "configure", "configureAll", "shortTimes", "shortTimesV1",
                     "runLocal", "ci", "descriptorV2", "populate"}

VARIABLES
    sent,      \* the deployer's transactions: the contract each created, "none" if it is a call
    told,      \* what each contract was told by its constructor or initializer
    owner,     \* the owner of each contract that has one
    parts,     \* the kinds of art each descriptor has stored
    started,   \* the auction houses that were started, by the address of their proxy
    legacy,    \* is there a contract at the descriptor address written in the source?
    config,    \* the token named by the SDK's and by the subgraph's configuration
    shell,     \* each terminal: its task, the steps left, and what the task has deployed
    turn       \* history: the terminal that acted last, and how often that changed

chain == <<sent, told, owner, parts, started, legacy>>
vars == <<chain, config, shell, turn>>

Legacy == -1     \* populate-descriptor's default descriptor
Nowhere == -2    \* an address not known
Deployer == -3
Founders == -4   \* the founders' address as the operator gives it
Nonce == Len(sent)
CodeAt(a) == IF a \in 0..Nonce - 1 THEN sent[a + 1] ELSE "none"

\* The table f with the value v for x.
Put(f, x, v) == [y \in {x} \cup DOMAIN f |-> IF y = x THEN v ELSE f[y]]

-----------------------------------------------------------------------------
(* What the tasks deploy, in which order. *)

DescriptorContracts ==
    <<"NFTDescriptorV2", "SVGRenderer", "AlpsAttribute", "AlpsDescriptorV2", "Inflator", "AlpsArt">>
CoreContracts == DescriptorContracts \o
    <<"AlpsSeeder", "AlpsToken", "AlpsAuctionHouse", "AlpsAuctionHouseProxyAdmin",
      "AlpsAuctionHouseProxy", "AlpsDAOExecutor", "AlpsDAOLogic", "AlpsDAOProxy">>
LocalContracts == <<"WETH">> \o CoreContracts \o <<"Multicall2">>

Contracts == {LocalContracts[i] : i \in DOMAIN LocalContracts}

\* How many contracts are deployed before the ones whose address is predicted.
DeployOffsets == [art |-> 5, house |-> 10, governor |-> 13]
DeployShortTimesOffsets == [art |-> 4, house |-> 9, governor |-> 12]
DeployLocalOffsets == [art |-> 5, house |-> 10, governor |-> 13]
DeployDescriptorV2Offsets == [art |-> 4, house |-> 0, governor |-> 0]

\* What a contract is told: base is the deployer's nonce when the task began, d the
\* addresses deployed so far.
ToldBy(contract, d, base, offsets, founders) ==
    CASE contract = "AlpsDescriptorV2" ->
            [art |-> base + offsets.art, renderer |-> d["SVGRenderer"],
             attribute |-> d["AlpsAttribute"], library |-> d["NFTDescriptorV2"]]
      [] contract = "AlpsArt" ->
            [descriptor |-> d["AlpsDescriptorV2"], inflator |-> d["Inflator"]]
      [] contract = "AlpsToken" ->
            [founders |-> founders, minter |-> base + offsets.house,
             descriptor |-> d["AlpsDescriptorV2"], seeder |-> d["AlpsSeeder"]]
      [] contract = "AlpsAuctionHouseProxy" ->
            [logic |-> d["AlpsAuctionHouse"], admin |-> d["AlpsAuctionHouseProxyAdmin"],
             token |-> d["AlpsToken"]]
      [] contract = "AlpsDAOExecutor" -> [governor |-> base + offsets.governor]
      [] contract = "AlpsDAOProxy" ->
            [timelock |-> d["AlpsDAOExecutor"], token |-> d["AlpsToken"],
             vetoer |-> founders, implementation |-> d["AlpsDAOLogic"]]
      [] OTHER -> <<>>

\* A fault: the art is told the attribute contract in the place of the inflator.
DeployContractsNoInflator(contract, d, base, founders) ==
    IF contract = "AlpsArt"
    THEN [descriptor |-> d["AlpsDescriptorV2"], inflator |-> d["AlpsAttribute"]]
    ELSE ToldBy(contract, d, base, DeployOffsets, founders)

DeployContracts(contract, d, base, founders) ==
    ToldBy(contract, d, base, DeployOffsets, founders)

\* For the second governor the art is told the attribute contract instead of the inflator.
DeployShortTimesContracts(contract, d, base, founders) ==
    IF contract = "AlpsArt"
    THEN [descriptor |-> d["AlpsDescriptorV2"], inflator |-> d["AlpsAttribute"]]
    ELSE ToldBy(contract, d, base, DeployShortTimesOffsets, founders)

DeployShortTimesV1Contracts(contract, d, base, founders) ==
    ToldBy(contract, d, base, DeployShortTimesOffsets, founders)

DeployLocalContracts(contract, d, base, founders) ==
    ToldBy(contract, d, base, DeployLocalOffsets, founders)

DeployDescriptorV2Contracts(contract, d, base) ==
    ToldBy(contract, d, base, DeployDescriptorV2Offsets, Deployer)

\* The contract each of these names should be the address of.
Meant == [art |-> "AlpsArt", renderer |-> "SVGRenderer", attribute |-> "AlpsAttribute",
          library |-> "NFTDescriptorV2", descriptor |-> "AlpsDescriptorV2",
          inflator |-> "Inflator", minter |-> "AlpsAuctionHouseProxy", seeder |-> "AlpsSeeder",
          logic |-> "AlpsAuctionHouse", admin |-> "AlpsAuctionHouseProxyAdmin",
          token |-> "AlpsToken", governor |-> "AlpsDAOProxy", timelock |-> "AlpsDAOExecutor",
          implementation |-> "AlpsDAOLogic"]

\* The contracts told of are the ones meant.
Wired(a) == \A name \in DOMAIN told[a] \cap DOMAIN Meant : CodeAt(told[a][name]) = Meant[name]

-----------------------------------------------------------------------------
(* The scripts. *)

Creates(contract) == [do |-> "create", on |-> contract]
Checks(contract) == [do |-> "check", on |-> contract]
Adds(part) == [do |-> "add", on |-> part]
HandsOver(contract) == [do |-> "handOver", on |-> contract]
Plain(what) == [do |-> what, on |-> "none"]
Throws == Plain("throw")

Kinds == <<"backgrounds", "palette", "bodies", "heads", "glasses", "accessories">>
Each(S(_), names) == [i \in DOMAIN names |-> S(names[i])]

\* A fault: the address of the governor's proxy is not compared.
DeployingUnchecked ==
    LET step == Each(Creates, CoreContracts)
    IN SubSeq(step, 1, 11) \o <<Checks("AlpsAuctionHouseProxy")>> \o SubSeq(step, 12, 14)

\* Both proxies are compared with their predicted address once they are deployed.
Deploying ==
    LET step == Each(Creates, CoreContracts)
    IN SubSeq(step, 1, 11) \o <<Checks("AlpsAuctionHouseProxy")>> \o
       SubSeq(step, 12, 14) \o <<Checks("AlpsDAOProxy")>>

\* The loops of the other two deployments are the same, over the same contracts.
DeployingShortTimes == Deploying
DeployingShortTimesV1 == Deploying
DeployingLocally == Each(Creates, LocalContracts)
PopulateDescriptor == Each(Adds, Kinds)

\* The subgraph's directory in its path does not exist; the second version's SDK
\* directory does not either.
UpdateConfigs == <<Plain("writeSdk"), Throws>>
UpdateConfigsDaoV2 == <<Throws>>

\* A fault: the house stays with the deployer.
StartAuctionKept == <<Plain("unpause")>>

StartAuction == <<Plain("unpause"), HandsOver("AlpsAuctionHouseProxy")>>

Configuring(deploying, start, configs) ==
    deploying \o PopulateDescriptor \o
    Each(HandsOver, <<"AlpsDescriptorV2", "AlpsToken", "AlpsAuctionHouseProxyAdmin">>) \o
    (IF start THEN StartAuction ELSE <<>>) \o configs

DeployAndConfigure == Configuring(Deploying, TRUE, <<>>)
DeployAndConfigureAll == Configuring(Deploying, FALSE, UpdateConfigs)
DeployAndConfigureShortTimes == Configuring(DeployingShortTimes, TRUE, UpdateConfigsDaoV2)
DeployAndConfigureShortTimesV1 == Configuring(DeployingShortTimesV1, TRUE, UpdateConfigs)

RunLocal ==
    DeployingLocally \o PopulateDescriptor \o <<Plain("unpause")>> \o
    Each(HandsOver, <<"AlpsDescriptorV2", "AlpsToken", "AlpsAuctionHouseProxyAdmin",
                      "AlpsAuctionHouseProxy">>)

DeployDescriptorV2 ==
    Each(Creates, DescriptorContracts) \o PopulateDescriptor \o <<HandsOver("AlpsDescriptorV2")>>

\* The addresses of contracts this deployment does not have are read to be logged.
DeployCi == Deploying \o <<Throws>>

Script(task) ==
    CASE task = "deploy"       -> Deploying
      [] task = "configure"    -> DeployAndConfigure
      [] task = "configureAll" -> DeployAndConfigureAll
      [] task = "shortTimes"   -> DeployAndConfigureShortTimes
      [] task = "shortTimesV1" -> DeployAndConfigureShortTimesV1
      [] task = "runLocal"     -> RunLocal
      [] task = "ci"           -> DeployCi
      [] task = "descriptorV2" -> DeployDescriptorV2
      [] task = "populate"     -> PopulateDescriptor

\* Deploy takes the founders' address under a name neither deploy-and-configure nor
\* deploy-ci passes it by.
FoundersOf(task) == IF task \in {"deploy", "shortTimes", "shortTimesV1"} THEN Founders ELSE Deployer

Tells(task, contract, d, base) ==
    CASE task = "shortTimes"   -> DeployShortTimesContracts(contract, d, base, FoundersOf(task))
      [] task = "shortTimesV1" -> DeployShortTimesV1Contracts(contract, d, base, FoundersOf(task))
      [] task = "runLocal"     -> DeployLocalContracts(contract, d, base, FoundersOf(task))
      [] task = "descriptorV2" -> DeployDescriptorV2Contracts(contract, d, base)
      [] OTHER                 -> DeployContracts(contract, d, base, FoundersOf(task))

\* Where a task expects the proxy it checks.
Expected(task, contract, base) ==
    LET offsets == IF task \in {"shortTimes", "shortTimesV1"}
                   THEN DeployShortTimesOffsets ELSE DeployOffsets
    IN base + IF contract = "AlpsDAOProxy" THEN offsets.governor ELSE offsets.house

-----------------------------------------------------------------------------
Idle == [task |-> "none", script |-> <<>>, died |-> FALSE, base |-> 0, target |-> Legacy,
         d |-> [c \in Contracts |-> Nowhere]]

Init ==
    /\ sent = <<>> /\ told = <<>> /\ owner = <<>>
    /\ parts = [a \in {Legacy} |-> {}]
    /\ started = {}
    /\ legacy \in BOOLEAN
    /\ config = [sdk |-> Nowhere, subgraph |-> Nowhere]
    /\ shell = [t \in Terminals |-> Idle]
    /\ turn \in [last : Terminals, switches : {0}]

Latest(contract) ==
    LET places == {a \in 0..Nonce - 1 : CodeAt(a) = contract}
    IN IF places = {} THEN Legacy ELSE CHOOSE a \in places : \A b \in places : b <= a

\* The executors that answer to a governor that answers to them.
Executors ==
    {a \in 0..Nonce - 1 :
        /\ CodeAt(a) = "AlpsDAOExecutor" /\ CodeAt(told[a].governor) = "AlpsDAOProxy"
        /\ told[told[a].governor].timelock = a}

Begun == Cardinality({t \in Terminals : shell[t].task # "none"})

\* populate-descriptor by itself is run for the latest descriptor; from the other tasks
\* it is given the descriptor under a name it does not know, and takes its default.
Begin(t, task) ==
    /\ shell[t].task = "none" /\ Begun < MaxRuns
    /\ task = "descriptorV2" => Executors # {}
    /\ task = "populate" => Latest("AlpsDescriptorV2") # Legacy
    /\ shell' = [shell EXCEPT ![t] = [Idle EXCEPT !.task = task, !.script = Script(task),
            !.base = Nonce,
            !.target = IF task = "populate" THEN Latest("AlpsDescriptorV2") ELSE Legacy]]
    /\ UNCHANGED <<chain, config>>

Runs(t) == shell[t].script # <<>> /\ ~shell[t].died
Step(t, what) == Runs(t) /\ Head(shell[t].script).do = what
On(t) == Head(shell[t].script).on
At(t, contract) == shell[t].d[contract]

\* The script goes on with x deployed.
Proceed(t, x) == shell' = [shell EXCEPT ![t].script = Tail(@), ![t].d = x]
Throw(t) == shell' = [shell EXCEPT ![t].died = TRUE]

Create(t) ==
    /\ Step(t, "create")
    /\ LET s == shell[t] IN
       /\ sent' = Append(sent, On(t))
       /\ told' = Put(told, Nonce, Tells(s.task, On(t), s.d, s.base))
       /\ owner' = Put(owner, Nonce, Deployer)
       /\ parts' = IF On(t) = "AlpsDescriptorV2" THEN Put(parts, Nonce, {}) ELSE parts
       /\ Proceed(t, [s.d EXCEPT ![On(t)] = Nonce])
    /\ UNCHANGED <<started, legacy, config>>

\* validateDeployment
Check(t) ==
    /\ Step(t, "check")
    /\ IF At(t, On(t)) = Expected(shell[t].task, On(t), shell[t].base)
       THEN Proceed(t, shell[t].d) ELSE Throw(t)
    /\ UNCHANGED <<chain, config>>

\* A call by the deployer. One that would revert is found out when its gas is estimated,
\* and is not sent.
Calls(t, ok) ==
    IF ok THEN sent' = Append(sent, "none") /\ Proceed(t, shell[t].d)
    ELSE Throw(t) /\ UNCHANGED sent

\* Art is stored through the descriptor by its owner, in the art contract that knows it;
\* a call to an address without a contract does nothing and succeeds.
Add(t) ==
    /\ Step(t, "add")
    /\ LET a == shell[t].target
           art == IF a = Legacy THEN Nowhere ELSE told[a].art
           stores == /\ a # Legacy /\ owner[a] = Deployer
                     /\ CodeAt(art) = "AlpsArt" /\ told[art].descriptor = a
       IN /\ Calls(t, stores \/ (a = Legacy /\ ~legacy))
          /\ parts' = IF stores THEN [parts EXCEPT ![a] = @ \cup {On(t)}] ELSE parts
    /\ UNCHANGED <<told, owner, started, legacy, config>>

\* transferOwnership to the executor; deploy-descriptor-v2 is given one at work.
HandOver(t) ==
    /\ Step(t, "handOver")
    /\ LET a == At(t, On(t))
           ok == owner[a] = Deployer
       IN /\ Calls(t, ok)
          /\ \E new \in IF shell[t].task = "descriptorV2" THEN Executors
                       ELSE {At(t, "AlpsDAOExecutor")} :
                owner' = IF ok THEN [owner EXCEPT ![a] = new] ELSE owner
    /\ UNCHANGED <<told, parts, started, legacy, config>>

\* The first mint takes one of each part at random: with none of a kind that divides by
\* zero and unpause reverts. A token that has another minter only refuses, and the house
\* pauses again. The gas limit is given, so nothing is estimated: a live network takes
\* the call that will revert and the script goes on; the local node throws.
Unpause(t) ==
    /\ Step(t, "unpause")
    /\ LET house == At(t, "AlpsAuctionHouseProxy")
           token == At(t, "AlpsToken")
           mints == told[token].minter = house
           draws == {Kinds[i] : i \in DOMAIN Kinds} \ {"palette"} \subseteq
                        parts[told[token].descriptor]
           ok == owner[house] = Deployer /\ (mints => draws)
       IN /\ sent' = Append(sent, "none")
          /\ IF ok \/ shell[t].task # "runLocal" THEN Proceed(t, shell[t].d) ELSE Throw(t)
          /\ started' = IF ok /\ mints THEN started \cup {house} ELSE started
    /\ UNCHANGED <<told, owner, parts, legacy, config>>

WriteSdk(t) ==
    /\ Step(t, "writeSdk")
    /\ config' = [config EXCEPT !.sdk = At(t, "AlpsToken")]
    /\ Proceed(t, shell[t].d)
    /\ UNCHANGED chain

\* The script is killed, or throws of itself.
Dies(t) ==
    /\ Runs(t)
    /\ Throw(t)
    /\ UNCHANGED <<chain, config>>

Turn(t) ==
    /\ turn' = [last |-> t, switches |-> turn.switches + IF t = turn.last THEN 0 ELSE 1]
    /\ turn'.switches <= MaxSwitches

Next ==
    \E t \in Terminals :
        /\ Turn(t)
        /\ \/ \E task \in Tasks : Begin(t, task)
           \/ Create(t) \/ Check(t) \/ Add(t) \/ HandOver(t) \/ Unpause(t) \/ WriteSdk(t) \/ Dies(t)

Spec == Init /\ [][Next]_vars

-----------------------------------------------------------------------------
(* The properties. *)

Deployed(t) == {c \in Contracts : At(t, c) # Nowhere}
Ended(t) == shell[t].task # "none" /\ shell[t].script = <<>> /\ ~shell[t].died

\* A deployment to a live network never gives a contract away to an executor that no
\* governor can make act: whatever other transactions the key sent in between, and
\* wherever the script stopped, a contract belongs to the key that deployed it or to an
\* executor and a governor that know each other (deploy.ts, validateDeployment;
\* deploy-and-configure.ts, transferOwnership).
NeverStranded ==
    \A t \in Terminals : shell[t].task # "runLocal" =>
        \A c \in Deployed(t) : owner[At(t, c)] \in {Deployer} \cup Executors

\* Once both checks have passed every contract was told the addresses of the contracts
\* it needs, the predicted ones included (deploy.ts, the args of each contract).
WiredOnceChecked ==
    \A t \in Terminals :
        (/\ shell[t].task \in {"deploy", "configure", "configureAll", "shortTimes",
                                "shortTimesV1", "ci"}
         /\ \A i \in DOMAIN shell[t].script : shell[t].script[i].do # "check") =>
            \A c \in Deployed(t) : Wired(At(t, c))

\* A deployment that came to its last line has left the token, the descriptor, the house
\* and its admin with the executor (deploy-and-configure.ts, "Deployment Complete.").
HandedOver ==
    \A t \in Terminals : Ended(t) /\ shell[t].task = "configure" =>
        \A c \in {"AlpsDescriptorV2", "AlpsToken", "AlpsAuctionHouseProxyAdmin",
                  "AlpsAuctionHouseProxy"} :
            owner[At(t, c)] = At(t, "AlpsDAOExecutor")

\* What deploy-and-configure says when it ends: "Started the first auction and
\* transferred ownership of the auction house to the executor."
FirstAuctionStarted ==
    \A t \in Terminals : Ended(t) /\ shell[t].task = "configure" =>
        At(t, "AlpsAuctionHouseProxy") \in started
=============================================================================
