---------------------------- MODULE Deploy_proofs ----------------------------
(***************************************************************************)
(* Proofs about the deployment tasks, for any terminals, tasks and bounds: *)
(* what a deployment that is interleaved with others and may stop anywhere *)
(* has told, checked and handed over.                                      *)
(***************************************************************************)
EXTENDS Deploy, SequenceTheorems, TLAPS

-----------------------------------------------------------------------------
(* The chain and the shells.                                               *)

\* The tasks that deploy every contract of the core and compare the two proxies.
Deployments == {"deploy", "configure", "configureAll", "shortTimes", "shortTimesV1", "ci"}
TaskNames == Deployments \cup {"runLocal", "descriptorV2", "populate"}

Steps ==
    [do : {"create", "check", "handOver"}, on : Contracts]
    \cup [do : {"add"}, on : {Kinds[i] : i \in DOMAIN Kinds}]
    \cup [do : {"unpause", "writeSdk", "throw"}, on : {"none"}]

\* The addresses of contracts.
Used == {a \in 0..Nonce - 1 : CodeAt(a) # "none"}

ChainInv ==
    /\ sent \in Seq(Contracts \cup {"none"})
    /\ DOMAIN told = Used /\ DOMAIN owner = Used

\* A task knows only contracts it created itself, since it began.
ShellInv(t) ==
    /\ DOMAIN shell[t] = DOMAIN Idle
    /\ shell[t].task \in TaskNames \cup {"none"}
    /\ shell[t].script \in Seq(Steps)
    /\ shell[t].base \in 0..Nonce
    /\ shell[t].d \in [Contracts -> Int]
    /\ \A c \in Deployed(t) : At(t, c) \in shell[t].base..Nonce - 1 /\ CodeAt(At(t, c)) = c
    /\ shell[t].task = "none" => shell[t].script = <<>> /\ Deployed(t) = {}
ShellsInv == DOMAIN shell = Terminals /\ \A t \in Terminals : ShellInv(t)

\* No two tasks created the same contract.
Apart ==
    \A t, u \in Terminals : t # u =>
        \A c \in Deployed(t), e \in Deployed(u) : At(t, c) # At(u, e)

-----------------------------------------------------------------------------
(* How far a deployment has come.                                          *)

\* The steps done, and the contracts created by the first k steps.
Done(t) == Len(Script(shell[t].task)) - Len(shell[t].script)
Built(k) == IF k <= 11 THEN k ELSE IF k = 12 THEN 11 ELSE IF k <= 15 THEN k - 1 ELSE 14

\* The steps left are the last of the script; the contracts created are the first of the
\* list, at addresses that increase by one at least.
ProgressInv(t) ==
    /\ Done(t) \in Nat
    /\ \A i \in DOMAIN shell[t].script : shell[t].script[i] = Script(shell[t].task)[Done(t) + i]
    /\ Deployed(t) = {CoreContracts[i] : i \in 1..Built(Done(t))}
    /\ \A i, j \in 1..Built(Done(t)) :
         i <= j => At(t, CoreContracts[j]) - At(t, CoreContracts[i]) >= j - i

\* What each contract was told is what the list of contracts says.
ToldInv(t) ==
    \A c \in Deployed(t) :
        told[At(t, c)] = Tells(shell[t].task, c, shell[t].d, shell[t].base)

\* The proxies that were checked are where they were expected.
CheckedInv(t) ==
    \A c \in {"AlpsAuctionHouseProxy", "AlpsDAOProxy"} :
        Done(t) >= (IF c = "AlpsDAOProxy" THEN 16 ELSE 12) =>
            At(t, c) = Expected(shell[t].task, c, shell[t].base)

DeploymentInv ==
    \A t \in Terminals : shell[t].task \in Deployments =>
        ProgressInv(t) /\ ToldInv(t) /\ CheckedInv(t)

\* populate-descriptor only stores art.
PopulateInv ==
    \A t \in Terminals : shell[t].task = "populate" =>
        \A i \in DOMAIN shell[t].script : shell[t].script[i].do = "add"

\* The contracts a deployment gives away, and the step in which deploy-and-configure does:
\* the house once it was unpaused.
Given == {"AlpsDescriptorV2", "AlpsToken", "AlpsAuctionHouseProxyAdmin", "AlpsAuctionHouseProxy"}
GivenIn(c) ==
    CASE c = "AlpsDescriptorV2" -> 23 [] c = "AlpsToken" -> 24
      [] c = "AlpsAuctionHouseProxyAdmin" -> 25 [] c = "AlpsAuctionHouseProxy" -> 27
HandedInv ==
    \A t \in Terminals : shell[t].task = "configure" =>
        \A c \in Given :
            Done(t) >= GivenIn(c) => owner[At(t, c)] = At(t, "AlpsDAOExecutor")

DeployInv ==
    ChainInv /\ ShellsInv /\ Apart /\ DeploymentInv /\ PopulateInv /\ NeverStranded /\ HandedInv

-----------------------------------------------------------------------------
(* The lists of contracts and the scripts.                                 *)

\* Two lists, one after the other.
LEMMA Joined ==
    ASSUME NEW S, NEW p \in Seq(S), NEW q \in Seq(S)
    PROVE  /\ p \o q \in Seq(S) /\ Len(p \o q) = Len(p) + Len(q)
           /\ \A i \in 1..Len(p) : (p \o q)[i] = p[i]
           /\ \A i \in 1..Len(q) : (p \o q)[Len(p) + i] = q[i]
OBVIOUS

CoreNames == {"NFTDescriptorV2", "SVGRenderer", "AlpsAttribute", "AlpsDescriptorV2",
              "Inflator", "AlpsArt", "AlpsSeeder", "AlpsToken", "AlpsAuctionHouse",
              "AlpsAuctionHouseProxyAdmin", "AlpsAuctionHouseProxy", "AlpsDAOExecutor",
              "AlpsDAOLogic", "AlpsDAOProxy"}
LEMMA CoreList ==
    /\ CoreContracts \in Seq(CoreNames) /\ Len(CoreContracts) = 14
    /\ CoreContracts[1] = "NFTDescriptorV2" /\ CoreContracts[2] = "SVGRenderer"
    /\ CoreContracts[3] = "AlpsAttribute" /\ CoreContracts[4] = "AlpsDescriptorV2"
    /\ CoreContracts[5] = "Inflator" /\ CoreContracts[6] = "AlpsArt"
    /\ CoreContracts[7] = "AlpsSeeder" /\ CoreContracts[8] = "AlpsToken"
    /\ CoreContracts[9] = "AlpsAuctionHouse" /\ CoreContracts[10] = "AlpsAuctionHouseProxyAdmin"
    /\ CoreContracts[11] = "AlpsAuctionHouseProxy" /\ CoreContracts[12] = "AlpsDAOExecutor"
    /\ CoreContracts[13] = "AlpsDAOLogic" /\ CoreContracts[14] = "AlpsDAOProxy"
<1>1. PICK p : p = DescriptorContracts  OBVIOUS
<1>2. PICK q : q =
        <<"AlpsSeeder", "AlpsToken", "AlpsAuctionHouse", "AlpsAuctionHouseProxyAdmin",
          "AlpsAuctionHouseProxy", "AlpsDAOExecutor", "AlpsDAOLogic", "AlpsDAOProxy">>
  OBVIOUS
<1>3. p \in Seq(CoreNames)  BY <1>1 DEF DescriptorContracts, CoreNames
<1>4. q \in Seq(CoreNames)  BY <1>2 DEF CoreNames
<1>5. CoreContracts = p \o q  BY <1>1, <1>2 DEF CoreContracts
<1>6. /\ CoreContracts \in Seq(CoreNames) /\ Len(CoreContracts) = Len(p) + Len(q)
      /\ \A i \in 1..Len(p) : CoreContracts[i] = p[i]
      /\ \A i \in 1..Len(q) : CoreContracts[Len(p) + i] = q[i]
  BY <1>3, <1>4, <1>5, Joined
<1>7. Len(p) = 6 /\ Len(q) = 8  BY <1>1, <1>2 DEF DescriptorContracts
<1>8. /\ CoreContracts[1] = p[1] /\ CoreContracts[2] = p[2] /\ CoreContracts[3] = p[3]
      /\ CoreContracts[4] = p[4] /\ CoreContracts[5] = p[5] /\ CoreContracts[6] = p[6]
  BY <1>6, <1>7
<1>9. /\ CoreContracts[7] = q[1] /\ CoreContracts[8] = q[2] /\ CoreContracts[9] = q[3]
      /\ CoreContracts[10] = q[4] /\ CoreContracts[11] = q[5] /\ CoreContracts[12] = q[6]
      /\ CoreContracts[13] = q[7] /\ CoreContracts[14] = q[8]
  BY <1>6, <1>7
<1>10. Len(CoreContracts) = 14  BY <1>6, <1>7
<1> QED  BY <1>1, <1>2, <1>6, <1>8, <1>9, <1>10 DEF DescriptorContracts

\* The contracts are those of the core and two of the local deployment.
LEMMA ContractNames ==
    /\ Contracts = CoreNames \cup {"WETH", "Multicall2"}
    /\ LocalContracts \in Seq(Contracts)
<1>1. PICK p : p = <<"WETH">>  OBVIOUS
<1>2. PICK q : q = <<"Multicall2">>  OBVIOUS
<1> DEFINE Names == CoreNames \cup {"WETH", "Multicall2"}
<1>3. CoreContracts \in Seq(Names)  BY CoreList, SeqMonotonic
<1>4. p \in Seq(Names) /\ q \in Seq(Names)  BY <1>1, <1>2
<1> HIDE DEF Names
<1>5. PICK r : r = p \o CoreContracts  OBVIOUS
<1>6. /\ r \in Seq(Names) /\ Len(r) = Len(p) + Len(CoreContracts)
      /\ \A i \in 1..Len(p) : r[i] = p[i]
      /\ \A i \in 1..Len(CoreContracts) : r[Len(p) + i] = CoreContracts[i]
  BY <1>3, <1>4, <1>5, Joined
<1>7. r \in Seq(Names)  BY <1>6
<1>8. /\ r \o q \in Seq(Names) /\ Len(r \o q) = Len(r) + Len(q)
      /\ \A i \in 1..Len(r) : (r \o q)[i] = r[i]
      /\ \A i \in 1..Len(q) : (r \o q)[Len(r) + i] = q[i]
  BY <1>4, <1>7, Joined
<1>9. LocalContracts = r \o q  BY <1>1, <1>2, <1>5 DEF LocalContracts
<1>10. Len(p) = 1 /\ p[1] = "WETH" /\ Len(q) = 1 /\ q[1] = "Multicall2"  BY <1>1, <1>2
<1>11. Len(r) = 15 /\ r[1] = "WETH" /\ \A i \in 1..14 : r[1 + i] = CoreContracts[i]
  BY <1>6, <1>10, CoreList
<1>12. /\ LocalContracts \in Seq(Names) /\ Len(LocalContracts) = 16
       /\ LocalContracts[1] = "WETH" /\ LocalContracts[16] = "Multicall2"
       /\ \A i \in 1..15 : LocalContracts[i] = r[i]
  <2>1. Len(r \o q) = 16 /\ (r \o q)[1] = "WETH" /\ (r \o q)[16] = "Multicall2"
    BY <1>8, <1>10, <1>11
  <2> QED  BY <1>8, <1>9, <1>11, <2>1
<1>13. \A i \in 1..14 : LocalContracts[1 + i] = CoreContracts[i]  BY <1>11, <1>12
<1>14. DOMAIN LocalContracts = 1..16 /\ \A i \in 1..16 : LocalContracts[i] \in Names
  BY <1>12, LenProperties
<1>15. Contracts \subseteq Names  BY <1>14 DEF Contracts
<1>16. ASSUME NEW c \in Names PROVE c \in Contracts
  <2>1. c \in {LocalContracts[1], LocalContracts[16]} \/ c \in CoreNames  BY <1>12 DEF Names
  <2>2. ASSUME c \in CoreNames PROVE \E i \in 1..14 : c = CoreContracts[i]
    BY <2>2, CoreList DEF CoreNames
  <2>3. \A i \in 1..14 : 1 + i \in 1..16  OBVIOUS
  <2> QED  BY <1>13, <1>14, <2>1, <2>2, <2>3 DEF Contracts
<1>17. Contracts = Names  BY <1>15, <1>16
<1> QED  BY <1>12, <1>17 DEF Names

\* A deployment creates the contracts of the core, and checks the house's proxy after the
\* eleventh and the governor's after the last.
LEMMA DeployingSteps ==
    /\ Deploying \in Seq(Steps) /\ Len(Deploying) = 16
    /\ \A i \in 1..11 : Deploying[i] = Creates(CoreContracts[i])
    /\ Deploying[12] = Checks("AlpsAuctionHouseProxy")
    /\ \A i \in 13..15 : Deploying[i] = Creates(CoreContracts[i - 1])
    /\ Deploying[16] = Checks("AlpsDAOProxy")
<1>1. PICK step : step = Each(Creates, CoreContracts)  OBVIOUS
<1>2. DOMAIN CoreContracts = 1..14 /\ \A i \in 1..14 : CoreContracts[i] \in Contracts
  BY CoreList, ContractNames, LenProperties
<1>3. step = [i \in 1..14 |-> Creates(CoreContracts[i])]  BY <1>1, <1>2 DEF Each
<1>4. \A c \in Contracts : Creates(c) \in Steps /\ Checks(c) \in Steps
  BY DEF Creates, Checks, Steps
<1>5. \A i \in 1..14 : step[i] = Creates(CoreContracts[i]) /\ step[i] \in Steps  BY <1>2, <1>3, <1>4
<1>6. PICK a : a = SubSeq(step, 1, 11)  OBVIOUS
<1>7. PICK b : b = <<Checks("AlpsAuctionHouseProxy")>>  OBVIOUS
<1>8. PICK c : c = SubSeq(step, 12, 14)  OBVIOUS
<1>9. PICK e : e = <<Checks("AlpsDAOProxy")>>  OBVIOUS
<1>10. a \in Seq(Steps) /\ Len(a) = 11 /\ \A i \in 1..11 : a[i] = step[i]
  <2>1. \A i \in 1..11 : step[i] \in Steps  BY <1>5
  <2> QED  BY <1>6, <2>1, SubSeqProperties
<1>11. c \in Seq(Steps) /\ Len(c) = 3 /\ \A i \in 1..3 : c[i] = step[11 + i]
  <2>1. \A i \in 12..14 : step[i] \in Steps  BY <1>5
  <2> QED  BY <1>8, <2>1, SubSeqProperties
<1>12. /\ b \in Seq(Steps) /\ Len(b) = 1 /\ b[1] = Checks("AlpsAuctionHouseProxy")
       /\ e \in Seq(Steps) /\ Len(e) = 1 /\ e[1] = Checks("AlpsDAOProxy")
  <2>1. "AlpsAuctionHouseProxy" \in Contracts /\ "AlpsDAOProxy" \in Contracts
    BY ContractNames DEF CoreNames
  <2>2. Checks("AlpsAuctionHouseProxy") \in Steps /\ Checks("AlpsDAOProxy") \in Steps  BY <1>4, <2>1
  <2> QED  BY <1>7, <1>9, <2>2
<1>13. a \in Seq(Steps) /\ b \in Seq(Steps) /\ c \in Seq(Steps) /\ e \in Seq(Steps)
  BY <1>10, <1>11, <1>12
<1>14. PICK p : p = a \o b  OBVIOUS
<1>15. /\ p \in Seq(Steps) /\ Len(p) = Len(a) + Len(b)
       /\ \A i \in 1..Len(a) : p[i] = a[i]
       /\ \A i \in 1..Len(b) : p[Len(a) + i] = b[i]
  BY <1>13, <1>14, Joined
<1>16. p \in Seq(Steps)  BY <1>15
<1>17. PICK q : q = p \o c  OBVIOUS
<1>18. /\ q \in Seq(Steps) /\ Len(q) = Len(p) + Len(c)
       /\ \A i \in 1..Len(p) : q[i] = p[i]
       /\ \A i \in 1..Len(c) : q[Len(p) + i] = c[i]
  BY <1>13, <1>16, <1>17, Joined
<1>19. q \in Seq(Steps)  BY <1>18
<1>20. PICK r : r = q \o e  OBVIOUS
<1>21. /\ r \in Seq(Steps) /\ Len(r) = Len(q) + Len(e)
       /\ \A i \in 1..Len(q) : r[i] = q[i]
       /\ \A i \in 1..Len(e) : r[Len(q) + i] = e[i]
  BY <1>13, <1>19, <1>20, Joined
<1>22. Len(p) = 12 /\ Len(q) = 15 /\ Len(r) = 16
  BY <1>10, <1>11, <1>12, <1>15, <1>18, <1>21
<1>23. p[12] = b[1] /\ \A i \in 1..11 : p[i] = step[i]  BY <1>10, <1>12, <1>15
<1>24. q[12] = b[1] /\ (\A i \in 1..11 : q[i] = step[i]) /\ \A i \in 1..3 : q[12 + i] = step[11 + i]
  BY <1>11, <1>18, <1>22, <1>23
<1>25. /\ r[16] = e[1] /\ r[12] = b[1]
       /\ (\A i \in 1..11 : r[i] = step[i]) /\ \A i \in 1..3 : r[12 + i] = step[11 + i]
  BY <1>12, <1>21, <1>22, <1>24
<1>26. Deploying = r  BY <1>1, <1>6, <1>7, <1>8, <1>9, <1>14, <1>17, <1>20 DEF Deploying
<1>27. \A i \in 13..15 : r[i] = step[i - 1]
  <2> SUFFICES ASSUME NEW i \in 13..15 PROVE r[i] = step[i - 1]  OBVIOUS
  <2>1. i - 12 \in 1..3 /\ 12 + (i - 12) = i /\ 11 + (i - 12) = i - 1  OBVIOUS
  <2> QED  BY <1>25, <2>1
<1>28. \A i \in 1..11 : r[i] = Creates(CoreContracts[i])  BY <1>5, <1>25
<1>29. \A i \in 13..15 : r[i] = Creates(CoreContracts[i - 1])  BY <1>5, <1>27
<1> QED  BY <1>12, <1>21, <1>22, <1>25, <1>26, <1>28, <1>29

\* What a deployment does next: it creates and checks no more.
LaterSteps ==
    [do : {"handOver"}, on : Given]
    \cup [do : {"add"}, on : {Kinds[i] : i \in DOMAIN Kinds}]
    \cup [do : {"unpause", "writeSdk", "throw"}, on : {"none"}]

\* The script begins with a deployment.
Deploys(p) ==
    /\ p \in Seq(Steps) /\ Len(p) \in Nat /\ Len(p) >= 16
    /\ \A i \in 1..16 : p[i] = Deploying[i]
    /\ \A i \in 17..Len(p) : p[i] \in LaterSteps

LEMMA LaterAreSteps == LaterSteps \subseteq Steps
BY ContractNames DEF LaterSteps, Steps, Given, CoreNames

\* It goes on with other steps.
LEMMA GoesOn ==
    ASSUME NEW p, NEW q, Deploys(p), q \in Seq(LaterSteps)
    PROVE  /\ Deploys(p \o q) /\ Len(p \o q) = Len(p) + Len(q)
           /\ \A i \in 1..Len(p) : (p \o q)[i] = p[i]
           /\ \A i \in 1..Len(q) : (p \o q)[Len(p) + i] = q[i]
<1>1. p \in Seq(Steps) /\ q \in Seq(Steps)  BY LaterAreSteps, SeqMonotonic DEF Deploys
<1>2. PICK r : r = p \o q  OBVIOUS
<1>3. /\ r \in Seq(Steps) /\ Len(r) = Len(p) + Len(q)
      /\ \A i \in 1..Len(p) : r[i] = p[i]
      /\ \A i \in 1..Len(q) : r[Len(p) + i] = q[i]
  BY <1>1, <1>2, Joined
<1>4. Len(p) \in Nat /\ Len(q) \in Nat /\ Len(r) \in Nat /\ Len(p) >= 16  BY <1>1, <1>3
  DEF Deploys
<1>5. \A i \in 1..16 : r[i] = Deploying[i]
  <2>1. \A i \in 1..16 : i \in 1..Len(p)  BY <1>4
  <2>2. \A i \in 1..16 : p[i] = Deploying[i]  BY DEF Deploys
  <2> QED  BY <1>3, <2>1, <2>2
<1>6. ASSUME NEW i \in 17..Len(r) PROVE r[i] \in LaterSteps
  <2>1. CASE i <= Len(p)
    <3>1. i \in 1..Len(p) /\ i \in 17..Len(p)  BY <1>4, <2>1
    <3>2. \A k \in 17..Len(p) : p[k] \in LaterSteps  BY DEF Deploys
    <3> QED  BY <1>3, <3>1, <3>2
  <2>2. CASE i > Len(p)
    <3>1. i - Len(p) \in 1..Len(q) /\ Len(p) + (i - Len(p)) = i  BY <1>3, <1>4, <2>2
    <3>2. r[i] = q[i - Len(p)]  BY <1>3, <3>1
    <3> QED  BY <3>1, <3>2
  <2> QED  BY <1>4, <2>1, <2>2
<1>7. Deploys(r)  BY <1>3, <1>4, <1>5, <1>6 DEF Deploys
<1> QED  BY <1>2, <1>3, <1>7

\* The tasks that configure what they deployed: the art, then the contracts given away.
LEMMA ConfiguringSteps ==
    ASSUME NEW start \in BOOLEAN, NEW configs \in Seq(LaterSteps)
    PROVE  LET p == Configuring(Deploying, start, configs)
           IN  /\ Deploys(p)
               /\ p[23] = HandsOver("AlpsDescriptorV2") /\ p[24] = HandsOver("AlpsToken")
               /\ p[25] = HandsOver("AlpsAuctionHouseProxyAdmin")
               /\ start => p[27] = HandsOver("AlpsAuctionHouseProxy") /\ Len(p) = 27 + Len(configs)
<1>1. Deploys(Deploying) /\ Len(Deploying) = 16  BY DeployingSteps DEF Deploys
<1>2. PICK d : d = Deploying  OBVIOUS
<1>3. PICK a : a = PopulateDescriptor  OBVIOUS
<1>4. PICK h : h = Each(HandsOver, <<"AlpsDescriptorV2", "AlpsToken", "AlpsAuctionHouseProxyAdmin">>)
  OBVIOUS
<1>5. PICK s : s = IF start THEN StartAuction ELSE <<>>  OBVIOUS
<1>6. Configuring(d, start, configs) = d \o a \o h \o s \o configs
  BY <1>3, <1>4, <1>5 DEF Configuring
<1>7. a \in Seq(LaterSteps) /\ Len(a) = 6
  <2>1. DOMAIN Kinds = 1..6  BY DEF Kinds
  <2>2. a = [i \in 1..6 |-> Adds(Kinds[i])]  BY <1>3, <2>1 DEF PopulateDescriptor, Each
  <2>3. \A i \in 1..6 : Adds(Kinds[i]) \in LaterSteps  BY <2>1 DEF Adds, LaterSteps
  <2> QED  BY <2>2, <2>3
<1>8. /\ h \in Seq(LaterSteps) /\ Len(h) = 3
      /\ h[1] = HandsOver("AlpsDescriptorV2") /\ h[2] = HandsOver("AlpsToken")
      /\ h[3] = HandsOver("AlpsAuctionHouseProxyAdmin")
  <2>1. PICK n : n = <<"AlpsDescriptorV2", "AlpsToken", "AlpsAuctionHouseProxyAdmin">>  OBVIOUS
  <2>2. /\ n \in Seq(Given) /\ DOMAIN n = 1..3 /\ n[1] = "AlpsDescriptorV2" /\ n[2] = "AlpsToken"
        /\ n[3] = "AlpsAuctionHouseProxyAdmin"
    BY <2>1 DEF Given
  <2>3. h = [i \in DOMAIN n |-> HandsOver(n[i])]  BY <1>4, <2>1 DEF Each
  <2>4. h = [i \in 1..3 |-> HandsOver(n[i])]  BY <2>2, <2>3
  <2>5. \A i \in 1..3 : n[i] \in Given  BY <2>1 DEF Given
  <2>6. \A c \in Given : HandsOver(c) \in LaterSteps  BY DEF HandsOver, LaterSteps
  <2>7. \A i \in 1..3 : HandsOver(n[i]) \in LaterSteps  BY <2>5, <2>6
  <2>8. h \in Seq(LaterSteps) /\ Len(h) = 3  BY <2>4, <2>7
  <2> QED  BY <2>2, <2>4, <2>8
<1>9. /\ s \in Seq(LaterSteps)
      /\ start => Len(s) = 2 /\ s[2] = HandsOver("AlpsAuctionHouseProxy")
  <2>1. Plain("unpause") \in LaterSteps /\ HandsOver("AlpsAuctionHouseProxy") \in LaterSteps
    BY DEF Plain, HandsOver, LaterSteps, Given
  <2>2. StartAuction = <<Plain("unpause"), HandsOver("AlpsAuctionHouseProxy")>>  BY DEF StartAuction
  <2>3. CASE start
    <3>1. s = <<Plain("unpause"), HandsOver("AlpsAuctionHouseProxy")>>  BY <1>5, <2>2, <2>3
    <3> QED  BY <2>1, <3>1
  <2>4. CASE ~start
    <3>1. s = <<>>  BY <1>5, <2>4
    <3> QED  BY <2>4, <3>1
  <2> QED  BY <2>3, <2>4
<1>10. Deploys(d) /\ a \in Seq(LaterSteps) /\ h \in Seq(LaterSteps) /\ s \in Seq(LaterSteps)
  BY <1>1, <1>2, <1>7, <1>8, <1>9
<1>11. PICK u : u = d \o a  OBVIOUS
<1>12. Deploys(u) /\ Len(u) = Len(d) + Len(a)  BY <1>10, <1>11, GoesOn
<1>13. PICK v : v = u \o h  OBVIOUS
<1>14. /\ Deploys(v) /\ Len(v) = Len(u) + Len(h)
       /\ \A i \in 1..Len(h) : v[Len(u) + i] = h[i]
  <2>1. Deploys(u)  BY <1>12
  <2> QED  BY <1>10, <1>13, <2>1, GoesOn
<1>15. PICK w : w = v \o s  OBVIOUS
<1>16. /\ Deploys(w) /\ Len(w) = Len(v) + Len(s)
       /\ \A i \in 1..Len(v) : w[i] = v[i]
       /\ \A i \in 1..Len(s) : w[Len(v) + i] = s[i]
  <2>1. Deploys(v)  BY <1>14
  <2> QED  BY <1>10, <1>15, <2>1, GoesOn
<1>17. PICK p : p = w \o configs  OBVIOUS
<1>18. /\ Deploys(p) /\ Len(p) = Len(w) + Len(configs)
       /\ \A i \in 1..Len(w) : p[i] = w[i]
  BY <1>16, <1>17, GoesOn
<1>19. Len(u) = 22 /\ Len(v) = 25  BY <1>1, <1>2, <1>7, <1>8, <1>12, <1>14
<1>20. v[23] = h[1] /\ v[24] = h[2] /\ v[25] = h[3]  BY <1>8, <1>14, <1>19
<1>21. Len(w) \in Nat /\ Len(w) >= 25 /\ Len(s) \in Nat
  <2>1. Len(s) \in Nat  BY <1>10
  <2> QED  BY <2>1, <1>16, <1>19
<1>22. p[23] = h[1] /\ p[24] = h[2] /\ p[25] = h[3]
  <2>1. w[23] = h[1] /\ w[24] = h[2] /\ w[25] = h[3]
    <3>1. w[23] = v[23] /\ w[24] = v[24] /\ w[25] = v[25]
      <4>1. 23 \in 1..Len(v) /\ 24 \in 1..Len(v) /\ 25 \in 1..Len(v)  BY <1>19
      <4> QED  BY <1>16, <4>1
    <3> QED  BY <1>20, <3>1
  <2> QED  BY <1>18, <1>21, <2>1
<1>23. ASSUME start PROVE p[27] = s[2] /\ Len(p) = 27 + Len(configs)
  <2>1. Len(s) = 2  BY <1>9, <1>23
  <2>2. Len(w) = 27 /\ w[27] = s[2]  BY <1>16, <1>19, <2>1
  <2> QED  BY <1>18, <2>2
<1>24. Configuring(Deploying, start, configs) = p  BY <1>2, <1>6, <1>11, <1>13, <1>15, <1>17
<1>25. /\ Deploys(p)
       /\ p[23] = HandsOver("AlpsDescriptorV2") /\ p[24] = HandsOver("AlpsToken")
       /\ p[25] = HandsOver("AlpsAuctionHouseProxyAdmin")
       /\ start => p[27] = HandsOver("AlpsAuctionHouseProxy") /\ Len(p) = 27 + Len(configs)
  BY <1>8, <1>9, <1>18, <1>22, <1>23
<1> QED  BY <1>24, <1>25

\* The script of each deployment begins with the same steps.
LEMMA DeploymentScripts ==
    ASSUME NEW task \in Deployments
    PROVE  Deploys(Script(task))
<1>1. Deploys(Deploying)  BY DeployingSteps DEF Deploys
<1>2. <<Throws>> \in Seq(LaterSteps) /\ <<>> \in Seq(LaterSteps)
      /\ <<Plain("writeSdk"), Throws>> \in Seq(LaterSteps)
  <2>1. Throws \in LaterSteps /\ Plain("writeSdk") \in LaterSteps  BY DEF Throws, Plain, LaterSteps
  <2> QED  BY <2>1
<1>3. UpdateConfigs \in Seq(LaterSteps) /\ UpdateConfigsDaoV2 \in Seq(LaterSteps)
  BY <1>2 DEF UpdateConfigs, UpdateConfigsDaoV2
<1>4. CASE task = "deploy"  BY <1>1, <1>4 DEF Script
<1>5. CASE task = "configure"  BY <1>2, <1>5, ConfiguringSteps DEF Script, DeployAndConfigure
<1>6. CASE task = "configureAll"  BY <1>3, <1>6, ConfiguringSteps DEF Script, DeployAndConfigureAll
<1>7. CASE task = "shortTimes"
  BY <1>3, <1>7, ConfiguringSteps
  DEF Script, DeployAndConfigureShortTimes, DeployingShortTimes
<1>8. CASE task = "shortTimesV1"
  BY <1>3, <1>8, ConfiguringSteps
  DEF Script, DeployAndConfigureShortTimesV1, DeployingShortTimesV1
<1>9. CASE task = "ci"
  <2>1. Deploys(Deploying \o <<Throws>>)  BY <1>1, <1>2, GoesOn
  <2> QED  BY <1>9, <2>1 DEF Script, DeployCi
<1> QED  BY <1>4, <1>5, <1>6, <1>7, <1>8, <1>9 DEF Deployments

\* deploy-and-configure gives the four contracts away in its steps 23, 24, 25 and 27.
LEMMA ConfigureScript ==
    /\ Len(Script("configure")) = 27
    /\ Script("configure")[23] = HandsOver("AlpsDescriptorV2")
    /\ Script("configure")[24] = HandsOver("AlpsToken")
    /\ Script("configure")[25] = HandsOver("AlpsAuctionHouseProxyAdmin")
    /\ Script("configure")[27] = HandsOver("AlpsAuctionHouseProxy")
<1>1. PICK e : e = <<>>  OBVIOUS
<1>2. e \in Seq(LaterSteps)  BY <1>1
<1>3. Script("configure") = Configuring(Deploying, TRUE, e)  BY <1>1 DEF Script, DeployAndConfigure
<1>4. /\ Len(Script("configure")) = 27 + Len(e)
      /\ Script("configure")[23] = HandsOver("AlpsDescriptorV2")
      /\ Script("configure")[24] = HandsOver("AlpsToken")
      /\ Script("configure")[25] = HandsOver("AlpsAuctionHouseProxyAdmin")
      /\ Script("configure")[27] = HandsOver("AlpsAuctionHouseProxy")
  BY <1>2, <1>3, ConfiguringSteps
<1>5. 27 + Len(e) = 27  BY <1>1
<1> QED  BY <1>4, <1>5

\* Each script is a list of steps.
LEMMA ScriptTyped ==
    ASSUME NEW task \in TaskNames
    PROVE  Script(task) \in Seq(Steps)
<1>1. CASE task \in Deployments  BY <1>1, DeploymentScripts DEF Deploys
<1>2. ASSUME NEW names \in Seq(Contracts)
      PROVE  Each(Creates, names) \in Seq(Steps) /\ Each(HandsOver, names) \in Seq(Steps)
  <2>1. \A c \in Contracts : Creates(c) \in Steps /\ HandsOver(c) \in Steps
    BY DEF Creates, HandsOver, Steps
  <2>2. DOMAIN names = 1..Len(names) /\ Len(names) \in Nat
        /\ \A i \in 1..Len(names) : names[i] \in Contracts
    BY LenProperties
  <2>3. \A i \in 1..Len(names) : Creates(names[i]) \in Steps /\ HandsOver(names[i]) \in Steps
    BY <2>1, <2>2
  <2>4. [i \in 1..Len(names) |-> Creates(names[i])] \in Seq(Steps)  BY <2>2, <2>3
  <2>5. [i \in 1..Len(names) |-> HandsOver(names[i])] \in Seq(Steps)  BY <2>2, <2>3
  <2> QED  BY <2>2, <2>4, <2>5 DEF Each
<1>3. PopulateDescriptor \in Seq(Steps)
  <2>1. DOMAIN Kinds = 1..6  BY DEF Kinds
  <2>2. PopulateDescriptor = [i \in 1..6 |-> Adds(Kinds[i])]  BY <2>1 DEF PopulateDescriptor, Each
  <2>3. \A i \in 1..6 : Adds(Kinds[i]) \in Steps  BY <2>1 DEF Adds, Steps
  <2> QED  BY <2>2, <2>3
<1>4. CASE task = "runLocal"
  <2>1. DeployingLocally \in Seq(Steps)  BY <1>2, ContractNames DEF DeployingLocally
  <2>2. PICK u : u = <<Plain("unpause")>>  OBVIOUS
  <2>3. u \in Seq(Steps)
    <3>1. Plain("unpause") \in Steps  BY DEF Plain, Steps
    <3> QED  BY <2>2, <3>1
  <2>4. PICK n : n = <<"AlpsDescriptorV2", "AlpsToken", "AlpsAuctionHouseProxyAdmin",
                       "AlpsAuctionHouseProxy">>
    OBVIOUS
  <2>5. n \in Seq(Contracts)
    <3>1. n \in Seq(CoreNames)  BY <2>4 DEF CoreNames
    <3> QED  BY <3>1, ContractNames, SeqMonotonic
  <2>6. Each(HandsOver, n) \in Seq(Steps)  BY <1>2, <2>5
  <2>7. PICK h : h = Each(HandsOver, n)  OBVIOUS
  <2>8. RunLocal = DeployingLocally \o PopulateDescriptor \o u \o h
    BY <2>2, <2>4, <2>7 DEF RunLocal
  <2>9. DeployingLocally \o PopulateDescriptor \in Seq(Steps)  BY <1>3, <2>1, Joined
  <2>10. DeployingLocally \o PopulateDescriptor \o u \in Seq(Steps)  BY <2>3, <2>9, Joined
  <2>11. RunLocal \in Seq(Steps)  BY <2>6, <2>7, <2>8, <2>10, Joined
  <2> QED  BY <1>4, <2>11 DEF Script
<1>5. CASE task = "descriptorV2"
  <2>1. PICK a : a = Each(Creates, DescriptorContracts)  OBVIOUS
  <2>2. DescriptorContracts \in Seq(Contracts)
    <3>1. DescriptorContracts \in Seq(CoreNames)  BY DEF DescriptorContracts, CoreNames
    <3> QED  BY <3>1, ContractNames, SeqMonotonic
  <2>3. a \in Seq(Steps)  BY <1>2, <2>1, <2>2
  <2>4. PICK u : u = <<HandsOver("AlpsDescriptorV2")>>  OBVIOUS
  <2>5. u \in Seq(Steps)
    <3>1. "AlpsDescriptorV2" \in Contracts  BY ContractNames DEF CoreNames
    <3>2. HandsOver("AlpsDescriptorV2") \in Steps  BY <3>1 DEF HandsOver, Steps
    <3> QED  BY <2>4, <3>2
  <2>6. a \o PopulateDescriptor \in Seq(Steps)  BY <1>3, <2>3, Joined
  <2>7. a \o PopulateDescriptor \o u \in Seq(Steps)  BY <2>5, <2>6, Joined
  <2>8. DeployDescriptorV2 = a \o PopulateDescriptor \o u  BY <2>1, <2>4 DEF DeployDescriptorV2
  <2> QED  BY <1>5, <2>7, <2>8 DEF Script
<1>6. CASE task = "populate"  BY <1>3, <1>6 DEF Script
<1> QED  BY <1>1, <1>4, <1>5, <1>6 DEF TaskNames

-----------------------------------------------------------------------------
(* The steps of a terminal.                                                *)

\* One more transaction.
LEMMA OneMore ==
    ASSUME ChainInv, NEW c \in Contracts \cup {"none"}, sent' = Append(sent, c)
    PROVE  /\ Nonce \in Nat /\ Nonce' = Nonce + 1
           /\ sent' \in Seq(Contracts \cup {"none"})
           /\ \A a : CodeAt(a)' = IF a = Nonce THEN c ELSE CodeAt(a)
           /\ Used' = IF c = "none" THEN Used ELSE Used \cup {Nonce}
           /\ Nonce \notin Used
<1>1. sent \in Seq(Contracts \cup {"none"})  BY DEF ChainInv
<1>2. Nonce \in Nat /\ Nonce' = Nonce + 1  BY <1>1 DEF Nonce
<1>3. sent' \in Seq(Contracts \cup {"none"})  BY <1>1
<1>4. ASSUME NEW a PROVE CodeAt(a)' = IF a = Nonce THEN c ELSE CodeAt(a)
  <2>1. CASE a \in 0..Nonce - 1
    <3>1. a + 1 \in 1..Len(sent) /\ a # Nonce /\ a \in 0..Nonce' - 1  BY <1>2, <2>1 DEF Nonce
    <3>2. sent'[a + 1] = sent[a + 1]  BY <1>1, <3>1
    <3> QED  BY <2>1, <3>1, <3>2 DEF CodeAt
  <2>2. CASE a = Nonce
    <3>1. a \in 0..Nonce' - 1 /\ a + 1 = Len(sent) + 1  BY <1>2, <2>2 DEF Nonce
    <3>2. sent'[a + 1] = c  BY <1>1, <3>1
    <3> QED  BY <2>2, <3>1, <3>2 DEF CodeAt
  <2>3. CASE a \notin 0..Nonce - 1 /\ a # Nonce
    <3>1. a \notin 0..Nonce' - 1  BY <1>2, <2>3
    <3> QED  BY <2>3, <3>1 DEF CodeAt
  <2> QED  BY <2>1, <2>2, <2>3
<1>5. Nonce \notin Used  BY <1>2 DEF Used
<1>6. Used' = IF c = "none" THEN Used ELSE Used \cup {Nonce}
  <2>1. \A a : a \in Used' <=> a \in 0..Nonce' - 1 /\ CodeAt(a)' # "none"  BY DEF Used
  <2>2. \A a : a \in Used <=> a \in 0..Nonce - 1 /\ CodeAt(a) # "none"  BY DEF Used
  <2>3. \A a : a \in 0..Nonce' - 1 <=> a \in 0..Nonce - 1 \/ a = Nonce  BY <1>2
  <2>4. PICK n : n = Nonce  OBVIOUS
  <2>5. CodeAt(n) = "none" /\ CodeAt(n)' = c
    <3>1. n \notin 0..Nonce - 1  BY <1>2, <2>4
    <3>2. CodeAt(n) = "none"  BY <3>1 DEF CodeAt
    <3> QED  BY <1>4, <2>4, <3>2
  <2>6. \A a : a \in Used' <=> a \in Used \/ (a = Nonce /\ c # "none")
    BY <1>4, <2>1, <2>2, <2>3, <2>5, <2>4
  <2> QED  BY <2>6
<1> QED  BY <1>2, <1>3, <1>4, <1>5, <1>6

\* Only the shell of terminal t changes.
Others(t) == DOMAIN shell' = Terminals /\ \A u \in Terminals \ {t} : shell'[u] = shell[u]

\* The task of terminal t goes on, with x deployed and p left to do.
GoesOnWith(t, x, p) ==
    /\ DOMAIN shell'[t] = DOMAIN Idle
    /\ shell'[t].task = shell[t].task /\ shell'[t].base = shell[t].base
    /\ shell'[t].d = x /\ shell'[t].script = p

\* A step that creates no contract and gives none away; a check that is passed found
\* what it expected.
Quiet(t) ==
    /\ Runs(t)
    /\ sent' = sent \/ sent' = Append(sent, "none")
    /\ UNCHANGED <<told, owner>> /\ Others(t)
    /\ \/ GoesOnWith(t, shell[t].d, shell[t].script)
       \/ /\ GoesOnWith(t, shell[t].d, Tail(shell[t].script))
          /\ Head(shell[t].script).do \notin {"create", "handOver"}
          /\ Head(shell[t].script).do = "check" =>
               At(t, On(t)) = Expected(shell[t].task, On(t), shell[t].base)

\* A step that gives a contract away.
Gives(t, new) ==
    /\ Step(t, "handOver")
    /\ sent' = Append(sent, "none")
    /\ UNCHANGED told /\ Others(t)
    /\ GoesOnWith(t, shell[t].d, Tail(shell[t].script))
    /\ owner' = [owner EXCEPT ![At(t, On(t))] = new]
    /\ IF shell[t].task = "descriptorV2" THEN new \in Executors ELSE new = At(t, "AlpsDAOExecutor")

Creating(t) ==
    /\ Step(t, "create")
    /\ sent' = Append(sent, On(t))
    /\ told' = Put(told, Nonce, Tells(shell[t].task, On(t), shell[t].d, shell[t].base))
    /\ owner' = Put(owner, Nonce, Deployer)
    /\ Others(t)
    /\ GoesOnWith(t, [shell[t].d EXCEPT ![On(t)] = Nonce], Tail(shell[t].script))

Beginning(t, task) ==
    /\ shell[t].task = "none" /\ UNCHANGED <<sent, told, owner>> /\ Others(t)
    /\ DOMAIN shell'[t] = DOMAIN Idle
    /\ shell'[t].task = task /\ shell'[t].base = Nonce
    /\ shell'[t].d = [c \in Contracts |-> Nowhere] /\ shell'[t].script = Script(task)

LEMMA Proceeds ==
    ASSUME ShellsInv, NEW t \in Terminals, NEW x, Proceed(t, x)
    PROVE  Others(t) /\ GoesOnWith(t, x, Tail(shell[t].script))
BY DEF ShellsInv, ShellInv, Proceed, Others, GoesOnWith, Idle

LEMMA Thrown ==
    ASSUME ShellsInv, NEW t \in Terminals, Throw(t)
    PROVE  Others(t) /\ GoesOnWith(t, shell[t].d, shell[t].script)
BY DEF ShellsInv, ShellInv, Throw, Others, GoesOnWith, Idle

\* What a step does to the contracts.
LEMMA StepCases ==
    ASSUME ShellsInv, Next
    PROVE  \E t \in Terminals : \/ Quiet(t) \/ Creating(t)
                                \/ \E new : Gives(t, new)
                                \/ \E task \in TaskNames : Beginning(t, task)
<1>1. PICK t \in Terminals : \/ \E task \in Tasks : Begin(t, task)
                             \/ Create(t) \/ Check(t) \/ Add(t) \/ HandOver(t) \/ Unpause(t)
                             \/ WriteSdk(t) \/ Dies(t)
  BY DEF Next
<1>2. ASSUME NEW task \in Tasks, Begin(t, task)
      PROVE  task \in TaskNames /\ Beginning(t, task)
  <2>1. task \in TaskNames  BY TasksAssumption DEF TaskNames, Deployments
  <2>2. DOMAIN shell = Terminals  BY DEF ShellsInv
  <2>3. shell' = [shell EXCEPT ![t] = [Idle EXCEPT !.task = task, !.script = Script(task),
            !.base = Nonce,
            !.target = IF task = "populate" THEN Latest("AlpsDescriptorV2") ELSE Legacy]]
    BY <1>2 DEF Begin
  <2>4. Others(t)  BY <2>2, <2>3 DEF Others
  <2>5. /\ DOMAIN shell'[t] = DOMAIN Idle
        /\ shell'[t].task = task /\ shell'[t].base = Nonce
        /\ shell'[t].d = [c \in Contracts |-> Nowhere] /\ shell'[t].script = Script(task)
    BY <2>2, <2>3 DEF Idle
  <2> QED  BY <1>2, <2>1, <2>4, <2>5 DEF Begin, Beginning, chain
<1>3. ASSUME Create(t) PROVE Creating(t)
  <2>1. Proceed(t, [shell[t].d EXCEPT ![On(t)] = Nonce])  BY <1>3 DEF Create
  <2>2. Others(t) /\ GoesOnWith(t, [shell[t].d EXCEPT ![On(t)] = Nonce], Tail(shell[t].script))
    BY <2>1, Proceeds
  <2> QED  BY <1>3, <2>2 DEF Create, Creating
<1>4. ASSUME NEW what, Step(t, what), UNCHANGED <<told, owner>>,
             sent' = sent \/ sent' = Append(sent, "none"),
             \/ Throw(t)
             \/ /\ Proceed(t, shell[t].d) /\ what \notin {"create", "handOver"}
                /\ what = "check" => At(t, On(t)) = Expected(shell[t].task, On(t), shell[t].base)
      PROVE  Quiet(t)
  <2>1. Runs(t) /\ Head(shell[t].script).do = what  BY <1>4 DEF Step
  <2>2. CASE Throw(t)  BY <1>4, <2>1, <2>2, Thrown DEF Quiet
  <2>3. CASE ~Throw(t)  BY <1>4, <2>1, <2>3, Proceeds DEF Quiet
  <2> QED  BY <2>2, <2>3
<1>5. ASSUME NEW ok, Calls(t, ok)
      PROVE  \/ ok /\ sent' = Append(sent, "none") /\ Proceed(t, shell[t].d)
             \/ ~ok /\ sent' = sent /\ Throw(t)
  BY <1>5 DEF Calls
<1>6. ASSUME Check(t) PROVE Quiet(t)
  <2>1. Step(t, "check") /\ UNCHANGED <<told, owner>> /\ sent' = sent  BY <1>6 DEF Check, chain
  <2>2. \/ Throw(t)
        \/ /\ Proceed(t, shell[t].d)
           /\ At(t, On(t)) = Expected(shell[t].task, On(t), shell[t].base)
    BY <1>6 DEF Check
  <2> QED  BY <1>4, <2>1, <2>2
<1>7. ASSUME Add(t) PROVE Quiet(t)
  <2>1. Step(t, "add") /\ UNCHANGED <<told, owner>> /\ \E ok : Calls(t, ok)  BY <1>7 DEF Add
  <2>2. \/ sent' = Append(sent, "none") /\ Proceed(t, shell[t].d)
        \/ sent' = sent /\ Throw(t)
    BY <1>5, <2>1
  <2> QED  BY <1>4, <2>1, <2>2
<1>8. ASSUME Unpause(t) PROVE Quiet(t)
  <2>1. Step(t, "unpause") /\ UNCHANGED <<told, owner>> /\ sent' = Append(sent, "none")
        /\ (Proceed(t, shell[t].d) \/ Throw(t))
    BY <1>8 DEF Unpause
  <2> QED  BY <1>4, <2>1
<1>9. ASSUME WriteSdk(t) PROVE Quiet(t)
  <2>1. Step(t, "writeSdk") /\ UNCHANGED <<told, owner>> /\ sent' = sent /\ Proceed(t, shell[t].d)
    BY <1>9 DEF WriteSdk, chain
  <2> QED  BY <1>4, <2>1
<1>10. ASSUME Dies(t) PROVE Quiet(t)
  <2>1. Runs(t) /\ UNCHANGED <<told, owner>> /\ sent' = sent /\ Throw(t)  BY <1>10 DEF Dies, chain
  <2> QED  BY <1>4, <2>1 DEF Step
<1>11. ASSUME HandOver(t) PROVE Quiet(t) \/ \E new : Gives(t, new)
  <2>1. Step(t, "handOver") /\ UNCHANGED told  BY <1>11 DEF HandOver
  <2>2. PICK ok : ok = (owner[At(t, On(t))] = Deployer)  OBVIOUS
  <2>3. Calls(t, ok)  BY <1>11, <2>2 DEF HandOver
  <2>4. PICK new : /\ IF shell[t].task = "descriptorV2" THEN new \in Executors
                      ELSE new = At(t, "AlpsDAOExecutor")
                   /\ owner' = IF ok THEN [owner EXCEPT ![At(t, On(t))] = new] ELSE owner
    BY <1>11, <2>2 DEF HandOver
  <2>5. CASE ok
    <3>1. sent' = Append(sent, "none") /\ Proceed(t, shell[t].d)  BY <1>5, <2>3, <2>5
    <3> QED  BY <2>1, <2>4, <2>5, <3>1, Proceeds DEF Gives
  <2>6. CASE ~ok
    <3>1. sent' = sent /\ Throw(t) /\ owner' = owner  BY <1>5, <2>3, <2>4, <2>6
    <3> QED  BY <1>4, <2>1, <3>1
  <2> QED  BY <2>5, <2>6
<1> QED  BY <1>1, <1>2, <1>3, <1>6, <1>7, <1>8, <1>9, <1>10, <1>11

\* The chain only grows: what a contract is and was told stays.
Kept ==
    /\ Nonce \in Nat /\ Nonce' \in Nat /\ Nonce <= Nonce'
    /\ Used \subseteq Used'
    /\ \A a \in Used : CodeAt(a)' = CodeAt(a) /\ told'[a] = told[a]

LEMMA NoNames == "none" \notin Contracts
BY ContractNames DEF CoreNames

LEMMA InUse ==
    ASSUME NEW t, ShellInv(t), Nonce \in Nat, NEW c \in Deployed(t)
    PROVE  c \in Contracts /\ At(t, c) \in Used /\ At(t, c) \in shell[t].base..Nonce - 1
           /\ CodeAt(At(t, c)) = c
<1>1. c \in Contracts /\ At(t, c) \in shell[t].base..Nonce - 1 /\ CodeAt(At(t, c)) = c
  BY DEF ShellInv, Deployed
<1>2. shell[t].base \in 0..Nonce  BY DEF ShellInv
<1>3. At(t, c) \in 0..Nonce - 1  BY <1>1, <1>2
<1> QED  BY <1>1, <1>3, NoNames DEF Used

LEMMA ChainQuiet ==
    ASSUME ChainInv, UNCHANGED told, DOMAIN owner' = DOMAIN owner,
           sent' = sent \/ sent' = Append(sent, "none")
    PROVE  ChainInv' /\ Kept
<1>1. CASE sent' = sent
  <2>1. Nonce' = Nonce /\ Nonce \in Nat  BY <1>1 DEF Nonce, ChainInv
  <2>2. \A a : CodeAt(a)' = CodeAt(a)  BY <1>1, <2>1 DEF CodeAt
  <2>3. Used' = Used
    <3>1. \A a : a \in Used' <=> a \in 0..Nonce' - 1 /\ CodeAt(a)' # "none"  BY DEF Used
    <3>2. \A a : a \in Used <=> a \in 0..Nonce - 1 /\ CodeAt(a) # "none"  BY DEF Used
    <3>3. \A a : a \in Used' <=> a \in Used  BY <2>1, <2>2, <3>1, <3>2
    <3> QED  BY <3>3
  <2> QED  BY <1>1, <2>1, <2>2, <2>3 DEF ChainInv, Kept
<1>2. CASE sent' = Append(sent, "none")
  <2>1. /\ Nonce \in Nat /\ Nonce' = Nonce + 1 /\ sent' \in Seq(Contracts \cup {"none"})
        /\ (\A a : CodeAt(a)' = IF a = Nonce THEN "none" ELSE CodeAt(a))
        /\ Used' = Used /\ Nonce \notin Used
    BY <1>2, OneMore
  <2>2. \A a \in Used : CodeAt(a)' = CodeAt(a)  BY <2>1
  <2>3. Nonce' \in Nat /\ Nonce <= Nonce'  BY <2>1
  <2> QED  BY <2>1, <2>2, <2>3 DEF ChainInv, Kept
<1> QED  BY <1>1, <1>2

\* The next step of a list is one of the steps.
LEMMA NextIsStep ==
    ASSUME NEW t, ShellInv(t), Runs(t)
    PROVE  /\ Head(shell[t].script) \in Steps /\ Tail(shell[t].script) \in Seq(Steps)
           /\ shell[t].task \in TaskNames
           /\ Head(shell[t].script).do \in {"create", "check", "handOver"} => On(t) \in Contracts
<1>1. shell[t].script \in Seq(Steps) /\ shell[t].script # <<>>  BY DEF ShellInv, Runs
<1>2. Head(shell[t].script) \in Steps /\ Tail(shell[t].script) \in Seq(Steps)  BY <1>1
<1>3. \A s \in Steps : s.do \in {"create", "check", "handOver"} => s.on \in Contracts  BY DEF Steps
<1> QED  BY <1>1, <1>2, <1>3 DEF ShellInv, On

LEMMA ChainCreating ==
    ASSUME ChainInv, NEW t, ShellInv(t), Creating(t)
    PROVE  /\ ChainInv' /\ Kept /\ On(t) \in Contracts
           /\ Nonce' = Nonce + 1 /\ Nonce \notin Used
           /\ \A n : n = Nonce => CodeAt(n)' = On(t)
           /\ told'[Nonce] = Tells(shell[t].task, On(t), shell[t].d, shell[t].base)
           /\ owner'[Nonce] = Deployer
           /\ \A a \in Used : owner'[a] = owner[a]
<1>1. On(t) \in Contracts /\ On(t) # "none"  BY NextIsStep, NoNames DEF Creating, Step
<1>2. sent' = Append(sent, On(t))  BY DEF Creating
<1>3. PICK c \in Contracts : c = On(t)  BY <1>1
<1>4. /\ Nonce \in Nat /\ Nonce' = Nonce + 1 /\ sent' \in Seq(Contracts \cup {"none"})
      /\ (\A a : CodeAt(a)' = IF a = Nonce THEN c ELSE CodeAt(a))
      /\ Used' = Used \cup {Nonce} /\ Nonce \notin Used
  <2>1. sent' = Append(sent, c) /\ c # "none"  BY <1>1, <1>2, <1>3
  <2> QED  BY <2>1, OneMore
<1>5. ASSUME NEW f, NEW g, NEW v, DOMAIN f = Used, g = Put(f, Nonce, v)
      PROVE  DOMAIN g = Used' /\ g[Nonce] = v /\ \A a \in Used : g[a] = f[a]
  BY <1>4, <1>5 DEF Put
<1>6. DOMAIN told = Used /\ DOMAIN owner = Used  BY DEF ChainInv
<1>7. /\ DOMAIN told' = Used' /\ \A a \in Used : told'[a] = told[a]
      /\ told'[Nonce] = Tells(shell[t].task, On(t), shell[t].d, shell[t].base)
  BY <1>5, <1>6 DEF Creating
<1>8. DOMAIN owner' = Used' /\ owner'[Nonce] = Deployer /\ \A a \in Used : owner'[a] = owner[a]
  BY <1>5, <1>6 DEF Creating
<1>9. ChainInv'  BY <1>4, <1>7, <1>8 DEF ChainInv
<1>10. \A a \in Used : CodeAt(a)' = CodeAt(a)  BY <1>4
<1>11. Nonce' \in Nat /\ Nonce <= Nonce' /\ Used \subseteq Used'  BY <1>4
<1>12. Kept  BY <1>4, <1>7, <1>10, <1>11 DEF Kept
<1> QED  BY <1>1, <1>3, <1>4, <1>7, <1>8, <1>9, <1>12

\* What a terminal knows stays true while another acts.
LEMMA ShellKept ==
    ASSUME Kept, NEW u, ShellInv(u), shell'[u] = shell[u]
    PROVE  ShellInv(u)' /\ Deployed(u)' = Deployed(u)
           /\ \A c \in Contracts : At(u, c)' = At(u, c)
<1>1. \A c \in Contracts : At(u, c)' = At(u, c)  BY DEF At
<1>2. Deployed(u)' = Deployed(u)  BY <1>1 DEF Deployed
<1>3. ASSUME NEW c \in Deployed(u)
      PROVE  At(u, c)' \in shell'[u].base..Nonce' - 1 /\ CodeAt(At(u, c))' = c
  <2>1. c \in Contracts /\ At(u, c) \in Used /\ At(u, c) \in shell[u].base..Nonce - 1
        /\ CodeAt(At(u, c)) = c
    BY <1>3, InUse DEF Kept
  <2>2. PICK a : a = At(u, c)  OBVIOUS
  <2>3. CodeAt(a)' = c  BY <2>1, <2>2 DEF Kept
  <2>4. At(u, c)' = a  BY <1>1, <2>1, <2>2
  <2>5. shell[u].base \in Nat  BY DEF ShellInv, Kept
  <2>6. a \in shell'[u].base..Nonce' - 1  BY <2>1, <2>2, <2>5 DEF Kept
  <2>7. CodeAt(At(u, c))' = c  BY <2>3, <2>4
  <2> QED  BY <2>4, <2>6, <2>7
<1>4. shell'[u].base \in 0..Nonce'  BY DEF ShellInv, Kept
<1>5. /\ DOMAIN shell'[u] = DOMAIN Idle /\ shell'[u].task \in TaskNames \cup {"none"}
      /\ shell'[u].script \in Seq(Steps) /\ shell'[u].d \in [Contracts -> Int]
      /\ shell'[u].task = "none" => shell'[u].script = <<>> /\ Deployed(u)' = {}
  BY <1>2 DEF ShellInv
<1> QED  BY <1>1, <1>2, <1>3, <1>4, <1>5 DEF ShellInv

\* The same of the terminal that acts, unless it creates a contract.
LEMMA ShellGoesOn ==
    ASSUME Kept, NEW t, ShellInv(t), Runs(t), NEW p, GoesOnWith(t, shell[t].d, p),
           p \in {shell[t].script, Tail(shell[t].script)}
    PROVE  ShellInv(t)' /\ Deployed(t)' = Deployed(t)
           /\ \A c \in Contracts : At(t, c)' = At(t, c)
<1>1. /\ DOMAIN shell'[t] = DOMAIN Idle
      /\ shell'[t].task = shell[t].task /\ shell'[t].base = shell[t].base
      /\ shell'[t].d = shell[t].d /\ shell'[t].script = p
  BY DEF GoesOnWith
<1>2. \A c \in Contracts : At(t, c)' = At(t, c)  BY <1>1 DEF At
<1>3. Deployed(t)' = Deployed(t)  BY <1>2 DEF Deployed
<1>4. ASSUME NEW c \in Deployed(t)
      PROVE  At(t, c)' \in shell'[t].base..Nonce' - 1 /\ CodeAt(At(t, c))' = c
  <2>1. c \in Contracts /\ At(t, c) \in Used /\ At(t, c) \in shell[t].base..Nonce - 1
        /\ CodeAt(At(t, c)) = c
    BY <1>4, InUse DEF Kept
  <2>2. PICK a : a = At(t, c)  OBVIOUS
  <2>3. CodeAt(a)' = c  BY <2>1, <2>2 DEF Kept
  <2>4. At(t, c)' = a  BY <1>2, <2>1, <2>2
  <2>5. shell[t].base \in Nat  BY DEF ShellInv, Kept
  <2>6. a \in shell'[t].base..Nonce' - 1  BY <1>1, <2>1, <2>2, <2>5 DEF Kept
  <2>7. CodeAt(At(t, c))' = c  BY <2>3, <2>4
  <2> QED  BY <2>4, <2>6, <2>7
<1>5. shell'[t].base \in 0..Nonce'  BY <1>1 DEF ShellInv, Kept
<1>6. shell[t].task \in TaskNames /\ p \in Seq(Steps)  BY NextIsStep DEF ShellInv
<1>7. "none" \notin TaskNames  BY DEF TaskNames, Deployments
<1>8. shell[t].d \in [Contracts -> Int]  BY DEF ShellInv
<1> QED  BY <1>1, <1>2, <1>3, <1>4, <1>5, <1>6, <1>7, <1>8 DEF ShellInv

\* The one that creates a contract knows one more.
LEMMA ShellCreating ==
    ASSUME ChainInv, NEW t, ShellInv(t), Creating(t)
    PROVE  /\ ShellInv(t)' /\ Deployed(t)' = Deployed(t) \cup {On(t)}
           /\ On(t) \in Contracts /\ Nonce \in Nat
           /\ \A c \in Contracts : At(t, c)' = IF c = On(t) THEN Nonce ELSE At(t, c)
<1>1. /\ Kept /\ On(t) \in Contracts /\ Nonce' = Nonce + 1
      /\ \A n : n = Nonce => CodeAt(n)' = On(t)
  BY ChainCreating
<1>2. Nonce \in Nat /\ Nonce # Nowhere  BY <1>1 DEF Kept, Nowhere
<1>3. shell[t].d \in [Contracts -> Int]  BY DEF ShellInv
<1>4. /\ DOMAIN shell'[t] = DOMAIN Idle
      /\ shell'[t].task = shell[t].task /\ shell'[t].base = shell[t].base
      /\ shell'[t].d = [shell[t].d EXCEPT ![On(t)] = Nonce]
      /\ shell'[t].script = Tail(shell[t].script)
  BY DEF Creating, GoesOnWith
<1>5. \A c \in Contracts : At(t, c)' = IF c = On(t) THEN Nonce ELSE At(t, c)
  BY <1>1, <1>3, <1>4 DEF At
<1>6. Deployed(t)' = Deployed(t) \cup {On(t)}
  <2>1. Deployed(t)' = {c \in Contracts : At(t, c)' # Nowhere}  BY DEF Deployed
  <2> QED  BY <1>1, <1>2, <1>5, <2>1 DEF Deployed
<1>7. shell[t].base \in 0..Nonce  BY DEF ShellInv
<1>8. ASSUME NEW c \in Deployed(t)'
      PROVE  At(t, c)' \in shell'[t].base..Nonce' - 1 /\ CodeAt(At(t, c))' = c
  <2>1. CASE c = On(t)
    <3>1. PICK n : n = Nonce  OBVIOUS
    <3>2. At(t, c)' = n /\ CodeAt(n)' = c  BY <1>1, <1>5, <2>1, <3>1
    <3>3. CodeAt(At(t, c))' = c  BY <3>2
    <3>4. n \in shell'[t].base..Nonce' - 1  BY <1>1, <1>2, <1>4, <1>7, <3>1
    <3> QED  BY <3>2, <3>3, <3>4
  <2>2. CASE c # On(t)
    <3>1. c \in Deployed(t)  BY <1>6, <1>8, <2>2
    <3>2. c \in Contracts /\ At(t, c) \in Used /\ At(t, c) \in shell[t].base..Nonce - 1
          /\ CodeAt(At(t, c)) = c
      BY <1>2, <3>1, InUse
    <3>3. PICK a : a = At(t, c)  OBVIOUS
    <3>4. CodeAt(a)' = c  BY <1>1, <3>2, <3>3 DEF Kept
    <3>5. At(t, c)' = a  BY <1>5, <2>2, <3>2, <3>3
    <3>6. a \in shell'[t].base..Nonce' - 1  BY <1>1, <1>2, <1>4, <1>7, <3>2, <3>3
    <3>7. CodeAt(At(t, c))' = c  BY <3>4, <3>5
    <3> QED  BY <3>5, <3>6, <3>7
  <2> QED  BY <2>1, <2>2
<1>9. shell'[t].base \in 0..Nonce'  BY <1>1, <1>2, <1>4, <1>7
<1>10. shell[t].task \in TaskNames /\ Tail(shell[t].script) \in Seq(Steps)
  BY NextIsStep DEF Creating, Step
<1>11. "none" \notin TaskNames  BY DEF TaskNames, Deployments
<1>12. [shell[t].d EXCEPT ![On(t)] = Nonce] \in [Contracts -> Int]  BY <1>1, <1>2, <1>3
<1>13. ShellInv(t)'  BY <1>4, <1>8, <1>9, <1>10, <1>11, <1>12 DEF ShellInv
<1> QED  BY <1>1, <1>2, <1>5, <1>6, <1>13

\* Terminal u knows the contracts it knew.
Same(u) == Deployed(u)' = Deployed(u) /\ \A c \in Contracts : At(u, c)' = At(u, c)

\* A step that creates nothing.
LEMMA TypedUnlessCreating ==
    ASSUME ChainInv, ShellsInv, Apart, NEW t \in Terminals, Quiet(t) \/ \E new : Gives(t, new)
    PROVE  ChainInv' /\ ShellsInv' /\ Apart' /\ Kept /\ \A u \in Terminals : Same(u)
<1>1. /\ UNCHANGED told /\ Others(t) /\ Runs(t)
      /\ sent' = sent \/ sent' = Append(sent, "none")
      /\ \E p \in {shell[t].script, Tail(shell[t].script)} : GoesOnWith(t, shell[t].d, p)
  BY DEF Quiet, Gives, Step
<1>2. DOMAIN owner' = DOMAIN owner  BY DEF Quiet, Gives
<1>3. ChainInv' /\ Kept  BY <1>1, <1>2, ChainQuiet
<1>4. \A u \in Terminals : ShellInv(u)  BY DEF ShellsInv
<1>5. ASSUME NEW u \in Terminals PROVE ShellInv(u)' /\ Same(u)
  <2>1. CASE u = t  BY <1>1, <1>3, <1>4, <2>1, ShellGoesOn DEF Same
  <2>2. CASE u # t
    <3>1. shell'[u] = shell[u]  BY <1>1, <2>2 DEF Others
    <3> QED  BY <1>3, <1>4, <3>1, ShellKept DEF Same
  <2> QED  BY <2>1, <2>2
<1>6. ShellsInv'  BY <1>1, <1>5 DEF ShellsInv, Others
<1>7. \A u \in Terminals : Deployed(u)' = Deployed(u) /\ Deployed(u) \subseteq Contracts
  BY <1>5 DEF Same, Deployed
<1>8. Apart'  BY <1>5, <1>7 DEF Apart, Same
<1> QED  BY <1>3, <1>5, <1>6, <1>8

LEMMA TypedCreating ==
    ASSUME ChainInv, ShellsInv, Apart, NEW t \in Terminals, Creating(t)
    PROVE  ChainInv' /\ ShellsInv' /\ Apart' /\ Kept /\ \A u \in Terminals \ {t} : Same(u)
<1>1. ChainInv' /\ Kept /\ Nonce \notin Used  BY ChainCreating DEF ShellsInv
<1>2. Others(t)  BY DEF Creating
<1>3. \A u \in Terminals : ShellInv(u)  BY DEF ShellsInv
<1>4. /\ ShellInv(t)' /\ Deployed(t)' = Deployed(t) \cup {On(t)} /\ On(t) \in Contracts
      /\ Nonce \in Nat
      /\ \A c \in Contracts : At(t, c)' = IF c = On(t) THEN Nonce ELSE At(t, c)
  BY <1>3, ShellCreating
<1>5. ASSUME NEW u \in Terminals \ {t} PROVE ShellInv(u)' /\ Same(u)
  BY <1>1, <1>2, <1>3, ShellKept DEF Others, Same
<1>6. ShellsInv'  BY <1>2, <1>4, <1>5 DEF ShellsInv, Others
<1>7. \A u \in Terminals : Deployed(u) \subseteq Contracts /\ \A c \in Deployed(u) : At(u, c) \in Used
  BY <1>3, <1>4, InUse
<1>8. ASSUME NEW u \in Terminals \ {t}, NEW c \in Deployed(t)', NEW e \in Deployed(u)'
      PROVE  At(t, c)' # At(u, e)'
  <2>1. e \in Deployed(u) /\ At(u, e)' = At(u, e) /\ At(u, e) \in Used  BY <1>5, <1>7 DEF Same
  <2>2. CASE c = On(t)
    <3>1. At(t, c)' = Nonce  BY <1>4, <2>2
    <3> QED  BY <1>1, <2>1, <3>1
  <2>3. CASE c # On(t)
    <3>1. c \in Deployed(t) /\ c \in Contracts  BY <1>4, <1>7, <2>3
    <3>2. At(t, c)' = At(t, c)  BY <1>4, <2>3, <3>1
    <3> QED  BY <2>1, <3>1, <3>2 DEF Apart
  <2> QED  BY <2>2, <2>3
<1>9. Apart'
  <2>1. ASSUME NEW v \in Terminals, NEW u \in Terminals, v # u,
               NEW c \in Deployed(v)', NEW e \in Deployed(u)'
        PROVE  At(v, c)' # At(u, e)'
    <3>1. CASE v = t  BY <1>8, <2>1, <3>1
    <3>2. CASE u = t  BY <1>8, <2>1, <3>2
    <3>3. CASE v # t /\ u # t
      <4>1. c \in Deployed(v) /\ e \in Deployed(u)  BY <1>5, <3>3 DEF Same
      <4>2. At(v, c)' = At(v, c) /\ At(u, e)' = At(u, e)  BY <1>5, <1>7, <3>3, <4>1 DEF Same
      <4> QED  BY <2>1, <4>1, <4>2 DEF Apart
    <3> QED  BY <3>1, <3>2, <3>3
  <2> QED  BY <2>1 DEF Apart
<1> QED  BY <1>1, <1>5, <1>6, <1>9

LEMMA TypedBeginning ==
    ASSUME ChainInv, ShellsInv, Apart, NEW t \in Terminals, NEW task \in TaskNames,
           Beginning(t, task)
    PROVE  /\ ChainInv' /\ ShellsInv' /\ Apart' /\ Kept /\ Deployed(t)' = {}
           /\ \A u \in Terminals \ {t} : Same(u)
<1>1. sent' = sent /\ UNCHANGED told /\ owner' = owner /\ Others(t)  BY DEF Beginning
<1>2. ChainInv' /\ Kept  BY <1>1, ChainQuiet
<1>3. \A u \in Terminals : ShellInv(u)  BY DEF ShellsInv
<1>4. ASSUME NEW u \in Terminals \ {t} PROVE ShellInv(u)' /\ Same(u)
  BY <1>1, <1>2, <1>3, ShellKept DEF Others, Same
<1>5. /\ DOMAIN shell'[t] = DOMAIN Idle
      /\ shell'[t].task = task /\ shell'[t].base = Nonce
      /\ shell'[t].d = [c \in Contracts |-> Nowhere] /\ shell'[t].script = Script(task)
  BY DEF Beginning
<1>6. Deployed(t)' = {}
  <2>1. \A c \in Contracts : At(t, c)' = Nowhere  BY <1>5 DEF At
  <2>2. Deployed(t)' = {c \in Contracts : At(t, c)' # Nowhere}  BY DEF Deployed
  <2> QED  BY <2>1, <2>2
<1>7. ShellInv(t)'
  <2>1. Nonce \in 0..Nonce'  BY <1>2 DEF Kept
  <2>2. [c \in Contracts |-> Nowhere] \in [Contracts -> Int]  BY DEF Nowhere
  <2>3. Script(task) \in Seq(Steps) /\ task # "none"
    <3>1. "none" \notin TaskNames  BY DEF TaskNames, Deployments
    <3> QED  BY <3>1, ScriptTyped
  <2> QED  BY <1>5, <1>6, <2>1, <2>2, <2>3 DEF ShellInv
<1>8. ShellsInv'  BY <1>1, <1>4, <1>7 DEF ShellsInv, Others
<1>9. Apart'
  <2>1. \A u \in Terminals : Deployed(u) \subseteq Contracts  BY DEF Deployed
  <2>2. ASSUME NEW v \in Terminals, NEW u \in Terminals, v # u,
               NEW c \in Deployed(v)', NEW e \in Deployed(u)'
        PROVE  At(v, c)' # At(u, e)'
    <3>1. v # t /\ u # t  BY <1>6, <2>2
    <3>2. c \in Deployed(v) /\ e \in Deployed(u)  BY <1>4, <3>1 DEF Same
    <3>3. At(v, c)' = At(v, c) /\ At(u, e)' = At(u, e)  BY <1>4, <2>1, <3>1, <3>2 DEF Same
    <3> QED  BY <2>2, <3>2, <3>3 DEF Apart
  <2> QED  BY <2>2 DEF Apart
<1> QED  BY <1>2, <1>4, <1>6, <1>8, <1>9

-----------------------------------------------------------------------------
(* How a deployment goes on.                                               *)

LEMMA BuiltSteps ==
    ASSUME NEW k \in Nat
    PROVE  /\ Built(k) \in 0..14 /\ Built(k) \in Nat
           /\ k + 1 \in 1..11 => Built(k) = k /\ Built(k + 1) = k + 1
           /\ k + 1 \in 13..15 => Built(k) = k - 1 /\ Built(k + 1) = k
           /\ k + 1 = 12 \/ k + 1 >= 16 => Built(k + 1) = Built(k)
           /\ k >= 12 => Built(k) >= 11
           /\ k >= 15 => Built(k) = 14
           /\ Built(0) = 0
BY DEF Built

\* The next step of a deployment.
LEMMA NextOfDeployment ==
    ASSUME NEW p, Deploys(p), NEW k \in Nat, k + 1 \in 1..Len(p)
    PROVE  /\ p[k + 1].do = "create" => /\ Built(k + 1) = Built(k) + 1 /\ Built(k) + 1 \in 1..14
                                        /\ p[k + 1].on = CoreContracts[Built(k) + 1]
                                        /\ k + 1 # 12 /\ k + 1 < 16
           /\ p[k + 1].do # "create" => Built(k + 1) = Built(k)
           /\ k + 1 = 12 => p[k + 1] = Checks("AlpsAuctionHouseProxy")
           /\ k + 1 = 16 => p[k + 1] = Checks("AlpsDAOProxy")
           /\ p[k + 1].do = "handOver" => k >= 16 /\ p[k + 1].on \in Given
<1>1. PICK m \in Nat : m = k + 1  OBVIOUS
<1>2. PICK s : s = p[m]  OBVIOUS
<1>3. m \in 1..Len(p) /\ k = m - 1  BY <1>1
<1>4. \A i \in 1..16 : p[i] = Deploying[i]  BY DEF Deploys
<1>5. /\ s.do = "create" => /\ Built(m) = Built(k) + 1 /\ Built(k) + 1 \in 1..14
                            /\ s.on = CoreContracts[Built(k) + 1]
                            /\ m # 12 /\ m < 16
      /\ s.do # "create" => Built(m) = Built(k)
      /\ m = 12 => s = Checks("AlpsAuctionHouseProxy")
      /\ m = 16 => s = Checks("AlpsDAOProxy")
      /\ s.do = "handOver" => k >= 16 /\ s.on \in Given
  <2>1. CASE m \in 1..11
    <3>1. s = Deploying[m]
      <4>1. m \in 1..16  BY <2>1
      <4> QED  BY <1>2, <1>4, <4>1
    <3>2. s = Creates(CoreContracts[m])  BY <2>1, <3>1, DeployingSteps
    <3>3. s.do = "create" /\ s.on = CoreContracts[m]  BY <3>2 DEF Creates
    <3>4. Built(k) = k /\ Built(m) = m  BY <1>3, <2>1 DEF Built
    <3>5. Built(k) + 1 = m /\ m # 12 /\ m # 16 /\ m < 16  BY <1>1, <2>1, <3>4
    <3> QED  BY <2>1, <3>3, <3>4, <3>5
  <2>2. CASE m = 12
    <3>1. s = Checks("AlpsAuctionHouseProxy")
      <4>1. m \in 1..16  BY <2>2
      <4>2. s = Deploying[m]  BY <1>2, <1>4, <4>1
      <4> QED  BY <2>2, <4>2, DeployingSteps
    <3>2. s.do = "check"  BY <3>1 DEF Checks
    <3>3. Built(m) = Built(k)  BY <1>1, <2>2, BuiltSteps
    <3> QED  BY <2>2, <3>1, <3>2, <3>3
  <2>3. CASE m \in 13..15
    <3>1. s = Deploying[m]
      <4>1. m \in 1..16  BY <2>3
      <4> QED  BY <1>2, <1>4, <4>1
    <3>2. s = Creates(CoreContracts[k])  BY <1>3, <2>3, <3>1, DeployingSteps
    <3>3. s.do = "create" /\ s.on = CoreContracts[k]  BY <3>2 DEF Creates
    <3>4. Built(k) = k - 1 /\ Built(m) = k  BY <1>1, <2>3, BuiltSteps
    <3>5. Built(k) + 1 = k /\ k \in 1..14 /\ m # 12 /\ m # 16 /\ m < 16  BY <1>1, <2>3, <3>4
    <3> QED  BY <3>3, <3>4, <3>5
  <2>4. CASE m = 16
    <3>1. s = Checks("AlpsDAOProxy")
      <4>1. m \in 1..16  BY <2>4
      <4>2. s = Deploying[m]  BY <1>2, <1>4, <4>1
      <4> QED  BY <2>4, <4>2, DeployingSteps
    <3>2. s.do = "check"  BY <3>1 DEF Checks
    <3>3. Built(m) = Built(k)  BY <1>1, <2>4, BuiltSteps
    <3> QED  BY <2>4, <3>1, <3>2, <3>3
  <2>5. CASE m >= 17
    <3>1. s \in LaterSteps
      <4>1. m \in 17..Len(p)  BY <1>3, <2>5
      <4> QED  BY <1>2, <4>1 DEF Deploys
    <3>2. s.do # "create" /\ (s.do = "handOver" => s.on \in Given)  BY <3>1 DEF LaterSteps
    <3>3. Built(m) = Built(k) /\ k >= 16 /\ m # 12 /\ m # 16  BY <1>1, <2>5, BuiltSteps
    <3> QED  BY <3>2, <3>3
  <2> QED  BY <1>3, <2>1, <2>2, <2>3, <2>4, <2>5
<1> QED  BY <1>1, <1>2, <1>5

\* A list of steps that is the rest of a script, and the rest after the next one.
LEMMA Rest ==
    ASSUME NEW p \in Seq(Steps), NEW q \in Seq(Steps), NEW k \in Nat, Len(p) - Len(q) = k,
           \A i \in DOMAIN q : q[i] = p[k + i], q # <<>>
    PROVE  /\ k + 1 \in 1..Len(p) /\ Head(q) = p[k + 1]
           /\ Len(p) - Len(Tail(q)) = k + 1
           /\ \A i \in DOMAIN Tail(q) : Tail(q)[i] = p[k + 1 + i]
<1>1. PICK n : n = Len(q)  OBVIOUS
<1>2. n \in Nat /\ DOMAIN q = 1..n /\ Len(p) \in Nat  BY <1>1
<1>3. n # 0  BY <1>1
<1>4. Len(p) = k + n  BY <1>1, <1>2
<1>5. Head(q) = q[1] /\ 1 \in DOMAIN q  BY <1>2, <1>3
<1>6. Len(Tail(q)) = n - 1 /\ DOMAIN Tail(q) = 1..n - 1
      /\ \A i \in 1..n - 1 : Tail(q)[i] = q[i + 1]
  BY <1>1
<1>7. ASSUME NEW i \in 1..n - 1 PROVE Tail(q)[i] = p[k + 1 + i]
  <2>1. i + 1 \in 1..n /\ k + (i + 1) = k + 1 + i  BY <1>2
  <2> QED  BY <1>2, <1>6, <2>1
<1> QED  BY <1>2, <1>3, <1>4, <1>5, <1>6, <1>7

\* The contracts whose address a contract is told.
Reads(c) ==
    CASE c = "AlpsDescriptorV2" -> {"SVGRenderer", "AlpsAttribute", "NFTDescriptorV2"}
      [] c = "AlpsArt" -> {"AlpsDescriptorV2", "Inflator", "AlpsAttribute"}
      [] c = "AlpsToken" -> {"AlpsDescriptorV2", "AlpsSeeder"}
      [] c = "AlpsAuctionHouseProxy" ->
            {"AlpsAuctionHouse", "AlpsAuctionHouseProxyAdmin", "AlpsToken"}
      [] c = "AlpsDAOProxy" -> {"AlpsDAOExecutor", "AlpsToken", "AlpsDAOLogic"}
      [] OTHER -> {}

LEMMA ToldByReads ==
    ASSUME NEW c, NEW d, NEW e, NEW base, NEW offsets, NEW founders, \A r \in Reads(c) : d[r] = e[r]
    PROVE  ToldBy(c, d, base, offsets, founders) = ToldBy(c, e, base, offsets, founders)
<1>1. CASE c = "AlpsDescriptorV2"  BY <1>1 DEF Reads, ToldBy
<1>2. CASE c = "AlpsArt"  BY <1>2 DEF Reads, ToldBy
<1>3. CASE c = "AlpsToken"  BY <1>3 DEF Reads, ToldBy
<1>4. CASE c = "AlpsAuctionHouseProxy"  BY <1>4 DEF Reads, ToldBy
<1>5. CASE c = "AlpsDAOProxy"  BY <1>5 DEF Reads, ToldBy
<1>6. CASE c = "AlpsDAOExecutor"  BY <1>6 DEF ToldBy
<1>7. CASE c \notin {"AlpsDescriptorV2", "AlpsArt", "AlpsToken", "AlpsAuctionHouseProxy",
                     "AlpsDAOProxy", "AlpsDAOExecutor"}
  BY <1>7 DEF ToldBy
<1> QED  BY <1>1, <1>2, <1>3, <1>4, <1>5, <1>6, <1>7

LEMMA TellsReads ==
    ASSUME NEW task \in Deployments, NEW c, NEW d, NEW e, NEW base, \A r \in Reads(c) : d[r] = e[r]
    PROVE  Tells(task, c, d, base) = Tells(task, c, e, base)
<1>1. \A offsets, founders :
        ToldBy(c, d, base, offsets, founders) = ToldBy(c, e, base, offsets, founders)
  BY ToldByReads
<1>2. \A founders : DeployContracts(c, d, base, founders) = DeployContracts(c, e, base, founders)
  BY <1>1 DEF DeployContracts
<1>3. \A founders : DeployShortTimesV1Contracts(c, d, base, founders) =
                    DeployShortTimesV1Contracts(c, e, base, founders)
  BY <1>1 DEF DeployShortTimesV1Contracts
<1>4. \A founders : DeployShortTimesContracts(c, d, base, founders) =
                    DeployShortTimesContracts(c, e, base, founders)
  <2>1. CASE c = "AlpsArt"
    <3>1. d["AlpsDescriptorV2"] = e["AlpsDescriptorV2"] /\ d["AlpsAttribute"] = e["AlpsAttribute"]
      BY <2>1 DEF Reads
    <3> QED  BY <2>1, <3>1 DEF DeployShortTimesContracts
  <2>2. CASE c # "AlpsArt"  BY <1>1, <2>2 DEF DeployShortTimesContracts
  <2> QED  BY <2>1, <2>2
<1>5. task \notin {"runLocal", "descriptorV2"}  BY DEF Deployments
<1> QED  BY <1>2, <1>3, <1>4, <1>5 DEF Tells

\* A contract is told of contracts deployed before it.
LEMMA ReadsEarlier ==
    ASSUME NEW i \in 1..14, NEW m \in 1..14, i <= m
    PROVE  CoreContracts[m] \notin Reads(CoreContracts[i])
<1>1. i = 1 \/ i = 2 \/ i = 3 \/ i = 4 \/ i = 5 \/ i = 6 \/ i = 7 \/ i = 8 \/ i = 9 \/ i = 10
      \/ i = 11 \/ i = 12 \/ i = 13 \/ i = 14
  OBVIOUS
<1>2. CASE i \in {1, 2, 3, 5, 7, 9, 10, 12, 13}  BY <1>2, CoreList DEF Reads
<1>3. CASE i = 4  BY <1>3, CoreList DEF Reads
<1>4. CASE i = 6  BY <1>4, CoreList DEF Reads
<1>5. CASE i = 8  BY <1>5, CoreList DEF Reads
<1>6. CASE i = 11  BY <1>6, CoreList DEF Reads
<1>7. CASE i = 14  BY <1>7, CoreList DEF Reads
<1> QED  BY <1>1, <1>2, <1>3, <1>4, <1>5, <1>6, <1>7

\* What is left of a deployment is the rest of its script.
LEMMA NextInScript ==
    ASSUME NEW t, ShellInv(t), shell[t].task \in Deployments, ProgressInv(t), Runs(t)
    PROVE  LET p == Script(shell[t].task)
               q == shell[t].script
               k == Done(t)
           IN  /\ k \in Nat /\ k + 1 \in 1..Len(p) /\ Deploys(p) /\ Head(q) = p[k + 1]
               /\ Len(p) - Len(Tail(q)) = k + 1
               /\ \A i \in DOMAIN Tail(q) : Tail(q)[i] = p[k + 1 + i]
               /\ Head(q).do = "create" => /\ Built(k + 1) = Built(k) + 1 /\ Built(k) + 1 \in 1..14
                                           /\ On(t) = CoreContracts[Built(k) + 1]
                                           /\ k + 1 # 12 /\ k + 1 < 16
               /\ Head(q).do # "create" => Built(k + 1) = Built(k)
               /\ k + 1 = 12 => Head(q) = Checks("AlpsAuctionHouseProxy")
               /\ k + 1 = 16 => Head(q) = Checks("AlpsDAOProxy")
               /\ Head(q).do = "handOver" => k >= 16 /\ On(t) \in Given
<1>1. PICK p : p = Script(shell[t].task)  OBVIOUS
<1>2. PICK q : q = shell[t].script  OBVIOUS
<1>3. PICK k : k = Done(t)  OBVIOUS
<1>4. Deploys(p) /\ p \in Seq(Steps)  BY <1>1, DeploymentScripts DEF Deploys
<1>5. k \in Nat /\ k = Len(p) - Len(q) /\ \A i \in DOMAIN q : q[i] = p[k + i]
  BY <1>1, <1>2, <1>3 DEF ProgressInv, Done
<1>6. q \in Seq(Steps) /\ q # <<>>  BY <1>2 DEF ShellInv, Runs
<1>7. /\ k + 1 \in 1..Len(p) /\ Head(q) = p[k + 1]
      /\ Len(p) - Len(Tail(q)) = k + 1
      /\ \A i \in DOMAIN Tail(q) : Tail(q)[i] = p[k + 1 + i]
  BY <1>4, <1>5, <1>6, Rest
<1>8. /\ p[k + 1].do = "create" => /\ Built(k + 1) = Built(k) + 1 /\ Built(k) + 1 \in 1..14
                                   /\ p[k + 1].on = CoreContracts[Built(k) + 1]
                                   /\ k + 1 # 12 /\ k + 1 < 16
      /\ p[k + 1].do # "create" => Built(k + 1) = Built(k)
      /\ k + 1 = 12 => p[k + 1] = Checks("AlpsAuctionHouseProxy")
      /\ k + 1 = 16 => p[k + 1] = Checks("AlpsDAOProxy")
      /\ p[k + 1].do = "handOver" => k >= 16 /\ p[k + 1].on \in Given
  BY <1>4, <1>5, <1>7, NextOfDeployment
<1>9. On(t) = Head(q).on  BY <1>2 DEF On
<1> QED  BY <1>1, <1>2, <1>3, <1>4, <1>5, <1>7, <1>8, <1>9

\* What was told stays told.
LEMMA ToldKept ==
    ASSUME Kept, NEW u, ShellInv(u), Same(u), ToldInv(u), shell'[u].task = shell[u].task,
           shell'[u].base = shell[u].base, shell'[u].d = shell[u].d
    PROVE  ToldInv(u)'
<1>1. ASSUME NEW c \in Deployed(u)'
      PROVE  told'[At(u, c)'] = Tells(shell[u].task, c, shell[u].d, shell[u].base)
  <2>1. c \in Deployed(u)  BY <1>1 DEF Same
  <2>2. c \in Contracts /\ At(u, c) \in Used  BY <2>1, InUse DEF Kept
  <2>3. PICK a : a = At(u, c)  OBVIOUS
  <2>4. At(u, c)' = a  BY <2>2, <2>3 DEF Same
  <2>5. told'[a] = told[a]  BY <2>2, <2>3 DEF Kept
  <2> QED  BY <2>1, <2>3, <2>4, <2>5 DEF ToldInv
<1> QED  BY <1>1 DEF ToldInv

\* A deployment that does not go on.
LEMMA DeploymentKept ==
    ASSUME Kept, NEW u, ShellInv(u), Same(u), shell'[u].task = shell[u].task,
           shell'[u].base = shell[u].base, shell'[u].d = shell[u].d,
           shell'[u].script = shell[u].script,
           ProgressInv(u) /\ ToldInv(u) /\ CheckedInv(u)
    PROVE  ProgressInv(u)' /\ ToldInv(u)' /\ CheckedInv(u)'
<1>1. ToldInv(u)'  BY ToldKept
<1>2. Done(u)' = Done(u)  BY DEF Done
<1>3. \A c : At(u, c)' = At(u, c)  BY DEF At
<1>4. Deployed(u)' = Deployed(u)  BY DEF Same
<1>5. ProgressInv(u)'
  <2>1. \A k : Built(k)' = Built(k)  BY DEF Built
  <2> QED  BY <1>2, <1>3, <1>4, <2>1 DEF ProgressInv
<1>6. CheckedInv(u)'  BY <1>2, <1>3 DEF CheckedInv
<1> QED  BY <1>1, <1>5, <1>6

\* A deployment that goes on without creating a contract.
LEMMA DeploymentGoesOn ==
    ASSUME Kept, NEW t, ShellInv(t), Same(t), shell[t].task \in Deployments, Runs(t),
           GoesOnWith(t, shell[t].d, Tail(shell[t].script)),
           ProgressInv(t) /\ ToldInv(t) /\ CheckedInv(t),
           Head(shell[t].script).do # "create",
           Head(shell[t].script).do = "check" =>
               At(t, On(t)) = Expected(shell[t].task, On(t), shell[t].base)
    PROVE  ProgressInv(t)' /\ ToldInv(t)' /\ CheckedInv(t)' /\ Done(t)' = Done(t) + 1
<1>1. /\ shell'[t].task = shell[t].task /\ shell'[t].base = shell[t].base
      /\ shell'[t].d = shell[t].d /\ shell'[t].script = Tail(shell[t].script)
  BY DEF GoesOnWith
<1>2. ToldInv(t)'  BY <1>1, ToldKept
<1>3. PICK p : p = Script(shell[t].task)  OBVIOUS
<1>4. PICK q : q = shell[t].script  OBVIOUS
<1>5. PICK k : k = Done(t)  OBVIOUS
<1>6. /\ k \in Nat /\ Head(q) = p[k + 1]
      /\ Len(p) - Len(Tail(q)) = k + 1
      /\ \A i \in DOMAIN Tail(q) : Tail(q)[i] = p[k + 1 + i]
      /\ Built(k + 1) = Built(k)
      /\ k + 1 = 12 => Head(q) = Checks("AlpsAuctionHouseProxy")
      /\ k + 1 = 16 => Head(q) = Checks("AlpsDAOProxy")
  BY <1>3, <1>4, <1>5, NextInScript
<1>7. PICK m \in Nat : m = k + 1  BY <1>6
<1>8. Done(t)' = m  BY <1>1, <1>3, <1>4, <1>6, <1>7 DEF Done
<1>9. \A c : At(t, c)' = At(t, c)  BY <1>1 DEF At
<1>10. Deployed(t)' = Deployed(t)  BY DEF Same
<1>11. Built(m) = Built(k)  BY <1>6, <1>7
<1>12. ProgressInv(t)'
  <2>1. \A i : Built(i)' = Built(i)  BY DEF Built
  <2>2. \A i \in DOMAIN shell'[t].script : shell'[t].script[i] = Script(shell'[t].task)[m + i]
    BY <1>1, <1>3, <1>4, <1>6, <1>7
  <2>3. /\ Deployed(t) = {CoreContracts[i] : i \in 1..Built(m)}
        /\ \A i, j \in 1..Built(m) :
             i <= j => At(t, CoreContracts[j]) - At(t, CoreContracts[i]) >= j - i
    BY <1>5, <1>11 DEF ProgressInv
  <2> QED  BY <1>7, <1>8, <1>9, <1>10, <2>1, <2>2, <2>3 DEF ProgressInv
<1>13. CheckedInv(t)'
  <2>1. ASSUME NEW c \in {"AlpsAuctionHouseProxy", "AlpsDAOProxy"},
               m >= (IF c = "AlpsDAOProxy" THEN 16 ELSE 12)
        PROVE  At(t, c) = Expected(shell[t].task, c, shell[t].base)
    <3>1. CASE k >= (IF c = "AlpsDAOProxy" THEN 16 ELSE 12)  BY <1>5, <3>1 DEF CheckedInv
    <3>2. CASE m = (IF c = "AlpsDAOProxy" THEN 16 ELSE 12)
      <4>1. Head(q) = Checks(c)  BY <1>6, <1>7, <2>1, <3>2
      <4>2. Head(q).do = "check" /\ On(t) = c  BY <1>4, <4>1 DEF Checks, On
      <4> QED  BY <1>4, <4>2
    <3> QED  BY <1>6, <1>7, <2>1, <3>1, <3>2
  <2> QED  BY <1>1, <1>8, <1>9, <2>1 DEF CheckedInv
<1> QED  BY <1>2, <1>5, <1>7, <1>8, <1>12, <1>13

LEMMA CoreApart ==
    /\ \A i, j \in 1..14 : CoreContracts[i] = CoreContracts[j] => i = j
    /\ \A i \in 1..14 : CoreContracts[i] \in Contracts
<1>1. \A i \in 1..14 : i = 1 \/ i = 2 \/ i = 3 \/ i = 4 \/ i = 5 \/ i = 6 \/ i = 7 \/ i = 8 \/ i = 9
      \/ i = 10 \/ i = 11 \/ i = 12 \/ i = 13 \/ i = 14
  OBVIOUS
<1>2. PICK p : p = CoreContracts  OBVIOUS
<1>3. /\ p[1] = "NFTDescriptorV2" /\ p[2] = "SVGRenderer" /\ p[3] = "AlpsAttribute"
      /\ p[4] = "AlpsDescriptorV2" /\ p[5] = "Inflator" /\ p[6] = "AlpsArt"
      /\ p[7] = "AlpsSeeder" /\ p[8] = "AlpsToken" /\ p[9] = "AlpsAuctionHouse"
      /\ p[10] = "AlpsAuctionHouseProxyAdmin" /\ p[11] = "AlpsAuctionHouseProxy"
      /\ p[12] = "AlpsDAOExecutor" /\ p[13] = "AlpsDAOLogic" /\ p[14] = "AlpsDAOProxy"
  BY <1>2, CoreList
<1>4. \A i, j \in 1..14 : p[i] = p[j] => i = j  BY <1>1, <1>3
<1>5. \A i \in 1..14 : p[i] \in Contracts  BY <1>1, <1>3, ContractNames DEF CoreNames
<1> QED  BY <1>2, <1>4, <1>5

LEMMA ReadsContracts ==
    ASSUME NEW c
    PROVE  Reads(c) \subseteq Contracts
BY ContractNames DEF Reads, CoreNames

\* A deployment that creates the next contract of the list.
LEMMA DeploymentCreates ==
    ASSUME ChainInv, NEW t, ShellInv(t), shell[t].task \in Deployments, Creating(t),
           ProgressInv(t) /\ ToldInv(t) /\ CheckedInv(t)
    PROVE  ProgressInv(t)' /\ ToldInv(t)' /\ CheckedInv(t)' /\ Done(t)' = Done(t) + 1
<1>1. /\ shell'[t].task = shell[t].task /\ shell'[t].base = shell[t].base
      /\ shell'[t].d = [shell[t].d EXCEPT ![On(t)] = Nonce]
      /\ shell'[t].script = Tail(shell[t].script)
  BY DEF Creating, GoesOnWith
<1>2. PICK p : p = Script(shell[t].task)  OBVIOUS
<1>3. PICK q : q = shell[t].script  OBVIOUS
<1>4. PICK k : k = Done(t)  OBVIOUS
<1>5. Runs(t) /\ Head(q).do = "create"  BY <1>3 DEF Creating, Step
<1>6. /\ k \in Nat /\ Len(p) - Len(Tail(q)) = k + 1
      /\ \A i \in DOMAIN Tail(q) : Tail(q)[i] = p[k + 1 + i]
      /\ Built(k + 1) = Built(k) + 1 /\ Built(k) + 1 \in 1..14
      /\ On(t) = CoreContracts[Built(k) + 1]
      /\ k + 1 # 12 /\ k + 1 < 16
  BY <1>2, <1>3, <1>4, <1>5, NextInScript
<1>7. PICK m \in Nat : m = k + 1  BY <1>6
<1>8. PICK b : b = Built(k)  OBVIOUS
<1>9. PICK n \in 1..14 : n = b + 1  BY <1>6, <1>8
<1>10. b \in Nat  BY <1>6, <1>8, BuiltSteps
<1>11. Built(m) = n /\ On(t) = CoreContracts[n] /\ m # 12 /\ m < 16
  BY <1>6, <1>7, <1>8, <1>9
<1>12. Done(t)' = m  BY <1>1, <1>2, <1>3, <1>6, <1>7 DEF Done
<1>13. /\ Deployed(t)' = Deployed(t) \cup {CoreContracts[n]} /\ Nonce \in Nat
       /\ \A c \in Contracts : At(t, c)' = IF c = CoreContracts[n] THEN Nonce ELSE At(t, c)
  BY <1>11, ShellCreating
<1>14. /\ Deployed(t) = {CoreContracts[i] : i \in 1..b}
       /\ \A i, j \in 1..b : i <= j => At(t, CoreContracts[j]) - At(t, CoreContracts[i]) >= j - i
  BY <1>4, <1>8 DEF ProgressInv
<1>15. \A i \in 1..b : /\ i \in 1..14 /\ CoreContracts[i] \in Deployed(t)
                       /\ At(t, CoreContracts[i])' = At(t, CoreContracts[i])
                       /\ At(t, CoreContracts[i]) \in Int /\ At(t, CoreContracts[i]) <= Nonce - 1
  <2> SUFFICES ASSUME NEW i \in 1..b
               PROVE  /\ i \in 1..14 /\ CoreContracts[i] \in Deployed(t)
                      /\ At(t, CoreContracts[i])' = At(t, CoreContracts[i])
                      /\ At(t, CoreContracts[i]) \in Int /\ At(t, CoreContracts[i]) <= Nonce - 1
    OBVIOUS
  <2>1. i \in 1..14 /\ i # n  BY <1>9, <1>10
  <2>2. CoreContracts[i] # CoreContracts[n] /\ CoreContracts[i] \in Contracts
    BY <1>9, <2>1, CoreApart
  <2>3. CoreContracts[i] \in Deployed(t)  BY <1>14
  <2>4. At(t, CoreContracts[i]) \in shell[t].base..Nonce - 1  BY <2>3, <1>13, InUse
  <2>5. shell[t].base \in Int  BY <1>13 DEF ShellInv
  <2>6. At(t, CoreContracts[i]) \in Int /\ At(t, CoreContracts[i]) <= Nonce - 1
    BY <1>13, <2>4, <2>5
  <2> QED  BY <1>13, <2>1, <2>2, <2>3, <2>6
<1>16. At(t, CoreContracts[n])' = Nonce  BY <1>9, <1>13, CoreApart
<1>17. ProgressInv(t)'
  <2>1. \A i : Built(i)' = Built(i)  BY DEF Built
  <2>2. \A i \in DOMAIN shell'[t].script : shell'[t].script[i] = Script(shell'[t].task)[m + i]
    BY <1>1, <1>2, <1>3, <1>6, <1>7
  <2>3. \A i : i \in 1..n <=> i \in 1..b \/ i = n  BY <1>9, <1>10
  <2>4. Deployed(t)' = {CoreContracts[i] : i \in 1..n}  BY <1>13, <1>14, <2>3
  <2>5. ASSUME NEW i \in 1..n, NEW j \in 1..n, i <= j
        PROVE  At(t, CoreContracts[j])' - At(t, CoreContracts[i])' >= j - i
    <3>1. CASE i \in 1..b /\ j \in 1..b
      <4>1. At(t, CoreContracts[j])' = At(t, CoreContracts[j])
            /\ At(t, CoreContracts[i])' = At(t, CoreContracts[i])
        BY <1>15, <3>1
      <4> QED  BY <1>14, <2>5, <3>1, <4>1
    <3>2. CASE i \in 1..b /\ j = n
      <4>1. b \in 1..b /\ i <= b  BY <1>10, <3>2
      <4>2. PICK x : x = At(t, CoreContracts[i])  OBVIOUS
      <4>3. PICK y : y = At(t, CoreContracts[b])  OBVIOUS
      <4>4. y - x >= b - i  BY <1>14, <3>2, <4>1, <4>2, <4>3
      <4>5. x \in Int /\ y \in Int /\ y <= Nonce - 1  BY <1>15, <3>2, <4>1, <4>2, <4>3
      <4>6. Nonce - x >= n - i  BY <1>9, <1>10, <1>13, <3>2, <4>4, <4>5
      <4>7. At(t, CoreContracts[i])' = x  BY <1>15, <3>2, <4>2
      <4> QED  BY <1>16, <3>2, <4>6, <4>7
    <3>3. CASE i = n
      <4>1. j = n  BY <1>9, <2>5, <3>3
      <4> QED  BY <1>9, <1>13, <1>16, <3>3, <4>1
    <3> QED  BY <2>3, <2>5, <3>1, <3>2, <3>3
  <2> QED  BY <1>7, <1>11, <1>12, <2>1, <2>2, <2>4, <2>5 DEF ProgressInv
<1>18. ASSUME NEW i \in 1..n, NEW base
       PROVE  Tells(shell[t].task, CoreContracts[i], shell[t].d, base) =
              Tells(shell[t].task, CoreContracts[i], shell'[t].d, base)
  <2>1. i \in 1..14 /\ i <= n  BY <1>9
  <2>2. CoreContracts[n] \notin Reads(CoreContracts[i])  BY <1>9, <2>1, ReadsEarlier
  <2>3. DOMAIN shell[t].d = Contracts  BY DEF ShellInv
  <2>4. \A r \in Reads(CoreContracts[i]) : shell[t].d[r] = shell'[t].d[r]
    BY <1>1, <1>11, <2>2, <2>3, ReadsContracts
  <2> QED  BY <2>4, TellsReads
<1>19. /\ Kept
       /\ told'[Nonce] = Tells(shell[t].task, On(t), shell[t].d, shell[t].base)
  BY ChainCreating
<1>20. ToldInv(t)'
  <2>1. ASSUME NEW c \in Deployed(t)'
        PROVE  told'[At(t, c)'] = Tells(shell'[t].task, c, shell'[t].d, shell'[t].base)
    <3>1. n \in 1..n /\ \A i \in 1..b : i \in 1..n  BY <1>9, <1>10
    <3>2. CASE c = CoreContracts[n]
      <4>1. told'[Nonce] = Tells(shell[t].task, c, shell'[t].d, shell[t].base)
        BY <1>11, <1>18, <1>19, <3>1, <3>2
      <4> QED  BY <1>1, <1>16, <3>2, <4>1
    <3>3. CASE c # CoreContracts[n]
      <4>1. c \in Deployed(t)  BY <1>13, <2>1, <3>3
      <4>2. PICK i \in 1..b : c = CoreContracts[i]  BY <1>14, <4>1
      <4>3. PICK a : a = At(t, c)  OBVIOUS
      <4>4. a \in Used  BY <1>13, <4>1, <4>3, InUse
      <4>5. told'[a] = Tells(shell[t].task, c, shell[t].d, shell[t].base)
        BY <1>19, <4>1, <4>3, <4>4 DEF Kept, ToldInv
      <4>6. At(t, c)' = a  BY <1>15, <4>2, <4>3
      <4>7. told'[a] = Tells(shell[t].task, c, shell'[t].d, shell[t].base)
        BY <1>18, <3>1, <4>2, <4>5
      <4> QED  BY <1>1, <4>6, <4>7
    <3> QED  BY <3>2, <3>3
  <2> QED  BY <2>1 DEF ToldInv
<1>21. CheckedInv(t)'
  <2>1. ASSUME NEW c \in {"AlpsAuctionHouseProxy", "AlpsDAOProxy"},
               m >= (IF c = "AlpsDAOProxy" THEN 16 ELSE 12)
        PROVE  At(t, c)' = Expected(shell[t].task, c, shell[t].base)
    <3>1. c = "AlpsAuctionHouseProxy" /\ m >= 12  BY <1>11, <2>1
    <3>2. k >= 12 /\ c # "AlpsDAOProxy"  BY <1>6, <1>7, <1>11, <3>1
    <3>3. b >= 11  BY <1>6, <1>8, <3>2, BuiltSteps
    <3>4. 11 \in 1..b /\ c = CoreContracts[11]  BY <1>10, <3>1, <3>3, CoreList
    <3>5. At(t, c)' = At(t, c)  BY <1>15, <3>4
    <3>6. At(t, c) = Expected(shell[t].task, c, shell[t].base)
      BY <1>4, <2>1, <3>2 DEF CheckedInv
    <3> QED  BY <3>5, <3>6
  <2> QED  BY <1>1, <1>12, <2>1 DEF CheckedInv
<1> QED  BY <1>4, <1>7, <1>12, <1>17, <1>20, <1>21

\* A deployment that begins.
LEMMA DeploymentBegins ==
    ASSUME NEW t, NEW task \in TaskNames, Beginning(t, task), Deployed(t)' = {}
    PROVE  /\ Done(t)' = 0
           /\ task \in Deployments => ProgressInv(t)' /\ ToldInv(t)' /\ CheckedInv(t)'
<1>1. shell'[t].task = task /\ shell'[t].script = Script(task)  BY DEF Beginning
<1>2. PICK p : p = Script(task)  OBVIOUS
<1>3. p \in Seq(Steps)  BY <1>2, ScriptTyped
<1>4. Len(p) \in Nat /\ DOMAIN p = 1..Len(p)  BY <1>3
<1>5. Done(t)' = 0  BY <1>1, <1>2, <1>4 DEF Done
<1>6. ProgressInv(t)'
  <2>1. Built(0)' = 0  BY DEF Built
  <2>2. \A i \in DOMAIN p : 0 + i = i  BY <1>4
  <2> QED  BY <1>1, <1>2, <1>5, <2>1, <2>2 DEF ProgressInv
<1>7. ToldInv(t)'  BY DEF ToldInv
<1>8. CheckedInv(t)'  BY <1>5 DEF CheckedInv
<1> QED  BY <1>5, <1>6, <1>7, <1>8

LEMMA DeploymentQuiet ==
    ASSUME ChainInv, ShellsInv, Apart, DeploymentInv, NEW t \in Terminals,
           Quiet(t) \/ \E new : Gives(t, new)
    PROVE  DeploymentInv'
<1>1. Kept /\ \A u \in Terminals : ShellInv(u) /\ Same(u)  BY TypedUnlessCreating DEF ShellsInv
<1>2. Others(t) /\ Runs(t)  BY DEF Quiet, Gives, Step
<1>3. ASSUME NEW u \in Terminals, shell'[u].task \in Deployments
      PROVE  ProgressInv(u)' /\ ToldInv(u)' /\ CheckedInv(u)'
  <2>1. CASE shell'[u] = shell[u]
    BY <1>1, <1>3, <2>1, DeploymentKept DEF DeploymentInv
  <2>2. CASE u # t  BY <1>2, <2>1, <2>2 DEF Others
  <2>3. CASE u = t
    <3>1. shell[t].task \in Deployments
      BY <1>3, <2>3 DEF Quiet, Gives, GoesOnWith
    <3>2. ProgressInv(t) /\ ToldInv(t) /\ CheckedInv(t)  BY <3>1 DEF DeploymentInv
    <3>3. CASE GoesOnWith(t, shell[t].d, shell[t].script)
      BY <1>1, <2>3, <3>2, <3>3, DeploymentKept DEF GoesOnWith
    <3>4. CASE ~GoesOnWith(t, shell[t].d, shell[t].script)
      <4>1. /\ GoesOnWith(t, shell[t].d, Tail(shell[t].script))
            /\ Head(shell[t].script).do # "create"
            /\ Head(shell[t].script).do = "check" =>
                 At(t, On(t)) = Expected(shell[t].task, On(t), shell[t].base)
        BY <3>4 DEF Quiet, Gives, Step
      <4> QED  BY <1>1, <1>2, <2>3, <3>1, <3>2, <4>1, DeploymentGoesOn
    <3> QED  BY <3>3, <3>4
  <2> QED  BY <2>2, <2>3
<1> QED  BY <1>3 DEF DeploymentInv

LEMMA DeploymentCreating ==
    ASSUME ChainInv, ShellsInv, Apart, DeploymentInv, NEW t \in Terminals, Creating(t)
    PROVE  DeploymentInv'
<1>1. Kept /\ \A u \in Terminals \ {t} : Same(u)  BY TypedCreating
<1>2. Others(t)  BY DEF Creating
<1>3. ASSUME NEW u \in Terminals, shell'[u].task \in Deployments
      PROVE  ProgressInv(u)' /\ ToldInv(u)' /\ CheckedInv(u)'
  <2>1. CASE u # t
    <3>1. shell'[u] = shell[u]  BY <1>2, <2>1 DEF Others
    <3> QED  BY <1>1, <1>3, <2>1, <3>1, DeploymentKept DEF DeploymentInv, ShellsInv
  <2>2. CASE u = t
    <3>1. shell[t].task \in Deployments  BY <1>3, <2>2 DEF Creating, GoesOnWith
    <3> QED  BY <2>2, <3>1, DeploymentCreates DEF DeploymentInv, ShellsInv
  <2> QED  BY <2>1, <2>2
<1> QED  BY <1>3 DEF DeploymentInv

LEMMA DeploymentBeginning ==
    ASSUME ChainInv, ShellsInv, Apart, DeploymentInv, NEW t \in Terminals, NEW task \in TaskNames,
           Beginning(t, task)
    PROVE  DeploymentInv'
<1>1. Kept /\ Deployed(t)' = {} /\ \A u \in Terminals \ {t} : Same(u)  BY TypedBeginning
<1>2. Others(t)  BY DEF Beginning
<1>3. ASSUME NEW u \in Terminals, shell'[u].task \in Deployments
      PROVE  ProgressInv(u)' /\ ToldInv(u)' /\ CheckedInv(u)'
  <2>1. CASE u # t
    <3>1. shell'[u] = shell[u]  BY <1>2, <2>1 DEF Others
    <3> QED  BY <1>1, <1>3, <2>1, <3>1, DeploymentKept DEF DeploymentInv, ShellsInv
  <2>2. CASE u = t
    <3>1. task \in Deployments  BY <1>3, <2>2 DEF Beginning
    <3> QED  BY <1>1, <2>2, <3>1, DeploymentBegins
  <2> QED  BY <2>1, <2>2
<1> QED  BY <1>3 DEF DeploymentInv

-----------------------------------------------------------------------------
(* What is given away.                                                     *)

\* An executor at work stays one.
LEMMA ExecutorsKept ==
    ASSUME Kept, ChainInv
    PROVE  Executors \subseteq Executors' /\ Executors \subseteq Used
<1>1. ASSUME NEW a \in Executors PROVE a \in Executors' /\ a \in Used
  <2>1. /\ a \in 0..Nonce - 1 /\ CodeAt(a) = "AlpsDAOExecutor"
        /\ CodeAt(told[a].governor) = "AlpsDAOProxy" /\ told[told[a].governor].timelock = a
    BY <1>1 DEF Executors
  <2>2. PICK g : g = told[a].governor  OBVIOUS
  <2>3. a \in Used  BY <2>1 DEF Used
  <2>4. g \in Used
    <3>1. CodeAt(g) = "AlpsDAOProxy"  BY <2>1, <2>2
    <3>2. g \in 0..Nonce - 1  BY <3>1 DEF CodeAt
    <3> QED  BY <3>1, <3>2 DEF Used
  <2>5. /\ CodeAt(a)' = "AlpsDAOExecutor" /\ CodeAt(g)' = "AlpsDAOProxy"
        /\ told'[a].governor = g /\ told'[g].timelock = a
    BY <2>1, <2>2, <2>3, <2>4 DEF Kept
  <2>6. a \in 0..Nonce' - 1
    <3>1. a \in 0..Nonce - 1  BY <2>1
    <3>2. PICK n \in Nat : n = Nonce  BY DEF Kept
    <3>3. PICK m \in Nat : m = Nonce'  BY DEF Kept
    <3>4. n <= m  BY <3>2, <3>3 DEF Kept
    <3>5. a \in 0..n - 1  BY <3>1, <3>2
    <3>6. a \in 0..m - 1  BY <3>4, <3>5
    <3> QED  BY <3>3, <3>6
  <2>7. CodeAt(told[a].governor)' = "AlpsDAOProxy"  BY <2>5
  <2>8. told'[told'[a].governor].timelock = a /\ CodeAt(a)' = "AlpsDAOExecutor"  BY <2>5
  <2> QED  BY <2>3, <2>5, <2>6, <2>7, <2>8 DEF Executors
<1> QED  BY <1>1

\* A deployment both of whose proxies were found where they were expected had no other
\* transaction in between: each contract is where its place in the list says.
LEMMA Placed ==
    ASSUME NEW t, ShellInv(t), Nonce \in Nat, shell[t].task \in Deployments,
           ProgressInv(t), CheckedInv(t), Done(t) >= 16
    PROVE  /\ shell[t].task \notin {"shortTimes", "shortTimesV1"}
           /\ \A i \in 1..14 : CoreContracts[i] \in Deployed(t)
                               /\ At(t, CoreContracts[i]) = shell[t].base + i - 1
           /\ Deployed(t) = {CoreContracts[i] : i \in 1..14}
<1>1. PICK k \in Nat : k = Done(t) /\ k >= 16  BY DEF ProgressInv
<1>2. Built(k) = 14  BY <1>1, BuiltSteps
<1>3. /\ Deployed(t) = {CoreContracts[i] : i \in 1..14}
      /\ \A i, j \in 1..14 : i <= j => At(t, CoreContracts[j]) - At(t, CoreContracts[i]) >= j - i
  BY <1>1, <1>2 DEF ProgressInv
<1>4. PICK base \in Int : base = shell[t].base  BY DEF ShellInv
<1>5. \A c \in Deployed(t) : At(t, c) \in Int /\ At(t, c) >= base
  <2> SUFFICES ASSUME NEW c \in Deployed(t) PROVE At(t, c) \in Int /\ At(t, c) >= base  OBVIOUS
  <2>1. At(t, c) \in base..Nonce - 1  BY <1>4, InUse
  <2> QED  BY <1>4, <2>1
<1>6. PICK f : f = [i \in 1..14 |-> At(t, CoreContracts[i])]  OBVIOUS
<1>7. \A i \in 1..14 : f[i] = At(t, CoreContracts[i]) /\ f[i] \in Int /\ f[i] >= base
                       /\ CoreContracts[i] \in Deployed(t)
  BY <1>3, <1>5, <1>6
<1>8. \A i, j \in 1..14 : i <= j => f[j] - f[i] >= j - i  BY <1>3, <1>7
<1>9. f[11] = Expected(shell[t].task, "AlpsAuctionHouseProxy", base)
      /\ f[14] = Expected(shell[t].task, "AlpsDAOProxy", base)
  <2>1. At(t, "AlpsAuctionHouseProxy") = Expected(shell[t].task, "AlpsAuctionHouseProxy", base)
    BY <1>1, <1>4 DEF CheckedInv
  <2>2. At(t, "AlpsDAOProxy") = Expected(shell[t].task, "AlpsDAOProxy", base)
    BY <1>1, <1>4 DEF CheckedInv
  <2> QED  BY <1>7, <2>1, <2>2, CoreList
<1>10. f[11] >= base + 10
  <2>1. f[11] - f[1] >= 10  BY <1>8
  <2> QED  BY <1>7, <2>1
<1>11. shell[t].task \notin {"shortTimes", "shortTimesV1"}
  <2>1. ASSUME shell[t].task \in {"shortTimes", "shortTimesV1"} PROVE FALSE
    <3>1. Expected(shell[t].task, "AlpsAuctionHouseProxy", base) = base + 9
      BY <2>1 DEF Expected, DeployShortTimesOffsets
    <3> QED  BY <1>9, <1>10, <3>1
  <2> QED  BY <2>1
<1>12. f[14] = base + 13
  <2>1. Expected(shell[t].task, "AlpsDAOProxy", base) = base + 13
    BY <1>11 DEF Expected, DeployOffsets
  <2> QED  BY <1>9, <2>1
<1>13. ASSUME NEW i \in 1..14 PROVE f[i] = base + i - 1
  <2>1. f[i] - f[1] >= i - 1 /\ f[14] - f[i] >= 14 - i  BY <1>8
  <2>2. f[i] \in Int /\ f[1] \in Int /\ f[1] >= base  BY <1>7
  <2> QED  BY <1>12, <2>1, <2>2
<1> QED  BY <1>3, <1>4, <1>7, <1>11, <1>13

\* What such a deployment has told its contracts.
LEMMA ToldOnce ==
    ASSUME NEW t, ShellInv(t), Nonce \in Nat, shell[t].task \in Deployments,
           ProgressInv(t), ToldInv(t), CheckedInv(t), Done(t) >= 16
    PROVE  \E founders : \A c \in Deployed(t) :
               told[At(t, c)] = ToldBy(c, shell[t].d, shell[t].base, DeployOffsets, founders)
<1>1. shell[t].task \notin {"shortTimes", "shortTimesV1", "runLocal", "descriptorV2"}
  BY Placed DEF Deployments
<1>2. \A c, d, base : Tells(shell[t].task, c, d, base) =
                      ToldBy(c, d, base, DeployOffsets, FoundersOf(shell[t].task))
  BY <1>1 DEF Tells, DeployContracts
<1> QED  BY <1>2 DEF ToldInv

\* Its executor is at work.
LEMMA ExecutorAtWork ==
    ASSUME NEW t, ShellInv(t), Nonce \in Nat, shell[t].task \in Deployments,
           ProgressInv(t), ToldInv(t), CheckedInv(t), Done(t) >= 16
    PROVE  At(t, "AlpsDAOExecutor") \in Executors
<1>1. PICK a : a = At(t, "AlpsDAOExecutor")  OBVIOUS
<1>2. PICK g : g = At(t, "AlpsDAOProxy")  OBVIOUS
<1>3. "AlpsDAOExecutor" \in Deployed(t) /\ "AlpsDAOProxy" \in Deployed(t)
      /\ g = shell[t].base + 13
  BY <1>2, Placed, CoreList
<1>4. CodeAt(a) = "AlpsDAOExecutor" /\ CodeAt(g) = "AlpsDAOProxy" /\ a \in 0..Nonce - 1
  BY <1>1, <1>2, <1>3, InUse DEF Used
<1>5. PICK founders : \A c \in Deployed(t) :
         told[At(t, c)] = ToldBy(c, shell[t].d, shell[t].base, DeployOffsets, founders)
  BY ToldOnce
<1>6. told[a] = ToldBy("AlpsDAOExecutor", shell[t].d, shell[t].base, DeployOffsets, founders)
      /\ told[g] = ToldBy("AlpsDAOProxy", shell[t].d, shell[t].base, DeployOffsets, founders)
  BY <1>1, <1>2, <1>3, <1>5
<1>7. told[a].governor = g
  <2>1. told[a].governor = shell[t].base + 13  BY <1>6 DEF ToldBy, DeployOffsets
  <2> QED  BY <1>3, <2>1
<1>8. told[g].timelock = a  BY <1>1, <1>6 DEF ToldBy, At
<1> QED  BY <1>1, <1>4, <1>7, <1>8 DEF Executors

\* Its contracts were told the addresses of the contracts they need.
LEMMA AllWired ==
    ASSUME NEW t, ShellInv(t), Nonce \in Nat, shell[t].task \in Deployments,
           ProgressInv(t), ToldInv(t), CheckedInv(t), Done(t) >= 16, NEW c \in Deployed(t)
    PROVE  Wired(At(t, c))
<1>1. PICK d : d = shell[t].d  OBVIOUS
<1>2. PICK base : base = shell[t].base  OBVIOUS
<1>3. PICK a : a = At(t, c)  OBVIOUS
<1>4. PICK founders : told[a] = ToldBy(c, d, base, DeployOffsets, founders)
  BY <1>1, <1>2, <1>3, ToldOnce
<1>5. \A e \in Deployed(t) : CodeAt(d[e]) = e  BY <1>1, InUse DEF At
<1>6. \A i \in 1..14 : CoreContracts[i] \in Deployed(t) /\ d[CoreContracts[i]] = base + i - 1
  BY <1>1, <1>2, Placed DEF At
<1>7. \A i \in 1..14 : CodeAt(d[CoreContracts[i]]) = CoreContracts[i]  BY <1>5, <1>6
<1>8. /\ CodeAt(d["NFTDescriptorV2"]) = "NFTDescriptorV2"
      /\ CodeAt(d["SVGRenderer"]) = "SVGRenderer"
      /\ CodeAt(d["AlpsAttribute"]) = "AlpsAttribute"
      /\ CodeAt(d["AlpsDescriptorV2"]) = "AlpsDescriptorV2"
      /\ CodeAt(d["Inflator"]) = "Inflator" /\ CodeAt(d["AlpsSeeder"]) = "AlpsSeeder"
      /\ CodeAt(d["AlpsToken"]) = "AlpsToken"
      /\ CodeAt(d["AlpsAuctionHouse"]) = "AlpsAuctionHouse"
      /\ CodeAt(d["AlpsAuctionHouseProxyAdmin"]) = "AlpsAuctionHouseProxyAdmin"
      /\ CodeAt(d["AlpsDAOExecutor"]) = "AlpsDAOExecutor"
      /\ CodeAt(d["AlpsDAOLogic"]) = "AlpsDAOLogic"
  BY <1>7, CoreList
<1>9. base \in Int  BY <1>2 DEF ShellInv
<1>10. CodeAt(base + 5) = "AlpsArt" /\ CodeAt(base + 10) = "AlpsAuctionHouseProxy"
       /\ CodeAt(base + 13) = "AlpsDAOProxy"
  <2>1. d[CoreContracts[6]] = base + 5 /\ d[CoreContracts[11]] = base + 10
        /\ d[CoreContracts[14]] = base + 13
    BY <1>6, <1>9
  <2> QED  BY <1>7, <2>1, CoreList
<1>11. DeployOffsets.art = 5 /\ DeployOffsets.house = 10 /\ DeployOffsets.governor = 13
  BY DEF DeployOffsets
<1>12. SUFFICES \A name \in DOMAIN told[a] \cap DOMAIN Meant : CodeAt(told[a][name]) = Meant[name]
  BY <1>3 DEF Wired
<1>13. CASE c = "AlpsDescriptorV2"  BY <1>4, <1>8, <1>10, <1>11, <1>13 DEF ToldBy, Meant
<1>14. CASE c = "AlpsArt"  BY <1>4, <1>8, <1>14 DEF ToldBy, Meant
<1>15. CASE c = "AlpsToken"  BY <1>4, <1>8, <1>10, <1>11, <1>15 DEF ToldBy, Meant
<1>16. CASE c = "AlpsAuctionHouseProxy"  BY <1>4, <1>8, <1>16 DEF ToldBy, Meant
<1>17. CASE c = "AlpsDAOExecutor"  BY <1>4, <1>10, <1>11, <1>17 DEF ToldBy, Meant
<1>18. CASE c = "AlpsDAOProxy"  BY <1>4, <1>8, <1>18 DEF ToldBy, Meant
<1>19. CASE c \notin {"AlpsDescriptorV2", "AlpsArt", "AlpsToken", "AlpsAuctionHouseProxy",
                      "AlpsDAOExecutor", "AlpsDAOProxy"}
  <2>1. told[a] = <<>>  BY <1>4, <1>19 DEF ToldBy
  <2>2. DOMAIN told[a] = {}  BY <2>1
  <2> QED  BY <2>2
<1> QED  BY <1>13, <1>14, <1>15, <1>16, <1>17, <1>18, <1>19

\* The four contracts are given away in the steps GivenIn names.
LEMMA ConfigureGives ==
    /\ Len(Script("configure")) = 27
    /\ \A c \in Given : /\ GivenIn(c) \in 23..27 /\ Script("configure")[GivenIn(c)] = HandsOver(c)
                        /\ \E i \in 1..14 : c = CoreContracts[i]
<1>1. PICK p : p = Script("configure")  OBVIOUS
<1>2. /\ Len(p) = 27
      /\ p[23] = HandsOver("AlpsDescriptorV2") /\ p[24] = HandsOver("AlpsToken")
      /\ p[25] = HandsOver("AlpsAuctionHouseProxyAdmin") /\ p[27] = HandsOver("AlpsAuctionHouseProxy")
  BY <1>1, ConfigureScript
<1>3. ASSUME NEW c \in Given
      PROVE  GivenIn(c) \in 23..27 /\ p[GivenIn(c)] = HandsOver(c)
             /\ \E i \in 1..14 : c = CoreContracts[i]
  <2>1. CASE c = "AlpsDescriptorV2"
    <3>1. GivenIn(c) = 23  BY <2>1 DEF GivenIn
    <3>2. c = CoreContracts[4]  BY <2>1, CoreList
    <3> QED  BY <1>2, <2>1, <3>1, <3>2
  <2>2. CASE c = "AlpsToken"
    <3>1. GivenIn(c) = 24  BY <2>2 DEF GivenIn
    <3>2. c = CoreContracts[8]  BY <2>2, CoreList
    <3> QED  BY <1>2, <2>2, <3>1, <3>2
  <2>3. CASE c = "AlpsAuctionHouseProxyAdmin"
    <3>1. GivenIn(c) = 25  BY <2>3 DEF GivenIn
    <3>2. c = CoreContracts[10]  BY <2>3, CoreList
    <3> QED  BY <1>2, <2>3, <3>1, <3>2
  <2>4. CASE c = "AlpsAuctionHouseProxy"
    <3>1. GivenIn(c) = 27  BY <2>4 DEF GivenIn
    <3>2. c = CoreContracts[11]  BY <2>4, CoreList
    <3> QED  BY <1>2, <2>4, <3>1, <3>2
  <2> QED  BY <2>1, <2>2, <2>3, <2>4 DEF Given
<1> QED  BY <1>1, <1>2, <1>3

\* A task that gives a contract away gives one of its own, and no other.
LEMMA GivesOwn ==
    ASSUME ChainInv, ShellsInv, Apart, NEW t \in Terminals, NEW new, Gives(t, new)
    PROVE  /\ \A u \in Terminals : \A c \in Deployed(u) :
                (u = t /\ c = On(t)) \/ owner'[At(u, c)] = owner[At(u, c)]
           /\ On(t) \in Deployed(t) => owner'[At(t, On(t))] = new
<1>1. Nonce \in Nat /\ \A u \in Terminals : ShellInv(u)  BY DEF ChainInv, Nonce, ShellsInv
<1>2. PICK x : x = At(t, On(t))  OBVIOUS
<1>3. owner' = [owner EXCEPT ![x] = new]  BY <1>2 DEF Gives
<1>4. On(t) \in Contracts  BY <1>1, NextIsStep DEF Gives, Step
<1>5. DOMAIN owner = Used  BY DEF ChainInv
<1>6. ASSUME NEW u \in Terminals, NEW c \in Deployed(u), u # t \/ c # On(t)
      PROVE  owner'[At(u, c)] = owner[At(u, c)]
  <2>1. At(u, c) \in Used /\ CodeAt(At(u, c)) = c  BY <1>1, InUse
  <2>2. At(u, c) # x
    <3>1. CASE On(t) \in Deployed(t)
      <4>1. CodeAt(x) = On(t)  BY <1>1, <1>2, <3>1, InUse
      <4> QED  BY <1>2, <1>6, <2>1, <3>1, <4>1 DEF Apart
    <3>2. CASE On(t) \notin Deployed(t)
      <4>1. x = Nowhere  BY <1>2, <1>4, <3>2 DEF Deployed
      <4>2. At(u, c) # Nowhere  BY DEF Deployed
      <4> QED  BY <4>1, <4>2
    <3> QED  BY <3>1, <3>2
  <2> QED  BY <1>3, <1>5, <2>1, <2>2
<1>7. ASSUME On(t) \in Deployed(t) PROVE owner'[x] = new
  <2>1. x \in Used  BY <1>1, <1>2, <1>7, InUse
  <2> QED  BY <1>3, <1>5, <2>1
<1> QED  BY <1>2, <1>6, <1>7

\* populate-descriptor has nothing to give.
LEMMA PopulateKept ==
    ASSUME ShellsInv, PopulateInv, NEW t \in Terminals,
           \/ Quiet(t) \/ Creating(t) \/ \E new : Gives(t, new)
           \/ \E task \in TaskNames : Beginning(t, task)
    PROVE  PopulateInv'
<1>1. ASSUME NEW u \in Terminals, shell'[u].task = "populate", NEW i \in DOMAIN shell'[u].script
      PROVE  shell'[u].script[i].do = "add"
  <2>1. CASE shell'[u].script = shell[u].script /\ shell[u].task = "populate"
    BY <1>1, <2>1 DEF PopulateInv
  <2>2. CASE u # t
    <3>1. shell'[u] = shell[u]  BY <2>2 DEF Quiet, Creating, Gives, Beginning, Others
    <3> QED  BY <1>1, <2>1, <3>1
  <2>3. CASE u = t /\ \E task \in TaskNames : Beginning(t, task)
    <3>1. shell'[t].script = PopulateDescriptor  BY <1>1, <2>3 DEF Beginning, Script
    <3>2. DOMAIN Kinds = 1..6  BY DEF Kinds
    <3>3. PopulateDescriptor = [k \in 1..6 |-> Adds(Kinds[k])]  BY <3>2 DEF PopulateDescriptor, Each
    <3>4. \A k \in DOMAIN PopulateDescriptor : PopulateDescriptor[k].do = "add"
      BY <3>3 DEF Adds
    <3> QED  BY <1>1, <2>3, <3>1, <3>4
  <2>4. CASE u = t /\ ~\E task \in TaskNames : Beginning(t, task)
    <3>1. shell[t].task = "populate" /\ Runs(t)
          /\ shell'[t].script \in {shell[t].script, Tail(shell[t].script)}
      BY <1>1, <2>4 DEF Quiet, Creating, Gives, GoesOnWith, Step
    <3>2. PICK q \in Seq(Steps) : q = shell[t].script /\ q # <<>>
      BY <3>1 DEF ShellsInv, ShellInv, Runs
    <3>3. \A k \in DOMAIN q : q[k].do = "add"  BY <3>1, <3>2 DEF PopulateInv
    <3>4. \A k \in DOMAIN Tail(q) : k + 1 \in DOMAIN q /\ Tail(q)[k] = q[k + 1]  BY <3>2
    <3> QED  BY <1>1, <2>4, <3>1, <3>2, <3>3, <3>4
  <2> QED  BY <2>2, <2>3, <2>4
<1> QED  BY <1>1 DEF PopulateInv

\* A deployment gives a contract away to an executor at work.
LEMMA GivenToExecutor ==
    ASSUME ChainInv, ShellsInv, DeploymentInv, PopulateInv, NEW t \in Terminals, NEW new,
           Gives(t, new), shell[t].task # "runLocal"
    PROVE  new \in Executors
<1>1. ShellInv(t) /\ Nonce \in Nat  BY DEF ShellsInv, ChainInv, Nonce
<1>2. Runs(t) /\ Head(shell[t].script).do = "handOver"  BY DEF Gives, Step
<1>3. shell[t].task \in TaskNames  BY <1>1, <1>2, NextIsStep
<1>4. CASE shell[t].task \in Deployments
  <2>1. ProgressInv(t) /\ ToldInv(t) /\ CheckedInv(t)  BY <1>4 DEF DeploymentInv
  <2>2. Done(t) >= 16  BY <1>1, <1>2, <1>4, <2>1, NextInScript
  <2>3. At(t, "AlpsDAOExecutor") \in Executors  BY <1>1, <1>4, <2>1, <2>2, ExecutorAtWork
  <2>4. shell[t].task # "descriptorV2"  BY <1>4 DEF Deployments
  <2> QED  BY <2>3, <2>4 DEF Gives
<1>5. CASE shell[t].task = "descriptorV2"  BY <1>5 DEF Gives
<1>6. CASE shell[t].task = "populate"
  <2>1. PICK q \in Seq(Steps) : q = shell[t].script /\ q # <<>>  BY <1>1, <1>2 DEF ShellInv, Runs
  <2>2. Head(q) = q[1] /\ 1 \in DOMAIN q  BY <2>1
  <2>3. Head(q).do = "add"  BY <1>6, <2>1, <2>2 DEF PopulateInv
  <2> QED  BY <1>2, <2>1, <2>3
<1> QED  BY <1>3, <1>4, <1>5, <1>6 DEF TaskNames

\* A contract stays with the key or goes to an executor at work.
LEMMA StrandedUnlessCreating ==
    ASSUME ChainInv, ShellsInv, Apart, DeploymentInv, PopulateInv, NeverStranded,
           NEW t \in Terminals, Quiet(t) \/ \E new : Gives(t, new)
    PROVE  NeverStranded'
<1>1. Kept /\ \A u \in Terminals : Same(u)  BY TypedUnlessCreating
<1>2. Executors \subseteq Executors'  BY <1>1, ExecutorsKept
<1>3. \A u \in Terminals : shell'[u].task = shell[u].task
  BY DEF Quiet, Gives, Others, GoesOnWith
<1>4. ASSUME NEW u \in Terminals, shell[u].task # "runLocal", NEW c \in Deployed(u)
      PROVE  owner'[At(u, c)] \in {Deployer} \cup Executors'
  <2>1. owner[At(u, c)] \in {Deployer} \cup Executors  BY <1>4 DEF NeverStranded
  <2>2. CASE Quiet(t)  BY <1>2, <2>1, <2>2 DEF Quiet
  <2>3. ASSUME NEW new, Gives(t, new) PROVE owner'[At(u, c)] \in {Deployer} \cup Executors'
    <3>1. CASE owner'[At(u, c)] = owner[At(u, c)]  BY <1>2, <2>1, <3>1
    <3>2. CASE u = t /\ c = On(t)
      <4>1. owner'[At(u, c)] = new  BY <1>4, <2>3, <3>2, GivesOwn
      <4>2. new \in Executors  BY <1>4, <2>3, <3>2, GivenToExecutor
      <4> QED  BY <1>2, <4>1, <4>2
    <3> QED  BY <2>3, <3>1, <3>2, GivesOwn
  <2> QED  BY <2>2, <2>3
<1>5. ASSUME NEW u \in Terminals, shell'[u].task # "runLocal", NEW c \in Deployed(u)'
      PROVE  owner'[At(u, c)'] \in {Deployer} \cup Executors'
  <2>1. c \in Deployed(u) /\ c \in Contracts  BY <1>1, <1>5 DEF Same, Deployed
  <2>2. At(u, c)' = At(u, c)  BY <1>1, <2>1 DEF Same
  <2> QED  BY <1>3, <1>4, <1>5, <2>1, <2>2
<1>6. Deployer' = Deployer  BY DEF Deployer
<1> QED  BY <1>5, <1>6 DEF NeverStranded

LEMMA StrandedCreating ==
    ASSUME ChainInv, ShellsInv, Apart, NeverStranded, NEW t \in Terminals, Creating(t)
    PROVE  NeverStranded'
<1>1. Kept /\ \A u \in Terminals \ {t} : Same(u)  BY TypedCreating
<1>2. Executors \subseteq Executors'  BY <1>1, ExecutorsKept
<1>3. /\ Deployed(t)' = Deployed(t) \cup {On(t)}
      /\ \A c \in Contracts : At(t, c)' = IF c = On(t) THEN Nonce ELSE At(t, c)
  BY ShellCreating DEF ShellsInv
<1>4. owner'[Nonce] = Deployer /\ \A a \in Used : owner'[a] = owner[a]
  BY ChainCreating DEF ShellsInv
<1>5. ASSUME NEW u \in Terminals, shell'[u].task # "runLocal", NEW c \in Deployed(u)'
      PROVE  owner'[At(u, c)'] \in {Deployer} \cup Executors'
  <2>1. c \in Contracts
    <3>1. Deployed(u)' \subseteq Contracts  BY DEF Deployed
    <3> QED  BY <1>5, <3>1
  <2>2. CASE u = t /\ c = On(t)  BY <1>3, <1>4, <2>1, <2>2
  <2>3. CASE ~(u = t /\ c = On(t))
    <3>1. c \in Deployed(u) /\ At(u, c)' = At(u, c)  BY <1>1, <1>3, <1>5, <2>1, <2>3 DEF Same
    <3>2. At(u, c) \in Used  BY <1>1, <3>1, InUse DEF Kept, ShellsInv
    <3>3. shell[u].task = shell'[u].task  BY DEF Creating, Others, GoesOnWith
    <3>4. owner[At(u, c)] \in {Deployer} \cup Executors  BY <1>5, <3>1, <3>3 DEF NeverStranded
    <3>5. owner'[At(u, c)] = owner[At(u, c)]  BY <1>4, <3>2
    <3> QED  BY <1>2, <3>1, <3>4, <3>5
  <2> QED  BY <2>2, <2>3
<1>6. Deployer' = Deployer  BY DEF Deployer
<1> QED  BY <1>5, <1>6 DEF NeverStranded

LEMMA StrandedBeginning ==
    ASSUME ChainInv, ShellsInv, Apart, NeverStranded, NEW t \in Terminals,
           NEW task \in TaskNames, Beginning(t, task)
    PROVE  NeverStranded'
<1>1. Kept /\ Deployed(t)' = {} /\ \A u \in Terminals \ {t} : Same(u)  BY TypedBeginning
<1>2. Executors \subseteq Executors'  BY <1>1, ExecutorsKept
<1>3. ASSUME NEW u \in Terminals, shell'[u].task # "runLocal", NEW c \in Deployed(u)'
      PROVE  owner'[At(u, c)'] \in {Deployer} \cup Executors'
  <2>1. u # t  BY <1>1, <1>3
  <2>2. shell'[u] = shell[u] /\ owner' = owner  BY <2>1 DEF Beginning, Others
  <2>3. c \in Deployed(u) /\ c \in Contracts  BY <1>1, <1>3, <2>1 DEF Same, Deployed
  <2>4. At(u, c)' = At(u, c)  BY <1>1, <2>1, <2>3 DEF Same
  <2>5. owner[At(u, c)] \in {Deployer} \cup Executors  BY <1>3, <2>2, <2>3 DEF NeverStranded
  <2> QED  BY <1>2, <2>2, <2>4, <2>5
<1>4. Deployer' = Deployer  BY DEF Deployer
<1> QED  BY <1>3, <1>4 DEF NeverStranded

\* The contracts a deploy-and-configure that has come to giving away knows.
LEMMA GivenDeployed ==
    ASSUME ChainInv, ShellsInv, DeploymentInv, NEW u \in Terminals, shell[u].task = "configure",
           Done(u) >= 16
    PROVE  Given \subseteq Deployed(u) /\ "AlpsDAOExecutor" \in Contracts
<1>1. ShellInv(u) /\ Nonce \in Nat  BY DEF ShellsInv, ChainInv, Nonce
<1>2. shell[u].task \in Deployments  BY DEF Deployments
<1>3. ProgressInv(u) /\ CheckedInv(u)  BY <1>2 DEF DeploymentInv
<1>4. \A i \in 1..14 : CoreContracts[i] \in Deployed(u)  BY <1>1, <1>2, <1>3, Placed
<1> QED  BY <1>4, ConfigureGives, ContractNames DEF CoreNames

\* What deploy-and-configure has given away stays given away.
LEMMA HandedStays ==
    ASSUME ChainInv, ShellsInv, DeploymentInv, HandedInv, Kept, NEW u \in Terminals, Same(u),
           shell[u].task = "configure", NEW c \in Given, Done(u) >= GivenIn(c),
           owner'[At(u, c)] = owner[At(u, c)] \/ owner'[At(u, c)] = At(u, "AlpsDAOExecutor")
    PROVE  owner'[At(u, c)'] = At(u, "AlpsDAOExecutor")'
<1>1. GivenIn(c) \in 23..27  BY ConfigureGives
<1>2. Done(u) >= 16
  <2>1. Done(u) \in Nat  BY DEF DeploymentInv, Deployments, ProgressInv
  <2> QED  BY <1>1, <2>1
<1>3. c \in Contracts /\ "AlpsDAOExecutor" \in Contracts  BY <1>2, GivenDeployed DEF Deployed
<1>4. At(u, c)' = At(u, c) /\ At(u, "AlpsDAOExecutor")' = At(u, "AlpsDAOExecutor")
  BY <1>3 DEF Same
<1>5. owner[At(u, c)] = At(u, "AlpsDAOExecutor")  BY DEF HandedInv
<1> QED  BY <1>4, <1>5

LEMMA HandedUnlessCreating ==
    ASSUME ChainInv, ShellsInv, Apart, DeploymentInv, HandedInv, NEW t \in Terminals,
           Quiet(t) \/ \E new : Gives(t, new)
    PROVE  HandedInv'
<1>1. Kept /\ \A u \in Terminals : Same(u) /\ ShellInv(u)  BY TypedUnlessCreating DEF ShellsInv
<1>2. Others(t) /\ Runs(t)  BY DEF Quiet, Gives, Step
<1>3. ASSUME NEW u \in Terminals, shell'[u].task = "configure", NEW c \in Given,
             Done(u)' >= GivenIn(c)
      PROVE  owner'[At(u, c)'] = At(u, "AlpsDAOExecutor")'
  <2>1. shell[u].task = "configure"  BY <1>3 DEF Quiet, Gives, Others, GoesOnWith
  <2>2. GivenIn(c) \in 23..27 /\ Script("configure")[GivenIn(c)] = HandsOver(c)  BY ConfigureGives
  <2>3. ProgressInv(u) /\ ToldInv(u) /\ CheckedInv(u) /\ Done(u) \in Nat
    BY <2>1 DEF DeploymentInv, Deployments, ProgressInv
  <2>4. ASSUME Done(u) >= GivenIn(c)
        PROVE  owner'[At(u, c)'] = At(u, "AlpsDAOExecutor")'
    <3>1. c \in Deployed(u)
      <4>1. Done(u) >= 16  BY <2>2, <2>3, <2>4
      <4> QED  BY <2>1, <4>1, GivenDeployed
    <3>2. owner'[At(u, c)] = owner[At(u, c)] \/ owner'[At(u, c)] = At(u, "AlpsDAOExecutor")
      <4>1. CASE Quiet(t)  BY <4>1 DEF Quiet
      <4>2. ASSUME NEW new, Gives(t, new)
            PROVE  owner'[At(u, c)] = owner[At(u, c)] \/ owner'[At(u, c)] = At(u, "AlpsDAOExecutor")
        <5>1. CASE u = t /\ c = On(t)
          <6>1. owner'[At(u, c)] = new  BY <3>1, <4>2, <5>1, GivesOwn
          <6>2. new = At(t, "AlpsDAOExecutor")  BY <2>1, <4>2, <5>1 DEF Gives
          <6> QED  BY <5>1, <6>1, <6>2
        <5>2. CASE ~(u = t /\ c = On(t))  BY <3>1, <4>2, <5>2, GivesOwn
        <5> QED  BY <5>1, <5>2
      <4> QED  BY <4>1, <4>2
    <3> QED  BY <1>1, <2>1, <2>4, <3>2, HandedStays
  <2>5. CASE shell'[u].script = shell[u].script
    <3>1. Done(u)' = Done(u)  BY <1>3, <2>1, <2>5 DEF Done
    <3> QED  BY <1>3, <2>4, <3>1
  <2>6. CASE u # t  BY <1>2, <2>5, <2>6 DEF Others
  <2>7. CASE u = t /\ shell'[t].script # shell[t].script
    <3>1. GoesOnWith(t, shell[t].d, Tail(shell[t].script))
          /\ Head(shell[t].script).do # "create"
          /\ (Head(shell[t].script).do = "check" =>
                At(t, On(t)) = Expected(shell[t].task, On(t), shell[t].base))
          /\ (Head(shell[t].script).do = "handOver" => \E new : Gives(t, new))
      BY <2>7 DEF Quiet, Gives, Step, GoesOnWith
    <3>2. shell[t].task \in Deployments  BY <2>1, <2>7 DEF Deployments
    <3>3. Done(t)' = Done(t) + 1  BY <1>1, <1>2, <2>3, <2>7, <3>1, <3>2, DeploymentGoesOn
    <3>4. CASE Done(t) >= GivenIn(c)  BY <2>4, <2>7, <3>4
    <3>5. CASE Done(t) + 1 = GivenIn(c)
      <4>1. Head(shell[t].script) = HandsOver(c)
        BY <1>1, <1>2, <2>1, <2>2, <2>3, <2>7, <3>2, <3>5, NextInScript
      <4>2. Head(shell[t].script).do = "handOver" /\ On(t) = c  BY <4>1 DEF HandsOver, On
      <4>3. PICK new : Gives(t, new)  BY <3>1, <4>2
      <4>4. Done(t) >= 16  BY <2>2, <2>3, <2>7, <3>5
      <4>5. c \in Deployed(t) /\ "AlpsDAOExecutor" \in Contracts
        BY <2>1, <2>7, <4>4, GivenDeployed
      <4>6. owner'[At(t, c)] = new  BY <4>2, <4>3, <4>5, GivesOwn
      <4>7. new = At(t, "AlpsDAOExecutor")  BY <2>1, <2>7, <4>3 DEF Gives
      <4>8. c \in Contracts  BY <4>5 DEF Deployed
      <4>9. At(t, c)' = At(t, c) /\ At(t, "AlpsDAOExecutor")' = At(t, "AlpsDAOExecutor")
        BY <1>1, <4>5, <4>8 DEF Same
      <4> QED  BY <2>7, <4>6, <4>7, <4>9
    <3> QED  BY <1>3, <2>2, <2>3, <2>7, <3>3, <3>4, <3>5
  <2> QED  BY <2>5, <2>6, <2>7
<1>4. \A c \in Given : GivenIn(c)' = GivenIn(c)  BY DEF GivenIn
<1> QED  BY <1>3, <1>4 DEF HandedInv

LEMMA HandedCreating ==
    ASSUME ChainInv, ShellsInv, Apart, DeploymentInv, HandedInv, NEW t \in Terminals, Creating(t)
    PROVE  HandedInv'
<1>1. Kept /\ \A u \in Terminals \ {t} : Same(u)  BY TypedCreating
<1>2. \A u \in Terminals : ShellInv(u)  BY DEF ShellsInv
<1>3. Nonce \in Nat /\ \A a \in Used : owner'[a] = owner[a]  BY <1>1, <1>2, ChainCreating DEF Kept
<1>4. ASSUME NEW u \in Terminals, shell'[u].task = "configure", NEW c \in Given,
             Done(u)' >= GivenIn(c)
      PROVE  owner'[At(u, c)'] = At(u, "AlpsDAOExecutor")'
  <2>1. shell[u].task = "configure"  BY <1>4 DEF Creating, Others, GoesOnWith
  <2>2. GivenIn(c) \in 23..27  BY ConfigureGives
  <2>3. ProgressInv(u) /\ ToldInv(u) /\ CheckedInv(u) /\ Done(u) \in Nat
    BY <2>1 DEF DeploymentInv, Deployments, ProgressInv
  <2>4. CASE u = t
    <3>1. shell[t].task \in Deployments  BY <2>1, <2>4 DEF Deployments
    <3>2. Done(t)' = Done(t) + 1  BY <1>2, <2>3, <2>4, <3>1, DeploymentCreates
    <3>3. Done(t) + 1 < 16  BY <1>2, <2>3, <2>4, <3>1, NextInScript DEF Creating, Step
    <3> QED  BY <1>4, <2>2, <2>3, <2>4, <3>2, <3>3
  <2>5. CASE u # t
    <3>1. shell'[u] = shell[u]  BY <2>5 DEF Creating, Others
    <3>2. Done(u)' = Done(u)  BY <3>1 DEF Done
    <3>3. Done(u) >= GivenIn(c) /\ Done(u) >= 16  BY <1>4, <2>2, <2>3, <3>2
    <3>4. c \in Deployed(u)  BY <2>1, <3>3, GivenDeployed
    <3>5. owner'[At(u, c)] = owner[At(u, c)]  BY <1>2, <1>3, <3>4, InUse
    <3> QED  BY <1>1, <2>1, <2>5, <3>3, <3>5, HandedStays
  <2> QED  BY <2>4, <2>5
<1>5. \A c \in Given : GivenIn(c)' = GivenIn(c)  BY DEF GivenIn
<1> QED  BY <1>4, <1>5 DEF HandedInv

LEMMA HandedBeginning ==
    ASSUME ChainInv, ShellsInv, Apart, DeploymentInv, HandedInv, NEW t \in Terminals,
           NEW task \in TaskNames, Beginning(t, task)
    PROVE  HandedInv'
<1>1. Kept /\ Deployed(t)' = {} /\ \A u \in Terminals \ {t} : Same(u)  BY TypedBeginning
<1>2. ASSUME NEW u \in Terminals, shell'[u].task = "configure", NEW c \in Given,
             Done(u)' >= GivenIn(c)
      PROVE  owner'[At(u, c)'] = At(u, "AlpsDAOExecutor")'
  <2>1. CASE u = t
    <3>1. Done(t)' = 0  BY <1>1, DeploymentBegins
    <3>2. GivenIn(c) \in 23..27  BY ConfigureGives
    <3> QED  BY <1>2, <2>1, <3>1, <3>2
  <2>2. CASE u # t
    <3>1. shell'[u] = shell[u] /\ owner' = owner  BY <2>2 DEF Beginning, Others
    <3>2. Done(u)' = Done(u)  BY <3>1 DEF Done
    <3> QED  BY <1>1, <1>2, <2>2, <3>1, <3>2, HandedStays
  <2> QED  BY <2>1, <2>2
<1>3. \A c \in Given : GivenIn(c)' = GivenIn(c)  BY DEF GivenIn
<1> QED  BY <1>2, <1>3 DEF HandedInv

-----------------------------------------------------------------------------
(* The theorems.                                                           *)

LEMMA DeployInit == Init => DeployInv
<1> SUFFICES ASSUME Init PROVE DeployInv  OBVIOUS
<1>1. PICK s : s = sent  OBVIOUS
<1>2. s = <<>> /\ Len(s) = 0  BY <1>1 DEF Init
<1>3. Nonce = 0  BY <1>1, <1>2 DEF Nonce
<1>4. Used = {}  BY <1>3 DEF Used
<1>5. ChainInv
  <2>1. sent \in Seq(Contracts \cup {"none"})  BY <1>1, <1>2
  <2>2. DOMAIN told = {} /\ DOMAIN owner = {}  BY DEF Init
  <2> QED  BY <1>4, <2>1, <2>2 DEF ChainInv
<1>6. \A t \in Terminals : shell[t] = Idle  BY DEF Init
<1>7. ASSUME NEW t \in Terminals PROVE Deployed(t) = {} /\ ShellInv(t) /\ shell[t].task = "none"
  <2>1. shell[t].task = "none" /\ shell[t].base = 0 /\ shell[t].d = [c \in Contracts |-> Nowhere]
        /\ shell[t].script = <<>>
    BY <1>6 DEF Idle
  <2>2. \A c \in Contracts : At(t, c) = Nowhere  BY <2>1 DEF At
  <2>3. Deployed(t) = {}  BY <2>2 DEF Deployed
  <2>4. [c \in Contracts |-> Nowhere] \in [Contracts -> Int]  BY DEF Nowhere
  <2>5. shell[t].script \in Seq(Steps)  BY <2>1
  <2>6. shell[t].base \in 0..Nonce  BY <1>3, <2>1
  <2> QED  BY <1>6, <2>1, <2>3, <2>4, <2>5, <2>6 DEF ShellInv
<1>8. ShellsInv
  <2>1. DOMAIN shell = Terminals  BY DEF Init
  <2> QED  BY <1>7, <2>1 DEF ShellsInv
<1>9. Apart  BY <1>7 DEF Apart
<1>10. "none" \notin Deployments  BY DEF Deployments
<1>11. DeploymentInv /\ PopulateInv /\ NeverStranded /\ HandedInv
  BY <1>7, <1>10 DEF DeploymentInv, PopulateInv, NeverStranded, HandedInv
<1> QED  BY <1>5, <1>8, <1>9, <1>11 DEF DeployInv

LEMMA DeployStep == DeployInv /\ Next => DeployInv'
<1> SUFFICES ASSUME DeployInv, Next PROVE DeployInv'  OBVIOUS
<1>1. /\ ChainInv /\ ShellsInv /\ Apart /\ DeploymentInv /\ PopulateInv /\ NeverStranded
      /\ HandedInv
  BY DEF DeployInv
<1>2. PICK t \in Terminals : \/ Quiet(t) \/ Creating(t)
                             \/ \E new : Gives(t, new)
                             \/ \E task \in TaskNames : Beginning(t, task)
  BY <1>1, StepCases
<1>3. PopulateInv'  BY <1>1, <1>2, PopulateKept
<1>4. CASE Quiet(t) \/ \E new : Gives(t, new)
  <2>1. ChainInv' /\ ShellsInv' /\ Apart'  BY <1>1, <1>4, TypedUnlessCreating
  <2>2. DeploymentInv'  BY <1>1, <1>4, DeploymentQuiet
  <2>3. NeverStranded'  BY <1>1, <1>4, StrandedUnlessCreating
  <2>4. HandedInv'  BY <1>1, <1>4, HandedUnlessCreating
  <2> QED  BY <1>3, <2>1, <2>2, <2>3, <2>4 DEF DeployInv
<1>5. CASE Creating(t)
  <2>1. ChainInv' /\ ShellsInv' /\ Apart'  BY <1>1, <1>5, TypedCreating
  <2>2. DeploymentInv'  BY <1>1, <1>5, DeploymentCreating
  <2>3. NeverStranded'  BY <1>1, <1>5, StrandedCreating
  <2>4. HandedInv'  BY <1>1, <1>5, HandedCreating
  <2> QED  BY <1>3, <2>1, <2>2, <2>3, <2>4 DEF DeployInv
<1>6. ASSUME NEW task \in TaskNames, Beginning(t, task) PROVE DeployInv'
  <2>1. ChainInv' /\ ShellsInv' /\ Apart'  BY <1>1, <1>6, TypedBeginning
  <2>2. DeploymentInv'  BY <1>1, <1>6, DeploymentBeginning
  <2>3. NeverStranded'  BY <1>1, <1>6, StrandedBeginning
  <2>4. HandedInv'  BY <1>1, <1>6, HandedBeginning
  <2> QED  BY <1>3, <2>1, <2>2, <2>3, <2>4 DEF DeployInv
<1> QED  BY <1>2, <1>4, <1>5, <1>6

LEMMA DeployStutter == DeployInv /\ UNCHANGED vars => DeployInv'
<1> SUFFICES ASSUME DeployInv, UNCHANGED vars PROVE DeployInv'  OBVIOUS
<1>1. sent' = sent /\ told' = told /\ owner' = owner /\ shell' = shell  BY DEF vars, chain
<1>2. Nonce' = Nonce  BY <1>1 DEF Nonce
<1>3. \A a : CodeAt(a)' = CodeAt(a)  BY <1>1, <1>2 DEF CodeAt
<1>4. Used' = Used  BY <1>2, <1>3 DEF Used
<1>5. \A t, c : At(t, c)' = At(t, c)  BY <1>1 DEF At
<1>6. \A t : Deployed(t)' = Deployed(t)  BY <1>5 DEF Deployed
<1>7. \A t : Done(t)' = Done(t)  BY <1>1 DEF Done
<1>8. Kept  BY <1>1, <1>2, <1>3 DEF Kept, DeployInv, ChainInv, Nonce, Used
<1>9. Executors \subseteq Executors'  BY <1>8, ExecutorsKept DEF DeployInv
<1>10. \A t \in Terminals : Same(t)  BY <1>5, <1>6 DEF Same
<1>11. ChainInv'  BY <1>1, <1>4 DEF DeployInv, ChainInv
<1>12. ShellsInv'  BY <1>1, <1>8, ShellKept DEF DeployInv, ShellsInv
<1>13. Apart'  BY <1>5, <1>6 DEF DeployInv, Apart
<1>14. DeploymentInv'  BY <1>1, <1>8, <1>10, DeploymentKept DEF DeployInv, DeploymentInv, ShellsInv
<1>15. PopulateInv'  BY <1>1 DEF DeployInv, PopulateInv
<1>16. NeverStranded'
  <2>1. \A t \in Terminals : shell'[t].task # "runLocal" =>
          \A c \in Deployed(t)' : owner'[At(t, c)'] \in {Deployer} \cup Executors'
    BY <1>1, <1>5, <1>6, <1>9 DEF DeployInv, NeverStranded
  <2> QED  BY <2>1 DEF NeverStranded, Deployer
<1>17. HandedInv'  BY <1>1, <1>5, <1>7 DEF DeployInv, HandedInv, GivenIn
<1> QED  BY <1>11, <1>12, <1>13, <1>14, <1>15, <1>16, <1>17 DEF DeployInv

\* Whatever the terminals interleave and wherever a script dies, a deployment has done the
\* first steps of its list in order (deploy.ts, the loop over the contracts), has told each
\* contract what the list says, and has its two proxies at the predicted addresses once
\* they were checked (validateDeployment).
THEOREM DeploymentInvariant == Spec => []DeployInv
BY DeployInit, DeployStep, DeployStutter, PTL DEF Spec

\* A deployment without a check left has passed both.
LEMMA BothChecked ==
    ASSUME NEW t, ShellInv(t), shell[t].task \in Deployments, ProgressInv(t),
           \A i \in DOMAIN shell[t].script : shell[t].script[i].do # "check"
    PROVE  Done(t) >= 16
<1>1. PICK p : p = Script(shell[t].task)  OBVIOUS
<1>2. PICK q : q = shell[t].script  OBVIOUS
<1>3. PICK k : k = Done(t)  OBVIOUS
<1>4. Deploys(p) /\ p \in Seq(Steps) /\ Len(p) \in Nat /\ Len(p) >= 16
  BY <1>1, DeploymentScripts DEF Deploys
<1>5. k \in Nat /\ k = Len(p) - Len(q) /\ \A i \in DOMAIN q : q[i] = p[k + i]
  BY <1>1, <1>2, <1>3 DEF ProgressInv, Done
<1>6. Len(q) \in Nat /\ DOMAIN q = 1..Len(q)  BY <1>2 DEF ShellInv
<1>7. p[16].do = "check"
  <2>1. p[16] = Checks("AlpsDAOProxy")
    <3>1. \A i \in 1..16 : p[i] = Deploying[i]  BY <1>4 DEF Deploys
    <3>2. 16 \in 1..16  OBVIOUS
    <3>3. p[16] = Deploying[16]  BY <3>1, <3>2
    <3> QED  BY <3>3, DeployingSteps
  <2> QED  BY <2>1 DEF Checks
<1>8. ASSUME ~(k >= 16) PROVE FALSE
  <2>1. 16 - k \in 1..Len(q) /\ k + (16 - k) = 16  BY <1>4, <1>5, <1>6, <1>8
  <2>2. q[16 - k] = p[16]  BY <1>5, <1>6, <2>1
  <2>3. q[16 - k].do # "check"  BY <1>2, <1>6, <2>1
  <2> QED  BY <1>7, <2>2, <2>3
<1> QED  BY <1>3, <1>8

\* A deployment to a live network never gives a contract away to an executor that no
\* governor can make act, whatever the same key's other tasks sent in between and
\* wherever a script stopped (deploy.ts, validateDeployment; deploy-and-configure.ts,
\* transferOwnership).
THEOREM NothingStranded == Spec => []NeverStranded
<1>1. DeployInv => NeverStranded  BY DEF DeployInv
<1> QED  BY <1>1, DeploymentInvariant, PTL

\* Once both checks have passed, every contract of a deployment was told the addresses of
\* the contracts it needs, those computed beforehand included (deploy.ts, the args of
\* each contract).
THEOREM WiredWhenChecked == Spec => []WiredOnceChecked
<1>1. DeployInv => WiredOnceChecked
  <2> SUFFICES ASSUME DeployInv, NEW t \in Terminals, shell[t].task \in Deployments,
                      \A i \in DOMAIN shell[t].script : shell[t].script[i].do # "check",
                      NEW c \in Deployed(t)
               PROVE  Wired(At(t, c))
    BY DEF WiredOnceChecked, Deployments
  <2>1. ShellInv(t) /\ Nonce \in Nat  BY DEF DeployInv, ShellsInv, ChainInv, Nonce
  <2>2. ProgressInv(t) /\ ToldInv(t) /\ CheckedInv(t)  BY DEF DeployInv, DeploymentInv
  <2>3. Done(t) >= 16  BY <2>1, <2>2, BothChecked
  <2> QED  BY <2>1, <2>2, <2>3, AllWired
<1> QED  BY <1>1, DeploymentInvariant, PTL

\* A deployment that came to its last line has left the token, the descriptor, the house
\* and its admin with the executor (deploy-and-configure.ts, "Deployment Complete.").
THEOREM AllHandedOver == Spec => []HandedOver
<1>1. DeployInv => HandedOver
  <2> SUFFICES ASSUME DeployInv, NEW t \in Terminals, Ended(t), shell[t].task = "configure",
                      NEW c \in Given
               PROVE  owner[At(t, c)] = At(t, "AlpsDAOExecutor")
    BY DEF HandedOver, Given
  <2>1. PICK q : q = shell[t].script  OBVIOUS
  <2>2. q = <<>>  BY <2>1 DEF Ended
  <2>3. Len(q) = 0  BY <2>2
  <2>4. Done(t) = 27  BY <2>1, <2>3, ConfigureGives DEF Done
  <2>5. GivenIn(c) \in 23..27  BY ConfigureGives
  <2>6. Done(t) >= GivenIn(c)  BY <2>4, <2>5
  <2> QED  BY <2>6 DEF DeployInv, HandedInv
<1> QED  BY <1>1, DeploymentInvariant, PTL
=============================================================================
