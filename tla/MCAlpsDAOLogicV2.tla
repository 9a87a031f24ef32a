-------------------------- MODULE MCAlpsDAOLogicV2 --------------------------
(* Instances of AlpsDAOLogicV2 for TLC. *)
EXTENDS AlpsDAOLogicV2, TLC

CONSTANTS a1, a2

CallOf(kind, value) == [kind |-> kind, value |-> value]
Pay == CallOf("external", 1)

OneList == {<<Pay>>}
\* A setter that refuses its value.
RefusedList == {<<CallOf("votingPeriod", 0)>>}
\* A list that raises the minimum quorum and pays, and one that shares the payment and
\* shortens the delay.
MixedLists == {<<CallOf("maxQuorumVotesBPS", 6000), CallOf("minQuorumVotesBPS", 6000), Pay>>,
               <<CallOf("delay", 1), Pay>>}

TwoVoters == a1 :> 2 @@ a2 :> 1
EvenVoters == a1 :> 1 @@ a2 :> 1
\* One voter alone carries a quorum of 20% and not one of 60%.
UnevenVoters == a1 :> 3 @@ a2 :> 2
BothWays == {<<a1, a2>>, <<a2, a1>>}
=============================================================================
