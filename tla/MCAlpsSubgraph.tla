---------------------------- MODULE MCAlpsSubgraph ----------------------------
(* An instance of AlpsSubgraph for TLC. *)
EXTENDS AlpsSubgraph

CONSTANTS a1, a2

\* One set with a quorum that grows with the votes against, up to its maximum, and
\* one whose quorum is constant.
Growing == [min |-> 4000, max |-> 5500, coefficient |-> 200000]
Fixed == [min |-> 5000, max |-> 6000, coefficient |-> 0]
MCParamSets == {Growing, Fixed}
=============================================================================
