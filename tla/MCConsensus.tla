----------------------------- MODULE MCConsensus -----------------------------
(* Instances of Consensus for TLC. *)
EXTENDS Consensus

CONSTANTS k1, k2, p1, p2

\* One predictor whose distribution for one of the requests cannot be fused.
BadVotes == {<<k1, p1>>}

=============================================================================
