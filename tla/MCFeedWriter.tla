---------------------------- MODULE MCFeedWriter ----------------------------
(* Instances of FeedWriter for TLC. *)
EXTENDS FeedWriter, TLC

Symmetry == Permutations(Record)

=============================================================================
