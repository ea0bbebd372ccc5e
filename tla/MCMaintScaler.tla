---------------------------- MODULE MCMaintScaler ----------------------------
(* Instances of MaintScaler for TLC. *)
EXTENDS MaintScaler, TLC

\* Overload and idleness; a mixed signal changes what idleness at the floor does.
MCSignal == {[urgent |-> TRUE, calm |-> FALSE, need |-> 3],
             [urgent |-> FALSE, calm |-> TRUE, need |-> 1]}

Symmetry == Permutations(Target \ SelfScaling)

=============================================================================
