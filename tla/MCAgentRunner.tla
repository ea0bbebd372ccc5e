---------------------------- MODULE MCAgentRunner ----------------------------
(* Instances of AgentRunner for TLC. *)
EXTENDS AgentRunner, TLC

\* Interchangeable runner lives; ids are not (some are Unsupported).
Symmetry == Permutations(Instance)

\* Where no id is Unsupported the ids are interchangeable too.
FullSymmetry == Permutations(Instance) \union Permutations(Message)

=============================================================================
