---------------------------- MODULE MCSpoolFlush ----------------------------
(* Instances of SpoolFlush for TLC. *)
EXTENDS SpoolFlush, TLC

\* Flushers and inodes are interchangeable, and so are messages of one class.
Plain == Message \ (Unknown \cup Outdated \cup Orphaned \cup Invalid \cup Rejected)
Symmetry == Permutations(Flusher) \cup Permutations(Inode) \cup Permutations(Plain)

\* The state without the history variables, which no guard reads.
Control == <<lockVars, pc, runVars, writeVars, drafts, retired, steady, ages, deaths, begun>>

=============================================================================
