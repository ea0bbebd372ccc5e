---------------------------- MODULE ReliableTopic ----------------------------
(***************************************************************************)
(* What a topic with a consumer group promises its producers, whatever     *)
(* crashes, retries and redeliveries happen inside it: an accepted message *)
(* stays outstanding until it is settled (handled, or dead-lettered).      *)
(* Nothing is promised about duplicates: a settled message may become      *)
(* outstanding again, when a slow consumer's copy of it fails and is       *)
(* published for a retry.                                                  *)
(***************************************************************************)
CONSTANT Message

VARIABLES
    outstanding,  \* ids with an entry that is undelivered or unacknowledged
    settled       \* ids handled or dead-lettered at least once

vars == <<outstanding, settled>>

Init == outstanding = {} /\ settled = {}

Accept(m) ==
    /\ m \notin outstanding \union settled
    /\ outstanding' = outstanding \union {m}
    /\ UNCHANGED settled

Settle(m) ==
    /\ m \in outstanding
    /\ settled' = settled \union {m}
    /\ UNCHANGED outstanding

Forget(m) ==
    /\ m \in outstanding \intersect settled
    /\ outstanding' = outstanding \ {m}
    /\ UNCHANGED settled

Revive(m) ==
    /\ m \in settled
    /\ outstanding' = outstanding \union {m}
    /\ UNCHANGED settled

Next == \E m \in Message : Accept(m) \/ Settle(m) \/ Forget(m) \/ Revive(m)

Spec == Init /\ [][Next]_vars

=============================================================================
