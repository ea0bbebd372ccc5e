------------------------- MODULE MCFreshnessPipeline -------------------------
(* Instances of FreshnessPipeline for TLC. *)
EXTENDS FreshnessPipeline, TLC

CONSTANTS r1, r2, a, b, neg, bad, p1, p2, p3

MCFeed == {<<r1, a>>, <<r1, b>>, <<r1, neg>>, <<r2, a>>, <<r2, bad>>}
MCLeagueOf == [v \in Value |-> IF v = b THEN "l2" ELSE "l1"]
MCPlaneOf == r1 :> "live" @@ r2 :> "schedule"
MCPredictors == <<p1, p2, p3>>

=============================================================================
