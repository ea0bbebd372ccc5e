------------------------------ MODULE PauseState ------------------------------
(***************************************************************************)
(* The pause and isolation state every maint.* agent keeps                 *)
(* (swarm/agents/maint/_pause_state.py).  Deadlines are relative: left is  *)
(* the time until auto-resume, counted down as the clock moves.            *)
(***************************************************************************)
EXTENDS Naturals

Running == [paused |-> FALSE, isolated |-> FALSE, left |-> 0]

MutantApplyPause(p, ttl) ==
    IF p.isolated THEN p ELSE [p EXCEPT !.paused = TRUE, !.left = ttl]

\* apply_pause: refused while isolated; a second pause only widens the deadline.
ApplyPause(p, ttl) ==
    IF p.isolated THEN p
    ELSE [p EXCEPT !.paused = TRUE,
                   !.left = IF p.paused /\ p.left > ttl THEN p.left ELSE ttl]

\* apply_resume: always succeeds and clears isolation too.
ApplyResume(p) == Running

\* expire_if_due: the deadline ends a pause, never an isolation.
Due(p) == p.paused /\ p.left = 0

ExpireIfDue(p) == IF Due(p) THEN [p EXCEPT !.paused = FALSE] ELSE p

\* The clock moves by one.
Elapsed(p) == [p EXCEPT !.left = IF @ > 0 THEN @ - 1 ELSE 0]

===============================================================================
