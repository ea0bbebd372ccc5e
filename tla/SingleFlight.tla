------------------------------ MODULE SingleFlight ------------------------------
(***************************************************************************)
(* src/swarm/sdk/singleflight.py: concurrent do() calls with the same key  *)
(* collapse to one execution of fn, while a background sweeper drops the   *)
(* flights that are too old.                                               *)
(*                                                                         *)
(* Every member of Caller is one call of do(key, fn).  A _Flight object is *)
(* created by exactly one call, its doer, and is named by it: result[d],   *)
(* error[d] and event[d] are the fields of the flight that d created.      *)
(* The blocks under self._lock are single steps; the reads and writes of   *)
(* the flight's fields outside the lock are steps of their own.            *)
(*                                                                         *)
(* What fn does is the caller's business: fn of an Aborting call leaves    *)
(* with an exception that is not an Exception (SystemExit,                 *)
(* CancelledError), every other fn returns or raises.                      *)
(***************************************************************************)
EXTENDS Naturals, FiniteSets

CONSTANTS Caller,        \* the calls of do()
          Key,           \* the stable request keys
          MaxInflight,   \* max_inflight
          Sweeping,      \* whether sweep_interval_s is set
          Aborting,      \* the calls whose fn leaves with a BaseException
          None           \* no flight

ASSUME SingleFlightAssumption ==
    /\ MaxInflight \in Nat \ {0}
    /\ Sweeping \in BOOLEAN
    /\ Aborting \subseteq Caller
    /\ None \notin Caller

VARIABLES pc,        \* where each call is
          key,       \* the key it was made with
          flight,    \* the flight it holds a reference to
          inflight,  \* self._inflight
          result,    \* flight.result is the value fn returned
          error,     \* flight.error
          event,     \* flight.event is set
          aged,      \* the flight is older than event_max_age_s
          sweeper,   \* the sweeper thread runs
          outcome    \* how each call ended

vars == <<pc, key, flight, inflight, result, error, event, aged, sweeper,
          outcome>>

fields == <<result, error, event, aged>>

Executing == {"fn", "returned", "raised"}

PcValue == {"new", "wait", "check", "read", "reraise", "fn", "returned",
            "raised", "pop", "wake", "done"}

Outcome == {"pending", "value", "nothing", "fn_error", "aborted", "orphaned",
            "overflow", "raise_none"}

Init ==
    /\ pc = [c \in Caller |-> "new"]
    /\ key \in [Caller -> Key]
    /\ flight = [c \in Caller |-> None]
    /\ inflight = [k \in Key |-> None]
    /\ result = [c \in Caller |-> FALSE]
    /\ error = [c \in Caller |-> "none"]
    /\ event = [c \in Caller |-> FALSE]
    /\ aged = [c \in Caller |-> FALSE]
    /\ sweeper = Sweeping
    /\ outcome = [c \in Caller |-> "pending"]

Goto(c, place) == pc' = [pc EXCEPT ![c] = place]

Ends(c, how) ==
    /\ Goto(c, "done")
    /\ outcome' = [outcome EXCEPT ![c] = how]

Inflight == {k \in Key : inflight[k] # None}

Overflowing == Cardinality(Inflight) >= MaxInflight

-----------------------------------------------------------------------------
(* do(): the block under the lock.                                         *)

\* The cap is tested before the lookup, so a call that would only have joined
\* an existing flight is refused too.
Refuse(c) ==
    /\ pc[c] = "new"
    /\ Overflowing
    /\ Ends(c, "overflow")
    /\ UNCHANGED <<key, flight, inflight, fields, sweeper>>

Join(c) ==
    /\ pc[c] = "new"
    /\ ~Overflowing
    /\ inflight[key[c]] # None
    /\ flight' = [flight EXCEPT ![c] = inflight[key[c]]]
    /\ Goto(c, "wait")
    /\ UNCHANGED <<key, inflight, fields, sweeper, outcome>>

\* Mutant: the flight is created without looking for an existing one.
MutantLead(c) ==
    /\ pc[c] = "new"
    /\ ~Overflowing
    /\ flight' = [flight EXCEPT ![c] = c]
    /\ inflight' = [inflight EXCEPT ![key[c]] = c]
    /\ Goto(c, "fn")
    /\ UNCHANGED <<key, fields, sweeper, outcome>>

Lead(c) ==
    /\ pc[c] = "new"
    /\ ~Overflowing
    /\ inflight[key[c]] = None
    /\ flight' = [flight EXCEPT ![c] = c]
    /\ inflight' = [inflight EXCEPT ![key[c]] = c]
    /\ Goto(c, "fn")
    /\ UNCHANGED <<key, fields, sweeper, outcome>>

-----------------------------------------------------------------------------
(* do(): the doer, outside the lock.                                       *)

\* fn() returned: flight.result = result.
FnReturns(c) ==
    /\ pc[c] = "fn"
    /\ c \notin Aborting
    /\ result' = [result EXCEPT ![c] = TRUE]
    /\ Goto(c, "returned")
    /\ UNCHANGED <<key, flight, inflight, error, event, aged, sweeper, outcome>>

\* flight.error = None.
ClearError(c) ==
    /\ pc[c] = "returned"
    /\ error' = [error EXCEPT ![c] = "none"]
    /\ Goto(c, "pop")
    /\ UNCHANGED <<key, flight, inflight, result, event, aged, sweeper, outcome>>

\* fn() raised an Exception: flight.result = None.
FnRaises(c) ==
    /\ pc[c] = "fn"
    /\ c \notin Aborting
    /\ result' = [result EXCEPT ![c] = FALSE]
    /\ Goto(c, "raised")
    /\ UNCHANGED <<key, flight, inflight, error, event, aged, sweeper, outcome>>

\* Mutant: the exception is raised to the doer's caller and not recorded.
MutantRecordError(c) ==
    /\ pc[c] = "raised"
    /\ Goto(c, "pop")
    /\ UNCHANGED <<key, flight, inflight, fields, sweeper, outcome>>

\* flight.error = err.
RecordError(c) ==
    /\ pc[c] = "raised"
    /\ error' = [error EXCEPT ![c] = "fn_error"]
    /\ Goto(c, "pop")
    /\ UNCHANGED <<key, flight, inflight, result, event, aged, sweeper, outcome>>

\* fn() left with an exception that `except Exception` does not catch: only
\* the finally block runs.
FnAborts(c) ==
    /\ pc[c] = "fn"
    /\ c \in Aborting
    /\ Goto(c, "pop")
    /\ UNCHANGED <<key, flight, inflight, fields, sweeper, outcome>>

\* self._inflight.pop(key, None), under the lock: by key, whatever flight is
\* there.
Pop(c) ==
    /\ pc[c] = "pop"
    /\ inflight' = [inflight EXCEPT ![key[c]] = None]
    /\ Goto(c, "wake")
    /\ UNCHANGED <<key, flight, fields, sweeper, outcome>>

\* What the doer's own do() hands to its caller: what fn did, not what the
\* flight says now.
DoerOutcome(c) ==
    IF c \in Aborting THEN "aborted"
    ELSE IF result[c] THEN "value" ELSE "fn_error"

\* Mutant: the event is set only when the flight is still the one in the map.
MutantWake(c) ==
    /\ pc[c] = "wake"
    /\ event' = [event EXCEPT ![c] = event[c] \/ inflight[key[c]] = c]
    /\ Ends(c, DoerOutcome(c))
    /\ UNCHANGED <<key, flight, inflight, result, error, aged, sweeper>>

\* flight.event.set(), outside the lock, and do() is over.
Wake(c) ==
    /\ pc[c] = "wake"
    /\ event' = [event EXCEPT ![c] = TRUE]
    /\ Ends(c, DoerOutcome(c))
    /\ UNCHANGED <<key, flight, inflight, result, error, aged, sweeper>>

-----------------------------------------------------------------------------
(* do(): a waiter, outside the lock.                                       *)

Awake(c) ==
    /\ pc[c] = "wait"
    /\ event[flight[c]]
    /\ Goto(c, "check")
    /\ UNCHANGED <<key, flight, inflight, fields, sweeper, outcome>>

\* if flight.error is not None
CheckError(c) ==
    /\ pc[c] = "check"
    /\ Goto(c, IF error[flight[c]] = "none" THEN "read" ELSE "reraise")
    /\ UNCHANGED <<key, flight, inflight, fields, sweeper, outcome>>

\* raise flight.error: a second read of the field.
Reraise(c) ==
    /\ pc[c] = "reraise"
    /\ Ends(c, IF error[flight[c]] = "none" THEN "raise_none"
               ELSE error[flight[c]])
    /\ UNCHANGED <<key, flight, inflight, fields, sweeper>>

\* return flight.result
ReadResult(c) ==
    /\ pc[c] = "read"
    /\ Ends(c, IF result[flight[c]] THEN "value" ELSE "nothing")
    /\ UNCHANGED <<key, flight, inflight, fields, sweeper>>

-----------------------------------------------------------------------------
(* The sweeper.                                                            *)

\* Time passes: a flight in the map reaches event_max_age_s.
Age(k) ==
    /\ Sweeping
    /\ inflight[k] # None
    /\ ~aged[inflight[k]]
    /\ aged' = [aged EXCEPT ![inflight[k]] = TRUE]
    /\ UNCHANGED <<pc, key, flight, inflight, result, error, event, sweeper,
                   outcome>>

Orphans == {k \in Inflight : aged[inflight[k]]}

\* Mutant: the waiters are woken without an error.
MutantSweep ==
    LET swept == {inflight[k] : k \in Orphans} IN
    /\ sweeper
    /\ Orphans # {}
    /\ inflight' = [k \in Key |-> IF k \in Orphans THEN None ELSE inflight[k]]
    /\ event' = [c \in Caller |-> event[c] \/ c \in swept]
    /\ UNCHANGED <<pc, key, flight, result, error, aged, sweeper, outcome>>

\* _sweep_once, under the lock: every aged flight leaves the map, gets the
\* orphan error and wakes its waiters.
Sweep ==
    LET swept == {inflight[k] : k \in Orphans} IN
    /\ sweeper
    /\ Orphans # {}
    /\ inflight' = [k \in Key |-> IF k \in Orphans THEN None ELSE inflight[k]]
    /\ error' = [c \in Caller |-> IF c \in swept THEN "orphaned" ELSE error[c]]
    /\ event' = [c \in Caller |-> event[c] \/ c \in swept]
    /\ UNCHANGED <<pc, key, flight, result, aged, sweeper, outcome>>

\* stop(): the sweeper thread ends and is not started again.
Stop ==
    /\ sweeper
    /\ sweeper' = FALSE
    /\ UNCHANGED <<pc, key, flight, inflight, fields, outcome>>

-----------------------------------------------------------------------------
Do(c) ==
    \/ Refuse(c) \/ Join(c) \/ Lead(c)
    \/ FnReturns(c) \/ ClearError(c) \/ FnRaises(c) \/ RecordError(c)
    \/ FnAborts(c) \/ Pop(c) \/ Wake(c)
    \/ Awake(c) \/ CheckError(c) \/ Reraise(c) \/ ReadResult(c)

Next ==
    \/ \E c \in Caller : Do(c)
    \/ \E k \in Key : Age(k)
    \/ Sweep
    \/ Stop

Spec == Init /\ [][Next]_vars

(***************************************************************************)
(* Every thread is scheduled, fn leaves in one way or another, time       *)
(* passes, and the sweeper's timed wait expires.  Nothing forces stop().   *)
(***************************************************************************)
Fairness ==
    /\ \A c \in Caller : WF_vars(Do(c))
    /\ \A k \in Key : WF_vars(Age(k))
    /\ WF_vars(Sweep)

FairSpec == Spec /\ Fairness

-----------------------------------------------------------------------------
(* Properties.                                                             *)

Doing(c) == pc[c] \in Executing

\* Every variable has its type: no waiter finds its flight gone, and every call
\* of do() ends in one of the outcomes the code has.
TypeOK ==
    /\ pc \in [Caller -> PcValue]
    /\ key \in [Caller -> Key]
    /\ flight \in [Caller -> Caller \cup {None}]
    /\ inflight \in [Key -> Caller \cup {None}]
    /\ result \in [Caller -> BOOLEAN]
    /\ error \in [Caller -> {"none", "fn_error", "orphaned"}]
    /\ event \in [Caller -> BOOLEAN]
    /\ aged \in [Caller -> BOOLEAN]
    /\ sweeper \in BOOLEAN
    /\ outcome \in [Caller -> Outcome]

\* No call with this key has outlived event_max_age_s.
Prompt(k) == \A c \in Caller : key[c] = k => ~aged[c]

\* Until a flight of the key outlives event_max_age_s, two calls with the same
\* key never run fn at the same time (do(): "only the first performs the
\* work").  Once one has, it does not hold even for the younger flights: the
\* swept doer pops by key, and so removes the flight of its successor.
SingleDoer ==
    \A c, d \in Caller :
        /\ Doing(c) /\ Doing(d)
        /\ key[c] = key[d] /\ Prompt(key[c])
        => c = d

\* Calls that share a flight end the same way: the doer and its waiters all
\* return fn's value, or all raise its exception (class docstring: "all receive
\* the same result (or exception)"), whatever happens to other flights of the
\* key.  The exceptions are a flight the sweeper may take, and one whose fn
\* left with a BaseException, which is not recorded.
SharedOutcome ==
    \A c, d \in Caller :
        /\ flight[c] # None /\ flight[c] = flight[d]
        /\ ~aged[flight[c]] /\ flight[c] \notin Aborting
        /\ pc[c] = "done" /\ pc[d] = "done"
        => outcome[c] = outcome[d]

\* The entry a doer put in _inflight never survives its do(): the finally
\* block runs on every way out of fn, so no dead entry counts against the cap
\* or lets later calls wait for nobody.
NoLeak ==
    \A k \in Key :
        inflight[k] # None => pc[inflight[k]] \in Executing \cup {"pop"}

\* A waiter leaves with what happened to its flight, even when the sweeper's
\* wake-up races with the doer's unlocked writes of result and error: a value
\* only when fn returned one, fn's exception only when fn raised, and neither
\* of them only when fn was torn down by a BaseException.
HonestAnswer ==
    \A c \in Caller :
        /\ outcome[c] = "value" => result[flight[c]]
        /\ outcome[c] = "fn_error" => error[flight[c]] # "none"
                                      /\ ~result[flight[c]]
        /\ outcome[c] = "nothing" => flight[c] \in Aborting

\* Every call of do() returns, swept or not.
EveryCallReturns == \A c \in Caller : <>(pc[c] = "done")

=============================================================================
