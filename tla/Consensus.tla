------------------------------ MODULE Consensus ------------------------------
(***************************************************************************)
(* The fusion agent consensus.v1 (swarm/agents/consensus.py) and the       *)
(* ledger it keeps (InMemoryLedger, swarm/agents/reactor.py).              *)
(*                                                                         *)
(* One fusion window per key (match_id, market, request_id) collects the   *)
(* votes of the expected predictors; it is finalized when all are in or    *)
(* when flush_expired finds it older than window_ms.  Requests and votes   *)
(* come from the bus, at least once and in any order.  The agent runs in   *)
(* one thread of one process; calibration tables are published while it    *)
(* runs.  What handle() and flush_expired() return is published by the     *)
(* runner, message by message, before it calls the agent again.            *)
(* Distributions and weights are left out: a vote is its predictor, and    *)
(* the fusion either works on it or raises.                                *)
(***************************************************************************)
EXTENDS Naturals, Sequences, FiniteSets

CONSTANTS
    Key,         \* (match_id, market, request_id)
    Predictor,   \* expected_predictors
    Unfusable,   \* votes with a distribution that the fusion raises on
    MaxPending,  \* consensus_max_pending
    LedgerSize,  \* reactor_ledger_max_size
    MaxVersion,  \* bound: calibration versions ever published
    MaxRestarts  \* bound: restarts of the process

ASSUME ConsensusAssumption ==
    /\ Predictor # {}
    /\ Unfusable \subseteq Key \X Predictor
    /\ MaxPending \in Nat \ {0}
    /\ LedgerSize \in Nat \ {0}
    /\ MaxVersion \in Nat \ {0}
    /\ MaxRestarts \in Nat

VARIABLES
    window,     \* _pending: the fusion window of each key
    older,      \* insertion order of _pending: pairs <<older key, newer key>>
    ledger,     \* InMemoryLedger._seen, oldest first
    version,    \* latest calibration version of the store
    outbox,     \* outcomes returned to the runner and not yet published
    outcomes,   \* outcomes on the bus: predict.final, or the no-votes flag
    \* history
    accepted,   \* predictors whose vote was accepted into the window of a key
    repeated,   \* prediction_ids issued again although never forgotten in between
    dropped,    \* keys whose last window was evicted, or it or its outcome lost
    spoiled,    \* prediction_ids marked by a call that raised, their outcomes lost
    forgotten,  \* prediction_ids the ledger has known and no longer knows
    restarts    \* restarts of the process so far

ledgerVars == <<ledger, forgotten>>
issueVars == <<ledgerVars, outbox, repeated, spoiled>>
vars == <<window, older, ledger, version, outbox, outcomes, accepted, repeated,
          dropped, spoiled, forgotten, restarts>>

\* A window that does not exist, and one as _PendingFusion creates it; version
\* 0 stands for a prediction_id that is not computed yet.
Closed == [st |-> "closed", voters |-> {}, version |-> 0, elapsed |-> FALSE]
Opened == [st |-> "open", voters |-> {}, version |-> 0, elapsed |-> FALSE]

\* An outcome: a predict.final, or the flag that nobody voted;
\* full says whether all votes accepted for the window were fused into it.
Outcome == [id : Key \X (1..MaxVersion), full : BOOLEAN]

Pending == {k \in Key : window[k].st = "open"}
Ready == {k \in Key : window[k].st = "ready"}

\* prediction_id: a digest of the key and the calibration version.
Ids == Key \X (1..MaxVersion)
Published == {o.id : o \in outcomes}
Returned == {outbox[i].id : i \in 1..Len(outbox)}
InLedger(id) == \E i \in 1..Len(ledger) : ledger[i] = id

\* The dict order without the pairs of the keys in K.
Without(K) == {p \in older : p[1] \notin K /\ p[2] \notin K}

Oldest(K, k) == k \in K /\ \A j \in K \ {k} : <<j, k>> \notin older
Init ==
    /\ window = [k \in Key |-> Closed]
    /\ older = {}
    /\ ledger = << >>
    /\ version = 1
    /\ outbox = << >>
    /\ outcomes = {}
    /\ accepted = [k \in Key |-> {}]
    /\ repeated = {}
    /\ dropped = {}
    /\ spoiled = {}
    /\ forgotten = {}
    /\ restarts = 0

-----------------------------------------------------------------------------
MutantUnmarked(id) == UNCHANGED ledgerVars

\* Ledger.mark_processed: the newest id at the end, the oldest one evicted
\* above the maximal size.
Mark(id) ==
    IF Len(ledger) < LedgerSize
    THEN ledger' = Append(ledger, id) /\ forgotten' = forgotten \ {id}
    ELSE /\ ledger' = Append(Tail(ledger), id)
         /\ forgotten' = (forgotten \ {id}) \union {Head(ledger)}

\* The prediction_id a window is finalized with: the calibration version is the
\* one of its first vote, or the latest one when nobody voted.
IdOf(k, w) == <<k, IF w.version = 0 THEN version ELSE w.version>>

\* The fusion of window w raises: market_outcomes or a score grid of one of its
\* votes is not a mapping of numbers.
FusionRaises(k, w) == \E p \in w.voters : <<k, p>> \in Unfusable

\* The keys that lose their outcome when the fusion raises: the one at hand
\* and, in a flush, those whose outcomes the same call had already made.
LostWith(k, w) ==
    IF ~InLedger(IdOf(k, w)) /\ FusionRaises(k, w)
    THEN {k} \union {id[1] : id \in Returned} ELSE {}

\* _finalize of the window w of key k: nothing when the ledger knows its
\* prediction_id; else mark it first, then return predict.final, or only a
\* flag when nobody voted.  The mark stays when the fusion raises; the outputs
\* of the call are gone then.  acc is what was accepted for the window.
Finalize(k, w, acc) ==
    LET id == IdOf(k, w)
    IN  \/ /\ InLedger(id)
           /\ UNCHANGED issueVars
        \/ /\ ~InLedger(id)
           /\ ~FusionRaises(k, w)
           /\ Mark(id)
           /\ outbox' = Append(outbox, [id |-> id, full |-> w.voters = acc])
           /\ spoiled' = spoiled \ {id}
           /\ repeated' = IF id \in (Published \union Returned) \ forgotten
                          THEN repeated \union {id} ELSE repeated
        \/ /\ ~InLedger(id)
           /\ FusionRaises(k, w)
           /\ Mark(id)
           /\ outbox' = << >>
           /\ spoiled' = spoiled \union Returned \union {id}
           /\ UNCHANGED repeated

-----------------------------------------------------------------------------
(* Operations of the agent: one thread, so no other one while a flush runs *)
(* or while the runner publishes what the last one returned                *)

Idle == Ready = {} /\ outbox = << >>

\* handle(predict.request) / note_request: opens the window, no bound check.
NoteRequest(k) ==
    /\ Idle
    /\ window[k].st = "closed"
    /\ window' = [window EXCEPT ![k] = Opened]
    /\ older' = older \union {<<j, k>> : j \in Pending}
    /\ dropped' = dropped \ {k}
    /\ UNCHANGED <<issueVars, version, outcomes, accepted, restarts>>

MutantAddVote(w, p) == {p}

\* A second vote of the same predictor replaces its first one.
AddVote(w, p) == w.voters \union {p}

\* handle(predict.vote) of predictor p in window w, opened before or now; the
\* prediction_id and the calibration version are computed on the first vote.
\* Evict is the key that makes room for a new window.
CastVote(k, p, w, Evict) ==
    LET id == IdOf(k, w)
        w1 == [st |-> "open", voters |-> AddVote(w, p), version |-> id[2], elapsed |-> w.elapsed]
        kept == (dropped \ {k}) \union Evict
        acc == accepted[k] \union {p}
        shut == [j \in Key |-> IF j \in Evict \union {k} THEN Closed ELSE window[j]]
        gone == [j \in Key |-> IF j \in Evict \union {k} THEN {} ELSE accepted[j]]
    IN  /\ UNCHANGED <<version, outcomes, restarts>>
        /\ \/ \* late vote: the window goes, nothing is published again
              /\ InLedger(id)
              /\ window' = shut
              /\ accepted' = gone
              /\ older' = Without(Evict \union {k})
              /\ dropped' = kept
              /\ UNCHANGED issueVars
           \/ \* the last expected vote
              /\ ~InLedger(id)
              /\ w1.voters = Predictor
              /\ window' = shut
              /\ accepted' = gone
              /\ older' = Without(Evict \union {k})
              /\ Finalize(k, w1, acc)
              /\ dropped' = kept \union LostWith(k, w1)
           \/ /\ ~InLedger(id)
              /\ w1.voters # Predictor
              /\ window' = [shut EXCEPT ![k] = w1]
              /\ accepted' = [gone EXCEPT ![k] = acc]
              /\ older' = Without(Evict) \union
                            {<<j, k>> : j \in {i \in Pending \ Evict : window[k].st = "closed"}}
              /\ dropped' = kept
              /\ UNCHANGED issueVars

\* A vote for a window that is open.
VoteOpen(k, p) ==
    /\ Idle
    /\ window[k].st = "open"
    /\ CastVote(k, p, window[k], {})

\* A vote for an unknown key with room in _pending.
VoteNew(k, p) ==
    /\ Idle
    /\ window[k].st = "closed"
    /\ Cardinality(Pending) < MaxPending
    /\ CastVote(k, p, Opened, {})

\* A vote for an unknown key when _pending is full: the oldest window is
\* evicted first (with an overflow flag, rate-limited, left out).
VoteEvict(k, p) ==
    /\ Idle
    /\ window[k].st = "closed"
    /\ Cardinality(Pending) >= MaxPending
    /\ \E e \in Pending : Oldest(Pending, e) /\ CastVote(k, p, Opened, {e})

MutantFlushEmptyOnly ==
    /\ Idle
    /\ \E k \in Pending : window[k].elapsed /\ window[k].voters = {}
    /\ window' = [k \in Key |->
                    IF k \in Pending /\ window[k].elapsed /\ window[k].voters = {}
                    THEN [st |-> "ready", voters |-> {}, version |-> window[k].version, elapsed |-> TRUE]
                    ELSE window[k]]
    /\ UNCHANGED <<issueVars, older, version, outcomes, accepted, dropped, restarts>>

\* flush_expired: all elapsed windows leave _pending ...
FlushExpired ==
    /\ Idle
    /\ \E k \in Pending : window[k].elapsed
    /\ window' = [k \in Key |->
                    IF k \in Pending /\ window[k].elapsed
                    THEN [st |-> "ready", voters |-> window[k].voters,
                          version |-> window[k].version, elapsed |-> TRUE]
                    ELSE window[k]]
    /\ UNCHANGED <<issueVars, older, version, outcomes, accepted, dropped, restarts>>

\* ... and are finalized in insertion order.  When the fusion of one raises,
\* flush_expired raises too: the runner goes on without the outcomes it had
\* made and without the windows it had yet to finalize.
FlushOne(k) ==
    LET ended == IF LostWith(k, window[k]) = {} THEN {k} ELSE Ready
    IN  /\ Oldest(Ready, k)
        /\ window' = [j \in Key |-> IF j \in ended THEN Closed ELSE window[j]]
        /\ accepted' = [j \in Key |-> IF j \in ended THEN {} ELSE accepted[j]]
        /\ older' = Without(ended)
        /\ Finalize(k, window[k], accepted[k])
        /\ dropped' = dropped \union LostWith(k, window[k]) \union (ended \ {k})
        /\ UNCHANGED <<version, outcomes, restarts>>

\* The runner publishes the outputs of handle() or flush_expired() in order.
PublishNext ==
    /\ Ready = {}
    /\ outbox # << >>
    /\ outcomes' = outcomes \union {Head(outbox)}
    /\ outbox' = Tail(outbox)
    /\ UNCHANGED <<window, older, ledgerVars, version, accepted, repeated, dropped, spoiled, restarts>>

-----------------------------------------------------------------------------
(* The environment *)

\* window_ms passes for a window.
Elapse(k) ==
    /\ window[k].st = "open"
    /\ ~window[k].elapsed
    /\ window' = [window EXCEPT ![k] = [st |-> "open", voters |-> @.voters,
                                        version |-> @.version, elapsed |-> TRUE]]
    /\ UNCHANGED <<issueVars, older, version, outcomes, accepted, dropped, restarts>>

\* CalibrationStore.publish: a new table version.
Calibrate ==
    /\ version < MaxVersion
    /\ version' = version + 1
    /\ UNCHANGED <<issueVars, window, older, outcomes, accepted, dropped, restarts>>

MutantLedgerAfter == ledger

\* The ledger of a new process: the only one in the repository is in memory.
LedgerAfter == << >>

\* The process dies and starts again, possibly between the mark of a
\* prediction and its publication: the windows and the messages it was about
\* to publish are gone, and the ledger with them.
Restart ==
    /\ restarts < MaxRestarts
    /\ restarts' = restarts + 1
    /\ window' = [k \in Key |-> Closed]
    /\ older' = {}
    /\ accepted' = [k \in Key |-> {}]
    /\ outbox' = << >>
    /\ ledger' = LedgerAfter
    /\ forgotten' = forgotten \union {ledger[i] : i \in 1..Len(ledger)}
    /\ dropped' = dropped \union Pending \union Ready \union {id[1] : id \in Returned}
    /\ spoiled' = {}
    /\ UNCHANGED <<version, outcomes, repeated>>

Handle == \E k \in Key :
    \/ NoteRequest(k)
    \/ \E p \in Predictor : VoteOpen(k, p) \/ VoteNew(k, p) \/ VoteEvict(k, p)

Flush == FlushExpired \/ \E k \in Key : FlushOne(k)

Next == Handle \/ Flush \/ PublishNext \/ (\E k \in Key : Elapse(k)) \/ Calibrate \/ Restart

Spec == Init /\ [][Next]_vars

\* Time passes, the runner calls flush_expired on a steady cadence, and it
\* publishes what it was given.
Fairness == WF_vars(Flush) /\ WF_vars(PublishNext) /\ \A k \in Key : WF_vars(Elapse(k))

FairSpec == Spec /\ Fairness

-----------------------------------------------------------------------------
(* Properties *)

\* Every variable has its type; the ledger is bounded.
TypeOK ==
    /\ window \in [Key -> [st : {"closed", "open", "ready"}, voters : SUBSET Predictor,
                           version : 0..MaxVersion, elapsed : BOOLEAN]]
    /\ older \subseteq Key \X Key
    /\ ledger \in Seq(Ids)
    /\ Len(ledger) <= LedgerSize
    /\ version \in 1..MaxVersion
    /\ outbox \in Seq(Outcome)
    /\ outcomes \subseteq Outcome
    /\ accepted \in [Key -> SUBSET Predictor]
    /\ repeated \subseteq Ids
    /\ dropped \subseteq Key
    /\ spoiled \subseteq Ids
    /\ forgotten \subseteq Ids
    /\ restarts \in 0..MaxRestarts

\* Single publication per prediction_id, as long as the ledger remembers it:
\* redelivered requests, late votes and flushes never give a second
\* predict.final (or no-votes flag) for a prediction_id unless the ledger has
\* forgotten it since the last one.
OncePerPrediction == repeated = {}

\* What the late-vote guard hides: an id that the ledger knows, and that
\* mark_processed wrote before there was anything to publish, is on the bus or
\* about to be, or the call that marked it has raised.  A death of the process
\* hides nothing.
MarkedIsPublished ==
    \A i \in 1..Len(ledger) : ledger[i] \in Published \union Returned \union spoiled

\* Every vote that was accepted into a window is fused into the outcome the
\* window is finalized with, whichever of handle and flush_expired does it.
AcceptedVotesFused ==
    /\ \A o \in outcomes : o.full
    /\ \A i \in 1..Len(outbox) : outbox[i].full

\* Every window is resolved in the end, whether predictors voted or not: it is
\* closed and its prediction_id has an outcome on the bus, unless the window
\* was evicted, it or its outcome lost in a restart or with a fusion that
\* raised, or its id is one that such a call had marked before (the vote the
\* runner retries is then dropped as late).
EventuallyResolved ==
    \A k \in Key, v \in 0..MaxVersion :
        (window[k].st = "open" /\ window[k].version = v) ~>
            /\ window[k].st # "open"
            /\ \/ k \in dropped
               \/ \E id \in Published \union spoiled : id[1] = k /\ v \in {0, id[2]}

=============================================================================
