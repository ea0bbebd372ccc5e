-------------------------- MODULE FreshnessPipeline --------------------------
(***************************************************************************)
(* The path from a scraped record to the work it triggers: StorageAgent    *)
(* (swarm/agents/storage.py) upserts match.normalized records and          *)
(* announces each change on freshness.events.v1; the reactors              *)
(* (swarm/agents/reactor.py) consume that topic, each in a group of its    *)
(* own, and emit predict.request and models.events.v1.                     *)
(*                                                                         *)
(* Every agent runs under an AgentRunner: handle() returns the outputs,    *)
(* which are then published one by one before the entry is acknowledged.   *)
(* A crash between any two of these steps loses the agent's memory (its    *)
(* store, ledger or debounce clock, all in-process) and leaves the entries *)
(* it had read to be reclaimed by its next life.                           *)
(***************************************************************************)
EXTENDS Naturals, Sequences, FiniteSets, Bags, SequencesExt

CONSTANTS
    Record,        \* (source, source_match_id, record_type) keys
    Value,         \* payloads of a record
    Malformed,     \* payloads NormalizedRecord.from_dict refuses
    Terminal,      \* payloads with a terminal status and both final scores
    Impossible,    \* those whose scores MatchOutcome refuses: negative ones
    LeagueOf,      \* the league_id a payload carries
    PlaneOf,       \* the plane of a record
    Feed,          \* the <<record, payload>> pairs the processors may publish
    Predictors,    \* TrainerReactor._predictor_ids, in order
    Drifting,      \* predictors whose accuracy is below accuracy_floor
    Reactor,       \* the reactors deployed, of "live" and "trainer"
    RetryBudget,   \* AgentRunner.retry_budget
    MaxInFlight,   \* AgentRunner.max_in_flight
    LedgerSize,    \* InMemoryLedger max_size
    MaxScrapes,    \* bound: records the processors publish
    MaxFaults      \* bound: crashes, raising accuracy_lookups and passings of
                   \* max_age_sec or debounce_sec, all together

ASSUME PipelineAssumption ==
    /\ Reactor \subseteq {"live", "trainer"}
    /\ Malformed \subseteq Value /\ Terminal \subseteq Value /\ Impossible \subseteq Terminal
    /\ Feed \subseteq Record \X Value
    /\ Predictors \in Seq(Range(Predictors)) /\ IsInjective(Predictors)
    /\ PlaneOf \in [Record -> {"live", "market", "schedule"}]
    /\ RetryBudget \in Nat \ {0}
    /\ MaxInFlight \in Nat \ {0}
    /\ LedgerSize \in Nat \ {0}
    /\ {MaxScrapes, MaxFaults} \subseteq Nat

VARIABLES
    \* the bus
    norm,      \* Seq of <<record, payload, attempt>>: match.normalized
    fresh,     \* Seq of entries: freshness.events.v1
    sent,      \* bag of the messages on the other topics
    offset,    \* per agent, the last handle its group has read
    orphan,    \* per agent, handles its dead lives had read and not acknowledged
    \* the runners
    batch,     \* per agent, the handles read and still to be processed
    cur,       \* per agent, the handle in _process, 0 for none
    todo,      \* per agent, outputs still to be published
    \* the agents
    store,     \* the rows of InMemoryRecordStore: the handle that wrote each, 0 for none
    ledger,    \* per reactor, the event ids of InMemoryLedger, oldest first
    trained,   \* per predictor, the change that stamped _last_trained less than
               \* debounce_sec ago, 0 for none
    old,       \* the events of changes 1..old are older than max_age_sec
    \* history
    changes,   \* Seq of the store's changes
    forgets,   \* bag of the event ids the live reactor's ledger has lost
    seen,      \* handles this life of the storage agent has handled
    reclaimed, \* handles the storage agent has reclaimed
    wasted,    \* predictors stamped by a reaction that then raised
    faults

busVars == <<norm, fresh, sent, offset, orphan>>
runnerVars == <<batch, cur, todo>>
memoryVars == <<store, ledger, trained>>
historyVars == <<changes, forgets, seen, reclaimed, wasted, faults>>
vars == <<busVars, runnerVars, memoryVars, old, historyVars>>

Agent == {"storage"} \union Reactor
Predictor == Range(Predictors)

\* The topic an agent subscribes to.
Input(a) == IF a = "storage" THEN norm ELSE fresh

AllowedPlanes(a) == IF a = "live" THEN {"live", "market"} ELSE {"schedule", "live"}

\* _PLANE_MARKETS, in the order react() walks it.
Markets(plane) ==
    CASE plane = "live" -> <<"1x2", "ah">>
      [] plane = "market" -> <<"ah", "ou_2_5", "btts">>
      [] OTHER -> << >>

-----------------------------------------------------------------------------
(* Changes and their event ids *)

RowValue(r) == norm[store[r]][2]

Unchanged(r, v) == store[r] # 0 /\ RowValue(r) = v

(***************************************************************************)
(* The change upsert(rec) makes: the kind, and the key-level diff, which   *)
(* is empty for a created row.                                             *)
(***************************************************************************)
Change(h, r, v) ==
    IF store[r] = 0
    THEN [rec |-> r, kind |-> "created", diff |-> << >>, by |-> h]
    ELSE [rec |-> r, kind |-> "updated", diff |-> <<RowValue(r), v>>, by |-> h]

\* derive_event_id: a hash of the record, the kind and the diff.
EventId(c) == <<c.rec, c.kind, c.diff>>

IdOf(n) == EventId(changes[n])

\* ev.diff carries a league_id exactly when the update changed it.
LeagueChanged(n) ==
    /\ changes[n].kind = "updated"
    /\ LeagueOf[changes[n].diff[1]] # LeagueOf[changes[n].diff[2]]

Fault == faults < MaxFaults /\ faults' = faults + 1

Out(topic, n, arg) == [topic |-> topic, change |-> n, arg |-> arg]

Init ==
    /\ norm = << >> /\ fresh = << >> /\ sent = EmptyBag
    /\ offset = [a \in Agent |-> 0]
    /\ orphan = [a \in Agent |-> {}]
    /\ batch = [a \in Agent |-> {}]
    /\ cur = [a \in Agent |-> 0]
    /\ todo = [a \in Agent |-> << >>]
    /\ store = [r \in Record |-> 0]
    /\ ledger = [a \in Reactor |-> << >>]
    /\ trained = [p \in Predictor |-> 0]
    /\ old = 0
    /\ changes = << >>
    /\ forgets = EmptyBag
    /\ seen = {} /\ reclaimed = {} /\ wasted = {} /\ faults = 0

-----------------------------------------------------------------------------
(* The runner around each agent *)

\* The entries that are no retry copies.
Originals == {h \in DOMAIN norm : norm[h][3] = 0}

\* A processor publishes a normalized record.
Scrape(p) ==
    /\ Cardinality(Originals) < MaxScrapes
    /\ norm' = Append(norm, <<p[1], p[2], 0>>)
    /\ UNCHANGED <<fresh, sent, offset, orphan, runnerVars, memoryVars, old, historyVars>>

Waiting(a) == cur[a] = 0 /\ batch[a] = {}

Held(a) == orphan[a] \union batch[a] \union ({cur[a]} \ {0})

Acked(a) == (1..offset[a]) \ Held(a)

\* The next entries of the stream, at most MaxInFlight of them.
ReadUpTo(a) ==
    IF Len(Input(a)) < offset[a] + MaxInFlight THEN Len(Input(a)) ELSE offset[a] + MaxInFlight

Read(a) ==
    /\ Waiting(a) /\ offset[a] < Len(Input(a))
    /\ batch' = [batch EXCEPT ![a] = (offset[a] + 1)..ReadUpTo(a)]
    /\ offset' = [offset EXCEPT ![a] = ReadUpTo(a)]
    /\ UNCHANGED <<norm, fresh, sent, orphan, cur, todo, memoryVars, old, historyVars>>

\* The first MaxInFlight members of a set of handles, in stream order.
FirstOf(H) == {h \in H : Cardinality({j \in H : j < h}) < MaxInFlight}

MutantReclaimFullBatch(a) ==
    /\ Waiting(a) /\ Cardinality(orphan[a]) >= MaxInFlight
    /\ batch' = [batch EXCEPT ![a] = FirstOf(orphan[a])]
    /\ orphan' = [orphan EXCEPT ![a] = @ \ FirstOf(@)]
    /\ reclaimed' = IF a = "storage" THEN reclaimed \union FirstOf(orphan[a]) ELSE reclaimed
    /\ UNCHANGED <<norm, fresh, sent, offset, cur, todo, memoryVars, old,
                   changes, forgets, seen, wasted, faults>>

\* pending_claim_sec after a crash the next life claims what it left behind,
\* before or after it has read newer entries.
Reclaim(a) ==
    /\ Waiting(a) /\ orphan[a] # {}
    /\ batch' = [batch EXCEPT ![a] = FirstOf(orphan[a])]
    /\ orphan' = [orphan EXCEPT ![a] = @ \ FirstOf(@)]
    /\ reclaimed' = IF a = "storage" THEN reclaimed \union FirstOf(orphan[a]) ELSE reclaimed
    /\ UNCHANGED <<norm, fresh, sent, offset, cur, todo, memoryVars, old,
                   changes, forgets, seen, wasted, faults>>

MutantTurn(a, h) == h \in batch[a] /\ \A k \in batch[a] : k <= h

\* A batch is processed in stream order.
Turn(a, h) == h \in batch[a] /\ \A k \in batch[a] : h <= k

(***************************************************************************)
(* _process(h): the handler has returned outs (or raised, and outs is the  *)
(* retry or the dead letter _handle_failure publishes).                    *)
(***************************************************************************)
Begin(a, h, outs) ==
    /\ cur[a] = 0 /\ Turn(a, h)
    /\ cur' = [cur EXCEPT ![a] = h]
    /\ batch' = [batch EXCEPT ![a] = @ \ {h}]
    /\ todo' = [todo EXCEPT ![a] = outs]
    /\ UNCHANGED busVars

Publish(a) ==
    /\ todo[a] # << >>
    /\ LET o == Head(todo[a]) IN
         \/ /\ o.topic = "match.normalized"
            /\ norm' = Append(norm, o.arg)
            /\ UNCHANGED <<fresh, sent>>
         \/ /\ o.topic = "freshness.events.v1"
            /\ fresh' = Append(fresh, [change |-> o.change, attempt |-> o.arg])
            /\ UNCHANGED <<norm, sent>>
         \/ /\ o.topic \notin {"match.normalized", "freshness.events.v1"}
            /\ sent' = sent (+) SetToBag({o})
            /\ UNCHANGED <<norm, fresh>>
    /\ todo' = [todo EXCEPT ![a] = Tail(@)]
    /\ UNCHANGED <<offset, orphan, batch, cur, memoryVars, old, historyVars>>

Ack(a) ==
    /\ cur[a] # 0 /\ todo[a] = << >>
    /\ cur' = [cur EXCEPT ![a] = 0]
    /\ UNCHANGED <<busVars, batch, todo, memoryVars, old, historyVars>>

-----------------------------------------------------------------------------
(* StorageAgent.handle *)

\* The outputs of a change: match.stored, the freshness event, the outcome.
Announcement(n, kind, v) ==
    <<Out("match.stored", n, kind), Out("freshness.events.v1", n, 0)>>
        \o (IF v \in Terminal THEN <<Out("match.outcome.v1", n, v)>> ELSE << >>)

StoreMalformed(h) ==
    /\ norm[h][2] \in Malformed
    /\ Begin("storage", h, << >>)
    /\ UNCHANGED <<store, changes>>

StoreUnchanged(h) ==
    /\ Unchanged(norm[h][1], norm[h][2])
    /\ Begin("storage", h, <<Out("match.stored", 0, "unchanged")>>)
    /\ UNCHANGED <<store, changes>>

\* upsert writes the payload of h, which is not the row's.
Upsert(h) ==
    LET r == norm[h][1] v == norm[h][2] IN
    /\ v \notin Malformed
    /\ ~Unchanged(r, v)
    /\ store' = [store EXCEPT ![r] = h]
    /\ changes' = Append(changes, Change(h, r, v))

StoreChange(h) ==
    LET r == norm[h][1] v == norm[h][2] IN
    /\ v \notin Impossible
    /\ Upsert(h)
    /\ Begin("storage", h, Announcement(Len(changes'), Change(h, r, v).kind, v))

\* _handle_failure: a copy with the next attempt, or the dead letter.
StoreFailure(e) ==
    IF e[3] + 1 >= RetryBudget
    THEN <<Out("match.normalized.dlq", 0, e)>>
    ELSE <<Out("match.normalized", 0, <<e[1], e[2], e[3] + 1>>)>>

\* The row is written when MatchOutcome raises, and no output is left of it.
StoreRaises(h) ==
    /\ norm[h][2] \in Impossible
    /\ Upsert(h)
    /\ Begin("storage", h, StoreFailure(norm[h]))

Store ==
    /\ \E h \in batch["storage"] :
         /\ StoreMalformed(h) \/ StoreUnchanged(h) \/ StoreChange(h) \/ StoreRaises(h)
         /\ seen' = seen \union {h}
    /\ UNCHANGED <<ledger, trained, old, forgets, reclaimed, wasted, faults>>

-----------------------------------------------------------------------------
(* ReactorBase.handle *)

\* move_to_end(id) of an id the ledger holds.
Renewed(l, id) == Append(RemoveAt(l, CHOOSE i \in DOMAIN l : l[i] = id), id)

MutantMarked(l, id) == IF Contains(l, id) THEN Renewed(l, id) ELSE Append(l, id)

\* InMemoryLedger.mark_processed: at most LedgerSize ids, the oldest forgotten.
Marked(l, id) ==
    IF Contains(l, id) THEN Renewed(l, id)
    ELSE Append(IF Len(l) < LedgerSize THEN l ELSE Tail(l), id)

\* The reaction to id is complete: mark it, note an id the live ledger drops.
Mark(a, id) ==
    /\ ledger' = [ledger EXCEPT ![a] = Marked(@, id)]
    /\ forgets' = IF a = "live"
                  THEN forgets (+) SetToBag(Range(ledger[a]) \ Range(ledger'[a]))
                  ELSE forgets

\* The plane, age and idempotency guards.
InScope(a, n) == PlaneOf[changes[n].rec] \in AllowedPlanes(a)

Known(a, n) == Contains(ledger[a], IdOf(n))

MutantGuardedOut(a, n) == ~InScope(a, n) \/ n <= old

GuardedOut(a, n) == ~InScope(a, n) \/ n <= old \/ Known(a, n)

Ignore(a, h) ==
    /\ GuardedOut(a, fresh[h].change)
    /\ Begin(a, h, << >>)
    /\ UNCHANGED <<ledger, forgets, trained, wasted, faults>>

\* The request of LivePredictorReactor: its request_id names the event id and the
\* market, and the rest of it follows from the event.
Request(id, m) == Out("predict.request", 0, <<id, m>>)

\* LivePredictorReactor.react: one predict.request for each market of the plane.
Requests(n) ==
    LET ms == Markets(PlaneOf[changes[n].rec]) IN
    [i \in DOMAIN ms |-> Request(IdOf(n), ms[i])]

ReactLive(h) ==
    LET n == fresh[h].change IN
    /\ ~GuardedOut("live", n)
    /\ Begin("live", h, Requests(n))
    /\ Mark("live", IdOf(n))
    /\ UNCHANGED <<trained, wasted, faults>>

\* _handle_failure: a copy with the next attempt, which every reactor's group
\* reads, or the dead letter.
Failure(n, attempt) ==
    IF attempt + 1 >= RetryBudget
    THEN <<Out("freshness.events.v1.dlq", n, attempt)>>
    ELSE <<Out("freshness.events.v1", n, attempt + 1)>>

(***************************************************************************)
(* TrainerReactor.react.  The predictors are taken in order: one stamped   *)
(* less than debounce_sec ago is skipped, so is one whose accuracy is low; *)
(* the others are stamped and get a model.trained message.  The slice key  *)
(* holds ev.diff's league_id, for a changed league the [before, after]     *)
(* list of _shallow_diff, which cannot be hashed: the first lookup raises. *)
(***************************************************************************)
Due(S) == {p \in S \ Drifting : trained[p] = 0}

MutantStamp(S, n) == [p \in Predictor |-> IF trained[p] = 0 THEN n ELSE trained[p]]

Stamp(S, n) == [p \in Predictor |-> IF p \in S THEN n ELSE trained[p]]

\* The members of S, in the order of Predictors.
Listed(S) ==
    {s \in SeqOf(S, Len(Predictors)) :
        /\ Range(s) = S
        /\ \A i, j \in DOMAIN s : i < j =>
             \E k, l \in DOMAIN Predictors :
                 k < l /\ s[i] = Predictors[k] /\ s[j] = Predictors[l]}

ReactTrainer(h) ==
    LET n == fresh[h].change IN
    /\ ~GuardedOut("trainer", n) /\ ~LeagueChanged(n)
    /\ \E due \in Listed(Due(Predictor)) :
         Begin("trainer", h, [i \in DOMAIN due |-> Out("models.events.v1", n, due[i])])
    /\ trained' = Stamp(Due(Predictor), n)
    /\ wasted' = wasted \ Due(Predictor)
    /\ Mark("trainer", IdOf(n))
    /\ UNCHANGED faults

\* accuracy_lookup raises for the k-th predictor: the ones before it are stamped.
TrainerRaises(h) ==
    \E k \in DOMAIN Predictors :
        LET n == fresh[h].change
            stamped == Due({Predictors[i] : i \in 1..(k - 1)}) IN
        /\ ~GuardedOut("trainer", n) /\ ~LeagueChanged(n)
        /\ trained[Predictors[k]] = 0
        /\ Fault
        /\ Begin("trainer", h, Failure(n, fresh[h].attempt))
        /\ trained' = Stamp(stamped, n)
        /\ wasted' = wasted \union stamped
        /\ UNCHANGED <<ledger, forgets>>

TrainerUnhashable(h) ==
    LET n == fresh[h].change IN
    /\ ~GuardedOut("trainer", n) /\ LeagueChanged(n)
    /\ Begin("trainer", h, Failure(n, fresh[h].attempt))
    /\ UNCHANGED <<ledger, forgets, trained, wasted, faults>>

React(a) ==
    /\ \E h \in batch[a] :
         \/ Ignore(a, h)
         \/ a = "live" /\ ReactLive(h)
         \/ a = "trainer" /\ (ReactTrainer(h) \/ TrainerRaises(h) \/ TrainerUnhashable(h))
    /\ UNCHANGED <<store, old, changes, seen, reclaimed>>

-----------------------------------------------------------------------------
(* Crashes and clocks *)

\* What a new life of an agent knows: the store and the ledger are in-process.
MutantStoreAfter(a) == store

StoreAfter(a) == IF a = "storage" THEN [r \in Record |-> 0] ELSE store

MutantLedgerAfter(a) == ledger

LedgerAfter(a) == [b \in Reactor |-> IF a = b THEN << >> ELSE ledger[b]]

TrainedAfter(a) == IF a = "trainer" THEN [p \in Predictor |-> 0] ELSE trained

Crash(a) ==
    /\ Fault
    /\ orphan' = [orphan EXCEPT ![a] = Held(a)]
    /\ cur' = [cur EXCEPT ![a] = 0]
    /\ batch' = [batch EXCEPT ![a] = {}]
    /\ todo' = [todo EXCEPT ![a] = << >>]
    /\ store' = StoreAfter(a) /\ ledger' = LedgerAfter(a) /\ trained' = TrainedAfter(a)
    /\ forgets' = IF a = "live" THEN forgets (+) SetToBag(Range(ledger[a])) ELSE forgets
    /\ seen' = IF a = "storage" THEN {} ELSE seen
    /\ wasted' = IF a = "trainer" THEN {} ELSE wasted
    /\ UNCHANGED <<norm, fresh, sent, offset, old, changes, reclaimed>>

\* max_age_sec passes for the events of changes 1..n.
Age(n) ==
    /\ Fault
    /\ old < n
    /\ old' = n
    /\ UNCHANGED <<busVars, runnerVars, memoryVars, changes, forgets, seen,
                   reclaimed, wasted>>

\* debounce_sec passes for every predictor.
Elapse ==
    /\ \E p \in Predictor : trained[p] # 0
    /\ Fault
    /\ trained' = [p \in Predictor |-> 0]
    /\ wasted' = {}
    /\ UNCHANGED <<busVars, runnerVars, store, ledger, old, changes, forgets,
                   seen, reclaimed>>

Step(a) ==
    \/ Read(a) \/ Reclaim(a) \/ Publish(a) \/ Ack(a)
    \/ a = "storage" /\ Store
    \/ a \in Reactor /\ React(a)

Next ==
    \/ \E p \in Feed : Scrape(p)
    \/ \E a \in Agent : Step(a) \/ Crash(a)
    \/ \E n \in DOMAIN changes : Age(n)
    \/ Elapse

Spec == Init /\ [][Next]_vars

FairSpec == Spec /\ \A a \in Agent : WF_vars(Step(a))

-----------------------------------------------------------------------------
(* Properties *)

EventIds == {IdOf(n) : n \in DOMAIN changes}

\* Every variable has its type, handles and changes refer to what is there, and
\* no ledger outgrows LedgerSize.
TypeOK ==
    /\ norm \in Seq(Record \X Value \X (0..(RetryBudget - 1)))
    /\ changes \in Seq([rec : Record, kind : {"created", "updated"}, diff : Seq(Value),
                        by : DOMAIN norm])
    /\ fresh \in Seq([change : DOMAIN changes, attempt : 0..(RetryBudget - 1)])
    /\ \A a \in Agent :
         /\ offset[a] \in 0..Len(Input(a))
         /\ Held(a) \subseteq 1..offset[a]
         /\ cur[a] = 0 => todo[a] = << >>
    /\ store \in [Record -> 0..Len(norm)]
    /\ \A a \in Reactor : ledger[a] \in Seq(EventIds) /\ Len(ledger[a]) <= LedgerSize
    /\ trained \in [Predictor -> 0..Len(changes)]
    /\ old \in 0..Len(changes)

LastChange(r) ==
    CHOOSE n \in DOMAIN changes :
        changes[n].rec = r /\ \A k \in DOMAIN changes : changes[k].rec = r => k <= n

(***************************************************************************)
(* A row of the store is never changed in silence but by a payload whose   *)
(* match outcome cannot be built: the freshness event of its last change   *)
(* is on the stream, or among the outputs the storage agent is about to    *)
(* publish, whatever crashed, raised or was retried before                 *)
(* (storage.py StorageAgent.handle).                                       *)
(***************************************************************************)
ChangeAnnounced ==
    \A r \in Record : store[r] # 0 /\ RowValue(r) \notin Impossible =>
        \/ \E h \in DOMAIN fresh : fresh[h].change = LastChange(r)
        \/ Out("freshness.events.v1", LastChange(r), 0) \in Range(todo["storage"])

(***************************************************************************)
(* The store falls behind a newer payload this life of the agent has       *)
(* already upserted only through an entry reclaimed from a dead life or    *)
(* the retry copy of one that raised: upsert keeps canonical_version and   *)
(* never compares it (storage.py 90).                                      *)
(***************************************************************************)
RowBehindOnlyByReplay ==
    \A r \in Record : store[r] # 0 =>
        LET newer == {k \in seen \intersect Originals :
                        norm[k][1] = r /\ norm[k][2] \notin Malformed} IN
        \/ \A k \in newer : (\A j \in newer : j <= k) => norm[k][2] = RowValue(r)
        \/ store[r] \in reclaimed \/ store[r] \notin Originals

(***************************************************************************)
(* An event the live reactor's group has acknowledged, in scope and not    *)
(* aged out, has all its requests on the bus: the ledger never swallows a  *)
(* reaction whose outputs a crash cut short (reactor.py ReactorBase.handle *)
(* "never silently swallows it").                                          *)
(***************************************************************************)
AckedEventReacted ==
    "live" \in Reactor =>
        \A h \in Acked("live") :
            LET n == fresh[h].change IN
            n > old /\ InScope("live", n) =>
                \A m \in Range(Markets(PlaneOf[changes[n].rec])) :
                    BagIn(Request(IdOf(n), m), sent)

Copies(e, B) == IF BagIn(e, B) THEN B[e] ELSE 0

(***************************************************************************)
(* A request is published again only when the live reactor's ledger had    *)
(* lost its event id, by eviction or with its process: retry copies of the *)
(* trainer and replays of the storage agent do not repeat it.              *)
(***************************************************************************)
RequestOncePerMemory ==
    "live" \in Reactor =>
        \A id \in EventIds, m \in {"1x2", "ah", "ou_2_5", "btts"} :
            Copies(Request(id, m), sent) <= 1 + Copies(id, forgets)

(***************************************************************************)
(* A predictor is held back by the debounce only after its model.trained   *)
(* message was emitted, or when the reaction that stamped it raised for a  *)
(* later predictor and its outputs were dropped (reactor.py 307-319).      *)
(***************************************************************************)
DebounceBacked ==
    \A p \in Predictor : trained[p] # 0 /\ p \notin wasted =>
        LET o == Out("models.events.v1", trained[p], p) IN
        BagIn(o, sent) \/ o \in Range(todo["trainer"])

\* Nothing is left to read, to reclaim or to process.
Quiet == \A a \in Agent : Waiting(a) /\ offset[a] = Len(Input(a)) /\ orphan[a] = {}

(***************************************************************************)
(* Crashes, retries and dead letters included, every record is stored and  *)
(* every event is handled by every reactor in the end.                     *)
(***************************************************************************)
EventuallyQuiet == <>[]Quiet

=============================================================================
