# Negelir: TLA+ models and proofs

Negelir is a football prediction system: Python agents that exchange messages over a bus
(Redis Streams in production, an in-memory bus in tests), a Go API server, data feeds, and
operations tooling. This directory holds a verification project for its concurrent core: TLA+
modules translated from the source under `src/`, TLC configurations that check them on small
instances, and TLAPS proofs of the properties that matter most. `PROJECT.json` has, for every
definition, the source lines it models, and lists the runs, the mutants that show each property
can fail, the hazards and the findings.

## 1. Inventory

| Component | Source | State | Operations | Hard behaviour | What makes it correct |
|---|---|---|---|---|---|
| Agent runner | `swarm/sdk/runner.py` | batch, stop event, in-flight count, reclaim and flush clocks | register, step (reclaim, read, process, flush), retry, dead letter, drain, deregister | crash between publish and ack, stop in mid-batch, slow handler, bus errors | no message lost, dead letters only for a spent budget, every message settled in the end |
| Bus | `swarm/sdk/bus.py` | streams, group offsets, pending entries | publish, read, ack, reclaim, release_consumer | redelivery, reclaim from a live consumer, swallowed exceptions | at-least-once |
| Consensus agent | `swarm/agents/consensus.py` | fusion windows, ledger | handle(vote), note_request, flush_expired, flush_all | late and repeated votes, a fusion that raises, eviction, new calibration tables, restart | one publication per prediction with all accepted votes |
| Idempotency ledger | `swarm/agents/reactor.py` | bounded LRU of processed ids | already_processed, mark_processed | forgetting | nothing processed twice while remembered |
| Single-flight | `swarm/sdk/singleflight.py` | map of flights, fields of each flight | do, sweep, stop | unlocked reads and writes, sweep against a slow doer | one execution per key, all callers told the same, no waiter stuck |
| Proofreader aggregator | `swarm/agents/proofreader/aggregator.py` | pending tallies, ledger | candidate, verdict, flush | reordering, changed verdicts, eviction, missing key | approval only with a quorum and no reject, at most once |
| Agent circuit breaker | `swarm/agents/maint/_bus_circuit_breaker.py` | breaker state, on-disk spool | publish, tick (probe, prune, replay) | a publish or unlink that raises after its effect, crash in mid-replay, torn files, restart | what was spooled gets out or leaves a trace |
| Operator spool flush | `xops/opsctl/subcommands/spool_flush.py`, `_publish.py` | spool files, `.retired/`, lock file | flush, reap, force-retired, re-spool | two processes on one lock file, files that are visible before they are filled, failing writes and unlinks, entries that are refused, death anywhere | nothing lost, nothing published twice, the spool empties |
| Spool ageing | `swarm/sdk/spool_aging.py` | none | prune, quarantine | runs inside both replays | entries leave with an audit record |
| SDK guards | `dedup.py`, `shed_state.py`, `backpressure.py`, `_alert_debouncer.py`, `maint_storage.py`, `maint_ack.py` | small counters and windows | observe, decide | clock steps, limits | hysteresis, bounded memory |
| Storage agent | `swarm/agents/storage.py` | rows by record | upsert and announce | crash or exception between upsert and publish, old records redelivered | no change goes unannounced |
| Freshness reactors | `swarm/agents/reactor.py` | ledger, debounce clock | check, react, mark | crash between mark and publish, retry copies read by every group | every event answered, once while remembered |
| Replica scaler, pause state | `swarm/agents/maint/scaler.py`, `_pause_state.py` | table of targets (LRU), pins, pause deadline | tick, pin, pause, resume | eviction, a runtime that refuses, commands between ticks | pins and pauses hold, the cap is kept |
| Feed writer and rotator | `common/feeds/{writer,rotator}.py` | Redis lease, day files, sealed files, sidecars, manifest | open with recovery, enqueue, rotate, close, seal | crash between file operations, expired lease, midnight | acknowledged records stay, one writer |
| Other maintenance agents | `swarm/agents/maint/*` | dead-letter review, key lifecycle, backups | events, acks | acks in any order, restart | commands answered once, pause respected |
| Feed readers, snapshots | `common/feeds/*` | cursors | read, snapshot | rotation under a reader | a reader sees every record once |
| Orchestrator | `orchestrator/state_machine.py` | batch state | transitions | retries | legal transitions only |
| Go server | `server/internal/*` | idempotency records, refresh tokens, caches, rate windows | requests | concurrent requests with one key | one effect per key, rotation detects reuse |
| Numerics and data | `model`, `nlp`, `pipeline`, `scraper`, `backtest`, `enrichment`, `tqu`, `trc`, `qid` | none shared | functions | - | not a protocol |

Interactions. A runner owns one agent: it reads entries of the agent's topics, calls
`agent.handle`, publishes what it returns and acks; on a timer it calls `flush_expired`.
Predictors answer `predict.request` with votes, the consensus agent fuses them into
`predict.final`, proofreader replicas judge that, and the aggregator publishes
`predict.approved.v1`. Maintenance agents publish through the circuit breaker, which spools to
disk during a bus outage; `opsctl` spools operators' commands in the same way and
`ops.spool-flush` replays them. Consensus and aggregator each keep a ledger so that redelivery
has no second effect. In front of them, the storage agent turns normalized records into rows
and freshness events, from which the reactors make prediction and training requests. The scaler
sets the replicas of all of these through a runtime controller, under the operators' pins and
pauses. Feed writers append what scrapers find to day files, one writer per feed by a Redis
lease; a rotation job seals the files of past days.

## 2. Modules

| Module | Models | Extends or instantiates |
|---|---|---|
| `AgentRunner` | runner loops competing for one topic and one consumer group | `ReliableTopic` (refinement) |
| `ReliableTopic` | the promise of a topic to its producers (abstract) | |
| `Consensus` | fusion windows, ledger, and the runner's publication of their outcomes | |
| `SingleFlight` | concurrent `do()` calls and the sweeper | |
| `ProofreaderAggregator` | quorum of verdicts and ledger | |
| `BusBreaker` | publish path, breaker and spool of one agent | |
| `SpoolFlush` | flush processes on one spool, at the grain of system calls | |
| `FreshnessPipeline` | storage agent, live and trainer reactor, their runners and topics (composition) | |
| `PauseState` | pause and isolation of a maintenance agent | |
| `MaintScaler` | the scaler's ticks, pins and pauses | `PauseState` |
| `FeedWriter` | writers of one feed and the rotation job on one directory | |
| `*Proofs` | theorems about the module named; `MaintScalerProofs` has those about `BusBreaker` too | the module, TLAPS |
| `MC*` | the module with symmetry sets for TLC | the module, TLC |

**AgentRunner.** A bus entry is its handle (its position in the stream) with a message id and
an attempt counter; a retry is a second entry with the same id. `pc` is where a runner is in
`step`/`_process`; each bus call in `_process` (publishing one output, the retry, the dead
letter, the ack) is a step, so a crash, a stop or an exception falls between any two. An
instance is one life of a process; a restart is a new instance. `FaultyBus` makes bus calls
raise, possibly after they took effect, and makes Redis' `reclaim` move entries and return none
(`ReclaimLost`). `ReleaseDropsPending` chooses the bus: XGROUP DELCONSUMER drops what the
consumer held, the in-memory `release_consumer` does nothing. `MaxSlow` bounds how often an
entry goes idle in the hands of a live runner. Heartbeats and metrics are left out; the
`flush_expired` call of `step` is in the agents' modules.

**Consensus.** A window per key `(match_id, market, request_id)`; a vote is its predictor. A
prediction id is the key with the calibration version current at the first vote, as
`derive_prediction_id` makes it. `handle` for a vote is `VoteOpen`, `VoteNew` or `VoteEvict`,
depending on whether the window exists and `_pending` is full; each includes the ledger check,
the vote and the finalization when the last predictor is in. `flush_expired` collects the
elapsed windows and then finalizes them in insertion order. `flush_all` is the case in which
all have elapsed. What `handle` and `flush_expired` return goes to `outbox`, from which the
runner publishes one message at a time (`PublishNext`) before it calls the agent again; a
restart between the ledger mark and the publication loses both, as the ledger is in memory
(`LedgerAfter`). The outputs of a flush have no bus entry behind them and are not redelivered:
this is one exemption of `EventuallyResolved`. The fusion itself is the set of voters, and
raises when one of the votes is in `Unfusable`: `_fuse_distributions` and `_fuse_score_grids` call
`.get` and `float` on what a vote brought as `market_outcomes` and grid. `_finalize` has marked the
ledger by then. `handle` raises with it, the retry of the vote is dropped as late, and no outcome
follows; in `flush_expired` the outputs already made by the call and the windows that it has taken
out of `_pending` are lost too. `spoiled` are the ids marked by a call that raised.

**SingleFlight.** Blocks under `self._lock` are single steps; each access to `flight.result`,
`flight.error` and `flight.event` outside it is a step of its own. A flight is named after the
call that created it. `Aborting` calls are those whose `fn` leaves with a `BaseException`.

**ProofreaderAggregator.** `accept` and `warn` are one value, as the code counts them. A handler
call is one step, its eviction, overflow flags and finalization included. The load of the
citation key comes after the ledger mark and may raise (`KeyMissing`). `opinion` is history:
the last verdict recorded from each replica, which outlives the entry it was recorded in. The
flag of a late verdict is left out, as it tells nothing of a candidate.

**BusBreaker.** `publish()` is one step; `tick()` is one step up to the replay, then a step per
publish and per unlink. Entries are in arrival order; the replay goes newest first. `publish_fn` may
raise before or after the bus has applied the message (`applied`), in a closed breaker, in the
direct attempt of a critical message and in a replay; the unlink of a replayed entry may raise,
which is caught with the publish (`UnlinkFails`). The process may die between any two steps or while
it fills a spool file, which leaves a torn one. `torn` collects the messages that the bus has and
that the agent must take for unsent. The
class is not instantiated outside its tests; the model follows it and the wiring contract in
its docstring (`tick()` on every heartbeat, one thread). Its specification is `BreakerSpec`, so
that the module can be extended next to that of an agent.

**SpoolFlush.** The lock file is a name that leads to an inode or to nothing; an inode has at
most one flock, which dies with its holder, and lives while a descriptor is open. `stat`, the
reaper's `open`, `flock`, `unlink` and `close`, then `open`, `flock`, `LOCK_UN` and `unlink`
are steps, and so are each publish and each unlink of an entry. A spool file is created under its
final name (`Create`) and filled in a later step (`Fill`, through the descriptor), by operators
(`SpoolEnvelope`, `FillEnvelope`), who take no lock, and by flushers that spool a message anew (`FillCopy`,
`FillForced`); the write may fail or its process die, which leaves the file without contents. A flusher
that reads a file of `partial` renames it away as malformed. To read a file and to rename it is one
step: a file that is filled between the two is the same as one filled just after the rename, as the
write goes to the renamed file in both cases. `Bus.publish` may raise before or after the bus has
applied the message (`PublishRaises`); acks may be missing, be rejections, or the wait for them
raise (`Unanswered`); an unlink may fail in silence (`Remove`). The scan (rename malformed, prune,
quarantine) is one step. An operator publishes a message once (`begun`), and it counts as
spooled when he is told so (`given`); its files differ by stamp. `Unknown`, `Outdated`, `Orphaned`
and `Invalid` are the messages whose kind, schema, consumers or payload rules have changed since,
`Rejected` those that a consumer may refuse: of an `Unknown`, `Invalid` or rejected entry the drain
keeps the file and ends there. `excused` collects the messages that a death or a failure left with
both a publication and a file, and `mislaid` those whose file was taken away while it was being
filled.

**FreshnessPipeline.** Three agents, each under a runner with its own consumer group: `Read`,
`Reclaim`, `Begin` (the handler returns its outputs), `Publish` one by one, `Ack`. The store, the
ledgers and the debounce clock are in memory and go with a crash; the entries that were read and
not acked are reclaimed by the next life, before or after newer ones. A change has the kind and
the diff `upsert` gives it, and `EventId` is made of record, kind and diff, as `derive_event_id`
does. A batch is the set of its handles, which the runner takes in stream order (`Turn`); the
predictors have distinct ids and the due ones are taken in their order (`Listed`). A request to
predict names the event id and the market (`Request`), as its `request_id` does, and the bus is a
bag of what was sent, so that a repeated request shows. A terminal payload
in `Impossible` has scores that `MatchOutcome` refuses: the handler raises after the upsert
(`StoreRaises`), the retry copy or the dead letter is all that leaves (`StoreFailure`), and the copy,
which is one more entry of the stream, finds the row unchanged. `TrainerRaises` is a raising `accuracy_lookup`, `TrainerUnhashable` the lookup of a slice
key that holds a list; both go through `_handle_failure`, whose retry copy every group reads.
`old` is the age guard. Several instances of one agent are `AgentRunner`'s subject and are not
repeated here.

**MaintScaler, PauseState.** Timers count decision windows still to go. A tick takes the
observed targets one by one in any order (the order of the `signals` dict), which makes the
count of the roster at its start and its upkeep visible; no command comes between, as the agent
is single-threaded. A signal is what smoothing and thresholds make of the samples. `wish` and
`hold` are what the operator asked for, `actual` is what the runtime runs, which at first is any
count of `Deployed`: the scaler takes every target it meets to run one replica, whatever an earlier
process or another leader has deployed. `PauseState` is the
class of that name, as operators on a record. `_handle_pin` accepts any integer but its -1 for
unpinning, and so does `PinCount`. `RosterTotal` is `roster_total`, as counted at any moment; the
tick's own copy of it is `tick.total`.

**FeedWriter.** A writer is one process of a feed with a step for each Redis call and each file
operation that another process can see; a file is the set of its records, and a file that is
unlinked while open lives on without a name (`orphan`). `fsync_mode` is "always" for the writers
of `AlwaysSync` and "batch" for the others, whose records stay in the buffer until it is full or
the file is closed. The rotation job is `FileRotator.rotate_file` on a past day; nothing in the
repository but tests calls it, and the model lets it run next to the writers, as its docstring
and the recovery's half-states presume. `place` remembers where a record was acknowledged.

## 3. Runs

Passing runs (every property also has a mutant of the code, under `mutants`, that breaks it):

| Run | Instance | Shows |
|---|---|---|
| `runner_redis` | 2 messages (one with an unsupported schema), 2 runners, 1 output, budget 2, faulty bus, Redis release | `OnlyReleaseLoses`, `AckedIsSettled`, `NoPrematureDeadLetter` |
| `runner_memory` | 1 message, 2 runners, 2 outputs, budget 2, in-memory bus, fairness | `ExclusiveUnlessSlow`, refinement of `ReliableTopic`, `EventuallySettled` |
| `consensus_restart` | 2 keys, 2 predictors, one vote no fusion can read, `_pending` and ledger of 1, 2 calibration versions, 2 restarts, fairness | `OncePerPrediction`, `MarkedIsPublished`, `AcceptedVotesFused`, `EventuallyResolved` |
| `sf_sweep` | 3 calls, 2 keys, cap 2, sweeper, one call aborts, fairness | `SingleDoer`, `SharedOutcome`, `HonestAnswer`, `EveryCallReturns` |
| `aggregator_quorum` | 2 predictions, 3 replicas, quorum 2, `_pending` and ledger of 1, key may be missing | `ApprovalBacked`, `RejectIsFatal`, `ApprovedOnce`, `CandidateAccounted` |
| `breaker_crash` | 4 messages, one of them critical, threshold 2, spool of 2, 2 crashes, fairness | `SpooledSurvives`, `DoubleOnlyTorn`, `SpoolDrained`, types |
| `flush_race` | 1 message, 2 flushers and its operator, 3 inodes, 3 spool files, 1 stale lock, 1 death | `NothingLost`, `DoubleExplained` |
| `flush_retired` | a plain message and one each of an unknown kind, an outdated schema, without consumer, with an invalid payload, with a consumer that may reject; any 2 spool files, 1 flusher, budget 1 per run, 1 death, 1 stale lock, fairness | `EntryLeaves` |
| `freshness_crash` | 2 records of two planes, payloads of two leagues, a malformed one and one with an impossible outcome, 3 predictors (one drifting), ledger of 1, budget 2, 2 scrapes, 1 fault, fairness | `ChangeAnnounced`, `RowBehindOnlyByReplay`, `AckedEventReacted`, `RequestOncePerMemory`, `DebounceBacked`, `EventuallyQuiet`, types |
| `scaler_ops` | 3 targets that run 1 or 3 replicas at first, table of 2, cap 3, pins, pauses of 1 or 2 windows, 3 commands, refusals or changes of leader | `PinHeld`, `PauseHeld`, `CapOverrunByNewcomers`, types |
| `feed_crash` | 2 writers (one syncs always), 2 records, 2 days, 1 rotation with or without zstandard, 1 crash | `OnlySealingLoses`, `SingleWriterUnlessLapsed` |

The type invariants that no run names are proved (section 4).

The run in which TLC refutes what a document says of the code (`findings` has the quotation):

| Run | Property | What TLC shows |
|---|---|---|
| `runner_release` | `NoLoss` | a runner that stops in mid-batch deletes its Redis consumer, and the rest of the batch with it |

Some properties name an exemption, and the exemption is where the code falls short of a sentence
in its documents. These were seen while modelling, and dropping the exemption gives TLC a
counterexample:

- `SingleDoer`, `SharedOutcome`: a flight older than `event_max_age_s` is swept while its doer
  runs on. Its waiters get the orphan error and its doer the value, against the docstring of
  `SingleFlight` ("all receive the same result"); a second doer starts; and the first one's pop,
  which is by key, removes the second's flight, so that a third can start and the sweeper no
  longer sees the second. The outcome `raise_none` is a waiter that reads `flight.error` a second
  time (`singleflight.py` 182) after the doer has cleared it.
- `RejectIsFatal`: eviction forgets a reject with its entry, and a redelivered candidate can then
  be approved, against "A single reject vote is fatal".
- `CandidateAccounted`: the ledger is marked before the signing key is loaded
  (`aggregator.py` 448 and 477); if that raises, the retry finds the prediction finalized, and no
  flag says what became of it.
- `OncePerPrediction` speaks of prediction ids. Per request it would fail: the id includes the
  calibration version of the first vote (`consensus.py` 351-365), so a late vote after a new
  table opens a window with another id and gives a second `predict.final`, which
  `docs/planning/ROADMAP.md` 793 says is "never emitted".
- `DoubleExplained` speaks of flushes that do not overlap. They can: the lock is released before
  its file is unlinked by name (`spool_flush.py` 167-171), so a second flusher can lock an inode
  that has just lost its name while a third creates a new one, against "never double"
  (`docs/design/phase8/sections/14-fifth-pass-deep-revision-additions.md` 85).
- `MarkedIsPublished`, `EventuallyResolved`: a fusion that raises leaves its id marked and nothing
  published (`consensus.py` 520-560): the retry of the vote, which could tell, is dropped as late
  (365).
- `DoubleOnlyTorn`, `DoubleExplained`: a publish that raises after the bus has applied it, or an
  unlink that fails, leaves an entry whose message is out, and neither replay can tell.
- `NothingLost`: a flusher that finds a file before `_spool_envelope` has filled it renames it to
  `.malformed` (`_publish.py` 135-140, `spool_flush.py` 300-306, 379-386), and no replay looks at it
  again, although the operator was told that the envelope is spooled.
- `EntryLeaves`: an entry with an invalid payload or a rejecting consumer stays, and the newest-first
  drain ends at it (`spool_flush.py` 442-448) on a healthy bus, so everything older waits until
  it is pruned by age or an operator removes it.
- `ChangeAnnounced`: a terminal payload with negative scores changes the row and raises
  (`storage.py` 254, `payloads.py` 380-385); its change is never announced.
- `RowBehindOnlyByReplay`: an old record reclaimed after a crash, or the retry copy of a record
  whose handling raised, overwrites a newer row;
  `canonical_version` is stored and never compared (`storage.py` 85-91).
- `AckedEventReacted`, `RequestOncePerMemory` speak of event ids, which do not include the time
  (`payloads.py` 262-285): when a value goes from a to b, back, and to b again, the second
  a-to-b event has the id of the first and is swallowed while the ledger remembers it
  (`docs/design/CONTENT_FRESHNESS.md` 463 and 742 promise an event per change). A storage agent
  that restarts announces known records as created.
- `DebounceBacked`: stamps of a reaction that raises later on stay, and its messages are dropped.
- `PinHeld`: `_evict_and_get` drops a target with its pin, count and window and says nothing; a count
  the runtime refused is kept as if it ran, and a target met for the first time is taken to run
  one replica (`scaler.py` 464-466).
- `OnlySealingLoses`: sealing unlinks the live file before the sealed one has its name
  (`rotator.py` 132-133); without zstandard, it renames the file it has just unlinked; the sidecar
  it writes has not the name the recovery looks for (`rotator.py` 218, `writer.py` 458), so every
  `open` deletes every sealed file; and after midnight `_rotate_file` opens the manifest's old
  date (`writer.py` 657), so a writer goes on appending to the file that is sealed. The recovery
  runbook (`docs/runbooks/feeds_writer_recovery.md`) says "Never lose acknowledged records".
- `SingleWriterUnlessLapsed`: a renewal that finds no lease passes, and the result of its SET XX
  is not looked at (`writer.py` 366-379), so a writer whose lease has expired writes on.
- `CapOverrunByNewcomers` needs pins that are not negative, and a negative one is accepted
  (`scaler.py` 742-764): a roster that holds it has room under the cap, which is gone when a
  newcomer evicts the target after the tick has counted.
- `SpoolDrained`: a restarted agent has a closed breaker and leaves its old spool alone until the
  next outage, against "drained on first successful re-publish".

More that needs no run: an update that changes the league puts a `[before, after]` list into the
trainer's slice key, which cannot be hashed, so every such event is retried and dead-lettered
(`reactor.py` 303-309, `TrainerUnhashable`); `_hysteresis_ok` compares recent counts with the
current one, not with each other, so a target that has only risen is never scaled down, and one
that has only fallen may fall on (`scaler.py` 1494-1509); `maint_scaler_max_changes_per_window`
limits a tick, not a window; `note_request` opens windows without regard to `consensus_max_pending`
(`consensus.py` 450); a publish that fails below the breaker's threshold is neither sent, spooled
nor reported, critical or not (`_bus_circuit_breaker.py` 327, `PublishFails`); a message that kills
the process never raises, keeps its attempt count and is reclaimed for ever (`runner.py` 235); and
`--force-retired` refuses the kinds for which envelopes were retired (`_publish.py` 208,
`ForceRefused`).

**Bounds.** Two runners or flushers, and one replica more than a quorum, are enough for every pairwise
race; a third actor only repeats one of the roles (holder, thief, bystander), and the theorems
cover any number. Caps of 1 or 2 with one more message than the cap make eviction, a full spool
and a forgetful ledger happen. A retry budget of 2 has both the retry and the dead letter.
Three inodes suffice for two flushers: each may hold a nameless one while a third has the name.
One death and one stale lock place a crash between any two steps; two crashes in `breaker_crash`
let a torn file be met by a process that dies too, and its four messages give a streak of two
failures, a full spool and one more. The spool of `flush_retired` holds two of the six messages at a
time, which is every pair of an entry and one that may stand in its way; its `VIEW` leaves out the
history variables, which no guard and no property of that run reads, and every action
changes a variable it keeps. In `flush_race` the third file is the copy of a copy. In `freshness_crash` two scrapes (retry copies come on top) give a
created, an unchanged, an updated and a league-changing record, and two events overflow a ledger
of one; the one fault is a crash of any agent anywhere, a raise, or the passing of an age or
debounce limit. Three targets in a table of two make every eviction happen, and a cap of 3 with
counts up to 2 is met from both sides. Two days and one rotation have a sealed day next to an open
one; the theorems lift the bounds. `CHECK_DEADLOCK FALSE` stands where the
system may come to rest: all runners off, all calls returned, all messages or records given and replayed.

**Fairness.** A thread that can run does (weak fairness of `Loop`, `Process`, `Do`, `Replay`,
`Flush`). `run()` calls `step` as long as it is not stopped, and `step` calls `flush_expired`
every `flush_interval_sec` (`runner.py` 193-206), hence weak fairness of `Flush` in
`Consensus`. `Reclaim` has strong fairness, as its throttle is over again and again and a
Redis error does not last for ever. The
runners of `FreshnessPipeline` have weak fairness of `Step` for the same reason, and crashes are
finitely many. The breaker's `tick` is called on every heartbeat. Windows
and flights do grow old, outages and disk faults do end (`BusRecovers`, after which `steady` holds
and publishes, unlinks and spool writes succeed and consumers answer), and operators do run the flush again until the spool
is empty; these are the assumptions on the environment, and no liveness is claimed without
them.

## 4. Proofs

For every value of the constants, from the named assumption of each module (positive limits,
finite replicas, disjoint names):

- **AgentRunnerProofs.** `TypeCorrect`; `OnlyReleaseCanLose` (`Spec => []OnlyReleaseLoses`);
  `InMemoryLosesNothing` (`[]NoLoss` when release keeps pending entries). The invariant says
  that a runner about to ack has an entry that is done, dead-lettered, or followed by a later
  entry of the same message that is accounted for (`AckCovered`), and which outputs a runner has
  published (`PublishProgress`). "Later" is what makes it inductive: runners ack each other's
  successors, and handles only grow. `AckMeansSettled` needs the same of the one entry that is
  about to be acked (`AckSettles`). `BudgetIsHonest` rests on `FailuresCounted`: an entry's
  attempt number, and the one a runner is about to write, are at most the times the handler
  raised for its message. `LiveRunnersExclude` rests on `HoldsOwn`: until an entry goes idle in
  live hands, the pending map names the runner that holds it and does not offer it to reclaim.
  `RunnersImplementTopic`: when release keeps pending entries, every step of runners and bus is a
  step of `ReliableTopic` or a stutter under the mapping in `AgentRunner`; that an id never leaves
  the outstanding ones unsettled is `NoLoss`.
- **ConsensusProofs.** `TypeCorrect`; `SinglePublication`; `MarksAreBacked`; `VotesAreFused`.
  The strengthening is `LedgerKnows`: what was published or returned is in the ledger or was
  forgotten by it. Every finalization goes through the check and the mark, so a second outcome
  needs a forgotten id. `MarksAreBacked` allows for the ids of calls that raised (`spoiled`)
  and needs the ledger to die with the process, which is where a persistent ledger would break it (the mutant of `LedgerAfter`); `VotesAreFused` rests
  on the voters of a window being what was accepted for its key.
- **SingleFlightProofs.** `TypeCorrect`; `NothingLeaks` (from `MapOwned`: an entry sits under
  its doer's key and its doer has not popped); `OneExecutionPerKey` (from `Registered`: while no
  flight of the key has aged, a doer's flight stays in the map until its own pop);
  `EveryoneSharesTheOutcome` (from the roles of calls, the final values of a flight's fields and
  the fact that a waiter of a young flight reads them after their last write);
  `AnswersAreHonest`, without exemption (from `Marks`: when a doer sets which field, and that the
  event is set after one of them unless `fn` was torn down, and `Reading`: where a waiter is when
  it reads them). All hold with the sweeper running.
- **ProofreaderAggregatorProofs.** `TypeCorrect`; `TalliesAreExact`; `ApprovalsAreBacked`, in
  which exact tallies turn a count into a quorum of replicas; `SingleApproval`, as in consensus;
  `RejectsAreFatal` and `CandidatesAreAccounted`, from two facts: a prediction that is not pending
  has a blank entry (`BlankOutside`), and a reject that was not withdrawn is in its entry, unless
  the prediction is decided or an overflow flag tells of the loss (`RejectsKept`).
- **SpoolFlushProofs.** `TypeCorrect`; `FlushLosesNothing`. The invariant is that a flusher
  about to unlink a file may do so: its message is settled, or has a newer readable file
  (`UnlinksSpare`), and that a file being filled is still in a directory or is not needed any more
  (`Backed`, of operators' files in `DraftsBacked`): taken away before, it is in `mislaid`, which is the
  one way a spooled message goes. This holds under any interleaving, and the proof does not use the
  lock at all: two flushes at once can repeat a publication but lose no file that was filled.
  `DoublesAreExplained` is where the lock matters: as long as no two flushers have overlapped
  (`Tidy`), one replays at a time, a file it is about to publish has a message that was not sent or is
  excused, and no two readable files have the same unexcused message. `Orderly` holds with overlaps
  too: a readable file, and a copy being made, is of a message that was spooled, and a file that an
  operator is filling is the only one of its message.
- **FeedWriterProofs.** `TypeCorrect`; `LeaseExcludes`, from `LeaseHeld`: while no lease has
  lapsed, a writer that is not off holds the key up to its DELETE; `OnlySealingCanLose`, from three facts:
  a sealed day was touched by the rotation (`SealedTouched`), so recovery deletes nothing else;
  what is in a buffer belongs to an open file (`BufferOpen`); and a record of an untouched day is
  in its file, in the buffer of a writer whose file still has its name, or shed (`AllInPlace`).
  Overlapping writers are allowed for.
- **MaintScalerProofs.** `PauseHolds`, from `PauseKnown`: what the operator's longest pause still
  has to run, the pause state has too. `TypeCorrect`, with the bound of the table and no target in
  it twice, from lemmas on the LRU (`TouchedKeeps`). `PinsAreHeld`, from `PinKnown`: a wish that
  has not lapsed is the pin in the table with the same time to go, and the runtime runs its
  count. What a touch of one target does to the evicted and to all others is `TouchCases`. `OverrunIsNewcomers` is the action
  property `CapOverrunByNewcomers`, under the hypothesis that no pinned count is negative
  (`PinCount \subseteq Nat`), without which it is false (in a tick, with a table of 2 and a cap of
  1). Its invariant is `RosterCounted`: while a tick decides, the roster is at most what the tick
  has counted plus one for each newcomer; a newcomer is fresh and so brings one replica, an
  eviction only takes replicas away, and a decision changes both sums alike. The sum is a fold
  over a set. `SumIsUnits` shows that it is the number of its units (pairs of a target and one of
  its replicas), by a least counterexample among the subsets, after which sums are cardinalities;
  `SumReplaced` is what one touch does to a sum.
- **BusBreaker, in MaintScalerProofs.** `BreakerTypeCorrect`, `SpoolLosesNothing`,
  `DoublesAreTorn`. The invariant `SpoolInv` says that no message has two entries
  (`EntriesDiffer`), which holds as entries are written for new messages only (`OnlyGiven`); that
  a replay has still to do exactly what the spool holds, newest first (`ReplayInOrder`), so that
  what it unlinks is the last entry; and that an entry whose message is on the bus is the one to
  be unlinked next or is `torn` (`SentEntries`). Without the last one, nothing tells a
  replay that repeats a publication from one that does not.
- **FreshnessPipelineProofs.** `TypeCorrect`: events, outputs and ledgers refer to changes that
  were made, and no handle is held that was not read; the streams and the log of changes only
  grow (`Grown`), which all the others use. `ChangesAreAnnounced`, from `RowsAnnounced`: the last
  change of every row is on the stream or in the outputs; it is the store that dies with the
  outputs that makes it hold, and rows with an impossible outcome are exempt as in the property.
  `RowsFallBehindOnlyByReplay` needs `ReadInOrder`: what is in a
  batch and was not reclaimed is newer than all this life has handled. `AckedEventsAreReacted`,
  from `LiveInv`: what the ledger knows (`KnownCovered`) and what is being processed
  (`CurCovered`) is requested or about to be, and what is acked is requested; two changes with
  one event id have the same record and so the same requests (`AmongSame`), which is why a
  swallowed event is covered by its twin. `DebouncesAreBacked`, from `StampsBacked`, which adds
  that there is no stamp without a trainer. `RequestsFollowTheLedger`, from `RequestsPaid`: the
  copies of a request on the bus and in the outputs are at most as many as the times the ledger
  has lost its event id, and one more while it knows the id; a reaction pays for the request it
  adds with the mark it makes, and an eviction or a crash turns that mark into a loss.

Only model-checked: the liveness properties (`EventuallySettled`, `EventuallyResolved`,
`EveryCallReturns`, `SpoolDrained`, `EntryLeaves`, `EventuallyQuiet`), as fairness and ENABLED are
out of the prover's reach.

## 5. Not modelled, and the plan

The repository has about 140,000 lines of implementation, and most of them keep no state that
two steps share: typed configuration, catalogues, lexica and normalizers, scrapers, numerical
models, command-line and provisioning tools, dashboards, CI, SQL. A model of these would be a
transliteration of functions with nothing to check about their order or failure. The models
cover the message-driven core and the files and locks around it, a small share of the lines.

Left out on purpose: the above, and the stubs (leader election, GPU arbiter).
Within the modelled parts: wording of flags and alerts, metrics, signatures, codec errors
(an undecodable entry stops the Redis runner at every read), trimming of dead-letter streams,
ack-group bookkeeping of `publish_event`, a scan of the spool interrupted half way;
`FeatureStoreReactor` and `CacheInvalidationReactor`, whose effects are idempotent; the scaler's
legacy step mode, VRAM arithmetic, retrain warm-up, and a controller that raises; Redis errors
and the codecs "gzip" and "off" of the feeds.

Next, in this order:

1. The dead-letter supervisor (`maint/dlq.py`, `_dlq_throttle.py`) on top of `PauseState`: its
   tick replays frozen topics, `_handle_replay` ignores a pause, and a rate-limited retry is
   refused as a duplicate; with `SpoolAckReconciler`.
2. The feed reader's cursor against rotation and recovery, on top of `FeedWriter`.
3. SDK guards: `shed_state`, `dedup`, `_alert_debouncer`, `maint_storage`.
4. The Go server's idempotency middleware and refresh-token rotation.

## 6. Running it

`tlc -config MCConsensus_restart.cfg MCConsensus` runs one configuration; `tlapm
ConsensusProofs.tla` checks the proofs of one module. The longest run takes about three minutes
with two workers.
