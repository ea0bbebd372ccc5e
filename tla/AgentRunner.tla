----------------------------- MODULE AgentRunner -----------------------------
(***************************************************************************)
(* One topic of the Negelir bus (swarm/sdk/bus.py), its consumer group and *)
(* the AgentRunner loops (swarm/sdk/runner.py) that compete for it.        *)
(*                                                                         *)
(* A bus entry is known by its handle, its position in the stream; an      *)
(* entry carries the message_id and the attempt counter of its envelope.   *)
(* A retried message is a second entry with the same id.  An instance is   *)
(* one life of a runner process: a restart has a new instance_id.          *)
(***************************************************************************)
EXTENDS Naturals, Sequences, FiniteSets

CONSTANTS
    Message,              \* message ids the producers may publish
    Instance,             \* runner instance ids
    Outputs,              \* the messages agent.handle returns for one input
    Unsupported,          \* ids whose schema_version is above the supported one
    RetryBudget,          \* AgentRunner.retry_budget
    MaxInFlight,          \* AgentRunner.max_in_flight
    FaultyBus,            \* bus calls may raise, or apply and lose the reply
    ReleaseDropsPending,  \* release_consumer: TRUE Redis, FALSE in-memory
    MaxSlow               \* bound: entries that go idle in a live runner's hands

ASSUME RunnerAssumption ==
    /\ RetryBudget \in Nat \ {0}
    /\ MaxInFlight \in Nat \ {0}
    /\ MaxSlow \in Nat
    /\ FaultyBus \in BOOLEAN
    /\ ReleaseDropsPending \in BOOLEAN
    /\ Unsupported \subseteq Message

VARIABLES
    \* the bus
    stream,    \* Seq of entries, _streams[topic]
    offset,    \* the group's next-index pointer, _group_offsets[key]
    pending,   \* handle -> holder and whether it is idle past pending_claim_sec
    dlq,       \* records on dlq_for(topic)
    outs,      \* <<handle, output>>: outputs published for an entry
    \* the runners
    pc,        \* where each instance is in its loop
    from,      \* which loop of step() the batch belongs to
    batch,     \* handles of the batch still to be processed
    cur,       \* the handle in _process, 0 for none
    todo,      \* outputs of the current handler call still to be published
    stopping,  \* instances whose _stop_event is set
    \* history
    handled,   \* handles for which a handler call returned
    fails,     \* how often the handler raised on an id
    released,  \* handles dropped by release_consumer
    slow       \* how often an entry went idle in a live runner's hands

busVars == <<stream, offset, pending, dlq, outs>>
runnerVars == <<pc, from, batch, cur, todo, stopping>>
historyVars == <<handled, fails, released, slow>>
vars == <<busVars, runnerVars, historyVars>>

Active == {"reclaim", "read", "process", "publish", "retry", "dlq", "ack"}
PC == Active \union {"new", "drain", "off"}
Reasons == {"schema_version_unsupported", "retry_budget_exhausted"}

Handles == 1..Len(stream)
Entry == [id : Message, attempt : 0..(RetryBudget - 1)]

Holds(r, h) == h \in batch[r] \union {cur[r]}
PendingOf(r) == {h \in DOMAIN pending : pending[h].consumer = r}

(***************************************************************************)
(* The n smallest members of a set of handles: both bus implementations    *)
(* hand entries out in stream order.                                       *)
(***************************************************************************)
First(S, n) == {h \in S : Cardinality({k \in S : k < h}) < n}

Claim(H, r) ==
    [h \in DOMAIN pending \union H |->
        IF h \in H THEN [consumer |-> r, idle |-> FALSE] ELSE pending[h]]

Unclaim(H) == [h \in DOMAIN pending \ H |-> pending[h]]

(***************************************************************************)
(* The checks of _stop_event after each _process and each bus call.        *)
(***************************************************************************)
Proceed(r, next) == IF r \in stopping THEN "drain" ELSE next

Init ==
    /\ stream = << >>
    /\ offset = 0
    /\ pending = [h \in {} |-> [consumer |-> CHOOSE r \in Instance : TRUE, idle |-> FALSE]]
    /\ dlq = {}
    /\ outs = {}
    /\ pc = [r \in Instance |-> "new"]
    /\ from = [r \in Instance |-> "fresh"]
    /\ batch = [r \in Instance |-> {}]
    /\ cur = [r \in Instance |-> 0]
    /\ todo = [r \in Instance |-> {}]
    /\ stopping = {}
    /\ handled = {}
    /\ fails = [m \in Message |-> 0]
    /\ released = {}
    /\ slow = 0

-----------------------------------------------------------------------------
(* The bus and the producers *)

\* A producer publishes a new message: Bus.publish.
Publish(m) ==
    /\ \A h \in Handles : stream[h].id # m
    /\ stream' = Append(stream, [id |-> m, attempt |-> 0])
    /\ UNCHANGED <<offset, pending, dlq, outs, runnerVars, historyVars>>

\* pending_claim_sec passes for a claimed entry; in the hands of a live
\* runner this is a handler (or a batch) slower than the claim window.
Age(h) ==
    /\ ~pending[h].idle
    /\ pending' = [pending EXCEPT ![h] = [consumer |-> @.consumer, idle |-> TRUE]]
    /\ IF Holds(pending[h].consumer, h)
       THEN slow < MaxSlow /\ slow' = slow + 1
       ELSE slow' = slow
    /\ UNCHANGED <<stream, offset, dlq, outs, runnerVars, handled, fails, released>>

-----------------------------------------------------------------------------
(* The loop of AgentRunner.run / step *)

\* register(): registry entry and consumer group.
Start(r) ==
    /\ pc[r] = "new"
    /\ pc' = [pc EXCEPT ![r] = "reclaim"]
    /\ UNCHANGED <<busVars, from, batch, cur, todo, stopping, historyVars>>

\* step() skips reclaim when less than _reclaim_interval has passed.
SkipReclaim(r) ==
    /\ pc[r] = "reclaim"
    /\ pc' = [pc EXCEPT ![r] = Proceed(r, "read")]
    /\ UNCHANGED <<busVars, from, batch, cur, todo, stopping, historyVars>>

MutantReclaimBusy == First({h \in DOMAIN pending : TRUE}, MaxInFlight)
MutantReclaimFromLive ==
    First({h \in DOMAIN pending : pending[h].idle /\ pc[pending[h].consumer] \in Active}, MaxInFlight)

Reclaimable == First({h \in DOMAIN pending : pending[h].idle}, MaxInFlight)

\* bus.reclaim: the oldest idle entries change owner, their idle time restarts.
Reclaim(r) ==
    /\ pc[r] = "reclaim"
    /\ Reclaimable # {}
    /\ pending' = Claim(Reclaimable, r)
    /\ batch' = [batch EXCEPT ![r] = Reclaimable]
    /\ from' = [from EXCEPT ![r] = "reclaimed"]
    /\ pc' = [pc EXCEPT ![r] = "process"]
    /\ UNCHANGED <<stream, offset, dlq, outs, cur, todo, stopping, historyVars>>

\* RedisStreamsBus.reclaim swallows an exception: the server may have moved
\* the entries, the runner sees an empty list.
ReclaimLost(r) ==
    /\ FaultyBus
    /\ pc[r] = "reclaim"
    /\ Reclaimable # {}
    /\ pending' = Claim(Reclaimable, r)
    /\ pc' = [pc EXCEPT ![r] = Proceed(r, "read")]
    /\ UNCHANGED <<stream, offset, dlq, outs, from, batch, cur, todo, stopping, historyVars>>

\* Where a read leaves the group's pointer: at most MaxInFlight entries on.
ReadUpTo == IF offset + MaxInFlight < Len(stream) THEN offset + MaxInFlight ELSE Len(stream)

\* bus.read: the next entries of the stream, claimed for this consumer.
Read(r) ==
    LET fresh == (offset + 1)..ReadUpTo
    IN  /\ pc[r] = "read"
        /\ pending' = Claim(fresh, r)
        /\ offset' = ReadUpTo
        /\ batch' = [batch EXCEPT ![r] = fresh]
        /\ from' = [from EXCEPT ![r] = "fresh"]
        /\ pc' = [pc EXCEPT ![r] = IF fresh = {} THEN Proceed(r, "reclaim") ELSE "process"]
        /\ UNCHANGED <<stream, dlq, outs, cur, todo, stopping, historyVars>>

-----------------------------------------------------------------------------
(* AgentRunner._process, one delivery of the batch in stream order *)

\* The delivery h leaves the batch and becomes the one in _process.
Take(r, h) ==
    /\ pc[r] = "process"
    /\ h \in batch[r]
    /\ \A k \in batch[r] : h <= k
    /\ batch' = [batch EXCEPT ![r] = @ \ {h}]
    /\ cur' = [cur EXCEPT ![r] = h]

\* schema_version above the supported one: straight to the DLQ, no retry.
RefuseSchema(r, h) ==
    /\ Take(r, h)
    /\ stream[h].id \in Unsupported
    /\ pc' = [pc EXCEPT ![r] = "dlq"]
    /\ UNCHANGED <<busVars, from, todo, stopping, historyVars>>

\* agent.handle returns; its outputs are published one by one.
HandleOk(r, h) ==
    /\ Take(r, h)
    /\ stream[h].id \notin Unsupported
    /\ handled' = handled \union {h}
    /\ todo' = [todo EXCEPT ![r] = Outputs]
    /\ pc' = [pc EXCEPT ![r] = IF Outputs = {} THEN "ack" ELSE "publish"]
    /\ UNCHANGED <<busVars, from, stopping, fails, released, slow>>

MutantAfterFailureDropped(h) == IF stream[h].attempt + 1 >= RetryBudget THEN "ack" ELSE "retry"
MutantAfterFailureEarly(h) == IF stream[h].attempt + 2 >= RetryBudget THEN "dlq" ELSE "retry"

\* _handle_failure: the next attempt must stay below the budget.
AfterFailure(h) == IF stream[h].attempt + 1 >= RetryBudget THEN "dlq" ELSE "retry"

\* agent.handle raises: _handle_failure retries until the budget is used up.
HandleRaise(r, h) ==
    /\ Take(r, h)
    /\ stream[h].id \notin Unsupported
    /\ fails' = [fails EXCEPT ![stream[h].id] = @ + 1]
    /\ pc' = [pc EXCEPT ![r] = AfterFailure(h)]
    /\ UNCHANGED <<busVars, from, todo, stopping, handled, released, slow>>

MutantAckAfterFirst(r, o) == "ack"

\* The ack follows the last output.
AfterOutput(r, o) == IF todo[r] = {o} THEN "ack" ELSE "publish"

\* for out in outputs: bus.publish(out).
PublishOutput(r) ==
    /\ pc[r] = "publish"
    /\ \E o \in todo[r] :
         /\ outs' = outs \union {<<cur[r], o>>}
         /\ todo' = [todo EXCEPT ![r] = @ \ {o}]
         /\ pc' = [pc EXCEPT ![r] = AfterOutput(r, o)]
    /\ UNCHANGED <<stream, offset, pending, dlq, from, batch, cur, stopping, historyVars>>

MutantSameAttempt(e) == [id |-> e.id, attempt |-> e.attempt]

NextAttempt(e) == [id |-> e.id, attempt |-> e.attempt + 1]

\* _handle_failure: a new entry with the same id and the next attempt number.
Republish(r) ==
    /\ pc[r] = "retry"
    /\ stream' = Append(stream, NextAttempt(stream[cur[r]]))
    /\ pc' = [pc EXCEPT ![r] = "ack"]
    /\ UNCHANGED <<offset, pending, dlq, outs, from, batch, cur, todo, stopping, historyVars>>

\* _to_dlq: the record names the reason and the attempts made.
ToDlq(r) ==
    LET e == stream[cur[r]]
    IN  /\ pc[r] = "dlq"
        /\ dlq' = dlq \union
             {[handle |-> cur[r], attempts |-> e.attempt + 1,
               reason |-> IF e.id \in Unsupported THEN "schema_version_unsupported"
                          ELSE "retry_budget_exhausted"]}
        /\ pc' = [pc EXCEPT ![r] = "ack"]
        /\ UNCHANGED <<stream, offset, pending, outs, from, batch, cur, todo, stopping, historyVars>>

\* bus.ack drops the entry from the group's pending set whoever holds it;
\* then _stop_event is tested before the next delivery is taken.
Ack(r) ==
    LET after == IF batch[r] # {} THEN "process"
                 ELSE IF from[r] = "reclaimed" THEN "read" ELSE "reclaim"
    IN  /\ pc[r] = "ack"
        /\ pending' = Unclaim({cur[r]})
        /\ cur' = [cur EXCEPT ![r] = 0]
        /\ pc' = [pc EXCEPT ![r] = Proceed(r, after)]
        /\ batch' = [batch EXCEPT ![r] = IF r \in stopping THEN {} ELSE @]
        /\ UNCHANGED <<stream, offset, dlq, outs, from, todo, stopping, historyVars>>

-----------------------------------------------------------------------------
(* Shutdown, faults and crashes *)

\* What a process forgets when it leaves its loop.
Forget(r) ==
    /\ batch' = [batch EXCEPT ![r] = {}]
    /\ cur' = [cur EXCEPT ![r] = 0]
    /\ todo' = [todo EXCEPT ![r] = {}]
    /\ from' = [from EXCEPT ![r] = "fresh"]

\* SIGTERM or SIGINT: stop() sets _stop_event.
Stop(r) ==
    /\ pc[r] \in Active
    /\ r \notin stopping
    /\ stopping' = stopping \union {r}
    /\ UNCHANGED <<busVars, pc, from, batch, cur, todo, historyVars>>

\* run(): the loop condition is tested between steps and before a read.
Exit(r) ==
    /\ pc[r] \in {"reclaim", "read"}
    /\ r \in stopping
    /\ pc' = [pc EXCEPT ![r] = "drain"]
    /\ UNCHANGED <<busVars, from, batch, cur, todo, stopping, historyVars>>

\* A bus or registry call raises out of step(): run() goes to its finally.
\* The call may have been applied by the server before its reply was lost.
BusError(r) ==
    /\ FaultyBus
    /\ pc[r] \in Active
    /\ pc' = [pc EXCEPT ![r] = "drain"]
    /\ Forget(r)
    /\ UNCHANGED <<busVars, stopping, historyVars>>

\* _drain_on_shutdown on Redis: XGROUP DELCONSUMER drops the consumer's
\* pending entries with it.
DrainRelease(r) ==
    /\ ReleaseDropsPending
    /\ pc[r] = "drain"
    /\ pending' = Unclaim(PendingOf(r))
    /\ released' = released \union PendingOf(r)
    /\ pc' = [pc EXCEPT ![r] = "off"]
    /\ UNCHANGED <<stream, offset, dlq, outs, from, batch, cur, todo, stopping, handled, fails, slow>>

\* _drain_on_shutdown when release_consumer does nothing (in-memory bus) or
\* fails (its exceptions are swallowed).
DrainKeep(r) ==
    /\ ~ReleaseDropsPending \/ FaultyBus
    /\ pc[r] = "drain"
    /\ pc' = [pc EXCEPT ![r] = "off"]
    /\ UNCHANGED <<busVars, from, batch, cur, todo, stopping, historyVars>>

\* SIGKILL or a fault of the process: nothing of the finally block runs.
Crash(r) ==
    /\ pc[r] # "off"
    /\ pc' = [pc EXCEPT ![r] = "off"]
    /\ Forget(r)
    /\ UNCHANGED <<busVars, stopping, historyVars>>

-----------------------------------------------------------------------------
Process(r) ==
    \/ \E h \in batch[r] : RefuseSchema(r, h) \/ HandleOk(r, h) \/ HandleRaise(r, h)
    \/ PublishOutput(r) \/ Republish(r) \/ ToDlq(r) \/ Ack(r)

Loop(r) ==
    \/ Start(r) \/ SkipReclaim(r) \/ Read(r) \/ Exit(r)
    \/ DrainRelease(r) \/ DrainKeep(r)

Next ==
    \/ \E m \in Message : Publish(m)
    \/ \E h \in DOMAIN pending : Age(h)
    \/ \E r \in Instance :
         \/ Loop(r) \/ Process(r)
         \/ Reclaim(r) \/ ReclaimLost(r)
         \/ Stop(r) \/ BusError(r) \/ Crash(r)

Spec == Init /\ [][Next]_vars

\* A live process keeps running its loop and its handlers return; time
\* passes; and since the reclaim throttle elapses again and again, a loop
\* that keeps meeting idle entries does reclaim them in the end.
Fairness ==
    /\ \A r \in Instance : WF_vars(Loop(r)) /\ WF_vars(Process(r)) /\ SF_vars(Reclaim(r))
    /\ WF_vars(\E h \in DOMAIN pending :
                 ~Holds(pending[h].consumer, h) /\ Age(h))

FairSpec == Spec /\ Fairness

-----------------------------------------------------------------------------
(* Properties *)

\* Every variable has its type; handles in the runners' hands were delivered.
TypeOK ==
    /\ stream \in Seq(Entry)
    /\ offset \in 0..Len(stream)
    /\ DOMAIN pending \subseteq 1..offset
    /\ pending \in [DOMAIN pending -> [consumer : Instance, idle : BOOLEAN]]
    /\ dlq \subseteq [handle : 1..offset, attempts : Nat, reason : Reasons]
    /\ outs \subseteq (1..offset) \X Outputs
    /\ pc \in [Instance -> PC]
    /\ from \in [Instance -> {"fresh", "reclaimed"}]
    /\ batch \in [Instance -> SUBSET (1..offset)]
    /\ cur \in [Instance -> 0..offset]
    /\ todo \in [Instance -> SUBSET Outputs]
    /\ stopping \subseteq Instance
    /\ handled \subseteq 1..offset
    /\ fails \in [Message -> Nat]
    /\ released \subseteq 1..offset
    /\ slow \in 0..MaxSlow

Done(h) == h \in handled /\ \A o \in Outputs : <<h, o>> \in outs
Dead(h) == \E d \in dlq : d.handle = h
Alive(h) == h > offset \/ h \in DOMAIN pending
Sent == {stream[h].id : h \in Handles}
Settled(m) == \E h \in Handles : stream[h].id = m /\ (Done(h) \/ Dead(h))

\* At-least-once delivery: a published message is still to be delivered, or
\* claimed and not acked (so it can be reclaimed), or handled with all its
\* outputs published, or in the dead-letter queue (runner._process acks last).
NoLoss ==
    \A g \in Handles : \E h \in Handles :
        stream[h].id = stream[g].id /\ (Alive(h) \/ Done(h) \/ Dead(h))

\* The same with the one exception that the code has: entries that
\* release_consumer dropped with the consumer that held them.
OnlyReleaseLoses ==
    \A g \in Handles : \E h \in Handles :
        /\ stream[h].id = stream[g].id
        /\ Alive(h) \/ Done(h) \/ Dead(h) \/ h \in released

\* An entry that has left the pending set was handled with all its outputs
\* published, dead-lettered, dropped by release_consumer, or succeeded by an
\* entry of the same message with the next attempt number.
AckedIsSettled ==
    \A h \in 1..offset :
        \/ h \in DOMAIN pending \/ Done(h) \/ Dead(h) \/ h \in released
        \/ \E k \in Handles : /\ k > h
                              /\ stream[k].id = stream[h].id
                              /\ stream[k].attempt = stream[h].attempt + 1

\* A message is dead-lettered for an exhausted budget only after its handler
\* raised RetryBudget times: redelivery after a crash, a slow handler or a
\* duplicate entry never uses up the budget (_handle_failure).
NoPrematureDeadLetter ==
    \A d \in dlq : d.reason = "retry_budget_exhausted" =>
        /\ d.attempts = RetryBudget
        /\ fails[stream[d.handle].id] >= RetryBudget

\* While no entry goes idle in a live runner's hands, no two live runners
\* hold the same entry: reclaim takes entries from dead peers only.
ExclusiveUnlessSlow ==
    \A r, q \in Instance, h \in 1..offset :
        Holds(r, h) /\ Holds(q, h) /\ r # q => slow > 0

\* Every message is eventually handled or dead-lettered, unless all runners
\* are gone or an entry of it was dropped by release_consumer: in particular
\* the entries of a dead or slow runner reach a live one.
EventuallySettled ==
    \A m \in Message :
        (m \in Sent) ~> \/ Settled(m)
                        \/ \E h \in released : stream[h].id = m
                        \/ \A r \in Instance : pc[r] = "off"

\* With an in-memory bus the topic is a reliable one: an id leaves the set of
\* outstanding messages only once it is settled (see ReliableTopic).
Outstanding == {stream[h].id : h \in {k \in Handles : Alive(k)}}
SettledIds == {m \in Sent : Settled(m)}
Topic == INSTANCE ReliableTopic WITH outstanding <- Outstanding, settled <- SettledIds
ImplementsReliableTopic == Topic!Spec

=============================================================================
