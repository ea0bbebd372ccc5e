------------------------------- MODULE BusBreaker -------------------------------
(***************************************************************************)
(* src/swarm/agents/maint/_bus_circuit_breaker.py: the publish path of one *)
(* maintenance agent, its circuit breaker and its on-disk spool.           *)
(*                                                                         *)
(* A publish_fn call succeeds or raises, and when it raises the bus may    *)
(* have applied it all the same; an unlink may raise too.  Once bus and    *)
(* disk are steady, both succeed.  publish() is one step.  tick() is one   *)
(* step up to the replay of the spool, which is one step per publish and   *)
(* one per unlink, because the process may die in between; publish() waits *)
(* meanwhile (one thread).                                                 *)
(* The one thread never contends for the flush lock of the replay; that    *)
(* lock, which ops.spool-flush takes by the same calls, is in SpoolFlush.  *)
(***************************************************************************)
EXTENDS Naturals, Sequences, SequencesExt

CONSTANTS Message,        \* the messages the agent emits, each of them once
          Critical,       \* those with severity=critical
          FailThreshold,  \* cfg.maint_bus_fail_threshold
          MaxSpool,       \* cfg.maint_agent_spool_max_entries
          MaxCrashes      \* bound: how often the process dies

ASSUME BreakerAssumption ==
    /\ Critical \subseteq Message
    /\ FailThreshold \in Nat \ {0}
    /\ MaxSpool \in Nat \ {0}
    /\ MaxCrashes \in Nat

VARIABLES mode,       \* _state
          failures,   \* _consecutive_failures
          failedOnce, \* _last_failure_ts is not None
          isolated,   \* self_isolated
          spool,      \* the spool's entries in arrival order
          pc,         \* where tick() is: idle, replay, unlink
          todo,       \* the entries tick() has still to replay, in its order
          steady,     \* the bus and the disk have recovered for good
          crashes,    \* how often the process has died
          \* history
          given,      \* messages handed to publish()
          sent,       \* messages the bus has
          doubled,    \* messages the bus has twice
          spooled,    \* messages that were written to the spool
          aged,       \* messages pruned from the spool, an audit event attempted
          malformed,  \* messages whose entry was found unreadable
          alerted,    \* critical messages that caused maint_self_isolated
          torn        \* messages the bus has and the agent must take for unsent:
                      \* the publish or the unlink raised, or the process died

circuitVars == <<mode, failures, failedOnce, isolated>>
spoolVars == <<spool, spooled, aged, malformed>>
replayVars == <<pc, todo>>
busVars == <<sent, doubled>>
breakerVars == <<circuitVars, spoolVars, replayVars, busVars, steady, crashes, given,
          alerted, torn>>

Entry == [msg : Message, readable : BOOLEAN]

BreakerInit ==
    /\ mode = "closed" /\ failures = 0 /\ failedOnce = FALSE /\ isolated = FALSE
    /\ spool = << >> /\ spooled = {} /\ aged = {} /\ malformed = {}
    /\ pc = "idle" /\ todo = << >>
    /\ steady = FALSE /\ crashes = 0
    /\ given = {} /\ sent = {} /\ doubled = {} /\ alerted = {} /\ torn = {}

-----------------------------------------------------------------------------
(* publish()                                                               *)

\* The bus after an attempt at m that it has applied or not; had is whether an
\* attempt of the same call of publish() was applied before.
Deliver(m, had, applied) ==
    /\ sent' = IF had \/ applied THEN sent \cup {m} ELSE sent
    /\ doubled' = IF applied /\ (had \/ m \in sent) THEN doubled \cup {m} ELSE doubled

\* The agent must take m for unsent, whether or not the bus has it.
Unsure(m, applied) == torn' = IF applied THEN torn \cup {m} ELSE torn

\* Mutant: one entry too many.
MutantSpoolWrite(m) ==
    IF Len(spool) > MaxSpool
    THEN UNCHANGED spoolVars
    ELSE /\ spool' = Append(spool, [msg |-> m, readable |-> TRUE])
         /\ spooled' = spooled \cup {m}
         /\ UNCHANGED <<aged, malformed>>

\* _spool_write: above the cap the message is dropped with a log line.
SpoolWrite(m) ==
    IF Len(spool) >= MaxSpool
    THEN UNCHANGED spoolVars
    ELSE /\ spool' = Append(spool, [msg |-> m, readable |-> TRUE])
         /\ spooled' = spooled \cup {m}
         /\ UNCHANGED <<aged, malformed>>

\* _publish_degraded and _publish_critical_degraded, of a message that the bus
\* may have from an attempt that raised.
PublishDegraded(m, had) ==
    \/ /\ m \notin Critical
       /\ SpoolWrite(m)
       /\ Deliver(m, had, FALSE)
       /\ Unsure(m, had)
       /\ UNCHANGED <<isolated, alerted>>
    \/ \* the direct attempt succeeds
       /\ m \in Critical
       /\ Deliver(m, had, TRUE)
       /\ Unsure(m, had)
       /\ UNCHANGED <<spoolVars, isolated, alerted>>
    \/ \* the direct attempt raises
       /\ m \in Critical
       /\ ~steady
       /\ \E applied \in BOOLEAN :
            /\ Deliver(m, had, applied)
            /\ Unsure(m, had \/ applied)
       /\ isolated' = TRUE
       /\ alerted' = alerted \cup {m}
       /\ UNCHANGED spoolVars

\* The call of publish() for a message the agent has not emitted before.
Emit(m) ==
    /\ pc = "idle"
    /\ m \notin given
    /\ given' = given \cup {m}
    /\ UNCHANGED <<replayVars, steady, crashes>>

PublishOk(m) ==
    /\ mode = "closed"
    /\ Emit(m)
    /\ Deliver(m, FALSE, TRUE)
    /\ failures' = 0
    /\ failedOnce' = FALSE
    /\ UNCHANGED <<mode, isolated, spoolVars, alerted, torn>>

\* The streak after one more failure; outside is whether the previous one is
\* further back than fail_window_s.
Streak(outside) == (IF outside THEN 0 ELSE failures) + 1

\* _publish_closed when publish_fn raises, before or after the bus has applied
\* it.  Below the threshold the message is neither spooled nor returned.
PublishFails(m) ==
    /\ mode = "closed"
    /\ ~steady
    /\ Emit(m)
    /\ \E outside \in {FALSE, failedOnce}, applied \in BOOLEAN :
        /\ failures' = Streak(outside)
        /\ failedOnce' = TRUE
        /\ \/ /\ Streak(outside) >= FailThreshold
              /\ mode' = "bus_degraded"
              /\ PublishDegraded(m, applied)
           \/ /\ Streak(outside) < FailThreshold
              /\ Deliver(m, applied, FALSE)
              /\ Unsure(m, applied)
              /\ UNCHANGED <<mode, isolated, spoolVars, alerted>>

PublishWhileDegraded(m) ==
    /\ mode = "bus_degraded"
    /\ Emit(m)
    /\ PublishDegraded(m, FALSE)
    /\ UNCHANGED <<mode, failures, failedOnce>>

-----------------------------------------------------------------------------
(* tick()                                                                  *)

\* A successful probe closes the breaker and ends the isolation.
Recovered == mode' = "closed" /\ failures' = 0 /\ isolated' = FALSE

\* prune_aged_spool_entries deletes the n oldest entries.
Young(n) == SubSeq(spool, n + 1, Len(spool))

\* The probe succeeds: the breaker closes, the entries older than the maximal
\* age (the first n) are pruned, the rest is to be replayed newest first.
TickRecovers ==
    /\ pc = "idle"
    /\ mode = "bus_degraded"
    /\ Recovered
    /\ \E n \in 0..Len(spool) :
        LET kept == Young(n) IN
        /\ aged' = aged \cup {spool[i].msg : i \in 1..n}
        /\ spool' = kept
        /\ todo' = Reverse(kept)
        /\ pc' = IF kept = << >> THEN "idle" ELSE "replay"
    /\ UNCHANGED <<failedOnce, spooled, malformed, busVars, steady, crashes,
                   given, alerted, torn>>

\* The entry at the head of todo leaves the spool, and the loop goes on.
DropEntry ==
    /\ spool' = RemoveFirst(spool, Head(todo))
    /\ todo' = Tail(todo)
    /\ pc' = IF Tail(todo) = << >> THEN "idle" ELSE "replay"

\* An entry that cannot be parsed is renamed away.
ReplayMalformed ==
    /\ pc = "replay"
    /\ ~Head(todo).readable
    /\ malformed' = malformed \cup {Head(todo).msg}
    /\ DropEntry
    /\ UNCHANGED <<circuitVars, spooled, aged, busVars, steady, crashes, given,
                   alerted, torn>>

ReplayOk ==
    /\ pc = "replay"
    /\ Head(todo).readable
    /\ Deliver(Head(todo).msg, FALSE, TRUE)
    /\ pc' = "unlink"
    /\ UNCHANGED <<circuitVars, spoolVars, todo, steady, crashes, given, alerted, torn>>

\* Mutant: the entry is unlinked although its publication failed.
MutantReplayFails ==
    /\ pc = "replay"
    /\ ~steady
    /\ Head(todo).readable
    /\ mode' = "bus_degraded"
    /\ failures' = 1
    /\ spool' = RemoveFirst(spool, Head(todo))
    /\ pc' = "idle"
    /\ todo' = << >>
    /\ UNCHANGED <<failedOnce, isolated, spooled, aged, malformed, busVars, steady,
                   crashes, given, alerted, torn>>

\* The breaker re-opens, the entry at hand and the rest stay.
Abandon ==
    /\ mode' = "bus_degraded"
    /\ failures' = 1
    /\ pc' = "idle"
    /\ todo' = << >>

\* The bus went down again, before or after it applied the publish.
ReplayFails ==
    /\ pc = "replay"
    /\ ~steady
    /\ Head(todo).readable
    /\ Abandon
    /\ \E applied \in BOOLEAN :
        /\ Deliver(Head(todo).msg, FALSE, applied)
        /\ Unsure(Head(todo).msg, applied)
    /\ UNCHANGED <<failedOnce, isolated, spoolVars, steady, crashes, given, alerted>>

\* The entry is published and its unlink raises, which the replay takes for a
\* failure of the bus.
UnlinkFails ==
    /\ pc = "unlink"
    /\ ~steady
    /\ Abandon
    /\ Unsure(Head(todo).msg, TRUE)
    /\ UNCHANGED <<failedOnce, isolated, spoolVars, busVars, steady, crashes, given, alerted>>

\* Mutant: the entry just published stays in the spool.
MutantUnlink ==
    /\ pc = "unlink"
    /\ todo' = Tail(todo)
    /\ pc' = IF Tail(todo) = << >> THEN "idle" ELSE "replay"
    /\ UNCHANGED <<circuitVars, spoolVars, busVars, steady,
                   crashes, given, alerted, torn>>

Unlink ==
    /\ pc = "unlink"
    /\ DropEntry
    /\ UNCHANGED <<circuitVars, spooled, aged, malformed, busVars, steady,
                   crashes, given, alerted, torn>>

-----------------------------------------------------------------------------
(* The environment.                                                        *)

\* A new process: a closed breaker, and the spool as it is on disk.
Reborn ==
    /\ crashes < MaxCrashes
    /\ crashes' = crashes + 1
    /\ mode' = "closed" /\ failures' = 0 /\ failedOnce' = FALSE /\ isolated' = FALSE
    /\ pc' = "idle" /\ todo' = << >>

Crash ==
    /\ Reborn
    /\ Unsure(Head(todo).msg, pc = "unlink")
    /\ UNCHANGED <<spoolVars, busVars, steady, given, alerted>>

\* The process dies while _spool_write fills the file it has created.
CrashInSpoolWrite(m) ==
    /\ Reborn
    /\ pc = "idle"
    /\ mode = "bus_degraded" \/ (~steady /\ Streak(FALSE) >= FailThreshold)
    /\ m \notin given \cup Critical
    /\ Len(spool) < MaxSpool
    /\ given' = given \cup {m}
    /\ spool' = Append(spool, [msg |-> m, readable |-> FALSE])
    /\ spooled' = spooled \cup {m}
    /\ \E applied \in {FALSE, mode = "closed"} :
        /\ Deliver(m, applied, FALSE)
        /\ Unsure(m, applied)
    /\ UNCHANGED <<aged, malformed, steady, alerted>>

\* The outage of the bus is over for good, and so are the faults of the disk.
BusRecovers ==
    /\ ~steady
    /\ steady' = TRUE
    /\ UNCHANGED <<circuitVars, spoolVars, replayVars, busVars, crashes, given,
                   alerted, torn>>

Replay == ReplayMalformed \/ ReplayOk \/ ReplayFails \/ Unlink \/ UnlinkFails

BreakerNext ==
    \/ \E m \in Message : PublishOk(m) \/ PublishFails(m)
                          \/ PublishWhileDegraded(m) \/ CrashInSpoolWrite(m)
    \/ TickRecovers
    \/ Replay
    \/ Crash
    \/ BusRecovers

BreakerSpec == BreakerInit /\ [][BreakerNext]_breakerVars

\* The heartbeat calls tick(), a replay that began goes on, outages end.
BreakerFairSpec ==
    /\ BreakerSpec
    /\ WF_breakerVars(BusRecovers) /\ WF_breakerVars(TickRecovers) /\ WF_breakerVars(Replay)

-----------------------------------------------------------------------------
(* Properties.                                                             *)

InSpool == {spool[i].msg : i \in 1..Len(spool)}

\* The variables have their types, and the spool respects its cap.
BreakerTypeOK ==
    /\ mode \in {"closed", "bus_degraded"}
    /\ failures \in Nat
    /\ failedOnce \in BOOLEAN /\ isolated \in BOOLEAN /\ steady \in BOOLEAN
    /\ spool \in Seq(Entry) /\ Len(spool) <= MaxSpool
    /\ pc \in {"idle", "replay", "unlink"}
    /\ todo \in Seq(Entry)
    /\ pc # "idle" => todo # << >>
    /\ crashes \in 0..MaxCrashes
    /\ {given, sent, doubled, spooled, aged, malformed, alerted, torn}
         \subseteq SUBSET Message

\* A message that reached the spool is never lost silently, over replays that
\* fail half way and crashes: it is in the spool, on the bus, pruned by age, or
\* set aside as malformed.
SpooledSurvives == spooled \subseteq InSpool \cup sent \cup aged \cup malformed

\* The agent never publishes twice what it could know to be out: a message is
\* on the bus twice only when an attempt at it raised after the bus had applied
\* it, the unlink of its entry raised, or the process died in between.
DoubleOnlyTorn == doubled \subseteq torn

\* Every entry that is in the spool while the breaker is open leaves it once
\* outages end ("drained on first successful re-publish"), also when it is the
\* remainder of a replay that failed or of a process that died, unless the
\* process dies again: a restarted one has a closed breaker and never looks at
\* the spool before the next outage.
SpoolDrained ==
    \A m \in Message, n \in 0..MaxCrashes :
        (m \in InSpool /\ mode = "bus_degraded" /\ crashes = n) ~>
            (m \notin InSpool \/ crashes > n)

=============================================================================
