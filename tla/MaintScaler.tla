----------------------------- MODULE MaintScaler -----------------------------
(***************************************************************************)
(* maint.scaler.v1 (swarm/agents/maint/scaler.py): replica counts decided  *)
(* from smoothed load signals, under an operator's pins and pauses, and    *)
(* handed to a RuntimeController.                                          *)
(*                                                                         *)
(* Time is counted in decision windows; the timers of a target are the     *)
(* windows still to go.  A tick walks the observed targets one by one: the *)
(* agent is single-threaded, so no bus message is handled in between.      *)
(* A signal is what _smooth_signals and the thresholds make of the raw     *)
(* samples: urgent (queue deep or head old), calm (queue and in-flight     *)
(* low) and need, the replicas the observed load asks for.                 *)
(***************************************************************************)
EXTENDS Integers, Sequences, FiniteSets, PauseState, SequencesExt

CONSTANTS
    Target,          \* agents the scaler may see in its signals
    SelfScaling,     \* maint_scaler_self_scaling_targets
    Signal,          \* the signals that may be observed
    PinCount,        \* replica counts an operator may pin: any integer, -1 unpins
    Deployed,        \* replica counts a target may run with before any decision
    MaxTargets,      \* capacity of _targets
    MinReplicas, MaxReplicas, MaxStep,
    GraceWindows,    \* maint_scaler_scale_down_grace_windows
    HysteresisWindows,
    MinInterval,     \* min_decision_interval_s, in windows
    PinTtl, PauseTtl,
    GlobalCap,       \* maint_scaler_global_max_replicas
    MaxChanges,      \* maint_scaler_max_changes_per_window
    MaxEvents        \* bound: operator commands, isolations, leader changes and
                     \* refusals of the runtime

ASSUME ScalerAssumption ==
    /\ SelfScaling \subseteq Target
    /\ Signal \subseteq [urgent : BOOLEAN, calm : BOOLEAN, need : Nat]
    /\ PinCount \subseteq Int \ {-1}
    /\ Deployed \subseteq Nat /\ Deployed # {}
    /\ {MinReplicas, GraceWindows, MinInterval, MaxEvents} \subseteq Nat
    /\ {MaxTargets, MaxReplicas, MaxStep, HysteresisWindows, PinTtl, PauseTtl,
        GlobalCap, MaxChanges} \subseteq Nat \ {0}
    /\ MinReplicas <= MaxReplicas

VARIABLES
    lru,      \* Seq of the targets in _targets, least recently used first
    st,       \* Target -> _TargetState; an untracked target has a fresh one
    pause,    \* PauseState
    leader,   \* _leader.is_leader()
    tick,     \* the tick in progress
    actual,   \* Target -> replicas the runtime controller runs
    \* history
    wish,     \* Target -> the operator's unexpired, uncancelled pin
    hold,     \* windows the operator's latest pause still has to run
    lapsed,   \* targets whose pin the controller refused or the LRU dropped
    events    \* of those that MaxEvents bounds, how many so far

agentVars == <<lru, st, pause, tick>>
historyVars == <<wish, hold, lapsed, events>>
vars == <<agentVars, leader, actual, historyVars>>

NoPin == -1

\* A fresh _TargetState.  recent is the part of the history deque that is read,
\* its last HysteresisWindows entries.
Fresh ==
    [replicas |-> 1, recent |-> << >>, pin |-> NoPin, pinLeft |-> 0,
     low |-> 0, decided |-> FALSE, cool |-> 0]

NoTick == [mode |-> "off", seen |-> {}, tier |-> 0, noise |-> FALSE,
           total |-> 0, emitted |-> 0, joined |-> {}]

NoWish == [count |-> NoPin, left |-> 0]

Lesser(m, n) == IF m < n THEN m ELSE n
Greater(m, n) == IF m > n THEN m ELSE n

\* roster_total: the replicas of all the targets in _targets.
RosterTotal == SumFunctionOnSet([t \in Target |-> st[t].replicas], Range(lru))

\* last_replicas starts at 1 whatever the runtime runs.
Init ==
    /\ lru = << >>
    /\ st = [t \in Target |-> Fresh]
    /\ pause = Running
    /\ leader = TRUE
    /\ tick = NoTick
    /\ actual \in [Target -> Deployed]
    /\ wish = [t \in Target |-> NoWish]
    /\ hold = 0
    /\ lapsed = {}
    /\ events = 0

Idle == tick.mode = "off"

Spend(n) == events + n <= MaxEvents /\ events' = events + n

Command == Idle /\ Spend(1)

-----------------------------------------------------------------------------
(* _evict_and_get *)

Tracked(t) == Contains(lru, t)

MutantEvicted(t) ==
    IF ~Tracked(t) /\ Len(lru) > MaxTargets THEN {Head(lru)} ELSE {}

\* The target a newcomer pushes out, if any.
Evicted(t) ==
    IF ~Tracked(t) /\ Len(lru) >= MaxTargets THEN {Head(lru)} ELSE {}

Place(t) == CHOOSE i \in 1..Len(lru) : lru[i] = t

\* move_to_end of a tracked target, or popitem(last=False) and insertion.
Touched(t) ==
    Append(IF Tracked(t) THEN RemoveAt(lru, Place(t))
           ELSE IF Evicted(t) = {} THEN lru ELSE Tail(lru), t)

\* _evict_and_get(t), and then t's state becomes x.
Touch(t, x) ==
    /\ lru' = Touched(t)
    /\ st' = [u \in Target |-> IF u = t THEN x ELSE IF u \in Evicted(t) THEN Fresh ELSE st[u]]

\* The targets whose pin no longer holds: the one evicted for t, and t itself
\* when the runtime refuses.
Losses(t, accepted) == Evicted(t) \union (IF accepted THEN {} ELSE {t})

Pinned(S) == {u \in S : wish'[u] # NoWish}

-----------------------------------------------------------------------------
(* Operator commands; a replica that is not the leader only acknowledges a pin *)

\* RuntimeController.apply(t, n): the target runs n replicas if it accepts.
Apply(t, n, accepted) ==
    actual' = IF accepted THEN [actual EXCEPT ![t] = n] ELSE actual

\* _handle_pin with a replica count: pin, tell the runtime, remember the count
\* whatever the runtime answered.
Pin(t, n, accepted) ==
    /\ Command /\ leader
    /\ Touch(t, [st[t] EXCEPT !.pin = n, !.pinLeft = PinTtl, !.replicas = n,
                              !.cool = MinInterval])
    /\ Apply(t, n, accepted)
    /\ wish' = [wish EXCEPT ![t] = [count |-> n, left |-> PinTtl]]
    /\ lapsed' = (lapsed \ {t}) \union Pinned(Losses(t, accepted))
    /\ UNCHANGED <<pause, leader, tick, hold>>

\* _handle_pin with replicas = -1.
Unpin(t) ==
    /\ Command /\ leader
    /\ Touch(t, [st[t] EXCEPT !.pin = NoPin, !.pinLeft = 0])
    /\ wish' = [wish EXCEPT ![t] = NoWish]
    /\ lapsed' = (lapsed \ {t}) \union Pinned(Evicted(t))
    /\ UNCHANGED <<pause, leader, tick, actual, hold>>

\* _handle_pause: an expired pause is ended before the command is applied.
Pause(ttl) ==
    /\ Command
    /\ pause' = ApplyPause(ExpireIfDue(pause), ttl)
    /\ hold' = IF pause.isolated THEN hold ELSE Greater(hold, ttl)
    /\ UNCHANGED <<lru, st, leader, tick, actual, wish, lapsed>>

Resume ==
    /\ Command
    /\ pause' = ApplyResume(pause)
    /\ hold' = 0
    /\ UNCHANGED <<lru, st, leader, tick, actual, wish, lapsed>>

\* The dead man's switch isolates the agent (deadmans.py).
Isolate ==
    /\ Command /\ ~pause.isolated
    /\ pause' = [pause EXCEPT !.isolated = TRUE]
    /\ UNCHANGED <<lru, st, leader, tick, actual, wish, hold, lapsed>>

LeaderFlip ==
    /\ Command
    /\ leader' = ~leader
    /\ UNCHANGED <<agentVars, actual, wish, hold, lapsed>>

\* The clock enters the next decision window.
Less(n) == IF n > 0 THEN n - 1 ELSE 0

Window ==
    /\ Idle
    /\ pause' = Elapsed(pause)
    /\ st' = [t \in Target |-> [st[t] EXCEPT !.pinLeft = Less(@), !.cool = Less(@),
                                             !.decided = FALSE]]
    /\ wish' = [t \in Target |-> IF wish[t].left <= 1 THEN NoWish
                                 ELSE [wish[t] EXCEPT !.left = @ - 1]]
    /\ lapsed' = {t \in lapsed : wish'[t] # NoWish}
    /\ hold' = Less(hold)
    /\ UNCHANGED <<lru, leader, tick, actual, events>>

-----------------------------------------------------------------------------
(* _decide *)

Clamp(need) == Greater(MinReplicas, Lesser(MaxReplicas, Greater(1, need)))

WantsUp(x, s) == s.urgent \/ Clamp(s.need) > x.replicas
WantsDown(x, s) == ~WantsUp(x, s) /\ s.calm /\ Clamp(s.need) < x.replicas

Step(n) == Lesser(MaxStep, Greater(1, n))

Up(x, s) == Lesser(MaxReplicas, x.replicas + Step(Clamp(s.need) - x.replicas))

Down(x, s) == Greater(MinReplicas, x.replicas - Step(x.replicas - Clamp(s.need)))

\* The consecutive low windows seen; from GraceWindows on only that matters.
LowStreak(x, s) == IF WantsDown(x, s) THEN Lesser(x.low + 1, GraceWindows) ELSE 0

(***************************************************************************)
(* _hysteresis_ok: the recent counts are compared with last_replicas,      *)
(* which the newest of them equals unless a pin came after it.             *)
(***************************************************************************)
HysteresisOk(x, new) ==
    LET up == new > x.replicas
        above == [i \in DOMAIN x.recent |-> x.recent[i] > x.replicas] IN
    \/ Len(x.recent) < HysteresisWindows
    \/ \E i \in DOMAIN x.recent : above[i] # up
    \/ Last(above) # up

\* The count _decide proposes; x.replicas for none.
Proposal(x, s) ==
    LET new == IF WantsUp(x, s) /\ x.replicas < MaxReplicas THEN Up(x, s)
               ELSE IF WantsDown(x, s) /\ x.low >= GraceWindows /\ x.replicas > MinReplicas
                    THEN Down(x, s)
               ELSE x.replicas IN
    IF HysteresisOk(x, new) THEN new ELSE x.replicas

-----------------------------------------------------------------------------
(* tick *)

\* The tick moves on from t; signals has one entry for a target.
Past(t, k) == [k EXCEPT !.seen = @ \union {t},
                        !.joined = IF Tracked(t) THEN @ ELSE @ \union {t}]

TickEnd ==
    /\ ~Idle
    /\ tick' = NoTick
    /\ UNCHANGED <<lru, st, pause, leader, actual, historyVars>>

\* Not running or not leading: the tick may end an expired pause, nothing else.
TickResumes ==
    /\ Idle /\ Due(pause)
    /\ pause' = ExpireIfDue(pause)
    /\ UNCHANGED <<lru, st, leader, tick, actual, historyVars>>

\* A paused leader reports scale_throttled for every target it sees.
TickPaused ==
    /\ Idle /\ pause.paused /\ ~Due(pause) /\ leader
    /\ tick' = [NoTick EXCEPT !.mode = "throttle"]
    /\ UNCHANGED <<lru, st, pause, leader, actual, historyVars>>

\* Expired pins go first, then the roster is counted.
Unpinned(x) == IF x.pin # NoPin /\ x.pinLeft = 0 THEN [x EXCEPT !.pin = NoPin] ELSE x

\* A noise window refuses every change, whatever the tier: the tier is not kept.
TickStart(tier, noise) ==
    /\ Idle /\ leader /\ ~pause.paused /\ ~pause.isolated
    /\ st' = [t \in Target |-> Unpinned(st[t])]
    /\ tick' = [NoTick EXCEPT !.mode = "decide", !.noise = noise, !.total = RosterTotal,
                              !.tier = IF noise THEN 0 ELSE tier]
    /\ UNCHANGED <<lru, pause, leader, actual, historyVars>>

\* The next target costs only its place in the LRU, and its low streak.
PassOver(t, x) ==
    /\ Touch(t, x)
    /\ tick' = Past(t, tick)
    /\ lapsed' = lapsed \union {u \in Evicted(t) : wish[u] # NoWish}
    /\ UNCHANGED <<pause, leader, actual, wish, hold, events>>

Throttle(t) ==
    /\ tick.mode = "throttle" /\ t \notin tick.seen
    /\ PassOver(t, st[t])

\* A self-scaling target is reported and left alone: no action of its own.
Deciding(t) == tick.mode = "decide" /\ t \notin tick.seen \union SelfScaling

MutantGatedByWindow(x) == x.decided

\* Already decided in this window, or pinned by the operator.
Gated(x) == x.decided \/ x.pin # NoPin

SkipGated(t) ==
    /\ Deciding(t) /\ Gated(st[t])
    /\ PassOver(t, st[t])

(***************************************************************************)
(* What stands between a proposal and the runtime, in the code's order:    *)
(* backpressure, the minimum interval, the global cap against the roster   *)
(* counted at the start of the tick and kept up to date, the VRAM and CPU  *)
(* budget (tight), the noise window, the changes of this tick.             *)
(***************************************************************************)
MutantRefused(x, new, tight) ==
    \/ new < x.replicas /\ tick.tier >= 1
    \/ x.cool > 0
    \/ new > x.replicas /\ tick.total > GlobalCap
    \/ new > x.replicas /\ tight
    \/ tick.noise
    \/ tick.emitted >= MaxChanges

Refused(x, new, tight) ==
    \/ new < x.replicas /\ tick.tier >= 1
    \/ x.cool > 0
    \/ new > x.replicas /\ tick.total - x.replicas + new > GlobalCap
    \/ new > x.replicas /\ tight
    \/ tick.noise
    \/ tick.emitted >= MaxChanges

Stay(t, s, tight) ==
    LET x == st[t] new == Proposal(x, s) IN
    /\ Deciding(t) /\ ~Gated(x)
    /\ new = x.replicas \/ Refused(x, new, tight)
    /\ PassOver(t, [x EXCEPT !.low = LowStreak(x, s)])

\* A scale_decision: the runtime is told, and the count is kept whatever it says.
Scale(t, s, accepted) ==
    LET x == st[t] new == Proposal(x, s)
        recent == Append(x.recent, new) IN
    /\ Deciding(t) /\ ~Gated(x)
    /\ new # x.replicas /\ ~Refused(x, new, FALSE)
    /\ Touch(t, [x EXCEPT !.low = LowStreak(x, s), !.replicas = new, !.decided = TRUE,
                          !.cool = MinInterval,
                          !.recent = IF Len(recent) > HysteresisWindows THEN Tail(recent)
                                     ELSE recent])
    /\ Apply(t, new, accepted)
    /\ tick' = Past(t, [tick EXCEPT !.total = @ - x.replicas + new, !.emitted = @ + 1])
    /\ lapsed' = lapsed \union {u \in Evicted(t) : wish[u] # NoWish}
    /\ Spend(IF accepted THEN 0 ELSE 1)
    /\ UNCHANGED <<pause, leader, wish, hold>>

Next ==
    \/ \E t \in Target, n \in PinCount, ok \in BOOLEAN : Pin(t, n, ok)
    \/ \E t \in Target : Unpin(t) \/ Throttle(t) \/ SkipGated(t)
    \/ \E ttl \in 1..PauseTtl : Pause(ttl)
    \/ Resume \/ Isolate \/ LeaderFlip \/ Window \/ TickResumes \/ TickPaused \/ TickEnd
    \/ \E tier \in 0..1, noise \in BOOLEAN : TickStart(tier, noise)
    \/ \E t \in Target, s \in Signal :
         \/ \E tight \in BOOLEAN : Stay(t, s, tight)
         \/ \E ok \in BOOLEAN : Scale(t, s, ok)

Spec == Init /\ [][Next]_vars

-----------------------------------------------------------------------------
(* Properties *)

TargetState ==
    [replicas : Int, recent : Seq(Int), pin : PinCount \union {NoPin},
     pinLeft : 0..PinTtl, low : 0..GraceWindows, decided : BOOLEAN, cool : 0..MinInterval]

\* Every variable has its type.  _targets holds at most MaxTargets, each once,
\* and what it does not hold is fresh; a tick makes at most MaxChanges changes.
TypeOK ==
    /\ lru \in Seq(Target) /\ Len(lru) <= MaxTargets /\ IsInjective(lru)
    /\ st \in [Target -> TargetState]
    /\ \A t \in Target : /\ Len(st[t].recent) <= HysteresisWindows
                         /\ t \notin Range(lru) => st[t] = Fresh
    /\ pause \in [paused : BOOLEAN, isolated : BOOLEAN, left : Nat]
    /\ leader \in BOOLEAN
    /\ DOMAIN tick = DOMAIN NoTick
    /\ tick.mode \in {"off", "throttle", "decide"}
    /\ tick.joined \subseteq tick.seen /\ tick.seen \subseteq Target
    /\ tick.emitted \in 0..MaxChanges
    /\ actual \in [Target -> Int]
    /\ wish \in [Target -> {NoWish} \union [count : PinCount, left : 1..PinTtl]]
    /\ hold \in Nat /\ events \in 0..MaxEvents
    /\ lapsed \subseteq Target

(***************************************************************************)
(* While an operator's pin runs, the runtime keeps the pinned count,       *)
(* unless it refused it or the target fell out of _targets: eviction drops *)
(* a pin without a word (scaler.py _evict_and_get).                        *)
(***************************************************************************)
PinHeld ==
    \A t \in Target : wish[t] # NoWish /\ t \notin lapsed => actual[t] = wish[t].count

(***************************************************************************)
(* A scale-up leaves the roster within global_max_replicas, but for one    *)
(* replica of each target that tick saw for the first time: the roster is  *)
(* counted before they join it (scaler.py tick, roster_total).  Needs pins *)
(* that are not negative: evicting a negative count raises the roster.     *)
(***************************************************************************)
CapOverrunByNewcomers ==
    [][\A t \in Target :
         tick'.emitted > tick.emitted /\ t \in tick'.seen \ tick.seen
           /\ st'[t].replicas > st[t].replicas =>
            RosterTotal' <= GlobalCap + Cardinality(tick'.joined)]_vars

(***************************************************************************)
(* An operator's pause holds for the longest ttl asked for: no tick        *)
(* decides before it has passed or the agent is resumed                    *)
(* (_pause_state.py apply_pause, "refresh-only-widens").                   *)
(***************************************************************************)
PauseHeld == hold > 0 => tick.mode # "decide"

=============================================================================
