-------------------------- MODULE MaintScalerProofs --------------------------
(***************************************************************************)
(* Proofs about MaintScaler, for any targets, signals and limits: the      *)
(* types; a pause holds for the longest ttl an operator asked for; pins    *)
(* hold, the count believed is the one that runs, and a target is scaled   *)
(* once a window, up to refusals of the runtime and evictions; and the     *)
(* roster outgrows the global cap only by the newcomers of a tick.         *)
(*                                                                         *)
(* The last part is about BusBreaker (BreakerSpec), the bus circuit        *)
(* breaker that a maintenance agent such as the scaler publishes through.  *)
(* It shares no state with the scaler's own.                               *)
(***************************************************************************)
EXTENDS MaintScaler, BusBreaker, FiniteSetTheorems, TLAPS

\* The part of the state that the pause is about.
PauseTyped ==
    /\ pause \in [paused : BOOLEAN, isolated : BOOLEAN, left : Nat]
    /\ hold \in Nat
    /\ "mode" \in DOMAIN tick

\* The agent knows of the pause, and has at least as long to wait.
PauseKnown == hold > 0 => pause.paused /\ pause.left >= hold

PauseInv == PauseTyped /\ PauseKnown /\ PauseHeld

\* A step that leaves the pause alone and does not begin to decide.
LEMMA PauseKept ==
  ASSUME PauseInv, UNCHANGED <<pause, hold>>, "mode" \in DOMAIN tick',
         tick'.mode = "decide" => tick.mode = "decide"
  PROVE  PauseInv'
  BY DEF PauseInv, PauseTyped, PauseKnown, PauseHeld

\* What _handle_pause makes of a pause state.
LEMMA ApplyPauseWidens ==
  ASSUME NEW p \in [paused : BOOLEAN, isolated : BOOLEAN, left : Nat], NEW ttl \in Nat,
         ~p.isolated
  PROVE  /\ ApplyPause(p, ttl) \in [paused : BOOLEAN, isolated : BOOLEAN, left : Nat]
         /\ ApplyPause(p, ttl).paused = TRUE
         /\ ApplyPause(p, ttl).left >= ttl
         /\ p.paused => ApplyPause(p, ttl).left >= p.left
  <1> DEFINE l == IF p.paused /\ p.left > ttl THEN p.left ELSE ttl
  <1>1. l \in Nat /\ l >= ttl /\ (p.paused => l >= p.left)
    OBVIOUS
  <1>2. ApplyPause(p, ttl) = [p EXCEPT !.paused = TRUE, !.left = l]
    BY DEF ApplyPause
  <1> HIDE DEF l
  <1> QED BY <1>1, <1>2

\* A pause whose deadline has not come does not expire.
LEMMA ExpireTyped ==
  ASSUME NEW p \in [paused : BOOLEAN, isolated : BOOLEAN, left : Nat]
  PROVE  /\ ExpireIfDue(p) \in [paused : BOOLEAN, isolated : BOOLEAN, left : Nat]
         /\ ExpireIfDue(p).isolated = p.isolated
         /\ p.left > 0 => ExpireIfDue(p) = p
  <1>1. CASE Due(p)
    <2>1. ExpireIfDue(p) = [p EXCEPT !.paused = FALSE] /\ p.left = 0
      BY <1>1 DEF ExpireIfDue, Due
    <2>2. /\ [p EXCEPT !.paused = FALSE] \in [paused : BOOLEAN, isolated : BOOLEAN, left : Nat]
          /\ [p EXCEPT !.paused = FALSE].isolated = p.isolated
      OBVIOUS
    <2>3. ~(p.left > 0)
      BY <2>1
    <2> QED BY <2>1, <2>2, <2>3, Zenon
  <1>2. CASE ~Due(p)
    <2>1. ExpireIfDue(p) = p
      BY <1>2 DEF ExpireIfDue
    <2> QED BY <2>1
  <1> QED BY <1>1, <1>2

\* An operator's pause, also a second and shorter one, a resume, an isolation.
LEMMA PauseCommand ==
  ASSUME PauseInv, (\E ttl \in 1..PauseTtl : Pause(ttl)) \/ Resume \/ Isolate
  PROVE  PauseInv'
  <1>1. tick' = tick /\ tick.mode = "off"
    BY DEF Pause, Resume, Isolate, Command, Idle
  <1>2. ASSUME NEW ttl \in 1..PauseTtl, Pause(ttl) PROVE PauseInv'
    <2> DEFINE p == ExpireIfDue(pause)
    <2>1. ttl \in Nat /\ ttl > 0
      BY ScalerAssumption
    <2>2. /\ p \in [paused : BOOLEAN, isolated : BOOLEAN, left : Nat]
          /\ p.isolated = pause.isolated
          /\ hold > 0 => p = pause
      BY ExpireTyped DEF PauseInv, PauseTyped, PauseKnown
    <2>3. pause' = ApplyPause(p, ttl)
          /\ hold' = IF pause.isolated THEN hold ELSE Greater(hold, ttl)
      BY <1>2 DEF Pause
    <2> HIDE DEF p
    <2>4. CASE pause.isolated
      <3>1. pause' = p /\ hold' = hold
        BY <2>2, <2>3, <2>4 DEF ApplyPause
      <3> QED BY <3>1, <2>2, <1>1 DEF PauseInv, PauseTyped, PauseKnown, PauseHeld
    <2>5. CASE ~pause.isolated
      <3>1. /\ pause' \in [paused : BOOLEAN, isolated : BOOLEAN, left : Nat]
            /\ pause'.paused = TRUE /\ pause'.left >= ttl
            /\ p.paused => pause'.left >= p.left
        BY <2>1, <2>2, <2>3, <2>5, ApplyPauseWidens
      <3>2. hold \in Nat /\ hold' = IF hold > ttl THEN hold ELSE ttl
        BY <2>3, <2>5 DEF Greater, PauseInv, PauseTyped
      <3>3. hold > 0 => p.paused /\ p.left >= hold
        BY <2>2 DEF PauseInv, PauseKnown
      <3>4. pause'.left >= hold'
        BY <3>1, <3>2, <3>3, <2>1, <2>2
      <3> QED BY <3>1, <3>2, <3>4, <2>1, <1>1 DEF PauseInv, PauseTyped, PauseKnown, PauseHeld
    <2> QED BY <2>4, <2>5
  <1>3. CASE Resume
    BY <1>1, <1>3 DEF Resume, ApplyResume, Running, PauseInv, PauseTyped, PauseKnown, PauseHeld
  <1>4. CASE Isolate
    BY <1>1, <1>4 DEF Isolate, PauseInv, PauseTyped, PauseKnown, PauseHeld
  <1> QED BY <1>2, <1>3, <1>4

\* The clock, and the tick that ends an expired pause.
LEMMA PauseClock ==
  ASSUME PauseInv, Window \/ TickResumes
  PROVE  PauseInv'
  <1>1. tick' = tick /\ tick.mode = "off"
    BY DEF Window, TickResumes, Idle
  <1>2. CASE Window
    <2>1. /\ pause' = [pause EXCEPT !.left = IF @ > 0 THEN @ - 1 ELSE 0]
          /\ hold' = IF hold > 0 THEN hold - 1 ELSE 0
      BY <1>2 DEF Window, Elapsed, Less
    <2>2. /\ pause' \in [paused : BOOLEAN, isolated : BOOLEAN, left : Nat] /\ hold' \in Nat
          /\ pause'.paused = pause.paused
          /\ pause'.left = IF pause.left > 0 THEN pause.left - 1 ELSE 0
      BY <2>1 DEF PauseInv, PauseTyped
    <2>3. hold' > 0 => hold > 0 /\ pause'.left >= hold'
      BY <2>1, <2>2 DEF PauseInv, PauseTyped, PauseKnown
    <2> QED BY <1>1, <2>2, <2>3 DEF PauseInv, PauseTyped, PauseKnown, PauseHeld
  <1>3. CASE TickResumes
    <2>1. pause' = ExpireIfDue(pause) /\ hold' = hold
      BY <1>3 DEF TickResumes, historyVars
    <2>2. pause' \in [paused : BOOLEAN, isolated : BOOLEAN, left : Nat]
          /\ (pause.left > 0 => pause' = pause)
      BY <2>1, ExpireTyped DEF PauseInv, PauseTyped
    <2> QED BY <1>1, <2>1, <2>2 DEF PauseInv, PauseTyped, PauseKnown, PauseHeld
  <1> QED BY <1>2, <1>3

\* A tick that starts to decide finds no pause running.
LEMMA PauseStart ==
  ASSUME PauseInv, NEW tier \in 0..1, NEW noise \in BOOLEAN, TickStart(tier, noise)
  PROVE  PauseInv'
  <1>1. hold = 0
    BY DEF TickStart, PauseInv, PauseTyped, PauseKnown
  <1>2. UNCHANGED <<pause, hold>>
    BY DEF TickStart, historyVars
  <1>3. "mode" \in DOMAIN tick'
    BY DEF TickStart, NoTick
  <1> QED BY <1>1, <1>2, <1>3 DEF PauseInv, PauseTyped, PauseKnown, PauseHeld

\* The targets of a tick are taken one by one without a change of its mode.
LEMMA PastMode ==
  ASSUME NEW t, NEW k, "mode" \in DOMAIN k
  PROVE  "mode" \in DOMAIN Past(t, k) /\ Past(t, k).mode = k.mode
  BY DEF Past

\* Every step keeps the pause.
LEMMA StepPause == PauseInv /\ [Next]_vars => PauseInv'
  <1> SUFFICES ASSUME PauseInv, [Next]_vars PROVE PauseInv'
    OBVIOUS
  <1>0. "mode" \in DOMAIN tick
    BY DEF PauseInv, PauseTyped
  <1>1. ASSUME NEW t \in Target, NEW n \in PinCount, NEW ok \in BOOLEAN, Pin(t, n, ok)
        PROVE  PauseInv'
    BY <1>0, <1>1, PauseKept DEF Pin
  <1>2. ASSUME NEW t \in Target, Unpin(t) PROVE PauseInv'
    BY <1>0, <1>2, PauseKept DEF Unpin
  <1>3. ASSUME NEW t \in Target, NEW x, PassOver(t, x) PROVE PauseInv'
    BY <1>0, <1>3, PastMode, PauseKept DEF PassOver
  <1>4. ASSUME NEW t \in Target, Throttle(t) \/ SkipGated(t) PROVE PauseInv'
    BY <1>3, <1>4 DEF Throttle, SkipGated
  <1>5. ASSUME NEW t \in Target, NEW s \in Signal, NEW tight \in BOOLEAN, Stay(t, s, tight)
        PROVE  PauseInv'
    BY <1>3, <1>5 DEF Stay
  <1>6. ASSUME NEW t \in Target, NEW s \in Signal, NEW ok \in BOOLEAN, Scale(t, s, ok)
        PROVE  PauseInv'
    <2> DEFINE new == Proposal(st[t], s)
               k == [tick EXCEPT !.total = @ - st[t].replicas + new, !.emitted = @ + 1]
    <2>1. tick' = Past(t, k) /\ UNCHANGED <<pause, hold>>
      BY <1>6 DEF Scale
    <2> HIDE DEF new
    <2>2. "mode" \in DOMAIN k /\ k.mode = tick.mode
      BY <1>0
    <2> HIDE DEF k
    <2> QED BY <2>1, <2>2, PastMode, PauseKept
  <1>7. CASE LeaderFlip \/ UNCHANGED vars
    BY <1>0, <1>7, PauseKept DEF LeaderFlip, vars, agentVars, historyVars
  <1>8. CASE TickPaused \/ TickEnd
    <2>1. UNCHANGED <<pause, hold>> /\ "mode" \in DOMAIN tick' /\ tick'.mode # "decide"
      BY <1>8 DEF TickPaused, TickEnd, NoTick, historyVars
    <2> QED BY <2>1, PauseKept
  <1> QED
    BY <1>1, <1>2, <1>4, <1>5, <1>6, <1>7, <1>8, PauseCommand, PauseClock, PauseStart DEF Next

\* No tick decides before the longest pause an operator asked for has passed or
\* was ended by a resume, whatever pauses, isolations, expiries and ticks come
\* in between (_pause_state.py apply_pause, scaler.py tick).
THEOREM PauseHolds == Spec => []PauseHeld
  <1>1. Init => PauseInv
    BY DEF Init, Running, NoTick, PauseInv, PauseTyped, PauseKnown, PauseHeld
  <1>2. PauseInv /\ [Next]_vars => PauseInv'
    BY StepPause
  <1>3. PauseInv => PauseHeld
    BY DEF PauseInv
  <1> QED BY <1>1, <1>2, <1>3, PTL DEF Spec
-----------------------------------------------------------------------------
(* The LRU of targets *)

LruOK == lru \in Seq(Target) /\ Len(lru) <= MaxTargets /\ IsInjective(lru)

\* The elements of a sequence, by their places.
LEMMA RangeIs ==
  ASSUME NEW S, NEW q \in Seq(S)
  PROVE  \A e : e \in Range(q) <=> \E i \in 1..Len(q) : q[i] = e
  BY DEF Range

LEMMA TrackedIs ==
  ASSUME LruOK
  PROVE  \A t : Tracked(t) <=> t \in Range(lru)
  BY RangeIs DEF LruOK, Tracked, Contains

\* What is left of a sequence when its i-th element is taken out.
LEMMA RemoveAtIs ==
  ASSUME NEW S, NEW q \in Seq(S), NEW i \in 1..Len(q)
  PROVE  /\ RemoveAt(q, i) \in Seq(S) /\ Len(RemoveAt(q, i)) = Len(q) - 1
         /\ \A k \in 1..(Len(q) - 1) :
              RemoveAt(q, i)[k] = IF k < i THEN q[k] ELSE q[k + 1]
  <1> DEFINE a == SubSeq(q, 1, i - 1)
             b == SubSeq(q, i + 1, Len(q))
  <1>1. a \in Seq(S) /\ Len(a) = i - 1 /\ \A k \in 1..(i - 1) : a[k] = q[k]
    OBVIOUS
  <1>2. b \in Seq(S) /\ Len(b) = Len(q) - i /\ \A k \in 1..(Len(q) - i) : b[k] = q[i + k]
    OBVIOUS
  <1>3. RemoveAt(q, i) = a \o b
    BY DEF RemoveAt
  <1> HIDE DEF a, b
  <1>4. a \in Seq(S) /\ b \in Seq(S) /\ Len(q) \in Nat
    BY <1>1, <1>2
  <1>5. a \o b \in Seq(S) /\ Len(a \o b) = Len(a) + Len(b)
    BY <1>4
  <1>6. \A k \in 1..(Len(a) + Len(b)) :
           (a \o b)[k] = IF k <= Len(a) THEN a[k] ELSE b[k - Len(a)]
    BY <1>4
  <1>7. Len(a) + Len(b) = Len(q) - 1
    BY <1>1, <1>2, <1>4
  <1>8. ASSUME NEW k \in 1..(Len(q) - 1)
        PROVE  (a \o b)[k] = IF k < i THEN q[k] ELSE q[k + 1]
    <2>1. CASE k < i
      <3>1. k <= Len(a) /\ k \in 1..(i - 1)
        BY <1>1, <2>1
      <3> QED BY <1>1, <1>6, <1>7, <2>1, <3>1
    <2>2. CASE ~(k < i)
      <3>1. /\ ~(k <= Len(a)) /\ k - Len(a) \in 1..(Len(q) - i)
            /\ i + (k - Len(a)) = k + 1
        BY <1>1, <1>4, <2>2
      <3>2. b[k - Len(a)] = q[k + 1]
        BY <1>2, <3>1
      <3> QED BY <1>6, <1>7, <2>2, <3>1, <3>2
    <2> QED BY <2>1, <2>2
  <1> QED BY <1>3, <1>5, <1>7, <1>8

\* The newcomer at the end of a queue that does not hold it.
LEMMA AppendKeeps ==
  ASSUME NEW q \in Seq(Target), NEW t \in Target, IsInjective(q), t \notin Range(q)
  PROVE  /\ Append(q, t) \in Seq(Target) /\ Len(Append(q, t)) = Len(q) + 1
         /\ IsInjective(Append(q, t))
         /\ Range(Append(q, t)) = Range(q) \union {t}
  <1> DEFINE r == Append(q, t)
  <1>1. /\ r \in Seq(Target) /\ Len(r) = Len(q) + 1 /\ Len(q) \in Nat
        /\ \A i \in 1..Len(q) : r[i] = q[i]
        /\ r[Len(q) + 1] = t
    OBVIOUS
  <1> HIDE DEF r
  <1>2. \A i \in 1..Len(q) : q[i] # t
    BY RangeIs
  <1>3. DOMAIN q = 1..Len(q) /\ DOMAIN r = 1..(Len(q) + 1)
    BY <1>1
  <1>4. IsInjective(r)
    <2> SUFFICES ASSUME NEW i \in 1..(Len(q) + 1), NEW j \in 1..(Len(q) + 1), r[i] = r[j]
                 PROVE  i = j
      BY <1>3 DEF IsInjective
    <2>1. CASE i \in 1..Len(q) /\ j \in 1..Len(q)
      BY <1>1, <1>3, <2>1 DEF IsInjective
    <2>2. CASE i = Len(q) + 1 \/ j = Len(q) + 1
      BY <1>1, <1>2, <2>2
    <2> QED BY <1>1, <2>1, <2>2
  <1>5. Range(r) = Range(q) \union {t}
    <2>1. \A e : e \in Range(r) <=> \E i \in 1..(Len(q) + 1) : r[i] = e
      BY <1>1, RangeIs
    <2>2. \A e : e \in Range(q) <=> \E i \in 1..Len(q) : q[i] = e
      BY RangeIs
    <2>3. ASSUME NEW e PROVE e \in Range(r) <=> e \in Range(q) \/ e = t
      BY <1>1, <2>1, <2>2
    <2> QED BY <2>3
  <1> QED BY <1>1, <1>4, <1>5 DEF r

\* A queue that has lost the element in one of its places.
LEMMA RemoveKeeps ==
  ASSUME NEW q \in Seq(Target), IsInjective(q), NEW i \in 1..Len(q)
  PROVE  /\ IsInjective(RemoveAt(q, i))
         /\ Range(RemoveAt(q, i)) = Range(q) \ {q[i]}
  <1> DEFINE r == RemoveAt(q, i)
  <1>1. /\ r \in Seq(Target) /\ Len(r) = Len(q) - 1 /\ Len(q) \in Nat
        /\ \A k \in 1..(Len(q) - 1) : r[k] = IF k < i THEN q[k] ELSE q[k + 1]
    BY RemoveAtIs
  <1> HIDE DEF r
  <1>2. \A j, k \in 1..Len(q) : q[j] = q[k] => j = k
    BY DEF IsInjective
  <1>3. IsInjective(r)
    <2> SUFFICES ASSUME NEW j \in 1..(Len(q) - 1), NEW k \in 1..(Len(q) - 1), r[j] = r[k]
                 PROVE  j = k
      BY <1>1 DEF IsInjective
    <2> QED BY <1>1, <1>2
  <1>4. \A e : e \in Range(r) <=> \E k \in 1..(Len(q) - 1) : r[k] = e
    BY <1>1, RangeIs
  <1>5. \A e : e \in Range(q) <=> \E k \in 1..Len(q) : q[k] = e
    BY RangeIs
  <1>6. ASSUME NEW e \in Range(r) PROVE e \in Range(q) /\ e # q[i]
    <2>1. PICK k \in 1..(Len(q) - 1) : r[k] = e
      BY <1>4
    <2>2. CASE k < i
      BY <1>1, <1>2, <1>5, <2>1, <2>2
    <2>3. CASE ~(k < i)
      <3>1. k + 1 \in 1..Len(q) /\ k + 1 # i /\ q[k + 1] = e
        BY <1>1, <2>1, <2>3
      <3> QED BY <1>2, <1>5, <3>1
    <2> QED BY <2>2, <2>3
  <1>7. ASSUME NEW e \in Range(q), e # q[i] PROVE e \in Range(r)
    <2>1. PICK k \in 1..Len(q) : q[k] = e
      BY <1>5
    <2>2. CASE k < i
      <3>1. k \in 1..(Len(q) - 1) /\ r[k] = e
        BY <1>1, <2>1, <2>2
      <3> QED BY <1>4, <3>1
    <2>3. CASE k > i
      <3>1. k - 1 \in 1..(Len(q) - 1) /\ ~(k - 1 < i) /\ (k - 1) + 1 = k
        BY <1>1, <2>3
      <3>2. r[k - 1] = e
        BY <1>1, <2>1, <3>1
      <3> QED BY <1>4, <3>1, <3>2
    <2> QED BY <1>7, <2>1, <2>2, <2>3
  <1>8. Range(r) = Range(q) \ {q[i]}
    BY <1>6, <1>7
  <1> QED BY <1>3, <1>8 DEF r

\* Dropping the head is taking out the first element.
LEMMA TailIsRemove ==
  ASSUME NEW S, NEW q \in Seq(S), q # << >>
  PROVE  /\ Tail(q) = RemoveAt(q, 1) /\ 1 \in 1..Len(q) /\ Head(q) = q[1]
  <1>1. Len(q) \in Nat /\ 1 \in 1..Len(q) /\ Head(q) = q[1]
    OBVIOUS
  <1> DEFINE a == Tail(q)
             b == RemoveAt(q, 1)
  <1>2. a \in Seq(S) /\ Len(a) = Len(q) - 1 /\ \A k \in 1..(Len(q) - 1) : a[k] = q[k + 1]
    OBVIOUS
  <1>3. b \in Seq(S) /\ Len(b) = Len(q) - 1 /\ \A k \in 1..(Len(q) - 1) : b[k] = q[k + 1]
    BY <1>1, RemoveAtIs
  <1> HIDE DEF a, b
  <1>4. a = b
    BY <1>2, <1>3
  <1> QED BY <1>1, <1>4 DEF a, b

\* _evict_and_get: the queue keeps its bound, and loses nobody but the evicted.
LEMMA TouchedKeeps ==
  ASSUME LruOK, NEW t \in Target
  PROVE  /\ Touched(t) \in Seq(Target) /\ Len(Touched(t)) <= MaxTargets
         /\ IsInjective(Touched(t))
         /\ Range(Touched(t)) = (Range(lru) \ Evicted(t)) \union {t}
         /\ Evicted(t) \subseteq Target \ {t}
  <1>1. lru \in Seq(Target) /\ Len(lru) \in Nat /\ Len(lru) <= MaxTargets /\ IsInjective(lru)
        /\ MaxTargets \in Nat /\ MaxTargets >= 1
    BY ScalerAssumption DEF LruOK
  <1>2. CASE Tracked(t)
    <2> DEFINE r == RemoveAt(lru, Place(t))
    <2>1. Place(t) \in 1..Len(lru) /\ lru[Place(t)] = t
      BY <1>2 DEF Tracked, Contains, Place
    <2>2. r \in Seq(Target) /\ Len(r) = Len(lru) - 1
      BY <1>1, <2>1, RemoveAtIs
    <2>3. IsInjective(r) /\ Range(r) = Range(lru) \ {t}
      BY <1>1, <2>1, RemoveKeeps
    <2>4. Touched(t) = Append(r, t) /\ Evicted(t) = {}
      BY <1>2 DEF Touched, Evicted
    <2> HIDE DEF r
    <2>5. /\ Append(r, t) \in Seq(Target) /\ Len(Append(r, t)) = Len(lru)
          /\ IsInjective(Append(r, t)) /\ Range(Append(r, t)) = Range(r) \union {t}
      BY <1>1, <2>2, <2>3, AppendKeeps
    <2> QED BY <1>1, <2>3, <2>4, <2>5
  <1>3. CASE ~Tracked(t) /\ Len(lru) >= MaxTargets
    <2>1. lru # << >>
      BY <1>1, <1>3
    <2>2. Tail(lru) = RemoveAt(lru, 1) /\ 1 \in 1..Len(lru) /\ Head(lru) = lru[1]
      BY <1>1, <2>1, TailIsRemove
    <2> DEFINE r == RemoveAt(lru, 1)
    <2>3. r \in Seq(Target) /\ Len(r) = Len(lru) - 1
      BY <1>1, <2>2, RemoveAtIs
    <2>4. IsInjective(r) /\ Range(r) = Range(lru) \ {lru[1]}
      BY <1>1, <2>2, RemoveKeeps
    <2>5. t \notin Range(lru) /\ lru[1] \in Range(lru)
      BY <1>1, <1>3, <2>2, RangeIs, TrackedIs
    <2>6. Touched(t) = Append(r, t) /\ Evicted(t) = {lru[1]}
      BY <1>3, <2>2 DEF Touched, Evicted
    <2> HIDE DEF r
    <2>7. /\ Append(r, t) \in Seq(Target) /\ Len(Append(r, t)) = Len(lru)
          /\ IsInjective(Append(r, t)) /\ Range(Append(r, t)) = Range(r) \union {t}
      BY <1>1, <2>3, <2>4, <2>5, AppendKeeps
    <2>8. lru[1] \in Target
      BY <1>1, <2>2
    <2> QED BY <1>1, <2>4, <2>5, <2>6, <2>7, <2>8
  <1>4. CASE ~Tracked(t) /\ ~(Len(lru) >= MaxTargets)
    <2>1. Touched(t) = Append(lru, t) /\ Evicted(t) = {}
      BY <1>4 DEF Touched, Evicted
    <2>2. t \notin Range(lru)
      BY <1>4, TrackedIs
    <2>3. /\ Append(lru, t) \in Seq(Target) /\ Len(Append(lru, t)) = Len(lru) + 1
          /\ IsInjective(Append(lru, t)) /\ Range(Append(lru, t)) = Range(lru) \union {t}
      BY <1>1, <2>2, AppendKeeps
    <2> QED BY <1>1, <1>4, <2>1, <2>3
  <1> QED BY <1>2, <1>3, <1>4

-----------------------------------------------------------------------------
(* Types *)

StatesOK ==
    /\ st \in [Target -> TargetState]
    /\ \A t \in Target : /\ Len(st[t].recent) <= HysteresisWindows
                         /\ t \notin Range(lru) => st[t] = Fresh

TickOK ==
    /\ DOMAIN tick = DOMAIN NoTick
    /\ tick.mode \in {"off", "throttle", "decide"}
    /\ tick.joined \subseteq tick.seen /\ tick.seen \subseteq Target
    /\ tick.emitted \in 0..MaxChanges

HistoryOK ==
    /\ leader \in BOOLEAN
    /\ actual \in [Target -> Int]
    /\ wish \in [Target -> {NoWish} \union [count : PinCount, left : 1..PinTtl]]
    /\ events \in 0..MaxEvents
    /\ lapsed \subseteq Target

TypeInv == LruOK /\ StatesOK /\ TickOK /\ HistoryOK

LEMMA TypeParts == TypeInv /\ PauseInv => TypeOK
  BY DEF TypeInv, PauseInv, PauseTyped, LruOK, StatesOK, TickOK, HistoryOK, TypeOK

LEMMA Limits ==
  /\ PinTtl \in Nat /\ PinTtl >= 1 /\ GraceWindows \in Nat /\ MinInterval \in Nat
  /\ MaxEvents \in Nat /\ MaxChanges \in Nat /\ MaxChanges >= 1
  /\ HysteresisWindows \in Nat /\ HysteresisWindows >= 1
  /\ MinReplicas \in Nat /\ MaxReplicas \in Nat /\ MaxStep \in Nat
  /\ PinCount \subseteq Int /\ -1 \notin PinCount
  BY ScalerAssumption

LEMMA FreshTyped == Fresh \in TargetState /\ Len(Fresh.recent) <= HysteresisWindows
  <1>1. << >> \in Seq(Int) /\ Len(<< >>) = 0
    OBVIOUS
  <1> QED BY <1>1, Limits DEF Fresh, TargetState, NoPin

\* _evict_and_get, and then a well-formed state for the target.
LEMMA TouchTyped ==
  ASSUME LruOK, StatesOK,
         NEW t \in Target, NEW x \in TargetState, Len(x.recent) <= HysteresisWindows,
         Touch(t, x)
  PROVE  LruOK' /\ StatesOK'
  <1>1. /\ lru' \in Seq(Target) /\ Len(lru') <= MaxTargets /\ IsInjective(lru')
        /\ Range(lru') = (Range(lru) \ Evicted(t)) \union {t}
        /\ Evicted(t) \subseteq Target \ {t}
    BY TouchedKeeps DEF Touch
  <1>2. st' = [u \in Target |-> IF u = t THEN x ELSE IF u \in Evicted(t) THEN Fresh ELSE st[u]]
    BY DEF Touch
  <1>3. StatesOK'
    <2> SUFFICES ASSUME NEW u \in Target
                 PROVE  /\ st'[u] \in TargetState /\ Len(st'[u].recent) <= HysteresisWindows
                        /\ u \notin Range(lru') => st'[u] = Fresh
      BY <1>2 DEF StatesOK
    <2>1. CASE u = t
      BY <1>1, <1>2, <2>1
    <2>2. CASE u # t /\ u \in Evicted(t)
      BY <1>1, <1>2, <2>2, FreshTyped
    <2>3. CASE u # t /\ u \notin Evicted(t)
      BY <1>1, <1>2, <2>3 DEF StatesOK
    <2> QED BY <2>1, <2>2, <2>3
  <1> QED BY <1>1, <1>3 DEF LruOK

\* The next count is a number, and the low streak stays within the grace.
LEMMA DecisionTyped ==
  ASSUME NEW x \in TargetState, NEW s \in Signal
  PROVE  Proposal(x, s) \in Int /\ LowStreak(x, s) \in 0..GraceWindows
  <1>1. x.replicas \in Int /\ x.low \in 0..GraceWindows /\ s.need \in Int
    BY ScalerAssumption DEF TargetState
  <1>2. \A m, n \in Int : Lesser(m, n) \in Int /\ Greater(m, n) \in Int
    BY DEF Lesser, Greater
  <1>0. MinReplicas \in Int /\ MaxReplicas \in Int /\ MaxStep \in Int /\ 1 \in Int
    BY Limits
  <1>3. Clamp(s.need) \in Int
    <2>1. Greater(1, s.need) \in Int
      BY <1>0, <1>1, <1>2
    <2>2. Lesser(MaxReplicas, Greater(1, s.need)) \in Int
      BY <1>0, <1>2, <2>1
    <2> QED BY <1>0, <1>2, <2>2 DEF Clamp
  <1>4. \A n \in Int : Step(n) \in Int
    BY <1>2, Limits DEF Step
  <1>5. x.replicas + Step(Clamp(s.need) - x.replicas) \in Int
        /\ x.replicas - Step(x.replicas - Clamp(s.need)) \in Int
    BY <1>1, <1>3, <1>4
  <1>6. Up(x, s) \in Int /\ Down(x, s) \in Int
    <2>1. Lesser(MaxReplicas, x.replicas + Step(Clamp(s.need) - x.replicas)) \in Int
      BY <1>0, <1>2, <1>5
    <2>2. Greater(MinReplicas, x.replicas - Step(x.replicas - Clamp(s.need))) \in Int
      BY <1>0, <1>2, <1>5
    <2> QED BY <2>1, <2>2 DEF Up, Down
  <1>7. Proposal(x, s) \in {Up(x, s), Down(x, s), x.replicas}
    BY Zenon DEF Proposal
  <1>8. LowStreak(x, s) \in 0..GraceWindows
    BY <1>1, Limits DEF LowStreak, Lesser
  <1> QED BY <1>1, <1>6, <1>7, <1>8

\* The tick moves on by one target.
LEMMA PastTyped ==
  ASSUME NEW k, DOMAIN k = DOMAIN NoTick, k.mode \in {"off", "throttle", "decide"},
         k.joined \subseteq k.seen, k.seen \subseteq Target,
         k.emitted \in 0..MaxChanges, NEW t \in Target
  PROVE  LET m == Past(t, k) IN
         /\ DOMAIN m = DOMAIN NoTick /\ m.mode \in {"off", "throttle", "decide"}
         /\ m.joined \subseteq m.seen /\ m.seen \subseteq Target
         /\ m.emitted \in 0..MaxChanges
  <1> DEFINE j == IF Tracked(t) THEN k.joined ELSE k.joined \union {t}
             m == [k EXCEPT !.seen = k.seen \union {t}, !.joined = j]
  <1>1. j \subseteq k.seen \union {t}
    OBVIOUS
  <1>2. Past(t, k) = m
    BY DEF Past
  <1> HIDE DEF j
  <1>3. /\ "seen" \in DOMAIN k /\ "joined" \in DOMAIN k
        /\ "mode" \in DOMAIN k /\ "emitted" \in DOMAIN k
    BY DEF NoTick
  <1>4. /\ DOMAIN m = DOMAIN k /\ m.mode = k.mode /\ m.emitted = k.emitted
        /\ m.seen = k.seen \union {t} /\ m.joined = j
    BY <1>3
  <1> QED BY <1>1, <1>2, <1>4

LEMMA PassOverTyped ==
  ASSUME TypeInv, NEW t \in Target, NEW x \in TargetState,
         Len(x.recent) <= HysteresisWindows, PassOver(t, x)
  PROVE  TypeInv'
  <1>1. LruOK' /\ StatesOK'
    BY TouchTyped DEF PassOver, TypeInv, HistoryOK
  <1>2. TickOK'
    BY PastTyped DEF PassOver, TypeInv, TickOK
  <1>3. Evicted(t) \subseteq Target
    BY TouchedKeeps DEF TypeInv
  <1>4. HistoryOK'
    BY <1>1, <1>3 DEF PassOver, TypeInv, HistoryOK
  <1> QED BY <1>1, <1>2, <1>4 DEF TypeInv

\* _handle_pin, with a count or without.
LEMMA PinTyped ==
  ASSUME TypeInv, NEW t \in Target,
         (\E n \in PinCount, ok \in BOOLEAN : Pin(t, n, ok)) \/ Unpin(t)
  PROVE  TypeInv'
  <1>1. st[t] \in TargetState /\ Len(st[t].recent) <= HysteresisWindows
        /\ Evicted(t) \subseteq Target
    BY TouchedKeeps DEF TypeInv, StatesOK
  <1>2. events' \in 0..MaxEvents
    <2>1. Spend(1)
      BY DEF Pin, Unpin, Command
    <2> QED BY <2>1, Limits DEF Spend, TypeInv, HistoryOK
  <1>3. ASSUME NEW n \in PinCount, NEW ok \in BOOLEAN, Pin(t, n, ok) PROVE TypeInv'
    <2> DEFINE x == [st[t] EXCEPT !.pin = n, !.pinLeft = PinTtl, !.replicas = n,
                                  !.cool = MinInterval]
    <2>0. /\ n \in Int /\ n \in PinCount \union {NoPin} /\ PinTtl \in 0..PinTtl
          /\ MinInterval \in 0..MinInterval
      BY Limits
    <2>1. x \in TargetState /\ x.recent = st[t].recent
      BY <1>1, <2>0 DEF TargetState
    <2>2. Touch(t, x)
      BY <1>3 DEF Pin
    <2> HIDE DEF x
    <2>3. LruOK' /\ StatesOK'
      BY <1>1, <2>1, <2>2, TouchTyped DEF TypeInv, HistoryOK
    <2>4. actual' \in [Target -> Int]
      BY <1>3, Limits DEF Pin, Apply, TypeInv, HistoryOK
    <2>5. wish' \in [Target -> {NoWish} \union [count : PinCount, left : 1..PinTtl]]
      <3>1. [count |-> n, left |-> PinTtl] \in [count : PinCount, left : 1..PinTtl]
        BY Limits
      <3> QED BY <1>3, <3>1 DEF Pin, TypeInv, HistoryOK
    <2>6. lapsed' \subseteq Target
      BY <1>1, <1>3 DEF Pin, Losses, Pinned, TypeInv, HistoryOK
    <2>7. TickOK' /\ leader' \in BOOLEAN
      BY <1>3 DEF Pin, TypeInv, TickOK, HistoryOK
    <2> QED BY <1>2, <2>3, <2>4, <2>5, <2>6, <2>7 DEF TypeInv, HistoryOK
  <1>4. CASE Unpin(t)
    <2> DEFINE x == [st[t] EXCEPT !.pin = NoPin, !.pinLeft = 0]
    <2>0. NoPin \in PinCount \union {NoPin} /\ 0 \in 0..PinTtl
      BY Limits
    <2>1. x \in TargetState /\ x.recent = st[t].recent
      BY <1>1, <2>0 DEF TargetState
    <2>2. Touch(t, x)
      BY <1>4 DEF Unpin
    <2> HIDE DEF x
    <2>3. LruOK' /\ StatesOK'
      BY <1>1, <2>1, <2>2, TouchTyped DEF TypeInv, HistoryOK
    <2>4. /\ actual' \in [Target -> Int]
          /\ wish' \in [Target -> {NoWish} \union [count : PinCount, left : 1..PinTtl]]
      BY <1>4 DEF Unpin, TypeInv, HistoryOK
    <2>5. lapsed' \subseteq Target
      BY <1>1, <1>4 DEF Unpin, Pinned, TypeInv, HistoryOK
    <2>6. TickOK' /\ leader' \in BOOLEAN
      BY <1>4 DEF Unpin, TypeInv, TickOK, HistoryOK
    <2> QED BY <1>2, <2>3, <2>4, <2>5, <2>6 DEF TypeInv, HistoryOK
  <1> QED BY <1>3, <1>4

\* The clock, and the first step of a tick.
LEMMA ClockTyped ==
  ASSUME TypeInv, Window \/ \E tier \in 0..1, noise \in BOOLEAN : TickStart(tier, noise)
  PROVE  TypeInv'
  <1>1. \A u \in Target : st[u] \in TargetState /\ Len(st[u].recent) <= HysteresisWindows
                          /\ (u \notin Range(lru) => st[u] = Fresh)
    BY DEF TypeInv, StatesOK
  <1>2. CASE Window
    <2> DEFINE Aged(x) == [x EXCEPT !.pinLeft = Less(@), !.cool = Less(@), !.decided = FALSE]
    <2>1. st' = [u \in Target |-> Aged(st[u])]
      BY <1>2 DEF Window
    <2>2. ASSUME NEW x \in TargetState PROVE Aged(x) \in TargetState /\ Aged(x).recent = x.recent
      <3>1. Less(x.pinLeft) \in 0..PinTtl /\ Less(x.cool) \in 0..MinInterval
        BY Limits DEF TargetState, Less
      <3>2. Aged(x) = [x EXCEPT !.pinLeft = Less(x.pinLeft), !.cool = Less(x.cool),
                                !.decided = FALSE]
        BY DEF TargetState
      <3> HIDE DEF Aged
      <3> QED BY <3>1, <3>2 DEF TargetState
    <2>3. Aged(Fresh) = Fresh
      <3>1. Less(0) = 0
        BY DEF Less
      <3>2. Fresh.pinLeft = 0 /\ Fresh.cool = 0 /\ Fresh.decided = FALSE
        BY DEF Fresh
      <3>3. Aged(Fresh) = [Fresh EXCEPT !.pinLeft = 0, !.cool = 0, !.decided = FALSE]
        BY <3>1, <3>2
      <3>4. [Fresh EXCEPT !.pinLeft = 0, !.cool = 0, !.decided = FALSE] = Fresh
        BY <3>2, FreshTyped DEF TargetState
      <3> QED BY <3>3, <3>4
    <2> HIDE DEF Aged
    <2>4. StatesOK' /\ LruOK'
      <3>1. lru' = lru
        BY <1>2 DEF Window
      <3> QED BY <1>1, <2>1, <2>2, <2>3, <3>1 DEF StatesOK, TypeInv, LruOK
    <2>5. wish' \in [Target -> {NoWish} \union [count : PinCount, left : 1..PinTtl]]
      <3> SUFFICES ASSUME NEW u \in Target, ~(wish[u].left <= 1)
                   PROVE  [wish[u] EXCEPT !.left = @ - 1] \in [count : PinCount, left : 1..PinTtl]
        BY <1>2 DEF Window
      <3>1. wish[u] \in [count : PinCount, left : 1..PinTtl]
        <4>1. NoWish.left = 0
          BY DEF NoWish
        <4> QED BY <4>1 DEF TypeInv, HistoryOK
      <3> QED BY <3>1, Limits
    <2>6. lapsed' \subseteq Target
      <3>1. lapsed' \subseteq lapsed
        BY <1>2 DEF Window
      <3> QED BY <3>1 DEF TypeInv, HistoryOK
    <2>7. TickOK' /\ UNCHANGED <<leader, actual, events>>
      BY <1>2 DEF Window, TypeInv, TickOK
    <2>8. HistoryOK'
      BY <2>5, <2>6, <2>7 DEF TypeInv, HistoryOK
    <2> QED BY <2>4, <2>7, <2>8 DEF TypeInv
  <1>3. ASSUME NEW tier \in 0..1, NEW noise \in BOOLEAN, TickStart(tier, noise) PROVE TypeInv'
    <2>1. st' = [u \in Target |-> Unpinned(st[u])] /\ lru' = lru
      BY <1>3 DEF TickStart
    <2>2. ASSUME NEW x \in TargetState
          PROVE  Unpinned(x) \in TargetState /\ Unpinned(x).recent = x.recent
      BY DEF TargetState, Unpinned
    <2>3. Unpinned(Fresh) = Fresh
      BY DEF Unpinned, Fresh
    <2>4. StatesOK' /\ LruOK'
      BY <1>1, <2>1, <2>2, <2>3 DEF StatesOK, TypeInv, LruOK
    <2>5. HistoryOK'
      BY <1>3 DEF TickStart, historyVars, TypeInv, HistoryOK
    <2>6. TickOK'
      <3> DEFINE total == RosterTotal
                 level == IF noise THEN 0 ELSE tier
      <3>1. tick' = [NoTick EXCEPT !.mode = "decide", !.noise = noise, !.total = total,
                                   !.tier = level]
        BY <1>3 DEF TickStart
      <3> HIDE DEF total, level
      <3> QED BY <3>1, Limits DEF TickOK, NoTick
    <2> QED BY <2>4, <2>5, <2>6 DEF TypeInv
  <1> QED BY <1>2, <1>3

LEMMA ScaleTyped ==
  ASSUME TypeInv, NEW t \in Target, NEW s \in Signal, NEW ok \in BOOLEAN, Scale(t, s, ok)
  PROVE  TypeInv'
  <1> DEFINE new == Proposal(st[t], s)
             low == LowStreak(st[t], s)
             grown == Append(st[t].recent, new)
             recent == IF Len(grown) > HysteresisWindows THEN Tail(grown) ELSE grown
             x == [st[t] EXCEPT !.low = low, !.replicas = new, !.decided = TRUE,
                                !.cool = MinInterval, !.recent = recent]
             k == [tick EXCEPT !.total = @ - st[t].replicas + new, !.emitted = @ + 1]
  <1>1. st[t] \in TargetState /\ Len(st[t].recent) <= HysteresisWindows
        /\ Evicted(t) \subseteq Target
    BY TouchedKeeps DEF TypeInv, StatesOK
  <1>2. new \in Int /\ low \in 0..GraceWindows
    BY <1>1, DecisionTyped
  <1>3. /\ Touch(t, x) /\ Apply(t, new, ok) /\ tick' = Past(t, k)
        /\ ~Refused(st[t], new, FALSE)
    BY <1>1 DEF Scale
  <1>4. /\ lapsed' = lapsed \union {u \in Evicted(t) : wish[u] # NoWish}
        /\ Spend(IF ok THEN 0 ELSE 1) /\ leader' = leader /\ wish' = wish
    BY DEF Scale
  <1> HIDE DEF new, low
  <1>5. recent \in Seq(Int) /\ Len(recent) <= HysteresisWindows
    <2>1. st[t].recent \in Seq(Int)
      BY <1>1 DEF TargetState
    <2>2. grown \in Seq(Int) /\ Len(grown) = Len(st[t].recent) + 1 /\ Len(st[t].recent) \in Nat
      BY <1>2, <2>1
    <2> HIDE DEF grown
    <2>3. grown # << >>
      BY <2>2
    <2>4. Tail(grown) \in Seq(Int) /\ Len(Tail(grown)) = Len(grown) - 1
      BY <2>2, <2>3
    <2> QED BY <1>1, <2>2, <2>4, Limits
  <1> HIDE DEF recent
  <1>6. x \in TargetState /\ x.recent = recent
    <2>1. MinInterval \in 0..MinInterval
      BY Limits
    <2> QED BY <1>1, <1>2, <1>5, <2>1 DEF TargetState
  <1> HIDE DEF x
  <1>7. LruOK' /\ StatesOK'
    BY <1>3, <1>5, <1>6, TouchTyped DEF TypeInv, HistoryOK
  <1>8. TickOK'
    <2>1. tick.emitted \in 0..MaxChanges /\ tick.emitted < MaxChanges
      BY <1>3, Limits DEF Refused, TypeInv, TickOK
    <2>2. /\ "total" \in DOMAIN tick /\ "emitted" \in DOMAIN tick /\ "seen" \in DOMAIN tick
          /\ "mode" \in DOMAIN tick /\ "joined" \in DOMAIN tick
      BY DEF TypeInv, TickOK, NoTick
    <2>3. /\ DOMAIN k = DOMAIN tick /\ k.mode = tick.mode /\ k.seen = tick.seen
          /\ k.joined = tick.joined /\ k.emitted = tick.emitted + 1
      BY <2>2
    <2> HIDE DEF k
    <2>4. k.emitted \in 0..MaxChanges
      BY <2>1, <2>3, Limits
    <2> QED BY <1>3, <2>3, <2>4, PastTyped DEF TypeInv, TickOK
  <1>9. actual' \in [Target -> Int] /\ events' \in 0..MaxEvents
    <2>1. actual' \in [Target -> Int]
      BY <1>2, <1>3 DEF Apply, TypeInv, HistoryOK
    <2>2. events' \in 0..MaxEvents
      BY <1>4, Limits DEF Spend, TypeInv, HistoryOK
    <2> QED BY <2>1, <2>2
  <1>10. lapsed' \subseteq Target
    BY <1>1, <1>4 DEF TypeInv, HistoryOK
  <1> QED BY <1>4, <1>7, <1>8, <1>9, <1>10 DEF TypeInv, HistoryOK

LEMMA StepTyped == TypeInv /\ [Next]_vars => TypeInv'
  <1> SUFFICES ASSUME TypeInv, [Next]_vars PROVE TypeInv'
    OBVIOUS
  <1>1. \A t \in Target : st[t] \in TargetState /\ Len(st[t].recent) <= HysteresisWindows
    BY DEF TypeInv, StatesOK
  <1>2. ASSUME NEW t \in Target, Throttle(t) \/ SkipGated(t) PROVE TypeInv'
    BY <1>1, <1>2, PassOverTyped DEF Throttle, SkipGated
  <1>3. ASSUME NEW t \in Target, NEW s \in Signal, NEW tight \in BOOLEAN, Stay(t, s, tight)
        PROVE  TypeInv'
    <2> DEFINE low == LowStreak(st[t], s)
               x == [st[t] EXCEPT !.low = low]
    <2>1. low \in 0..GraceWindows
      BY <1>1, DecisionTyped
    <2>2. PassOver(t, x)
      BY <1>3 DEF Stay
    <2> HIDE DEF low
    <2>3. x \in TargetState /\ x.recent = st[t].recent
      BY <1>1, <2>1 DEF TargetState
    <2> HIDE DEF x
    <2> QED BY <1>1, <2>2, <2>3, PassOverTyped
  <1>4. CASE (\E ttl \in 1..PauseTtl : Pause(ttl)) \/ Resume \/ Isolate \/ LeaderFlip
    <2>1. lru' = lru /\ st' = st /\ tick' = tick /\ leader' \in BOOLEAN /\ Spend(1)
          /\ UNCHANGED <<actual, wish, lapsed>>
      BY <1>4 DEF Pause, Resume, Isolate, LeaderFlip, Command, agentVars, TypeInv, HistoryOK
    <2>2. events' \in 0..MaxEvents
      BY <2>1, Limits DEF Spend, TypeInv, HistoryOK
    <2> QED BY <2>1, <2>2 DEF TypeInv, LruOK, StatesOK, TickOK, HistoryOK
  <1>5. CASE TickPaused \/ TickEnd \/ TickResumes
    <2>1. UNCHANGED <<lru, st, leader, actual, wish, lapsed, events>>
      BY <1>5 DEF TickPaused, TickEnd, TickResumes, historyVars
    <2>2. TickOK'
      BY <1>5, Limits DEF TickPaused, TickEnd, TickResumes, TickOK, TypeInv, NoTick
    <2> QED BY <2>1, <2>2 DEF TypeInv, LruOK, StatesOK, HistoryOK
  <1>6. CASE UNCHANGED vars
    BY <1>6 DEF vars, agentVars, historyVars, TypeInv, LruOK, StatesOK, TickOK, HistoryOK
  <1> QED BY <1>2, <1>3, <1>4, <1>5, <1>6, PinTyped, ClockTyped, ScaleTyped DEF Next

LEMMA InitTyped == Init => TypeInv
  <1> SUFFICES ASSUME Init PROVE TypeInv
    OBVIOUS
  <1>1. lru \in Seq(Target) /\ Len(lru) = 0 /\ DOMAIN lru = {}
    BY DEF Init
  <1>2. LruOK
    BY <1>1, ScalerAssumption DEF LruOK, IsInjective
  <1>3. StatesOK
    BY FreshTyped DEF Init, StatesOK
  <1>4. TickOK
    BY Limits DEF Init, NoTick, TickOK
  <1>5. actual \in [Target -> Int]
    <2>1. Deployed \subseteq Int
      BY ScalerAssumption
    <2>2. actual \in [Target -> Deployed]
      BY DEF Init
    <2> QED BY <2>1, <2>2
  <1>6. HistoryOK
    BY Limits, <1>5 DEF Init, HistoryOK
  <1> QED BY <1>2, <1>3, <1>4, <1>6 DEF TypeInv

\* _targets holds each target once and never more than max_targets, what it has
\* forgotten is fresh, and a tick makes at most max_changes_per_window changes,
\* whatever commands, evictions and refusals come (scaler.py _evict_and_get, tick).
THEOREM TypeCorrect == Spec => []TypeOK
  <1>1. Init => TypeInv /\ PauseInv
    BY InitTyped DEF Init, Running, NoTick, PauseInv, PauseTyped, PauseKnown, PauseHeld
  <1>2. TypeInv /\ PauseInv /\ [Next]_vars => TypeInv' /\ PauseInv'
    BY StepTyped, StepPause
  <1>3. TypeInv /\ PauseInv => TypeOK
    BY TypeParts
  <1> QED BY <1>1, <1>2, <1>3, PTL DEF Spec

-----------------------------------------------------------------------------
(* Pins *)

\* The agent still knows the pin, with the time it has to run, and it was obeyed.
PinKnown ==
    \A t \in Target : wish[t] # NoWish /\ t \notin lapsed =>
        /\ actual[t] = wish[t].count
        /\ st[t].pin = wish[t].count /\ st[t].pinLeft = wish[t].left

HeldInv == TypeInv /\ PinKnown

\* Who is touched, who is evicted, and everybody else.
LEMMA TouchCases ==
  ASSUME TypeInv, NEW t \in Target, NEW x, Touch(t, x)
  PROVE  /\ Evicted(t) \subseteq Target \ {t}
         /\ st'[t] = x
         /\ \A u \in Evicted(t) : st'[u] = Fresh
         /\ \A u \in Target \ ({t} \union Evicted(t)) : st'[u] = st[u]
  <1>1. Evicted(t) \subseteq Target \ {t}
    BY TouchedKeeps DEF TypeInv
  <1> QED BY <1>1 DEF Touch

\* A step that touches t keeps what is known about the targets other than t.
LEMMA OthersHeld ==
  ASSUME HeldInv, NEW t \in Target, NEW x, Touch(t, x),
         \A u \in Target \ {t} : actual'[u] = actual[u] /\ wish'[u] = wish[u],
         \A u \in Target \ {t} : u \in lapsed' <=>
             u \in lapsed \/ (u \in Evicted(t) /\ wish[u] # NoWish),
         wish'[t] # NoWish /\ t \notin lapsed' =>
             /\ actual'[t] = wish'[t].count
             /\ x.pin = wish'[t].count /\ x.pinLeft = wish'[t].left
  PROVE  PinKnown'
  <1>1. /\ Evicted(t) \subseteq Target \ {t}
        /\ st'[t] = x
        /\ \A u \in Target \ ({t} \union Evicted(t)) : st'[u] = st[u]
    BY TouchCases DEF HeldInv
  <1> SUFFICES ASSUME NEW u \in Target, wish'[u] # NoWish, u \notin lapsed'
               PROVE  /\ actual'[u] = wish'[u].count
                      /\ st'[u].pin = wish'[u].count /\ st'[u].pinLeft = wish'[u].left
    BY DEF PinKnown
  <1>2. CASE u = t
    BY <1>1, <1>2
  <1>3. CASE u # t
    BY <1>1, <1>3 DEF HeldInv, PinKnown
  <1> QED BY <1>2, <1>3

LEMMA PassOverHeld ==
  ASSUME HeldInv, NEW t \in Target, NEW low, PassOver(t, [st[t] EXCEPT !.low = low])
  PROVE  PinKnown'
  <1> DEFINE x == [st[t] EXCEPT !.low = low]
  <1>1. x.pin = st[t].pin /\ x.pinLeft = st[t].pinLeft
    BY DEF HeldInv, TypeInv, StatesOK, TargetState
  <1>2. Touch(t, x) /\ UNCHANGED <<actual, wish>>
        /\ lapsed' = lapsed \union {u \in Evicted(t) : wish[u] # NoWish}
    BY DEF PassOver
  <1> HIDE DEF x
  <1>3. Evicted(t) \subseteq Target \ {t}
    BY TouchedKeeps DEF HeldInv, TypeInv
  <1>5. wish'[t] # NoWish /\ t \notin lapsed' =>
          /\ actual'[t] = wish'[t].count
          /\ x.pin = wish'[t].count /\ x.pinLeft = wish'[t].left
    BY <1>1, <1>2 DEF HeldInv, PinKnown
  <1> QED BY <1>2, <1>3, <1>5, OthersHeld

\* A pin that is obeyed is known from then on; one that is refused has lapsed.
LEMMA PinStep ==
  ASSUME HeldInv, NEW t \in Target, NEW n \in PinCount, NEW ok \in BOOLEAN, Pin(t, n, ok)
  PROVE  PinKnown'
  <1> DEFINE x == [st[t] EXCEPT !.pin = n, !.pinLeft = PinTtl, !.replicas = n,
                                !.cool = MinInterval]
             w == [count |-> n, left |-> PinTtl]
  <1>1. x.pin = n /\ x.pinLeft = PinTtl
    BY DEF HeldInv, TypeInv, StatesOK, TargetState
  <1>2. /\ Touch(t, x) /\ Apply(t, n, ok)
        /\ wish' = [wish EXCEPT ![t] = w]
        /\ lapsed' = (lapsed \ {t}) \union Pinned(Losses(t, ok))
    BY DEF Pin
  <1>3. w.count = n /\ w.left = PinTtl /\ w # NoWish
    BY Limits DEF NoWish
  <1> HIDE DEF x, w
  <1>4. Evicted(t) \subseteq Target \ {t}
    BY TouchedKeeps DEF HeldInv, TypeInv
  <1>5. wish'[t] = w /\ \A u \in Target \ {t} : wish'[u] = wish[u]
    BY <1>2 DEF HeldInv, TypeInv, HistoryOK
  <1>6. /\ \A u \in Target \ {t} : actual'[u] = actual[u]
        /\ ok => actual'[t] = n
    BY <1>2 DEF Apply, HeldInv, TypeInv, HistoryOK
  <1>8. /\ \A u \in Target \ {t} : u \in lapsed' <=>
             u \in lapsed \/ (u \in Evicted(t) /\ wish[u] # NoWish)
        /\ t \notin lapsed' => ok
    BY <1>2, <1>3, <1>4, <1>5 DEF Losses, Pinned
  <1> QED BY <1>1, <1>2, <1>3, <1>5, <1>6, <1>8, OthersHeld

LEMMA UnpinStep ==
  ASSUME HeldInv, NEW t \in Target, Unpin(t)
  PROVE  PinKnown'
  <1> DEFINE x == [st[t] EXCEPT !.pin = NoPin, !.pinLeft = 0]
  <1>2. /\ Touch(t, x) /\ actual' = actual
        /\ wish' = [wish EXCEPT ![t] = NoWish]
        /\ lapsed' = (lapsed \ {t}) \union Pinned(Evicted(t))
    BY DEF Unpin
  <1> HIDE DEF x
  <1>3. Evicted(t) \subseteq Target \ {t}
    BY TouchedKeeps DEF HeldInv, TypeInv
  <1>4. wish'[t] = NoWish /\ \A u \in Target \ {t} : wish'[u] = wish[u]
    BY <1>2 DEF HeldInv, TypeInv, HistoryOK
  <1>5. \A u \in Target \ {t} : u \in lapsed' <=>
          u \in lapsed \/ (u \in Evicted(t) /\ wish[u] # NoWish)
    BY <1>2, <1>3, <1>4 DEF Pinned
  <1> QED BY <1>2, <1>3, <1>4, <1>5, OthersHeld

\* Only a target that is not pinned is scaled.
LEMMA ScaleStep ==
  ASSUME HeldInv, NEW t \in Target, NEW s \in Signal, NEW ok \in BOOLEAN, Scale(t, s, ok)
  PROVE  PinKnown'
  <1> DEFINE new == Proposal(st[t], s)
             low == LowStreak(st[t], s)
             grown == Append(st[t].recent, new)
             recent == IF Len(grown) > HysteresisWindows THEN Tail(grown) ELSE grown
             x == [st[t] EXCEPT !.low = low, !.replicas = new, !.decided = TRUE,
                                !.cool = MinInterval, !.recent = recent]
  <1>1. /\ Touch(t, x) /\ Apply(t, new, ok) /\ wish' = wish
        /\ lapsed' = lapsed \union {u \in Evicted(t) : wish[u] # NoWish}
        /\ st[t].pin = NoPin
    BY DEF Scale, Gated, HeldInv, TypeInv, StatesOK, TargetState
  <1> HIDE DEF new, low, recent
  <1> HIDE DEF x
  <1>3. Evicted(t) \subseteq Target \ {t}
    BY TouchedKeeps DEF HeldInv, TypeInv
  <1>4. \A u \in Target \ {t} : actual'[u] = actual[u]
    BY <1>1 DEF Apply, HeldInv, TypeInv, HistoryOK
  <1>7. ~(wish'[t] # NoWish /\ t \notin lapsed')
    <2> SUFFICES ASSUME wish[t] # NoWish, t \notin lapsed PROVE FALSE
      BY <1>1
    <2>1. wish[t].count \in PinCount
      BY DEF HeldInv, TypeInv, HistoryOK
    <2>2. wish[t].count = NoPin
      BY <1>1 DEF HeldInv, PinKnown
    <2> QED BY <2>1, <2>2, Limits DEF NoPin
  <1> QED BY <1>1, <1>3, <1>4, <1>7, OthersHeld

\* The clock runs as fast for the operator's pin as for the agent's.
LEMMA WindowHeld ==
  ASSUME HeldInv, Window
  PROVE  PinKnown'
  <1>1. \A u \in Target : /\ st'[u].pin = st[u].pin /\ st'[u].pinLeft = Less(st[u].pinLeft)
    BY DEF Window, HeldInv, TypeInv, StatesOK, TargetState
  <1>2. PinKnown'
    <2> SUFFICES ASSUME NEW u \in Target, wish'[u] # NoWish, u \notin lapsed'
                 PROVE  /\ actual'[u] = wish'[u].count
                        /\ st'[u].pin = wish'[u].count /\ st'[u].pinLeft = wish'[u].left
      BY DEF PinKnown
    <2>1. /\ ~(wish[u].left <= 1)
          /\ wish'[u] = [wish[u] EXCEPT !.left = @ - 1]
          /\ u \notin lapsed /\ actual' = actual
      BY DEF Window
    <2>2. wish[u] # NoWish /\ wish[u] \in [count : PinCount, left : 1..PinTtl]
      <3>1. NoWish.left = 0
        BY DEF NoWish
      <3> QED BY <2>1, <3>1 DEF HeldInv, TypeInv, HistoryOK
    <2>3. wish'[u].count = wish[u].count /\ wish'[u].left = wish[u].left - 1
      BY <2>1, <2>2
    <2>4. /\ actual[u] = wish[u].count
          /\ st[u].pin = wish[u].count /\ st[u].pinLeft = wish[u].left
      BY <2>1, <2>2 DEF HeldInv, PinKnown
    <2>5. wish[u].left \in Nat /\ wish[u].left > 1
      BY <2>1, <2>2, Limits
    <2>6. Less(wish[u].left) = wish[u].left - 1
      BY <2>5 DEF Less
    <2> QED BY <1>1, <2>1, <2>3, <2>4, <2>6
  <1> QED BY <1>2

\* The tick that drops expired pins drops no other.
LEMMA StartHeld ==
  ASSUME HeldInv, NEW tier \in 0..1, NEW noise \in BOOLEAN, TickStart(tier, noise)
  PROVE  PinKnown'
  <1>1. /\ st' = [u \in Target |-> Unpinned(st[u])]
        /\ UNCHANGED <<actual, wish, lapsed>>
    BY DEF TickStart, historyVars
  <1>2. ASSUME NEW x \in TargetState
        PROVE  x.pinLeft # 0 => Unpinned(x) = x
    BY DEF TargetState, Unpinned
  <1>3. \A u \in Target : st[u] \in TargetState /\ st'[u] = Unpinned(st[u])
    BY <1>1 DEF HeldInv, TypeInv, StatesOK
  <1>4. PinKnown'
    <2> SUFFICES ASSUME NEW u \in Target, wish[u] # NoWish, u \notin lapsed
                 PROVE  /\ actual[u] = wish[u].count
                        /\ st'[u].pin = wish[u].count /\ st'[u].pinLeft = wish[u].left
      BY <1>1 DEF PinKnown
    <2>1. wish[u].left # 0
      BY Limits DEF HeldInv, TypeInv, HistoryOK
    <2>2. /\ actual[u] = wish[u].count
          /\ st[u].pin = wish[u].count /\ st[u].pinLeft = wish[u].left
      BY DEF HeldInv, PinKnown
    <2> QED BY <1>2, <1>3, <2>1, <2>2
  <1> QED BY <1>4

LEMMA StepHeld == HeldInv /\ [Next]_vars => HeldInv'
  <1> SUFFICES ASSUME HeldInv, [Next]_vars PROVE PinKnown'
    BY StepTyped DEF HeldInv
  <1>1. ASSUME NEW t \in Target, Throttle(t) \/ SkipGated(t)
        PROVE  PinKnown'
    <2>1. PassOver(t, st[t])
      BY <1>1 DEF Throttle, SkipGated
    <2>2. st[t] = [st[t] EXCEPT !.low = st[t].low]
      BY DEF HeldInv, TypeInv, StatesOK, TargetState
    <2>3. PassOver(t, [st[t] EXCEPT !.low = st[t].low])
      BY <2>1, <2>2
    <2> QED BY <2>3, PassOverHeld
  <1>2. ASSUME NEW t \in Target, NEW s \in Signal, NEW tight \in BOOLEAN, Stay(t, s, tight)
        PROVE  PinKnown'
    BY <1>2, PassOverHeld DEF Stay
  <1>3. ASSUME UNCHANGED <<st, actual, wish, lapsed>>
        PROVE  PinKnown'
    BY <1>3 DEF HeldInv, PinKnown
  <1>4. CASE (\E ttl \in 1..PauseTtl : Pause(ttl)) \/ Resume \/ Isolate \/ LeaderFlip
    BY <1>3, <1>4 DEF Pause, Resume, Isolate, LeaderFlip, agentVars
  <1>5. CASE TickPaused \/ TickEnd \/ TickResumes
    BY <1>3, <1>5 DEF TickPaused, TickEnd, TickResumes, historyVars
  <1>6. CASE UNCHANGED vars
    BY <1>3, <1>6 DEF vars, agentVars, historyVars
  <1> QED BY <1>1, <1>2, <1>4, <1>5, <1>6, PinStep, UnpinStep, ScaleStep, WindowHeld, StartHeld
          DEF Next

LEMMA InitHeld == Init => HeldInv
  <1> SUFFICES ASSUME Init PROVE PinKnown
    BY InitTyped DEF HeldInv
  <1> QED BY DEF Init, PinKnown

\* While an operator's pin runs, the runtime keeps the pinned count: no tick,
\* clock, pause, change of leader or command for another target moves it, unless
\* the runtime refused it or the target fell out of _targets (scaler.py
\* _handle_pin, _expire_pins, tick).
THEOREM PinsAreHeld == Spec => []PinHeld
  <1>1. HeldInv => PinHeld
    BY DEF HeldInv, PinKnown, PinHeld
  <1> QED BY <1>1, InitHeld, StepHeld, PTL DEF Spec

-----------------------------------------------------------------------------
(* The replicas of the roster *)

\* One pair for each unit of f over S.
Units(f, S) == UNION {{t} \X (1..f[t]) : t \in S}

LEMMA UnitsAreFinite ==
  ASSUME NEW S, IsFiniteSet(S), NEW f, \A t \in S : f[t] \in Nat
  PROVE  IsFiniteSet(Units(f, S))
  <1> DEFINE g == [t \in S |-> {t} \X (1..f[t])]
             T == {g[t] : t \in S}
  <1>1. g \in Surjection(S, T)
    BY DEF Surjection
  <1>2. IsFiniteSet(T)
    BY <1>1, FS_Surjection
  <1>3. \A t \in S : IsFiniteSet(g[t])
    <2> SUFFICES ASSUME NEW t \in S PROVE IsFiniteSet({t} \X (1..f[t]))
      OBVIOUS
    <2>1. PICK I : I = 1..f[t]
      OBVIOUS
    <2>2. IsFiniteSet(I)
      <3>1. f[t] \in Int
        OBVIOUS
      <3> QED BY <2>1, <3>1, FS_Interval
    <2>4. IsFiniteSet({t})
      BY FS_Singleton
    <2>3. IsFiniteSet({t} \X I)
      BY <2>2, <2>4, FS_Product, Zenon
    <2> QED BY <2>1, <2>3
  <1>4. \A X \in T : IsFiniteSet(X)
    BY <1>3
  <1>5. IsFiniteSet(UNION T)
    BY <1>2, <1>4, FS_UNION
  <1>6. T = {{t} \X (1..f[t]) : t \in S}
    OBVIOUS
  <1> QED BY <1>5, <1>6 DEF Units

LEMMA UnitsOfOne ==
  ASSUME NEW S, IsFiniteSet(S), NEW f, \A t \in S : f[t] \in Nat, NEW x \in S
  PROVE  Cardinality(Units(f, S)) = f[x] + Cardinality(Units(f, S \ {x}))
  <1> DEFINE A == Units(f, S \ {x})
             B == {x} \X (1..f[x])
  <1>1. IsFiniteSet(A) /\ Cardinality(A) \in Nat
    <2>1. IsFiniteSet(S \ {x})
      BY FS_RemoveElement
    <2> QED BY <2>1, UnitsAreFinite, FS_CardinalityType
  <1>2. IsFiniteSet(B) /\ Cardinality(B) = f[x]
    <2>1. PICK I : I = 1..f[x]
      OBVIOUS
    <2>4. IsFiniteSet(I) /\ Cardinality(I) = f[x]
      BY <2>1, FS_Interval
    <2>2. IsFiniteSet({x}) /\ Cardinality({x}) = 1
      BY FS_Singleton
    <2>3. IsFiniteSet({x} \X I) /\ Cardinality({x} \X I) = Cardinality({x}) * Cardinality(I)
      BY <2>2, <2>4, FS_Product, Zenon
    <2> QED BY <2>1, <2>2, <2>3, <2>4
  <1>3. A \cap B = {} /\ Units(f, S) = A \cup B
    BY DEF Units
  <1>4. Cardinality(A \cup B) = Cardinality(A) + Cardinality(B) - Cardinality(A \cap B)
    BY <1>1, <1>2, FS_Union
  <1>5. Cardinality(A \cap B) = 0
    BY <1>3, FS_EmptySet
  <1> QED BY <1>1, <1>2, <1>3, <1>4, <1>5

LEMMA UnitsOfNone == ASSUME NEW f PROVE Cardinality(Units(f, {})) = 0
  <1>1. Units(f, {}) = {}
    BY DEF Units
  <1> QED BY <1>1, FS_EmptySet

LEMMA SumIsUnits ==
  ASSUME NEW S, IsFiniteSet(S), NEW f, \A t \in S : f[t] \in Nat
  PROVE  SumFunctionOnSet(f, S) = Cardinality(Units(f, S))
  <1> DEFINE Def(g) == [s \in SUBSET S |-> IF s = {} THEN 0
                          ELSE f[CHOOSE x \in s : TRUE] + g[s \ {CHOOSE x \in s : TRUE}]]
             w == [s \in SUBSET S |-> Cardinality(Units(f, s))]
             h == CHOOSE g : g = Def(g)
  <1>1. ASSUME NEW s \in SUBSET S, s # {}
        PROVE  (CHOOSE x \in s : TRUE) \in s
    BY <1>1
  <1>2. w = Def(w)
    <2> SUFFICES ASSUME NEW s \in SUBSET S
                 PROVE  Cardinality(Units(f, s)) =
                          IF s = {} THEN 0 ELSE f[CHOOSE x \in s : TRUE] + w[s \ {CHOOSE x \in s : TRUE}]
      OBVIOUS
    <2>1. CASE s = {}
      BY <2>1, UnitsOfNone
    <2>2. CASE s # {}
      <3>1. PICK x : x = (CHOOSE y \in s : TRUE)
        OBVIOUS
      <3>2. x \in s
        BY <1>1, <2>2, <3>1
      <3>3. IsFiniteSet(s) /\ \A t \in s : f[t] \in Nat
        BY FS_Subset
      <3>4. Cardinality(Units(f, s)) = f[x] + Cardinality(Units(f, s \ {x}))
        BY <3>2, <3>3, UnitsOfOne
      <3>5. s \ {x} \in SUBSET S
        OBVIOUS
      <3>6. w[s \ {x}] = Cardinality(Units(f, s \ {x}))
        BY <3>5
      <3> QED BY <2>2, <3>1, <3>4, <3>6
    <2> QED BY <2>1, <2>2
  <1>3. h = Def(h)
    BY <1>2
  <1>4. \A s \in SUBSET S : h[s] = w[s]
    <2> SUFFICES ASSUME NEW s0 \in SUBSET S, h[s0] # w[s0] PROVE FALSE
      OBVIOUS
    <2> DEFINE Bad == {s \in SUBSET S : h[s] # w[s]}
    <2>1. IsWellFoundedOn(StrictSubsetOrdering(S), SUBSET S)
      BY FS_StrictSubsetOrderingWellFounded, FS_FiniteSubsetsOfFinite
    <2>2. Bad # {} /\ Bad \subseteq SUBSET S
      OBVIOUS
    <2>3. PICK s \in Bad : \A r \in Bad : ~ (<<r, s>> \in StrictSubsetOrdering(S))
      <3> HIDE DEF Bad
      <3> QED BY <2>1, <2>2, WFMin
    <2>4. s # {}
      BY <1>2, <1>3
    <2>5. PICK x : x = (CHOOSE y \in s : TRUE)
      OBVIOUS
    <2>6. x \in s /\ s \ {x} \in SUBSET S
      BY <1>1, <2>4, <2>5
    <2>7. h[s] = f[x] + h[s \ {x}] /\ w[s] = f[x] + w[s \ {x}]
      <3>1. \A g : g = Def(g) => g[s] = f[x] + g[s \ {x}]
        BY <2>4, <2>5
      <3> HIDE DEF Def, h, w
      <3> QED BY <1>2, <1>3, <3>1
    <2>8. s \ {x} \in Bad
      BY <2>6, <2>7
    <2>9. <<s \ {x}, s>> \in StrictSubsetOrdering(S)
      BY <2>6 DEF StrictSubsetOrdering
    <2> QED BY <2>3, <2>8, <2>9
  <1>5. SumFunctionOnSet(f, S) = h[S]
    BY DEF SumFunctionOnSet, FoldFunctionOnSet, MapThenFoldSet
  <1>6. h[S] = w[S]
    BY <1>4
  <1>7. w[S] = Cardinality(Units(f, S))
    OBVIOUS
  <1> QED BY <1>5, <1>6, <1>7

\* Sums add up, depend on the terms alone, and grow with the set.
LEMMA SumIsNat ==
  ASSUME NEW S, IsFiniteSet(S), NEW f, \A t \in S : f[t] \in Nat
  PROVE  SumFunctionOnSet(f, S) \in Nat
  BY SumIsUnits, UnitsAreFinite, FS_CardinalityType

LEMMA SumOfOne ==
  ASSUME NEW S, IsFiniteSet(S), NEW f, \A t \in S : f[t] \in Nat, NEW x \in S
  PROVE  SumFunctionOnSet(f, S) = f[x] + SumFunctionOnSet(f, S \ {x})
  <1>1. PICK T : T = S \ {x}
    OBVIOUS
  <1>2. IsFiniteSet(T) /\ \A t \in T : f[t] \in Nat
    BY <1>1, FS_RemoveElement
  <1>3. SumFunctionOnSet(f, T) = Cardinality(Units(f, T)) /\ SumFunctionOnSet(f, S) = Cardinality(Units(f, S))
    BY <1>2, SumIsUnits
  <1> QED BY <1>1, <1>3, UnitsOfOne

LEMMA SumOfSame ==
  ASSUME NEW S, IsFiniteSet(S), NEW f, NEW g, \A t \in S : f[t] \in Nat /\ g[t] = f[t]
  PROVE  SumFunctionOnSet(f, S) = SumFunctionOnSet(g, S)
  <1>1. Units(f, S) = Units(g, S)
    BY DEF Units
  <1>2. SumFunctionOnSet(f, S) = Cardinality(Units(f, S))
    BY SumIsUnits
  <1>3. SumFunctionOnSet(g, S) = Cardinality(Units(g, S))
    BY SumIsUnits
  <1> QED BY <1>1, <1>2, <1>3

LEMMA SumOfLess ==
  ASSUME NEW S, IsFiniteSet(S), NEW T \in SUBSET S, NEW f, \A t \in S : f[t] \in Nat
  PROVE  SumFunctionOnSet(f, T) <= SumFunctionOnSet(f, S)
  <1>1. Units(f, T) \in SUBSET Units(f, S)
    BY DEF Units
  <1>2. IsFiniteSet(Units(f, S))
    BY UnitsAreFinite
  <1>3. Cardinality(Units(f, T)) <= Cardinality(Units(f, S))
    BY <1>1, <1>2, FS_Subset
  <1>4. IsFiniteSet(T) /\ \A t \in T : f[t] \in Nat
    BY FS_Subset
  <1>5. SumFunctionOnSet(f, T) = Cardinality(Units(f, T)) /\ SumFunctionOnSet(f, S) = Cardinality(Units(f, S))
    BY <1>4, SumIsUnits
  <1> QED BY <1>3, <1>5

\* The sum when x takes a new value, joining S if it has to, and E leaves.
LEMMA SumReplaced ==
  ASSUME NEW S, IsFiniteSet(S), NEW E, NEW x, x \notin E,
         NEW f, NEW g, \A t \in S \union {x} : f[t] \in Nat, g[x] \in Nat,
         \A t \in S \ (E \union {x}) : g[t] = f[t]
  PROVE  /\ SumFunctionOnSet(g, (S \ E) \union {x}) \in Nat
         /\ SumFunctionOnSet(g, (S \ E) \union {x})
              <= SumFunctionOnSet(f, S) + g[x] - (IF x \in S THEN f[x] ELSE 0)
  <1>1. PICK R : R = S \ (E \union {x})
    OBVIOUS
  <1>2. PICK P : P = (S \ E) \union {x}
    OBVIOUS
  <1>3. PICK Q : Q = S \ {x}
    OBVIOUS
  <1>4. IsFiniteSet(R) /\ IsFiniteSet(Q)
    BY <1>1, <1>3, FS_Difference
  <1>5. P \ {x} = R /\ R \subseteq Q /\ P = R \union {x} /\ x \in P
    BY <1>1, <1>2, <1>3
  <1>6. IsFiniteSet(P)
    BY <1>4, <1>5, FS_AddElement
  <1>7. SumFunctionOnSet(g, P) = g[x] + SumFunctionOnSet(g, R)
    <2>1. \A t \in P : g[t] \in Nat
      BY <1>1, <1>2
    <2> QED BY <1>5, <1>6, <2>1, SumOfOne
  <1>8. SumFunctionOnSet(f, R) = SumFunctionOnSet(g, R)
    <2>1. \A t \in R : f[t] \in Nat /\ g[t] = f[t]
      BY <1>1
    <2> QED BY <1>4, <2>1, SumOfSame
  <1>9. \A t \in Q : f[t] \in Nat
    BY <1>3
  <1>10. SumFunctionOnSet(f, R) <= SumFunctionOnSet(f, Q)
    BY <1>4, <1>5, <1>9, SumOfLess
  <1>11. SumFunctionOnSet(f, R) \in Nat /\ SumFunctionOnSet(f, Q) \in Nat
    BY <1>4, <1>5, <1>9, SumIsNat
  <1>12. SumFunctionOnSet(f, S) = (IF x \in S THEN f[x] ELSE 0) + SumFunctionOnSet(f, Q)
    <2>1. CASE x \in S
      <3>1. \A t \in S : f[t] \in Nat
        OBVIOUS
      <3> QED BY <1>3, <2>1, <3>1, SumOfOne
    <2>2. CASE x \notin S
      <3>1. Q = S
        BY <1>3, <2>2
      <3> QED BY <1>11, <2>2, <3>1
    <2> QED BY <2>1, <2>2
  <1>13. (IF x \in S THEN f[x] ELSE 0) \in Nat
    OBVIOUS
  <1> QED BY <1>2, <1>7, <1>8, <1>10, <1>11, <1>12, <1>13

\* What the cap rests on: counts are natural numbers, and while a tick decides,
\* the roster exceeds what the tick has counted by at most one replica of each
\* target that joined it.
CountsNatural == \A t \in Target : st[t].replicas \in Nat

RosterCounted ==
    /\ IsFiniteSet(tick.joined)
    /\ tick.mode = "decide" => /\ tick.total \in Int
                               /\ RosterTotal <= tick.total + Cardinality(tick.joined)

CapInv == TypeInv /\ CountsNatural /\ RosterCounted

LEMMA RosterIsFinite == ASSUME LruOK PROVE IsFiniteSet(Range(lru))
  <1>1. lru \in Surjection(1..Len(lru), Range(lru))
    <2>1. lru \in [1..Len(lru) -> Range(lru)]
      BY RangeIs DEF LruOK
    <2> QED BY <2>1, RangeIs DEF LruOK, Surjection
  <1>2. IsFiniteSet(1..Len(lru))
    BY FS_Interval DEF LruOK
  <1> QED BY <1>1, <1>2, FS_Surjection

LEMMA RosterIsNat == ASSUME TypeInv, CountsNatural PROVE RosterTotal \in Nat
  <1> DEFINE f == [t \in Target |-> st[t].replicas]
  <1>1. Range(lru) \subseteq Target
    BY RangeIs DEF TypeInv, LruOK
  <1>2. \A t \in Range(lru) : f[t] \in Nat
    BY <1>1 DEF CountsNatural
  <1>3. IsFiniteSet(Range(lru))
    BY RosterIsFinite DEF TypeInv
  <1> HIDE DEF f
  <1>4. SumFunctionOnSet(f, Range(lru)) \in Nat
    BY <1>2, <1>3, SumIsNat
  <1> QED BY <1>4 DEF RosterTotal, f

\* _evict_and_get adds the newcomer and takes away the evicted.
LEMMA RosterTouched ==
  ASSUME TypeInv, CountsNatural, NEW t \in Target, NEW x, x.replicas \in Nat,
         Touch(t, x)
  PROVE  /\ RosterTotal' \in Nat
         /\ RosterTotal' <= RosterTotal + x.replicas - (IF Tracked(t) THEN st[t].replicas ELSE 0)
  <1> DEFINE f == [u \in Target |-> st[u].replicas]
             g == [u \in Target |-> st'[u].replicas]
  <1>1. /\ Range(lru') = (Range(lru) \ Evicted(t)) \union {t}
        /\ Evicted(t) \subseteq Target \ {t}
    BY TouchedKeeps DEF Touch, TypeInv
  <1>2. Range(lru) \subseteq Target
    BY RangeIs DEF TypeInv, LruOK
  <1>3. IsFiniteSet(Range(lru))
    BY RosterIsFinite DEF TypeInv
  <1>4. Tracked(t) <=> t \in Range(lru)
    BY TrackedIs DEF TypeInv
  <1>5. g[t] = x.replicas /\ f[t] = st[t].replicas /\ \A u \in Range(lru) \union {t} : f[u] \in Nat
    BY <1>2, TouchCases DEF CountsNatural
  <1>6. \A u \in Range(lru) \ (Evicted(t) \union {t}) : g[u] = f[u]
    BY <1>2, TouchCases
  <1>7. RosterTotal = SumFunctionOnSet(f, Range(lru))
    BY DEF RosterTotal
  <1>8. RosterTotal' = SumFunctionOnSet(g, (Range(lru) \ Evicted(t)) \union {t})
    BY <1>1 DEF RosterTotal
  <1> HIDE DEF f, g
  <1>9. /\ SumFunctionOnSet(g, (Range(lru) \ Evicted(t)) \union {t}) \in Nat
        /\ SumFunctionOnSet(g, (Range(lru) \ Evicted(t)) \union {t})
          <= SumFunctionOnSet(f, Range(lru)) + g[t] - (IF t \in Range(lru) THEN f[t] ELSE 0)
    BY <1>1, <1>3, <1>5, <1>6, SumReplaced
  <1> QED BY <1>4, <1>5, <1>7, <1>8, <1>9

\* The tick moves on from t: a newcomer counts once.
LEMMA PastCounts ==
  ASSUME NEW k, DOMAIN k = DOMAIN NoTick, IsFiniteSet(k.joined), NEW t, t \notin k.joined
  PROVE  /\ Past(t, k).mode = k.mode /\ Past(t, k).total = k.total
         /\ Past(t, k).emitted = k.emitted /\ Past(t, k).seen = k.seen \union {t}
         /\ IsFiniteSet(Past(t, k).joined)
         /\ Cardinality(Past(t, k).joined) = Cardinality(k.joined) + (IF Tracked(t) THEN 0 ELSE 1)
         /\ Cardinality(k.joined) \in Nat
  <1> DEFINE j == IF Tracked(t) THEN k.joined ELSE k.joined \union {t}
  <1>1. IsFiniteSet(j) /\ Cardinality(j) = Cardinality(k.joined) + (IF Tracked(t) THEN 0 ELSE 1)
        /\ Cardinality(k.joined) \in Nat
    BY FS_AddElement, FS_CardinalityType
  <1>2. Past(t, k) = [k EXCEPT !.seen = k.seen \union {t}, !.joined = j]
    BY DEF Past
  <1> HIDE DEF j
  <1>3. /\ "seen" \in DOMAIN k /\ "joined" \in DOMAIN k /\ "total" \in DOMAIN k
        /\ "mode" \in DOMAIN k /\ "emitted" \in DOMAIN k
    BY DEF NoTick
  <1>4. /\ Past(t, k).mode = k.mode /\ Past(t, k).total = k.total
        /\ Past(t, k).emitted = k.emitted /\ Past(t, k).seen = k.seen \union {t}
        /\ Past(t, k).joined = j
    BY <1>2, <1>3
  <1> QED BY <1>1, <1>4

LEMMA NewcomerIsFresh ==
  ASSUME TypeInv, NEW t \in Target, ~Tracked(t)
  PROVE  st[t].replicas = 1
  BY TrackedIs DEF TypeInv, StatesOK, Fresh

\* _decide never proposes a negative count.
LEMMA ProposalIsNat ==
  ASSUME NEW x \in TargetState, x.replicas \in Nat, NEW s \in Signal
  PROVE  Proposal(x, s) \in Nat
  <1>1. s.need \in Nat /\ MinReplicas \in Nat /\ MaxReplicas \in Nat /\ MaxStep \in Nat
    BY ScalerAssumption
  <1>2. \A m, n \in Int : Lesser(m, n) \in Int /\ Greater(m, n) \in Int
    BY DEF Lesser, Greater
  <1>3. Clamp(s.need) \in Nat
    BY <1>1 DEF Clamp, Lesser, Greater
  <1>4. \A n \in Int : Step(n) \in Nat
    BY <1>1 DEF Step, Lesser, Greater
  <1>5. Up(x, s) \in Nat
    <2>1. x.replicas + Step(Clamp(s.need) - x.replicas) \in Nat
      BY <1>3, <1>4
    <2> QED BY <1>1, <2>1 DEF Up, Lesser
  <1>6. Down(x, s) \in Nat
    <2>1. x.replicas - Step(x.replicas - Clamp(s.need)) \in Int
      BY <1>3, <1>4
    <2> QED BY <1>1, <2>1 DEF Down, Greater
  <1>7. Proposal(x, s) \in {Up(x, s), Down(x, s), x.replicas}
    BY Zenon DEF Proposal
  <1> QED BY <1>5, <1>6, <1>7

\* Counts stay natural when one target takes a natural count.
LEMMA TouchNatural ==
  ASSUME TypeInv, CountsNatural, NEW t \in Target, NEW x, x.replicas \in Nat,
         Touch(t, x)
  PROVE  CountsNatural'
  <1> SUFFICES ASSUME NEW u \in Target PROVE st'[u].replicas \in Nat
    BY DEF CountsNatural
  <1>1. CASE u = t
    BY <1>1, TouchCases
  <1>2. CASE u \in Evicted(t)
    BY <1>2, TouchCases DEF Fresh
  <1>3. CASE u \in Target \ ({t} \union Evicted(t))
    BY <1>3, TouchCases DEF CountsNatural
  <1> QED BY <1>1, <1>2, <1>3

LEMMA PassOverCounted ==
  ASSUME CapInv, NEW t \in Target, t \notin tick.seen, NEW x,
         x.replicas = st[t].replicas, PassOver(t, x)
  PROVE  CountsNatural' /\ RosterCounted' /\ tick'.emitted = tick.emitted
  <1>1. st[t].replicas \in Nat /\ TypeInv /\ CountsNatural
    BY DEF CapInv, CountsNatural
  <1>2. Touch(t, x) /\ tick' = Past(t, tick)
    BY DEF PassOver
  <1>3. CountsNatural'
    BY <1>1, <1>2, TouchNatural
  <1>4. RosterTotal' \in Nat
        /\ RosterTotal' <= RosterTotal + st[t].replicas - (IF Tracked(t) THEN st[t].replicas ELSE 0)
    BY <1>1, <1>2, RosterTouched
  <1>5. /\ DOMAIN tick = DOMAIN NoTick /\ IsFiniteSet(tick.joined) /\ t \notin tick.joined
    BY DEF CapInv, TypeInv, TickOK, RosterCounted
  <1>6. /\ tick'.mode = tick.mode /\ tick'.total = tick.total
        /\ tick'.emitted = tick.emitted
        /\ IsFiniteSet(tick'.joined)
        /\ Cardinality(tick'.joined) = Cardinality(tick.joined) + (IF Tracked(t) THEN 0 ELSE 1)
        /\ Cardinality(tick.joined) \in Nat
    BY <1>2, <1>5, PastCounts
  <1>7. ~Tracked(t) => st[t].replicas = 1
    BY <1>1, NewcomerIsFresh
  <1>8. RosterTotal \in Nat
    BY <1>1, RosterIsNat
  <1>9. RosterTotal' <= RosterTotal + (IF Tracked(t) THEN 0 ELSE 1)
    BY <1>1, <1>4, <1>7, <1>8
  <1>10. tick.mode = "decide" => tick.total \in Int /\ RosterTotal <= tick.total + Cardinality(tick.joined)
    BY DEF CapInv, RosterCounted
  <1>11. ASSUME tick'.mode = "decide"
         PROVE  tick'.total \in Int /\ RosterTotal' <= tick'.total + Cardinality(tick'.joined)
    <2> DEFINE c == Cardinality(tick.joined)
               d == Cardinality(tick'.joined)
    <2>1. /\ tick.total \in Int /\ RosterTotal <= tick.total + c /\ c \in Nat
          /\ d = c + (IF Tracked(t) THEN 0 ELSE 1)
      BY <1>6, <1>10, <1>11
    <2> HIDE DEF c, d
    <2>2. RosterTotal' <= tick.total + d
      BY <1>4, <1>8, <1>9, <2>1
    <2> QED BY <1>6, <2>1, <2>2 DEF d
  <1> QED BY <1>3, <1>6, <1>11 DEF RosterCounted
\* A decision: the tick's total follows the count, and a scale-up fits the cap.
LEMMA ScaleCounted ==
  ASSUME CapInv, NEW t \in Target, NEW s \in Signal, NEW ok \in BOOLEAN, Scale(t, s, ok)
  PROVE  /\ CountsNatural' /\ RosterCounted' /\ RosterTotal' \in Nat
         /\ tick.mode = "decide" /\ tick'.mode = "decide"
         /\ tick'.seen = tick.seen \union {t}
         /\ st'[t].replicas > st[t].replicas => tick'.total <= GlobalCap
  <1> DEFINE new == Proposal(st[t], s)
             low == LowStreak(st[t], s)
             grown == Append(st[t].recent, new)
             recent == IF Len(grown) > HysteresisWindows THEN Tail(grown) ELSE grown
             x == [st[t] EXCEPT !.low = low, !.replicas = new, !.decided = TRUE,
                                !.cool = MinInterval, !.recent = recent]
             k == [tick EXCEPT !.total = @ - st[t].replicas + new, !.emitted = @ + 1]
  <1>1. st[t].replicas \in Nat /\ st[t] \in TargetState /\ TypeInv /\ CountsNatural
    BY DEF CapInv, CountsNatural, TypeInv, StatesOK
  <1>2. new \in Nat
    BY <1>1, ProposalIsNat
  <1>3. /\ Touch(t, x) /\ tick' = Past(t, k) /\ Deciding(t) /\ ~Refused(st[t], new, FALSE)
    BY DEF Scale
  <1> HIDE DEF new, low, recent
  <1>4. x.replicas = new
    BY <1>1 DEF TargetState
  <1> HIDE DEF x
  <1>5. CountsNatural'
    BY <1>1, <1>2, <1>3, <1>4, TouchNatural
  <1>6. /\ RosterTotal' \in Nat
        /\ RosterTotal' <= RosterTotal + new - (IF Tracked(t) THEN st[t].replicas ELSE 0)
    BY <1>1, <1>2, <1>3, <1>4, RosterTouched
  <1>7. /\ DOMAIN tick = DOMAIN NoTick /\ IsFiniteSet(tick.joined) /\ t \notin tick.joined
        /\ tick.mode = "decide"
    BY <1>3 DEF CapInv, TypeInv, TickOK, RosterCounted, Deciding
  <1>8. /\ DOMAIN k = DOMAIN NoTick /\ k.mode = tick.mode /\ k.seen = tick.seen
        /\ k.joined = tick.joined /\ k.total = tick.total - st[t].replicas + new
    <2>1. /\ "total" \in DOMAIN tick /\ "emitted" \in DOMAIN tick /\ "seen" \in DOMAIN tick
          /\ "mode" \in DOMAIN tick /\ "joined" \in DOMAIN tick
      BY <1>7 DEF NoTick
    <2> QED BY <1>7, <2>1
  <1> HIDE DEF k
  <1>9. /\ tick'.mode = "decide" /\ tick'.total = tick.total - st[t].replicas + new
        /\ tick'.seen = tick.seen \union {t} /\ IsFiniteSet(tick'.joined)
        /\ Cardinality(tick'.joined) = Cardinality(tick.joined) + (IF Tracked(t) THEN 0 ELSE 1)
        /\ Cardinality(tick.joined) \in Nat
    BY <1>3, <1>7, <1>8, PastCounts
  <1>10. RosterTotal \in Nat /\ (~Tracked(t) => st[t].replicas = 1)
    BY <1>1, RosterIsNat, NewcomerIsFresh
  <1>11. tick.total \in Int /\ RosterTotal <= tick.total + Cardinality(tick.joined)
    BY <1>7 DEF CapInv, RosterCounted
  <1>12. RosterTotal' <= tick'.total + Cardinality(tick'.joined) /\ tick'.total \in Int
    <2> DEFINE c == Cardinality(tick.joined)
               d == Cardinality(tick'.joined)
               r == st[t].replicas
    <2>1. /\ c \in Nat /\ d = c + (IF Tracked(t) THEN 0 ELSE 1) /\ RosterTotal <= tick.total + c
          /\ r \in Nat /\ (~Tracked(t) => r = 1) /\ tick'.total = tick.total - r + new
          /\ RosterTotal' <= RosterTotal + new - (IF Tracked(t) THEN r ELSE 0)
      BY <1>1, <1>6, <1>9, <1>10, <1>11
    <2> HIDE DEF c, d, r
    <2>2. CASE Tracked(t)
      BY <1>2, <1>6, <1>10, <1>11, <2>1, <2>2 DEF d
    <2>3. CASE ~Tracked(t)
      BY <1>2, <1>6, <1>10, <1>11, <2>1, <2>3 DEF d
    <2> QED BY <2>2, <2>3
  <1>13. st'[t].replicas = new
    BY <1>1, <1>3, <1>4, TouchCases
  <1>14. new > st[t].replicas => tick'.total <= GlobalCap
    <2>1. GlobalCap \in Nat
      BY ScalerAssumption
    <2> QED BY <1>1, <1>2, <1>3, <1>9, <1>11, <2>1 DEF Refused
  <1> QED BY <1>5, <1>6, <1>7, <1>9, <1>12, <1>13, <1>14 DEF RosterCounted

\* A step outside a tick, or one that ends it.
LEMMA IdleCounted ==
  ASSUME CapInv, tick'.mode # "decide", tick'.joined = {} \/ tick'.joined = tick.joined
  PROVE  RosterCounted'
  BY FS_EmptySet DEF CapInv, RosterCounted

LEMMA StepCounted ==
  ASSUME PinCount \subseteq Nat, CapInv, [Next]_vars
  PROVE  CapInv' /\ (tick'.emitted > tick.emitted => \E t \in Target, s \in Signal, ok \in BOOLEAN : Scale(t, s, ok))
  <1>0. TypeInv /\ CountsNatural /\ TypeInv'
    BY StepTyped DEF CapInv
  <1>a. tick.emitted \in Nat
    BY <1>0, Limits DEF TypeInv, TickOK
  <1>1. ASSUME NEW t \in Target, NEW n \in PinCount, NEW ok \in BOOLEAN, Pin(t, n, ok)
        PROVE  CountsNatural' /\ RosterCounted' /\ tick'.emitted = tick.emitted
    <2> DEFINE x == [st[t] EXCEPT !.pin = n, !.pinLeft = PinTtl, !.replicas = n, !.cool = MinInterval]
    <2>1. Touch(t, x) /\ tick' = tick /\ tick.mode = "off"
      BY <1>1 DEF Pin, Command, Idle
    <2>2. x.replicas \in Nat
      <3>1. x.replicas = n
        BY <1>0 DEF TypeInv, StatesOK, TargetState
      <3> QED BY <3>1
    <2> HIDE DEF x
    <2> QED BY <1>0, <2>1, <2>2, TouchNatural, IdleCounted
  <1>2. ASSUME NEW t \in Target, Unpin(t)
        PROVE  CountsNatural' /\ RosterCounted' /\ tick'.emitted = tick.emitted
    <2> DEFINE x == [st[t] EXCEPT !.pin = NoPin, !.pinLeft = 0]
    <2>1. Touch(t, x) /\ tick' = tick /\ tick.mode = "off"
      BY <1>2 DEF Unpin, Command, Idle
    <2>2. x.replicas \in Nat
      <3>1. x.replicas = st[t].replicas
        BY <1>0 DEF TypeInv, StatesOK, TargetState
      <3> QED BY <1>0, <3>1 DEF CountsNatural
    <2> HIDE DEF x
    <2> QED BY <1>0, <2>1, <2>2, TouchNatural, IdleCounted
  <1>3. ASSUME NEW t \in Target, Throttle(t) \/ SkipGated(t)
        PROVE  CountsNatural' /\ RosterCounted' /\ tick'.emitted = tick.emitted
    BY <1>3, PassOverCounted DEF Throttle, SkipGated, Deciding
  <1>4. ASSUME NEW t \in Target, NEW s \in Signal, NEW tight \in BOOLEAN, Stay(t, s, tight)
        PROVE  CountsNatural' /\ RosterCounted' /\ tick'.emitted = tick.emitted
    <2> DEFINE low == LowStreak(st[t], s)
               x == [st[t] EXCEPT !.low = low]
    <2>1. PassOver(t, x) /\ t \notin tick.seen
      BY <1>4 DEF Stay, Deciding
    <2> HIDE DEF low
    <2>2. x.replicas = st[t].replicas
      BY <1>0 DEF TypeInv, StatesOK, TargetState
    <2> HIDE DEF x
    <2> QED BY <2>1, <2>2, PassOverCounted
  <1>5. ASSUME UNCHANGED <<lru, st, tick>>
        PROVE  CountsNatural' /\ RosterCounted' /\ tick'.emitted = tick.emitted
    BY <1>5 DEF CapInv, CountsNatural, RosterCounted, RosterTotal
  <1>6. CASE \/ \E ttl \in 1..PauseTtl : Pause(ttl)
             \/ Resume \/ Isolate \/ LeaderFlip \/ TickResumes \/ UNCHANGED vars
    <2>1. UNCHANGED <<lru, st, tick>>
      BY <1>6 DEF Pause, Resume, Isolate, LeaderFlip, TickResumes, vars, agentVars
    <2> QED BY <1>0, <1>a, <1>5, <2>1 DEF CapInv
  <1>7. CASE TickPaused \/ TickEnd
    <2>1. st' = st /\ tick'.mode # "decide" /\ tick'.joined = {} /\ tick'.emitted = 0
      BY <1>7 DEF TickPaused, TickEnd, NoTick
    <2>2. RosterCounted' /\ CountsNatural'
      BY <1>0, <2>1, IdleCounted DEF CountsNatural
    <2> QED BY <1>0, <1>a, <2>1, <2>2 DEF CapInv
  <1>8. CASE Window
    <2>1. tick' = tick /\ tick.mode = "off"
      BY <1>8 DEF Window, Idle
    <2>2. CountsNatural'
      <3> SUFFICES ASSUME NEW t \in Target PROVE st'[t].replicas \in Nat
        BY DEF CountsNatural
      <3>1. st'[t] = [st[t] EXCEPT !.pinLeft = Less(@), !.cool = Less(@), !.decided = FALSE]
        BY <1>8 DEF Window
      <3>2. st'[t].replicas = st[t].replicas
        BY <1>0, <3>1 DEF TypeInv, StatesOK, TargetState
      <3> QED BY <1>0, <3>2 DEF CountsNatural
    <2> QED BY <1>0, <1>a, <2>1, <2>2, IdleCounted DEF CapInv
  <1>9. ASSUME NEW tier \in 0..1, NEW noise \in BOOLEAN, TickStart(tier, noise)
        PROVE  CountsNatural' /\ RosterCounted' /\ tick'.emitted = 0
    <2> DEFINE total == RosterTotal
               level == IF noise THEN 0 ELSE tier
    <2>1. /\ tick' = [NoTick EXCEPT !.mode = "decide", !.noise = noise, !.total = total, !.tier = level]
          /\ lru' = lru /\ st' = [t \in Target |-> Unpinned(st[t])]
      BY <1>9 DEF TickStart
    <2>2. total \in Nat
      BY <1>0, RosterIsNat
    <2>3. \A t \in Target : st'[t].replicas = st[t].replicas
      BY <1>0, <2>1 DEF Unpinned, TypeInv, StatesOK, TargetState
    <2>4. RosterTotal' = total
      <3>1. [t \in Target |-> st'[t].replicas] = [t \in Target |-> st[t].replicas]
        BY <2>3
      <3> QED BY <2>1, <3>1 DEF RosterTotal
    <2> HIDE DEF total, level
    <2>5. tick'.joined = {} /\ tick'.total = total /\ tick'.emitted = 0
      BY <2>1 DEF NoTick
    <2>6. Cardinality(tick'.joined) = 0 /\ IsFiniteSet(tick'.joined)
      BY <2>5, FS_EmptySet
    <2>7. CountsNatural'
      BY <1>0, <2>3 DEF CountsNatural
    <2> QED BY <2>2, <2>4, <2>5, <2>6, <2>7 DEF RosterCounted
  <1>10. CASE \E t \in Target, s \in Signal, ok \in BOOLEAN : Scale(t, s, ok)
    BY <1>0, <1>10, ScaleCounted DEF CapInv
  <1>11. CASE \/ \E t \in Target, n \in PinCount, ok \in BOOLEAN : Pin(t, n, ok)
              \/ \E t \in Target : Unpin(t) \/ Throttle(t) \/ SkipGated(t)
              \/ \E t \in Target, s \in Signal, tight \in BOOLEAN : Stay(t, s, tight)
    <2>1. CountsNatural' /\ RosterCounted' /\ tick'.emitted = tick.emitted
      BY <1>1, <1>2, <1>3, <1>4, <1>11
    <2> QED BY <1>0, <1>a, <2>1 DEF CapInv
  <1>12. CASE \E tier \in 0..1, noise \in BOOLEAN : TickStart(tier, noise)
    <2>1. CountsNatural' /\ RosterCounted' /\ tick'.emitted = 0
      BY <1>9, <1>12
    <2> QED BY <1>0, <1>a, <2>1 DEF CapInv
  <1> QED BY <1>6, <1>7, <1>8, <1>10, <1>11, <1>12 DEF Next

\* A scale-up leaves the roster within global_max_replicas, but for one replica
\* of each target the tick saw for the first time, as long as no operator pins a
\* negative count: evicting such a target would raise the roster unseen
\* (scaler.py tick, roster_total).
THEOREM OverrunIsNewcomers ==
  ASSUME PinCount \subseteq Nat
  PROVE  Spec => CapOverrunByNewcomers
  <1>1. Init => CapInv
    <2> SUFFICES ASSUME Init PROVE CountsNatural /\ RosterCounted
      BY InitTyped DEF CapInv
    <2>1. CountsNatural
      BY DEF Init, Fresh, CountsNatural
    <2>2. RosterCounted
      BY FS_EmptySet DEF Init, NoTick, RosterCounted
    <2> QED BY <2>1, <2>2
  <1>2. CapInv /\ [Next]_vars => CapInv'
    BY StepCounted
  <1>3. CapInv /\ [Next]_vars =>
          [\A t \in Target :
             tick'.emitted > tick.emitted /\ t \in tick'.seen \ tick.seen
               /\ st'[t].replicas > st[t].replicas =>
                RosterTotal' <= GlobalCap + Cardinality(tick'.joined)]_vars
    <2> SUFFICES ASSUME CapInv, [Next]_vars, NEW t \in Target, tick'.emitted > tick.emitted,
                        t \in tick'.seen \ tick.seen, st'[t].replicas > st[t].replicas
                 PROVE  RosterTotal' <= GlobalCap + Cardinality(tick'.joined)
      OBVIOUS
    <2>1. PICK u \in Target, s \in Signal, ok \in BOOLEAN : Scale(u, s, ok)
      BY StepCounted
    <2>2. t = u
      BY <2>1, ScaleCounted
    <2>3. tick'.total <= GlobalCap /\ tick'.mode = "decide" /\ RosterCounted'
      BY <2>1, <2>2, ScaleCounted
    <2>4. /\ tick'.total \in Int /\ IsFiniteSet(tick'.joined)
          /\ RosterTotal' <= tick'.total + Cardinality(tick'.joined)
      BY <2>3 DEF RosterCounted
    <2> DEFINE c == Cardinality(tick'.joined)
    <2>5. c \in Nat /\ GlobalCap \in Nat
      BY <2>4, FS_CardinalityType, ScalerAssumption
    <2>6. RosterTotal' \in Nat
      BY <2>1, ScaleCounted
    <2> HIDE DEF c
    <2> QED BY <2>3, <2>4, <2>5, <2>6 DEF c
  <1> QED BY <1>1, <1>2, <1>3, PTL DEF Spec, CapOverrunByNewcomers

-----------------------------------------------------------------------------
(* The breaker the scaler publishes through *)

\* The newest entry leaves the spool.
LEMMA NewestRemoved ==
  ASSUME NEW S, NEW s \in Seq(S), s # << >>, \A i, j \in 1..Len(s) : s[i] = s[j] => i = j,
         NEW t, t = RemoveFirst(s, s[Len(s)])
  PROVE  t \in Seq(S) /\ Len(t) = Len(s) - 1 /\ \A i \in 1..Len(t) : t[i] = s[i]
  <1>1. PICK n : n = Len(s)
    OBVIOUS
  <1>2. n \in Nat /\ n >= 1 /\ n \in 1..Len(s)
    BY <1>1
  <1>3. {i \in 1..Len(s) : s[i] = s[n]} = {n}
    BY <1>2
  <1>4. Min({n}) = n
    BY <1>2 DEF Min
  <1>5. t = SubSeq(s, 1, n - 1) \o SubSeq(s, n + 1, Len(s))
    <2>1. \E i \in 1..Len(s) : s[i] = s[n]
      BY <1>2
    <2>2. t = RemoveAt(s, Min({n}))
      BY <1>1, <1>3, <2>1 DEF RemoveFirst, SelectInSeq
    <2> QED BY <1>4, <2>2 DEF RemoveAt
  <1>6. SubSeq(s, n + 1, Len(s)) = << >>
    BY <1>1, <1>2
  <1>7. PICK f : f = SubSeq(s, 1, n - 1)
    OBVIOUS
  <1>8. f \in Seq(S) /\ Len(f) = n - 1 /\ \A i \in 1..Len(f) : f[i] = s[i]
    BY <1>1, <1>2, <1>7
  <1>9. t = f
    <2>1. f \o << >> = f
      BY <1>8
    <2> QED BY <1>5, <1>6, <1>7, <2>1
  <1> QED BY <1>1, <1>8, <1>9

\* The types of the breaker, and those of its spool and its history.
AgentTyped ==
    /\ mode \in {"closed", "bus_degraded"} /\ failures \in Nat
    /\ failedOnce \in BOOLEAN /\ isolated \in BOOLEAN /\ steady \in BOOLEAN
    /\ crashes \in 0..MaxCrashes /\ alerted \subseteq Message

SpoolTyped ==
    /\ spool \in Seq(Entry) /\ Len(spool) <= MaxSpool
    /\ pc \in {"idle", "replay", "unlink"}
    /\ todo \in Seq(Entry) /\ (pc # "idle" => todo # << >>)
    /\ given \subseteq Message /\ sent \subseteq Message /\ doubled \subseteq Message
    /\ spooled \subseteq Message /\ aged \subseteq Message /\ malformed \subseteq Message
    /\ torn \subseteq Message

\* No message has two entries.
EntriesDiffer == \A i, j \in 1..Len(spool) : spool[i].msg = spool[j].msg => i = j

OnlyGiven == InSpool \cup sent \cup spooled \subseteq given

\* A replay has still to do exactly what is in the spool, the newest first.
ReplayInOrder ==
    /\ pc = "idle" => todo = << >>
    /\ pc # "idle" => /\ Len(todo) = Len(spool)
                      /\ \A i \in 1..Len(todo) : todo[i] = spool[(Len(spool) - i) + 1]

\* An entry whose message is on the bus is the one to be unlinked next, or its
\* agent must take it for unsent.
SentEntries ==
    /\ pc = "unlink" => spool[Len(spool)].msg \in sent
    /\ \A i \in 1..Len(spool) : spool[i].msg \in sent =>
         spool[i].msg \in torn \/ (pc = "unlink" /\ i = Len(spool))

SpoolInv ==
    /\ SpoolTyped /\ EntriesDiffer /\ OnlyGiven /\ ReplayInOrder /\ SentEntries
    /\ SpooledSurvives /\ DoubleOnlyTorn

LEMMA BreakerTypes == BreakerTypeOK <=> AgentTyped /\ SpoolTyped
  BY DEF BreakerTypeOK, AgentTyped, SpoolTyped

\* What attempts at m do to the bus: nothing but m, and what the agent must take
\* for unsent is blamed for a second publication.
Attempted(m) ==
    /\ sent \subseteq sent' /\ sent' \subseteq sent \cup {m}
    /\ doubled' \subseteq doubled \cup {m} /\ (doubled' = doubled \/ m \in torn')
    /\ torn \subseteq torn' /\ torn' \subseteq torn \cup {m}

\* The attempts of one call of publish() at a new message.
LEMMA NewAttempt ==
  ASSUME NEW m \in Message, m \notin sent, NEW had \in BOOLEAN, NEW applied \in BOOLEAN,
         NEW unsure \in BOOLEAN, had => unsure, Deliver(m, had, applied), Unsure(m, unsure)
  PROVE  Attempted(m) /\ (m \in sent' => applied \/ m \in torn')
  BY DEF Deliver, Unsure, Attempted

\* publish() of a new message, which leaves the spool alone or adds an entry.
LEMMA NewMessage ==
  ASSUME SpoolInv, pc = "idle", NEW m \in Message, m \notin given, given' = given \cup {m},
         pc' = "idle", todo' = << >>, UNCHANGED <<aged, malformed>>, Attempted(m),
         \/ UNCHANGED <<spool, spooled>>
         \/ /\ \E r \in BOOLEAN : spool' = Append(spool, [msg |-> m, readable |-> r])
            /\ Len(spool) + 1 <= MaxSpool /\ spooled' = spooled \cup {m}
            /\ m \in sent' => m \in torn'
  PROVE  SpoolInv'
  <1>1. m \notin sent /\ m \notin InSpool
    BY DEF SpoolInv, OnlyGiven
  <1>2. ReplayInOrder' /\ DoubleOnlyTorn'
    <2>1. ReplayInOrder'
      BY DEF ReplayInOrder
    <2>2. DoubleOnlyTorn'
      BY DEF Attempted, SpoolInv, DoubleOnlyTorn
    <2> QED BY <2>1, <2>2
  <1>3. /\ sent' \subseteq Message /\ doubled' \subseteq Message /\ torn' \subseteq Message
        /\ sent' \subseteq given' /\ \A x \in sent' : x = m \/ x \in sent
    BY DEF Attempted, SpoolInv, SpoolTyped, OnlyGiven
  <1>4. CASE UNCHANGED <<spool, spooled>>
    <2>1. SpoolTyped'
      BY <1>3, <1>4 DEF SpoolInv, SpoolTyped
    <2>2. EntriesDiffer' /\ OnlyGiven' /\ SpooledSurvives'
      BY <1>3, <1>4 DEF SpoolInv, EntriesDiffer, OnlyGiven, SpooledSurvives, InSpool, Attempted
    <2>3. SentEntries'
      <3> SUFFICES ASSUME NEW i \in 1..Len(spool), spool[i].msg \in sent'
                   PROVE  spool[i].msg \in torn'
        BY <1>4 DEF SentEntries
      <3>1. spool[i].msg # m
        BY <1>1 DEF InSpool
      <3> QED BY <1>3, <3>1 DEF SpoolInv, SentEntries, Attempted
    <2> QED BY <1>2, <2>1, <2>2, <2>3 DEF SpoolInv
  <1>5. CASE /\ \E r \in BOOLEAN : spool' = Append(spool, [msg |-> m, readable |-> r])
             /\ Len(spool) + 1 <= MaxSpool /\ spooled' = spooled \cup {m}
             /\ m \in sent' => m \in torn'
    <2>1. PICK e : /\ e \in Entry /\ e.msg = m /\ spool' = Append(spool, e)
      BY <1>5 DEF Entry
    <2>2. spool \in Seq(Entry) /\ Len(spool) \in Nat
      BY DEF SpoolInv, SpoolTyped
    <2>3. /\ spool' \in Seq(Entry) /\ Len(spool') = Len(spool) + 1
          /\ \A i \in 1..Len(spool) : i \in 1..Len(spool') /\ spool'[i] = spool[i]
          /\ spool'[Len(spool) + 1] = e
          /\ \A i \in 1..Len(spool') : i \in 1..Len(spool) \/ i = Len(spool) + 1
      BY <2>1, <2>2
    <2>4. \A i \in 1..Len(spool) : spool[i].msg \in given /\ spool[i].msg # m
      BY DEF SpoolInv, OnlyGiven, InSpool
    <2>5. InSpool' = InSpool \cup {m}
      <3>1. Len(spool) + 1 \in 1..Len(spool')
        BY <2>2, <2>3
      <3> QED BY <2>1, <2>3, <3>1 DEF InSpool
    <2>6. SpoolTyped'
      BY <1>3, <1>5, <2>3 DEF SpoolInv, SpoolTyped
    <2>7. EntriesDiffer'
      BY <2>1, <2>3, <2>4 DEF SpoolInv, EntriesDiffer
    <2>8. OnlyGiven' /\ SpooledSurvives'
      BY <1>3, <1>5, <2>5 DEF SpoolInv, OnlyGiven, SpooledSurvives, Attempted
    <2>9. SentEntries'
      <3> SUFFICES ASSUME NEW i \in 1..Len(spool'), spool'[i].msg \in sent'
                   PROVE  spool'[i].msg \in torn'
        BY <1>5 DEF SentEntries
      <3>1. CASE i = Len(spool) + 1
        BY <1>5, <2>1, <2>3, <3>1
      <3>2. CASE i \in 1..Len(spool)
        <4>1. spool'[i] = spool[i] /\ spool[i].msg \in sent
          BY <1>3, <2>3, <2>4, <3>2
        <4> QED BY <3>2, <4>1 DEF SpoolInv, SentEntries, Attempted
      <3> QED BY <2>3, <3>1, <3>2
    <2> QED BY <1>2, <2>6, <2>7, <2>8, <2>9 DEF SpoolInv
  <1> QED BY <1>4, <1>5

\* The entry a replay is at is the newest of the spool.
LEMMA HeadIsNewest ==
  ASSUME SpoolInv, pc # "idle"
  PROVE  /\ Len(spool) \in Nat /\ Len(spool) >= 1 /\ Len(todo) = Len(spool)
         /\ Head(todo) = spool[Len(spool)] /\ Head(todo) \in Entry
         /\ Head(todo).msg \in Message
  <1>1. todo \in Seq(Entry) /\ todo # << >> /\ spool \in Seq(Entry)
    BY DEF SpoolInv, SpoolTyped
  <1>2. Len(todo) \in Nat /\ Len(todo) >= 1 /\ Head(todo) = todo[1] /\ 1 \in 1..Len(todo)
    BY <1>1
  <1>3. Len(todo) = Len(spool) /\ todo[1] = spool[(Len(spool) - 1) + 1]
    BY <1>2 DEF SpoolInv, ReplayInOrder
  <1>4. (Len(spool) - 1) + 1 = Len(spool)
    BY <1>2, <1>3
  <1>5. Head(todo) \in Entry
    BY <1>1
  <1> QED BY <1>2, <1>3, <1>4, <1>5 DEF Entry

\* The newest entry leaves the spool, and the replay goes on with the rest.
LEMMA EntryDropped ==
  ASSUME SpoolInv, pc # "idle", DropEntry,
         UNCHANGED <<given, sent, doubled, spooled, aged, torn>>,
         malformed \subseteq malformed', malformed' \subseteq Message,
         Head(todo).msg \in sent \cup malformed'
  PROVE  SpoolInv'
  <1>1. /\ Len(spool) \in Nat /\ Len(spool) >= 1 /\ Len(todo) = Len(spool)
        /\ Head(todo) = spool[Len(spool)]
    BY HeadIsNewest
  <1>2. spool \in Seq(Entry) /\ todo \in Seq(Entry) /\ spool # << >> /\ todo # << >>
    BY <1>1 DEF SpoolInv, SpoolTyped
  <1>3. \A i, j \in 1..Len(spool) : spool[i] = spool[j] => i = j
    BY DEF SpoolInv, EntriesDiffer
  <1>4. spool' = RemoveFirst(spool, spool[Len(spool)]) /\ todo' = Tail(todo)
        /\ pc' = IF todo' = << >> THEN "idle" ELSE "replay"
    BY <1>1 DEF DropEntry
  <1>5. /\ spool' \in Seq(Entry) /\ Len(spool') = Len(spool) - 1
        /\ \A i \in 1..Len(spool') : spool'[i] = spool[i]
    BY <1>2, <1>3, <1>4, NewestRemoved
  <1>6. \A i \in 1..Len(spool') : i \in 1..Len(spool) /\ i # Len(spool)
    BY <1>1, <1>5
  <1>7. /\ todo' \in Seq(Entry) /\ Len(todo') = Len(todo) - 1
        /\ \A i \in 1..Len(todo') : i + 1 \in 1..Len(todo) /\ todo'[i] = todo[i + 1]
    BY <1>2, <1>4
  <1>8. SpoolTyped'
    <2>1. Len(spool') <= MaxSpool
      BY BreakerAssumption, <1>1, <1>5 DEF SpoolInv, SpoolTyped
    <2>2. /\ sent' \subseteq Message /\ given' \subseteq Message /\ doubled' \subseteq Message
          /\ spooled' \subseteq Message /\ aged' \subseteq Message /\ malformed' \subseteq Message
          /\ torn' \subseteq Message
      BY DEF SpoolInv, SpoolTyped
    <2>3. pc' \in {"idle", "replay", "unlink"} /\ (pc' # "idle" => todo' # << >>)
      BY <1>4
    <2> QED BY <1>5, <1>7, <2>1, <2>2, <2>3 DEF SpoolTyped
  <1>9. EntriesDiffer'
    BY <1>5, <1>6 DEF SpoolInv, EntriesDiffer
  <1>10. InSpool' \subseteq InSpool
         /\ InSpool \subseteq InSpool' \cup {Head(todo).msg}
    <2>1. InSpool' \subseteq InSpool
      BY <1>5, <1>6 DEF InSpool
    <2>2. \A i \in 1..Len(spool) : i = Len(spool) \/ i \in 1..Len(spool')
      BY <1>1, <1>5
    <2> QED BY <1>1, <1>5, <2>1, <2>2 DEF InSpool
  <1>11. OnlyGiven' /\ SpooledSurvives' /\ DoubleOnlyTorn'
    BY <1>10 DEF SpoolInv, OnlyGiven, SpooledSurvives, DoubleOnlyTorn
  <1>12. ReplayInOrder'
    <2>1. ASSUME NEW i \in 1..Len(todo') PROVE todo'[i] = spool'[(Len(spool') - i) + 1]
      <3>1. todo'[i] = spool[(Len(spool) - (i + 1)) + 1]
        BY <1>7 DEF SpoolInv, ReplayInOrder
      <3>2. (Len(spool') - i) + 1 \in 1..Len(spool')
            /\ (Len(spool') - i) + 1 = (Len(spool) - (i + 1)) + 1
        BY <1>1, <1>5, <1>7
      <3> QED BY <1>5, <3>1, <3>2
    <2>2. Len(todo') = Len(spool')
      BY <1>1, <1>5, <1>7
    <2> QED BY <1>4, <2>1, <2>2 DEF ReplayInOrder
  <1>13. SentEntries'
    <2> SUFFICES ASSUME NEW i \in 1..Len(spool'), spool'[i].msg \in sent
                 PROVE  spool'[i].msg \in torn
      BY <1>4 DEF SentEntries
    <2> QED BY <1>5, <1>6 DEF SpoolInv, SentEntries
  <1> QED BY <1>8, <1>9, <1>11, <1>12, <1>13 DEF SpoolInv

\* tick() after an outage: the n oldest entries are pruned, the rest is replayed.
LEMMA RecoveryStarts ==
  ASSUME SpoolInv, TickRecovers
  PROVE  SpoolInv'
  <1>1. PICK n \in 0..Len(spool) :
          /\ aged' = aged \cup {spool[i].msg : i \in 1..n}
          /\ spool' = SubSeq(spool, n + 1, Len(spool)) /\ todo' = Reverse(spool')
          /\ pc' = IF spool' = << >> THEN "idle" ELSE "replay"
    BY DEF TickRecovers, Young
  <1>2. /\ pc = "idle" /\ UNCHANGED <<spooled, malformed, sent, doubled, given, torn>>
    BY DEF TickRecovers, busVars
  <1>3. spool \in Seq(Entry) /\ Len(spool) \in Nat /\ Len(spool) <= MaxSpool /\ MaxSpool \in Nat
    BY BreakerAssumption DEF SpoolInv, SpoolTyped
  <1>4. /\ spool' \in Seq(Entry) /\ Len(spool') = Len(spool) - n
        /\ \A i \in 1..Len(spool') : spool'[i] = spool[n + i]
    BY <1>1, <1>3
  <1>5. n \in Nat /\ Len(spool') \in Nat /\ \A i \in 1..Len(spool') : n + i \in 1..Len(spool)
    BY <1>3, <1>4
  <1>6. /\ todo' \in Seq(Entry) /\ Len(todo') = Len(spool')
        /\ \A i \in 1..Len(todo') : todo'[i] = spool'[(Len(spool') - i) + 1]
    <2>1. PICK s, l : s = spool' /\ l = Len(spool')
      OBVIOUS
    <2>2. todo' = [i \in 1..l |-> s[(l - i) + 1]]
      BY <1>1, <2>1 DEF Reverse
    <2>3. s \in Seq(Entry) /\ l = Len(s) /\ l \in Nat
      BY <1>4, <1>5, <2>1
    <2>4. \A i \in 1..l : (l - i) + 1 \in 1..l /\ s[(l - i) + 1] \in Entry
      BY <2>3
    <2>5. todo' \in Seq(Entry) /\ Len(todo') = l /\ \A i \in 1..l : todo'[i] = s[(l - i) + 1]
      BY <2>2, <2>3, <2>4
    <2> QED BY <2>1, <2>5
  <1>7. \A i \in 1..Len(spool) : spool[i].msg \in Message /\ spool[i].msg \in given
    <2>1. \A i \in 1..Len(spool) : spool[i] \in Entry
      BY <1>3
    <2> QED BY <2>1 DEF Entry, SpoolInv, OnlyGiven, InSpool
  <1>8. aged' \subseteq Message
    BY <1>1, <1>3, <1>7 DEF SpoolInv, SpoolTyped
  <1>9. Len(spool') <= MaxSpool
    BY <1>3, <1>4, <1>5
  <1>10. pc' # "idle" => todo' # << >>
    <2>1. spool' # << >> => Len(spool') # 0
      BY <1>4
    <2> QED BY <1>1, <1>6, <2>1
  <1>11. SpoolTyped'
    BY <1>1, <1>2, <1>4, <1>6, <1>8, <1>9, <1>10 DEF SpoolInv, SpoolTyped
  <1>12. EntriesDiffer'
    <2> SUFFICES ASSUME NEW i \in 1..Len(spool'), NEW j \in 1..Len(spool'), spool'[i].msg = spool'[j].msg
                 PROVE  i = j
      BY DEF EntriesDiffer
    <2>1. n + i = n + j
      BY <1>4, <1>5 DEF SpoolInv, EntriesDiffer
    <2> QED BY <1>5, <2>1
  <1>13. InSpool' \subseteq InSpool
         /\ InSpool \subseteq InSpool' \cup aged'
    <2>1. ASSUME NEW i \in 1..Len(spool) PROVE spool[i].msg \in InSpool' \cup aged'
      <3>1. CASE i \in 1..n
        BY <1>1, <3>1
      <3>2. CASE i \notin 1..n
        <4>1. i - n \in 1..Len(spool') /\ n + (i - n) = i
          BY <1>3, <1>4, <1>5, <3>2
        <4> QED BY <1>4, <4>1 DEF InSpool
      <3> QED BY <3>1, <3>2
    <2> QED BY <1>4, <1>5, <2>1 DEF InSpool
  <1>14. OnlyGiven' /\ SpooledSurvives' /\ DoubleOnlyTorn'
    BY <1>1, <1>2, <1>13 DEF SpoolInv, OnlyGiven, SpooledSurvives, DoubleOnlyTorn
  <1>15. ReplayInOrder'
    <2>1. pc' = "idle" => todo' = << >>
      <3>1. Len(<< >>) = 0
        OBVIOUS
      <3> QED BY <1>1, <1>6, <3>1
    <2> QED BY <1>6, <2>1 DEF ReplayInOrder
  <1>16. SentEntries'
    <2> SUFFICES ASSUME NEW i \in 1..Len(spool'), spool'[i].msg \in sent
                 PROVE  spool'[i].msg \in torn
      BY <1>1, <1>2 DEF SentEntries
    <2> QED BY <1>2, <1>4, <1>5 DEF SpoolInv, SentEntries
  <1> QED BY <1>11, <1>12, <1>14, <1>15, <1>16 DEF SpoolInv

\* An entry is published again: twice only when it had been left behind.
LEMMA EntryReplayed ==
  ASSUME SpoolInv, ReplayOk
  PROVE  SpoolInv'
  <1>1. /\ pc = "replay" /\ pc' = "unlink" /\ Deliver(Head(todo).msg, FALSE, TRUE)
        /\ UNCHANGED <<spool, spooled, aged, malformed, todo, given, torn>>
    BY DEF ReplayOk, spoolVars
  <1>2. /\ Len(spool) \in Nat /\ Len(spool) >= 1 /\ Head(todo) = spool[Len(spool)]
        /\ Head(todo).msg \in Message
    BY <1>1, HeadIsNewest
  <1>3. PICK m : m = spool[Len(spool)].msg
    OBVIOUS
  <1>4. m \in Message /\ sent' = sent \cup {m} /\ doubled' \subseteq doubled \cup {m}
        /\ (m \notin sent => doubled' = doubled)
    BY <1>1, <1>2, <1>3 DEF Deliver
  <1>5. Len(spool) \in 1..Len(spool)
    BY <1>2
  <1>6. m \in sent => m \in torn
    BY <1>1, <1>3, <1>5 DEF SpoolInv, SentEntries
  <1>7. SpoolTyped'
    BY <1>1, <1>4 DEF SpoolInv, SpoolTyped
  <1>8. EntriesDiffer' /\ ReplayInOrder'
    BY <1>1 DEF SpoolInv, EntriesDiffer, ReplayInOrder
  <1>9. m \in InSpool /\ InSpool' = InSpool
    BY <1>1, <1>3, <1>5 DEF InSpool
  <1>10. OnlyGiven' /\ SpooledSurvives' /\ DoubleOnlyTorn'
    BY <1>1, <1>4, <1>6, <1>9 DEF SpoolInv, OnlyGiven, SpooledSurvives, DoubleOnlyTorn
  <1>11. SentEntries'
    <2>1. ASSUME NEW i \in 1..Len(spool), spool[i].msg \in sent', i # Len(spool)
          PROVE  spool[i].msg \in torn
      <3>1. spool[i].msg # m
        BY <1>3, <1>5, <2>1 DEF SpoolInv, EntriesDiffer
      <3> QED BY <1>1, <1>4, <2>1, <3>1 DEF SpoolInv, SentEntries
    <2> QED BY <1>1, <1>3, <1>4, <2>1 DEF SentEntries
  <1> QED BY <1>7, <1>8, <1>10, <1>11 DEF SpoolInv

\* The replay ends early: the publish or the unlink raises, or the process dies.
\* The entry at hand is blamed when the bus has it.
LEMMA ReplayAbandoned ==
  ASSUME SpoolInv, pc' = "idle", todo' = << >>, UNCHANGED <<spool, spooled, aged, malformed, given>>,
         \/ UNCHANGED <<sent, doubled>> /\ torn' = IF pc = "unlink" THEN torn \cup {Head(todo).msg} ELSE torn
         \/ /\ pc = "replay"
            /\ \E applied \in BOOLEAN : Deliver(Head(todo).msg, FALSE, applied)
                                        /\ Unsure(Head(todo).msg, applied)
  PROVE  SpoolInv'
  <1>1. pc # "idle" => Head(todo) = spool[Len(spool)] /\ Head(todo).msg \in Message
                       /\ Len(spool) \in 1..Len(spool)
    BY HeadIsNewest
  <1>2. PICK m : m = Head(todo).msg
    OBVIOUS
  <1>3. EntriesDiffer' /\ ReplayInOrder'
    BY DEF SpoolInv, EntriesDiffer, ReplayInOrder
  <1>4. CASE UNCHANGED <<sent, doubled>> /\ torn' = IF pc = "unlink" THEN torn \cup {Head(todo).msg} ELSE torn
    <2>1. SpoolTyped'
      BY <1>1, <1>4 DEF SpoolInv, SpoolTyped
    <2>2. OnlyGiven' /\ SpooledSurvives' /\ DoubleOnlyTorn'
      BY <1>4 DEF SpoolInv, OnlyGiven, SpooledSurvives, DoubleOnlyTorn, InSpool
    <2>3. SentEntries'
      <3> SUFFICES ASSUME NEW i \in 1..Len(spool), spool[i].msg \in sent PROVE spool[i].msg \in torn'
        BY <1>4 DEF SentEntries
      <3> QED BY <1>1, <1>4 DEF SpoolInv, SentEntries
    <2> QED BY <1>3, <2>1, <2>2, <2>3 DEF SpoolInv
  <1>5. ASSUME pc = "replay", NEW applied \in BOOLEAN, Deliver(Head(todo).msg, FALSE, applied),
               Unsure(Head(todo).msg, applied)
        PROVE  SpoolInv'
    <2>1. /\ m \in Message /\ m = spool[Len(spool)].msg /\ Len(spool) \in 1..Len(spool)
          /\ Deliver(m, FALSE, applied) /\ Unsure(m, applied)
      BY <1>1, <1>2, <1>5
    <2>2. m \in sent => m \in torn
      BY <1>5, <2>1 DEF SpoolInv, SentEntries
    <2>3. Attempted(m) /\ (m \in sent' => m \in torn')
      BY <2>1, <2>2 DEF Attempted, Deliver, Unsure
    <2>4. SpoolTyped' /\ DoubleOnlyTorn'
      BY <2>1, <2>3 DEF Attempted, SpoolInv, SpoolTyped, DoubleOnlyTorn
    <2>5. m \in InSpool /\ InSpool' = InSpool
      BY <2>1 DEF InSpool
    <2>6. OnlyGiven' /\ SpooledSurvives'
      BY <2>3, <2>5 DEF Attempted, SpoolInv, OnlyGiven, SpooledSurvives
    <2>7. SentEntries'
      <3> SUFFICES ASSUME NEW i \in 1..Len(spool), spool[i].msg \in sent' PROVE spool[i].msg \in torn'
        BY DEF SentEntries
      <3>1. spool[i].msg = m \/ spool[i].msg \in sent
        BY <2>3 DEF Attempted
      <3>2. spool[i].msg \in sent => spool[i].msg \in torn
        BY <1>5 DEF SpoolInv, SentEntries
      <3> QED BY <2>3, <3>1, <3>2 DEF Attempted
    <2> QED BY <1>3, <2>4, <2>6, <2>7 DEF SpoolInv
  <1> QED BY <1>4, <1>5

\* The breaker's own variables are typed, whatever it does.
LEMMA AgentStaysTyped ==
  ASSUME AgentTyped, [BreakerNext]_breakerVars
  PROVE  AgentTyped'
  <1> USE BreakerAssumption DEF AgentTyped, circuitVars
  <1>1. ASSUME NEW m \in Message, NEW had \in BOOLEAN, PublishDegraded(m, had)
        PROVE  isolated' \in BOOLEAN /\ alerted' \subseteq Message
    BY <1>1 DEF PublishDegraded
  <1>2. \A outside : Streak(outside) \in Nat
    BY DEF Streak
  <1>3. ASSUME NEW m \in Message, PublishFails(m) PROVE AgentTyped'
    <2>1. PICK outside : /\ failures' = Streak(outside) /\ failedOnce' = TRUE
                         /\ \/ mode' = "bus_degraded" /\ \E had \in BOOLEAN : PublishDegraded(m, had)
                            \/ UNCHANGED <<mode, isolated, alerted>>
      BY <1>3 DEF PublishFails
    <2>2. UNCHANGED <<steady, crashes>>
      BY <1>3 DEF PublishFails, Emit
    <2> QED BY <1>1, <1>2, <2>1, <2>2
  <1>4. ASSUME NEW m \in Message, PublishOk(m) \/ PublishWhileDegraded(m) PROVE AgentTyped'
    <2>1. UNCHANGED <<mode, steady, crashes>>
      BY <1>4 DEF PublishOk, PublishWhileDegraded, Emit
    <2>2. failures' = 0 \/ failures' = failures
      BY <1>4 DEF PublishOk, PublishWhileDegraded
    <2>3. failures' \in Nat
      BY <2>2
    <2>4. failedOnce' = FALSE \/ failedOnce' = failedOnce
      BY <1>4 DEF PublishOk, PublishWhileDegraded
    <2>5. isolated' \in BOOLEAN /\ alerted' \subseteq Message
      BY <1>1, <1>4 DEF PublishOk, PublishWhileDegraded
    <2> QED BY <2>1, <2>3, <2>4, <2>5, Zenon
  <1>5. ASSUME Reborn, UNCHANGED <<steady, alerted>> PROVE AgentTyped'
    <2>1. crashes' \in 0..MaxCrashes /\ failures' \in Nat
      BY <1>5 DEF Reborn
    <2>2. mode' = "closed" /\ failedOnce' = FALSE /\ isolated' = FALSE
      BY <1>5 DEF Reborn
    <2> QED BY <1>5, <2>1, <2>2, Zenon
  <1>6. ASSUME NEW m \in Message, CrashInSpoolWrite(m) PROVE AgentTyped'
    BY <1>5, <1>6 DEF CrashInSpoolWrite
  <1>7. CASE Crash
    BY <1>5, <1>7 DEF Crash
  <1>8. CASE TickRecovers
    BY <1>8 DEF TickRecovers, Recovered
  <1>9. CASE Replay
    <2>1. CASE ReplayMalformed \/ ReplayOk \/ Unlink
      <3>1. UNCHANGED <<mode, failures, failedOnce, isolated, steady, crashes, alerted>>
        BY <2>1 DEF ReplayMalformed, ReplayOk, Unlink
      <3> QED BY <3>1, Zenon
    <2>2. CASE ReplayFails \/ UnlinkFails
      <3>1. UNCHANGED <<failedOnce, isolated, steady, crashes, alerted>>
        BY <2>2 DEF ReplayFails, UnlinkFails
      <3>2. mode' = "bus_degraded" /\ failures' \in Nat
        <4>1. Abandon
          BY <2>2, Zenon DEF ReplayFails, UnlinkFails
        <4> QED BY <4>1 DEF Abandon
      <3> QED BY <3>1, <3>2, Zenon
    <2> QED BY <1>9, <2>1, <2>2 DEF Replay
  <1>10. CASE BusRecovers \/ UNCHANGED breakerVars
    BY <1>10 DEF BusRecovers, breakerVars
  <1> QED BY <1>3, <1>4, <1>6, <1>7, <1>8, <1>9, <1>10 DEF BreakerNext

LEMMA SpoolStep ==
  ASSUME SpoolInv, [BreakerNext]_breakerVars
  PROVE  SpoolInv'
  <1>1. ASSUME NEW m \in Message, Emit(m)
        PROVE  /\ pc = "idle" /\ m \notin given /\ given' = given \cup {m} /\ pc' = "idle"
               /\ todo' = << >> /\ m \notin sent
    BY <1>1 DEF Emit, replayVars, SpoolInv, ReplayInOrder, OnlyGiven
  <1>a. ASSUME NEW m \in Message, Emit(m), NEW had \in BOOLEAN, NEW applied \in BOOLEAN,
               NEW unsure \in BOOLEAN, had => unsure, Deliver(m, had, applied), Unsure(m, unsure),
               UNCHANGED <<spool, spooled, aged, malformed>>
        PROVE  SpoolInv'
    BY <1>1, <1>a, NewAttempt, NewMessage
  <1>2. ASSUME NEW m \in Message, PublishOk(m) PROVE SpoolInv'
    <2>1. Emit(m) /\ Deliver(m, FALSE, TRUE) /\ UNCHANGED <<spool, spooled, aged, malformed>>
          /\ Unsure(m, FALSE)
      BY <1>2 DEF PublishOk, spoolVars, Unsure
    <2> QED BY <1>a, <2>1
  <1>3. ASSUME NEW m \in Message, Emit(m), NEW had \in BOOLEAN, PublishDegraded(m, had) PROVE SpoolInv'
    <2>1. Len(spool) \in Nat /\ MaxSpool \in Nat
      BY BreakerAssumption DEF SpoolInv, SpoolTyped
    <2>2. CASE SpoolWrite(m) /\ Deliver(m, had, FALSE) /\ Unsure(m, had)
      <3>1. CASE Len(spool) >= MaxSpool
        <4>1. UNCHANGED <<spool, spooled, aged, malformed>>
          BY <2>2, <3>1 DEF SpoolWrite, spoolVars
        <4> QED BY <1>3, <1>a, <2>2, <4>1
      <3>2. CASE ~(Len(spool) >= MaxSpool)
        <4>1. /\ spool' = Append(spool, [msg |-> m, readable |-> TRUE])
              /\ spooled' = spooled \cup {m} /\ UNCHANGED <<aged, malformed>>
          BY <2>2, <3>2 DEF SpoolWrite
        <4>2. Len(spool) + 1 <= MaxSpool
          BY <2>1, <3>2
        <4>3. \E r \in BOOLEAN : spool' = Append(spool, [msg |-> m, readable |-> r])
          BY <4>1
        <4>4. Attempted(m) /\ (m \in sent' => m \in torn')
          BY <1>1, <1>3, <2>2, NewAttempt
        <4> QED BY <1>1, <1>3, <4>1, <4>2, <4>3, <4>4, NewMessage
      <3> QED BY <3>1, <3>2
    <2>3. CASE /\ Deliver(m, had, TRUE) /\ Unsure(m, had)
               /\ UNCHANGED <<spool, spooled, aged, malformed>>
      BY <1>3, <1>a, <2>3
    <2>4. ASSUME NEW applied \in BOOLEAN, Deliver(m, had, applied), Unsure(m, had \/ applied),
                 UNCHANGED <<spool, spooled, aged, malformed>>
          PROVE  SpoolInv'
      <3>1. PICK unsure \in BOOLEAN : unsure = (had \/ applied)
        OBVIOUS
      <3>2. Unsure(m, unsure) /\ (had => unsure)
        BY <2>4, <3>1
      <3> QED BY <1>3, <1>a, <2>4, <3>2
    <2> QED BY <1>3, <2>2, <2>3, <2>4 DEF PublishDegraded, spoolVars
  <1>4. ASSUME NEW m \in Message, PublishFails(m) PROVE SpoolInv'
    <2>1. PICK applied \in BOOLEAN :
            \/ PublishDegraded(m, applied)
            \/ Deliver(m, applied, FALSE) /\ Unsure(m, applied) /\ UNCHANGED spoolVars
      BY <1>4 DEF PublishFails
    <2>2. Emit(m)
      BY <1>4 DEF PublishFails
    <2>3. CASE PublishDegraded(m, applied)
      BY <1>3, <2>2, <2>3
    <2>4. CASE Deliver(m, applied, FALSE) /\ Unsure(m, applied) /\ UNCHANGED spoolVars
      BY <1>a, <2>2, <2>4 DEF spoolVars
    <2> QED BY <2>1, <2>3, <2>4
  <1>5. ASSUME NEW m \in Message, PublishWhileDegraded(m) PROVE SpoolInv'
    BY <1>3, <1>5 DEF PublishWhileDegraded
  <1>6. ASSUME NEW m \in Message, CrashInSpoolWrite(m) PROVE SpoolInv'
    <2>1. /\ pc = "idle" /\ m \notin given /\ given' = given \cup {m} /\ pc' = "idle" /\ todo' = << >>
          /\ spool' = Append(spool, [msg |-> m, readable |-> FALSE]) /\ spooled' = spooled \cup {m}
          /\ UNCHANGED <<aged, malformed>> /\ Len(spool) < MaxSpool
      BY <1>6 DEF CrashInSpoolWrite, Reborn
    <2>2. Len(spool) + 1 <= MaxSpool
      BY BreakerAssumption, <2>1 DEF SpoolInv, SpoolTyped
    <2>3. \E r \in BOOLEAN : spool' = Append(spool, [msg |-> m, readable |-> r])
      BY <2>1
    <2>4. PICK applied \in BOOLEAN : Deliver(m, applied, FALSE) /\ Unsure(m, applied)
      BY <1>6 DEF CrashInSpoolWrite
    <2>5. m \notin sent
      BY <2>1 DEF SpoolInv, OnlyGiven
    <2>6. Attempted(m) /\ (m \in sent' => m \in torn')
      BY <2>4, <2>5, NewAttempt
    <2> QED BY <2>1, <2>2, <2>3, <2>6, NewMessage
  <1>7. CASE ReplayMalformed
    <2>1. /\ pc = "replay" /\ ~Head(todo).readable /\ malformed' = malformed \cup {Head(todo).msg}
          /\ DropEntry /\ UNCHANGED <<given, sent, doubled, spooled, aged, torn>>
      BY <1>7 DEF ReplayMalformed, busVars
    <2>2. Head(todo).msg \in Message
      BY <2>1, HeadIsNewest
    <2>3. malformed' \subseteq Message
      BY <2>1, <2>2 DEF SpoolInv, SpoolTyped
    <2> QED BY <2>1, <2>3, EntryDropped
  <1>8. CASE Unlink
    <2>1. /\ pc = "unlink" /\ DropEntry
          /\ UNCHANGED <<given, sent, doubled, spooled, aged, malformed, torn>>
      BY <1>8 DEF Unlink, busVars
    <2>2. Head(todo).msg \in sent
      BY <2>1, HeadIsNewest DEF SpoolInv, SentEntries
    <2>3. malformed' \subseteq Message
      BY <2>1 DEF SpoolInv, SpoolTyped
    <2> QED BY <2>1, <2>2, <2>3, EntryDropped
  <1>9. CASE ReplayFails
    BY <1>9, ReplayAbandoned DEF ReplayFails, Abandon, spoolVars
  <1>b. CASE UnlinkFails
    BY <1>b, ReplayAbandoned DEF UnlinkFails, Abandon, Unsure, busVars, spoolVars
  <1>10. CASE Crash
    BY <1>10, ReplayAbandoned DEF Crash, Unsure, Reborn, busVars, spoolVars
  <1>11. CASE BusRecovers \/ UNCHANGED breakerVars
    <2>1. UNCHANGED <<spool, spooled, aged, malformed, pc, todo, sent, doubled, given, torn>>
      BY <1>11 DEF BusRecovers, breakerVars, busVars, spoolVars, replayVars
    <2>2. SpoolTyped'
      BY <2>1 DEF SpoolInv, SpoolTyped
    <2> QED BY <2>1, <2>2 DEF SpoolInv, EntriesDiffer, OnlyGiven, ReplayInOrder, SentEntries,
                 SpooledSurvives, DoubleOnlyTorn, InSpool
  <1> QED BY <1>2, <1>4, <1>5, <1>6, <1>7, <1>8, <1>9, <1>b, <1>10, <1>11, RecoveryStarts, EntryReplayed
          DEF BreakerNext, Replay

LEMMA InitSpool == BreakerInit => AgentTyped /\ SpoolInv
  <1> SUFFICES ASSUME BreakerInit PROVE AgentTyped /\ SpoolInv
    OBVIOUS
  <1>1. failures \in Nat /\ crashes \in 0..MaxCrashes
    BY BreakerAssumption DEF BreakerInit
  <1>2. AgentTyped
    BY <1>1, Zenon DEF BreakerInit, AgentTyped
  <1>3. SpoolTyped
    BY BreakerAssumption DEF BreakerInit, SpoolTyped
  <1>4. Len(spool) = 0
    BY DEF BreakerInit
  <1> QED BY <1>2, <1>3, <1>4 DEF SpoolInv, EntriesDiffer, OnlyGiven, ReplayInOrder, SentEntries, BreakerInit,
                 SpooledSurvives, DoubleOnlyTorn, InSpool

\* The inductive invariant holds.
LEMMA BreakerIsSafe ==
  BreakerSpec => [](AgentTyped /\ SpoolInv)
  <1>1. BreakerInit => AgentTyped /\ SpoolInv
    BY InitSpool
  <1>2. AgentTyped /\ SpoolInv /\ [BreakerNext]_breakerVars => (AgentTyped /\ SpoolInv)'
    BY AgentStaysTyped, SpoolStep
  <1> QED BY <1>1, <1>2, PTL DEF BreakerSpec

\* The breaker's state is well typed and its spool within its cap, for any
\* messages, threshold and cap (BusCircuitBreaker.publish, tick).
THEOREM BreakerTypeCorrect ==
  BreakerSpec => []BreakerTypeOK
  <1>1. AgentTyped /\ SpoolInv => BreakerTypeOK
    BY BreakerTypes DEF SpoolInv
  <1> QED BY <1>1, BreakerIsSafe, PTL

\* A message that reached the spool is in it, on the bus, pruned by age or set
\* aside as malformed, whatever replays fail half way and whenever the process
\* dies (BusCircuitBreaker._spool_write, _drain_spool).
THEOREM SpoolLosesNothing ==
  BreakerSpec => []SpooledSurvives
  <1>1. SpoolInv => SpooledSurvives
    BY DEF SpoolInv
  <1> QED BY <1>1, BreakerIsSafe, PTL

\* A message is on the bus twice only when an attempt at it raised after the bus
\* had applied it, the unlink of its entry raised, or the process died between
\* publication and unlink (BusCircuitBreaker._publish_closed, _drain_spool).
THEOREM DoublesAreTorn ==
  BreakerSpec => []DoubleOnlyTorn
  <1>1. SpoolInv => DoubleOnlyTorn
    BY DEF SpoolInv
  <1> QED BY <1>1, BreakerIsSafe, PTL

=============================================================================
