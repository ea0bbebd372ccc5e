-------------------------- MODULE AgentRunnerProofs --------------------------
(* Theorems about AgentRunner for every value of its constants. *)
EXTENDS AgentRunner, TLAPS

-----------------------------------------------------------------------------
(* Types *)

(***************************************************************************)
(* A runner past the handler call works on a delivered entry, and retries  *)
(* it only while the next attempt is within the budget.                    *)
(***************************************************************************)
BusyHasEntry ==
    \A r \in Instance :
        /\ pc[r] \in {"publish", "retry", "dlq", "ack"} => cur[r] # 0
        /\ pc[r] = "retry" => stream[cur[r]].attempt + 1 < RetryBudget

TypeInv == TypeOK /\ BusyHasEntry

\* The initial state is well typed.
LEMMA TypeInit == Init => TypeInv
  BY RunnerAssumption DEF Init, TypeInv, TypeOK, BusyHasEntry, Entry, PC, Active

\* Every entry of a well-typed stream is an Entry.
LEMMA EntryType ==
    ASSUME TypeOK, NEW h \in Handles
    PROVE  /\ stream[h].id \in Message
           /\ stream[h].attempt \in Nat
           /\ stream[h].attempt < RetryBudget
  <1>1. stream[h] \in Entry
    BY DEF TypeOK, Handles
  <1> QED
    BY <1>1, RunnerAssumption DEF Entry

\* Claiming delivered entries keeps the pending map well typed.
LEMMA ClaimType ==
    ASSUME TypeOK, NEW n \in Nat, NEW H \in SUBSET (1..n), offset <= n, NEW r \in Instance
    PROVE  /\ DOMAIN Claim(H, r) \subseteq 1..n
           /\ Claim(H, r) \in [DOMAIN Claim(H, r) -> [consumer : Instance, idle : BOOLEAN]]
  BY DEF TypeOK, Claim

\* Removing entries keeps the pending map well typed.
LEMMA UnclaimType ==
    ASSUME TypeOK, NEW H
    PROVE  /\ DOMAIN Unclaim(H) \subseteq 1..offset
           /\ Unclaim(H) \in [DOMAIN Unclaim(H) -> [consumer : Instance, idle : BOOLEAN]]
  BY DEF TypeOK, Unclaim

\* Appending an entry leaves the earlier ones in place.
LEMMA AppendStream ==
    ASSUME TypeOK, NEW e \in Entry, stream' = Append(stream, e)
    PROVE  /\ stream' \in Seq(Entry)
           /\ Len(stream') = Len(stream) + 1
           /\ \A h \in Handles : stream'[h] = stream[h]
           /\ stream'[Len(stream) + 1] = e
  BY DEF TypeOK, Handles

\* Every step keeps the variables well typed.
LEMMA TypeNext == TypeInv /\ [Next]_vars => TypeInv'
  <1> USE RunnerAssumption DEF TypeInv, busVars, runnerVars, historyVars
  <1> SUFFICES ASSUME TypeInv, [Next]_vars PROVE TypeInv'
    OBVIOUS
  <1>1. ASSUME NEW m \in Message, Publish(m) PROVE TypeInv'
    <2>1. [id |-> m, attempt |-> 0] \in Entry
      BY DEF Entry
    <2>2. stream' \in Seq(Entry) /\ Len(stream') = Len(stream) + 1
          /\ \A h \in Handles : stream'[h] = stream[h]
      BY <1>1, <2>1, AppendStream DEF Publish
    <2> QED
      BY <1>1, <2>2 DEF Publish, TypeOK, BusyHasEntry, Handles
  <1>2. ASSUME NEW h \in DOMAIN pending, Age(h) PROVE TypeInv'
    BY <1>2 DEF Age, TypeOK, BusyHasEntry
  <1>3. ASSUME NEW r \in Instance PROVE Loop(r) => TypeInv'
    <2>1. ASSUME Start(r) PROVE TypeInv'
      BY <2>1 DEF Start, TypeOK, BusyHasEntry, PC, Active
    <2>2. ASSUME SkipReclaim(r) PROVE TypeInv'
      BY <2>2 DEF SkipReclaim, TypeOK, BusyHasEntry, PC, Active, Proceed
    <2>3. ASSUME Read(r) PROVE TypeInv'
      <3>1. ReadUpTo \in Nat /\ offset <= ReadUpTo /\ ReadUpTo <= Len(stream)
        BY DEF ReadUpTo, TypeOK
      <3>2. (offset + 1)..ReadUpTo \in SUBSET (1..ReadUpTo)
        BY <3>1 DEF TypeOK
      <3>3. /\ DOMAIN pending' \subseteq 1..ReadUpTo
            /\ pending' \in [DOMAIN pending' -> [consumer : Instance, idle : BOOLEAN]]
        BY <2>3, <3>1, <3>2, ClaimType DEF Read
      <3> QED
        BY <2>3, <3>1, <3>2, <3>3 DEF Read, TypeOK, BusyHasEntry, PC, Active, Proceed
    <2>4. ASSUME Exit(r) PROVE TypeInv'
      BY <2>4 DEF Exit, TypeOK, BusyHasEntry, PC, Active
    <2>5. ASSUME DrainRelease(r) PROVE TypeInv'
      BY <2>5, UnclaimType DEF DrainRelease, TypeOK, BusyHasEntry, PC, Active, PendingOf
    <2>6. ASSUME DrainKeep(r) PROVE TypeInv'
      BY <2>6 DEF DrainKeep, TypeOK, BusyHasEntry, PC, Active
    <2> QED
      BY <2>1, <2>2, <2>3, <2>4, <2>5, <2>6 DEF Loop
  <1>4. ASSUME NEW r \in Instance PROVE Process(r) => TypeInv'
    <2>1. ASSUME NEW h \in batch[r], RefuseSchema(r, h) PROVE TypeInv'
      BY <2>1 DEF RefuseSchema, Take, TypeOK, BusyHasEntry, PC, Active
    <2>2. ASSUME NEW h \in batch[r], HandleOk(r, h) PROVE TypeInv'
      BY <2>2 DEF HandleOk, Take, TypeOK, BusyHasEntry, PC, Active
    <2>3. ASSUME NEW h \in batch[r], HandleRaise(r, h) PROVE TypeInv'
      <3>1. h \in Handles
        BY <2>3 DEF TypeOK, Handles
      <3> QED
        <4>1. stream[h].id \in Message /\ stream[h].attempt \in Nat
          BY <3>1, EntryType
        <4>2. pc'[r] \in {"dlq", "retry"} /\ pc' \in [Instance -> PC]
          BY <2>3 DEF HandleRaise, AfterFailure, TypeOK, PC, Active
        <4>3. cur' = [cur EXCEPT ![r] = h] /\ batch' = [batch EXCEPT ![r] = @ \ {h}]
          BY <2>3 DEF HandleRaise, Take
        <4>4. fails' \in [Message -> Nat]
          BY <2>3, <4>1 DEF HandleRaise, TypeOK
        <4>5. TypeOK'
          <5>1. /\ cur' \in [Instance -> 0..offset]
                /\ batch' \in [Instance -> SUBSET (1..offset)]
            BY <2>3, <4>3 DEF TypeOK
          <5>2. UNCHANGED <<stream, offset, pending, dlq, outs, from, todo, stopping,
                            handled, released, slow>>
            BY <2>3 DEF HandleRaise
          <5> QED
            BY <4>2, <4>4, <5>1, <5>2 DEF TypeOK
        <4>6. ASSUME NEW q \in Instance
              PROVE  /\ pc'[q] \in {"publish", "retry", "dlq", "ack"} => cur'[q] # 0
                     /\ pc'[q] = "retry" => stream'[cur'[q]].attempt + 1 < RetryBudget
          <5>0. stream' = stream
            BY <2>3 DEF HandleRaise
          <5>1. CASE q = r
            <6>1. cur'[q] = h /\ h # 0
              BY <5>1, <2>3, <4>3 DEF TypeOK
            <6>2. pc'[q] = "retry" => stream[h].attempt + 1 < RetryBudget
              BY <5>1, <2>3, <4>1 DEF HandleRaise, AfterFailure, TypeOK
            <6> QED
              BY <5>0, <6>1, <6>2
          <5>2. CASE q # r
            BY <5>0, <5>2, <2>3, <4>3 DEF HandleRaise, TypeOK, BusyHasEntry
          <5> QED
            BY <5>1, <5>2
        <4> QED
          BY <4>5, <4>6 DEF BusyHasEntry
    <2>4. ASSUME PublishOutput(r) PROVE TypeInv'
      BY <2>4 DEF PublishOutput, AfterOutput, TypeOK, BusyHasEntry, PC, Active
    <2>5. ASSUME Republish(r) PROVE TypeInv'
      <3> DEFINE e == NextAttempt(stream[cur[r]])
      <3>1. cur[r] \in Handles
        BY <2>5 DEF Republish, TypeOK, BusyHasEntry, Handles
      <3>2. e \in Entry
        BY <2>5, <3>1, EntryType DEF Republish, BusyHasEntry, Entry, NextAttempt
      <3>3. stream' \in Seq(Entry) /\ Len(stream') = Len(stream) + 1
            /\ \A h \in Handles : stream'[h] = stream[h]
        BY <2>5, <3>2, AppendStream DEF Republish
      <3> QED
        BY <2>5, <3>3 DEF Republish, TypeOK, BusyHasEntry, Handles, PC, Active
    <2>6. ASSUME ToDlq(r) PROVE TypeInv'
      <3>1. cur[r] \in 1..offset
        BY <2>6 DEF ToDlq, TypeOK, BusyHasEntry
      <3>2. cur[r] \in Handles
        BY <3>1 DEF TypeOK, Handles
      <3>3. stream[cur[r]].attempt + 1 \in Nat
        BY <3>2, EntryType
      <3> QED
        BY <2>6, <3>1, <3>3 DEF ToDlq, TypeOK, BusyHasEntry, PC, Active, Reasons
    <2>7. ASSUME Ack(r) PROVE TypeInv'
      BY <2>7, UnclaimType DEF Ack, TypeOK, BusyHasEntry, PC, Active, Proceed
    <2> QED
      BY <2>1, <2>2, <2>3, <2>4, <2>5, <2>6, <2>7 DEF Process
  <1>5. ASSUME NEW r \in Instance, Reclaim(r) \/ ReclaimLost(r) PROVE TypeInv'
    <2>1. Reclaimable \in SUBSET (1..offset) /\ offset \in Nat
      BY DEF Reclaimable, First, TypeOK
    <2>2. /\ DOMAIN pending' \subseteq 1..offset
          /\ pending' \in [DOMAIN pending' -> [consumer : Instance, idle : BOOLEAN]]
      <3>1. pending' = Claim(Reclaimable, r)
        BY <1>5 DEF Reclaim, ReclaimLost
      <3>2. offset <= offset
        BY <2>1
      <3> HIDE DEF TypeInv
      <3>3. TypeOK
        BY DEF TypeInv
      <3> QED
        BY <2>1, <3>1, <3>2, <3>3, ClaimType
    <2> QED
      <3>1. CASE Reclaim(r)
        BY <3>1, <2>1, <2>2 DEF Reclaim, TypeOK, BusyHasEntry, PC, Active
      <3>2. CASE ReclaimLost(r)
        BY <3>2, <2>2 DEF ReclaimLost, TypeOK, BusyHasEntry, PC, Active, Proceed
      <3> QED
        BY <1>5, <3>1, <3>2
  <1>6. ASSUME NEW r \in Instance, Stop(r) PROVE TypeInv'
    BY <1>6 DEF Stop, TypeOK, BusyHasEntry
  <1>7. ASSUME NEW r \in Instance, BusError(r) \/ Crash(r) PROVE TypeInv'
    <2>1. CASE BusError(r)
      BY <2>1 DEF BusError, Forget, TypeOK, BusyHasEntry, PC, Active
    <2>2. CASE Crash(r)
      <3>1. TypeOK'
        BY <2>2 DEF Crash, Forget, TypeOK, PC
      <3>2. BusyHasEntry'
        BY <2>2 DEF Crash, Forget, TypeOK, BusyHasEntry
      <3> QED
        BY <3>1, <3>2
    <2> QED
      BY <1>7, <2>1, <2>2
  <1>8. CASE UNCHANGED vars
    BY <1>8 DEF vars, TypeOK, BusyHasEntry, Handles
  <1> QED
    BY <1>1, <1>2, <1>3, <1>4, <1>5, <1>6, <1>7, <1>8 DEF Next

\* Type correctness of the bus and the runners, for any number of messages,
\* instances, retries and faults.
THEOREM TypeCorrect == Spec => []TypeOK
  <1>1. TypeInv => TypeOK
    BY DEF TypeInv
  <1> QED
    BY TypeInit, TypeNext, <1>1, PTL DEF Spec

-----------------------------------------------------------------------------
(* Nothing is lost *)

\* The log, the outputs and the dead-letter queue only grow, and the read
\* pointer only advances: no step rewrites what a runner has already read.
LEMMA Growth ==
    ASSUME TypeInv, TypeInv', [Next]_vars
    PROVE  /\ Len(stream) <= Len(stream')
           /\ \A h \in Handles : h \in Handles' /\ stream'[h] = stream[h]
           /\ offset <= offset'
           /\ handled \subseteq handled'
           /\ outs \subseteq outs'
           /\ dlq \subseteq dlq'
           /\ released \subseteq released'
  <1> USE RunnerAssumption DEF busVars, runnerVars, historyVars, Handles
  <1>1. CASE \E m \in Message : Publish(m)
    <2>1. PICK m \in Message : Publish(m)
      BY <1>1
    <2>2. [id |-> m, attempt |-> 0] \in Entry
      BY DEF Entry
    <2> QED
      BY <2>1, <2>2, AppendStream DEF Publish, TypeInv, TypeOK
  <1>2. CASE \E h \in DOMAIN pending : Age(h)
    BY <1>2 DEF Age, TypeInv, TypeOK
  <1>3. ASSUME NEW r \in Instance, Loop(r)
        PROVE  /\ stream' = stream /\ offset <= offset' /\ released \subseteq released'
               /\ UNCHANGED <<handled, outs, dlq>>
    BY <1>3 DEF Loop, Start, SkipReclaim, Read, ReadUpTo, Exit, DrainRelease, DrainKeep,
                TypeInv, TypeOK
  <1>4. ASSUME NEW r \in Instance, Process(r), ~Republish(r)
        PROVE  /\ UNCHANGED <<stream, offset, released>>
               /\ handled \subseteq handled' /\ outs \subseteq outs' /\ dlq \subseteq dlq'
    BY <1>4 DEF Process, RefuseSchema, HandleOk, HandleRaise, PublishOutput, ToDlq, Ack
  <1>5. ASSUME NEW r \in Instance, Republish(r)
        PROVE  /\ Len(stream') = Len(stream) + 1
               /\ \A h \in 1..Len(stream) : stream'[h] = stream[h]
               /\ UNCHANGED <<offset, handled, outs, dlq, released>>
    <2>1. cur[r] \in Handles
      BY <1>5 DEF Republish, TypeInv, TypeOK, BusyHasEntry
    <2>2. NextAttempt(stream[cur[r]]) \in Entry
      BY <1>5, <2>1, EntryType DEF Republish, TypeInv, BusyHasEntry, Entry, NextAttempt
    <2> QED
      BY <1>5, <2>2, AppendStream DEF Republish, TypeInv
  <1>6. ASSUME NEW r \in Instance,
               Reclaim(r) \/ ReclaimLost(r) \/ Stop(r) \/ BusError(r) \/ Crash(r)
        PROVE  UNCHANGED <<stream, offset, handled, outs, dlq, released>>
    BY <1>6 DEF Reclaim, ReclaimLost, Stop, BusError, Crash
  <1>7. CASE UNCHANGED vars
    BY <1>7 DEF vars, TypeInv, TypeOK
  <1>8. Len(stream) \in Nat /\ offset \in Nat
    BY DEF TypeInv, TypeOK
  <1>9. CASE \E r \in Instance : \/ Loop(r) \/ Process(r) \/ Reclaim(r) \/ ReclaimLost(r)
                                 \/ Stop(r) \/ BusError(r) \/ Crash(r)
    <2>1. PICK r \in Instance : \/ Loop(r) \/ Process(r) \/ Reclaim(r) \/ ReclaimLost(r)
                                \/ Stop(r) \/ BusError(r) \/ Crash(r)
      BY <1>9
    <2>2. CASE Loop(r)
      BY <2>2, <1>3, <1>8
    <2>3. CASE Process(r) /\ ~Republish(r)
      BY <2>3, <1>4, <1>8
    <2>4. CASE Republish(r)
      BY <2>4, <1>5, <1>8
    <2>5. CASE Reclaim(r) \/ ReclaimLost(r) \/ Stop(r) \/ BusError(r) \/ Crash(r)
      BY <2>5, <1>6, <1>8
    <2> QED
      BY <2>1, <2>2, <2>3, <2>4, <2>5
  <1> QED
    BY <1>1, <1>2, <1>7, <1>9 DEF Next

\* An entry leaves the pending map only by the ack of the runner that worked
\* on it or by release_consumer; an entry passed by the pointer is in it.
LEMMA PendingStep ==
    ASSUME TypeInv, TypeInv', [Next]_vars
    PROVE  /\ \A h \in DOMAIN pending :
                \/ h \in DOMAIN pending'
                \/ h \in released'
                \/ \E r \in Instance : Ack(r) /\ cur[r] = h
           /\ \A h \in (offset + 1)..offset' : h \in DOMAIN pending'
  <1> USE RunnerAssumption DEF busVars, runnerVars, historyVars
  <1>0. offset \in Nat
    BY DEF TypeInv, TypeOK
  <1>1. CASE \E m \in Message : Publish(m)
    BY <1>0, <1>1 DEF Publish
  <1>2. CASE \E h \in DOMAIN pending : Age(h)
    BY <1>0, <1>2 DEF Age, TypeInv, TypeOK
  <1>3. ASSUME NEW r \in Instance, Read(r)
        PROVE  /\ DOMAIN pending \subseteq DOMAIN pending'
               /\ (offset + 1)..offset' \subseteq DOMAIN pending'
    BY <1>3 DEF Read, Claim
  <1>4. ASSUME NEW r \in Instance, Loop(r), ~Read(r)
        PROVE  offset' = offset /\ \A h \in DOMAIN pending : h \in DOMAIN pending' \/ h \in released'
    BY <1>4 DEF Loop, Start, SkipReclaim, Exit, DrainRelease, DrainKeep, Unclaim, PendingOf
  <1>5. ASSUME NEW r \in Instance, Process(r), ~Ack(r)
        PROVE  UNCHANGED <<offset, pending>>
    BY <1>5 DEF Process, RefuseSchema, HandleOk, HandleRaise, PublishOutput, ToDlq, Republish
  <1>6. ASSUME NEW r \in Instance, Ack(r)
        PROVE  offset' = offset /\ \A h \in DOMAIN pending : h \in DOMAIN pending' \/ h = cur[r]
    BY <1>6 DEF Ack, Unclaim
  <1>7. ASSUME NEW r \in Instance, Reclaim(r) \/ ReclaimLost(r)
        PROVE  offset' = offset /\ DOMAIN pending \subseteq DOMAIN pending'
    BY <1>7 DEF Reclaim, ReclaimLost, Claim
  <1>8. ASSUME NEW r \in Instance, Stop(r) \/ BusError(r) \/ Crash(r)
        PROVE  UNCHANGED <<offset, pending>>
    BY <1>8 DEF Stop, BusError, Crash
  <1>9. CASE UNCHANGED vars
    BY <1>0, <1>9 DEF vars
  <1>10. CASE \E r \in Instance : \/ Loop(r) \/ Process(r) \/ Reclaim(r) \/ ReclaimLost(r)
                                  \/ Stop(r) \/ BusError(r) \/ Crash(r)
    <2>1. PICK r \in Instance : \/ Loop(r) \/ Process(r) \/ Reclaim(r) \/ ReclaimLost(r)
                                \/ Stop(r) \/ BusError(r) \/ Crash(r)
      BY <1>10
    <2>2. CASE Read(r)
      BY <2>2, <1>3
    <2>3. CASE Loop(r) /\ ~Read(r)
      BY <2>3, <1>4, <1>0
    <2>4. CASE Process(r) /\ ~Ack(r)
      BY <2>4, <1>5, <1>0
    <2>5. CASE Ack(r)
      BY <2>5, <1>6, <1>0
    <2>6. CASE Reclaim(r) \/ ReclaimLost(r)
      BY <2>6, <1>7, <1>0
    <2>7. CASE Stop(r) \/ BusError(r) \/ Crash(r)
      BY <2>7, <1>8, <1>0
    <2> QED
      BY <2>1, <2>2, <2>3, <2>4, <2>5, <2>6, <2>7
  <1> QED
    BY <1>1, <1>2, <1>9, <1>10 DEF Next

(***************************************************************************)
(* While a runner publishes, the outputs still missing are exactly those   *)
(* it still has to publish.                                                *)
(***************************************************************************)
PublishProgress ==
    \A r \in Instance : pc[r] = "publish" =>
        /\ cur[r] \in handled
        /\ \A o \in Outputs : o \in todo[r] \/ <<cur[r], o>> \in outs

\* A runner reaches the ack of an entry by finishing its outputs, by the
\* dead-letter record or by the retry entry; every step keeps PublishProgress.
LEMMA WorkStep ==
    ASSUME TypeInv, TypeInv', PublishProgress, [Next]_vars
    PROVE  /\ PublishProgress'
           /\ \A r \in Instance : pc'[r] = "ack" =>
                \/ pc[r] = "ack" /\ cur'[r] = cur[r]
                \/ Done(cur[r])' \/ Dead(cur[r])'
                \/ Republish(r)
  <1> USE DEF busVars, runnerVars, historyVars
  <1> DEFINE Goal(q) ==
        /\ pc'[q] = "publish" =>
             /\ cur'[q] \in handled'
             /\ \A o \in Outputs : o \in todo'[q] \/ <<cur'[q], o>> \in outs'
        /\ pc'[q] = "ack" =>
             \/ pc[q] = "ack" /\ cur'[q] = cur[q]
             \/ Done(cur[q])' \/ Dead(cur[q])'
             \/ Republish(q)
  <1>1. ASSUME NEW q \in Instance,
               pc'[q] = pc[q], cur'[q] = cur[q], todo'[q] = todo[q]
        PROVE  Goal(q)
    BY <1>1, Growth DEF PublishProgress
  <1>2. ASSUME NEW q \in Instance, pc'[q] \notin {"publish", "ack"}
        PROVE  Goal(q)
    BY <1>2
  <1>3. CASE (\E m \in Message : Publish(m)) \/ (\E h \in DOMAIN pending : Age(h))
    <2>1. \A q \in Instance : Goal(q)
      BY <1>3, <1>1 DEF Publish, Age
    <2> QED
      BY <2>1 DEF PublishProgress
  <1>4. ASSUME NEW r \in Instance,
               Loop(r) \/ Reclaim(r) \/ ReclaimLost(r) \/ Stop(r) \/ BusError(r) \/ Crash(r),
               NEW q \in Instance
        PROVE  Goal(q)
    <2>1. CASE q # r \/ Stop(r)
      <3>1. pc'[q] = pc[q] /\ cur'[q] = cur[q] /\ todo'[q] = todo[q]
        <4>1. CASE Loop(r)
          BY <4>1, <1>4, <2>1 DEF Loop, Start, SkipReclaim, Read, Exit, DrainRelease, DrainKeep,
                                  Stop, TypeInv, TypeOK
        <4>2. CASE Reclaim(r) \/ ReclaimLost(r) \/ Stop(r)
          BY <4>2, <2>1 DEF Reclaim, ReclaimLost, Stop, TypeInv, TypeOK
        <4>3. CASE BusError(r) \/ Crash(r)
          BY <4>3, <2>1 DEF BusError, Crash, Forget, Stop, TypeInv, TypeOK
        <4> QED
          BY <1>4, <4>1, <4>2, <4>3
      <3> QED
        BY <3>1, <1>1
    <2>2. CASE q = r /\ ~Stop(r)
      <3>1. pc'[q] \notin {"publish", "ack"}
        BY <1>4, <2>2 DEF Loop, Start, SkipReclaim, Read, Exit, DrainRelease, DrainKeep,
                   Reclaim, ReclaimLost, BusError, Crash, Proceed, TypeInv, TypeOK
      <3> QED
        BY <3>1, <1>2
    <2> QED
      BY <2>1, <2>2
  <1>5. ASSUME NEW r \in Instance, Process(r), NEW q \in Instance
        PROVE  Goal(q)
    <2>1. CASE q # r
      <3>1. pc'[q] = pc[q] /\ cur'[q] = cur[q] /\ todo'[q] = todo[q]
        <4>1. CASE \E h \in batch[r] : RefuseSchema(r, h) \/ HandleOk(r, h) \/ HandleRaise(r, h)
          BY <4>1, <2>1 DEF RefuseSchema, HandleOk, HandleRaise, Take, TypeInv, TypeOK
        <4>2. CASE PublishOutput(r) \/ Republish(r)
          BY <4>2, <2>1 DEF PublishOutput, Republish, TypeInv, TypeOK
        <4>3. CASE ToDlq(r) \/ Ack(r)
          BY <4>3, <2>1 DEF ToDlq, Ack, TypeInv, TypeOK
        <4> QED
          BY <1>5, <4>1, <4>2, <4>3 DEF Process
      <3> QED
        BY <3>1, <1>1
    <2>2. CASE q = r
      <3>1. ASSUME NEW h \in batch[r], RefuseSchema(r, h) \/ HandleRaise(r, h)
            PROVE  pc'[r] \notin {"publish", "ack"}
        BY <3>1 DEF RefuseSchema, HandleRaise, AfterFailure, TypeInv, TypeOK
      <3>2. ASSUME NEW h \in batch[r], HandleOk(r, h) PROVE Goal(r)
        <4>1. cur'[r] = h /\ h \in handled' /\ todo'[r] = Outputs
          BY <3>2 DEF HandleOk, Take, TypeInv, TypeOK
        <4>2. pc'[r] = "ack" => Outputs = {}
          BY <3>2 DEF HandleOk, TypeInv, TypeOK
        <4> QED
          BY <4>1, <4>2 DEF Done
      <3>3. ASSUME PublishOutput(r) PROVE Goal(r)
        <4>1. PICK o \in todo[r] :
                /\ outs' = outs \union {<<cur[r], o>>}
                /\ todo' = [todo EXCEPT ![r] = @ \ {o}]
                /\ pc' = [pc EXCEPT ![r] = AfterOutput(r, o)]
          BY <3>3 DEF PublishOutput
        <4>2. cur' = cur /\ handled' = handled /\ pc[r] = "publish"
          BY <3>3 DEF PublishOutput
        <4>3. cur[r] \in handled /\ \A x \in Outputs : x \in todo[r] \/ <<cur[r], x>> \in outs
          BY <4>2 DEF PublishProgress
        <4>4. \A x \in Outputs : x \in todo'[r] \/ <<cur'[r], x>> \in outs'
          BY <4>1, <4>2, <4>3 DEF TypeInv, TypeOK
        <4>5. pc'[r] = "ack" => todo'[r] = {}
          BY <4>1 DEF AfterOutput, TypeInv, TypeOK
        <4> QED
          BY <4>2, <4>3, <4>4, <4>5 DEF Done
      <3>4. ASSUME ToDlq(r) PROVE Goal(r)
        <4>1. pc'[r] = "ack" /\ cur'[r] = cur[r] /\ \E d \in dlq' : d.handle = cur[r]
          <5>1. pc'[r] = "ack" /\ cur'[r] = cur[r]
            BY <3>4 DEF ToDlq, TypeInv, TypeOK
          <5> DEFINE e == stream[cur[r]]
                     d == [handle |-> cur[r], attempts |-> e.attempt + 1,
                           reason |-> IF e.id \in Unsupported THEN "schema_version_unsupported"
                                      ELSE "retry_budget_exhausted"]
          <5>2. d \in dlq'
            BY <3>4, Zenon DEF ToDlq
          <5>3. d.handle = cur[r]
            OBVIOUS
          <5> HIDE DEF d
          <5> QED
            BY <5>1, <5>2, <5>3
        <4> QED
          BY <4>1 DEF Dead
      <3>5. ASSUME Republish(r) PROVE Goal(r)
        BY <3>5 DEF Republish, TypeInv, TypeOK
      <3>6. ASSUME Ack(r) PROVE pc'[r] \notin {"publish", "ack"}
        BY <3>6 DEF Ack, Proceed, TypeInv, TypeOK
      <3> QED
        BY <1>5, <2>2, <1>2, <3>1, <3>2, <3>3, <3>4, <3>5, <3>6 DEF Process
    <2> QED
      BY <2>1, <2>2
  <1>6. CASE UNCHANGED vars
    <2>1. \A q \in Instance : Goal(q)
      BY <1>6, <1>1 DEF vars
    <2> QED
      BY <2>1 DEF PublishProgress
  <1>7. CASE \E r \in Instance : \/ Loop(r) \/ Process(r) \/ Reclaim(r) \/ ReclaimLost(r)
                                 \/ Stop(r) \/ BusError(r) \/ Crash(r)
    <2>1. \A q \in Instance : Goal(q)
      BY <1>7, <1>4, <1>5
    <2> QED
      BY <2>1 DEF PublishProgress
  <1> QED
    BY <1>3, <1>6, <1>7 DEF Next

(***************************************************************************)
(* Accounted for: not lost, or lost to release_consumer.  A runner about   *)
(* to ack an entry has settled it or knows a later entry of the same       *)
(* message that is accounted for; handles grow, so this holds however many *)
(* runners ack the successors of each other's entries.                     *)
(***************************************************************************)
Accounted(h) == Alive(h) \/ Done(h) \/ Dead(h) \/ h \in released

Later(h) == \E k \in Handles : k > h /\ stream[k].id = stream[h].id /\ Accounted(k)

AckCovered ==
    \A r \in Instance : pc[r] = "ack" => Done(cur[r]) \/ Dead(cur[r]) \/ Later(cur[r])

LossInv == TypeInv /\ PublishProgress /\ AckCovered /\ OnlyReleaseLoses

\* An accounted entry stays so, or a later entry of its message is.
LEMMA AccountedStep ==
    ASSUME TypeInv, TypeInv', AckCovered, [Next]_vars,
           NEW h \in Handles, Accounted(h)
    PROVE  Accounted(h)' \/ Later(h)'
  <1>0. h \in Nat /\ offset \in Nat /\ offset' \in Nat
    BY DEF TypeInv, TypeOK, Handles
  <1>1. CASE Done(h) \/ Dead(h) \/ h \in released
    BY <1>1, Growth DEF Accounted, Done, Dead
  <1>2. CASE h > offset
    <2>1. CASE h > offset'
      BY <2>1 DEF Accounted, Alive
    <2>2. CASE h <= offset'
      BY <1>0, <1>2, <2>2, PendingStep DEF Accounted, Alive
    <2> QED
      BY <1>0, <2>1, <2>2
  <1>3. CASE h \in DOMAIN pending
    <2>1. CASE h \in DOMAIN pending' \/ h \in released'
      BY <2>1 DEF Accounted, Alive
    <2>2. CASE \E r \in Instance : Ack(r) /\ cur[r] = h
      <3>1. PICK r \in Instance : Ack(r) /\ cur[r] = h
        BY <2>2
      <3>2. Done(h) \/ Dead(h) \/ Later(h)
        BY <3>1 DEF Ack, AckCovered
      <3>3. ASSUME NEW k \in Handles, k > h, stream[k].id = stream[h].id, Accounted(k)
            PROVE  Later(h)'
        <4>1. offset' = offset /\ DOMAIN pending' = DOMAIN pending \ {h}
          BY <3>1 DEF Ack, Unclaim
        <4>2. k # h
          BY <1>0, <3>3
        <4>3. Accounted(k)'
          BY <3>3, <4>1, <4>2, Growth DEF Accounted, Alive, Done, Dead
        <4>4. k \in Handles' /\ stream'[k].id = stream'[h].id
          BY <3>3, Growth
        <4> QED
          BY <3>3, <4>3, <4>4 DEF Later
      <3>4. CASE Done(h) \/ Dead(h)
        BY <3>4, Growth DEF Accounted, Done, Dead
      <3> QED
        BY <3>2, <3>3, <3>4 DEF Later
    <2> QED
      BY <1>3, <2>1, <2>2, PendingStep
  <1> QED
    BY <1>1, <1>2, <1>3 DEF Accounted, Alive

\* A later accounted entry of a message is followed by another if it is acked.
LEMMA LaterStep ==
    ASSUME TypeInv, TypeInv', AckCovered, [Next]_vars,
           NEW h \in Handles, Later(h)
    PROVE  Later(h)'
  <1>1. PICK k \in Handles : k > h /\ stream[k].id = stream[h].id /\ Accounted(k)
    BY DEF Later
  <1>2. k \in Handles' /\ stream'[k].id = stream'[h].id
    BY <1>1, Growth
  <1>3. CASE Accounted(k)'
    BY <1>1, <1>2, <1>3 DEF Later
  <1>4. CASE Later(k)'
    <2>1. PICK j \in Handles' : j > k /\ stream'[j].id = stream'[k].id /\ Accounted(j)'
      BY <1>4 DEF Later
    <2>2. j > h
      BY <1>1, <2>1 DEF Handles, TypeInv, TypeOK
    <2> QED
      BY <1>2, <2>1, <2>2 DEF Later
  <1> QED
    BY <1>1, <1>3, <1>4, AccountedStep

\* The entry that a retry appends.
LEMMA RetryEntry ==
    ASSUME TypeInv, NEW r \in Instance, Republish(r)
    PROVE  /\ cur[r] \in Handles
           /\ Len(stream') = Len(stream) + 1
           /\ stream'[Len(stream) + 1].id = stream[cur[r]].id
           /\ stream'[Len(stream) + 1].attempt = stream[cur[r]].attempt + 1
           /\ \A h \in Handles : stream'[h] = stream[h]
           /\ cur'[r] = cur[r] /\ offset' = offset
  <1> DEFINE e == NextAttempt(stream[cur[r]])
  <1>1. cur[r] \in Handles
    BY DEF Republish, TypeInv, TypeOK, BusyHasEntry, Handles
  <1>2. e \in Entry
    BY <1>1, RunnerAssumption, EntryType DEF Republish, TypeInv, BusyHasEntry, Entry, NextAttempt
  <1>3. /\ Len(stream') = Len(stream) + 1
        /\ \A h \in Handles : stream'[h] = stream[h]
        /\ stream'[Len(stream) + 1] = e
    BY <1>2, AppendStream DEF Republish, TypeInv
  <1>4. e.id = stream[cur[r]].id /\ e.attempt = stream[cur[r]].attempt + 1
    BY DEF NextAttempt
  <1>5. cur'[r] = cur[r] /\ offset' = offset
    BY DEF Republish
  <1> HIDE DEF e
  <1> QED
    BY <1>1, <1>3, <1>4, <1>5

\* A new entry is beyond the group's pointer.
LEMMA NewIsUndelivered ==
    ASSUME TypeInv, TypeInv', [Next]_vars, NEW g \in Handles', g \notin Handles
    PROVE  g > offset'
  <1>1. offset' = offset \/ offset' = ReadUpTo
    <2>1. ASSUME NEW r \in Instance, Loop(r) PROVE offset' = offset \/ offset' = ReadUpTo
      BY <2>1 DEF Loop, Start, SkipReclaim, Read, Exit, DrainRelease, DrainKeep, busVars
    <2>2. ASSUME NEW r \in Instance, Process(r) PROVE offset' = offset
      BY <2>2 DEF Process, RefuseSchema, HandleOk, HandleRaise, PublishOutput, Republish,
                  ToDlq, Ack, busVars
    <2>3. ASSUME NEW r \in Instance,
                 Reclaim(r) \/ ReclaimLost(r) \/ Stop(r) \/ BusError(r) \/ Crash(r)
          PROVE  offset' = offset
      BY <2>3 DEF Reclaim, ReclaimLost, Stop, BusError, Crash, busVars
    <2> QED
      BY <2>1, <2>2, <2>3 DEF Next, Publish, Age, vars, busVars
  <1>2. offset' <= Len(stream) /\ offset' \in Nat /\ Len(stream) \in Nat
    BY <1>1, RunnerAssumption DEF ReadUpTo, TypeInv, TypeOK
  <1> QED
    BY <1>2 DEF Handles, TypeInv, TypeOK

\* LossInv is inductive.
LEMMA LossNext == LossInv /\ [Next]_vars => LossInv'
  <1> SUFFICES ASSUME LossInv, [Next]_vars PROVE LossInv'
    OBVIOUS
  <1>1. TypeInv /\ TypeInv' /\ PublishProgress /\ AckCovered
    BY TypeNext DEF LossInv
  <1>2. PublishProgress'
    BY <1>1, WorkStep
  <1>3. ASSUME NEW r \in Instance, pc'[r] = "ack"
        PROVE  Done(cur[r])' \/ Dead(cur[r])' \/ Later(cur[r])'
    <2>1. CASE pc[r] = "ack" /\ cur'[r] = cur[r]
      <3>1. PICK c \in Handles : c = cur[r]
        BY <1>1, <2>1 DEF TypeInv, TypeOK, BusyHasEntry, Handles
      <3>2. CASE Done(c) \/ Dead(c)
        <4>1. Done(c)' \/ Dead(c)'
          BY <1>1, <3>2, Growth DEF Done, Dead
        <4> QED
          BY <2>1, <3>1, <4>1
      <3>3. CASE Later(c)
        <4>1. Later(c)'
          BY <1>1, <3>3, LaterStep
        <4> QED
          BY <2>1, <3>1, <4>1
      <3> QED
        BY <1>1, <2>1, <3>1, <3>2, <3>3 DEF AckCovered
    <2>2. CASE Republish(r)
      <3>1. PICK c \in Handles, k \in Nat : c = cur[r] /\ k = Len(stream) + 1
        BY <1>1, <2>2, RetryEntry DEF TypeInv, TypeOK
      <3>2. /\ Len(stream') = k /\ cur'[r] = c
            /\ stream'[k].id = stream'[c].id /\ offset' = offset
        BY <1>1, <2>2, <3>1, RetryEntry
      <3>3. k \in Handles' /\ k > c /\ k > offset'
        BY <1>1, <3>1, <3>2 DEF Handles, TypeInv, TypeOK
      <3>4. Later(c)'
        BY <3>2, <3>3 DEF Later, Accounted, Alive
      <3> QED
        BY <3>2, <3>4
    <2> QED
      BY <1>1, <1>3, <2>1, <2>2, WorkStep
  <1>4. AckCovered'
    BY <1>3 DEF AckCovered
  <1>5. OnlyReleaseLoses'
    <2> SUFFICES ASSUME NEW g \in Handles'
                 PROVE  \E h \in Handles' : stream'[h].id = stream'[g].id /\ Accounted(h)'
      BY DEF OnlyReleaseLoses, Accounted
    <2>1. CASE g \in Handles
      <3>1. PICK h \in Handles : stream[h].id = stream[g].id /\ Accounted(h)
        BY <2>1 DEF LossInv, OnlyReleaseLoses, Accounted
      <3>2. h \in Handles' /\ stream'[h].id = stream'[g].id
        BY <1>1, <2>1, <3>1, Growth
      <3>3. Accounted(h)' \/ Later(h)'
        BY <1>1, <3>1, AccountedStep
      <3> QED
        BY <3>2, <3>3 DEF Later
    <2>2. CASE g \notin Handles
      <3>1. g > offset'
        BY <1>1, <2>2, NewIsUndelivered
      <3> QED
        BY <3>1 DEF Accounted, Alive
    <2> QED
      BY <2>1, <2>2
  <1> QED
    BY <1>1, <1>2, <1>4, <1>5 DEF LossInv

\* At-least-once delivery up to release_consumer, for any number of messages,
\* runners, crashes, lost replies, slow handlers and retries: the only way a
\* published message can disappear unsettled is the release of a consumer
\* that held an entry of it.
THEOREM OnlyReleaseCanLose == Spec => []OnlyReleaseLoses
  <1>1. Init => LossInv
    <2> SUFFICES ASSUME Init PROVE LossInv
      OBVIOUS
    <2>1. TypeInv
      BY TypeInit
    <2>2. PublishProgress /\ AckCovered
      BY DEF Init, PublishProgress, AckCovered
    <2>3. OnlyReleaseLoses
      BY DEF Init, OnlyReleaseLoses, Handles
    <2> QED
      BY <2>1, <2>2, <2>3 DEF LossInv
  <1>2. LossInv => OnlyReleaseLoses
    BY DEF LossInv
  <1> QED
    BY <1>1, <1>2, LossNext, PTL DEF Spec

\* Where release_consumer keeps the pending entries (the in-memory bus) the
\* history variable stays empty, so nothing is lost at all.
THEOREM InMemoryLosesNothing ==
    ASSUME ~ReleaseDropsPending PROVE Spec => []NoLoss
  <1>1. Init => released = {}
    BY DEF Init
  <1>2. released = {} /\ [Next]_vars => (released = {})'
    BY DEF Next, vars, busVars, runnerVars, historyVars, Publish, Age, Loop, Start, SkipReclaim,
                Read, Exit, DrainRelease, DrainKeep, Process, RefuseSchema, HandleOk, HandleRaise,
                PublishOutput, Republish, ToDlq, Ack, Reclaim, ReclaimLost, Stop, BusError, Crash
  <1>3. OnlyReleaseLoses /\ released = {} => NoLoss
    BY DEF OnlyReleaseLoses, NoLoss
  <1>4. Spec => []OnlyReleaseLoses
    BY OnlyReleaseCanLose
  <1>5. Spec => [](released = {})
    BY <1>1, <1>2, PTL DEF Spec
  <1> QED
    BY <1>3, <1>4, <1>5, PTL

-----------------------------------------------------------------------------
(* What an acknowledgement means *)

\* A later entry of the same message carries the next attempt number.
Succeeded(h) ==
    \E k \in Handles : /\ k > h
                       /\ stream[k].id = stream[h].id
                       /\ stream[k].attempt = stream[h].attempt + 1

AckSettles == \A r \in Instance : pc[r] = "ack" => Done(cur[r]) \/ Dead(cur[r]) \/ Succeeded(cur[r])

AckInv == TypeInv /\ PublishProgress /\ AckSettles /\ AckedIsSettled

\* What has settled an entry once has settled it for good.
LEMMA SettledStays ==
    ASSUME TypeInv, TypeInv', [Next]_vars, NEW h \in Handles, Done(h) \/ Dead(h) \/ Succeeded(h)
    PROVE  Done(h)' \/ Dead(h)' \/ Succeeded(h)'
  <1>1. CASE Done(h) \/ Dead(h)
    BY <1>1, Growth DEF Done, Dead
  <1>2. CASE Succeeded(h)
    <2>1. PICK k \in Handles : /\ k > h
                               /\ stream[k].id = stream[h].id
                               /\ stream[k].attempt = stream[h].attempt + 1
      BY <1>2 DEF Succeeded
    <2>2. k \in Handles' /\ stream'[k] = stream[k] /\ stream'[h] = stream[h]
      BY Growth
    <2> QED
      BY <2>1, <2>2 DEF Succeeded
  <1> QED
    BY <1>1, <1>2

\* AckInv is inductive.
LEMMA AckNext == AckInv /\ [Next]_vars => AckInv'
  <1> SUFFICES ASSUME AckInv, [Next]_vars PROVE AckInv'
    OBVIOUS
  <1>1. TypeInv /\ TypeInv' /\ PublishProgress /\ AckSettles
    BY TypeNext DEF AckInv
  <1>2. PublishProgress'
    BY <1>1, WorkStep
  <1>3. ASSUME NEW r \in Instance, pc'[r] = "ack"
        PROVE  Done(cur[r])' \/ Dead(cur[r])' \/ Succeeded(cur[r])'
    <2>1. CASE pc[r] = "ack" /\ cur'[r] = cur[r]
      <3>1. PICK c \in Handles : c = cur[r]
        BY <1>1, <2>1 DEF TypeInv, TypeOK, BusyHasEntry, Handles
      <3>2. Done(c) \/ Dead(c) \/ Succeeded(c)
        BY <1>1, <2>1, <3>1 DEF AckSettles
      <3>3. Done(c)' \/ Dead(c)' \/ Succeeded(c)'
        BY <1>1, <3>2, SettledStays
      <3> QED
        BY <2>1, <3>1, <3>3
    <2>2. CASE Republish(r)
      <3>1. PICK c \in Handles, k \in Nat : c = cur[r] /\ k = Len(stream) + 1
        BY <1>1, <2>2, RetryEntry DEF TypeInv, TypeOK
      <3>2. /\ Len(stream') = k /\ cur'[r] = c
            /\ stream'[k].id = stream'[c].id /\ stream'[k].attempt = stream'[c].attempt + 1
        BY <1>1, <2>2, <3>1, RetryEntry
      <3>3. k \in Handles' /\ k > c
        BY <1>1, <3>1, <3>2 DEF Handles, TypeInv, TypeOK
      <3>4. Succeeded(c)'
        BY <3>2, <3>3 DEF Succeeded
      <3> QED
        BY <3>2, <3>4
    <2> QED
      BY <1>1, <1>3, <2>1, <2>2, WorkStep
  <1>4. AckSettles'
    BY <1>3 DEF AckSettles
  <1>5. AckedIsSettled'
    <2> SUFFICES ASSUME NEW h \in 1..offset', h \notin DOMAIN pending', h \notin released'
                 PROVE  Done(h)' \/ Dead(h)' \/ Succeeded(h)'
      BY DEF AckedIsSettled, Succeeded
    <2>1. h \in 1..offset /\ h \notin released
      <3>1. offset \in Nat /\ offset' \in Nat
        BY <1>1 DEF TypeInv, TypeOK
      <3>2. h \notin (offset + 1)..offset'
        BY <1>1, PendingStep
      <3> QED
        BY <1>1, <3>1, <3>2, Growth
    <2>2. h \in Handles
      BY <1>1, <2>1 DEF TypeInv, TypeOK, Handles
    <2>3. CASE h \in DOMAIN pending
      <3>1. PICK r \in Instance : Ack(r) /\ cur[r] = h
        BY <1>1, <2>3, PendingStep
      <3>2. Done(h) \/ Dead(h) \/ Succeeded(h)
        BY <1>1, <3>1 DEF Ack, AckSettles
      <3> QED
        BY <1>1, <2>2, <3>2, SettledStays
    <2>4. CASE h \notin DOMAIN pending
      <3>1. Done(h) \/ Dead(h) \/ Succeeded(h)
        BY <2>1, <2>4 DEF AckInv, AckedIsSettled, Succeeded
      <3> QED
        BY <1>1, <2>2, <3>1, SettledStays
    <2> QED
      BY <2>3, <2>4
  <1> QED
    BY <1>1, <1>2, <1>4, <1>5 DEF AckInv

\* No entry is acknowledged before its work is done: whatever the runners do to
\* each other's entries, one that has left the pending set was handled with all
\* its outputs out, dead-lettered, succeeded by the next attempt, or released.
THEOREM AckMeansSettled == Spec => []AckedIsSettled
  <1>1. Init => AckInv
    BY TypeInit DEF Init, AckInv, PublishProgress, AckSettles, AckedIsSettled
  <1>2. AckInv => AckedIsSettled
    BY DEF AckInv
  <1> QED
    BY <1>1, <1>2, AckNext, PTL DEF Spec

-----------------------------------------------------------------------------
(* The retry budget *)

\* The runner is about to dead-letter its entry because the budget is used up.
Exhausted(r) == pc[r] = "dlq" /\ stream[cur[r]].id \notin Unsupported

(***************************************************************************)
(* The attempt number of an entry never exceeds the failures of its        *)
(* message, and a runner that is about to retry or to dead-letter it for   *)
(* an exhausted budget has seen one failure more.                          *)
(***************************************************************************)
FailuresCounted ==
    /\ \A h \in Handles : stream[h].attempt <= fails[stream[h].id]
    /\ \A r \in Instance : pc[r] = "retry" \/ Exhausted(r) =>
         stream[cur[r]].attempt + 1 <= fails[stream[cur[r]].id]
    /\ \A r \in Instance : Exhausted(r) => stream[cur[r]].attempt + 1 = RetryBudget

BudgetInv == TypeInv /\ FailuresCounted /\ NoPrematureDeadLetter

\* The failures of a message are only ever counted up.
LEMMA FailsGrow ==
    ASSUME TypeInv, [Next]_vars, NEW m \in Message
    PROVE  fails[m] \in Nat /\ fails'[m] \in Nat /\ fails[m] <= fails'[m]
  <1> USE DEF busVars, runnerVars, historyVars
  <1>0. fails \in [Message -> Nat]
    BY DEF TypeInv, TypeOK
  <1>1. CASE \E r \in Instance : \E h \in batch[r] : HandleRaise(r, h)
    <2>1. PICK r \in Instance : \E h \in batch[r] : HandleRaise(r, h)
      BY <1>1
    <2>2. PICK h \in batch[r] : HandleRaise(r, h)
      BY <2>1
    <2>3. fails' = [fails EXCEPT ![stream[h].id] = @ + 1]
      BY <2>2 DEF HandleRaise
    <2> QED
      BY <1>0, <2>3
  <1>2. CASE ~\E r \in Instance : \E h \in batch[r] : HandleRaise(r, h)
    <2>1. fails' = fails
      BY <1>2 DEF Next, vars, Publish, Age, Loop, Start, SkipReclaim, Read, Exit, DrainRelease,
                  DrainKeep, Process, RefuseSchema, HandleOk, PublishOutput, Republish, ToDlq,
                  Ack, Reclaim, ReclaimLost, Stop, BusError, Crash
    <2> QED
      BY <1>0, <2>1
  <1> QED
    BY <1>1, <1>2

\* A runner comes to a retry or a dead letter only through its handler call.
LEMMA FailureStep ==
    ASSUME TypeInv, [Next]_vars, NEW q \in Instance, pc'[q] \in {"retry", "dlq"}
    PROVE  \/ pc'[q] = pc[q] /\ cur'[q] = cur[q]
           \/ \E h \in batch[q] : RefuseSchema(q, h) \/ HandleRaise(q, h)
  <1> USE DEF busVars, runnerVars, historyVars
  <1>1. CASE (\E m \in Message : Publish(m)) \/ (\E h \in DOMAIN pending : Age(h)) \/ UNCHANGED vars
    BY <1>1 DEF Publish, Age, vars
  <1>2. ASSUME NEW r \in Instance,
               Loop(r) \/ Reclaim(r) \/ ReclaimLost(r) \/ Stop(r) \/ BusError(r) \/ Crash(r)
        PROVE  pc'[q] = pc[q] /\ cur'[q] = cur[q]
    <2>1. CASE Loop(r)
      BY <2>1 DEF Loop, Start, SkipReclaim, Read, Exit, DrainRelease, DrainKeep, Proceed,
                  TypeInv, TypeOK
    <2>2. CASE Reclaim(r) \/ ReclaimLost(r) \/ Stop(r)
      BY <2>2 DEF Reclaim, ReclaimLost, Stop, Proceed, TypeInv, TypeOK
    <2>3. CASE BusError(r) \/ Crash(r)
      BY <2>3 DEF BusError, Crash, Forget, TypeInv, TypeOK
    <2> QED
      BY <1>2, <2>1, <2>2, <2>3
  <1>3. ASSUME NEW r \in Instance, NEW h \in batch[r],
               RefuseSchema(r, h) \/ HandleOk(r, h) \/ HandleRaise(r, h)
        PROVE  \/ pc'[q] = pc[q] /\ cur'[q] = cur[q]
               \/ q = r /\ (RefuseSchema(q, h) \/ HandleRaise(q, h))
    <2>1. CASE HandleOk(r, h)
      BY <2>1 DEF HandleOk, Take, TypeInv, TypeOK
    <2>2. CASE RefuseSchema(r, h) \/ HandleRaise(r, h)
      BY <2>2 DEF RefuseSchema, HandleRaise, Take, TypeInv, TypeOK
    <2> QED
      BY <1>3, <2>1, <2>2
  <1>4. ASSUME NEW r \in Instance, PublishOutput(r) \/ Republish(r) \/ ToDlq(r) \/ Ack(r)
        PROVE  pc'[q] = pc[q] /\ cur'[q] = cur[q]
    <2>1. CASE PublishOutput(r) \/ Republish(r)
      BY <2>1 DEF PublishOutput, AfterOutput, Republish, TypeInv, TypeOK
    <2>2. CASE ToDlq(r) \/ Ack(r)
      BY <2>2 DEF ToDlq, Ack, Proceed, TypeInv, TypeOK
    <2> QED
      BY <1>4, <2>1, <2>2
  <1> QED
    BY <1>1, <1>2, <1>3, <1>4 DEF Next, Process

\* Every new entry is a first attempt or the retry of a failed one.
LEMMA NewEntry ==
    ASSUME TypeInv, TypeInv', [Next]_vars, NEW g \in Handles', g \notin Handles
    PROVE  \/ stream'[g].attempt = 0
           \/ \E r \in Instance : /\ Republish(r)
                                  /\ cur[r] \in Handles
                                  /\ stream'[g].id = stream[cur[r]].id
                                  /\ stream'[g].attempt = stream[cur[r]].attempt + 1
  <1> USE DEF busVars, runnerVars, historyVars
  <1>1. CASE \E m \in Message : Publish(m)
    <2>1. PICK m \in Message : Publish(m)
      BY <1>1
    <2>2. [id |-> m, attempt |-> 0] \in Entry
      BY RunnerAssumption DEF Entry
    <2>3. Len(stream') = Len(stream) + 1 /\ stream'[Len(stream) + 1] = [id |-> m, attempt |-> 0]
      BY <2>1, <2>2, AppendStream DEF Publish, TypeInv
    <2>4. g = Len(stream) + 1
      BY <2>3 DEF Handles, TypeInv, TypeOK
    <2> QED
      BY <2>3, <2>4
  <1>2. CASE \E r \in Instance : Republish(r)
    <2>1. PICK r \in Instance : Republish(r)
      BY <1>2
    <2>2. /\ cur[r] \in Handles
          /\ Len(stream') = Len(stream) + 1
          /\ stream'[Len(stream) + 1].id = stream[cur[r]].id
          /\ stream'[Len(stream) + 1].attempt = stream[cur[r]].attempt + 1
      BY <2>1, RetryEntry
    <2>3. g = Len(stream) + 1
      BY <2>2 DEF Handles, TypeInv, TypeOK
    <2> QED
      BY <2>1, <2>2, <2>3
  <1>3. CASE /\ ~\E m \in Message : Publish(m)
             /\ ~\E r \in Instance : Republish(r)
    <2>1. stream' = stream
      BY <1>3 DEF Next, vars, Age, Loop, Start, SkipReclaim, Read, Exit, DrainRelease,
                  DrainKeep, Process, RefuseSchema, HandleOk, HandleRaise, PublishOutput, ToDlq,
                  Ack, Reclaim, ReclaimLost, Stop, BusError, Crash
    <2> QED
      BY <2>1 DEF Handles
  <1> QED
    BY <1>1, <1>2, <1>3

\* Every new dead-letter record is the one _to_dlq writes.
LEMMA NewDeadLetter ==
    ASSUME [Next]_vars, NEW d \in dlq', d \notin dlq
    PROVE  \E r \in Instance :
             /\ ToDlq(r) /\ pc[r] = "dlq"
             /\ d = [handle |-> cur[r], attempts |-> stream[cur[r]].attempt + 1,
                     reason |-> IF stream[cur[r]].id \in Unsupported
                                THEN "schema_version_unsupported"
                                ELSE "retry_budget_exhausted"]
  <1> USE DEF busVars, runnerVars, historyVars
  <1>1. CASE \E r \in Instance : ToDlq(r)
    BY <1>1, Zenon DEF ToDlq
  <1>2. CASE ~\E r \in Instance : ToDlq(r)
    <2>1. dlq' = dlq
      BY <1>2 DEF Next, vars, Publish, Age, Loop, Start, SkipReclaim, Read, Exit, DrainRelease,
                  DrainKeep, Process, RefuseSchema, HandleOk, HandleRaise, PublishOutput,
                  Republish, Ack, Reclaim, ReclaimLost, Stop, BusError, Crash
    <2> QED
      BY <2>1
  <1> QED
    BY <1>1, <1>2

\* BudgetInv is inductive.
LEMMA BudgetNext == BudgetInv /\ [Next]_vars => BudgetInv'
  <1> SUFFICES ASSUME BudgetInv, [Next]_vars PROVE BudgetInv'
    OBVIOUS
  <1>1. TypeInv /\ TypeInv' /\ FailuresCounted /\ NoPrematureDeadLetter
    BY TypeNext DEF BudgetInv
  <1>2. ASSUME NEW h \in Handles
        PROVE  /\ stream'[h] = stream[h] /\ stream[h].id \in Message
               /\ stream[h].attempt \in Nat /\ stream[h].attempt < RetryBudget
               /\ fails[stream[h].id] \in Nat /\ fails'[stream[h].id] \in Nat
               /\ fails[stream[h].id] <= fails'[stream[h].id]
               /\ stream[h].attempt <= fails[stream[h].id]
    <2>1. stream[h].id \in Message /\ stream[h].attempt \in Nat /\ stream[h].attempt < RetryBudget
      BY <1>1, EntryType DEF TypeInv
    <2>2. stream'[h] = stream[h]
      BY <1>1, Growth
    <2>3. stream[h].attempt <= fails[stream[h].id]
      BY <1>1 DEF FailuresCounted
    <2> QED
      BY <1>1, <2>1, <2>2, <2>3, FailsGrow
  <1>3. ASSUME NEW g \in Handles' PROVE stream'[g].attempt <= fails'[stream'[g].id]
    <2>1. CASE g \in Handles
      BY <1>2, <2>1
    <2>2. CASE g \notin Handles /\ stream'[g].attempt = 0
      <3>1. stream'[g] \in Entry
        BY <1>1 DEF TypeInv, TypeOK, Handles
      <3>2. stream'[g].id \in Message
        BY <3>1 DEF Entry
      <3> QED
        BY <1>1, <2>2, <3>2, FailsGrow
    <2>3. ASSUME NEW r \in Instance, Republish(r), cur[r] \in Handles,
                 stream'[g].id = stream[cur[r]].id,
                 stream'[g].attempt = stream[cur[r]].attempt + 1
          PROVE  stream'[g].attempt <= fails'[stream'[g].id]
      <3>1. stream[cur[r]].attempt + 1 <= fails[stream[cur[r]].id]
        BY <1>1, <2>3 DEF FailuresCounted, Republish
      <3> QED
        BY <1>2, <2>3, <3>1
    <2> QED
      BY <1>1, <2>1, <2>2, <2>3, NewEntry
  <1>4. ASSUME NEW q \in Instance
        PROVE  /\ pc'[q] = "retry" \/ Exhausted(q)' =>
                    stream'[cur'[q]].attempt + 1 <= fails'[stream'[cur'[q]].id]
               /\ Exhausted(q)' => stream'[cur'[q]].attempt + 1 = RetryBudget
    <2> SUFFICES ASSUME pc'[q] = "retry" \/ Exhausted(q)'
                 PROVE  /\ stream'[cur'[q]].attempt + 1 <= fails'[stream'[cur'[q]].id]
                        /\ Exhausted(q)' => stream'[cur'[q]].attempt + 1 = RetryBudget
      BY Zenon
    <2>1. pc'[q] \in {"retry", "dlq"}
      BY DEF Exhausted
    <2>2. CASE pc'[q] = pc[q] /\ cur'[q] = cur[q]
      <3>1. cur[q] \in Handles
        BY <1>1, <2>1, <2>2 DEF TypeInv, TypeOK, BusyHasEntry, Handles
      <3>2. stream'[cur'[q]] = stream[cur[q]]
        BY <2>2, <3>1, <1>2
      <3>3. Exhausted(q)' => Exhausted(q)
        BY <2>2, <3>2 DEF Exhausted
      <3>4. /\ stream[cur[q]].attempt + 1 <= fails[stream[cur[q]].id]
            /\ Exhausted(q)' => stream[cur[q]].attempt + 1 = RetryBudget
        BY <1>1, <2>2, <3>3 DEF FailuresCounted
      <3> QED
        BY <3>1, <3>2, <3>4, <1>2
    <2>3. ASSUME NEW h \in batch[q], RefuseSchema(q, h) PROVE FALSE
      BY <1>1, <2>3 DEF RefuseSchema, Take, Exhausted, TypeInv, TypeOK, busVars
    <2>4. ASSUME NEW h \in batch[q], HandleRaise(q, h)
          PROVE  /\ stream'[cur'[q]].attempt + 1 <= fails'[stream'[cur'[q]].id]
                 /\ Exhausted(q)' => stream'[cur'[q]].attempt + 1 = RetryBudget
      <3>1. h \in Handles
        BY <1>1, <2>4 DEF TypeInv, TypeOK, Handles
      <3>2. cur'[q] = h /\ stream' = stream /\ pc'[q] = AfterFailure(h)
            /\ fails' = [fails EXCEPT ![stream[h].id] = @ + 1]
        BY <1>1, <2>4 DEF HandleRaise, Take, TypeInv, TypeOK, busVars
      <3>3. fails'[stream[h].id] = fails[stream[h].id] + 1
        BY <1>1, <1>2, <3>1, <3>2 DEF TypeInv, TypeOK
      <3>4. Exhausted(q)' => stream[h].attempt + 1 >= RetryBudget
        BY <3>2 DEF Exhausted, AfterFailure
      <3> QED
        BY <1>2, <3>1, <3>2, <3>3, <3>4, RunnerAssumption
    <2> QED
      BY <1>1, <2>1, <2>2, <2>3, <2>4, FailureStep
  <1>5. FailuresCounted'
    BY <1>3, <1>4 DEF FailuresCounted
  <1>6. NoPrematureDeadLetter'
    <2> SUFFICES ASSUME NEW d \in dlq', d.reason = "retry_budget_exhausted"
                 PROVE  d.attempts = RetryBudget /\ fails'[stream'[d.handle].id] >= RetryBudget
      BY DEF NoPrematureDeadLetter
    <2>1. CASE d \in dlq
      <3>1. d.attempts = RetryBudget /\ fails[stream[d.handle].id] >= RetryBudget
        BY <1>1, <2>1 DEF NoPrematureDeadLetter
      <3>2. d.handle \in Handles
        BY <1>1, <2>1 DEF TypeInv, TypeOK, Handles
      <3> QED
        BY <1>2, <3>1, <3>2, RunnerAssumption
    <2>2. CASE d \notin dlq
      <3>1. PICK r \in Instance :
              /\ ToDlq(r) /\ pc[r] = "dlq"
              /\ d = [handle |-> cur[r], attempts |-> stream[cur[r]].attempt + 1,
                      reason |-> IF stream[cur[r]].id \in Unsupported
                                 THEN "schema_version_unsupported"
                                 ELSE "retry_budget_exhausted"]
        BY <2>2, NewDeadLetter
      <3>2. Exhausted(r) /\ d.handle = cur[r] /\ d.attempts = stream[cur[r]].attempt + 1
        BY <3>1 DEF Exhausted
      <3>3. /\ stream[cur[r]].attempt + 1 <= fails[stream[cur[r]].id]
            /\ stream[cur[r]].attempt + 1 = RetryBudget
        BY <1>1, <3>2 DEF FailuresCounted
      <3>4. cur[r] \in Handles
        BY <1>1, <3>1 DEF TypeInv, TypeOK, BusyHasEntry, Handles
      <3> QED
        BY <1>2, <3>2, <3>3, <3>4, RunnerAssumption
    <2> QED
      BY <2>1, <2>2
  <1> QED
    BY <1>1, <1>5, <1>6 DEF BudgetInv

\* A message is dead-lettered for an exhausted budget only after its handler has
\* raised RetryBudget times, however often crashes, slow handlers and lost
\* replies have it redelivered or retried twice.
THEOREM BudgetIsHonest == Spec => []NoPrematureDeadLetter
  <1>1. Init => BudgetInv
    <2> SUFFICES ASSUME Init PROVE BudgetInv
      OBVIOUS
    <2>1. FailuresCounted
      BY DEF Init, FailuresCounted, Handles, Exhausted
    <2>2. NoPrematureDeadLetter
      BY DEF Init, NoPrematureDeadLetter
    <2> QED
      BY <2>1, <2>2, TypeInit DEF BudgetInv
  <1>2. BudgetInv => NoPrematureDeadLetter
    BY DEF BudgetInv
  <1> QED
    BY <1>1, <1>2, BudgetNext, PTL DEF Spec

-----------------------------------------------------------------------------
(* Who holds an entry *)

\* A runner has entries in its hands only between a delivery and the last ack,
\* and the entry in _process is no longer in the batch.
HandsEmpty ==
    \A r \in Instance :
        /\ pc[r] \in {"new", "reclaim", "read", "drain", "off"} => batch[r] = {} /\ cur[r] = 0
        /\ pc[r] = "process" => cur[r] = 0
        /\ cur[r] \notin batch[r]

(***************************************************************************)
(* Until an entry goes idle in a live runner's hands, the pending map      *)
(* names the runner that holds it and does not offer it to reclaim.        *)
(***************************************************************************)
HoldsOwn ==
    slow = 0 => \A r \in Instance, h \in 1..offset : Holds(r, h) =>
        h \in DOMAIN pending /\ pending[h].consumer = r /\ ~pending[h].idle

HoldInv == TypeInv /\ HandsEmpty /\ HoldsOwn

\* Every step keeps the hands of idle runners empty.
LEMMA HandsNext ==
    ASSUME TypeInv, HandsEmpty, [Next]_vars
    PROVE  HandsEmpty'
  <1> USE DEF busVars, runnerVars, historyVars
  <1>1. CASE (\E m \in Message : Publish(m)) \/ (\E h \in DOMAIN pending : Age(h)) \/ UNCHANGED vars
    BY <1>1 DEF Publish, Age, vars, HandsEmpty
  <1>2. ASSUME NEW r \in Instance, Loop(r) PROVE HandsEmpty'
    <2>1. CASE Read(r)
      <3>1. 0 \notin (offset + 1)..ReadUpTo
        BY DEF TypeInv, TypeOK
      <3>2. batch' = [batch EXCEPT ![r] = (offset + 1)..ReadUpTo] /\ cur' = cur /\ pc[r] = "read"
            /\ pc' = [pc EXCEPT ![r] = IF (offset + 1)..ReadUpTo = {} THEN Proceed(r, "reclaim")
                                       ELSE "process"]
        BY <2>1 DEF Read
      <3> HIDE DEF ReadUpTo
      <3> QED
        BY <3>1, <3>2 DEF HandsEmpty, Proceed, TypeInv, TypeOK
    <2>2. CASE ~Read(r)
      BY <1>2, <2>2 DEF Loop, Start, SkipReclaim, Exit, DrainRelease, DrainKeep, Proceed,
                        HandsEmpty, TypeInv, TypeOK
    <2> QED
      BY <2>1, <2>2
  <1>3. ASSUME NEW r \in Instance, Process(r) PROVE HandsEmpty'
    <2>1. ASSUME NEW h \in batch[r], RefuseSchema(r, h) \/ HandleOk(r, h) \/ HandleRaise(r, h)
          PROVE  HandsEmpty'
      <3>1. /\ batch' = [batch EXCEPT ![r] = @ \ {h}]
            /\ cur' = [cur EXCEPT ![r] = h]
        BY <2>1 DEF RefuseSchema, HandleOk, HandleRaise, Take
      <3>2. /\ pc'[r] \in {"dlq", "ack", "publish", "retry"}
            /\ \A q \in Instance \ {r} : pc'[q] = pc[q]
        BY <2>1 DEF RefuseSchema, HandleOk, HandleRaise, AfterFailure, TypeInv, TypeOK
      <3> QED
        BY <3>1, <3>2 DEF HandsEmpty, TypeInv, TypeOK
    <2>2. CASE PublishOutput(r) \/ Republish(r) \/ ToDlq(r)
      BY <2>2 DEF PublishOutput, AfterOutput, Republish, ToDlq, HandsEmpty, TypeInv, TypeOK
    <2>3. CASE Ack(r)
      <3>1. 0 \notin batch[r]
        BY DEF TypeInv, TypeOK
      <3> QED
        BY <2>3, <3>1 DEF Ack, Proceed, HandsEmpty, TypeInv, TypeOK
    <2> QED
      BY <1>3, <2>1, <2>2, <2>3 DEF Process
  <1>4. ASSUME NEW r \in Instance, Reclaim(r) PROVE HandsEmpty'
    <2>1. 0 \notin Reclaimable
      BY DEF Reclaimable, First, TypeInv, TypeOK
    <2> QED
      BY <1>4, <2>1 DEF Reclaim, HandsEmpty, TypeInv, TypeOK
  <1>5. ASSUME NEW r \in Instance, ReclaimLost(r) \/ Stop(r) PROVE HandsEmpty'
    BY <1>5 DEF ReclaimLost, Stop, Proceed, HandsEmpty, TypeInv, TypeOK
  <1>6. ASSUME NEW r \in Instance, BusError(r) \/ Crash(r) PROVE HandsEmpty'
    <2>1. /\ batch' = [batch EXCEPT ![r] = {}]
          /\ cur' = [cur EXCEPT ![r] = 0]
          /\ \A q \in Instance \ {r} : pc'[q] = pc[q]
          /\ pc'[r] \in {"drain", "off"}
      <3>1. CASE BusError(r)
        BY <3>1 DEF BusError, Forget, TypeInv, TypeOK
      <3>2. CASE Crash(r)
        BY <3>2 DEF Crash, Forget, TypeInv, TypeOK
      <3> QED
        BY <1>6, <3>1, <3>2
    <2> QED
      BY <2>1 DEF HandsEmpty, TypeInv, TypeOK
  <1> QED
    BY <1>1, <1>2, <1>3, <1>4, <1>5, <1>6 DEF Next

\* Every step keeps HoldsOwn.
LEMMA HoldsNext ==
    ASSUME TypeInv, TypeInv', HandsEmpty, HoldsOwn, [Next]_vars
    PROVE  HoldsOwn'
  <1> USE DEF busVars, runnerVars, historyVars
  <1> DEFINE Own(q, h) == h \in DOMAIN pending /\ pending[h].consumer = q /\ ~pending[h].idle
  <1>0. slow \in Nat /\ offset \in Nat /\ offset' \in Nat /\ offset <= offset'
    <2>1. slow \in Nat /\ offset \in Nat /\ offset' \in Nat
      BY RunnerAssumption DEF TypeInv, TypeOK
    <2>2. offset <= offset'
      BY Growth
    <2> QED
      BY <2>1, <2>2
  <1>1. slow' = 0 => slow = 0
    <2>1. CASE \E h \in DOMAIN pending : Age(h)
      BY <1>0, <2>1 DEF Age
    <2>2. CASE ~\E h \in DOMAIN pending : Age(h)
      BY <2>2 DEF Next, vars, Publish, Loop, Start, SkipReclaim, Read, Exit, DrainRelease,
                  DrainKeep, Process, RefuseSchema, HandleOk, HandleRaise, PublishOutput, Republish,
                  ToDlq, Ack, Reclaim, ReclaimLost, Stop, BusError, Crash
    <2> QED
      BY <2>1, <2>2
  <1> SUFFICES ASSUME slow' = 0, NEW q \in Instance, NEW h \in 1..offset', Holds(q, h)'
               PROVE  Own(q, h)'
    BY DEF HoldsOwn
  <1>2. ASSUME NEW p \in Instance, NEW k \in 1..offset, Holds(p, k) PROVE Own(p, k)
    BY <1>1, <1>2 DEF HoldsOwn
  <1>3. ASSUME Holds(q, h) PROVE h \in 1..offset
    BY <1>0, <1>3 DEF Holds, TypeInv, TypeOK
  <1> DEFINE Kept == Holds(q, h) /\ pending' = pending
  <1>4. ASSUME Kept PROVE Own(q, h)'
    BY <1>2, <1>3, <1>4
  <1>5. ASSUME NEW k \in DOMAIN pending, Age(k) PROVE Own(q, h)'
    <2>1. Holds(q, h)
      BY <1>5 DEF Age, Holds
    <2>2. Own(q, h)
      BY <1>2, <1>3, <2>1
    <2>3. ~Holds(pending[k].consumer, k)
      BY <1>0, <1>1, <1>5 DEF Age
    <2>4. h # k
      BY <2>1, <2>2, <2>3
    <2>5. pending' = [pending EXCEPT ![k] = [consumer |-> @.consumer, idle |-> TRUE]]
      BY <1>5 DEF Age
    <2> QED
      BY <2>2, <2>4, <2>5 DEF TypeInv, TypeOK
  <1>6. ASSUME NEW r \in Instance, Loop(r) PROVE Own(q, h)'
    <2>1. CASE Read(r)
      <3>1. /\ pending' = Claim((offset + 1)..ReadUpTo, r)
            /\ batch' = [batch EXCEPT ![r] = (offset + 1)..ReadUpTo]
            /\ cur' = cur /\ pc[r] = "read"
        BY <2>1 DEF Read
      <3> HIDE DEF ReadUpTo
      <3>2. CASE q = r
        <4>1. h \in (offset + 1)..ReadUpTo
          BY <3>1, <3>2 DEF Holds, HandsEmpty, TypeInv, TypeOK
        <4> QED
          BY <3>1, <3>2, <4>1 DEF Claim
      <3>3. CASE q # r
        <4>1. Holds(q, h)
          BY <3>1, <3>3 DEF Holds, TypeInv, TypeOK
        <4>2. h \notin (offset + 1)..ReadUpTo
          BY <1>0, <1>3, <4>1
        <4> QED
          BY <1>2, <1>3, <3>1, <4>1, <4>2 DEF Claim
      <3> QED
        BY <3>2, <3>3
    <2>2. CASE DrainRelease(r)
      <3>1. Holds(q, h) /\ pending' = Unclaim(PendingOf(r)) /\ pc[r] = "drain"
        BY <2>2 DEF DrainRelease, Holds
      <3>2. q # r
        BY <3>1 DEF Holds, HandsEmpty
      <3> QED
        BY <1>2, <1>3, <3>1, <3>2 DEF Unclaim, PendingOf
    <2>3. CASE Start(r) \/ SkipReclaim(r) \/ Exit(r) \/ DrainKeep(r)
      <3>1. Kept
        BY <2>3 DEF Start, SkipReclaim, Exit, DrainKeep, Holds
      <3> QED
        BY <1>4, <3>1
    <2> QED
      BY <1>6, <2>1, <2>2, <2>3 DEF Loop
  <1>7. ASSUME NEW r \in Instance, Process(r) PROVE Own(q, h)'
    <2>1. ASSUME NEW k \in batch[r], RefuseSchema(r, k) \/ HandleOk(r, k) \/ HandleRaise(r, k)
          PROVE  Kept
      <3>1. /\ batch' = [batch EXCEPT ![r] = @ \ {k}]
            /\ cur' = [cur EXCEPT ![r] = k] /\ pending' = pending
        BY <2>1 DEF RefuseSchema, HandleOk, HandleRaise, Take
      <3> QED
        BY <2>1, <3>1 DEF Holds, TypeInv, TypeOK
    <2>2. CASE PublishOutput(r) \/ Republish(r) \/ ToDlq(r)
      <3>1. Kept
        BY <2>2 DEF PublishOutput, Republish, ToDlq, Holds
      <3> QED
        BY <1>4, <3>1
    <2>3. CASE Ack(r)
      <3>1. /\ pending' = Unclaim({cur[r]}) /\ pc[r] = "ack"
            /\ cur' = [cur EXCEPT ![r] = 0]
            /\ batch' = [batch EXCEPT ![r] = IF r \in stopping THEN {} ELSE @]
        BY <2>3 DEF Ack
      <3>2. Holds(q, h)
        BY <1>0, <3>1 DEF Holds, TypeInv, TypeOK
      <3>3. cur[r] \in 1..offset /\ Holds(r, cur[r])
        BY <3>1 DEF Holds, TypeInv, TypeOK, BusyHasEntry
      <3>4. Own(q, h) /\ Own(r, cur[r])
        BY <1>2, <1>3, <3>2, <3>3
      <3>5. h # cur[r]
        <4>1. CASE q = r
          BY <1>0, <3>1, <4>1 DEF Holds, HandsEmpty, TypeInv, TypeOK
        <4>2. CASE q # r
          BY <3>4, <4>2
        <4> QED
          BY <4>1, <4>2
      <3> QED
        BY <3>1, <3>4, <3>5 DEF Unclaim
    <2> QED
      BY <1>4, <1>7, <2>1, <2>2, <2>3 DEF Process
  <1>8. ASSUME NEW r \in Instance, Reclaim(r) \/ ReclaimLost(r) PROVE Own(q, h)'
    <2>1. pending' = Claim(Reclaimable, r) /\ cur' = cur /\ pc[r] = "reclaim"
      BY <1>8 DEF Reclaim, ReclaimLost
    <2>2. CASE Holds(q, h)
      <3>1. Own(q, h)
        BY <1>2, <1>3, <2>2
      <3>2. h \notin Reclaimable
        BY <3>1 DEF Reclaimable, First
      <3> QED
        BY <2>1, <3>1, <3>2 DEF Claim
    <2>3. CASE ~Holds(q, h)
      <3>1. q = r /\ h \in Reclaimable
        BY <1>8, <2>1, <2>3 DEF Reclaim, ReclaimLost, Holds, TypeInv, TypeOK
      <3> QED
        BY <2>1, <3>1 DEF Claim
    <2> QED
      BY <2>2, <2>3
  <1>9. ASSUME NEW r \in Instance, BusError(r) \/ Crash(r) PROVE Own(q, h)'
    <2>1. Kept
      <3>1. /\ batch' = [batch EXCEPT ![r] = {}]
            /\ cur' = [cur EXCEPT ![r] = 0] /\ pending' = pending
        <4>1. CASE BusError(r)
          BY <4>1 DEF BusError, Forget
        <4>2. CASE Crash(r)
          BY <4>2 DEF Crash, Forget
        <4> QED
          BY <1>9, <4>1, <4>2
      <3> QED
        BY <1>0, <3>1 DEF Holds, TypeInv, TypeOK
    <2> QED
      BY <1>4, <2>1
  <1>10. CASE (\E m \in Message : Publish(m)) \/ (\E r \in Instance : Stop(r)) \/ UNCHANGED vars
    <2>1. Kept
      BY <1>10 DEF Publish, Stop, vars, Holds
    <2> QED
      BY <1>4, <2>1
  <1> QED
    BY <1>5, <1>6, <1>7, <1>8, <1>9, <1>10 DEF Next

\* As long as no handler outlives the claim window, reclaim takes entries from
\* dead runners only: no two live ones ever hold the same entry, however many
\* crash, stop or lose the answers of the bus.
THEOREM LiveRunnersExclude == Spec => []ExclusiveUnlessSlow
  <1>1. Init => HoldInv
    <2> SUFFICES ASSUME Init PROVE HoldInv
      OBVIOUS
    <2>1. HandsEmpty
      BY DEF Init, HandsEmpty
    <2>2. HoldsOwn
      BY DEF Init, HoldsOwn
    <2> QED
      BY <2>1, <2>2, TypeInit DEF HoldInv
  <1>2. HoldInv /\ [Next]_vars => HoldInv'
    BY TypeNext, HandsNext, HoldsNext DEF HoldInv
  <1>3. HoldInv => ExclusiveUnlessSlow
    BY DEF HoldInv, HoldsOwn, ExclusiveUnlessSlow, TypeInv, TypeOK
  <1> QED
    BY <1>1, <1>2, <1>3, PTL DEF Spec

-----------------------------------------------------------------------------
(* The topic implements ReliableTopic *)

\* The refinement mapping in terms of entries.
LEMMA TopicView ==
    ASSUME TypeInv, NEW m
    PROVE  /\ m \in Outstanding <=> \E h \in Handles : stream[h].id = m /\ Alive(h)
           /\ m \in SettledIds <=> \E h \in Handles : stream[h].id = m /\ (Done(h) \/ Dead(h))
           /\ m \in Outstanding \union SettledIds => m \in Message
  <1>1. m \in Outstanding <=> \E h \in Handles : stream[h].id = m /\ Alive(h)
    BY DEF Outstanding
  <1>2. m \in SettledIds <=> \E h \in Handles : stream[h].id = m /\ (Done(h) \/ Dead(h))
    BY DEF SettledIds, Sent, Settled
  <1>3. \A h \in Handles : stream[h].id \in Message
    BY EntryType DEF TypeInv
  <1> QED
    BY <1>1, <1>2, <1>3

\* Only delivered entries are handled or dead-lettered.
LEMMA SettledDelivered ==
    ASSUME TypeInv, NEW h, Done(h) \/ Dead(h)
    PROVE  h \in 1..offset
  BY DEF TypeInv, TypeOK, Done, Dead

\* What a new entry of message m does to the topic.
LEMMA AppendView ==
    ASSUME TypeInv, TypeInv', NEW m,
           Len(stream') = Len(stream) + 1, stream'[Len(stream) + 1].id = m,
           \A h \in Handles : stream'[h] = stream[h],
           UNCHANGED <<offset, pending, handled, outs, dlq>>
    PROVE  /\ Outstanding' = Outstanding \union {m}
           /\ SettledIds' = SettledIds
  <1> DEFINE n == Len(stream) + 1
  <1>1. n \in Nat /\ Handles' = Handles \union {n} /\ n \notin 1..offset /\ n > offset
        /\ n \notin Handles
    BY DEF Handles, TypeInv, TypeOK
  <1>2. \A h : (Alive(h)' <=> Alive(h)) /\ (Done(h)' <=> Done(h)) /\ (Dead(h)' <=> Dead(h))
    BY DEF Alive, Done, Dead
  <1>3. Alive(n) /\ ~Done(n) /\ ~Dead(n)
    BY <1>1, SettledDelivered DEF Alive
  <1> HIDE DEF n
  <1>4. stream'[n].id = m
    BY DEF n
  <1>5. ASSUME NEW x PROVE x \in Outstanding' <=> x \in Outstanding \union {m}
    BY <1>1, <1>2, <1>3, <1>4 DEF Outstanding
  <1>6. ASSUME NEW x PROVE x \in SettledIds' <=> x \in SettledIds
    <2>1. x \in SettledIds' <=> \E h \in Handles' : stream'[h].id = x /\ (Done(h)' \/ Dead(h)')
      BY DEF SettledIds, Sent, Settled
    <2>2. x \in SettledIds <=> \E h \in Handles : stream[h].id = x /\ (Done(h) \/ Dead(h))
      BY TopicView
    <2> QED
      BY <1>1, <1>2, <1>3, <2>1, <2>2
  <1> QED
    BY <1>5, <1>6

\* What the settlement of an entry of message m does to the topic.
LEMMA SettleView ==
    ASSUME TypeInv, TypeInv', NEW c \in Handles,
           UNCHANGED <<stream, offset, pending>>,
           \A h \in Handles \ {c} : (Done(h)' <=> Done(h)) /\ (Dead(h)' <=> Dead(h)),
           (Done(c) \/ Dead(c)) => (Done(c)' \/ Dead(c)')
    PROVE  /\ Outstanding' = Outstanding
           /\ SettledIds' = SettledIds \/ SettledIds' = SettledIds \union {stream[c].id}
  <1>1. Outstanding' = Outstanding
    BY DEF Outstanding, Alive, Handles
  <1>2. ASSUME NEW x
        PROVE  /\ x \in SettledIds' <=> \E h \in Handles : stream[h].id = x /\ (Done(h)' \/ Dead(h)')
               /\ x \in SettledIds <=> \E h \in Handles : stream[h].id = x /\ (Done(h) \/ Dead(h))
    BY TopicView DEF SettledIds, Sent, Settled, Handles
  <1>3. SettledIds \subseteq SettledIds'
    BY <1>2
  <1>4. ASSUME NEW x \in SettledIds', x \notin SettledIds PROVE x = stream[c].id
    BY <1>2, <1>4
  <1> QED
    BY <1>1, <1>3, <1>4

\* What an acknowledgement does to the topic.
LEMMA AckView ==
    ASSUME TypeInv, TypeInv', NEW c \in Handles,
           UNCHANGED <<stream, offset, handled, outs, dlq>>, DOMAIN pending' = DOMAIN pending \ {c}
    PROVE  /\ SettledIds' = SettledIds
           /\ Outstanding' = Outstanding \/ Outstanding' = Outstanding \ {stream[c].id}
  <1>1. SettledIds' = SettledIds
    BY DEF SettledIds, Sent, Settled, Done, Dead, Handles
  <1>2. ASSUME NEW x
        PROVE  /\ x \in Outstanding' <=> \E h \in Handles : stream[h].id = x /\ Alive(h)'
               /\ x \in Outstanding <=> \E h \in Handles : stream[h].id = x /\ Alive(h)
    BY DEF Outstanding, Handles
  <1>3. \A h : Alive(h)' => Alive(h)
    BY DEF Alive
  <1>4. \A h \in Handles \ {c} : Alive(h) => Alive(h)'
    BY DEF Alive
  <1>5. Outstanding' \subseteq Outstanding
    BY <1>2, <1>3
  <1>6. ASSUME NEW x \in Outstanding, x \notin Outstanding' PROVE x = stream[c].id
    BY <1>2, <1>4, <1>6
  <1> QED
    BY <1>1, <1>5, <1>6

\* A published message is outstanding or settled.
LEMMA NothingMissing ==
    ASSUME TypeInv, NoLoss, NEW h \in Handles
    PROVE  stream[h].id \in Outstanding \union SettledIds
  BY TopicView DEF NoLoss

\* Every step of the runners and the bus is a step of the topic, or none.
LEMMA TopicStep ==
    ASSUME TypeInv, TypeInv', NoLoss, NoLoss', ~ReleaseDropsPending, [Next]_vars
    PROVE  [Topic!Next]_(Topic!vars)
  <1> USE DEF busVars, runnerVars, historyVars
  <1> DEFINE Still == UNCHANGED <<Outstanding, SettledIds>>
  <1>1. ASSUME Still PROVE [Topic!Next]_(Topic!vars)
    BY <1>1 DEF Topic!vars
  <1>2. ASSUME UNCHANGED <<stream, handled, outs, dlq>>,
               \A h \in Handles : Alive(h)' <=> Alive(h)
        PROVE  Still
    <2>1. SettledIds' = SettledIds
      BY <1>2 DEF SettledIds, Sent, Settled, Done, Dead, Handles
    <2>2. Outstanding' = Outstanding
      BY <1>2 DEF Outstanding, Handles
    <2> QED
      BY <2>1, <2>2
  <1>3. ASSUME NEW m \in Message, Publish(m) PROVE [Topic!Next]_(Topic!vars)
    <2>1. [id |-> m, attempt |-> 0] \in Entry
      BY RunnerAssumption DEF Entry
    <2>2. /\ Len(stream') = Len(stream) + 1
          /\ \A h \in Handles : stream'[h] = stream[h]
          /\ stream'[Len(stream) + 1].id = m
      <3> DEFINE e == [id |-> m, attempt |-> 0]
      <3>1. stream' = Append(stream, e) /\ e.id = m
        BY <1>3 DEF Publish
      <3>2. e \in Entry /\ TypeOK
        BY <2>1 DEF TypeInv
      <3> HIDE DEF e
      <3> QED
        BY <3>1, <3>2, AppendStream
    <2>3. UNCHANGED <<offset, pending, handled, outs, dlq>>
      BY <1>3 DEF Publish
    <2>4. Outstanding' = Outstanding \union {m} /\ SettledIds' = SettledIds
      BY <2>2, <2>3, AppendView
    <2>5. m \notin Outstanding \union SettledIds
      BY <1>3, TopicView DEF Publish
    <2> QED
      BY <2>4, <2>5 DEF Topic!Next, Topic!Accept
  <1>4. ASSUME NEW r \in Instance, Republish(r) PROVE [Topic!Next]_(Topic!vars)
    <2>1. PICK c \in Handles, m \in Message : c = cur[r] /\ m = stream[c].id
      BY <1>4, RetryEntry, EntryType DEF TypeInv
    <2>2. /\ Len(stream') = Len(stream) + 1
          /\ \A h \in Handles : stream'[h] = stream[h]
          /\ stream'[Len(stream) + 1].id = m
      BY <1>4, <2>1, RetryEntry
    <2>3. UNCHANGED <<offset, pending, handled, outs, dlq>>
      BY <1>4 DEF Republish
    <2>4. Outstanding' = Outstanding \union {m} /\ SettledIds' = SettledIds
      BY <2>2, <2>3, AppendView
    <2>5. CASE m \in Outstanding
      BY <1>1, <2>4, <2>5
    <2>6. CASE m \in SettledIds
      BY <2>4, <2>6 DEF Topic!Next, Topic!Revive
    <2> QED
      BY <2>1, <2>5, <2>6, NothingMissing
  <1>5. ASSUME NEW c \in Handles, UNCHANGED <<stream, offset, pending>>,
               \A h \in Handles \ {c} : (Done(h)' <=> Done(h)) /\ (Dead(h)' <=> Dead(h)),
               (Done(c) \/ Dead(c)) => (Done(c)' \/ Dead(c)')
        PROVE  [Topic!Next]_(Topic!vars)
    <2>1. PICK m \in Message : m = stream[c].id
      BY EntryType DEF TypeInv
    <2>2. /\ Outstanding' = Outstanding
          /\ SettledIds' = SettledIds \/ SettledIds' = SettledIds \union {m}
      BY <1>5, <2>1, SettleView
    <2>3. m \in Outstanding \union SettledIds
      BY <2>1, NothingMissing
    <2>4. CASE SettledIds' = SettledIds
      BY <1>1, <2>2, <2>4
    <2>5. CASE SettledIds' = SettledIds \union {m} /\ m \notin SettledIds
      BY <2>2, <2>3, <2>5 DEF Topic!Next, Topic!Settle
    <2> QED
      BY <2>2, <2>4, <2>5
  <1>6. ASSUME NEW r \in Instance, NEW h \in batch[r],
               RefuseSchema(r, h) \/ HandleOk(r, h) \/ HandleRaise(r, h)
        PROVE  [Topic!Next]_(Topic!vars)
    <2>1. CASE RefuseSchema(r, h) \/ HandleRaise(r, h)
      <3>1. UNCHANGED <<stream, offset, pending, handled, outs, dlq>>
        BY <2>1 DEF RefuseSchema, HandleRaise
      <3> QED
        BY <1>1, <1>2, <3>1 DEF Alive
    <2>2. CASE HandleOk(r, h)
      <3>1. h \in Handles
        BY DEF TypeInv, TypeOK, Handles
      <3>2. UNCHANGED <<stream, offset, pending, outs, dlq>> /\ handled' = handled \union {h}
        BY <2>2 DEF HandleOk
      <3>3. /\ \A k \in Handles \ {h} : (Done(k)' <=> Done(k)) /\ (Dead(k)' <=> Dead(k))
            /\ (Done(h) \/ Dead(h)) => (Done(h)' \/ Dead(h)')
        BY <3>2 DEF Done, Dead
      <3> QED
        BY <1>5, <3>1, <3>2, <3>3
    <2> QED
      BY <1>6, <2>1, <2>2
  <1>7. ASSUME NEW r \in Instance, PublishOutput(r) \/ ToDlq(r) PROVE [Topic!Next]_(Topic!vars)
    <2>1. PICK c \in Handles : c = cur[r]
      BY <1>7 DEF PublishOutput, ToDlq, TypeInv, TypeOK, BusyHasEntry, Handles
    <2>2. UNCHANGED <<stream, offset, pending, handled>>
      BY <1>7 DEF PublishOutput, ToDlq
    <2>3. outs \subseteq outs' /\ dlq \subseteq dlq'
      BY Growth
    <2>4. /\ \A x \in outs' \ outs : x[1] = c
          /\ \A d \in dlq' \ dlq : d.handle = c
      <3>1. CASE PublishOutput(r)
        BY <2>1, <3>1 DEF PublishOutput
      <3>2. CASE ToDlq(r)
        <4>1. outs' = outs
          BY <3>2 DEF ToDlq
        <4>2. \A d \in dlq' \ dlq :
                d = [handle |-> cur[r], attempts |-> stream[cur[r]].attempt + 1,
                     reason |-> IF stream[cur[r]].id \in Unsupported
                                THEN "schema_version_unsupported"
                                ELSE "retry_budget_exhausted"]
          BY <3>2, Zenon DEF ToDlq
        <4> QED
          BY <2>1, <4>1, <4>2
      <3> QED
        BY <1>7, <3>1, <3>2
    <2>5. /\ \A h \in Handles \ {c} : (Done(h)' <=> Done(h)) /\ (Dead(h)' <=> Dead(h))
          /\ (Done(c) \/ Dead(c)) => (Done(c)' \/ Dead(c)')
      <3>1. ASSUME NEW h \in Handles \ {c}, NEW o PROVE <<h, o>> \in outs' <=> <<h, o>> \in outs
        <4>1. <<h, o>>[1] = h
          OBVIOUS
        <4> QED
          BY <2>3, <2>4, <4>1
      <3>2. \A h \in Handles \ {c} : Done(h)' <=> Done(h)
        BY <2>2, <3>1 DEF Done
      <3>3. \A h \in Handles \ {c} : Dead(h)' <=> Dead(h)
        BY <2>3, <2>4 DEF Dead
      <3>4. (Done(c) \/ Dead(c)) => (Done(c)' \/ Dead(c)')
        BY <2>2, <2>3 DEF Done, Dead
      <3> QED
        BY <3>2, <3>3, <3>4
    <2> QED
      BY <1>5, <2>2, <2>5
  <1>8. ASSUME NEW r \in Instance, Ack(r) PROVE [Topic!Next]_(Topic!vars)
    <2>1. PICK c \in Handles, m \in Message : c = cur[r] /\ m = stream[c].id
      BY <1>8, EntryType DEF Ack, TypeInv, TypeOK, BusyHasEntry, Handles
    <2>2. /\ UNCHANGED <<stream, offset, handled, outs, dlq>>
          /\ DOMAIN pending' = DOMAIN pending \ {c}
      BY <1>8, <2>1 DEF Ack, Unclaim
    <2>3. /\ SettledIds' = SettledIds
          /\ Outstanding' = Outstanding \/ Outstanding' = Outstanding \ {m}
      BY <2>1, <2>2, AckView
    <2>4. CASE Outstanding' = Outstanding
      BY <1>1, <2>3, <2>4
    <2>5. CASE Outstanding' = Outstanding \ {m} /\ m \in Outstanding
      <3>1. \E h \in Handles' : stream'[h].id = m /\ (Alive(h)' \/ Done(h)' \/ Dead(h)')
        BY <2>1, <2>2 DEF NoLoss, Handles
      <3>2. m \in Outstanding' \/ m \in SettledIds'
        BY <3>1 DEF Outstanding, SettledIds, Sent, Settled
      <3>3. m \in SettledIds
        BY <2>3, <2>5, <3>2
      <3> QED
        BY <2>3, <2>5, <3>3 DEF Topic!Next, Topic!Forget
    <2> QED
      BY <2>3, <2>4, <2>5
  <1>9. ASSUME NEW r \in Instance, Loop(r) PROVE Still
    <2>1. CASE Read(r)
      <3>1. UNCHANGED <<stream, handled, outs, dlq>>
        BY <2>1 DEF Read
      <3>2. /\ offset' = ReadUpTo /\ ReadUpTo \in Nat /\ offset \in Nat
            /\ DOMAIN pending' = DOMAIN pending \union ((offset + 1)..ReadUpTo)
        BY <2>1, RunnerAssumption DEF Read, Claim, ReadUpTo, TypeInv, TypeOK
      <3>3. offset <= ReadUpTo
        BY <3>2, Growth
      <3>4. \A h \in Handles : Alive(h)' <=> Alive(h)
        <4> HIDE DEF ReadUpTo
        <4> QED
          BY <3>2, <3>3 DEF Alive, Handles, TypeInv, TypeOK
      <3> QED
        BY <1>2, <3>1, <3>4
    <2>2. CASE ~Read(r)
      <3>1. UNCHANGED <<stream, offset, pending, handled, outs, dlq>>
        BY <1>9, <2>2 DEF Loop, Start, SkipReclaim, Exit, DrainRelease, DrainKeep
      <3> QED
        BY <1>2, <3>1 DEF Alive
    <2> QED
      BY <2>1, <2>2
  <1>10. ASSUME NEW r \in Instance, Reclaim(r) \/ ReclaimLost(r) PROVE Still
    <2>1. UNCHANGED <<stream, offset, handled, outs, dlq>> /\ pending' = Claim(Reclaimable, r)
      BY <1>10 DEF Reclaim, ReclaimLost
    <2>2. DOMAIN pending' = DOMAIN pending
      BY <2>1 DEF Claim, Reclaimable, First
    <2> QED
      BY <1>2, <2>1, <2>2 DEF Alive
  <1>11. CASE \/ \E h \in DOMAIN pending : Age(h)
              \/ \E r \in Instance : Stop(r) \/ BusError(r) \/ Crash(r)
              \/ UNCHANGED vars
    <2>1. UNCHANGED <<stream, offset, handled, outs, dlq>> /\ DOMAIN pending' = DOMAIN pending
      BY <1>11 DEF Age, Stop, BusError, Crash, vars, TypeInv, TypeOK
    <2>2. Still
      BY <1>2, <2>1 DEF Alive
    <2> QED
      BY <1>1, <2>2
  <1> QED
    BY <1>1, <1>3, <1>4, <1>6, <1>7, <1>8, <1>9, <1>10, <1>11 DEF Next, Process

\* With a bus whose release_consumer keeps pending entries (the in-memory bus)
\* the runners and the bus implement ReliableTopic: whatever crashes, retries
\* and redeliveries happen, a message leaves the topic only once it is settled.
THEOREM RunnersImplementTopic ==
    ASSUME ~ReleaseDropsPending PROVE Spec => ImplementsReliableTopic
  <1>1. Init => Topic!Init
    BY DEF Init, Topic!Init, Outstanding, SettledIds, Sent, Handles
  <1>2. TypeInv /\ TypeInv' /\ NoLoss /\ NoLoss' /\ [Next]_vars => [Topic!Next]_(Topic!vars)
    BY TopicStep
  <1>3. Spec => []TypeInv
    BY TypeInit, TypeNext, PTL DEF Spec
  <1>4. Spec => []NoLoss
    BY InMemoryLosesNothing
  <1> QED
    BY <1>1, <1>2, <1>3, <1>4, PTL DEF Spec, ImplementsReliableTopic, Topic!Spec

=============================================================================
