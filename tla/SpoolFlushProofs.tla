--------------------------- MODULE SpoolFlushProofs ---------------------------
(***************************************************************************)
(* Proofs about SpoolFlush, for any number of flushers, any interleaving   *)
(* of them and any bounds: the types, that a spooled message is lost only  *)
(* when its file is taken away while it is being filled, and that without  *)
(* overlap a double publication has a failure or a death behind it.  The   *)
(* second does not rest on the flush lock, which two flushers can hold at  *)
(* the same time.                                                          *)
(***************************************************************************)
EXTENDS SpoolFlush, TLAPS

\* Where a flusher may have the flock of the inode it has open.
Holding == {"reapUnlink", "reapClose", "unlock"} \cup Replaying

HolderInside == \A i \in Inode : holder[i] # None => pc[holder[i]] \in Holding

\* File stamps are not ahead of the clock.
Stamped == \A f \in spool \cup retired : f.at <= writes

\* Messages that need no file any more, and the files that count.
Settled == sent \cup aged \cup recorded \cup mislaid
Files == (spool \cup retired) \ partial

\* The file f may go: its message is settled or has a newer file.
Spare(f) == \/ f.msg \in Settled
            \/ \E g \in Files : g.msg = f.msg /\ g.at > f.at

\* To fill f gives its message a file, if it needs one.
Backed(f) == f \in spool \cup retired \/ Spare(f)

\* What p is about to unlink may go, and what it is filling is worth it: it is
\* a later file of the entry at hand.
SpareAt(p) ==
    /\ pc[p] = "unlinkRetired" => /\ Oldest(redo[p]) \in File
                                  /\ Oldest(redo[p]).msg \in Settled
    /\ pc[p] = "unlinkEntry" => /\ Newest(todo[p]) \in File
                                /\ Newest(todo[p]).msg \in Settled
    /\ pc[p] = "unlinkOld" => /\ Newest(todo[p]) \in File
                              /\ Spare(Newest(todo[p]))
    /\ pc[p] = "fill" => /\ Newest(todo[p]) \in File
                         /\ copy[p] \in File
                         /\ copy[p].msg = Newest(todo[p]).msg
                         /\ copy[p].at > Newest(todo[p]).at
                         /\ Backed(copy[p])

UnlinksSpare == \A p \in Flusher : SpareAt(p)

DraftsBacked == \A f \in drafts : Backed(f)

\* The inductive invariant.
IInv == TypeOK /\ HolderInside /\ Stamped /\ UnlinksSpare /\ DraftsBacked /\ NothingLost

\* What every step respects: settled messages stay settled, and a file that
\* counts, or will, goes only when it may.
Keeps == /\ Settled \subseteq Settled'
         /\ \A f \in Files : f \in Files' \/ Spare(f)'
         /\ \A f \in Vital : f \in spool \cup retired => Backed(f)'

-----------------------------------------------------------------------------
\* Types, and who may hold a flock, over the steps on the lock file.
LEMMA LockStep ==
    ASSUME TypeOK, HolderInside, NEW p \in Flusher,
           RunFlush(p) \/ Acquire(p) \/ Unlock(p) \/ UnlinkLock(p)
    PROVE  TypeOK' /\ HolderInside'
<1> USE FlushAssumption DEF TypeOK, HolderInside, Holding, Replaying, Goto, lockVars,
                            runVars, writeVars, fileVars, busVars, envVars
<1>1. CASE RunFlush(p)
  BY <1>1 DEF RunFlush
<1>2. CASE StatLock(p)
  BY <1>2 DEF StatLock
<1>3. CASE ReapOpen(p)
  BY <1>3 DEF ReapOpen
<1>4. CASE ReapLock(p)
  BY <1>4 DEF ReapLock, Flock, Contended
<1>5. CASE ReapUnlink(p)
  BY <1>5 DEF ReapUnlink
<1>6. CASE ReapClose(p)
  BY <1>6 DEF ReapClose
<1>7. CASE OpenLock(p)
  BY <1>7 DEF OpenLock, Unused
<1>8. CASE TryLock(p)
  <2>1. overlap' \in BOOLEAN
    BY <1>8, Zenon DEF TryLock
  <2>2. /\ pc[p] = "lock"
        /\ UNCHANGED <<path, stale, runVars, writeVars, fileVars, busVars, envVars>>
        /\ \/ Flock(p) /\ Goto(p, "scan")
           \/ Contended(p) /\ Goto(p, "idle")
    BY <1>8, Zenon DEF TryLock
  <2>3. CASE Flock(p) /\ Goto(p, "scan")
    BY <2>1, <2>2, <2>3 DEF Flock
  <2>4. CASE Contended(p) /\ Goto(p, "idle")
    BY <2>1, <2>2, <2>4 DEF Contended
  <2>5. QED
    BY <2>2, <2>3, <2>4
<1>9. CASE Unlock(p)
  BY <1>9 DEF Unlock, Forget
<1>10. CASE UnlinkLock(p)
  BY <1>10 DEF UnlinkLock
<1>11. QED
  BY <1>1, <1>2, <1>3, <1>4, <1>5, <1>6, <1>7, <1>8, <1>9, <1>10 DEF Acquire

\* A new spool file is a file, and later than all there are.
LEMMA NewFileTyped ==
    ASSUME TypeOK, Stamped, NEW m \in Message, Room
    PROVE  /\ NewFile(m) \in File /\ NewFile(m).msg = m /\ NewFile(m).at = writes + 1
           /\ writes \in Nat /\ writes + 1 \in 0..MaxWrites
           /\ NewFile(m) \notin spool \cup retired
<1>1. writes \in 0..MaxWrites /\ writes < MaxWrites /\ MaxWrites \in Nat
  BY FlushAssumption DEF TypeOK, Room
<1>2. writes + 1 \in 1..MaxWrites
  BY <1>1
<1>3. NewFile(m) \in File /\ NewFile(m).msg = m /\ NewFile(m).at = writes + 1
  BY <1>2 DEF File, NewFile
<1>4. \A f \in spool \cup retired : f.at <= writes
  BY DEF Stamped
<1>5. NewFile(m) \notin spool \cup retired
  BY <1>1, <1>3, <1>4
<1>6. QED
  BY <1>1, <1>2, <1>3, <1>5

LEMMA CreateTyped ==
    ASSUME TypeOK, Stamped, NEW m \in Message, Room, Create(m)
    PROVE  spool' \subseteq File /\ partial' \subseteq spool' /\ writes' \in 0..MaxWrites
BY NewFileTyped DEF Create, TypeOK

\* A publication, or the failure of one, changes what it may.
LEMMA BusTyped ==
    ASSUME TypeOK, NEW m \in Message,
           PublishRaises(m) \/ Unanswered(m) \/ (Deliver(m) /\ UNCHANGED excused)
    PROVE  /\ sent' \subseteq Message /\ doubled' \subseteq Message
           /\ excused' \subseteq Message
           /\ sent \subseteq sent' /\ excused \subseteq excused'
BY DEF PublishRaises, Unanswered, Deliver, TypeOK, busVars

\* A removal, too.
LEMMA RemoveTyped ==
    ASSUME TypeOK, NEW f, Remove(f), f.msg \in Message
    PROVE  spool' \subseteq File /\ partial' \subseteq spool' /\ excused' \subseteq Message
BY DEF Remove, TypeOK

\* What a scan keeps and what it moves to .retired/ are sets of spool files.
LEMMA ScanShape ==
    ASSUME NEW p \in Flusher, Scan(p)
    PROVE  \E kept \in SUBSET spool, out \in SUBSET spool :
             /\ out \subseteq kept /\ partial \cap out = {}
             /\ aged' = aged \cup Msgs(spool \ (kept \cup partial))
             /\ Mislay(partial \ kept)
             /\ partial' = partial \cap kept
             /\ spool' = kept \ out
             /\ Quarantine(out)
             /\ todo' = [todo EXCEPT ![p] = kept \ out]
             /\ \E back \in {retired \cup out, {}} : redo' = [redo EXCEPT ![p] = back]
<1>1. PICK n \in 0..writes, force \in BOOLEAN, bad \in SUBSET partial :
        LET kept == Young(spool \ bad, n)
            out == {f \in kept \ partial : f.msg \in Unknown \cup Outdated}
        IN  /\ aged' = aged \cup Msgs(spool \ (kept \cup partial))
            /\ Mislay(partial \ kept)
            /\ partial' = partial \cap kept
            /\ spool' = kept \ out
            /\ Quarantine(out)
            /\ todo' = [todo EXCEPT ![p] = kept \ out]
            /\ redo' = [redo EXCEPT ![p] = IF force THEN retired \cup out ELSE {}]
  BY DEF Scan
<1> DEFINE kept == Young(spool \ bad, n)
           out == {f \in kept \ partial : f.msg \in Unknown \cup Outdated}
           back == IF force THEN retired \cup out ELSE {}
<1>2. kept \in SUBSET spool /\ out \in SUBSET spool /\ out \subseteq kept /\ partial \cap out = {}
  BY DEF Young
<1>3. back \in {retired \cup out, {}}
  OBVIOUS
<1>4. /\ aged' = aged \cup Msgs(spool \ (kept \cup partial))
      /\ Mislay(partial \ kept)
      /\ partial' = partial \cap kept
      /\ spool' = kept \ out
      /\ Quarantine(out)
      /\ todo' = [todo EXCEPT ![p] = kept \ out]
      /\ redo' = [redo EXCEPT ![p] = back]
  BY <1>1
<1> HIDE DEF kept, out, back
<1>5. QED
  BY <1>2, <1>3, <1>4

\* The same over the steps of the replay.
LEMMA ReplayStep ==
    ASSUME TypeOK, HolderInside, Stamped, UnlinksSpare, NEW p \in Flusher, Replay(p)
    PROVE  TypeOK' /\ HolderInside'
<1> USE FlushAssumption DEF TypeOK, HolderInside, Holding, Replaying, Goto, lockVars,
                            runVars, writeVars, fileVars, busVars, envVars
<1>1. CASE Scan(p)
  <2>1. PICK kept \in SUBSET spool, out \in SUBSET spool, back \in SUBSET File :
          /\ out \subseteq kept /\ partial \cap out = {}
          /\ aged' = aged \cup Msgs(spool \ (kept \cup partial))
          /\ Mislay(partial \ kept)
          /\ partial' = partial \cap kept
          /\ spool' = kept \ out
          /\ Quarantine(out)
          /\ todo' = [todo EXCEPT ![p] = kept \ out]
          /\ redo' = [redo EXCEPT ![p] = back]
    <3>1. \A out \in SUBSET spool : \A back \in {retired \cup out, {}} : back \in SUBSET File
      OBVIOUS
    <3>2. QED
      BY <1>1, <3>1, ScanShape
  <2>2. aged' \subseteq Message /\ mislaid' \subseteq Message
    BY <2>1 DEF Msgs, Mislay, File
  <2>3. spool' \subseteq File /\ partial' \subseteq spool' /\ retired' \subseteq File
    BY <2>1 DEF Quarantine
  <2>4. redo' \in [Flusher -> SUBSET File] /\ todo' \in [Flusher -> SUBSET File]
    BY <2>1
  <2>5. /\ pc[p] = "scan" /\ Goto(p, "force")
        /\ UNCHANGED <<lockVars, done, copy, drafts, writes, recorded, busVars,
                       envVars, overlap>>
    BY <1>1 DEF Scan
  <2>6. QED
    BY <2>2, <2>3, <2>4, <2>5
<1>2. CASE ForceRetired(p)
  <2> DEFINE f == Oldest(redo[p])
  <2> HIDE DEF f
  <2>1. /\ ForceRefused(p, f) \/ ForceOk(p, f) \/ ForceUnanswered(p, f) \/ ForceBusDown(p, f)
        /\ pc[p] = "force"
        /\ UNCHANGED <<lockVars, todo, done, drafts, retired, aged, mislaid, envVars, overlap>>
    BY <1>2 DEF ForceRetired, f
  <2>2. CASE ForceRefused(p, f)
    BY <2>1, <2>2 DEF ForceRefused, Leave
  <2>3. CASE ForceOk(p, f)
    BY <2>1, <2>3 DEF ForceOk, Deliver, File
  <2>4. CASE ForceUnanswered(p, f)
    <3>1. f.msg \in Message
      BY <2>4 DEF ForceUnanswered, File
    <3>2. sent' \subseteq Message /\ doubled' \subseteq Message /\ excused' \subseteq Message
      BY <2>4, <3>1, BusTyped DEF ForceUnanswered
    <3>3. QED
      BY <2>1, <2>4, <3>2 DEF ForceUnanswered, Leave
  <2>5. CASE ForceBusDown(p, f)
    <3>1. f.msg \in Message
      BY <2>5 DEF ForceBusDown, File
    <3>2. CASE Room /\ Create(f.msg)
      <4>1. spool' \subseteq File /\ partial' \subseteq spool' /\ writes' \in 0..MaxWrites
        BY <3>1, <3>2, CreateTyped
      <4>2. NewFile(f.msg) \in File
        BY <3>1, <3>2, NewFileTyped
      <4>3. CASE Goto(p, "forceFill")
        <5>1. /\ copy' \in [Flusher -> File \cup {None}]
              /\ excused' \subseteq Message /\ sent' \subseteq Message
              /\ doubled' \subseteq Message /\ UNCHANGED <<redo, recorded>>
          <6>1. writes' # writes
            BY <3>2 DEF Create
          <6>2. /\ copy' = [copy EXCEPT ![p] = NewFile(f.msg)]
                /\ Deliver(f.msg) \/ UNCHANGED <<sent, doubled>>
                /\ excused' = excused \cup {f.msg}
                /\ UNCHANGED <<redo, recorded>>
            BY <2>5, <6>1 DEF ForceBusDown
          <6>3. QED
            BY <3>1, <4>2, <6>2 DEF Deliver
        <5>2. HolderInside'
          BY <2>1, <4>3
        <5>3. pc' \in [Flusher -> {"idle", "stat", "reapOpen", "reapLock", "reapUnlink",
                                   "reapClose", "open", "lock", "unlock", "unlinkLock"}
                                  \cup Replaying]
              /\ \A q \in Flusher : pc'[q] = "idle" => fd'[q] = None
          BY <2>1, <4>3
        <5>4. QED
          BY <2>1, <4>1, <5>1, <5>2, <5>3
      <4>4. QED
        <5>1. writes' # writes
          BY <3>2 DEF Create
        <5>2. QED
          BY <2>5, <4>3, <5>1 DEF ForceBusDown
    <3>3. CASE PublishRaises(f.msg) /\ UNCHANGED writeVars
      <4>1. sent' \subseteq Message /\ doubled' \subseteq Message /\ excused' \subseteq Message
        BY <3>1, <3>3, BusTyped
      <4>2. /\ redo' = Leave(redo, p, f) \/ UNCHANGED redo
            /\ Goto(p, "unlock") \/ UNCHANGED pc \/ Goto(p, "forceFill")
            /\ UNCHANGED recorded
        BY <2>5 DEF ForceBusDown
      <4>3. QED
        BY <2>1, <3>3, <4>1, <4>2 DEF Leave
    <3>4. QED
      BY <2>5, <3>2, <3>3 DEF ForceBusDown
  <2>6. QED
    BY <2>1, <2>2, <2>3, <2>4, <2>5
<1>8. CASE FillForced(p) \/ FillCopy(p)
  <2>1. /\ pc[p] \in {"forceFill", "fill"}
        /\ redo' = Leave(redo, p, Oldest(redo[p])) \/ UNCHANGED redo
        /\ \E l \in {"force", "unlinkOld"} : EndCopy(p, l)
    BY <1>8 DEF FillForced, FillCopy
  <2>2. QED
    BY <2>1 DEF EndCopy, Fill, Leave
<1>3. CASE ForceEnd(p)
  BY <1>3 DEF ForceEnd
<1>4. CASE UnlinkRetired(p)
  <2>1. Oldest(redo[p]).msg \in Message
    BY <1>4 DEF UnlinkRetired, UnlinksSpare, SpareAt, File
  <2>2. QED
    BY <1>4, <2>1 DEF UnlinkRetired, Leave
<1>5. CASE Drain(p)
  <2> DEFINE f == Newest(todo[p])
  <2> HIDE DEF f
  <2>1. /\ \/ DrainMissing(p, f) \/ DrainMalformed(p, f) \/ DrainRefused(p, f)
           \/ DrainOk(p, f) \/ DrainUnanswered(p, f) \/ DrainBusDown(p, f)
        /\ pc[p] = "drain"
        /\ UNCHANGED <<lockVars, redo, done, drafts, retired, aged, envVars, overlap>>
    BY <1>5 DEF Drain, f
  <2>2. CASE DrainMissing(p, f) \/ DrainRefused(p, f)
    BY <2>1, <2>2 DEF DrainMissing, DrainRefused, Leave
  <2>3. CASE DrainMalformed(p, f)
    <3>1. mislaid' \subseteq Message
      BY <2>3 DEF DrainMalformed, Mislay, Msgs, File
    <3>2. QED
      BY <2>1, <2>3, <3>1 DEF DrainMalformed, Leave
  <2>4. CASE DrainOk(p, f)
    BY <2>1, <2>4 DEF DrainOk, Legible, Deliver, File
  <2>5. CASE DrainUnanswered(p, f)
    <3>1. f.msg \in Message
      BY <2>5 DEF DrainUnanswered, Legible, File
    <3>2. sent' \subseteq Message /\ doubled' \subseteq Message /\ excused' \subseteq Message
      BY <2>5, <3>1, BusTyped DEF DrainUnanswered
    <3>3. QED
      BY <2>1, <2>5, <3>2 DEF DrainUnanswered
  <2>6. CASE DrainBusDown(p, f)
    <3>1. f.msg \in Message
      BY <2>6 DEF DrainBusDown, Legible, File
    <3>2. sent' \subseteq Message /\ doubled' \subseteq Message /\ excused' \subseteq Message
      BY <2>6, <3>1, BusTyped DEF DrainBusDown
    <3>3. CASE Room /\ Create(f.msg) /\ copy' = [copy EXCEPT ![p] = NewFile(f.msg)]
               /\ Goto(p, "fill")
      <4>1. spool' \subseteq File /\ partial' \subseteq spool' /\ writes' \in 0..MaxWrites
        BY <3>1, <3>3, CreateTyped
      <4>2. copy' \in [Flusher -> File \cup {None}]
        BY <3>1, <3>3, NewFileTyped
      <4>3. QED
        BY <2>1, <2>6, <3>2, <3>3, <4>1, <4>2 DEF DrainBusDown
    <3>4. CASE Goto(p, "unlock") /\ UNCHANGED writeVars
      BY <2>1, <2>6, <3>2, <3>4 DEF DrainBusDown
    <3>5. QED
      BY <2>6, <3>3, <3>4 DEF DrainBusDown
  <2>7. QED
    BY <2>1, <2>2, <2>3, <2>4, <2>5, <2>6
<1>6. CASE DrainEnd(p)
  BY <1>6 DEF DrainEnd
<1>7. CASE UnlinkEntry(p) \/ UnlinkOld(p)
  <2>1. Newest(todo[p]).msg \in Message /\ Remove(Newest(todo[p]))
    BY <1>7 DEF UnlinkEntry, UnlinkOld, UnlinksSpare, SpareAt, File
  <2>2. spool' \subseteq File /\ partial' \subseteq spool' /\ excused' \subseteq Message
    BY <2>1, RemoveTyped
  <2>3. CASE UnlinkEntry(p)
    BY <2>2, <2>3 DEF UnlinkEntry, Leave
  <2>4. CASE UnlinkOld(p)
    BY <2>2, <2>4 DEF UnlinkOld
  <2>5. QED
    BY <1>7, <2>3, <2>4
<1>9. QED
  BY <1>1, <1>2, <1>3, <1>4, <1>5, <1>6, <1>7, <1>8 DEF Replay

\* The same over the steps of the operators and of the environment.
LEMMA EnvironmentStep ==
    ASSUME TypeOK, HolderInside, Stamped, UnlinksSpare,
           \/ \E m \in Message : SpoolEnvelope(m)
           \/ \E f \in drafts : FillEnvelope(f)
           \/ \E p \in Flusher : Die(p)
           \/ GrowStale \/ BusRecovers
    PROVE  TypeOK' /\ HolderInside'
<1> USE FlushAssumption DEF TypeOK, HolderInside, Holding, Replaying, Goto, lockVars,
                            runVars, writeVars, fileVars, busVars, envVars
<1>1. ASSUME NEW m \in Message, SpoolEnvelope(m)
      PROVE  TypeOK' /\ HolderInside'
  <2>1. spool' \subseteq File /\ partial' \subseteq spool' /\ writes' \in 0..MaxWrites
    BY <1>1, CreateTyped DEF SpoolEnvelope
  <2>2. NewFile(m) \in File
    BY <1>1, NewFileTyped DEF SpoolEnvelope
  <2>3. sent' \subseteq Message /\ doubled' \subseteq Message /\ excused' \subseteq Message
    BY <1>1, BusTyped DEF SpoolEnvelope
  <2>4. QED
    BY <1>1, <2>1, <2>2, <2>3 DEF SpoolEnvelope
<1>2. ASSUME NEW f \in drafts, FillEnvelope(f)
      PROVE  TypeOK' /\ HolderInside'
  BY <1>2 DEF FillEnvelope, Fill, File
<1>3. ASSUME NEW p \in Flusher, Die(p)
      PROVE  TypeOK' /\ HolderInside'
  <2>1. excused' \subseteq Message
    <3>1. CASE pc[p] = "unlinkRetired"
      BY <1>3, <3>1 DEF Die, UnlinksSpare, SpareAt, File
    <3>2. CASE pc[p] \in {"unlinkEntry", "unlinkOld"}
      BY <1>3, <3>2 DEF Die, UnlinksSpare, SpareAt, File
    <3>3. CASE pc[p] \notin {"unlinkRetired", "unlinkEntry", "unlinkOld"}
      BY <1>3, <3>3 DEF Die
    <3>4. QED
      BY <3>1, <3>2, <3>3
  <2>2. /\ deaths < MaxDeaths /\ deaths' = deaths + 1
        /\ pc' = [pc EXCEPT ![p] = "idle"] /\ fd' = [fd EXCEPT ![p] = None]
        /\ holder' = [i \in Inode |-> IF holder[i] = p THEN None ELSE holder[i]]
        /\ Forget(p) /\ copy' = [copy EXCEPT ![p] = None]
        /\ UNCHANGED <<path, stale, spool, partial, writes, drafts, retired, aged, recorded,
                       mislaid, sent, doubled, steady, ages, begun, given, overlap>>
    BY <1>3 DEF Die
  <2>3. QED
    BY <2>1, <2>2 DEF Forget
<1>4. CASE GrowStale
  BY <1>4 DEF GrowStale
<1>5. CASE BusRecovers
  BY <1>5 DEF BusRecovers
<1>6. QED
  BY <1>1, <1>2, <1>3, <1>4, <1>5

-----------------------------------------------------------------------------
(* What may go stays so, and what goes may.                                *)

\* A file that may go may go after any step that keeps.
LEMMA SpareStays ==
    ASSUME TypeOK, TypeOK', Keeps, NEW f \in File, Spare(f)
    PROVE  Spare(f)'
<1>1. CASE f.msg \in Settled
  BY <1>1 DEF Keeps, Spare
<1>2. ASSUME NEW g \in Files, g.msg = f.msg, g.at > f.at
      PROVE  Spare(f)'
  <2>1. g \in File
    BY DEF Files, TypeOK
  <2>2. CASE g \in Files'
    BY <1>2, <2>2 DEF Spare
  <2>3. CASE g.msg \in Settled'
    BY <1>2, <2>3 DEF Spare
  <2>4. ASSUME NEW h \in Files', h.msg = g.msg, h.at > g.at
        PROVE  Spare(f)'
    <3>1. h \in File
      BY DEF Files, TypeOK
    <3>2. h.at > f.at
      BY <1>2, <2>1, <2>4, <3>1 DEF File
    <3>3. QED
      BY <1>2, <2>4, <3>2 DEF Spare
  <2>5. QED
    BY <2>2, <2>3, <2>4 DEF Keeps, Spare
<1>3. QED
  BY <1>1, <1>2 DEF Spare

\* A file that is older than one that may go may go.
LEMMA SpareOlder ==
    ASSUME NEW f \in File, NEW g \in File, f.msg = g.msg, g.at > f.at, Spare(g),
           Files \subseteq File
    PROVE  Spare(f)
<1>1. CASE g.msg \in Settled
  BY <1>1 DEF Spare
<1>2. ASSUME NEW h \in Files, h.msg = g.msg, h.at > g.at
      PROVE  Spare(f)
  <2>1. h.at > f.at
    BY <1>2 DEF File
  <2>2. QED
    BY <1>2, <2>1 DEF Spare
<1>3. QED
  BY <1>1, <1>2 DEF Spare

\* A file that is being filled stays backed after any step that keeps.
LEMMA BackedStays ==
    ASSUME TypeOK, TypeOK', Keeps, NEW f \in File, f \in Vital, Backed(f)
    PROVE  Backed(f)'
<1>1. CASE f \in spool \cup retired
  BY <1>1 DEF Keeps
<1>2. CASE Spare(f)
  BY <1>2, SpareStays DEF Backed
<1>3. QED
  BY <1>1, <1>2 DEF Backed

\* A step that only adds: files, contents of files, and settled messages.
LEMMA FilesGrow ==
    ASSUME spool \subseteq spool', retired \subseteq retired', sent \subseteq sent',
           aged \subseteq aged', recorded \subseteq recorded', mislaid \subseteq mislaid',
           \A f \in spool \cup retired : f \in partial' => f \in partial
    PROVE  Keeps
BY DEF Keeps, Files, Settled, Backed

\* A new file adds.
LEMMA CreateGrows ==
    ASSUME TypeOK, Stamped, NEW m \in Message, Room, Create(m),
           UNCHANGED <<retired, aged, recorded, mislaid>>, sent \subseteq sent'
    PROVE  Keeps
<1>1. spool \subseteq spool' /\ \A f \in spool \cup retired : f \in partial' => f \in partial
  BY NewFileTyped DEF Create
<1>2. QED
  BY <1>1, FilesGrow

\* The removal of a file that may go keeps, and so does the failure of one.
LEMMA RemoveKeeps ==
    ASSUME TypeOK, NEW f \in File, Spare(f), Remove(f),
           UNCHANGED <<retired, sent, aged, recorded, mislaid>>
    PROVE  Keeps
<1>1. CASE UNCHANGED <<spool, partial>>
  BY <1>1, FilesGrow
<1>2. CASE spool' = spool \ {f} /\ partial' = partial \ {f}
  <2>1. Settled' = Settled /\ Files \ {f} \subseteq Files'
    BY <1>2 DEF Settled, Files
  <2>2. \A g \in Files : g.at > f.at => g # f
    BY DEF File
  <2>3. Spare(f)'
    <3>1. CASE f.msg \in Settled
      BY <3>1, <2>1 DEF Spare
    <3>2. ASSUME NEW g \in Files, g.msg = f.msg, g.at > f.at
          PROVE  Spare(f)'
      <4>1. g \in Files'
        BY <2>1, <2>2, <3>2
      <4>2. QED
        BY <3>2, <4>1 DEF Spare
    <3>3. QED
      BY <3>1, <3>2 DEF Spare
  <2>4. \A g \in spool \cup retired : g = f \/ g \in spool' \cup retired'
    BY <1>2
  <2>5. QED
    BY <2>1, <2>3, <2>4 DEF Keeps, Backed
<1>3. QED
  BY <1>1, <1>2 DEF Remove

\* Every step keeps.
LEMMA KeepsStep ==
    ASSUME TypeOK, Stamped, UnlinksSpare, Next
    PROVE  Keeps
<1> USE DEF lockVars, runVars, writeVars, fileVars, busVars, envVars
<1>1. ASSUME NEW m \in Message, SpoolEnvelope(m)
      PROVE  Keeps
  <2>1. sent \subseteq sent'
    BY <1>1, BusTyped DEF SpoolEnvelope
  <2>2. QED
    BY <1>1, <2>1, CreateGrows DEF SpoolEnvelope
<1>2. ASSUME NEW f \in drafts, FillEnvelope(f)
      PROVE  Keeps
  BY <1>2, FilesGrow DEF FillEnvelope, Fill
<1>3. ASSUME NEW p \in Flusher,
             RunFlush(p) \/ Acquire(p) \/ Unlock(p) \/ UnlinkLock(p) \/ Die(p)
      PROVE  Keeps
  <2>1. UNCHANGED <<spool, partial, retired, sent, aged, recorded, mislaid>>
    BY <1>3 DEF RunFlush, Acquire, StatLock, ReapOpen, ReapLock, ReapUnlink, ReapClose,
                OpenLock, TryLock, Unlock, UnlinkLock, Die
  <2>2. QED
    BY <2>1, FilesGrow
<1>4. ASSUME NEW p \in Flusher, Replay(p)
      PROVE  Keeps
  <2>1. CASE Scan(p)
    <3>1. PICK kept \in SUBSET spool, out \in SUBSET spool :
            /\ aged' = aged \cup Msgs(spool \ (kept \cup partial))
            /\ Mislay(partial \ kept)
            /\ partial' = partial \cap kept /\ partial \cap out = {} /\ out \subseteq kept
            /\ spool' = kept \ out
            /\ Quarantine(out)
      BY <2>1 DEF Scan, Young
    <3>2. UNCHANGED <<sent, recorded>>
      BY <2>1 DEF Scan
    <3>3. Settled \subseteq Settled'
      BY <3>1, <3>2 DEF Settled, Mislay
    <3>4. ASSUME NEW f \in Files
          PROVE  f \in Files' \/ Spare(f)'
      <4>1. CASE f \in spool /\ f \notin kept
        <5>1. f.msg \in aged'
          BY <3>1, <4>1 DEF Files, Msgs
        <5>2. QED
          BY <5>1 DEF Spare, Settled
      <4>2. CASE f \in kept \/ f \in retired
        BY <3>1, <4>2 DEF Files, Quarantine
      <4>3. QED
        BY <4>1, <4>2 DEF Files
    <3>5. ASSUME NEW f \in Vital, f \in spool \cup retired
          PROVE  Backed(f)'
      <4>1. CASE f \in spool /\ f \notin kept /\ f \in partial
        <5>1. f.msg \in mislaid'
          BY <3>1, <4>1 DEF Mislay, Msgs
        <5>2. QED
          BY <5>1 DEF Backed, Spare, Settled
      <4>2. CASE f \in spool /\ f \notin kept /\ f \notin partial
        <5>1. f.msg \in aged'
          BY <3>1, <4>2 DEF Msgs
        <5>2. QED
          BY <5>1 DEF Backed, Spare, Settled
      <4>3. CASE f \in kept \/ f \in retired
        BY <3>1, <4>3 DEF Backed, Quarantine
      <4>4. QED
        BY <3>5, <4>1, <4>2, <4>3
    <3>6. QED
      BY <3>3, <3>4, <3>5 DEF Keeps
  <2>2. CASE ForceRetired(p)
    <3>1. PICK f : /\ \/ ForceRefused(p, f) \/ ForceOk(p, f)
                      \/ ForceUnanswered(p, f) \/ ForceBusDown(p, f)
                   /\ UNCHANGED <<retired, aged, mislaid>>
      BY <2>2 DEF ForceRetired
    <3>2. CASE ForceRefused(p, f) \/ ForceOk(p, f) \/ ForceUnanswered(p, f)
      BY <3>1, <3>2, FilesGrow DEF ForceRefused, ForceOk, ForceUnanswered, Unanswered, Deliver
    <3>3. CASE ForceBusDown(p, f)
      <4>1. f.msg \in Message
        BY <3>3 DEF ForceBusDown, TypeOK, File
      <4>2. sent \subseteq sent' /\ UNCHANGED recorded
        BY <3>3 DEF ForceBusDown, PublishRaises, Deliver
      <4>3. CASE Room /\ Create(f.msg)
        BY <3>1, <4>1, <4>2, <4>3, CreateGrows
      <4>4. CASE UNCHANGED writeVars
        BY <3>1, <4>2, <4>4, FilesGrow
      <4>5. QED
        BY <3>3, <4>3, <4>4 DEF ForceBusDown
    <3>4. QED
      BY <3>1, <3>2, <3>3
  <2>3. CASE UnlinkRetired(p)
    <3>1. Oldest(redo[p]).msg \in Settled
      BY <2>3 DEF UnlinkRetired, UnlinksSpare, SpareAt
    <3>2. /\ retired' = retired \ {Oldest(redo[p])} \/ UNCHANGED retired
          /\ UNCHANGED <<spool, partial, sent, aged, recorded, mislaid>>
      BY <2>3 DEF UnlinkRetired
    <3>3. Settled' = Settled
      BY <3>2 DEF Settled
    <3>4. QED
      BY <3>1, <3>2, <3>3 DEF Keeps, Files, Spare, Backed
  <2>4. CASE Drain(p)
    <3>1. PICK f : /\ \/ DrainMissing(p, f) \/ DrainMalformed(p, f) \/ DrainRefused(p, f)
                      \/ DrainOk(p, f) \/ DrainUnanswered(p, f) \/ DrainBusDown(p, f)
                   /\ UNCHANGED <<retired, aged>>
      BY <2>4 DEF Drain
    <3>2. CASE DrainMissing(p, f) \/ DrainRefused(p, f) \/ DrainOk(p, f) \/ DrainUnanswered(p, f)
      BY <3>1, <3>2, FilesGrow DEF DrainMissing, DrainRefused, DrainOk, DrainUnanswered,
                                   Unanswered, Deliver
    <3>3. CASE DrainMalformed(p, f)
      <4>1. /\ f \in spool /\ f \in partial
            /\ spool' = spool \ {f} /\ partial' = partial \ {f}
            /\ Mislay({f}) /\ UNCHANGED <<sent, recorded>>
        BY <3>3 DEF DrainMalformed
      <4>2. Settled \subseteq Settled' /\ Files \subseteq Files'
        BY <3>1, <4>1 DEF Settled, Files, Mislay
      <4>3. f \in Vital => f.msg \in mislaid'
        BY <4>1 DEF Mislay, Msgs
      <4>4. f \in Vital => Spare(f)'
        BY <4>3 DEF Spare, Settled
      <4>5. QED
        BY <3>1, <4>1, <4>2, <4>4 DEF Keeps, Backed
    <3>4. CASE DrainBusDown(p, f)
      <4>1. f.msg \in Message
        BY <3>4 DEF DrainBusDown, Legible, TypeOK, File
      <4>2. sent \subseteq sent' /\ UNCHANGED <<recorded, mislaid>>
        BY <3>4 DEF DrainBusDown, PublishRaises, Deliver
      <4>3. CASE Room /\ Create(f.msg)
        BY <3>1, <4>1, <4>2, <4>3, CreateGrows
      <4>4. CASE UNCHANGED writeVars
        BY <3>1, <4>2, <4>4, FilesGrow
      <4>5. QED
        BY <3>4, <4>3, <4>4 DEF DrainBusDown
    <3>5. QED
      BY <3>1, <3>2, <3>3, <3>4
  <2>5. CASE UnlinkEntry(p) \/ UnlinkOld(p)
    <3>1. PICK f \in File : f = Newest(todo[p]) /\ Spare(f)
      BY <2>5 DEF UnlinkEntry, UnlinkOld, UnlinksSpare, SpareAt, Spare
    <3>2. Remove(f) /\ UNCHANGED <<retired, sent, aged, recorded, mislaid>>
      BY <2>5, <3>1 DEF UnlinkEntry, UnlinkOld
    <3>3. QED
      BY <3>1, <3>2, RemoveKeeps
  <2>6. CASE FillForced(p) \/ FillCopy(p)
    <3>1. \E l : EndCopy(p, l)
      BY <2>6 DEF FillForced, FillCopy
    <3>2. QED
      BY <3>1, FilesGrow DEF EndCopy, Fill
  <2>7. CASE ForceEnd(p) \/ DrainEnd(p)
    BY <2>7, FilesGrow DEF ForceEnd, DrainEnd
  <2>8. QED
    BY <1>4, <2>1, <2>2, <2>3, <2>4, <2>5, <2>6, <2>7 DEF Replay
<1>5. CASE GrowStale \/ BusRecovers
  BY <1>5, FilesGrow DEF GrowStale, BusRecovers
<1>6. QED
  BY <1>1, <1>2, <1>3, <1>4, <1>5 DEF Next, Flush

-----------------------------------------------------------------------------
(* The invariant.                                                          *)

\* New files are stamped with the new time of the clock.
LEMMA StampedStep ==
    ASSUME TypeOK, Stamped, Next
    PROVE  Stamped'
<1> USE DEF TypeOK, Stamped, lockVars, runVars, writeVars, fileVars, busVars, envVars
<1>1. writes \in Nat /\ \A f \in File : f.at \in Nat
  BY FlushAssumption DEF File
<1>2. CASE UNCHANGED <<spool, retired, writes>>
  BY <1>2
<1>3. ASSUME NEW m, Create(m), UNCHANGED retired
      PROVE  Stamped'
  BY <1>1, <1>3 DEF Create, NewFile
<1>4. CASE spool' \cup retired' \subseteq spool \cup retired /\ UNCHANGED writes
  BY <1>4
<1>5. ASSUME NEW m \in Message, SpoolEnvelope(m)
      PROVE  Stamped'
  BY <1>3, <1>5 DEF SpoolEnvelope
<1>6. ASSUME NEW p \in Flusher, Flush(p) \/ Die(p)
      PROVE  Stamped'
  <2>1. CASE RunFlush(p) \/ Acquire(p) \/ Unlock(p) \/ UnlinkLock(p) \/ Die(p)
    <3>1. UNCHANGED <<spool, retired, writes>>
      BY <2>1 DEF RunFlush, Acquire, StatLock, ReapOpen, ReapLock, ReapUnlink, ReapClose,
                  OpenLock, TryLock, Unlock, UnlinkLock, Die
    <3>2. QED
      BY <3>1, <1>2
  <2>2. CASE FillForced(p) \/ FillCopy(p)
    BY <2>2, <1>2 DEF FillForced, FillCopy, EndCopy
  <2>3. CASE Scan(p)
    BY <2>3, <1>4 DEF Scan, Young, Quarantine
  <2>4. CASE ForceRetired(p)
    BY <2>4, <1>2, <1>3 DEF ForceRetired, ForceRefused, ForceOk, ForceUnanswered, ForceBusDown
  <2>5. CASE Drain(p)
    BY <2>5, <1>2, <1>3, <1>4 DEF Drain, DrainMissing, DrainMalformed, DrainRefused, DrainOk,
                                  DrainUnanswered, DrainBusDown
  <2>6. CASE UnlinkRetired(p) \/ UnlinkEntry(p) \/ UnlinkOld(p)
    BY <2>6, <1>4 DEF UnlinkRetired, UnlinkEntry, UnlinkOld, Remove
  <2>7. CASE ForceEnd(p) \/ DrainEnd(p)
    BY <2>7, <1>2 DEF ForceEnd, DrainEnd
  <2>8. QED
    BY <1>6, <2>1, <2>2, <2>3, <2>4, <2>5, <2>6, <2>7 DEF Flush, Replay
<1>7. CASE (\E f \in drafts : FillEnvelope(f)) \/ GrowStale \/ BusRecovers
  BY <1>7, <1>2 DEF FillEnvelope, GrowStale, BusRecovers
<1>8. QED
  BY <1>5, <1>6, <1>7 DEF Next

\* A flusher that takes no step keeps its place and its local variables.
Bystander(q) == /\ pc'[q] = pc[q] /\ redo'[q] = redo[q] /\ todo'[q] = todo[q]
                /\ copy'[q] = copy[q]

\* A step of one flusher leaves the others where they are.
LEMMA OthersStay ==
    ASSUME TypeOK, NEW p \in Flusher, Flush(p) \/ Die(p), NEW q \in Flusher, q # p
    PROVE  Bystander(q)
<1> USE DEF TypeOK, Bystander, Goto, lockVars, runVars, writeVars, fileVars, busVars, envVars
<1>1. CASE RunFlush(p) \/ Acquire(p) \/ Unlock(p) \/ UnlinkLock(p)
  BY <1>1 DEF RunFlush, Acquire, StatLock, ReapOpen, ReapLock, ReapUnlink, ReapClose,
              OpenLock, TryLock, Unlock, UnlinkLock, Forget
<1>2. CASE Scan(p) \/ UnlinkRetired(p) \/ UnlinkEntry(p) \/ UnlinkOld(p)
           \/ ForceEnd(p) \/ DrainEnd(p) \/ FillForced(p) \/ FillCopy(p)
  BY <1>2 DEF Scan, UnlinkRetired, UnlinkEntry, UnlinkOld, ForceEnd, DrainEnd, FillForced,
              FillCopy, EndCopy, Leave
<1>3. CASE ForceRetired(p)
  BY <1>3 DEF ForceRetired, ForceRefused, ForceOk, ForceUnanswered, ForceBusDown, Leave
<1>4. CASE Drain(p)
  BY <1>4 DEF Drain, DrainMissing, DrainMalformed, DrainRefused, DrainOk, DrainUnanswered,
              DrainBusDown, Leave
<1>5. CASE Die(p)
  BY <1>5 DEF Die, Forget
<1>6. QED
  BY <1>1, <1>2, <1>3, <1>4, <1>5 DEF Flush, Replay

\* What a bystander is about to unlink may still go, and what it is filling is
\* still worth it.
LEMMA BystanderSpare ==
    ASSUME TypeOK, TypeOK', Keeps, NEW q \in Flusher, SpareAt(q), Bystander(q)
    PROVE  SpareAt(q)'
<1>1. Settled \subseteq Settled'
  BY DEF Keeps
<1>2. ASSUME pc[q] = "unlinkOld"
      PROVE  Spare(Newest(todo[q]))'
  <2>1. PICK f \in File : f = Newest(todo[q]) /\ Spare(f)
    BY <1>2 DEF SpareAt
  <2>2. Spare(f)'
    BY <2>1, SpareStays
  <2>3. f = Newest(todo[q])'
    BY <2>1 DEF Bystander
  <2>4. QED
    BY <2>2, <2>3
<1>3. ASSUME pc[q] = "fill"
      PROVE  Backed(copy[q])'
  <2>1. PICK f \in File : f = copy[q] /\ Backed(f)
    BY <1>3 DEF SpareAt
  <2>2. f \in Vital
    BY <1>3, <2>1 DEF Vital
  <2>3. Backed(f)'
    BY <2>1, <2>2, BackedStays
  <2>4. f = copy[q]'
    BY <2>1 DEF Bystander
  <2>5. QED
    BY <2>3, <2>4
<1>4. QED
  BY <1>1, <1>2, <1>3 DEF SpareAt, Bystander

Delicate == {"unlinkRetired", "unlinkEntry", "unlinkOld", "fill"}

\* And so it is with the acting flusher: what it unlinks next was published, or
\* written anew with a later stamp.
LEMMA UnlinksStep ==
    ASSUME TypeOK, TypeOK', Stamped, UnlinksSpare, Keeps, Next
    PROVE  UnlinksSpare'
<1> USE DEF lockVars, runVars, writeVars, fileVars, busVars, envVars
<1>1. \A q \in Flusher : SpareAt(q)
  BY DEF UnlinksSpare
<1>2. SUFFICES ASSUME NEW q \in Flusher
               PROVE  SpareAt(q)'
  BY <1>2 DEF UnlinksSpare
<1>3. CASE Bystander(q)
  BY <1>1, <1>3, BystanderSpare
<1>4. CASE \/ \E m \in Message : SpoolEnvelope(m)
           \/ \E f \in drafts : FillEnvelope(f)
           \/ GrowStale \/ BusRecovers
  BY <1>3, <1>4 DEF SpoolEnvelope, FillEnvelope, GrowStale, BusRecovers, Bystander
<1>5. ASSUME pc'[q] \notin Delicate
      PROVE  SpareAt(q)'
  BY <1>5 DEF SpareAt, Delicate
<1>6. ASSUME Flush(q) \/ Die(q)
      PROVE  SpareAt(q)'
  <2> USE DEF Goto, TypeOK, Delicate
  <2>1. CASE RunFlush(q) \/ Acquire(q) \/ Unlock(q) \/ UnlinkLock(q)
    BY <2>1, <1>5 DEF RunFlush, Acquire, StatLock, ReapOpen, ReapLock, ReapUnlink,
                      ReapClose, OpenLock, TryLock, Unlock, UnlinkLock
  <2>2. CASE Scan(q) \/ UnlinkRetired(q) \/ UnlinkEntry(q) \/ UnlinkOld(q)
             \/ ForceEnd(q) \/ DrainEnd(q) \/ FillForced(q)
    BY <2>2, <1>5 DEF Scan, UnlinkRetired, UnlinkEntry, UnlinkOld, ForceEnd, DrainEnd,
                      FillForced, EndCopy
  <2>3. CASE ForceRetired(q)
    <3>1. PICK f : /\ f = Oldest(redo[q]) /\ pc[q] = "force"
                   /\ \/ ForceRefused(q, f) \/ ForceOk(q, f)
                      \/ ForceUnanswered(q, f) \/ ForceBusDown(q, f)
                   /\ UNCHANGED <<aged, mislaid>>
      BY <2>3 DEF ForceRetired
    <3>2. CASE ForceOk(q, f)
      <4>1. f \in File /\ f.msg \in Settled'
        BY <3>1, <3>2 DEF ForceOk, Deliver, Settled
      <4>2. pc'[q] = "unlinkRetired" /\ Oldest(redo'[q]) = f
        BY <3>1, <3>2 DEF ForceOk
      <4>3. QED
        BY <4>1, <4>2 DEF SpareAt
    <3>3. CASE ForceRefused(q, f) \/ ForceUnanswered(q, f) \/ ForceBusDown(q, f)
      BY <3>1, <3>3, <1>5 DEF ForceRefused, ForceUnanswered, ForceBusDown
    <3>4. QED
      BY <3>1, <3>2, <3>3
  <2>4. CASE Drain(q)
    <3>1. PICK f : /\ f = Newest(todo[q]) /\ pc[q] = "drain"
                   /\ \/ DrainMissing(q, f) \/ DrainMalformed(q, f) \/ DrainRefused(q, f)
                      \/ DrainOk(q, f) \/ DrainUnanswered(q, f) \/ DrainBusDown(q, f)
                   /\ UNCHANGED aged
      BY <2>4 DEF Drain
    <3>2. CASE DrainOk(q, f)
      <4>1. f \in File /\ f.msg \in Settled'
        BY <3>1, <3>2 DEF DrainOk, Legible, Deliver, Settled
      <4>2. pc'[q] = "unlinkEntry" /\ Newest(todo'[q]) = f
        BY <3>1, <3>2 DEF DrainOk
      <4>3. QED
        BY <4>1, <4>2 DEF SpareAt
    <3>3. CASE DrainBusDown(q, f)
      <4>1. CASE /\ Room /\ Create(f.msg) /\ Goto(q, "fill")
                 /\ copy' = [copy EXCEPT ![q] = NewFile(f.msg)]
        <5>1. f \in File /\ f.msg \in Message /\ f.at <= writes /\ f.at \in Nat
          BY <3>3, FlushAssumption DEF DrainBusDown, Legible, Stamped, File
        <5>2. PICK g \in File : /\ g = NewFile(f.msg) /\ g.msg = f.msg
                                /\ g.at = writes + 1 /\ writes \in Nat
          BY <4>1, <5>1, NewFileTyped
        <5>3. g.at > f.at
          BY <5>1, <5>2
        <5>4. Backed(g)'
          BY <4>1, <5>2 DEF Create, Backed
        <5>5. f = Newest(todo'[q]) /\ pc'[q] = "fill" /\ copy'[q] = g
          BY <3>1, <3>3, <4>1, <5>2 DEF DrainBusDown
        <5>6. QED
          BY <5>1, <5>2, <5>3, <5>4, <5>5 DEF SpareAt
      <4>2. CASE Goto(q, "unlock")
        BY <4>2, <1>5
      <4>3. QED
        BY <3>3, <4>1, <4>2 DEF DrainBusDown
    <3>4. CASE DrainMissing(q, f) \/ DrainMalformed(q, f) \/ DrainRefused(q, f)
               \/ DrainUnanswered(q, f)
      BY <3>1, <3>4, <1>5 DEF DrainMissing, DrainMalformed, DrainRefused, DrainUnanswered
    <3>5. QED
      BY <3>1, <3>2, <3>3, <3>4
  <2>5. CASE FillCopy(q)
    <3>1. pc[q] = "fill" /\ EndCopy(q, "unlinkOld")
      BY <2>5 DEF FillCopy
    <3>2. PICK f \in File, g \in File : /\ f = Newest(todo[q]) /\ g = copy[q]
                                        /\ g.msg = f.msg /\ g.at > f.at /\ Backed(g)
      BY <1>1, <3>1 DEF SpareAt
    <3>3. CASE Fill(g) /\ Goto(q, "unlinkOld")
      <4>1. CASE g \in spool \cup retired
        <5>1. g \in Files'
          BY <3>1, <3>3, <4>1 DEF EndCopy, Fill, Files
        <5>2. QED
          <6>1. Spare(f)'
            BY <3>2, <5>1 DEF Spare
          <6>2. f = Newest(todo'[q]) /\ pc'[q] = "unlinkOld"
            BY <3>1, <3>2, <3>3 DEF EndCopy
          <6>3. QED
            BY <6>1, <6>2 DEF SpareAt
      <4>2. CASE Spare(g)
        <5>1. Spare(f)
          <6>1. Files \subseteq File
            BY DEF Files
          <6>2. QED
            BY <3>2, <4>2, <6>1, SpareOlder
        <5>2. Spare(f)'
          BY <5>1, SpareStays
        <5>3. f = Newest(todo'[q]) /\ pc'[q] = "unlinkOld"
          BY <3>1, <3>2, <3>3 DEF EndCopy
        <5>4. QED
          BY <5>2, <5>3 DEF SpareAt
      <4>3. QED
        BY <3>2, <4>1, <4>2 DEF Backed
    <3>4. CASE Goto(q, "unlock")
      BY <3>4, <1>5
    <3>5. QED
      BY <3>1, <3>2, <3>3, <3>4 DEF EndCopy
  <2>6. CASE Die(q)
    BY <2>6, <1>5 DEF Die
  <2>7. QED
    BY <1>6, <2>1, <2>2, <2>3, <2>4, <2>5, <2>6 DEF Flush, Replay
<1>7. ASSUME NEW p \in Flusher, p # q, Flush(p) \/ Die(p)
      PROVE  SpareAt(q)'
  BY <1>3, <1>7, OthersStay
<1>8. QED
  BY <1>4, <1>6, <1>7 DEF Next

\* Flushers do not touch what operators write, nor what they were told.
LEMMA OperatorsOnly ==
    ASSUME NEW p \in Flusher, Flush(p) \/ Die(p)
    PROVE  UNCHANGED <<drafts, begun, given>>
<1> USE DEF lockVars, runVars, writeVars, fileVars, busVars, envVars
<1>1. CASE RunFlush(p) \/ Acquire(p) \/ Unlock(p) \/ UnlinkLock(p) \/ Die(p)
  BY <1>1 DEF RunFlush, Acquire, StatLock, ReapOpen, ReapLock, ReapUnlink,
              ReapClose, OpenLock, TryLock, Unlock, UnlinkLock, Die
<1>2. CASE Replay(p)
  BY <1>2 DEF Replay, Scan, UnlinkRetired, UnlinkEntry, UnlinkOld, ForceEnd, DrainEnd,
              ForceRetired, FillForced, FillCopy, EndCopy, Drain
<1>3. QED
  BY <1>1, <1>2 DEF Flush

LEMMA DraftsStep ==
    ASSUME TypeOK, TypeOK', DraftsBacked, Keeps, Next
    PROVE  DraftsBacked'
<1> USE DEF lockVars, runVars, writeVars, fileVars, busVars, envVars
<1>1. \A f \in drafts : Backed(f)'
  BY BackedStays DEF DraftsBacked, Vital, TypeOK
<1>2. ASSUME NEW m \in Message, SpoolEnvelope(m)
      PROVE  DraftsBacked'
  <2>1. PICK g : drafts' = drafts \cup {g} /\ g \in spool'
    BY <1>2 DEF SpoolEnvelope, Create
  <2>2. Backed(g)'
    BY <2>1 DEF Backed
  <2>3. QED
    BY <1>1, <2>1, <2>2 DEF DraftsBacked
<1>3. ASSUME drafts' \subseteq drafts
      PROVE  DraftsBacked'
  BY <1>1, <1>3 DEF DraftsBacked
<1>4. ASSUME NEW p \in Flusher, Flush(p) \/ Die(p)
      PROVE  drafts' \subseteq drafts
  BY <1>4, OperatorsOnly
<1>5. QED
  BY <1>2, <1>3, <1>4 DEF Next, FillEnvelope, GrowStale, BusRecovers

\* A step that keeps loses no message.
LEMMA NothingLostStep ==
    ASSUME TypeOK, TypeOK', NothingLost, DraftsBacked, Keeps, Next
    PROVE  NothingLost'
<1> USE DEF lockVars, runVars, writeVars, fileVars, busVars, envVars
<1>1. \A f \in Files : f.msg \in Msgs(Files') \cup Settled'
  BY DEF Keeps, Spare, Msgs
<1>2. \A m \in given : m \in Msgs(Files') \cup Settled'
  <2>1. SUFFICES ASSUME NEW m \in given
                 PROVE  m \in Msgs(Files') \cup Settled'
    OBVIOUS
  <2>2. m \in Msgs(Files) \cup Settled
    BY DEF NothingLost, Files, Settled
  <2>3. CASE m \in Settled
    BY <2>3 DEF Keeps
  <2>4. CASE m \in Msgs(Files)
    BY <2>4, <1>1 DEF Msgs
  <2>5. QED
    BY <2>2, <2>3, <2>4
<1>3. ASSUME NEW f \in drafts, FillEnvelope(f)
      PROVE  NothingLost'
  <2>1. CASE given' = given
    BY <1>2, <2>1 DEF NothingLost, Files, Settled
  <2>2. CASE Fill(f) /\ given' = given \cup {f.msg}
    <3>1. f.msg \in Msgs(Files') \cup Settled'
      <4>1. CASE f \in spool \cup retired
        <5>1. f \in Files'
          BY <1>3, <2>2, <4>1 DEF FillEnvelope, Fill, Files
        <5>2. QED
          BY <5>1 DEF Msgs
      <4>2. CASE Spare(f)
        <5>1. f \in File
          BY DEF TypeOK
        <5>2. Spare(f)'
          BY <4>2, <5>1, SpareStays
        <5>3. QED
          BY <5>2 DEF Spare, Msgs
      <4>3. QED
        BY <4>1, <4>2 DEF DraftsBacked, Backed
    <3>2. QED
      BY <1>2, <2>2, <3>1 DEF NothingLost, Files, Settled
  <2>3. QED
    BY <1>3, <2>1, <2>2 DEF FillEnvelope
<1>4. ASSUME given' = given
      PROVE  NothingLost'
  BY <1>2, <1>4 DEF NothingLost, Files, Settled
<1>5. ASSUME NEW p \in Flusher, Flush(p) \/ Die(p)
      PROVE  given' = given
  BY <1>5, OperatorsOnly
<1>6. QED
  BY <1>3, <1>4, <1>5 DEF Next, SpoolEnvelope, GrowStale, BusRecovers

\* The invariant holds in every reachable state.
LEMMA InvariantHolds == Spec => []IInv
<1>1. Init => IInv
  <2>1. Init => TypeOK /\ HolderInside
    <3>1. SUFFICES ASSUME Init
                   PROVE  TypeOK /\ HolderInside
      OBVIOUS
    <3>2. overlap \in BOOLEAN /\ steady \in BOOLEAN
      BY <3>1, Zenon DEF Init
    <3>3. /\ 0 \in 0..MaxWrites /\ 0 \in 0..MaxAges /\ 0 \in 0..MaxDeaths
      BY FlushAssumption
    <3>4. HolderInside
      BY <3>1 DEF Init, HolderInside
    <3>5. QED
      BY <3>1, <3>2, <3>3, <3>4 DEF Init, TypeOK, Replaying
  <2>2. Init => Stamped /\ UnlinksSpare /\ DraftsBacked /\ NothingLost
    BY DEF Init, Stamped, UnlinksSpare, SpareAt, DraftsBacked, NothingLost
  <2>3. QED
    BY <2>1, <2>2 DEF IInv
<1>2. IInv /\ [Next]_vars => IInv'
  <2>1. ASSUME IInv, Next
        PROVE  IInv'
    <3>1. TypeOK' /\ HolderInside'
      BY <2>1, LockStep, ReplayStep, EnvironmentStep DEF IInv, Next, Flush
    <3>2. Keeps
      BY <2>1, KeepsStep DEF IInv
    <3>3. QED
      BY <2>1, <3>1, <3>2, StampedStep, UnlinksStep, DraftsStep,
         NothingLostStep DEF IInv
  <2>2. ASSUME IInv, UNCHANGED vars
        PROVE  IInv'
    BY <2>2 DEF IInv, vars, lockVars, runVars, writeVars, fileVars, busVars, envVars, TypeOK,
                HolderInside, Stamped, UnlinksSpare, SpareAt, NothingLost, Spare, Settled, Files,
                Backed, DraftsBacked
  <2>3. QED
    BY <2>1, <2>2
<1>3. QED
  BY <1>1, <1>2, PTL DEF Spec

\* The variables of the spool flush have their types in every reachable state:
\* flocks are held through open descriptors, and spool files stay files.
THEOREM TypeCorrect == Spec => []TypeOK
BY InvariantHolds, PTL DEF IInv

\* No message of the operator spool is lost, however many flushers replay it
\* at once, fail or die: run() of spool_flush.py unlinks a file only when its
\* message is settled or has a newer file.  The one way out is a file that a
\* flusher reads before _spool_envelope has filled it, and renames away.
THEOREM FlushLosesNothing == Spec => []NothingLost
BY InvariantHolds, PTL DEF IInv

-----------------------------------------------------------------------------
(***************************************************************************)
(* Double publications.  The inductive invariant: while no two flushers    *)
(* have replayed at the same time, a readable file that nobody is about to *)
(* unlink is the only one of its message, and its message has not been     *)
(* published, except for the messages that a death or a failure excuses.   *)
(***************************************************************************)
\* The file p is about to unlink.
Doomed(p, f) == \/ pc[p] = "unlinkRetired" /\ f = Oldest(redo[p])
                \/ pc[p] \in {"unlinkEntry", "unlinkOld"} /\ f = Newest(todo[p])

Live == {f \in Files : \A p \in Flusher : ~Doomed(p, f)}

\* A file is in one directory; readable ones hold messages that were given to
\* the spool, and so will a flusher's copy; what operators have not finished to
\* spool has no readable file, and each of them writes one file.
Orderly ==
    /\ spool \cap retired = {}
    /\ \A f \in Files : f.msg \in given
    /\ given \subseteq begun
    /\ sent \subseteq given \cup excused
    /\ \A f \in drafts : f.msg \in begun \ given
    /\ \A f, g \in drafts : f.msg = g.msg => f = g
    /\ \A p \in Flusher : pc[p] \in {"forceFill", "fill"} => copy[p].msg \in given

Alone == \A p, q \in Flusher : pc[p] \in Replaying /\ pc[q] \in Replaying => p = q

\* What is about to go is there; so is the entry whose copy is being filled,
\* and the message of a forced copy is excused.
PlaceOf(p) ==
    /\ pc[p] = "unlinkRetired" => Oldest(redo[p]) \in retired
    /\ pc[p] \in {"unlinkEntry", "unlinkOld"} => Newest(todo[p]) \in spool
    /\ pc[p] = "fill" => /\ Newest(todo[p]) \in spool \ partial
                         /\ copy[p].msg = Newest(todo[p]).msg
    /\ pc[p] = "forceFill" => copy[p].msg \in excused

DoomedThere == \A p \in Flusher : PlaceOf(p)

LiveUnsent == \A f \in Live : f.msg \in sent => f.msg \in excused

LiveSingle == \A f, g \in Live : f.msg = g.msg => f = g \/ f.msg \in excused

Tidy == Alone /\ DoomedThere /\ LiveUnsent /\ LiveSingle /\ doubled \subseteq excused

\* A step by which no file becomes readable and no message more is spooled.
LEMMA OrderlyCalm ==
    ASSUME Orderly, spool' \cap retired' = {}, Files' \subseteq Files,
           sent' \ sent \subseteq given \cup excused', excused \subseteq excused',
           UNCHANGED <<given, begun, drafts>>,
           \A p \in Flusher : pc'[p] \in {"forceFill", "fill"} => copy'[p].msg \in given
    PROVE  Orderly'
BY DEF Orderly

\* The copies of flushers that do not go on to fill one stay what they are.
LEMMA CopiesCalm ==
    ASSUME TypeOK, Orderly, NEW p \in Flusher, Flush(p) \/ Die(p),
           pc'[p] \in {"forceFill", "fill"} => copy'[p].msg \in given
    PROVE  \A q \in Flusher : pc'[q] \in {"forceFill", "fill"} => copy'[q].msg \in given
BY OthersStay DEF Bystander, Orderly

\* A file that is new and empty.
LEMMA CreateCalm ==
    ASSUME TypeOK, Stamped, Orderly, NEW m \in Message, Room, Create(m), UNCHANGED retired
    PROVE  /\ spool' \cap retired' = {} /\ Files' = Files
           /\ spool' = spool \cup {NewFile(m)} /\ NewFile(m) \notin Files'
           /\ NewFile(m) \notin spool /\ NewFile(m).msg = m
           /\ \A f \in spool \ partial : f \in spool' \ partial'
<1>1. NewFile(m) \notin spool \cup retired /\ NewFile(m).msg = m
  BY NewFileTyped
<1>2. spool' = spool \cup {NewFile(m)} /\ partial' = partial \cup {NewFile(m)}
  BY DEF Create
<1>3. PICK g : g = NewFile(m)
  OBVIOUS
<1>4. Files' = Files /\ g \notin Files'
  BY <1>1, <1>2, <1>3 DEF Files
<1>5. spool' \cap retired' = {}
  BY <1>1, <1>2 DEF Orderly
<1>6. QED
  BY <1>1, <1>2, <1>3, <1>4, <1>5

\* The files stay orderly, whether flushers overlap or not.
LEMMA OrderlyStep ==
    ASSUME TypeOK, Stamped, Orderly, Next
    PROVE  Orderly'
<1> USE DEF lockVars, runVars, writeVars, fileVars, busVars, envVars
<1>1. ASSUME NEW m \in Message, SpoolEnvelope(m)
      PROVE  Orderly'
  <2>1. PICK g : /\ g = NewFile(m) /\ g.msg = m /\ drafts' = drafts \cup {g}
                 /\ Files' = Files /\ spool' \cap retired' = {}
    BY <1>1, CreateCalm DEF SpoolEnvelope
  <2>2. m \notin begun /\ begun' = begun \cup {m} /\ UNCHANGED <<given, pc, copy>>
    BY <1>1 DEF SpoolEnvelope
  <2>3. sent' \subseteq given \cup excused'
    BY <1>1 DEF SpoolEnvelope, PublishRaises, Deliver, Orderly
  <2>4. QED
    BY <2>1, <2>2, <2>3 DEF Orderly
<1>2. ASSUME NEW f \in drafts, FillEnvelope(f)
      PROVE  Orderly'
  <2>1. /\ drafts' = drafts \ {f}
        /\ UNCHANGED <<spool, retired, sent, excused, begun, pc, copy>>
    BY <1>2 DEF FillEnvelope
  <2>2. CASE UNCHANGED <<partial, given>>
    BY <2>1, <2>2 DEF Orderly, Files
  <2>3. CASE Fill(f) /\ given' = given \cup {f.msg}
    <3>1. Files' \subseteq Files \cup {f}
      BY <2>1, <2>3 DEF Fill, Files
    <3>2. \A g \in drafts' : g.msg \in begun /\ g.msg \notin given'
      BY <2>1, <2>3 DEF Orderly
    <3>3. f.msg \in begun
      BY DEF Orderly
    <3>4. \A g \in Files' : g.msg \in given'
      BY <2>3, <3>1 DEF Orderly
    <3>5. QED
      BY <2>1, <2>3, <3>2, <3>3, <3>4 DEF Orderly
  <2>4. QED
    BY <1>2, <2>2, <2>3 DEF FillEnvelope
<1>3. ASSUME NEW p \in Flusher, Flush(p) \/ Die(p)
      PROVE  Orderly'
  <2>0. UNCHANGED <<given, begun, drafts>>
    BY <1>3, OperatorsOnly
  <2>1. ASSUME spool' \cap retired' = {}, Files' \subseteq Files,
               sent' \ sent \subseteq given \cup excused', excused \subseteq excused',
               pc'[p] \in {"forceFill", "fill"} => copy'[p].msg \in given
        PROVE  Orderly'
    BY <1>3, <2>0, <2>1, CopiesCalm, OrderlyCalm
  <2>2. CASE RunFlush(p) \/ Acquire(p) \/ Unlock(p) \/ UnlinkLock(p) \/ Die(p)
    <3>1. UNCHANGED <<spool, partial, retired, sent>> /\ excused \subseteq excused'
      BY <2>2 DEF RunFlush, Acquire, StatLock, ReapOpen, ReapLock, ReapUnlink, ReapClose,
                  OpenLock, TryLock, Unlock, UnlinkLock, Die
    <3>2. pc'[p] \notin {"forceFill", "fill"}
      BY <2>2 DEF RunFlush, Acquire, StatLock, ReapOpen, ReapLock, ReapUnlink, ReapClose,
                  OpenLock, TryLock, Unlock, UnlinkLock, Die, Goto, TypeOK
    <3>3. spool' \cap retired' = {} /\ Files' = Files
      BY <3>1 DEF Orderly, Files
    <3>4. QED
      BY <2>1, <3>1, <3>2, <3>3
  <2>3. CASE Scan(p)
    <3>1. UNCHANGED <<sent, excused>> /\ pc'[p] = "force"
      BY <2>3 DEF Scan, Goto, TypeOK
    <3>2. spool' \cap retired' = {} /\ Files' \subseteq Files
      <4>1. PICK kept \in SUBSET spool, out \in SUBSET spool :
              /\ out \subseteq kept /\ partial \cap out = {}
              /\ partial' = partial \cap kept /\ spool' = kept \ out
              /\ retired' = retired \cup out
        BY <2>3, ScanShape DEF Quarantine
      <4>2. partial \subseteq spool /\ spool \cap retired = {}
        BY DEF TypeOK, Orderly
      <4>3. QED
        BY <4>1, <4>2 DEF Files
    <3>3. QED
      BY <2>1, <3>1, <3>2
  <2>4. CASE ForceRetired(p)
    <3>1. PICK f : /\ ForceRefused(p, f) \/ ForceOk(p, f)
                      \/ ForceUnanswered(p, f) \/ ForceBusDown(p, f)
                   /\ UNCHANGED retired /\ pc[p] = "force"
      BY <2>4 DEF ForceRetired
    <3>2. CASE ForceRefused(p, f)
      <4>1. UNCHANGED <<pc, spool, partial, sent, excused>>
        BY <3>2 DEF ForceRefused
      <4>2. spool' \cap retired' = {} /\ Files' = Files
        BY <3>1, <4>1 DEF Orderly, Files
      <4>3. QED
        BY <2>1, <3>1, <4>1, <4>2
    <3>3. CASE ForceOk(p, f) \/ ForceUnanswered(p, f)
      <4>1. /\ f \in retired /\ UNCHANGED <<spool, partial>> /\ excused \subseteq excused'
            /\ sent' \subseteq sent \cup {f.msg}
        BY <3>3 DEF ForceOk, ForceUnanswered, Unanswered, Deliver
      <4>2. pc'[p] \in {"unlinkRetired", "unlock", "force"}
        BY <3>1, <3>3 DEF ForceOk, ForceUnanswered, Goto, TypeOK
      <4>3. spool' \cap retired' = {} /\ Files' = Files
        BY <3>1, <4>1 DEF Orderly, Files
      <4>4. f \in Files
        BY <4>1 DEF Orderly, Files, TypeOK
      <4>5. sent' \ sent \subseteq given
        BY <4>1, <4>4 DEF Orderly
      <4>6. QED
        BY <2>1, <4>1, <4>2, <4>3, <4>5
    <3>4. CASE ForceBusDown(p, f)
      <4>1. f \in retired /\ f.msg \in Message
        BY <3>4 DEF ForceBusDown, TypeOK, File
      <4>2. f.msg \in given
        BY <4>1 DEF Orderly, Files, TypeOK
      <4>3. excused \subseteq excused' /\ sent' \subseteq sent \cup {f.msg}
        BY <3>4 DEF ForceBusDown, PublishRaises, Deliver
      <4>4. CASE /\ Room /\ Create(f.msg) /\ Goto(p, "forceFill")
                 /\ copy' = [copy EXCEPT ![p] = NewFile(f.msg)]
        <5>1. /\ spool' \cap retired' = {} /\ Files' = Files /\ NewFile(f.msg).msg = f.msg
          BY <3>1, <4>1, <4>4, CreateCalm
        <5>2. copy'[p].msg = f.msg
          BY <4>4, <5>1 DEF TypeOK
        <5>3. QED
          BY <2>1, <4>2, <4>3, <5>1, <5>2
      <4>5. CASE UNCHANGED writeVars /\ (Goto(p, "unlock") \/ UNCHANGED pc)
        <5>1. pc'[p] \notin {"forceFill", "fill"}
          BY <3>1, <4>5 DEF Goto, TypeOK
        <5>2. spool' \cap retired' = {} /\ Files' = Files
          BY <3>1, <4>5 DEF Orderly, Files
        <5>3. QED
          BY <2>1, <4>2, <4>3, <5>1, <5>2
      <4>6. QED
        BY <3>4, <4>4, <4>5 DEF ForceBusDown
    <3>5. QED
      BY <3>1, <3>2, <3>3, <3>4
  <2>5. CASE FillForced(p) \/ FillCopy(p)
    <3>1. PICK l \in {"force", "unlinkOld"} : pc[p] \in {"forceFill", "fill"} /\ EndCopy(p, l)
      BY <2>5 DEF FillForced, FillCopy
    <3>2. /\ UNCHANGED <<spool, retired, sent, excused>>
          /\ partial' \in {partial, partial \ {copy[p]}}
          /\ pc'[p] \in {"force", "unlinkOld", "unlock"}
      BY <3>1 DEF EndCopy, Fill, Goto, TypeOK
    <3>3. Files' \subseteq Files \cup {copy[p]} /\ copy[p].msg \in given
      BY <3>1, <3>2 DEF Files, Orderly
    <3>4. \A f \in Files' : f.msg \in given
      BY <3>3 DEF Orderly
    <3>5. \A q \in Flusher : pc'[q] \in {"forceFill", "fill"} => copy'[q].msg \in given
      BY <1>3, <3>2, CopiesCalm
    <3>6. QED
      BY <2>0, <3>2, <3>4, <3>5 DEF Orderly
  <2>6. CASE Drain(p)
    <3>1. PICK f : /\ \/ DrainMissing(p, f) \/ DrainMalformed(p, f) \/ DrainRefused(p, f)
                      \/ DrainOk(p, f) \/ DrainUnanswered(p, f) \/ DrainBusDown(p, f)
                   /\ UNCHANGED retired /\ pc[p] = "drain"
      BY <2>6 DEF Drain
    <3>2. CASE DrainMissing(p, f) \/ DrainMalformed(p, f) \/ DrainRefused(p, f)
      <4>1. /\ UNCHANGED <<sent, excused>> /\ spool' \subseteq spool
            /\ \/ spool' = spool /\ partial' = partial
               \/ f \in partial /\ spool' = spool \ {f} /\ partial' = partial \ {f}
        BY <3>2 DEF DrainMissing, DrainMalformed, DrainRefused
      <4>2. pc'[p] \in {"drain", "unlock"}
        BY <3>1, <3>2 DEF DrainMissing, DrainMalformed, DrainRefused, Goto, TypeOK
      <4>3. spool' \cap retired' = {} /\ Files' \subseteq Files
        BY <3>1, <4>1 DEF Orderly, Files, TypeOK
      <4>4. QED
        BY <2>1, <4>1, <4>2, <4>3
    <3>3. CASE DrainOk(p, f) \/ DrainUnanswered(p, f)
      <4>1. /\ f \in Files /\ UNCHANGED <<spool, partial>> /\ excused \subseteq excused'
            /\ sent' \subseteq sent \cup {f.msg}
        BY <3>3 DEF DrainOk, DrainUnanswered, Unanswered, Deliver, Legible, Files
      <4>2. pc'[p] \in {"unlinkEntry", "unlock"}
        BY <3>1, <3>3 DEF DrainOk, DrainUnanswered, Goto, TypeOK
      <4>3. spool' \cap retired' = {} /\ Files' = Files
        BY <3>1, <4>1 DEF Orderly, Files
      <4>4. sent' \ sent \subseteq given
        BY <4>1 DEF Orderly
      <4>5. QED
        BY <2>1, <4>1, <4>2, <4>3, <4>4
    <3>4. CASE DrainBusDown(p, f)
      <4>1. f \in Files /\ f.msg \in Message
        BY <3>4 DEF DrainBusDown, Legible, Files, TypeOK, File
      <4>2. f.msg \in given
        BY <4>1 DEF Orderly
      <4>3. excused \subseteq excused' /\ sent' \subseteq sent \cup {f.msg}
        BY <3>4 DEF DrainBusDown, PublishRaises, Deliver
      <4>4. CASE /\ Room /\ Create(f.msg) /\ Goto(p, "fill")
                 /\ copy' = [copy EXCEPT ![p] = NewFile(f.msg)]
        <5>1. /\ spool' \cap retired' = {} /\ Files' = Files /\ NewFile(f.msg).msg = f.msg
          BY <3>1, <4>1, <4>4, CreateCalm
        <5>2. copy'[p].msg = f.msg
          BY <4>4, <5>1 DEF TypeOK
        <5>3. QED
          BY <2>1, <4>2, <4>3, <5>1, <5>2
      <4>5. CASE UNCHANGED writeVars /\ Goto(p, "unlock")
        <5>1. pc'[p] \notin {"forceFill", "fill"}
          BY <4>5 DEF Goto, TypeOK
        <5>2. spool' \cap retired' = {} /\ Files' = Files
          BY <3>1, <4>5 DEF Orderly, Files
        <5>3. QED
          BY <2>1, <4>2, <4>3, <5>1, <5>2
      <4>6. QED
        BY <3>4, <4>4, <4>5 DEF DrainBusDown
    <3>5. QED
      BY <3>1, <3>2, <3>3, <3>4
  <2>7. CASE UnlinkRetired(p)
    <3>1. /\ spool' = spool /\ partial' = partial /\ retired' \subseteq retired
          /\ sent' = sent /\ excused \subseteq excused'
      BY <2>7 DEF UnlinkRetired
    <3>2. pc'[p] \in {"force", "unlock"}
      BY <2>7 DEF UnlinkRetired, Goto, TypeOK
    <3>3. spool' \cap retired' = {} /\ Files' \subseteq Files
      BY <3>1 DEF Orderly, Files
    <3>4. QED
      BY <2>1, <3>1, <3>2, <3>3
  <2>8. CASE UnlinkEntry(p) \/ UnlinkOld(p)
    <3>1. PICK f : Remove(f) /\ UNCHANGED <<retired, sent>>
      BY <2>8 DEF UnlinkEntry, UnlinkOld
    <3>2. pc'[p] \in {"drain", "unlock"}
      BY <2>8 DEF UnlinkEntry, UnlinkOld, Goto, TypeOK
    <3>3. /\ excused \subseteq excused' /\ spool' \subseteq spool
          /\ \A g \in spool' : g \in partial => g \in partial'
      BY <3>1 DEF Remove
    <3>4. spool' \cap retired' = {} /\ Files' \subseteq Files
      BY <3>1, <3>3 DEF Orderly, Files, TypeOK
    <3>5. QED
      BY <2>1, <3>1, <3>2, <3>3, <3>4
  <2>9. CASE ForceEnd(p) \/ DrainEnd(p)
    <3>1. UNCHANGED <<spool, partial, retired, sent, excused>> /\ pc'[p] \in {"drain", "unlock"}
      BY <2>9 DEF ForceEnd, DrainEnd, Goto, TypeOK
    <3>2. spool' \cap retired' = {} /\ Files' = Files
      BY <3>1 DEF Orderly, Files
    <3>3. QED
      BY <2>1, <3>1, <3>2
  <2>10. QED
    BY <1>3, <2>2, <2>3, <2>4, <2>5, <2>6, <2>7, <2>8, <2>9 DEF Flush, Replay
<1>4. CASE GrowStale \/ BusRecovers
  <2>1. UNCHANGED <<spool, partial, retired, sent, excused, given, begun, drafts, pc, copy>>
    BY <1>4 DEF GrowStale, BusRecovers
  <2>2. QED
    BY <2>1 DEF Orderly, Files
<1>5. QED
  BY <1>1, <1>2, <1>3, <1>4 DEF Next

\* What is live stays single and unsent when a step makes nothing live and
\* publishes nothing live, excuses aside.
LEMMA LiveShrinks ==
    ASSUME LiveUnsent, LiveSingle, excused \subseteq excused',
           \A f \in Live' : f \in Live \/ f.msg \in excused',
           \A f \in Live' : f.msg \in sent' => f.msg \in sent \cup excused'
    PROVE  LiveUnsent' /\ LiveSingle'
<1>1. LiveUnsent'
  BY DEF LiveUnsent
<1>2. LiveSingle'
  BY DEF LiveSingle
<1> QED
  BY <1>1, <1>2

Unlinking == {"unlinkRetired", "unlinkEntry", "unlinkOld"}

\* A step that touches neither files nor messages and does not make or unmake
\* a flusher that is about to unlink, or one that fills.
LEMMA TidyQuiet ==
    ASSUME Tidy, Alone', UNCHANGED <<spool, partial, retired, sent, doubled>>,
           excused \subseteq excused',
           \A q \in Flusher :
              \/ Bystander(q)
              \/ /\ pc[q] \notin Unlinking
                 /\ pc'[q] \notin Unlinking \cup {"fill", "forceFill"}
    PROVE  Tidy'
<1>1. \A q \in Flusher : \A f : Doomed(q, f)' <=> Doomed(q, f)
  BY DEF Doomed, Unlinking, Bystander
<1>2. Live' = Live
  BY <1>1 DEF Live, Files
<1>3. LiveUnsent' /\ LiveSingle'
  BY <1>2, LiveShrinks DEF Tidy
<1>4. ASSUME NEW q \in Flusher PROVE PlaceOf(q)'
  <2>1. PlaceOf(q)
    BY DEF Tidy, DoomedThere
  <2>2. CASE Bystander(q)
    BY <2>1, <2>2 DEF PlaceOf, Bystander
  <2>3. CASE pc'[q] \notin Unlinking \cup {"fill", "forceFill"}
    BY <2>3 DEF PlaceOf, Unlinking
  <2> QED
    BY <2>2, <2>3
<1> QED
  BY <1>3, <1>4 DEF Tidy, DoomedThere

\* The steps outside the replay: the lock file, and the end of a run.
LEMMA TidyLock ==
    ASSUME TypeOK, Tidy, NEW p \in Flusher, ~overlap',
           RunFlush(p) \/ Acquire(p) \/ Unlock(p) \/ UnlinkLock(p)
    PROVE  Tidy'
<1> USE DEF lockVars, runVars, writeVars, fileVars, busVars, envVars
<1>1. UNCHANGED <<spool, partial, retired, sent, doubled, excused>>
  BY DEF RunFlush, Acquire, StatLock, ReapOpen, ReapLock, ReapUnlink, ReapClose,
         OpenLock, TryLock, Unlock, UnlinkLock
<1>2. \A q \in Flusher \ {p} : Bystander(q)
  BY OthersStay DEF Flush
<1>3. /\ pc[p] \notin Replaying
      /\ pc'[p] \notin Replaying \ {"scan"}
      /\ pc'[p] = "scan" => \A q \in Flusher \ {p} : pc[q] \notin Replaying
  <2>1. CASE TryLock(p)
    BY <2>1 DEF TryLock, Goto, Replaying, TypeOK
  <2>2. CASE ~TryLock(p)
    BY <2>2 DEF RunFlush, Acquire, StatLock, ReapOpen, ReapLock, ReapUnlink, ReapClose,
                OpenLock, Unlock, UnlinkLock, Goto, Replaying, TypeOK
  <2> QED
    BY <2>1, <2>2
<1>4. Alone'
  BY <1>2, <1>3 DEF Tidy, Alone, Bystander
<1>5. /\ pc[p] \notin Unlinking
      /\ pc'[p] \notin Unlinking \cup {"fill", "forceFill"}
  BY <1>3 DEF Unlinking, Replaying
<1> QED
  BY <1>1, <1>2, <1>4, <1>5, TidyQuiet

\* While p replays, nobody else does; only p may be about to unlink a file.
LEMMA ReplaysAlone ==
    ASSUME TypeOK, Tidy, NEW p \in Flusher, pc[p] \in Replaying, Flush(p) \/ Die(p)
    PROVE  /\ Alone'
           /\ Live = {f \in Files : ~Doomed(p, f)}
           /\ Live' = {f \in Files' : ~Doomed(p, f)'}
           /\ \A q \in Flusher \ {p} : pc'[q] \notin Replaying
<1>1. \A q \in Flusher \ {p} : pc[q] \notin Replaying /\ pc'[q] \notin Replaying
  BY OthersStay DEF Bystander, Tidy, Alone
<1>2. \A q \in Flusher \ {p} : \A f : ~Doomed(q, f) /\ ~Doomed(q, f)'
  BY <1>1 DEF Doomed, Replaying
<1>3. Alone'
  BY <1>1 DEF Alone
<1>4. Live = {f \in Files : ~Doomed(p, f)}
  BY <1>2 DEF Live
<1>5. Live' = {f \in Files' : ~Doomed(p, f)'}
  BY <1>2 DEF Live
<1> QED
  BY <1>1, <1>3, <1>4, <1>5

\* The rest of Tidy is then about p alone.
LEMMA TidyOfOne ==
    ASSUME NEW p \in Flusher, Alone', \A q \in Flusher \ {p} : pc'[q] \notin Replaying,
           LiveUnsent' /\ LiveSingle', doubled' \subseteq excused',
           pc'[p] = "unlinkRetired" => Oldest(redo'[p]) \in retired',
           pc'[p] \in {"unlinkEntry", "unlinkOld"} => Newest(todo'[p]) \in spool',
           pc'[p] = "fill" => /\ Newest(todo'[p]) \in spool' \ partial'
                              /\ copy'[p].msg = Newest(todo'[p]).msg,
           pc'[p] = "forceFill" => copy'[p].msg \in excused'
    PROVE  Tidy'
<1>1. PlaceOf(p)'
  BY DEF PlaceOf
<1>2. DoomedThere'
  BY <1>1 DEF DoomedThere, PlaceOf, Replaying
<1> QED
  BY <1>2 DEF Tidy

\* A publication of the file f by p, who replays alone: f is live, so its
\* message was unsent or is excused, and so is every other live file of it.
LEMMA TidyDeliver ==
    ASSUME Tidy, NEW f \in Live, Deliver(f.msg), excused \subseteq excused',
           \A g \in Live' : g \in Live /\ (g # f \/ f.msg \in excused')
    PROVE  LiveUnsent' /\ LiveSingle' /\ doubled' \subseteq excused'
<1>1. \A g \in Live' : g.msg \in sent' => g.msg \in sent \cup excused'
  <2> SUFFICES ASSUME NEW g \in Live', g.msg \in sent' PROVE g.msg \in sent \cup excused'
    OBVIOUS
  <2>1. g.msg \in sent \/ g.msg = f.msg
    BY DEF Deliver
  <2>2. g.msg = f.msg => g = f \/ f.msg \in excused
    BY DEF Tidy, LiveSingle
  <2> QED
    BY <2>1, <2>2
<1>2. LiveUnsent' /\ LiveSingle'
  BY <1>1, LiveShrinks DEF Tidy
<1>3. f.msg \in sent => f.msg \in excused
  BY DEF Tidy, LiveUnsent
<1>4. doubled' \subseteq excused'
  BY <1>3 DEF Deliver, Tidy
<1> QED
  BY <1>2, <1>4

\* A publication of a live file that raises, before or after it took effect.
LEMMA TidyRaises ==
    ASSUME Tidy, NEW f \in Live, PublishRaises(f.msg), Live' = Live
    PROVE  LiveUnsent' /\ LiveSingle' /\ doubled' \subseteq excused'
<1>1. CASE UNCHANGED busVars
  BY <1>1, LiveShrinks DEF busVars, Tidy
<1>2. CASE Deliver(f.msg) /\ excused' = excused \cup {f.msg}
  BY <1>2, TidyDeliver
<1> QED
  BY <1>1, <1>2 DEF PublishRaises

\* A second copy of a live file that is unlinked next.
LEMMA TidyCopy ==
    ASSUME Tidy, NEW f \in Live, NEW g, g.msg = f.msg, UNCHANGED <<sent, doubled>>,
           excused \subseteq excused',
           Live' \subseteq (Live \cup {g}),
           f \notin Live' \/ f.msg \in excused'
    PROVE  LiveUnsent' /\ LiveSingle'
<1>1. f.msg \in sent => f.msg \in excused
  BY DEF Tidy, LiveUnsent
<1>2. \A h \in Live : h.msg = f.msg => h = f \/ f.msg \in excused
  BY DEF Tidy, LiveSingle
<1>3. LiveUnsent'
  BY <1>1 DEF Tidy, LiveUnsent
<1>4. LiveSingle'
  <2> SUFFICES ASSUME NEW a \in Live', NEW b \in Live', a.msg = b.msg, a # b
               PROVE  a.msg \in excused'
    BY DEF LiveSingle
  <2>1. CASE a \in Live /\ b \in Live
    BY <2>1 DEF Tidy, LiveSingle
  <2>2. CASE a \in Live /\ b = g
    BY <1>2, <2>2
  <2>3. CASE b \in Live /\ a = g
    BY <1>2, <2>3
  <2> QED
    BY <2>1, <2>2, <2>3
<1> QED
  BY <1>3, <1>4

\* The steps of a replay.
LEMMA TidyReplay ==
    ASSUME TypeOK, Stamped, Orderly, Tidy, NEW p \in Flusher, Replay(p)
    PROVE  Tidy'
<1> USE DEF lockVars, runVars, writeVars, fileVars, busVars, envVars
<1>0. pc[p] \in Replaying
  BY DEF Replay, Scan, ForceRetired, FillForced, ForceEnd, UnlinkRetired, Drain, FillCopy,
         DrainEnd, UnlinkEntry, UnlinkOld, Replaying
<1>1. /\ Alone'
      /\ Live = {f \in Files : ~Doomed(p, f)}
      /\ Live' = {f \in Files' : ~Doomed(p, f)'}
      /\ \A q \in Flusher \ {p} : pc'[q] \notin Replaying
  BY <1>0, ReplaysAlone DEF Flush
<1>2. /\ pc[p] \notin Unlinking => Live = Files
      /\ \A f \in retired : f \in Files
      /\ PlaceOf(p)
  BY <1>1 DEF Doomed, Tidy, DoomedThere, Orderly, Unlinking, Files, TypeOK
<1>3. ASSUME Live' = Live, UNCHANGED <<sent, doubled>>, excused \subseteq excused',
             pc'[p] \notin Unlinking \cup {"fill", "forceFill"}
      PROVE  Tidy'
  <2>1. LiveUnsent' /\ LiveSingle'
    BY <1>3, LiveShrinks DEF Tidy
  <2> QED
    BY <1>1, <1>3, <2>1, TidyOfOne DEF Tidy, Unlinking
<1>9. pc'[p] \notin Unlinking => Live' = Files'
  BY <1>1 DEF Doomed, Unlinking
<1>4. CASE Scan(p)
  <2>1. pc[p] = "scan" /\ pc'[p] = "force"
    BY <1>4 DEF Scan, Goto, TypeOK
  <2>2. Files' \subseteq Files
    <3>1. PICK kept \in SUBSET spool, out \in SUBSET spool :
            /\ out \subseteq kept /\ partial \cap out = {}
            /\ partial' = partial \cap kept /\ spool' = kept \ out
            /\ retired' = retired \cup out
      BY <1>4, ScanShape DEF Quarantine
    <3>2. partial \subseteq spool /\ spool \cap retired = {}
      BY DEF TypeOK, Orderly, Tidy
    <3>3. QED
      BY <3>1, <3>2 DEF Files
  <2>3. UNCHANGED <<sent, doubled, excused>>
    BY <1>4 DEF Scan
  <2>4. LiveUnsent' /\ LiveSingle'
    BY <1>2, <1>9, <2>1, <2>2, <2>3, LiveShrinks DEF Tidy, Unlinking
  <2> QED
    BY <1>1, <2>1, <2>3, <2>4, TidyOfOne DEF Tidy
<1>5. CASE ForceRetired(p)
  <2>1. PICK f : /\ f = Oldest(redo[p]) /\ pc[p] = "force" /\ UNCHANGED retired
                 /\ \/ ForceRefused(p, f) \/ ForceOk(p, f)
                    \/ ForceUnanswered(p, f) \/ ForceBusDown(p, f)
    BY <1>5 DEF ForceRetired
  <2>0. Live = Files
    BY <1>2, <2>1 DEF Unlinking
  <2>2. CASE ForceRefused(p, f)
    <3>1. UNCHANGED <<pc, spool, partial, sent, doubled, excused>>
      BY <2>2 DEF ForceRefused
    <3>2. pc'[p] = "force" /\ Files' = Files
      BY <2>1, <3>1 DEF Files
    <3>3. Live' = Live
      BY <1>9, <2>0, <3>2 DEF Unlinking
    <3> QED
      BY <1>3, <3>1, <3>2, <3>3 DEF Unlinking
  <2>3. CASE ForceOk(p, f)
    <3>1. /\ f \in retired /\ UNCHANGED <<redo, spool, partial, excused>>
          /\ pc'[p] = "unlinkRetired" /\ Oldest(redo'[p]) = f
      BY <2>1, <2>3 DEF ForceOk, Goto, TypeOK
    <3>2. f \in Live /\ Live' = Live \ {f}
      BY <1>1, <1>2, <2>0, <2>1, <3>1 DEF Files, Doomed
    <3>3. CASE UNCHANGED <<sent, doubled>>
      <4>1. LiveUnsent' /\ LiveSingle'
        BY <3>1, <3>2, <3>3, LiveShrinks DEF Tidy
      <4> QED
        BY <1>1, <2>1, <3>1, <3>3, <4>1, TidyOfOne DEF Tidy
    <3>4. CASE Deliver(f.msg)
      <4>1. LiveUnsent' /\ LiveSingle' /\ doubled' \subseteq excused'
        BY <3>1, <3>2, <3>4, TidyDeliver
      <4> QED
        BY <1>1, <2>1, <3>1, <4>1, TidyOfOne
    <3> QED
      BY <2>3, <3>3, <3>4 DEF ForceOk
  <2>4. CASE ForceUnanswered(p, f)
    <3>1. /\ f \in retired /\ UNCHANGED <<spool, partial>> /\ Deliver(f.msg)
          /\ excused' = excused \cup {f.msg}
      BY <2>4 DEF ForceUnanswered, Unanswered
    <3>2. pc'[p] \in {"force", "unlock"} /\ Files' = Files
      BY <2>1, <2>4, <3>1 DEF ForceUnanswered, Goto, TypeOK, Files
    <3>3. f \in Live /\ Live' = Live
      BY <1>2, <1>9, <2>0, <3>1, <3>2 DEF Unlinking
    <3>4. LiveUnsent' /\ LiveSingle' /\ doubled' \subseteq excused'
      BY <3>1, <3>3, TidyDeliver
    <3> QED
      BY <1>1, <3>2, <3>4, TidyOfOne
  <2>5. CASE ForceBusDown(p, f)
    <3>1. f \in retired /\ f.msg \in Message
      BY <2>5 DEF ForceBusDown, TypeOK, File
    <3>2. f \in Live
      BY <1>2, <2>0, <3>1
    <3>3. CASE /\ Room /\ Create(f.msg) /\ Goto(p, "forceFill")
               /\ copy' = [copy EXCEPT ![p] = NewFile(f.msg)]
               /\ Deliver(f.msg) \/ UNCHANGED <<sent, doubled>>
               /\ excused' = excused \cup {f.msg}
      <4>1. Files' = Files /\ NewFile(f.msg).msg = f.msg
        BY <2>1, <3>1, <3>3, CreateCalm
      <4>2. pc'[p] = "forceFill" /\ copy'[p].msg = f.msg
        BY <3>3, <4>1 DEF Goto, TypeOK
      <4>3. Live' = Live
        BY <1>9, <2>0, <4>1, <4>2 DEF Unlinking
      <4>4. LiveUnsent' /\ LiveSingle' /\ doubled' \subseteq excused'
        <5>1. CASE Deliver(f.msg)
          BY <3>2, <3>3, <4>3, <5>1, TidyDeliver
        <5>2. CASE UNCHANGED <<sent, doubled>>
          BY <3>3, <4>3, <5>2, LiveShrinks DEF Tidy
        <5> QED
          BY <3>3, <5>1, <5>2
      <4> QED
        BY <1>1, <3>3, <4>2, <4>4, TidyOfOne
    <3>4. CASE PublishRaises(f.msg) /\ UNCHANGED writeVars /\ (Goto(p, "unlock") \/ UNCHANGED pc)
      <4>1. pc'[p] \in {"force", "unlock"} /\ Files' = Files
        BY <2>1, <3>4 DEF Goto, TypeOK, Files
      <4>2. Live' = Live
        BY <1>9, <2>0, <4>1 DEF Unlinking
      <4>3. LiveUnsent' /\ LiveSingle' /\ doubled' \subseteq excused'
        BY <3>2, <3>4, <4>2, TidyRaises
      <4> QED
        BY <1>1, <4>1, <4>3, TidyOfOne
    <3> QED
      BY <2>5, <3>3, <3>4 DEF ForceBusDown
  <2> QED
    BY <2>1, <2>2, <2>3, <2>4, <2>5
<1>6. CASE ForceEnd(p) \/ DrainEnd(p)
  <2>1. /\ UNCHANGED <<spool, partial, retired, sent, doubled, excused>>
        /\ pc[p] \in {"force", "drain"} /\ pc'[p] \in {"drain", "unlock"}
    BY <1>6 DEF ForceEnd, DrainEnd, Goto, TypeOK
  <2>2. Live' = Live
    BY <1>2, <1>9, <2>1 DEF Files, Unlinking
  <2> QED
    BY <1>3, <2>1, <2>2 DEF Unlinking
<1>7. CASE UnlinkRetired(p)
  <2>1. PICK f : /\ f = Oldest(redo[p]) /\ pc[p] = "unlinkRetired"
                 /\ \/ retired' = retired \ {f} /\ UNCHANGED excused
                    \/ UNCHANGED retired /\ excused' = excused \cup {f.msg}
                 /\ UNCHANGED <<spool, partial, sent, doubled>>
    BY <1>7 DEF UnlinkRetired
  <2>2. pc'[p] \in {"force", "unlock"}
    BY <1>7 DEF UnlinkRetired, Goto, TypeOK
  <2>3. Live = Files \ {f}
    BY <1>1, <2>1 DEF Doomed
  <2>4. \A g \in Live' : g \in Live \/ g.msg \in excused'
    <3>1. f \in retired /\ f \notin spool
      BY <1>2, <2>1 DEF PlaceOf, Orderly
    <3>2. CASE retired' = retired \ {f}
      <4>1. Files' = Files \ {f}
        BY <2>1, <3>1, <3>2 DEF Files
      <4> QED
        BY <1>1, <2>3, <4>1
    <3>3. CASE UNCHANGED retired /\ excused' = excused \cup {f.msg}
      <4>1. Files' = Files
        BY <2>1, <3>3 DEF Files
      <4> QED
        BY <1>1, <2>3, <3>3, <4>1
    <3> QED
      BY <2>1, <3>2, <3>3
  <2>5. excused \subseteq excused'
    BY <2>1
  <2>6. LiveUnsent' /\ LiveSingle'
    BY <2>1, <2>4, <2>5, LiveShrinks DEF Tidy
  <2> QED
    BY <1>1, <2>1, <2>2, <2>5, <2>6, TidyOfOne DEF Tidy
<1>8. CASE UnlinkEntry(p) \/ UnlinkOld(p)
  <2>1. PICK f : /\ f = Newest(todo[p]) /\ pc[p] \in {"unlinkEntry", "unlinkOld"}
                 /\ Remove(f) /\ UNCHANGED <<retired, sent, doubled>>
    BY <1>8 DEF UnlinkEntry, UnlinkOld
  <2>2. pc'[p] \in {"unlock", "drain"}
    BY <1>8 DEF UnlinkEntry, UnlinkOld, Goto, TypeOK
  <2>3. Live = Files \ {f}
    BY <1>1, <2>1 DEF Doomed
  <2>4. excused \subseteq excused'
    BY <2>1 DEF Remove
  <2>5. \A g \in Live' : g \in Live \/ g.msg \in excused'
    <3>1. f \in spool /\ f \notin retired
      BY <1>2, <2>1 DEF PlaceOf, Orderly
    <3>2. CASE spool' = spool \ {f} /\ partial' = partial \ {f}
      <4>1. Files' \subseteq Files \ {f}
        BY <2>1, <3>1, <3>2 DEF Files
      <4> QED
        BY <1>1, <2>3, <4>1
    <3>3. CASE excused' = excused \cup {f.msg} /\ UNCHANGED <<spool, partial>>
      <4>1. Files' = Files
        BY <2>1, <3>3 DEF Files
      <4> QED
        BY <1>1, <2>3, <3>3, <4>1
    <3> QED
      BY <2>1, <3>2, <3>3 DEF Remove
  <2>6. LiveUnsent' /\ LiveSingle'
    BY <2>1, <2>4, <2>5, LiveShrinks DEF Tidy
  <2> QED
    BY <1>1, <2>1, <2>2, <2>4, <2>6, TidyOfOne DEF Tidy
<1>10. CASE FillForced(p)
  <2>1. /\ pc[p] = "forceFill" /\ EndCopy(p, "force")
        /\ UNCHANGED <<spool, retired, sent, doubled, excused>>
    BY <1>10 DEF FillForced, EndCopy
  <2>2. /\ partial' \in {partial, partial \ {copy[p]}}
        /\ pc'[p] \in {"force", "unlock"}
    BY <2>1 DEF EndCopy, Fill, Goto, TypeOK
  <2>3. Files' \subseteq Files \cup {copy[p]} /\ copy[p].msg \in excused
    BY <1>2, <2>1, <2>2 DEF Files, PlaceOf
  <2>4. \A g \in Live' : g \in Live \/ g.msg \in excused'
    BY <1>2, <1>9, <2>1, <2>2, <2>3 DEF Unlinking
  <2>5. LiveUnsent' /\ LiveSingle'
    BY <2>1, <2>4, LiveShrinks DEF Tidy
  <2> QED
    BY <1>1, <2>1, <2>2, <2>5, TidyOfOne DEF Tidy
<1>11. CASE FillCopy(p)
  <2>1. /\ pc[p] = "fill" /\ EndCopy(p, "unlinkOld")
        /\ UNCHANGED <<spool, todo, retired, sent, doubled, excused>>
    BY <1>11 DEF FillCopy, EndCopy
  <2>2. PICK f, g : /\ f = Newest(todo[p]) /\ g = copy[p] /\ f \in spool \ partial
                    /\ g.msg = f.msg
    BY <1>2, <2>1 DEF PlaceOf
  <2>3. Live = Files /\ f \in Live
    BY <1>2, <2>1, <2>2 DEF Unlinking, Files
  <2>4. CASE Fill(g) /\ Goto(p, "unlinkOld")
    <3>1. pc'[p] = "unlinkOld" /\ Newest(todo'[p]) = f /\ f \in spool'
      BY <2>1, <2>2, <2>4 DEF Goto, TypeOK
    <3>2. Files' \subseteq Files \cup {g}
      BY <2>1, <2>4 DEF Fill, Files
    <3>3. Doomed(p, f)'
      BY <3>1 DEF Doomed
    <3>4. Live' \subseteq Live \cup {g} /\ f \notin Live'
      BY <1>1, <2>3, <3>2, <3>3
    <3>5. LiveUnsent' /\ LiveSingle'
      BY <2>1, <2>2, <2>3, <3>4, TidyCopy
    <3> QED
      BY <1>1, <2>1, <3>1, <3>5, TidyOfOne DEF Tidy
  <2>5. CASE Goto(p, "unlock") /\ UNCHANGED partial
    <3>1. pc'[p] = "unlock" /\ Files' = Files
      BY <2>1, <2>5 DEF Goto, TypeOK, Files
    <3>2. Live' = Live
      BY <1>9, <2>3, <3>1 DEF Unlinking
    <3> QED
      BY <1>3, <2>1, <3>1, <3>2 DEF Unlinking
  <2> QED
    BY <2>1, <2>2, <2>4, <2>5 DEF EndCopy
<1>12. CASE Drain(p)
  <2>1. PICK f : /\ f = Newest(todo[p]) /\ pc[p] = "drain" /\ UNCHANGED retired
                 /\ \/ DrainMissing(p, f) \/ DrainMalformed(p, f) \/ DrainRefused(p, f)
                    \/ DrainOk(p, f) \/ DrainUnanswered(p, f) \/ DrainBusDown(p, f)
    BY <1>12 DEF Drain
  <2>0. Live = Files
    BY <1>2, <2>1 DEF Unlinking
  <2>2. CASE DrainMissing(p, f) \/ DrainMalformed(p, f) \/ DrainRefused(p, f)
    <3>1. /\ UNCHANGED <<sent, doubled, excused>>
          /\ \/ UNCHANGED <<spool, partial>>
             \/ /\ f \in spool \cap partial
                /\ spool' = spool \ {f} /\ partial' = partial \ {f}
      BY <2>2 DEF DrainMissing, DrainMalformed, DrainRefused
    <3>2. pc'[p] \in {"drain", "unlock"}
      BY <2>1, <2>2 DEF DrainMissing, DrainMalformed, DrainRefused, Goto, TypeOK
    <3>3. f \in spool => f \notin retired
      BY DEF Orderly
    <3>4. Files' = Files
      BY <2>1, <3>1, <3>3 DEF Files
    <3>5. Live' = Live
      BY <1>9, <2>0, <3>2, <3>4 DEF Unlinking
    <3> QED
      BY <1>3, <3>1, <3>2, <3>5 DEF Unlinking
  <2>3. CASE DrainOk(p, f)
    <3>1. /\ f \in spool \ partial /\ UNCHANGED <<todo, spool, partial, excused>>
          /\ pc'[p] = "unlinkEntry" /\ Newest(todo'[p]) = f
      BY <2>1, <2>3 DEF DrainOk, Legible, Goto, TypeOK
    <3>2. f \in Live /\ Live' = Live \ {f}
      BY <1>1, <2>0, <2>1, <3>1 DEF Files, Doomed
    <3>3. CASE UNCHANGED <<sent, doubled>>
      <4>1. LiveUnsent' /\ LiveSingle'
        BY <3>1, <3>2, <3>3, LiveShrinks DEF Tidy
      <4> QED
        BY <1>1, <2>1, <3>1, <3>3, <4>1, TidyOfOne DEF Tidy
    <3>4. CASE Deliver(f.msg)
      <4>1. LiveUnsent' /\ LiveSingle' /\ doubled' \subseteq excused'
        BY <3>1, <3>2, <3>4, TidyDeliver
      <4> QED
        BY <1>1, <3>1, <4>1, TidyOfOne
    <3> QED
      BY <2>3, <3>3, <3>4 DEF DrainOk
  <2>4. CASE DrainUnanswered(p, f)
    <3>1. /\ f \in spool \ partial /\ UNCHANGED <<spool, partial>> /\ Deliver(f.msg)
          /\ pc'[p] = "unlock" /\ excused' = excused \cup {f.msg}
      BY <2>4 DEF DrainUnanswered, Unanswered, Legible, Goto, TypeOK
    <3>2. Files' = Files
      BY <2>1, <3>1 DEF Files
    <3>3. f \in Live /\ Live' = Live
      BY <1>9, <2>0, <3>1, <3>2 DEF Unlinking, Files
    <3>4. LiveUnsent' /\ LiveSingle' /\ doubled' \subseteq excused'
      BY <3>1, <3>3, TidyDeliver
    <3> QED
      BY <1>1, <3>1, <3>4, TidyOfOne
  <2>5. CASE DrainBusDown(p, f)
    <3>1. /\ f \in spool \ partial /\ f.msg \in Message
          /\ UNCHANGED todo /\ PublishRaises(f.msg)
      BY <2>5 DEF DrainBusDown, Legible, TypeOK, File
    <3>2. f \in Live
      BY <2>0, <3>1 DEF Files
    <3>3. CASE /\ Room /\ Create(f.msg) /\ Goto(p, "fill")
               /\ copy' = [copy EXCEPT ![p] = NewFile(f.msg)]
      <4>1. /\ Files' = Files /\ NewFile(f.msg).msg = f.msg
            /\ f \in spool' \ partial'
        BY <2>1, <3>1, <3>3, CreateCalm
      <4>2. pc'[p] = "fill" /\ copy'[p].msg = f.msg /\ Newest(todo'[p]) = f
        BY <2>1, <3>1, <3>3, <4>1 DEF Goto, TypeOK
      <4>3. Live' = Live
        BY <1>9, <2>0, <4>1, <4>2 DEF Unlinking
      <4>4. LiveUnsent' /\ LiveSingle' /\ doubled' \subseteq excused'
        BY <3>1, <3>2, <4>3, TidyRaises
      <4> QED
        BY <1>1, <4>1, <4>2, <4>4, TidyOfOne
    <3>4. CASE Goto(p, "unlock") /\ UNCHANGED writeVars
      <4>1. pc'[p] = "unlock" /\ Files' = Files
        BY <2>1, <3>4 DEF Goto, TypeOK, Files
      <4>2. Live' = Live
        BY <1>9, <2>0, <4>1 DEF Unlinking
      <4>3. LiveUnsent' /\ LiveSingle' /\ doubled' \subseteq excused'
        BY <3>1, <3>2, <4>2, TidyRaises
      <4> QED
        BY <1>1, <4>1, <4>3, TidyOfOne
    <3> QED
      BY <2>5, <3>3, <3>4 DEF DrainBusDown
  <2> QED
    BY <2>1, <2>2, <2>3, <2>4, <2>5
<1> QED
  BY <1>4, <1>5, <1>6, <1>7, <1>8, <1>10, <1>11, <1>12 DEF Replay

\* A death leaves the file that was about to go, and excuses its message; one
\* during a write leaves an unreadable file beside the entry.
LEMMA TidyDeath ==
    ASSUME TypeOK, Tidy, NEW p \in Flusher, Die(p)
    PROVE  Tidy'
<1> USE DEF lockVars, runVars, writeVars, fileVars, busVars, envVars
<1>1. /\ pc'[p] = "idle" /\ UNCHANGED <<spool, partial, retired, sent, doubled>>
      /\ excused \subseteq excused'
  BY DEF Die, Goto, TypeOK
<1>2. \A q \in Flusher \ {p} : Bystander(q)
  BY OthersStay
<1>3. Alone'
  BY <1>1, <1>2 DEF Tidy, Alone, Bystander, Replaying
<1>4. CASE pc[p] \notin Unlinking
  <2>1. \A q \in Flusher :
           \/ Bystander(q)
           \/ /\ pc[q] \notin Unlinking
              /\ pc'[q] \notin Unlinking \cup {"fill", "forceFill"}
    BY <1>1, <1>2, <1>4 DEF Unlinking
  <2> QED
    BY <1>1, <1>3, <2>1, TidyQuiet
<1>5. CASE pc[p] \in Unlinking
  <2>1. /\ Live = {f \in Files : ~Doomed(p, f)}
        /\ Live' = {f \in Files' : ~Doomed(p, f)'}
        /\ \A q \in Flusher \ {p} : pc'[q] \notin Replaying
    BY <1>5, ReplaysAlone DEF Unlinking, Replaying
  <2>2. \A f : Doomed(p, f) => f.msg \in excused'
    <3>1. CASE pc[p] = "unlinkRetired"
      BY <3>1 DEF Die, Doomed
    <3>2. CASE pc[p] \in {"unlinkEntry", "unlinkOld"}
      BY <3>2 DEF Die, Doomed
    <3> QED
      BY <1>5, <3>1, <3>2 DEF Unlinking
  <2>3. \A f \in Live' : f \in Live \/ f.msg \in excused'
    BY <1>1, <2>1, <2>2 DEF Files
  <2>4. LiveUnsent' /\ LiveSingle'
    BY <1>1, <2>3, LiveShrinks DEF Tidy
  <2>5. doubled' \subseteq excused'
    BY <1>1 DEF Tidy
  <2> QED
    BY <1>1, <1>3, <2>1, <2>4, <2>5, TidyOfOne DEF Replaying
<1> QED
  BY <1>4, <1>5

\* An operator's file is not readable when it is made; a message that was
\* published all the same is excused.
LEMMA TidySpool ==
    ASSUME TypeOK, Stamped, Orderly, Tidy, NEW m \in Message, SpoolEnvelope(m)
    PROVE  Tidy'
<1> USE DEF lockVars, runVars, writeVars, fileVars, busVars, envVars
<1>1. /\ Files' = Files
      /\ \A f \in spool : f \in spool'
      /\ \A f \in spool \ partial : f \in spool' \ partial'
  BY CreateCalm DEF SpoolEnvelope
<1>2. m \notin begun /\ UNCHANGED <<pc, redo, todo, copy, retired>> /\ PublishRaises(m)
  BY DEF SpoolEnvelope
<1>3. Live' = Live
  BY <1>1, <1>2 DEF Live, Doomed
<1>4. \A f \in Live : f.msg # m
  BY <1>2 DEF Orderly, Live
<1>5. /\ excused \subseteq excused' /\ sent' \subseteq sent \cup {m}
      /\ doubled' \subseteq excused'
  BY <1>2 DEF PublishRaises, Deliver, Tidy
<1>6. LiveUnsent' /\ LiveSingle'
  BY <1>3, <1>4, <1>5, LiveShrinks DEF Tidy
<1>7. Alone'
  BY <1>2 DEF Tidy, Alone
<1>8. ASSUME NEW q \in Flusher PROVE PlaceOf(q)'
  BY <1>1, <1>2, <1>5 DEF Tidy, DoomedThere, PlaceOf
<1> QED
  BY <1>5, <1>6, <1>7, <1>8 DEF Tidy, DoomedThere

\* The file that an operator has filled is the first of its message.
LEMMA TidyFill ==
    ASSUME TypeOK, Orderly, Tidy, NEW f \in drafts, FillEnvelope(f)
    PROVE  Tidy'
<1> USE DEF lockVars, runVars, writeVars, fileVars, busVars, envVars
<1>1. /\ UNCHANGED <<pc, redo, todo, copy, spool, retired, sent, doubled, excused>>
      /\ partial' \in {partial, partial \ {f}}
  BY DEF FillEnvelope, Fill
<1>2. Live' \subseteq Live \cup {f}
  BY <1>1 DEF Live, Files, Doomed
<1>3. \A g \in Live : g.msg # f.msg
  BY DEF Orderly, Live
<1>4. f.msg \in sent => f.msg \in excused
  BY DEF Orderly
<1>5. LiveUnsent'
  BY <1>1, <1>2, <1>4 DEF Tidy, LiveUnsent
<1>6. LiveSingle'
  BY <1>1, <1>2, <1>3 DEF Tidy, LiveSingle
<1>7. Alone' /\ doubled' \subseteq excused'
  BY <1>1 DEF Tidy, Alone
<1>8. ASSUME NEW q \in Flusher PROVE PlaceOf(q)'
  BY <1>1 DEF Tidy, DoomedThere, PlaceOf
<1> QED
  BY <1>5, <1>6, <1>7, <1>8 DEF Tidy, DoomedThere

\* The flag for an overlap is never taken back.
LEMMA OverlapStays == ASSUME TypeOK, Next, ~overlap' PROVE ~overlap
<1>1. CASE UNCHANGED overlap
  BY <1>1
<1>2. ASSUME NEW p \in Flusher, TryLock(p) PROVE ~overlap
  BY <1>2 DEF TryLock
<1>3. ASSUME NEW p \in Flusher, ~TryLock(p), Flush(p) \/ Die(p)
      PROVE  UNCHANGED overlap
  BY <1>3 DEF Flush, RunFlush, Acquire, StatLock, ReapOpen, ReapLock, ReapUnlink,
              ReapClose, OpenLock, Unlock, UnlinkLock, Replay, Scan, UnlinkRetired,
              UnlinkEntry, UnlinkOld, ForceEnd, DrainEnd, ForceRetired, FillForced,
              Drain, FillCopy, EndCopy, Die
<1> QED
  BY <1>1, <1>2, <1>3 DEF Next, SpoolEnvelope, FillEnvelope, GrowStale, BusRecovers

\* A message of the operator spool is published twice only when a publish that
\* raised late or went unanswered, an unlink that failed or a death left it a
\* copy, or when two flushers replayed at once.
THEOREM DoublesAreExplained == Spec => []DoubleExplained
<1>1. Init => Orderly /\ Tidy
  BY DEF Init, Orderly, Tidy, Alone, DoomedThere, PlaceOf, LiveUnsent, LiveSingle,
         Live, Files, Replaying
<1>2. IInv /\ Orderly /\ (overlap \/ Tidy) /\ [Next]_vars
        => Orderly' /\ (overlap' \/ Tidy')
  <2> SUFFICES ASSUME IInv, Orderly, overlap \/ Tidy, [Next]_vars
               PROVE  Orderly' /\ (overlap' \/ Tidy')
    OBVIOUS
  <2>1. CASE Next
    <3>1. Orderly'
      BY <2>1, OrderlyStep DEF IInv
    <3>2. ASSUME ~overlap' PROVE Tidy'
      <4>1. Tidy /\ TypeOK /\ Stamped
        BY <2>1, <3>2, OverlapStays DEF IInv
      <4>2. ASSUME NEW p \in Flusher, Flush(p) \/ Die(p) PROVE Tidy'
        BY <3>2, <4>1, <4>2, TidyLock, TidyReplay, TidyDeath DEF Flush
      <4>3. CASE GrowStale \/ BusRecovers
        <5>1. UNCHANGED <<pc, redo, todo, copy, spool, partial, retired, sent, doubled, excused>>
          BY <4>3 DEF GrowStale, BusRecovers, runVars, fileVars, writeVars, busVars
        <5>2. Alone'
          BY <4>1, <5>1 DEF Tidy, Alone
        <5>3. \A q \in Flusher : Bystander(q)
          BY <5>1 DEF Bystander
        <5> QED
          BY <4>1, <5>1, <5>2, <5>3, TidyQuiet
      <4> QED
        BY <2>1, <4>1, <4>2, <4>3, TidySpool, TidyFill DEF Next
    <3> QED
      BY <3>1, <3>2
  <2>2. CASE UNCHANGED vars
    <3>1. UNCHANGED <<pc, redo, todo, copy, spool, partial, retired, drafts, sent, doubled,
                      excused, overlap, begun, given>>
      BY <2>2 DEF vars, runVars, fileVars, writeVars, busVars, envVars
    <3>2. Orderly'
      BY <3>1 DEF Orderly, Files
    <3>3. Tidy => Tidy'
      BY <3>1 DEF Tidy, Alone, DoomedThere, PlaceOf, LiveUnsent, LiveSingle, Live, Files, Doomed
    <3> QED
      BY <3>1, <3>2, <3>3
  <2> QED
    BY <2>1, <2>2
<1>3. Tidy => doubled \subseteq excused
  BY DEF Tidy
<1>4. (overlap \/ Tidy) => DoubleExplained
  BY <1>3 DEF DoubleExplained
<1> QED
  BY <1>1, <1>2, <1>4, InvariantHolds, PTL DEF Spec

=============================================================================
