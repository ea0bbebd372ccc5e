-------------------------- MODULE FeedWriterProofs --------------------------
(***************************************************************************)
(* Proofs about FeedWriter, for any number of writers, records, days,      *)
(* rotations and crashes: the types, that only sealing and a lost buffer   *)
(* lose a record, and that a second writer needs a lapsed lease.           *)
(***************************************************************************)
EXTENDS FeedWriter, TLAPS

-----------------------------------------------------------------------------
(* Types *)

\* The steps of a writer.
WriterStep(w) ==
    \/ Acquire(w) \/ DetectHalfStates(w) \/ Recover(w)
    \/ RenewGet(w) \/ RenewSet(w) \/ FlushBuffer(w)
    \/ \E r \in Record : Append(w, r) \/ RotateAppend(w, r)
    \/ Close(w) \/ UpdateMetrics(w) \/ SaveManifest(w)
    \/ ReleaseGet(w) \/ ReleaseDel(w) \/ Crash(w)

\* The steps of the rotation job.
JobStep ==
    \/ \E d \in Day, zstd \in BOOLEAN : Compress(d, zstd)
    \/ WriteChecksum \/ UnlinkLive \/ RenameSealed \/ RenameLive \/ RotatorDies

\* A day is a date of the manifest.
LEMMA DayDate == \A d \in Day : d \in 0..MaxDay
  BY FeedAssumption DEF Day

\* The initial state is well typed.
LEMMA InitTyped == Init => TypeOK
  <1> SUFFICES ASSUME Init PROVE TypeOK
    OBVIOUS
  <1>1. 1 \in Day
    BY FeedAssumption DEF Day
  <1>2. found \in [Writer -> [live : SUBSET Day, sealed : SUBSET Day, tmp : BOOLEAN]]
    BY DEF Init, NoHalfState
  <1>3. rot \in [st : {"off", "compressed", "summed", "unlinked"}, day : 0..MaxDay, zstd : BOOLEAN]
    BY FeedAssumption DEF Init
  <1>4. sidecars \subseteq Day \X {"ndjson.zst.sha256", "sha256"}
    BY DEF Init
  <1>5. 0 \in 0..MaxDay /\ 0 \in 0..MaxRotations /\ 0 \in 0..MaxCrashes
    BY FeedAssumption
  <1>6. rot.st = "off"
    BY DEF Init
  <1> QED BY <1>1, <1>2, <1>3, <1>4, <1>5, <1>6 DEF Init, TypeOK, Open

\* Flushing keeps the type of the live files.
LEMMA FlushedTyped ==
  ASSUME TypeOK, NEW w \in Writer, NEW R \in SUBSET Record
  PROVE  Flushed(w, R) \in [Day -> SUBSET Record]
  BY DEF TypeOK, Flushed

\* Every step of a writer keeps the types.
LEMMA WriterStepTyped ==
  ASSUME TypeOK, NEW w \in Writer, WriterStep(w)
  PROVE  TypeOK'
  <1> USE FeedAssumption DEF Open
  <1>1. CASE Acquire(w)
    BY <1>1 DEF TypeOK, Acquire, files, history
  <1>2. CASE DetectHalfStates(w)
    BY <1>2 DEF TypeOK, DetectHalfStates, files, history
  <1>3. CASE Recover(w)
    <2>1. found' \in [Writer -> [live : SUBSET Day, sealed : SUBSET Day, tmp : BOOLEAN]]
      BY <1>3 DEF TypeOK, Recover, NoHalfState
    <2>2. live' \in [Day -> SUBSET Record] /\ sealed' \in [Day -> SUBSET Record]
      BY <1>3 DEF TypeOK, Recover, Opened
    <2>3. /\ liveDays' \subseteq Day /\ sealedDays' \subseteq Day /\ orphan' \subseteq Writer
          /\ manifest' \in 0..MaxDay /\ tmp' \in 0..MaxDay /\ sidecars' = sidecars
      BY <1>3 DEF TypeOK, Recover, Losing
    <2>4. day \in Day /\ (manifest # 0 => manifest \in Day)
      BY DEF TypeOK, Day
    <2>5. /\ mdate' \in [Writer -> 0..MaxDay] /\ handle' \in [Writer -> 0..MaxDay]
          /\ pc' \in [Writer -> {"off", "scan", "recover", "idle", "renew", "write", "metrics",
                                 "save", "release", "delete"}]
          /\ \A v \in Writer : pc'[v] \in Open => mdate'[v] \in Day /\ handle'[v] \in Day
      BY <1>3, <2>4, DayDate DEF TypeOK, Recover
    <2> QED BY <1>3, <2>1, <2>2, <2>3, <2>5 DEF TypeOK, Recover, history
  <1>4. CASE RenewGet(w)
    BY <1>4 DEF TypeOK, RenewGet, files, history
  <1>5. CASE RenewSet(w)
    BY <1>5 DEF TypeOK, RenewSet, files, history
  <1>6. CASE FlushBuffer(w)
    BY <1>6, FlushedTyped DEF TypeOK, FlushBuffer, history
  <1>7. ASSUME NEW r \in Record, Append(w, r) PROVE TypeOK'
    <2>1. Flushed(w, {r}) \in [Day -> SUBSET Record]
      BY FlushedTyped
    <2>2. live' \in [Day -> SUBSET Record] /\ buf' \in [Writer -> SUBSET Record]
      <3>1. CASE w \in AlwaysSync
        BY <1>7, <2>1, <3>1 DEF TypeOK, Append
      <3>2. CASE w \notin AlwaysSync
        BY <1>7, <3>2 DEF TypeOK, Append
      <3> QED BY <3>1, <3>2
    <2>3. place' \in [Record -> 0..MaxDay]
      BY <1>7 DEF TypeOK, Append
    <2> QED BY <1>7, <2>2, <2>3 DEF TypeOK, Append
  <1>8. ASSUME NEW r \in Record, RotateAppend(w, r) PROVE TypeOK'
    <2>1. Flushed(w, buf[w]) \in [Day -> SUBSET Record]
      BY FlushedTyped DEF TypeOK
    <2>2. mdate[w] \in Day
      BY <1>8 DEF TypeOK, RotateAppend
    <2>3. live' \in [Day -> SUBSET Record] /\ buf' \in [Writer -> SUBSET Record]
      <3>1. CASE w \in AlwaysSync
        <4> DEFINE closed == Flushed(w, buf[w])
        <4>1. live' = [closed EXCEPT ![mdate[w]] = @ \union {r}] /\ buf' = [buf EXCEPT ![w] = {}]
          BY <1>8, <3>1 DEF RotateAppend
        <4>2. buf' \in [Writer -> SUBSET Record]
          BY <4>1 DEF TypeOK
        <4>3. closed \in [Day -> SUBSET Record]
          BY <2>1
        <4> HIDE DEF closed
        <4> QED BY <4>1, <4>2, <4>3, <2>2
      <3>2. CASE w \notin AlwaysSync
        BY <1>8, <2>1, <3>2 DEF TypeOK, RotateAppend
      <3> QED BY <3>1, <3>2
    <2>4. /\ liveDays' \subseteq Day /\ orphan' \subseteq Writer
          /\ place' \in [Record -> 0..MaxDay] /\ handle' \in [Writer -> 0..MaxDay]
      BY <1>8, <2>2, DayDate DEF TypeOK, RotateAppend
    <2>5. \A v \in Writer : pc'[v] \in Open => mdate'[v] \in Day /\ handle'[v] \in Day
      BY <1>8, <2>2 DEF TypeOK, RotateAppend
    <2> QED BY <1>8, <2>3, <2>4, <2>5 DEF TypeOK, RotateAppend
  <1>9. CASE Close(w)
    BY <1>9, FlushedTyped DEF TypeOK, Close, history
  <1>10. CASE UpdateMetrics(w)
    BY <1>10 DEF TypeOK, UpdateMetrics, files, history
  <1>11. CASE SaveManifest(w)
    BY <1>11 DEF TypeOK, SaveManifest, files, history
  <1>12. CASE ReleaseGet(w)
    BY <1>12 DEF TypeOK, ReleaseGet, files, history
  <1>13. CASE ReleaseDel(w)
    BY <1>13 DEF TypeOK, ReleaseDel, files, history
  <1>14. CASE Crash(w)
    BY <1>14 DEF TypeOK, Crash, NoHalfState, files
  <1> QED
    BY <1>1, <1>2, <1>3, <1>4, <1>5, <1>6, <1>7, <1>8, <1>9, <1>10, <1>11,
       <1>12, <1>13, <1>14 DEF WriterStep

\* Every step of the rotation job keeps the types.
LEMMA JobStepTyped ==
  ASSUME TypeOK, JobStep
  PROVE  TypeOK'
  <1> USE FeedAssumption
  <1>1. ASSUME NEW d \in Day, NEW zstd \in BOOLEAN, Compress(d, zstd) PROVE TypeOK'
    <2>1. /\ rot' \in [st : {"off", "compressed", "summed", "unlinked"}, day : 0..MaxDay,
                         zstd : BOOLEAN]
          /\ rot'.day \in Day
      BY <1>1, DayDate DEF Compress
    <2>2. kept' \subseteq Record /\ touched' \subseteq Day /\ rotations' \in 0..MaxRotations
      BY <1>1 DEF TypeOK, Compress
    <2> QED BY <1>1, <2>1, <2>2 DEF TypeOK, Compress, files, writerVars
  <1>2. CASE WriteChecksum
    <2>1. rot.day \in Day
      BY <1>2 DEF TypeOK, WriteChecksum
    <2> QED BY <1>2, <2>1 DEF TypeOK, WriteChecksum, WrittenSidecar, writerVars, history
  <1>3. CASE UnlinkLive
    BY <1>3 DEF TypeOK, UnlinkLive, Losing, history
  <1>4. CASE RenameSealed
    BY <1>4 DEF TypeOK, RenameSealed, RotIdle, writerVars, history
  <1>5. CASE RenameLive
    BY <1>5 DEF TypeOK, RenameLive, RotIdle, Losing, files, history
  <1>6. CASE RotatorDies
    BY <1>6 DEF TypeOK, RotatorDies, RotIdle, files, writerVars, history
  <1> QED BY <1>1, <1>2, <1>3, <1>4, <1>5, <1>6 DEF JobStep

\* Every step keeps the types.
LEMMA StepTyped == TypeOK /\ [Next]_vars => TypeOK'
  <1> SUFFICES ASSUME TypeOK, [Next]_vars PROVE TypeOK'
    OBVIOUS
  <1> USE FeedAssumption
  <1>1. ASSUME NEW w \in Writer, WriterStep(w) PROVE TypeOK'
    BY <1>1, WriterStepTyped
  <1>2. CASE JobStep
    BY <1>2, JobStepTyped
  <1>3. CASE Expire
    BY <1>3 DEF TypeOK, Expire, files, writerVars
  <1>4. CASE Midnight
    BY <1>4 DEF TypeOK, Midnight, files, writerVars, history, Day
  <1>5. CASE UNCHANGED vars
    BY <1>5 DEF TypeOK, vars, files, writerVars, history
  <1> QED BY <1>1, <1>2, <1>3, <1>4, <1>5 DEF Next, WriterStep, JobStep

\* The state of the feed is well typed, and a writer that has its file open has
\* a manifest and the file of a day (FeedWriter.open).
THEOREM TypeCorrect == Spec => []TypeOK
  <1>1. Init => TypeOK
    BY InitTyped
  <1>2. TypeOK /\ [Next]_vars => TypeOK'
    BY StepTyped
  <1> QED BY <1>1, <1>2, PTL DEF Spec

-----------------------------------------------------------------------------
(* The lease *)

\* Until a lease has expired under a running writer, the writer that runs has it.
LeaseHeld == ~lapsed => \A w \in Writer : pc[w] # "off" => lease = w

\* Every step keeps it.
LEMMA StepLease == TypeOK /\ LeaseHeld /\ [Next]_vars => LeaseHeld'
  <1> SUFFICES ASSUME TypeOK, LeaseHeld, [Next]_vars PROVE LeaseHeld'
    OBVIOUS
  <1> USE FeedAssumption DEF LeaseHeld, TypeOK
  <1>1. ASSUME NEW w \in Writer, Acquire(w) PROVE LeaseHeld'
    BY <1>1 DEF Acquire, history
  <1>2. ASSUME NEW w \in Writer,
               \/ DetectHalfStates(w) \/ Recover(w) \/ RenewGet(w) \/ UpdateMetrics(w)
               \/ Close(w) \/ SaveManifest(w) \/ FlushBuffer(w) \/ ReleaseGet(w)
        PROVE  LeaseHeld'
    BY <1>2 DEF DetectHalfStates, Recover, RenewGet, UpdateMetrics, Close, SaveManifest,
                FlushBuffer, ReleaseGet, history
  <1>3. ASSUME NEW w \in Writer, NEW r \in Record, Append(w, r) \/ RotateAppend(w, r)
        PROVE  LeaseHeld'
    BY <1>3 DEF Append, RotateAppend
  <1>4. ASSUME NEW w \in Writer, RenewSet(w) PROVE LeaseHeld'
    BY <1>4 DEF RenewSet, history
  <1>5. ASSUME NEW w \in Writer, ReleaseDel(w) PROVE LeaseHeld'
    BY <1>5 DEF ReleaseDel, history
  <1>6. ASSUME NEW w \in Writer, Crash(w) PROVE LeaseHeld'
    BY <1>6 DEF Crash
  <1>7. CASE JobStep
    BY <1>7 DEF JobStep, Compress, WriteChecksum, UnlinkLive, RenameSealed, RenameLive,
                RotatorDies, writerVars, history
  <1>8. CASE Expire
    BY <1>8 DEF Expire, writerVars
  <1>9. CASE Midnight \/ UNCHANGED vars
    BY <1>9 DEF Midnight, vars, writerVars, history
  <1> QED BY <1>1, <1>2, <1>3, <1>4, <1>5, <1>6, <1>7, <1>8, <1>9 DEF Next, JobStep

\* SET NX, the check at renewal and the check before DELETE keep two writers
\* from having the feed open together until a lease expires under a running
\* writer (_try_acquire_lease, _renew_lease_if_needed, _release_lease).
THEOREM LeaseExcludes == Spec => []SingleWriterUnlessLapsed
  <1>1. Init => LeaseHeld
    BY DEF Init, LeaseHeld
  <1>2. TypeOK /\ LeaseHeld /\ [Next]_vars => LeaseHeld'
    BY StepLease
  <1>3. LeaseHeld => SingleWriterUnlessLapsed
    BY DEF LeaseHeld, SingleWriterUnlessLapsed
  <1> QED BY <1>1, <1>2, <1>3, TypeCorrect, PTL DEF Spec

-----------------------------------------------------------------------------
(* Records *)

\* What is unlinked, sealed or nameless is of a day that is being sealed.
SealedTouched ==
    /\ sealedDays \subseteq touched
    /\ \A w \in Writer : found[w].live \subseteq touched
    /\ rot.st # "off" => rot.day \in touched
    /\ \A w \in orphan : handle[w] \in touched

\* Only a writer with an open file has a buffer.
BufferOpen == \A w \in Writer : pc[w] \notin Open => buf[w] = {}

\* Where an acknowledged record is, unless its day is being sealed: in the file
\* it was written to, in the buffer of a writer that has this file open, or
\* gone with such a buffer.
InPlace(r) ==
    \/ place[r] \in touched \/ r \in shed
    \/ r \in live[place[r]]
    \/ \E w \in Writer : r \in buf[w] /\ handle[w] = place[r]

AllInPlace == \A r \in Record : place[r] # 0 => InPlace(r)

Safe == SealedTouched /\ BufferOpen /\ AllInPlace

\* A record in place stays there when nothing of its own moves.
LEMMA Undisturbed ==
  ASSUME TypeOK, Safe, UNCHANGED <<place, shed, buf>>, touched \subseteq touched',
         \A d \in Day : d \notin touched => live[d] \subseteq live'[d],
         \A w \in Writer : buf[w] # {} => handle'[w] = handle[w]
  PROVE  AllInPlace'
  <1> SUFFICES ASSUME NEW r \in Record, place'[r] # 0 PROVE InPlace(r)'
    BY DEF AllInPlace
  <1>1. InPlace(r) /\ place[r] \in Day
    BY FeedAssumption DEF TypeOK, Safe, AllInPlace, Day
  <1> QED BY <1>1 DEF InPlace, TypeOK

\* The steps that only move a writer along.
LEMMA QuietSafe ==
  ASSUME TypeOK, Safe, UNCHANGED <<liveDays, live, sealedDays, orphan, handle, buf, found, rot>>,
         UNCHANGED <<place, shed, touched>>,
         \A w \in Writer : pc'[w] \in Open \/ pc'[w] = pc[w] \/ buf[w] = {}
  PROVE  Safe'
  <1>1. SealedTouched' /\ BufferOpen'
    BY DEF Safe, SealedTouched, BufferOpen
  <1>2. AllInPlace'
    BY Undisturbed
  <1> QED BY <1>1, <1>2 DEF Safe

\* The records that w flushes reach the file they belong to, if its day is not
\* being sealed; no other file changes.
LEMMA FlushReaches ==
  ASSUME TypeOK, Safe, NEW w \in Writer, NEW R \in SUBSET Record, handle[w] \in Day
  PROVE  /\ \A d \in Day : live[d] \subseteq Flushed(w, R)[d]
         /\ handle[w] \notin touched => R \subseteq Flushed(w, R)[handle[w]]
  BY DEF TypeOK, Safe, SealedTouched, Flushed

\* Recovery unlinks only files of days that are being sealed.
LEMMA RecoverSafe ==
  ASSUME TypeOK, Safe, NEW w \in Writer, Recover(w)
  PROVE  Safe'
  <1>1. buf[w] = {}
    BY DEF Safe, BufferOpen, Recover, Open
  <1>2. \A d \in Day : d \notin touched => live'[d] = live[d]
    BY DEF Recover, Opened, Safe, SealedTouched
  <1>3. AllInPlace'
    BY <1>1, <1>2, Undisturbed DEF Recover, history, TypeOK
  <1>4. BufferOpen'
    BY <1>1 DEF Recover, Safe, BufferOpen, Open, TypeOK
  <1>5. SealedTouched'
    BY DEF Recover, Safe, SealedTouched, Losing, NoHalfState, history, TypeOK
  <1> QED BY <1>3, <1>4, <1>5 DEF Safe

\* An appended record is in its place at once.
LEMMA AppendSafe ==
  ASSUME TypeOK, Safe, NEW w \in Writer, NEW r \in Record, Append(w, r)
  PROVE  Safe'
  <1>1. handle[w] \in Day /\ pc[w] \in Open
    BY DEF TypeOK, Append, Open
  <1>2. SealedTouched' /\ BufferOpen'
    BY <1>1 DEF Append, Safe, SealedTouched, BufferOpen, Open, TypeOK
  <1>3. \A d \in Day : live[d] \subseteq live'[d]
    BY <1>1, FlushReaches DEF Append
  <1>4. \A v \in Writer : buf[v] \subseteq buf'[v]
    BY DEF Append, TypeOK
  <1>5. InPlace(r)'
    <2>1. place'[r] = handle[w] /\ handle' = handle /\ touched' = touched
      BY DEF Append, TypeOK
    <2>2. CASE w \in AlwaysSync
      BY <2>1, <2>2, <1>1, FlushReaches DEF Append, InPlace
    <2>3. CASE w \notin AlwaysSync
      BY <2>1, <2>3 DEF Append, InPlace, TypeOK
    <2> QED BY <2>2, <2>3
  <1>6. ASSUME NEW q \in Record, place'[q] # 0, q # r PROVE InPlace(q)'
    <2>1. place'[q] = place[q] /\ place[q] \in Day /\ InPlace(q)
      BY <1>6, FeedAssumption DEF Append, TypeOK, Safe, AllInPlace, Day
    <2> QED BY <2>1, <1>3, <1>4 DEF InPlace, Append
  <1> QED BY <1>2, <1>5, <1>6 DEF Safe, AllInPlace

\* A writer flushes: what was in its buffer is in place without it.
LEMMA FlushedInPlace ==
  ASSUME TypeOK, Safe, NEW w \in Writer, handle[w] \in Day,
         UNCHANGED <<place, shed, touched>>,
         live' = Flushed(w, buf[w]), buf' = [buf EXCEPT ![w] = {}],
         \A v \in Writer \ {w} : handle'[v] = handle[v]
  PROVE  AllInPlace'
  <1> SUFFICES ASSUME NEW r \in Record, place'[r] # 0 PROVE InPlace(r)'
    BY DEF AllInPlace
  <1>1. InPlace(r) /\ place[r] \in Day
    BY FeedAssumption DEF TypeOK, Safe, AllInPlace, Day
  <1>2. buf[w] \in SUBSET Record
    BY DEF TypeOK
  <1>3. \A d \in Day : live[d] \subseteq live'[d]
    BY <1>2, FlushReaches
  <1>4. ASSUME r \in buf[w], handle[w] = place[r] PROVE InPlace(r)'
    BY <1>2, <1>4, FlushReaches DEF InPlace
  <1>5. ASSUME NEW v \in Writer \ {w}, r \in buf[v], handle[v] = place[r] PROVE InPlace(r)'
    BY <1>5 DEF InPlace, TypeOK
  <1> QED BY <1>1, <1>3, <1>4, <1>5 DEF InPlace

\* A rotated file loses nothing: its buffer was flushed before it was closed.
LEMMA RotateSafe ==
  ASSUME TypeOK, Safe, NEW w \in Writer, NEW r \in Record, RotateAppend(w, r)
  PROVE  Safe'
  <1> DEFINE closed == Flushed(w, buf[w])
  <1>1. handle[w] \in Day /\ mdate[w] \in Day /\ pc[w] \in Open
    BY DEF TypeOK, RotateAppend, Open
  <1>2. SealedTouched'
    BY DEF RotateAppend, Safe, SealedTouched, TypeOK
  <1>3. BufferOpen'
    BY DEF RotateAppend, Safe, BufferOpen, Open, TypeOK
  <1>4. buf[w] \in SUBSET Record /\ closed \in [Day -> SUBSET Record]
    BY FlushedTyped DEF TypeOK
  <1>5. /\ \A d \in Day : live[d] \subseteq closed[d]
        /\ handle[w] \notin touched => buf[w] \subseteq closed[handle[w]]
    BY <1>1, <1>4, FlushReaches
  <1>6. live' = IF w \in AlwaysSync THEN [closed EXCEPT ![mdate[w]] = @ \union {r}] ELSE closed
    BY DEF RotateAppend
  <1>7. buf' = [buf EXCEPT ![w] = IF w \in AlwaysSync THEN {} ELSE {r}]
    BY DEF RotateAppend
  <1>8. /\ place' = [place EXCEPT ![r] = mdate[w]] /\ handle' = [handle EXCEPT ![w] = mdate[w]]
        /\ touched' = touched /\ shed' = shed
    BY DEF RotateAppend
  <1> HIDE DEF closed
  <1>9. \A d \in Day : closed[d] \subseteq live'[d]
    BY <1>1, <1>4, <1>6
  <1>10. InPlace(r)'
    <2>1. place'[r] = mdate[w] /\ handle'[w] = mdate[w]
      BY <1>8 DEF TypeOK
    <2>2. CASE w \in AlwaysSync
      BY <2>1, <2>2, <1>1, <1>4, <1>6 DEF InPlace
    <2>3. CASE w \notin AlwaysSync
      BY <2>1, <2>3, <1>7 DEF InPlace, TypeOK
    <2> QED BY <2>2, <2>3
  <1>11. ASSUME NEW q \in Record, place'[q] # 0, q # r PROVE InPlace(q)'
    <2>1. place'[q] = place[q] /\ place[q] \in Day /\ InPlace(q)
      BY <1>8, <1>11, FeedAssumption DEF TypeOK, Safe, AllInPlace, Day
    <2>2. ASSUME q \in buf[w], handle[w] = place[q] PROVE InPlace(q)'
      BY <2>1, <2>2, <1>5, <1>8, <1>9 DEF InPlace
    <2>3. ASSUME NEW v \in Writer \ {w}, q \in buf[v], handle[v] = place[q] PROVE InPlace(q)'
      BY <2>1, <2>3, <1>7, <1>8 DEF InPlace, TypeOK
    <2> QED BY <2>1, <2>2, <2>3, <1>5, <1>8, <1>9 DEF InPlace
  <1> QED BY <1>2, <1>3, <1>10, <1>11 DEF Safe, AllInPlace

\* The steps of the rotation job touch the day they began with only.
LEMMA JobSafe ==
  ASSUME TypeOK, Safe, JobStep
  PROVE  Safe'
  <1> USE DEF RotIdle
  <1>1. ASSUME NEW d \in Day, NEW zstd \in BOOLEAN, Compress(d, zstd) PROVE Safe'
    <2>1. AllInPlace'
      BY <1>1, Undisturbed DEF Compress, files, writerVars
    <2>2. SealedTouched' /\ BufferOpen'
      BY <1>1 DEF Compress, files, writerVars, Safe, SealedTouched, BufferOpen
    <2> QED BY <2>1, <2>2 DEF Safe
  <1>2. CASE WriteChecksum
    <2>1. AllInPlace'
      BY <1>2, Undisturbed DEF WriteChecksum, writerVars, history
    <2>2. rot'.day = rot.day
      BY <1>2 DEF WriteChecksum, TypeOK
    <2>3. SealedTouched' /\ BufferOpen'
      BY <1>2, <2>2 DEF WriteChecksum, writerVars, history, Safe, SealedTouched, BufferOpen
    <2> QED BY <2>1, <2>3 DEF Safe
  <1>3. CASE UnlinkLive
    <2>1. rot.day \in touched /\ rot'.day = rot.day
      BY <1>3 DEF UnlinkLive, Safe, SealedTouched, TypeOK
    <2>2. \A d \in Day : d \notin touched => live'[d] = live[d]
      BY <1>3, <2>1 DEF UnlinkLive, TypeOK
    <2>3. AllInPlace'
      BY <1>3, <2>2, Undisturbed DEF UnlinkLive, history
    <2>4. SealedTouched' /\ BufferOpen'
      BY <1>3, <2>1 DEF UnlinkLive, history, Losing, Safe, SealedTouched, BufferOpen
    <2> QED BY <2>3, <2>4 DEF Safe
  <1>4. CASE RenameSealed
    <2>1. AllInPlace'
      BY <1>4, Undisturbed DEF RenameSealed, writerVars, history
    <2>2. SealedTouched' /\ BufferOpen'
      BY <1>4 DEF RenameSealed, writerVars, history, Safe, SealedTouched, BufferOpen
    <2> QED BY <2>1, <2>2 DEF Safe
  <1>5. CASE RenameLive
    <2>1. rot.day \in touched
      BY <1>5 DEF RenameLive, Safe, SealedTouched
    <2>2. \A d \in Day : d \notin touched => live'[d] = live[d]
      BY <1>5, <2>1 DEF RenameLive, files, TypeOK
    <2>3. AllInPlace'
      BY <1>5, <2>2, Undisturbed DEF RenameLive, history
    <2>4. SealedTouched' /\ BufferOpen'
      BY <1>5, <2>1 DEF RenameLive, files, history, Losing, Safe, SealedTouched, BufferOpen
    <2> QED BY <2>3, <2>4 DEF Safe
  <1>6. CASE RotatorDies
    <2>1. AllInPlace'
      BY <1>6, Undisturbed DEF RotatorDies, files, writerVars, history
    <2>2. SealedTouched' /\ BufferOpen'
      BY <1>6 DEF RotatorDies, files, writerVars, history, Safe, SealedTouched, BufferOpen
    <2> QED BY <2>1, <2>2 DEF Safe
  <1> QED BY <1>1, <1>2, <1>3, <1>4, <1>5, <1>6 DEF JobStep

\* Every step keeps the records in place.
LEMMA StepSafe == TypeOK /\ Safe /\ [Next]_vars => Safe'
  <1> SUFFICES ASSUME TypeOK, Safe, [Next]_vars PROVE Safe'
    OBVIOUS
  <1>1. ASSUME NEW w \in Writer, Acquire(w) \/ RenewGet(w) \/ RenewSet(w) PROVE Safe'
    BY <1>1, QuietSafe DEF Acquire, RenewGet, RenewSet, files, history, Open, TypeOK, Safe, BufferOpen
  <1>2. ASSUME NEW w \in Writer,
               UpdateMetrics(w) \/ SaveManifest(w) \/ ReleaseGet(w) \/ ReleaseDel(w)
        PROVE  Safe'
    <2>1. pc'[w] \in Open \/ buf[w] = {}
      BY <1>2 DEF UpdateMetrics, SaveManifest, ReleaseGet, ReleaseDel, Open, TypeOK, Safe, BufferOpen
    <2> QED BY <1>2, <2>1, QuietSafe
            DEF UpdateMetrics, SaveManifest, ReleaseGet, ReleaseDel, files, history, TypeOK
  <1>3. ASSUME NEW w \in Writer, DetectHalfStates(w) PROVE Safe'
    <2>1. AllInPlace'
      BY <1>3, Undisturbed DEF DetectHalfStates, files, history
    <2>2. SealedTouched'
      BY <1>3 DEF DetectHalfStates, files, history, Safe, SealedTouched, TypeOK
    <2>3. BufferOpen'
      BY <1>3 DEF DetectHalfStates, Safe, BufferOpen, Open, TypeOK
    <2> QED BY <2>1, <2>2, <2>3 DEF Safe
  <1>4. ASSUME NEW w \in Writer, Recover(w) PROVE Safe'
    BY <1>4, RecoverSafe
  <1>5. ASSUME NEW w \in Writer, NEW r \in Record, Append(w, r) \/ RotateAppend(w, r)
        PROVE  Safe'
    BY <1>5, AppendSafe, RotateSafe
  <1>6. ASSUME NEW w \in Writer, FlushBuffer(w) PROVE Safe'
    <2>1. handle[w] \in Day
      BY <1>6 DEF FlushBuffer, Safe, BufferOpen, TypeOK
    <2>2. AllInPlace'
      BY <1>6, <2>1, FlushedInPlace DEF FlushBuffer, history
    <2>3. SealedTouched' /\ BufferOpen'
      BY <1>6 DEF FlushBuffer, history, Safe, SealedTouched, BufferOpen, TypeOK
    <2> QED BY <2>2, <2>3 DEF Safe
  <1>7. ASSUME NEW w \in Writer, Close(w) PROVE Safe'
    <2>1. handle[w] \in Day
      BY <1>7 DEF Close, TypeOK, Open
    <2>2. AllInPlace'
      BY <1>7, <2>1, FlushedInPlace DEF Close, history, TypeOK
    <2>3. SealedTouched' /\ BufferOpen'
      BY <1>7 DEF Close, history, Safe, SealedTouched, BufferOpen, TypeOK
    <2> QED BY <2>2, <2>3 DEF Safe
  <1>8. ASSUME NEW w \in Writer, Crash(w) PROVE Safe'
    <2>1. SealedTouched'
      BY <1>8 DEF Crash, files, Safe, SealedTouched, NoHalfState, TypeOK
    <2>2. BufferOpen'
      BY <1>8 DEF Crash, Safe, BufferOpen, TypeOK
    <2>3. ASSUME NEW r \in Record, place'[r] # 0 PROVE InPlace(r)'
      <3>1. InPlace(r)
        BY <1>8, <2>3 DEF Crash, Safe, AllInPlace
      <3>2. ASSUME NEW v \in Writer, v # w, r \in buf[v], handle[v] = place[r] PROVE InPlace(r)'
        BY <1>8, <3>2 DEF Crash, InPlace, TypeOK
      <3> QED BY <1>8, <3>1, <3>2 DEF Crash, files, InPlace
    <2> QED BY <2>1, <2>2, <2>3 DEF Safe, AllInPlace
  <1>9. CASE JobStep
    BY <1>9, JobSafe
  <1>10. CASE Expire \/ Midnight \/ UNCHANGED vars
    BY <1>10, QuietSafe DEF Expire, Midnight, vars, files, writerVars, history
  <1> QED BY <1>1, <1>2, <1>3, <1>4, <1>5, <1>6, <1>7, <1>8, <1>9, <1>10 DEF Next, JobStep

\* An acknowledged record outlives crashes, restarts, recoveries, rotations at
\* midnight and any number of writers on one file: it is lost only with the
\* buffer of a writer that died, or with a day file whose sealing has begun
\* (_perform_recovery, _rotate_file, FileRotator.rotate_file).
THEOREM OnlySealingCanLose == Spec => []OnlySealingLoses
  <1>1. Init => Safe
    BY DEF Init, Safe, SealedTouched, BufferOpen, AllInPlace, NoHalfState
  <1>2. TypeOK /\ Safe /\ [Next]_vars => Safe'
    BY StepSafe
  <1>3. TypeOK /\ Safe => OnlySealingLoses
    <2> SUFFICES ASSUME TypeOK, Safe, NEW r \in Record, place[r] # 0
                 PROVE  r \in Stored \union Buffered \union shed \/ place[r] \in touched
      BY DEF OnlySealingLoses
    <2>1. InPlace(r) /\ place[r] \in Day
      BY FeedAssumption DEF TypeOK, Safe, AllInPlace, Day
    <2> QED BY <2>1 DEF InPlace, Stored, Buffered
  <1> QED BY <1>1, <1>2, <1>3, TypeCorrect, PTL DEF Spec

=============================================================================
