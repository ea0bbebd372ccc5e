----------------------------- MODULE FeedWriter -----------------------------
(***************************************************************************)
(* Writers of one feed (plane, source): FeedWriter                         *)
(* (common/feeds/writer.py) with its Redis lease, crash recovery, manifest *)
(* and daily rotation, and the job that seals the file of a past day,      *)
(* FileRotator (common/feeds/rotator.py).  All of them work on one         *)
(* directory of day files, sealed files, sidecars and manifest.            *)
(*                                                                         *)
(* A file of a day is the set of its records.  A file that is unlinked     *)
(* while a writer has it open lives on without a name.  Redis answers      *)
(* every call; the lease key goes away when its TTL is over.               *)
(***************************************************************************)
EXTENDS Naturals, FiniteSets

CONSTANTS
    Writer,        \* processes that open the feed; one id per incarnation
    AlwaysSync,    \* the writers with fsync_mode "always"; the others: "batch"
    Record,        \* records, each enqueued once
    None,          \* no lease
    MaxDay,        \* bound: days of the run
    MaxRotations,  \* bound: runs of the rotation job
    MaxCrashes     \* bound: deaths of writers

ASSUME FeedAssumption ==
    /\ AlwaysSync \subseteq Writer
    /\ None \notin Writer
    /\ MaxDay \in Nat \ {0}
    /\ MaxRotations \in Nat
    /\ MaxCrashes \in Nat

Day == 1..MaxDay

VARIABLES
    lease,      \* the Redis key emitter:lease:plane:source
    day,        \* the current date
    liveDays,   \* the days with a .ndjson file
    live,       \* its records
    sealedDays, \* the days with a .ndjson.zst file
    sealed,     \* its records
    sidecars,   \* names of the checksum files
    manifest,   \* current_date_utc of manifest.json; 0: no such file
    tmp,        \* the same of manifest.json.tmp
    pc,         \* where a writer is
    mdate,      \* manifest.current_date_utc in the memory of an open writer
    handle,     \* the day of the file a writer has open
    orphan,     \* the writers whose open file has no name any more
    buf,        \* records in the buffer of an open file
    found,      \* what _detect_half_states returned
    rot,        \* the rotation job: step, day, whether zstandard is installed
    kept,       \* records in its .ndjson.zst.tmp
    \* history
    place,      \* the day of the file an acknowledged record was written to; 0: none
    shed,       \* records that were in the buffer of a writer that died
    touched,    \* days whose file the rotation job has begun to seal
    lapsed,     \* a lease has expired under a running writer
    rotations, crashes

files == <<liveDays, live, sealedDays, sealed, sidecars>>
writerVars == <<pc, mdate, handle, orphan, buf, found>>
history == <<place, shed, touched, lapsed, rotations, crashes>>
vars == <<lease, day, files, manifest, tmp, writerVars, rot, kept, history>>

\* Names of checksum files: the rotator derives its name from X.ndjson.zst.tmp
\* (or from X.ndjson when it did not compress), the recovery from X.ndjson.zst;
\* with_suffix replaces the last suffix.
WrittenSidecar(d, zstd) == <<d, IF zstd THEN "ndjson.zst.sha256" ELSE "sha256">>
CheckedSidecar(d) == <<d, "ndjson.sha256">>

\* What _detect_half_states finds in a tidy directory.
NoHalfState == [live |-> {}, sealed |-> {}, tmp |-> FALSE]

Init ==
    /\ lease = None
    /\ day = 1
    /\ liveDays = {} /\ live = [d \in Day |-> {}]
    /\ sealedDays = {} /\ sealed = [d \in Day |-> {}]
    /\ sidecars = {}
    /\ manifest = 0 /\ tmp = 0
    /\ pc = [w \in Writer |-> "off"]
    /\ mdate = [w \in Writer |-> 0]
    /\ handle = [w \in Writer |-> 0]
    /\ orphan = {}
    /\ buf = [w \in Writer |-> {}]
    /\ found = [w \in Writer |-> NoHalfState]
    /\ rot = [st |-> "off", day |-> 0, zstd |-> FALSE] /\ kept = {}
    /\ place = [r \in Record |-> 0]
    /\ shed = {} /\ touched = {} /\ lapsed = FALSE /\ rotations = 0 /\ crashes = 0

\* The writers whose open file loses its name when the files of the days D go.
Losing(D) == {w \in Writer : handle[w] \in D}

-----------------------------------------------------------------------------
(* open *)

MutantAcquire(w) ==
    /\ pc[w] = "off"
    /\ lease' = w
    /\ pc' = [pc EXCEPT ![w] = "scan"]
    /\ UNCHANGED <<day, files, manifest, tmp, mdate, handle, orphan, buf, found, rot, kept, history>>

\* _try_acquire_lease: SET NX.  With a lease of anyone open() raises.
Acquire(w) ==
    /\ pc[w] = "off"
    /\ lease = None
    /\ lease' = w
    /\ pc' = [pc EXCEPT ![w] = "scan"]
    /\ UNCHANGED <<day, files, manifest, tmp, mdate, handle, orphan, buf, found, rot, kept, history>>

\* _detect_half_states: a live and a sealed file of one day, sealed files
\* without a sidecar, an unfinished manifest.
DetectHalfStates(w) ==
    /\ pc[w] = "scan"
    /\ found' = [found EXCEPT ![w] =
                   [live |-> liveDays \cap sealedDays,
                    sealed |-> {d \in sealedDays : CheckedSidecar(d) \notin sidecars},
                    tmp |-> tmp # 0]]
    /\ pc' = [pc EXCEPT ![w] = "recover"]
    /\ UNCHANGED <<lease, day, files, manifest, tmp, mdate, handle, orphan, buf, rot, kept, history>>

MutantOpened(gone) == [d \in Day |-> IF d \in gone \union {day} THEN {} ELSE live[d]]

\* The live files after the unlinks, today's opened for append.
Opened(gone) == [d \in Day |-> IF d \in gone THEN {} ELSE live[d]]

\* _perform_recovery: with any half-state all artifacts are unlinked; then the
\* manifest is loaded or created and today's file opened.
Recover(w) ==
    LET gone == found[w].live
    IN  /\ pc[w] = "recover"
        /\ tmp' = IF found[w].tmp THEN 0 ELSE tmp
        /\ liveDays' = (liveDays \ gone) \union {day}
        /\ live' = Opened(gone)
        /\ sealedDays' = sealedDays \ found[w].sealed
        /\ sealed' = [d \in Day |-> IF d \in found[w].sealed THEN {} ELSE sealed[d]]
        /\ orphan' = (orphan \union Losing(gone)) \ {w}
        /\ mdate' = [mdate EXCEPT ![w] = IF manifest # 0 THEN manifest ELSE day]
        /\ handle' = [handle EXCEPT ![w] = day]
        /\ found' = [found EXCEPT ![w] = NoHalfState]
        /\ pc' = [pc EXCEPT ![w] = "idle"]
        /\ UNCHANGED <<lease, day, sidecars, manifest, buf, rot, kept, history>>

-----------------------------------------------------------------------------
(* enqueue *)

\* _renew_lease_if_needed, renewal due: GET the holder.  Another one: enqueue
\* raises.  None at all passes as well.
RenewGet(w) ==
    /\ pc[w] = "idle"
    /\ lease \in {None, w}
    /\ pc' = [pc EXCEPT ![w] = "renew"]
    /\ UNCHANGED <<lease, day, files, manifest, tmp, mdate, handle, orphan, buf, found, rot, kept, history>>

\* SET XX: takes the key from whoever has it now, and is not asked whether
\* there was one.
RenewSet(w) ==
    /\ pc[w] = "renew"
    /\ lease' = IF lease = None THEN None ELSE w
    /\ pc' = [pc EXCEPT ![w] = "write"]
    /\ UNCHANGED <<day, files, manifest, tmp, mdate, handle, orphan, buf, found, rot, kept, history>>

\* The records R reach the file that w has open.
Flushed(w, R) ==
    IF w \in orphan THEN live ELSE [live EXCEPT ![handle[w]] = @ \union R]

\* enqueue without a rotation: the file that is open.  Renewal is not due, or
\* just done.
Append(w, r) ==
    /\ pc[w] \in {"idle", "write"}
    /\ place[r] = 0
    /\ mdate[w] = day
    /\ place' = [place EXCEPT ![r] = handle[w]]
    /\ \/ w \in AlwaysSync /\ live' = Flushed(w, {r}) /\ UNCHANGED buf
       \/ w \notin AlwaysSync /\ buf' = [buf EXCEPT ![w] = @ \union {r}] /\ UNCHANGED live
    /\ pc' = [pc EXCEPT ![w] = "idle"]
    /\ UNCHANGED <<lease, day, liveDays, sealedDays, sealed, sidecars, manifest, tmp, mdate,
                   handle, orphan, found, rot, kept, shed, touched, lapsed, rotations, crashes>>

\* enqueue after midnight: _rotate_file flushes and closes the file, and opens
\* the one of the manifest's date, which nothing has moved on.
RotateAppend(w, r) ==
    LET d == mdate[w]
        closed == Flushed(w, buf[w])
    IN  /\ pc[w] \in {"idle", "write"}
        /\ place[r] = 0
        /\ d # day
        /\ place' = [place EXCEPT ![r] = d]
        /\ liveDays' = liveDays \union {d}
        /\ handle' = [handle EXCEPT ![w] = d]
        /\ orphan' = orphan \ {w}
        /\ \/ /\ w \in AlwaysSync
              /\ live' = [closed EXCEPT ![d] = @ \union {r}]
              /\ buf' = [buf EXCEPT ![w] = {}]
           \/ /\ w \notin AlwaysSync
              /\ live' = closed
              /\ buf' = [buf EXCEPT ![w] = {r}]
        /\ pc' = [pc EXCEPT ![w] = "idle"]
        /\ UNCHANGED <<lease, day, sealedDays, sealed, sidecars, manifest, tmp, mdate, found,
                       rot, kept, shed, touched, lapsed, rotations, crashes>>

\* The buffer of a file is full.
FlushBuffer(w) ==
    /\ buf[w] # {}
    /\ live' = Flushed(w, buf[w])
    /\ buf' = [buf EXCEPT ![w] = {}]
    /\ UNCHANGED <<lease, day, liveDays, sealedDays, sealed, sidecars, manifest, tmp, pc, mdate,
                   handle, orphan, found, rot, kept, history>>

-----------------------------------------------------------------------------
(* close, manifest *)

\* close: the file is flushed and closed, and _save_manifest writes its tmp.
Close(w) ==
    /\ pc[w] = "idle"
    /\ live' = Flushed(w, buf[w])
    /\ buf' = [buf EXCEPT ![w] = {}]
    /\ handle' = [handle EXCEPT ![w] = 0]
    /\ orphan' = orphan \ {w}
    /\ tmp' = mdate[w]
    /\ mdate' = [mdate EXCEPT ![w] = 0]
    /\ pc' = [pc EXCEPT ![w] = "save"]
    /\ UNCHANGED <<lease, day, liveDays, sealedDays, sealed, sidecars, manifest, found,
                   rot, kept, history>>

\* update_manifest_metrics: the manifest is saved while the writer runs.
UpdateMetrics(w) ==
    /\ pc[w] = "idle"
    /\ tmp' = mdate[w]
    /\ pc' = [pc EXCEPT ![w] = "metrics"]
    /\ UNCHANGED <<lease, day, files, manifest, mdate, handle, orphan, buf, found, rot, kept, history>>

\* The rename of _save_manifest; it raises when another writer's recovery has
\* removed the tmp file.  close() releases the lease in either case.
SaveManifest(w) ==
    /\ pc[w] \in {"save", "metrics"}
    /\ manifest' = IF tmp # 0 THEN tmp ELSE manifest
    /\ tmp' = 0
    /\ pc' = [pc EXCEPT ![w] = IF pc[w] = "save" THEN "release" ELSE "idle"]
    /\ UNCHANGED <<lease, day, files, mdate, handle, orphan, buf, found, rot, kept, history>>

\* _release_lease: GET; not one's own: leave it.
ReleaseGet(w) ==
    /\ pc[w] = "release"
    /\ pc' = [pc EXCEPT ![w] = IF lease = w THEN "delete" ELSE "off"]
    /\ UNCHANGED <<lease, day, files, manifest, tmp, mdate, handle, orphan, buf, found, rot, kept, history>>

\* DELETE, whoever the key belongs to by now.
ReleaseDel(w) ==
    /\ pc[w] = "delete"
    /\ lease' = None
    /\ pc' = [pc EXCEPT ![w] = "off"]
    /\ UNCHANGED <<day, files, manifest, tmp, mdate, handle, orphan, buf, found, rot, kept, history>>

-----------------------------------------------------------------------------
(* The rotation job: rotate_file of a past day *)

RotIdle == [st |-> "off", day |-> 0, zstd |-> FALSE]

\* _compress_file reads the live file into X.ndjson.zst.tmp; without the
\* zstandard package the path of the live file itself is returned.
Compress(d, zstd) ==
    /\ rot.st = "off"
    /\ rotations < MaxRotations
    /\ d < day /\ d \in liveDays
    /\ rot' = [st |-> "compressed", day |-> d, zstd |-> zstd]
    /\ kept' = IF zstd THEN live[d] ELSE {}
    /\ touched' = touched \union {d}
    /\ rotations' = rotations + 1
    /\ UNCHANGED <<lease, day, files, manifest, tmp, writerVars, place, shed, lapsed, crashes>>

\* _write_checksum_sidecar; it raises when the file to be read is gone.
WriteChecksum ==
    /\ rot.st = "compressed"
    /\ rot.zstd \/ rot.day \in liveDays
    /\ sidecars' = sidecars \union {WrittenSidecar(rot.day, rot.zstd)}
    /\ rot' = [rot EXCEPT !.st = "summed"]
    /\ UNCHANGED <<lease, day, liveDays, live, sealedDays, sealed, manifest, tmp, writerVars,
                   kept, history>>

\* The live file goes first ...
UnlinkLive ==
    /\ rot.st = "summed"
    /\ liveDays' = liveDays \ {rot.day}
    /\ live' = [live EXCEPT ![rot.day] = {}]
    /\ orphan' = orphan \union Losing({rot.day})
    /\ rot' = [rot EXCEPT !.st = "unlinked"]
    /\ UNCHANGED <<lease, day, sealedDays, sealed, sidecars, manifest, tmp, pc, mdate, handle,
                   buf, found, kept, history>>

\* ... and then the compressed one gets the sealed name.
RenameSealed ==
    /\ rot.st = "unlinked" /\ rot.zstd
    /\ sealedDays' = sealedDays \union {rot.day}
    /\ sealed' = [sealed EXCEPT ![rot.day] = kept]
    /\ kept' = {} /\ rot' = RotIdle
    /\ UNCHANGED <<lease, day, liveDays, live, sidecars, manifest, tmp, writerVars, history>>

\* Without zstandard the rename is of the live name: FileNotFoundError, or the
\* file that a writer has made since.
RenameLive ==
    /\ rot.st = "unlinked" /\ ~rot.zstd
    /\ rot' = RotIdle
    /\ \/ rot.day \notin liveDays /\ UNCHANGED <<files, orphan>>
       \/ /\ rot.day \in liveDays
          /\ liveDays' = liveDays \ {rot.day}
          /\ live' = [live EXCEPT ![rot.day] = {}]
          /\ sealedDays' = sealedDays \union {rot.day}
          /\ sealed' = [sealed EXCEPT ![rot.day] = live[rot.day]]
          /\ orphan' = orphan \union Losing({rot.day})
          /\ UNCHANGED sidecars
    /\ UNCHANGED <<lease, day, manifest, tmp, pc, mdate, handle, buf, found, kept, history>>

\* The job dies or raises; its tmp file is never looked at again.
RotatorDies ==
    /\ rot.st # "off"
    /\ rot' = RotIdle /\ kept' = {}
    /\ UNCHANGED <<lease, day, files, manifest, tmp, writerVars, history>>

-----------------------------------------------------------------------------
(* The environment *)

\* A writer dies: its buffer is gone, its lease stays until the TTL is over.
Crash(w) ==
    /\ pc[w] # "off"
    /\ crashes < MaxCrashes
    /\ crashes' = crashes + 1
    /\ shed' = shed \union buf[w]
    /\ buf' = [buf EXCEPT ![w] = {}]
    /\ handle' = [handle EXCEPT ![w] = 0]
    /\ orphan' = orphan \ {w}
    /\ mdate' = [mdate EXCEPT ![w] = 0]
    /\ found' = [found EXCEPT ![w] = NoHalfState]
    /\ pc' = [pc EXCEPT ![w] = "off"]
    /\ UNCHANGED <<lease, day, files, manifest, tmp, rot, kept, place, touched, lapsed,
                   rotations>>

\* The TTL of the lease is over; only enqueue renews it.
Expire ==
    /\ lease # None
    /\ lease' = None
    /\ lapsed' = (lapsed \/ pc[lease] # "off")
    /\ UNCHANGED <<day, files, manifest, tmp, writerVars, rot, kept, place, shed, touched,
                   rotations, crashes>>

Midnight ==
    /\ day < MaxDay
    /\ day' = day + 1
    /\ UNCHANGED <<lease, files, manifest, tmp, writerVars, rot, kept, history>>

Next ==
    \/ \E w \in Writer :
         \/ Acquire(w) \/ DetectHalfStates(w) \/ Recover(w)
         \/ RenewGet(w) \/ RenewSet(w) \/ FlushBuffer(w)
         \/ \E r \in Record : Append(w, r) \/ RotateAppend(w, r)
         \/ Close(w) \/ UpdateMetrics(w) \/ SaveManifest(w)
         \/ ReleaseGet(w) \/ ReleaseDel(w) \/ Crash(w)
    \/ \E d \in Day, zstd \in BOOLEAN : Compress(d, zstd)
    \/ WriteChecksum \/ UnlinkLive \/ RenameSealed \/ RenameLive \/ RotatorDies
    \/ Expire \/ Midnight

Spec == Init /\ [][Next]_vars

-----------------------------------------------------------------------------
(* Properties *)

\* A writer that has its file open.
Open == {"idle", "renew", "write", "metrics"}

\* Every variable has its type; an open writer has a manifest and a file.
TypeOK ==
    /\ lease \in Writer \union {None}
    /\ day \in Day
    /\ liveDays \subseteq Day /\ sealedDays \subseteq Day
    /\ live \in [Day -> SUBSET Record] /\ sealed \in [Day -> SUBSET Record]
    /\ sidecars \subseteq Day \X {"ndjson.zst.sha256", "sha256"}
    /\ manifest \in 0..MaxDay /\ tmp \in 0..MaxDay
    /\ pc \in [Writer -> {"off", "scan", "recover", "idle", "renew", "write", "metrics",
                          "save", "release", "delete"}]
    /\ mdate \in [Writer -> 0..MaxDay] /\ handle \in [Writer -> 0..MaxDay]
    /\ \A w \in Writer : pc[w] \in Open => mdate[w] \in Day /\ handle[w] \in Day
    /\ orphan \subseteq Writer
    /\ buf \in [Writer -> SUBSET Record]
    /\ found \in [Writer -> [live : SUBSET Day, sealed : SUBSET Day, tmp : BOOLEAN]]
    /\ rot \in [st : {"off", "compressed", "summed", "unlinked"}, day : 0..MaxDay, zstd : BOOLEAN]
    /\ rot.st # "off" => rot.day \in Day
    /\ kept \subseteq Record
    /\ place \in [Record -> 0..MaxDay]
    /\ shed \subseteq Record /\ touched \subseteq Day /\ lapsed \in BOOLEAN
    /\ rotations \in 0..MaxRotations /\ crashes \in 0..MaxCrashes

Stored == UNION {live[d] \union sealed[d] : d \in Day}
Buffered == UNION {buf[w] : w \in Writer}

\* An acknowledged record outlives crashes, restarts, recoveries and a second
\* writer on the same file.  It can be lost with the buffer of a writer that
\* does not sync, and with a day file that the rotation job has begun to seal.
OnlySealingLoses ==
    \A r \in Record : place[r] # 0 =>
        r \in Stored \union Buffered \union shed \/ place[r] \in touched

\* Two writers have the feed open at the same time only if a lease has expired
\* under a running writer before: SET NX, the check before DELETE and the
\* check at renewal keep them apart otherwise.
SingleWriterUnlessLapsed ==
    ~lapsed => \A v, w \in Writer : pc[v] # "off" /\ pc[w] # "off" => v = w

=============================================================================
