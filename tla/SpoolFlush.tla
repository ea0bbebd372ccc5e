------------------------------- MODULE SpoolFlush -------------------------------
(***************************************************************************)
(* src/xops/opsctl/subcommands/spool_flush.py: processes that replay the   *)
(* operator spool, at the same time, under the flock on .flush.lock, with  *)
(* the outcomes of publish_event (src/xops/opsctl/_publish.py) and the     *)
(* pruning and quarantine of src/swarm/sdk/spool_aging.py.                 *)
(*                                                                         *)
(* The lock file is modelled as the file system has it: a name that leads  *)
(* to an inode or to nothing, a flock per inode that dies with its holder, *)
(* and inodes that live on while a process has them open.  Every system    *)
(* call on the lock file is a step, and so are the publication of an entry *)
(* and the unlink that follows it; a process may die between any two.  A   *)
(* spool file is created under its final name and filled after that, by    *)
(* operators outside the lock: a flusher may find it empty.                *)
(* BusCircuitBreaker._drain_spool takes its lock by the same calls.        *)
(* The messages were spooled by an earlier version of the program: of some *)
(* the kind or the schema may have been retired since.                     *)
(***************************************************************************)
EXTENDS Naturals, FiniteSets

CONSTANTS Message,    \* what operators publish, each of them once
          Unknown,    \* messages of a kind that is known no more
          Outdated,   \* messages below cfg.swarm_min_supported_schema_version
          Orphaned,   \* messages whose kind expects no ack any more
          Invalid,    \* messages whose payload is valid no more (BAD_USAGE)
          Rejected,   \* messages that a consumer may answer with a rejection
          Flusher,    \* processes that run ops.spool-flush
          Inode,      \* inodes for the lock file
          None,
          MaxSpool,   \* cfg.opsctl_spool_max_entries
          MaxPerRun,  \* cfg.opsctl_spool_flush_max_per_run
          MaxWrites,  \* bound: spool files ever written
          MaxAges,    \* bound: how often a lock file grows stale
          MaxDeaths   \* bound: how often a flusher dies

ASSUME FlushAssumption ==
    /\ Unknown \cup Outdated \cup Orphaned \cup Invalid \cup Rejected \subseteq Message
    /\ Unknown \cap (Outdated \cup Orphaned) = {}
    /\ None \notin Inode \cup Flusher
    /\ {MaxSpool, MaxPerRun, MaxWrites, MaxAges, MaxDeaths} \subseteq Nat

VARIABLES path,     \* where .flush.lock leads
          holder,   \* [Inode -> who has the flock]
          stale,    \* inodes with an old mtime
          pc,       \* [Flusher -> where its run is]
          fd,       \* [Flusher -> the inode it has open]
          redo,     \* [Flusher -> files of .retired/ it has still to replay]
          todo,     \* [Flusher -> files of the spool it has still to replay]
          done,     \* [Flusher -> successful publishes of this run]
          spool,    \* the files in the spool directory
          partial,  \* those without their contents: being filled, or never to be
          drafts,   \* files that operators have open to fill them
          copy,     \* [Flusher -> the file it has open to fill it]
          retired,  \* the files in .retired/
          writes,   \* the number of files ever written, which is their clock
          steady,   \* the bus is up, consumers answer and the disk works, for good
          ages, deaths,
          begun,    \* messages that operators set out to spool
          \* history
          given,    \* messages whose operator was told that they are spooled
          sent,     \* messages published
          doubled,  \* messages published twice
          aged,     \* messages pruned, with an audit event
          recorded, \* messages dropped with no more than an audit row
          mislaid,  \* messages whose file was removed while it was being filled
          excused,  \* messages a death or a failure left with a second copy
          overlap   \* two flushers were replaying at the same time

lockVars == <<path, holder, stale, fd>>
runVars == <<redo, todo, done>>
writeVars == <<spool, partial, copy, writes>>
fileVars == <<writeVars, drafts, retired, aged, recorded, mislaid>>
busVars == <<sent, doubled, excused>>
envVars == <<steady, ages, deaths, begun, given>>
vars == <<lockVars, pc, runVars, fileVars, busVars, envVars, overlap>>

\* A spool file; at is its mtime and its place in the filename order.
File == [msg : Message, at : 1..MaxWrites]

Replaying == {"scan", "force", "forceFill", "unlinkRetired",
              "drain", "fill", "unlinkEntry", "unlinkOld"}

Init ==
    /\ path = None /\ holder = [i \in Inode |-> None] /\ stale = {}
    /\ pc = [p \in Flusher |-> "idle"] /\ fd = [p \in Flusher |-> None]
    /\ done = [p \in Flusher |-> 0]
    /\ redo = [p \in Flusher |-> {}] /\ todo = [p \in Flusher |-> {}]
    /\ spool = {} /\ partial = {} /\ retired = {} /\ writes = 0
    /\ drafts = {} /\ copy = [p \in Flusher |-> None]
    /\ steady = FALSE /\ ages = 0 /\ deaths = 0
    /\ begun = {} /\ given = {} /\ mislaid = {} /\ sent = {} /\ doubled = {} /\ aged = {} /\ recorded = {}
    /\ excused = {} /\ overlap = FALSE

Msgs(S) == {f.msg : f \in S}

Goto(p, l) == pc' = [pc EXCEPT ![p] = l]

Deliver(m) ==
    /\ sent' = sent \cup {m}
    /\ doubled' = IF m \in sent THEN doubled \cup {m} ELSE doubled

\* bus.publish raises, before or after the bus applied it.
PublishRaises(m) ==
    \/ UNCHANGED busVars
    \/ Deliver(m) /\ excused' = excused \cup {m}

\* _spool_envelope, up to the cap.
Room == Cardinality(spool) < MaxSpool /\ writes < MaxWrites

\* os.open with O_CREAT: the file is in the directory, and empty.
NewFile(m) == [msg |-> m, at |-> writes + 1]

Create(m) ==
    /\ writes' = writes + 1
    /\ spool' = spool \cup {NewFile(m)}
    /\ partial' = partial \cup {NewFile(m)}

\* os.write, through the descriptor: wherever the file is by now.
Fill(f) == partial' = partial \ {f}

\* Files that are being filled and will then be all there is of the message.
Vital == drafts \cup {copy[p] : p \in {q \in Flusher : pc[q] = "fill"}}

\* Files without contents are taken out of the spool.
Mislay(files) == mislaid' = mislaid \cup Msgs(files \cap Vital)

\* An operator's publish_event finds the bus down.
SpoolEnvelope(m) ==
    /\ ~steady
    /\ m \notin begun
    /\ Room
    /\ PublishRaises(m)
    /\ Create(m)
    /\ drafts' = drafts \cup {NewFile(m)}
    /\ begun' = begun \cup {m}
    /\ UNCHANGED <<lockVars, pc, runVars, copy, retired, aged, recorded, mislaid,
                   steady, ages, deaths, given, overlap>>

\* The write is done and the operator told so; or it failed, or its process died.
FillEnvelope(f) ==
    /\ f \in drafts
    /\ drafts' = drafts \ {f}
    /\ \/ Fill(f) /\ given' = given \cup {f.msg}
       \/ UNCHANGED <<partial, given>>
    /\ UNCHANGED <<lockVars, pc, runVars, spool, copy, writes, retired, aged, recorded,
                   mislaid, busVars, steady, ages, deaths, begun, overlap>>

-----------------------------------------------------------------------------
(* _flush_lock: the reaper, then the acquisition.                          *)

RunFlush(p) ==
    /\ pc[p] = "idle"
    /\ Goto(p, "stat")
    /\ UNCHANGED <<lockVars, runVars, fileVars, busVars, envVars, overlap>>

StatLock(p) ==
    /\ pc[p] = "stat"
    /\ Goto(p, IF path \in stale THEN "reapOpen" ELSE "open")
    /\ UNCHANGED <<lockVars, runVars, fileVars, busVars, envVars, overlap>>

ReapOpen(p) ==
    /\ pc[p] = "reapOpen"
    /\ fd' = [fd EXCEPT ![p] = path]
    /\ Goto(p, IF path = None THEN "open" ELSE "reapLock")
    /\ UNCHANGED <<path, holder, stale, runVars, fileVars, busVars, envVars, overlap>>

\* The non-blocking flock succeeds; on failure the descriptor is closed.
Flock(p) ==
    /\ holder[fd[p]] = None
    /\ holder' = [holder EXCEPT ![fd[p]] = p]
    /\ UNCHANGED fd

Contended(p) ==
    /\ holder[fd[p]] # None
    /\ fd' = [fd EXCEPT ![p] = None]
    /\ UNCHANGED holder

ReapLock(p) ==
    /\ pc[p] = "reapLock"
    /\ \/ Flock(p) /\ Goto(p, "reapUnlink")
       \/ Contended(p) /\ Goto(p, "open")
    /\ UNCHANGED <<path, stale, runVars, fileVars, busVars, envVars, overlap>>

\* The unlink is by name: it takes away whatever file has the name by now.
ReapUnlink(p) ==
    /\ pc[p] = "reapUnlink"
    /\ path' = None
    /\ Goto(p, "reapClose")
    /\ UNCHANGED <<holder, stale, fd, runVars, fileVars, busVars, envVars, overlap>>

ReapClose(p) ==
    /\ pc[p] = "reapClose"
    /\ holder' = [holder EXCEPT ![fd[p]] = None]
    /\ fd' = [fd EXCEPT ![p] = None]
    /\ Goto(p, "open")
    /\ UNCHANGED <<path, stale, runVars, fileVars, busVars, envVars, overlap>>

\* Inodes with neither a name nor a descriptor.
Unused == {i \in Inode : i # path /\ \A p \in Flusher : fd[p] # i}

OpenLock(p) ==
    /\ pc[p] = "open"
    /\ Goto(p, "lock")
    /\ \/ /\ path # None
          /\ fd' = [fd EXCEPT ![p] = path]
          /\ UNCHANGED <<path, stale>>
       \/ /\ path = None
          /\ \E i \in Unused :
                /\ path' = i
                /\ fd' = [fd EXCEPT ![p] = i]
                /\ stale' = stale \ {i}
    /\ UNCHANGED <<holder, runVars, fileVars, busVars, envVars, overlap>>

\* The flush proper begins, or exits with SPOOL_FLUSH_ALREADY_RUNNING.
TryLock(p) ==
    /\ pc[p] = "lock"
    /\ \/ /\ Flock(p)
          /\ Goto(p, "scan")
          /\ overlap' = (overlap \/ \E q \in Flusher \ {p} : pc[q] \in Replaying)
       \/ /\ Contended(p)
          /\ Goto(p, "idle")
          /\ UNCHANGED overlap
    /\ UNCHANGED <<path, stale, runVars, fileVars, busVars, envVars>>

\* What the run has in its local variables is gone.
Forget(p) ==
    /\ redo' = [redo EXCEPT ![p] = {}]
    /\ todo' = [todo EXCEPT ![p] = {}]
    /\ done' = [done EXCEPT ![p] = 0]

\* The end of the with block: LOCK_UN, then unlink and close.
Unlock(p) ==
    /\ pc[p] = "unlock"
    /\ holder' = [holder EXCEPT ![fd[p]] = None]
    /\ Goto(p, "unlinkLock")
    /\ Forget(p)
    /\ UNCHANGED <<path, stale, fd, fileVars, busVars, envVars, overlap>>

UnlinkLock(p) ==
    /\ pc[p] = "unlinkLock"
    /\ path' = None
    /\ fd' = [fd EXCEPT ![p] = None]
    /\ Goto(p, "idle")
    /\ UNCHANGED <<holder, stale, runVars, fileVars, busVars, envVars, overlap>>

-----------------------------------------------------------------------------
(* The replay.                                                             *)

\* quarantine_retired_spool_entries moves the files into .retired/.
Quarantine(files) == retired' = retired \cup files

\* prune_aged_spool_entries keeps the files younger than those up to n.
Young(S, n) == {f \in S : f.at > n}

\* The unreadable files among those listed before the lock was taken (bad) are
\* renamed away, entries of an age above the maximum (those up to n) pruned,
\* retired kinds and schemas quarantined; what remains is to be replayed, and
\* with --force-retired .retired/ before it.
Scan(p) ==
    /\ pc[p] = "scan"
    /\ \E n \in 0..writes, force \in BOOLEAN, bad \in SUBSET partial :
        LET kept == Young(spool \ bad, n)
            out == {f \in kept \ partial : f.msg \in Unknown \cup Outdated}
        IN  /\ aged' = aged \cup Msgs(spool \ (kept \cup partial))
            /\ Mislay(partial \ kept)
            /\ partial' = partial \cap kept
            /\ spool' = kept \ out
            /\ Quarantine(out)
            /\ todo' = [todo EXCEPT ![p] = kept \ out]
            /\ redo' = [redo EXCEPT ![p] = IF force THEN retired \cup out ELSE {}]
    /\ Goto(p, "force")
    /\ UNCHANGED <<lockVars, done, copy, drafts, writes, recorded, busVars,
                   envVars, overlap>>

Newest(S) == CHOOSE f \in S : \A g \in S : g.at <= f.at
Oldest(S) == CHOOSE f \in S : \A g \in S : f.at <= g.at

Leave(queue, p, f) == [queue EXCEPT ![p] = @ \ {f}]

\* Messages that publish_event sends back before it publishes.
Refused == Unknown \cup Invalid

\* --force-retired, oldest file first.  A refusal does not end the loop.
ForceRefused(p, f) ==
    /\ f \notin retired \/ f.msg \in Refused
    /\ redo' = Leave(redo, p, f)
    /\ UNCHANGED <<pc, writeVars, recorded, busVars>>

ForceOk(p, f) ==
    /\ f \in retired /\ f.msg \notin Refused
    /\ \/ f.msg \in Orphaned /\ recorded' = recorded \cup {f.msg}
                             /\ UNCHANGED <<sent, doubled>>
       \/ f.msg \notin Orphaned /\ Deliver(f.msg) /\ UNCHANGED recorded
    /\ Goto(p, "unlinkRetired")
    /\ UNCHANGED <<redo, writeVars, excused>>

\* The message is on the bus and the file stays: acks are missing or one is a
\* rejection, or the wait for them raised, which ends the run.
Unanswered(m) ==
    /\ ~steady \/ m \in Rejected
    /\ Deliver(m)
    /\ excused' = excused \cup {m}

ForceUnanswered(p, f) ==
    /\ f \in retired /\ f.msg \notin Refused \cup Orphaned
    /\ Unanswered(f.msg)
    /\ \/ redo' = Leave(redo, p, f) /\ UNCHANGED pc
       \/ ~steady /\ Goto(p, "unlock") /\ UNCHANGED redo
    /\ UNCHANGED <<writeVars, recorded>>

\* The bus is down: publish_event spools a copy, and the retired file stays;
\* or the spool is full, or the disk fails.
ForceBusDown(p, f) ==
    /\ ~steady
    /\ f \in retired /\ f.msg \notin Refused \cup Orphaned
    /\ \/ /\ Room /\ Create(f.msg)
          /\ copy' = [copy EXCEPT ![p] = NewFile(f.msg)]
          /\ Deliver(f.msg) \/ UNCHANGED <<sent, doubled>>
          /\ excused' = excused \cup {f.msg}
          /\ Goto(p, "forceFill")
          /\ UNCHANGED redo
       \/ /\ PublishRaises(f.msg)
          /\ \/ ~Room /\ redo' = Leave(redo, p, f) /\ UNCHANGED pc
             \/ Goto(p, "unlock") /\ UNCHANGED redo
          /\ UNCHANGED writeVars
    /\ UNCHANGED recorded

ForceRetired(p) ==
    /\ pc[p] = "force" /\ redo[p] # {}
    /\ LET f == Oldest(redo[p]) IN
        \/ ForceRefused(p, f) \/ ForceOk(p, f)
        \/ ForceUnanswered(p, f) \/ ForceBusDown(p, f)
    /\ UNCHANGED <<lockVars, todo, done, drafts, retired, aged, mislaid, envVars, overlap>>

\* The write of p's copy returns, and p goes on at l; or it raises, which ends
\* the run and leaves the file as it is.
EndCopy(p, l) ==
    /\ copy' = [copy EXCEPT ![p] = None]
    /\ \/ Fill(copy[p]) /\ Goto(p, l)
       \/ ~steady /\ Goto(p, "unlock") /\ UNCHANGED partial
    /\ UNCHANGED <<lockVars, todo, done, spool, writes, drafts, retired, aged, recorded,
                   mislaid, busVars, envVars, overlap>>

FillForced(p) ==
    /\ pc[p] = "forceFill"
    /\ EndCopy(p, "force")
    /\ redo' = Leave(redo, p, Oldest(redo[p]))

ForceEnd(p) ==
    /\ pc[p] = "force" /\ redo[p] = {}
    /\ Goto(p, "drain")
    /\ UNCHANGED <<lockVars, runVars, fileVars, busVars, envVars, overlap>>

\* Only a missing file is no error here: any other ends the run.
UnlinkRetired(p) ==
    /\ pc[p] = "unlinkRetired"
    /\ LET f == Oldest(redo[p]) IN
        \/ /\ retired' = retired \ {f}
           /\ done' = [done EXCEPT ![p] = @ + 1]
           /\ redo' = IF MaxPerRun # 0 /\ done[p] + 1 >= MaxPerRun
                      THEN [redo EXCEPT ![p] = {}] ELSE Leave(redo, p, f)
           /\ Goto(p, "force")
           /\ UNCHANGED excused
        \/ /\ ~steady
           /\ excused' = excused \cup {f.msg}
           /\ Goto(p, "unlock")
           /\ UNCHANGED <<retired, done, redo>>
    /\ UNCHANGED <<lockVars, todo, writeVars, drafts, aged, recorded, mislaid,
                   sent, doubled, envVars, overlap>>

\* The main loop, newest file first.  A file that another flusher has removed
\* meanwhile is taken for malformed, and its rename fails.
DrainMissing(p, f) ==
    /\ f \notin spool
    /\ todo' = Leave(todo, p, f)
    /\ UNCHANGED <<pc, writeVars, recorded, mislaid, busVars>>

\* A file that cannot be read is renamed away, be it torn or not yet filled.
DrainMalformed(p, f) ==
    /\ f \in spool \cap partial
    /\ spool' = spool \ {f} /\ partial' = partial \ {f}
    /\ Mislay({f})
    /\ todo' = Leave(todo, p, f)
    /\ UNCHANGED <<pc, copy, writes, recorded, busVars>>

\* The entry at hand, once it is read.
Legible(f) == f \in spool \ partial

\* UNKNOWN_KIND and BAD_USAGE: the file stays, and the run ends here.
DrainRefused(p, f) ==
    /\ Legible(f) /\ f.msg \in Refused
    /\ Goto(p, "unlock")
    /\ UNCHANGED <<todo, writeVars, recorded, mislaid, busVars>>

DrainOk(p, f) ==
    /\ Legible(f) /\ f.msg \notin Refused
    /\ \/ f.msg \in Orphaned /\ recorded' = recorded \cup {f.msg}
                             /\ UNCHANGED <<sent, doubled>>
       \/ f.msg \notin Orphaned /\ Deliver(f.msg) /\ UNCHANGED recorded
    /\ Goto(p, "unlinkEntry")
    /\ UNCHANGED <<todo, writeVars, mislaid, excused>>

DrainUnanswered(p, f) ==
    /\ Legible(f) /\ f.msg \notin Refused \cup Orphaned
    /\ Unanswered(f.msg)
    /\ Goto(p, "unlock")
    /\ UNCHANGED <<todo, writeVars, recorded, mislaid>>

\* Mutant: a refused spool write is taken for a successful one.
MutantDrainBusDown(p, f) ==
    /\ ~steady
    /\ Legible(f) /\ f.msg \notin Refused \cup Orphaned
    /\ PublishRaises(f.msg)
    /\ \/ /\ Room /\ Create(f.msg)
          /\ copy' = [copy EXCEPT ![p] = NewFile(f.msg)]
          /\ Goto(p, "fill")
       \/ ~Room /\ Goto(p, "unlinkOld") /\ UNCHANGED writeVars
    /\ UNCHANGED <<todo, recorded, mislaid>>

\* The bus is down: a new file is made for the message; or the spool is full,
\* or the disk fails, and the run ends.
DrainBusDown(p, f) ==
    /\ ~steady
    /\ Legible(f) /\ f.msg \notin Refused \cup Orphaned
    /\ PublishRaises(f.msg)
    /\ \/ /\ Room /\ Create(f.msg)
          /\ copy' = [copy EXCEPT ![p] = NewFile(f.msg)]
          /\ Goto(p, "fill")
       \/ Goto(p, "unlock") /\ UNCHANGED writeVars
    /\ UNCHANGED <<todo, recorded, mislaid>>

Drain(p) ==
    /\ pc[p] = "drain" /\ todo[p] # {}
    /\ LET f == Newest(todo[p]) IN
        \/ DrainMissing(p, f) \/ DrainMalformed(p, f) \/ DrainRefused(p, f)
        \/ DrainOk(p, f) \/ DrainUnanswered(p, f) \/ DrainBusDown(p, f)
    /\ UNCHANGED <<lockVars, redo, done, drafts, retired, aged, envVars, overlap>>

FillCopy(p) ==
    /\ pc[p] = "fill"
    /\ EndCopy(p, "unlinkOld")
    /\ UNCHANGED redo

DrainEnd(p) ==
    /\ pc[p] = "drain" /\ todo[p] = {}
    /\ Goto(p, "unlock")
    /\ UNCHANGED <<lockVars, runVars, fileVars, busVars, envVars, overlap>>

\* Mutant: the entry just published keeps its file.
MutantUnlinkEntry(p) ==
    /\ pc[p] = "unlinkEntry"
    /\ done' = [done EXCEPT ![p] = @ + 1]
    /\ todo' = Leave(todo, p, Newest(todo[p]))
    /\ Goto(p, IF MaxPerRun # 0 /\ done[p] + 1 >= MaxPerRun THEN "unlock" ELSE "drain")
    /\ UNCHANGED <<lockVars, redo, fileVars, busVars, envVars, overlap>>

\* The unlink of an entry; an error is swallowed and the file stays.
Remove(f) ==
    \/ spool' = spool \ {f} /\ partial' = partial \ {f} /\ UNCHANGED excused
    \/ ~steady /\ excused' = excused \cup {f.msg} /\ UNCHANGED <<spool, partial>>

\* The entry is through; the run ends when its budget is used up.
UnlinkEntry(p) ==
    /\ pc[p] = "unlinkEntry"
    /\ Remove(Newest(todo[p]))
    /\ done' = [done EXCEPT ![p] = @ + 1]
    /\ todo' = Leave(todo, p, Newest(todo[p]))
    /\ Goto(p, IF MaxPerRun # 0 /\ done[p] + 1 >= MaxPerRun THEN "unlock" ELSE "drain")
    /\ UNCHANGED <<lockVars, redo, copy, drafts, retired, writes, aged, recorded, mislaid,
                   sent, doubled, envVars, overlap>>

\* Mutant: the entry stays beside its new copy.
MutantUnlinkOld(p) ==
    /\ pc[p] = "unlinkOld"
    /\ Goto(p, "unlock")
    /\ UNCHANGED <<lockVars, runVars, fileVars, busVars, envVars, overlap>>

\* The entry was spooled anew: its old file goes, and the run ends.
UnlinkOld(p) ==
    /\ pc[p] = "unlinkOld"
    /\ Remove(Newest(todo[p]))
    /\ Goto(p, "unlock")
    /\ UNCHANGED <<lockVars, runVars, copy, drafts, retired, writes, aged, recorded, mislaid,
                   sent, doubled, envVars, overlap>>

-----------------------------------------------------------------------------
(* The environment.                                                        *)

\* p dies: the kernel closes its descriptors and drops its flock.
Die(p) ==
    /\ deaths < MaxDeaths /\ deaths' = deaths + 1
    /\ pc[p] # "idle" /\ Goto(p, "idle")
    /\ fd' = [fd EXCEPT ![p] = None]
    /\ holder' = [i \in Inode |-> IF holder[i] = p THEN None ELSE holder[i]]
    /\ Forget(p)
    /\ copy' = [copy EXCEPT ![p] = None]
    /\ excused' = excused \cup
         CASE pc[p] = "unlinkRetired" -> {Oldest(redo[p]).msg}
           [] pc[p] \in {"unlinkEntry", "unlinkOld"} -> {Newest(todo[p]).msg}
           [] OTHER -> {}
    /\ UNCHANGED <<path, stale, spool, partial, writes, drafts, retired, aged, recorded,
                   mislaid, sent, doubled, steady, ages, begun, given, overlap>>

\* The lock file is older than twice the ack timeout by now.
GrowStale ==
    /\ path # None /\ path \notin stale
    /\ ages < MaxAges /\ ages' = ages + 1
    /\ stale' = stale \cup {path}
    /\ UNCHANGED <<path, holder, fd, pc, runVars, fileVars, busVars, steady, deaths,
                   begun, given, overlap>>

BusRecovers ==
    /\ ~steady /\ steady' = TRUE
    /\ UNCHANGED <<lockVars, pc, runVars, fileVars, busVars, ages, deaths,
                   begun, given, overlap>>

Acquire(p) == \/ StatLock(p) \/ ReapOpen(p) \/ ReapLock(p) \/ ReapUnlink(p)
              \/ ReapClose(p) \/ OpenLock(p) \/ TryLock(p)
Replay(p) == \/ Scan(p) \/ ForceRetired(p) \/ FillForced(p) \/ ForceEnd(p)
             \/ UnlinkRetired(p) \/ Drain(p) \/ FillCopy(p) \/ DrainEnd(p)
             \/ UnlinkEntry(p) \/ UnlinkOld(p)
Flush(p) == RunFlush(p) \/ Acquire(p) \/ Replay(p) \/ Unlock(p) \/ UnlinkLock(p)

Next ==
    \/ \E m \in Message : SpoolEnvelope(m)
    \/ \E f \in drafts : FillEnvelope(f)
    \/ \E p \in Flusher : Flush(p) \/ Die(p)
    \/ GrowStale
    \/ BusRecovers

Spec == Init /\ [][Next]_vars

\* Operators flush again and again, a run goes on to its end, outages end.
FairSpec == Spec /\ WF_vars(BusRecovers) /\ \A p \in Flusher : WF_vars(Flush(p))

-----------------------------------------------------------------------------
(* Properties.                                                             *)

\* The variables have their types; a flock is held through a descriptor, and
\* an idle process has none.
TypeOK ==
    /\ path \in Inode \cup {None}
    /\ holder \in [Inode -> Flusher \cup {None}]
    /\ stale \subseteq Inode
    /\ pc \in [Flusher -> {"idle", "stat", "reapOpen", "reapLock", "reapUnlink",
                           "reapClose", "open", "lock", "unlock", "unlinkLock"}
                          \cup Replaying]
    /\ fd \in [Flusher -> Inode \cup {None}]
    /\ redo \in [Flusher -> SUBSET File] /\ todo \in [Flusher -> SUBSET File]
    /\ done \in [Flusher -> Nat]
    /\ spool \subseteq File /\ retired \subseteq File /\ drafts \subseteq File
    /\ partial \subseteq spool /\ copy \in [Flusher -> File \cup {None}]
    /\ writes \in 0..MaxWrites /\ ages \in 0..MaxAges /\ deaths \in 0..MaxDeaths
    /\ steady \in BOOLEAN /\ overlap \in BOOLEAN
    /\ {begun, given, sent, doubled, aged, recorded, mislaid, excused}
           \subseteq SUBSET Message
    /\ \A i \in Inode : holder[i] # None => fd[holder[i]] = i
    /\ \A p \in Flusher : pc[p] = "idle" => fd[p] = None

\* A message whose operator was told that it is spooled is not lost, whatever
\* fails, dies or overlaps: it has a readable file, it was published, pruned or
\* dropped with an audit record, or a flusher took its file out of the spool
\* while it was still being filled.
NothingLost ==
    given \subseteq Msgs((spool \cup retired) \ partial)
                    \cup sent \cup aged \cup recorded \cup mislaid

\* As long as no two flushers replayed at the same time, a message is published
\* twice only when a publish that raised after it took effect or went
\* unanswered, an unlink that failed or a death had left it a copy.
DoubleExplained == overlap \/ doubled \subseteq excused

\* An entry that publish_event sends back or that its consumers may reject is
\* in the spool, and the drain, which stops there, comes to it no later than to f.
Blocked(f) == \E g \in spool : g.at >= f.at /\ g.msg \in Invalid \cup Rejected

\* Every spool file leaves the spool, or such an entry stands in its way for
\* good: no outage, torn file or lock file of a dead process keeps it there.
EntryLeaves == \A f \in File : f \in spool ~> (f \notin spool \/ []Blocked(f))

=============================================================================
