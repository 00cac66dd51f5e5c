------------------------------ MODULE JsonlLog ------------------------------
(***************************************************************************)
(* One session's log file in the JSON-lines store                          *)
(* (session-persistence-jsonl/src/index.ts): the first batch is published  *)
(* as a new file, later batches are appended, a failed append is rolled    *)
(* back, and a cold read repairs what a crash left.  The caller is the     *)
(* persistence coordinator, which serializes the operations on a session,  *)
(* retries the batch it holds and never skips one.                         *)
(*                                                                         *)
(* An action is one call of the file system.  A process that dies leaves   *)
(* what it wrote to its successor; when the power fails the file system    *)
(* keeps what was synced and any prefix of what was not.  One process at a *)
(* time writes the file; a reader of the raw artifact is not serialized    *)
(* with it.                                                                *)
(***************************************************************************)
EXTENDS JsonlFormat

CONSTANT MaxFaults  \* bound: file-system calls that fail

ASSUME BoundsAssumption == MaxEvents \in Nat /\ MaxLives \in Nat \ {0} /\ MaxFaults \in Nat

VARIABLES
    compression,  \* this.compression
    exists,       \* the final path exists
    linkSynced,   \* its directory entry is synced
    file,         \* what a read of the file returns
    synced,       \* what was last synced
    lingering,    \* contents truncated away since, the truncation not synced
    acked,        \* the session's stored events: coordinator cursor and log
    pending,      \* events the session has and the store has not acknowledged
    materialized, \* the coordinator's state.materialized
    at,           \* where the operation in progress stands
    job,          \* that operation: the events it stores, tokens left, size before
    reader,       \* the unserialized reader of the raw artifact
    leftover,     \* a rejected batch's bytes stay: kept, then built upon (buried)
    trusted,      \* a restart took for stored what a power failure may still take,
                  \* which leaves it "lost"
    life, faults  \* counters behind the bounds

disk == <<compression, exists, linkSynced, file, synced, lingering>>
session == <<acked, pending, materialized>>
remains == <<leftover, trusted>>
vars == <<compression, exists, linkSynced, file, synced, lingering, acked, pending,
          materialized, at, job, reader, leftover, trusted, life, faults>>

NoJob == [for |-> "none", events |-> <<>>, left |-> <<>>, before |-> 0]
NoReader == [phase |-> "idle", part |-> <<>>, stale |-> FALSE]

TypeOK ==
    /\ compression \in {"none", "zstd"}
    /\ exists \in BOOLEAN /\ linkSynced \in BOOLEAN /\ materialized \in BOOLEAN
    /\ linkSynced => exists
    /\ materialized /\ at # "cold" => exists
    /\ {file, synced} \cup lingering \subseteq Seq(Token)
    /\ {acked, pending, job.events} \subseteq Seq(Event)
    /\ at \in {"idle", "publish", "linked", "write", "sync", "close", "rollback",
               "cold", "truncate", "refused"}
    /\ job.for \in {"none", "append", "repair"} /\ job.left \in Seq(Token) /\ job.before \in Nat
    /\ reader.phase \in {"idle", "stat", "part", "answer"} /\ reader.part \in Seq(Token)
    /\ leftover \in {"none", "kept", "buried", "lost"} /\ trusted \in BOOLEAN
    /\ life \in 1..MaxLives /\ faults \in 0..MaxFaults

Init ==
    /\ compression \in {"none", "zstd"}
    /\ exists = FALSE /\ linkSynced = FALSE
    /\ file = <<>> /\ synced = <<>> /\ lingering = {}
    /\ acked = <<>> /\ pending = <<>> /\ materialized = FALSE
    /\ at = "idle" /\ job = NoJob /\ reader = NoReader
    /\ leftover = "none" /\ trusted = FALSE /\ life = 1 /\ faults = 0

-----------------------------------------------------------------------------
Running == at \notin {"cold", "truncate", "refused"} /\ job.for # "repair"

(* The session appends an event; the coordinator retains it until stored. *)
Accept ==
    /\ Running
    /\ Len(acked) + Len(pending) < MaxEvents
    /\ \E end \in BOOLEAN :
        pending' = Append(pending, [seq |-> Len(acked) + Len(pending) + 1, life |-> life, end |-> end])
    /\ UNCHANGED <<disk, acked, materialized, at, job, reader, remains, life, faults>>

Fault ==
    /\ faults < MaxFaults
    /\ faults' = faults + 1

(* Every change of the file changes the revision a reader compares. *)
Touch == reader' = [reader EXCEPT !.stale = TRUE]

(* The operation rejects.  A failed repair leaves the session unloaded. *)
Reject ==
    /\ at' = IF job.for = "repair" THEN "cold" ELSE "idle"
    /\ job' = NoJob
    /\ UNCHANGED session

\* a variant: what arrived meanwhile is taken for stored too
AcknowledgeRetained ==
    /\ acked' = acked \o pending
    /\ pending' = <<>>
    /\ materialized' = TRUE
    /\ at' = "idle" /\ job' = NoJob
    /\ UNCHANGED remains

(* appendBatch resolves: appendCore marks the log materialized and advances *)
(* the cursor.                                                              *)
Acknowledge ==
    /\ acked' = acked \o job.events
    /\ pending' = SubSeq(pending, Len(job.events) + 1, Len(pending))
    /\ materialized' = TRUE
    /\ at' = "idle" /\ job' = NoJob
    /\ UNCHANGED remains

(* A cold load resolves with the events read, recovered and closed off;    *)
(* what it read need not be durable.                                       *)
Loaded(events, durable) ==
    /\ acked' = events
    /\ pending' = <<>>
    /\ materialized' = exists
    /\ leftover' = "none" /\ trusted' = ~durable
    /\ at' = "idle" /\ job' = NoJob

(* commitRepair's job ends with the log it was given; an append adds to it. *)
Resolve == IF job.for = "repair" THEN Loaded(scanLog(file).events, linkSynced) ELSE Acknowledge

(* A sync of the file makes durable what a restart trusted of it, though    *)
(* not its directory entry.                                                *)
Synced(content) ==
    /\ synced' = content /\ lingering' = {}
    /\ trusted' = (trusted /\ ~linkSynced)

(* appendLines: encode, open, stat. *)
Writing(for, events, size) ==
    /\ at' = "write"
    /\ job' = [for |-> for, events |-> events, before |-> size,
               left |-> encodeEventBatch(compression, events)]

AppendBatch ==
    /\ at = "idle" /\ pending # <<>>
    /\ IF materialized THEN Writing("append", pending, Len(file))
       ELSE /\ at' = "publish"
            /\ job' = [NoJob EXCEPT !.for = "append", !.events = pending]
    /\ UNCHANGED <<disk, session, reader, remains, life, faults>>

-----------------------------------------------------------------------------
(* materializePosix: refuse an existing log, write and sync a temporary     *)
(* file, link it to the final path, sync the directory.                     *)

rejectExistingLog ==
    /\ at = "publish" /\ exists
    /\ Reject
    /\ UNCHANGED <<disk, reader, remains, life, faults>>

Publish ==
    /\ at = "publish" /\ ~exists
    /\ exists' = TRUE
    /\ file' = encodeEventBatch(compression, job.events)
    /\ synced' = file'
    /\ at' = "linked"
    /\ UNCHANGED <<compression, linkSynced, lingering, session, job, reader, remains, life, faults>>

PublishFails ==
    /\ at = "publish" /\ ~exists
    /\ Fault /\ Reject
    /\ UNCHANGED <<disk, reader, remains, life>>

syncDirPosix ==
    /\ at = "linked"
    /\ linkSynced' = TRUE
    /\ Acknowledge
    /\ UNCHANGED <<compression, exists, file, synced, lingering, reader, life, faults>>

SyncDirFails ==
    /\ at = "linked"
    /\ Fault /\ Reject
    /\ linkSynced' \in BOOLEAN
    /\ UNCHANGED <<compression, exists, file, synced, lingering, reader, remains, life>>

-----------------------------------------------------------------------------
(* appendLines.  A reader may see the batch half written. *)

Write ==
    /\ at = "write"
    /\ \E n \in 1..Len(job.left) :
        /\ file' = file \o SubSeq(job.left, 1, n)
        /\ job' = [job EXCEPT !.left = SubSeq(@, n + 1, Len(@))]
        /\ at' = IF n = Len(job.left) THEN "sync" ELSE "write"
    /\ leftover' = IF leftover = "kept" /\ job.for = "append" THEN "buried" ELSE leftover
    /\ Touch
    /\ UNCHANGED <<compression, exists, linkSynced, synced, lingering, session, trusted, life, faults>>

SyncAppend ==
    /\ at = "sync"
    /\ Synced(file)
    /\ at' = "close"
    /\ UNCHANGED <<compression, exists, linkSynced, file, session, job, reader, leftover, life, faults>>

CloseAppend ==
    /\ at = "close"
    /\ Resolve
    /\ UNCHANGED <<disk, reader, life, faults>>

(* The file cannot be opened or its size not be read: nothing is written.  *)
OpenFails ==
    /\ at = "write" /\ job.left = encodeEventBatch(compression, job.events)
    /\ Fault /\ Reject
    /\ UNCHANGED <<disk, reader, remains, life>>

WriteOrSyncFails ==
    /\ at \in {"write", "sync"}
    /\ Fault
    /\ at' = "rollback"
    /\ UNCHANGED <<disk, session, job, reader, remains, life>>

(* The bytes of a rejected batch stay, maybe on top of others. *)
Kept == IF leftover = "none" THEN "kept" ELSE leftover

(* closeAppendHandle fails in the finally: the batch is stored, and         *)
(* rejected without a rollback.                                            *)
CloseFails ==
    /\ at = "close"
    /\ Fault /\ Reject
    /\ leftover' = Kept
    /\ UNCHANGED <<disk, reader, trusted, life>>

Truncated == SubSeq(file, 1, job.before)

\* a variant: the operation rejects without giving its bytes back
KeepPartialAppend ==
    /\ at = "rollback"
    /\ Reject
    /\ UNCHANGED <<disk, reader, remains, life, faults>>

(* rollbackAppend; the operation then rejects with the first error. *)
rollbackAppend ==
    /\ at = "rollback"
    /\ file' = Truncated /\ Synced(Truncated)
    /\ Touch /\ Reject
    /\ UNCHANGED <<compression, exists, linkSynced, leftover, life, faults>>

(* The rollback fails too, before or after its truncation; where only the   *)
(* last close fails it has done its work and rejects alike.                *)
RollbackFails ==
    /\ at = "rollback"
    /\ Fault /\ Reject
    /\ \/ /\ leftover' = IF file = Truncated THEN leftover ELSE Kept
          /\ UNCHANGED <<file, lingering, reader>>
       \/ /\ file' = Truncated
          /\ lingering' = lingering \cup {file}
          /\ Touch
          /\ UNCHANGED leftover
    /\ UNCHANGED <<compression, exists, linkSynced, synced, trusted, life>>

-----------------------------------------------------------------------------
(* Crash and restart. *)

Contents == {file, synced} \cup lingering

(* What a power failure leaves: any unsynced content, cut anywhere past     *)
(* the part that all of them share.                                        *)
Survivors ==
    LET kept == Len(LongestCommonPrefix(Contents))
    IN  UNION {{SubSeq(content, 1, n) : n \in kept..Len(content)} : content \in Contents}

Crash ==
    /\ at # "refused" /\ life < MaxLives
    /\ life' = life + 1
    /\ at' = "cold" /\ job' = NoJob /\ reader' = NoReader
    /\ UNCHANGED <<compression, session, faults>>

(* The process is gone; the file system has what it wrote, synced or not.  *)
ProcessDies ==
    /\ Crash
    /\ UNCHANGED <<exists, linkSynced, file, synced, lingering, remains>>

PowerFails ==
    /\ Crash
    /\ \/ /\ file' \in Survivors /\ synced' = file'
          /\ UNCHANGED exists
       \/ /\ exists /\ ~linkSynced
          /\ exists' = FALSE /\ file' = <<>> /\ synced' = <<>>
    /\ lingering' = {}
    /\ linkSynced' = exists'
    /\ leftover' = IF trusted /\ <<exists, file>>' # <<exists, file>> THEN "lost" ELSE leftover
    /\ trusted' = FALSE

(* Synthetic closers: an open turn is ended. *)
Closers(events) ==
    IF events = <<>> \/ events[Len(events)].end THEN <<>>
    ELSE <<[seq |-> Len(events) + 1, life |-> life, end |-> TRUE]>>

LoadMissing ==
    /\ at = "cold" /\ ~exists
    /\ Loaded(<<>>, TRUE)
    /\ UNCHANGED <<disk, reader, life, faults>>

(* prepareCore reads the prefix, commitPrepared repairs what it found.  A  *)
(* log that needs no repair is taken as it reads, synced or not.           *)
Load ==
    /\ at = "cold" /\ exists
    /\ \E reading \in Readings(compression, file) :
        LET added == reading.recovered \o Closers(reading.events)
        IN  CASE reading.refused ->
                   /\ at' = "refused"
                   /\ UNCHANGED <<session, job, remains>>
              [] ~reading.refused /\ reading.keep < Len(file) ->
                   /\ at' = "truncate"
                   /\ job' = [NoJob EXCEPT !.for = "repair", !.events = added, !.before = reading.keep]
                   /\ UNCHANGED <<session, remains>>
              [] ~reading.refused /\ reading.keep = Len(file) /\ added # <<>> ->
                   /\ Writing("repair", added, Len(file))
                   /\ UNCHANGED <<session, remains>>
              [] OTHER -> Loaded(reading.events, Contents = {file} /\ linkSynced)
    /\ UNCHANGED <<disk, reader, life, faults>>

(* repair, then appendLines of what the torn tail still held and the        *)
(* closers.                                                                 *)
repair ==
    /\ at = "truncate"
    /\ file' = Truncated /\ synced' = file' /\ lingering' = {}
    /\ Touch
    /\ IF job.events = <<>> THEN Loaded(scanLog(file').events, linkSynced)
       ELSE Writing("repair", job.events, job.before) /\ UNCHANGED <<session, remains>>
    /\ UNCHANGED <<compression, exists, linkSynced, life, faults>>

(* It fails before or after its truncation, or after its sync. *)
RepairFails ==
    /\ at = "truncate"
    /\ Fault /\ Reject
    /\ \/ UNCHANGED <<file, synced, lingering, reader>>
       \/ /\ file' = Truncated
          /\ \/ lingering' = lingering \cup {file} /\ UNCHANGED synced
             \/ lingering' = {} /\ synced' = file'
          /\ Touch
    /\ UNCHANGED <<compression, exists, linkSynced, remains, life>>

-----------------------------------------------------------------------------
(* readRaw: stat, read in chunks, stat, again while the revision changed. *)

ReadStat ==
    /\ reader.phase = "idle" /\ exists
    /\ reader' = [phase |-> "stat", part |-> <<>>, stale |-> FALSE]

ReadPart ==
    /\ reader.phase = "stat"
    /\ \E n \in 0..Len(file) :
        reader' = [reader EXCEPT !.phase = "part", !.part = SubSeq(file, 1, n)]

\* a variant: the second stat is not compared with the first
ReadRestOnce ==
    /\ reader.phase = "part"
    /\ reader' = [reader EXCEPT !.phase = "answer",
                                !.part = @ \o SubSeq(file, Len(@) + 1, Len(file))]

ReadRest ==
    /\ reader.phase = "part"
    /\ reader' = IF reader.stale
                 THEN [reader EXCEPT !.phase = "stat", !.part = <<>>, !.stale = FALSE]
                 ELSE [reader EXCEPT !.phase = "answer",
                                     !.part = @ \o SubSeq(file, Len(@) + 1, Len(file))]

ReadTaken == reader.phase = "answer" /\ reader' = NoReader

Read ==
    /\ ReadStat \/ ReadPart \/ ReadRest \/ ReadTaken
    /\ UNCHANGED <<disk, session, at, job, remains, life, faults>>

Next ==
    \/ Accept \/ AppendBatch
    \/ rejectExistingLog \/ Publish \/ PublishFails \/ syncDirPosix \/ SyncDirFails
    \/ OpenFails \/ Write \/ SyncAppend \/ CloseAppend
    \/ WriteOrSyncFails \/ CloseFails \/ rollbackAppend \/ RollbackFails
    \/ ProcessDies \/ PowerFails \/ LoadMissing \/ Load \/ repair \/ RepairFails
    \/ Read

Spec == Init /\ [][Next]_vars

-----------------------------------------------------------------------------
(* Properties *)

(* A log a reader may find: everything acknowledged, then some of what is  *)
(* waiting, then perhaps the end of the turn.                              *)
Recoverable(events) ==
    LET all == acked \o pending
    IN  \E n \in Len(acked)..Len(all) :
            \/ events = SubSeq(all, 1, n)
            \/ /\ Len(events) = n + 1 /\ events[n + 1].end
               /\ IsPrefix(SubSeq(all, 1, n), events)

(* The promises end where the code breaks them: the bytes of a rejected    *)
(* batch were built upon by its retry, or a power failure took what a      *)
(* restart had trusted.                                                    *)
Sound == leftover \notin {"buried", "lost"}

(* Whatever a crash leaves of the file at any moment (half an append, half *)
(* a rollback, a repair cut short), the next start reads all acknowledged  *)
(* events, no event twice and none that was never accepted, and does not   *)
(* refuse the log.  A log that was read back from a dead process is safe   *)
(* from the next sync on.                                                  *)
SurvivesCrash ==
    Sound /\ ~trusted /\ at # "refused" =>
        \A content \in Survivors : exists =>
            \A reading \in Readings(compression, content) :
                ~reading.refused /\ Recoverable(reading.events)

(* Every crash is survived, and every variable has its type.               *)
Inv == TypeOK /\ SurvivesCrash

(* A reader of the raw artifact, never serialized with appends, rollbacks  *)
(* and repairs, answers with a log that stood at one moment, not with two  *)
(* pieces of different ones.                                               *)
RawReadIsWhole ==
    [][reader.phase = "part" /\ reader'.phase = "answer" /\ Sound
        => Recoverable(scanLog(rawText(compression, reader'.part)).events)]_vars

(* The store implements the crash-safe log: it acknowledges batches whole  *)
(* and in order, and a restart brings back what was acknowledged.          *)
Promise == INSTANCE CrashSafeLog WITH log <- acked, waiting <- pending, sound <- Sound
Refinement == Promise!Spec

(* What the promise is exempted from: no batch is written on top of one    *)
(* that was rejected and stayed, and no restart trusts what a power        *)
(* failure can take.  One fault, or two crashes, break each.               *)
RetriesCleanly == leftover # "buried"
TrustsDurable == leftover # "lost"

(* What index.ts:598-599 says of rejectExistingLog: a first batch never    *)
(* meets a log that already exists, so a failed one can be retried.        *)
FirstBatchRetriable == at = "publish" => ~exists
=============================================================================
