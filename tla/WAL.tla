-------------------------------- MODULE WAL --------------------------------
(***************************************************************************)
(* The write-ahead log of pkg/storage (wal.go, wal_segments.go,            *)
(* wal_repair.go), the engine that logs before it applies (wal_engine.go), *)
(* its background compaction, and what RecoverIntoEngine                   *)
(* (wal_recovery_stream.go) would rebuild from the files at any moment.    *)
(*                                                                         *)
(* A thread is a caller of the engine or the compaction goroutine.  pc     *)
(* says what the thread has done of its operation:                         *)
(*   "locked"    holds mutationMu for writing, has read w.sequence         *)
(*   "numbered"  has its sequence number, waits for w.mu                   *)
(*   "rotate"    holds w.mu, entry written, the active file is full        *)
(*   "sealed"    holds w.mu, active file renamed, not yet in the manifest  *)
(*   "logged"    entry in the log, w.mu released                           *)
(*   "saved"     snapshot file in place, log not yet truncated             *)
(*   "removing"  holds w.mu, the segments directory is being removed       *)
(*   "dropped"   holds w.mu, segments gone, the new log not yet renamed    *)
(*                                                                         *)
(* Files survive a crash of the process.  Power loss also takes what was   *)
(* not fsynced of the active file.  A directory operation is durable at    *)
(* once and an operation on files does not fail.                           *)
(***************************************************************************)
EXTENDS Naturals, Sequences, FiniteSets, SequencesExt

CONSTANTS
    Writer,        \* callers of the engine
    Compactor,     \* the autoSnapshotLoop goroutine
    Key, Value,    \* node IDs and node contents
    None,          \* no node under this ID
    Kinds,         \* the engine operations callers make
    Immediate,     \* SyncMode = "immediate" (else "batch")
    MaxEntries,    \* entries that fill the active file
    Hazards,       \* which of the situations named at their guards may happen
    MaxSequence,   \* bound: sequence numbers handed out
    MaxCrashes     \* bound: crashes, power losses and recoveries

ASSUME WALAssumption ==
    /\ Compactor \notin Writer
    /\ None \notin Value
    /\ Immediate \in BOOLEAN
    /\ MaxEntries \in Nat \ {0}
    /\ MaxSequence \in Nat
    /\ MaxCrashes \in Nat

VARIABLES
    sequence,      \* w.sequence, the last number handed out
    active,        \* the records of wal.log
    synced,        \* how many of them fsync has reached
    segments,      \* the segment files: name |-> records
    manifest,      \* the names manifest.json lists
    snapshot,      \* the latest snapshot file
    store,         \* the wrapped engine: key |-> value
    pc, op, seq,   \* per thread: progress, operation, its sequence number
    snapshotSeq,   \* the compactor's snapshotSequence
    kept,          \* the records of wal.log.truncate.tmp
    sealed,        \* the name of the segment being sealed
    settled,       \* history: keys that no crash has left in doubt
    crashes        \* history: how many there were

logVars == <<sequence, active, synced, segments, manifest>>
threadVars == <<pc, op, seq>>
compactVars == <<snapshotSeq, kept, sealed>>
vars == <<logVars, snapshot, store, threadVars, compactVars, settled, crashes>>

Thread == Writer \cup {Compactor}

-----------------------------------------------------------------------------
(* Operations, and what they do to the engine *)

Op(kind, k, v) == [kind |-> kind, key |-> k, val |-> v]
NoOp == Op("none", None, None)
CheckpointOp == Op("checkpoint", None, None)
Operation ==
    {Op(kind, k, v) : kind \in Kinds \cap {"create", "update"}, k \in Key, v \in Value}
      \cup {Op(kind, k, None) : kind \in Kinds \cap {"delete"}, k \in Key}
      \cup {Op(kind, None, None) : kind \in Kinds \cap {"marker"}}
LoggedOp == Operation \cup {CheckpointOp}

EmptyStore == [k \in Key |-> None]

\* The engine's operations.  Creating a node that exists fails and changes
\* nothing, an update is an upsert, deleting a node that does not exist fails.
CreateNode(s, k, v) == IF s[k] = None THEN [s EXCEPT ![k] = v] ELSE s
UpdateNode(s, k, v) == [s EXCEPT ![k] = v]
DeleteNode(s, k)    == [s EXCEPT ![k] = None]

\* Markers and checkpoints do not reach the engine.
Effect(s, o) ==
    CASE o.kind = "create" -> CreateNode(s, o.key, o.val)
      [] o.kind = "update" -> UpdateNode(s, o.key, o.val)
      [] o.kind = "delete" -> DeleteNode(s, o.key)
      [] OTHER             -> s

-----------------------------------------------------------------------------
(* Reading the log directory *)

FirstSeq(name) == name[1]
NoSegment == <<0, 0>>

\* The manifest's segments by FirstSeq; an empty manifest means: scan the
\* directory.
SegmentNames == IF manifest = {} THEN DOMAIN segments ELSE manifest
LastOf(names) == CHOOSE n \in names : \A m \in names : FirstSeq(m) <= FirstSeq(n)

\* A listed file that is missing makes every reader of the directory fail.
Readable == SegmentNames \subseteq DOMAIN segments

\* The records of the files of these names.
Contents(files, names) ==
    LET read[some \in SUBSET names] ==
          IF some = {} THEN <<>>
          ELSE read[some \ {LastOf(some)}] \o files[LastOf(some)]
    IN  read[names]

ReadWALEntriesFromDir == Contents(segments, SegmentNames) \o active

After(entries, n) ==
    LET above[i \in 0 .. Len(entries)] ==
          IF i = 0 THEN <<>>
          ELSE IF entries[i].seq > n THEN Append(above[i - 1], entries[i]) ELSE above[i - 1]
    IN  above[Len(entries)]

ReplayWALEntry(s, e) == Effect(s, e.op)

Replay(data, entries) ==
    LET engine[i \in 0 .. Len(entries)] ==
          IF i = 0 THEN data ELSE ReplayWALEntry(engine[i - 1], entries[i])
    IN  engine[Len(entries)]

\* What RecoverIntoEngine rebuilds: the latest snapshot, then every record of
\* the log above its sequence, in file order, failures skipped.
RecoverIntoEngine ==
    Replay(snapshot.data, After(ReadWALEntriesFromDir, snapshot.seq))

\* The number of the last record in file order, 0 when there is none or the
\* directory cannot be read.
LoadLastSequenceOfActive(entries) ==
    IF active # <<>> THEN Last(active).seq ELSE 0
LoadLastSequence(entries) ==
    IF Readable /\ entries # <<>> THEN Last(entries).seq ELSE 0

-----------------------------------------------------------------------------
(* Locks *)

InWalMu == {"rotate", "sealed", "removing", "dropped"}
MuFree == \A t \in Thread : pc[t] \notin InWalMu

IsMutation(o) == o.kind \in {"create", "update", "delete"}
MutationMuFree == pc[Compactor] = "idle"
NoMutation == \A w \in Writer : pc[w] = "idle" \/ ~IsMutation(op[w])

Busy(k) == \E w \in Writer : pc[w] # "idle" /\ op[w].key = k

\* Files hold whole records, fsync has reached a prefix of the active one, and a
\* thread is at one of the points of its operation listed above.
TypeOK ==
    LET Record == [seq : 1 .. MaxSequence, op : LoggedOp]
        Records(s) == \A i \in DOMAIN s : s[i] \in Record
    IN  /\ sequence \in 0 .. MaxSequence
        /\ Records(active) /\ Records(kept)
        /\ synced \in 0 .. Len(active)
        /\ \A n \in DOMAIN segments : Records(segments[n])
        /\ manifest \subseteq (1 .. MaxSequence) \X (1 .. MaxSequence)
        /\ snapshot \in [seq : 0 .. MaxSequence, data : [Key -> Value \cup {None}]]
        /\ store \in [Key -> Value \cup {None}]
        /\ pc \in [Thread -> {"idle", "locked", "numbered", "rotate", "sealed", "logged",
                              "saved", "removing", "dropped"}]
        /\ op \in [Thread -> LoggedOp \cup {NoOp}]
        /\ seq \in [Thread -> 0 .. MaxSequence]
        /\ snapshotSeq \in 0 .. MaxSequence
        /\ sealed \in (0 .. MaxSequence) \X (0 .. MaxSequence)
        /\ settled \subseteq Key
        /\ crashes \in 0 .. MaxCrashes

Init ==
    /\ sequence = 0 /\ active = <<>> /\ synced = 0
    /\ segments = <<>> /\ manifest = {}
    /\ snapshot = [seq |-> 0, data |-> EmptyStore]
    /\ store = EmptyStore
    /\ pc = [t \in Thread |-> "idle"]
    /\ op = [t \in Thread |-> NoOp]
    /\ seq = [t \in Thread |-> 0]
    /\ snapshotSeq = 0 /\ kept = <<>> /\ sealed = NoSegment
    /\ settled = Key
    /\ crashes = 0

-----------------------------------------------------------------------------
(* Writing: CreateNode, UpdateNode, DeleteNode, AppendTxBegin, ... *)

\* A mutation takes mutationMu for reading, a transaction marker does not.
\* AppendWithDatabaseReturningSeq takes the sequence number before it asks for
\* w.mu.  "samekey": two callers write one node at the same time.
BeginWrite(w, o) ==
    /\ pc[w] = "idle"
    /\ sequence < MaxSequence
    /\ IsMutation(o) => MutationMuFree
    /\ IsMutation(o) => "samekey" \in Hazards \/ ~Busy(o.key)
    /\ sequence' = sequence + 1
    /\ seq' = [seq EXCEPT ![w] = sequence + 1]
    /\ op' = [op EXCEPT ![w] = o]
    /\ pc' = [pc EXCEPT ![w] = "numbered"]
    /\ UNCHANGED <<active, synced, segments, manifest, snapshot, store, compactVars, settled, crashes>>

\* createSnapshotAndCompact: mutationMu for writing, the sequence for the
\* snapshot, then Checkpoint's own number, which the snapshot does not cover.
SequenceOfCheckpoint == sequence + 1
SnapshotSequence == sequence
StartCompaction ==
    /\ pc[Compactor] = "idle"
    /\ NoMutation
    /\ sequence < MaxSequence
    /\ snapshotSeq' = SnapshotSequence
    /\ pc' = [pc EXCEPT ![Compactor] = "locked"]
    /\ UNCHANGED <<logVars, snapshot, store, op, seq, kept, sealed, settled, crashes>>

Checkpoint ==
    /\ pc[Compactor] = "locked"
    /\ sequence < MaxSequence
    /\ sequence' = sequence + 1
    /\ seq' = [seq EXCEPT ![Compactor] = sequence + 1]
    /\ op' = [op EXCEPT ![Compactor] = CheckpointOp]
    /\ pc' = [pc EXCEPT ![Compactor] = "numbered"]
    /\ UNCHANGED <<active, synced, segments, manifest, snapshot, store, compactVars, settled, crashes>>

\* Under w.mu: the record is written and flushed to the file; in immediate mode
\* fsynced.  A full file is rotated before w.mu is released.  "reorder": w.mu is
\* granted to a thread whose number is not the lowest of those waiting.
Full(n) == n >= MaxEntries
SyncedAfterAppendLazily == synced
SyncedAfterAppend == IF Immediate THEN Len(active) + 1 ELSE synced
AppendRecord(t) ==
    /\ pc[t] = "numbered"
    /\ MuFree
    /\ "reorder" \in Hazards \/ \A u \in Thread : pc[u] = "numbered" => seq[t] <= seq[u]
    /\ active' = Append(active, [seq |-> seq[t], op |-> op[t]])
    /\ synced' = SyncedAfterAppend
    /\ pc' = [pc EXCEPT ![t] = IF Full(Len(active) + 1) THEN "rotate" ELSE "logged"]
    /\ UNCHANGED <<sequence, segments, manifest, snapshot, store, op, seq, compactVars, settled, crashes>>

SegmentName(t) == <<Head(active).seq, seq[t]>>

\* rotateSegmentLocked: fsync, close, rename wal.log into the segments directory.
SealSegment(t) ==
    /\ pc[t] = "rotate"
    /\ segments' = [n \in DOMAIN segments \cup {SegmentName(t)} |->
                      IF n = SegmentName(t) THEN active ELSE segments[n]]
    /\ active' = <<>>
    /\ synced' = 0
    /\ sealed' = SegmentName(t)
    /\ pc' = [pc EXCEPT ![t] = "sealed"]
    /\ UNCHANGED <<sequence, manifest, snapshot, store, op, seq, snapshotSeq, kept, settled, crashes>>

\* ... then add the segment to the manifest and open a new wal.log.
ListedAlone(names, name) == {name}
Listed(names, name) == names \cup {name}
RegisterSegment(t) ==
    /\ pc[t] = "sealed"
    /\ manifest' = Listed(manifest, sealed)
    /\ sealed' = NoSegment
    /\ pc' = [pc EXCEPT ![t] = "logged"]
    /\ UNCHANGED <<sequence, active, synced, segments, snapshot, store, op, seq, snapshotSeq, kept, settled, crashes>>

\* A node that a crash has left in doubt is settled by an update or a delete,
\* whose record replays to what it did.  "orphan": by a create too, though it
\* replays against a record whose operation never ran.
Settles(o) ==
    {k \in Key : k = o.key /\ ("orphan" \in Hazards \/ o.kind \in {"update", "delete"})}

\* The wrapped engine's operation, and return to the caller.
ApplyToEngine(w) ==
    /\ pc[w] = "logged"
    /\ store' = Effect(store, op[w])
    /\ pc' = [pc EXCEPT ![w] = "idle"]
    /\ op' = [op EXCEPT ![w] = NoOp]
    /\ seq' = [seq EXCEPT ![w] = 0]
    /\ settled' = settled \cup Settles(op[w])
    /\ UNCHANGED <<logVars, snapshot, compactVars, crashes>>

\* batchSyncLoop: fsync whatever the active file holds.
FsyncPastEnd == Len(active) + 1
Fsync == Len(active)
Sync ==
    /\ ~Immediate /\ MuFree
    /\ synced < Len(active)
    /\ synced' = Fsync
    /\ UNCHANGED <<sequence, active, segments, manifest, snapshot, store, threadVars, compactVars, settled, crashes>>

-----------------------------------------------------------------------------
(* Compaction *)

\* SaveStreamingSnapshot: temporary file, fsync, rename.
SaveSnapshot ==
    /\ pc[Compactor] = "logged"
    /\ snapshot' = [seq |-> snapshotSeq, data |-> store]
    /\ pc' = [pc EXCEPT ![Compactor] = "saved"]
    /\ settled' = Key
    /\ UNCHANGED <<logVars, store, op, seq, compactVars, crashes>>

\* TruncateAfterSnapshot: fsync, keep the records above the snapshot in a
\* temporary file (none when the log cannot be read), then remove the segments
\* directory, file by file; manifest.json is one of its files.
RemoveSegments ==
    /\ pc[Compactor] = "saved"
    /\ MuFree
    /\ synced' = Len(active)
    /\ kept' = IF Readable THEN After(ReadWALEntriesFromDir, snapshotSeq) ELSE <<>>
    /\ \E gone \in SUBSET DOMAIN segments :
          segments' = [n \in DOMAIN segments \ gone |-> segments[n]]
    /\ manifest' \in {manifest, {}}
    /\ pc' = [pc EXCEPT ![Compactor] = "removing"]
    /\ UNCHANGED <<sequence, active, snapshot, store, op, seq, snapshotSeq, sealed, settled, crashes>>

DropSegmentsLocksAgain ==
    /\ pc[Compactor] = "removing"
    /\ MuFree
    /\ segments' = <<>>
    /\ manifest' = {}
    /\ pc' = [pc EXCEPT ![Compactor] = "dropped"]
    /\ UNCHANGED <<sequence, active, synced, snapshot, store, op, seq, compactVars, settled, crashes>>
DropSegments ==
    /\ pc[Compactor] = "removing"
    /\ segments' = <<>>
    /\ manifest' = {}
    /\ pc' = [pc EXCEPT ![Compactor] = "dropped"]
    /\ UNCHANGED <<sequence, active, synced, snapshot, store, op, seq, compactVars, settled, crashes>>

\* ... then rename the temporary file over wal.log and reopen it.
RenameTruncated ==
    /\ pc[Compactor] = "dropped"
    /\ active' = kept
    /\ synced' = Len(kept)
    /\ kept' = <<>>
    /\ snapshotSeq' = 0
    /\ pc' = [pc EXCEPT ![Compactor] = "idle"]
    /\ op' = [op EXCEPT ![Compactor] = NoOp]
    /\ seq' = [seq EXCEPT ![Compactor] = 0]
    /\ UNCHANGED <<sequence, segments, manifest, snapshot, store, sealed, settled, crashes>>

-----------------------------------------------------------------------------
(* Crashes *)

\* "rotate", "truncate": a crash may also hit between the file operations of a
\* rotation, of a truncation.
CrashPoint ==
    /\ crashes < MaxCrashes
    /\ "rotate" \in Hazards \/ \A t \in Thread : pc[t] # "sealed"
    /\ "truncate" \in Hazards \/ pc[Compactor] \notin {"removing", "dropped"}

\* NewWAL over the files that are left; every thread is gone, and what it was
\* writing is in doubt.
Reopen(acknowledged) ==
    /\ settled' = {k \in acknowledged : ~Busy(k)}
    /\ sequence' = LoadLastSequence(ReadWALEntriesFromDir)'
    /\ pc' = [t \in Thread |-> "idle"]
    /\ op' = [t \in Thread |-> NoOp]
    /\ seq' = [t \in Thread |-> 0]
    /\ snapshotSeq' = 0
    /\ kept' = <<>>
    /\ sealed' = NoSegment
    /\ crashes' = crashes + 1

\* The process dies; what it wrote is with the operating system.
Crash ==
    /\ CrashPoint
    /\ UNCHANGED <<active, synced, segments, manifest, snapshot, store>>
    /\ Reopen(settled)

\* Truncates a file to its first n records: what is left of it, less a torn record.
RepairTail(records, n) == SubSeq(records, 1, n)

\* The machine dies: of the active file any part above the fsynced one is lost,
\* a torn record is cut off by repairWALTailIfNeeded.  The engine's own files
\* are not modelled: in batch mode, where unfsynced writes may be lost, what it
\* holds is not compared with the log until the key is written again.
\* "unsynced": records a snapshot already covers may be lost.
PowerLoss ==
    /\ CrashPoint
    /\ "unsynced" \in Hazards
         \/ \A i \in DOMAIN active : active[i].seq <= snapshot.seq => i <= synced
    /\ UNCHANGED <<segments, manifest, snapshot, store>>
    /\ \E n \in synced .. Len(active) :
          /\ active' = RepairTail(active, n)
          /\ synced' = n
          /\ Reopen(IF Immediate \/ n = Len(active) THEN settled ELSE {})

\* recoverBadgerFromSnapshotAndWAL: the engine's files are damaged, the data
\* directory is set aside and a new one filled from snapshot and log.
Recover ==
    /\ crashes \in 1 .. MaxCrashes - 1
    /\ \A t \in Thread : pc[t] = "idle"
    /\ Readable
    /\ store' = RecoverIntoEngine
    /\ active' = <<>> /\ synced' = 0 /\ segments' = <<>> /\ manifest' = {}
    /\ snapshot' = [seq |-> 0, data |-> EmptyStore]
    /\ sequence' = 0
    /\ settled' = {}
    /\ crashes' = crashes + 1
    /\ UNCHANGED <<threadVars, compactVars>>

-----------------------------------------------------------------------------
Rotation(t) == SealSegment(t) \/ RegisterSegment(t)
Compaction == Checkpoint \/ SaveSnapshot \/ RemoveSegments \/ DropSegments \/ RenameTruncated

Next ==
    \/ \E w \in Writer, o \in Operation : BeginWrite(w, o)
    \/ \E w \in Writer : ApplyToEngine(w)
    \/ \E t \in Thread : AppendRecord(t) \/ Rotation(t)
    \/ StartCompaction \/ Compaction
    \/ Sync
    \/ Crash \/ PowerLoss \/ Recover

Spec == Init /\ [][Next]_vars

\* A goroutine that can take its next step does; the batch ticker fires.
Fairness ==
    /\ \A t \in Thread : WF_vars(AppendRecord(t)) /\ WF_vars(Rotation(t))
    /\ \A w \in Writer : WF_vars(ApplyToEngine(w))
    /\ WF_vars(Compaction)
    /\ WF_vars(Sync)

FairSpec == Spec /\ Fairness

-----------------------------------------------------------------------------
(* Properties *)

\* What recovery would rebuild is what the engine holds, for every node no
\* caller is writing and no crash has left in doubt since it was last written
\* or taken into a snapshot: a write that was acknowledged survives any crash,
\* compaction and rotation that came after it.
Recoverable ==
    MuFree => /\ Readable
              /\ \A k \in settled : ~Busy(k) => RecoverIntoEngine[k] = store[k]

\* The next record written is above the latest snapshot: recovery skips records
\* up to the snapshot's sequence, so a log reopened below it would lose writes.
SequenceAboveSnapshot == MuFree => sequence >= snapshot.seq

\* No two records of the log have the same sequence number.
SequencesUnique ==
    MuFree /\ Readable =>
      LET log == ReadWALEntriesFromDir
      IN  \A i, j \in DOMAIN log : i # j => log[i].seq # log[j].seq

\* An operation that has its number returns, and a compaction ends: rotation,
\* truncation, the two mutexes and the batch sync never wait for each other.
OperationsReturn ==
    \A t \in Thread : (pc[t] # "idle") ~> (pc[t] = "idle")
=============================================================================
