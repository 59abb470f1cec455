------------------------------ MODULE HAStandby ------------------------------
(***************************************************************************)
(* Hot standby replication (pkg/replication/ha_standby.go) over the storage*)
(* adapter: one primary, one standby, one connection.  The primary runs    *)
(* calls, streams its log and sends heartbeats; calls in quorum mode wait  *)
(* for the standby's acknowledgement and stream as well; the standby       *)
(* applies batches, watches the heartbeats, fences the primary and         *)
(* promotes itself.                                                        *)
(*                                                                         *)
(* On the connection (transport.go) an answer carries no identity: the     *)
(* reader gives whatever arrives to any one of the calls that wait there,  *)
(* a request of the peer included, and only serves requests when none      *)
(* waits.  A caller that is given a message of another type fails.         *)
(*                                                                         *)
(* Further states of a client: "waiting" for the acknowledgement, "done";  *)
(* a call that timed out or was lost in a crash has "failed" too.          *)
(***************************************************************************)
EXTENDS StorageAdapter

CONSTANTS
    Quorum,        \* SyncMode = "quorum" (else "async")
    BatchSize,     \* WALBatchSize
    MaxInFlight,   \* bound: messages and batches under way when one is sent
    MaxFaults      \* bound: broken connections, crashes, restarts of the standby

ASSUME HAAssumption ==
    /\ Quorum \in BOOLEAN
    /\ BatchSize \in Nat \ {0}
    /\ MaxInFlight \in Nat \ {0}
    /\ MaxFaults \in Nat

VARIABLES
    isPrimary,     \* the primary's flag: it accepts writes
    alive,         \* the primary process runs
    target,        \* per client: the position it waits for
    lastAcked,     \* WALStreamer.lastAckedPos
    conn,          \* the connection is up
    toStandby,     \* messages on it, in order
    toPrimary,
    pending,       \* the streaming callers that wait for an answer on it
    beatStuck,     \* the heartbeat caller waits for an answer another one got
    lastApplied,   \* WALApplier.lastApplied
    healthy,       \* primaryHealthy
    failover,      \* how far triggerAutoFailover is
    promoted,      \* the standby's isPrimary and isPromoted
    applied,       \* history: the commands the standby's engine ran
    faults         \* history: how many there were

primaryVars == <<isPrimary, alive, target, lastAcked>>
netVars == <<conn, toStandby, toPrimary, pending, beatStuck>>
standbyVars == <<lastApplied, healthy, failover, promoted, applied>>
vars == <<adapterVars, primaryVars, netVars, standbyVars, faults>>

Sender == {"loop"} \cup Client

Batch(entries) == [kind |-> "batch", entries |-> entries]
Acked(pos) == [kind |-> "acked", pos |-> pos]
Fence == [kind |-> "fence"]
Fenced == [kind |-> "fenced"]

Init ==
    /\ AdapterInit
    /\ isPrimary = TRUE
    /\ alive = TRUE
    /\ target = [c \in Client |-> 0]
    /\ lastAcked = 0
    /\ conn = FALSE
    /\ toStandby = <<>>
    /\ toPrimary = <<>>
    /\ pending = {}
    /\ beatStuck = FALSE
    /\ lastApplied = 0
    /\ healthy = FALSE
    /\ failover = "none"
    /\ promoted = FALSE
    /\ applied = <<>>
    /\ faults = 0

-----------------------------------------------------------------------------
(* Calls on the primary *)

Apply(c) ==
    /\ alive /\ isPrimary
    /\ Enqueue(c) \/ AppendDirectly(c)
    /\ UNCHANGED <<primaryVars, netVars, standbyVars, faults>>

Adapter(c) ==
    /\ Execute(c)
    /\ UNCHANGED <<primaryVars, netVars, standbyVars, faults>>

Writer ==
    /\ WriterStep
    /\ UNCHANGED <<primaryVars, netVars, standbyVars, faults>>

\* Apply reads the WAL position, which need not be that of its own record.
AwaitAck(c) ==
    /\ pc[c] = "applied"
    /\ LET waits == Quorum /\ walPosition > 0
       IN  /\ target' = [target EXCEPT ![c] = IF waits THEN walPosition ELSE 0]
           /\ pc' = [pc EXCEPT ![c] = IF waits THEN "waiting" ELSE "done"]
    /\ UNCHANGED <<queue, log, posCh, walPosition, memWAL, unpublished>>
    /\ UNCHANGED <<isPrimary, alive, lastAcked, netVars, standbyVars, faults>>

EnoughEarly(c) == lastAcked + 1 >= target[c]
Enough(c) == lastAcked >= target[c]

Return(c, how) ==
    /\ pc' = [pc EXCEPT ![c] = how]
    /\ target' = [target EXCEPT ![c] = 0]
    /\ UNCHANGED <<queue, log, posCh, walPosition, memWAL, unpublished>>
    /\ UNCHANGED <<isPrimary, alive, lastAcked, conn, toStandby, toPrimary, beatStuck, standbyVars, faults>>

Acknowledged(c) ==
    /\ pc[c] = "waiting"
    /\ c \notin pending
    /\ Enough(c)
    /\ Return(c, "done")
    /\ UNCHANGED pending

\* The caller's time is over; a request it has out goes on without it.
TimeOut(c) ==
    /\ pc[c] = "waiting"
    /\ Return(c, "failed")
    /\ pending' = pending \ {c}

-----------------------------------------------------------------------------
(* What the primary sends *)

InFlight == Len(toStandby) + Len(toPrimary)

\* streamWALLoop, or a call that waits for its acknowledgement.
StreamPendingWAL(s) ==
    /\ alive /\ conn
    /\ s \notin pending
    /\ InFlight < MaxInFlight
    /\ s = "loop" \/ (s \in Client /\ pc[s] = "waiting" /\ ~Enough(s))
    /\ LET entries == GetWALEntries(lastAcked, BatchSize)
       IN  /\ entries # <<>>
           /\ toStandby' = Append(toStandby, Batch(entries))
    /\ pending' = pending \cup {s}
    /\ UNCHANGED <<adapterVars, primaryVars, conn, toPrimary, beatStuck, standbyVars, faults>>

AcknowledgePosition(pos) ==
    /\ lastAcked' = IF pos > lastAcked THEN pos ELSE lastAcked
    /\ memWAL' = PruneWALEntries(pos)

\* The reader of the primary hands a message to caller s.
Deliver(s) ==
    /\ toPrimary # <<>>
    /\ s \in pending
    /\ LET m == Head(toPrimary)
       IN  IF m.kind = "acked"
           THEN AcknowledgePosition(m.pos)
           ELSE UNCHANGED <<lastAcked, memWAL>>
    /\ pending' = pending \ {s}
    /\ toPrimary' = Tail(toPrimary)
    /\ UNCHANGED <<pc, queue, log, posCh, walPosition, unpublished>>
    /\ UNCHANGED <<isPrimary, alive, target, conn, toStandby, beatStuck, standbyVars, faults>>

\* Nobody waits: a fence is served, an answer that came too late is dropped.
HandleFence ==
    /\ toPrimary # <<>>
    /\ pending = {}
    /\ IF Head(toPrimary) = Fence
       THEN /\ isPrimary' = FALSE
            /\ toStandby' = Append(toStandby, Fenced)
       ELSE UNCHANGED <<isPrimary, toStandby>>
    /\ toPrimary' = Tail(toPrimary)
    /\ UNCHANGED <<adapterVars, alive, target, lastAcked, conn, pending, beatStuck, standbyVars, faults>>

-----------------------------------------------------------------------------
(* Heartbeats: their messages share the connection with all others *)

\* The standby hears of the primary, and takes the heartbeat for the answer to
\* its fence if it waits for one.
Heartbeat ==
    /\ alive /\ conn /\ ~beatStuck
    /\ healthy' = IF failover = "fencing" THEN healthy ELSE TRUE
    /\ failover' = IF failover = "fencing" THEN "promote" ELSE failover
    /\ beatStuck' = (failover = "fencing")
    /\ UNCHANGED <<adapterVars, primaryVars, conn, toStandby, toPrimary, pending>>
    /\ UNCHANGED <<lastApplied, promoted, applied, faults>>

\* The answer to a heartbeat is given to s, whose call fails.
BeatTaken(s) ==
    /\ alive /\ conn /\ ~beatStuck
    /\ s \in pending
    /\ faults < MaxFaults
    /\ faults' = faults + 1
    /\ failover # "fencing"
    /\ pending' = pending \ {s}
    /\ beatStuck' = TRUE
    /\ healthy' = TRUE
    /\ UNCHANGED <<adapterVars, primaryVars, conn, toStandby, toPrimary>>
    /\ UNCHANGED <<lastApplied, failover, promoted, applied>>

\* The heartbeat caller is given another's answer, or the fence.
TakenByBeat ==
    /\ toPrimary # <<>>
    /\ faults < MaxFaults \/ beatStuck
    /\ faults' = IF beatStuck THEN faults ELSE faults + 1
    /\ toPrimary' = Tail(toPrimary)
    /\ beatStuck' = FALSE
    /\ UNCHANGED <<adapterVars, primaryVars, conn, toStandby, pending, standbyVars>>

-----------------------------------------------------------------------------
(* The standby *)

NothingRun == [last |-> lastApplied, ran |-> <<>>, failed |-> FALSE]

\* Entries up to lastApplied are passed over, an error ends the batch.
ApplyEntryAgain(seen, p) ==
    IF seen.failed \/ log[p] \in Failing THEN [seen EXCEPT !.failed = TRUE]
    ELSE [seen EXCEPT !.last = p, !.ran = Append(@, p)]
ApplyEntry(seen, p) ==
    IF p <= seen.last THEN seen
    ELSE IF seen.failed \/ log[p] \in Failing THEN [seen EXCEPT !.failed = TRUE]
    ELSE [seen EXCEPT !.last = p, !.ran = Append(@, p)]

ApplyBatch(entries) ==
    LET after[i \in 0..Len(entries)] ==
          IF i = 0 THEN NothingRun ELSE ApplyEntry(after[i - 1], entries[i])
    IN  after[Len(entries)]

\* HandleWALBatch: a primary refuses.  ApplyBatch answers the last position it
\* applied, 0 if it applied none.  No error is answered.
HandleWALBatch ==
    /\ toStandby # <<>> /\ Head(toStandby).kind = "batch"
    /\ failover # "fencing"
    /\ toStandby' = Tail(toStandby)
    /\ IF promoted
       THEN UNCHANGED <<lastApplied, applied, healthy, toPrimary>>
       ELSE LET r == ApplyBatch(Head(toStandby).entries)
                pos == IF r.ran = <<>> THEN 0 ELSE r.last
            IN  /\ healthy' = TRUE
                /\ lastApplied' = r.last
                /\ applied' = applied \o [i \in DOMAIN r.ran |-> log[r.ran[i]]]
                /\ toPrimary' = IF r.failed THEN toPrimary ELSE Append(toPrimary, Acked(pos))
    /\ UNCHANGED <<adapterVars, primaryVars, conn, pending, beatStuck, failover, promoted, faults>>

\* Whatever arrives while the fence call waits is its answer.
FenceAnswered ==
    /\ toStandby # <<>>
    /\ failover = "fencing" \/ Head(toStandby) = Fenced
    /\ toStandby' = Tail(toStandby)
    /\ failover' = IF failover = "fencing" THEN "promote" ELSE failover
    /\ UNCHANGED <<adapterVars, primaryVars, conn, toPrimary, pending, beatStuck>>
    /\ UNCHANGED <<lastApplied, healthy, promoted, applied, faults>>

\* FailoverTimeout has passed since the last sign of the primary: it is dead,
\* cut off, or its heartbeat waits for an answer that is not coming.  Only the
\* change from healthy starts a failover.
\* Hazard "slow": heartbeats that are on their way take as long.
CheckPrimaryHealth ==
    /\ "slow" \in Hazards \/ ~alive \/ ~conn \/ (beatStuck /\ InFlight = 0)
    /\ healthy
    /\ healthy' = FALSE
    /\ failover' = IF failover = "none" /\ ~promoted THEN "fence" ELSE failover
    /\ UNCHANGED <<adapterVars, primaryVars, netVars, lastApplied, promoted, applied, faults>>

\* One try, whose failure is ignored.
AfterFencingRetried == IF conn THEN "fencing" ELSE "fence"
AfterFencing == IF conn THEN "fencing" ELSE "promote"

FenceOldPrimary ==
    /\ failover = "fence"
    /\ failover' = AfterFencing
    /\ toPrimary' = IF conn THEN Append(toPrimary, Fence) ELSE toPrimary
    /\ UNCHANGED <<adapterVars, primaryVars, conn, toStandby, pending, beatStuck>>
    /\ UNCHANGED <<lastApplied, healthy, promoted, applied, faults>>

Promote ==
    /\ failover = "promote"
    /\ promoted' = TRUE
    /\ failover' = "none"
    /\ UNCHANGED <<adapterVars, primaryVars, netVars, lastApplied, healthy, applied, faults>>

-----------------------------------------------------------------------------
(* Connections and crashes *)

Connect ==
    /\ alive /\ ~conn
    /\ conn' = TRUE
    /\ healthy' = TRUE
    /\ UNCHANGED <<adapterVars, primaryVars, toStandby, toPrimary, pending, beatStuck>>
    /\ UNCHANGED <<lastApplied, failover, promoted, applied, faults>>

\* Everything on the connection is lost, every call on it fails.
CloseConnection ==
    /\ conn' = FALSE
    /\ toStandby' = <<>>
    /\ toPrimary' = <<>>
    /\ pending' = {}
    /\ beatStuck' = FALSE
    /\ failover' = IF failover = "fencing" THEN "promote" ELSE failover

Break ==
    /\ conn /\ faults < MaxFaults
    /\ faults' = faults + 1
    /\ CloseConnection
    /\ UNCHANGED <<adapterVars, primaryVars, lastApplied, healthy, promoted, applied>>

\* The reader's deadline: a call waits and nothing is under way.
OverdueFence == failover = "fencing"
Overdue == pending # {} \/ beatStuck \/ failover = "fencing"

ReadTimeout ==
    /\ conn /\ toPrimary = <<>> /\ toStandby = <<>>
    /\ Overdue
    /\ CloseConnection
    /\ UNCHANGED <<adapterVars, primaryVars, lastApplied, healthy, promoted, applied, faults>>

\* The log and both engines survive.
CrashPrimary ==
    /\ alive /\ faults < MaxFaults
    /\ alive' = FALSE
    /\ faults' = faults + 1
    /\ pc' = [c \in Client |-> IF pc[c] \in {"idle", "done"} THEN pc[c] ELSE "failed"]
    /\ target' = [c \in Client |-> 0]
    /\ queue' = <<>>
    /\ posCh' = [c \in Client |-> 0]
    /\ memWAL' = <<>>
    /\ unpublished' = <<>>
    /\ CloseConnection
    /\ UNCHANGED <<log, walPosition, isPrimary, lastAcked>>
    /\ UNCHANGED <<lastApplied, healthy, promoted, applied>>

\* The role is the configured one, whatever happened meanwhile, and nothing
\* is known to be acknowledged.
RestartPrimary ==
    /\ ~alive
    /\ alive' = TRUE
    /\ isPrimary' = TRUE
    /\ lastAcked' = 0
    /\ walPosition' = Len(log)
    /\ UNCHANGED <<pc, queue, log, posCh, memWAL, unpublished, target>>
    /\ UNCHANGED <<netVars, standbyVars, faults>>

\* The standby restarts in its configured role; lastApplied was in memory.
\* Hazard "forget": it has applied what it has not acknowledged, or the primary
\* has died or will die, and not remember the acknowledgement either.
RestartStandby ==
    /\ faults < MaxFaults
    /\ "forget" \in Hazards \/ (alive /\ lastApplied = lastAcked /\ faults = MaxFaults - 1)
    /\ faults' = faults + 1
    /\ lastApplied' = 0
    /\ healthy' = FALSE
    /\ conn' = FALSE
    /\ toStandby' = <<>>
    /\ toPrimary' = <<>>
    /\ pending' = {}
    /\ beatStuck' = FALSE
    /\ failover' = "none"
    /\ promoted' = FALSE
    /\ UNCHANGED <<adapterVars, primaryVars, applied>>

Next ==
    \/ \E c \in Client : Apply(c) \/ Adapter(c) \/ AwaitAck(c) \/ Acknowledged(c) \/ TimeOut(c)
    \/ Writer
    \/ \E s \in Sender : StreamPendingWAL(s) \/ Deliver(s)
    \/ Heartbeat \/ (\E s \in Sender : BeatTaken(s)) \/ TakenByBeat \/ HandleFence
    \/ HandleWALBatch \/ FenceAnswered
    \/ CheckPrimaryHealth \/ FenceOldPrimary \/ Promote
    \/ Connect \/ Break \/ ReadTimeout
    \/ CrashPrimary \/ RestartPrimary \/ RestartStandby

Spec == Init /\ [][Next]_vars

\* Every goroutine that can step does.  Which waiting caller gets a message is
\* Go's random choice among the keys of a map, so the streaming loop is not
\* passed over for ever.  No clock need run out while the primary lives, and
\* nobody need call, break the connection, crash or restart.
Fairness ==
    /\ \A c \in Client : WF_vars(Adapter(c)) /\ WF_vars(AwaitAck(c)) /\ WF_vars(Acknowledged(c) \/ TimeOut(c))
    /\ WF_vars(Writer)
    /\ WF_vars(StreamPendingWAL("loop")) /\ WF_vars(Heartbeat)
    /\ SF_vars(Deliver("loop"))
    /\ WF_vars(HandleFence)
    /\ WF_vars(HandleWALBatch)
    /\ WF_vars(FenceAnswered)
    /\ WF_vars(~alive /\ CheckPrimaryHealth) /\ WF_vars(FenceOldPrimary) /\ WF_vars(Promote)
    /\ WF_vars(Connect) /\ WF_vars(ReadTimeout)

FairSpec == Spec /\ Fairness

-----------------------------------------------------------------------------
(* Properties *)

\* Every variable stays in its range; messages travel in their own direction,
\* and no position exceeds the end of the log.
TypeOK ==
    /\ pc \in [Client -> {"idle", "queued", "direct", "applied", "failed",
                          "waiting", "done"}]
    /\ \A s \in {queue, log, applied} : Range(s) \subseteq Client
    /\ \A c \in Client : posCh[c] \in 0..Len(log) /\ target[c] \in 0..Len(log)
    /\ Range(memWAL) \cup Range(unpublished) \subseteq 1..Len(log)
    /\ walPosition \in 0..Len(log) /\ lastAcked \in 0..Len(log) /\ lastApplied \in 0..Len(log)
    /\ pending \subseteq Sender
    /\ \A m \in Range(toStandby) : m = Fenced \/ Range(m.entries) \subseteq 1..Len(log)
    /\ \A m \in Range(toPrimary) : m = Fence \/ m.pos \in 0..Len(log)
    /\ {isPrimary, alive, conn, beatStuck, healthy, promoted} \subseteq BOOLEAN
    /\ failover \in {"none", "fence", "fencing", "promote"}

\* A quorum call about to return that waited for its own record finds it on the
\* standby, however batches and answers were lost, repeated or given to the
\* wrong caller: acknowledgements never run ahead of the standby or over a gap.
QuorumWriteApplied ==
    \A c \in Client :
        pc[c] = "waiting" /\ Enough(c) /\ (\E i \in 1..target[c] : log[i] = c)
            => c \in Range(applied)

\* What the manual says of quorum mode: an acknowledged write is on the standby.
QuorumMeansApplied ==
    \A c \in Client : Quorum /\ pc[c] = "done" => c \in Range(applied)

\* The standby applies the commands of the primary's log, in its order, none
\* twice and none skipped, through resent batches, faults, failover.
R == INSTANCE ReplicatedLog WITH
        Replica <- {"primary", "standby"}, Command <- Client,
        applied <- [r \in {"primary", "standby"} |-> IF r = "primary" THEN log ELSE applied]
Replicates == R!Spec

\* While the primary lives and the standby is not promoted, what is in the log
\* reaches the standby, whatever was lost before.
LoggedReachesStandby ==
    <>[](alive /\ ~promoted) =>
        \A i \in Position : (Len(log) >= i) ~> (Len(applied) >= i)

\* A standby that has seen the primary healthy takes over when it dies, though
\* the fence call has no deadline of its own.
FailoverHappens == (~alive /\ healthy) ~> (promoted \/ alive)
=============================================================================
