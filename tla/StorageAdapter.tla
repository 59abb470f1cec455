--------------------------- MODULE StorageAdapter ---------------------------
(***************************************************************************)
(* The storage of a replicated node (pkg/replication/storage_adapter.go):  *)
(* it runs a command on the engine while a goroutine of its own writes the *)
(* command to the replication log, and it keeps the unacknowledged end of  *)
(* that log in memory for streaming.                                       *)
(*                                                                         *)
(* A client makes one call, and stands for its command.  pc says how far   *)
(* the call is:                                                            *)
(*   "queued"    its record is queued for the writer                       *)
(*   "direct"    the queue was full, it wrote the record itself            *)
(*   "applied"   ApplyCommand has returned without an error                *)
(*   "failed"    ApplyCommand has returned the engine's error              *)
(* The states after "applied" belong to the caller.  A position is the     *)
(* index of a record in the log; an entry in memory is its position.       *)
(***************************************************************************)
EXTENDS Naturals, Sequences, FiniteSets, SequencesExt

CONSTANTS
    Client,        \* calls, each with the one command it applies
    Failing,       \* the commands the engine refuses
    QueueSize,     \* capacity of walQueue
    Hazards        \* which of the situations named at their guards may happen

ASSUME AdapterAssumption ==
    /\ Failing \subseteq Client
    /\ QueueSize \in Nat \ {0}

VARIABLES
    pc,            \* per client: how far its call is
    queue,         \* walQueue and walBatch: commands the writer has yet to log
    log,           \* the replication log, readable as soon as it is appended
    posCh,         \* per client: the position it can read from its request, or 0
    walPosition,   \* a.walPosition
    memWAL,        \* the end of the log in memory
    unpublished    \* positions flushWALBatch has logged and not yet put in memWAL

adapterVars == <<pc, queue, log, posCh, walPosition, memWAL, unpublished>>

Position == 0..Cardinality(Client)

AdapterInit ==
    /\ pc = [c \in Client |-> "idle"]
    /\ queue = <<>>
    /\ log = <<>>
    /\ posCh = [c \in Client |-> 0]
    /\ walPosition = 0
    /\ memWAL = <<>>
    /\ unpublished = <<>>

-----------------------------------------------------------------------------
(* ApplyCommand *)

\* The record goes to the queue.
Enqueue(c) ==
    /\ pc[c] = "idle"
    /\ pc' = [pc EXCEPT ![c] = "queued"]
    /\ queue' = Append(queue, c)
    /\ UNCHANGED <<log, posCh, walPosition, memWAL, unpublished>>

\* The queue is full, and the caller appends the record under walMu, ahead of
\* those that wait.  posCh keeps its position until it is put in memory.
AppendDirectly(c) ==
    /\ pc[c] = "idle"
    /\ Len(queue) >= QueueSize
    /\ pc' = [pc EXCEPT ![c] = "direct"]
    /\ log' = Append(log, c)
    /\ posCh' = [posCh EXCEPT ![c] = Len(log')]
    /\ walPosition' = Len(log')
    /\ UNCHANGED <<queue, memWAL, unpublished>>

\* Positions that are in the log and on their way into memory for the first time.
Owed == Range(unpublished) \cup {posCh[c] : c \in {d \in Client : pc[d] = "direct"}}

\* Entry p comes into memory neither after a later entry nor ahead of an earlier one.
InTurn(p) ==
    /\ \A i \in DOMAIN memWAL : memWAL[i] <= p
    /\ \A q \in Owed : p <= q

\* The engine runs the command, whether or not its record is in the log.  Then
\* the client reads its position if the writer has posted it, stores it as the
\* WAL position and puts the entry in memory a second time.
\* Hazard "late": an entry comes into memory out of turn.
Execute(c) ==
    /\ pc[c] \in {"queued", "direct"}
    /\ \/ "late" \in Hazards
       \/ posCh[c] = 0
       \/ InTurn(posCh[c])
    /\ pc' = [pc EXCEPT ![c] = IF c \in Failing THEN "failed" ELSE "applied"]
    /\ walPosition' = IF pc[c] = "queued" /\ posCh[c] > 0 THEN posCh[c] ELSE walPosition
    /\ memWAL' = IF posCh[c] > 0 THEN Append(memWAL, posCh[c]) ELSE memWAL
    /\ posCh' = [posCh EXCEPT ![c] = 0]
    /\ UNCHANGED <<queue, log, unpublished>>

-----------------------------------------------------------------------------
(* The writer goroutine: it flushes what it has taken from the queue *)

\* Appends n records under walMu and posts their positions; a client that has
\* stopped looking never reads its own.
WriteBatch(n) ==
    /\ unpublished = <<>>
    /\ LET batch == SubSeq(queue, 1, n)
           PositionOf(c) == Len(log) + CHOOSE i \in 1..n : batch[i] = c
       IN  /\ log' = log \o batch
           /\ posCh' = [c \in Client |->
                          IF c \in Range(batch) /\ pc[c] = "queued"
                          THEN PositionOf(c) ELSE posCh[c]]
           /\ unpublished' = [i \in 1..n |-> Len(log) + i]
    /\ queue' = SubSeq(queue, n + 1, Len(queue))
    /\ walPosition' = Len(log')
    /\ UNCHANGED <<pc, memWAL>>

PublishBatch ==
    /\ unpublished # <<>>
    /\ "late" \in Hazards \/ InTurn(Head(unpublished))
    /\ memWAL' = memWAL \o unpublished
    /\ unpublished' = <<>>
    /\ UNCHANGED <<pc, queue, log, posCh, walPosition>>

WriterStep == PublishBatch \/ \E n \in 1..Len(queue) : WriteBatch(n)

-----------------------------------------------------------------------------
(* The end of the log in memory *)

\* Both readers look for the first entry above a position by bisection of the
\* window w, which takes memWAL to be in order.  The result counts the entries
\* passed over.
Window(mem) == (0..Len(mem)) \X (0..Len(mem))
Middle(w) == (w[1] + w[2]) \div 2

FirstAbove(mem, pos) ==
    LET bisect[w \in Window(mem)] ==
          IF w[1] >= w[2] THEN w[1]
          ELSE IF mem[Middle(w) + 1] <= pos THEN bisect[<<Middle(w) + 1, w[2]>>]
          ELSE bisect[<<w[1], Middle(w)>>]
    IN  bisect[<<0, Len(mem)>>]

Least(a, b) == IF a < b THEN a ELSE b

\* From memory if it reaches back to the position, else from the log.
ReadLogPastEnd(from, maxEntries) == [i \in 1..maxEntries |-> from + i]
ReadLog(from, maxEntries) == [i \in 1..Least(maxEntries, Len(log) - from) |-> from + i]

GetWALEntries(from, maxEntries) ==
    IF memWAL # <<>> /\ from >= memWAL[1]
    THEN LET lo == FirstAbove(memWAL, from)
         IN  SubSeq(memWAL, lo + 1, Least(lo + maxEntries, Len(memWAL)))
    ELSE ReadLog(from, maxEntries)

PruneWALEntries(upto) == SubSeq(memWAL, FirstAbove(memWAL, upto) + 1, Len(memWAL))
=============================================================================
