-------------------------------- MODULE MVCC --------------------------------
(***************************************************************************)
(* Transactions of the Badger engine (pkg/storage/badger_transaction.go,   *)
(* badger_mvcc.go).  A transaction reads from a pinned physical snapshot   *)
(* at a logical sequence, buffers its writes and keeps a list of           *)
(* operations.  Commit validates them against the current heads, reserves  *)
(* the next sequence, and only then commits the Badger transaction, which  *)
(* fails if a key it has read was written since it began.  Superseded      *)
(* contents are archived by version, for reads of the past.                *)
(*                                                                         *)
(* A version is its commit sequence; one namespace; history is retained,   *)
(* and what prunes it is module Lifecycle.                                 *)
(* A transaction writes its own name as content.  The keys of one entity   *)
(* (body, head, index entries) are written together and are one key here;  *)
(* the counter of the one label, which the nodes in Labelled carry, is a   *)
(* key of its own.                                                         *)
(***************************************************************************)
EXTENDS Integers, Sequences, FiniteSets

CONSTANTS
    Tx,
    Node, Edge,
    Ends,          \* Ends[e]: the nodes of edge e
    Labelled,      \* nodes with a label
    LabelCount,    \* the key of the label's counter
    Old,           \* content of what is there from the beginning
    None,          \* no content
    MaxOps,        \* bound: operations of all transactions
    MaxCrashes,    \* bound: crashes of the process
    Hazards        \* which of the situations named at their guards may happen

Entity == Node \cup Edge
Content == Tx \cup {Old}

ASSUME MVCCAssumption ==
    /\ Node \cap Edge = {}
    /\ Ends \in [Edge -> SUBSET Node]
    /\ Labelled \subseteq Node /\ IsFiniteSet(Labelled)
    /\ LabelCount \notin Entity
    /\ None \notin Content
    /\ MaxOps \in Nat /\ MaxCrashes \in Nat

VARIABLES
    commits,       \* physical commits: the store each left; the keys written
                   \* and, if nothing but heads was written, those of the heads
    sequence,      \* namespaceMVCCState.seq
    persisted,     \* the sequence on disk
    pc,            \* where a transaction is
    snap,          \* snapshotTx: the commit it is pinned to
    readSeq,       \* readTS
    base,          \* badgerTx: the commit it began at
    reads,         \* its read set
    pending,       \* pendingNodes, pendingEdges
    deleted,       \* deletedNodes, deletedEdges
    ops,           \* operations
    archived,      \* contents DeleteNode has put into badgerTx
    count,         \* change of the label's counter
    version,       \* CommitVersion
    floors,        \* the floors of the heads when it was given
    done,          \* operations so far
    crashes

beginVars == <<snap, readSeq, base>>
bufferVars == <<reads, pending, deleted, ops, archived, count>>
commitVars == <<version, floors>>
vars == <<commits, sequence, persisted, pc, beginVars, bufferVars, commitVars, done, crashes>>

NoHead == [seq |-> 0, tomb |-> FALSE, floor |-> 0]
HeadRecord(seq, tomb, floor) == [seq |-> seq, tomb |-> tomb, floor |-> floor]

Latest == commits[Len(commits)]
Store == Latest.db

Nothing == [k \in Entity |-> None]
NoFloors == [k \in Entity |-> 0]

Live(db, k) == db.body[k] # None
Incident(n) == {e \in Edge : n \in Ends[e]}

-----------------------------------------------------------------------------
(* Reads *)

MaxOf(S) == CHOOSE x \in S : \A y \in S : y <= x

\* loadNodeMVCCRecordAtOrBeforeInTxn.
AtOrBefore(records, v) ==
    LET upTo == {r \in records : r.seq <= v}
    IN  IF upTo = {} THEN None
        ELSE (CHOOSE r \in upTo : \A s \in upTo : s.seq <= r.seq).val

\* getNodeVisibleAtWithView, getEdgeVisibleAtInTxn.
VisibleAt(db, k, v) ==
    LET h == db.head[k]
    IN  CASE h = NoHead -> db.body[k]
          [] h # NoHead /\ v < h.floor -> None
          [] h # NoHead /\ v >= h.floor /\ v >= h.seq ->
                IF h.tomb THEN None
                ELSE IF Live(db, k) THEN db.body[k] ELSE AtOrBefore(db.ver[k], h.seq)
          [] h # NoHead /\ v = h.floor /\ v < h.seq ->
                AtOrBefore({x \in db.ver[k] : x.seq = v}, v)
          [] OTHER -> AtOrBefore(db.ver[k], v)

\* getCommittedNodeLocked, getCommittedEdgeLocked: a node that is not found,
\* unless its floor hides it, is looked up without its head.
Committed(t, k) ==
    LET db == commits[snap[t]].db
        found == VisibleAt(db, k, readSeq[t])
    IN  IF found = None /\ k \in Node /\ readSeq[t] >= db.head[k].floor THEN db.body[k] ELSE found

\* nodeExists.
Exists(t, n) == n \notin deleted[t] /\ (n \in pending[t] \/ Committed(t, n) # None)

-----------------------------------------------------------------------------
(* Begin *)

BeginSnapshot(t) ==
    /\ pc[t] = "none"
    /\ pc' = [pc EXCEPT ![t] = "pinned"]
    /\ snap' = [snap EXCEPT ![t] = Len(commits)]
    /\ UNCHANGED <<commits, sequence, persisted, readSeq, base, bufferVars, commitVars, done, crashes>>

\* snapshotNamespaceVersions.
BeginSequence(t) ==
    /\ pc[t] = "pinned"
    /\ pc' = [pc EXCEPT ![t] = "numbered"]
    /\ readSeq' = [readSeq EXCEPT ![t] = sequence]
    /\ UNCHANGED <<commits, sequence, persisted, snap, base, bufferVars, commitVars, done, crashes>>

\* Changed: the commit it begins at is one that has not happened yet.
BeginWriterAhead(t) ==
    /\ pc[t] = "numbered"
    /\ pc' = [pc EXCEPT ![t] = "active"]
    /\ base' = [base EXCEPT ![t] = Len(commits) + 1]
    /\ UNCHANGED <<commits, sequence, persisted, snap, readSeq, bufferVars, commitVars, done, crashes>>

BeginWriter(t) ==
    /\ pc[t] = "numbered"
    /\ pc' = [pc EXCEPT ![t] = "active"]
    /\ base' = [base EXCEPT ![t] = Len(commits)]
    /\ UNCHANGED <<commits, sequence, persisted, snap, readSeq, bufferVars, commitVars, done, crashes>>

\* Changed: the sequence is read before the snapshot is pinned.
BeginSequenceFirst(t) ==
    \/ /\ pc[t] = "none"
       /\ pc' = [pc EXCEPT ![t] = "numbered"]
       /\ readSeq' = [readSeq EXCEPT ![t] = sequence]
       /\ UNCHANGED <<commits, sequence, persisted, snap, base, bufferVars, commitVars, done, crashes>>
    \/ /\ pc[t] = "numbered"
       /\ pc' = [pc EXCEPT ![t] = "active"]
       /\ snap' = [snap EXCEPT ![t] = Len(commits)]
       /\ base' = [base EXCEPT ![t] = Len(commits)]
       /\ UNCHANGED <<commits, sequence, persisted, readSeq, bufferVars, commitVars, done, crashes>>

BeginTransaction(t) == BeginSnapshot(t) \/ BeginSequence(t) \/ BeginWriter(t)

-----------------------------------------------------------------------------
(* Operations.  One that returns an error buffers nothing. *)

Op(kind, k, old, gone) == [kind |-> kind, key |-> k, old |-> old, gone |-> gone]

Touches(op) == {op.key} \cup op.gone

\* The entities a transaction has deleted with a node of theirs.
Cascaded(t) == UNION {ops[t][i].gone : i \in DOMAIN ops[t]}

\* t runs an operation that reads keys in its Badger transaction.
Enrol(t, keys) ==
    /\ pc[t] = "active"
    /\ done < MaxOps
    /\ done' = done + 1
    /\ reads' = [reads EXCEPT ![t] = @ \cup keys]
    /\ UNCHANGED <<commits, sequence, persisted, pc, beginVars, commitVars, crashes>>

Log(t, op) == ops' = [ops EXCEPT ![t] = Append(@, op)]

\* Changed: the counter is not read in the Badger transaction.
CountKeysUnread(n) == {}

CountKeys(n) == {LabelCount : x \in {n} \cap Labelled}

\* bufferAdjustLabelCount.
Counted(t, n, delta) ==
    IF n \in Labelled THEN [count EXCEPT ![t] = @ + delta] ELSE count

\* Hazard "recreate": in the transaction that deleted it.
CreateNode(t, n) ==
    /\ n \notin pending[t]
    /\ n \in deleted[t] \/ Committed(t, n) = None
    /\ "recreate" \in Hazards \/ n \notin deleted[t]
    /\ Enrol(t, CountKeys(n))
    /\ pending' = [pending EXCEPT ![t] = @ \cup {n}]
    /\ deleted' = [deleted EXCEPT ![t] = @ \ {n}]
    /\ Log(t, Op("create", n, None, {}))
    /\ count' = Counted(t, n, 1)
    /\ UNCHANGED archived

\* An update of a node created here changes that operation.
\* Hazard "afterdelete": deletedNodes is not looked at.
UpdateNode(t, n) ==
    LET created == \E i \in DOMAIN ops[t] :
            /\ ops[t][i].kind = "create" /\ ops[t][i].key = n
            /\ \A j \in i + 1 .. Len(ops[t]) : n \in Touches(ops[t][j]) => ops[t][j].kind # "delete"
    IN  /\ n \in pending[t] \/ Committed(t, n) # None
        /\ ~(n \in pending[t] /\ created)
        /\ "afterdelete" \in Hazards \/ n \notin deleted[t]
        /\ Enrol(t, {n} \ pending[t])
        /\ pending' = [pending EXCEPT ![t] = @ \cup {n}]
        /\ Log(t, Op("update", n, IF n \in pending[t] THEN t ELSE Committed(t, n), {}))
        /\ UNCHANGED <<deleted, archived, count>>

\* deleteNodeBuffered: the edges, the head and the contents to archive are
\* those of the Badger transaction, where buffered writes are not.
\* Hazard "archive": what is archived is the update of this transaction.
\* Hazard "detach": an edge created here is not among the edges deleted.
DeleteNode(t, n) ==
    LET db == commits[base[t]].db
        old == IF n \in pending[t] THEN t ELSE Committed(t, n)
        gone == {e \in Incident(n) : Live(db, e)}
        first == {k \in {n} \cup gone : Live(db, k) /\ archived[t][k] = None}
    IN  /\ old # None
        /\ "afterdelete" \in Hazards \/ n \notin deleted[t]
        /\ "archive" \in Hazards \/ ~(n \in pending[t] /\ Live(db, n))
        /\ "detach" \in Hazards \/ Incident(n) \cap pending[t] \subseteq gone
        /\ n \in Labelled => db.count + count[t] > 0
        /\ Enrol(t, {n} \cup gone \cup CountKeys(n))
        /\ pending' = [pending EXCEPT ![t] = @ \ {n}]
        /\ deleted' = [deleted EXCEPT ![t] = @ \cup {n}]
        /\ Log(t, Op("delete", n, old, gone))
        /\ archived' = [archived EXCEPT ![t] =
                [k \in Entity |-> IF k \notin first THEN @[k]
                                  ELSE IF k = n THEN old ELSE db.body[k]]]
        /\ count' = Counted(t, n, -1)

\* CreateEdge, and BulkCreateEdges for each of its edges.
\* Hazard "upsert": an edge of that identity is there, and is overwritten.
CreateEdge(t, e) ==
    /\ \A n \in Ends[e] : Exists(t, n)
    /\ e \notin pending[t]
    /\ "upsert" \in Hazards \/ e \in deleted[t] \/ Committed(t, e) = None
    /\ "recreate" \in Hazards \/ e \notin deleted[t] \cup Cascaded(t)
    /\ Enrol(t, {})
    /\ pending' = [pending EXCEPT ![t] = @ \cup {e}]
    /\ Log(t, Op("create", e, None, {}))
    /\ UNCHANGED <<deleted, archived, count>>

\* Hazard "afterdelete": an edge that went with its node is not in deletedEdges.
UpdateEdge(t, e) ==
    /\ e \notin deleted[t]
    /\ e \in pending[t] \/ Committed(t, e) # None
    /\ "afterdelete" \in Hazards \/ e \notin Cascaded(t)
    /\ Enrol(t, {e} \ pending[t])
    /\ pending' = [pending EXCEPT ![t] = @ \cup {e}]
    /\ Log(t, Op("update", e, IF e \in pending[t] THEN t ELSE Committed(t, e), {}))
    /\ UNCHANGED <<deleted, archived, count>>

DeleteEdge(t, e) ==
    /\ e \in pending[t] \/ Committed(t, e) # None
    /\ Enrol(t, {})
    /\ pending' = [pending EXCEPT ![t] = @ \ {e}]
    /\ deleted' = [deleted EXCEPT ![t] = @ \cup {e}]
    /\ Log(t, Op("delete", e, IF e \in pending[t] THEN t ELSE Committed(t, e), {}))
    /\ UNCHANGED <<archived, count>>

Operate(t) ==
    \/ \E n \in Node : CreateNode(t, n) \/ UpdateNode(t, n) \/ DeleteNode(t, n)
    \/ \E e \in Edge : CreateEdge(t, e) \/ UpdateEdge(t, e) \/ DeleteEdge(t, e)

-----------------------------------------------------------------------------
(* Commit *)

\* Changed: by sequence alone.
HeadConflictBySequence(t, k) == Store.head[k].seq > readSeq[t]

\* snapshotHeadConflict: by sequence or by physical version.
HeadConflict(t, k) ==
    \/ Store.head[k].seq > readSeq[t]
    \/ \E i \in snap[t] + 1 .. Len(commits) : k \in commits[i].keys \cup commits[i].heads

\* Changed: no checkNodeAdjacencyConflict.
AdmissibleNoAdjacency(t, op) ==
    /\ ~HeadConflict(t, op.key)
    /\ op.kind # "delete" /\ op.key \in Edge
         => \A n \in Ends[op.key] : n \in pending[t] \/ Live(Store, n)

\* validateSnapshotIsolationConflicts, of one operation.
\* checkNodeAdjacencyConflict is about the edges there are now,
\* checkEdgeEndpointConflicts about the endpoints as they are now.
Admissible(t, op) ==
    /\ ~HeadConflict(t, op.key)
    /\ op.kind = "delete" /\ op.key \in Node
         => \A e \in Incident(op.key) : Live(Store, e) => ~HeadConflict(t, e)
    /\ op.kind # "delete" /\ op.key \in Edge
         => \A n \in Ends[op.key] : n \in pending[t] \/ Live(Store, n)

Valid(t) == \A i \in DOMAIN ops[t] : Admissible(t, ops[t][i])

Touched(t) == UNION {Touches(ops[t][i]) : i \in DOMAIN ops[t]}

\* The last operation of t on k.
LastOp(t, k) == ops[t][MaxOf({i \in DOMAIN ops[t] : k \in Touches(ops[t][i])})]

Deletes(t) == {k \in Touched(t) : LastOp(t, k).kind = "delete"}
Created(t) == {ops[t][i].key : i \in {j \in DOMAIN ops[t] : ops[t][j].kind = "create"}}

\* One of them attaches an edge to a node the other deletes.
Skewed(t, u) ==
    \/ \E e \in Edge \cap Created(t) : Ends[e] \cap Deletes(u) # {}
    \/ \E e \in Edge \cap Created(u) : Ends[e] \cap Deletes(t) # {}

\* What t creates, and the edges it deletes, it has not read.
Blind(t) == {k \in Touched(t) : \E i \in DOMAIN ops[t] :
                /\ ops[t][i].key = k
                /\ ops[t][i].kind = "create" \/ (ops[t][i].kind = "delete" /\ k \in Edge)
                /\ \A j \in 1 .. i - 1 : ops[t][j].key # k}

\* closeLocked, of every transaction in S.
Close(S) ==
    /\ snap' = [t \in Tx |-> IF t \in S THEN 1 ELSE snap[t]]
    /\ base' = [t \in Tx |-> IF t \in S THEN 1 ELSE base[t]]
    /\ readSeq' = [t \in Tx |-> IF t \in S THEN 0 ELSE readSeq[t]]
    /\ version' = [t \in Tx |-> IF t \in S THEN 0 ELSE version[t]]
    /\ floors' = [t \in Tx |-> IF t \in S THEN NoFloors ELSE floors[t]]
    /\ reads' = [t \in Tx |-> IF t \in S THEN {} ELSE reads[t]]
    /\ pending' = [t \in Tx |-> IF t \in S THEN {} ELSE pending[t]]
    /\ deleted' = [t \in Tx |-> IF t \in S THEN {} ELSE deleted[t]]
    /\ ops' = [t \in Tx |-> IF t \in S THEN <<>> ELSE ops[t]]
    /\ archived' = [t \in Tx |-> IF t \in S THEN Nothing ELSE archived[t]]
    /\ count' = [t \in Tx |-> IF t \in S THEN 0 ELSE count[t]]

Quit(t) == pc' = [pc EXCEPT ![t] = "closed"] /\ Close({t})

\* Commit up to allocateMVCCVersion.
\* Hazards of two transactions between validation and publication: "skew", an
\* edge and its node, and "blind", one entity that not both have read.
Prepare(t) ==
    /\ pc[t] = "active"
    /\ ops[t] # <<>>
    /\ IF Valid(t)
       THEN /\ \A u \in Tx \ {t} : pc[u] = "prepared" =>
                   /\ "skew" \in Hazards \/ ~Skewed(t, u)
                   /\ "blind" \in Hazards \/ Touched(t) \cap Touched(u) \cap (Blind(t) \cup Blind(u)) = {}
            /\ pc' = [pc EXCEPT ![t] = "prepared"]
            /\ sequence' = sequence + 1
            /\ version' = [version EXCEPT ![t] = sequence + 1]
            /\ floors' = [floors EXCEPT ![t] =
                    [k \in Entity |-> IF k \in Touched(t) THEN Store.head[k].floor ELSE 0]]
            /\ UNCHANGED <<beginVars, bufferVars>>
       ELSE Quit(t) /\ UNCHANGED sequence
    /\ UNCHANGED <<commits, persisted, done, crashes>>

\* The content t archives for k, at the version of the head it supersedes:
\* what DeleteNode has put there, else that of the first operation.
Superseded(t, k) ==
    LET own == {i \in DOMAIN ops[t] : ops[t][i].key = k /\ ops[t][i].kind # "create"}
    IN  IF archived[t][k] # None THEN archived[t][k]
        ELSE IF own = {} THEN None
        ELSE ops[t][CHOOSE i \in own : \A j \in own : i <= j].old

\* materializeMVCCCommitInTxn: version records of k.
Records(t, k) ==
    LET h == Store.head[k]
        known == \E r \in Store.ver[k] : r.seq = h.seq
        tombstone == \E i \in DOMAIN ops[t] : ops[t][i].kind = "delete" /\ k \in Touches(ops[t][i])
    IN  Store.ver[k]
          \cup {[seq |-> h.seq, val |-> x] :
                  x \in {y \in {Superseded(t, k)} : y # None /\ h # NoHead /\ ~h.tomb /\ ~known}}
          \cup {[seq |-> version[t], val |-> x] : x \in {y \in {None} : tombstone}}

\* Changed: the floor is the new version.
NewHeadFloorMoves(t, k, early) == HeadRecord(version[t], k \in Deletes(t), version[t])

\* writeNodeMVCCHeadInTxn: the floor is that of the head there was, read
\* outside the Badger transaction and as early as Prepare.
NewHead(t, k, early) ==
    HeadRecord(version[t], k \in Deletes(t),
         IF Store.head[k] = NoHead THEN version[t]
         ELSE IF early THEN floors[t][k] ELSE Store.head[k].floor)

\* t has buffered a new value of the label's counter.
Recounts(t) == \E i \in DOMAIN ops[t] : ops[t][i].key \in Labelled /\ ops[t][i].kind # "update"

\* What the Badger transaction publishes: materialised versions, then
\* flushBufferedWrites.
Published(t, early) ==
    [body |-> [k \in Entity |-> IF k \notin Touched(t) THEN Store.body[k]
                                ELSE IF k \in Deletes(t) THEN None ELSE t],
     head |-> [k \in Entity |-> IF k \in Touched(t) THEN NewHead(t, k, early) ELSE Store.head[k]],
     ver |-> [k \in Entity |-> IF k \in Touched(t) THEN Records(t, k) ELSE Store.ver[k]],
     count |-> IF Recounts(t) THEN commits[base[t]].db.count + count[t] ELSE Store.count]

Written(t) == Touched(t) \cup {k \in {LabelCount} : Recounts(t)}

\* Only DeleteNode reads heads in the Badger transaction.
HeadReads(t) == UNION {Touches(op) : op \in {ops[t][i] : i \in
                    {j \in DOMAIN ops[t] : ops[t][j].kind = "delete" /\ ops[t][j].key \in Node}}}

\* External: the conflict check of Badger.
Stale(t) == \E i \in base[t] + 1 .. Len(commits) :
    commits[i].keys \cap reads[t] # {} \/ commits[i].heads \cap HeadReads(t) # {}

\* materializeMVCCCommitInTxn, flushBufferedWrites, badgerTx.Commit.  The head
\* materialised from is that of the commit: one that has changed in between
\* is either in the read set or excluded with "blind".
Publish(t) ==
    /\ pc[t] = "prepared"
    /\ IF Stale(t)
       THEN Quit(t) /\ UNCHANGED commits
       ELSE /\ pc' = [pc EXCEPT ![t] = "published"]
            /\ \E early \in BOOLEAN :
                 commits' = Append(commits, [db |-> Published(t, early), keys |-> Written(t),
                                heads |-> {}, seq |-> version[t], snap |-> snap[t]])
            /\ UNCHANGED <<beginVars, bufferVars, commitVars>>
    /\ UNCHANGED <<sequence, persisted, done, crashes>>

\* persistMVCCSequence: the sequence is read at some point since the commit.
\* Hazard "late": another transaction has read later and written earlier.
PersistSequence(t) ==
    /\ pc[t] = "published"
    /\ pc' = [pc EXCEPT ![t] = "closed"]
    /\ \E s \in version[t] .. sequence :
         /\ "late" \in Hazards \/ s >= persisted
         /\ persisted' = s
    /\ Close({t})
    /\ UNCHANGED <<commits, sequence, done, crashes>>

\* Rollback, and a Commit with nothing to write.
Rollback(t) ==
    /\ pc[t] = "active"
    /\ Quit(t)
    /\ UNCHANGED <<commits, sequence, persisted, done, crashes>>

\* Changed: nothing is recovered from the heads.
RecoveredNothing == 0

\* recoverNamespaceMVCCFloor: the heads of entities that have a body.
RecoveredFloor == MaxOf({0} \cup {Store.head[k].seq : k \in {x \in Entity : Live(Store, x)}})

\* The process dies and opens the store again (namespaceMVCC).
\* Hazard "crash": before the sequence of a delete is on disk.
Crash ==
    LET starting == MaxOf({persisted, RecoveredFloor})
    IN  /\ crashes < MaxCrashes
        /\ "crash" \in Hazards \/ \A t \in Tx : pc[t] = "published" => Deletes(t) = {}
        /\ crashes' = crashes + 1
        /\ sequence' = starting
        /\ persisted' = starting
        /\ pc' = [t \in Tx |-> IF pc[t] = "none" THEN "none" ELSE "closed"]
        /\ Close(Tx)
        /\ UNCHANGED <<commits, done>>

-----------------------------------------------------------------------------
(* Specification *)

\* Something is stored, under sequence 1, edges with their nodes.
Init ==
    /\ \E S \in SUBSET Entity :
         /\ \A e \in Edge \cap S : Ends[e] \subseteq S
         /\ commits = << [db |-> [body |-> [k \in Entity |-> IF k \in S THEN Old ELSE None],
                                  head |-> [k \in Entity |-> IF k \in S THEN HeadRecord(1, FALSE, 1) ELSE NoHead],
                                  ver |-> [k \in Entity |-> {}],
                                  count |-> Cardinality(S \cap Labelled)],
                          keys |-> Entity, heads |-> {}, seq |-> 1, snap |-> 0] >>
    /\ sequence = 1 /\ persisted = 1
    /\ pc = [t \in Tx |-> "none"]
    /\ snap = [t \in Tx |-> 1] /\ base = [t \in Tx |-> 1]
    /\ readSeq = [t \in Tx |-> 0] /\ version = [t \in Tx |-> 0]
    /\ floors = [t \in Tx |-> NoFloors]
    /\ reads = [t \in Tx |-> {}]
    /\ pending = [t \in Tx |-> {}] /\ deleted = [t \in Tx |-> {}]
    /\ ops = [t \in Tx |-> <<>>]
    /\ archived = [t \in Tx |-> Nothing]
    /\ count = [t \in Tx |-> 0]
    /\ done = 0 /\ crashes = 0

Next ==
    \/ \E t \in Tx : BeginTransaction(t) \/ Operate(t) \/ Prepare(t) \/ Publish(t)
                       \/ PersistSequence(t) \/ Rollback(t)
    \/ Crash

Spec == Init /\ [][Next]_vars

-----------------------------------------------------------------------------
(* Properties *)

OpType == [kind : {"create", "update", "delete"}, key : Entity,
           old : Content \cup {None}, gone : SUBSET Edge]

\* Type invariant.
TypeOK ==
    /\ \A i \in DOMAIN commits :
         /\ commits[i].db.body \in [Entity -> Content \cup {None}]
         /\ commits[i].db.count \in Nat
         /\ commits[i].keys \subseteq Entity \cup {LabelCount} /\ commits[i].heads \subseteq Entity
         /\ commits[i].seq \in Nat /\ commits[i].snap \in 0 .. i - 1
    /\ sequence \in Nat /\ persisted \in Nat
    /\ pc \in [Tx -> {"none", "pinned", "numbered", "active", "prepared", "published", "closed"}]
    /\ snap \in [Tx -> 1 .. Len(commits)] /\ base \in [Tx -> 1 .. Len(commits)]
    /\ readSeq \in [Tx -> Nat] /\ version \in [Tx -> Nat]
    /\ floors \in [Tx -> [Entity -> Nat]]
    /\ reads \in [Tx -> SUBSET (Entity \cup {LabelCount})]
    /\ pending \in [Tx -> SUBSET Entity] /\ deleted \in [Tx -> SUBSET Entity]
    /\ \A t \in Tx : \A i \in DOMAIN ops[t] : ops[t][i] \in OpType
    /\ archived \in [Tx -> [Entity -> Content \cup {None}]]
    /\ count \in [Tx -> Int]
    /\ done \in 0 .. MaxOps /\ crashes \in 0 .. MaxCrashes

\* First committer wins (validateSnapshotIsolationConflicts together with the
\* read set of the Badger transaction): no commit changes a node or an edge
\* that another one changed since its snapshot was taken.
FirstCommitterWins ==
    \A i \in DOMAIN commits : \A j \in commits[i].snap + 1 .. i - 1 :
        commits[i].keys \cap commits[j].keys \cap Entity = {}

\* Every edge stored has its nodes, whatever transactions deleted
\* (checkNodeAdjacencyConflict, checkEdgeEndpointConflicts, the cascade of
\* DeleteNode).
NoDanglingEdge ==
    \A e \in Edge : Live(Store, e) => \A n \in Ends[e] : Live(Store, n)

\* A transaction sees its physical snapshot whole: the sequence it reads at,
\* taken a step later (BeginTransaction), hides none of it.
SnapshotIsWhole ==
    \A t \in Tx : pc[t] = "active" =>
        \A k \in Entity : Committed(t, k) = commits[snap[t]].db.body[k]

\* The sequence is never behind a head, also after a restart
\* (recoverNamespaceMVCCFloor): what is committed next is newer.
SequenceAboveHeads == \A k \in Entity : Store.head[k].seq <= sequence

\* The counter of a label counts the nodes that carry it
\* (bufferAdjustNodeLabelCounts).
LabelCountExact == Store.count = Cardinality({n \in Labelled : Live(Store, n)})
=============================================================================
