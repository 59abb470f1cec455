-------------------------- MODULE MVCCGraphProofs --------------------------
(***************************************************************************)
(* Edges keep their nodes.  A transaction that deletes a node deletes the  *)
(* edges it finds in its Badger transaction; validation asks whether other *)
(* edges have come since its snapshot, and of a transaction that writes an *)
(* edge, whether the nodes are still there.  And the count of a label is   *)
(* the number of stored nodes that carry it: each transaction adds its own *)
(* difference to a counter it has read.  Last, the history of nodes and    *)
(* edges stays readable: what transactions archive, the floors they carry  *)
(* over and what the pruner takes away agree.                              *)
(***************************************************************************)
EXTENDS MVCCProofs

-----------------------------------------------------------------------------
(***************************************************************************)
(* What a transaction buffers.                                             *)
(***************************************************************************)
\* What it will leave stored of what it touches.
Kept(t) == Touched(t) \ Deletes(t)

\* The buffer says what the operations come to.
Buffered(t) ==
    /\ Kept(t) \subseteq pending[t]
    /\ pending[t] \ Cascaded(t) \subseteq Kept(t)
    /\ Cascaded(t) \subseteq Deletes(t)

\* A deleted node takes along the edges its Badger transaction shows.
TakesAlong(t) ==
    \A n \in Node \cap Deletes(t) :
        /\ n \in deleted[t]
        /\ \A e \in Incident(n) : Live(commits[base[t]].db, e) => e \in Cascaded(t)

\* What is written was there, or is created.
Based(t) == \A e \in Edge \cap pending[t] : e \in Created(t) \/ Live(commits[snap[t]].db, e)

\* An edge is written beside the deletion of its node only if it was changed
\* between the snapshot and the Badger transaction: validation finds that.
Detached(t) ==
    \A e \in Edge \cap Kept(t) : \A n \in Ends[e] \cap Deletes(t) :
        \E i \in snap[t] + 1 .. base[t] : e \in commits[i].keys

OpsInv(t) == Buffered(t) /\ TakesAlong(t) /\ Based(t) /\ Detached(t)

\* The operations of t on k, by number.
Numbers(t, k) == {i \in DOMAIN ops[t] : k \in Touches(ops[t][i])}

\* Touched, deleted, created after one more operation.
LEMMA OpSets ==
    ASSUME BufferTypes, NEW t \in Tx, NEW op \in OpType, Log(t, op)
    PROVE  /\ Cascaded(t)' = Cascaded(t) \cup op.gone
           /\ Created(t)' = Created(t) \cup {k \in {op.key} : op.kind = "create"}
           /\ Touched(t)' = Touched(t) \cup Touches(op)
           /\ \A k \in Entity :
                /\ k \in Touches(op) => (k \in Deletes(t)' <=> op.kind = "delete")
                /\ k \notin Touches(op) => (k \in Deletes(t)' <=> k \in Deletes(t))
<1> DEFINE n == Len(ops[t])
<1>1. /\ n \in Nat /\ DOMAIN ops[t] = 1 .. n
      /\ DOMAIN ops'[t] = 1 .. n + 1
      /\ \A i \in 1 .. n : ops'[t][i] = ops[t][i]
      /\ ops'[t][n + 1] = op
  BY AppendOp
<1> HIDE DEF n
<1>2. /\ \A i \in 1 .. n + 1 : i \in 1 .. n \/ i = n + 1
      /\ 1 .. n \subseteq 1 .. n + 1 /\ n + 1 \in 1 .. n + 1 /\ n + 1 \notin 1 .. n
  BY <1>1
<1>3. Cascaded(t)' = Cascaded(t) \cup op.gone
  BY <1>1, <1>2 DEF Cascaded
<1>4. Created(t)' = Created(t) \cup {k \in {op.key} : op.kind = "create"}
  BY <1>1, <1>2 DEF Created
<1>5. Touched(t)' = Touched(t) \cup Touches(op)
  BY <1>1, <1>2 DEF Touched, Touches
<1>6. ASSUME NEW k \in Entity
      PROVE  /\ k \in Touches(op) => (k \in Deletes(t)' <=> op.kind = "delete")
             /\ k \notin Touches(op) => (k \in Deletes(t)' <=> k \in Deletes(t))
  <2>1. /\ k \in Touched(t) <=> Numbers(t, k) # {}
        /\ k \in Touched(t)' <=> Numbers(t, k)' # {}
    BY DEF Touched, Numbers
  <2>2. Numbers(t, k)' = Numbers(t, k) \cup {i \in {n + 1} : k \in Touches(op)}
    BY <1>1, <1>2 DEF Numbers, Touches
  <2>3. Numbers(t, k) \in SUBSET (1 .. n)
    BY <1>1 DEF Numbers
  <2>4. LastOp(t, k) = ops[t][MaxOf(Numbers(t, k))] /\ LastOp(t, k)' = ops'[t][MaxOf(Numbers(t, k)')]
    BY DEF LastOp, Numbers, MaxOf
  <2>5. CASE k \in Touches(op)
    <3> DEFINE S == Numbers(t, k)'
    <3>1. S \in SUBSET Nat /\ n + 1 \in S /\ (\A s \in S : s <= n + 1) /\ n + 1 \in Nat
      BY <1>1, <2>2, <2>3, <2>5
    <3> HIDE DEF S
    <3>2. MaxOf(S) \in S /\ n + 1 <= MaxOf(S)
      BY <3>1, MaxOfNats
    <3>3. MaxOf(S) = n + 1
      BY <1>1, <3>1, <3>2
    <3>4. LastOp(t, k)' = op
      BY <1>1, <2>4, <3>3 DEF S
    <3>5. k \in Touched(t)'
      BY <2>1, <3>1 DEF S
    <3> QED
      BY <2>5, <3>4, <3>5 DEF Deletes
  <2>6. CASE k \notin Touches(op)
    <3>1. Numbers(t, k)' = Numbers(t, k)
      BY <2>2, <2>6
    <3>2. ASSUME k \in Touched(t) PROVE LastOp(t, k)' = LastOp(t, k)
      <4> DEFINE S == Numbers(t, k)
      <4>1. S \in SUBSET Nat /\ S # {} /\ (\A s \in S : s <= n)
        BY <1>1, <2>1, <2>3, <3>2
      <4> HIDE DEF S
      <4>2. MaxOf(S) \in S
        BY <1>1, <4>1, MaxOfNats
      <4>3. MaxOf(S) \in 1 .. n
        BY <2>3, <4>2 DEF S
      <4> QED
        BY <1>1, <2>4, <3>1, <4>3 DEF S
    <3> QED
      BY <2>1, <2>6, <3>1, <3>2 DEF Deletes
  <2> QED
    BY <2>5, <2>6
<1> QED
  BY <1>3, <1>4, <1>5, <1>6

\* What is touched and cascaded are entities, what is cascaded edges.
LEMMA OpSetTypes ==
    ASSUME TypeInv, NEW t \in Tx
    PROVE  /\ Touched(t) \subseteq Entity /\ Deletes(t) \subseteq Touched(t) /\ Kept(t) \subseteq Entity
           /\ Cascaded(t) \subseteq Edge /\ Cascaded(t) \subseteq Touched(t)
           /\ pending[t] \subseteq Entity /\ deleted[t] \subseteq Entity
           /\ \A e \in Edge : Ends[e] \subseteq Node
           /\ Node \cap Edge = {} /\ Node \subseteq Entity /\ Edge \subseteq Entity
           /\ \A n \in Node : Incident(n) \subseteq Edge
<1>1. Touched(t) \subseteq Entity
  BY TouchedType DEF TypeInv
<1>2. Cascaded(t) \subseteq Edge /\ Cascaded(t) \subseteq Touched(t)
  BY OpFields DEF Cascaded, Touched, Touches, TypeInv
<1>3. pending[t] \subseteq Entity /\ deleted[t] \subseteq Entity
  BY DEF TypeInv, BufferTypes
<1>4. Node \cap Edge = {} /\ \A e \in Edge : Ends[e] \subseteq Node
  BY MVCCAssumption
<1> QED
  BY <1>1, <1>2, <1>3, <1>4 DEF Deletes, Kept, Entity, Incident

\* A node or an edge is created or updated.
LEMMA WriteOps ==
    ASSUME TypeInv, NEW t \in Tx, OpsInv(t), UNCHANGED <<commits, snap, base>>,
           NEW op \in OpType, op.kind # "delete", op.gone = {}, Log(t, op),
           op.key \notin Cascaded(t),
           pending'[t] = pending[t] \cup {op.key},
           deleted'[t] = deleted[t] \/ deleted'[t] = deleted[t] \ {op.key},
           op.key \in Edge => \/ op.key \in pending[t]
                              \/ /\ op.kind = "create"
                                 /\ \A n \in Ends[op.key] : n \notin deleted[t]
                              \/ /\ Live(commits[snap[t]].db, op.key)
                                 /\ Live(commits[base[t]].db, op.key)
                                      \/ \E i \in snap[t] + 1 .. base[t] : op.key \in commits[i].keys
    PROVE  OpsInv(t)'
<1> DEFINE k == op.key
<1>1. /\ Touches(op) = {k} /\ k \in Entity
  BY DEF Touches, OpType
<1>2. /\ Cascaded(t)' = Cascaded(t)
      /\ Created(t) \subseteq Created(t)' /\ (op.kind = "create" => k \in Created(t)')
      /\ k \in Touched(t)' /\ k \notin Deletes(t)'
      /\ \A x \in Entity \ {k} : /\ x \in Touched(t)' <=> x \in Touched(t)
                                 /\ x \in Deletes(t)' <=> x \in Deletes(t)
  <2>1. BufferTypes
    BY DEF TypeInv
  <2> HIDE DEF k
  <2>2. Cascaded(t)' = Cascaded(t) \cup op.gone /\ Created(t)' = Created(t) \cup {x \in {op.key} : op.kind = "create"}
    BY <2>1, OpSets
  <2>3. Cascaded(t)' = Cascaded(t)
    BY <2>2
  <2>4. Created(t) \subseteq Created(t)' /\ (op.kind = "create" => k \in Created(t)')
    BY <2>2 DEF k
  <2>5. /\ k \in Touched(t)' /\ k \notin Deletes(t)'
        /\ \A x \in Entity \ {k} : /\ x \in Touched(t)' <=> x \in Touched(t)
                                   /\ x \in Deletes(t)' <=> x \in Deletes(t)
    BY <1>1, <2>1, OpSets
  <2> QED
    BY <2>3, <2>4, <2>5
<1>3. /\ Touched(t)' \subseteq Entity /\ Deletes(t)' \subseteq Entity
  BY <1>1, OpSets, OpSetTypes DEF Deletes, TypeInv
<1> HIDE DEF k
<1>4. \A x : x \in Kept(t)' <=> x = k \/ x \in Kept(t)
  BY <1>1, <1>2, <1>3, OpSetTypes DEF Kept
<1>5. Buffered(t)'
  BY <1>2, <1>4, OpSetTypes DEF OpsInv, Buffered, k
<1>6. \A n \in Node \cap Deletes(t)' : n \in Deletes(t) /\ n # k
  BY <1>2, OpSetTypes
<1>7. TakesAlong(t)'
  BY <1>2, <1>6 DEF OpsInv, TakesAlong, Live, k
<1>8. Based(t)'
  BY <1>2 DEF OpsInv, Based, Live, k
<1>9. ASSUME NEW e \in Edge \cap Kept(t)', NEW n \in Ends[e] \cap Deletes(t)'
      PROVE  \E i \in snap[t] + 1 .. base[t] : e \in commits[i].keys
  <2>1. n \in Node /\ n \in Deletes(t) /\ n \in deleted[t] /\ e \in Incident(n)
    BY <1>6, <1>9, OpSetTypes DEF OpsInv, TakesAlong, Incident
  <2>2. CASE e \in Kept(t)
    BY <1>9, <2>1, <2>2 DEF OpsInv, Detached
  <2>3. CASE e \notin Kept(t)
    <3>1. e = k
      BY <1>4, <1>9, <2>3
    <3>2. e \notin pending[t]
      BY <2>3, <3>1 DEF OpsInv, Buffered, k
    <3>3. Live(commits[snap[t]].db, e) /\ (Live(commits[base[t]].db, e)
                \/ \E i \in snap[t] + 1 .. base[t] : e \in commits[i].keys)
      BY <1>9, <2>1, <3>1, <3>2 DEF k
    <3>4. ~Live(commits[base[t]].db, e)
      BY <2>1, <3>1 DEF OpsInv, TakesAlong, k
    <3> QED
      BY <3>3, <3>4
  <2> QED
    BY <2>2, <2>3
<1>10. Detached(t)'
  BY <1>9 DEF Detached
<1> QED
  BY <1>5, <1>7, <1>8, <1>10 DEF OpsInv

\* A node is deleted with its edges, or an edge.
LEMMA DeleteOps ==
    ASSUME TypeInv, NEW t \in Tx, OpsInv(t), UNCHANGED <<commits, snap, base>>,
           NEW op \in OpType, op.kind = "delete", Log(t, op),
           pending'[t] = pending[t] \ {op.key}, deleted'[t] = deleted[t] \cup {op.key},
           op.key \in Node => /\ \A e \in Incident(op.key) : Live(commits[base[t]].db, e) => e \in op.gone
                              /\ Incident(op.key) \cap pending[t] \subseteq op.gone
    PROVE  OpsInv(t)'
<1> DEFINE k == op.key
           G == op.gone
<1>1. /\ Touches(op) = {k} \cup G /\ k \in Entity /\ G \subseteq Edge
  BY DEF Touches, OpType
<1>2. /\ Cascaded(t)' = Cascaded(t) \cup G
      /\ Created(t) \subseteq Created(t)'
      /\ \A x \in {k} \cup G : x \in Entity => x \in Touched(t)' /\ x \in Deletes(t)'
      /\ \A x \in Entity \ ({k} \cup G) : /\ x \in Touched(t)' <=> x \in Touched(t)
                                          /\ x \in Deletes(t)' <=> x \in Deletes(t)
  BY <1>1, OpSets DEF TypeInv
<1>3. /\ Touched(t)' \subseteq Entity /\ Deletes(t)' \subseteq Entity
  BY <1>1, OpSets, OpSetTypes DEF Deletes, TypeInv
<1> HIDE DEF k, G
<1>4. \A x : x \in Kept(t)' <=> x \in Kept(t) /\ x \notin {k} \cup G
  BY <1>1, <1>2, <1>3, OpSetTypes DEF Kept
<1>5. Buffered(t)'
  <2>1. Cascaded(t)' \subseteq Deletes(t)'
    BY <1>1, <1>2, OpSetTypes DEF OpsInv, Buffered
  <2> QED
    BY <1>2, <1>4, <2>1, OpSetTypes DEF OpsInv, Buffered, k
<1>6. \A n \in Node \cap Deletes(t)' : n = k \/ n \in Deletes(t)
  BY <1>1, <1>2, OpSetTypes
<1>7. TakesAlong(t)'
  BY <1>2, <1>6 DEF OpsInv, TakesAlong, Live, k, G
<1>8. Based(t)'
  BY <1>2 DEF OpsInv, Based, Live, k
<1>9. ASSUME NEW e \in Edge \cap Kept(t)', NEW n \in Ends[e] \cap Deletes(t)'
      PROVE  \E i \in snap[t] + 1 .. base[t] : e \in commits[i].keys
  <2>1. n \in Node /\ (n = k \/ n \in Deletes(t)) /\ e \in Incident(n) /\ e \in Kept(t) /\ e \notin G
    BY <1>4, <1>6, <1>9, OpSetTypes DEF Incident
  <2>2. n # k
    BY <2>1 DEF OpsInv, Buffered, k, G
  <2> QED
    BY <1>9, <2>1, <2>2 DEF OpsInv, Detached
<1>10. Detached(t)'
  BY <1>9 DEF Detached
<1> QED
  BY <1>5, <1>7, <1>8, <1>10 DEF OpsInv

-----------------------------------------------------------------------------
(***************************************************************************)
(* The invariant of edges.                                                 *)
(***************************************************************************)
\* What has changed since the snapshot was written since.
SnapBody(t) ==
    \A k \in Entity :
        (\A i \in snap[t] + 1 .. Len(commits) : k \notin commits[i].keys)
            => Store.body[k] = commits[snap[t]].db.body[k]

SnapBase(t) ==
    /\ snap[t] <= base[t]
    /\ \A k \in Entity :
        (\A i \in snap[t] + 1 .. base[t] : k \notin commits[i].keys)
            => commits[base[t]].db.body[k] = commits[snap[t]].db.body[k]

BodyInv(t) ==
    /\ pc[t] \in {"pinned", "numbered", "active", "prepared"} => SnapBody(t)
    /\ pc[t] \in {"active", "prepared"} => SnapBase(t)

\* Past validation: every edge there is goes with its node, every edge that is
\* written has its nodes, and one that is not created is there.
TakesLive(t) ==
    \A n \in Node \cap Deletes(t) : \A e \in Incident(n) : Live(Store, e) => e \in Touched(t)

Attaches(t) ==
    \A e \in Edge \cap Kept(t) : \A n \in Ends[e] :
        n \notin Deletes(t) /\ (n \in Touched(t) \/ Live(Store, n))

Updates(t) == \A e \in (Edge \cap Kept(t)) \ Created(t) : Live(Store, e)

PreparedInv(t) ==
    pc[t] = "prepared" => Stale(t) \/ (TakesLive(t) /\ Attaches(t) /\ Updates(t))

NotSkewed(t, u) == pc[t] = "prepared" /\ pc[u] = "prepared" => ~Skewed(t, u)

EdgeTxInv(t) == OpsInv(t) /\ BodyInv(t) /\ PreparedInv(t)

EdgeInv ==
    /\ \A t \in Tx : EdgeTxInv(t)
    /\ \A t, u \in Tx : t # u => NotSkewed(t, u)
    /\ NoDanglingEdge

\* What follows from the operations alone.
LEMMA EdgeOpsFrame ==
    ASSUME NEW t, ops'[t] = ops[t]
    PROVE  /\ Touched(t)' = Touched(t) /\ Deletes(t)' = Deletes(t) /\ Kept(t)' = Kept(t)
           /\ Created(t)' = Created(t) /\ Cascaded(t)' = Cascaded(t)
BY OpsFrame DEF Kept, Created, Cascaded

\* The operations of a transaction, while it issues none.
LEMMA OpsInvFrame ==
    ASSUME TypeInv, NEW t \in Tx, OpsInv(t),
           ops'[t] = ops[t], pending'[t] = pending[t], deleted'[t] = deleted[t],
           snap'[t] = snap[t], base'[t] = base[t],
           \A i \in 1 .. Len(commits) : commits'[i] = commits[i]
    PROVE  OpsInv(t)'
<1>1. /\ Touched(t)' = Touched(t) /\ Deletes(t)' = Deletes(t) /\ Kept(t)' = Kept(t)
      /\ Created(t)' = Created(t) /\ Cascaded(t)' = Cascaded(t)
  BY EdgeOpsFrame
<1>2. /\ Len(commits) \in Nat /\ snap[t] \in 1 .. Len(commits) /\ base[t] \in 1 .. Len(commits)
  BY StoreFields DEF TypeInv, BeginTypes
<1>3. /\ commits'[base'[t]] = commits[base[t]] /\ commits'[snap'[t]] = commits[snap[t]]
      /\ \A i \in snap[t] + 1 .. base[t] : commits'[i] = commits[i]
  BY <1>2
<1>4. Buffered(t)'
  BY <1>1 DEF OpsInv, Buffered
<1>5. TakesAlong(t)'
  BY <1>1, <1>3 DEF OpsInv, TakesAlong, Live
<1>6. Based(t)'
  BY <1>1, <1>3 DEF OpsInv, Based, Live
<1>7. Detached(t)'
  BY <1>1, <1>3 DEF OpsInv, Detached
<1> QED
  BY <1>4, <1>5, <1>6, <1>7 DEF OpsInv

\* A transaction whose own state and the commits stay as they are.
LEMMA EdgeTxFrame ==
    ASSUME TypeInv, NEW t \in Tx, EdgeTxInv(t), UNCHANGED commits,
           ops'[t] = ops[t], pending'[t] = pending[t], deleted'[t] = deleted[t], reads'[t] = reads[t],
           snap'[t] = snap[t], base'[t] = base[t], pc'[t] = pc[t]
    PROVE  EdgeTxInv(t)'
<1>1. OpsInv(t)'
  BY OpsInvFrame DEF EdgeTxInv
<1>2. Store' = Store
  BY DEF Store, Latest
<1>3. BodyInv(t)'
  BY <1>2 DEF EdgeTxInv, BodyInv, SnapBody, SnapBase
<1>4. Stale(t)' <=> Stale(t)
  BY OpsFrame DEF Stale
<1>5. PreparedInv(t)'
  BY <1>2, <1>4, EdgeOpsFrame DEF EdgeTxInv, PreparedInv, TakesLive, Attaches, Updates, Live
<1> QED
  BY <1>1, <1>3, <1>5 DEF EdgeTxInv

\* A transaction with nothing buffered.
LEMMA OpsInvEmpty ==
    ASSUME NEW t \in Tx, ops'[t] = <<>>, pending'[t] = {}
    PROVE  OpsInv(t)'
<1>1. DOMAIN ops'[t] = {}
  OBVIOUS
<1>2. Touched(t)' = {} /\ Deletes(t)' = {} /\ Kept(t)' = {} /\ Cascaded(t)' = {}
  BY <1>1 DEF Touched, Deletes, Kept, Cascaded
<1> QED
  BY <1>2 DEF OpsInv, Buffered, TakesAlong, Based, Detached

\* A commit is appended that changes the bodies of its own keys only.
LEMMA EdgeAppend ==
    ASSUME TypeInv, NEW c \in CommitType, commits' = Append(commits, c),
           \A k \in Entity \ c.keys : c.db.body[k] = Store.body[k],
           NEW t \in Tx, OpsInv(t), BodyInv(t), pc'[t] = pc[t] \/ pc'[t] = "published",
           UNCHANGED <<ops, pending, deleted, snap, base>>
    PROVE  OpsInv(t)' /\ BodyInv(t)'
<1>1. /\ Len(commits) \in Nat /\ Len(commits') = Len(commits) + 1
      /\ \A i \in 1 .. Len(commits) : commits'[i] = commits[i]
      /\ commits'[Len(commits) + 1] = c /\ Store' = c.db
  BY AppendCommit DEF TypeInv
<1>2. OpsInv(t)'
  BY <1>1, OpsInvFrame
<1>3. snap[t] \in 1 .. Len(commits) /\ base[t] \in 1 .. Len(commits)
  BY DEF TypeInv, BeginTypes
<1>4. /\ commits'[snap[t]] = commits[snap[t]] /\ commits'[base[t]] = commits[base[t]]
      /\ \A i \in snap[t] + 1 .. base[t] : commits'[i] = commits[i]
      /\ \A i \in snap[t] + 1 .. Len(commits) : i \in snap[t] + 1 .. Len(commits') /\ commits'[i] = commits[i]
      /\ Len(commits) + 1 \in snap[t] + 1 .. Len(commits')
  BY <1>1, <1>3
<1>5. SnapBody(t) => SnapBody(t)'
  <2>1. ASSUME SnapBody(t), NEW k \in Entity, \A i \in snap[t] + 1 .. Len(commits') : k \notin commits'[i].keys
        PROVE  c.db.body[k] = commits[snap[t]].db.body[k]
    <3>1. k \notin c.keys
      BY <1>1, <1>4, <2>1
    <3>2. \A i \in snap[t] + 1 .. Len(commits) : k \notin commits[i].keys
      BY <1>4, <2>1
    <3> QED
      BY <2>1, <3>1, <3>2 DEF SnapBody
  <2> QED
    BY <1>1, <1>4, <2>1 DEF SnapBody
<1>6. SnapBase(t) => SnapBase(t)'
  BY <1>4 DEF SnapBase
<1> QED
  BY <1>2, <1>5, <1>6 DEF BodyInv

\* At first.
LEMMA InitEdgeInv == LifecycleInit => EdgeInv
<1> SUFFICES ASSUME LifecycleInit PROVE EdgeInv
  OBVIOUS
<1>1. PICK S \in SUBSET Entity :
        /\ \A e \in Edge \cap S : Ends[e] \subseteq S
        /\ commits = << [db |-> [body |-> [k \in Entity |-> IF k \in S THEN Old ELSE None],
                              head |-> [k \in Entity |-> IF k \in S THEN HeadRecord(1, FALSE, 1) ELSE NoHead],
                              ver |-> [k \in Entity |-> {}],
                              count |-> Cardinality(S \cap Labelled)],
                      keys |-> Entity, heads |-> {}, seq |-> 1, snap |-> 0] >>
  BY DEF LifecycleInit, Init
<1>2. \A k \in Entity : Store.body[k] = IF k \in S THEN Old ELSE None
  <2> DEFINE d == [body |-> [k \in Entity |-> IF k \in S THEN Old ELSE None],
                   head |-> [k \in Entity |-> IF k \in S THEN HeadRecord(1, FALSE, 1) ELSE NoHead],
                   ver |-> [k \in Entity |-> {}],
                   count |-> Cardinality(S \cap Labelled)]
             c == [db |-> d, keys |-> Entity, heads |-> {}, seq |-> 1, snap |-> 0]
  <2>1. commits = <<c>>
    BY <1>1
  <2>2. c.db = d
    OBVIOUS
  <2> HIDE DEF c
  <2>3. Store = d
    BY <2>1, <2>2 DEF Store, Latest
  <2>4. \A k \in Entity : d.body[k] = IF k \in S THEN Old ELSE None
    OBVIOUS
  <2> HIDE DEF d
  <2> QED
    BY <2>3, <2>4
<1>3. NoDanglingEdge
  <2>1. Old # None
    BY MVCCAssumption DEF Content
  <2>2. \A k \in Entity : Live(Store, k) <=> k \in S
    BY <1>2, <2>1 DEF Live
  <2>3. Edge \subseteq Entity /\ \A e \in Edge : Ends[e] \subseteq Entity
    BY MVCCAssumption DEF Entity
  <2> QED
    BY <1>1, <2>2, <2>3 DEF NoDanglingEdge
<1>4. ASSUME NEW t \in Tx PROVE pc[t] = "none" /\ ops[t] = <<>> /\ pending[t] = {}
  BY DEF LifecycleInit, Init
<1>5. ASSUME NEW t \in Tx PROVE OpsInv(t)
  <2>1. DOMAIN ops[t] = {}
    BY <1>4
  <2>2. Touched(t) = {} /\ Deletes(t) = {} /\ Kept(t) = {} /\ Cascaded(t) = {}
    BY <2>1 DEF Touched, Deletes, Kept, Cascaded
  <2> QED
    BY <1>4, <2>2 DEF OpsInv, Buffered, TakesAlong, Based, Detached
<1> QED
  BY <1>3, <1>4, <1>5 DEF EdgeInv, EdgeTxInv, BodyInv, PreparedInv, NotSkewed

\* The record of an operation.
LEMMA OpRecord ==
    ASSUME NEW kind \in {"create", "update", "delete"}, NEW k \in Entity,
           NEW old \in Stored, NEW gone \in SUBSET Edge
    PROVE  /\ Op(kind, k, old, gone) \in OpType
           /\ Op(kind, k, old, gone).kind = kind /\ Op(kind, k, old, gone).key = k
           /\ Op(kind, k, old, gone).gone = gone
BY DEF Op, OpType, Stored

\* An operation: a transaction that sees its snapshot whole does not write an
\* edge whose node it deletes, unless validation will find it.
LEMMA OperateOps ==
    ASSUME TypeInv, SnapshotIsWhole, NEW t \in Tx, OpsInv(t), BodyInv(t), Operate(t),
           Hazards \cap {"recreate", "afterdelete", "detach", "upsert"} = {}
    PROVE  OpsInv(t)'
<1>0. /\ pc[t] = "active" /\ UNCHANGED <<commits, snap, base>>
  BY DEF Operate, CreateNode, UpdateNode, DeleteNode, CreateEdge, UpdateEdge, DeleteEdge, Enrol, beginVars
<1>1. /\ t \in Stored /\ None \in Stored /\ Node \subseteq Entity /\ Edge \subseteq Entity
      /\ \A k \in Entity : (IF k \in pending[t] THEN t ELSE Committed(t, k)) \in Stored
      /\ pending \in [Tx -> SUBSET Entity] /\ deleted \in [Tx -> SUBSET Entity]
  BY CommittedType DEF TypeInv, Stored, Content, Entity, BufferTypes
<1>2. \A n \in Node : n \notin Cascaded(t)
  BY OpSetTypes
<1>3. ASSUME NEW e \in Edge, Committed(t, e) # None
      PROVE  /\ Live(commits[snap[t]].db, e)
             /\ Live(commits[base[t]].db, e) \/ \E i \in snap[t] + 1 .. base[t] : e \in commits[i].keys
  <2>1. commits[snap[t]].db.body[e] # None
    BY <1>0, <1>1, <1>3 DEF SnapshotIsWhole
  <2>2. SnapBase(t)
    BY <1>0 DEF BodyInv
  <2> QED
    BY <1>1, <2>1, <2>2 DEF SnapBase, Live
\* Of creations and updates.
<1>4. ASSUME NEW kind \in {"create", "update"}, NEW k \in Entity, NEW old \in Stored,
             Log(t, Op(kind, k, old, {})), k \notin Cascaded(t),
             pending'[t] = pending[t] \cup {k},
             deleted'[t] = deleted[t] \/ deleted'[t] = deleted[t] \ {k},
             k \in Edge => \/ k \in pending[t]
                           \/ kind = "create" /\ \A n \in Ends[k] : n \notin deleted[t]
                           \/ Committed(t, k) # None
      PROVE  OpsInv(t)'
  <2> DEFINE op == Op(kind, k, old, {})
  <2>1. op \in OpType /\ op.kind = kind /\ op.key = k /\ op.gone = {}
    BY OpRecord
  <2>2. k \in Edge /\ Committed(t, k) # None =>
             /\ Live(commits[snap[t]].db, k)
             /\ Live(commits[base[t]].db, k) \/ \E i \in snap[t] + 1 .. base[t] : k \in commits[i].keys
    BY <1>3
  <2> HIDE DEF op
  <2> QED
    BY <1>0, <1>4, <2>1, <2>2, WriteOps DEF op
<1>5. ASSUME NEW n \in Node, CreateNode(t, n) PROVE OpsInv(t)'
  <2>1. /\ Log(t, Op("create", n, None, {}))
        /\ pending'[t] = pending[t] \cup {n} /\ deleted'[t] = deleted[t] \ {n}
    BY <1>1, <1>5 DEF CreateNode
  <2> QED
    BY <1>1, <1>2, <1>4, <2>1, OpSetTypes
<1>6. ASSUME NEW n \in Node, UpdateNode(t, n) PROVE OpsInv(t)'
  <2> DEFINE old == IF n \in pending[t] THEN t ELSE Committed(t, n)
  <2>1. /\ Log(t, Op("update", n, old, {}))
        /\ pending'[t] = pending[t] \cup {n} /\ deleted'[t] = deleted[t]
    BY <1>1, <1>6 DEF UpdateNode
  <2>2. old \in Stored /\ n \in Entity
    BY <1>1
  <2> HIDE DEF old
  <2> QED
    BY <1>2, <1>4, <2>1, <2>2, OpSetTypes
<1>7. ASSUME NEW e \in Edge, CreateEdge(t, e) PROVE OpsInv(t)'
  <2>1. /\ Log(t, Op("create", e, None, {}))
        /\ pending'[t] = pending[t] \cup {e} /\ deleted'[t] = deleted[t]
        /\ e \notin Cascaded(t)
        /\ \A n \in Ends[e] : n \notin deleted[t]
    BY <1>1, <1>7 DEF CreateEdge, Exists
  <2> QED
    BY <1>1, <1>4, <2>1
<1>8. ASSUME NEW e \in Edge, UpdateEdge(t, e) PROVE OpsInv(t)'
  <2> DEFINE old == IF e \in pending[t] THEN t ELSE Committed(t, e)
  <2>1. /\ Log(t, Op("update", e, old, {}))
        /\ pending'[t] = pending[t] \cup {e} /\ deleted'[t] = deleted[t]
        /\ e \notin Cascaded(t)
        /\ e \in pending[t] \/ Committed(t, e) # None
    BY <1>1, <1>8 DEF UpdateEdge
  <2>2. old \in Stored /\ e \in Entity
    BY <1>1
  <2> HIDE DEF old
  <2> QED
    BY <1>4, <2>1, <2>2
<1>9. ASSUME NEW e \in Edge, DeleteEdge(t, e) PROVE OpsInv(t)'
  <2> DEFINE old == IF e \in pending[t] THEN t ELSE Committed(t, e)
             op == Op("delete", e, old, {})
  <2>1. /\ Log(t, op)
        /\ pending'[t] = pending[t] \ {e} /\ deleted'[t] = deleted[t] \cup {e}
    BY <1>1, <1>9 DEF DeleteEdge
  <2>2. old \in Stored /\ e \in Entity /\ e \notin Node
    BY <1>1, OpSetTypes
  <2> HIDE DEF old
  <2>3. op \in OpType /\ op.kind = "delete" /\ op.key = e
    BY <2>2, OpRecord
  <2> HIDE DEF op
  <2> QED
    BY <1>0, <2>1, <2>2, <2>3, DeleteOps
<1>10. ASSUME NEW n \in Node, DeleteNode(t, n) PROVE OpsInv(t)'
  <2> DEFINE old == IF n \in pending[t] THEN t ELSE Committed(t, n)
             gone == {e \in Incident(n) : Live(commits[base[t]].db, e)}
             op == Op("delete", n, old, gone)
  <2>1. /\ Log(t, op)
        /\ pending'[t] = pending[t] \ {n} /\ deleted'[t] = deleted[t] \cup {n}
        /\ Incident(n) \cap pending[t] \subseteq gone
    BY <1>1, <1>10 DEF DeleteNode
  <2>2. old \in Stored /\ n \in Entity /\ gone \in SUBSET Edge
    BY <1>1 DEF Incident
  <2>3. \A e \in Incident(n) : Live(commits[base[t]].db, e) => e \in gone
    OBVIOUS
  <2> HIDE DEF old, gone
  <2>4. op \in OpType /\ op.kind = "delete" /\ op.key = n /\ op.gone = gone
    BY <2>2, OpRecord
  <2> HIDE DEF op
  <2> QED
    BY <1>0, <2>1, <2>3, <2>4, DeleteOps
<1> QED
  BY <1>5, <1>6, <1>7, <1>8, <1>9, <1>10 DEF Operate

\* Steps of one transaction that commit nothing; the others stay as they are.
LEMMA EdgeStep ==
    ASSUME TypeInv, EdgeInv, NEW t \in Tx, UNCHANGED commits, EdgeTxInv(t)',
           \A u \in Tx \ {t} : /\ ops'[u] = ops[u] /\ pending'[u] = pending[u] /\ deleted'[u] = deleted[u]
                               /\ reads'[u] = reads[u] /\ snap'[u] = snap[u] /\ base'[u] = base[u]
                               /\ pc'[u] = pc[u],
           \A u \in Tx \ {t} : NotSkewed(t, u)' /\ NotSkewed(u, t)'
    PROVE  EdgeInv'
<1>1. \A u \in Tx \ {t} : EdgeTxInv(u)'
  BY EdgeTxFrame DEF EdgeInv
<1>2. ASSUME NEW u \in Tx \ {t}, NEW w \in Tx \ {t}, u # w PROVE NotSkewed(u, w)'
  <2>1. Deletes(u)' = Deletes(u) /\ Created(u)' = Created(u) /\ Deletes(w)' = Deletes(w) /\ Created(w)' = Created(w)
    BY <1>2, EdgeOpsFrame
  <2> QED
    BY <1>2, <2>1 DEF EdgeInv, NotSkewed, Skewed
<1>3. NoDanglingEdge'
  BY DEF EdgeInv, NoDanglingEdge, Live, Store, Latest
<1> QED
  BY <1>1, <1>2, <1>3 DEF EdgeInv

\* Begin.
LEMMA BeginEdgeStep ==
    ASSUME TypeInv, EdgeInv, NEW t \in Tx, BeginTransaction(t)
    PROVE  EdgeInv'
<1> USE DEF beginVars, bufferVars
<1>1. /\ UNCHANGED <<commits, ops, pending, deleted, reads>> /\ pc[t] \in {"none", "pinned", "numbered"}
      /\ pc'[t] \in {"pinned", "numbered", "active"}
      /\ \A u \in Tx \ {t} : pc'[u] = pc[u] /\ snap'[u] = snap[u] /\ base'[u] = base[u]
  BY DEF BeginTransaction, BeginSnapshot, BeginSequence, BeginWriter, TypeInv, BeginTypes
<1>2. ops'[t] = <<>> /\ pending'[t] = {}
  BY <1>1 DEF TypeInv, IdleBuffers, Idle
<1>3. OpsInv(t)'
  BY <1>2, OpsInvEmpty
<1>4. /\ Store' = Store /\ Store = commits[Len(commits)].db /\ Len(commits) \in Nat
      /\ snap[t] \in 1 .. Len(commits)
  BY <1>1, StoreFields DEF Store, Latest, TypeInv, BeginTypes
<1>5. BodyInv(t)'
  <2>1. CASE BeginSnapshot(t)
    <3>1. snap'[t] = Len(commits) /\ pc'[t] = "pinned"
      BY <2>1 DEF BeginSnapshot, TypeInv, BeginTypes
    <3> QED
      BY <1>1, <1>4, <3>1 DEF BodyInv, SnapBody
  <2>2. CASE BeginSequence(t)
    <3>1. snap'[t] = snap[t] /\ pc[t] = "pinned" /\ pc'[t] = "numbered"
      BY <2>2 DEF BeginSequence, TypeInv, BeginTypes
    <3> QED
      BY <1>1, <1>4, <3>1 DEF EdgeInv, EdgeTxInv, BodyInv, SnapBody
  <2>3. CASE BeginWriter(t)
    <3>1. snap'[t] = snap[t] /\ pc[t] = "numbered" /\ base'[t] = Len(commits)
      BY <2>3 DEF BeginWriter, TypeInv, BeginTypes
    <3>2. SnapBody(t) /\ snap[t] <= Len(commits)
      BY <1>4, <3>1 DEF EdgeInv, EdgeTxInv, BodyInv
    <3>3. SnapBody(t)' /\ SnapBase(t)'
      BY <1>1, <1>4, <3>1, <3>2 DEF SnapBody, SnapBase
    <3> QED
      BY <3>3 DEF BodyInv
  <2> QED
    BY <2>1, <2>2, <2>3 DEF BeginTransaction
<1>6. PreparedInv(t)' /\ \A u \in Tx : NotSkewed(t, u)' /\ NotSkewed(u, t)'
  BY <1>1 DEF PreparedInv, NotSkewed
<1> QED
  BY <1>1, <1>3, <1>5, <1>6, EdgeStep DEF EdgeTxInv

\* An operation.
LEMMA OperateEdgeStep ==
    ASSUME TypeInv, SnapshotIsWhole, EdgeInv, NEW t \in Tx, Operate(t),
           Hazards \cap {"recreate", "afterdelete", "detach", "upsert"} = {}
    PROVE  EdgeInv'
<1>1. pc[t] = "active" /\ UNCHANGED <<commits, pc, snap, base>>
  BY DEF Operate, CreateNode, UpdateNode, DeleteNode, CreateEdge, UpdateEdge, DeleteEdge, Enrol, beginVars
<1>2. \A u \in Tx \ {t} : reads'[u] = reads[u] /\ pending'[u] = pending[u] /\ ops'[u] = ops[u] /\ deleted'[u] = deleted[u]
  <2>1. (\E keys : Enrol(t, keys)) /\ (\E op : Log(t, op))
    BY DEF Operate, CreateNode, UpdateNode, DeleteNode, CreateEdge, UpdateEdge, DeleteEdge
  <2>2. \A u \in Tx \ {t} : reads'[u] = reads[u] /\ ops'[u] = ops[u]
    BY <2>1 DEF Enrol, Log, TypeInv, BufferTypes
  <2>3. \A u \in Tx \ {t} : pending'[u] = pending[u] /\ deleted'[u] = deleted[u]
    BY DEF Operate, CreateNode, UpdateNode, DeleteNode, CreateEdge, UpdateEdge, DeleteEdge, TypeInv, BufferTypes
  <2> QED
    BY <2>2, <2>3
<1>3. OpsInv(t)'
  BY OperateOps DEF EdgeInv, EdgeTxInv
<1>4. BodyInv(t)'
  BY <1>1 DEF EdgeInv, EdgeTxInv, BodyInv, SnapBody, SnapBase, Store, Latest
<1>5. PreparedInv(t)' /\ \A u \in Tx : NotSkewed(t, u)' /\ NotSkewed(u, t)'
  BY <1>1 DEF PreparedInv, NotSkewed
<1> QED
  BY <1>1, <1>2, <1>3, <1>4, <1>5, EdgeStep DEF EdgeTxInv

\* Validation: of a transaction that is not stale, every edge at a node it
\* deletes, every node at an edge it writes, every edge it updates is as it was
\* in the snapshot.
LEMMA ValidIsSafe ==
    ASSUME TypeInv, NEW t \in Tx, TxInv(t), OpsInv(t), SnapBody(t), SnapBase(t), BaseBody(t),
           Valid(t), ~Stale(t)
    PROVE  TakesLive(t) /\ Attaches(t) /\ Updates(t)
<1>1. \A k \in Touched(t) : ~HeadConflict(t, k)
  BY ValidIsChecked DEF TxInv
<1>2. \A k : ~HeadConflict(t, k) => \A i \in snap[t] + 1 .. Len(commits) : k \notin commits[i].keys
  BY DEF HeadConflict
<1>3. /\ snap[t] \in Nat /\ base[t] \in 1 .. Len(commits) /\ Len(commits) \in Nat /\ snap[t] <= base[t]
  BY StoreFields DEF TypeInv, BeginTypes, SnapBase
<1>4. \A i \in base[t] + 1 .. Len(commits) : i \in snap[t] + 1 .. Len(commits)
  BY <1>3
<1>5. \A i \in snap[t] + 1 .. base[t] : i \in snap[t] + 1 .. Len(commits)
  BY <1>3
\* The last operation on a node, or on what is kept, is about itself.
<1>6. ASSUME NEW k \in Touched(t), k \in Node \/ k \in Kept(t)
      PROVE  \E i \in DOMAIN ops[t] : ops[t][i] = LastOp(t, k) /\ ops[t][i].key = k
  <2> DEFINE S == Numbers(t, k)
  <2>1. S # {} /\ S \in SUBSET Nat /\ \A s \in S : s <= Len(ops[t])
    BY <1>6, OpFields DEF Touched, Numbers, TypeInv
  <2>2. Len(ops[t]) \in Nat
    BY LenProperties DEF TypeInv, BufferTypes
  <2> HIDE DEF S
  <2>3. MaxOf(S) \in S
    BY <2>1, <2>2, MaxOfNats
  <2>4. MaxOf(S) \in DOMAIN ops[t] /\ k \in Touches(ops[t][MaxOf(S)]) /\ LastOp(t, k) = ops[t][MaxOf(S)]
    BY <2>3 DEF S, Numbers, LastOp
  <2>5. k \notin ops[t][MaxOf(S)].gone
    <3>1. CASE k \in Node
      BY <2>4, <3>1, OpFields, OpSetTypes DEF TypeInv
    <3>2. CASE k \in Kept(t)
      <4>1. ops[t][MaxOf(S)].gone \subseteq Cascaded(t)
        BY <2>4 DEF Cascaded
      <4> QED
        BY <3>2, <4>1 DEF OpsInv, Buffered, Kept
    <3> QED
      BY <1>6, <3>1, <3>2
  <2> QED
    BY <2>4, <2>5 DEF Touches
<1>7. TakesLive(t)
  <2>1. ASSUME NEW n \in Node \cap Deletes(t), NEW e \in Incident(n), Live(Store, e)
        PROVE  e \in Touched(t)
    <3>1. n \in Touched(t) /\ e \in Entity
      BY <2>1, OpSetTypes DEF Deletes
    <3>2. PICK i \in DOMAIN ops[t] : ops[t][i] = LastOp(t, n) /\ ops[t][i].key = n
      BY <1>6, <2>1, <3>1
    <3>3. ops[t][i].kind = "delete"
      BY <2>1, <3>2 DEF Deletes
    <3>4. ~HeadConflict(t, e)
      BY <2>1, <3>2, <3>3 DEF Valid, Admissible
    <3>5. Live(commits[base[t]].db, e)
      BY <1>2, <1>4, <2>1, <3>1, <3>4 DEF BaseBody, Live
    <3> QED
      BY <2>1, <3>5, OpSetTypes DEF OpsInv, TakesAlong
  <2> QED
    BY <2>1 DEF TakesLive
<1>8. Attaches(t)
  <2>1. ASSUME NEW e \in Edge \cap Kept(t), NEW n \in Ends[e]
        PROVE  n \notin Deletes(t) /\ (n \in Touched(t) \/ Live(Store, n))
    <3>1. e \in Touched(t) /\ e \notin Deletes(t) /\ n \in Node
      BY <2>1, OpSetTypes DEF Kept
    <3>2. PICK i \in DOMAIN ops[t] : ops[t][i] = LastOp(t, e) /\ ops[t][i].key = e
      BY <1>6, <2>1, <3>1
    <3>3. ops[t][i].kind # "delete"
      BY <3>1, <3>2 DEF Deletes
    <3>4. n \in pending[t] \/ Live(Store, n)
      BY <2>1, <3>2, <3>3 DEF Valid, Admissible
    <3>5. n \in pending[t] => n \in Touched(t)
      BY <3>1, OpSetTypes DEF OpsInv, Buffered, Kept
    <3>6. n \notin Deletes(t)
      BY <1>1, <1>2, <1>5, <2>1, <3>1 DEF OpsInv, Detached
    <3> QED
      BY <3>4, <3>5, <3>6
  <2> QED
    BY <2>1 DEF Attaches
<1>9. Updates(t)
  <2>1. ASSUME NEW e \in (Edge \cap Kept(t)) \ Created(t) PROVE Live(Store, e)
    <3>1. e \in pending[t] /\ e \in Touched(t) /\ e \in Entity
      BY <2>1, OpSetTypes DEF OpsInv, Buffered, Kept
    <3>2. Live(commits[snap[t]].db, e)
      BY <2>1, <3>1 DEF OpsInv, Based
    <3> QED
      BY <1>1, <1>2, <3>1, <3>2 DEF SnapBody, Live
  <2> QED
    BY <2>1 DEF Updates
<1> QED
  BY <1>7, <1>8, <1>9

\* Transactions that are closed.
LEMMA CloseEdgeStep ==
    ASSUME TypeInv, EdgeInv, NEW S \in SUBSET Tx, Close(S), UNCHANGED commits,
           \A t \in S : pc'[t] \in {"none", "closed"}, \A t \in Tx \ S : pc'[t] = pc[t]
    PROVE  EdgeInv'
<1>1. /\ \A t \in S : ops'[t] = <<>> /\ pending'[t] = {}
      /\ \A t \in Tx \ S : /\ ops'[t] = ops[t] /\ pending'[t] = pending[t] /\ deleted'[t] = deleted[t]
                           /\ reads'[t] = reads[t] /\ snap'[t] = snap[t] /\ base'[t] = base[t]
  BY DEF Close
<1>2. ASSUME NEW t \in Tx PROVE EdgeTxInv(t)'
  <2>1. CASE t \in S
    BY <1>1, <2>1, OpsInvEmpty DEF EdgeTxInv, BodyInv, PreparedInv
  <2>2. CASE t \notin S
    BY <1>1, <2>2, EdgeTxFrame DEF EdgeInv
  <2> QED
    BY <2>1, <2>2
<1>3. ASSUME NEW t \in Tx, NEW u \in Tx, t # u PROVE NotSkewed(t, u)'
  <2>1. CASE t \in S \/ u \in S
    BY <2>1 DEF NotSkewed
  <2>2. CASE t \notin S /\ u \notin S
    <3>1. /\ Deletes(t)' = Deletes(t) /\ Created(t)' = Created(t)
          /\ Deletes(u)' = Deletes(u) /\ Created(u)' = Created(u) /\ pc'[t] = pc[t] /\ pc'[u] = pc[u]
      BY <1>1, <2>2, EdgeOpsFrame
    <3> QED
      BY <1>3, <3>1 DEF EdgeInv, NotSkewed, Skewed
  <2> QED
    BY <2>1, <2>2
<1>4. NoDanglingEdge'
  BY DEF EdgeInv, NoDanglingEdge, Live, Store, Latest
<1> QED
  BY <1>2, <1>3, <1>4 DEF EdgeInv

\* Commit up to the version.
LEMMA PrepareEdgeStep ==
    ASSUME TypeInv, CommitInv, EdgeInv, NEW t \in Tx, Prepare(t), "skew" \notin Hazards
    PROVE  EdgeInv'
<1> USE DEF beginVars, bufferVars
<1>1. CASE ~Valid(t)
  <2>1. Quit(t) /\ UNCHANGED commits
    BY <1>1 DEF Prepare
  <2>2. pc'[t] = "closed" /\ \A u \in Tx \ {t} : pc'[u] = pc[u]
    BY <2>1 DEF Quit, TypeInv, BeginTypes
  <2> QED
    BY <2>1, <2>2, CloseEdgeStep DEF Quit
<1>2. CASE Valid(t)
  <2>1. /\ pc[t] = "active" /\ pc'[t] = "prepared" /\ \A u \in Tx \ {t} : pc'[u] = pc[u]
        /\ UNCHANGED <<commits, ops, pending, deleted, reads, snap, base>>
        /\ \A u \in Tx \ {t} : pc[u] = "prepared" => ~Skewed(t, u)
    BY <1>2 DEF Prepare, TypeInv, BeginTypes
  <2>2. TxInv(t) /\ BaseBody(t) /\ OpsInv(t) /\ SnapBody(t) /\ SnapBase(t)
    BY <2>1 DEF CommitInv, TxInv, EdgeInv, EdgeTxInv, BodyInv
  <2>3. Stale(t) \/ (TakesLive(t) /\ Attaches(t) /\ Updates(t))
    BY <1>2, <2>2, ValidIsSafe
  <2>4. /\ Touched(t)' = Touched(t) /\ Deletes(t)' = Deletes(t) /\ Kept(t)' = Kept(t)
        /\ Created(t)' = Created(t) /\ HeadReads(t)' = HeadReads(t) /\ Store' = Store
    BY <2>1, EdgeOpsFrame, OpsFrame DEF Store, Latest
  <2>5. PreparedInv(t)'
    BY <2>1, <2>3, <2>4 DEF PreparedInv, Stale, TakesLive, Attaches, Updates, Live
  <2>6. OpsInv(t)'
    BY <2>1, <2>2, OpsInvFrame
  <2>7. BodyInv(t)'
    BY <2>1, <2>2, <2>4 DEF BodyInv, SnapBody, SnapBase
  <2>8. ASSUME NEW u \in Tx \ {t} PROVE NotSkewed(t, u)' /\ NotSkewed(u, t)'
    <3>1. Deletes(u)' = Deletes(u) /\ Created(u)' = Created(u)
      BY <2>1, EdgeOpsFrame
    <3> QED
      BY <2>1, <2>4, <3>1 DEF NotSkewed, Skewed
  <2> QED
    BY <2>1, <2>5, <2>6, <2>7, <2>8, EdgeStep DEF EdgeTxInv
<1> QED
  BY <1>1, <1>2

\* A transaction publishes.  Whoever is past validation shares no key with it,
\* or is stale now; and then neither takes a node from an edge of the other.
LEMMA PublishEdgeStep ==
    ASSUME TypeInv, CommitInv', EdgeInv, NEW t \in Tx, Publish(t), ~Stale(t)
    PROVE  EdgeInv'
<1> USE DEF beginVars, bufferVars
<1>1. PICK early \in BOOLEAN, c \in CommitType :
         /\ commits' = Append(commits, c)
         /\ c.db = Published(t, early) /\ c.keys = Written(t)
         /\ pc[t] = "prepared" /\ pc'[t] = "published" /\ \A u \in Tx \ {t} : pc'[u] = pc[u]
         /\ UNCHANGED <<beginVars, bufferVars, commitVars, sequence, persisted>>
  BY PublishCommit
<1>2. UNCHANGED <<ops, pending, deleted, reads, snap, base>>
  BY <1>1
<1>3. /\ Len(commits) \in Nat /\ Len(commits') = Len(commits) + 1 /\ commits'[Len(commits) + 1] = c
      /\ \A i \in 1 .. Len(commits) : commits'[i] = commits[i]
      /\ Store' = Published(t, early)
  BY <1>1, AppendCommit DEF TypeInv
<1>4. ASSUME NEW k \in Entity
      PROVE  /\ k \in c.keys <=> k \in Touched(t)
             /\ k \notin Touched(t) => (Live(Store, k)' <=> Live(Store, k)) /\ c.db.body[k] = Store.body[k]
             /\ k \in Touched(t) => (Live(Store, k)' <=> k \notin Deletes(t))
  <2>1. k \in c.keys <=> k \in Touched(t)
    BY <1>1, MVCCAssumption DEF Written
  <2> QED
    BY <1>1, <1>3, <2>1, PublishedFields DEF Live
<1>5. TakesLive(t) /\ Attaches(t) /\ Updates(t)
  BY <1>1 DEF EdgeInv, EdgeTxInv, PreparedInv
<1>6. NoDanglingEdge'
  <2>1. ASSUME NEW e \in Edge, Live(Store, e)', NEW n \in Ends[e] PROVE Live(Store, n)'
    <3>1. e \in Entity /\ n \in Node /\ n \in Entity /\ e \in Incident(n) /\ Deletes(t) \subseteq Touched(t)
      BY <2>1, OpSetTypes DEF Incident
    <3>2. CASE e \in Touched(t)
      <4>1. e \in Kept(t)
        BY <1>4, <2>1, <3>1, <3>2 DEF Kept
      <4>2. n \notin Deletes(t) /\ (n \in Touched(t) \/ Live(Store, n))
        BY <1>5, <2>1, <4>1 DEF Attaches
      <4> QED
        BY <1>4, <3>1, <4>2
    <3>3. CASE e \notin Touched(t)
      <4>1. Live(Store, e)
        BY <1>4, <2>1, <3>1, <3>3
      <4>2. Live(Store, n) /\ n \notin Deletes(t)
        BY <1>5, <2>1, <3>1, <3>3, <4>1 DEF EdgeInv, NoDanglingEdge, TakesLive
      <4> QED
        BY <1>4, <3>1, <4>2
    <3> QED
      BY <3>2, <3>3
  <2> QED
    BY <2>1 DEF NoDanglingEdge
<1>7. ASSUME NEW u \in Tx PROVE OpsInv(u)' /\ BodyInv(u)'
  <2>1. pc'[u] = pc[u] \/ pc'[u] = "published"
    BY <1>1
  <2> QED
    BY <1>1, <1>2, <1>4, <2>1, EdgeAppend DEF EdgeInv, EdgeTxInv
<1>8. ASSUME NEW u \in Tx PROVE PreparedInv(u)'
  <2>1. CASE pc'[u] # "prepared"
    BY <2>1 DEF PreparedInv
  <2>2. CASE Stale(u)'
    BY <2>2 DEF PreparedInv
  <2>3. CASE pc'[u] = "prepared" /\ ~Stale(u)'
    <3>1. u # t /\ pc[u] = "prepared"
      BY <1>1, <2>3
    <3>2. /\ Touched(u)' = Touched(u) /\ Deletes(u)' = Deletes(u) /\ Kept(u)' = Kept(u)
          /\ Created(u)' = Created(u) /\ HeadReads(u)' = HeadReads(u)
      BY <1>2, EdgeOpsFrame, OpsFrame
    <3>3. ~Stale(u)
      <4>0. base'[u] = base[u] /\ base[u] \in 1 .. Len(commits)
        BY <1>2 DEF TypeInv, BeginTypes
      <4>1. ASSUME NEW i \in base[u] + 1 .. Len(commits)
            PROVE  i \in base'[u] + 1 .. Len(commits') /\ commits'[i] = commits[i]
        BY <1>3, <4>0
      <4> QED
        BY <1>2, <2>3, <3>2, <4>1 DEF Stale
    <3>4. TakesLive(u) /\ Attaches(u) /\ Updates(u)
      BY <3>1, <3>3 DEF EdgeInv, EdgeTxInv, PreparedInv
    <3>5. \A k \in Touched(u) : k \notin Touched(t)
      <4>1. Checked(u)'
        BY <2>3 DEF CommitInv, TxInv
      <4>2. Len(commits) + 1 \in snap'[u] + 1 .. Len(commits')
        BY <1>2, <1>3 DEF TypeInv, BeginTypes
      <4>3. \A k \in Touched(u) : k \notin c.keys
        BY <1>3, <2>3, <3>2, <4>1, <4>2 DEF Checked
      <4> QED
        BY <1>4, <4>3, OpSetTypes
    <3>6. ~Skewed(t, u)
      BY <1>1, <3>1 DEF EdgeInv, NotSkewed
    <3>7. TakesLive(u)'
      <4>1. ASSUME NEW n \in Node \cap Deletes(u), NEW e \in Incident(n), Live(Store, e)'
            PROVE  e \in Touched(u)
        <5>1. e \in Edge /\ e \in Entity /\ n \in Ends[e]
          BY <4>1, OpSetTypes DEF Incident
        <5>2. CASE Live(Store, e)
          BY <3>4, <4>1, <5>2 DEF TakesLive
        <5>3. CASE ~Live(Store, e)
          <6>1. e \in Kept(t)
            BY <1>4, <4>1, <5>1, <5>3 DEF Kept
          <6>2. e \in Created(t)
            BY <1>5, <5>1, <5>3, <6>1 DEF Updates
          <6> QED
            BY <3>6, <4>1, <5>1, <6>2 DEF Skewed
        <5> QED
          BY <5>2, <5>3
      <4> QED
        BY <3>2, <4>1 DEF TakesLive
    <3>8. Attaches(u)'
      <4>1. ASSUME NEW e \in Edge \cap Kept(u), NEW n \in Ends[e]
            PROVE  n \notin Deletes(u) /\ (n \in Touched(u) \/ Live(Store, n)')
        <5>1. n \in Node /\ n \in Entity /\ e \in Incident(n) /\ e \in Touched(u)
          BY <4>1, OpSetTypes DEF Incident, Kept
        <5>2. n \notin Deletes(u) /\ (n \in Touched(u) \/ Live(Store, n))
          BY <3>4, <4>1 DEF Attaches
        <5>3. n \notin Deletes(t)
          <6>1. CASE e \in Created(u)
            BY <3>6, <4>1, <6>1 DEF Skewed
          <6>2. CASE e \notin Created(u)
            <7>1. Live(Store, e)
              BY <3>4, <4>1, <6>2 DEF Updates
            <7> QED
              BY <1>5, <3>5, <5>1, <7>1 DEF TakesLive
          <6> QED
            BY <6>1, <6>2
        <5> QED
          BY <1>4, <5>1, <5>2, <5>3
      <4> QED
        BY <3>2, <4>1 DEF Attaches
    <3>9. Updates(u)'
      <4>1. ASSUME NEW e \in (Edge \cap Kept(u)) \ Created(u) PROVE Live(Store, e)'
        <5>1. e \in Entity /\ e \in Touched(u)
          BY <4>1, OpSetTypes DEF Kept
        <5> QED
          BY <1>4, <3>4, <3>5, <4>1, <5>1 DEF Updates
      <4> QED
        BY <3>2, <4>1 DEF Updates
    <3> QED
      BY <3>7, <3>8, <3>9 DEF PreparedInv
  <2> QED
    BY <2>1, <2>2, <2>3
<1>9. ASSUME NEW u \in Tx, NEW w \in Tx, u # w PROVE NotSkewed(u, w)'
  <2>1. Deletes(u)' = Deletes(u) /\ Created(u)' = Created(u) /\ Deletes(w)' = Deletes(w) /\ Created(w)' = Created(w)
    BY <1>2, EdgeOpsFrame
  <2>2. \A x \in Tx : pc'[x] = "prepared" => pc[x] = "prepared"
    BY <1>1
  <2> QED
    BY <1>9, <2>1, <2>2 DEF EdgeInv, NotSkewed, Skewed
<1> QED
  BY <1>6, <1>7, <1>8, <1>9 DEF EdgeInv, EdgeTxInv

\* The pruner leaves every body.
LEMMA PruneEdgeStep ==
    ASSUME TypeInv, EdgeInv, DeleteMVCCVersion \/ WriteMVCCHead
    PROVE  EdgeInv'
<1> USE DEF beginVars, bufferVars
<1>1. PICK c \in CommitType :
         /\ commits' = Append(commits, c)
         /\ c.db.body = Store.body
         /\ UNCHANGED <<pc, ops, pending, deleted, reads, snap, base>>
  BY WriteCommit
<1>2. /\ Len(commits) \in Nat /\ Len(commits') = Len(commits) + 1
      /\ \A i \in 1 .. Len(commits) : commits'[i] = commits[i]
      /\ Store' = c.db
  BY <1>1, AppendCommit DEF TypeInv
<1>3. \A k \in Entity : Live(Store, k)' <=> Live(Store, k)
  BY <1>1, <1>2 DEF Live
<1>4. ASSUME NEW u \in Tx PROVE OpsInv(u)' /\ BodyInv(u)'
  BY <1>1, EdgeAppend DEF EdgeInv, EdgeTxInv
<1>5. ASSUME NEW u \in Tx PROVE PreparedInv(u)'
  <2>1. /\ Touched(u)' = Touched(u) /\ Deletes(u)' = Deletes(u) /\ Kept(u)' = Kept(u)
        /\ Created(u)' = Created(u) /\ HeadReads(u)' = HeadReads(u)
    BY <1>1, EdgeOpsFrame, OpsFrame
  <2>2. Stale(u) => Stale(u)'
    <3>0. base'[u] = base[u] /\ base[u] \in 1 .. Len(commits)
      BY <1>1 DEF TypeInv, BeginTypes
    <3>1. ASSUME NEW i \in base[u] + 1 .. Len(commits)
          PROVE  i \in base'[u] + 1 .. Len(commits') /\ commits'[i] = commits[i]
      BY <1>2, <3>0
    <3> QED
      BY <1>1, <2>1, <3>1 DEF Stale
  <2>3. TakesLive(u) => TakesLive(u)'
    BY <1>3, <2>1, OpSetTypes DEF TakesLive
  <2>4. Attaches(u) => Attaches(u)'
    BY <1>3, <2>1, OpSetTypes DEF Attaches
  <2>5. Updates(u) => Updates(u)'
    BY <1>3, <2>1, OpSetTypes DEF Updates
  <2> QED
    BY <1>1, <2>2, <2>3, <2>4, <2>5 DEF EdgeInv, EdgeTxInv, PreparedInv
<1>6. ASSUME NEW u \in Tx, NEW w \in Tx, u # w PROVE NotSkewed(u, w)'
  <2>1. Deletes(u)' = Deletes(u) /\ Created(u)' = Created(u) /\ Deletes(w)' = Deletes(w) /\ Created(w)' = Created(w)
    BY <1>1, EdgeOpsFrame
  <2> QED
    BY <1>1, <1>6, <2>1 DEF EdgeInv, NotSkewed, Skewed
<1>7. NoDanglingEdge'
  <2>1. Edge \subseteq Entity /\ \A e \in Edge : Ends[e] \subseteq Entity
    BY MVCCAssumption DEF Entity
  <2> QED
    BY <1>3, <2>1 DEF EdgeInv, NoDanglingEdge
<1> QED
  BY <1>4, <1>5, <1>6, <1>7 DEF EdgeInv, EdgeTxInv

\* The step of every action.
LEMMA NextEdgeInv ==
    ASSUME Hazards \cap {"recreate", "afterdelete", "detach", "upsert", "skew"} = {}
    PROVE  TypeInv /\ CommitInv /\ CommitInv' /\ SnapshotIsWhole /\ EdgeInv /\ [LifecycleNext]_lifecycleVars
             => EdgeInv'
<1> SUFFICES ASSUME TypeInv, CommitInv, CommitInv', SnapshotIsWhole, EdgeInv, [LifecycleNext]_lifecycleVars
             PROVE  EdgeInv'
  OBVIOUS
<1> USE DEF beginVars, bufferVars
<1>1. ASSUME NEW t \in Tx, Quit(t), UNCHANGED commits PROVE EdgeInv'
  <2>1. pc'[t] = "closed" /\ \A u \in Tx \ {t} : pc'[u] = pc[u]
    BY <1>1 DEF Quit, TypeInv, BeginTypes
  <2> QED
    BY <1>1, <2>1, CloseEdgeStep DEF Quit
<1>2. ASSUME NEW t \in Tx, PersistSequence(t) \/ Rollback(t) PROVE EdgeInv'
  <2>1. Quit(t) /\ UNCHANGED commits
    BY <1>2 DEF PersistSequence, Rollback, Quit
  <2> QED
    BY <1>1, <2>1
<1>3. ASSUME NEW t \in Tx, PublishBesidePrune(t) PROVE EdgeInv'
  <2>1. CASE Stale(t)
    BY <1>1, <1>3, <2>1 DEF PublishBesidePrune, Publish
  <2>2. CASE ~Stale(t)
    BY <1>3, <2>2, PublishEdgeStep DEF PublishBesidePrune
  <2> QED
    BY <2>1, <2>2
<1>4. ASSUME Crash PROVE EdgeInv'
  <2>1. \A t \in Tx : pc'[t] \in {"none", "closed"}
    BY <1>4 DEF Crash
  <2> QED
    BY <1>4, <2>1, CloseEdgeStep DEF Crash
<1>5. CASE Fence \/ (\E k \in Entity : Plan(k)) \/ UNCHANGED lifecycleVars
  <2>1. UNCHANGED <<commits, ops, pending, deleted, reads, snap, base, pc>>
    BY <1>5 DEF Fence, Plan, lifecycleVars, vars
  <2>2. \A t \in Tx : EdgeTxInv(t)'
    BY <2>1, EdgeTxFrame DEF EdgeInv
  <2>3. ASSUME NEW u \in Tx, NEW w \in Tx, u # w PROVE NotSkewed(u, w)'
    <3>1. Deletes(u)' = Deletes(u) /\ Created(u)' = Created(u) /\ Deletes(w)' = Deletes(w) /\ Created(w)' = Created(w)
      BY <2>1, EdgeOpsFrame
    <3> QED
      BY <2>1, <2>3, <3>1 DEF EdgeInv, NotSkewed, Skewed
  <2>4. NoDanglingEdge'
    BY <2>1 DEF EdgeInv, NoDanglingEdge, Live, Store, Latest
  <2> QED
    BY <2>2, <2>3, <2>4 DEF EdgeInv
<1> QED
  BY <1>2, <1>3, <1>4, <1>5, BeginEdgeStep, OperateEdgeStep, PrepareEdgeStep, PruneEdgeStep DEF LifecycleNext

\* checkNodeAdjacencyConflict, checkEdgeEndpointConflicts and the cascade of
\* DeleteNode together: whatever transactions delete, create and update at the
\* same time, every edge stored has its nodes, if the situations named in Hazards
\* are excluded ("archive", which is about history, is not needed).
THEOREM EdgesKeepNodes ==
    ASSUME Hazards \cap {"recreate", "afterdelete", "detach", "upsert", "skew", "blind",
                         "late", "crash", "fence"} = {}
    PROVE  LifecycleSpec => []NoDanglingEdge
<1>1. "blind" \notin Hazards
  OBVIOUS
<1>2. LifecycleSpec => []SnapshotIsWhole
  BY SnapshotsAreWhole
<1>3. LifecycleSpec => []CommitInv
  BY <1>1, InitCommitInv, NextCommitInv, TypeInvAlways, PTL DEF LifecycleSpec
<1>4. Hazards \cap {"recreate", "afterdelete", "detach", "upsert", "skew"} = {}
  OBVIOUS
<1>5. EdgeInv => NoDanglingEdge
  BY DEF EdgeInv
<1> QED
  BY <1>2, <1>3, <1>4, <1>5, InitEdgeInv, NextEdgeInv, TypeInvAlways, PTL DEF LifecycleSpec

-----------------------------------------------------------------------------
(***************************************************************************)
(* Label counts.  A transaction keeps the difference it makes; the counter *)
(* it adds it to is the one of its Badger transaction, which has read it.  *)
(***************************************************************************)
\* The labelled nodes a transaction creates, and those it takes away.
Adds(t) == Labelled \cap Kept(t) \cap Created(t)
Removes(t) == (Labelled \cap Deletes(t)) \ Created(t)

Difference(t) == count[t] = Cardinality(Adds(t)) - Cardinality(Removes(t))

CounterRead(t) == Recounts(t) => LabelCount \in reads[t]

\* What is created was not there, the rest was.
AsBefore(t, db) ==
    /\ \A n \in Node \cap Created(t) : ~Live(db, n)
    /\ \A n \in (Node \cap Touched(t)) \ Created(t) : Live(db, n)

CountOps(t) == Difference(t) /\ CounterRead(t) /\ AsBefore(t, commits[snap[t]].db)

BaseCount(t) ==
    (\A i \in base[t] + 1 .. Len(commits) : LabelCount \notin commits[i].keys)
        => Store.count = commits[base[t]].db.count

CountTxInv(t) ==
    /\ CountOps(t)
    /\ pc[t] \in {"active", "prepared"} => BaseCount(t)
    /\ pc[t] = "prepared" => Stale(t) \/ AsBefore(t, Store)

CountInv == (\A t \in Tx : CountTxInv(t)) /\ LabelCountExact

\* The sets that are counted are finite.
LEMMA CountedFinite ==
    ASSUME NEW S \in SUBSET Labelled
    PROVE  IsFiniteSet(S) /\ Cardinality(S) \in Nat
BY MVCCAssumption, FS_Subset, FS_CardinalityType

\* Before a transaction logs an operation on a node: the node is pending, or
\* deleted, or it has not touched it.
LEMMA NodeState ==
    ASSUME TypeInv, NEW t \in Tx, OpsInv(t), NEW n \in Node
    PROVE  /\ n \in pending[t] <=> n \in Kept(t)
           /\ n \in Deletes(t) => n \in deleted[t]
           /\ n \notin pending[t] /\ n \notin deleted[t] => n \notin Touched(t)
           /\ n \in Created(t) => n \in Touched(t)
<1>1. n \in pending[t] <=> n \in Kept(t)
  BY OpSetTypes DEF OpsInv, Buffered
<1>2. n \in Deletes(t) => n \in deleted[t]
  BY DEF OpsInv, TakesAlong
<1>3. n \in Created(t) => n \in Touched(t)
  BY DEF Created, Touched, Touches
<1> QED
  BY <1>1, <1>2, <1>3 DEF Kept

\* After an operation that is not about a labelled node, or is an update of one
\* that is not deleted, the difference is the same.
LEMMA CountSame ==
    ASSUME TypeInv, NEW t \in Tx, NEW op \in OpType, Log(t, op),
           op.key \in Edge \/ (op.kind = "update" /\ op.key \notin Deletes(t)) \/ op.key \notin Labelled,
           op.gone \subseteq Edge
    PROVE  Adds(t)' = Adds(t) /\ Removes(t)' = Removes(t)
<1>1. \A n \in Labelled : n \in Node /\ n \in Entity /\ n \notin Edge
  BY MVCCAssumption DEF Entity
<1>2. /\ Touched(t)' = Touched(t) \cup Touches(op)
      /\ Created(t)' = Created(t) \cup {k \in {op.key} : op.kind = "create"}
      /\ \A k \in Entity : /\ k \in Touches(op) => (k \in Deletes(t)' <=> op.kind = "delete")
                           /\ k \notin Touches(op) => (k \in Deletes(t)' <=> k \in Deletes(t))
  BY OpSets DEF TypeInv
<1>3. Touches(op) = {op.key} \cup op.gone
  BY DEF Touches
<1>4. ASSUME NEW n \in Labelled
      PROVE  /\ n \in Created(t)' <=> n \in Created(t)
             /\ n \in Deletes(t)' <=> n \in Deletes(t)
             /\ n \in Created(t) => n \in Touched(t)' /\ n \in Touched(t)
  <2>1. n \in Created(t) => n \in Touched(t)
    BY DEF Created, Touched, Touches
  <2>2. CASE n = op.key
    BY <1>1, <1>2, <1>3, <2>1, <2>2
  <2>3. CASE n # op.key
    BY <1>1, <1>2, <1>3, <2>1, <2>3
  <2> QED
    BY <2>2, <2>3
<1> QED
  BY <1>4 DEF Adds, Removes, Kept

\* A labelled node is created, or deleted.
LEMMA CountChanges ==
    ASSUME TypeInv, NEW t \in Tx, OpsInv(t), NEW op \in OpType, Log(t, op),
           op.key \in Labelled, op.key \notin deleted[t], op.gone \subseteq Edge
    PROVE  /\ op.kind = "create" /\ op.key \notin pending[t] =>
                /\ Cardinality(Adds(t)') = Cardinality(Adds(t)) + 1
                /\ Cardinality(Removes(t)') = Cardinality(Removes(t))
           /\ op.kind = "delete" =>
                Cardinality(Adds(t)') - Cardinality(Removes(t)')
                    = Cardinality(Adds(t)) - Cardinality(Removes(t)) - 1
<1> DEFINE x == op.key
<1>1. \A n \in Labelled : n \in Node /\ n \in Entity /\ n \notin Edge
  BY MVCCAssumption DEF Entity
<1>2. /\ Touched(t)' = Touched(t) \cup Touches(op)
      /\ Created(t)' = Created(t) \cup {k \in {op.key} : op.kind = "create"}
      /\ \A k \in Entity : /\ k \in Touches(op) => (k \in Deletes(t)' <=> op.kind = "delete")
                           /\ k \notin Touches(op) => (k \in Deletes(t)' <=> k \in Deletes(t))
  BY OpSets DEF TypeInv
<1>3. Touches(op) = {x} \cup op.gone
  BY DEF Touches
<1>4. /\ x \in Labelled /\ x \notin Deletes(t)
      /\ x \in Created(t) => x \in Kept(t)
      /\ x \notin pending[t] => x \notin Created(t)
  BY <1>1, NodeState DEF Kept
<1> HIDE DEF x
<1>5. ASSUME NEW n \in Labelled, n # x
      PROVE  /\ n \in Created(t)' <=> n \in Created(t)
             /\ n \in Deletes(t)' <=> n \in Deletes(t)
             /\ n \in Touched(t)' <=> n \in Touched(t)
  BY <1>1, <1>2, <1>3, <1>5 DEF x
<1>6. /\ IsFiniteSet(Adds(t)) /\ IsFiniteSet(Removes(t))
      /\ Cardinality(Adds(t)) \in Nat /\ Cardinality(Removes(t)) \in Nat
  BY CountedFinite DEF Adds, Removes
<1>7. ASSUME op.kind = "create", x \notin pending[t]
      PROVE  /\ Cardinality(Adds(t)') = Cardinality(Adds(t)) + 1
             /\ Cardinality(Removes(t)') = Cardinality(Removes(t))
  <2>1. x \in Created(t)' /\ x \notin Deletes(t)' /\ x \in Touched(t)'
    BY <1>1, <1>2, <1>3, <1>4, <1>7 DEF x
  <2>2. Adds(t)' = Adds(t) \cup {x} /\ x \notin Adds(t) /\ Removes(t)' = Removes(t)
    BY <1>4, <1>5, <1>7, <2>1 DEF Adds, Removes, Kept
  <2> QED
    BY <1>6, <2>2, FS_AddElement
<1>8. ASSUME op.kind = "delete"
      PROVE  Cardinality(Adds(t)') - Cardinality(Removes(t)')
                    = Cardinality(Adds(t)) - Cardinality(Removes(t)) - 1
  <2>1. x \in Deletes(t)' /\ (x \in Created(t)' <=> x \in Created(t))
    BY <1>1, <1>2, <1>3, <1>4, <1>8 DEF x
  <2>2. CASE x \in Created(t)
    <3>1. Adds(t)' = Adds(t) \ {x} /\ x \in Adds(t) /\ Removes(t)' = Removes(t)
      BY <1>4, <1>5, <2>1, <2>2 DEF Adds, Removes, Kept
    <3>2. Cardinality(Adds(t) \ {x}) = Cardinality(Adds(t)) - 1
      BY <1>6, <3>1, FS_RemoveElement
    <3>3. Cardinality(Adds(t)') = Cardinality(Adds(t)) - 1 /\ Cardinality(Removes(t)') = Cardinality(Removes(t))
      BY <3>1, <3>2
    <3> QED
      BY <1>6, <3>3
  <2>3. CASE x \notin Created(t)
    <3>1. Adds(t)' = Adds(t) /\ x \notin Removes(t) /\ Removes(t)' = Removes(t) \cup {x}
      BY <1>4, <1>5, <2>1, <2>3 DEF Adds, Removes, Kept
    <3>2. Cardinality(Removes(t) \cup {x}) = Cardinality(Removes(t)) + 1
      BY <1>6, <3>1, FS_AddElement
    <3>3. Cardinality(Adds(t)') = Cardinality(Adds(t)) /\ Cardinality(Removes(t)') = Cardinality(Removes(t)) + 1
      BY <3>1, <3>2
    <3> QED
      BY <1>6, <3>3
  <2> QED
    BY <2>2, <2>3
<1> QED
  BY <1>7, <1>8 DEF x

\* The counter is read with every operation that changes it.
LEMMA CounterReadStep ==
    ASSUME TypeInv, NEW t \in Tx, CounterRead(t), NEW op \in OpType, Log(t, op),
           reads[t] \subseteq reads'[t],
           op.key \in Labelled /\ op.kind # "update" => LabelCount \in reads'[t]
    PROVE  CounterRead(t)'
<1>1. \A i \in DOMAIN ops'[t] : (i \in DOMAIN ops[t] /\ ops'[t][i] = ops[t][i]) \/ ops'[t][i] = op
  BY AppendOp DEF TypeInv
<1> QED
  BY <1>1 DEF CounterRead, Recounts

\* What is created was not there, the rest was.
LEMMA AsBeforeStep ==
    ASSUME TypeInv, NEW t \in Tx, NEW db, AsBefore(t, db), NEW op \in OpType, Log(t, op), op.gone \subseteq Edge,
           op.key \in Node => \/ op.kind # "create" /\ (op.key \in Touched(t) \/ Live(db, op.key))
                              \/ op.kind = "create" /\ ~Live(db, op.key)
    PROVE  /\ \A n \in Node \cap Created(t)' : ~Live(db, n)
           /\ \A n \in (Node \cap Touched(t)') \ Created(t)' : Live(db, n)
<1>1. /\ Touched(t)' = Touched(t) \cup {op.key} \cup op.gone
      /\ Created(t)' = Created(t) \cup {k \in {op.key} : op.kind = "create"}
  BY OpSets DEF TypeInv, Touches
<1>2. \A n \in Node : n \notin Edge
  BY MVCCAssumption
<1> QED
  BY <1>1, <1>2 DEF AsBefore

\* An operation.
LEMMA OperateCount ==
    ASSUME TypeInv, SnapshotIsWhole, NEW t \in Tx, OpsInv(t), CountOps(t), Operate(t),
           Hazards \cap {"recreate", "afterdelete"} = {}
    PROVE  CountOps(t)'
<1>0. /\ pc[t] = "active" /\ UNCHANGED <<commits, snap, base>>
  BY DEF Operate, CreateNode, UpdateNode, DeleteNode, CreateEdge, UpdateEdge, DeleteEdge, Enrol, beginVars
<1> DEFINE db == commits[snap[t]].db
<1>1. /\ t \in Stored /\ None \in Stored /\ Node \subseteq Entity /\ Edge \subseteq Entity
      /\ \A k \in Entity : (IF k \in pending[t] THEN t ELSE Committed(t, k)) \in Stored
      /\ reads \in [Tx -> SUBSET Key] /\ count \in [Tx -> Int]
      /\ Labelled \subseteq Node /\ Node \cap Edge = {}
  BY CommittedType, MVCCAssumption DEF TypeInv, Stored, Content, Entity, BufferTypes
<1>2. \A k \in Entity : Live(db, k) <=> Committed(t, k) # None
  BY <1>0 DEF SnapshotIsWhole, Live
<1>3. \A keys : Enrol(t, keys) => reads'[t] = reads[t] \cup keys
  BY <1>1 DEF Enrol
<1>4. Difference(t) /\ CounterRead(t) /\ AsBefore(t, db)
  BY DEF CountOps
<1>5. \A n \in Labelled : LabelCount \in CountKeys(n)
  BY DEF CountKeys
<1>6. /\ \A S \in SUBSET Labelled : Cardinality(S) \in Nat
      /\ Adds(t) \in SUBSET Labelled /\ Removes(t) \in SUBSET Labelled /\ count[t] \in Int
      /\ Adds(t)' \in SUBSET Labelled /\ Removes(t)' \in SUBSET Labelled
  BY <1>1, CountedFinite DEF Adds, Removes
\* The three parts, for one logged operation.
<1>7. ASSUME NEW op \in OpType, Log(t, op), op.gone \subseteq Edge, NEW keys, Enrol(t, keys),
             op.key \in Labelled /\ op.kind # "update" => LabelCount \in keys,
             op.key \in Node => \/ op.kind # "create" /\ (op.key \in Touched(t) \/ Live(db, op.key))
                                \/ op.kind = "create" /\ ~Live(db, op.key),
             Difference(t)'
      PROVE  CountOps(t)'
  <2>1. CounterRead(t)'
    BY <1>3, <1>4, <1>7, CounterReadStep
  <2>2. /\ \A n \in Node \cap Created(t)' : ~Live(db, n)
        /\ \A n \in (Node \cap Touched(t)') \ Created(t)' : Live(db, n)
    <3> HIDE DEF db
    <3> QED
      BY <1>4, <1>7, AsBeforeStep
  <2>3. AsBefore(t, commits[snap[t]].db)'
    BY <1>0, <2>2 DEF AsBefore, Live
  <2> QED
    BY <1>7, <2>1, <2>3 DEF CountOps
\* Operations that count nothing.
<1>8. ASSUME NEW kind \in {"create", "update", "delete"}, NEW k \in Entity, NEW old \in Stored,
             NEW keys, Enrol(t, keys), Log(t, Op(kind, k, old, {})), UNCHANGED count,
             k \in Edge \/ (kind = "update" /\ k \in Node /\ k \notin Deletes(t) /\ (k \in Touched(t) \/ Live(db, k)))
      PROVE  CountOps(t)'
  <2> DEFINE op == Op(kind, k, old, {})
  <2>1. op \in OpType /\ op.kind = kind /\ op.key = k /\ op.gone = {}
    BY OpRecord
  <2> HIDE DEF op
  <2>2. Adds(t)' = Adds(t) /\ Removes(t)' = Removes(t)
    BY <1>8, <2>1, CountSame DEF op
  <2>3. Difference(t)'
    BY <1>4, <1>8, <2>2 DEF Difference
  <2>4. k \in Edge => k \notin Node /\ k \notin Labelled
    BY <1>1
  <2> HIDE DEF db
  <2> QED
    BY <1>7, <1>8, <2>1, <2>3, <2>4 DEF op
<1>9. ASSUME NEW n \in Node, CreateNode(t, n) PROVE CountOps(t)'
  <2> DEFINE op == Op("create", n, None, {})
  <2>1. /\ Enrol(t, CountKeys(n)) /\ Log(t, op) /\ count' = Counted(t, n, 1)
        /\ n \notin pending[t] /\ n \notin deleted[t] /\ Committed(t, n) = None
    BY <1>9 DEF CreateNode
  <2>2. op \in OpType /\ op.kind = "create" /\ op.key = n /\ op.gone = {}
    BY <1>1, OpRecord
  <2> HIDE DEF op
  <2>3. ~Live(db, n)
    BY <1>1, <1>2, <2>1
  <2>4. Difference(t)'
    <3>1. CASE n \in Labelled
      <4>1. Cardinality(Adds(t)') = Cardinality(Adds(t)) + 1 /\ Cardinality(Removes(t)') = Cardinality(Removes(t))
        BY <2>1, <2>2, <3>1, CountChanges
      <4>2. count'[t] = count[t] + 1
        BY <1>1, <2>1, <3>1 DEF Counted
      <4> QED
        BY <1>4, <1>6, <4>1, <4>2 DEF Difference
    <3>2. CASE n \notin Labelled
      <4>1. Adds(t)' = Adds(t) /\ Removes(t)' = Removes(t)
        BY <2>1, <2>2, <3>2, CountSame
      <4>2. count'[t] = count[t]
        BY <2>1, <3>2 DEF Counted
      <4> QED
        BY <1>4, <4>1, <4>2 DEF Difference
    <3> QED
      BY <3>1, <3>2
  <2> HIDE DEF db
  <2> QED
    BY <1>5, <1>7, <2>1, <2>2, <2>3, <2>4
<1>10. ASSUME NEW n \in Node, DeleteNode(t, n) PROVE CountOps(t)'
  <2> DEFINE old == IF n \in pending[t] THEN t ELSE Committed(t, n)
             gone == {e \in Incident(n) : Live(commits[base[t]].db, e)}
             op == Op("delete", n, old, gone)
             keys == {n} \cup gone \cup CountKeys(n)
  <2>1. /\ Enrol(t, keys) /\ Log(t, op) /\ count' = Counted(t, n, -1)
        /\ n \notin deleted[t] /\ old # None
    BY <1>10 DEF DeleteNode
  <2>2. old \in Stored /\ n \in Entity /\ gone \in SUBSET Edge
    BY <1>1 DEF Incident
  <2>3. n \in Labelled => LabelCount \in keys
    BY <1>5
  <2>4. n \in Touched(t) \/ Live(db, n)
    <3>1. n \in pending[t] => n \in Touched(t)
      BY NodeState DEF Kept
    <3> QED
      BY <1>2, <2>1, <2>2, <3>1
  <2> HIDE DEF old, gone, keys
  <2>5. op \in OpType /\ op.kind = "delete" /\ op.key = n /\ op.gone = gone
    BY <2>2, OpRecord
  <2> HIDE DEF op
  <2>6. Difference(t)'
    <3>1. CASE n \in Labelled
      <4>1. Cardinality(Adds(t)') - Cardinality(Removes(t)')
                    = Cardinality(Adds(t)) - Cardinality(Removes(t)) - 1
        BY <2>1, <2>2, <2>5, <3>1, CountChanges
      <4>2. count'[t] = count[t] - 1
        BY <1>1, <2>1, <3>1 DEF Counted
      <4> QED
        BY <1>4, <1>6, <4>1, <4>2 DEF Difference
    <3>2. CASE n \notin Labelled
      <4>1. Adds(t)' = Adds(t) /\ Removes(t)' = Removes(t)
        BY <2>1, <2>2, <2>5, <3>2, CountSame
      <4>2. count'[t] = count[t]
        BY <2>1, <3>2 DEF Counted
      <4> QED
        BY <1>4, <4>1, <4>2 DEF Difference
    <3> QED
      BY <3>1, <3>2
  <2> HIDE DEF db
  <2> QED
    BY <1>7, <2>1, <2>2, <2>3, <2>4, <2>5, <2>6
<1>11. ASSUME NEW n \in Node, UpdateNode(t, n) PROVE CountOps(t)'
  <2> DEFINE old == IF n \in pending[t] THEN t ELSE Committed(t, n)
  <2>1. /\ Enrol(t, {n} \ pending[t]) /\ Log(t, Op("update", n, old, {})) /\ UNCHANGED count
        /\ n \notin deleted[t] /\ (n \in pending[t] \/ Committed(t, n) # None)
    BY <1>11 DEF UpdateNode
  <2>2. old \in Stored /\ n \in Entity
    BY <1>1
  <2>3. n \notin Deletes(t) /\ (n \in Touched(t) \/ Live(db, n))
    BY <1>2, <2>1, <2>2, NodeState DEF Kept
  <2> HIDE DEF old, db
  <2> QED
    BY <1>8, <2>1, <2>2, <2>3
<1>12. ASSUME NEW e \in Edge, CreateEdge(t, e) PROVE CountOps(t)'
  <2>1. Enrol(t, {}) /\ Log(t, Op("create", e, None, {})) /\ UNCHANGED count
    BY <1>12 DEF CreateEdge
  <2> HIDE DEF db
  <2> QED
    BY <1>1, <1>8, <2>1
<1>13. ASSUME NEW e \in Edge, UpdateEdge(t, e) \/ DeleteEdge(t, e) PROVE CountOps(t)'
  <2> DEFINE old == IF e \in pending[t] THEN t ELSE Committed(t, e)
  <2>1. /\ UNCHANGED count /\ \E keys : Enrol(t, keys)
        /\ Log(t, Op("update", e, old, {})) \/ Log(t, Op("delete", e, old, {}))
    BY <1>13 DEF UpdateEdge, DeleteEdge
  <2>2. old \in Stored /\ e \in Entity
    BY <1>1
  <2> HIDE DEF old, db
  <2> QED
    BY <1>8, <2>1, <2>2
<1> QED
  BY <1>9, <1>10, <1>11, <1>12, <1>13 DEF Operate

\* What the counts are made of, while a transaction issues no operation.
LEMMA CountOpsFrame ==
    ASSUME TypeInv, NEW t \in Tx, CountOps(t),
           ops'[t] = ops[t], reads'[t] = reads[t], count'[t] = count[t], snap'[t] = snap[t],
           \A i \in 1 .. Len(commits) : commits'[i] = commits[i]
    PROVE  CountOps(t)'
<1>1. /\ Touched(t)' = Touched(t) /\ Kept(t)' = Kept(t) /\ Deletes(t)' = Deletes(t) /\ Created(t)' = Created(t)
  BY EdgeOpsFrame
<1>2. Adds(t)' = Adds(t) /\ Removes(t)' = Removes(t)
  BY <1>1 DEF Adds, Removes
<1>3. snap[t] \in 1 .. Len(commits)
  BY DEF TypeInv, BeginTypes
<1>4. commits'[snap'[t]] = commits[snap[t]]
  BY <1>3
<1>5. Difference(t)'
  BY <1>2 DEF CountOps, Difference
<1>6. CounterRead(t)'
  BY DEF CountOps, CounterRead, Recounts
<1>7. AsBefore(t, commits[snap[t]].db)'
  BY <1>1, <1>4 DEF CountOps, AsBefore, Live
<1> QED
  BY <1>5, <1>6, <1>7 DEF CountOps

\* A transaction whose own state and the commits stay as they are.
LEMMA CountTxFrame ==
    ASSUME TypeInv, NEW t \in Tx, CountTxInv(t), UNCHANGED commits,
           ops'[t] = ops[t], reads'[t] = reads[t], count'[t] = count[t],
           snap'[t] = snap[t], base'[t] = base[t], pc'[t] = pc[t]
    PROVE  CountTxInv(t)'
<1>1. CountOps(t)'
  BY CountOpsFrame DEF CountTxInv
<1>2. Store' = Store
  BY DEF Store, Latest
<1>3. Stale(t)' <=> Stale(t)
  BY OpsFrame DEF Stale
<1>4. AsBefore(t, Store) => AsBefore(t, Store)'
  BY <1>2, EdgeOpsFrame DEF AsBefore, Live
<1>5. BaseCount(t) => BaseCount(t)'
  BY <1>2 DEF BaseCount
<1> QED
  BY <1>1, <1>3, <1>4, <1>5 DEF CountTxInv

\* A transaction with nothing buffered makes no difference.
LEMMA CountOpsEmpty ==
    ASSUME NEW t \in Tx, ops'[t] = <<>>, count'[t] = 0
    PROVE  CountOps(t)'
<1>1. DOMAIN ops'[t] = {}
  OBVIOUS
<1>2. Touched(t)' = {} /\ Deletes(t)' = {} /\ Kept(t)' = {} /\ Created(t)' = {} /\ ~Recounts(t)'
  BY <1>1 DEF Touched, Deletes, Kept, Created, Recounts
<1>3. Adds(t)' = {} /\ Removes(t)' = {}
  BY <1>2 DEF Adds, Removes
<1>4. Difference(t)'
  BY <1>3, FS_EmptySet DEF Difference
<1> QED
  BY <1>2, <1>4 DEF CountOps, CounterRead, AsBefore

\* The counter of the store changes with the nodes it counts only.
LEMMA ExactFrame ==
    ASSUME LabelCountExact, Store'.count = Store.count,
           \A n \in Labelled : Live(Store, n)' <=> Live(Store, n)
    PROVE  LabelCountExact'
<1>1. {n \in Labelled : Live(Store, n)'} = {n \in Labelled : Live(Store, n)}
  OBVIOUS
<1> QED
  BY <1>1 DEF LabelCountExact

\* At first.
LEMMA InitCountInv == LifecycleInit => CountInv
<1> SUFFICES ASSUME LifecycleInit PROVE CountInv
  OBVIOUS
<1>1. PICK S \in SUBSET Entity :
        commits = << [db |-> [body |-> [k \in Entity |-> IF k \in S THEN Old ELSE None],
                              head |-> [k \in Entity |-> IF k \in S THEN HeadRecord(1, FALSE, 1) ELSE NoHead],
                              ver |-> [k \in Entity |-> {}],
                              count |-> Cardinality(S \cap Labelled)],
                      keys |-> Entity, heads |-> {}, seq |-> 1, snap |-> 0] >>
  BY DEF LifecycleInit, Init
<1>2. Store.count = Cardinality(S \cap Labelled) /\ \A k \in Entity : Store.body[k] = IF k \in S THEN Old ELSE None
  <2> DEFINE d == [body |-> [k \in Entity |-> IF k \in S THEN Old ELSE None],
                   head |-> [k \in Entity |-> IF k \in S THEN HeadRecord(1, FALSE, 1) ELSE NoHead],
                   ver |-> [k \in Entity |-> {}],
                   count |-> Cardinality(S \cap Labelled)]
             c == [db |-> d, keys |-> Entity, heads |-> {}, seq |-> 1, snap |-> 0]
  <2>1. commits = <<c>>
    BY <1>1
  <2>2. c.db = d
    OBVIOUS
  <2> HIDE DEF c
  <2>3. Store = d
    BY <2>1, <2>2 DEF Store, Latest
  <2>4. d.count = Cardinality(S \cap Labelled) /\ \A k \in Entity : d.body[k] = IF k \in S THEN Old ELSE None
    OBVIOUS
  <2> HIDE DEF d
  <2> QED
    BY <2>3, <2>4
<1>3. LabelCountExact
  <2>1. Old # None /\ Labelled \subseteq Entity
    BY MVCCAssumption DEF Content, Entity
  <2>2. {n \in Labelled : Live(Store, n)} = S \cap Labelled
    BY <1>2, <2>1 DEF Live
  <2> QED
    BY <1>2, <2>2 DEF LabelCountExact
<1>4. ASSUME NEW t \in Tx PROVE CountTxInv(t)
  <2>1. ops[t] = <<>> /\ count[t] = 0 /\ pc[t] = "none"
    BY DEF LifecycleInit, Init
  <2>2. DOMAIN ops[t] = {}
    BY <2>1
  <2>3. Touched(t) = {} /\ Deletes(t) = {} /\ Kept(t) = {} /\ Created(t) = {} /\ ~Recounts(t)
    BY <2>2 DEF Touched, Deletes, Kept, Created, Recounts
  <2>4. Adds(t) = {} /\ Removes(t) = {}
    BY <2>3 DEF Adds, Removes
  <2>5. Difference(t)
    BY <2>1, <2>4, FS_EmptySet DEF Difference
  <2> QED
    BY <2>1, <2>3, <2>5 DEF CountTxInv, CountOps, CounterRead, AsBefore
<1> QED
  BY <1>3, <1>4 DEF CountInv

\* A step of one transaction that commits nothing.
LEMMA CountStep ==
    ASSUME TypeInv, CountInv, NEW t \in Tx, UNCHANGED commits, CountTxInv(t)',
           \A u \in Tx \ {t} : /\ ops'[u] = ops[u] /\ reads'[u] = reads[u] /\ count'[u] = count[u]
                               /\ snap'[u] = snap[u] /\ base'[u] = base[u] /\ pc'[u] = pc[u]
    PROVE  CountInv'
<1>1. \A u \in Tx \ {t} : CountTxInv(u)'
  BY CountTxFrame DEF CountInv
<1>2. LabelCountExact'
  BY DEF CountInv, LabelCountExact, Live, Store, Latest
<1> QED
  BY <1>1, <1>2 DEF CountInv

\* Begin: the Badger transaction starts from the counter there is.
LEMMA BeginCountStep ==
    ASSUME TypeInv, CountInv, NEW t \in Tx, BeginTransaction(t)
    PROVE  CountInv'
<1> USE DEF beginVars, bufferVars
<1>1. /\ UNCHANGED <<commits, ops, count, reads>> /\ pc[t] \in {"none", "pinned", "numbered"}
      /\ pc'[t] \in {"pinned", "numbered"} \/ (pc'[t] = "active" /\ base'[t] = Len(commits))
      /\ \A u \in Tx \ {t} : pc'[u] = pc[u] /\ snap'[u] = snap[u] /\ base'[u] = base[u]
  BY DEF BeginTransaction, BeginSnapshot, BeginSequence, BeginWriter, TypeInv, BeginTypes
<1>2. ops'[t] = <<>> /\ count'[t] = 0
  BY <1>1 DEF TypeInv, IdleBuffers, Idle
<1>3. CountOps(t)'
  BY <1>2, CountOpsEmpty
<1>4. pc'[t] = "active" => BaseCount(t)'
  BY <1>1 DEF BaseCount, Store, Latest
<1>5. CountTxInv(t)'
  BY <1>1, <1>3, <1>4 DEF CountTxInv
<1> QED
  BY <1>1, <1>5, CountStep

\* The last operation on a node is about the node.
LEMMA LastOfNode ==
    ASSUME TypeInv, NEW t \in Tx, NEW n \in Node, n \in Touched(t)
    PROVE  \E i \in DOMAIN ops[t] : ops[t][i] = LastOp(t, n) /\ ops[t][i].key = n
<1> DEFINE S == Numbers(t, n)
<1>1. S # {} /\ S \in SUBSET Nat /\ \A s \in S : s <= Len(ops[t])
  BY OpFields DEF Touched, Numbers, TypeInv
<1>2. Len(ops[t]) \in Nat
  BY LenProperties DEF TypeInv, BufferTypes
<1> HIDE DEF S
<1>3. MaxOf(S) \in S
  BY <1>1, <1>2, MaxOfNats
<1>4. MaxOf(S) \in DOMAIN ops[t] /\ n \in Touches(ops[t][MaxOf(S)]) /\ LastOp(t, n) = ops[t][MaxOf(S)]
  BY <1>3 DEF S, Numbers, LastOp
<1>5. n \notin ops[t][MaxOf(S)].gone
  BY <1>4, OpFields, OpSetTypes DEF TypeInv
<1> QED
  BY <1>4, <1>5 DEF Touches

\* An operation.
LEMMA OperateCountStep ==
    ASSUME TypeInv, SnapshotIsWhole, EdgeInv, CountInv, NEW t \in Tx, Operate(t),
           Hazards \cap {"recreate", "afterdelete"} = {}
    PROVE  CountInv'
<1>1. pc[t] = "active" /\ UNCHANGED <<commits, pc, snap, base>>
  BY DEF Operate, CreateNode, UpdateNode, DeleteNode, CreateEdge, UpdateEdge, DeleteEdge, Enrol, beginVars
<1>2. \A u \in Tx \ {t} : reads'[u] = reads[u] /\ ops'[u] = ops[u]
  <2>1. (\E keys : Enrol(t, keys)) /\ (\E op : Log(t, op))
    BY DEF Operate, CreateNode, UpdateNode, DeleteNode, CreateEdge, UpdateEdge, DeleteEdge
  <2> QED
    BY <2>1 DEF Enrol, Log, TypeInv, BufferTypes
<1>3. \A u \in Tx \ {t} : count'[u] = count[u]
  <2>1. count' = count \/ \E x : count' = [count EXCEPT ![t] = x]
    BY DEF Operate, CreateNode, UpdateNode, DeleteNode, CreateEdge, UpdateEdge, DeleteEdge, Counted
  <2> QED
    BY <2>1 DEF TypeInv, BufferTypes
<1>4. CountOps(t)'
  BY OperateCount DEF EdgeInv, EdgeTxInv, CountInv, CountTxInv
<1>5. BaseCount(t)'
  BY <1>1 DEF CountInv, CountTxInv, BaseCount, Store, Latest
<1>6. CountTxInv(t)'
  BY <1>1, <1>4, <1>5 DEF CountTxInv
<1> QED
  BY <1>1, <1>2, <1>3, <1>6, CountStep

\* Transactions that are closed.
LEMMA CloseCountStep ==
    ASSUME TypeInv, CountInv, NEW S \in SUBSET Tx, Close(S), UNCHANGED commits,
           \A t \in S : pc'[t] \in {"none", "closed"}, \A t \in Tx \ S : pc'[t] = pc[t]
    PROVE  CountInv'
<1>1. /\ \A t \in S : ops'[t] = <<>> /\ count'[t] = 0
      /\ \A t \in Tx \ S : /\ ops'[t] = ops[t] /\ count'[t] = count[t]
                           /\ reads'[t] = reads[t] /\ snap'[t] = snap[t] /\ base'[t] = base[t]
  BY DEF Close
<1>2. ASSUME NEW t \in Tx PROVE CountTxInv(t)'
  <2>1. CASE t \in S
    BY <1>1, <2>1, CountOpsEmpty DEF CountTxInv
  <2>2. CASE t \notin S
    BY <1>1, <2>2, CountTxFrame DEF CountInv
  <2> QED
    BY <2>1, <2>2
<1>3. LabelCountExact'
  BY DEF CountInv, LabelCountExact, Live, Store, Latest
<1> QED
  BY <1>2, <1>3 DEF CountInv

\* Validation: a node that a valid transaction has touched is as it was in the
\* snapshot.
LEMMA PrepareCountStep ==
    ASSUME TypeInv, CommitInv, EdgeInv, CountInv, NEW t \in Tx, Prepare(t)
    PROVE  CountInv'
<1> USE DEF beginVars, bufferVars
<1>1. CASE ~Valid(t)
  <2>1. Quit(t) /\ UNCHANGED commits
    BY <1>1 DEF Prepare
  <2>2. pc'[t] = "closed" /\ \A u \in Tx \ {t} : pc'[u] = pc[u]
    BY <2>1 DEF Quit, TypeInv, BeginTypes
  <2> QED
    BY <2>1, <2>2, CloseCountStep DEF Quit
<1>2. CASE Valid(t)
  <2>1. /\ pc[t] = "active" /\ pc'[t] = "prepared" /\ \A u \in Tx \ {t} : pc'[u] = pc[u]
        /\ UNCHANGED <<commits, ops, reads, count, snap, base>>
    BY <1>2 DEF Prepare, TypeInv, BeginTypes
  <2>2. TxInv(t) /\ BaseBody(t) /\ Logged(t) /\ SnapBody(t) /\ CountOps(t) /\ BaseCount(t)
    BY <2>1 DEF CommitInv, TxInv, EdgeInv, EdgeTxInv, BodyInv, CountInv, CountTxInv
  <2>3. ASSUME ~Stale(t) PROVE AsBefore(t, Store)
    <3>1. ASSUME NEW k \in Touched(t), k \in Entity PROVE Store.body[k] = commits[snap[t]].db.body[k]
      <4>1. ~HeadConflict(t, k)
        BY <1>2, <2>2, <2>3, ValidIsChecked
      <4> QED
        BY <2>2, <3>1, <4>1 DEF HeadConflict, SnapBody
    <3>2. Created(t) \subseteq Touched(t) /\ Touched(t) \subseteq Entity
      BY OpSetTypes DEF Created, Touched, Touches
    <3> QED
      BY <2>2, <3>1, <3>2 DEF CountOps, AsBefore, Live
  <2>4. /\ Touched(t)' = Touched(t) /\ Created(t)' = Created(t) /\ HeadReads(t)' = HeadReads(t) /\ Store' = Store
    BY <2>1, EdgeOpsFrame, OpsFrame DEF Store, Latest
  <2>5. Stale(t)' \/ AsBefore(t, Store)'
    BY <2>1, <2>3, <2>4 DEF Stale, AsBefore, Live
  <2>6. CountOps(t)'
    BY <2>1, <2>2, CountOpsFrame
  <2>7. BaseCount(t)'
    BY <2>1, <2>2, <2>4 DEF BaseCount
  <2> QED
    BY <2>1, <2>5, <2>6, <2>7, CountStep DEF CountTxInv
<1> QED
  BY <1>1, <1>2

\* What is stale stays stale.
LEMMA StaleStays ==
    ASSUME TypeInv, NEW c \in CommitType, commits' = Append(commits, c), NEW u \in Tx,
           ops'[u] = ops[u], reads'[u] = reads[u], base'[u] = base[u], Stale(u)
    PROVE  Stale(u)'
<1>1. base[u] \in 1 .. Len(commits) /\ HeadReads(u)' = HeadReads(u)
  BY OpsFrame DEF TypeInv, BeginTypes
<1>2. /\ Len(commits) \in Nat /\ Len(commits') = Len(commits) + 1
      /\ \A i \in 1 .. Len(commits) : commits'[i] = commits[i]
  BY AppendCommit DEF TypeInv
<1>3. ASSUME NEW i \in base[u] + 1 .. Len(commits)
      PROVE  i \in base'[u] + 1 .. Len(commits') /\ commits'[i] = commits[i]
  BY <1>1, <1>2
<1> QED
  BY <1>1, <1>3 DEF Stale

\* A commit is appended that changes the counter only if that is a key of it.
LEMMA CountAppend ==
    ASSUME TypeInv, NEW c \in CommitType, commits' = Append(commits, c),
           LabelCount \in c.keys \/ c.db.count = Store.count,
           NEW u \in Tx, CountTxInv(u), pc'[u] = pc[u] \/ pc'[u] = "published",
           UNCHANGED <<ops, reads, count, snap, base>>,
           pc'[u] = "prepared" /\ ~Stale(u)' /\ AsBefore(u, Store) => AsBefore(u, Store)'
    PROVE  CountTxInv(u)'
<1>1. /\ Len(commits) \in Nat /\ Len(commits') = Len(commits) + 1
      /\ \A i \in 1 .. Len(commits) : commits'[i] = commits[i]
      /\ commits'[Len(commits) + 1] = c /\ Store' = c.db
  BY AppendCommit DEF TypeInv
<1>2. CountOps(u)'
  BY <1>1, CountOpsFrame DEF CountTxInv
<1>3. BaseCount(u) => BaseCount(u)'
  <2>1. base[u] \in 1 .. Len(commits)
    BY DEF TypeInv, BeginTypes
  <2>2. /\ commits'[base[u]] = commits[base[u]]
        /\ \A i \in base[u] + 1 .. Len(commits) : i \in base[u] + 1 .. Len(commits') /\ commits'[i] = commits[i]
        /\ Len(commits) + 1 \in base[u] + 1 .. Len(commits')
    BY <1>1, <2>1
  <2> QED
    BY <1>1, <2>2 DEF BaseCount
<1>4. Stale(u) => Stale(u)'
  BY StaleStays
<1> QED
  BY <1>2, <1>3, <1>4 DEF CountTxInv

\* Nothing is added to a set but what is not there, nothing is taken but what is.
LEMMA CardinalityOfChange ==
    ASSUME NEW L \in SUBSET Labelled, NEW A \in SUBSET Labelled, NEW R \in SUBSET L, A \cap L = {}
    PROVE  Cardinality((L \ R) \cup A) = Cardinality(L) + (Cardinality(A) - Cardinality(R))
<1>1. IsFiniteSet(L) /\ IsFiniteSet(A) /\ IsFiniteSet(R)
  BY CountedFinite
<1>2. Cardinality(L) \in Nat /\ Cardinality(A) \in Nat /\ Cardinality(R) \in Nat
  BY CountedFinite
<1>3. L \cap R = R /\ (L \ R) \cap A = {}
  OBVIOUS
<1>4. IsFiniteSet(L \ R) /\ Cardinality(L \ R) = Cardinality(L) - Cardinality(R)
  BY <1>1, <1>3, FS_Difference
<1>5. Cardinality((L \ R) \cup A) = Cardinality(L \ R) + Cardinality(A) - Cardinality({})
  BY <1>1, <1>3, <1>4, FS_Union
<1> QED
  BY <1>2, <1>4, <1>5, FS_EmptySet

\* A transaction that is not stale publishes: the counter it has read is that of
\* the store.
LEMMA PublishCountStep ==
    ASSUME TypeInv, CommitInv', EdgeInv, CountInv, NEW t \in Tx, Publish(t), ~Stale(t)
    PROVE  CountInv'
<1> USE DEF beginVars, bufferVars
<1>1. PICK early \in BOOLEAN, c \in CommitType :
         /\ commits' = Append(commits, c)
         /\ c.db = Published(t, early) /\ c.keys = Written(t)
         /\ pc[t] = "prepared" /\ pc'[t] = "published" /\ \A u \in Tx \ {t} : pc'[u] = pc[u]
         /\ UNCHANGED <<beginVars, bufferVars, commitVars, sequence, persisted>>
  BY PublishCommit
<1>2. UNCHANGED <<ops, count, reads, snap, base>>
  BY <1>1
<1>3. /\ Len(commits) \in Nat /\ Len(commits') = Len(commits) + 1 /\ commits'[Len(commits) + 1] = c
      /\ \A i \in 1 .. Len(commits) : commits'[i] = commits[i]
      /\ Store' = Published(t, early)
  BY <1>1, AppendCommit DEF TypeInv
<1>4. ASSUME NEW k \in Entity
      PROVE  /\ k \in c.keys <=> k \in Touched(t)
             /\ k \notin Touched(t) => (Live(Store, k)' <=> Live(Store, k))
             /\ k \in Touched(t) => (Live(Store, k)' <=> k \notin Deletes(t))
  <2>1. k \in c.keys <=> k \in Touched(t)
    BY <1>1, MVCCAssumption DEF Written
  <2> QED
    BY <1>1, <1>3, <2>1, PublishedFields DEF Live
<1>5. /\ Recounts(t) => LabelCount \in c.keys /\ Store'.count = commits[base[t]].db.count + count[t]
      /\ ~Recounts(t) => Store'.count = Store.count /\ c.db.count = Store.count
  BY <1>1, <1>3 DEF Published, Written
<1>6. AsBefore(t, Store) /\ CountOps(t) /\ BaseCount(t)
  BY <1>1 DEF CountInv, CountTxInv
<1>7. LabelCountExact'
  <2> DEFINE L == {n \in Labelled : Live(Store, n)}
             M == {n \in Labelled : Live(Store, n)'}
  <2>1. Labelled \subseteq Node /\ Labelled \subseteq Entity
    BY MVCCAssumption DEF Entity
  <2>2. Deletes(t) \subseteq Touched(t) /\ Created(t) \subseteq Touched(t)
    BY OpSetTypes DEF Created, Touched, Touches
  <2>3. Removes(t) \subseteq L /\ Adds(t) \cap L = {}
    BY <1>6, <2>1, <2>2 DEF AsBefore, Adds, Removes
  <2>4. M = (L \ Removes(t)) \cup Adds(t)
    <3>1. ASSUME NEW n \in Labelled PROVE n \in M <=> n \in (L \ Removes(t)) \cup Adds(t)
      <4>1. n \in Node /\ n \in Entity
        BY <2>1
      <4>2. CASE n \notin Touched(t)
        BY <1>4, <2>2, <4>1, <4>2 DEF Adds, Removes, Kept
      <4>3. CASE n \in Touched(t)
        BY <1>4, <1>6, <2>2, <4>1, <4>3 DEF AsBefore, Adds, Removes, Kept
      <4> QED
        BY <4>2, <4>3
    <3> QED
      BY <3>1 DEF Adds
  <2>5. Cardinality(M) = Cardinality(L) + (Cardinality(Adds(t)) - Cardinality(Removes(t)))
    <3>1. L \in SUBSET Labelled /\ Adds(t) \in SUBSET Labelled /\ Removes(t) \in SUBSET L
      BY <2>3 DEF Adds
    <3> HIDE DEF L, M
    <3> QED
      BY <2>3, <2>4, <3>1, CardinalityOfChange
  <2>6. Store.count = Cardinality(L) /\ count[t] = Cardinality(Adds(t)) - Cardinality(Removes(t))
    BY <1>6 DEF CountInv, LabelCountExact, CountOps, Difference
  <2>7. CASE Recounts(t)
    <3>1. LabelCount \in reads[t]
      BY <1>6, <2>7 DEF CountOps, CounterRead
    <3>2. Store.count = commits[base[t]].db.count
      BY <1>6, <3>1 DEF BaseCount, Stale
    <3>3. Store'.count = Cardinality(M)
      BY <1>5, <2>5, <2>6, <2>7, <3>2
    <3> QED
      BY <3>3 DEF LabelCountExact
  <2>8. CASE ~Recounts(t)
    <3>1. Adds(t) = {}
      BY <2>8 DEF Adds, Created, Recounts
    <3>2. Removes(t) = {}
      <4>1. ASSUME NEW n \in Removes(t) PROVE FALSE
        <5>1. n \in Touched(t) /\ n \in Node /\ n \in Labelled /\ LastOp(t, n).kind = "delete"
          BY <2>1, <4>1 DEF Removes, Deletes
        <5>2. PICK i \in DOMAIN ops[t] : ops[t][i] = LastOp(t, n) /\ ops[t][i].key = n
          BY <5>1, LastOfNode
        <5> QED
          BY <2>8, <5>1, <5>2 DEF Recounts
      <4> QED
        BY <4>1
    <3>3. M = L
      BY <2>4, <3>1, <3>2
    <3>4. Store'.count = Cardinality(M)
      BY <1>5, <2>6, <2>8, <3>3
    <3> QED
      BY <3>4 DEF LabelCountExact
  <2> QED
    BY <2>7, <2>8
<1>8. ASSUME NEW u \in Tx PROVE CountTxInv(u)'
  <2>1. ASSUME pc'[u] = "prepared", ~Stale(u)', AsBefore(u, Store) PROVE AsBefore(u, Store)'
    <3>1. Touched(u)' = Touched(u) /\ Created(u)' = Created(u)
      BY <1>2, EdgeOpsFrame
    <3>2. Checked(u)'
      BY <2>1 DEF CommitInv, TxInv
    <3>3. Len(commits) + 1 \in snap'[u] + 1 .. Len(commits')
      BY <1>2, <1>3 DEF TypeInv, BeginTypes
    <3>4. \A k \in Touched(u) : k \notin c.keys
      BY <1>3, <2>1, <3>1, <3>2, <3>3 DEF Checked
    <3>5. Created(u) \subseteq Touched(u) /\ Touched(u) \subseteq Entity
      BY OpSetTypes DEF Created, Touched, Touches
    <3>6. \A k \in Touched(u) : Live(Store, k)' <=> Live(Store, k)
      BY <1>4, <3>4, <3>5
    <3> QED
      BY <2>1, <3>1, <3>5, <3>6 DEF AsBefore
  <2>2. pc'[u] = pc[u] \/ pc'[u] = "published"
    BY <1>1
  <2>3. LabelCount \in c.keys \/ c.db.count = Store.count
    BY <1>5
  <2> QED
    BY <1>1, <1>2, <2>1, <2>2, <2>3, CountAppend DEF CountInv
<1> QED
  BY <1>7, <1>8 DEF CountInv

\* The pruner leaves every body and the counter.
LEMMA PruneCountStep ==
    ASSUME TypeInv, CountInv, DeleteMVCCVersion \/ WriteMVCCHead
    PROVE  CountInv'
<1> USE DEF beginVars, bufferVars
<1>1. PICK c \in CommitType :
         /\ commits' = Append(commits, c)
         /\ c.db.body = Store.body /\ c.db.count = Store.count
         /\ UNCHANGED <<pc, ops, count, reads, snap, base>>
  BY WriteCommit
<1>2. Store' = c.db
  BY <1>1, AppendCommit DEF TypeInv
<1>3. \A k : Live(Store, k)' <=> Live(Store, k)
  BY <1>1, <1>2 DEF Live
<1>4. LabelCountExact'
  BY <1>1, <1>2, <1>3, ExactFrame DEF CountInv
<1>5. ASSUME NEW u \in Tx PROVE CountTxInv(u)'
  <2>1. AsBefore(u, Store) => AsBefore(u, Store)'
    BY <1>1, <1>3, EdgeOpsFrame DEF AsBefore
  <2> QED
    BY <1>1, <2>1, CountAppend DEF CountInv
<1> QED
  BY <1>4, <1>5 DEF CountInv

\* The step of every action.
LEMMA NextCountInv ==
    ASSUME Hazards \cap {"recreate", "afterdelete"} = {}
    PROVE  TypeInv /\ CommitInv /\ CommitInv' /\ SnapshotIsWhole /\ EdgeInv /\ CountInv /\ [LifecycleNext]_lifecycleVars
             => CountInv'
<1> SUFFICES ASSUME TypeInv, CommitInv, CommitInv', SnapshotIsWhole, EdgeInv, CountInv, [LifecycleNext]_lifecycleVars
             PROVE  CountInv'
  OBVIOUS
<1> USE DEF beginVars, bufferVars
<1>1. ASSUME NEW t \in Tx, Quit(t), UNCHANGED commits PROVE CountInv'
  <2>1. pc'[t] = "closed" /\ \A u \in Tx \ {t} : pc'[u] = pc[u]
    BY <1>1 DEF Quit, TypeInv, BeginTypes
  <2> QED
    BY <1>1, <2>1, CloseCountStep DEF Quit
<1>2. ASSUME NEW t \in Tx, PersistSequence(t) \/ Rollback(t) PROVE CountInv'
  <2>1. Quit(t) /\ UNCHANGED commits
    BY <1>2 DEF PersistSequence, Rollback, Quit
  <2> QED
    BY <1>1, <2>1
<1>3. ASSUME NEW t \in Tx, PublishBesidePrune(t) PROVE CountInv'
  <2>1. CASE Stale(t)
    BY <1>1, <1>3, <2>1 DEF PublishBesidePrune, Publish
  <2>2. CASE ~Stale(t)
    BY <1>3, <2>2, PublishCountStep DEF PublishBesidePrune
  <2> QED
    BY <2>1, <2>2
<1>4. ASSUME Crash PROVE CountInv'
  <2>1. \A t \in Tx : pc'[t] \in {"none", "closed"}
    BY <1>4 DEF Crash
  <2> QED
    BY <1>4, <2>1, CloseCountStep DEF Crash
<1>5. CASE Fence \/ (\E k \in Entity : Plan(k)) \/ UNCHANGED lifecycleVars
  <2>1. UNCHANGED <<commits, ops, count, reads, snap, base, pc>>
    BY <1>5 DEF Fence, Plan, lifecycleVars, vars
  <2>2. \A t \in Tx : CountTxInv(t)'
    BY <2>1, CountTxFrame DEF CountInv
  <2>3. LabelCountExact'
    BY <2>1 DEF CountInv, LabelCountExact, Live, Store, Latest
  <2> QED
    BY <2>2, <2>3 DEF CountInv
<1> QED
  BY <1>2, <1>3, <1>4, <1>5, BeginCountStep, OperateCountStep, PrepareCountStep, PruneCountStep DEF LifecycleNext

\* bufferAdjustNodeLabelCounts: the counter of a label counts the nodes stored
\* that carry it, whatever transactions create, update and delete them at the
\* same time, if the situations named in Hazards are excluded.
THEOREM LabelsCounted ==
    ASSUME Hazards \cap {"recreate", "afterdelete", "detach", "upsert", "skew", "blind",
                         "late", "crash", "fence"} = {}
    PROVE  LifecycleSpec => []LabelCountExact
<1>1. "blind" \notin Hazards
  OBVIOUS
<1>2. LifecycleSpec => []SnapshotIsWhole
  BY SnapshotsAreWhole
<1>3. LifecycleSpec => []CommitInv
  BY <1>1, InitCommitInv, NextCommitInv, TypeInvAlways, PTL DEF LifecycleSpec
<1>4. Hazards \cap {"recreate", "afterdelete", "detach", "upsert", "skew"} = {}
  OBVIOUS
<1>5. Hazards \cap {"recreate", "afterdelete"} = {}
  OBVIOUS
<1>6. LifecycleSpec => []EdgeInv
  BY <1>2, <1>3, <1>4, InitEdgeInv, NextEdgeInv, TypeInvAlways, PTL DEF LifecycleSpec
<1>7. CountInv => LabelCountExact
  BY DEF CountInv
<1> QED
  BY <1>2, <1>3, <1>5, <1>6, <1>7, InitCountInv, NextCountInv, TypeInvAlways, PTL DEF LifecycleSpec

-----------------------------------------------------------------------------
(***************************************************************************)
(* History.  The versions of an entity are contents of its commits, each   *)
(* under its sequence; they go on from the oldest there is to the last,    *)
(* and what is missing, or hidden by a floor, has more than Keep newer     *)
(* ones.  Three things must agree with that while transactions run: what   *)
(* a transaction archives when it replaces a head, the floor it has read,  *)
(* and what the pruner has planned.                                        *)
(***************************************************************************)
At(i) == commits[i].seq
BodyAt(i, k) == commits[i].db.body[k]
Last(k) == MaxOf(CommitsOf(k))

\* What may be lost: nothing, or what enough history is newer than.
Spare(k, i) == BodyAt(i, k) = None \/ Cardinality(HistoryAfter(k, At(i))) > Keep

\* A floor that hides only that.
Hides(k, f) == f <= Store.head[k].seq /\ \A i \in CommitsOf(k) : At(i) < f => Spare(k, i)

\* Later commits of an entity have greater sequences.
Ascending(k) == \A i, j \in CommitsOf(k) : i < j => At(i) < At(j)

\* What no commit writes stays.
BodiesStay(k) ==
    \A i \in 1 .. Len(commits) : \A j \in 1 .. i :
        (\A m \in j + 1 .. i : k \notin commits[m].keys) => BodyAt(i, k) = BodyAt(j, k)

NeverWritten(k) == Store.head[k] = NoHead => CommitsOf(k) = {1} /\ Store.body[k] = None

\* Versions are contents of commits; the last is there if it is a tombstone.
VersionsTrue(k) == \A r \in Store.ver[k] : \E i \in CommitsOf(k) : At(i) = r.seq /\ BodyAt(i, k) = r.val

TombstoneStored(k) ==
    Store.head[k] # NoHead => (Store.head[k].tomb <=> Store.head[k].seq \in Seqs(Store, k))

\* From the oldest version on none is missing, and what is missing is spare.
Unbroken(k) ==
    \A i, j \in CommitsOf(k) : At(i) \in Seqs(Store, k) /\ i < j /\ j # Last(k) => At(j) \in Seqs(Store, k)

Missing(k) == \A i \in CommitsOf(k) : i # Last(k) /\ At(i) \notin Seqs(Store, k) => Spare(k, i)

KeyInv(k) ==
    /\ Ascending(k) /\ BodiesStay(k) /\ NeverWritten(k) /\ VersionsTrue(k) /\ TombstoneStored(k)
    /\ Unbroken(k) /\ Missing(k) /\ Hides(k, Store.head[k].floor)

\* What a transaction will archive is what its snapshot holds.
Shown(t, k) == commits[snap[t]].db.body[k]

Tombed(t) == UNION {Touches(ops[t][i]) : i \in {j \in DOMAIN ops[t] : ops[t][j].kind = "delete"}}

Archives(t) ==
    /\ \A k \in Entity : archived[t][k] # None => archived[t][k] \in {Shown(t, k), commits[base[t]].db.body[k]}
    /\ \A k \in Cascaded(t) : archived[t][k] # None
    /\ \A k \in Created(t) : Shown(t, k) = None
    /\ \A i \in DOMAIN ops[t] :
         \/ ops[t][i].kind = "create" \/ ops[t][i].old = Shown(t, ops[t][i].key)
         \/ \E j \in 1 .. i - 1 : ops[t][j].key = ops[t][i].key
    /\ Tombed(t) \subseteq Deletes(t) /\ Tombed(t) \subseteq deleted[t] \cup Cascaded(t)

ArchiveInv(t) ==
    /\ pc[t] \in {"none", "pinned", "numbered"} => archived[t] = Nothing
    /\ pc[t] \in {"active", "prepared"} => snap[t] <= base[t]
    /\ Archives(t)

\* Past validation: its version is above what its snapshot holds, and the
\* floors it has read may be written.
Newest(t) ==
    pc[t] = "prepared" =>
        /\ \A k \in Entity : Hides(k, floors[t][k])
        /\ \A k \in Entity : \A i \in CommitsOf(k) : i <= snap[t] => At(i) < version[t]

\* While the head is the planned one the plan is up to date.
PlanSafe ==
    Planning =>
        /\ plan.head.seq <= Store.head[plan.key].seq
        /\ Hides(plan.key, plan.floor)
        /\ Store.head[plan.key].seq = plan.head.seq
             => plan.delete = {s \in Seqs(Store, plan.key) : s < plan.floor /\ s # plan.head.seq}

Positive ==
    /\ sequence > 0 /\ persisted > 0
    /\ At(1) = 1 /\ \A i \in 1 .. Len(commits) : At(i) > 0

HistoryInv ==
    /\ Positive
    /\ \A k \in Entity : KeyInv(k)
    /\ \A t \in Tx : ArchiveInv(t)
    /\ \A t \in Tx : Newest(t)
    /\ PlanSafe

\* The commits of an entity and what is stored of it.
LEMMA HistoryTypes ==
    ASSUME TypeInv, FirstCommit, NEW k \in Entity
    PROVE  /\ Len(commits) \in Nat /\ DOMAIN commits = 1 .. Len(commits)
           /\ CommitsOf(k) \subseteq 1 .. Len(commits) /\ 1 \in CommitsOf(k)
           /\ Last(k) \in CommitsOf(k)
           /\ \A i \in CommitsOf(k) : i \in Nat /\ i <= Last(k) /\ At(i) \in Nat
           /\ \A i \in 1 .. Len(commits) : At(i) \in Nat
           /\ Store = commits[Len(commits)].db
           /\ Store.head[k] \in HeadType /\ Store.head[k].seq \in Nat /\ Store.head[k].floor \in Nat
           /\ Store.ver[k] \in SUBSET VersionRecord /\ Seqs(Store, k) \in SUBSET Nat
           /\ Bounded(Seqs(Store, k))
<1>1. /\ Len(commits) \in Nat /\ DOMAIN commits = 1 .. Len(commits)
      /\ CommitsOf(k) \subseteq 1 .. Len(commits) /\ 1 \in CommitsOf(k)
  BY LenProperties DEF TypeInv, CommitTypes, CommitsOf, FirstCommit
<1>2. Last(k) \in CommitsOf(k) /\ \A i \in CommitsOf(k) : i <= Last(k)
  <2> DEFINE S == CommitsOf(k)
  <2>1. S \in SUBSET Nat /\ S # {} /\ \A s \in S : s <= Len(commits)
    BY <1>1
  <2> HIDE DEF S
  <2>2. MaxOf(S) \in S /\ \A y \in S : y <= MaxOf(S)
    BY <1>1, <2>1, MaxOfNats
  <2> QED
    BY <2>2 DEF S, Last
<1>3. \A i \in 1 .. Len(commits) : At(i) \in Nat
  BY CommitFields DEF TypeInv, At
<1>4. /\ Store = commits[Len(commits)].db
      /\ Store.head[k] \in HeadType /\ Store.head[k].seq \in Nat /\ Store.head[k].floor \in Nat
      /\ Store.ver[k] \in SUBSET VersionRecord
  BY StoreFields, SequenceTypes DEF TypeInv
<1>5. Seqs(Store, k) \in SUBSET Nat
  BY <1>4 DEF Seqs, VersionRecord
<1>6. Bounded(Seqs(Store, k))
  BY StoreFields DEF TypeInv, CommitTypes, BoundedStore
<1> QED
  BY <1>1, <1>2, <1>3, <1>4, <1>5, <1>6

\* The history of an entity is finite.
LEMMA HistoryFinite ==
    ASSUME TypeInv, NEW k, NEW v
    PROVE  IsFiniteSet(HistoryAfter(k, v)) /\ Cardinality(HistoryAfter(k, v)) \in Nat
<1>1. Len(commits) \in Nat /\ HistoryAfter(k, v) \subseteq 1 .. Len(commits)
  BY LenProperties DEF TypeInv, CommitTypes, HistoryAfter, After
<1>2. IsFiniteSet(1 .. Len(commits))
  BY <1>1, FS_Interval
<1> QED
  BY <1>1, <1>2, FS_Subset, FS_CardinalityType

-----------------------------------------------------------------------------
(***************************************************************************)
(* Reading.                                                                *)
(***************************************************************************)
\* The last commit of k up to version v is what was held then.
LEMMA HeldDef ==
    ASSUME TypeInv, FirstCommit, Positive, NEW k \in Entity, Ascending(k), NEW v \in Nat, v > 0
    PROVE  \E i \in CommitsOf(k) :
             /\ At(i) <= v /\ HeldAt(k, v) = BodyAt(i, k)
             /\ \A j \in CommitsOf(k) : At(j) <= v => j <= i /\ At(j) <= At(i)
             /\ HistoryAfter(k, v) = HistoryAfter(k, At(i))
<1>1. /\ CommitsOf(k) \subseteq 1 .. Len(commits) /\ 1 \in CommitsOf(k)
      /\ Len(commits) \in Nat
      /\ \A i \in CommitsOf(k) : i \in Nat /\ At(i) \in Nat
  BY HistoryTypes
<1> DEFINE U == UpTo(k, v)
<1>2. U = {i \in CommitsOf(k) : At(i) <= v}
  BY DEF UpTo, CommitsOf, At
<1>3. MaxOf(U) \in U /\ \A j \in U : j <= MaxOf(U)
  <2>1. U \in SUBSET Nat /\ U # {} /\ \A s \in U : s <= Len(commits)
    BY <1>1, <1>2 DEF Positive
  <2> HIDE DEF U
  <2> QED
    BY <1>1, <2>1, MaxOfNats
<1> DEFINE i == MaxOf(U)
<1>4. i \in CommitsOf(k) /\ At(i) <= v /\ \A j \in U : j <= i /\ At(j) <= At(i)
  <2> HIDE DEF i, U
  <2>1. i \in U /\ \A j \in U : j <= i
    BY <1>3 DEF i
  <2>2. ASSUME NEW j \in U PROVE At(j) <= At(i)
    <3>1. i \in CommitsOf(k) /\ j \in CommitsOf(k) /\ j <= i
      BY <1>2, <2>1
    <3>2. j = i \/ j < i
      BY <1>1, <3>1
    <3> QED
      BY <1>1, <3>1, <3>2 DEF Ascending
  <2> QED
    BY <1>2, <2>1, <2>2
<1> HIDE DEF i
<1>5. HeldAt(k, v) = BodyAt(i, k)
  <2> DEFINE x == CHOOSE y \in U : \A j \in U : At(j) <= At(y)
  <2>1. i \in U
    BY <1>2, <1>4
  <2>2. x \in U /\ \A j \in U : At(j) <= At(x)
    BY <1>4, <2>1
  <2>3. HeldAt(k, v) = commits[x].db.body[k]
    BY DEF HeldAt, At
  <2> HIDE DEF x, U
  <2>4. x \in CommitsOf(k) /\ At(i) <= At(x) /\ x <= i
    BY <1>2, <1>4, <2>1, <2>2
  <2>5. x = i
    <3>1. ~(x < i)
      BY <1>1, <1>4, <2>4 DEF Ascending
    <3> QED
      BY <1>1, <1>4, <2>4, <3>1
  <2> QED
    BY <2>3, <2>5 DEF BodyAt
<1>6. HistoryAfter(k, v) = HistoryAfter(k, At(i))
  <2>1. \A j \in CommitsOf(k) : At(j) > v <=> At(j) > At(i)
    BY <1>1, <1>2, <1>4
  <2>2. After(k, v) = After(k, At(i))
    BY <2>1 DEF After, CommitsOf, At
  <2> QED
    BY <2>2 DEF HistoryAfter
<1> QED
  BY <1>2, <1>4, <1>5, <1>6

\* A version that is there is what a read up to it finds.
LEMMA VersionRead ==
    ASSUME TypeInv, FirstCommit, NEW k \in Entity, Ascending(k), VersionsTrue(k),
           NEW R \in SUBSET Store.ver[k], NEW v \in Nat,
           NEW i \in CommitsOf(k), At(i) <= v, \E r \in R : r.seq = At(i),
           \A j \in CommitsOf(k) : At(j) <= v => At(j) <= At(i)
    PROVE  AtOrBefore(R, v) = BodyAt(i, k)
<1>1. \A j \in CommitsOf(k) : j \in Nat /\ At(j) \in Nat
  BY HistoryTypes
<1> DEFINE upTo == {r \in R : r.seq <= v}
<1>2. \A r \in upTo : \E j \in CommitsOf(k) : At(j) = r.seq /\ BodyAt(j, k) = r.val
  BY DEF VersionsTrue
<1>3. \A r \in upTo : r.seq \in Nat /\ r.seq <= At(i)
  BY <1>1, <1>2
<1>4. PICK r0 \in upTo : r0.seq = At(i)
  OBVIOUS
<1> DEFINE r == CHOOSE x \in upTo : \A s \in upTo : s.seq <= x.seq
<1>5. r \in upTo /\ r0.seq <= r.seq
  BY <1>3, <1>4
<1>6. AtOrBefore(R, v) = r.val
  BY <1>4 DEF AtOrBefore
<1> HIDE DEF r, upTo
<1>7. r.seq = At(i)
  BY <1>1, <1>3, <1>4, <1>5
<1>8. PICK j \in CommitsOf(k) : At(j) = r.seq /\ BodyAt(j, k) = r.val
  BY <1>2, <1>5
<1>9. j = i
  <2>1. ~(j < i) /\ ~(i < j)
    BY <1>1, <1>7, <1>8 DEF Ascending
  <2> QED
    BY <1>1, <2>1
<1> QED
  BY <1>6, <1>8, <1>9

\* What is stored is what the last commit left.
LEMMA LastBody ==
    ASSUME TypeInv, FirstCommit, NEW k \in Entity, BodiesStay(k)
    PROVE  Store.body[k] = BodyAt(Last(k), k)
<1>1. /\ Last(k) \in CommitsOf(k) /\ Last(k) \in 1 .. Len(commits) /\ Len(commits) \in Nat \ {0}
      /\ DOMAIN commits = 1 .. Len(commits) /\ Store = commits[Len(commits)].db
      /\ \A i \in CommitsOf(k) : i <= Last(k)
  BY HistoryTypes
<1>2. \A m \in Last(k) + 1 .. Len(commits) : m \in 1 .. Len(commits) /\ ~(m <= Last(k))
  BY <1>1
<1>3. \A m \in Last(k) + 1 .. Len(commits) : k \notin commits[m].keys
  BY <1>1, <1>2 DEF CommitsOf
<1>4. Len(commits) \in 1 .. Len(commits) /\ Last(k) \in 1 .. Len(commits)
  BY <1>1
<1> QED
  BY <1>1, <1>3, <1>4 DEF BodiesStay, BodyAt

\* The history an invariant like that keeps can be read.
LEMMA HistoryRead == TypeInv /\ HeadInv /\ SnapshotInv /\ HistoryInv => HistoryReadable
<1> SUFFICES ASSUME TypeInv, HeadInv, SnapshotInv, HistoryInv, NEW k \in Entity, NEW m \in DOMAIN commits
             PROVE  LET v == commits[m].seq
                    IN  \/ VisibleAt(Store, k, v) = HeldAt(k, v)
                        \/ VisibleAt(Store, k, v) = None /\ Cardinality(HistoryAfter(k, v)) > Keep
  BY DEF HistoryReadable
<1> DEFINE v == commits[m].seq
           h == Store.head[k]
           R == IF v = h.floor THEN {x \in Store.ver[k] : x.seq = v} ELSE Store.ver[k]
<1>0. FirstCommit /\ KeyInv(k) /\ Positive
  BY DEF HeadInv, HistoryInv
<1>1. /\ v \in Nat /\ v > 0
      /\ h \in HeadType /\ h.seq \in Nat /\ h.floor \in Nat
      /\ Last(k) \in CommitsOf(k) /\ \A i \in CommitsOf(k) : i \in Nat /\ i <= Last(k) /\ At(i) \in Nat
  BY <1>0, HistoryTypes DEF Positive, At
<1>2. Store.body[k] = BodyAt(Last(k), k)
  BY <1>0, LastBody DEF KeyInv
<1> HIDE DEF v
<1>3. PICK i \in CommitsOf(k) :
         /\ At(i) <= v /\ HeldAt(k, v) = BodyAt(i, k)
         /\ \A j \in CommitsOf(k) : At(j) <= v => j <= i /\ At(j) <= At(i)
         /\ HistoryAfter(k, v) = HistoryAfter(k, At(i))
  BY <1>0, <1>1, HeldDef DEF KeyInv
\* A read that finds nothing where only what is spare is missing.
<1>4. ASSUME VisibleAt(Store, k, v) = None, Spare(k, i)
      PROVE  \/ VisibleAt(Store, k, v) = HeldAt(k, v)
             \/ VisibleAt(Store, k, v) = None /\ Cardinality(HistoryAfter(k, v)) > Keep
  BY <1>3, <1>4 DEF Spare
<1>5. ASSUME h = NoHead PROVE VisibleAt(Store, k, v) = HeldAt(k, v)
  <2>1. VisibleAt(Store, k, v) = Store.body[k]
    BY <1>5 DEF VisibleAt
  <2>2. i = 1 /\ Last(k) = 1
    BY <1>0, <1>1, <1>3, <1>5 DEF KeyInv, NeverWritten
  <2> QED
    BY <1>2, <1>3, <2>1, <2>2
<1>6. ASSUME h # NoHead, v < h.floor
      PROVE  VisibleAt(Store, k, v) = None /\ Spare(k, i)
  <2>1. VisibleAt(Store, k, v) = None
    <3>1. ~(v >= h.floor) /\ v # h.floor
      BY <1>1, <1>6
    <3> QED
      BY <1>6, <3>1, Zenon DEF VisibleAt
  <2>2. At(i) < h.floor
    BY <1>1, <1>3, <1>6
  <2> QED
    BY <1>0, <2>1, <2>2 DEF KeyInv, Hides
<1>7. ASSUME h # NoHead, v >= h.floor, v >= h.seq
      PROVE  VisibleAt(Store, k, v) = HeldAt(k, v)
  <2>1. ~(v < h.floor) /\ ~(v < h.seq)
    BY <1>1, <1>7
  <2>2. VisibleAt(Store, k, v) = IF h.tomb THEN None
                                 ELSE IF Live(Store, k) THEN Store.body[k] ELSE AtOrBefore(Store.ver[k], h.seq)
    BY <1>7, <2>1, Zenon DEF VisibleAt
  <2>3. HeadShape(Store, k)
    BY StoreFields DEF SnapshotInv, HeadShapes, TypeInv
  <2>4. VisibleAt(Store, k, v) = Store.body[k]
    BY <1>7, <2>2, <2>3 DEF HeadShape, Live
  <2>5. h.seq = At(Last(k))
    BY <1>7, HeadIsLastDef DEF HeadInv, Last, At
  <2>6. i = Last(k)
    <3>1. Last(k) <= i /\ i <= Last(k) /\ i \in Nat /\ Last(k) \in Nat
      BY <1>1, <1>3, <1>7, <2>5
    <3> QED
      BY <3>1
  <2> QED
    BY <1>2, <1>3, <2>4, <2>6
<1>8. ASSUME h # NoHead, v >= h.floor, v < h.seq
      PROVE  \/ VisibleAt(Store, k, v) = HeldAt(k, v)
             \/ VisibleAt(Store, k, v) = None /\ Spare(k, i)
  <2>1. ~(v < h.floor) /\ ~(v >= h.seq)
    BY <1>1, <1>8
  <2>2. VisibleAt(Store, k, v) = AtOrBefore(R, v)
    <3>1. CASE v = h.floor
      BY <1>8, <2>1, <3>1, Zenon DEF VisibleAt
    <3>2. CASE v # h.floor
      BY <1>8, <2>1, <3>2, Zenon DEF VisibleAt
    <3> QED
      BY <3>1, <3>2
  <2>3. h.seq = At(Last(k)) /\ i # Last(k)
    <3>1. h.seq = At(Last(k))
      BY <1>8, HeadIsLastDef DEF HeadInv, Last, At
    <3> QED
      BY <1>1, <1>3, <2>1, <3>1
  <2>4. R \in SUBSET Store.ver[k]
    OBVIOUS
  <2>5. CASE \E r \in R : r.seq = At(i)
    <3> HIDE DEF R
    <3> QED
      BY <1>0, <1>1, <1>3, <2>2, <2>4, <2>5, VersionRead DEF KeyInv
  <2>6. CASE \A r \in R : r.seq # At(i)
    <3>1. Store.ver[k] \in SUBSET VersionRecord
      BY <1>0, HistoryTypes
    <3>2. ASSUME NEW r \in R, r.seq <= v PROVE FALSE
      <4>1. PICK j \in CommitsOf(k) : At(j) = r.seq
        BY <1>0, <2>4, <3>2 DEF KeyInv, VersionsTrue
      <4>2. j <= i /\ At(j) <= At(i) /\ At(j) # At(i)
        BY <1>3, <2>6, <3>2, <4>1
      <4>3. CASE v = h.floor
        <5>1. r.seq = v
          BY <3>2, <4>3
        <5> QED
          BY <1>1, <1>3, <4>1, <4>2, <5>1
      <4>4. CASE v # h.floor
        <5>1. j < i
          BY <1>1, <4>1, <4>2
        <5>2. At(j) \in Seqs(Store, k)
          BY <3>2, <2>4, <4>1 DEF Seqs
        <5>3. At(i) \in Seqs(Store, k)
          BY <1>0, <2>3, <5>1, <5>2 DEF KeyInv, Unbroken
        <5>4. \E x \in Store.ver[k] : x.seq = At(i)
          BY <5>3 DEF Seqs
        <5> QED
          BY <2>6, <4>4, <5>4
      <4> QED
        BY <4>3, <4>4
    <3>3. AtOrBefore(R, v) = None
      <4>1. {r \in R : r.seq <= v} = {}
        BY <3>2
      <4> QED
        BY <4>1 DEF AtOrBefore
    <3>4. Spare(k, i)
      <4>1. CASE At(i) \in Seqs(Store, k)
        <5>1. PICK x \in Store.ver[k] : x.seq = At(i)
          BY <4>1 DEF Seqs
        <5>2. v = h.floor /\ At(i) # v
          BY <2>6, <5>1
        <5>3. At(i) < h.floor
          BY <1>1, <1>3, <5>2
        <5> QED
          BY <1>0, <5>3 DEF KeyInv, Hides
      <4>2. CASE At(i) \notin Seqs(Store, k)
        BY <1>0, <2>3, <4>2 DEF KeyInv, Missing
      <4> QED
        BY <4>1, <4>2
    <3> QED
      BY <2>2, <3>3, <3>4
  <2> QED
    BY <2>5, <2>6
<1> QED
  <2>1. v < h.floor \/ (v >= h.floor /\ v >= h.seq) \/ (v >= h.floor /\ v < h.seq)
    BY <1>1
  <2>2. \/ VisibleAt(Store, k, v) = HeldAt(k, v)
        \/ VisibleAt(Store, k, v) = None /\ Cardinality(HistoryAfter(k, v)) > Keep
    BY <1>4, <1>5, <1>6, <1>7, <1>8, <2>1
  <2> QED
    BY <2>2 DEF v

-----------------------------------------------------------------------------
(***************************************************************************)
(* One more commit.                                                        *)
(***************************************************************************)
\* What was spare stays so: its history only grows.
LEMMA HistoryGrows ==
    ASSUME TypeInv, FirstCommit, NEW c \in CommitType, commits' = Append(commits, c), NEW k \in Entity,
           NEW n, n = Len(commits)
    PROVE  /\ n \in Nat /\ Len(commits') = n + 1 /\ DOMAIN commits' = 1 .. n + 1 /\ Store' = c.db
           /\ CommitsOf(k)' = CommitsOf(k) \cup {i \in {n + 1} : k \in c.keys}
           /\ CommitsOf(k) \subseteq 1 .. n
           /\ \A i \in 1 .. n : commits'[i] = commits[i] /\ At(i)' = At(i) /\ BodyAt(i, k)' = BodyAt(i, k)
           /\ commits'[n + 1] = c /\ At(n + 1)' = c.seq /\ BodyAt(n + 1, k)' = c.db.body[k]
           /\ k \in c.keys => Last(k)' = n + 1
           /\ k \notin c.keys => Last(k)' = Last(k)
           /\ \A i \in CommitsOf(k) : Spare(k, i) => Spare(k, i)'
<1>1. /\ n \in Nat /\ Len(commits') = n + 1 /\ Store' = c.db
      /\ \A i \in 1 .. n : commits'[i] = commits[i]
      /\ commits'[n + 1] = c
      /\ commits' \in Seq(CommitType)
  BY AppendCommit DEF TypeInv
<1>2. DOMAIN commits' = 1 .. n + 1 /\ DOMAIN commits = 1 .. n
  BY <1>1, LenProperties DEF TypeInv, CommitTypes
<1>3. /\ \A i \in 1 .. n : At(i)' = At(i) /\ BodyAt(i, k)' = BodyAt(i, k)
      /\ At(n + 1)' = c.seq /\ BodyAt(n + 1, k)' = c.db.body[k]
  BY <1>1 DEF At, BodyAt
<1>4. /\ 1 .. n \subseteq 1 .. n + 1 /\ n + 1 \in 1 .. n + 1
      /\ \A i \in 1 .. n + 1 : i \in 1 .. n \/ i = n + 1
  BY <1>1
<1>5. CommitsOf(k)' = CommitsOf(k) \cup {i \in {n + 1} : k \in c.keys} /\ CommitsOf(k) \subseteq 1 .. n
  BY <1>1, <1>2, <1>4 DEF CommitsOf
<1>6. (k \in c.keys => Last(k)' = n + 1) /\ (k \notin c.keys => Last(k)' = Last(k))
  BY LastAppend DEF Last
<1>7. ASSUME NEW i \in CommitsOf(k), Spare(k, i) PROVE Spare(k, i)'
  <2>1. i \in 1 .. n /\ At(i)' = At(i) /\ BodyAt(i, k)' = BodyAt(i, k)
    BY <1>3, <1>5
  <2> DEFINE H == HistoryAfter(k, At(i))
  <2>2. H \subseteq H'
    <3>1. After(k, At(i)) \subseteq 1 .. n /\ After(k, At(i)) \subseteq After(k, At(i))'
      BY <1>1, <1>2, <1>4, <2>1 DEF After
    <3> QED
      BY <1>1, <3>1, Zenon DEF HistoryAfter
  <2>3. IsFiniteSet(H') /\ Cardinality(H') \in Nat
    <3>1. H' \subseteq 1 .. n + 1
      BY <1>2 DEF HistoryAfter, After
    <3>2. IsFiniteSet(1 .. n + 1)
      BY <1>1, FS_Interval
    <3> HIDE DEF H
    <3> QED
      BY <3>1, <3>2, FS_Subset, FS_CardinalityType
  <2>4. Cardinality(H) \in Nat
    BY HistoryFinite
  <2>5. Cardinality(H) <= Cardinality(H')
    <3> HIDE DEF H
    <3> QED
      BY <2>2, <2>3, FS_Subset
  <2>6. Cardinality(H) > Keep => Cardinality(H') > Keep
    <3> HIDE DEF H
    <3> QED
      BY <2>3, <2>4, <2>5, LifecycleAssumption
  <2> QED
    BY <1>7, <2>1, <2>6 DEF Spare
<1> QED
  BY <1>1, <1>2, <1>3, <1>5, <1>6, <1>7

\* A floor that may be written stays so.
LEMMA HidesGrows ==
    ASSUME TypeInv, FirstCommit, NEW c \in CommitType, commits' = Append(commits, c), NEW k \in Entity,
           c.db.head[k].seq >= Store.head[k].seq,
           k \in c.keys => c.seq >= Store.head[k].seq
    PROVE  \A f \in Nat : Hides(k, f) => Hides(k, f)'
<1> SUFFICES ASSUME NEW f \in Nat, Hides(k, f) PROVE Hides(k, f)'
  OBVIOUS
<1>1. PICK n : n = Len(commits)
  OBVIOUS
<1>2. /\ Store' = c.db /\ n \in Nat
      /\ CommitsOf(k)' = CommitsOf(k) \cup {i \in {n + 1} : k \in c.keys}
      /\ \A i \in CommitsOf(k) : At(i)' = At(i) /\ (Spare(k, i) => Spare(k, i)')
      /\ At(n + 1)' = c.seq
  <2>1. CommitsOf(k) \subseteq 1 .. n
    BY <1>1, HistoryGrows
  <2> QED
    BY <1>1, <2>1, HistoryGrows
<1>3. /\ Store.head[k].seq \in Nat /\ c.seq \in Nat /\ c.db.head[k].seq \in Nat
  BY HistoryTypes DEF CommitType, Db, HeadType
<1>4. f <= Store.head[k].seq
  BY DEF Hides
<1>5. f <= c.db.head[k].seq
  BY <1>3, <1>4
<1>6. ASSUME NEW i \in CommitsOf(k)', At(i)' < f PROVE Spare(k, i)'
  <2>1. i \in CommitsOf(k)
    <3> SUFFICES ASSUME i = n + 1, k \in c.keys PROVE FALSE
      BY <1>2
    <3>1. At(i)' = c.seq /\ c.seq >= f
      BY <1>2, <1>3, <1>4
    <3> QED
      BY <1>3, <1>6, <3>1
  <2> QED
    BY <1>2, <1>6, <2>1 DEF Hides
<1> QED
  BY <1>2, <1>5, <1>6 DEF Hides

\* Bodies change with the keys that are written.
LEMMA BodiesGrow ==
    ASSUME TypeInv, FirstCommit, NEW c \in CommitType, commits' = Append(commits, c), NEW k \in Entity,
           k \notin c.keys => c.db.body[k] = Store.body[k], BodiesStay(k)
    PROVE  BodiesStay(k)'
<1>1. PICK n : n = Len(commits)
  OBVIOUS
<1>2. /\ n \in Nat /\ Len(commits') = n + 1
      /\ \A i \in 1 .. n : commits'[i] = commits[i] /\ BodyAt(i, k)' = BodyAt(i, k)
      /\ commits'[n + 1] = c /\ BodyAt(n + 1, k)' = c.db.body[k]
  BY <1>1, HistoryGrows
<1>3. n \in 1 .. n /\ Store.body[k] = BodyAt(n, k)
  BY <1>1, StoreFields DEF TypeInv, BodyAt
<1>4. ASSUME NEW i \in 1 .. n + 1, NEW j \in 1 .. i, \A m \in j + 1 .. i : k \notin commits'[m].keys
      PROVE  BodyAt(i, k)' = BodyAt(j, k)'
  <2>1. CASE i \in 1 .. n
    <3>1. j \in 1 .. n /\ \A m \in j + 1 .. i : m \in 1 .. n
      BY <1>2, <2>1
    <3>2. \A m \in j + 1 .. i : k \notin commits[m].keys
      BY <1>2, <1>4, <3>1
    <3> QED
      BY <1>1, <1>2, <2>1, <3>1, <3>2 DEF BodiesStay
  <2>2. CASE i = n + 1 /\ j # n + 1
    <3>1. j \in 1 .. n /\ n + 1 \in j + 1 .. i
      BY <1>2, <2>2
    <3>2. \A m \in j + 1 .. n : m \in j + 1 .. i /\ m \in 1 .. n
      BY <1>2, <2>2, <3>1
    <3>3. k \notin c.keys /\ \A m \in j + 1 .. n : k \notin commits[m].keys
      BY <1>2, <1>4, <3>1, <3>2
    <3>4. BodyAt(n, k) = BodyAt(j, k)
      BY <1>1, <1>3, <3>1, <3>3 DEF BodiesStay
    <3> QED
      BY <1>2, <1>3, <2>2, <3>1, <3>3, <3>4
  <2>3. CASE i = n + 1 /\ j = n + 1
    BY <2>3
  <2> QED
    BY <1>2, <2>1, <2>2, <2>3
<1> QED
  BY <1>2, <1>4 DEF BodiesStay

\* A commit that does not write k, but may take its oldest versions, if they
\* are spare, and raise its floor as far.
LEMMA KeyPruned ==
    ASSUME TypeInv, FirstCommit, NEW c \in CommitType, commits' = Append(commits, c), NEW k \in Entity,
           k \notin c.keys, c.db.body[k] = Store.body[k], KeyInv(k),
           c.db.head[k].seq = Store.head[k].seq, c.db.head[k].tomb = Store.head[k].tomb,
           c.db.head[k] = NoHead <=> Store.head[k] = NoHead,
           Hides(k, c.db.head[k].floor),
           NEW D, c.db.ver[k] = {r \in Store.ver[k] : r.seq \notin D}, Store.head[k].seq \notin D,
           \A s \in Seqs(Store, k) : \A x \in D : s < x => s \in D,
           \A i \in CommitsOf(k) : At(i) \in D => Spare(k, i)
    PROVE  KeyInv(k)'
<1>1. /\ Store' = c.db /\ CommitsOf(k)' = CommitsOf(k) /\ Last(k)' = Last(k)
      /\ \A i \in CommitsOf(k) : /\ At(i)' = At(i) /\ BodyAt(i, k)' = BodyAt(i, k)
                                 /\ Spare(k, i) => Spare(k, i)'
  <2>1. PICK n : n = Len(commits)
    OBVIOUS
  <2>2. CommitsOf(k) \subseteq 1 .. n /\ CommitsOf(k)' = CommitsOf(k) \cup {i \in {n + 1} : k \in c.keys}
    BY <2>1, HistoryGrows
  <2>3. CommitsOf(k)' = CommitsOf(k)
    BY <2>2
  <2> QED
    BY <2>1, <2>2, <2>3, HistoryGrows
<1>2. \A s : s \in Seqs(Store, k)' <=> s \in Seqs(Store, k) /\ s \notin D
  BY <1>1 DEF Seqs
<1>3. \A i \in CommitsOf(k) : i \in Nat /\ i <= Last(k) /\ At(i) \in Nat
  BY HistoryTypes
<1>4. Ascending(k)'
  BY <1>1 DEF KeyInv, Ascending
<1>5. BodiesStay(k)'
  BY BodiesGrow DEF KeyInv
<1>6. NeverWritten(k)'
  BY <1>1 DEF KeyInv, NeverWritten
<1>7. VersionsTrue(k)'
  BY <1>1 DEF KeyInv, VersionsTrue
<1>8. TombstoneStored(k)'
  BY <1>1, <1>2 DEF KeyInv, TombstoneStored
<1>9. Unbroken(k)'
  <2>1. ASSUME NEW i \in CommitsOf(k), NEW j \in CommitsOf(k),
               At(i) \in Seqs(Store, k), At(i) \notin D, i < j, j # Last(k)
        PROVE  At(j) \in Seqs(Store, k) /\ At(j) \notin D
    <3>1. At(i) < At(j)
      BY <2>1 DEF KeyInv, Ascending
    <3> QED
      BY <2>1, <3>1 DEF KeyInv, Unbroken
  <2> QED
    BY <1>1, <1>2, <2>1 DEF Unbroken
<1>10. Missing(k)'
  BY <1>1, <1>2 DEF KeyInv, Missing
<1>11. Hides(k, Store.head[k].floor)'
  <2>1. c.db.head[k].floor \in Nat /\ Store.head[k].seq \in Nat
    BY HistoryTypes DEF CommitType, Db, HeadType
  <2>2. \A f \in Nat : Hides(k, f) => Hides(k, f)'
    BY <2>1, HidesGrows
  <2> QED
    BY <1>1, <2>1, <2>2
<1> QED
  BY <1>4, <1>5, <1>6, <1>7, <1>8, <1>9, <1>10, <1>11 DEF KeyInv

-----------------------------------------------------------------------------
(***************************************************************************)
(* What a transaction archives.                                            *)
(***************************************************************************)
\* A transaction that issues no operation.
LEMMA ArchivesFrame ==
    ASSUME TypeInv, NEW t \in Tx, Archives(t),
           ops'[t] = ops[t], archived'[t] = archived[t], deleted'[t] = deleted[t],
           snap'[t] = snap[t], base'[t] = base[t],
           \A i \in 1 .. Len(commits) : commits'[i] = commits[i]
    PROVE  Archives(t)'
<1>1. /\ Deletes(t)' = Deletes(t) /\ Created(t)' = Created(t) /\ Cascaded(t)' = Cascaded(t)
      /\ Tombed(t)' = Tombed(t)
  BY EdgeOpsFrame DEF Tombed, Touches
<1>2. commits'[base'[t]] = commits[base[t]] /\ commits'[snap'[t]] = commits[snap[t]]
  BY DEF TypeInv, BeginTypes
<1>3. \A k : Shown(t, k)' = Shown(t, k)
  BY <1>2 DEF Shown
<1> QED
  BY <1>1, <1>2, <1>3 DEF Archives

\* One with nothing buffered.
LEMMA ArchivesEmpty ==
    ASSUME NEW t \in Tx, ops'[t] = <<>>, archived'[t] = Nothing
    PROVE  Archives(t)'
<1>1. DOMAIN ops'[t] = {}
  OBVIOUS
<1>2. Tombed(t)' = {} /\ Cascaded(t)' = {} /\ Created(t)' = {}
  BY <1>1 DEF Tombed, Cascaded, Created
<1> QED
  BY <1>1, <1>2 DEF Archives, Nothing

\* What is deleted after one more operation.
LEMMA TombedAppend ==
    ASSUME BufferTypes, NEW t \in Tx, NEW op \in OpType, Log(t, op)
    PROVE  Tombed(t)' = Tombed(t) \cup {k \in Touches(op) : op.kind = "delete"}
<1>1. /\ Len(ops[t]) \in Nat /\ DOMAIN ops[t] = 1 .. Len(ops[t])
      /\ DOMAIN ops'[t] = 1 .. Len(ops[t]) + 1
      /\ \A i \in 1 .. Len(ops[t]) : ops'[t][i] = ops[t][i]
      /\ ops'[t][Len(ops[t]) + 1] = op
  BY AppendOp
<1>2. /\ \A i \in 1 .. Len(ops[t]) + 1 : i \in 1 .. Len(ops[t]) \/ i = Len(ops[t]) + 1
      /\ 1 .. Len(ops[t]) \subseteq 1 .. Len(ops[t]) + 1 /\ Len(ops[t]) + 1 \in 1 .. Len(ops[t]) + 1
  BY <1>1
<1> QED
  BY <1>1, <1>2 DEF Tombed, Touches

\* An operation: the first on its key knows what the snapshot holds.
LEMMA FirstOldAppend ==
    ASSUME TypeInv, NEW t \in Tx, Archives(t), UNCHANGED <<commits, snap>>,
           NEW op \in OpType, Log(t, op),
           \/ op.kind = "create" \/ op.old = Shown(t, op.key)
           \/ \E i \in DOMAIN ops[t] : ops[t][i].key = op.key
    PROVE  \A i \in DOMAIN ops'[t] :
             \/ ops'[t][i].kind = "create" \/ ops'[t][i].old = Shown(t, ops'[t][i].key)
             \/ \E j \in 1 .. i - 1 : ops'[t][j].key = ops'[t][i].key
<1>1. /\ Len(ops[t]) \in Nat /\ DOMAIN ops[t] = 1 .. Len(ops[t])
      /\ DOMAIN ops'[t] = 1 .. Len(ops[t]) + 1
      /\ \A i \in 1 .. Len(ops[t]) : ops'[t][i] = ops[t][i]
      /\ ops'[t][Len(ops[t]) + 1] = op
  BY AppendOp DEF TypeInv
<1>3. ASSUME NEW i \in 1 .. Len(ops[t])
      PROVE  \/ ops'[t][i].kind = "create" \/ ops'[t][i].old = Shown(t, ops'[t][i].key)
             \/ \E j \in 1 .. i - 1 : ops'[t][j].key = ops'[t][i].key
  <2>1. \A j \in 1 .. i - 1 : j \in 1 .. Len(ops[t])
    BY <1>1
  <2> QED
    BY <1>1, <2>1 DEF Archives
<1>4. \A j \in 1 .. Len(ops[t]) : j \in 1 .. (Len(ops[t]) + 1) - 1
  BY <1>1
<1>5. \A i \in 1 .. Len(ops[t]) + 1 : i \in 1 .. Len(ops[t]) \/ i = Len(ops[t]) + 1
  BY <1>1
<1>6. \/ op.kind = "create" \/ op.old = Shown(t, op.key)
      \/ \E j \in 1 .. (Len(ops[t]) + 1) - 1 : ops'[t][j].key = op.key
  BY <1>1, <1>4
<1> QED
  BY <1>1, <1>3, <1>5, <1>6

\* A creation or an update, of what was not deleted here.
LEMMA WriteArchives ==
    ASSUME TypeInv, NEW t \in Tx, Archives(t), UNCHANGED <<commits, snap, base>>, archived'[t] = archived[t],
           NEW op \in OpType, op.kind # "delete", op.gone = {}, Log(t, op),
           op.key \notin Cascaded(t), op.key \notin deleted[t], deleted'[t] = deleted[t],
           op.kind = "create" => Shown(t, op.key) = None,
           \/ op.kind = "create" \/ op.old = Shown(t, op.key)
           \/ \E i \in DOMAIN ops[t] : ops[t][i].key = op.key
    PROVE  Archives(t)'
<1>1. UNCHANGED commits[snap[t]] /\ UNCHANGED commits[base[t]]
  OBVIOUS
<1>2. /\ Cascaded(t)' = Cascaded(t)
      /\ \A k \in Created(t)' : k \in Created(t) \/ (k = op.key /\ op.kind = "create")
      /\ Tombed(t)' = Tombed(t) /\ Touches(op) = {op.key}
  <2>1. BufferTypes /\ Touches(op) = {op.key}
    BY DEF TypeInv, Touches
  <2>2. Cascaded(t)' = Cascaded(t) \cup op.gone /\ Created(t)' = Created(t) \cup {k \in {op.key} : op.kind = "create"}
    BY <2>1, OpSets
  <2>3. Tombed(t)' = Tombed(t) \cup {k \in Touches(op) : op.kind = "delete"}
    BY <2>1, TombedAppend
  <2> QED
    BY <2>1, <2>2, <2>3
<1>3. Tombed(t) \subseteq Deletes(t)'
  <2>1. ASSUME NEW k \in Tombed(t) PROVE k \in Deletes(t)'
    <3>1. k \in Deletes(t) /\ k \in deleted[t] \cup Cascaded(t) /\ k \in Entity
      BY OpSetTypes DEF Archives
    <3>2. k \notin Touches(op)
      BY <1>2, <3>1
    <3> QED
      BY <3>1, <3>2, OpSets DEF TypeInv
  <2> QED
    BY <2>1
<1>4. \A i \in DOMAIN ops'[t] :
         \/ ops'[t][i].kind = "create" \/ ops'[t][i].old = Shown(t, ops'[t][i].key)
         \/ \E j \in 1 .. i - 1 : ops'[t][j].key = ops'[t][i].key
  BY FirstOldAppend
<1> QED
  BY <1>1, <1>2, <1>3, <1>4 DEF Archives, Shown

\* A deletion.
LEMMA DeleteArchives ==
    ASSUME TypeInv, NEW t \in Tx, Archives(t), UNCHANGED <<commits, snap, base>>,
           NEW op \in OpType, op.kind = "delete", Log(t, op),
           deleted'[t] = deleted[t] \cup {op.key},
           \A k \in Entity : \/ archived'[t][k] = archived[t][k]
                             \/ /\ archived[t][k] = None
                                /\ archived'[t][k] \in {Shown(t, k), commits[base[t]].db.body[k]},
           \A k \in op.gone : archived'[t][k] # None,
           op.old = Shown(t, op.key) \/ \E i \in DOMAIN ops[t] : ops[t][i].key = op.key
    PROVE  Archives(t)'
<1>1. UNCHANGED commits[snap[t]] /\ UNCHANGED commits[base[t]]
  OBVIOUS
<1>2. /\ Cascaded(t)' = Cascaded(t) \cup op.gone
      /\ Created(t)' = Created(t)
      /\ Tombed(t)' = Tombed(t) \cup Touches(op)
  <2>1. BufferTypes
    BY DEF TypeInv
  <2>2. Cascaded(t)' = Cascaded(t) \cup op.gone /\ Created(t)' = Created(t) \cup {k \in {op.key} : op.kind = "create"}
    BY <2>1, OpSets
  <2>3. Tombed(t)' = Tombed(t) \cup {k \in Touches(op) : op.kind = "delete"}
    BY <2>1, TombedAppend
  <2> QED
    BY <2>2, <2>3
<1>3. \A k \in Entity : archived'[t][k] # None => archived'[t][k] \in {Shown(t, k), commits[base[t]].db.body[k]}
  BY DEF Archives
<1>4. \A k \in Cascaded(t)' : archived'[t][k] # None
  <2>1. Cascaded(t) \subseteq Entity
    BY OpSetTypes
  <2> QED
    BY <1>2, <2>1 DEF Archives
<1>5. Tombed(t)' \subseteq Deletes(t)' /\ Tombed(t)' \subseteq deleted'[t] \cup Cascaded(t)'
  <2>1. Touches(op) \subseteq Entity
    BY DEF Touches, OpType, Entity
  <2>2. Tombed(t) \subseteq Deletes(t) /\ Tombed(t) \subseteq Entity /\ Tombed(t) \subseteq deleted[t] \cup Cascaded(t)
    BY OpSetTypes DEF Archives
  <2>3. \A k \in Tombed(t) \cup Touches(op) : k \in Deletes(t)'
    BY <2>1, <2>2, OpSets DEF TypeInv
  <2> QED
    BY <1>2, <2>2, <2>3 DEF Touches
<1>6. \A i \in DOMAIN ops'[t] :
         \/ ops'[t][i].kind = "create" \/ ops'[t][i].old = Shown(t, ops'[t][i].key)
         \/ \E j \in 1 .. i - 1 : ops'[t][j].key = ops'[t][i].key
  BY FirstOldAppend
<1> QED
  BY <1>1, <1>2, <1>3, <1>4, <1>5, <1>6 DEF Archives, Shown

\* An operation of a transaction that sees its snapshot whole.
LEMMA OperateArchives ==
    ASSUME TypeInv, SnapshotIsWhole, NEW t \in Tx, Logged(t), Archives(t), Operate(t),
           Hazards \cap {"recreate", "archive", "upsert", "afterdelete"} = {}
    PROVE  Archives(t)'
<1>0. pc[t] = "active" /\ UNCHANGED <<commits, snap, base>>
  BY DEF Operate, CreateNode, UpdateNode, DeleteNode, CreateEdge, UpdateEdge, DeleteEdge, Enrol, beginVars
<1>1. /\ t \in Stored /\ None \in Stored /\ Node \subseteq Entity /\ Edge \subseteq Entity
      /\ \A k \in Entity : (IF k \in pending[t] THEN t ELSE Committed(t, k)) \in Stored
      /\ pending \in [Tx -> SUBSET Entity] /\ deleted \in [Tx -> SUBSET Entity]
      /\ archived \in [Tx -> [Entity -> Stored]]
  BY CommittedType DEF TypeInv, Stored, Content, Entity, BufferTypes
<1>2. \A k \in Entity : Committed(t, k) = Shown(t, k)
  BY <1>0 DEF SnapshotIsWhole, Shown
<1>3. \A k \in pending[t] : \E i \in DOMAIN ops[t] : ops[t][i].key = k
  BY DEF Logged
<1>4. \A n \in Node : n \notin Cascaded(t)
  BY OpSetTypes
<1>5. ASSUME NEW k \in Entity, k \notin Cascaded(t), k \notin deleted[t],
             deleted'[t] = deleted[t], archived'[t] = archived[t],
             NEW kind \in {"create", "update"}, NEW old \in Stored, Log(t, Op(kind, k, old, {})),
             kind = "create" => Committed(t, k) = None,
             kind = "update" => old = IF k \in pending[t] THEN t ELSE Committed(t, k)
      PROVE  Archives(t)'
  <2> DEFINE op == Op(kind, k, old, {})
  <2>1. op \in OpType /\ op.kind = kind /\ op.key = k /\ op.gone = {} /\ op.old = old
    BY OpRecord DEF Op
  <2>2. \/ kind = "create" \/ old = Shown(t, k)
        \/ \E i \in DOMAIN ops[t] : ops[t][i].key = k
    BY <1>2, <1>3, <1>5
  <2> HIDE DEF op
  <2> QED
    BY <1>0, <1>2, <1>5, <2>1, <2>2, WriteArchives DEF op
<1>6. ASSUME NEW n \in Node, CreateNode(t, n) PROVE Archives(t)'
  <2>1. /\ Log(t, Op("create", n, None, {})) /\ n \notin deleted[t] /\ Committed(t, n) = None
        /\ UNCHANGED archived
    BY <1>6 DEF CreateNode
  <2>2. deleted'[t] = deleted[t]
    BY <1>1, <1>6, <2>1 DEF CreateNode
  <2> QED
    BY <1>1, <1>4, <1>5, <2>1, <2>2
<1>7. ASSUME NEW n \in Node, UpdateNode(t, n) PROVE Archives(t)'
  <2> DEFINE old == IF n \in pending[t] THEN t ELSE Committed(t, n)
  <2>1. /\ Log(t, Op("update", n, old, {})) /\ n \notin deleted[t]
        /\ UNCHANGED <<deleted, archived>>
    BY <1>7 DEF UpdateNode
  <2>2. old \in Stored /\ n \in Entity
    BY <1>1
  <2> QED
    BY <1>4, <1>5, <2>1, <2>2
<1>8. ASSUME NEW e \in Edge, CreateEdge(t, e) PROVE Archives(t)'
  <2>1. /\ Log(t, Op("create", e, None, {})) /\ e \notin deleted[t] /\ e \notin Cascaded(t)
        /\ Committed(t, e) = None
        /\ UNCHANGED <<deleted, archived>>
    BY <1>8 DEF CreateEdge
  <2> QED
    BY <1>1, <1>5, <2>1
<1>9. ASSUME NEW e \in Edge, UpdateEdge(t, e) PROVE Archives(t)'
  <2> DEFINE old == IF e \in pending[t] THEN t ELSE Committed(t, e)
  <2>1. /\ Log(t, Op("update", e, old, {})) /\ e \notin deleted[t] /\ e \notin Cascaded(t)
        /\ UNCHANGED <<deleted, archived>>
    BY <1>9 DEF UpdateEdge
  <2>2. old \in Stored /\ e \in Entity
    BY <1>1
  <2> QED
    BY <1>5, <2>1, <2>2
<1>10. ASSUME NEW e \in Edge, DeleteEdge(t, e) PROVE Archives(t)'
  <2> DEFINE old == IF e \in pending[t] THEN t ELSE Committed(t, e)
             op == Op("delete", e, old, {})
  <2>1. /\ Log(t, op) /\ deleted'[t] = deleted[t] \cup {e} /\ UNCHANGED archived
    BY <1>1, <1>10 DEF DeleteEdge
  <2>2. old \in Stored /\ e \in Entity
    BY <1>1
  <2>3. old = Shown(t, e) \/ \E i \in DOMAIN ops[t] : ops[t][i].key = e
    BY <1>2, <1>3, <2>2
  <2> HIDE DEF old
  <2>4. op \in OpType /\ op.kind = "delete" /\ op.key = e /\ op.gone = {} /\ op.old = old
    BY <2>2, OpRecord DEF Op
  <2> HIDE DEF op
  <2> QED
    BY <1>0, <2>1, <2>3, <2>4, DeleteArchives
<1>11. ASSUME NEW n \in Node, DeleteNode(t, n) PROVE Archives(t)'
  <2> DEFINE db == commits[base[t]].db
             old == IF n \in pending[t] THEN t ELSE Committed(t, n)
             gone == {e \in Incident(n) : Live(db, e)}
             first == {k \in {n} \cup gone : Live(db, k) /\ archived[t][k] = None}
             op == Op("delete", n, old, gone)
  <2>1. /\ Log(t, op) /\ deleted'[t] = deleted[t] \cup {n}
        /\ archived'[t] = [k \in Entity |-> IF k \notin first THEN archived[t][k]
                                            ELSE IF k = n THEN old ELSE db.body[k]]
        /\ ~(n \in pending[t] /\ Live(db, n))
    BY <1>1, <1>11 DEF DeleteNode
  <2>2. old \in Stored /\ n \in Entity /\ gone \in SUBSET Edge
    BY <1>1 DEF Incident
  <2>3. old = Shown(t, n) \/ \E i \in DOMAIN ops[t] : ops[t][i].key = n
    BY <1>2, <1>3, <2>2
  <2>4. n \in first => old = Shown(t, n)
    BY <1>2, <2>1, <2>2
  <2>5. ASSUME NEW k \in Entity
        PROVE  \/ archived'[t][k] = archived[t][k]
               \/ /\ archived[t][k] = None
                  /\ archived'[t][k] \in {Shown(t, k), db.body[k]}
    <3>1. archived'[t][k] = IF k \notin first THEN archived[t][k] ELSE IF k = n THEN old ELSE db.body[k]
      BY <2>1
    <3>2. k \in first => archived[t][k] = None
      OBVIOUS
    <3> HIDE DEF first, old, db
    <3> QED
      BY <2>4, <3>1, <3>2
  <2>6. ASSUME NEW k \in gone PROVE archived'[t][k] # None
    <3>1. k \in Entity /\ k # n /\ Live(db, k)
      BY <1>1, <2>2, MVCCAssumption
    <3>2. archived'[t][k] = IF k \notin first THEN archived[t][k] ELSE db.body[k]
      BY <2>1, <3>1
    <3> QED
      BY <2>6, <3>1, <3>2 DEF Live
  <2> HIDE DEF old, gone, first
  <2>7. op \in OpType /\ op.kind = "delete" /\ op.key = n /\ op.gone = gone /\ op.old = old
    BY <2>2, OpRecord DEF Op
  <2> HIDE DEF op
  <2> QED
    BY <1>0, <2>1, <2>3, <2>5, <2>6, <2>7, DeleteArchives
<1> QED
  BY <1>6, <1>7, <1>8, <1>9, <1>10, <1>11 DEF Operate

\* What is archived when a head is replaced is what it stood for.
LEMMA SupersededIsStored ==
    ASSUME TypeInv, CommitInv, NEW t \in Tx, ArchiveInv(t), pc[t] = "prepared", ~Stale(t),
           NEW k \in Touched(t), BodiesStay(k), Live(Store, k)
    PROVE  Superseded(t, k) = Store.body[k]
<1>0. k \in Entity
  BY TouchedType DEF TypeInv
<1>1. \A j \in snap[t] + 1 .. Len(commits) : k \notin commits[j].keys
  BY DEF CommitInv, TxInv, Checked
<1>2. /\ Len(commits) \in Nat /\ snap[t] \in 1 .. Len(commits) /\ base[t] \in 1 .. Len(commits)
      /\ snap[t] <= base[t]
  BY StoreFields DEF TypeInv, BeginTypes, ArchiveInv
<1>3. Store.body[k] = Shown(t, k) /\ commits[base[t]].db.body[k] = Shown(t, k)
  <2>1. /\ Len(commits) \in 1 .. Len(commits) /\ snap[t] \in 1 .. base[t]
        /\ snap[t] + 1 .. base[t] \subseteq snap[t] + 1 .. Len(commits)
    BY <1>2
  <2>2. BodyAt(Len(commits), k) = BodyAt(snap[t], k) /\ BodyAt(base[t], k) = BodyAt(snap[t], k)
    BY <1>1, <1>2, <2>1 DEF BodiesStay
  <2> QED
    BY <2>2, StoreFields DEF BodyAt, Shown, TypeInv
<1>4. Shown(t, k) # None /\ k \notin Created(t)
  BY <1>3 DEF Live, ArchiveInv, Archives
<1>5. CASE archived[t][k] # None
  BY <1>0, <1>3, <1>5 DEF Superseded, ArchiveInv, Archives
<1>6. CASE archived[t][k] = None
  <2> DEFINE own == {i \in DOMAIN ops[t] : ops[t][i].key = k /\ ops[t][i].kind # "create"}
             m == CHOOSE i \in own : \A j \in own : i <= j
  <2>1. \A i \in DOMAIN ops[t] : ops[t][i].key = k => i \in own
    BY <1>4 DEF Created
  <2>2. own # {}
    <3>1. PICK i \in DOMAIN ops[t] : k \in Touches(ops[t][i])
      BY DEF Touched
    <3>2. k \notin ops[t][i].gone
      BY <1>6, <3>1 DEF ArchiveInv, Archives, Cascaded
    <3> QED
      BY <2>1, <3>1, <3>2 DEF Touches
  <2>3. own \in SUBSET Nat /\ DOMAIN ops[t] = 1 .. Len(ops[t]) /\ Len(ops[t]) \in Nat
    BY OpFields, LenProperties DEF TypeInv, BufferTypes
  <2>4. m \in own /\ \A j \in own : m <= j
    <3> HIDE DEF own
    <3> QED
      BY <2>2, <2>3, MinOfNats DEF MinOf
  <2>5. Superseded(t, k) = ops[t][m].old
    BY <1>6, <2>2 DEF Superseded
  <2> HIDE DEF m
  <2>6. ~\E j \in 1 .. m - 1 : ops[t][j].key = ops[t][m].key
    <3> SUFFICES ASSUME NEW j \in 1 .. m - 1, ops[t][j].key = ops[t][m].key PROVE FALSE
      OBVIOUS
    <3>1. ops[t][m].key = k /\ m \in 1 .. Len(ops[t])
      BY <2>3, <2>4
    <3>2. j \in DOMAIN ops[t] /\ j \in Nat /\ m \in Nat /\ ~(m <= j)
      BY <2>3, <3>1
    <3>3. j \in own
      BY <2>1, <3>1, <3>2
    <3> HIDE DEF own
    <3> QED
      BY <2>4, <3>2, <3>3
  <2>7. ops[t][m].old = Shown(t, k)
    BY <2>4, <2>6 DEF ArchiveInv, Archives
  <2> QED
    BY <1>3, <2>5, <2>7
<1> QED
  BY <1>5, <1>6

-----------------------------------------------------------------------------
(***************************************************************************)
(* Publishing.                                                             *)
(***************************************************************************)
\* What a transaction deletes it has an operation for.
LEMMA DeletesTombed ==
    ASSUME TypeInv, NEW t \in Tx
    PROVE  Deletes(t) \subseteq Tombed(t)
<1> SUFFICES ASSUME NEW k \in Deletes(t) PROVE k \in Tombed(t)
  OBVIOUS
<1> DEFINE S == {i \in DOMAIN ops[t] : k \in Touches(ops[t][i])}
<1>1. /\ S \in SUBSET Nat /\ S # {} /\ Len(ops[t]) \in Nat /\ \A s \in S : s <= Len(ops[t])
  BY LenProperties DEF TypeInv, BufferTypes, Deletes, Touched
<1>2. MaxOf(S) \in S
  <2> HIDE DEF S
  <2> QED
    BY <1>1, MaxOfNats
<1>3. LastOp(t, k).kind = "delete" /\ LastOp(t, k) = ops[t][MaxOf(S)]
  BY DEF Deletes, LastOp
<1>4. MaxOf(S) \in DOMAIN ops[t] /\ k \in Touches(ops[t][MaxOf(S)])
  BY <1>2
<1> HIDE DEF S
<1> QED
  BY <1>3, <1>4 DEF Tombed

\* The versions of an entity whose head is replaced: those there were, what
\* the head stood for, and the tombstone.
LEMMA RecordsOf ==
    ASSUME TypeInv, HeadInv, SnapshotInv, NEW t \in Tx, NEW k \in Touched(t), KeyInv(k),
           Live(Store, k) => Superseded(t, k) = Store.body[k],
           Tombed(t) \subseteq Deletes(t)
    PROVE  /\ Store.ver[k] \subseteq Records(t, k)
           /\ \A r \in Records(t, k) :
                \/ r \in Store.ver[k]
                \/ Store.head[k] # NoHead /\ r.seq = Store.head[k].seq /\ r.val = Store.body[k]
                \/ k \in Deletes(t) /\ r.seq = version[t] /\ r.val = None
           /\ Store.head[k] # NoHead => \E r \in Records(t, k) : r.seq = Store.head[k].seq
           /\ k \in Deletes(t) => \E r \in Records(t, k) : r.seq = version[t]
<1> DEFINE h == Store.head[k]
           known == \E r \in Store.ver[k] : r.seq = h.seq
           replaced == {[seq |-> h.seq, val |-> x] :
                          x \in {y \in {Superseded(t, k)} : y # None /\ h # NoHead /\ ~h.tomb /\ ~known}}
           buried == {[seq |-> version[t], val |-> x] : x \in {y \in {None} : k \in Deletes(t)}}
<1>0. k \in Entity
  BY TouchedType DEF TypeInv
<1>1. (\E i \in DOMAIN ops[t] : ops[t][i].kind = "delete" /\ k \in Touches(ops[t][i])) <=> k \in Deletes(t)
  BY DeletesTombed DEF Tombed
<1>2. Records(t, k) = Store.ver[k] \cup replaced \cup buried
  BY <1>1, Zenon DEF Records
<1>3. h # NoHead /\ ~h.tomb => Live(Store, k)
  <2>1. HeadShape(Store, k)
    BY <1>0, StoreFields DEF SnapshotInv, HeadShapes, TypeInv
  <2> QED
    BY <2>1 DEF HeadShape, Live
<1>4. \A r \in replaced : h # NoHead /\ r.seq = h.seq /\ r.val = Store.body[k]
  BY <1>3
<1>5. \A r \in buried : k \in Deletes(t) /\ r.seq = version[t] /\ r.val = None
  OBVIOUS
<1>6. ASSUME h # NoHead PROVE \E r \in Store.ver[k] \cup replaced : r.seq = h.seq
  <2>1. CASE known
    BY <2>1
  <2>2. CASE ~known /\ ~h.tomb
    <3>1. Superseded(t, k) # None
      BY <1>3, <1>6, <2>2 DEF Live
    <3>2. [seq |-> h.seq, val |-> Superseded(t, k)] \in replaced
      BY <1>6, <2>2, <3>1
    <3> HIDE DEF replaced
    <3> QED
      BY <3>2
  <2>3. CASE h.tomb
    <3>1. h.seq \in Seqs(Store, k)
      BY <1>6, <2>3 DEF KeyInv, TombstoneStored
    <3> QED
      BY <3>1 DEF Seqs
  <2> QED
    BY <2>1, <2>2, <2>3
<1>7. k \in Deletes(t) => [seq |-> version[t], val |-> None] \in buried
  OBVIOUS
<1> HIDE DEF replaced, buried, known
<1> QED
  BY <1>2, <1>4, <1>5, <1>6, <1>7

\* An entity a transaction has written.
LEMMA KeyPublished ==
    ASSUME TypeInv, HeadInv, SnapshotInv, NEW t \in Tx, NEW early \in BOOLEAN,
           NEW c \in CommitType, commits' = Append(commits, c),
           c.db = Published(t, early), c.keys = Written(t), c.seq = version[t],
           NEW k \in Touched(t), KeyInv(k),
           \A i \in CommitsOf(k) : At(i) < version[t],
           Live(Store, k) => Superseded(t, k) = Store.body[k],
           Hides(k, floors[t][k]),
           Tombed(t) \subseteq Deletes(t)
    PROVE  KeyInv(k)'
<1> DEFINE h == Store.head[k]
           L == Last(k)
<1>0. /\ k \in Entity /\ k \in c.keys /\ FirstCommit
      /\ version[t] \in Nat /\ floors[t][k] \in Nat
  BY TouchedType DEF TypeInv, VersionTypes, Written, HeadInv
<1>1. PICK n : n = Len(commits)
  OBVIOUS
<1>2. /\ n \in Nat /\ Store' = c.db
      /\ CommitsOf(k)' = CommitsOf(k) \cup {n + 1} /\ CommitsOf(k) \subseteq 1 .. n
      /\ \A i \in CommitsOf(k) : /\ At(i)' = At(i) /\ BodyAt(i, k)' = BodyAt(i, k)
                                 /\ Spare(k, i) => Spare(k, i)'
      /\ At(n + 1)' = version[t] /\ BodyAt(n + 1, k)' = c.db.body[k]
      /\ Last(k)' = n + 1
  <2>1. CommitsOf(k)' = CommitsOf(k) \cup {i \in {n + 1} : k \in c.keys} /\ CommitsOf(k) \subseteq 1 .. n
    BY <1>0, <1>1, HistoryGrows
  <2>2. CommitsOf(k)' = CommitsOf(k) \cup {n + 1}
    BY <1>0, <2>1
  <2> QED
    BY <1>0, <1>1, <2>1, <2>2, HistoryGrows
<1>3. /\ c.db.head[k] = NewHead(t, k, early) /\ c.db.head[k].seq = version[t]
      /\ c.db.head[k].tomb = (k \in Deletes(t))
      /\ c.db.body[k] = None <=> k \in Deletes(t)
      /\ c.db.ver[k] = Records(t, k)
  BY <1>0, PublishedFields
<1>4. /\ Store.ver[k] \subseteq Records(t, k)
      /\ \A r \in Records(t, k) :
           \/ r \in Store.ver[k]
           \/ h # NoHead /\ r.seq = h.seq /\ r.val = Store.body[k]
           \/ k \in Deletes(t) /\ r.seq = version[t] /\ r.val = None
      /\ h # NoHead => \E r \in Records(t, k) : r.seq = h.seq
      /\ k \in Deletes(t) => \E r \in Records(t, k) : r.seq = version[t]
  BY RecordsOf
<1>5. /\ L \in CommitsOf(k) /\ \A i \in CommitsOf(k) : i \in Nat /\ i <= L /\ At(i) \in Nat /\ i # n + 1
      /\ h.seq \in Nat /\ h.floor \in Nat
  BY <1>0, <1>2, HistoryTypes
<1>6. Store.body[k] = BodyAt(L, k)
  BY <1>0, LastBody DEF KeyInv
<1>7. h # NoHead => h.seq = At(L)
  BY <1>0, HeadIsLastDef DEF HeadInv, Last, At
<1> DEFINE Q == {r.seq : r \in Records(t, k)}
<1>8. /\ Seqs(Store, k)' = Q /\ Seqs(Store, k) \subseteq Q
      /\ \A i \in CommitsOf(k) : At(i) \in Q => At(i) \in Seqs(Store, k) \/ i = L
      /\ h # NoHead => At(L) \in Q
      /\ version[t] \in Q <=> k \in Deletes(t)
  <2>1. Seqs(Store, k)' = Q /\ Seqs(Store, k) \subseteq Q
    BY <1>2, <1>3, <1>4 DEF Seqs
  <2>2. ASSUME NEW i \in CommitsOf(k), At(i) \in Q PROVE At(i) \in Seqs(Store, k) \/ i = L
    <3>1. PICK r \in Records(t, k) : r.seq = At(i)
      BY <2>2
    <3>2. CASE r \in Store.ver[k]
      BY <3>1, <3>2 DEF Seqs
    <3>3. CASE h # NoHead /\ r.seq = h.seq
      <4>1. At(i) = At(L)
        BY <1>7, <3>1, <3>3
      <4>2. ~(i < L)
        BY <1>5, <4>1 DEF KeyInv, Ascending
      <4> QED
        BY <1>5, <4>2
    <3>4. r.seq # version[t]
      BY <1>0, <1>5, <3>1
    <3> QED
      BY <1>4, <3>2, <3>3, <3>4
  <2>3. h # NoHead => At(L) \in Q
    BY <1>4, <1>7
  <2>4. version[t] \in Q => k \in Deletes(t)
    <3> SUFFICES ASSUME NEW r \in Records(t, k), r.seq = version[t] PROVE k \in Deletes(t)
      OBVIOUS
    <3>1. r \notin Store.ver[k]
      BY <1>0, <1>5 DEF KeyInv, VersionsTrue
    <3>2. h # NoHead => h.seq # version[t]
      BY <1>0, <1>5, <1>7
    <3> QED
      BY <1>4, <3>1, <3>2
  <2>5. k \in Deletes(t) => version[t] \in Q
    BY <1>4
  <2> QED
    BY <2>1, <2>2, <2>3, <2>4, <2>5
<1> HIDE DEF Q, L
<1>9. h = NoHead => CommitsOf(k) = {1} /\ L = 1 /\ Spare(k, 1)
  BY <1>5, <1>6 DEF KeyInv, NeverWritten, Spare
<1>10. Ascending(k)'
  <2>1. ASSUME NEW i \in CommitsOf(k)', NEW j \in CommitsOf(k)', i < j PROVE At(i)' < At(j)'
    <3>1. i \in CommitsOf(k)
      <4>1. i # n + 1
        BY <1>2, <1>5, <2>1
      <4> QED
        BY <1>2, <4>1
    <3>2. CASE j = n + 1
      BY <1>2, <3>1, <3>2
    <3>3. CASE j \in CommitsOf(k)
      BY <1>2, <2>1, <3>1, <3>3 DEF KeyInv, Ascending
    <3> QED
      BY <1>2, <3>2, <3>3
  <2> QED
    BY <2>1 DEF Ascending
<1>11. BodiesStay(k)'
  BY <1>0, BodiesGrow DEF KeyInv
<1>12. c.db.head[k] # NoHead
  BY <1>0, <1>3, <1>5 DEF NoHead
<1>13. NeverWritten(k)'
  BY <1>2, <1>12 DEF NeverWritten
<1>14. VersionsTrue(k)'
  <2>1. ASSUME NEW r \in Records(t, k)
        PROVE  \E i \in CommitsOf(k)' : At(i)' = r.seq /\ BodyAt(i, k)' = r.val
    <3>1. CASE r \in Store.ver[k]
      <4>1. PICK i \in CommitsOf(k) : At(i) = r.seq /\ BodyAt(i, k) = r.val
        BY <3>1 DEF KeyInv, VersionsTrue
      <4> QED
        BY <1>2, <4>1
    <3>2. CASE h # NoHead /\ r.seq = h.seq /\ r.val = Store.body[k]
      BY <1>2, <1>5, <1>6, <1>7, <3>2
    <3>3. CASE k \in Deletes(t) /\ r.seq = version[t] /\ r.val = None
      BY <1>2, <1>3, <3>3
    <3> QED
      BY <1>4, <3>1, <3>2, <3>3
  <2> QED
    BY <1>2, <1>3, <2>1 DEF VersionsTrue
<1>15. TombstoneStored(k)'
  BY <1>2, <1>3, <1>8 DEF TombstoneStored
<1>16. Unbroken(k)'
  <2>1. ASSUME NEW i \in CommitsOf(k), NEW j \in CommitsOf(k), At(i) \in Q, i < j
        PROVE  At(j) \in Q
    <3>1. i # L /\ At(i) \in Seqs(Store, k)
      BY <1>5, <1>8, <2>1
    <3>2. CASE j # L
      BY <1>8, <2>1, <3>1, <3>2 DEF KeyInv, Unbroken, L
    <3>3. CASE j = L
      <4>1. h # NoHead
        BY <1>9, <3>1
      <4> QED
        BY <1>8, <3>3, <4>1
    <3> QED
      BY <3>2, <3>3
  <2>2. ASSUME NEW i \in CommitsOf(k)', NEW j \in CommitsOf(k)', At(i)' \in Q, i < j, j # n + 1
        PROVE  At(j)' \in Q
    <3>1. j \in CommitsOf(k)
      BY <1>2, <2>2
    <3>2. i \in CommitsOf(k)
      <4>1. i # n + 1
        BY <1>2, <1>5, <2>2, <3>1
      <4> QED
        BY <1>2, <4>1
    <3> QED
      BY <1>2, <2>1, <2>2, <3>1, <3>2
  <2> QED
    BY <1>2, <1>8, <2>2 DEF Unbroken
<1>17. Missing(k)'
  <2>1. ASSUME NEW i \in CommitsOf(k), At(i) \notin Q PROVE Spare(k, i)
    <3>1. CASE i = L
      BY <1>8, <1>9, <2>1, <3>1
    <3>2. CASE i # L
      BY <1>8, <2>1, <3>2 DEF KeyInv, Missing, L
    <3> QED
      BY <3>1, <3>2
  <2>2. ASSUME NEW i \in CommitsOf(k)', i # n + 1, At(i)' \notin Q PROVE Spare(k, i)'
    <3>1. i \in CommitsOf(k)
      BY <1>2, <2>2
    <3> QED
      BY <1>2, <2>1, <2>2, <3>1
  <2> QED
    BY <1>2, <1>8, <2>2 DEF Missing
<1>18. Hides(k, Store.head[k].floor)'
  <2>1. Store'.head[k].floor = IF h = NoHead THEN version[t]
                               ELSE IF early THEN floors[t][k] ELSE h.floor
    BY <1>2, <1>3 DEF NewHead, HeadRecord
  <2>2. CASE h = NoHead
    <3>1. ASSUME NEW i \in CommitsOf(k)', At(i)' < version[t] PROVE Spare(k, i)'
      <4>1. i # n + 1
        BY <1>0, <1>2, <3>1
      <4>2. i \in CommitsOf(k) /\ i = 1
        BY <1>2, <1>9, <2>2, <4>1
      <4> QED
        BY <1>2, <1>9, <2>2, <4>2
    <3>2. version[t] <= Store'.head[k].seq
      BY <1>0, <1>2, <1>3
    <3> QED
      BY <2>1, <2>2, <3>1, <3>2 DEF Hides
  <2>3. CASE h # NoHead
    <3>1. At(L) < version[t] /\ At(L) = h.seq
      BY <1>5, <1>7, <2>3
    <3>2. c.db.head[k].seq >= h.seq /\ c.seq >= h.seq
      BY <1>0, <1>3, <1>5, <3>1
    <3>3. \A f \in Nat : Hides(k, f) => Hides(k, f)'
      BY <1>0, <3>2, HidesGrows
    <3>4. Hides(k, h.floor)
      BY DEF KeyInv
    <3> QED
      BY <1>0, <1>5, <2>1, <2>3, <3>3, <3>4
  <2> QED
    BY <2>2, <2>3
<1> QED
  BY <1>10, <1>11, <1>13, <1>14, <1>15, <1>16, <1>17, <1>18 DEF KeyInv

-----------------------------------------------------------------------------
(***************************************************************************)
(* Planning.                                                               *)
(***************************************************************************)
\* A version below the bound has more than Keep newer ones, and each is that
\* of a commit that was superseded, or a tombstone.
LEMMA BoundIsSpare ==
    ASSUME TypeInv, HeadInv, NEW k \in Entity, KeyInv(k), Store.head[k] # NoHead,
           NEW x \in Seqs(Store, k),
           Cardinality({s \in Seqs(Store, k) : s < x}) = MaxOf({0, Cardinality(Seqs(Store, k)) - Keep - 1}),
           NEW i \in CommitsOf(k), At(i) < x
    PROVE  Spare(k, i)
<1> DEFINE h == Store.head[k]
           S == Seqs(Store, k)
           L == Last(k)
           B == {s \in S : s < x}
           H == HistoryAfter(k, At(i))
<1>0. /\ FirstCommit /\ S \in SUBSET Nat /\ Bounded(S)
      /\ L \in CommitsOf(k) /\ \A j \in CommitsOf(k) : j \in Nat /\ j <= L /\ At(j) \in Nat
  BY HistoryTypes DEF HeadInv
<1>1. h.seq = At(L) /\ h.tomb = (BodyAt(L, k) = None)
  BY HeadIsLastDef DEF HeadInv, Last, At, BodyAt
\* The versions there are, and their commits.
<1>2. ASSUME NEW s \in S PROVE \E j \in CommitsOf(k) : At(j) = s
  <2>1. PICK r \in Store.ver[k] : r.seq = s
    BY DEF Seqs
  <2> QED
    BY <2>1 DEF KeyInv, VersionsTrue
<1>3. ASSUME NEW j \in CommitsOf(k), At(j) \in S, At(j) > At(i) PROVE j \in H
  <2>1. j \in After(k, At(i))
    BY <1>3 DEF After, CommitsOf, At
  <2>2. CASE j = L
    <3>1. h.tomb
      BY <1>1, <1>3, <2>2 DEF KeyInv, TombstoneStored
    <3> QED
      BY <1>1, <2>1, <2>2, <3>1 DEF HistoryAfter, BodyAt
  <2>3. CASE j # L
    <3>1. At(L) > At(j)
      BY <1>0, <2>3 DEF KeyInv, Ascending
    <3>2. L \in After(k, At(i))
      <4>1. At(L) > At(i)
        BY <1>0, <1>3, <3>1
      <4> QED
        BY <1>0, <4>1 DEF After, CommitsOf, At
    <3> QED
      BY <2>1, <3>1, <3>2 DEF HistoryAfter, At
  <2> QED
    BY <2>2, <2>3
<1>4. x \in Nat /\ At(i) \in Nat /\ x <= At(L)
  <2>1. PICK j \in CommitsOf(k) : At(j) = x
    BY <1>2
  <2>2. j = L \/ j < L
    BY <1>0, <2>1
  <2> QED
    BY <1>0, <2>1, <2>2 DEF KeyInv, Ascending
<1>5. CASE At(i) \notin S
  <2>1. i # L
    BY <1>4
  <2> QED
    BY <1>5, <2>1 DEF KeyInv, Missing
<1>6. CASE At(i) \in S
  <2>1. IsFiniteSet(S) /\ Cardinality(S) \in Nat
    <3>1. PICK b \in Nat : \A s \in S : s <= b
      BY <1>0 DEF Bounded
    <3> HIDE DEF S
    <3> QED
      BY <1>0, <3>1, FS_BoundedSetOfNaturals, FS_CardinalityType
  <2>2. IsFiniteSet(B) /\ Cardinality(B) \in Nat /\ Cardinality(B) # 0
    <3>1. B \in SUBSET S /\ B # {}
      BY <1>6
    <3> HIDE DEF B, S
    <3> QED
      BY <2>1, <3>1, FS_Subset, FS_CardinalityType, FS_EmptySet
  <2>3. Cardinality(B) = Cardinality(S) - Keep - 1
    <3>1. Cardinality(B) = MaxOf({0, Cardinality(S) - Keep - 1})
      OBVIOUS
    <3> HIDE DEF B, S
    <3> QED
      BY <2>1, <2>2, <3>1, MaxOfZero, LifecycleAssumption
  <2>4. Cardinality(S \ B) = Keep + 1
    <3>1. S \cap B = B
      OBVIOUS
    <3> HIDE DEF B, S
    <3>2. Cardinality(S \ B) = Cardinality(S) - Cardinality(S \cap B)
      BY <2>1, FS_Difference
    <3>3. Cardinality(S \ B) = Cardinality(S) - Cardinality(B)
      BY <3>1, <3>2, Zenon
    <3>4. PICK a, b, c \in Int : a = Cardinality(S) /\ b = Cardinality(B) /\ c = Keep
      BY <2>1, <2>2, LifecycleAssumption
    <3>5. b = a - c - 1 /\ Cardinality(S \ B) = a - b
      BY <2>3, <3>3, <3>4, Zenon
    <3>6. Cardinality(S \ B) = c + 1
      BY <3>5
    <3> QED
      BY <3>4, <3>6
  <2> DEFINE U == {j \in H : At(j) \in S \ B}
             g == [j \in U |-> At(j)]
  <2>5. IsFiniteSet(H) /\ Cardinality(H) \in Nat
    BY HistoryFinite
  <2>6. IsFiniteSet(U) /\ Cardinality(U) <= Cardinality(H) /\ Cardinality(U) \in Nat
    <3>1. U \in SUBSET H
      OBVIOUS
    <3> HIDE DEF U, H
    <3> QED
      BY <2>5, <3>1, FS_Subset, FS_CardinalityType
  <2>7. g \in Surjection(U, S \ B)
    <3>1. ASSUME NEW s \in S \ B PROVE \E j \in U : g[j] = s
      <4>1. PICK j \in CommitsOf(k) : At(j) = s
        BY <1>2
      <4>2. At(j) > At(i)
        BY <1>0, <1>4, <3>1, <4>1
      <4>3. j \in U
        BY <1>3, <3>1, <4>1, <4>2
      <4> QED
        BY <4>1, <4>3
    <3>2. g \in [U -> S \ B]
      OBVIOUS
    <3> QED
      BY <3>1, <3>2 DEF Surjection
  <2>8. Cardinality(S \ B) <= Cardinality(U)
    <3> HIDE DEF g, U, S, B
    <3> QED
      BY <2>6, <2>7, FS_Surjection
  <2>9. Cardinality(H) > Keep
    <3> HIDE DEF U, S, B, H
    <3> QED
      BY <2>4, <2>5, <2>6, <2>8, LifecycleAssumption
  <2> QED
    BY <2>9 DEF Spare
<1> QED
  BY <1>5, <1>6

\* A safe floor hides what is spare.
LEMMA SafeFloorHides ==
    ASSUME TypeInv, HeadInv, SnapshotInv, NEW k \in Entity, KeyInv(k), Store.head[k] # NoHead,
           Seqs(Store, k) # {}, NEW f \in SafeFloors(Store.head[k], Seqs(Store, k))
    PROVE  f \in Nat /\ Hides(k, f)
<1> DEFINE S == Seqs(Store, k)
           h == Store.head[k]
           x == MaxVersionsBound(S)
<1>1. S \in SUBSET Nat /\ Bounded(S) /\ h \in HeadType /\ h.seq \in Nat /\ h.floor \in Nat
  BY HistoryTypes DEF HeadInv
<1>2. /\ f \in Nat /\ x \in S /\ (f = h.floor \/ f <= x)
      /\ Cardinality({s \in S : s < x}) = MaxOf({0, Cardinality(S) - Keep - 1})
  <2> HIDE DEF S, h
  <2> QED
    BY <1>1, SafeFloorType DEF S, h
<1>3. CASE f = h.floor
  BY <1>2, <1>3 DEF KeyInv
<1>4. CASE f <= x
  <2>1. x \in Nat /\ x <= h.seq
    <3>1. HeadShape(Store, k)
      BY StoreFields DEF SnapshotInv, HeadShapes, TypeInv
    <3> QED
      BY <1>1, <1>2, <3>1 DEF HeadShape, Seqs
  <2>2. \A i \in CommitsOf(k) : At(i) \in Nat
    BY HistoryTypes DEF HeadInv
  <2> HIDE DEF x
  <2>3. ASSUME NEW i \in CommitsOf(k), At(i) < f PROVE Spare(k, i)
    <3>1. At(i) < x
      BY <1>2, <1>4, <2>1, <2>2, <2>3
    <3> QED
      BY <1>2, <3>1, BoundIsSpare
  <2>4. f <= h.seq
    BY <1>1, <1>2, <1>4, <2>1
  <2> QED
    BY <1>2, <2>3, <2>4 DEF Hides
<1> QED
  BY <1>2, <1>3, <1>4

-----------------------------------------------------------------------------
(***************************************************************************)
(* The steps.                                                              *)
(***************************************************************************)
\* At first there is one commit, and nothing but it to read.
LEMMA InitHistoryInv == LifecycleInit => HistoryInv
<1> SUFFICES ASSUME LifecycleInit PROVE HistoryInv
  OBVIOUS
<1>1. /\ Len(commits) = 1 /\ DOMAIN commits = {1} /\ At(1) = 1 /\ Store = commits[1].db
      /\ \A k \in Entity : CommitsOf(k) = {1} /\ Store.ver[k] = {} /\ Seqs(Store, k) = {}
  BY InitStore DEF At, CommitsOf, Seqs
<1>2. MaxOf({1}) = 1
  BY MaxOfTwo
<1>3. Positive
  BY <1>1 DEF Positive, LifecycleInit, Init
<1>4. ASSUME NEW k \in Entity PROVE KeyInv(k)
  <2>1. CommitsOf(k) = {1} /\ Last(k) = 1
    BY <1>1, <1>2 DEF Last
  <2>2. Ascending(k) /\ VersionsTrue(k) /\ Unbroken(k) /\ Missing(k)
    BY <1>1, <2>1 DEF Ascending, VersionsTrue, Unbroken, Missing
  <2>3. BodiesStay(k)
    <3>1. \A i \in 1 .. 1 : \A j \in 1 .. i : i = j
      OBVIOUS
    <3> QED
      BY <1>1, <3>1 DEF BodiesStay
  <2>4. CASE Store.head[k] = NoHead /\ Store.body[k] = None
    BY <1>1, <2>1, <2>2, <2>3, <2>4 DEF KeyInv, NeverWritten, TombstoneStored, Hides, NoHead
  <2>5. CASE /\ Store.head[k] # NoHead
             /\ Store.head[k].seq = 1 /\ Store.head[k].tomb = FALSE /\ Store.head[k].floor = 1
    BY <1>1, <2>1, <2>2, <2>3, <2>5 DEF KeyInv, NeverWritten, TombstoneStored, Hides
  <2>6. NoHead.seq # 1
    BY DEF NoHead
  <2> QED
    BY <2>4, <2>5, <2>6, InitStore
<1>5. ASSUME NEW t \in Tx PROVE ArchiveInv(t) /\ Newest(t)
  <2>1. ops[t] = <<>> /\ archived[t] = Nothing /\ pc[t] = "none"
    BY DEF LifecycleInit, Init
  <2>2. DOMAIN ops[t] = {}
    BY <2>1
  <2>3. Tombed(t) = {} /\ Cascaded(t) = {} /\ Created(t) = {}
    BY <2>2 DEF Tombed, Cascaded, Created
  <2> QED
    BY <2>1, <2>2, <2>3 DEF ArchiveInv, Archives, Nothing, Newest
<1>6. PlanSafe
  BY DEF PlanSafe, Planning, LifecycleInit
<1> QED
  BY <1>3, <1>4, <1>5, <1>6 DEF HistoryInv

\* Where nothing is committed, nothing changes of an entity.
LEMMA KeyFrame ==
    ASSUME UNCHANGED commits
    PROVE  /\ Store' = Store
           /\ \A k : CommitsOf(k)' = CommitsOf(k) /\ Seqs(Store, k)' = Seqs(Store, k)
           /\ \A i : At(i)' = At(i)
           /\ \A k, f : Hides(k, f)' <=> Hides(k, f)
           /\ \A k : KeyInv(k)' <=> KeyInv(k)
<1>1. /\ Store' = Store /\ \A k : CommitsOf(k)' = CommitsOf(k) /\ Last(k)' = Last(k)
      /\ \A i : At(i)' = At(i)
      /\ \A i, k : BodyAt(i, k)' = BodyAt(i, k)
      /\ \A k : Seqs(Store, k)' = Seqs(Store, k)
  BY DEF Store, Latest, CommitsOf, Last, At, BodyAt, Seqs
<1>2. \A k, v : HistoryAfter(k, v)' = HistoryAfter(k, v)
  BY DEF HistoryAfter, After
<1>3. \A k, i : Spare(k, i)' <=> Spare(k, i)
  BY <1>1, <1>2 DEF Spare
<1>4. \A k, f : Hides(k, f)' <=> Hides(k, f)
  BY <1>1, <1>3 DEF Hides
<1>5. ASSUME NEW k PROVE KeyInv(k)' <=> KeyInv(k)
  <2>1. (Ascending(k)' <=> Ascending(k)) /\ (Unbroken(k)' <=> Unbroken(k))
    BY <1>1 DEF Ascending, Unbroken
  <2>2. (BodiesStay(k)' <=> BodiesStay(k)) /\ (NeverWritten(k)' <=> NeverWritten(k))
    BY <1>1 DEF BodiesStay, NeverWritten
  <2>3. (VersionsTrue(k)' <=> VersionsTrue(k)) /\ (TombstoneStored(k)' <=> TombstoneStored(k))
    BY <1>1 DEF VersionsTrue, TombstoneStored
  <2>4. Missing(k)' <=> Missing(k)
    BY <1>1, <1>3 DEF Missing
  <2>5. Hides(k, Store.head[k].floor)' <=> Hides(k, Store.head[k].floor)
    BY <1>1, <1>4
  <2> QED
    BY <2>1, <2>2, <2>3, <2>4, <2>5 DEF KeyInv
<1> QED
  BY <1>1, <1>4, <1>5

\* A transaction that issues no operation.
LEMMA ArchiveFrame ==
    ASSUME TypeInv, NEW t \in Tx, ArchiveInv(t),
           ops'[t] = ops[t], archived'[t] = archived[t], deleted'[t] = deleted[t],
           snap'[t] = snap[t], base'[t] = base[t],
           \A i \in 1 .. Len(commits) : commits'[i] = commits[i],
           pc'[t] = pc[t] \/ (pc[t] \in {"active", "prepared"} /\ pc'[t] \in {"prepared", "published"})
    PROVE  ArchiveInv(t)'
<1>1. Archives(t)'
  BY ArchivesFrame DEF ArchiveInv
<1> QED
  BY <1>1 DEF ArchiveInv

\* A step of one transaction that commits nothing.
LEMMA HistoryStep ==
    ASSUME TypeInv, HistoryInv, NEW t \in Tx, UNCHANGED <<commits, plan>>, sequence' > 0, persisted' > 0,
           \A u \in Tx \ {t} : /\ pc'[u] = pc[u] /\ snap'[u] = snap[u] /\ base'[u] = base[u]
                               /\ ops'[u] = ops[u] /\ archived'[u] = archived[u] /\ deleted'[u] = deleted[u]
                               /\ version'[u] = version[u] /\ floors'[u] = floors[u],
           ArchiveInv(t)', Newest(t)'
    PROVE  HistoryInv'
<1>1. Positive'
  BY DEF HistoryInv, Positive, At
<1>2. \A k \in Entity : KeyInv(k)'
  BY KeyFrame DEF HistoryInv
<1>3. ASSUME NEW u \in Tx PROVE ArchiveInv(u)' /\ Newest(u)'
  <2>1. CASE u = t
    BY <2>1
  <2>2. CASE u # t
    <3>1. ArchiveInv(u)'
      BY <2>2, ArchiveFrame DEF HistoryInv
    <3>2. Newest(u)'
      <4>1. /\ pc'[u] = pc[u] /\ snap'[u] = snap[u] /\ version'[u] = version[u] /\ floors'[u] = floors[u]
            /\ Newest(u)
        BY <2>2 DEF HistoryInv
      <4> QED
        BY <4>1, KeyFrame DEF Newest
    <3> QED
      BY <3>1, <3>2
  <2> QED
    BY <2>1, <2>2
<1>4. PlanSafe'
  BY KeyFrame DEF HistoryInv, PlanSafe, Planning
<1> QED
  BY <1>1, <1>2, <1>3, <1>4 DEF HistoryInv

\* BeginTransaction: nothing is buffered, and what it begins at is not before
\* its snapshot.
LEMMA BeginHistoryStep ==
    ASSUME TypeInv, HistoryInv, NEW t \in Tx, BeginTransaction(t), UNCHANGED plan
    PROVE  HistoryInv'
<1> USE DEF beginVars, bufferVars, commitVars
<1>1. /\ UNCHANGED <<commits, sequence, persisted, ops, archived, deleted, version, floors>>
      /\ pc[t] \in {"none", "pinned", "numbered"} /\ pc'[t] \in {"pinned", "numbered", "active"}
      /\ \A u \in Tx \ {t} : pc'[u] = pc[u] /\ snap'[u] = snap[u] /\ base'[u] = base[u]
      /\ pc'[t] = "active" => snap'[t] = snap[t] /\ base'[t] = Len(commits)
  BY DEF BeginTransaction, BeginSnapshot, BeginSequence, BeginWriter, TypeInv, BeginTypes
<1>2. ops[t] = <<>> /\ archived[t] = Nothing
  BY <1>1 DEF TypeInv, IdleBuffers, Idle, HistoryInv, ArchiveInv
<1>3. Archives(t)'
  BY <1>1, <1>2, ArchivesEmpty
<1>4. snap[t] \in Nat /\ snap[t] <= Len(commits)
  BY StoreFields DEF TypeInv, BeginTypes
<1>5. ArchiveInv(t)'
  BY <1>1, <1>2, <1>3, <1>4 DEF ArchiveInv
<1>6. Newest(t)'
  BY <1>1 DEF Newest
<1> QED
  BY <1>1, <1>5, <1>6, HistoryStep DEF HistoryInv, Positive

\* An operation.
LEMMA OperateHistoryStep ==
    ASSUME TypeInv, CommitInv, SnapshotIsWhole, HistoryInv, NEW t \in Tx, Operate(t), UNCHANGED plan,
           Hazards \cap {"recreate", "archive", "upsert", "afterdelete"} = {}
    PROVE  HistoryInv'
<1> USE DEF beginVars, bufferVars, commitVars
<1>1. UNCHANGED <<commits, version, floors, pc, sequence, persisted, snap, base>> /\ pc[t] = "active"
  BY DEF Operate, CreateNode, UpdateNode, DeleteNode, CreateEdge, UpdateEdge, DeleteEdge, Enrol
<1>2. \A u \in Tx \ {t} : ops'[u] = ops[u] /\ archived'[u] = archived[u] /\ deleted'[u] = deleted[u]
  <2>1. /\ \E op : Log(t, op)
        /\ deleted' = deleted \/ (\E D : deleted' = [deleted EXCEPT ![t] = D])
        /\ archived' = archived \/ (\E A : archived' = [archived EXCEPT ![t] = A])
    <3>1. ASSUME NEW n \in Node, CreateNode(t, n)
          PROVE  /\ \E op : Log(t, op)
                 /\ deleted' = [deleted EXCEPT ![t] = deleted[t] \ {n}] /\ archived' = archived
      BY <3>1 DEF CreateNode
    <3>2. ASSUME NEW n \in Node, UpdateNode(t, n)
          PROVE  (\E op : Log(t, op)) /\ deleted' = deleted /\ archived' = archived
      BY <3>2 DEF UpdateNode
    <3>3. ASSUME NEW n \in Node, DeleteNode(t, n)
          PROVE  /\ \E op : Log(t, op)
                 /\ deleted' = [deleted EXCEPT ![t] = deleted[t] \cup {n}]
                 /\ \E A : archived' = [archived EXCEPT ![t] = A]
      BY <3>3 DEF DeleteNode
    <3>4. ASSUME NEW e \in Edge, CreateEdge(t, e) \/ UpdateEdge(t, e)
          PROVE  (\E op : Log(t, op)) /\ deleted' = deleted /\ archived' = archived
      BY <3>4 DEF CreateEdge, UpdateEdge
    <3>5. ASSUME NEW e \in Edge, DeleteEdge(t, e)
          PROVE  /\ \E op : Log(t, op)
                 /\ deleted' = [deleted EXCEPT ![t] = deleted[t] \cup {e}] /\ archived' = archived
      BY <3>5 DEF DeleteEdge
    <3> QED
      BY <3>1, <3>2, <3>3, <3>4, <3>5, Zenon DEF Operate
  <2> QED
    BY <2>1 DEF Log, TypeInv, BufferTypes
<1>3. Archives(t)'
  BY OperateArchives DEF CommitInv, TxInv, HistoryInv, ArchiveInv
<1>4. ArchiveInv(t)' /\ Newest(t)'
  BY <1>1, <1>3 DEF HistoryInv, ArchiveInv, Newest
<1> QED
  BY <1>1, <1>2, <1>4, HistoryStep DEF HistoryInv, Positive

\* Transactions are closed, by themselves or by a crash.
LEMMA CloseHistoryStep ==
    ASSUME TypeInv, HistoryInv, NEW S \in SUBSET Tx, Close(S), UNCHANGED commits,
           plan' = plan \/ plan' = NoPlan, sequence' > 0, persisted' > 0,
           \A t \in S : pc'[t] \in {"none", "closed"}, \A t \in Tx \ S : pc'[t] = pc[t]
    PROVE  HistoryInv'
<1>1. Positive'
  BY DEF HistoryInv, Positive, At
<1>2. \A k \in Entity : KeyInv(k)'
  BY KeyFrame DEF HistoryInv
<1>3. ASSUME NEW t \in Tx PROVE ArchiveInv(t)' /\ Newest(t)'
  <2>1. CASE t \in S
    <3>1. ops'[t] = <<>> /\ archived'[t] = Nothing
      BY <2>1 DEF Close
    <3>2. Archives(t)'
      BY <3>1, ArchivesEmpty
    <3> QED
      BY <2>1, <3>1, <3>2 DEF ArchiveInv, Newest
  <2>2. CASE t \notin S
    <3>1. /\ pc'[t] = pc[t] /\ snap'[t] = snap[t] /\ base'[t] = base[t] /\ ops'[t] = ops[t]
          /\ archived'[t] = archived[t] /\ deleted'[t] = deleted[t]
          /\ version'[t] = version[t] /\ floors'[t] = floors[t]
          /\ ArchiveInv(t) /\ Newest(t)
      BY <2>2 DEF Close, HistoryInv
    <3>2. ArchiveInv(t)'
      BY <3>1, ArchiveFrame
    <3>3. Newest(t)'
      BY <3>1, KeyFrame DEF Newest
    <3> QED
      BY <3>2, <3>3
  <2> QED
    BY <2>1, <2>2
<1>4. PlanSafe'
  BY KeyFrame DEF HistoryInv, PlanSafe, Planning
<1> QED
  BY <1>1, <1>2, <1>3, <1>4 DEF HistoryInv

\* A transaction that quits.
LEMMA QuitHistoryStep ==
    ASSUME TypeInv, HistoryInv, NEW t \in Tx, Quit(t), UNCHANGED <<commits, plan>>, sequence' > 0, persisted' > 0
    PROVE  HistoryInv'
<1>1. pc'[t] = "closed" /\ \A u \in Tx \ {t} : pc'[u] = pc[u]
  BY DEF Quit, TypeInv, BeginTypes
<1> QED
  BY <1>1, CloseHistoryStep DEF Quit

\* Validation: the version is above every head, and the floors are those there
\* are, or none.
LEMMA PrepareHistoryStep ==
    ASSUME TypeInv, HeadInv, SequenceInv, HistoryInv, NEW t \in Tx, Prepare(t), UNCHANGED plan
    PROVE  HistoryInv'
<1> USE DEF beginVars, bufferVars, commitVars
<1>1. CASE ~Valid(t)
  <2>1. Quit(t) /\ UNCHANGED <<commits, sequence, persisted>>
    BY <1>1 DEF Prepare
  <2> QED
    BY <2>1, QuitHistoryStep DEF HistoryInv, Positive
<1>2. CASE Valid(t)
  <2>1. /\ pc[t] = "active" /\ pc' = [pc EXCEPT ![t] = "prepared"]
        /\ sequence' = sequence + 1 /\ version' = [version EXCEPT ![t] = sequence + 1]
        /\ floors' = [floors EXCEPT ![t] = [k \in Entity |-> IF k \in Touched(t) THEN Store.head[k].floor ELSE 0]]
        /\ UNCHANGED <<commits, persisted, snap, base, ops, archived, deleted>>
    BY <1>2 DEF Prepare
  <2>2. /\ sequence \in Nat /\ pc \in [Tx -> Stages] /\ version \in [Tx -> Nat]
        /\ \A k \in Entity : Store.head[k].seq \in Nat /\ Store.head[k].seq <= sequence
    BY SequenceTypes DEF SequenceInv, SequenceAboveHeads
  <2>3. /\ pc'[t] = "prepared" /\ version'[t] = sequence + 1 /\ snap'[t] = snap[t]
        /\ \A k \in Entity : floors'[t][k] = IF k \in Touched(t) THEN Store.head[k].floor ELSE 0
        /\ \A u \in Tx \ {t} : pc'[u] = pc[u] /\ version'[u] = version[u] /\ floors'[u] = floors[u]
    BY <2>1, <2>2 DEF TypeInv, VersionTypes
  <2>4. ASSUME NEW k \in Entity PROVE Hides(k, floors'[t][k])
    <3>1. KeyInv(k) /\ \A i \in CommitsOf(k) : At(i) \in Nat
      BY HistoryTypes DEF HistoryInv, HeadInv
    <3>2. Hides(k, 0)
      BY <2>2, <3>1 DEF Hides
    <3>3. floors'[t][k] = Store.head[k].floor \/ floors'[t][k] = 0
      BY <2>3
    <3> QED
      BY <3>1, <3>2, <3>3 DEF KeyInv
  <2>5. ASSUME NEW k \in Entity, NEW i \in CommitsOf(k) PROVE At(i) < sequence + 1
    <3>1. /\ KeyInv(k) /\ Last(k) \in CommitsOf(k) /\ i \in Nat /\ i <= Last(k) /\ Last(k) \in Nat
          /\ At(i) \in Nat /\ At(Last(k)) \in Nat
      BY HistoryTypes DEF HistoryInv, HeadInv
    <3>2. At(i) <= At(Last(k))
      <4>1. i = Last(k) \/ i < Last(k)
        BY <3>1
      <4> QED
        BY <3>1, <4>1 DEF KeyInv, Ascending
    <3>3. At(Last(k)) <= sequence
      <4>1. CASE Store.head[k] = NoHead
        <5>1. Last(k) = 1 /\ At(1) = 1 /\ sequence > 0
          BY <3>1, <4>1 DEF KeyInv, NeverWritten, HistoryInv, Positive
        <5> QED
          BY <2>2, <5>1
      <4>2. CASE Store.head[k] # NoHead
        <5>1. Store.head[k].seq = At(Last(k))
          BY <4>2, HeadIsLastDef DEF HeadInv, Last, At
        <5> QED
          BY <2>2, <5>1
      <4> QED
        BY <4>1, <4>2
    <3> QED
      BY <2>2, <3>1, <3>2, <3>3
  <2>6. Newest(t)'
    <3>1. \A k \in Entity : Hides(k, floors[t][k])'
      BY <2>1, <2>4, KeyFrame
    <3>2. \A k \in Entity : \A i \in CommitsOf(k)' : At(i)' < version'[t]
      BY <2>1, <2>3, <2>5, KeyFrame
    <3> QED
      BY <3>1, <3>2 DEF Newest
  <2>7. ArchiveInv(t)'
    BY <2>1, <2>3, ArchiveFrame DEF HistoryInv
  <2>8. sequence' > 0 /\ persisted' > 0
    BY <2>1, <2>2 DEF HistoryInv, Positive
  <2> QED
    BY <2>1, <2>3, <2>6, <2>7, <2>8, HistoryStep
<1> QED
  BY <1>1, <1>2

\* The end of a transaction: the sequence on disk is its version or a later one.
LEMMA EndHistoryStep ==
    ASSUME TypeInv, HeadInv, HistoryInv, NEW t \in Tx, PersistSequence(t) \/ Rollback(t), UNCHANGED plan
    PROVE  HistoryInv'
<1>1. Quit(t) /\ UNCHANGED <<commits, sequence>>
  BY DEF PersistSequence, Rollback, Quit
<1>2. persisted' > 0
  <2>1. CASE PersistSequence(t)
    <3>1. PICK s \in version[t] .. sequence : persisted' = s
      BY <2>1 DEF PersistSequence
    <3>2. version[t] \in Nat /\ version[t] > 0 /\ sequence \in Nat
      BY <2>1, SequenceTypes DEF PersistSequence, HeadInv, HeadsCounted
    <3> QED
      BY <3>1, <3>2
  <2>2. CASE Rollback(t)
    BY <2>2 DEF Rollback, HistoryInv, Positive
  <2> QED
    BY <2>1, <2>2
<1> QED
  BY <1>1, <1>2, QuitHistoryStep DEF HistoryInv, Positive

\* A crash: the sequence starts at what was on disk, or above it.
LEMMA CrashHistoryStep ==
    ASSUME TypeInv, HistoryInv, Crash, plan' = NoPlan
    PROVE  HistoryInv'
<1>1. /\ UNCHANGED commits /\ Close(Tx) /\ \A t \in Tx : pc'[t] \in {"none", "closed"}
      /\ sequence' = MaxOf({persisted, RecoveredFloor}) /\ persisted' = sequence'
  BY DEF Crash
<1>2. persisted \in Nat /\ persisted > 0 /\ RecoveredFloor \in Nat
  BY SequenceTypes, RecoveredFloorType DEF TypeInv, HistoryInv, Positive
<1>3. sequence' > 0
  <2>1. MaxOf({persisted, RecoveredFloor}) >= persisted
    BY <1>2, MaxOfTwo
  <2>2. MaxOf({persisted, RecoveredFloor}) \in {persisted, RecoveredFloor}
    BY <1>2, MaxOfTwo
  <2> QED
    BY <1>1, <1>2, <2>1, <2>2
<1> QED
  BY <1>1, <1>3, CloseHistoryStep

\* Planning and comparing.
LEMMA PlanHistoryStep ==
    ASSUME TypeInv, HeadInv, SnapshotInv, HistoryInv, Fence \/ \E k \in Entity : Plan(k)
    PROVE  HistoryInv'
<1>1. UNCHANGED vars
  BY DEF Fence, Plan
<1>2. UNCHANGED <<commits, sequence, persisted, pc, snap, base, ops, archived, deleted, version, floors>>
  BY <1>1 DEF vars, beginVars, bufferVars, commitVars
<1>3. Positive' /\ \A k \in Entity : KeyInv(k)'
  BY <1>2, KeyFrame DEF HistoryInv, Positive, At
<1>4. \A t \in Tx : ArchiveInv(t)'
  BY <1>2, ArchiveFrame DEF HistoryInv
<1>5. \A t \in Tx : Newest(t)'
  BY <1>2, KeyFrame DEF HistoryInv, Newest
<1>6. PlanSafe'
  <2>1. CASE Fence
    <3>1. plan \in PlanType /\ PlanSafe /\ Planning
      BY <2>1 DEF Fence, TypeInv, PlanTypes, Planning, HistoryInv
    <3>2. CASE plan' = NoPlan
      BY <3>2 DEF PlanSafe, Planning
    <3>3. CASE plan' # NoPlan
      <4>1. Store.head[plan.key].seq = plan.head.seq
            /\ plan' = [plan EXCEPT !.fenced = TRUE, !.head = Store.head[plan.key]]
        BY <2>1, <3>3 DEF Fence
      <4>2. /\ plan'.key = plan.key /\ plan'.floor = plan.floor /\ plan'.delete = plan.delete
            /\ plan'.head.seq = plan.head.seq
        BY <3>1, <4>1 DEF PlanType
      <4> QED
        BY <1>2, <3>1, <4>2, KeyFrame DEF PlanSafe
    <3> QED
      BY <3>2, <3>3
  <2>2. ASSUME NEW k \in Entity, Plan(k) PROVE PlanSafe'
    <3> DEFINE h == Store.head[k]
               S == {r.seq : r \in Store.ver[k]}
    <3>1. PICK f \in SafeFloors(h, S) : plan' = [key |-> k, head |-> h, floor |-> f,
                                                 delete |-> {s \in S : s < f /\ s # h.seq}, fenced |-> FALSE]
      BY <2>2 DEF Plan
    <3>2. S # {} /\ h # NoHead
      BY <2>2 DEF Plan
    <3>3. /\ plan'.key = k /\ plan'.head = h /\ plan'.floor = f
          /\ plan'.delete = {s \in S : s < f /\ s # h.seq}
      BY <3>1
    <3>4. S = Seqs(Store, k) /\ KeyInv(k) /\ h.seq \in Nat
      BY HistoryTypes DEF Seqs, HistoryInv, HeadInv
    <3>5. Hides(k, f)
      BY <3>1, <3>2, <3>4, SafeFloorHides
    <3> HIDE DEF h, S
    <3>6. Store.head[k] = h
      BY DEF h
    <3> QED
      BY <1>2, <3>3, <3>4, <3>5, <3>6, KeyFrame DEF PlanSafe
  <2> QED
    BY <2>1, <2>2
<1> QED
  BY <1>3, <1>4, <1>5, <1>6 DEF HistoryInv

\* A commit is appended, after which every entity and the plan are as they
\* should be: what the transactions hold still is.
LEMMA CommitHistoryStep ==
    ASSUME TypeInv, FirstCommit, HistoryInv, NEW c \in CommitType, commits' = Append(commits, c), c.seq > 0,
           \A k \in Entity : /\ c.db.head[k].seq >= Store.head[k].seq
                             /\ k \in c.keys => c.seq >= Store.head[k].seq,
           UNCHANGED <<sequence, persisted, snap, base, ops, archived, deleted, version, floors>>,
           \A t \in Tx : pc'[t] = pc[t] \/ (pc[t] = "prepared" /\ pc'[t] = "published"),
           \A k \in Entity : KeyInv(k)', PlanSafe'
    PROVE  HistoryInv'
<1>1. PICK n : n = Len(commits)
  OBVIOUS
<1>2. /\ n \in Nat /\ n # 0 /\ Len(commits') = n + 1
      /\ \A i \in 1 .. n : commits'[i] = commits[i]
      /\ commits'[n + 1] = c
  BY <1>1, AppendCommit DEF TypeInv
<1>3. Positive'
  <2>1. 1 \in 1 .. n /\ \A i \in 1 .. n + 1 : i \in 1 .. n \/ i = n + 1
    BY <1>2
  <2>2. \A i \in 1 .. n : At(i)' = At(i)
    BY <1>2 DEF At
  <2>3. At(n + 1)' > 0
    BY <1>2 DEF At
  <2> QED
    BY <1>1, <1>2, <2>1, <2>2, <2>3 DEF HistoryInv, Positive
<1>4. ASSUME NEW t \in Tx PROVE ArchiveInv(t)'
  BY <1>1, <1>2, ArchiveFrame DEF HistoryInv
<1>5. ASSUME NEW t \in Tx, pc'[t] = "prepared", NEW k \in Entity
      PROVE  /\ Hides(k, floors[t][k])'
             /\ \A i \in CommitsOf(k)' : i <= snap'[t] => At(i)' < version'[t]
  <2>1. pc[t] = "prepared" /\ floors[t][k] \in Nat /\ snap[t] \in 1 .. n /\ snap'[t] = snap[t]
        /\ version'[t] = version[t] /\ floors'[t] = floors[t]
    BY <1>1, <1>5 DEF TypeInv, VersionTypes, BeginTypes
  <2>2. Newest(t)
    BY DEF HistoryInv
  <2>3. Hides(k, floors[t][k])'
    <3>1. \A f \in Nat : Hides(k, f) => Hides(k, f)'
      BY HidesGrows
    <3>2. Hides(k, floors[t][k])
      BY <2>1, <2>2 DEF Newest
    <3> QED
      BY <2>1, <3>1, <3>2
  <2>4. ASSUME NEW i \in CommitsOf(k)', i <= snap'[t] PROVE At(i)' < version'[t]
    <3>1. /\ CommitsOf(k)' = CommitsOf(k) \cup {j \in {n + 1} : k \in c.keys}
          /\ CommitsOf(k) \subseteq 1 .. n /\ \A j \in 1 .. n : At(j)' = At(j)
      BY <1>1, HistoryGrows
    <3>2. i \in CommitsOf(k)
      BY <1>2, <2>1, <2>4, <3>1
    <3> QED
      BY <2>1, <2>2, <2>4, <3>1, <3>2 DEF Newest
  <2> QED
    BY <2>3, <2>4
<1>6. ASSUME NEW t \in Tx PROVE Newest(t)'
  BY <1>5 DEF Newest
<1> QED
  BY <1>3, <1>4, <1>6 DEF HistoryInv

\* Publication: nobody has changed what it touches since its snapshot.
LEMMA PublishHistoryStep ==
    ASSUME TypeInv, CommitInv, HeadInv, SnapshotInv, HistoryInv,
           NEW t \in Tx, PublishBesidePrune(t), ~Stale(t), "fence" \notin Hazards
    PROVE  HistoryInv'
<1> USE DEF beginVars, bufferVars, commitVars, pruneVars
<1>1. PICK early \in BOOLEAN, c \in CommitType :
         /\ commits' = Append(commits, c)
         /\ c.db = Published(t, early) /\ c.keys = Written(t) /\ c.seq = version[t]
         /\ pc[t] = "prepared" /\ pc'[t] = "published" /\ \A u \in Tx \ {t} : pc'[u] = pc[u]
         /\ UNCHANGED <<snap, base, ops, archived, deleted, version, floors, sequence, persisted>>
  BY PublishCommit DEF PublishBesidePrune
<1>2. UNCHANGED plan /\ ~(plan.fenced /\ plan.key \in Touched(t))
  BY DEF PublishBesidePrune
<1>3. \A k \in Entity : k \in c.keys <=> k \in Touched(t)
  BY <1>1, MVCCAssumption DEF Written
<1>4. FirstCommit /\ version[t] \in Nat /\ version[t] > 0 /\ Touched(t) \subseteq Entity
  BY <1>1, SequenceTypes, TouchedType DEF TypeInv, HeadInv, HeadsCounted
<1>5. ASSUME NEW k \in Touched(t)
      PROVE  /\ \A i \in CommitsOf(k) : At(i) < version[t]
             /\ Store.head[k].seq < version[t]
  <2>1. k \in Entity /\ Newest(t) /\ KeyInv(k)
    BY <1>4 DEF HistoryInv
  <2>2. /\ CommitsOf(k) \subseteq 1 .. Len(commits) /\ Len(commits) \in Nat /\ Last(k) \in CommitsOf(k)
        /\ \A i \in CommitsOf(k) : At(i) \in Nat
    BY <1>4, <2>1, HistoryTypes
  <2>3. \A j \in snap[t] + 1 .. Len(commits) : k \notin commits[j].keys
    BY <1>1 DEF CommitInv, TxInv, Checked
  <2>4. snap[t] \in 1 .. Len(commits)
    BY DEF TypeInv, BeginTypes
  <2>5. ASSUME NEW i \in CommitsOf(k) PROVE At(i) < version[t]
    <3>1. i <= snap[t]
      <4>1. k \in commits[i].keys /\ i \in 1 .. Len(commits)
        BY <2>2 DEF CommitsOf
      <4> QED
        BY <2>2, <2>3, <2>4, <4>1
    <3> QED
      BY <1>1, <2>1, <3>1 DEF Newest
  <2>6. Store.head[k].seq < version[t]
    <3>1. CASE Store.head[k] = NoHead
      BY <1>4, <3>1 DEF NoHead
    <3>2. CASE Store.head[k] # NoHead
      <4>1. Store.head[k].seq = At(Last(k))
        BY <2>1, <3>2, HeadIsLastDef DEF HeadInv, Last, At
      <4> QED
        BY <2>2, <2>5, <4>1
    <3> QED
      BY <3>1, <3>2
  <2> QED
    BY <2>5, <2>6
<1>6. ASSUME NEW k \in Entity
      PROVE  /\ k \in Touched(t) => c.db.head[k].seq = version[t]
             /\ k \notin Touched(t) => /\ c.db.head[k] = Store.head[k] /\ c.db.body[k] = Store.body[k]
                                       /\ c.db.ver[k] = Store.ver[k]
             /\ Store.head[k].seq \in Nat
             /\ c.db.head[k].seq >= Store.head[k].seq
             /\ k \in c.keys => c.seq >= Store.head[k].seq
  <2>1. /\ k \in Touched(t) => c.db.head[k].seq = version[t]
        /\ k \notin Touched(t) => /\ c.db.head[k] = Store.head[k] /\ c.db.body[k] = Store.body[k]
                                  /\ c.db.ver[k] = Store.ver[k]
    BY <1>1, PublishedFields
  <2>2. Store.head[k].seq \in Nat
    BY SequenceTypes
  <2>3. k \in Touched(t) => Store.head[k].seq < version[t]
    BY <1>5
  <2> QED
    BY <1>1, <1>3, <1>4, <2>1, <2>2, <2>3
<1>7. ASSUME NEW k \in Entity PROVE KeyInv(k)'
  <2>1. KeyInv(k) /\ ArchiveInv(t) /\ Newest(t)
    BY DEF HistoryInv
  <2>2. CASE k \in Touched(t)
    <3>1. Live(Store, k) => Superseded(t, k) = Store.body[k]
      BY <1>1, <2>1, <2>2, SupersededIsStored DEF KeyInv
    <3>2. Hides(k, floors[t][k]) /\ Tombed(t) \subseteq Deletes(t)
      BY <1>1, <2>1 DEF Newest, ArchiveInv, Archives
    <3> QED
      BY <1>1, <1>5, <2>1, <2>2, <3>1, <3>2, KeyPublished
  <2>3. CASE k \notin Touched(t)
    <3>1. k \notin c.keys /\ Hides(k, c.db.head[k].floor)
      BY <1>3, <1>6, <2>1, <2>3 DEF KeyInv
    <3>2. PICK D : D = {}
      OBVIOUS
    <3>3. /\ c.db.ver[k] = {r \in Store.ver[k] : r.seq \notin D} /\ Store.head[k].seq \notin D
          /\ \A s \in Seqs(Store, k) : \A x \in D : s < x => s \in D
          /\ \A i \in CommitsOf(k) : At(i) \in D => Spare(k, i)
      BY <1>6, <2>3, <3>2
    <3>4. c.db.head[k] = Store.head[k] /\ c.db.body[k] = Store.body[k]
      BY <1>6, <2>3
    <3> QED
      BY <1>1, <1>4, <2>1, <3>1, <3>3, <3>4, KeyPruned
  <2> QED
    BY <2>2, <2>3
<1>8. PlanSafe'
  <2> SUFFICES ASSUME Planning
               PROVE  /\ plan.head.seq <= Store'.head[plan.key].seq
                      /\ Hides(plan.key, plan.floor)'
                      /\ Store'.head[plan.key].seq = plan.head.seq
                           => plan.delete = {s \in Seqs(Store, plan.key)' : s < plan.floor /\ s # plan.head.seq}
    BY <1>2 DEF PlanSafe, Planning
  <2>1. plan.key \in Entity /\ plan.floor \in Nat /\ plan.head.seq \in Nat /\ PlanSafe
    BY DEF TypeInv, PlanTypes, PlanType, HeadType, Planning, HistoryInv
  <2>2. PICK k \in Entity : k = plan.key
    BY <2>1
  <2>3. Store' = c.db
    BY <1>1, AppendCommit DEF TypeInv
  <2>4. plan.head.seq <= Store.head[k].seq /\ Hides(k, plan.floor)
    BY <2>1, <2>2 DEF PlanSafe
  <2>5. Hides(plan.key, plan.floor)'
    <3>1. \A f \in Nat : Hides(k, f) => Hides(k, f)'
      BY <1>1, <1>4, <1>6, HidesGrows
    <3> QED
      BY <1>2, <2>1, <2>2, <2>4, <3>1
  <2>6. CASE k \in Touched(t)
    <3>1. Store'.head[k].seq = version[t] /\ Store.head[k].seq < version[t]
      BY <1>5, <1>6, <2>3, <2>6
    <3>2. plan.head.seq < Store'.head[k].seq /\ Store'.head[k].seq \in Nat
      BY <1>4, <1>6, <2>1, <2>4, <3>1
    <3>3. plan.head.seq < Store'.head[plan.key].seq /\ Store'.head[plan.key].seq \in Nat
      BY <2>2, <3>2
    <3>4. plan.head.seq <= Store'.head[plan.key].seq /\ Store'.head[plan.key].seq # plan.head.seq
      BY <2>1, <3>3
    <3> QED
      BY <2>5, <3>4
  <2>7. CASE k \notin Touched(t)
    <3>1. Store'.head[k] = Store.head[k] /\ Seqs(Store, k)' = Seqs(Store, k)
      BY <1>6, <2>3, <2>7 DEF Seqs
    <3>2. Seqs(Store, plan.key)' = Seqs(Store, plan.key)
      BY <1>2, <2>2, <3>1
    <3>3. Store'.head[plan.key] = Store.head[plan.key]
      BY <2>2, <3>1
    <3>4. Store'.head[plan.key].seq = plan.head.seq
            => plan.delete = {s \in Seqs(Store, plan.key) : s < plan.floor /\ s # plan.head.seq}
      BY <2>1, <3>3 DEF PlanSafe
    <3>5. plan.head.seq <= Store'.head[plan.key].seq
      BY <2>1, <3>3 DEF PlanSafe
    <3> QED
      BY <2>5, <3>2, <3>4, <3>5, Zenon
  <2> QED
    BY <2>6, <2>7
<1> QED
  BY <1>1, <1>4, <1>6, <1>7, <1>8, CommitHistoryStep

\* DeleteMVCCVersion: the oldest of the planned versions goes, which the planned
\* floor would hide, and nothing older is left.
LEMMA DeleteHistoryStep ==
    ASSUME TypeInv, HeadInv, HistoryInv, DeleteMVCCVersion
    PROVE  HistoryInv'
<1> USE DEF beginVars, bufferVars, commitVars
<1>1. PICK c \in CommitType :
         /\ commits' = Append(commits, c)
         /\ c.keys = {} /\ c.seq = Latest.seq /\ c.db.body = Store.body
         /\ c.db.head = Store.head
         /\ c.db.ver = [Store.ver EXCEPT ![plan.key] = {r \in @ : r.seq # MinOf(plan.delete)}]
         /\ plan \in PlanType
         /\ UNCHANGED <<sequence, persisted, pc, snap, base, ops, archived, deleted, version, floors>>
  BY WriteCommit
<1>2. /\ plan.fenced /\ plan.delete # {} /\ plan' = [plan EXCEPT !.delete = @ \ {MinOf(plan.delete)}]
      /\ Planning
  BY DEF DeleteMVCCVersion, NoPlan, Planning
<1>3. PICK p, v : p = plan.key /\ v = MinOf(plan.delete)
  OBVIOUS
<1>4. /\ p \in Entity /\ plan.floor \in Nat /\ plan.head.seq \in Nat
      /\ plan.head = Store.head[p] /\ Hides(p, plan.floor)
      /\ plan.delete = {s \in Seqs(Store, p) : s < plan.floor /\ s # plan.head.seq}
  BY <1>1, <1>2, <1>3 DEF PlanType, HeadType, HeadInv, PlannedHead, HistoryInv, PlanSafe
<1>5. FirstCommit /\ KeyInv(p) /\ Seqs(Store, p) \in SUBSET Nat
  BY <1>4, HistoryTypes DEF HeadInv, HistoryInv
<1>6. v \in plan.delete /\ \A y \in plan.delete : v <= y
  <2>1. plan.delete \in SUBSET Nat
    BY <1>1 DEF PlanType
  <2> QED
    BY <1>2, <1>3, <2>1, MinOfNats
<1>7. v \in Seqs(Store, p) /\ v < plan.floor /\ v # plan.head.seq /\ v \in Nat
  BY <1>4, <1>5, <1>6
<1>8. ASSUME NEW s \in Seqs(Store, p), s < v PROVE FALSE
  <2>1. s \in Nat /\ s < plan.floor /\ s < plan.head.seq
    <3>1. s \in Nat /\ plan.floor <= plan.head.seq
      BY <1>4, <1>5 DEF Hides
    <3> QED
      BY <1>4, <1>7, <1>8, <3>1
  <2>2. s \in plan.delete
    BY <1>4, <2>1
  <2> QED
    BY <1>6, <1>7, <1>8, <2>1, <2>2
<1>9. Store' = c.db /\ c.seq > 0
  <2>1. Store' = c.db
    BY <1>1, AppendCommit DEF TypeInv
  <2>2. c.seq = At(Len(commits)) /\ Len(commits) \in 1 .. Len(commits)
    BY <1>1, StoreFields DEF TypeInv, At
  <2> QED
    BY <2>1, <2>2 DEF HistoryInv, Positive
<1>10. \A k \in Entity : /\ Store.head[k].seq \in Nat /\ c.db.head[k] = Store.head[k] /\ c.db.body[k] = Store.body[k]
                         /\ k \notin c.keys
  BY <1>1, SequenceTypes
<1>11. /\ c.db.ver[p] = {r \in Store.ver[p] : r.seq # v}
       /\ \A k \in Entity \ {p} : c.db.ver[k] = Store.ver[k]
  <2>1. Store.ver \in [Entity -> SUBSET VersionRecord]
    BY StoreFields DEF TypeInv
  <2> QED
    BY <1>1, <1>3, <1>4, <2>1
<1>12. ASSUME NEW k \in Entity PROVE KeyInv(k)'
  <2>1. KeyInv(k) /\ Hides(k, c.db.head[k].floor)
    BY <1>10 DEF HistoryInv, KeyInv
  <2>2. PICK D : D = IF k = p THEN {v} ELSE {}
    OBVIOUS
  <2>3. c.db.ver[k] = {r \in Store.ver[k] : r.seq \notin D}
    <3>1. CASE k = p
      BY <1>11, <2>2, <3>1
    <3>2. CASE k # p
      BY <1>11, <2>2, <3>2
    <3> QED
      BY <3>1, <3>2
  <2>4. /\ Store.head[k].seq \notin D
        /\ \A s \in Seqs(Store, k) : \A x \in D : s < x => s \in D
        /\ \A i \in CommitsOf(k) : At(i) \in D => Spare(k, i)
    <3>1. CASE k = p
      <4>1. \A i \in CommitsOf(k) : At(i) = v => Spare(k, i)
        BY <1>4, <1>7, <3>1 DEF Hides
      <4> QED
        BY <1>4, <1>7, <1>8, <2>2, <3>1, <4>1
    <3>2. CASE k # p
      BY <2>2, <3>2
    <3> QED
      BY <3>1, <3>2
  <2> QED
    BY <1>1, <1>5, <1>10, <2>1, <2>3, <2>4, KeyPruned
<1>13. PlanSafe'
  <2>1. /\ plan'.key = p /\ plan'.floor = plan.floor /\ plan'.head = plan.head
        /\ plan'.delete = plan.delete \ {v}
    BY <1>1, <1>2, <1>3 DEF PlanType
  <2>2. Hides(p, plan.floor)'
    <3>1. \A f \in Nat : Hides(p, f) => Hides(p, f)'
      BY <1>1, <1>4, <1>5, <1>10, HidesGrows
    <3>2. PICK f \in Nat : f = plan.floor
      BY <1>4
    <3>3. Hides(p, f)'
      BY <1>4, <3>1, <3>2
    <3> QED
      BY <2>1, <3>2, <3>3
  <2>3. Store'.head[p] = Store.head[p]
    BY <1>4, <1>9, <1>10
  <2>4. \A s : s \in Seqs(Store, p)' <=> s \in Seqs(Store, p) /\ s # v
    BY <1>9, <1>11 DEF Seqs
  <2>5. plan'.delete = {s \in Seqs(Store, p)' : s < plan.floor /\ s # plan.head.seq}
    BY <1>4, <2>1, <2>4
  <2>6. Seqs(Store, plan.key)' = Seqs(Store, p)'
    BY <2>1
  <2>7. Hides(plan.key, plan.floor)'
    BY <2>1, <2>2
  <2>8. plan'.head.seq <= Store'.head[plan'.key].seq
    BY <1>4, <2>1, <2>3
  <2>9. plan'.delete = {s \in Seqs(Store, plan.key)' : s < plan'.floor /\ s # plan'.head.seq}
    BY <2>1, <2>5, <2>6
  <2> QED
    BY <2>7, <2>8, <2>9 DEF PlanSafe
<1>14. \A k \in Entity : c.db.head[k].seq >= Store.head[k].seq
  BY <1>10
<1> QED
  BY <1>1, <1>5, <1>9, <1>10, <1>12, <1>13, <1>14, CommitHistoryStep

\* WriteMVCCHead: the floor goes up to the planned one.
LEMMA RaiseHistoryStep ==
    ASSUME TypeInv, HeadInv, HistoryInv, WriteMVCCHead
    PROVE  HistoryInv'
<1> USE DEF beginVars, bufferVars, commitVars
<1>1. PICK c \in CommitType :
         /\ commits' = Append(commits, c)
         /\ c.keys = {} /\ c.seq = Latest.seq /\ c.db.body = Store.body
         /\ c.db.head = [Store.head EXCEPT ![plan.key] = [plan.head EXCEPT !.floor = plan.floor]]
         /\ c.db.ver = Store.ver
         /\ plan \in PlanType
         /\ UNCHANGED <<sequence, persisted, pc, snap, base, ops, archived, deleted, version, floors>>
  BY WriteCommit
<1>2. plan.fenced /\ Planning /\ plan' = NoPlan
  BY DEF WriteMVCCHead, NoPlan, Planning
<1>3. PICK p : p = plan.key
  OBVIOUS
<1>4. /\ p \in Entity /\ plan.head \in HeadType /\ plan.floor \in Nat
      /\ plan.head = Store.head[p] /\ plan.head.seq > 0 /\ Hides(p, plan.floor)
  BY <1>1, <1>2, <1>3 DEF PlanType, HeadInv, PlannedHead, HistoryInv, PlanSafe
<1>5. FirstCommit
  BY DEF HeadInv
<1>6. c.seq > 0
  <2>1. c.seq = At(Len(commits)) /\ Len(commits) \in 1 .. Len(commits)
    BY <1>1, StoreFields DEF TypeInv, At
  <2> QED
    BY <2>1 DEF HistoryInv, Positive
<1>7. /\ c.db.head[p] = [plan.head EXCEPT !.floor = plan.floor]
      /\ \A k \in Entity \ {p} : c.db.head[k] = Store.head[k]
  <2>1. Store.head \in [Entity -> HeadType]
    BY StoreFields DEF TypeInv
  <2> QED
    BY <1>1, <1>3, <1>4, <2>1
<1>8. /\ c.db.head[p].seq = Store.head[p].seq /\ c.db.head[p].tomb = Store.head[p].tomb
      /\ c.db.head[p].floor = plan.floor
      /\ c.db.head[p] # NoHead /\ Store.head[p] # NoHead
  <2>1. /\ c.db.head[p].seq = Store.head[p].seq /\ c.db.head[p].tomb = Store.head[p].tomb
        /\ c.db.head[p].floor = plan.floor
    BY <1>4, <1>7 DEF HeadType
  <2>2. NoHead.seq = 0
    BY DEF NoHead
  <2> QED
    BY <1>4, <2>1, <2>2
<1>9. ASSUME NEW k \in Entity
      PROVE  /\ c.db.head[k].seq = Store.head[k].seq /\ c.db.head[k].tomb = Store.head[k].tomb
             /\ c.db.head[k] = NoHead <=> Store.head[k] = NoHead
             /\ Hides(k, c.db.head[k].floor)
             /\ Store.head[k].seq \in Nat
  <2>1. CASE k = p
    BY <1>4, <1>8, <2>1, SequenceTypes
  <2>2. CASE k # p
    BY <1>7, <2>2, SequenceTypes DEF HistoryInv, KeyInv
  <2> QED
    BY <2>1, <2>2
<1>10. ASSUME NEW k \in Entity PROVE KeyInv(k)'
  <2>1. PICK D : D = {}
    OBVIOUS
  <2>2. /\ c.db.ver[k] = {r \in Store.ver[k] : r.seq \notin D} /\ Store.head[k].seq \notin D
        /\ \A s \in Seqs(Store, k) : \A x \in D : s < x => s \in D
        /\ \A i \in CommitsOf(k) : At(i) \in D => Spare(k, i)
    BY <1>1, <2>1
  <2>3. KeyInv(k) /\ k \notin c.keys /\ c.db.body[k] = Store.body[k]
    BY <1>1 DEF HistoryInv
  <2> QED
    BY <1>1, <1>5, <1>9, <2>2, <2>3, KeyPruned
<1>11. PlanSafe'
  BY <1>2 DEF PlanSafe, Planning
<1>12. \A k \in Entity : c.db.head[k].seq >= Store.head[k].seq /\ k \notin c.keys
  BY <1>1, <1>9
<1> QED
  BY <1>1, <1>5, <1>6, <1>10, <1>11, <1>12, CommitHistoryStep

\* The step of every action.
LEMMA NextHistoryInv ==
    ASSUME "fence" \notin Hazards, Hazards \cap {"recreate", "archive", "upsert", "afterdelete"} = {}
    PROVE  TypeInv /\ CommitInv /\ HeadInv /\ SequenceInv /\ SnapshotInv /\ HistoryInv
             /\ [LifecycleNext]_lifecycleVars => HistoryInv'
<1> SUFFICES ASSUME TypeInv, CommitInv, HeadInv, SequenceInv, SnapshotInv, HistoryInv,
                    [LifecycleNext]_lifecycleVars
             PROVE  HistoryInv'
  OBVIOUS
<1>1. ASSUME NEW t \in Tx, BeginTransaction(t) \/ Operate(t) \/ Prepare(t) \/ PersistSequence(t) \/ Rollback(t),
             UNCHANGED plan
      PROVE  HistoryInv'
  BY <1>1, WholeSnapshot, BeginHistoryStep, OperateHistoryStep, PrepareHistoryStep, EndHistoryStep
<1>2. ASSUME NEW t \in Tx, PublishBesidePrune(t) PROVE HistoryInv'
  <2>1. CASE Stale(t)
    <3>1. Quit(t) /\ UNCHANGED <<commits, plan, sequence, persisted>>
      BY <1>2, <2>1 DEF PublishBesidePrune, Publish, pruneVars
    <3> QED
      BY <3>1, QuitHistoryStep DEF HistoryInv, Positive
  <2>2. CASE ~Stale(t)
    BY <1>2, <2>2, PublishHistoryStep
  <2> QED
    BY <2>1, <2>2
<1>3. CASE UNCHANGED lifecycleVars
  <2>1. UNCHANGED <<commits, sequence, persisted, pc, snap, base, ops, archived, deleted, version, floors, plan>>
    BY <1>3 DEF lifecycleVars, vars, beginVars, bufferVars, commitVars, pruneVars
  <2>2. Positive' /\ \A k \in Entity : KeyInv(k)'
    BY <2>1, KeyFrame DEF HistoryInv, Positive, At
  <2>3. \A t \in Tx : ArchiveInv(t)'
    BY <2>1, ArchiveFrame DEF HistoryInv
  <2>4. \A t \in Tx : Newest(t)'
    BY <2>1, KeyFrame DEF HistoryInv, Newest
  <2>5. PlanSafe'
    BY <2>1, KeyFrame DEF HistoryInv, PlanSafe, Planning
  <2> QED
    BY <2>2, <2>3, <2>4, <2>5 DEF HistoryInv
<1> QED
  BY <1>1, <1>2, <1>3, CrashHistoryStep, PlanHistoryStep, DeleteHistoryStep, RaiseHistoryStep
     DEF LifecycleNext, pruneVars

\* History (materializeMVCCCommitInTxn, DeleteNode, the pruner): a read at the
\* version of any commit finds what was there then, however often it was
\* updated, deleted and created since; pruning takes it away only once more than
\* Keep versions of the history are newer, and puts nothing else in its place,
\* also if it stops half way.
THEOREM HistoryStaysReadable ==
    ASSUME Hazards \cap {"recreate", "archive", "upsert", "afterdelete",
                         "blind", "late", "crash", "fence"} = {}
    PROVE  LifecycleSpec => []HistoryReadable
<1>1. /\ "late" \notin Hazards /\ "crash" \notin Hazards /\ "fence" \notin Hazards /\ "blind" \notin Hazards
      /\ Hazards \cap {"recreate", "archive", "upsert", "afterdelete"} = {}
  OBVIOUS
<1>2. LifecycleSpec => []HeadInv
  BY <1>1, InitHeadInv, NextHeadInv, TypeInvAlways, PTL DEF LifecycleSpec
<1>3. LifecycleSpec => []CommitInv
  BY <1>1, InitCommitInv, NextCommitInv, TypeInvAlways, PTL DEF LifecycleSpec
<1>4. LifecycleSpec => []SequenceInv
  BY <1>1, <1>2, InitSequenceInv, NextSequenceInv, TypeInvAlways, PTL DEF LifecycleSpec
<1>5. LifecycleSpec => []SnapshotInv
  BY <1>1, <1>2, <1>3, <1>4, InitSnapshotInv, NextSnapshotInv, TypeInvAlways, PTL DEF LifecycleSpec
<1>6. LifecycleSpec => []HistoryInv
  BY <1>1, <1>2, <1>3, <1>4, <1>5, InitHistoryInv, NextHistoryInv, TypeInvAlways, PTL DEF LifecycleSpec
<1> QED
  BY <1>2, <1>5, <1>6, HistoryRead, TypeInvAlways, PTL
=============================================================================
