----------------------------- MODULE MVCCProofs -----------------------------
(***************************************************************************)
(* Types of transactions and pruning, isolation of transactions and safety *)
(* of pruning: the first committer wins, the head of an entity is that of  *)
(* its last commit, the sequence is never behind a head, across restarts,  *)
(* and the snapshot of a transaction, pinned before the sequence it reads  *)
(* at was taken, is hidden by it nowhere.                                  *)
(***************************************************************************)
EXTENDS Lifecycle, SequenceTheorems, FiniteSetTheorems, WellFoundedInduction, TLAPS

-----------------------------------------------------------------------------
(***************************************************************************)
(* Types.                                                                  *)
(***************************************************************************)
Stored == Content \cup {None}
Key == Entity \cup {LabelCount}
HeadType == [seq : Nat, tomb : BOOLEAN, floor : Nat]
VersionRecord == [seq : Nat, val : Stored]

Db == [body : [Entity -> Stored], head : [Entity -> HeadType],
       ver : [Entity -> SUBSET VersionRecord], count : Nat]

CommitType == [db : Db, keys : SUBSET Key, heads : SUBSET Entity, seq : Nat, snap : Nat]

Seqs(db, k) == {r.seq : r \in db.ver[k]}
HeadSeqs(db) == {db.head[k].seq : k \in Entity}

Bounded(S) == \E b \in Nat : \A s \in S : s <= b

\* Every key has finitely many version records, so one of them is the bound
\* that maxVersionsBoundVersion looks for; and there is a last head.
BoundedStore(db) ==
    /\ \A k \in Entity : Bounded(Seqs(db, k))
    /\ Bounded(HeadSeqs(db))

CommitTypes ==
    /\ commits \in Seq(CommitType) /\ commits # <<>>
    /\ \A i \in 1 .. Len(commits) : commits[i].snap \in 0 .. i - 1
    /\ \A i \in 1 .. Len(commits) : BoundedStore(commits[i].db)

CounterTypes ==
    /\ sequence \in Nat /\ persisted \in Nat
    /\ done \in 0 .. MaxOps /\ crashes \in 0 .. MaxCrashes

Stages == {"none", "pinned", "numbered", "active", "prepared", "published", "closed"}

BeginTypes ==
    /\ pc \in [Tx -> Stages]
    /\ snap \in [Tx -> 1 .. Len(commits)] /\ base \in [Tx -> 1 .. Len(commits)]
    /\ readSeq \in [Tx -> Nat]

BufferTypes ==
    /\ reads \in [Tx -> SUBSET Key]
    /\ pending \in [Tx -> SUBSET Entity] /\ deleted \in [Tx -> SUBSET Entity]
    /\ ops \in [Tx -> Seq(OpType)]
    /\ archived \in [Tx -> [Entity -> Stored]]
    /\ count \in [Tx -> Int]

VersionTypes ==
    /\ version \in [Tx -> Nat]
    /\ floors \in [Tx -> [Entity -> Nat]]

\* A transaction that has not begun has buffered nothing.
Idle(t) == ops[t] = <<>> /\ pending[t] = {} /\ count[t] = 0

IdleBuffers == \A t \in Tx : pc[t] \in {"none", "pinned", "numbered"} => Idle(t)

\* What a transaction would store as the counter is a number.
CountsNatural == \A t \in Tx : commits[base[t]].db.count + count[t] >= 0

PlanType == [key : Entity, head : HeadType, floor : Nat, delete : SUBSET Nat, fenced : BOOLEAN]

PlanTypes == plan = NoPlan \/ plan \in PlanType

TypeInv ==
    /\ CommitTypes /\ CounterTypes /\ BeginTypes /\ BufferTypes /\ VersionTypes
    /\ IdleBuffers /\ CountsNatural /\ PlanTypes

\* The invariant contains the type invariant of the model.
LEMMA TypeInvImplies == TypeInv => TypeOK
<1> SUFFICES ASSUME TypeInv PROVE TypeOK
  OBVIOUS
<1> USE DEF TypeInv
<1>1. ASSUME NEW i \in DOMAIN commits
      PROVE  /\ commits[i].db.body \in [Entity -> Content \cup {None}]
             /\ commits[i].db.count \in Nat
             /\ commits[i].keys \subseteq Entity \cup {LabelCount} /\ commits[i].heads \subseteq Entity
             /\ commits[i].seq \in Nat /\ commits[i].snap \in 0 .. i - 1
  <2>1. i \in 1 .. Len(commits) /\ commits[i] \in CommitType
    BY LenProperties, ElementOfSeq DEF CommitTypes
  <2>2. commits[i].snap \in 0 .. i - 1
    BY <2>1 DEF CommitTypes
  <2> QED
    BY <2>1, <2>2 DEF CommitType, Db, Stored, Key
<1>2. ASSUME NEW t \in Tx, NEW i \in DOMAIN ops[t] PROVE ops[t][i] \in OpType
  <2>1. ops[t] \in Seq(OpType)
    BY DEF BufferTypes
  <2> QED
    BY <2>1, LenProperties, ElementOfSeq
<1>3. /\ floors \in [Tx -> [Entity -> Nat]]
      /\ reads \in [Tx -> SUBSET (Entity \cup {LabelCount})]
      /\ archived \in [Tx -> [Entity -> Content \cup {None}]]
  BY DEF BufferTypes, VersionTypes, Stored, Key
<1> QED
  BY <1>1, <1>2, <1>3 DEF TypeOK, CounterTypes, BeginTypes, BufferTypes, VersionTypes, Stages

-----------------------------------------------------------------------------
(***************************************************************************)
(* Numbers.                                                                *)
(***************************************************************************)
\* A set of naturals that is not empty has a least element.
LEMMA MinOfNats ==
    ASSUME NEW S \in SUBSET Nat, S # {}
    PROVE  MinOf(S) \in S /\ \A y \in S : MinOf(S) <= y
<1> DEFINE R == OpToRel(<, Nat)
<1>1. PICK x \in S : \A y \in S : ~(<<y, x>> \in R)
  <2>1. IsWellFoundedOn(R, Nat)
    BY NatLessThanWellFounded
  <2> HIDE DEF R
  <2> QED
    BY <2>1, WFMin
<1>2. \A y \in S : x <= y
  <2> SUFFICES ASSUME NEW y \in S, ~(x <= y) PROVE FALSE
    OBVIOUS
  <2>1. y < x /\ x \in Nat /\ y \in Nat
    OBVIOUS
  <2>2. <<y, x>> \in {ss \in Nat \X Nat : ss[1] < ss[2]}
    BY <2>1
  <2>3. <<y, x>> \in R
    BY <2>2 DEF OpToRel
  <2> QED
    BY <2>3, <1>1
<1> QED
  BY <1>1, <1>2 DEF MinOf

\* A bounded one has a greatest.
LEMMA MaxOfNats ==
    ASSUME NEW b \in Nat, NEW S \in SUBSET Nat, S # {}, \A s \in S : s <= b
    PROVE  MaxOf(S) \in S /\ \A y \in S : y <= MaxOf(S)
<1> DEFINE T == {j \in Nat : \A s \in S : s <= j}
<1>1. MinOf(T) \in T /\ \A y \in T : MinOf(T) <= y
  <2>1. b \in T /\ T \in SUBSET Nat
    OBVIOUS
  <2> HIDE DEF T
  <2> QED
    BY <2>1, MinOfNats
<1> DEFINE m == MinOf(T)
<1>2. m \in Nat /\ \A s \in S : s <= m
  BY <1>1
<1>3. m \in S
  <2> SUFFICES ASSUME m \notin S PROVE FALSE
    OBVIOUS
  <2>1. m - 1 \in Nat /\ \A s \in S : s <= m - 1
    <3>1. PICK s0 \in S : TRUE
      OBVIOUS
    <3> HIDE DEF m, T
    <3>2. s0 \in Nat /\ s0 <= m /\ s0 # m
      BY <3>1, <1>2
    <3>3. \A s \in S : s \in Nat /\ s <= m /\ s # m
      BY <1>2
    <3> QED
      BY <3>2, <3>3, <1>2
  <2>2. m - 1 \in T
    BY <2>1
  <2> HIDE DEF T
  <2> QED
    BY <2>2, <1>1, <1>2
<1> HIDE DEF m
<1> QED
  BY <1>2, <1>3 DEF MaxOf

\* Of two numbers.
LEMMA MaxOfTwo ==
    ASSUME NEW a \in Nat, NEW b \in Nat
    PROVE  MaxOf({a, b}) \in {a, b} /\ a <= MaxOf({a, b}) /\ b <= MaxOf({a, b})
<1>1. {a, b} \in SUBSET Nat /\ {a, b} # {} /\ \A s \in {a, b} : s <= a + b
  OBVIOUS
<1> QED
  BY <1>1, MaxOfNats

\* The lesser of two numbers.
LEMMA MinOfTwo ==
    ASSUME NEW a \in Nat, NEW b \in Nat
    PROVE  MinOf({a, b}) \in {a, b} /\ MinOf({a, b}) <= a /\ MinOf({a, b}) <= b
<1>1. {a, b} \in SUBSET Nat /\ {a, b} # {}
  OBVIOUS
<1> QED
  BY <1>1, MinOfNats

\* Of zero and an integer.
LEMMA MaxOfZero ==
    ASSUME NEW a \in Int
    PROVE  MaxOf({0, a}) = IF a > 0 THEN a ELSE 0
<1>1. CASE a >= 0
  BY <1>1, MaxOfTwo
<1>2. CASE a < 0
  <2>1. \A x \in {0, a} : (\A y \in {0, a} : y <= x) <=> x = 0
    BY <1>2
  <2> QED
    BY <2>1, <1>2 DEF MaxOf
<1> QED
  BY <1>1, <1>2

\* In a bounded set of more than r numbers one has exactly r below it.
LEMMA RankExists ==
    ASSUME NEW S \in SUBSET Nat, Bounded(S), NEW r \in Nat, r < Cardinality(S)
    PROVE  \E v \in S : Cardinality({s \in S : s < v}) = r
<1> DEFINE Below(v) == {s \in S : s < v}
           T == {v \in S : Cardinality(Below(v)) >= r}
<1>1. PICK b \in Nat : \A s \in S : s <= b
  BY DEF Bounded
<1>2. IsFiniteSet(S) /\ Cardinality(S) \in Nat
  BY <1>1, FS_BoundedSetOfNaturals, FS_CardinalityType
<1>3. S # {}
  BY <1>2, FS_EmptySet
<1>4. ASSUME NEW v \in S PROVE IsFiniteSet(Below(v)) /\ Cardinality(Below(v)) \in Nat
  <2>1. Below(v) \in SUBSET S
    OBVIOUS
  <2> QED
    BY <2>1, <1>2, FS_Subset, FS_CardinalityType
\* What lies below v is what lies below the greatest of them, and that one.
<1>5. ASSUME NEW U \in SUBSET S, NEW m \in U, \A y \in U : y <= m, \A y \in S : y < m => y \in U
      PROVE  Cardinality(U) = Cardinality(Below(m)) + 1
  <2>1. U = Below(m) \cup {m}
    <3>1. \A y \in S : y \in Nat
      OBVIOUS
    <3>2. \A y \in U : y < m \/ y = m
      BY <3>1, <1>5
    <3> QED
      BY <3>2, <1>5
  <2>2. m \in S /\ m \notin Below(m)
    OBVIOUS
  <2> HIDE DEF Below
  <2> QED
    BY <2>1, <2>2, <1>4, FS_AddElement
<1>6. T # {}
  <2>1. MaxOf(S) \in S /\ \A y \in S : y <= MaxOf(S)
    BY <1>1, <1>3, MaxOfNats
  <2>2. Cardinality(S) = Cardinality(Below(MaxOf(S))) + 1
    BY <2>1, <1>5
  <2>3. Cardinality(Below(MaxOf(S))) \in Nat
    BY <2>1, <1>4
  <2> HIDE DEF Below
  <2>4. Cardinality(Below(MaxOf(S))) >= r
    BY <2>2, <2>3, <1>2
  <2> QED
    BY <2>1, <2>4
<1>7. MinOf(T) \in T /\ \A y \in T : MinOf(T) <= y
  <2>1. T \in SUBSET Nat
    OBVIOUS
  <2> HIDE DEF T
  <2> QED
    BY <2>1, <1>6, MinOfNats
<1> DEFINE v == MinOf(T)
<1>8. v \in S /\ Cardinality(Below(v)) >= r /\ Cardinality(Below(v)) \in Nat
  <2>1. v \in S /\ Cardinality(Below(v)) >= r
    BY <1>7
  <2> HIDE DEF v, Below
  <2> QED
    BY <2>1, <1>4
<1>9. Cardinality(Below(v)) <= r
  <2>1. CASE Below(v) = {}
    <3>1. Cardinality(Below(v)) = 0
      BY <2>1, FS_EmptySet
    <3> QED
      BY <3>1
  <2>2. CASE Below(v) # {}
    <3> DEFINE p == MaxOf(Below(v))
    <3>1. p \in Below(v) /\ \A y \in Below(v) : y <= p
      <4>1. Below(v) \in SUBSET Nat /\ \A s \in Below(v) : s <= b
        BY <1>1
      <4> HIDE DEF v, Below
      <4> QED
        BY <4>1, <2>2, MaxOfNats
    <3>2. p \in S /\ p < v /\ v \in Nat /\ p \in Nat
      <4> HIDE DEF v, p
      <4> QED
        BY <3>1, <1>8
    <3>3. p \notin T
      <4> HIDE DEF p, T
      <4> QED
        BY <3>2, <1>7
    <3>4. ~(Cardinality(Below(p)) >= r) /\ Cardinality(Below(p)) \in Nat
      <4>1. ~(Cardinality(Below(p)) >= r)
        BY <3>2, <3>3
      <4> HIDE DEF p, Below
      <4> QED
        BY <4>1, <3>2, <1>4
    <3>5. Cardinality(Below(v)) = Cardinality(Below(p)) + 1
      <4>1. /\ Below(v) \in SUBSET S
            /\ \A y \in S : y < p => y \in Below(v)
        <5> HIDE DEF p, v
        <5> QED
          BY <3>2
      <4> HIDE DEF p, v, Below
      <4> QED
        BY <4>1, <3>1, <1>5
    <3> HIDE DEF p, v, Below
    <3> QED
      BY <3>4, <3>5
  <2> QED
    BY <2>1, <2>2
<1> HIDE DEF v
<1>10. Cardinality(Below(v)) = r
  <2> HIDE DEF Below
  <2> QED
    BY <1>8, <1>9
<1> QED
  BY <1>8, <1>10

-----------------------------------------------------------------------------
(***************************************************************************)
(* Operators of the model.                                                 *)
(***************************************************************************)
\* A commit that is appended leaves the earlier ones where they were.
LEMMA AppendCommit ==
    ASSUME CommitTypes, NEW c \in CommitType, commits' = Append(commits, c)
    PROVE  /\ Len(commits) \in Nat \ {0} /\ Len(commits') = Len(commits) + 1
           /\ commits' \in Seq(CommitType) /\ commits' # <<>>
           /\ \A i \in 1 .. Len(commits) : commits'[i] = commits[i]
           /\ commits'[Len(commits) + 1] = c
           /\ Latest' = c /\ Store' = c.db
<1>1. commits \in Seq(CommitType) /\ Len(commits) \in Nat /\ Len(commits) # 0
  BY LenProperties, EmptySeq DEF CommitTypes
<1>2. /\ commits' \in Seq(CommitType)
      /\ Len(commits') = Len(commits) + 1
      /\ \A i \in 1 .. Len(commits) : commits'[i] = commits[i]
      /\ commits'[Len(commits) + 1] = c
  BY <1>1, AppendProperties
<1>3. commits' # <<>>
  BY <1>1, <1>2, EmptySeq
<1> QED
  BY <1>1, <1>2, <1>3 DEF Latest, Store

\* Every commit holds a store.
LEMMA CommitFields ==
    ASSUME CommitTypes, NEW i \in 1 .. Len(commits)
    PROVE  /\ commits[i] \in CommitType /\ commits[i].db \in Db
           /\ commits[i].db.body \in [Entity -> Stored]
           /\ commits[i].db.head \in [Entity -> HeadType]
           /\ commits[i].db.ver \in [Entity -> SUBSET VersionRecord]
           /\ commits[i].db.count \in Nat
           /\ commits[i].keys \subseteq Key /\ commits[i].heads \subseteq Entity
           /\ commits[i].seq \in Nat
<1>1. commits[i] \in CommitType
  BY ElementOfSeq DEF CommitTypes
<1> QED
  BY <1>1 DEF CommitType, Db

\* What is stored now, field by field.
LEMMA StoreFields ==
    ASSUME CommitTypes
    PROVE  /\ Len(commits) \in Nat /\ Len(commits) \in 1 .. Len(commits)
           /\ Latest = commits[Len(commits)] /\ Store = commits[Len(commits)].db
           /\ Store \in Db /\ Latest.seq \in Nat
           /\ Store.body \in [Entity -> Stored] /\ Store.head \in [Entity -> HeadType]
           /\ Store.ver \in [Entity -> SUBSET VersionRecord] /\ Store.count \in Nat
<1>1. Len(commits) \in Nat /\ Len(commits) # 0
  BY LenProperties, EmptySeq DEF CommitTypes
<1>2. Len(commits) \in 1 .. Len(commits)
  BY <1>1
<1> QED
  BY <1>1, <1>2, CommitFields DEF Latest, Store

\* Version records up to v: the last of them is one of them.
LEMMA AtOrBeforeType ==
    ASSUME NEW R \in SUBSET VersionRecord, NEW v \in Nat
    PROVE  AtOrBefore(R, v) \in Stored
<1> DEFINE upTo == {r \in R : r.seq <= v}
           S == {r.seq : r \in upTo}
<1>1. CASE upTo = {}
  BY <1>1 DEF AtOrBefore, Stored
<1>2. CASE upTo # {}
  <2>1. S \in SUBSET Nat /\ S # {} /\ \A s \in S : s <= v
    BY <1>2 DEF VersionRecord
  <2>2. MaxOf(S) \in S /\ \A y \in S : y <= MaxOf(S)
    <3> HIDE DEF S
    <3> QED
      BY <2>1, MaxOfNats
  <2>3. \E r \in upTo : \A s \in upTo : s.seq <= r.seq
    <3>1. PICK r \in upTo : r.seq = MaxOf(S)
      BY <2>2
    <3>2. \A s \in upTo : s.seq \in S
      OBVIOUS
    <3> HIDE DEF S, upTo
    <3> QED
      BY <3>1, <3>2, <2>2
  <2>4. (CHOOSE r \in upTo : \A s \in upTo : s.seq <= r.seq) \in upTo
    BY <2>3
  <2>5. \A r \in upTo : r.val \in Stored
    BY DEF VersionRecord
  <2>6. AtOrBefore(R, v) = (CHOOSE r \in upTo : \A s \in upTo : s.seq <= r.seq).val
    BY <1>2 DEF AtOrBefore
  <2> HIDE DEF upTo
  <2> QED
    BY <2>4, <2>5, <2>6
<1> QED
  BY <1>1, <1>2

\* A read finds a content or nothing.
LEMMA CommittedType ==
    ASSUME CommitTypes, BeginTypes, NEW t \in Tx, NEW k \in Entity
    PROVE  Committed(t, k) \in Stored
<1> DEFINE db == commits[snap[t]].db
           h == db.head[k]
           v == readSeq[t]
<1>1. snap[t] \in 1 .. Len(commits) /\ v \in Nat
  BY DEF BeginTypes
<1>2. db.body[k] \in Stored /\ h \in HeadType /\ db.ver[k] \in SUBSET VersionRecord
  BY <1>1, CommitFields
<1>3. h.seq \in Nat /\ h.floor \in Nat
  BY <1>2 DEF HeadType
<1>4. None \in Stored
  BY DEF Stored
<1>5. AtOrBefore(db.ver[k], h.seq) \in Stored /\ AtOrBefore(db.ver[k], v) \in Stored
  BY <1>1, <1>2, <1>3, AtOrBeforeType
<1>6. AtOrBefore({x \in db.ver[k] : x.seq = v}, v) \in Stored
  BY <1>1, <1>2, AtOrBeforeType
<1> HIDE DEF db
<1>7. VisibleAt(db, k, v) \in Stored
  BY <1>1, <1>2, <1>3, <1>4, <1>5, <1>6 DEF VisibleAt
<1> QED
  BY <1>2, <1>7 DEF Committed, db

-----------------------------------------------------------------------------
(***************************************************************************)
(* Steps.                                                                  *)
(***************************************************************************)
\* What is stored at first, under sequence 1.
LEMMA InitTypeInv == LifecycleInit => TypeInv
<1> SUFFICES ASSUME LifecycleInit PROVE TypeInv
  OBVIOUS
<1>1. PICK S \in SUBSET Entity :
        commits = << [db |-> [body |-> [k \in Entity |-> IF k \in S THEN Old ELSE None],
                              head |-> [k \in Entity |-> IF k \in S THEN HeadRecord(1, FALSE, 1) ELSE NoHead],
                              ver |-> [k \in Entity |-> {}],
                              count |-> Cardinality(S \cap Labelled)],
                      keys |-> Entity, heads |-> {}, seq |-> 1, snap |-> 0] >>
  BY DEF LifecycleInit, Init
<1> DEFINE c == [db |-> [body |-> [k \in Entity |-> IF k \in S THEN Old ELSE None],
                         head |-> [k \in Entity |-> IF k \in S THEN HeadRecord(1, FALSE, 1) ELSE NoHead],
                         ver |-> [k \in Entity |-> {}],
                         count |-> Cardinality(S \cap Labelled)],
                 keys |-> Entity, heads |-> {}, seq |-> 1, snap |-> 0]
<1>2. Cardinality(S \cap Labelled) \in Nat
  <2>1. S \cap Labelled \in SUBSET Labelled
    OBVIOUS
  <2> QED
    BY <2>1, MVCCAssumption, FS_Subset, FS_CardinalityType
<1>3. c \in CommitType
  <2>1. [k \in Entity |-> IF k \in S THEN Old ELSE None] \in [Entity -> Stored]
    BY DEF Stored, Content
  <2>2. [k \in Entity |-> IF k \in S THEN HeadRecord(1, FALSE, 1) ELSE NoHead] \in [Entity -> HeadType]
    BY DEF HeadRecord, NoHead, HeadType
  <2>3. [k \in Entity |-> {}] \in [Entity -> SUBSET VersionRecord]
    OBVIOUS
  <2>4. c.db \in Db
    BY <1>2, <2>1, <2>2, <2>3 DEF Db
  <2> QED
    BY <2>4 DEF CommitType, Key
<1>4. commits = <<c>> /\ Len(commits) = 1 /\ commits[1] = c /\ commits # <<>>
  BY <1>1
<1>5. commits \in Seq(CommitType)
  <2> HIDE DEF c
  <2> QED
    BY <1>3, <1>4
<1>6. /\ c.snap = 0 /\ c.db.count \in Nat
      /\ \A k \in Entity : Seqs(c.db, k) = {}
      /\ HeadSeqs(c.db) \subseteq {0, 1}
  BY <1>2 DEF Seqs, HeadSeqs, HeadRecord, NoHead
<1> HIDE DEF c
<1>7. CommitTypes
  <2>1. BoundedStore(c.db)
    <3>1. Bounded({})
      BY DEF Bounded
    <3>2. 1 \in Nat /\ \A x \in HeadSeqs(c.db) : x <= 1
      BY <1>6
    <3>3. Bounded(HeadSeqs(c.db))
      BY <3>2 DEF Bounded
    <3>4. \A k \in Entity : Bounded(Seqs(c.db, k))
      BY <1>6, <3>1, Zenon
    <3> QED
      BY <3>3, <3>4 DEF BoundedStore
  <2>2. ASSUME NEW i \in 1 .. Len(commits)
        PROVE  commits[i].snap \in 0 .. i - 1 /\ BoundedStore(commits[i].db)
    <3>1. i = 1 /\ commits[i] = c
      BY <1>4
    <3> QED
      BY <1>6, <2>1, <3>1
  <2> QED
    BY <1>4, <1>5, <1>6, <2>1, <2>2 DEF CommitTypes
<1>8. CounterTypes /\ BeginTypes
  BY <1>4, MVCCAssumption DEF CounterTypes, BeginTypes, Stages, LifecycleInit, Init
<1>9. BufferTypes /\ VersionTypes
  BY EmptySeq DEF LifecycleInit, Init, BufferTypes, VersionTypes, Nothing, NoFloors, Stored
<1>10. IdleBuffers
  BY DEF LifecycleInit, Init, IdleBuffers, Idle
<1>11. CountsNatural
  BY <1>4, <1>6 DEF LifecycleInit, Init, CountsNatural
<1> QED
  BY <1>7, <1>8, <1>9, <1>10, <1>11 DEF LifecycleInit, TypeInv, PlanTypes

\* Steps that leave the store, the buffers and the counter alone.
LEMMA BeginTypeStep ==
    ASSUME TypeInv, NEW t \in Tx, BeginTransaction(t), UNCHANGED pruneVars
    PROVE  TypeInv'
<1> USE DEF TypeInv, pruneVars, bufferVars, commitVars
<1>0. /\ UNCHANGED <<commits, sequence, persisted, bufferVars, commitVars, done, crashes>>
      /\ \/ UNCHANGED base /\ pc' = [pc EXCEPT ![t] = "pinned"]
         \/ UNCHANGED base /\ pc' = [pc EXCEPT ![t] = "numbered"]
         \/ pc[t] = "numbered" /\ base' = [base EXCEPT ![t] = Len(commits)] /\ pc' = [pc EXCEPT ![t] = "active"]
      /\ pc[t] \in {"none", "pinned", "numbered"}
  BY DEF BeginTransaction, BeginSnapshot, BeginSequence, BeginWriter
<1>1. Len(commits) \in 1 .. Len(commits) /\ commits[Len(commits)].db.count \in Nat
  BY StoreFields, CommitFields
<1>2. CommitTypes' /\ CounterTypes' /\ BufferTypes' /\ VersionTypes' /\ PlanTypes'
  BY <1>0 DEF CommitTypes, CounterTypes, BufferTypes, VersionTypes, PlanTypes
<1>3. BeginTypes'
  <2>1. CASE BeginSnapshot(t)
    BY <1>0, <1>1, <2>1 DEF BeginTypes, BeginSnapshot, CounterTypes, Stages
  <2>2. CASE BeginSequence(t)
    BY <1>0, <1>1, <2>2 DEF BeginTypes, BeginSequence, CounterTypes, Stages
  <2>3. CASE BeginWriter(t)
    BY <1>0, <1>1, <2>3 DEF BeginTypes, BeginWriter, CounterTypes, Stages
  <2> QED
    BY <2>1, <2>2, <2>3 DEF BeginTransaction
<1>4. Idle(t) /\ \A u \in Tx : Idle(u)' <=> Idle(u)
  BY <1>0 DEF IdleBuffers, Idle
<1>5. IdleBuffers'
  BY <1>0, <1>4 DEF IdleBuffers, BeginTypes
<1>6. CountsNatural'
  <2> SUFFICES ASSUME NEW u \in Tx PROVE (commits[base[u]].db.count + count[u] >= 0)'
    BY DEF CountsNatural
  <2>1. CASE base'[u] = base[u]
    BY <1>0, <2>1 DEF CountsNatural
  <2>2. CASE base'[u] # base[u]
    <3>1. u = t /\ base'[u] = Len(commits) /\ count'[u] = 0
      BY <1>0, <1>4, <2>2 DEF BeginTypes, Idle
    <3> QED
      BY <1>0, <1>1, <3>1
  <2> QED
    BY <2>1, <2>2
<1> QED
  BY <1>2, <1>3, <1>5, <1>6

\* An operation that is buffered.
LEMMA BufferTypeStep ==
    ASSUME TypeInv, NEW t \in Tx, NEW keys \in SUBSET Key, NEW op \in OpType,
           Enrol(t, keys), Log(t, op), UNCHANGED pruneVars,
           NEW P \in SUBSET Entity, pending' = [pending EXCEPT ![t] = P],
           NEW D \in SUBSET Entity, deleted' = [deleted EXCEPT ![t] = D],
           NEW A \in [Entity -> Stored], archived' = [archived EXCEPT ![t] = A],
           NEW c \in Int, count' = [count EXCEPT ![t] = c],
           commits[base[t]].db.count + c >= 0
    PROVE  TypeInv'
<1> USE DEF TypeInv, pruneVars, beginVars, commitVars, Enrol
<1>1. CommitTypes' /\ BeginTypes' /\ VersionTypes' /\ PlanTypes'
  BY DEF CommitTypes, BeginTypes, VersionTypes, PlanTypes
<1>2. CounterTypes'
  BY MVCCAssumption DEF CounterTypes
<1>3. reads' \in [Tx -> SUBSET Key]
  BY DEF BufferTypes
<1>4. ops' \in [Tx -> Seq(OpType)]
  <2>1. ops[t] \in Seq(OpType)
    BY DEF BufferTypes
  <2>2. Append(ops[t], op) \in Seq(OpType)
    BY <2>1, AppendProperties
  <2> QED
    BY <2>2 DEF BufferTypes, Log
<1>5. /\ pending' \in [Tx -> SUBSET Entity] /\ deleted' \in [Tx -> SUBSET Entity]
      /\ archived' \in [Tx -> [Entity -> Stored]] /\ count' \in [Tx -> Int]
  BY DEF BufferTypes
<1>6. BufferTypes'
  BY <1>3, <1>4, <1>5 DEF BufferTypes
<1>7. IdleBuffers'
  BY DEF IdleBuffers, Idle, Log
<1>8. CountsNatural'
  BY DEF CountsNatural, BufferTypes
<1> QED
  BY <1>1, <1>2, <1>6, <1>7, <1>8

\* Operations that return no error.
LEMMA OperateTypeStep ==
    ASSUME TypeInv, NEW t \in Tx, Operate(t), UNCHANGED pruneVars
    PROVE  TypeInv'
<1> USE DEF TypeInv
<1>0. /\ pending[t] \in SUBSET Entity /\ deleted[t] \in SUBSET Entity
      /\ archived[t] \in [Entity -> Stored] /\ count[t] \in Int
      /\ archived = [archived EXCEPT ![t] = archived[t]]
      /\ deleted = [deleted EXCEPT ![t] = deleted[t]]
      /\ count = [count EXCEPT ![t] = count[t]]
  BY DEF BufferTypes
<1>1. commits[base[t]].db \in Db /\ commits[base[t]].db.count \in Nat
      /\ commits[base[t]].db.body \in [Entity -> Stored]
  BY CommitFields DEF BeginTypes
<1>2. commits[base[t]].db.count + count[t] >= 0
  BY DEF CountsNatural
<1>3. /\ Node \subseteq Entity /\ Edge \subseteq Entity /\ Labelled \subseteq Node
      /\ t \in Stored /\ None \in Stored
  BY MVCCAssumption DEF Entity, Stored, Content
<1>4. ASSUME NEW kind \in {"create", "update", "delete"}, NEW k \in Entity,
             NEW old \in Stored, NEW gone \in SUBSET Edge
      PROVE  Op(kind, k, old, gone) \in OpType
  BY DEF Op, OpType, Stored
<1>5. \A k \in Entity : (IF k \in pending[t] THEN t ELSE Committed(t, k)) \in Stored
  BY <1>3, CommittedType
<1>6. \A n \in Node : CountKeys(n) \in SUBSET Key
  BY DEF CountKeys, Key
<1>7. ASSUME NEW n \in Node, CreateNode(t, n) PROVE TypeInv'
  <2>1. count' = [count EXCEPT ![t] = IF n \in Labelled THEN count[t] + 1 ELSE count[t]]
    BY <1>0, <1>7 DEF CreateNode, Counted
  <2>2. pending' = [pending EXCEPT ![t] = pending[t] \cup {n}]
    BY <1>7 DEF CreateNode
  <2>3. deleted' = [deleted EXCEPT ![t] = deleted[t] \ {n}]
    BY <1>7 DEF CreateNode
  <2>4. Op("create", n, None, {}) \in OpType
    BY <1>3, <1>4
  <2>5. Enrol(t, CountKeys(n)) /\ Log(t, Op("create", n, None, {})) /\ UNCHANGED archived
    BY <1>7 DEF CreateNode
  <2> DEFINE c == IF n \in Labelled THEN count[t] + 1 ELSE count[t]
  <2>6. c \in Int /\ commits[base[t]].db.count + c >= 0
    BY <1>0, <1>1, <1>2
  <2>7. pending[t] \cup {n} \in SUBSET Entity /\ deleted[t] \ {n} \in SUBSET Entity
    BY <1>0, <1>3
  <2> HIDE DEF c, TypeInv
  <2> QED
    BY <1>0, <1>6, <2>1, <2>2, <2>3, <2>4, <2>5, <2>6, <2>7, BufferTypeStep DEF c
<1>8. ASSUME NEW k \in Entity, NEW keys \in SUBSET Key, NEW P \in SUBSET Entity, NEW D \in SUBSET Entity,
             NEW kind \in {"create", "update", "delete"}, NEW old \in Stored,
             Enrol(t, keys), Log(t, Op(kind, k, old, {})), UNCHANGED <<archived, count>>,
             pending' = [pending EXCEPT ![t] = P], deleted' = [deleted EXCEPT ![t] = D]
      PROVE  TypeInv'
  <2>1. Op(kind, k, old, {}) \in OpType
    BY <1>4
  <2> HIDE DEF TypeInv
  <2> QED
    BY <1>0, <1>2, <1>8, <2>1, BufferTypeStep
<1>9. ASSUME NEW k \in Entity PROVE {k} \ pending[t] \in SUBSET Key /\ pending[t] \cup {k} \in SUBSET Entity
                                     /\ pending[t] \ {k} \in SUBSET Entity /\ deleted[t] \cup {k} \in SUBSET Entity
  BY <1>0 DEF Key
<1>10. ASSUME NEW n \in Node, UpdateNode(t, n) PROVE TypeInv'
  <2> DEFINE old == IF n \in pending[t] THEN t ELSE Committed(t, n)
  <2>1. /\ Enrol(t, {n} \ pending[t]) /\ Log(t, Op("update", n, old, {}))
        /\ pending' = [pending EXCEPT ![t] = pending[t] \cup {n}]
        /\ UNCHANGED <<deleted, archived, count>>
    BY <1>10 DEF UpdateNode
  <2>2. n \in Entity /\ old \in Stored
    BY <1>3, <1>5
  <2> HIDE DEF old, TypeInv
  <2> QED
    BY <1>0, <1>8, <1>9, <2>1, <2>2
<1>11. ASSUME NEW e \in Edge, CreateEdge(t, e) PROVE TypeInv'
  <2>1. /\ Enrol(t, {}) /\ Log(t, Op("create", e, None, {}))
        /\ pending' = [pending EXCEPT ![t] = pending[t] \cup {e}]
        /\ UNCHANGED <<deleted, archived, count>>
    BY <1>11 DEF CreateEdge
  <2>2. e \in Entity /\ None \in Stored
    BY <1>3
  <2> HIDE DEF TypeInv
  <2> QED
    BY <1>0, <1>8, <1>9, <2>1, <2>2
<1>12. ASSUME NEW e \in Edge, UpdateEdge(t, e) PROVE TypeInv'
  <2> DEFINE old == IF e \in pending[t] THEN t ELSE Committed(t, e)
  <2>1. /\ Enrol(t, {e} \ pending[t]) /\ Log(t, Op("update", e, old, {}))
        /\ pending' = [pending EXCEPT ![t] = pending[t] \cup {e}]
        /\ UNCHANGED <<deleted, archived, count>>
    BY <1>12 DEF UpdateEdge
  <2>2. e \in Entity /\ old \in Stored
    BY <1>3, <1>5
  <2> HIDE DEF old, TypeInv
  <2> QED
    BY <1>0, <1>8, <1>9, <2>1, <2>2
<1>13. ASSUME NEW e \in Edge, DeleteEdge(t, e) PROVE TypeInv'
  <2> DEFINE old == IF e \in pending[t] THEN t ELSE Committed(t, e)
  <2>1. /\ Enrol(t, {}) /\ Log(t, Op("delete", e, old, {}))
        /\ pending' = [pending EXCEPT ![t] = pending[t] \ {e}]
        /\ deleted' = [deleted EXCEPT ![t] = deleted[t] \cup {e}]
        /\ UNCHANGED <<archived, count>>
    BY <1>13 DEF DeleteEdge
  <2>2. e \in Entity /\ old \in Stored
    BY <1>3, <1>5
  <2> HIDE DEF old, TypeInv
  <2> QED
    BY <1>0, <1>8, <1>9, <2>1, <2>2
<1>14. ASSUME NEW n \in Node, DeleteNode(t, n) PROVE TypeInv'
  <2> DEFINE db == commits[base[t]].db
             old == IF n \in pending[t] THEN t ELSE Committed(t, n)
             gone == {e \in Incident(n) : Live(db, e)}
             first == {k \in {n} \cup gone : Live(db, k) /\ archived[t][k] = None}
             A == [k \in Entity |-> IF k \notin first THEN archived[t][k]
                                     ELSE IF k = n THEN old ELSE db.body[k]]
             c == IF n \in Labelled THEN count[t] + -1 ELSE count[t]
  <2>1. /\ Enrol(t, {n} \cup gone \cup CountKeys(n)) /\ Log(t, Op("delete", n, old, gone))
        /\ pending' = [pending EXCEPT ![t] = pending[t] \ {n}]
        /\ deleted' = [deleted EXCEPT ![t] = deleted[t] \cup {n}]
        /\ n \in Labelled => db.count + count[t] > 0
    BY <1>14 DEF DeleteNode
  <2>2. archived' = [archived EXCEPT ![t] = A]
    BY <1>14 DEF DeleteNode
  <2>3. count' = [count EXCEPT ![t] = c]
    BY <1>0, <1>14 DEF DeleteNode, Counted
  <2>4. n \in Entity /\ old \in Stored /\ gone \in SUBSET Edge
    BY <1>3, <1>5 DEF Incident
  <2>5. A \in [Entity -> Stored]
    BY <1>0, <1>1, <2>4
  <2>6. c \in Int /\ db.count + c >= 0
    BY <1>0, <1>1, <1>2, <2>1
  <2>7. {n} \cup gone \cup CountKeys(n) \in SUBSET Key
    BY <1>3, <1>6, <2>4 DEF Key
  <2> HIDE DEF old, gone, A, c, TypeInv
  <2>8. Op("delete", n, old, gone) \in OpType
    BY <1>4, <2>4
  <2> QED
    BY <1>9, <2>1, <2>2, <2>3, <2>4, <2>5, <2>6, <2>7, <2>8, BufferTypeStep
<1> QED
  BY <1>7, <1>10, <1>11, <1>12, <1>13, <1>14 DEF Operate

\* Transactions are closed, whatever happens to the counters.
LEMMA CloseTypeStep ==
    ASSUME TypeInv, NEW S \in SUBSET Tx, Close(S), CounterTypes',
           pc' \in [Tx -> Stages],
           \A t \in Tx \ S : pc'[t] = pc[t],
           UNCHANGED commits, plan' = plan \/ plan' = NoPlan
    PROVE  TypeInv'
<1> USE DEF TypeInv, Close
<1>1. CommitTypes' /\ PlanTypes'
  BY DEF CommitTypes, PlanTypes
<1>2. 1 \in 1 .. Len(commits) /\ commits[1].db.count \in Nat
  <2>1. Len(commits) \in Nat /\ Len(commits) \in 1 .. Len(commits)
    BY StoreFields
  <2>2. 1 \in 1 .. Len(commits)
    BY <2>1
  <2> QED
    BY <2>2, CommitFields
<1>3. BeginTypes'
  BY <1>2 DEF BeginTypes
<1>4. VersionTypes'
  <2>1. NoFloors \in [Entity -> Nat]
    BY DEF NoFloors
  <2> QED
    BY <2>1 DEF VersionTypes
<1>5. BufferTypes'
  <2>1. Nothing \in [Entity -> Stored]
    BY DEF Nothing, Stored
  <2>2. <<>> \in Seq(OpType)
    BY EmptySeq
  <2>3. ops' \in [Tx -> Seq(OpType)]
    BY <2>2 DEF BufferTypes
  <2>4. archived' \in [Tx -> [Entity -> Stored]]
    BY <2>1 DEF BufferTypes
  <2> QED
    BY <2>3, <2>4 DEF BufferTypes
<1>6. IdleBuffers'
  BY DEF IdleBuffers, Idle
<1>7. CountsNatural'
  BY <1>2 DEF CountsNatural
<1> QED
  BY <1>1, <1>3, <1>4, <1>5, <1>6, <1>7

\* A transaction that quits.
LEMMA QuitTypeStep ==
    ASSUME TypeInv, NEW t \in Tx, Quit(t), CounterTypes', UNCHANGED <<commits, plan>>
    PROVE  TypeInv'
<1>1. pc' \in [Tx -> Stages] /\ \A u \in Tx \ {t} : pc'[u] = pc[u]
  BY DEF Quit, TypeInv, BeginTypes, Stages
<1> QED
  BY <1>1, CloseTypeStep DEF Quit

\* Validation, and the sequence it reserves.
LEMMA PrepareTypeStep ==
    ASSUME TypeInv, NEW t \in Tx, Prepare(t), UNCHANGED pruneVars
    PROVE  TypeInv'
<1> USE DEF pruneVars
<1>1. CASE ~Valid(t)
  <2>1. CounterTypes' /\ Quit(t) /\ UNCHANGED <<commits, plan>>
    BY <1>1 DEF Prepare, TypeInv, CounterTypes
  <2> QED
    BY <2>1, QuitTypeStep
<1>2. CASE Valid(t)
  <2> DEFINE F == [k \in Entity |-> IF k \in Touched(t) THEN Store.head[k].floor ELSE 0]
  <2>1. /\ pc[t] = "active" /\ pc' = [pc EXCEPT ![t] = "prepared"]
        /\ sequence' = sequence + 1
        /\ version' = [version EXCEPT ![t] = sequence + 1]
        /\ floors' = [floors EXCEPT ![t] = F]
        /\ UNCHANGED <<beginVars, bufferVars, commits, persisted, done, crashes, plan>>
    BY <1>2 DEF Prepare
  <2>2. F \in [Entity -> Nat]
    BY StoreFields DEF TypeInv, HeadType
  <2> HIDE DEF F
  <2> USE DEF TypeInv, beginVars, bufferVars
  <2>3. CommitTypes' /\ CounterTypes' /\ PlanTypes' /\ BufferTypes' /\ CountsNatural'
    BY <2>1 DEF CommitTypes, CounterTypes, PlanTypes, BufferTypes, CountsNatural
  <2>4. BeginTypes' /\ VersionTypes'
    BY <2>1, <2>2 DEF BeginTypes, VersionTypes, CounterTypes, Stages
  <2>5. IdleBuffers'
    BY <2>1 DEF IdleBuffers, Idle, BeginTypes
  <2> QED
    BY <2>3, <2>4, <2>5
<1> QED
  BY <1>1, <1>2

\* A commit is appended and everything a transaction has points to earlier ones.
LEMMA AppendTypeStep ==
    ASSUME TypeInv, NEW c \in CommitType, commits' = Append(commits, c), c.snap \in 0 .. Len(commits),
           BoundedStore(c.db)
    PROVE  /\ CommitTypes'
           /\ UNCHANGED <<snap, base, readSeq, count>> /\ pc' \in [Tx -> Stages] => BeginTypes' /\ CountsNatural'
<1> USE DEF TypeInv
<1>1. /\ Len(commits) \in Nat \ {0} /\ Len(commits') = Len(commits) + 1
      /\ commits' \in Seq(CommitType) /\ commits' # <<>>
      /\ \A i \in 1 .. Len(commits) : commits'[i] = commits[i]
      /\ commits'[Len(commits) + 1] = c
  BY AppendCommit
<1>2. CommitTypes'
  <2>1. ASSUME NEW i \in 1 .. Len(commits')
        PROVE  commits'[i].snap \in 0 .. i - 1 /\ BoundedStore(commits'[i].db)
    <3>1. CASE i \in 1 .. Len(commits)
      BY <3>1, <1>1 DEF CommitTypes
    <3>2. CASE i = Len(commits) + 1
      BY <3>2, <1>1
    <3> QED
      BY <3>1, <3>2, <1>1
  <2> QED
    BY <1>1, <2>1 DEF CommitTypes
<1>3. ASSUME UNCHANGED <<snap, base, readSeq, count>>, pc' \in [Tx -> Stages] PROVE BeginTypes' /\ CountsNatural'
  <2>1. 1 .. Len(commits) \subseteq 1 .. Len(commits')
    BY <1>1
  <2>2. BeginTypes'
    BY <1>3, <2>1 DEF BeginTypes
  <2>3. \A t \in Tx : base[t] \in 1 .. Len(commits) /\ commits'[base[t]] = commits[base[t]]
    BY <1>1 DEF BeginTypes
  <2> QED
    BY <1>3, <2>2, <2>3 DEF CountsNatural
<1> QED
  BY <1>2, <1>3

\* What a transaction has logged.
LEMMA OpFields ==
    ASSUME BufferTypes, NEW t \in Tx, NEW i \in DOMAIN ops[t]
    PROVE  /\ i \in 1 .. Len(ops[t]) /\ i \in Nat
           /\ ops[t][i] \in OpType
           /\ ops[t][i].key \in Entity /\ ops[t][i].gone \subseteq Edge
           /\ ops[t][i].old \in Stored
           /\ ops[t][i].kind \in {"create", "update", "delete"}
           /\ Touches(ops[t][i]) \subseteq Entity
           /\ Touches(ops[t][i]) \subseteq Touched(t)
<1>1. ops[t] \in Seq(OpType)
  BY DEF BufferTypes
<1>2. i \in 1 .. Len(ops[t]) /\ ops[t][i] \in OpType /\ Len(ops[t]) \in Nat
  BY <1>1, LenProperties, ElementOfSeq
<1>3. i \in Nat
  BY <1>2
<1> QED
  BY <1>2, <1>3 DEF OpType, Touches, Touched, Entity, Stored

\* What a transaction touches and writes are entities and keys.
LEMMA TouchedType ==
    ASSUME BufferTypes, NEW t \in Tx
    PROVE  Touched(t) \subseteq Entity /\ Written(t) \in SUBSET Key
<1>1. Touched(t) \subseteq Entity
  BY OpFields DEF Touched
<1> QED
  BY <1>1 DEF Written, Key

\* The archived content is one that was stored.
LEMMA SupersededType ==
    ASSUME BufferTypes, NEW t \in Tx, NEW k \in Entity
    PROVE  Superseded(t, k) \in Stored
<1> DEFINE own == {i \in DOMAIN ops[t] : ops[t][i].key = k /\ ops[t][i].kind # "create"}
<1>1. archived[t][k] \in Stored /\ None \in Stored
  BY DEF BufferTypes, Stored
<1>2. ASSUME own # {} PROVE ops[t][CHOOSE i \in own : \A j \in own : i <= j].old \in Stored
  <2>1. own \in SUBSET Nat
    BY OpFields
  <2>2. MinOf(own) \in own
    <3> HIDE DEF own
    <3> QED
      BY <1>2, <2>1, MinOfNats
  <2>3. (CHOOSE i \in own : \A j \in own : i <= j) \in DOMAIN ops[t]
    BY <2>2 DEF MinOf
  <2> HIDE DEF own
  <2> QED
    BY <2>3, OpFields
<1> QED
  BY <1>1, <1>2 DEF Superseded

\* What a transaction publishes is a store again.
LEMMA PublishedType ==
    ASSUME TypeInv, NEW t \in Tx, NEW early \in BOOLEAN
    PROVE  /\ Published(t, early) \in Db
           /\ BoundedStore(Published(t, early))
<1> USE DEF TypeInv
<1> DEFINE body == [k \in Entity |-> IF k \notin Touched(t) THEN Store.body[k]
                                      ELSE IF k \in Deletes(t) THEN None ELSE t]
           head == [k \in Entity |-> IF k \in Touched(t) THEN NewHead(t, k, early) ELSE Store.head[k]]
           ver == [k \in Entity |-> IF k \in Touched(t) THEN Records(t, k) ELSE Store.ver[k]]
           n == IF Recounts(t) THEN commits[base[t]].db.count + count[t] ELSE Store.count
<1>1. Published(t, early) = [body |-> body, head |-> head, ver |-> ver, count |-> n]
  BY DEF Published
<1>2. body \in [Entity -> Stored]
  <2>1. t \in Stored /\ None \in Stored
    BY DEF Stored, Content
  <2> QED
    BY <2>1, StoreFields
<1>3. head \in [Entity -> HeadType]
  <2>1. ASSUME NEW k \in Entity PROVE NewHead(t, k, early) \in HeadType
    <3>1. version[t] \in Nat /\ floors[t][k] \in Nat
      BY DEF VersionTypes
    <3>2. Store.head[k].floor \in Nat
      BY StoreFields DEF HeadType
    <3> QED
      BY <3>1, <3>2 DEF NewHead, HeadRecord, HeadType
  <2> QED
    BY <2>1, StoreFields
<1>4. ASSUME NEW k \in Entity
      PROVE  /\ Records(t, k) \in SUBSET VersionRecord
             /\ \A r \in Records(t, k) : r \in Store.ver[k] \/ r.seq = Store.head[k].seq \/ r.seq = version[t]
  <2>1. version[t] \in Nat /\ Store.head[k].seq \in Nat /\ Store.ver[k] \subseteq VersionRecord
    BY StoreFields DEF VersionTypes, HeadType
  <2>2. Superseded(t, k) \in Stored /\ None \in Stored
    BY SupersededType DEF Stored
  <2>3. /\ Records(t, k) \subseteq Store.ver[k] \cup {[seq |-> Store.head[k].seq, val |-> Superseded(t, k)],
                                                     [seq |-> version[t], val |-> None]}
    BY DEF Records
  <2>4. /\ [seq |-> Store.head[k].seq, val |-> Superseded(t, k)] \in VersionRecord
        /\ [seq |-> version[t], val |-> None] \in VersionRecord
    BY <2>1, <2>2 DEF VersionRecord
  <2>5. Records(t, k) \in SUBSET VersionRecord
    BY <2>1, <2>3, <2>4
  <2> QED
    BY <2>3, <2>5
<1>5. ver \in [Entity -> SUBSET VersionRecord]
  BY <1>4, StoreFields
<1>6. n \in Nat
  <2>1. commits[base[t]].db.count \in Nat
    BY CommitFields DEF BeginTypes
  <2> QED
    BY <2>1, StoreFields DEF CountsNatural, BufferTypes
<1>7. ASSUME NEW k \in Entity PROVE Bounded(Seqs(Published(t, early), k))
  <2>1. PICK b \in Nat : \A s \in Seqs(Store, k) : s <= b
    BY StoreFields DEF CommitTypes, BoundedStore, Bounded
  <2>2. /\ version[t] \in Nat /\ Store.head[k].seq \in Nat
        /\ \A r \in Store.ver[k] : r.seq \in Nat /\ r.seq <= b
    BY <2>1, StoreFields DEF VersionTypes, HeadType, VersionRecord, Seqs
  <2>3. \A r \in ver[k] : r \in Store.ver[k] \/ r.seq = Store.head[k].seq \/ r.seq = version[t]
    BY <1>4
  <2> DEFINE top == b + version[t] + Store.head[k].seq
  <2>4. top \in Nat /\ \A r \in ver[k] : r.seq <= top
    <3> HIDE DEF ver
    <3> QED
      BY <2>2, <2>3
  <2>5. Seqs(Published(t, early), k) = {r.seq : r \in ver[k]}
    BY <1>1 DEF Seqs
  <2> HIDE DEF top, ver
  <2> QED
    BY <2>4, <2>5 DEF Bounded
<1>8. Bounded(HeadSeqs(Published(t, early)))
  <2>1. PICK b \in Nat : \A s \in HeadSeqs(Store) : s <= b
    BY StoreFields DEF CommitTypes, BoundedStore, Bounded
  <2>2. version[t] \in Nat /\ \A k \in Entity : Store.head[k].seq \in Nat /\ Store.head[k].seq <= b
    BY <2>1, StoreFields DEF VersionTypes, HeadType, HeadSeqs
  <2>3. \A k \in Entity : head[k].seq \in {version[t], Store.head[k].seq}
    BY DEF NewHead, HeadRecord
  <2>4. b + version[t] \in Nat /\ \A k \in Entity : head[k].seq <= b + version[t]
    <3> HIDE DEF head
    <3> QED
      BY <2>2, <2>3
  <2>5. HeadSeqs(Published(t, early)) = {head[k].seq : k \in Entity}
    BY <1>1 DEF HeadSeqs
  <2> HIDE DEF head
  <2> QED
    BY <2>4, <2>5 DEF Bounded
<1> HIDE DEF body, head, ver, n
<1> QED
  BY <1>1, <1>2, <1>3, <1>5, <1>6, <1>7, <1>8 DEF Db, BoundedStore

\* badgerTx.Commit, or the conflict it reports.
LEMMA PublishTypeStep ==
    ASSUME TypeInv, NEW t \in Tx, Publish(t), UNCHANGED pruneVars
    PROVE  TypeInv'
<1> USE DEF pruneVars
<1>1. CASE Stale(t)
  <2>1. CounterTypes' /\ Quit(t) /\ UNCHANGED <<commits, plan>>
    BY <1>1 DEF Publish, TypeInv, CounterTypes
  <2> QED
    BY <2>1, QuitTypeStep
<1>2. CASE ~Stale(t)
  <2>1. PICK early \in BOOLEAN :
          commits' = Append(commits, [db |-> Published(t, early), keys |-> Written(t),
                                heads |-> {}, seq |-> version[t], snap |-> snap[t]])
    BY <1>2 DEF Publish
  <2>2. /\ pc[t] = "prepared" /\ pc' = [pc EXCEPT ![t] = "published"]
        /\ UNCHANGED <<beginVars, bufferVars, commitVars, sequence, persisted, done, crashes, plan>>
    BY <1>2 DEF Publish
  <2> DEFINE c == [db |-> Published(t, early), keys |-> Written(t),
                   heads |-> {}, seq |-> version[t], snap |-> snap[t]]
  <2> USE DEF TypeInv, beginVars, bufferVars, commitVars
  <2>3. snap[t] \in 1 .. Len(commits) /\ Len(commits) \in Nat
    BY StoreFields DEF BeginTypes
  <2>4. c \in CommitType /\ c.snap \in 0 .. Len(commits) /\ c.db = Published(t, early)
    <3>1. snap[t] \in Nat /\ snap[t] \in 0 .. Len(commits) /\ version[t] \in Nat
      BY <2>3 DEF VersionTypes
    <3> QED
      BY <3>1, PublishedType, TouchedType DEF CommitType
  <2>5. pc' \in [Tx -> Stages]
    BY <2>2 DEF BeginTypes, Stages
  <2>6. BoundedStore(c.db)
    BY <2>4, PublishedType
  <2> HIDE DEF c
  <2>7. CommitTypes' /\ BeginTypes' /\ CountsNatural'
    BY <2>1, <2>2, <2>4, <2>5, <2>6, AppendTypeStep DEF c
  <2>8. CounterTypes' /\ BufferTypes' /\ VersionTypes' /\ PlanTypes'
    BY <2>2 DEF CounterTypes, BufferTypes, VersionTypes, PlanTypes
  <2>9. IdleBuffers'
    BY <2>2 DEF IdleBuffers, Idle, BeginTypes
  <2> QED
    BY <2>7, <2>8, <2>9
<1> QED
  BY <1>1, <1>2

\* persistMVCCSequence and Rollback.
LEMMA EndTypeStep ==
    ASSUME TypeInv, NEW t \in Tx, PersistSequence(t) \/ Rollback(t), UNCHANGED pruneVars
    PROVE  TypeInv'
<1>1. Quit(t) /\ UNCHANGED <<commits, plan>>
  BY DEF PersistSequence, Rollback, Quit, pruneVars
<1>2. CounterTypes'
  <2>1. version[t] \in Nat /\ CounterTypes
    BY DEF TypeInv, VersionTypes
  <2> QED
    BY <2>1 DEF PersistSequence, Rollback, CounterTypes
<1> QED
  BY <1>1, <1>2, QuitTypeStep

\* recoverNamespaceMVCCFloor finds a last head.
LEMMA RecoveredFloorType ==
    ASSUME CommitTypes
    PROVE  /\ RecoveredFloor \in Nat
           /\ \A k \in Entity : Live(Store, k) => Store.head[k].seq <= RecoveredFloor
<1> DEFINE S == {0} \cup {Store.head[k].seq : k \in {x \in Entity : Live(Store, x)}}
<1>1. PICK b \in Nat : \A s \in HeadSeqs(Store) : s <= b
  BY StoreFields DEF CommitTypes, BoundedStore, Bounded
<1>2. S \in SUBSET Nat /\ S # {} /\ \A s \in S : s <= b
  <2>1. \A k \in Entity : Store.head[k].seq \in Nat /\ Store.head[k].seq \in HeadSeqs(Store)
    BY StoreFields DEF HeadSeqs, HeadType
  <2>2. \A k \in Entity : Store.head[k].seq <= b
    BY <1>1, <2>1
  <2>3. \A s \in S : s = 0 \/ \E k \in Entity : s = Store.head[k].seq
    OBVIOUS
  <2>4. \A s \in S : s \in Nat /\ s <= b
    BY <2>1, <2>2, <2>3
  <2>5. 0 \in S
    OBVIOUS
  <2> QED
    BY <2>4, <2>5
<1>3. \A k \in Entity : Live(Store, k) => Store.head[k].seq \in S
  OBVIOUS
<1>4. RecoveredFloor = MaxOf(S)
  BY DEF RecoveredFloor
<1> HIDE DEF S
<1>5. MaxOf(S) \in S /\ \A y \in S : y <= MaxOf(S)
  BY <1>2, MaxOfNats
<1> QED
  BY <1>2, <1>3, <1>4, <1>5

\* A crash, and the store opened again.
LEMMA CrashTypeStep ==
    ASSUME TypeInv, Crash, plan' = NoPlan
    PROVE  TypeInv'
<1>1. MaxOf({persisted, RecoveredFloor}) \in Nat
  BY RecoveredFloorType, MaxOfTwo DEF TypeInv, CounterTypes
<1>2. CounterTypes'
  BY <1>1, MVCCAssumption DEF Crash, TypeInv, CounterTypes
<1>3. pc' \in [Tx -> Stages]
  BY DEF Crash, Stages
<1> QED
  BY <1>2, <1>3, CloseTypeStep DEF Crash

\* maxVersionsBoundVersion returns one of the versions, with all but Keep of the
\* others above it, if there are so many; and a safe floor is a number not above
\* that version, or the floor there was.
LEMMA SafeFloorType ==
    ASSUME TypeInv, NEW h \in HeadType, NEW S \in SUBSET Nat, S # {}, Bounded(S), NEW f \in SafeFloors(h, S)
    PROVE  /\ f \in Nat
           /\ MaxVersionsBound(S) \in S
           /\ Cardinality({s \in S : s < MaxVersionsBound(S)}) = MaxOf({0, Cardinality(S) - Keep - 1})
           /\ f = h.floor \/ f <= MaxVersionsBound(S)
<1>1. PICK b \in Nat : \A s \in S : s <= b
  BY DEF Bounded
<1>2. IsFiniteSet(S) /\ Cardinality(S) \in Nat
  BY <1>1, FS_BoundedSetOfNaturals, FS_CardinalityType
<1>3. Cardinality(S) # 0
  BY <1>2, FS_EmptySet
<1> DEFINE r == MaxOf({0, Cardinality(S) - Keep - 1})
<1>4. r \in Nat /\ r < Cardinality(S)
  <2>1. Cardinality(S) - Keep - 1 \in Int
    BY <1>2, LifecycleAssumption
  <2>2. r = IF Cardinality(S) - Keep - 1 > 0 THEN Cardinality(S) - Keep - 1 ELSE 0
    BY <2>1, MaxOfZero
  <2> HIDE DEF r
  <2> QED
    BY <1>2, <1>3, <2>2, LifecycleAssumption
<1>5. MaxVersionsBound(S) \in S /\ Cardinality({s \in S : s < MaxVersionsBound(S)}) = r
  <2>1. \E v \in S : Cardinality({s \in S : s < v}) = r
    <3> HIDE DEF r
    <3> QED
      BY <1>4, RankExists
  <2> QED
    BY <2>1 DEF MaxVersionsBound
<1>6. PICK ttl \in 1 .. sequence : f = MaxOf({h.floor, MinOf({MaxVersionsBound(S), ttl})})
  BY DEF SafeFloors
<1> DEFINE m == MinOf({MaxVersionsBound(S), ttl})
<1>7. m \in Nat /\ m <= MaxVersionsBound(S)
  <2>1. MaxVersionsBound(S) \in Nat /\ ttl \in Nat
    <3>1. sequence \in Nat
      BY DEF TypeInv, CounterTypes
    <3>2. ttl \in Nat
      BY <1>6, <3>1
    <3> QED
      BY <1>5, <3>2
  <2> QED
    BY <2>1, MinOfTwo
<1> HIDE DEF m
<1>8. h.floor \in Nat
  BY DEF HeadType
<1>9. MaxOf({h.floor, m}) \in {h.floor, m}
  BY <1>7, <1>8, MaxOfTwo
<1>10. f \in {h.floor, m}
  BY <1>6, <1>9 DEF m
<1> QED
  BY <1>5, <1>7, <1>8, <1>10

\* Planning and comparing leave the store alone.
LEMMA PlanTypeStep ==
    ASSUME TypeInv, Fence \/ \E k \in Entity : Plan(k)
    PROVE  TypeInv'
<1>1. UNCHANGED vars
  BY DEF Fence, Plan
<1>2. PlanTypes'
  <2>1. CASE Fence
    <3>1. plan \in PlanType
      BY <2>1 DEF TypeInv, PlanTypes, Fence, Planning
    <3>2. plan.key \in Entity /\ Store.head[plan.key] \in HeadType
      BY <3>1, StoreFields DEF PlanType, TypeInv
    <3>3. \/ plan' = [plan EXCEPT !.fenced = TRUE, !.head = Store.head[plan.key]]
          \/ plan' = NoPlan
      BY <2>1 DEF Fence
    <3> QED
      BY <3>1, <3>2, <3>3 DEF PlanTypes, PlanType
  <2>2. ASSUME NEW k \in Entity, Plan(k) PROVE PlanTypes'
    <3> DEFINE h == Store.head[k]
               S == {r.seq : r \in Store.ver[k]}
    <3>1. PICK f \in SafeFloors(h, S) :
             plan' = [key |-> k, head |-> h, floor |-> f, delete |-> {s \in S : s < f /\ s # h.seq}, fenced |-> FALSE]
      BY <2>2 DEF Plan
    <3>2. S # {} /\ S \in SUBSET Nat /\ h \in HeadType
      BY <2>2, StoreFields DEF Plan, TypeInv, VersionRecord
    <3>3. Bounded(S)
      BY StoreFields DEF TypeInv, CommitTypes, BoundedStore, Seqs
    <3> HIDE DEF h, S
    <3>4. f \in Nat
      BY <3>1, <3>2, <3>3, SafeFloorType
    <3> QED
      BY <3>1, <3>2, <3>4 DEF PlanTypes, PlanType
  <2> QED
    BY <2>1, <2>2
<1> QED
  BY <1>1, <1>2 DEF TypeInv, vars, CommitTypes, CounterTypes, BeginTypes, BufferTypes, VersionTypes,
            IdleBuffers, Idle, CountsNatural, beginVars, bufferVars, commitVars

\* The stores that the pruner leaves.
WithoutVersion(k, v) == [Store EXCEPT !.ver[k] = {r \in @ : r.seq # v}]
WithHead(k, h) == [Store EXCEPT !.head[k] = h]

\* Each differs from the store there was in one field of one key.
LEMMA PrunedStore ==
    ASSUME TypeInv, NEW k \in Entity, NEW v, NEW h \in HeadType
    PROVE  /\ WithoutVersion(k, v) \in Db /\ BoundedStore(WithoutVersion(k, v))
           /\ WithoutVersion(k, v).body = Store.body /\ WithoutVersion(k, v).head = Store.head
           /\ WithoutVersion(k, v).ver = [Store.ver EXCEPT ![k] = {r \in @ : r.seq # v}]
           /\ WithHead(k, h) \in Db /\ BoundedStore(WithHead(k, h))
           /\ WithHead(k, h).body = Store.body /\ WithHead(k, h).ver = Store.ver
           /\ WithHead(k, h).head = [Store.head EXCEPT ![k] = h]
           /\ WithoutVersion(k, v).count = Store.count /\ WithHead(k, h).count = Store.count
<1> DEFINE del == [Store EXCEPT !.ver[k] = {r \in @ : r.seq # v}]
           hd == [Store EXCEPT !.head[k] = h]
<1>0. /\ Store \in Db /\ Store.head \in [Entity -> HeadType] /\ Store.ver \in [Entity -> SUBSET VersionRecord]
      /\ BoundedStore(Store)
  BY StoreFields DEF TypeInv, CommitTypes
<1>1. /\ del.body = Store.body /\ del.head = Store.head /\ del.count = Store.count
      /\ del.ver = [Store.ver EXCEPT ![k] = {r \in @ : r.seq # v}]
  BY <1>0 DEF Db
<1>2. del \in Db
  BY <1>0 DEF Db
<1>3. /\ hd.body = Store.body /\ hd.ver = Store.ver /\ hd.count = Store.count
      /\ hd.head = [Store.head EXCEPT ![k] = h]
  BY <1>0 DEF Db
<1>4. hd \in Db
  BY <1>0 DEF Db
<1>5. BoundedStore(del)
  <2>1. \A x \in Entity : Seqs(del, x) \subseteq Seqs(Store, x)
    BY <1>0, <1>1 DEF Seqs
  <2>2. HeadSeqs(del) = HeadSeqs(Store)
    BY <1>1 DEF HeadSeqs
  <2> HIDE DEF del
  <2> QED
    BY <1>0, <2>1, <2>2 DEF BoundedStore, Bounded
<1>6. BoundedStore(hd)
  <2>1. \A x \in Entity : Seqs(hd, x) = Seqs(Store, x)
    BY <1>3 DEF Seqs
  <2>2. PICK b \in Nat : \A s \in HeadSeqs(Store) : s <= b
    BY <1>0 DEF BoundedStore, Bounded
  <2>3. h.seq \in Nat /\ \A x \in Entity : Store.head[x].seq \in Nat /\ Store.head[x].seq <= b
    BY <1>0, <2>2 DEF HeadSeqs, HeadType
  <2>4. \A x \in Entity : hd.head[x].seq \in {h.seq, Store.head[x].seq}
    BY <1>0, <1>3
  <2> HIDE DEF hd
  <2>5. b + h.seq \in Nat /\ \A x \in Entity : hd.head[x].seq <= b + h.seq
    BY <2>3, <2>4
  <2>6. Bounded(HeadSeqs(hd))
    BY <2>5 DEF Bounded, HeadSeqs
  <2> QED
    BY <1>0, <2>1, <2>6 DEF BoundedStore
<1>7. WithoutVersion(k, v) = del /\ WithHead(k, h) = hd
  BY DEF WithoutVersion, WithHead
<1> HIDE DEF del, hd
<1> QED
  BY <1>1, <1>2, <1>3, <1>4, <1>5, <1>6, <1>7

\* A Badger transaction of the pruner.
LEMMA PruneTypeStep ==
    ASSUME TypeInv, DeleteMVCCVersion \/ WriteMVCCHead
    PROVE  TypeInv'
<1> USE DEF NoPlan
<1>0. plan \in PlanType
  BY DEF TypeInv, PlanTypes, DeleteMVCCVersion, WriteMVCCHead
<1> DEFINE hd == [plan.head EXCEPT !.floor = plan.floor]
           db1 == WithoutVersion(plan.key, MinOf(plan.delete))
           db2 == WithHead(plan.key, hd)
<1>1. plan.key \in Entity /\ hd \in HeadType
  BY <1>0 DEF PlanType, HeadType
<1>2. db1 \in Db /\ BoundedStore(db1) /\ db2 \in Db /\ BoundedStore(db2)
  <2> HIDE DEF hd
  <2> QED
    BY <1>1, PrunedStore
<1>3. \/ DeleteMVCCVersion /\ Write(db1, {})
      \/ WriteMVCCHead /\ Write(db2, {plan.key})
  BY DEF DeleteMVCCVersion, WriteMVCCHead, WithoutVersion, WithHead
<1> HIDE DEF hd, db1, db2
<1>4. PICK db \in Db, hs \in SUBSET Entity : BoundedStore(db) /\ Write(db, hs)
  BY <1>1, <1>2, <1>3
<1> DEFINE c == [db |-> db, keys |-> {}, heads |-> hs, seq |-> Latest.seq, snap |-> Len(commits)]
<1>5. /\ commits' = Append(commits, c)
      /\ UNCHANGED <<sequence, persisted, pc, beginVars, bufferVars, commitVars, done, crashes>>
  BY <1>4 DEF Write
<1>6. c \in CommitType /\ c.snap \in 0 .. Len(commits) /\ BoundedStore(c.db)
  <2>1. Latest.seq \in Nat /\ Len(commits) \in Nat /\ Len(commits) \in 0 .. Len(commits)
    BY StoreFields DEF TypeInv
  <2> QED
    BY <1>4, <2>1 DEF CommitType
<1> HIDE DEF c
<1> USE DEF beginVars, bufferVars, commitVars
<1>7. CommitTypes' /\ BeginTypes' /\ CountsNatural'
  <2>1. pc' \in [Tx -> Stages]
    BY <1>5 DEF TypeInv, BeginTypes
  <2> QED
    BY <1>5, <1>6, <2>1, AppendTypeStep
<1>8. CounterTypes' /\ BufferTypes' /\ VersionTypes' /\ IdleBuffers'
  BY <1>5 DEF TypeInv, CounterTypes, BufferTypes, VersionTypes, IdleBuffers, Idle
<1>9. PlanTypes'
  BY <1>0 DEF PlanTypes, PlanType, DeleteMVCCVersion, WriteMVCCHead
<1> QED
  BY <1>7, <1>8, <1>9 DEF TypeInv

\* Every step keeps the invariant.
LEMMA NextTypeInv == TypeInv /\ [LifecycleNext]_lifecycleVars => TypeInv'
<1> SUFFICES ASSUME TypeInv, [LifecycleNext]_lifecycleVars PROVE TypeInv'
  OBVIOUS
<1>1. ASSUME NEW t \in Tx, UNCHANGED pruneVars,
             BeginTransaction(t) \/ Operate(t) \/ Prepare(t) \/ PersistSequence(t) \/ Rollback(t)
      PROVE  TypeInv'
  BY <1>1, BeginTypeStep, OperateTypeStep, PrepareTypeStep, EndTypeStep
<1>2. ASSUME NEW t \in Tx, PublishBesidePrune(t) PROVE TypeInv'
  BY <1>2, PublishTypeStep DEF PublishBesidePrune
<1>3. CASE UNCHANGED lifecycleVars
  BY <1>3 DEF lifecycleVars, pruneVars, TypeInv, vars, CommitTypes, CounterTypes, BeginTypes, BufferTypes,
         VersionTypes, IdleBuffers, Idle, CountsNatural, PlanTypes, beginVars, bufferVars, commitVars
<1> QED
  BY <1>1, <1>2, <1>3, PlanTypeStep, PruneTypeStep, CrashTypeStep DEF LifecycleNext

\* The invariant holds in every state.
LEMMA TypeInvAlways == LifecycleSpec => []TypeInv
BY InitTypeInv, NextTypeInv, PTL DEF LifecycleSpec

\* BeginTransaction to persistMVCCSequence, the pruner and a crash keep every
\* field in its range: no transaction stores a negative label count, and what
\* it is pinned to is a commit there was.
THEOREM TypesHold == LifecycleSpec => []TypeOK
BY TypeInvAlways, TypeInvImplies, PTL

-----------------------------------------------------------------------------
(***************************************************************************)
(* The invariant of commits.  Validation sees what was committed before    *)
(* it, the Badger transaction what is committed after it to keys that were *)
(* read; the rest a transaction has not read, and must not share with      *)
(* another one between validation and publication.                         *)
(***************************************************************************)
\* Every entity a transaction has changed it has read, or changed blindly; the
\* edges deleted with a node were there when the Badger transaction began.
Logged(t) ==
    /\ \A i \in DOMAIN ops[t] :
         /\ ops[t][i].key \in reads[t] \cup Blind(t)
         /\ ops[t][i].gone \subseteq reads[t]
         /\ \A e \in ops[t][i].gone :
              /\ ops[t][i].kind = "delete" /\ ops[t][i].key \in Node /\ e \in Incident(ops[t][i].key)
              /\ Live(commits[base[t]].db, e)
    /\ \A k \in pending[t] : \E i \in DOMAIN ops[t] : ops[t][i].key = k

\* What has changed since the Badger transaction began was written since.
BaseBody(t) ==
    \A k \in Entity :
        (\A i \in base[t] + 1 .. Len(commits) : k \notin commits[i].keys)
            => Store.body[k] = commits[base[t]].db.body[k]

\* A transaction past validation is stale, or nobody has changed what it changes.
Checked(t) ==
    \/ Stale(t)
    \/ \A k \in Touched(t) : \A j \in snap[t] + 1 .. Len(commits) : k \notin commits[j].keys

TxInv(t) ==
    /\ Logged(t)
    /\ pc[t] \in {"active", "prepared"} => BaseBody(t)
    /\ pc[t] = "prepared" => Checked(t)

Apart(t, u) ==
    pc[t] = "prepared" /\ pc[u] = "prepared"
        => Touched(t) \cap Touched(u) \cap (Blind(t) \cup Blind(u)) = {}

CommitInv ==
    /\ \A t \in Tx : TxInv(t)
    /\ \A t, u \in Tx : t # u => Apart(t, u)
    /\ FirstCommitterWins

-----------------------------------------------------------------------------
(***************************************************************************)
(* What the invariant needs of the steps.                                  *)
(***************************************************************************)
\* What is touched, blind and read follows from the operations alone.
LEMMA OpsFrame ==
    ASSUME NEW t, ops'[t] = ops[t]
    PROVE  /\ Touched(t)' = Touched(t) /\ Blind(t)' = Blind(t) /\ HeadReads(t)' = HeadReads(t)
           /\ Deletes(t)' = Deletes(t)
<1>1. Touched(t)' = Touched(t)
  BY DEF Touched, Touches
<1>2. Blind(t)' = Blind(t)
  BY <1>1 DEF Blind
<1>3. HeadReads(t)' = HeadReads(t)
  BY DEF HeadReads, Touches
<1>4. ASSUME NEW k PROVE LastOp(t, k)' = LastOp(t, k)
  BY DEF LastOp, Touches, MaxOf
<1>5. Deletes(t)' = Deletes(t)
  BY <1>1, <1>4 DEF Deletes
<1> QED
  BY <1>1, <1>2, <1>3, <1>5

\* A transaction whose own state and the commits stay as they are.
LEMMA TxFrame ==
    ASSUME NEW t \in Tx, TxInv(t), UNCHANGED commits,
           ops'[t] = ops[t], reads'[t] = reads[t], pending'[t] = pending[t],
           snap'[t] = snap[t], base'[t] = base[t], pc'[t] = pc[t]
    PROVE  TxInv(t)'
<1>1. Touched(t)' = Touched(t) /\ Blind(t)' = Blind(t) /\ HeadReads(t)' = HeadReads(t)
  BY OpsFrame
<1>2. Store' = Store
  BY DEF Store, Latest
<1>3. Logged(t)' <=> Logged(t)
  BY <1>1 DEF Logged, Live
<1>4. BaseBody(t)' <=> BaseBody(t)
  BY <1>2 DEF BaseBody
<1>5. Checked(t)' <=> Checked(t)
  BY <1>1 DEF Checked, Stale
<1> QED
  BY <1>3, <1>4, <1>5 DEF TxInv

\* So do what it touches and what it has not read.
LEMMA ApartFrame ==
    ASSUME NEW t \in Tx, NEW u \in Tx, Apart(t, u),
           ops'[t] = ops[t], ops'[u] = ops[u],
           pc'[t] = "prepared" => pc[t] = "prepared", pc'[u] = "prepared" => pc[u] = "prepared"
    PROVE  Apart(t, u)'
BY OpsFrame DEF Apart

\* A closed transaction, or one that has not begun, has nothing to keep.
LEMMA TxEmpty ==
    ASSUME NEW t \in Tx, ops'[t] = <<>>, pending'[t] = {}, pc'[t] \notin {"active", "prepared"}
    PROVE  TxInv(t)'
<1>1. DOMAIN ops'[t] = {}
  OBVIOUS
<1> QED
  BY <1>1 DEF TxInv, Logged

\* An operation that is logged: it has been read, or is blind, or is about
\* something the transaction has written before.
LEMMA AppendOp ==
    ASSUME BufferTypes, NEW t \in Tx, NEW op \in OpType, Log(t, op)
    PROVE  /\ Len(ops[t]) \in Nat /\ DOMAIN ops[t] = 1 .. Len(ops[t])
           /\ DOMAIN ops'[t] = 1 .. Len(ops[t]) + 1
           /\ \A i \in 1 .. Len(ops[t]) : ops'[t][i] = ops[t][i]
           /\ ops'[t][Len(ops[t]) + 1] = op
           /\ \A u \in Tx \ {t} : ops'[u] = ops[u]
<1>1. ops[t] \in Seq(OpType) /\ ops'[t] = Append(ops[t], op) /\ \A u \in Tx \ {t} : ops'[u] = ops[u]
  BY DEF BufferTypes, Log
<1>2. Len(ops[t]) \in Nat /\ DOMAIN ops[t] = 1 .. Len(ops[t])
  BY <1>1, LenProperties
<1>3. /\ Append(ops[t], op) \in Seq(OpType)
      /\ Len(Append(ops[t], op)) = Len(ops[t]) + 1
      /\ \A i \in 1 .. Len(ops[t]) : Append(ops[t], op)[i] = ops[t][i]
      /\ Append(ops[t], op)[Len(ops[t]) + 1] = op
  BY <1>1, AppendProperties
<1>4. DOMAIN ops'[t] = 1 .. Len(ops[t]) + 1
  BY <1>1, <1>3, LenProperties
<1> QED
  BY <1>1, <1>2, <1>3, <1>4

\* An operation of an open transaction enrols what it touches before it is logged.
LEMMA LoggedStep ==
    ASSUME TypeInv, NEW t \in Tx, Logged(t), NEW keys \in SUBSET Key, NEW op \in OpType,
           Enrol(t, keys), Log(t, op),
           pending'[t] \subseteq pending[t] \cup {op.key},
           \/ op.kind = "create" \/ (op.kind = "delete" /\ op.key \in Edge)
           \/ op.key \in keys \/ op.key \in pending[t],
           op.gone \subseteq keys,
           \A e \in op.gone : /\ op.kind = "delete" /\ op.key \in Node /\ e \in Incident(op.key)
                              /\ Live(commits[base[t]].db, e)
    PROVE  Logged(t)'
<1> DEFINE n == Len(ops[t])
<1>1. /\ n \in Nat /\ DOMAIN ops[t] = 1 .. n /\ DOMAIN ops'[t] = 1 .. n + 1
      /\ \A i \in 1 .. n : ops'[t][i] = ops[t][i]
      /\ ops'[t][n + 1] = op
  BY AppendOp DEF TypeInv
<1>2. reads'[t] = reads[t] \cup keys /\ UNCHANGED <<commits, base>>
  BY DEF Enrol, beginVars, TypeInv, BufferTypes
<1>3. 1 .. n \subseteq 1 .. n + 1 /\ \A i \in 1 .. n + 1 : i \in 1 .. n \/ i = n + 1
  BY <1>1
<1> HIDE DEF n
<1>4. Blind(t) \subseteq Blind(t)'
  <2> SUFFICES ASSUME NEW k \in Blind(t) PROVE k \in Blind(t)'
    OBVIOUS
  <2>1. PICK i \in 1 .. n : /\ ops[t][i].key = k
                            /\ ops[t][i].kind = "create" \/ (ops[t][i].kind = "delete" /\ k \in Edge)
                            /\ \A j \in 1 .. i - 1 : ops[t][j].key # k
    BY <1>1 DEF Blind
  <2>2. \A j \in 1 .. i - 1 : ops'[t][j].key # k
    <3>1. \A j \in 1 .. i - 1 : j \in 1 .. n
      BY <1>1
    <3> QED
      BY <1>1, <2>1, <3>1
  <2>3. i \in DOMAIN ops'[t] /\ ops'[t][i] = ops[t][i]
    BY <1>1, <1>3, <2>1
  <2>4. k \in Touched(t)'
    BY <2>1, <2>3 DEF Touched, Touches
  <2> QED
    BY <2>1, <2>2, <2>3, <2>4 DEF Blind
<1>5. op.key \in reads'[t] \cup Blind(t)'
  <2>1. CASE \E i \in 1 .. n : ops[t][i].key = op.key
    BY <1>1, <1>2, <1>4, <2>1 DEF Logged
  <2>2. CASE op.key \in keys
    BY <1>2, <2>2
  <2>3. CASE /\ \A i \in 1 .. n : ops[t][i].key # op.key
             /\ op.kind = "create" \/ (op.kind = "delete" /\ op.key \in Edge)
    <3>1. n + 1 \in DOMAIN ops'[t] /\ ops'[t][n + 1] = op
      BY <1>1
    <3>2. \A j \in 1 .. (n + 1) - 1 : ops'[t][j].key # op.key
      BY <1>1, <2>3
    <3>3. op.key \in Touched(t)'
      BY <3>1 DEF Touched, Touches
    <3> QED
      BY <2>3, <3>1, <3>2, <3>3 DEF Blind
  <2>4. op.key \in pending[t] => \E i \in 1 .. n : ops[t][i].key = op.key
    BY <1>1 DEF Logged
  <2> QED
    BY <2>1, <2>2, <2>3, <2>4
<1>6. ASSUME NEW i \in DOMAIN ops'[t]
      PROVE  /\ ops'[t][i].key \in reads'[t] \cup Blind(t)'
             /\ ops'[t][i].gone \subseteq reads'[t]
             /\ \A e \in ops'[t][i].gone :
                  /\ ops'[t][i].kind = "delete" /\ ops'[t][i].key \in Node /\ e \in Incident(ops'[t][i].key)
                  /\ Live(commits'[base'[t]].db, e)
  <2>1. CASE i \in 1 .. n
    <3>1. i \in DOMAIN ops[t] /\ ops'[t][i] = ops[t][i]
      BY <1>1, <2>1
    <3> QED
      BY <1>2, <1>4, <3>1 DEF Logged
  <2>2. CASE i = n + 1
    BY <1>1, <1>2, <1>5, <2>2
  <2> QED
    BY <1>1, <1>3, <2>1, <2>2
<1>7. ASSUME NEW k \in pending'[t] PROVE \E i \in DOMAIN ops'[t] : ops'[t][i].key = k
  <2>1. CASE k = op.key
    BY <1>1, <1>3, <2>1
  <2>2. CASE k \in pending[t]
    <3>1. PICK i \in 1 .. n : ops[t][i].key = k
      BY <1>1, <2>2 DEF Logged
    <3> QED
      BY <1>1, <1>3, <3>1
  <2> QED
    BY <2>1, <2>2
<1> QED
  BY <1>6, <1>7 DEF Logged, Incident, Live

\* A commit is appended: whoever prepares to change what it has changed has
\* read that, and is stale now.
LEMMA TxAppend ==
    ASSUME TypeInv, NEW c \in CommitType, commits' = Append(commits, c),
           \A k \in Entity : k \notin c.keys => c.db.body[k] = Store.body[k],
           NEW t \in Tx, TxInv(t),
           UNCHANGED <<ops, reads, pending, snap, base>>,
           pc'[t] = pc[t] \/ pc'[t] \notin {"active", "prepared"},
           pc'[t] = "prepared" => Touched(t) \cap c.keys \subseteq reads[t]
    PROVE  TxInv(t)'
<1> DEFINE n == Len(commits)
<1>1. /\ n \in Nat /\ Len(commits') = n + 1
      /\ \A i \in 1 .. n : commits'[i] = commits[i]
      /\ commits'[n + 1] = c /\ Store' = c.db
  BY AppendCommit DEF TypeInv
<1>2. base[t] \in 1 .. n /\ snap[t] \in 1 .. n
  BY DEF TypeInv, BeginTypes
<1>3. Touched(t)' = Touched(t) /\ Blind(t)' = Blind(t) /\ HeadReads(t)' = HeadReads(t)
  BY OpsFrame
<1> HIDE DEF n
<1>4. commits'[base'[t]] = commits[base[t]]
  BY <1>1, <1>2
<1>5. Logged(t)'
  BY <1>3, <1>4 DEF Logged, TxInv, Live
<1>6. ASSUME BaseBody(t) PROVE BaseBody(t)'
  <2> SUFFICES ASSUME NEW k \in Entity, \A i \in base[t] + 1 .. n + 1 : k \notin commits'[i].keys
               PROVE  c.db.body[k] = commits[base[t]].db.body[k]
    BY <1>1, <1>4 DEF BaseBody
  <2>1. \A i \in base[t] + 1 .. n : i \in base[t] + 1 .. n + 1 /\ commits'[i] = commits[i]
    BY <1>1, <1>2
  <2>2. Store.body[k] = commits[base[t]].db.body[k]
    BY <1>6, <2>1 DEF BaseBody, n
  <2>3. n + 1 \in base[t] + 1 .. n + 1
    BY <1>1, <1>2
  <2>4. k \notin c.keys
    BY <1>1, <2>3
  <2> QED
    BY <2>2, <2>4
<1>7. ASSUME Checked(t), pc'[t] = "prepared" PROVE Checked(t)'
  <2>0. /\ \A i \in base[t] + 1 .. n : i \in base[t] + 1 .. n + 1 /\ commits'[i] = commits[i]
        /\ \A i \in snap[t] + 1 .. n + 1 : i = n + 1 \/ (i \in snap[t] + 1 .. n /\ commits'[i] = commits[i])
    BY <1>1, <1>2
  <2>1. CASE Stale(t)
    <3>1. PICK i \in base[t] + 1 .. n : commits[i].keys \cap reads[t] # {} \/ commits[i].heads \cap HeadReads(t) # {}
      BY <2>1 DEF Stale, n
    <3>2. i \in base[t] + 1 .. n + 1 /\ commits'[i] = commits[i]
      BY <2>0, <3>1
    <3>3. Stale(t)'
      BY <1>1, <1>3, <3>1, <3>2 DEF Stale
    <3> QED
      BY <3>3 DEF Checked
  <2>2. CASE Touched(t) \cap c.keys # {}
    <3>1. c.keys \cap reads[t] # {}
      BY <1>7, <2>2
    <3>2. n + 1 \in base[t] + 1 .. n + 1
      BY <1>1, <1>2
    <3>3. Stale(t)'
      BY <1>1, <3>1, <3>2 DEF Stale
    <3> QED
      BY <3>3 DEF Checked
  <2>3. CASE ~Stale(t) /\ Touched(t) \cap c.keys = {}
    <3>1. ASSUME NEW k \in Touched(t), NEW j \in snap[t] + 1 .. n + 1 PROVE k \notin commits'[j].keys
      BY <1>1, <1>7, <2>0, <2>3 DEF Checked, n
    <3> QED
      BY <1>1, <1>3, <3>1 DEF Checked
  <2> QED
    BY <2>1, <2>2, <2>3
<1>8. pc'[t] \in {"active", "prepared"} => pc'[t] = pc[t]
  OBVIOUS
<1> QED
  BY <1>5, <1>6, <1>7, <1>8 DEF TxInv

\* A commit leaves the earlier ones as they are: only its own conflicts count.
LEMMA WinsAppend ==
    ASSUME TypeInv, FirstCommitterWins, NEW c \in CommitType, commits' = Append(commits, c),
           \A j \in c.snap + 1 .. Len(commits) : c.keys \cap commits[j].keys \cap Entity = {}
    PROVE  FirstCommitterWins'
<1> DEFINE n == Len(commits)
<1>1. /\ n \in Nat /\ Len(commits') = n + 1
      /\ \A i \in 1 .. n : commits'[i] = commits[i]
      /\ commits'[n + 1] = c /\ DOMAIN commits' = 1 .. n + 1 /\ DOMAIN commits = 1 .. n
  BY AppendCommit, LenProperties DEF TypeInv, CommitTypes
<1> HIDE DEF n
<1>2. \A i \in 1 .. n : commits[i].snap \in Nat
  BY CommitFields DEF TypeInv, CommitType, n
<1>3. c.snap \in Nat
  BY DEF CommitType
<1> SUFFICES ASSUME NEW i \in 1 .. n + 1, NEW j \in commits'[i].snap + 1 .. i - 1
             PROVE  commits'[i].keys \cap commits'[j].keys \cap Entity = {}
  BY <1>1 DEF FirstCommitterWins
<1>4. CASE i \in 1 .. n
  <2>1. commits'[i] = commits[i]
    BY <1>1, <1>4
  <2>2. j \in 1 .. n /\ j \in commits[i].snap + 1 .. i - 1
    BY <1>1, <1>2, <1>4, <2>1
  <2>3. commits'[j] = commits[j]
    BY <1>1, <2>2
  <2> QED
    BY <1>1, <1>4, <2>1, <2>2, <2>3 DEF FirstCommitterWins
<1>5. CASE i = n + 1
  <2>1. commits'[i] = c
    BY <1>1, <1>5
  <2>2. j \in c.snap + 1 .. n /\ j \in 1 .. n
    BY <1>1, <1>3, <1>5, <2>1
  <2>3. commits'[j] = commits[j]
    BY <1>1, <2>2
  <2>4. c.keys \cap commits[j].keys \cap Entity = {}
    BY <2>2 DEF n
  <2> QED
    BY <2>1, <2>3, <2>4
<1>6. i \in 1 .. n \/ i = n + 1
  BY <1>1
<1> QED
  BY <1>4, <1>5, <1>6

-----------------------------------------------------------------------------
(***************************************************************************)
(* Steps.                                                                  *)
(***************************************************************************)
\* One commit, and nobody has begun.
LEMMA InitCommitInv == LifecycleInit => CommitInv
<1> SUFFICES ASSUME LifecycleInit PROVE CommitInv
  OBVIOUS
<1>1. Len(commits) = 1 /\ DOMAIN commits = {1} /\ commits[1].snap = 0
  BY DEF LifecycleInit, Init
<1>2. \A t \in Tx : ops[t] = <<>> /\ pending[t] = {} /\ pc[t] = "none"
  BY DEF LifecycleInit, Init
<1>3. ASSUME NEW t \in Tx PROVE TxInv(t)
  <2>1. DOMAIN ops[t] = {}
    BY <1>2
  <2> QED
    BY <1>2, <2>1 DEF TxInv, Logged
<1>4. \A t, u \in Tx : Apart(t, u)
  BY <1>2 DEF Apart
<1>5. FirstCommitterWins
  BY <1>1 DEF FirstCommitterWins
<1> QED
  BY <1>3, <1>4, <1>5 DEF CommitInv

\* The steps of BeginTransaction: a transaction begins with what is stored.
LEMMA BeginCommitStep ==
    ASSUME TypeInv, CommitInv, NEW t \in Tx, BeginTransaction(t)
    PROVE  CommitInv'
<1> USE DEF bufferVars, commitVars
<1>0. /\ UNCHANGED <<commits, bufferVars>>
      /\ pc[t] \in {"none", "pinned", "numbered"}
      /\ \A u \in Tx \ {t} : pc'[u] = pc[u] /\ snap'[u] = snap[u] /\ base'[u] = base[u]
      /\ \/ pc'[t] \in {"pinned", "numbered"}
         \/ pc'[t] = "active" /\ base'[t] = Len(commits)
  BY DEF BeginTransaction, BeginSnapshot, BeginSequence, BeginWriter, TypeInv, BeginTypes
<1>1. ops'[t] = <<>> /\ pending'[t] = {}
  BY <1>0 DEF TypeInv, IdleBuffers, Idle
<1>2. ASSUME NEW u \in Tx PROVE TxInv(u)'
  <2>1. CASE u # t
    BY <1>0, <2>1, TxFrame DEF CommitInv
  <2>2. CASE u = t /\ pc'[t] \in {"pinned", "numbered"}
    BY <1>1, <2>2, TxEmpty
  <2>3. CASE u = t /\ pc'[t] = "active" /\ base'[t] = Len(commits)
    <3>1. DOMAIN ops'[t] = {}
      BY <1>1
    <3>2. Store' = commits'[base'[t]].db
      BY <1>0, <2>3 DEF Store, Latest
    <3> QED
      BY <1>1, <2>3, <3>1, <3>2 DEF TxInv, Logged, BaseBody
  <2> QED
    BY <1>0, <2>1, <2>2, <2>3
<1>3. ASSUME NEW u \in Tx, NEW w \in Tx, u # w PROVE Apart(u, w)'
  <2>1. \A x \in Tx : pc'[x] = "prepared" => pc[x] = "prepared"
    BY <1>0
  <2> QED
    BY <1>0, <1>3, <2>1, ApartFrame DEF CommitInv
<1>4. FirstCommitterWins'
  BY <1>0 DEF CommitInv, FirstCommitterWins
<1> QED
  BY <1>2, <1>3, <1>4 DEF CommitInv

\* An operation is logged with what it reads.
LEMMA OperateCommitStep ==
    ASSUME TypeInv, CommitInv, NEW t \in Tx, Operate(t)
    PROVE  CommitInv'
<1>0. /\ \E keys : Enrol(t, keys)
      /\ pc[t] = "active" /\ UNCHANGED <<commits, pc, snap, base>>
      /\ \A u \in Tx \ {t} : reads'[u] = reads[u] /\ pending'[u] = pending[u] /\ ops'[u] = ops[u]
  <2>1. /\ \E keys : Enrol(t, keys)
        /\ \E op : Log(t, op)
        /\ \E S : pending' = [pending EXCEPT ![t] = S]
    BY DEF Operate, CreateNode, UpdateNode, DeleteNode, CreateEdge, UpdateEdge, DeleteEdge
  <2>2. pc[t] = "active" /\ UNCHANGED <<commits, pc, snap, base>>
    BY DEF Operate, CreateNode, UpdateNode, DeleteNode, CreateEdge, UpdateEdge, DeleteEdge, Enrol, beginVars
  <2>3. \A u \in Tx \ {t} : reads'[u] = reads[u] /\ ops'[u] = ops[u]
    BY <2>1 DEF Enrol, Log, TypeInv, BufferTypes
  <2>4. \A u \in Tx \ {t} : pending'[u] = pending[u]
    BY <2>1 DEF TypeInv, BufferTypes
  <2> QED
    BY <2>1, <2>2, <2>3, <2>4
<1>1. Logged(t)
  BY DEF CommitInv, TxInv
<1>2. Logged(t)'
  <2>0. /\ t \in Stored /\ None \in Stored /\ Node \subseteq Entity /\ Edge \subseteq Entity
        /\ \A k \in Entity : (IF k \in pending[t] THEN t ELSE Committed(t, k)) \in Stored
    BY CommittedType DEF TypeInv, Stored, Content, Entity
  <2>1. ASSUME NEW kind \in {"create", "update", "delete"}, NEW k \in Entity,
               NEW old \in Stored, NEW gone \in SUBSET Edge
        PROVE  /\ Op(kind, k, old, gone) \in OpType
               /\ Op(kind, k, old, gone).kind = kind /\ Op(kind, k, old, gone).key = k
               /\ Op(kind, k, old, gone).gone = gone
    BY DEF Op, OpType, Stored
  \* Of all operations but DeleteNode.
  <2>2. ASSUME NEW keys \in SUBSET Key, NEW kind \in {"create", "update", "delete"}, NEW k \in Entity,
               NEW old \in Stored, Enrol(t, keys), Log(t, Op(kind, k, old, {})),
               pending'[t] \subseteq pending[t] \cup {k},
               kind = "create" \/ (kind = "delete" /\ k \in Edge) \/ k \in keys \/ k \in pending[t]
        PROVE  Logged(t)'
    <3> DEFINE op == Op(kind, k, old, {})
    <3>1. op \in OpType /\ op.kind = kind /\ op.key = k /\ op.gone = {}
      BY <2>1
    <3> HIDE DEF op
    <3> QED
      BY <1>1, <2>2, <3>1, LoggedStep DEF op
  <2>3. ASSUME NEW n \in Node, CreateNode(t, n) PROVE Logged(t)'
    <3>1. CountKeys(n) \in SUBSET Key /\ n \in Entity
      BY <2>0 DEF CountKeys, Key
    <3>2. /\ Enrol(t, CountKeys(n)) /\ Log(t, Op("create", n, None, {}))
          /\ pending'[t] \subseteq pending[t] \cup {n}
      BY <2>3 DEF CreateNode, TypeInv, BufferTypes
    <3> QED
      BY <2>0, <2>2, <3>1, <3>2
  <2>4. ASSUME NEW n \in Node, UpdateNode(t, n) PROVE Logged(t)'
    <3> DEFINE old == IF n \in pending[t] THEN t ELSE Committed(t, n)
    <3>1. {n} \ pending[t] \in SUBSET Key /\ n \in Entity /\ old \in Stored
      BY <2>0 DEF Key
    <3>2. /\ Enrol(t, {n} \ pending[t]) /\ Log(t, Op("update", n, old, {}))
          /\ pending'[t] \subseteq pending[t] \cup {n}
      BY <2>4 DEF UpdateNode, TypeInv, BufferTypes
    <3> HIDE DEF old
    <3> QED
      BY <2>2, <3>1, <3>2
  <2>5. ASSUME NEW e \in Edge, CreateEdge(t, e) PROVE Logged(t)'
    <3>1. /\ Enrol(t, {}) /\ Log(t, Op("create", e, None, {}))
          /\ pending'[t] \subseteq pending[t] \cup {e}
      BY <2>5 DEF CreateEdge, TypeInv, BufferTypes
    <3> QED
      BY <2>0, <2>2, <3>1
  <2>6. ASSUME NEW e \in Edge, UpdateEdge(t, e) PROVE Logged(t)'
    <3> DEFINE old == IF e \in pending[t] THEN t ELSE Committed(t, e)
    <3>1. {e} \ pending[t] \in SUBSET Key /\ e \in Entity /\ old \in Stored
      BY <2>0 DEF Key
    <3>2. /\ Enrol(t, {e} \ pending[t]) /\ Log(t, Op("update", e, old, {}))
          /\ pending'[t] \subseteq pending[t] \cup {e}
      BY <2>6 DEF UpdateEdge, TypeInv, BufferTypes
    <3> HIDE DEF old
    <3> QED
      BY <2>2, <3>1, <3>2
  <2>7. ASSUME NEW e \in Edge, DeleteEdge(t, e) PROVE Logged(t)'
    <3> DEFINE old == IF e \in pending[t] THEN t ELSE Committed(t, e)
    <3>1. e \in Entity /\ old \in Stored
      BY <2>0
    <3>2. /\ Enrol(t, {}) /\ Log(t, Op("delete", e, old, {}))
          /\ pending'[t] \subseteq pending[t] \cup {e}
      BY <2>7 DEF DeleteEdge, TypeInv, BufferTypes
    <3> HIDE DEF old
    <3> QED
      BY <2>2, <3>1, <3>2
  <2>8. ASSUME NEW n \in Node, DeleteNode(t, n) PROVE Logged(t)'
    <3> DEFINE old == IF n \in pending[t] THEN t ELSE Committed(t, n)
               gone == {e \in Incident(n) : Live(commits[base[t]].db, e)}
               keys == {n} \cup gone \cup CountKeys(n)
               op == Op("delete", n, old, gone)
    <3>1. n \in Entity /\ old \in Stored /\ gone \in SUBSET Edge
      BY <2>0 DEF Incident
    <3>2. keys \in SUBSET Key /\ n \in keys /\ gone \subseteq keys
      BY <2>0, <3>1 DEF Key, CountKeys
    <3>3. /\ Enrol(t, keys) /\ Log(t, op)
          /\ pending'[t] \subseteq pending[t] \cup {n}
      BY <2>8 DEF DeleteNode, TypeInv, BufferTypes
    <3>4. \A e \in gone : e \in Incident(n) /\ Live(commits[base[t]].db, e)
      OBVIOUS
    <3> HIDE DEF old, gone, keys
    <3>5. op \in OpType /\ op.kind = "delete" /\ op.key = n /\ op.gone = gone
      BY <2>1, <3>1
    <3> HIDE DEF op
    <3> QED
      BY <1>1, <3>2, <3>3, <3>4, <3>5, LoggedStep
  <2> QED
    BY <2>3, <2>4, <2>5, <2>6, <2>7, <2>8 DEF Operate
<1>3. ASSUME NEW u \in Tx PROVE TxInv(u)'
  <2>1. CASE u # t
    BY <1>0, <2>1, TxFrame DEF CommitInv
  <2>2. CASE u = t
    <3>1. BaseBody(t)'
      BY <1>0 DEF CommitInv, TxInv, BaseBody, Store, Latest
    <3> QED
      BY <1>0, <1>2, <2>2, <3>1 DEF TxInv
  <2> QED
    BY <2>1, <2>2
<1>4. ASSUME NEW u \in Tx, NEW w \in Tx, u # w PROVE Apart(u, w)'
  <2>1. CASE u # t /\ w # t
    BY <1>0, <1>4, <2>1, ApartFrame DEF CommitInv
  <2> QED
    BY <1>0, <2>1 DEF Apart
<1>5. FirstCommitterWins'
  BY <1>0 DEF CommitInv, FirstCommitterWins
<1> QED
  BY <1>3, <1>4, <1>5 DEF CommitInv

\* Transactions that are closed.
LEMMA CloseCommitStep ==
    ASSUME CommitInv, NEW S \in SUBSET Tx, Close(S), UNCHANGED commits,
           \A t \in S : pc'[t] \notin {"active", "prepared"},
           \A t \in Tx \ S : pc'[t] = pc[t]
    PROVE  CommitInv'
<1>1. \A t \in S : ops'[t] = <<>> /\ pending'[t] = {}
  BY DEF Close
<1>2. \A t \in Tx \ S : /\ ops'[t] = ops[t] /\ reads'[t] = reads[t] /\ pending'[t] = pending[t]
                        /\ snap'[t] = snap[t] /\ base'[t] = base[t]
  BY DEF Close
<1>3. ASSUME NEW t \in Tx PROVE TxInv(t)'
  <2>1. CASE t \in S
    BY <1>1, <2>1, TxEmpty
  <2>2. CASE t \notin S
    BY <1>2, <2>2, TxFrame DEF CommitInv
  <2> QED
    BY <2>1, <2>2
<1>4. ASSUME NEW u \in Tx, NEW w \in Tx, u # w PROVE Apart(u, w)'
  <2>1. CASE u \notin S /\ w \notin S
    BY <1>2, <1>4, <2>1, ApartFrame DEF CommitInv
  <2> QED
    BY <2>1 DEF Apart
<1>5. FirstCommitterWins'
  BY DEF CommitInv, FirstCommitterWins
<1> QED
  BY <1>3, <1>4, <1>5 DEF CommitInv

\* A transaction that rolls back, or is refused, leaves the commits alone.
LEMMA QuitCommitStep ==
    ASSUME TypeInv, CommitInv, NEW t \in Tx, Quit(t), UNCHANGED commits
    PROVE  CommitInv'
<1>1. pc'[t] = "closed" /\ \A u \in Tx \ {t} : pc'[u] = pc[u]
  BY DEF Quit, TypeInv, BeginTypes
<1> QED
  BY <1>1, CloseCommitStep DEF Quit

\* What validation has passed nobody has changed since the snapshot, unless it
\* is an edge that is gone by now: then the transaction has read it.
LEMMA ValidIsChecked ==
    ASSUME TypeInv, NEW t \in Tx, Logged(t), BaseBody(t), Valid(t), NEW k \in Touched(t)
    PROVE  Stale(t) \/ ~HeadConflict(t, k)
<1>1. PICK i \in DOMAIN ops[t] : k \in Touches(ops[t][i])
  BY DEF Touched
<1>2. Admissible(t, ops[t][i])
  BY <1>1 DEF Valid
<1>3. CASE k = ops[t][i].key
  BY <1>2, <1>3 DEF Admissible
<1>4. CASE k \in ops[t][i].gone
  <2>1. /\ ops[t][i].kind = "delete" /\ ops[t][i].key \in Node
        /\ k \in Incident(ops[t][i].key) /\ Live(commits[base[t]].db, k) /\ k \in reads[t]
    BY <1>1, <1>4 DEF Logged
  <2>2. CASE Live(Store, k)
    BY <1>2, <2>1, <2>2 DEF Admissible
  <2>3. CASE ~Live(Store, k)
    <3>1. k \in Entity
      BY <1>1, OpFields DEF TypeInv
    <3>2. \E j \in base[t] + 1 .. Len(commits) : k \in commits[j].keys
      BY <2>1, <2>3, <3>1 DEF BaseBody, Live
    <3> QED
      BY <2>1, <3>2 DEF Stale
  <2> QED
    BY <2>2, <2>3
<1> QED
  BY <1>1, <1>3, <1>4 DEF Touches

\* Validation and the allocation of a sequence.
LEMMA PrepareCommitStep ==
    ASSUME TypeInv, CommitInv, "blind" \notin Hazards, NEW t \in Tx, Prepare(t)
    PROVE  CommitInv'
<1>1. CASE ~Valid(t)
  BY <1>1, QuitCommitStep DEF Prepare
<1>2. CASE Valid(t)
  <2>1. /\ pc[t] = "active" /\ pc'[t] = "prepared" /\ \A u \in Tx \ {t} : pc'[u] = pc[u]
        /\ UNCHANGED <<commits, ops, reads, pending, snap, base>>
        /\ \A u \in Tx \ {t} : pc[u] = "prepared" => Touched(t) \cap Touched(u) \cap (Blind(t) \cup Blind(u)) = {}
    BY <1>2 DEF Prepare, TypeInv, BeginTypes, beginVars, bufferVars
  <2>2. Logged(t) /\ BaseBody(t)
    BY <2>1 DEF CommitInv, TxInv
  <2>3. Checked(t)
    BY <1>2, <2>2, ValidIsChecked DEF Checked, HeadConflict
  <2>4. ASSUME NEW u \in Tx PROVE TxInv(u)'
    <3>1. CASE u # t
      BY <2>1, <3>1, TxFrame DEF CommitInv
    <3>2. CASE u = t
      <4>1. /\ Touched(t)' = Touched(t) /\ Blind(t)' = Blind(t) /\ HeadReads(t)' = HeadReads(t)
        BY <2>1, OpsFrame
      <4>2. Logged(t)' /\ BaseBody(t)'
        BY <2>1, <2>2, <4>1 DEF Logged, BaseBody, Store, Latest, Live
      <4>3. Checked(t)'
        BY <2>1, <2>3, <4>1 DEF Checked, Stale
      <4> QED
        BY <3>2, <4>2, <4>3 DEF TxInv
    <3> QED
      BY <3>1, <3>2
  <2>5. ASSUME NEW u \in Tx, NEW w \in Tx, u # w PROVE Apart(u, w)'
    <3>0. /\ Touched(u)' = Touched(u) /\ Blind(u)' = Blind(u)
          /\ Touched(w)' = Touched(w) /\ Blind(w)' = Blind(w)
      BY <2>1, OpsFrame
    <3>1. CASE u # t /\ w # t
      BY <2>1, <2>5, <3>1, ApartFrame DEF CommitInv
    <3>2. CASE u = t /\ w # t
      BY <2>1, <3>0, <3>2 DEF Apart
    <3>3. CASE w = t /\ u # t
      BY <2>1, <3>0, <3>3 DEF Apart
    <3> QED
      BY <2>5, <3>1, <3>2, <3>3
  <2>6. FirstCommitterWins'
    BY <2>1 DEF CommitInv, FirstCommitterWins
  <2> QED
    BY <2>4, <2>5, <2>6 DEF CommitInv
<1> QED
  BY <1>1, <1>2

\* Who publishes has not been overtaken, and overtakes those who have read what
\* it changes.
LEMMA PublishCommitStep ==
    ASSUME TypeInv, CommitInv, NEW t \in Tx, Publish(t)
    PROVE  CommitInv'
<1>1. CASE Stale(t)
  BY <1>1, QuitCommitStep DEF Publish
<1>2. CASE ~Stale(t)
  <2>1. PICK early \in BOOLEAN :
          commits' = Append(commits, [db |-> Published(t, early), keys |-> Written(t),
                                heads |-> {}, seq |-> version[t], snap |-> snap[t]])
    BY <1>2 DEF Publish
  <2>2. /\ pc[t] = "prepared" /\ pc'[t] = "published" /\ \A u \in Tx \ {t} : pc'[u] = pc[u]
        /\ UNCHANGED <<ops, reads, pending, snap, base>>
    BY <1>2 DEF Publish, TypeInv, BeginTypes, beginVars, bufferVars
  <2> DEFINE c == [db |-> Published(t, early), keys |-> Written(t),
                   heads |-> {}, seq |-> version[t], snap |-> snap[t]]
  <2>3. /\ c \in CommitType /\ c.snap = snap[t] /\ c.keys = Written(t)
        /\ c.db = Published(t, early)
    <3>1. snap[t] \in Nat /\ version[t] \in Nat
      BY StoreFields DEF TypeInv, BeginTypes, VersionTypes
    <3> QED
      BY <3>1, PublishedType, TouchedType DEF CommitType, TypeInv
  <2>4. \A k \in Entity : k \notin c.keys => c.db.body[k] = Store.body[k]
    BY <2>3 DEF Published, Written
  <2> HIDE DEF c
  <2>5. LabelCount \notin Entity
    BY MVCCAssumption
  <2>6. \A j \in c.snap + 1 .. Len(commits) : c.keys \cap commits[j].keys \cap Entity = {}
    <3>1. Checked(t)
      BY <2>2 DEF CommitInv, TxInv
    <3>2. \A k \in Touched(t) : \A j \in snap[t] + 1 .. Len(commits) : k \notin commits[j].keys
      BY <1>2, <3>1 DEF Checked
    <3> QED
      BY <2>3, <2>5, <3>2 DEF Written
  <2>7. FirstCommitterWins'
    BY <2>1, <2>3, <2>6, WinsAppend DEF CommitInv, c
  <2>8. ASSUME NEW u \in Tx, u # t, pc[u] = "prepared" PROVE Touched(u) \cap c.keys \subseteq reads[u]
    <3> SUFFICES ASSUME NEW k \in Touched(u) \cap Written(t) PROVE k \in reads[u]
      BY <2>3
    <3>1. Touched(u) \subseteq Entity
      BY TouchedType DEF TypeInv
    <3>2. k \in Touched(t)
      BY <2>5, <3>1 DEF Written
    <3>3. k \notin Blind(u)
      BY <2>2, <2>8, <3>2 DEF CommitInv, Apart
    <3>4. PICK i \in DOMAIN ops[u] : k \in Touches(ops[u][i])
      BY DEF Touched
    <3>5. ops[u][i].key \in reads[u] \cup Blind(u) /\ ops[u][i].gone \subseteq reads[u]
      BY <3>4 DEF CommitInv, TxInv, Logged
    <3> QED
      BY <3>3, <3>4, <3>5 DEF Touches
  <2>9. ASSUME NEW u \in Tx PROVE TxInv(u)'
    <3>1. CASE u # t
      BY <2>1, <2>2, <2>3, <2>4, <2>8, <3>1, TxAppend DEF CommitInv, c
    <3>2. CASE u = t
      BY <2>1, <2>2, <2>3, <2>4, <3>2, TxAppend DEF CommitInv, c
    <3> QED
      BY <3>1, <3>2
  <2>10. ASSUME NEW u \in Tx, NEW w \in Tx, u # w PROVE Apart(u, w)'
    <3>1. \A x \in Tx : pc'[x] = "prepared" => pc[x] = "prepared"
      BY <2>2
    <3> QED
      BY <2>2, <2>10, <3>1, ApartFrame DEF CommitInv
  <2> QED
    BY <2>7, <2>9, <2>10 DEF CommitInv
<1> QED
  BY <1>1, <1>2

\* What the pruner writes: no key of a transaction.
LEMMA WriteCommit ==
    ASSUME TypeInv, DeleteMVCCVersion \/ WriteMVCCHead
    PROVE  \E c \in CommitType :
             /\ commits' = Append(commits, c)
             /\ c.keys = {} /\ c.snap = Len(commits) /\ c.seq = Latest.seq
             /\ c.db.body = Store.body /\ c.db.count = Store.count
             /\ \A x \in Entity : c.db.ver[x] \subseteq Store.ver[x]
             /\ DeleteMVCCVersion =>
                  /\ c.db.head = Store.head
                  /\ c.db.ver = [Store.ver EXCEPT ![plan.key] = {r \in @ : r.seq # MinOf(plan.delete)}]
             /\ WriteMVCCHead =>
                  /\ c.db.head = [Store.head EXCEPT ![plan.key] = [plan.head EXCEPT !.floor = plan.floor]]
                  /\ c.db.ver = Store.ver
             /\ plan \in PlanType
             /\ UNCHANGED <<sequence, persisted, pc, beginVars, bufferVars, commitVars>>
<1>0. plan \in PlanType
  BY DEF TypeInv, PlanTypes, DeleteMVCCVersion, WriteMVCCHead, NoPlan
<1> DEFINE hd == [plan.head EXCEPT !.floor = plan.floor]
           v == MinOf(plan.delete)
           k == plan.key
           Commit(db, hs) == [db |-> db, keys |-> {}, heads |-> hs, seq |-> Latest.seq, snap |-> Len(commits)]
<1>1. k \in Entity /\ hd \in HeadType
  BY <1>0 DEF PlanType, HeadType
<1>2. /\ WithoutVersion(k, v) \in Db /\ WithHead(k, hd) \in Db
      /\ WithoutVersion(k, v).body = Store.body /\ WithoutVersion(k, v).head = Store.head
      /\ WithHead(k, hd).body = Store.body /\ WithHead(k, hd).head = [Store.head EXCEPT ![k] = hd]
      /\ WithHead(k, hd).ver = Store.ver
      /\ WithoutVersion(k, v).ver = [Store.ver EXCEPT ![k] = {r \in @ : r.seq # v}]
      /\ WithoutVersion(k, v).count = Store.count /\ WithHead(k, hd).count = Store.count
      /\ \A x \in Entity : WithoutVersion(k, v).ver[x] \subseteq Store.ver[x]
  <2> HIDE DEF hd, v, k
  <2>1. /\ WithoutVersion(k, v) \in Db /\ WithHead(k, hd) \in Db
        /\ WithoutVersion(k, v).body = Store.body /\ WithoutVersion(k, v).head = Store.head
        /\ WithHead(k, hd).body = Store.body /\ WithHead(k, hd).head = [Store.head EXCEPT ![k] = hd]
        /\ WithHead(k, hd).ver = Store.ver
        /\ WithoutVersion(k, v).count = Store.count /\ WithHead(k, hd).count = Store.count
        /\ WithoutVersion(k, v).ver = [Store.ver EXCEPT ![k] = {r \in @ : r.seq # v}]
    BY <1>1, PrunedStore
  <2>2. Store.ver \in [Entity -> SUBSET VersionRecord]
    BY StoreFields DEF TypeInv
  <2>3. \A x \in Entity : [Store.ver EXCEPT ![k] = {r \in @ : r.seq # v}][x] \subseteq Store.ver[x]
    BY <2>2
  <2> QED
    BY <2>1, <2>3
<1>3. Latest.seq \in Nat /\ Len(commits) \in Nat
  BY StoreFields DEF TypeInv
<1>4. \A db \in Db, hs \in SUBSET Entity : Commit(db, hs) \in CommitType
  BY <1>3 DEF CommitType
<1>5. CASE DeleteMVCCVersion
  <2>1. /\ commits' = Append(commits, Commit(WithoutVersion(k, v), {}))
        /\ UNCHANGED <<sequence, persisted, pc, beginVars, bufferVars, commitVars>>
        /\ ~WriteMVCCHead
    BY <1>5 DEF DeleteMVCCVersion, WriteMVCCHead, Write, WithoutVersion
  <2>2. Commit(WithoutVersion(k, v), {}) \in CommitType
    <3> HIDE DEF hd, v, k
    <3> QED
      BY <1>2, <1>4
  <2>3. WithoutVersion(k, v).ver = [Store.ver EXCEPT ![plan.key] = {r \in @ : r.seq # MinOf(plan.delete)}]
    BY <1>2
  <2> HIDE DEF hd, v, k
  <2> QED
    BY <1>0, <1>2, <2>1, <2>2, <2>3
<1>6. CASE WriteMVCCHead
  <2>1. /\ commits' = Append(commits, Commit(WithHead(k, hd), {k}))
        /\ UNCHANGED <<sequence, persisted, pc, beginVars, bufferVars, commitVars>>
        /\ ~DeleteMVCCVersion
    BY <1>6 DEF DeleteMVCCVersion, WriteMVCCHead, Write, WithHead
  <2>2. Commit(WithHead(k, hd), {k}) \in CommitType
    <3> HIDE DEF hd, v, k
    <3> QED
      BY <1>1, <1>2, <1>4
  <2> QED
    BY <1>0, <1>2, <2>1, <2>2
<1> QED
  BY <1>5, <1>6

\* A prune commits no key of a transaction.
LEMMA PruneCommitStep ==
    ASSUME TypeInv, CommitInv, DeleteMVCCVersion \/ WriteMVCCHead
    PROVE  CommitInv'
<1>1. PICK c \in CommitType :
         /\ commits' = Append(commits, c)
         /\ c.keys = {} /\ c.snap = Len(commits) /\ c.db.body = Store.body
         /\ UNCHANGED <<pc, beginVars, bufferVars>>
  BY WriteCommit
<1>2. UNCHANGED <<pc, ops, reads, pending, snap, base>>
  BY <1>1 DEF beginVars, bufferVars
<1>3. ASSUME NEW t \in Tx PROVE TxInv(t)'
  BY <1>1, <1>2, TxAppend DEF CommitInv
<1>4. ASSUME NEW u \in Tx, NEW w \in Tx, u # w PROVE Apart(u, w)'
  BY <1>2, <1>4, ApartFrame DEF CommitInv
<1>5. FirstCommitterWins'
  BY <1>1, WinsAppend DEF CommitInv
<1> QED
  BY <1>3, <1>4, <1>5 DEF CommitInv

\* Every step keeps the invariant.
LEMMA NextCommitInv ==
    ASSUME "blind" \notin Hazards
    PROVE  TypeInv /\ CommitInv /\ [LifecycleNext]_lifecycleVars => CommitInv'
<1> SUFFICES ASSUME TypeInv, CommitInv, [LifecycleNext]_lifecycleVars PROVE CommitInv'
  OBVIOUS
<1>1. ASSUME NEW t \in Tx, PersistSequence(t) \/ Rollback(t) PROVE CommitInv'
  <2>1. Quit(t) /\ UNCHANGED commits
    BY <1>1 DEF PersistSequence, Rollback, Quit
  <2> QED
    BY <2>1, QuitCommitStep
<1>2. CASE Crash
  <2>1. \A t \in Tx : pc'[t] \notin {"active", "prepared"}
    BY <1>2 DEF Crash
  <2> QED
    BY <1>2, <2>1, CloseCommitStep DEF Crash
<1>3. CASE UNCHANGED vars
  <2>1. UNCHANGED <<commits, ops, reads, pending, snap, base, pc>>
    BY <1>3 DEF vars, beginVars, bufferVars
  <2>2. \A t \in Tx : TxInv(t)'
    BY <2>1, TxFrame DEF CommitInv
  <2>3. \A u, w \in Tx : u # w => Apart(u, w)'
    BY <2>1, ApartFrame DEF CommitInv
  <2> QED
    BY <2>1, <2>2, <2>3 DEF CommitInv, FirstCommitterWins
<1>4. Fence \/ (\E k \in Entity : Plan(k)) \/ UNCHANGED lifecycleVars => UNCHANGED vars
  BY DEF Fence, Plan, lifecycleVars
<1> QED
  BY <1>1, <1>2, <1>3, <1>4, BeginCommitStep, OperateCommitStep, PrepareCommitStep, PublishCommitStep, PruneCommitStep
     DEF LifecycleNext, PublishBesidePrune

\* validateSnapshotIsolationConflicts and the read set of the Badger transaction
\* together: whatever interleaves between validation and publication, no commit
\* changes what another changed since its snapshot, if two transactions between
\* the two do not share an entity that one of them has not read.
THEOREM FirstCommittersWin ==
    ASSUME "blind" \notin Hazards
    PROVE  LifecycleSpec => []FirstCommitterWins
<1>1. CommitInv => FirstCommitterWins
  BY DEF CommitInv
<1> QED
  BY <1>1, InitCommitInv, NextCommitInv, TypeInvAlways, PTL DEF LifecycleSpec

-----------------------------------------------------------------------------
(***************************************************************************)
(* Heads.  The pruner writes back the head it has compared: while nothing  *)
(* is published on that key it is still the head there is.                 *)
(***************************************************************************)
CommitsOf(k) == {i \in DOMAIN commits : k \in commits[i].keys}

\* Every entity is written by the first commit.
FirstCommit == \A k \in Entity : 1 \in CommitsOf(k)

\* A head that is there has a sequence; so has one that is about to be.
HeadsCounted ==
    /\ \A k \in Entity : Store.head[k] # NoHead => Store.head[k].seq > 0
    /\ \A t \in Tx : pc[t] \in {"prepared", "published"} => version[t] > 0

\* What the pruner holds.
PlannedHead ==
    /\ Planning => plan.head.seq > 0
    /\ plan.fenced => plan.head = Store.head[plan.key]

HeadInv == FirstCommit /\ HeadsCounted /\ PlannedHead /\ HeadIsLast

\* The last commit of an entity, after one more commit.
LEMMA LastAppend ==
    ASSUME TypeInv, FirstCommit, NEW c \in CommitType, commits' = Append(commits, c), NEW k \in Entity
    PROVE  /\ (1 \in CommitsOf(k))'
           /\ MaxOf(CommitsOf(k)) \in 1 .. Len(commits)
           /\ k \in c.keys => MaxOf(CommitsOf(k)') = Len(commits) + 1
           /\ k \notin c.keys => MaxOf(CommitsOf(k)') = MaxOf(CommitsOf(k))
<1> DEFINE n == Len(commits)
<1>1. /\ n \in Nat \ {0} /\ Len(commits') = n + 1
      /\ \A i \in 1 .. n : commits'[i] = commits[i]
      /\ commits'[n + 1] = c /\ DOMAIN commits' = 1 .. n + 1 /\ DOMAIN commits = 1 .. n
  BY AppendCommit, LenProperties DEF TypeInv, CommitTypes
<1> HIDE DEF n
<1>2. /\ 1 .. n \subseteq 1 .. n + 1 /\ 1 \in 1 .. n
      /\ \A i \in 1 .. n + 1 : i \in 1 .. n \/ i = n + 1
      /\ n + 1 \notin 1 .. n
  BY <1>1
<1>3. CommitsOf(k)' = CommitsOf(k) \cup {i \in {n + 1} : k \in c.keys}
  BY <1>1, <1>2 DEF CommitsOf
<1>4. CommitsOf(k) \subseteq 1 .. n /\ 1 \in CommitsOf(k)
  BY <1>1 DEF CommitsOf, FirstCommit
<1>5. MaxOf(CommitsOf(k)) \in CommitsOf(k)
  <2>1. CommitsOf(k) \in SUBSET Nat /\ \A s \in CommitsOf(k) : s <= n
    BY <1>4
  <2> QED
    BY <1>1, <1>4, <2>1, MaxOfNats
<1>6. ASSUME k \in c.keys PROVE MaxOf(CommitsOf(k)') = n + 1
  <2>1. CommitsOf(k)' \in SUBSET Nat /\ \A s \in CommitsOf(k)' : s <= n + 1
    BY <1>1, <1>3, <1>4
  <2>2. n + 1 \in CommitsOf(k)' /\ n + 1 \in Nat
    BY <1>1, <1>3, <1>6
  <2> DEFINE S == CommitsOf(k)'
  <2> HIDE DEF S
  <2>3. MaxOf(S) \in S /\ \A y \in S : y <= MaxOf(S)
    BY <2>1, <2>2, MaxOfNats DEF S
  <2> QED
    BY <2>1, <2>2, <2>3 DEF S
<1>7. k \notin c.keys => CommitsOf(k)' = CommitsOf(k)
  BY <1>3
<1> QED
  BY <1>3, <1>4, <1>5, <1>6, <1>7 DEF n

\* The invariant, said with the last commit of each entity.
LEMMA HeadIsLastDef ==
    HeadIsLast <=> \A k \in Entity :
        Store.head[k] # NoHead
           => /\ Store.head[k].seq = commits[MaxOf(CommitsOf(k))].seq
              /\ Store.head[k].tomb = (commits[MaxOf(CommitsOf(k))].db.body[k] = None)
BY DEF HeadIsLast, CommitsOf

\* Steps that commit nothing.
LEMMA HeadFrame ==
    ASSUME TypeInv, HeadInv, UNCHANGED commits,
           \A t \in Tx : pc'[t] \in {"prepared", "published"} => version'[t] > 0,
           plan' = plan \/ plan' = NoPlan
    PROVE  HeadInv'
<1>1. Store' = Store /\ \A k \in Entity : CommitsOf(k)' = CommitsOf(k)
  BY DEF Store, Latest, CommitsOf
<1>2. FirstCommit' /\ HeadsCounted'
  BY <1>1 DEF HeadInv, FirstCommit, HeadsCounted
<1>3. PlannedHead'
  BY <1>1 DEF HeadInv, PlannedHead, Planning, NoPlan
<1>4. HeadIsLast'
  BY <1>1 DEF HeadInv, HeadIsLast
<1> QED
  BY <1>2, <1>3, <1>4 DEF HeadInv

\* A commit is appended that writes its own keys only.
LEMMA HeadAppend ==
    ASSUME TypeInv, HeadInv, NEW c \in CommitType, commits' = Append(commits, c),
           \A k \in Entity \ c.keys :
               \/ c.db.head[k] = Store.head[k]
               \/ /\ Store.head[k] # NoHead
                  /\ c.db.head[k].seq = Store.head[k].seq /\ c.db.head[k].tomb = Store.head[k].tomb,
           \A k \in Entity \cap c.keys : /\ c.db.head[k].seq = c.seq /\ c.db.head[k].seq > 0
                                         /\ c.db.head[k].tomb = (c.db.body[k] = None)
    PROVE  /\ FirstCommit' /\ HeadIsLast'
           /\ \A k \in Entity : Store'.head[k] # NoHead => Store'.head[k].seq > 0
<1>1. /\ Len(commits) \in Nat /\ Store' = c.db /\ commits'[Len(commits) + 1] = c
      /\ \A i \in 1 .. Len(commits) : commits'[i] = commits[i]
  BY AppendCommit DEF TypeInv
<1>2. FirstCommit /\ HeadIsLast /\ HeadsCounted
  BY DEF HeadInv
<1>3. FirstCommit'
  BY <1>2, LastAppend DEF FirstCommit
<1>4. ASSUME NEW k \in Entity, c.db.head[k] # NoHead
      PROVE  /\ c.db.head[k].seq > 0
             /\ c.db.head[k].seq = commits'[MaxOf(CommitsOf(k)')].seq
             /\ c.db.head[k].tomb = (commits'[MaxOf(CommitsOf(k)')].db.body[k] = None)
  <2>1. CASE k \in c.keys
    <3>1. MaxOf(CommitsOf(k)') = Len(commits) + 1
      BY <1>2, <2>1, LastAppend
    <3> QED
      BY <1>1, <2>1, <3>1
  <2>2. CASE k \notin c.keys
    <3>1. MaxOf(CommitsOf(k)') = MaxOf(CommitsOf(k)) /\ MaxOf(CommitsOf(k)) \in 1 .. Len(commits)
      BY <1>2, <2>2, LastAppend
    <3>2. commits'[MaxOf(CommitsOf(k)')] = commits[MaxOf(CommitsOf(k))]
      BY <1>1, <3>1
    <3>3. Store.head[k] # NoHead /\ c.db.head[k].seq = Store.head[k].seq /\ c.db.head[k].tomb = Store.head[k].tomb
      BY <1>4, <2>2
    <3>4. /\ Store.head[k].seq > 0
          /\ Store.head[k].seq = commits[MaxOf(CommitsOf(k))].seq
          /\ Store.head[k].tomb = (commits[MaxOf(CommitsOf(k))].db.body[k] = None)
      BY <1>2, <3>3, HeadIsLastDef DEF HeadsCounted
    <3> QED
      BY <3>2, <3>3, <3>4
  <2> QED
    BY <2>1, <2>2
<1>5. HeadIsLast'
  BY <1>1, <1>4 DEF HeadIsLast, CommitsOf
<1> QED
  BY <1>1, <1>3, <1>4, <1>5

\* What is stored at first: heads of sequence 1, and no versions.
LEMMA InitStore ==
    ASSUME LifecycleInit
    PROVE  /\ Len(commits) = 1 /\ DOMAIN commits = {1}
           /\ commits[1].keys = Entity /\ commits[1].seq = 1 /\ Store = commits[1].db
           /\ \A k \in Entity :
                /\ Store.ver[k] = {}
                /\ \/ Store.body[k] = None /\ Store.head[k] = NoHead
                   \/ /\ Store.body[k] # None
                      /\ Store.head[k].seq = 1 /\ Store.head[k].tomb = FALSE /\ Store.head[k].floor = 1
<1>1. PICK S \in SUBSET Entity :
        commits = << [db |-> [body |-> [k \in Entity |-> IF k \in S THEN Old ELSE None],
                              head |-> [k \in Entity |-> IF k \in S THEN HeadRecord(1, FALSE, 1) ELSE NoHead],
                              ver |-> [k \in Entity |-> {}],
                              count |-> Cardinality(S \cap Labelled)],
                      keys |-> Entity, heads |-> {}, seq |-> 1, snap |-> 0] >>
  BY DEF LifecycleInit, Init
<1> DEFINE d == [body |-> [k \in Entity |-> IF k \in S THEN Old ELSE None],
                 head |-> [k \in Entity |-> IF k \in S THEN HeadRecord(1, FALSE, 1) ELSE NoHead],
                 ver |-> [k \in Entity |-> {}],
                 count |-> Cardinality(S \cap Labelled)]
           c == [db |-> d, keys |-> Entity, heads |-> {}, seq |-> 1, snap |-> 0]
<1>2. commits = <<c>>
  BY <1>1
<1>3. c.db = d /\ c.keys = Entity /\ c.seq = 1
  OBVIOUS
<1> HIDE DEF c
<1>4. Len(commits) = 1 /\ DOMAIN commits = {1} /\ commits[1] = c /\ Store = c.db
  BY <1>2 DEF Store, Latest
<1>5. Old # None
  BY MVCCAssumption DEF Content
<1>6. ASSUME NEW k \in Entity
      PROVE  /\ d.ver[k] = {}
             /\ k \notin S => d.body[k] = None /\ d.head[k] = NoHead
             /\ k \in S => d.body[k] = Old /\ d.head[k] = HeadRecord(1, FALSE, 1)
  OBVIOUS
<1>7. /\ HeadRecord(1, FALSE, 1).seq = 1 /\ HeadRecord(1, FALSE, 1).tomb = FALSE
      /\ HeadRecord(1, FALSE, 1).floor = 1
  BY DEF HeadRecord
<1> HIDE DEF d
<1> QED
  BY <1>3, <1>4, <1>5, <1>6, <1>7

\* What is stored at first has the head of the first commit.
LEMMA InitHeadInv == LifecycleInit => HeadInv
<1> SUFFICES ASSUME LifecycleInit PROVE HeadInv
  OBVIOUS
<1>1. FirstCommit /\ \A k \in Entity : CommitsOf(k) = {1}
  BY InitStore DEF FirstCommit, CommitsOf
<1>2. MaxOf({1}) = 1
  BY MaxOfTwo
<1>3. HeadIsLast
  <2>1. ASSUME NEW k \in Entity, Store.head[k] # NoHead
        PROVE  /\ Store.head[k].seq = commits[MaxOf(CommitsOf(k))].seq
               /\ Store.head[k].tomb = (commits[MaxOf(CommitsOf(k))].db.body[k] = None)
    <3>1. MaxOf(CommitsOf(k)) = 1
      BY <1>1, <1>2
    <3>2. /\ Store.head[k].seq = 1 /\ Store.head[k].tomb = FALSE /\ Store.body[k] # None
          /\ commits[1].seq = 1 /\ Store = commits[1].db
      BY <2>1, InitStore
    <3> QED
      BY <3>1, <3>2
  <2> QED
    BY <2>1, HeadIsLastDef
<1>4. HeadsCounted
  <2>1. \A t \in Tx : pc[t] = "none"
    BY DEF LifecycleInit, Init
  <2>2. \A k \in Entity : Store.head[k] # NoHead => Store.head[k].seq = 1
    BY InitStore
  <2> QED
    BY <2>1, <2>2 DEF HeadsCounted
<1>5. PlannedHead
  BY DEF PlannedHead, Planning, LifecycleInit, NoPlan
<1> QED
  BY <1>1, <1>3, <1>4, <1>5 DEF HeadInv

\* What a published commit holds of the keys it writes and of the others.
LEMMA PublishedFields ==
    ASSUME TypeInv, NEW t \in Tx, NEW early \in BOOLEAN, NEW k \in Entity
    PROVE  /\ k \notin Touched(t) => /\ Published(t, early).head[k] = Store.head[k]
                                     /\ Published(t, early).body[k] = Store.body[k]
                                     /\ Published(t, early).ver[k] = Store.ver[k]
           /\ k \in Touched(t) =>
                /\ Published(t, early).head[k] = NewHead(t, k, early)
                /\ Published(t, early).head[k].seq = version[t]
                /\ Published(t, early).head[k].tomb = (k \in Deletes(t))
                /\ Published(t, early).head[k].tomb = (Published(t, early).body[k] = None)
                /\ Published(t, early).body[k] = None <=> k \in Deletes(t)
                /\ Published(t, early).ver[k] = Records(t, k)
<1>1. t # None
  BY MVCCAssumption DEF Content
<1>2. /\ Published(t, early).body[k] = IF k \notin Touched(t) THEN Store.body[k]
                                       ELSE IF k \in Deletes(t) THEN None ELSE t
      /\ Published(t, early).head[k] = IF k \in Touched(t) THEN NewHead(t, k, early) ELSE Store.head[k]
      /\ Published(t, early).ver[k] = IF k \in Touched(t) THEN Records(t, k) ELSE Store.ver[k]
  BY DEF Published
<1>3. NewHead(t, k, early).seq = version[t] /\ NewHead(t, k, early).tomb = (k \in Deletes(t))
  BY DEF NewHead, HeadRecord
<1> QED
  BY <1>1, <1>2, <1>3

\* The commit a transaction publishes.
LEMMA PublishCommit ==
    ASSUME TypeInv, NEW t \in Tx, Publish(t), ~Stale(t)
    PROVE  \E early \in BOOLEAN : \E c \in CommitType :
             /\ commits' = Append(commits, c)
             /\ c.db = Published(t, early) /\ c.keys = Written(t) /\ c.seq = version[t]
             /\ pc[t] = "prepared" /\ pc'[t] = "published" /\ \A u \in Tx \ {t} : pc'[u] = pc[u]
             /\ UNCHANGED <<beginVars, bufferVars, commitVars, sequence, persisted>>
<1>1. PICK early \in BOOLEAN :
        commits' = Append(commits, [db |-> Published(t, early), keys |-> Written(t),
                              heads |-> {}, seq |-> version[t], snap |-> snap[t]])
  BY DEF Publish
<1> DEFINE c == [db |-> Published(t, early), keys |-> Written(t),
                 heads |-> {}, seq |-> version[t], snap |-> snap[t]]
<1>2. /\ pc[t] = "prepared" /\ pc'[t] = "published" /\ \A u \in Tx \ {t} : pc'[u] = pc[u]
      /\ UNCHANGED <<beginVars, bufferVars, commitVars, sequence, persisted>>
  BY DEF Publish, TypeInv, BeginTypes
<1>3. c \in CommitType
  <2>1. snap[t] \in Nat /\ version[t] \in Nat
    BY StoreFields DEF TypeInv, BeginTypes, VersionTypes
  <2> QED
    BY <2>1, PublishedType, TouchedType DEF CommitType, TypeInv
<1> QED
  BY <1>1, <1>2, <1>3

\* Every step keeps the heads.
LEMMA NextHeadInv ==
    ASSUME "fence" \notin Hazards
    PROVE  TypeInv /\ HeadInv /\ [LifecycleNext]_lifecycleVars => HeadInv'
<1> SUFFICES ASSUME TypeInv, HeadInv, [LifecycleNext]_lifecycleVars PROVE HeadInv'
  OBVIOUS
<1> USE DEF pruneVars, beginVars, commitVars, bufferVars
<1>0. \A t \in Tx : pc[t] \in {"prepared", "published"} => version[t] > 0
  BY DEF HeadInv, HeadsCounted
\* Steps that commit nothing and reserve no sequence.
<1>1. ASSUME UNCHANGED <<commits, version>>, plan' = plan \/ plan' = NoPlan,
             \A t \in Tx : pc'[t] \in {"prepared", "published"} => pc'[t] = pc[t]
      PROVE  HeadInv'
  BY <1>0, <1>1, HeadFrame
<1>2. ASSUME NEW t \in Tx, BeginTransaction(t), UNCHANGED plan PROVE HeadInv'
  <2>1. UNCHANGED <<commits, version>> /\ \A u \in Tx : pc'[u] \in {"prepared", "published"} => pc'[u] = pc[u]
    BY <1>2 DEF BeginTransaction, BeginSnapshot, BeginSequence, BeginWriter, TypeInv, BeginTypes
  <2> QED
    BY <1>1, <1>2, <2>1
<1>3. ASSUME NEW t \in Tx, Operate(t), UNCHANGED plan PROVE HeadInv'
  <2>1. UNCHANGED <<commits, version, pc>>
    BY <1>3 DEF Operate, CreateNode, UpdateNode, DeleteNode, CreateEdge, UpdateEdge, DeleteEdge, Enrol
  <2> QED
    BY <1>1, <1>3, <2>1
\* Transactions are closed.
<1>4. ASSUME NEW S \in SUBSET Tx, Close(S), UNCHANGED commits, plan' = plan \/ plan' = NoPlan,
             \A t \in S : pc'[t] \notin {"prepared", "published"}, \A t \in Tx \ S : pc'[t] = pc[t]
      PROVE  HeadInv'
  <2>1. \A t \in Tx : pc'[t] \in {"prepared", "published"} => version'[t] = version[t] /\ pc'[t] = pc[t]
    BY <1>4 DEF Close
  <2> QED
    BY <1>0, <1>4, <2>1, HeadFrame
<1>5. ASSUME NEW t \in Tx, Quit(t), UNCHANGED <<commits, plan>> PROVE HeadInv'
  <2>1. pc'[t] = "closed" /\ \A u \in Tx \ {t} : pc'[u] = pc[u]
    BY <1>5 DEF Quit, TypeInv, BeginTypes
  <2> QED
    BY <1>4, <1>5, <2>1 DEF Quit
<1>6. ASSUME NEW t \in Tx, Prepare(t), UNCHANGED plan PROVE HeadInv'
  <2>1. CASE ~Valid(t)
    BY <1>5, <1>6, <2>1 DEF Prepare
  <2>2. CASE Valid(t)
    <3>1. /\ version' = [version EXCEPT ![t] = sequence + 1] /\ UNCHANGED commits
          /\ pc' = [pc EXCEPT ![t] = "prepared"]
      BY <1>6, <2>2 DEF Prepare
    <3>2. sequence \in Nat /\ version \in [Tx -> Nat] /\ pc \in [Tx -> Stages]
      BY DEF TypeInv, CounterTypes, VersionTypes, BeginTypes
    <3>3. \A u \in Tx : pc'[u] \in {"prepared", "published"} => version'[u] > 0
      BY <1>0, <3>1, <3>2
    <3> QED
      BY <1>6, <3>1, <3>3, HeadFrame
  <2> QED
    BY <2>1, <2>2
<1>7. ASSUME NEW t \in Tx, PublishBesidePrune(t) PROVE HeadInv'
  <2>1. CASE Stale(t)
    BY <1>5, <1>7, <2>1 DEF PublishBesidePrune, Publish
  <2>2. CASE ~Stale(t)
    <3>1. PICK early \in BOOLEAN, c \in CommitType :
             /\ commits' = Append(commits, c)
             /\ c.db = Published(t, early) /\ c.keys = Written(t) /\ c.seq = version[t]
             /\ pc[t] = "prepared" /\ pc'[t] = "published" /\ \A u \in Tx \ {t} : pc'[u] = pc[u]
             /\ UNCHANGED version
      BY <1>7, <2>2, PublishCommit DEF PublishBesidePrune
    <3>2. /\ UNCHANGED plan /\ ~(plan.fenced /\ plan.key \in Touched(t))
      BY <1>7 DEF PublishBesidePrune
    <3>3. Store' = c.db
      BY <3>1, AppendCommit DEF TypeInv
    <3>4. \A k \in Entity : k \in c.keys <=> k \in Touched(t)
      BY <3>1, MVCCAssumption DEF Written
    <3>5. version[t] > 0
      BY <1>0, <3>1
    <3>6. \A k \in Entity \ c.keys : c.db.head[k] = Store.head[k]
      BY <3>1, <3>4, PublishedFields
    <3>7. \A k \in Entity \cap c.keys : /\ c.db.head[k].seq = c.seq /\ c.db.head[k].seq > 0
                                        /\ c.db.head[k].tomb = (c.db.body[k] = None)
      BY <3>1, <3>4, <3>5, PublishedFields
    <3>8. /\ FirstCommit' /\ HeadIsLast'
          /\ \A k \in Entity : Store'.head[k] # NoHead => Store'.head[k].seq > 0
      BY <3>1, <3>6, <3>7, HeadAppend
    <3>9. HeadsCounted'
      BY <1>0, <3>1, <3>8 DEF HeadsCounted
    <3>10. PlannedHead'
      <4>1. plan.fenced => plan.key \in Entity /\ plan.key \notin Touched(t)
        BY <3>2 DEF TypeInv, PlanTypes, PlanType, NoPlan
      <4>2. plan.fenced => Store'.head[plan.key] = Store.head[plan.key]
        BY <3>3, <3>4, <3>6, <4>1
      <4> QED
        BY <3>2, <4>2 DEF HeadInv, PlannedHead, Planning
    <3> QED
      BY <3>8, <3>9, <3>10 DEF HeadInv
  <2> QED
    BY <2>1, <2>2
<1>8. ASSUME NEW t \in Tx, PersistSequence(t) \/ Rollback(t), UNCHANGED plan PROVE HeadInv'
  <2>1. Quit(t) /\ UNCHANGED commits
    BY <1>8 DEF PersistSequence, Rollback, Quit
  <2> QED
    BY <1>5, <1>8, <2>1
<1>9. ASSUME Crash, plan' = NoPlan PROVE HeadInv'
  <2>1. \A t \in Tx : pc'[t] \notin {"prepared", "published"}
    BY <1>9 DEF Crash
  <2> QED
    BY <1>4, <1>9, <2>1 DEF Crash
<1>10. ASSUME Fence \/ (\E k \in Entity : Plan(k)) PROVE HeadInv'
  <2>1. UNCHANGED <<commits, pc, version>> /\ Store' = Store
    BY <1>10 DEF Fence, Plan, vars, Store, Latest
  <2>2. FirstCommit' /\ HeadsCounted' /\ HeadIsLast'
    BY <2>1 DEF HeadInv, FirstCommit, HeadsCounted, HeadIsLast, CommitsOf
  <2>3. PlannedHead'
    <3>1. CASE Fence
      <4>1. plan \in PlanType /\ plan.head.seq > 0 /\ plan.key \in Entity
        BY <3>1 DEF Fence, TypeInv, PlanTypes, HeadInv, PlannedHead, Planning, PlanType
      <4>2. CASE plan' = NoPlan
        BY <4>2 DEF PlannedHead, Planning, NoPlan
      <4>3. CASE plan' # NoPlan
        <5>1. Store.head[plan.key].seq = plan.head.seq
              /\ plan' = [plan EXCEPT !.fenced = TRUE, !.head = Store.head[plan.key]]
          BY <3>1, <4>3 DEF Fence
        <5>2. plan'.head = Store.head[plan.key] /\ plan'.key = plan.key
          BY <4>1, <5>1 DEF PlanType
        <5> QED
          BY <2>1, <4>1, <5>1, <5>2 DEF PlannedHead
      <4> QED
        BY <4>2, <4>3
    <3>2. ASSUME NEW k \in Entity, Plan(k) PROVE PlannedHead'
      <4>1. plan'.head = Store.head[k] /\ plan'.fenced = FALSE /\ Store.head[k] # NoHead
        BY <3>2 DEF Plan
      <4> QED
        BY <4>1 DEF HeadInv, HeadsCounted, PlannedHead
    <3> QED
      BY <1>10, <3>1, <3>2
  <2> QED
    BY <2>2, <2>3 DEF HeadInv
<1>11. ASSUME DeleteMVCCVersion \/ WriteMVCCHead PROVE HeadInv'
  <2>1. PICK c \in CommitType :
         /\ commits' = Append(commits, c)
         /\ c.keys = {}
         /\ DeleteMVCCVersion => c.db.head = Store.head
         /\ WriteMVCCHead => c.db.head = [Store.head EXCEPT ![plan.key] = [plan.head EXCEPT !.floor = plan.floor]]
         /\ plan \in PlanType
         /\ UNCHANGED <<pc, commitVars>>
    BY <1>11, WriteCommit
  <2>2. /\ plan.fenced /\ plan.key \in Entity /\ plan.head \in HeadType
        /\ plan.head = Store.head[plan.key] /\ plan.head.seq > 0
    BY <1>11, <2>1 DEF DeleteMVCCVersion, WriteMVCCHead, PlanType, HeadInv, PlannedHead, Planning, NoPlan
  <2>3. ASSUME NEW k \in Entity
        PROVE  \/ c.db.head[k] = Store.head[k]
               \/ /\ Store.head[k] # NoHead
                  /\ c.db.head[k].seq = Store.head[k].seq /\ c.db.head[k].tomb = Store.head[k].tomb
    <3>1. CASE DeleteMVCCVersion
      BY <2>1, <3>1
    <3>2. CASE WriteMVCCHead /\ k # plan.key
      BY <2>1, <3>2, StoreFields DEF TypeInv
    <3>3. CASE WriteMVCCHead /\ k = plan.key
      <4>1. c.db.head[k] = [plan.head EXCEPT !.floor = plan.floor]
        BY <2>1, <3>3, StoreFields DEF TypeInv
      <4>2. c.db.head[k].seq = plan.head.seq /\ c.db.head[k].tomb = plan.head.tomb
        BY <2>2, <4>1 DEF HeadType
      <4> QED
        BY <2>2, <3>3, <4>2 DEF NoHead
    <3> QED
      BY <1>11, <3>1, <3>2, <3>3
  <2>4. /\ FirstCommit' /\ HeadIsLast'
        /\ \A k \in Entity : Store'.head[k] # NoHead => Store'.head[k].seq > 0
    BY <2>1, <2>3, HeadAppend
  <2>5. HeadsCounted'
    BY <1>0, <2>1, <2>4 DEF HeadsCounted
  <2>6. PlannedHead'
    <3>1. CASE WriteMVCCHead
      BY <3>1 DEF WriteMVCCHead, PlannedHead, Planning, NoPlan
    <3>2. CASE DeleteMVCCVersion
      <4>1. plan'.head = plan.head /\ plan'.key = plan.key
        BY <2>1, <3>2 DEF DeleteMVCCVersion, PlanType
      <4>2. Store' = c.db
        BY <2>1, AppendCommit DEF TypeInv
      <4> QED
        BY <2>1, <2>2, <3>2, <4>1, <4>2 DEF PlannedHead
    <3> QED
      BY <1>11, <3>1, <3>2
  <2> QED
    BY <2>4, <2>5, <2>6 DEF HeadInv
<1>12. CASE UNCHANGED lifecycleVars
  <2>1. UNCHANGED <<commits, version, plan, pc>>
    BY <1>12 DEF lifecycleVars, vars
  <2> QED
    BY <1>1, <2>1
<1> QED
  BY <1>2, <1>3, <1>6, <1>7, <1>8, <1>9, <1>10, <1>11, <1>12 DEF LifecycleNext

\* The fence of PruneApplier.Apply: the head of an entity is that of its last
\* commit, tombstones included, whatever cycle of the pruner was overtaken, if
\* nothing is published on a key between the comparison and the write.
THEOREM HeadsAreLast ==
    ASSUME "fence" \notin Hazards
    PROVE  LifecycleSpec => []HeadIsLast
<1>1. HeadInv => HeadIsLast
  BY DEF HeadInv
<1> QED
  BY <1>1, InitHeadInv, NextHeadInv, TypeInvAlways, PTL DEF LifecycleSpec

-----------------------------------------------------------------------------
(***************************************************************************)
(* The sequence.  A restart takes it from the disk and from the heads of   *)
(* what is stored: a tombstone has no body to be found by, so its sequence *)
(* must be on disk, or the transaction that wrote it about to write it.    *)
(***************************************************************************)
Committing(t) == pc[t] \in {"prepared", "published"}

VersionBelow == \A t \in Tx : Committing(t) => version[t] <= sequence

\* t has published a tombstone of k and not yet written the sequence.
Owes(t, k) == /\ pc[t] = "published" /\ k \in Deletes(t)
              /\ Store.head[k].seq <= version[t]

TombPersisted ==
    \A k \in Entity : \/ Live(Store, k)
                      \/ Store.head[k].seq <= persisted
                      \/ \E t \in Tx : Owes(t, k)

SequenceInv == VersionBelow /\ SequenceAboveHeads /\ TombPersisted

\* The numbers these compare.
LEMMA SequenceTypes ==
    ASSUME TypeInv
    PROVE  /\ sequence \in Nat /\ persisted \in Nat /\ version \in [Tx -> Nat] /\ pc \in [Tx -> Stages]
           /\ readSeq \in [Tx -> Nat]
           /\ \A k \in Entity : /\ Store.head[k] \in HeadType
                                /\ Store.head[k].seq \in Nat /\ Store.head[k].floor \in Nat
                                /\ Store.head[k].tomb \in BOOLEAN
<1>1. Store.head \in [Entity -> HeadType]
  BY StoreFields DEF TypeInv
<1>2. \A k \in Entity : Store.head[k] \in HeadType
  BY <1>1
<1> QED
  BY <1>2 DEF TypeInv, CounterTypes, VersionTypes, BeginTypes, HeadType

\* Steps that leave bodies and the sequences of heads, where nothing that is
\* owed to the disk is forgotten.
LEMMA SequenceFrame ==
    ASSUME TypeInv, TypeInv', SequenceInv,
           \A k \in Entity : Store'.body[k] = Store.body[k] /\ Store'.head[k].seq = Store.head[k].seq,
           sequence' >= sequence, persisted' >= persisted,
           \A t \in Tx : Committing(t)' => version'[t] <= sequence',
           \A t \in Tx : pc[t] = "published" =>
               \/ version[t] <= persisted'
               \/ pc'[t] = "published" /\ Deletes(t)' = Deletes(t) /\ version'[t] = version[t]
    PROVE  SequenceInv'
<1>1. VersionBelow'
  BY DEF VersionBelow
<1>2. SequenceAboveHeads'
  BY SequenceTypes DEF SequenceInv, SequenceAboveHeads, TypeInv, CounterTypes
<1>3. ASSUME NEW k \in Entity, ~Live(Store, k)'
      PROVE  Store'.head[k].seq <= persisted' \/ \E t \in Tx : Owes(t, k)'
  <2>1. ~Live(Store, k)
    BY <1>3 DEF Live
  <2>2. /\ persisted \in Nat /\ persisted' \in Nat /\ Store.head[k].seq \in Nat
        /\ Store'.head[k].seq = Store.head[k].seq
    BY SequenceTypes DEF TypeInv, CounterTypes
  <2>3. CASE Store.head[k].seq <= persisted
    BY <2>2, <2>3
  <2>4. ASSUME NEW t \in Tx, Owes(t, k)
        PROVE  Store'.head[k].seq <= persisted' \/ Owes(t, k)'
    <3>1. version[t] \in Nat
      BY SequenceTypes
    <3> QED
      BY <2>2, <2>4, <3>1 DEF Owes
  <2> QED
    BY <2>1, <2>3, <2>4 DEF SequenceInv, TombPersisted
<1> QED
  BY <1>1, <1>2, <1>3 DEF SequenceInv, TombPersisted

\* At first sequence and disk are at 1, with every head.
LEMMA InitSequenceInv == LifecycleInit => SequenceInv
<1> SUFFICES ASSUME LifecycleInit PROVE SequenceInv
  OBVIOUS
<1>1. sequence = 1 /\ persisted = 1 /\ \A t \in Tx : pc[t] = "none"
  BY DEF LifecycleInit, Init
<1>2. \A k \in Entity : Store.head[k].seq \in {0, 1}
  <2>1. NoHead.seq = 0
    BY DEF NoHead
  <2> QED
    BY <2>1, InitStore
<1> QED
  BY <1>1, <1>2 DEF SequenceInv, VersionBelow, Committing, SequenceAboveHeads, TombPersisted

\* A transaction publishes: it owes its tombstones to the disk.
LEMMA PublishSequenceStep ==
    ASSUME TypeInv, TypeInv', SequenceInv, NEW t \in Tx, Publish(t), ~Stale(t)
    PROVE  SequenceInv'
<1>1. PICK early \in BOOLEAN, c \in CommitType :
         /\ commits' = Append(commits, c)
         /\ c.db = Published(t, early)
         /\ pc[t] = "prepared" /\ pc'[t] = "published" /\ \A u \in Tx \ {t} : pc'[u] = pc[u]
         /\ UNCHANGED <<beginVars, bufferVars, commitVars, sequence, persisted>>
  BY PublishCommit
<1>2. Store' = Published(t, early)
  BY <1>1, AppendCommit DEF TypeInv
<1>3. UNCHANGED <<version, ops, sequence, persisted>>
  BY <1>1 DEF bufferVars, commitVars
<1>4. \A u \in Tx : Touched(u)' = Touched(u) /\ Deletes(u)' = Deletes(u)
  BY <1>3 DEF Deletes, Touched, LastOp
<1>5. version[t] \in Nat /\ version[t] <= sequence
  BY <1>1, SequenceTypes DEF SequenceInv, VersionBelow, Committing
<1>6. VersionBelow'
  BY <1>1, <1>3, <1>5 DEF SequenceInv, VersionBelow, Committing
<1>7. ASSUME NEW k \in Entity
      PROVE  /\ Store'.head[k].seq <= sequence'
             /\ ~Live(Store, k)' => Store'.head[k].seq <= persisted' \/ \E u \in Tx : Owes(u, k)'
  <2>1. CASE k \in Touched(t)
    <3>1. Store'.head[k].seq = version[t] /\ (Store'.body[k] = None => k \in Deletes(t))
      BY <1>2, <2>1, PublishedFields
    <3>2. ~Live(Store, k)' => Owes(t, k)'
      BY <1>1, <1>3, <1>4, <1>5, <3>1 DEF Owes, Live
    <3> QED
      BY <1>3, <1>5, <3>1, <3>2
  <2>2. CASE k \notin Touched(t)
    <3>1. Store'.head[k] = Store.head[k] /\ Store'.body[k] = Store.body[k]
      BY <1>2, <2>2, PublishedFields
    <3>2. \A u \in Tx : Owes(u, k) => Owes(u, k)'
      BY <1>1, <1>3, <1>4, <3>1 DEF Owes
    <3> QED
      BY <1>3, <3>1, <3>2 DEF SequenceInv, SequenceAboveHeads, TombPersisted, Live
  <2> QED
    BY <2>1, <2>2
<1> QED
  BY <1>6, <1>7 DEF SequenceInv, SequenceAboveHeads, TombPersisted

\* The store is opened again: recoverNamespaceMVCCFloor has what has a body,
\* the disk the rest.
LEMMA CrashSequenceStep ==
    ASSUME TypeInv, SequenceInv, Crash, "crash" \notin Hazards
    PROVE  SequenceInv'
<1> DEFINE start == MaxOf({persisted, RecoveredFloor})
<1>1. /\ sequence' = start /\ persisted' = start /\ UNCHANGED commits
      /\ \A t \in Tx : pc[t] = "published" => Deletes(t) = {}
      /\ \A t \in Tx : pc'[t] \in {"none", "closed"}
  BY DEF Crash
<1>2. persisted \in Nat /\ RecoveredFloor \in Nat /\ start \in Nat /\ persisted <= start /\ RecoveredFloor <= start
  BY RecoveredFloorType, MaxOfTwo, SequenceTypes DEF TypeInv
<1> HIDE DEF start
<1>3. Store' = Store
  BY <1>1 DEF Store, Latest
<1>4. ASSUME NEW k \in Entity
      PROVE  Store.head[k].seq <= start
  <2>1. Store.head[k].seq \in Nat
    BY SequenceTypes
  <2>2. CASE Live(Store, k)
    BY <1>2, <2>1, <2>2, RecoveredFloorType DEF TypeInv
  <2>3. CASE ~Live(Store, k)
    <3>1. Store.head[k].seq <= persisted
      BY <1>1, <2>3 DEF SequenceInv, TombPersisted, Owes
    <3> QED
      BY <1>2, <2>1, <3>1
  <2> QED
    BY <2>2, <2>3
<1> QED
  BY <1>1, <1>3, <1>4 DEF SequenceInv, VersionBelow, Committing, SequenceAboveHeads, TombPersisted

\* The step of every action.
LEMMA NextSequenceInv ==
    ASSUME "late" \notin Hazards, "crash" \notin Hazards
    PROVE  TypeInv /\ TypeInv' /\ HeadInv /\ SequenceInv /\ [LifecycleNext]_lifecycleVars => SequenceInv'
<1> SUFFICES ASSUME TypeInv, TypeInv', HeadInv, SequenceInv, [LifecycleNext]_lifecycleVars PROVE SequenceInv'
  OBVIOUS
<1> USE DEF pruneVars, beginVars, commitVars, bufferVars
<1>0. /\ sequence \in Nat /\ persisted \in Nat /\ version \in [Tx -> Nat] /\ pc \in [Tx -> Stages]
      /\ \A t \in Tx : Committing(t) => version[t] <= sequence
  BY SequenceTypes DEF SequenceInv, VersionBelow
\* Nothing is committed, and what was published still is, unless it is on disk.
<1>1. ASSUME UNCHANGED <<commits, sequence>>, persisted' >= persisted,
             \A t \in Tx : \/ pc'[t] = pc[t] /\ ops'[t] = ops[t] /\ version'[t] = version[t]
                           \/ /\ pc'[t] \notin {"prepared", "published"}
                              /\ pc[t] = "published" => version[t] <= persisted'
      PROVE  SequenceInv'
  <2>1. Store' = Store
    BY <1>1 DEF Store, Latest
  <2>2. \A t \in Tx : ops'[t] = ops[t] => Deletes(t)' = Deletes(t)
    BY DEF Deletes, Touched, LastOp
  <2>3. \A t \in Tx : Committing(t)' => version'[t] <= sequence'
    BY <1>0, <1>1 DEF Committing
  <2>4. \A t \in Tx : pc[t] = "published" =>
               \/ version[t] <= persisted'
               \/ pc'[t] = "published" /\ Deletes(t)' = Deletes(t) /\ version'[t] = version[t]
    BY <1>1, <2>2
  <2> QED
    BY <1>0, <1>1, <2>1, <2>3, <2>4, SequenceFrame
<1>2. ASSUME NEW t \in Tx, pc[t] # "published", UNCHANGED <<commits, sequence, persisted>>,
             pc'[t] \notin {"prepared", "published"},
             \A u \in Tx \ {t} : pc'[u] = pc[u] /\ ops'[u] = ops[u] /\ version'[u] = version[u]
      PROVE  SequenceInv'
  BY <1>0, <1>1, <1>2
<1>3. ASSUME NEW t \in Tx, BeginTransaction(t) PROVE SequenceInv'
  BY <1>0, <1>2, <1>3 DEF BeginTransaction, BeginSnapshot, BeginSequence, BeginWriter
<1>4. ASSUME NEW t \in Tx, Operate(t) PROVE SequenceInv'
  <2>1. /\ UNCHANGED <<commits, version, pc, sequence, persisted>> /\ pc[t] = "active"
        /\ \A u \in Tx \ {t} : ops'[u] = ops[u]
    <3>1. UNCHANGED <<commits, version, pc, sequence, persisted>> /\ pc[t] = "active"
      BY <1>4 DEF Operate, CreateNode, UpdateNode, DeleteNode, CreateEdge, UpdateEdge, DeleteEdge, Enrol
    <3>2. \E op : Log(t, op)
      BY <1>4 DEF Operate, CreateNode, UpdateNode, DeleteNode, CreateEdge, UpdateEdge, DeleteEdge
    <3>3. \A u \in Tx \ {t} : ops'[u] = ops[u]
      BY <3>2 DEF Log, TypeInv, BufferTypes
    <3> QED
      BY <3>1, <3>3
  <2> QED
    BY <1>2, <2>1
<1>5. ASSUME NEW t \in Tx, Quit(t), pc[t] # "published", UNCHANGED <<commits, sequence, persisted>>
      PROVE  SequenceInv'
  <2>1. pc'[t] = "closed" /\ \A u \in Tx \ {t} : pc'[u] = pc[u] /\ ops'[u] = ops[u] /\ version'[u] = version[u]
    BY <1>0, <1>5 DEF Quit, Close
  <2> QED
    BY <1>2, <1>5, <2>1
<1>6. ASSUME NEW t \in Tx, Prepare(t) PROVE SequenceInv'
  <2>1. CASE ~Valid(t)
    BY <1>5, <1>6, <2>1 DEF Prepare
  <2>2. CASE Valid(t)
    <3>1. /\ version' = [version EXCEPT ![t] = sequence + 1] /\ sequence' = sequence + 1
          /\ UNCHANGED <<commits, persisted, ops>>
          /\ pc' = [pc EXCEPT ![t] = "prepared"] /\ pc[t] = "active"
      BY <1>6, <2>2 DEF Prepare
    <3>2. Store' = Store /\ \A u \in Tx : Deletes(u)' = Deletes(u)
      BY <3>1 DEF Store, Latest, Deletes, Touched, LastOp
    <3>3. \A u \in Tx : Committing(u)' => version'[u] <= sequence'
      BY <1>0, <3>1 DEF Committing
    <3>4. \A u \in Tx : pc[u] = "published" => pc'[u] = "published" /\ version'[u] = version[u]
      BY <1>0, <3>1
    <3> QED
      BY <1>0, <3>1, <3>2, <3>3, <3>4, SequenceFrame
  <2> QED
    BY <2>1, <2>2
<1>7. ASSUME NEW t \in Tx, PublishBesidePrune(t) PROVE SequenceInv'
  <2>1. CASE Stale(t)
    BY <1>5, <1>7, <2>1 DEF PublishBesidePrune, Publish
  <2>2. CASE ~Stale(t)
    BY <1>7, <2>2, PublishSequenceStep DEF PublishBesidePrune
  <2> QED
    BY <2>1, <2>2
<1>8. ASSUME NEW t \in Tx, PersistSequence(t) PROVE SequenceInv'
  <2>1. /\ UNCHANGED <<commits, sequence>> /\ pc' = [pc EXCEPT ![t] = "closed"] /\ Close({t})
        /\ \E s \in version[t] .. sequence : s >= persisted /\ persisted' = s
    BY <1>8 DEF PersistSequence
  <2>2. persisted' >= persisted /\ version[t] <= persisted'
    BY <1>0, <2>1
  <2>3. \A u \in Tx \ {t} : pc'[u] = pc[u] /\ ops'[u] = ops[u] /\ version'[u] = version[u]
    BY <1>0, <2>1 DEF Close
  <2>4. pc'[t] = "closed"
    BY <1>0, <2>1
  <2> QED
    BY <1>1, <2>1, <2>2, <2>3, <2>4
<1>9. ASSUME NEW t \in Tx, Rollback(t) PROVE SequenceInv'
  BY <1>5, <1>9 DEF Rollback
<1>10. ASSUME DeleteMVCCVersion \/ WriteMVCCHead PROVE SequenceInv'
  <2>1. PICK c \in CommitType :
         /\ commits' = Append(commits, c)
         /\ c.db.body = Store.body
         /\ DeleteMVCCVersion => c.db.head = Store.head
         /\ WriteMVCCHead => c.db.head = [Store.head EXCEPT ![plan.key] = [plan.head EXCEPT !.floor = plan.floor]]
         /\ plan \in PlanType
         /\ UNCHANGED <<sequence, persisted, pc, ops, version>>
    BY <1>10, WriteCommit
  <2>2. Store' = c.db
    BY <2>1, AppendCommit DEF TypeInv
  <2>3. ASSUME NEW k \in Entity PROVE c.db.head[k].seq = Store.head[k].seq
    <3>1. CASE DeleteMVCCVersion
      BY <2>1, <3>1
    <3>2. CASE WriteMVCCHead
      <4>1. plan.head = Store.head[plan.key] /\ plan.head \in HeadType /\ plan.key \in Entity
        BY <2>1, <3>2 DEF WriteMVCCHead, HeadInv, PlannedHead, PlanType
      <4>2. c.db.head[k] = IF k = plan.key THEN [plan.head EXCEPT !.floor = plan.floor] ELSE Store.head[k]
        BY <2>1, <3>2, StoreFields DEF TypeInv
      <4> QED
        BY <4>1, <4>2 DEF HeadType
    <3> QED
      BY <1>10, <3>1, <3>2
  <2>4. \A t \in Tx : Deletes(t)' = Deletes(t)
    BY <2>1 DEF Deletes, Touched, LastOp
  <2>5. \A t \in Tx : Committing(t)' => version'[t] <= sequence'
    BY <1>0, <2>1 DEF Committing
  <2> QED
    BY <1>0, <2>1, <2>2, <2>3, <2>4, <2>5, SequenceFrame
<1>11. CASE Fence \/ (\E k \in Entity : Plan(k)) \/ UNCHANGED lifecycleVars
  <2>1. UNCHANGED <<commits, sequence, persisted, pc, ops, version>>
    BY <1>11 DEF Fence, Plan, vars, lifecycleVars
  <2> QED
    BY <1>0, <1>1, <2>1
<1> QED
  BY <1>3, <1>4, <1>6, <1>7, <1>8, <1>9, <1>10, <1>11, CrashSequenceStep DEF LifecycleNext

\* recoverNamespaceMVCCFloor and persistMVCCSequence together: also after any
\* number of restarts the sequence is not behind a head, if no restart falls
\* between a delete and the write of its sequence, and sequences are written in
\* the order they were read.
THEOREM SequencesAboveHeads ==
    ASSUME "late" \notin Hazards, "crash" \notin Hazards, "fence" \notin Hazards
    PROVE  LifecycleSpec => []SequenceAboveHeads
<1>1. SequenceInv => SequenceAboveHeads
  BY DEF SequenceInv
<1>2. LifecycleSpec => []HeadInv
  BY InitHeadInv, NextHeadInv, TypeInvAlways, PTL DEF LifecycleSpec
<1> QED
  BY <1>1, <1>2, InitSequenceInv, NextSequenceInv, TypeInvAlways, PTL DEF LifecycleSpec

-----------------------------------------------------------------------------
(***************************************************************************)
(* Snapshots.  A head says whether there is a body, and lies above its     *)
(* floor and its versions; a transaction that is about to replace heads    *)
(* has a version above them.                                               *)
(***************************************************************************)
HeadShape(db, k) ==
    /\ db.head[k] # NoHead => /\ db.head[k].floor <= db.head[k].seq
                              /\ db.head[k].tomb = (db.body[k] = None)
    /\ \A r \in db.ver[k] : r.seq <= db.head[k].seq

HeadShapes == \A i \in 1 .. Len(commits) : \A k \in Entity : HeadShape(commits[i].db, k)

\* The sequence a transaction reads at, or will, is not below its snapshot.
SnapBelow(t) ==
    LET heads == commits[snap[t]].db.head
    IN  /\ pc[t] = "pinned" => \A k \in Entity : heads[k].seq <= sequence
        /\ pc[t] \in {"numbered", "active"} => \A k \in Entity : heads[k].seq <= readSeq[t]

\* What a transaction past validation replaces is older, or it is stale.
Replaces(t) ==
    pc[t] = "prepared" =>
        /\ Stale(t) \/ \A k \in Touched(t) : Store.head[k].seq <= version[t]
        /\ \A k \in Entity : floors[t][k] <= version[t]

PlanFloor == Planning => plan.floor <= plan.head.seq

SnapshotInv ==
    /\ HeadShapes
    /\ \A t \in Tx : SnapBelow(t)
    /\ \A t \in Tx : Replaces(t)
    /\ PlanFloor

\* The heart of the argument: with such heads a read at that sequence finds
\* what the snapshot holds.
LEMMA WholeSnapshot == TypeInv /\ SnapshotInv => SnapshotIsWhole
<1> SUFFICES ASSUME TypeInv, SnapshotInv, NEW t \in Tx, pc[t] = "active", NEW k \in Entity
             PROVE  Committed(t, k) = commits[snap[t]].db.body[k]
  BY DEF SnapshotIsWhole
<1> DEFINE db == commits[snap[t]].db
           h == db.head[k]
           v == readSeq[t]
<1>1. snap[t] \in 1 .. Len(commits) /\ v \in Nat
  BY DEF TypeInv, BeginTypes
<1>2. h \in HeadType /\ h.seq \in Nat /\ h.floor \in Nat
  BY <1>1, CommitFields DEF TypeInv, HeadType
<1>3. HeadShape(db, k) /\ h.seq <= v
  BY <1>1 DEF SnapshotInv, HeadShapes, SnapBelow
<1> HIDE DEF db
<1>4. CASE h = NoHead
  BY <1>4 DEF Committed, VisibleAt, db
<1>5. CASE h # NoHead
  <2>1. v >= h.floor /\ v >= h.seq /\ ~(v < h.floor) /\ ~(v < h.seq)
    BY <1>1, <1>2, <1>3, <1>5 DEF HeadShape
  <2>2. VisibleAt(db, k, v) = IF h.tomb THEN None
                              ELSE IF Live(db, k) THEN db.body[k] ELSE AtOrBefore(db.ver[k], h.seq)
    BY <1>5, <2>1, Zenon DEF VisibleAt
  <2>3. VisibleAt(db, k, v) = db.body[k]
    BY <1>3, <1>5, <2>2 DEF HeadShape, Live
  <2> QED
    BY <2>3 DEF Committed, db
<1> QED
  BY <1>4, <1>5

\* Steps that commit nothing.
LEMMA SnapshotFrame ==
    ASSUME TypeInv, SnapshotInv, UNCHANGED commits, sequence' >= sequence, TypeInv',
           \A t \in Tx : \/ /\ pc'[t] = pc[t] /\ snap'[t] = snap[t] /\ readSeq'[t] = readSeq[t]
                            /\ \/ pc[t] # "prepared"
                               \/ /\ ops'[t] = ops[t] /\ base'[t] = base[t] /\ reads'[t] = reads[t]
                                  /\ version'[t] = version[t] /\ floors'[t] = floors[t]
                         \/ pc'[t] \in {"none", "published", "closed"}
                         \/ SnapBelow(t)' /\ Replaces(t)',
           PlanFloor'
    PROVE  SnapshotInv'
<1>1. Store' = Store
  BY DEF Store, Latest
<1>2. HeadShapes'
  BY DEF SnapshotInv, HeadShapes, HeadShape
<1>3. ASSUME NEW t \in Tx PROVE SnapBelow(t)' /\ Replaces(t)'
  <2>1. /\ sequence \in Nat /\ sequence' \in Nat
        /\ \A k \in Entity : commits[snap[t]].db.head[k].seq \in Nat
    BY CommitFields DEF TypeInv, CounterTypes, BeginTypes, HeadType
  <2>2. ASSUME pc'[t] = pc[t], snap'[t] = snap[t], readSeq'[t] = readSeq[t] PROVE SnapBelow(t)'
    BY <2>1, <2>2 DEF SnapshotInv, SnapBelow
  <2>3. ASSUME pc'[t] = pc[t], pc[t] # "prepared" PROVE Replaces(t)'
    BY <2>3 DEF Replaces
  <2>4. ASSUME pc'[t] = pc[t], ops'[t] = ops[t], base'[t] = base[t], reads'[t] = reads[t],
               version'[t] = version[t], floors'[t] = floors[t]
        PROVE  Replaces(t)'
    <3>1. Stale(t)' <=> Stale(t)
      BY <2>4, OpsFrame DEF Stale
    <3> QED
      BY <1>1, <2>4, <3>1, OpsFrame DEF SnapshotInv, Replaces
  <2>5. ASSUME pc'[t] \in {"none", "published", "closed"} PROVE SnapBelow(t)' /\ Replaces(t)'
    BY <2>5 DEF SnapBelow, Replaces
  <2> QED
    BY <2>2, <2>3, <2>4, <2>5
<1> QED
  BY <1>2, <1>3 DEF SnapshotInv

\* A commit is appended: a transaction past validation is stale then, or the
\* heads it replaces have kept their sequences.
LEMMA SnapshotAppend ==
    ASSUME TypeInv, SnapshotInv, NEW c \in CommitType, commits' = Append(commits, c),
           \A k \in Entity : HeadShape(c.db, k),
           UNCHANGED <<sequence, beginVars, bufferVars, commitVars>>,
           \A t \in Tx : pc'[t] = pc[t] \/ pc'[t] = "published",
           \A t \in Tx : pc'[t] = "prepared" =>
               \/ Stale(t)'
               \/ \A k \in Touched(t) : c.db.head[k].seq = Store.head[k].seq,
           PlanFloor'
    PROVE  SnapshotInv'
<1>1. /\ Len(commits) \in Nat /\ Len(commits') = Len(commits) + 1
      /\ \A i \in 1 .. Len(commits) : commits'[i] = commits[i]
      /\ commits'[Len(commits) + 1] = c /\ Store' = c.db
  BY AppendCommit DEF TypeInv
<1>2. HeadShapes'
  <2>1. ASSUME NEW i \in 1 .. Len(commits) + 1, NEW k \in Entity PROVE HeadShape(commits'[i].db, k)
    <3>1. i \in 1 .. Len(commits) \/ i = Len(commits) + 1
      BY <1>1
    <3> QED
      BY <1>1, <3>1 DEF SnapshotInv, HeadShapes
  <2> QED
    BY <1>1, <2>1 DEF HeadShapes, HeadShape
<1>3. UNCHANGED <<snap, base, readSeq, reads, ops, version, floors>>
  BY DEF beginVars, bufferVars, commitVars
<1>4. ASSUME NEW t \in Tx PROVE SnapBelow(t)'
  <2>1. commits'[snap'[t]] = commits[snap[t]]
    BY <1>1, <1>3 DEF TypeInv, BeginTypes
  <2> QED
    BY <1>3, <2>1 DEF SnapshotInv, SnapBelow
<1>5. ASSUME NEW t \in Tx PROVE Replaces(t)'
  <2>1. CASE pc'[t] = "prepared"
    <3>1. pc[t] = "prepared" /\ Touched(t)' = Touched(t) /\ HeadReads(t)' = HeadReads(t)
      BY <1>3, <2>1, OpsFrame
    <3>2. Stale(t) => Stale(t)'
      <4>1. ASSUME NEW i \in base[t] + 1 .. Len(commits)
            PROVE  i \in base'[t] + 1 .. Len(commits') /\ commits'[i] = commits[i]
        BY <1>1, <1>3 DEF TypeInv, BeginTypes
      <4> QED
        BY <1>3, <3>1, <4>1 DEF Stale
    <3> QED
      BY <1>1, <1>3, <2>1, <3>1, <3>2 DEF SnapshotInv, Replaces
  <2>2. CASE pc'[t] # "prepared"
    BY <2>2 DEF Replaces
  <2> QED
    BY <2>1, <2>2
<1> QED
  BY <1>2, <1>4, <1>5 DEF SnapshotInv

\* At first.
LEMMA InitSnapshotInv == LifecycleInit => SnapshotInv
<1> SUFFICES ASSUME LifecycleInit PROVE SnapshotInv
  OBVIOUS
<1>1. (\A t \in Tx : pc[t] = "none") /\ plan = NoPlan
  BY DEF LifecycleInit, Init
<1>2. ASSUME NEW k \in Entity PROVE HeadShape(Store, k)
  <2>1. Store.ver[k] = {}
    BY InitStore
  <2>2. CASE Store.head[k] = NoHead
    BY <2>1, <2>2 DEF HeadShape
  <2>3. CASE Store.head[k] # NoHead
    <3>1. /\ Store.body[k] # None /\ Store.head[k].tomb = FALSE
          /\ Store.head[k].seq = 1 /\ Store.head[k].floor = 1
      BY <2>3, InitStore
    <3>2. Store.head[k].tomb = (Store.body[k] = None)
      BY <3>1, Zenon
    <3>3. Store.head[k].floor <= Store.head[k].seq
      BY <3>1
    <3> QED
      BY <2>1, <3>2, <3>3 DEF HeadShape
  <2> QED
    BY <2>2, <2>3
<1>3. HeadShapes
  <2>0. Len(commits) = 1 /\ Store = commits[1].db
    BY InitStore, Zenon
  <2>1. 1 .. Len(commits) = {1} /\ commits[1].db = Store
    BY <2>0
  <2>2. \A k \in Entity : HeadShape(commits[1].db, k)
    BY <1>2, <2>1
  <2> QED
    BY <2>1, <2>2, Zenon DEF HeadShapes
<1> QED
  BY <1>1, <1>3 DEF SnapshotInv, SnapBelow, Replaces, PlanFloor, Planning

\* What a transaction publishes over older heads has heads of that shape.
LEMMA PublishedShape ==
    ASSUME TypeInv, SnapshotInv, NEW t \in Tx, pc[t] = "prepared", ~Stale(t),
           NEW early \in BOOLEAN, NEW k \in Entity
    PROVE  HeadShape(Published(t, early), k)
<1> DEFINE db == Published(t, early)
           h == Store.head[k]
<1>1. HeadShape(Store, k)
  BY StoreFields DEF SnapshotInv, HeadShapes, TypeInv
<1>2. CASE k \notin Touched(t)
  <2>1. db.head[k] = Store.head[k] /\ db.body[k] = Store.body[k] /\ db.ver[k] = Store.ver[k]
    BY <1>2, PublishedFields
  <2> QED
    BY <1>1, <2>1 DEF HeadShape
<1>3. CASE k \in Touched(t)
  <2>1. /\ db.head[k] = NewHead(t, k, early) /\ db.head[k].seq = version[t]
        /\ db.head[k].tomb = (db.body[k] = None)
        /\ db.ver[k] = Records(t, k)
    BY <1>3, PublishedFields
  <2>2. /\ version[t] \in Nat /\ h.seq \in Nat /\ h.floor \in Nat /\ floors[t][k] \in Nat
        /\ h.seq <= version[t] /\ floors[t][k] <= version[t]
    BY <1>3, SequenceTypes DEF SnapshotInv, Replaces, TypeInv, VersionTypes
  <2>3. h # NoHead => h.floor <= version[t]
    BY <1>1, <2>2 DEF HeadShape
  <2>4. NewHead(t, k, early).floor <= version[t]
    <3>1. NewHead(t, k, early).floor =
             IF Store.head[k] = NoHead THEN version[t]
             ELSE IF early THEN floors[t][k] ELSE Store.head[k].floor
      BY DEF NewHead, HeadRecord
    <3> QED
      BY <2>2, <2>3, <3>1
  <2>5. \A r \in Records(t, k) : r \in Store.ver[k] \/ r.seq = h.seq \/ r.seq = version[t]
    BY DEF Records
  <2>6. \A r \in Store.ver[k] : r.seq \in Nat /\ r.seq <= version[t]
    <3>1. Store.ver[k] \in SUBSET VersionRecord
      BY StoreFields DEF TypeInv
    <3> QED
      BY <1>1, <2>2, <3>1 DEF HeadShape, VersionRecord
  <2>7. \A r \in Records(t, k) : r.seq <= version[t]
    BY <2>2, <2>5, <2>6
  <2> QED
    BY <2>1, <2>4, <2>7 DEF HeadShape
<1> QED
  BY <1>2, <1>3

\* A transaction publishes: whoever shares a key with it is stale now.
LEMMA PublishSnapshotStep ==
    ASSUME TypeInv, CommitInv', SnapshotInv, NEW t \in Tx, Publish(t), ~Stale(t), UNCHANGED plan
    PROVE  SnapshotInv'
<1>1. PICK early \in BOOLEAN, c \in CommitType :
         /\ commits' = Append(commits, c)
         /\ c.db = Published(t, early) /\ c.keys = Written(t)
         /\ pc[t] = "prepared" /\ pc'[t] = "published" /\ \A u \in Tx \ {t} : pc'[u] = pc[u]
         /\ UNCHANGED <<beginVars, bufferVars, commitVars, sequence, persisted>>
  BY PublishCommit
<1>2. \A k \in Entity : HeadShape(c.db, k)
  BY <1>1, PublishedShape
<1>3. /\ Len(commits) \in Nat /\ Len(commits') = Len(commits) + 1 /\ commits'[Len(commits) + 1] = c
  BY <1>1, AppendCommit DEF TypeInv
<1>4. ASSUME NEW u \in Tx, pc'[u] = "prepared", ~Stale(u)', NEW k \in Touched(u)
      PROVE  c.db.head[k].seq = Store.head[k].seq
  <2>1. ops'[u] = ops[u] /\ snap'[u] = snap[u] /\ snap[u] \in 1 .. Len(commits)
    BY <1>1 DEF bufferVars, beginVars, TypeInv, BeginTypes
  <2>2. k \in Touched(u)' /\ k \in Entity
    BY <1>4, <2>1, OpsFrame, TouchedType DEF TypeInv
  <2>3. Checked(u)'
    BY <1>4 DEF CommitInv, TxInv
  <2>4. Len(commits) + 1 \in snap'[u] + 1 .. Len(commits')
    BY <1>3, <2>1
  <2>5. k \notin c.keys
    BY <1>3, <1>4, <2>2, <2>3, <2>4 DEF Checked
  <2>6. k \notin Touched(t)
    BY <1>1, <2>5 DEF Written
  <2> QED
    BY <1>1, <2>2, <2>6, PublishedFields
<1>5. PlanFloor'
  BY DEF SnapshotInv, PlanFloor, Planning
<1> QED
  BY <1>1, <1>2, <1>4, <1>5, SnapshotAppend

\* The pruner keeps the shape: it raises a floor no further than the head.
LEMMA PruneSnapshotStep ==
    ASSUME TypeInv, HeadInv, SnapshotInv, DeleteMVCCVersion \/ WriteMVCCHead
    PROVE  SnapshotInv'
<1>1. PICK c \in CommitType :
         /\ commits' = Append(commits, c)
         /\ c.db.body = Store.body
         /\ \A x \in Entity : c.db.ver[x] \subseteq Store.ver[x]
         /\ DeleteMVCCVersion => c.db.head = Store.head
         /\ WriteMVCCHead => c.db.head = [Store.head EXCEPT ![plan.key] = [plan.head EXCEPT !.floor = plan.floor]]
         /\ plan \in PlanType
         /\ UNCHANGED <<sequence, persisted, pc, beginVars, bufferVars, commitVars>>
  BY WriteCommit
<1>2. /\ plan.key \in Entity /\ plan.head = Store.head[plan.key] /\ plan.head \in HeadType
      /\ plan.floor \in Nat /\ plan.floor <= plan.head.seq
      /\ plan.head # NoHead
  <2>1. plan.fenced /\ Planning
    BY DEF DeleteMVCCVersion, WriteMVCCHead, NoPlan, Planning
  <2> QED
    BY <1>1, <2>1 DEF HeadInv, PlannedHead, PlanType, SnapshotInv, PlanFloor, NoHead
<1>3. ASSUME NEW k \in Entity
      PROVE  HeadShape(c.db, k) /\ c.db.head[k].seq = Store.head[k].seq
  <2>1. HeadShape(Store, k) /\ Store.head \in [Entity -> HeadType]
    BY StoreFields DEF SnapshotInv, HeadShapes, TypeInv
  <2>2. CASE c.db.head[k] = Store.head[k]
    BY <1>1, <2>1, <2>2 DEF HeadShape
  <2>3. CASE WriteMVCCHead /\ k = plan.key
    <3>1. c.db.head[k] = [plan.head EXCEPT !.floor = plan.floor]
      BY <1>1, <2>1, <2>3
    <3>2. /\ c.db.head[k].seq = Store.head[k].seq /\ c.db.head[k].tomb = Store.head[k].tomb
          /\ c.db.head[k].floor = plan.floor
      BY <1>2, <2>3, <3>1 DEF HeadType
    <3> QED
      BY <1>1, <1>2, <2>1, <2>3, <3>2 DEF HeadShape
  <2>4. DeleteMVCCVersion \/ (WriteMVCCHead /\ k # plan.key) => c.db.head[k] = Store.head[k]
    BY <1>1, <2>1
  <2> QED
    BY <2>2, <2>3, <2>4
<1>4. PlanFloor'
  <2>1. CASE WriteMVCCHead
    BY <2>1 DEF WriteMVCCHead, PlanFloor, Planning
  <2>2. CASE DeleteMVCCVersion
    <3>1. plan'.head = plan.head /\ plan'.floor = plan.floor
      BY <1>1, <2>2 DEF DeleteMVCCVersion, PlanType
    <3> QED
      BY <1>2, <3>1 DEF PlanFloor
  <2> QED
    BY <2>1, <2>2
<1>5. \A t \in Tx : Touched(t) \subseteq Entity
  BY TouchedType DEF TypeInv
<1> QED
  BY <1>1, <1>3, <1>4, <1>5, SnapshotAppend

\* Planning: the floor is that of the head, or not above one of its versions.
LEMMA PlanSnapshotStep ==
    ASSUME TypeInv, HeadInv, SnapshotInv, Fence \/ \E k \in Entity : Plan(k)
    PROVE  PlanFloor'
<1>1. CASE Fence
  <2>1. plan \in PlanType /\ plan.floor <= plan.head.seq
    BY <1>1 DEF Fence, TypeInv, PlanTypes, SnapshotInv, PlanFloor, Planning
  <2>2. CASE plan' = NoPlan
    BY <2>2 DEF PlanFloor, Planning
  <2>3. CASE plan' # NoPlan
    <3>1. Store.head[plan.key].seq = plan.head.seq
          /\ plan' = [plan EXCEPT !.fenced = TRUE, !.head = Store.head[plan.key]]
      BY <1>1, <2>3 DEF Fence
    <3>2. plan'.head = Store.head[plan.key] /\ plan'.floor = plan.floor
      BY <2>1, <3>1 DEF PlanType
    <3> QED
      BY <2>1, <3>1, <3>2 DEF PlanFloor
  <2> QED
    BY <2>2, <2>3
<1>2. ASSUME NEW k \in Entity, Plan(k) PROVE PlanFloor'
  <2> DEFINE h == Store.head[k]
             S == {r.seq : r \in Store.ver[k]}
  <2>1. PICK f \in SafeFloors(h, S) : plan' = [key |-> k, head |-> h, floor |-> f,
                                               delete |-> {s \in S : s < f /\ s # h.seq}, fenced |-> FALSE]
    BY <1>2 DEF Plan
  <2>2. S # {} /\ h # NoHead
    BY <1>2 DEF Plan
  <2>3. HeadShape(Store, k) /\ Bounded(Seqs(Store, k)) /\ Store.ver[k] \in SUBSET VersionRecord
    BY StoreFields DEF SnapshotInv, HeadShapes, TypeInv, CommitTypes, BoundedStore
  <2>4. S \in SUBSET Nat /\ Bounded(S) /\ \A s \in S : s <= h.seq
    BY <2>3 DEF VersionRecord, Seqs, HeadShape
  <2>5. h \in HeadType /\ h.seq \in Nat /\ h.floor \in Nat /\ h.floor <= h.seq
    BY <2>2, <2>3, SequenceTypes DEF HeadShape
  <2>6. plan'.floor = f /\ plan'.head = h
    BY <2>1
  <2> HIDE DEF h, S
  <2>7. f \in Nat /\ MaxVersionsBound(S) \in S /\ (f = h.floor \/ f <= MaxVersionsBound(S))
    BY <2>1, <2>2, <2>4, <2>5, SafeFloorType
  <2>8. f <= h.seq
    <3>1. PICK x \in S : f = h.floor \/ f <= x
      BY <2>7
    <3>2. x \in Nat /\ x <= h.seq
      BY <2>4, <3>1
    <3> QED
      BY <2>5, <2>7, <3>1, <3>2
  <2> QED
    BY <2>6, <2>8 DEF PlanFloor
<1> QED
  BY <1>1, <1>2

\* The step of every action.
LEMMA NextSnapshotInv ==
    TypeInv /\ TypeInv' /\ HeadInv /\ CommitInv' /\ SequenceInv /\ SnapshotInv
      /\ [LifecycleNext]_lifecycleVars => SnapshotInv'
<1> SUFFICES ASSUME TypeInv, TypeInv', HeadInv, CommitInv', SequenceInv, SnapshotInv,
                    [LifecycleNext]_lifecycleVars
             PROVE  SnapshotInv'
  OBVIOUS
<1> USE DEF pruneVars, beginVars, commitVars, bufferVars
<1>0. /\ sequence \in Nat /\ pc \in [Tx -> Stages] /\ snap \in [Tx -> 1 .. Len(commits)]
      /\ readSeq \in [Tx -> Nat] /\ version \in [Tx -> Nat]
      /\ \A k \in Entity : Store.head[k].seq \in Nat /\ Store.head[k].seq <= sequence
      /\ Store = commits[Len(commits)].db
  BY SequenceTypes, StoreFields DEF TypeInv, BeginTypes, SequenceInv, SequenceAboveHeads
<1>1. UNCHANGED plan => PlanFloor'
  BY DEF SnapshotInv, PlanFloor, Planning
<1>2. ASSUME NEW t \in Tx, BeginTransaction(t), UNCHANGED plan PROVE SnapshotInv'
  <2>1. /\ UNCHANGED <<commits, sequence, reads, ops, version, floors>>
        /\ \A u \in Tx \ {t} : pc'[u] = pc[u] /\ snap'[u] = snap[u] /\ readSeq'[u] = readSeq[u] /\ base'[u] = base[u]
        /\ pc'[t] # "prepared"
    BY <1>0, <1>2 DEF BeginTransaction, BeginSnapshot, BeginSequence, BeginWriter, TypeInv, BeginTypes
  <2>2. SnapBelow(t)'
    <3>1. CASE BeginSnapshot(t)
      <4>1. pc'[t] = "pinned" /\ snap'[t] = Len(commits)
        BY <1>0, <3>1 DEF BeginSnapshot
      <4> QED
        BY <1>0, <2>1, <4>1 DEF SnapBelow
    <3>2. CASE BeginSequence(t)
      <4>1. pc[t] = "pinned" /\ pc'[t] = "numbered" /\ readSeq'[t] = sequence /\ snap'[t] = snap[t]
        BY <1>0, <3>2 DEF BeginSequence
      <4> QED
        BY <2>1, <4>1 DEF SnapshotInv, SnapBelow
    <3>3. CASE BeginWriter(t)
      <4>1. pc[t] = "numbered" /\ pc'[t] = "active" /\ readSeq'[t] = readSeq[t] /\ snap'[t] = snap[t]
        BY <1>0, <3>3 DEF BeginWriter
      <4> QED
        BY <2>1, <4>1 DEF SnapshotInv, SnapBelow
    <3> QED
      BY <1>2, <3>1, <3>2, <3>3 DEF BeginTransaction
  <2>3. Replaces(t)'
    BY <2>1 DEF Replaces
  <2> QED
    BY <1>0, <1>1, <1>2, <2>1, <2>2, <2>3, SnapshotFrame
<1>3. ASSUME NEW t \in Tx, Operate(t), UNCHANGED plan PROVE SnapshotInv'
  <2>1. UNCHANGED <<commits, version, floors, pc, sequence, snap, base, readSeq>> /\ pc[t] = "active"
    BY <1>3 DEF Operate, CreateNode, UpdateNode, DeleteNode, CreateEdge, UpdateEdge, DeleteEdge, Enrol
  <2>2. (\E op : Log(t, op)) /\ \E S : reads' = [reads EXCEPT ![t] = @ \cup S]
    BY <1>3 DEF Operate, CreateNode, UpdateNode, DeleteNode, CreateEdge, UpdateEdge, DeleteEdge, Enrol
  <2>3. \A u \in Tx \ {t} : ops'[u] = ops[u] /\ reads'[u] = reads[u]
    BY <2>2 DEF Log, TypeInv, BufferTypes
  <2> QED
    BY <1>0, <1>1, <1>3, <2>1, <2>3, SnapshotFrame
<1>4. ASSUME NEW t \in Tx, Quit(t), UNCHANGED <<commits, sequence, plan>> PROVE SnapshotInv'
  <2>1. /\ pc'[t] = "closed"
        /\ \A u \in Tx \ {t} : /\ pc'[u] = pc[u] /\ snap'[u] = snap[u] /\ readSeq'[u] = readSeq[u]
                               /\ ops'[u] = ops[u] /\ base'[u] = base[u] /\ reads'[u] = reads[u]
                               /\ version'[u] = version[u] /\ floors'[u] = floors[u]
    BY <1>0, <1>4 DEF Quit, Close
  <2> QED
    BY <1>0, <1>1, <1>4, <2>1, SnapshotFrame
<1>5. ASSUME NEW t \in Tx, Prepare(t), UNCHANGED plan PROVE SnapshotInv'
  <2>1. CASE ~Valid(t)
    BY <1>4, <1>5, <2>1 DEF Prepare
  <2>2. CASE Valid(t)
    <3>1. /\ version' = [version EXCEPT ![t] = sequence + 1] /\ sequence' = sequence + 1
          /\ floors' = [floors EXCEPT ![t] = [k \in Entity |-> IF k \in Touched(t) THEN Store.head[k].floor ELSE 0]]
          /\ UNCHANGED <<commits, ops, reads, snap, base, readSeq>>
          /\ pc' = [pc EXCEPT ![t] = "prepared"] /\ pc[t] = "active"
      BY <1>5, <2>2 DEF Prepare
    <3>2. /\ pc'[t] = "prepared" /\ version'[t] = sequence + 1
          /\ \A k \in Entity : floors'[t][k] \in {0, Store.head[k].floor}
          /\ \A u \in Tx \ {t} : pc'[u] = pc[u] /\ version'[u] = version[u] /\ floors'[u] = floors[u]
      BY <1>0, <3>1 DEF TypeInv, VersionTypes
    <3>3. ASSUME NEW k \in Entity
          PROVE  Store.head[k].floor \in Nat /\ Store.head[k].floor <= sequence
      <4>1. HeadShape(Store, k) /\ Store.head[k].floor \in Nat
        BY SequenceTypes, StoreFields DEF SnapshotInv, HeadShapes, TypeInv
      <4>2. Store.head[k] = NoHead => Store.head[k].floor = 0
        BY DEF NoHead
      <4>3. Store.head[k] # NoHead => Store.head[k].floor <= Store.head[k].seq
        BY <4>1 DEF HeadShape
      <4> QED
        BY <1>0, <4>1, <4>2, <4>3
    <3>4. Store' = Store /\ Touched(t)' = Touched(t) /\ Touched(t) \subseteq Entity
      BY <3>1, OpsFrame, TouchedType DEF Store, Latest, TypeInv
    <3>5. Replaces(t)' /\ SnapBelow(t)'
      <4>1. \A k \in Entity : Store'.head[k].seq <= version'[t]
        BY <1>0, <3>2, <3>4
      <4>2. ASSUME NEW k \in Entity PROVE floors'[t][k] <= version'[t]
        <5>1. floors'[t][k] = 0 \/ floors'[t][k] = Store.head[k].floor
          BY <3>2
        <5> QED
          BY <1>0, <3>2, <3>3, <5>1
      <4> QED
        BY <3>2, <3>4, <4>1, <4>2 DEF Replaces, SnapBelow
    <3> QED
      BY <1>0, <1>1, <1>5, <3>1, <3>2, <3>5, SnapshotFrame
  <2> QED
    BY <2>1, <2>2
<1>6. ASSUME NEW t \in Tx, PublishBesidePrune(t) PROVE SnapshotInv'
  <2>1. CASE Stale(t)
    BY <1>4, <1>6, <2>1 DEF PublishBesidePrune, Publish
  <2>2. CASE ~Stale(t)
    BY <1>6, <2>2, PublishSnapshotStep DEF PublishBesidePrune
  <2> QED
    BY <2>1, <2>2
<1>7. ASSUME NEW t \in Tx, PersistSequence(t) \/ Rollback(t), UNCHANGED plan PROVE SnapshotInv'
  <2>1. Quit(t) /\ UNCHANGED <<commits, sequence>>
    BY <1>7 DEF PersistSequence, Rollback, Quit
  <2> QED
    BY <1>4, <1>7, <2>1
<1>8. ASSUME Crash, plan' = NoPlan PROVE SnapshotInv'
  <2>1. UNCHANGED commits /\ \A t \in Tx : pc'[t] \in {"none", "closed"}
    BY <1>8 DEF Crash
  <2>2. HeadShapes' /\ PlanFloor'
    BY <1>8, <2>1 DEF SnapshotInv, HeadShapes, HeadShape, PlanFloor, Planning
  <2> QED
    BY <2>1, <2>2 DEF SnapshotInv, SnapBelow, Replaces
<1>9. CASE Fence \/ (\E k \in Entity : Plan(k)) \/ UNCHANGED lifecycleVars
  <2>1. UNCHANGED vars
    BY <1>9 DEF Fence, Plan, lifecycleVars
  <2>2. PlanFloor'
    BY <1>1, <1>9, PlanSnapshotStep DEF lifecycleVars
  <2> QED
    BY <1>0, <2>1, <2>2, SnapshotFrame DEF vars
<1> QED
  BY <1>2, <1>3, <1>5, <1>6, <1>7, <1>8, <1>9, PruneSnapshotStep DEF LifecycleNext

\* BeginTransaction pins the snapshot first and takes the sequence a step later:
\* whatever commits, is pruned or restarts in between, the sequence hides none
\* of the snapshot from the transaction.
THEOREM SnapshotsAreWhole ==
    ASSUME "late" \notin Hazards, "crash" \notin Hazards, "fence" \notin Hazards, "blind" \notin Hazards
    PROVE  LifecycleSpec => []SnapshotIsWhole
<1>1. LifecycleSpec => []HeadInv
  BY InitHeadInv, NextHeadInv, TypeInvAlways, PTL DEF LifecycleSpec
<1>2. LifecycleSpec => []CommitInv
  BY InitCommitInv, NextCommitInv, TypeInvAlways, PTL DEF LifecycleSpec
<1>3. LifecycleSpec => []SequenceInv
  BY <1>1, InitSequenceInv, NextSequenceInv, TypeInvAlways, PTL DEF LifecycleSpec
<1>4. LifecycleSpec => []SnapshotInv
  BY <1>1, <1>2, <1>3, InitSnapshotInv, NextSnapshotInv, TypeInvAlways, PTL DEF LifecycleSpec
<1> QED
  BY <1>4, WholeSnapshot, TypeInvAlways, PTL
=============================================================================
