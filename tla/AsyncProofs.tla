----------------------------- MODULE AsyncProofs -----------------------------
(***************************************************************************)
(* The write-behind engine for every set of nodes and edges and every      *)
(* bound: its types; that a reader sees the last write, whatever flush is  *)
(* under way; and that a flush takes nothing back that a transaction has   *)
(* committed.                                                              *)
(***************************************************************************)
EXTENDS AsyncEngine, FiniteSetTheorems, TLAPS

-----------------------------------------------------------------------------
(***************************************************************************)
(* Types, and where a flush is, whatever may happen.                       *)
(***************************************************************************)
\* A content that was written so far; one that is not Absent has a p.
Written == [p : 1 .. ops + 1, q : 0 .. commits + 1]
Contents == Written \cup {Absent}

CallType ==
    {Nobody} \cup [op : {"update"}, node : Node, q : 0 .. commits + 1, base : Contents]
             \cup [op : {"delete"}, node : Node]

CacheTypes ==
    /\ cache \in [Item -> Contents] /\ engine \in [Item -> Contents]
    /\ deletes \in SUBSET Item
    /\ baseline \in [Node -> SUBSET Contents]
    /\ \A n \in Node : baseline[n] = {} \/ (cache[n] # Absent /\ \E b \in Contents : baseline[n] = {b})
    /\ call \in CallType

FlushTypes ==
    /\ flush \in {"idle", "deleteNodes", "deleteEdges", "writeNodes", "clear"}
    /\ toWrite \in [Item -> Contents] /\ toDelete \in SUBSET Item
    /\ bases \in [Node -> Contents] /\ candidate \in [Node -> Contents]
    /\ tried \in SUBSET Item /\ done \in SUBSET Item /\ gone \in SUBSET Item /\ replaced \in SUBSET Item

HistoryTypes ==
    /\ last \in [Item -> 0 .. ops + 1] /\ loose \in SUBSET Edge
    /\ ops \in 0 .. MaxOps /\ commits \in 0 .. MaxCommits

\* What is written was taken by the snapshot and is not deleted by it; what is
\* gone is gone until the flush ends.
PhaseInv ==
    /\ flush = "idle" => (\A x \in Item : ~InFlight(x)) /\ toDelete = {}
    /\ \A n \in Node : candidate[n] # Absent => flush = "writeNodes" /\ n \in NodesLeft
    /\ \A x \in done : InFlight(x) /\ x \notin toDelete /\ (x \in Node => x \in tried)
    /\ flush \in {"idle", "deleteNodes", "deleteEdges"} => done = {} /\ tried = {}
    /\ \A x \in gone : x \in toDelete /\ engine[x] = Absent

TypeInv == CacheTypes /\ FlushTypes /\ HistoryTypes /\ PhaseInv

-----------------------------------------------------------------------------
(***************************************************************************)
(* What hides the engine from a reader.                                    *)
(***************************************************************************)
Hidden(x) == x \in deletes \/ cache[x] # Absent \/ engine[x] = Absent

\* An item is queued or marked, not both; one in flight is; one that is being
\* deleted is not in flight, and not read from the engine; and the object in
\* the cache is that of the snapshot unless it was replaced.
HideInv ==
    \A x \in Item :
        /\ x \in deletes => cache[x] = Absent
        /\ InFlight(x) => x \in deletes \/ cache[x] # Absent
        /\ x \in toDelete => Hidden(x) /\ ~InFlight(x)
        /\ InFlight(x) /\ x \notin replaced => cache[x] \in {Absent, toWrite[x]}

-----------------------------------------------------------------------------
(***************************************************************************)
(* What a reader sees.                                                     *)
(***************************************************************************)
\* Edges of a node that is marked as deleted, or being deleted.
LooseInv ==
    \A e \in Edge : \A n \in Ends[e] :
        /\ n \in deletes => e \in loose \/ last[e] = 0
        /\ flush = "deleteNodes" /\ n \in toDelete => e \in loose \/ Hidden(e)

\* The flush writes the p it has taken.
WriteInv ==
    /\ \A x \in done : engine[x].p = toWrite[x].p
    /\ \A n \in Node : candidate[n] # Absent => candidate[n].p = toWrite[n].p

\* An update back to the baseline's p, which the merge takes for no change: the
\* engine has that p.
BackInv ==
    \A n \in Node :
        /\ \A b \in baseline[n] : b # Absent /\ cache[n].p = b.p =>
              /\ engine[n] = Absent \/ engine[n].p = b.p
              /\ InFlight(n) => n \notin replaced
        /\ InFlight(n) /\ n \notin tried /\ bases[n] # Absent /\ toWrite[n].p = bases[n].p =>
              engine[n] = Absent \/ engine[n].p = toWrite[n].p

ViewInv == ViewIsLast /\ LooseInv /\ WriteInv /\ BackInv

-----------------------------------------------------------------------------
(***************************************************************************)
(* What transactions have committed.                                       *)
(***************************************************************************)
Same(q, r) == q = 0 \/ r = 0 \/ q = r

Updating(n) == call.op = "update" /\ call.node = n
Underway(n) == InFlight(n) /\ n \notin tried

\* An update with a baseline carries the baseline's q.
BaseInv ==
    /\ \A n \in Node : \A b \in baseline[n] :
          b # Absent => cache[n].q = b.q /\ (Updating(n) => call.q = b.q)
    /\ call.op = "update" /\ call.base # Absent => call.q = call.base.q
    /\ \A n \in Node : bases[n] # Absent /\ InFlight(n) => toWrite[n].q = bases[n].q

\* One without carries the engine's q, or none.
UnbasedInv ==
    \A n \in Node :
        /\ cache[n] # Absent /\ baseline[n] \subseteq {Absent} => Same(engine[n].q, cache[n].q)
        /\ Underway(n) /\ bases[n] = Absent => Same(engine[n].q, toWrite[n].q)
        /\ candidate[n] # Absent => /\ Same(engine[n].q, candidate[n].q)
                                    /\ candidate[n].q \in {toWrite[n].q, engine[n].q}

\* As long as the engine has none, there is one at most.
NoneInv ==
    \A n \in Node :
        /\ engine[n].q = 0 /\ Underway(n) => Same(cache[n].q, toWrite[n].q)
        /\ (engine[n] = Absent \/ n \in toDelete) /\ Updating(n) =>
              Same(call.q, cache[n].q) /\ (Underway(n) => Same(call.q, toWrite[n].q))

CommitInv == BaseInv /\ UnbasedInv /\ NoneInv

-----------------------------------------------------------------------------
(***************************************************************************)
(* The kinds of steps.                                                     *)
(***************************************************************************)
\* A write through the caches: content c is queued for x or, if c is Absent, x
\* is deleted.
Queue(x, c) ==
    /\ Record(x, c.p)
    /\ cache' = [cache EXCEPT ![x] = c]
    /\ deletes' \in SUBSET Item /\ \A y \in Item \ {x} : y \in deletes' <=> y \in deletes
    /\ baseline' \in [Node -> SUBSET Contents] /\ \A n \in Node \ {x} : baseline'[n] = baseline[n]
    /\ x \in Node => baseline'[x] = {} \/ (c # Absent /\ \E b \in Contents : baseline'[x] = {b})
    /\ call' \in {call, Nobody}
    /\ replaced' = IF c = Absent THEN replaced ELSE replaced \cup {x}
    /\ UNCHANGED <<engine, flushVars, commits>>

\* What its guards say.
Guarded(x, c) ==
    /\ c # Absent => "revive" \in Hazards \/ x \notin deletes'
    /\ c = Absent => "drop" \in Hazards \/ x \in deletes' \/ (~InFlight(x) /\ engine[x] = Absent)
    /\ c # Absent /\ x \in Edge => \A n \in Ends[x] : View(n) # Absent
    /\ x \in Node => \A b \in baseline'[x] :
          c.p = b.p => "back" \in Hazards \/ (engine[x].p = b.p /\ ~InFlight(x))

\* A step of a call that changes nothing else.
CallOnly ==
    call' \in CallType /\ UNCHANGED <<cacheVars, engine, flushVars, replaced, historyVars, commits, errors>>

\* The sets of items and contents.
LEMMA Facts ==
    ASSUME TypeInv
    PROVE  /\ Node \subseteq Item /\ Edge \subseteq Item /\ Node \cap Edge = {}
           /\ \A e \in Edge : Ends[e] \subseteq Node
           /\ ops \in Nat /\ commits \in Nat /\ MaxOps \in Nat /\ MaxCommits \in Nat
           /\ Absent \in Contents /\ Absent.p = 0 /\ Absent.q = 0
           /\ \A c \in Contents : /\ c.p \in 0 .. ops + 1 /\ c.q \in 0 .. commits + 1
                                  /\ c # Absent => c.p >= 1 /\ c \in Written
           /\ \A p \in 1 .. ops + 1, q \in 0 .. commits + 1 : [p |-> p, q |-> q] \in Written
<1>1. ops \in Nat /\ commits \in Nat /\ MaxOps \in Nat /\ MaxCommits \in Nat
  BY AsyncAssumption DEF TypeInv, HistoryTypes
<1>2. Absent.p = 0 /\ Absent.q = 0
  BY DEF Absent
<1>3. ASSUME NEW c \in Written PROVE c.p \in 1 .. ops + 1 /\ c.q \in 0 .. commits + 1
  BY DEF Written
<1>4. \A c \in Contents : /\ c.p \in 0 .. ops + 1 /\ c.q \in 0 .. commits + 1
                          /\ c # Absent => c.p >= 1 /\ c \in Written
  BY <1>1, <1>2, <1>3 DEF Contents
<1> QED
  BY <1>1, <1>2, <1>4, AsyncAssumption DEF Item, Contents, Written

\* Contents stay contents.
LEMMA ContentsGrow ==
    ASSUME TypeInv, ops' \in Nat, ops' >= ops, commits' \in Nat, commits' >= commits
    PROVE  Contents \subseteq Contents' /\ CallType \subseteq CallType'
<1>1. Contents \subseteq Contents'
  <2>1. 1 .. ops + 1 \subseteq 1 .. ops' + 1 /\ 0 .. commits + 1 \subseteq 0 .. commits' + 1
    BY Facts
  <2> QED
    BY <2>1 DEF Contents, Written
<1>2. 0 .. commits + 1 \subseteq 0 .. commits' + 1
  BY Facts
<1> QED
  BY <1>1, <1>2 DEF CallType

\* What a reader sees is a content.
LEMMA ViewType ==
    ASSUME TypeInv, NEW x \in Item
    PROVE  View(x) \in Contents /\ cache[x] \in Contents /\ engine[x] \in Contents
BY Facts DEF TypeInv, CacheTypes, View

\* The record of a write, counted.
LEMMA RecordFields ==
    ASSUME TypeInv, NEW x \in Item, NEW v, Record(x, v)
    PROVE  /\ ops' = ops + 1 /\ ops < MaxOps /\ Fresh = ops' + 1
           /\ last' = [last EXCEPT ![x] = v]
BY Facts DEF Record, Fresh

\* A content of the number that is free.
LEMMA NewContent ==
    ASSUME TypeInv, ops' = ops + 1, commits' = commits, NEW v \in 1 .. Fresh, NEW q \in 0 .. commits + 1
    PROVE  /\ [p |-> v, q |-> q] \in Contents' /\ [p |-> v, q |-> q] # Absent
           /\ [p |-> v, q |-> q].p = v /\ [p |-> v, q |-> q].q = q
<1>1. v \in 1 .. ops' + 1 /\ q \in 0 .. commits' + 1
  BY Facts DEF Fresh
<1>2. [p |-> v, q |-> q] \in Contents'
  BY <1>1 DEF Contents, Written
<1>3. [p |-> v, q |-> q].p = v /\ [p |-> v, q |-> q].q = q
  OBVIOUS
<1>4. v # 0
  OBVIOUS
<1> QED
  BY <1>2, <1>3, <1>4, Facts

\* Every step of the caches is one of these.
LEMMA CacheSteps ==
    ASSUME TypeInv,
           \/ \E n \in Node : CreateNode(n) \/ BeginUpdate(n) \/ UpdateNodeEmbedding(n) \/ DeleteNode(n)
           \/ \E v \in 1 .. Fresh : FinishUpdate(v)
           \/ FinishDelete
           \/ \E e \in Edge : CreateEdge(e) \/ UpdateEdge(e) \/ DeleteEdge(e)
           \/ \E x \in Item : BulkDelete(x)
    PROVE  CallOnly \/ \E x \in Item : \E c \in Contents' : Queue(x, c) /\ Guarded(x, c)
<1> USE DEF cacheVars
<1>0. /\ cache \in [Item -> Contents] /\ deletes \in SUBSET Item
      /\ baseline \in [Node -> SUBSET Contents]
      /\ \A n \in Node : baseline[n] = {} \/ (cache[n] # Absent /\ \E b \in Contents : baseline[n] = {b})
  BY DEF TypeInv, CacheTypes
<1>1. ASSUME NEW n \in Node, CreateNode(n)
      PROVE  \E x \in Item : \E c \in Contents' : Queue(x, c) /\ Guarded(x, c)
  <2> DEFINE c == [p |-> Fresh, q |-> 0]
  <2>1. ops' = ops + 1 /\ commits' = commits /\ Fresh \in 1 .. Fresh /\ 0 \in 0 .. commits + 1 /\ n \in Item
    BY <1>1, Facts DEF CreateNode, Record, Fresh
  <2>2. c \in Contents' /\ c # Absent /\ c.p = Fresh
    BY <2>1, NewContent
  <2> HIDE DEF c
  <2>3. Record(n, c.p) /\ Put(n, c)
    BY <1>1, <2>2 DEF CreateNode, c
  <2>4. Queue(n, c)
    BY <1>0, <1>1, <2>1, <2>2, <2>3 DEF CreateNode, Queue, Put
  <2>5. Guarded(n, c)
    BY <1>0, <1>1, <2>2, Facts DEF CreateNode, Guarded
  <2> QED
    BY <2>1, <2>2, <2>4, <2>5
<1>2. ASSUME NEW n \in Node, BeginUpdate(n)
      PROVE  CallOnly
  <2>1. View(n).q \in 0 .. commits + 1 /\ engine[n] \in Contents /\ Absent \in Contents
    BY Facts, ViewType
  <2>2. call' \in CallType
    BY <1>2, <2>1 DEF BeginUpdate, CallType
  <2> QED
    BY <1>2, <2>2 DEF BeginUpdate, CallOnly
<1>3. ASSUME NEW n \in Node, UpdateNodeEmbedding(n)
      PROVE  \E x \in Item : \E c \in Contents' : Queue(x, c) /\ Guarded(x, c)
  <2> DEFINE c == [p |-> Fresh, q |-> View(n).q]
  <2>1. /\ ops' = ops + 1 /\ commits' = commits /\ Fresh \in 1 .. Fresh /\ n \in Item
        /\ View(n).q \in 0 .. commits + 1
    BY <1>3, Facts, ViewType DEF UpdateNodeEmbedding, Record, Fresh
  <2>2. c \in Contents' /\ c # Absent /\ c.p = Fresh
    BY <2>1, NewContent
  <2> HIDE DEF c
  <2>3. Record(n, c.p) /\ Put(n, c)
    BY <1>3, <2>2 DEF UpdateNodeEmbedding, c
  <2>4. Queue(n, c)
    BY <1>0, <1>3, <2>1, <2>2, <2>3 DEF UpdateNodeEmbedding, Queue, Put
  <2>5. \A b \in baseline'[n] : c.p # b.p
    <3>1. \A b \in Contents : b.p \in Int /\ b.p < Fresh
      BY Facts DEF Fresh
    <3> QED
      BY <1>0, <1>3, <2>2, <3>1 DEF UpdateNodeEmbedding
  <2>6. Guarded(n, c)
    BY <1>3, <2>2, <2>5, Facts DEF UpdateNodeEmbedding, Guarded
  <2> QED
    BY <2>1, <2>2, <2>4, <2>6
<1>4. ASSUME NEW v \in 1 .. Fresh, FinishUpdate(v)
      PROVE  \E x \in Item : \E c \in Contents' : Queue(x, c) /\ Guarded(x, c)
  <2> DEFINE n == call.node
             c == [p |-> v, q |-> call.q]
             base == IF baseline[n] = {} /\ cache[n] = Absent THEN {call.base} ELSE baseline[n]
  <2>1. n \in Node /\ n \in Item /\ call.q \in 0 .. commits + 1 /\ call.base \in Contents
    BY <1>4, Facts DEF FinishUpdate, TypeInv, CacheTypes, CallType, Nobody
  <2>2. ops' = ops + 1 /\ commits' = commits
    BY <1>4 DEF FinishUpdate, Record
  <2>3. c \in Contents' /\ c # Absent /\ c.p = v
    BY <2>1, <2>2, NewContent
  <2>4. /\ Record(n, c.p) /\ Put(n, c) /\ baseline' = [baseline EXCEPT ![n] = base]
        /\ call' = Nobody /\ UNCHANGED <<deletes, engine, flushVars, commits>>
        /\ "revive" \in Hazards \/ n \notin deletes
    BY <1>4, <2>3 DEF FinishUpdate
  <2>5. base \in SUBSET Contents /\ \E b \in Contents : base = {} \/ base = {b}
    BY <1>0, <2>1
  <2>6. ASSUME NEW b \in base, v = b.p PROVE "back" \in Hazards \/ (engine[n].p = b.p /\ ~InFlight(n))
    <3>1. b \in Contents /\ b.p # Fresh
      BY <2>5, Facts DEF Fresh
    <3>2. \E d \in baseline[n] : v = d.p
      BY <1>4, <2>6, <3>1 DEF FinishUpdate
    <3>3. "back" \in Hazards \/ (~InFlight(n) /\ engine[n].p = v)
      BY <1>4, <3>2 DEF FinishUpdate
    <3> QED
      BY <2>6, <3>3
  <2> HIDE DEF n, c, base
  <2>7. baseline' \in [Node -> SUBSET Contents] /\ baseline'[n] = base /\ \A m \in Node \ {n} : baseline'[m] = baseline[m]
    BY <1>0, <2>1, <2>4, <2>5
  <2>8. Queue(n, c)
    BY <1>0, <2>1, <2>3, <2>4, <2>5, <2>7 DEF Queue, Put
  <2>9. Guarded(n, c)
    BY <2>1, <2>3, <2>4, <2>6, <2>7, Facts DEF Guarded
  <2> QED
    BY <2>1, <2>3, <2>8, <2>9
\* An item leaves the cache.
<1>5. ASSUME NEW x \in Item, Record(x, 0), cache' = [cache EXCEPT ![x] = Absent],
             deletes' \in {deletes, deletes \cup {x}}, call' \in {call, Nobody},
             x \in Node => baseline' = [baseline EXCEPT ![x] = {}], x \notin Node => baseline' = baseline,
             UNCHANGED <<engine, flushVars, replaced, commits>>,
             "drop" \in Hazards \/ x \in deletes' \/ (~InFlight(x) /\ engine[x] = Absent)
      PROVE  \E y \in Item : \E c \in Contents' : Queue(y, c) /\ Guarded(y, c)
  <2>1. Absent \in Contents' /\ Absent.p = 0
    BY Facts DEF Contents
  <2>2. Queue(x, Absent)
    BY <1>0, <1>5, <2>1 DEF Queue
  <2>3. Guarded(x, Absent)
    BY <1>0, <1>5, <2>1 DEF Guarded
  <2> QED
    BY <2>1, <2>2, <2>3
<1>6. ASSUME NEW x \in Item, cache[x] = Absent PROVE cache = [cache EXCEPT ![x] = Absent]
  BY <1>0, <1>6
<1>7. ASSUME NEW n \in Node, DeleteNode(n)
      PROVE  CallOnly \/ \E x \in Item : \E c \in Contents' : Queue(x, c) /\ Guarded(x, c)
  <2>1. CASE DropQueued(n) /\ Record(n, 0) /\ baseline' = [baseline EXCEPT ![n] = {}] /\ UNCHANGED call
    <3>1. n \in Item
      BY Facts
    <3>2. /\ cache' = [cache EXCEPT ![n] = Absent] /\ deletes' \in {deletes, deletes \cup {n}}
          /\ "drop" \in Hazards \/ n \in deletes' \/ (~InFlight(n) /\ engine[n] = Absent)
      BY <2>1 DEF DropQueued
    <3>3. UNCHANGED <<engine, flushVars, replaced, commits>>
      BY <1>7 DEF DeleteNode
    <3> QED
      BY <1>5, <2>1, <3>1, <3>2, <3>3
  <2>2. CASE call' = [op |-> "delete", node |-> n] /\ UNCHANGED <<cacheVars, historyVars>>
    BY <1>7, <2>2 DEF DeleteNode, CallOnly, CallType
  <2> QED
    BY <1>7, <2>1, <2>2 DEF DeleteNode
<1>8. ASSUME FinishDelete
      PROVE  CallOnly \/ \E x \in Item : \E c \in Contents' : Queue(x, c) /\ Guarded(x, c)
  <2> DEFINE n == call.node
  <2>1. n \in Node /\ n \in Item
    BY <1>8, Facts DEF FinishDelete, TypeInv, CacheTypes, CallType, Nobody
  <2>2. call' = Nobody /\ UNCHANGED <<engine, flushVars, replaced, commits, errors>>
    BY <1>8 DEF FinishDelete
  <2>3. CASE n \in deletes /\ UNCHANGED <<cacheVars, historyVars>>
    BY <2>2, <2>3 DEF CallOnly, CallType
  <2>4. CASE DropQueued(n) /\ baseline' = [baseline EXCEPT ![n] = {}] /\ Record(n, 0)
    <3>2. /\ cache' = [cache EXCEPT ![n] = Absent] /\ deletes' \in {deletes, deletes \cup {n}}
          /\ "drop" \in Hazards \/ n \in deletes' \/ (~InFlight(n) /\ engine[n] = Absent)
      BY <2>4 DEF DropQueued
    <3> QED
      BY <1>5, <2>1, <2>2, <2>4, <3>2
  <2>5. CASE cache[n] = Absent /\ deletes' = deletes \cup {n} /\ Record(n, 0) /\ UNCHANGED <<cache, baseline>>
    <3>1. baseline[n] = {}
      BY <1>0, <2>1, <2>5
    <3>2. cache' = [cache EXCEPT ![n] = Absent] /\ baseline' = [baseline EXCEPT ![n] = {}]
      BY <1>0, <1>6, <2>1, <2>5, <3>1
    <3> QED
      BY <1>5, <2>1, <2>2, <2>5, <3>2
  <2> QED
    BY <1>8, <2>3, <2>4, <2>5 DEF FinishDelete
<1>9. ASSUME NEW x \in Item, BulkDelete(x)
      PROVE  \E y \in Item : \E c \in Contents' : Queue(y, c) /\ Guarded(y, c)
  <2>1. /\ Record(x, 0) /\ cache' = [cache EXCEPT ![x] = Absent] /\ deletes' = deletes \cup {x}
        /\ x \in Node => baseline' = [baseline EXCEPT ![x] = {}]
        /\ x \notin Node => baseline' = baseline
        /\ call' \in {call, Nobody} /\ UNCHANGED <<engine, flushVars, replaced, commits>>
    BY <1>9 DEF BulkDelete
  <2>2. x \in deletes' /\ deletes' \in {deletes, deletes \cup {x}}
    BY <2>1
  <2> QED
    BY <1>5, <2>1, <2>2
<1>10. ASSUME NEW e \in Edge, CreateEdge(e) \/ UpdateEdge(e)
       PROVE  \E x \in Item : \E c \in Contents' : Queue(x, c) /\ Guarded(x, c)
  <2> DEFINE c == [p |-> Fresh, q |-> 0]
  <2>1. ops' = ops + 1 /\ commits' = commits /\ Fresh \in 1 .. Fresh /\ 0 \in 0 .. commits + 1
    BY <1>10, Facts DEF CreateEdge, UpdateEdge, Record, Fresh
  <2>2. c \in Contents' /\ c # Absent /\ c.p = Fresh
    BY <2>1, NewContent
  <2> HIDE DEF c
  <2>3. /\ Record(e, c.p) /\ Put(e, c) /\ deletes' \in {deletes, deletes \ {e}}
        /\ "revive" \in Hazards \/ e \notin deletes'
        /\ UNCHANGED <<baseline, call, engine, flushVars, commits>>
        /\ \A n \in Ends[e] : View(n) # Absent
    BY <1>10, <2>2 DEF CreateEdge, UpdateEdge, c
  <2>4. e \in Item /\ e \notin Node
    BY Facts
  <2>5. Queue(e, c)
    BY <1>0, <2>2, <2>3, <2>4 DEF Queue, Put
  <2>6. Guarded(e, c)
    BY <2>2, <2>3, <2>4 DEF Guarded
  <2> QED
    BY <2>2, <2>4, <2>5, <2>6
<1>11. ASSUME NEW e \in Edge, DeleteEdge(e)
       PROVE  \E x \in Item : \E c \in Contents' : Queue(x, c) /\ Guarded(x, c)
  <2>1. e \in Item /\ e \notin Node
    BY Facts
  <2>2. Record(e, 0) /\ UNCHANGED <<baseline, call, engine, flushVars, replaced, commits>>
    BY <1>11 DEF DeleteEdge
  <2>3. /\ cache' = [cache EXCEPT ![e] = Absent] /\ deletes' \in {deletes, deletes \cup {e}}
        /\ "drop" \in Hazards \/ e \in deletes' \/ (~InFlight(e) /\ engine[e] = Absent)
    BY <1>6, <1>11, <2>1 DEF DeleteEdge, DropQueued
  <2> QED
    BY <1>5, <2>1, <2>2, <2>3
<1> QED
  BY <1>1, <1>2, <1>3, <1>4, <1>7, <1>8, <1>9, <1>10, <1>11

-----------------------------------------------------------------------------
(***************************************************************************)
(* Types.                                                                  *)
(***************************************************************************)
\* The type invariant is part of TypeInv.
LEMMA TypeInvImplies == TypeInv => TypeOK
<1> SUFFICES ASSUME TypeInv PROVE TypeOK
  OBVIOUS
<1> DEFINE C == [p : 0 .. (MaxOps + 1), q : 0 .. (MaxCommits + 1)]
<1>1. Contents \subseteq C
  <2>1. 0 .. ops + 1 \subseteq 0 .. (MaxOps + 1) /\ 0 .. commits + 1 \subseteq 0 .. (MaxCommits + 1)
    BY Facts DEF TypeInv, HistoryTypes
  <2>2. Written \subseteq C
    BY <2>1 DEF Written
  <2>3. Absent \in C
    BY Facts DEF Absent
  <2> QED
    BY <2>2, <2>3 DEF Contents
<1>2. /\ cache \in [Item -> C] /\ engine \in [Item -> C] /\ toWrite \in [Item -> C]
      /\ bases \in [Node -> C] /\ candidate \in [Node -> C]
  BY <1>1 DEF TypeInv, CacheTypes, FlushTypes
<1>3. ASSUME NEW n \in Node, baseline[n] # {}
      PROVE  cache[n] # Absent /\ baseline[n] \subseteq C /\ Cardinality(baseline[n]) = 1
  <2>1. PICK b \in Contents : cache[n] # Absent /\ baseline[n] = {b}
    BY <1>3 DEF TypeInv, CacheTypes
  <2> QED
    BY <1>1, <2>1, FS_Singleton
<1>4. /\ deletes \subseteq Item /\ toDelete \subseteq Item
      /\ flush \in {"idle", "deleteNodes", "deleteEdges", "writeNodes", "clear"}
      /\ tried \cup done \cup gone \cup replaced \cup loose \subseteq Item
  BY Facts DEF TypeInv, CacheTypes, FlushTypes, HistoryTypes
<1> HIDE DEF C
<1>5. \A f \in {cache, engine, toWrite} : f \in [Item -> C]
  BY <1>2
<1> QED
  BY <1>2, <1>3, <1>4, <1>5 DEF TypeOK, C

\* At first.
LEMMA InitTypeInv == Init => TypeInv
<1> SUFFICES ASSUME Init PROVE TypeInv
  OBVIOUS
<1> USE DEF Init
<1>1. ops = 0 /\ commits = 0 /\ ops \in 0 .. MaxOps /\ commits \in 0 .. MaxCommits
  BY AsyncAssumption
<1>2. [p |-> 1, q |-> 1] \in Contents /\ Absent \in Contents /\ Absent.p = 0 /\ [p |-> 1, q |-> 1].p = 1
  BY <1>1 DEF Contents, Written, Absent
<1>3. engine \in [Item -> Contents] /\ \A x \in Item : engine[x].p \in 0 .. ops + 1
  BY <1>1, <1>2
<1>4. CacheTypes
  BY <1>2, <1>3 DEF CacheTypes, CallType
<1>5. FlushTypes
  BY <1>2 DEF FlushTypes
<1>6. HistoryTypes
  BY <1>1, <1>3 DEF HistoryTypes
<1>7. PhaseInv
  BY <1>2 DEF PhaseInv, InFlight
<1> QED
  BY <1>4, <1>5, <1>6, <1>7 DEF TypeInv

\* The parts of a flush, while only the caches and the counters change.
LEMMA FlushFrame ==
    ASSUME TypeInv, UNCHANGED <<engine, flushVars>>, Contents \subseteq Contents', replaced' \in SUBSET Item
    PROVE  FlushTypes' /\ PhaseInv' /\ engine' \in [Item -> Contents']
<1>1. FlushTypes'
  BY DEF TypeInv, FlushTypes, flushVars
<1>2. PhaseInv'
  BY DEF TypeInv, PhaseInv, flushVars, InFlight, NodesLeft
<1> QED
  BY <1>1, <1>2 DEF TypeInv, CacheTypes

\* A write through the caches.
LEMMA QueueTypes ==
    ASSUME TypeInv, NEW x \in Item, NEW c \in Contents', Queue(x, c)
    PROVE  TypeInv'
<1>1. /\ ops' = ops + 1 /\ ops < MaxOps /\ commits' = commits
      /\ last' = [last EXCEPT ![x] = c.p]
  BY RecordFields DEF Queue
<1>2. ops' \in 0 .. MaxOps /\ commits' \in 0 .. MaxCommits /\ ops' >= ops /\ ops' \in Nat /\ commits' \in Nat
  BY <1>1, Facts DEF TypeInv, HistoryTypes
<1>3. Contents \subseteq Contents' /\ CallType \subseteq CallType'
  BY <1>1, <1>2, Facts, ContentsGrow
<1>4. c.p \in 0 .. ops' + 1
  <2>1. CASE c = Absent
    BY <1>2, <2>1, Facts
  <2>2. CASE c \in Written'
    <3>1. c.p \in 1 .. ops' + 1
      BY <2>2 DEF Written
    <3> QED
      BY <1>2, <3>1
  <2> QED
    BY <2>1, <2>2 DEF Contents
<1>5. last' \in [Item -> 0 .. ops' + 1]
  <2>1. 0 .. ops + 1 \subseteq 0 .. ops' + 1
    BY <1>1, Facts
  <2> QED
    BY <1>1, <1>4, <2>1 DEF TypeInv, HistoryTypes
<1>6. loose' \in SUBSET Edge
  BY DEF Queue, Record, TypeInv, HistoryTypes
<1>7. replaced' \in SUBSET Item
  BY DEF Queue, TypeInv, FlushTypes
<1>8. FlushTypes' /\ PhaseInv' /\ engine' \in [Item -> Contents']
  BY <1>3, <1>7, FlushFrame DEF Queue
<1>9. CacheTypes'
  <2>1. cache' \in [Item -> Contents'] /\ cache'[x] = c /\ \A y \in Item \ {x} : cache'[y] = cache[y]
    BY <1>3 DEF Queue, TypeInv, CacheTypes
  <2>2. baseline' \in [Node -> SUBSET Contents'] /\ deletes' \in SUBSET Item
    BY <1>3 DEF Queue
  <2>3. call' \in CallType'
    BY <1>3 DEF Queue, TypeInv, CacheTypes, CallType
  <2>4. ASSUME NEW n \in Node
        PROVE  baseline'[n] = {} \/ (cache'[n] # Absent /\ \E b \in Contents' : baseline'[n] = {b})
    <3>1. CASE n = x
      BY <1>3, <2>1, <3>1 DEF Queue
    <3>2. CASE n # x
      BY <1>3, <2>1, <3>2, Facts DEF Queue, TypeInv, CacheTypes
    <3> QED
      BY <3>1, <3>2
  <2> QED
    BY <1>8, <2>1, <2>2, <2>3, <2>4 DEF CacheTypes
<1> QED
  BY <1>2, <1>5, <1>6, <1>8, <1>9 DEF TypeInv, HistoryTypes

\* A call, or no step.
LEMMA CallTypes ==
    ASSUME TypeInv, CallOnly \/ UNCHANGED vars
    PROVE  TypeInv'
<1>1. /\ UNCHANGED <<cache, deletes, baseline, engine, flushVars, replaced, last, loose, ops, commits>>
      /\ call' \in CallType
  BY DEF CallOnly, vars, cacheVars, historyVars, TypeInv, CacheTypes
<1>2. Contents' = Contents /\ CallType' = CallType
  BY <1>1 DEF Contents, Written, CallType
<1>3. FlushTypes' /\ PhaseInv'
  BY <1>1, <1>2, FlushFrame DEF TypeInv, FlushTypes
<1>4. CacheTypes' /\ HistoryTypes'
  BY <1>1, <1>2 DEF TypeInv, CacheTypes, HistoryTypes
<1> QED
  BY <1>3, <1>4 DEF TypeInv

\* A transaction changes the q of one node.
LEMMA CommitFields ==
    ASSUME TypeInv, NEW n \in Node, TransactionCommit(n)
    PROVE  /\ commits' = commits + 1 /\ commits < MaxCommits /\ ops' = ops
           /\ engine[n] # Absent /\ engine' = [engine EXCEPT ![n] = engine'[n]]
           /\ engine'[n].p = engine[n].p /\ engine'[n].q = commits + 2 /\ engine'[n] # Absent
           /\ engine'[n] \in Contents'
           /\ Contents \subseteq Contents' /\ CallType \subseteq CallType'
           /\ UNCHANGED <<cache, deletes, baseline, call, flushVars, replaced, last, loose>>
<1>1. /\ commits' = commits + 1 /\ commits < MaxCommits /\ ops' = ops
      /\ UNCHANGED <<cache, deletes, baseline, call, flushVars, replaced, last, loose>>
      /\ engine[n] # Absent /\ engine' = [engine EXCEPT ![n].q = commits + 2]
  BY DEF TransactionCommit, cacheVars, historyVars
<1>2. engine[n] \in Written /\ engine \in [Item -> Contents] /\ n \in Item
  BY <1>1, Facts, ViewType DEF TypeInv, CacheTypes
<1>3. engine'[n].p = engine[n].p /\ engine'[n].q = commits + 2 /\ engine'[n] \in [p : {engine[n].p}, q : {commits + 2}]
  BY <1>1, <1>2 DEF Written
<1>4. engine[n].p \in 1 .. ops' + 1 /\ commits + 2 \in 0 .. commits' + 1 /\ commits + 2 # 0
  BY <1>1, <1>2, Facts DEF Written
<1>5. engine'[n] \in Contents'
  BY <1>3, <1>4 DEF Contents, Written
<1>6. engine'[n] # Absent
  BY <1>3, <1>4, Facts
<1>7. engine' = [engine EXCEPT ![n] = engine'[n]]
  BY <1>1, <1>2
<1>8. Contents \subseteq Contents' /\ CallType \subseteq CallType'
  BY <1>1, Facts, ContentsGrow
<1> QED
  BY <1>1, <1>3, <1>5, <1>6, <1>7, <1>8

\* A transaction.
LEMMA CommitTypes ==
    ASSUME TypeInv, NEW n \in Node, TransactionCommit(n)
    PROVE  TypeInv'
<1>1. /\ commits' = commits + 1 /\ commits < MaxCommits /\ ops' = ops
      /\ engine[n] # Absent /\ engine' = [engine EXCEPT ![n] = engine'[n]]
      /\ engine'[n] \in Contents'
      /\ Contents \subseteq Contents' /\ CallType \subseteq CallType'
      /\ UNCHANGED <<cache, deletes, baseline, call, flushVars, replaced, last, loose>>
  BY CommitFields
<1>2. engine' \in [Item -> Contents']
  BY <1>1, Facts DEF TypeInv, CacheTypes
<1>3. CacheTypes'
  BY <1>1, <1>2 DEF TypeInv, CacheTypes
<1>4. HistoryTypes'
  BY <1>1, Facts DEF TypeInv, HistoryTypes
<1>5. FlushTypes'
  BY <1>1 DEF TypeInv, FlushTypes, flushVars
<1>6. PhaseInv'
  <2>1. \A x \in Item \ {n} : engine'[x] = engine[x]
    BY <1>1 DEF TypeInv, CacheTypes
  <2>2. n \notin gone /\ gone \subseteq Item
    BY <1>1 DEF TypeInv, PhaseInv, FlushTypes
  <2> QED
    BY <1>1, <2>1, <2>2 DEF TypeInv, PhaseInv, flushVars, InFlight, NodesLeft
<1> QED
  BY <1>3, <1>4, <1>5, <1>6 DEF TypeInv

\* The steps of a flush leave the counters, the calls and the history alone.
LEMMA FlushKeeps ==
    ASSUME TypeInv, FlushStep
    PROVE  /\ UNCHANGED <<call, historyVars, commits>>
           /\ Contents' = Contents /\ CallType' = CallType /\ HistoryTypes'
<1>1. UNCHANGED <<call, historyVars, commits>>
  BY DEF FlushStep, TakeSnapshot, DeleteNodes, DeleteEdges, DeleteItems, ReadLatest, WriteNode,
         WriteEdges, ClearFlushed
<1> QED
  BY <1>1 DEF historyVars, Contents, Written, CallType, TypeInv, HistoryTypes

\* The snapshot.
LEMMA SnapshotTypes ==
    ASSUME TypeInv, TakeSnapshot
    PROVE  TypeInv'
<1>1. /\ Contents' = Contents /\ CallType' = CallType /\ HistoryTypes'
      /\ UNCHANGED <<cache, deletes, baseline, engine, call>>
  BY FlushKeeps DEF FlushStep, TakeSnapshot, cacheVars
<1>2. CacheTypes'
  BY <1>1 DEF TypeInv, CacheTypes
<1>3. \A n \in Node : (IF baseline[n] = {} THEN Absent ELSE CHOOSE b \in baseline[n] : TRUE) \in Contents
  BY Facts DEF TypeInv, CacheTypes
<1>4. FlushTypes'
  <2>1. toWrite' \in [Item -> Contents] /\ toDelete' \in SUBSET Item
    BY DEF TypeInv, CacheTypes, TakeSnapshot
  <2>2. bases' \in [Node -> Contents] /\ candidate' \in [Node -> Contents]
    BY <1>3, Facts DEF TakeSnapshot
  <2> QED
    BY <1>1, <2>1, <2>2 DEF FlushTypes, TakeSnapshot
<1>5. PhaseInv'
  BY DEF PhaseInv, TakeSnapshot
<1> QED
  BY <1>1, <1>2, <1>4, <1>5 DEF TypeInv

\* Deletes by the flush: the items that are gone and, for a node, its edges.
LEMMA DeleteFields ==
    ASSUME TypeInv, NEW items, NEW here, NEW next, DeleteItems(items, here, next),
           items \subseteq toDelete
    PROVE  /\ flush = here /\ flush' = next
           /\ \E ok \in SUBSET items : engine' = Without(ok) /\ gone' = gone \cup ok
           /\ UNCHANGED <<cache, deletes, baseline, call, toWrite, toDelete, bases, candidate, tried, done>>
           /\ UNCHANGED <<replaced, historyVars, commits>>
BY DEF DeleteItems, cacheVars

\* The deletes of a flush.
LEMMA DeleteTypes ==
    ASSUME TypeInv, DeleteNodes \/ DeleteEdges
    PROVE  TypeInv'
<1>1. Contents' = Contents /\ CallType' = CallType /\ HistoryTypes'
  BY FlushKeeps DEF FlushStep
<1>2. PICK items, here, next :
        /\ items \subseteq toDelete
        /\ <<here, next>> \in {<<"deleteNodes", "deleteEdges">>, <<"deleteEdges", "writeNodes">>}
        /\ DeleteItems(items, here, next)
  BY DEF DeleteNodes, DeleteEdges
<1>3. /\ flush = here /\ flush' = next
      /\ \E ok \in SUBSET items : engine' = Without(ok) /\ gone' = gone \cup ok
      /\ UNCHANGED <<cache, deletes, baseline, call, toWrite, toDelete, bases, candidate, tried, done>>
      /\ UNCHANGED <<replaced, historyVars, commits>>
  BY <1>2, DeleteFields
<1>4. PICK ok \in SUBSET items : engine' = Without(ok) /\ gone' = gone \cup ok
  BY <1>3
<1>5. ok \subseteq toDelete /\ toDelete \subseteq Item
  BY <1>2, <1>4 DEF TypeInv, FlushTypes
<1>6. /\ engine' \in [Item -> Contents] /\ \A x \in Item : engine[x] = Absent => engine'[x] = Absent
      /\ \A x \in ok : engine'[x] = Absent
  BY <1>4, <1>5, Facts DEF Without, TypeInv, CacheTypes
<1>7. CacheTypes'
  BY <1>1, <1>3, <1>6 DEF TypeInv, CacheTypes
<1>8. FlushTypes'
  BY <1>1, <1>2, <1>3, <1>4, <1>5 DEF TypeInv, FlushTypes
<1>9. PhaseInv'
  <2>1. /\ flush' \in {"deleteEdges", "writeNodes"} /\ done' = {} /\ tried' = {}
        /\ \A n \in Node : candidate'[n] = Absent
    BY <1>2, <1>3 DEF TypeInv, PhaseInv
  <2>2. \A x \in gone' : x \in toDelete' /\ engine'[x] = Absent
    BY <1>3, <1>4, <1>5, <1>6 DEF TypeInv, PhaseInv
  <2> QED
    BY <2>1, <2>2 DEF PhaseInv
<1> QED
  BY <1>1, <1>7, <1>8, <1>9 DEF TypeInv

\* The merge of an update with what the engine holds is a content.
LEMMA CandidateFields ==
    ASSUME TypeInv, NEW n \in Node, ReadLatest(n)
    PROVE  /\ candidate' = [candidate EXCEPT ![n] = candidate'[n]]
           /\ candidate'[n] \in Contents /\ candidate'[n] # Absent
           /\ candidate'[n].p = toWrite[n].p \/ (bases[n] # Absent /\ toWrite[n].p = bases[n].p
                                                 /\ engine[n] # Absent /\ candidate'[n].p = engine[n].p)
           /\ candidate'[n].q = toWrite[n].q \/ (bases[n] # Absent /\ toWrite[n].q = bases[n].q
                                                 /\ engine[n] # Absent /\ candidate'[n].q = engine[n].q)
           /\ bases[n] # Absent /\ engine[n] # Absent /\ toWrite[n].q = bases[n].q => candidate'[n].q = engine[n].q
           /\ flush = "writeNodes" /\ n \in NodesLeft /\ InFlight(n)
           /\ UNCHANGED <<cache, deletes, baseline, engine, call, flush, toWrite, toDelete, bases, tried, done, gone>>
           /\ UNCHANGED <<replaced, historyVars, commits>>
<1> DEFINE w == toWrite[n]  b == bases[n]  e == engine[n]
           p == IF w.p = b.p THEN e.p ELSE w.p
           q == IF w.q = b.q THEN e.q ELSE w.q
<1>1. n \in Item /\ w \in Contents /\ b \in Contents /\ e \in Contents /\ candidate \in [Node -> Contents]
  BY Facts DEF TypeInv, CacheTypes, FlushTypes
<1>2. /\ candidate' = [candidate EXCEPT ![n] = IF b = Absent \/ e \in {Absent, b} THEN w ELSE [p |-> p, q |-> q]]
      /\ flush = "writeNodes" /\ n \in NodesLeft
      /\ UNCHANGED <<cache, deletes, baseline, engine, call, flush, toWrite, toDelete, bases, tried, done, gone>>
      /\ UNCHANGED <<replaced, historyVars, commits>>
  BY DEF ReadLatest, RebaseNodeUpdate, cacheVars
<1>3. candidate'[n] = IF b = Absent \/ e \in {Absent, b} THEN w ELSE [p |-> p, q |-> q]
  BY <1>1, <1>2
<1>4. InFlight(n) /\ w # Absent
  BY <1>2 DEF NodesLeft, InFlight
<1>5. CASE b = Absent \/ e \in {Absent, b}
  <2>1. candidate'[n] = w
    BY <1>3, <1>5
  <2> QED
    BY <1>1, <1>2, <1>4, <1>5, <2>1
<1>6. CASE b # Absent /\ e # Absent /\ e # b
  <2>1. candidate'[n] = [p |-> p, q |-> q]
    BY <1>3, <1>6
  <2>2. candidate'[n].p = p /\ candidate'[n].q = q
    BY <2>1
  <2>3. e.p \in 1 .. ops + 1 /\ w.p \in 1 .. ops + 1 /\ e.q \in 0 .. commits + 1 /\ w.q \in 0 .. commits + 1
    BY <1>1, <1>4, <1>6, Facts DEF Written
  <2>4. p \in 1 .. ops + 1 /\ q \in 0 .. commits + 1
    BY <2>3
  <2>5. [p |-> p, q |-> q] \in Written
    BY <2>4 DEF Written
  <2>6. Absent \notin Written
    BY Facts DEF Written
  <2>7. candidate'[n] \in Contents /\ candidate'[n] # Absent
    BY <2>1, <2>5, <2>6 DEF Contents
  <2>8. candidate' = [candidate EXCEPT ![n] = candidate'[n]]
    BY <1>1, <1>2
  <2> QED
    BY <1>2, <1>4, <1>6, <2>2, <2>7, <2>8
<1> QED
  BY <1>5, <1>6

\* The flush has read a node.
LEMMA ReadTypes ==
    ASSUME TypeInv, NEW n \in Node, ReadLatest(n)
    PROVE  TypeInv'
<1>1. Contents' = Contents /\ CallType' = CallType /\ HistoryTypes'
  BY FlushKeeps DEF FlushStep
<1>2. /\ candidate' = [candidate EXCEPT ![n] = candidate'[n]]
      /\ candidate'[n] \in Contents
      /\ flush = "writeNodes" /\ n \in NodesLeft
      /\ UNCHANGED <<cache, deletes, baseline, engine, call, flush, toWrite, toDelete, bases, tried, done, gone>>
      /\ UNCHANGED <<replaced, historyVars, commits>>
  BY CandidateFields
<1>3. CacheTypes'
  BY <1>1, <1>2 DEF TypeInv, CacheTypes
<1>4. candidate' \in [Node -> Contents] /\ \A m \in Node \ {n} : candidate'[m] = candidate[m]
  BY <1>2 DEF TypeInv, FlushTypes
<1>5. FlushTypes'
  BY <1>1, <1>2, <1>4 DEF TypeInv, FlushTypes
<1>6. NodesLeft' = NodesLeft
  BY <1>2 DEF NodesLeft, InFlight
<1>7. PhaseInv'
  BY <1>2, <1>4, <1>6 DEF TypeInv, PhaseInv, InFlight
<1> QED
  BY <1>1, <1>3, <1>5, <1>7 DEF TypeInv

\* The write of a node: it succeeds, or nothing is written.
LEMMA WriteFields ==
    ASSUME TypeInv, NEW n \in Node, WriteNode(n)
    PROVE  /\ candidate[n] # Absent /\ candidate[n] \in Contents /\ flush = "writeNodes" /\ n \in NodesLeft
           /\ InFlight(n) /\ n \notin toDelete /\ n \notin tried
           /\ \/ engine' = [engine EXCEPT ![n] = candidate[n]] /\ done' = done \cup {n}
              \/ engine' = engine /\ done' = done
           /\ tried' = tried \cup {n}
           /\ candidate' = [candidate EXCEPT ![n] = Absent]
           /\ UNCHANGED <<cache, deletes, baseline, call, flush, toWrite, toDelete, bases, gone>>
           /\ UNCHANGED <<replaced, historyVars, commits>>
<1>1. /\ candidate[n] # Absent
      /\ \/ engine' = [engine EXCEPT ![n] = candidate[n]] /\ done' = done \cup {n}
         \/ engine' = engine /\ done' = done
      /\ tried' = tried \cup {n}
      /\ candidate' = [candidate EXCEPT ![n] = Absent]
      /\ UNCHANGED <<cache, deletes, baseline, call, flush, toWrite, toDelete, bases, gone>>
      /\ UNCHANGED <<replaced, historyVars, commits>>
  BY DEF WriteNode, cacheVars
<1>2. candidate[n] \in Contents /\ flush = "writeNodes" /\ n \in NodesLeft
  BY <1>1 DEF TypeInv, FlushTypes, PhaseInv
<1> QED
  BY <1>1, <1>2 DEF NodesLeft

\* The flush writes a node.
LEMMA WriteTypes ==
    ASSUME TypeInv, NEW n \in Node, WriteNode(n)
    PROVE  TypeInv'
<1>1. Contents' = Contents /\ CallType' = CallType /\ HistoryTypes'
  BY FlushKeeps DEF FlushStep
<1>2. /\ candidate[n] \in Contents /\ flush = "writeNodes" /\ n \in NodesLeft
      /\ InFlight(n) /\ n \notin toDelete
      /\ \/ engine' = [engine EXCEPT ![n] = candidate[n]] /\ done' = done \cup {n}
         \/ engine' = engine /\ done' = done
      /\ tried' = tried \cup {n}
      /\ candidate' = [candidate EXCEPT ![n] = Absent]
      /\ UNCHANGED <<cache, deletes, baseline, call, flush, toWrite, toDelete, bases, gone>>
      /\ UNCHANGED <<replaced, historyVars, commits>>
  BY WriteFields
<1>3. n \in Item /\ Absent \in Contents
  BY Facts
<1>4. CacheTypes'
  BY <1>1, <1>2, <1>3 DEF TypeInv, CacheTypes
<1>5. candidate' \in [Node -> Contents] /\ candidate'[n] = Absent /\ \A m \in Node \ {n} : candidate'[m] = candidate[m]
  BY <1>2, <1>3 DEF TypeInv, FlushTypes
<1>6. FlushTypes'
  BY <1>1, <1>2, <1>3, <1>5 DEF TypeInv, FlushTypes
<1>7. NodesLeft' = NodesLeft \ {n}
  BY <1>2 DEF NodesLeft, InFlight
<1>8. PhaseInv'
  <2>1. \A m \in Node : candidate'[m] # Absent => flush' = "writeNodes" /\ m \in NodesLeft'
    BY <1>2, <1>5, <1>7 DEF TypeInv, PhaseInv
  <2>2. \A x \in done' : InFlight(x)' /\ x \notin toDelete' /\ (x \in Node => x \in tried')
    BY <1>2 DEF TypeInv, PhaseInv, InFlight
  <2>3. \A x \in gone' : x \in toDelete' /\ engine'[x] = Absent
    <3>1. \A x \in gone : x \in toDelete /\ engine[x] = Absent /\ x # n /\ x \in Item
      BY <1>2 DEF TypeInv, PhaseInv, FlushTypes
    <3> QED
      BY <1>2, <3>1 DEF TypeInv, CacheTypes
  <2> QED
    BY <1>2, <2>1, <2>2, <2>3 DEF PhaseInv
<1> QED
  BY <1>1, <1>4, <1>6, <1>8 DEF TypeInv

\* The write of the edges.
LEMMA EdgesFields ==
    ASSUME TypeInv, WriteEdges
    PROVE  /\ flush = "writeNodes" /\ NodesLeft = {} /\ flush' = "clear"
           /\ \A n \in Node : candidate[n] = Absent
           /\ \E ok \in SUBSET ({e \in Edge : InFlight(e)} \ toDelete) :
                 /\ engine' = [x \in Item |-> IF x \in ok THEN toWrite[x] ELSE engine[x]]
                 /\ done' = done \cup ok
           /\ UNCHANGED <<cache, deletes, baseline, call, toWrite, toDelete, bases, candidate, tried, gone>>
           /\ UNCHANGED <<replaced, historyVars, commits>>
BY DEF WriteEdges, cacheVars, TypeInv, PhaseInv

\* The flush writes the edges.
LEMMA EdgesTypes ==
    ASSUME TypeInv, WriteEdges
    PROVE  TypeInv'
<1>1. Contents' = Contents /\ CallType' = CallType /\ HistoryTypes'
  BY FlushKeeps DEF FlushStep
<1>2. /\ flush' = "clear" /\ \A n \in Node : candidate[n] = Absent
      /\ UNCHANGED <<cache, deletes, baseline, call, toWrite, toDelete, bases, candidate, tried, gone>>
      /\ UNCHANGED <<replaced, historyVars, commits>>
  BY EdgesFields
<1>3. PICK ok \in SUBSET ({e \in Edge : InFlight(e)} \ toDelete) :
                 /\ engine' = [x \in Item |-> IF x \in ok THEN toWrite[x] ELSE engine[x]]
                 /\ done' = done \cup ok
  BY EdgesFields
<1>4. CacheTypes'
  BY <1>1, <1>2, <1>3 DEF TypeInv, CacheTypes, FlushTypes
<1>5. FlushTypes'
  BY <1>1, <1>2, <1>3, Facts DEF TypeInv, FlushTypes
<1>6. PhaseInv'
  <2>1. \A x \in done' : InFlight(x)' /\ x \notin toDelete' /\ (x \in Node => x \in tried')
    BY <1>2, <1>3, Facts DEF TypeInv, PhaseInv, InFlight
  <2>2. \A x \in gone' : x \in toDelete' /\ engine'[x] = Absent
    BY <1>2, <1>3 DEF TypeInv, PhaseInv, FlushTypes
  <2> QED
    BY <1>2, <2>1, <2>2 DEF PhaseInv
<1> QED
  BY <1>1, <1>4, <1>5, <1>6 DEF TypeInv

\* The flush ends.
LEMMA ClearTypes ==
    ASSUME TypeInv, ClearFlushed
    PROVE  TypeInv'
<1>1. /\ Contents' = Contents /\ CallType' = CallType /\ HistoryTypes'
  BY FlushKeeps DEF FlushStep
<1> USE DEF ClearFlushed
<1>2. cache' \in [Item -> Contents] /\ \A x \in Item : cache'[x] = IF Cleared(x) THEN Absent ELSE cache[x]
  BY Facts DEF TypeInv, CacheTypes
<1>3. baseline' \in [Node -> SUBSET Contents] /\ \A n \in Node : baseline'[n] = {} \/ (baseline'[n] = baseline[n] /\ ~Cleared(n))
  BY DEF TypeInv, CacheTypes, BaselineAfterFlush
<1>4. CacheTypes'
  <2>1. \A n \in Node : baseline'[n] = {} \/ (cache'[n] # Absent /\ \E b \in Contents : baseline'[n] = {b})
    BY <1>2, <1>3, Facts DEF TypeInv, CacheTypes
  <2> QED
    BY <1>1, <1>2, <1>3, <2>1 DEF TypeInv, CacheTypes
<1>5. FlushTypes'
  BY <1>1, Facts DEF TypeInv, FlushTypes
<1>6. PhaseInv'
  BY DEF TypeInv, PhaseInv, InFlight
<1> QED
  BY <1>1, <1>4, <1>5, <1>6 DEF TypeInv

\* The steps of the caches, of transactions and of the flush.
CacheStep ==
    \/ \E n \in Node : CreateNode(n) \/ BeginUpdate(n) \/ UpdateNodeEmbedding(n) \/ DeleteNode(n)
    \/ \E v \in 1 .. Fresh : FinishUpdate(v)
    \/ FinishDelete
    \/ \E e \in Edge : CreateEdge(e) \/ UpdateEdge(e) \/ DeleteEdge(e)
    \/ \E x \in Item : BulkDelete(x)

\* A step is one of these.
LEMMA NextSteps ==
    ASSUME Next
    PROVE  CacheStep \/ (\E n \in Node : TransactionCommit(n)) \/ FlushStep
BY DEF Next, CacheStep

\* A step of the caches is a write or a call.
LEMMA CacheStepKinds ==
    ASSUME TypeInv, CacheStep
    PROVE  CallOnly \/ \E x \in Item : \E c \in Contents' : Queue(x, c) /\ Guarded(x, c)
BY CacheSteps DEF CacheStep

\* Types are inductive.
LEMMA NextTypeInv == TypeInv /\ [Next]_vars => TypeInv'
<1> SUFFICES ASSUME TypeInv, [Next]_vars PROVE TypeInv'
  OBVIOUS
<1>1. CASE CacheStep
  BY <1>1, CacheStepKinds, QueueTypes, CallTypes
<1>2. CASE \E n \in Node : TransactionCommit(n)
  BY <1>2, CommitTypes
<1>3. CASE FlushStep
  BY <1>3, SnapshotTypes, DeleteTypes, ReadTypes, WriteTypes, EdgesTypes, ClearTypes DEF FlushStep
<1>4. CASE UNCHANGED vars
  BY <1>4, CallTypes
<1> QED
  BY <1>1, <1>2, <1>3, <1>4, NextSteps

\* Whatever writers, transactions and failing calls do, every variable stays in
\* its range, and a baseline is kept for a queued node only.
THEOREM TypesHold == Spec => []TypeOK
<1>1. Spec => []TypeInv
  BY InitTypeInv, NextTypeInv, PTL DEF Spec
<1> QED
  BY <1>1, TypeInvImplies, PTL

-----------------------------------------------------------------------------
(***************************************************************************)
(* What hides the engine, as long as no deleted item is revived by an      *)
(* update and no update of what the engine holds is dropped.               *)
(***************************************************************************)
\* What a write through the caches leaves alone.
LEMMA QueueFields ==
    ASSUME TypeInv, NEW x \in Item, NEW c, Queue(x, c)
    PROVE  /\ cache'[x] = c /\ \A y \in Item \ {x} : cache'[y] = cache[y]
           /\ \A y \in Item \ {x} : y \in deletes' <=> y \in deletes
           /\ \A y \in Item \ {x} : y \in replaced' <=> y \in replaced
           /\ c # Absent => x \in replaced'
           /\ last'[x] = c.p /\ \A y \in Item \ {x} : last'[y] = last[y]
           /\ \A n \in Node \ {x} : baseline'[n] = baseline[n]
           /\ UNCHANGED <<engine, flush, toWrite, toDelete, bases, candidate, tried, done, gone, commits>>
<1>1. cache \in [Item -> Contents] /\ last \in [Item -> 0 .. ops + 1]
  BY DEF TypeInv, CacheTypes, HistoryTypes
<1>2. last' = [last EXCEPT ![x] = c.p]
  BY DEF Queue, Record
<1> QED
  BY <1>1, <1>2 DEF Queue, flushVars

\* Nothing is queued, marked or in flight at first.
LEMMA InitHideInv == Init => HideInv
BY DEF Init, HideInv, Hidden, InFlight

\* A write through the caches.
LEMMA QueueHide ==
    ASSUME TypeInv, HideInv, Hazards \cap {"revive", "drop"} = {},
           NEW x \in Item, NEW c, Queue(x, c), Guarded(x, c)
    PROVE  HideInv'
<1>1. /\ cache'[x] = c /\ \A y \in Item \ {x} : cache'[y] = cache[y]
      /\ \A y \in Item \ {x} : y \in deletes' <=> y \in deletes
      /\ \A y \in Item \ {x} : y \in replaced' <=> y \in replaced
      /\ c # Absent => x \in replaced'
      /\ UNCHANGED <<engine, toWrite, toDelete>>
  BY QueueFields
<1>2. /\ c # Absent => x \notin deletes'
      /\ c = Absent => x \in deletes' \/ (~InFlight(x) /\ engine[x] = Absent)
  BY DEF Guarded
<1>3. ASSUME NEW y \in Item
      PROVE  /\ y \in deletes' => cache'[y] = Absent
             /\ InFlight(y)' => y \in deletes' \/ cache'[y] # Absent
             /\ y \in toDelete' => Hidden(y)' /\ ~InFlight(y)'
             /\ InFlight(y)' /\ y \notin replaced' => cache'[y] \in {Absent, toWrite'[y]}
  <2>1. CASE y = x
    BY <1>1, <1>2, <2>1 DEF HideInv, Hidden, InFlight
  <2>2. CASE y # x
    BY <1>1, <2>2 DEF HideInv, Hidden, InFlight
  <2> QED
    BY <2>1, <2>2
<1> QED
  BY <1>3 DEF HideInv

\* Where the caches and the snapshot stay: the engine only loses items, or
\* keeps what the flush deletes.
LEMMA EngineHide ==
    ASSUME TypeInv, HideInv, UNCHANGED <<cache, deletes, replaced, toWrite, toDelete>>,
           \A x \in toDelete : engine[x] = Absent => engine'[x] = Absent
    PROVE  HideInv'
BY DEF HideInv, Hidden, InFlight

\* The deletes of a flush take items from the engine, and edges of its nodes.
LEMMA DeleteEffect ==
    ASSUME TypeInv, DeleteNodes \/ DeleteEdges
    PROVE  /\ \A x \in Item : engine'[x] \in {Absent, engine[x]}
           /\ \A x \in Item : engine'[x] # engine[x] =>
                x \in toDelete \/ (x \in Edge /\ flush = "deleteNodes" /\ Ends[x] \cap toDelete # {})
           /\ flush \in {"deleteNodes", "deleteEdges"} /\ flush' \in {"deleteEdges", "writeNodes"}
           /\ UNCHANGED <<cache, deletes, baseline, call, toWrite, toDelete, bases, candidate, tried, done>>
           /\ UNCHANGED <<replaced, historyVars, commits>>
<1>1. CASE DeleteNodes
  <2>1. /\ flush = "deleteNodes" /\ flush' = "deleteEdges"
        /\ \E ok \in SUBSET (toDelete \cap Node) : engine' = Without(ok) /\ gone' = gone \cup ok
        /\ UNCHANGED <<cache, deletes, baseline, call, toWrite, toDelete, bases, candidate, tried, done>>
        /\ UNCHANGED <<replaced, historyVars, commits>>
    BY <1>1, DeleteFields DEF DeleteNodes
  <2>2. PICK ok \in SUBSET (toDelete \cap Node) : engine' = Without(ok)
    BY <2>1
  <2>3. \A x \in Item : engine'[x] = IF x \in ok \/ (x \in Edge /\ Ends[x] \cap ok # {}) THEN Absent ELSE engine[x]
    BY <2>2 DEF Without
  <2> QED
    BY <2>1, <2>2, <2>3
<1>2. CASE DeleteEdges
  <2>1. /\ flush = "deleteEdges" /\ flush' = "writeNodes"
        /\ \E ok \in SUBSET (toDelete \cap Edge) : engine' = Without(ok) /\ gone' = gone \cup ok
        /\ UNCHANGED <<cache, deletes, baseline, call, toWrite, toDelete, bases, candidate, tried, done>>
        /\ UNCHANGED <<replaced, historyVars, commits>>
    BY <1>2, DeleteFields DEF DeleteEdges
  <2>2. PICK ok \in SUBSET (toDelete \cap Edge) : engine' = Without(ok)
    BY <2>1
  <2>3. \A x \in Item : engine'[x] = IF x \in ok THEN Absent ELSE engine[x]
    <3>1. \A x \in Edge : Ends[x] \cap ok = {}
      BY <2>2, Facts
    <3> QED
      BY <2>2, <3>1 DEF Without
  <2> QED
    BY <2>1, <2>2, <2>3
<1> QED
  BY <1>1, <1>2

\* A flush hides what it writes and deletes.
LEMMA FlushHide ==
    ASSUME TypeInv, HideInv, FlushStep
    PROVE  HideInv'
<1>1. CASE TakeSnapshot
  <2>1. toWrite' = cache /\ toDelete' = deletes /\ UNCHANGED <<cache, deletes, engine>>
    BY <1>1 DEF TakeSnapshot, cacheVars
  <2> QED
    BY <2>1 DEF HideInv, Hidden, InFlight
<1>2. CASE DeleteNodes \/ DeleteEdges
  <2>1. /\ \A x \in toDelete : engine[x] = Absent => engine'[x] = Absent
        /\ UNCHANGED <<cache, deletes, replaced, toWrite, toDelete>>
    BY <1>2, DeleteEffect DEF TypeInv, FlushTypes
  <2> QED
    BY <2>1, EngineHide
<1>3. CASE \E n \in Node : ReadLatest(n)
  BY <1>3, CandidateFields, EngineHide
<1>4. CASE \E n \in Node : WriteNode(n)
  <2>1. PICK n \in Node : WriteNode(n)
    BY <1>4
  <2>2. /\ n \notin toDelete /\ UNCHANGED <<cache, deletes, replaced, toWrite, toDelete>>
        /\ engine' = [engine EXCEPT ![n] = candidate[n]] \/ engine' = engine
    BY <2>1, WriteFields
  <2>3. \A x \in toDelete : engine[x] = Absent => engine'[x] = Absent
    BY <2>2 DEF TypeInv, CacheTypes, FlushTypes
  <2> QED
    BY <2>2, <2>3, EngineHide
<1>5. CASE WriteEdges
  <2>1. PICK ok \in SUBSET ({e \in Edge : InFlight(e)} \ toDelete) :
                 /\ engine' = [x \in Item |-> IF x \in ok THEN toWrite[x] ELSE engine[x]]
                 /\ done' = done \cup ok
    BY <1>5, EdgesFields
  <2>2. UNCHANGED <<cache, deletes, replaced, toWrite, toDelete>>
    BY <1>5, EdgesFields
  <2>3. \A x \in toDelete : engine[x] = Absent => engine'[x] = Absent
    BY <2>1 DEF TypeInv, FlushTypes
  <2> QED
    BY <2>2, <2>3, EngineHide
<1>6. CASE ClearFlushed
  BY <1>6 DEF ClearFlushed, HideInv, Hidden, InFlight
<1> QED
  BY <1>1, <1>2, <1>3, <1>4, <1>5, <1>6 DEF FlushStep

\* With revived items and dropped updates out of the way, hiding is inductive.
LEMMA NextHideInv ==
    ASSUME TypeInv, HideInv, [Next]_vars, Hazards \cap {"revive", "drop"} = {}
    PROVE  HideInv'
<1>1. CASE CallOnly \/ UNCHANGED vars
  BY <1>1 DEF CallOnly, vars, cacheVars, flushVars, HideInv, Hidden, InFlight
<1>2. ASSUME NEW x \in Item, NEW c \in Contents', Queue(x, c), Guarded(x, c) PROVE HideInv'
  BY <1>2, QueueHide
<1>3. CASE CacheStep
  BY <1>1, <1>2, <1>3, CacheStepKinds
<1>4. ASSUME NEW n \in Node, TransactionCommit(n) PROVE HideInv'
  <2>1. /\ engine[n] # Absent /\ engine' = [engine EXCEPT ![n] = engine'[n]]
        /\ UNCHANGED <<cache, deletes, flushVars, replaced>>
    BY <1>4, CommitFields
  <2>2. \A x \in toDelete : engine[x] = Absent => engine'[x] = Absent
    BY <2>1 DEF TypeInv, CacheTypes, FlushTypes
  <2> QED
    BY <2>1, <2>2, EngineHide DEF flushVars
<1>5. CASE FlushStep
  BY <1>5, FlushHide
<1> QED
  BY <1>1, <1>3, <1>4, <1>5, NextSteps

-----------------------------------------------------------------------------
(***************************************************************************)
(* What a reader sees.                                                     *)
(***************************************************************************)
\* A change of the engine that nobody sees, or that no write is about.
LEMMA SeenKept ==
    ASSUME TypeInv, ViewIsLast, UNCHANGED <<cache, deletes, last, loose>>,
           \A x \in Item : \/ engine'[x].p = engine[x].p
                           \/ x \in deletes \/ cache[x] # Absent \/ x \in loose
    PROVE  ViewIsLast'
<1>1. ASSUME NEW x \in Item, x \notin loose PROVE View(x)'.p = View(x).p
  BY <1>1 DEF View
<1>2. \A n \in Node : n \notin loose /\ n \in Item
  BY Facts DEF TypeInv, HistoryTypes
<1> QED
  BY <1>1, <1>2, Facts DEF ViewIsLast

\* At first the engine is all there is.
LEMMA InitViewInv == Init => ViewInv
<1> SUFFICES ASSUME Init PROVE ViewInv
  OBVIOUS
<1> USE DEF Init
<1>1. TypeInv
  BY InitTypeInv
<1>2. ASSUME NEW x \in Item PROVE View(x).p = last[x]
  BY <1>2 DEF View
<1>3. ViewIsLast
  BY <1>1, <1>2, Facts DEF ViewIsLast
<1>4. LooseInv
  BY DEF LooseInv
<1>5. WriteInv
  BY DEF WriteInv
<1>6. BackInv
  BY <1>1, Facts DEF BackInv, InFlight
<1> QED
  BY <1>3, <1>4, <1>5, <1>6 DEF ViewInv

\* What was loose stays so, but for an edge that is written.
LEMMA LooseFields ==
    ASSUME TypeInv, NEW x \in Item, NEW v, Record(x, v)
    PROVE  /\ \A e \in Edge \ {x} : e \in loose => e \in loose'
           /\ x \in Node /\ v = 0 => \A e \in Edge : x \in Ends[e] => e \in loose'
BY Facts DEF Record

\* A write through the caches is what a reader sees next.
LEMMA QueueView ==
    ASSUME TypeInv, HideInv, ViewInv, Hazards \cap {"revive", "drop", "back"} = {},
           NEW x \in Item, NEW c, Queue(x, c), Guarded(x, c)
    PROVE  ViewInv'
<1>1. /\ cache'[x] = c /\ \A y \in Item \ {x} : cache'[y] = cache[y]
      /\ \A y \in Item \ {x} : y \in deletes' <=> y \in deletes
      /\ \A y \in Item \ {x} : y \in replaced' <=> y \in replaced
      /\ last'[x] = c.p /\ \A y \in Item \ {x} : last'[y] = last[y]
      /\ \A n \in Node \ {x} : baseline'[n] = baseline[n]
      /\ UNCHANGED <<engine, flush, toWrite, toDelete, bases, candidate, tried, done>>
  BY QueueFields
<1>2. /\ c # Absent => x \notin deletes'
      /\ c = Absent => x \in deletes' \/ (~InFlight(x) /\ engine[x] = Absent)
      /\ c # Absent /\ x \in Edge => \A n \in Ends[x] : View(n) # Absent
      /\ x \in Node => \A b \in baseline'[x] : c.p = b.p => engine[x].p = b.p /\ ~InFlight(x)
  BY DEF Guarded
<1>3. /\ \A e \in Edge \ {x} : e \in loose => e \in loose'
      /\ x \in Node /\ c.p = 0 => \A e \in Edge : x \in Ends[e] => e \in loose'
  BY LooseFields DEF Queue
<1>4. Absent.p = 0 /\ Node \subseteq Item /\ Edge \subseteq Item /\ Node \cap Edge = {} /\ \A e \in Edge : Ends[e] \subseteq Node
  BY Facts
<1>5. View(x)'.p = last'[x]
  BY <1>1, <1>2, <1>4 DEF View
<1>6. \A y \in Item \ {x} : View(y)' = View(y)
  BY <1>1 DEF View
<1>7. ViewIsLast'
  BY <1>1, <1>3, <1>4, <1>5, <1>6 DEF ViewInv, ViewIsLast
<1>8. LooseInv'
  <2> SUFFICES ASSUME NEW e \in Edge, NEW n \in Ends[e]
               PROVE  /\ n \in deletes' => e \in loose' \/ last'[e] = 0
                      /\ flush' = "deleteNodes" /\ n \in toDelete' => e \in loose' \/ Hidden(e)'
    BY DEF LooseInv
  <2>0. n \in Item /\ e \in Item /\ n # e /\ n \in Node
    BY <1>4
  <2>1. ASSUME n \in deletes' PROVE e \in loose' \/ last'[e] = 0
    <3>1. CASE n = x
      BY <1>2, <1>3, <1>4, <2>0, <2>1, <3>1
    <3>2. CASE e = x
      <4>1. n \in deletes /\ View(n) = Absent
        BY <1>1, <2>0, <2>1, <3>2 DEF View
      <4> QED
        BY <1>1, <1>2, <1>4, <3>2, <4>1
    <3>3. CASE n # x /\ e # x
      BY <1>1, <1>3, <2>0, <2>1, <3>3 DEF ViewInv, LooseInv
    <3> QED
      BY <3>1, <3>2, <3>3
  <2>2. ASSUME flush' = "deleteNodes", n \in toDelete' PROVE e \in loose' \/ Hidden(e)'
    <3>1. CASE e = x
      BY <1>1, <1>2, <3>1 DEF Hidden
    <3>2. CASE e # x
      BY <1>1, <1>3, <2>0, <2>2, <3>2 DEF ViewInv, LooseInv, Hidden
    <3> QED
      BY <3>1, <3>2
  <2> QED
    BY <2>1, <2>2
<1>9. WriteInv'
  BY <1>1 DEF ViewInv, WriteInv
<1>10. BackInv'
  <2> SUFFICES ASSUME NEW n \in Node
               PROVE  /\ \A b \in baseline'[n] : b # Absent /\ cache'[n].p = b.p =>
                            /\ engine'[n] = Absent \/ engine'[n].p = b.p
                            /\ InFlight(n)' => n \notin replaced'
                      /\ InFlight(n)' /\ n \notin tried' /\ bases'[n] # Absent /\ toWrite'[n].p = bases'[n].p =>
                            engine'[n] = Absent \/ engine'[n].p = toWrite'[n].p
    BY DEF BackInv
  <2>1. CASE n = x
    BY <1>1, <1>2, <2>1 DEF ViewInv, BackInv, InFlight
  <2>2. CASE n # x
    BY <1>1, <1>4, <2>2 DEF ViewInv, BackInv, InFlight
  <2> QED
    BY <2>1, <2>2
<1> QED
  BY <1>7, <1>8, <1>9, <1>10 DEF ViewInv

\* A transaction does not change what the caches are about.
LEMMA CommitView ==
    ASSUME TypeInv, ViewInv, NEW n \in Node, TransactionCommit(n)
    PROVE  ViewInv'
<1>1. /\ engine[n] # Absent /\ engine' = [engine EXCEPT ![n] = engine'[n]]
      /\ engine'[n].p = engine[n].p /\ engine'[n] # Absent
      /\ UNCHANGED <<cache, deletes, baseline, flushVars, replaced, last, loose>>
  BY CommitFields
<1>2. \A x \in Item : engine'[x].p = engine[x].p /\ (engine'[x] = Absent <=> engine[x] = Absent)
  BY <1>1 DEF TypeInv, CacheTypes
<1>3. ViewIsLast'
  BY <1>1, <1>2, SeenKept DEF ViewInv
<1>4. LooseInv'
  BY <1>1, <1>2, Facts DEF ViewInv, LooseInv, Hidden, flushVars
<1>5. WriteInv'
  BY <1>1, <1>2 DEF ViewInv, WriteInv, flushVars, TypeInv, FlushTypes
<1>6. BackInv'
  BY <1>1, <1>2, Facts DEF ViewInv, BackInv, flushVars, InFlight
<1> QED
  BY <1>3, <1>4, <1>5, <1>6 DEF ViewInv

\* The snapshot: an edge of a node it deletes is not read from the engine.
LEMMA SnapshotView ==
    ASSUME TypeInv, HideInv, ViewInv, TakeSnapshot
    PROVE  ViewInv'
<1>1. /\ toWrite' = cache /\ toDelete' = deletes /\ done' = {} /\ replaced' = {}
      /\ bases' = [n \in Node |-> IF baseline[n] = {} THEN Absent ELSE CHOOSE b \in baseline[n] : TRUE]
      /\ candidate' = [n \in Node |-> Absent]
      /\ UNCHANGED <<cache, deletes, baseline, engine, last, loose>>
  BY DEF TakeSnapshot, cacheVars, historyVars
<1>2. ViewIsLast'
  BY <1>1, SeenKept DEF ViewInv
<1>3. LooseInv'
  <2> SUFFICES ASSUME NEW e \in Edge, NEW n \in Ends[e], n \in deletes
               PROVE  (e \in loose \/ last[e] = 0) /\ (e \in loose \/ Hidden(e))
    BY <1>1 DEF LooseInv, Hidden
  <2>1. e \in loose \/ last[e] = 0
    BY DEF ViewInv, LooseInv
  <2>2. CASE e \notin loose
    <3>1. View(e).p = 0 /\ e \in Item
      BY <2>1, <2>2, Facts DEF ViewInv, ViewIsLast
    <3>2. View(e) = Absent
      BY <3>1, ViewType, Facts
    <3> QED
      BY <2>1, <3>2 DEF View, Hidden
  <2> QED
    BY <2>1, <2>2
<1>4. WriteInv'
  BY <1>1 DEF WriteInv
<1>5. BackInv'
  <2> SUFFICES ASSUME NEW n \in Node
               PROVE  /\ \A b \in baseline[n] : b # Absent /\ cache[n].p = b.p =>
                            engine[n] = Absent \/ engine[n].p = b.p
                      /\ bases'[n] # Absent /\ cache[n].p = bases'[n].p =>
                            engine[n] = Absent \/ engine[n].p = cache[n].p
    BY <1>1 DEF BackInv, InFlight
  <2>1. bases'[n] # Absent => bases'[n] \in baseline[n]
    BY <1>1
  <2> QED
    BY <2>1 DEF ViewInv, BackInv
<1> QED
  BY <1>2, <1>3, <1>4, <1>5 DEF ViewInv

\* The deletes of a flush: nobody reads the items from the engine, and the
\* edges that go with them are loose or not read from it either.
LEMMA DeleteView ==
    ASSUME TypeInv, HideInv, ViewInv, DeleteNodes \/ DeleteEdges
    PROVE  ViewInv'
<1>1. /\ \A x \in Item : engine'[x] \in {Absent, engine[x]}
      /\ \A x \in Item : engine'[x] # engine[x] =>
           x \in toDelete \/ (x \in Edge /\ flush = "deleteNodes" /\ Ends[x] \cap toDelete # {})
      /\ flush \in {"deleteNodes", "deleteEdges"} /\ flush' \in {"deleteEdges", "writeNodes"}
      /\ UNCHANGED <<cache, deletes, baseline, toWrite, toDelete, bases, candidate, tried, done, replaced, last, loose>>
  BY DeleteEffect DEF historyVars
<1>2. ASSUME NEW x \in Item, engine'[x] # engine[x] PROVE x \in deletes \/ cache[x] # Absent \/ x \in loose
  <2>1. engine[x] # Absent
    BY <1>1, <1>2
  <2>2. CASE x \in toDelete
    BY <2>1, <2>2 DEF HideInv, Hidden
  <2>3. CASE x \in Edge /\ flush = "deleteNodes" /\ Ends[x] \cap toDelete # {}
    BY <2>1, <2>3 DEF ViewInv, LooseInv, Hidden
  <2> QED
    BY <1>1, <1>2, <2>2, <2>3
<1>3. ViewIsLast'
  BY <1>1, <1>2, SeenKept DEF ViewInv
<1>4. LooseInv'
  BY <1>1 DEF ViewInv, LooseInv
<1>5. WriteInv'
  BY <1>1 DEF WriteInv, TypeInv, PhaseInv
<1>6. BackInv'
  BY <1>1, Facts DEF ViewInv, BackInv, InFlight
<1> QED
  BY <1>3, <1>4, <1>5, <1>6 DEF ViewInv

\* The merge keeps the p of the update.
LEMMA ReadView ==
    ASSUME TypeInv, ViewInv, NEW n \in Node, ReadLatest(n)
    PROVE  ViewInv'
<1>1. /\ candidate' = [candidate EXCEPT ![n] = candidate'[n]]
      /\ candidate'[n].p = toWrite[n].p \/ (bases[n] # Absent /\ toWrite[n].p = bases[n].p
                                            /\ engine[n] # Absent /\ candidate'[n].p = engine[n].p)
      /\ n \in NodesLeft /\ InFlight(n)
      /\ UNCHANGED <<cache, deletes, baseline, engine, flush, toWrite, toDelete, bases, tried, done, replaced, last, loose>>
  BY CandidateFields DEF historyVars
<1>2. candidate'[n].p = toWrite[n].p
  BY <1>1 DEF ViewInv, BackInv, NodesLeft
<1>3. ViewIsLast'
  BY <1>1, SeenKept DEF ViewInv
<1>4. LooseInv'
  BY <1>1 DEF ViewInv, LooseInv, Hidden
<1>5. WriteInv'
  BY <1>1, <1>2 DEF ViewInv, WriteInv, TypeInv, FlushTypes
<1>6. BackInv'
  BY <1>1 DEF ViewInv, BackInv, InFlight
<1> QED
  BY <1>3, <1>4, <1>5, <1>6 DEF ViewInv

\* What the flush writes is queued, or marked: nobody sees the write.
LEMMA WriteView ==
    ASSUME TypeInv, HideInv, ViewInv, NEW n \in Node, WriteNode(n)
    PROVE  ViewInv'
<1>1. /\ candidate[n] # Absent /\ flush = "writeNodes"
      /\ InFlight(n)
      /\ \/ engine' = [engine EXCEPT ![n] = candidate[n]] /\ done' = done \cup {n}
         \/ engine' = engine /\ done' = done
      /\ tried' = tried \cup {n}
      /\ candidate' = [candidate EXCEPT ![n] = Absent]
      /\ UNCHANGED <<cache, deletes, baseline, flush, toWrite, toDelete, bases, replaced, last, loose>>
  BY WriteFields DEF historyVars
<1>2. n \in Item /\ candidate[n].p = toWrite[n].p
  BY <1>1, Facts DEF ViewInv, WriteInv
<1>3. /\ \A x \in Item \ {n} : engine'[x] = engine[x]
      /\ \/ engine'[n] = candidate[n] /\ done' = done \cup {n}
         \/ engine'[n] = engine[n] /\ done' = done
      /\ candidate'[n] = Absent /\ \A m \in Node \ {n} : candidate'[m] = candidate[m]
  BY <1>1, <1>2 DEF TypeInv, CacheTypes, FlushTypes
<1>4. n \in deletes \/ cache[n] # Absent
  BY <1>1, <1>2 DEF HideInv
<1>5. ViewIsLast'
  BY <1>1, <1>3, <1>4, SeenKept DEF ViewInv
<1>6. LooseInv'
  BY <1>1 DEF ViewInv, LooseInv
<1>7. WriteInv'
  BY <1>1, <1>2, <1>3 DEF ViewInv, WriteInv, TypeInv, FlushTypes
<1>8. BackInv'
  <2> SUFFICES ASSUME NEW m \in Node
               PROVE  /\ \A b \in baseline[m] : b # Absent /\ cache[m].p = b.p =>
                            /\ engine'[m] = Absent \/ engine'[m].p = b.p
                            /\ InFlight(m) => m \notin replaced
                      /\ InFlight(m) /\ m \notin tried' /\ bases[m] # Absent /\ toWrite[m].p = bases[m].p =>
                            engine'[m] = Absent \/ engine'[m].p = toWrite[m].p
    BY <1>1 DEF BackInv, InFlight
  <2>1. CASE m # n
    BY <1>1, <1>3, <2>1, Facts DEF ViewInv, BackInv
  <2>2. CASE m = n
    <3>1. ASSUME NEW b \in baseline[n], b # Absent, cache[n].p = b.p
          PROVE  (engine'[n] = Absent \/ engine'[n].p = b.p) /\ n \notin replaced
      <4>1. (engine[n] = Absent \/ engine[n].p = b.p) /\ n \notin replaced
        BY <1>1, <3>1 DEF ViewInv, BackInv
      <4>2. cache[n] = toWrite[n]
        BY <1>1, <1>2, <3>1, <4>1 DEF HideInv, TypeInv, CacheTypes
      <4> QED
        BY <1>2, <1>3, <3>1, <4>1, <4>2
    <3> QED
      BY <1>1, <2>2, <3>1
  <2> QED
    BY <2>1, <2>2
<1> QED
  BY <1>5, <1>6, <1>7, <1>8 DEF ViewInv

\* So with the edges.
LEMMA EdgesView ==
    ASSUME TypeInv, HideInv, ViewInv, WriteEdges
    PROVE  ViewInv'
<1>1. /\ flush' = "clear" /\ \A n \in Node : candidate[n] = Absent
      /\ UNCHANGED <<cache, deletes, baseline, toWrite, toDelete, bases, candidate, tried, replaced, last, loose>>
  BY EdgesFields DEF historyVars
<1>2. PICK ok \in SUBSET ({e \in Edge : InFlight(e)} \ toDelete) :
                 /\ engine' = [x \in Item |-> IF x \in ok THEN toWrite[x] ELSE engine[x]]
                 /\ done' = done \cup ok
  BY EdgesFields
<1>3. ViewIsLast'
  <2>1. \A x \in Item : engine'[x] = engine[x] \/ x \in deletes \/ cache[x] # Absent
    BY <1>2 DEF HideInv
  <2> QED
    BY <1>1, <2>1, SeenKept DEF ViewInv
<1>4. LooseInv'
  BY <1>1 DEF ViewInv, LooseInv
<1>5. WriteInv'
  BY <1>1, <1>2, Facts DEF ViewInv, WriteInv, TypeInv, FlushTypes
<1>6. BackInv'
  <2>1. \A n \in Node : engine'[n] = engine[n]
    BY <1>2, Facts
  <2> QED
    BY <1>1, <2>1 DEF ViewInv, BackInv, InFlight
<1> QED
  BY <1>3, <1>4, <1>5, <1>6 DEF ViewInv

\* What leaves the cache is what the engine has got.
LEMMA ClearView ==
    ASSUME TypeInv, HideInv, ViewInv, ClearFlushed
    PROVE  ViewInv'
<1>1. /\ flush' = "idle" /\ deletes' = deletes \ gone /\ done' = {}
      /\ cache' = [x \in Item |-> IF Cleared(x) THEN Absent ELSE cache[x]]
      /\ baseline' = [n \in Node |-> BaselineAfterFlush(n)]
      /\ toWrite' = [x \in Item |-> Absent] /\ UNCHANGED <<engine, candidate, last, loose>>
      /\ \A n \in Node : candidate[n] = Absent
  BY DEF ClearFlushed, historyVars, TypeInv, PhaseInv
<1>2. ASSUME NEW x \in Item PROVE View(x)'.p = View(x).p
  <2>1. CASE x \in deletes
    BY <1>1, <2>1 DEF View, HideInv, TypeInv, PhaseInv
  <2>2. CASE x \notin deletes /\ Cleared(x)
    <3>1. x \in done /\ InFlight(x) /\ cache[x] = toWrite[x] /\ cache[x] # Absent
      BY <2>2 DEF Cleared, TypeInv, PhaseInv, HideInv
    <3>2. engine[x].p = toWrite[x].p
      BY <3>1 DEF ViewInv, WriteInv
    <3> QED
      BY <1>1, <2>2, <3>1, <3>2 DEF View
  <2>3. CASE x \notin deletes /\ ~Cleared(x)
    BY <1>1, <2>3 DEF View
  <2> QED
    BY <2>1, <2>2, <2>3
<1>3. ViewIsLast'
  BY <1>1, <1>2, Facts DEF ViewInv, ViewIsLast
<1>4. LooseInv'
  BY <1>1 DEF ViewInv, LooseInv
<1>5. WriteInv'
  BY <1>1 DEF WriteInv
<1>6. BackInv'
  <2>1. ASSUME NEW n \in Node, NEW b \in baseline'[n] PROVE b \in baseline[n] /\ cache'[n] = cache[n]
    BY <1>1, <2>1, Facts DEF BaselineAfterFlush
  <2> QED
    BY <1>1, <2>1, Facts DEF ViewInv, BackInv, InFlight
<1> QED
  BY <1>3, <1>4, <1>5, <1>6 DEF ViewInv

\* What a reader sees is inductive.
LEMMA NextViewInv ==
    ASSUME TypeInv, HideInv, ViewInv, [Next]_vars, Hazards \cap {"revive", "drop", "back"} = {}
    PROVE  ViewInv'
<1>1. CASE CallOnly \/ UNCHANGED vars
  <2>1. UNCHANGED <<cache, deletes, baseline, engine, flush, toWrite, toDelete, bases, candidate, tried, done,
                    replaced, last, loose>>
    BY <1>1 DEF CallOnly, vars, cacheVars, flushVars, historyVars
  <2>2. ViewIsLast'
    BY <2>1, SeenKept DEF ViewInv
  <2>3. LooseInv' /\ WriteInv'
    BY <2>1 DEF ViewInv, LooseInv, WriteInv, Hidden
  <2>4. BackInv'
    BY <2>1 DEF ViewInv, BackInv, InFlight
  <2> QED
    BY <2>2, <2>3, <2>4 DEF ViewInv
<1>2. ASSUME NEW x \in Item, NEW c \in Contents', Queue(x, c), Guarded(x, c) PROVE ViewInv'
  BY <1>2, QueueView
<1>3. CASE CacheStep
  BY <1>1, <1>2, <1>3, CacheStepKinds
<1>4. CASE \E n \in Node : TransactionCommit(n)
  BY <1>4, CommitView
<1>5. CASE FlushStep
  BY <1>5, SnapshotView, DeleteView, ReadView, WriteView, EdgesView, ClearView DEF FlushStep
<1> QED
  BY <1>1, <1>3, <1>4, <1>5, NextSteps

\* GetNode and GetEdge see the last write of every item, at every point of a
\* flush and whatever is written, deleted or created again while it runs; but
\* for edges of a deleted node, and provided that no update revives a deleted
\* item, restores the value its baseline has, or is dropped from the queue.
THEOREM ReadersSeeLastWrite ==
    ASSUME Hazards \cap {"revive", "drop", "back"} = {}
    PROVE  Spec => []ViewIsLast
<1>1. Hazards \cap {"revive", "drop"} = {}
  OBVIOUS
<1>2. Init => TypeInv /\ HideInv /\ ViewInv
  BY InitTypeInv, InitHideInv, InitViewInv
<1>3. TypeInv /\ HideInv /\ ViewInv /\ [Next]_vars => (TypeInv /\ HideInv /\ ViewInv)'
  BY <1>1, NextTypeInv, NextHideInv, NextViewInv
<1>4. ViewInv => ViewIsLast
  BY DEF ViewInv
<1> QED
  BY <1>2, <1>3, <1>4, PTL DEF Spec

-----------------------------------------------------------------------------
(***************************************************************************)
(* What transactions have committed, as long as no update without a        *)
(* baseline meets one, and none commits between the flush's read of a node *)
(* and its write.                                                          *)
(***************************************************************************)
\* A step of the caches that begins no update, and queues for a node nothing
\* or a content without q and without a baseline.
Plain ==
    /\ call' = call \/ call'.op # "update"
    /\ \A n \in Node : \/ cache'[n] = cache[n] /\ baseline'[n] = baseline[n]
                       \/ cache'[n].q = 0 /\ baseline'[n] = {}
    /\ UNCHANGED <<engine, flushVars, commits>>

\* All but updates of nodes.
LEMMA PlainSteps ==
    ASSUME TypeInv, CacheStep
    PROVE  \/ Plain
           \/ \E n \in Node : BeginUpdate(n) \/ UpdateNodeEmbedding(n)
           \/ \E v \in 1 .. Fresh : FinishUpdate(v)
<1> USE DEF Plain, cacheVars
<1>0. /\ cache \in [Item -> Contents] /\ baseline \in [Node -> SUBSET Contents]
      /\ Absent.q = 0 /\ Node \subseteq Item /\ Edge \subseteq Item /\ Node \cap Edge = {}
  BY Facts DEF TypeInv, CacheTypes
<1>1. ASSUME NEW n \in Node, CreateNode(n) PROVE Plain
  <2>1. [p |-> Fresh, q |-> 0].q = 0
    OBVIOUS
  <2>2. /\ cache' = [cache EXCEPT ![n] = [p |-> Fresh, q |-> 0]]
        /\ baseline' = [baseline EXCEPT ![n] = {}] /\ UNCHANGED <<call, engine, flushVars, commits>>
    BY <1>1 DEF CreateNode, Put
  <2> QED
    BY <1>0, <2>1, <2>2
<1>2. ASSUME NEW n \in Node, DeleteNode(n) PROVE Plain
  BY <1>0, <1>2 DEF DeleteNode, DropQueued
<1>3. ASSUME FinishDelete PROVE Plain
  <2>1. call.node \in Node /\ call' = Nobody
    BY <1>3 DEF FinishDelete, TypeInv, CacheTypes, CallType, Nobody
  <2>2. call'.op # "update"
    BY <2>1 DEF Nobody
  <2> QED
    BY <1>0, <1>3, <2>1, <2>2 DEF FinishDelete, DropQueued
<1>4. ASSUME NEW e \in Edge, CreateEdge(e) \/ UpdateEdge(e) \/ DeleteEdge(e) PROVE Plain
  BY <1>0, <1>4 DEF CreateEdge, UpdateEdge, DeleteEdge, DropQueued, Put
<1>5. ASSUME NEW x \in Item, BulkDelete(x) PROVE Plain
  BY <1>0, <1>5 DEF BulkDelete
<1> QED
  BY <1>1, <1>2, <1>3, <1>4, <1>5 DEF CacheStep

\* Nothing is queued at first.
LEMMA InitCommitInv == Init => CommitInv
<1> SUFFICES ASSUME Init PROVE CommitInv
  OBVIOUS
<1>1. call.op # "update"
  BY DEF Init, Nobody
<1>2. /\ \A n \in Node : baseline[n] = {} /\ cache[n] = Absent /\ candidate[n] = Absent
      /\ \A n \in Node : ~InFlight(n) /\ ~Updating(n)
  BY <1>1, InitTypeInv, Facts DEF Init, InFlight, Updating
<1>3. BaseInv
  BY <1>1, <1>2 DEF BaseInv
<1>4. UnbasedInv
  BY <1>2 DEF UnbasedInv, Underway
<1>5. NoneInv
  BY <1>2 DEF NoneInv, Underway
<1> QED
  BY <1>3, <1>4, <1>5 DEF CommitInv

\* A step that begins no update.
LEMMA PlainCommit ==
    ASSUME TypeInv, CommitInv, Plain
    PROVE  CommitInv'
<1> USE DEF Plain, flushVars
<1>1. \A n \in Node : Updating(n)' => Updating(n) /\ call' = call
  BY DEF Updating
<1>2. \A n \in Node : Underway(n)' <=> Underway(n)
  BY DEF Underway, InFlight
<1>3. BaseInv'
  BY <1>1 DEF CommitInv, BaseInv, InFlight
<1>4. UnbasedInv'
  BY <1>2 DEF CommitInv, UnbasedInv, Same
<1>5. NoneInv'
  BY <1>1, <1>2 DEF CommitInv, NoneInv, Same
<1> QED
  BY <1>3, <1>4, <1>5 DEF CommitInv

\* An update begins: it has read the queued content or, if nothing is queued,
\* the engine.
LEMMA BeginCommit ==
    ASSUME TypeInv, HideInv, CommitInv, NEW n \in Node, BeginUpdate(n)
    PROVE  CommitInv'
<1>1. /\ View(n) # Absent
      /\ call' = [op |-> "update", node |-> n, q |-> View(n).q,
                  base |-> IF cache[n] = Absent /\ baseline[n] = {} THEN engine[n] ELSE Absent]
      /\ UNCHANGED <<cache, deletes, baseline, engine, flush, toWrite, toDelete, bases, candidate, tried, done, gone>>
  BY DEF BeginUpdate, cacheVars, flushVars
<1>2. /\ call'.op = "update" /\ call'.node = n /\ call'.q = View(n).q
      /\ call'.base = IF cache[n] = Absent /\ baseline[n] = {} THEN engine[n] ELSE Absent
  BY <1>1
<1>3. n \notin deletes /\ n \in Item /\ (cache[n] # Absent => View(n) = cache[n]) /\ (cache[n] = Absent => View(n) = engine[n])
  BY <1>1, Facts DEF View
<1>4. baseline[n] # {} => cache[n] # Absent
  BY DEF TypeInv, CacheTypes
<1>5. \A m \in Node : (Updating(m)' => m = n) /\ (Underway(m)' <=> Underway(m))
  BY <1>1, <1>2 DEF Updating, Underway, InFlight
<1>6. BaseInv'
  BY <1>1, <1>2, <1>3, <1>4, <1>5 DEF CommitInv, BaseInv, InFlight
<1>7. UnbasedInv'
  BY <1>1, <1>5 DEF CommitInv, UnbasedInv
<1>8. NoneInv'
  <2>1. ASSUME NEW m \in Node, engine[m].q = 0, Underway(m) PROVE Same(cache[m].q, toWrite[m].q)
    BY <2>1 DEF CommitInv, NoneInv
  <2>2. ASSUME engine[n] = Absent \/ n \in toDelete
        PROVE  Same(View(n).q, cache[n].q) /\ (Underway(n) => Same(View(n).q, toWrite[n].q))
    <3>1. cache[n] # Absent /\ View(n).q = cache[n].q
      BY <1>1, <1>3, <2>2 DEF HideInv, Hidden
    <3>2. Underway(n) => engine[n].q = 0
      BY <1>3, <2>2, Facts DEF HideInv, Underway
    <3> QED
      BY <2>1, <3>1, <3>2 DEF Same
  <2> QED
    BY <1>1, <1>2, <1>5, <2>1, <2>2 DEF NoneInv
<1> QED
  BY <1>6, <1>7, <1>8 DEF CommitInv

\* An embedding is put on the queued content, or on the engine's.
LEMMA EmbedCommit ==
    ASSUME TypeInv, HideInv, CommitInv, NEW n \in Node, UpdateNodeEmbedding(n)
    PROVE  CommitInv'
<1>1. /\ n \notin deletes
      /\ cache[n] # Absent \/ InFlight(n) \/ engine[n] # Absent
      /\ cache' = [cache EXCEPT ![n] = [p |-> Fresh, q |-> View(n).q]]
      /\ UNCHANGED <<deletes, baseline, call, engine, flush, toWrite, toDelete, bases, candidate, tried, done, gone>>
  BY DEF UpdateNodeEmbedding, Put, flushVars
<1>2. n \in Item /\ cache \in [Item -> Contents] /\ Node \subseteq Item
  BY Facts DEF TypeInv, CacheTypes
<1>3. cache'[n].q = View(n).q /\ \A m \in Node \ {n} : cache'[m] = cache[m]
  BY <1>1, <1>2
<1>4. \A m \in Node : (Updating(m)' <=> Updating(m)) /\ (Underway(m)' <=> Underway(m))
  BY <1>1 DEF Updating, Underway, InFlight
<1>5. CASE cache[n] # Absent
  <2>1. \A m \in Node : cache'[m].q = cache[m].q /\ (cache'[m] # Absent => cache[m] # Absent)
    BY <1>1, <1>3, <1>5 DEF View
  <2>2. BaseInv'
    BY <1>1, <1>4, <2>1 DEF CommitInv, BaseInv, InFlight
  <2>3. UnbasedInv'
    BY <1>1, <1>4, <2>1 DEF CommitInv, UnbasedInv
  <2>4. NoneInv'
    BY <1>1, <1>4, <2>1 DEF CommitInv, NoneInv
  <2> QED
    BY <2>2, <2>3, <2>4 DEF CommitInv
<1>6. CASE cache[n] = Absent
  <2>1. /\ baseline[n] = {} /\ ~Underway(n) /\ engine[n] # Absent /\ n \notin toDelete
        /\ cache'[n].q = engine[n].q
    BY <1>1, <1>2, <1>3, <1>6 DEF View, HideInv, Hidden, Underway, TypeInv, CacheTypes
  <2>2. BaseInv'
    BY <1>1, <1>3, <1>4, <2>1 DEF CommitInv, BaseInv, InFlight
  <2>3. UnbasedInv'
    BY <1>1, <1>3, <1>4, <2>1 DEF CommitInv, UnbasedInv, Same
  <2>4. NoneInv'
    BY <1>1, <1>3, <1>4, <2>1 DEF CommitInv, NoneInv
  <2> QED
    BY <2>2, <2>3, <2>4 DEF CommitInv
<1> QED
  BY <1>5, <1>6

\* An update is queued.
LEMMA FinishCommit ==
    ASSUME TypeInv, HideInv, CommitInv, Hazards \cap {"revive", "nobase"} = {},
           NEW v \in 1 .. Fresh, FinishUpdate(v)
    PROVE  CommitInv'
<1> DEFINE n == call.node
           base == IF baseline[n] = {} /\ cache[n] = Absent THEN {call.base} ELSE baseline[n]
<1>1. /\ n \in Node /\ n \in Item /\ call.op = "update" /\ n \notin deletes
      /\ base \subseteq {Absent} => engine[n] = Absent \/ engine[n].q = call.q
      /\ cache' = [cache EXCEPT ![n] = [p |-> v, q |-> call.q]]
      /\ baseline' = [baseline EXCEPT ![n] = base] /\ call' = Nobody
      /\ UNCHANGED <<deletes, engine, flush, toWrite, toDelete, bases, candidate, tried, done, gone>>
  BY Facts DEF FinishUpdate, Put, flushVars, TypeInv, CacheTypes, CallType, Nobody
<1>2. /\ cache \in [Item -> Contents] /\ baseline \in [Node -> SUBSET Contents] /\ Node \subseteq Item
      /\ baseline[n] = {} \/ (cache[n] # Absent /\ \E b \in Contents : baseline[n] = {b})
  BY <1>1, Facts DEF TypeInv, CacheTypes
<1> HIDE DEF base
<1>3. /\ cache'[n].q = call.q /\ baseline'[n] = base
      /\ \A m \in Node \ {n} : cache'[m] = cache[m] /\ baseline'[m] = baseline[m]
  BY <1>1, <1>2
<1>4. call'.op # "update"
  BY <1>1 DEF Nobody
<1>5. \A m \in Node : (~Updating(m)') /\ (Underway(m)' <=> Underway(m))
  BY <1>1, <1>4 DEF Updating, Underway, InFlight
<1>6. \A b \in base : b # Absent => call.q = b.q
  BY <1>1 DEF base, CommitInv, BaseInv, Updating
<1>7. base \subseteq {Absent} => Same(engine[n].q, call.q)
  BY <1>1, Facts DEF Same
<1>8. engine[n].q = 0 /\ Underway(n) => Same(call.q, toWrite[n].q)
  <2> SUFFICES ASSUME engine[n].q = 0, Underway(n) PROVE Same(call.q, toWrite[n].q)
    OBVIOUS
  <2>1. cache[n] # Absent /\ base = baseline[n]
    BY <1>1 DEF Underway, HideInv, base
  <2>2. CASE base \subseteq {Absent}
    BY <1>1, <2>2 DEF CommitInv, NoneInv, Updating, Same
  <2>3. CASE ~(base \subseteq {Absent})
    <3>1. PICK b \in baseline[n] : b # Absent
      BY <2>1, <2>3
    <3>2. cache[n].q = b.q /\ call.q = b.q
      BY <1>1, <1>6, <2>1, <3>1 DEF CommitInv, BaseInv
    <3> QED
      BY <1>1, <3>2 DEF CommitInv, NoneInv
  <2> QED
    BY <2>2, <2>3
<1> HIDE DEF n
<1>9. BaseInv'
  BY <1>1, <1>3, <1>4, <1>5, <1>6 DEF CommitInv, BaseInv, InFlight
<1>10. UnbasedInv'
  BY <1>1, <1>3, <1>5, <1>7 DEF CommitInv, UnbasedInv
<1>11. NoneInv'
  BY <1>1, <1>3, <1>5, <1>8 DEF CommitInv, NoneInv
<1> QED
  BY <1>9, <1>10, <1>11 DEF CommitInv

\* A transaction commits to a node that no update without a baseline is under
\* way for.
LEMMA TransactionCommitInv ==
    ASSUME TypeInv, CommitInv, Hazards \cap {"nobase", "window"} = {},
           NEW n \in Node, TransactionCommit(n)
    PROVE  CommitInv'
<1>1. /\ engine[n] # Absent /\ engine' = [engine EXCEPT ![n] = engine'[n]]
      /\ engine'[n].q = commits + 2 /\ engine'[n] # Absent
      /\ UNCHANGED <<cache, deletes, baseline, call, flushVars>>
  BY CommitFields
<1>2. ~Unbased(n) /\ candidate[n] = Absent
  BY DEF TransactionCommit
<1>3. engine'[n].q # 0 /\ n \in Item /\ \A m \in Node \ {n} : engine'[m] = engine[m]
  BY <1>1, Facts DEF TypeInv, CacheTypes
<1>4. BaseInv'
  BY <1>1 DEF CommitInv, BaseInv, flushVars, Updating, InFlight
<1>5. UnbasedInv'
  BY <1>1, <1>2, <1>3 DEF CommitInv, UnbasedInv, flushVars, Underway, InFlight, Unbased
<1>6. NoneInv'
  BY <1>1, <1>2, <1>3 DEF CommitInv, NoneInv, flushVars, Underway, InFlight, Updating
<1> QED
  BY <1>4, <1>5, <1>6 DEF CommitInv

\* The snapshot takes the baselines.
LEMMA SnapshotCommit ==
    ASSUME TypeInv, HideInv, CommitInv, TakeSnapshot
    PROVE  CommitInv'
<1>1. /\ toWrite' = cache /\ toDelete' = deletes /\ tried' = {}
      /\ bases' = [n \in Node |-> IF baseline[n] = {} THEN Absent ELSE CHOOSE b \in baseline[n] : TRUE]
      /\ candidate' = [n \in Node |-> Absent]
      /\ UNCHANGED <<cache, deletes, baseline, engine, call>>
  BY DEF TakeSnapshot, cacheVars
<1>2. ASSUME NEW n \in Node
      PROVE  /\ bases'[n] # Absent => bases'[n] \in baseline[n]
             /\ bases'[n] = Absent => baseline[n] \subseteq {Absent}
             /\ n \in deletes => cache[n] = Absent
  <2>1. baseline[n] = {} \/ \E b \in Contents : baseline[n] = {b}
    BY DEF TypeInv, CacheTypes
  <2> QED
    BY <1>1, <2>1, Facts DEF HideInv
<1>3. \A n \in Node : (Underway(n)' => cache[n] # Absent) /\ (Updating(n)' <=> Updating(n))
  BY <1>1 DEF Underway, InFlight, Updating
<1>4. BaseInv'
  BY <1>1, <1>2, <1>3 DEF CommitInv, BaseInv, InFlight
<1>5. UnbasedInv'
  BY <1>1, <1>2, <1>3 DEF CommitInv, UnbasedInv
<1>6. NoneInv'
  BY <1>1, <1>2, <1>3, Facts DEF CommitInv, NoneInv, Same
<1> QED
  BY <1>4, <1>5, <1>6 DEF CommitInv

\* The deletes of a flush.
LEMMA DeleteCommit ==
    ASSUME TypeInv, HideInv, CommitInv, DeleteNodes \/ DeleteEdges
    PROVE  CommitInv'
<1>1. /\ \A n \in Node : engine'[n] \in {Absent, engine[n]} /\ (engine'[n] # engine[n] => n \in toDelete)
      /\ \A n \in Node : candidate[n] = Absent
      /\ UNCHANGED <<cache, deletes, baseline, call, toWrite, toDelete, bases, candidate, tried, done>>
  BY DeleteEffect, Facts DEF TypeInv, PhaseInv
<1>2. \A n \in Node : (Underway(n)' <=> Underway(n)) /\ (Updating(n)' <=> Updating(n))
  BY <1>1 DEF Underway, InFlight, Updating
<1>3. \A n \in Node : n \in toDelete => ~Underway(n)
  BY Facts DEF HideInv, Underway
<1>4. BaseInv'
  BY <1>1, <1>2 DEF CommitInv, BaseInv, InFlight
<1>5. UnbasedInv'
  BY <1>1, <1>2, Facts DEF CommitInv, UnbasedInv, Same
<1>6. NoneInv'
  BY <1>1, <1>2, <1>3 DEF CommitInv, NoneInv
<1> QED
  BY <1>4, <1>5, <1>6 DEF CommitInv

\* The merge takes the engine's q for an update with a baseline.
LEMMA ReadCommit ==
    ASSUME TypeInv, CommitInv, NEW n \in Node, ReadLatest(n)
    PROVE  CommitInv'
<1>1. /\ candidate' = [candidate EXCEPT ![n] = candidate'[n]]
      /\ candidate'[n].q = toWrite[n].q \/ (bases[n] # Absent /\ toWrite[n].q = bases[n].q
                                            /\ engine[n] # Absent /\ candidate'[n].q = engine[n].q)
      /\ bases[n] # Absent /\ engine[n] # Absent /\ toWrite[n].q = bases[n].q => candidate'[n].q = engine[n].q
      /\ n \in NodesLeft /\ InFlight(n)
      /\ UNCHANGED <<cache, deletes, baseline, engine, call, flush, toWrite, toDelete, bases, tried, done, gone>>
  BY CandidateFields
<1>2. \A m \in Node \ {n} : candidate'[m] = candidate[m]
  BY <1>1 DEF TypeInv, FlushTypes
<1>3. Same(engine[n].q, candidate'[n].q) /\ candidate'[n].q \in {toWrite[n].q, engine[n].q}
  <2>1. Underway(n)
    BY <1>1 DEF NodesLeft, Underway
  <2>2. CASE bases[n] = Absent
    BY <1>1, <2>1, <2>2 DEF CommitInv, UnbasedInv
  <2>3. CASE bases[n] # Absent /\ engine[n] = Absent
    BY <1>1, <2>3, Facts DEF Same
  <2>4. CASE bases[n] # Absent /\ engine[n] # Absent
    BY <1>1, <2>4 DEF CommitInv, BaseInv, Same
  <2> QED
    BY <2>2, <2>3, <2>4
<1>4. \A m \in Node : (Underway(m)' <=> Underway(m)) /\ (Updating(m)' <=> Updating(m))
  BY <1>1 DEF Underway, InFlight, Updating
<1>5. BaseInv'
  BY <1>1, <1>4 DEF CommitInv, BaseInv, InFlight
<1>6. UnbasedInv'
  BY <1>1, <1>2, <1>3, <1>4 DEF CommitInv, UnbasedInv
<1>7. NoneInv'
  BY <1>1, <1>4 DEF CommitInv, NoneInv
<1> QED
  BY <1>5, <1>6, <1>7 DEF CommitInv

\* The flush writes what it read, or what was queued.
LEMMA WriteCommit ==
    ASSUME TypeInv, HideInv, CommitInv, NEW n \in Node, WriteNode(n)
    PROVE  CommitInv'
<1>1. /\ candidate[n] # Absent
      /\ InFlight(n) /\ n \notin toDelete /\ n \notin tried
      /\ engine' = [engine EXCEPT ![n] = candidate[n]] \/ engine' = engine
      /\ tried' = tried \cup {n}
      /\ candidate' = [candidate EXCEPT ![n] = Absent]
      /\ UNCHANGED <<cache, deletes, baseline, call, flush, toWrite, toDelete, bases, gone>>
  BY WriteFields
<1>2. /\ n \in Item /\ \A m \in Node \ {n} : engine'[m] = engine[m]
      /\ engine'[n] \in {candidate[n], engine[n]}
      /\ candidate'[n] = Absent /\ \A m \in Node \ {n} : candidate'[m] = candidate[m]
  BY <1>1, Facts DEF TypeInv, CacheTypes, FlushTypes
<1>3. \A m \in Node : (Underway(m)' <=> Underway(m) /\ m # n) /\ (Updating(m)' <=> Updating(m))
  BY <1>1 DEF Underway, InFlight, Updating
<1>4. cache[n] # Absent /\ baseline[n] \subseteq {Absent} => Same(engine'[n].q, cache[n].q)
  <2> SUFFICES ASSUME cache[n] # Absent, baseline[n] \subseteq {Absent} PROVE Same(engine'[n].q, cache[n].q)
    OBVIOUS
  <2>1. Same(engine[n].q, cache[n].q)
    BY DEF CommitInv, UnbasedInv
  <2>2. Same(engine[n].q, candidate[n].q) /\ candidate[n].q \in {toWrite[n].q, engine[n].q}
    BY <1>1 DEF CommitInv, UnbasedInv
  <2>3. engine[n].q = 0 => Same(cache[n].q, toWrite[n].q)
    BY <1>1 DEF CommitInv, NoneInv, Underway
  <2> QED
    BY <1>2, <2>1, <2>2, <2>3 DEF Same
<1>5. BaseInv'
  BY <1>1, <1>3 DEF CommitInv, BaseInv, InFlight
<1>6. UnbasedInv'
  BY <1>1, <1>2, <1>3, <1>4 DEF CommitInv, UnbasedInv
<1>7. NoneInv'
  BY <1>1, <1>2, <1>3 DEF CommitInv, NoneInv
<1> QED
  BY <1>5, <1>6, <1>7 DEF CommitInv

\* The flush ends.
LEMMA ClearCommit ==
    ASSUME TypeInv, HideInv, CommitInv, ClearFlushed
    PROVE  CommitInv'
<1>1. /\ \A n \in Node : candidate'[n] = Absent /\ bases'[n] = Absent
      /\ \A x \in Item : ~InFlight(x)'
      /\ toDelete' = {} /\ UNCHANGED <<engine, call>>
  BY DEF ClearFlushed, TypeInv, PhaseInv, InFlight
<1>2. ASSUME NEW n \in Node
      PROVE  /\ cache'[n] \in {Absent, cache[n]}
             /\ cache'[n] # Absent => baseline'[n] = baseline[n] /\ cache'[n] = cache[n]
             /\ baseline'[n] # {} => cache'[n] = cache[n] /\ baseline'[n] = baseline[n]
             /\ (Updating(n)' <=> Updating(n)) /\ ~Underway(n)'
  <2>1. n \in Item /\ (n \in deletes => cache[n] = Absent)
    BY Facts DEF HideInv
  <2>2. cache'[n] = (IF Cleared(n) THEN Absent ELSE cache[n]) /\ baseline'[n] = BaselineAfterFlush(n)
    BY <2>1 DEF ClearFlushed
  <2> QED
    BY <1>1, <2>1, <2>2 DEF BaselineAfterFlush, Updating, Underway
<1>3. BaseInv'
  BY <1>1, <1>2 DEF CommitInv, BaseInv
<1>4. UnbasedInv'
  BY <1>1, <1>2 DEF CommitInv, UnbasedInv
<1>5. NoneInv'
  BY <1>1, <1>2, Facts DEF CommitInv, NoneInv, Same
<1> QED
  BY <1>3, <1>4, <1>5 DEF CommitInv

\* Nodes are not written with the edges.
LEMMA EdgesCommit ==
    ASSUME TypeInv, CommitInv, WriteEdges
    PROVE  CommitInv' /\ \A n \in Node : engine'[n] = engine[n]
<1>1. UNCHANGED <<cache, deletes, baseline, call, toWrite, toDelete, bases, candidate, tried, gone>>
  BY EdgesFields
<1>2. \A n \in Node : engine'[n] = engine[n]
  BY EdgesFields, Facts
<1>3. BaseInv'
  BY <1>1 DEF CommitInv, BaseInv, InFlight, Updating
<1>4. UnbasedInv'
  BY <1>1, <1>2 DEF CommitInv, UnbasedInv, InFlight, Underway
<1>5. NoneInv'
  BY <1>1, <1>2 DEF CommitInv, NoneInv, InFlight, Underway, Updating
<1> QED
  BY <1>2, <1>3, <1>4, <1>5 DEF CommitInv

\* What updates carry of the transactions' writes is inductive.
LEMMA NextCommitInv ==
    ASSUME TypeInv, HideInv, CommitInv, [Next]_vars, Hazards \cap {"revive", "drop", "nobase", "window"} = {}
    PROVE  CommitInv'
<1>1. CASE UNCHANGED vars
  BY <1>1, PlainCommit DEF vars, cacheVars, Plain
<1>2. CASE CacheStep
  BY <1>2, PlainSteps, PlainCommit, BeginCommit, EmbedCommit, FinishCommit
<1>3. CASE \E n \in Node : TransactionCommit(n)
  BY <1>3, TransactionCommitInv
<1>4. CASE FlushStep
  BY <1>4, SnapshotCommit, DeleteCommit, ReadCommit, WriteCommit, EdgesCommit, ClearCommit DEF FlushStep
<1> QED
  BY <1>1, <1>2, <1>3, <1>4, NextSteps

\* What a step does to the q of a node that stays.
KeepsCommits ==
    \A n \in Node :
        engine[n] # Absent /\ engine'[n] # Absent /\ engine'[n].q # 0 => engine'[n].q >= engine[n].q

\* A transaction's q is the highest; a flush writes the engine's own, or none.
LEMMA StepKeepsCommits ==
    ASSUME TypeInv, CommitInv, [Next]_vars
    PROVE  KeepsCommits
<1>0. \A n \in Node : engine[n].q \in 0 .. commits + 1 /\ n \in Item /\ engine[n].q >= engine[n].q
  BY Facts, ViewType
<1>1. CASE engine' = engine
  BY <1>0, <1>1 DEF KeepsCommits
<1>2. ASSUME CacheStep PROVE engine' = engine
  BY <1>2, CacheStepKinds DEF CallOnly, Queue
<1>3. ASSUME NEW n \in Node, TransactionCommit(n) PROVE KeepsCommits
  <2>1. engine' = [engine EXCEPT ![n] = engine'[n]] /\ engine'[n].q = commits + 2
    BY <1>3, CommitFields
  <2>2. \A m \in Node \ {n} : engine'[m] = engine[m]
    BY <1>0, <2>1 DEF TypeInv, CacheTypes
  <2>3. engine'[n].q >= engine[n].q
    BY <1>0, <2>1, Facts
  <2> QED
    BY <1>0, <2>2, <2>3 DEF KeepsCommits
<1>4. ASSUME DeleteNodes \/ DeleteEdges PROVE KeepsCommits
  <2>1. \A n \in Node : engine'[n] \in {Absent, engine[n]}
    BY <1>0, <1>4, DeleteEffect
  <2> QED
    BY <1>0, <2>1 DEF KeepsCommits
<1>5. ASSUME NEW n \in Node, WriteNode(n) PROVE KeepsCommits
  <2>1. candidate[n] # Absent /\ (engine' = [engine EXCEPT ![n] = candidate[n]] \/ engine' = engine)
    BY <1>5, WriteFields
  <2>2. engine'[n] \in {candidate[n], engine[n]} /\ \A m \in Node \ {n} : engine'[m] = engine[m]
    BY <1>0, <2>1 DEF TypeInv, CacheTypes
  <2>3. Same(engine[n].q, candidate[n].q)
    BY <2>1 DEF CommitInv, UnbasedInv
  <2>4. candidate[n].q \in 0 .. commits + 1
    BY Facts DEF TypeInv, FlushTypes
  <2>5. engine'[n].q # 0 => engine'[n].q >= engine[n].q
    BY <1>0, <2>2, <2>3, <2>4, Facts DEF Same
  <2> QED
    BY <1>0, <2>2, <2>5 DEF KeepsCommits
<1>6. ASSUME WriteEdges PROVE KeepsCommits
  BY <1>0, <1>6, EdgesCommit DEF KeepsCommits
<1>7. ASSUME TakeSnapshot \/ (\E n \in Node : ReadLatest(n)) \/ ClearFlushed PROVE engine' = engine
  BY <1>7 DEF TakeSnapshot, ReadLatest, ClearFlushed
<1>8. ASSUME UNCHANGED vars PROVE engine' = engine
  BY <1>8 DEF vars
<1> QED
  BY <1>1, <1>2, <1>3, <1>4, <1>5, <1>6, <1>7, <1>8, NextSteps DEF FlushStep

\* No flush takes back what a transaction has committed to a node, unless by
\* creating it anew: rebaseNodeUpdate merges the queued update with what the
\* engine has got since the baseline.  It is so as long as updates have a
\* baseline whenever a transaction may meet them, none commits in the window
\* between the flush's read and its write, and no item is revived or dropped.
THEOREM CommitsAreKept ==
    ASSUME Hazards \cap {"revive", "drop", "nobase", "window"} = {}
    PROVE  Spec => CommittedKept
<1>1. Hazards \cap {"revive", "drop"} = {}
  OBVIOUS
<1>2. Init => TypeInv /\ HideInv /\ CommitInv
  BY InitTypeInv, InitHideInv, InitCommitInv
<1>3. TypeInv /\ HideInv /\ CommitInv /\ [Next]_vars => (TypeInv /\ HideInv /\ CommitInv)'
  BY <1>1, NextTypeInv, NextHideInv, NextCommitInv
<1>4. TypeInv /\ HideInv /\ CommitInv /\ [Next]_vars => [KeepsCommits]_engine
  BY StepKeepsCommits
<1>5. Spec => [][KeepsCommits]_engine
  BY <1>2, <1>3, <1>4, PTL DEF Spec
<1> QED
  BY <1>5 DEF CommittedKept, KeepsCommits
=============================================================================
