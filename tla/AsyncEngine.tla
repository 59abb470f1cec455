----------------------------- MODULE AsyncEngine -----------------------------
(***************************************************************************)
(* The write-behind engine (pkg/storage/async_engine.go): writes go to     *)
(* caches and return; a flush takes a snapshot of the caches, releases the *)
(* lock, writes the snapshot to the engine below and then clears what it   *)
(* wrote.  Beside it, explicit transactions commit to the engine below     *)
(* directly; a flush merges a queued node update with what they committed, *)
(* by the baseline taken when the update was queued (rebaseNodeUpdate).    *)
(*                                                                         *)
(* The content of a node has two properties: p is written through the      *)
(* caches, q by transactions only, but an update carries the q its caller  *)
(* has read.  Edges are attached to nodes and have a p.                    *)
(***************************************************************************)
EXTENDS Naturals, FiniteSets

CONSTANTS
    Node, Edge,
    Ends,          \* Ends[e]: the nodes of edge e
    MaxOps,        \* bound: writes through the caches
    MaxCommits,    \* bound: transactions
    MaxErrors,     \* bound: failing calls of the engine below
    Hazards        \* which of the situations named at their guards may happen

ASSUME AsyncAssumption ==
    /\ Node \cap Edge = {}
    /\ Ends \in [Edge -> SUBSET Node]
    /\ MaxOps \in Nat /\ MaxCommits \in Nat /\ MaxErrors \in Nat

Item == Node \cup Edge
Absent == [p |-> 0, q |-> 0]

VARIABLES
    cache,         \* nodeCache, edgeCache
    deletes,       \* deleteNodes, deleteEdges
    baseline,      \* nodeUpdateBaseline: {} no entry, {Absent} a nil entry
    engine,        \* the engine below
    call,          \* an UpdateNode or DeleteNode that has looked at the engine
    flush,         \* the step FlushWithResult is at
    toWrite,       \* its snapshot; what it writes is in flight
    toDelete,
    bases,
    candidate,     \* per node: what flushNodeWithRebase is about to write
    tried,         \* nodes whose write was tried
    done,          \* successful writes and deletes
    gone,
    replaced,      \* the cached object is no longer the one of the snapshot
    last,          \* history: p as the last write left it, 0 if deleted
    loose,         \* history: edges of a node deleted since they were written
    ops, commits, errors

cacheVars == <<cache, deletes, baseline>>
flushVars == <<flush, toWrite, toDelete, bases, candidate, tried, done, gone>>
historyVars == <<last, loose, ops>>
vars == <<cacheVars, engine, call, flushVars, replaced, historyVars, commits, errors>>

Nobody == [op |-> "none"]

Init ==
    /\ cache = [x \in Item |-> Absent]
    /\ deletes = {}
    /\ baseline = [n \in Node |-> {}]
    /\ engine \in [Item -> {Absent, [p |-> 1, q |-> 1]}]
    /\ \A e \in Edge : engine[e] # Absent => \A n \in Ends[e] : engine[n] # Absent
    /\ call = Nobody
    /\ flush = "idle"
    /\ toWrite = [x \in Item |-> Absent]
    /\ toDelete = {}
    /\ bases = [n \in Node |-> Absent]
    /\ candidate = [n \in Node |-> Absent]
    /\ tried = {} /\ done = {} /\ gone = {} /\ replaced = {}
    /\ last = [x \in Item |-> engine[x].p]
    /\ loose = {}
    /\ ops = 0 /\ commits = 0 /\ errors = 0

-----------------------------------------------------------------------------
(* Reads *)

\* GetNode, GetEdge.
View(x) == IF x \in deletes THEN Absent
           ELSE IF cache[x] # Absent THEN cache[x]
           ELSE engine[x]

InFlight(x) == toWrite[x] # Absent

-----------------------------------------------------------------------------
(* Writes into the caches *)

Fresh == ops + 2

\* A write of v to x takes effect; deleting a node loosens its edges.
Record(x, v) ==
    /\ ops < MaxOps
    /\ ops' = ops + 1
    /\ last' = [last EXCEPT ![x] = v]
    /\ loose' = IF x \in Edge THEN loose \ {x}
                ELSE IF v = 0 THEN loose \cup {e \in Edge : x \in Ends[e]}
                ELSE loose

Put(x, content) ==
    /\ cache' = [cache EXCEPT ![x] = content]
    /\ replaced' = replaced \cup {x}

\* A created node has a new identity, or that of a deleted one.
\* BulkCreateNodes does the same for each of its nodes.
CreateNode(n) ==
    /\ View(n) = Absent
    /\ Record(n, Fresh)
    /\ Put(n, [p |-> Fresh, q |-> 0])
    /\ deletes' = deletes \ {n}
    /\ baseline' = [baseline EXCEPT ![n] = {}]
    /\ UNCHANGED <<engine, call, flushVars, commits, errors>>

\* The caller has read the node; UpdateNode reads the baseline if nothing is
\* queued, outside the lock.
BeginUpdate(n) ==
    /\ call = Nobody
    /\ ops < MaxOps
    /\ View(n) # Absent
    /\ call' = [op |-> "update", node |-> n, q |-> View(n).q,
                base |-> IF cache[n] = Absent /\ baseline[n] = {} THEN engine[n] ELSE Absent]
    /\ UNCHANGED <<cacheVars, engine, flushVars, replaced, historyVars, commits, errors>>

\* The value written is new, or the one the node had when it was first queued.
\* Hazard "revive": the node is marked as deleted, and stays so.
\* Hazard "back": the first value is restored after another was written, or is
\* about to be: the flush takes it for unchanged.
\* Hazard "nobase": something was queued when the caller looked and is flushed
\* now, or was created since: the update has no baseline, and an old q.
FinishUpdate(v) ==
    LET n == call.node
        base == IF baseline[n] = {} /\ cache[n] = Absent THEN {call.base} ELSE baseline[n]
        Back == \E b \in baseline[n] : v = b.p
    IN  /\ call.op = "update"
        /\ v = Fresh \/ Back
        /\ "revive" \in Hazards \/ n \notin deletes
        /\ "back" \in Hazards \/ (Back => ~InFlight(n) /\ engine[n].p = v)
        /\ "nobase" \in Hazards \/ (base \subseteq {Absent}
                                      => engine[n] = Absent \/ engine[n].q = call.q)
        /\ Record(n, v)
        /\ Put(n, [p |-> v, q |-> call.q])
        /\ baseline' = [baseline EXCEPT ![n] = base]
        /\ call' = Nobody
        /\ UNCHANGED <<deletes, engine, flushVars, commits, errors>>

\* Takes no baseline.
UpdateNodeEmbedding(n) ==
    /\ n \notin deletes
    /\ cache[n] # Absent \/ InFlight(n) \/ engine[n] # Absent
    /\ Record(n, Fresh)
    /\ Put(n, [p |-> Fresh, q |-> View(n).q])
    /\ UNCHANGED <<deletes, baseline, engine, call, flushVars, commits, errors>>

\* A queued item leaves the cache, and is marked only if it is in flight.
\* Hazard "drop": it was an update of what the engine holds.
DropQueued(x) ==
    /\ cache[x] # Absent
    /\ "drop" \in Hazards \/ InFlight(x) \/ engine[x] = Absent
    /\ cache' = [cache EXCEPT ![x] = Absent]
    /\ deletes' = IF InFlight(x) THEN deletes \cup {x} ELSE deletes

\* Hazard "attached": edges of the node are queued, and never find their node.
DetachedFromQueue(n) ==
    "attached" \in Hazards \/ \A e \in Edge : n \in Ends[e] => cache[e] = Absent

\* DeleteNode: under the lock, or having found the node in the engine only.
DeleteNode(n) ==
    /\ n \notin deletes
    /\ DetachedFromQueue(n)
    /\ \/ /\ DropQueued(n)
          /\ baseline' = [baseline EXCEPT ![n] = {}]
          /\ Record(n, 0)
          /\ UNCHANGED call
       \/ /\ cache[n] = Absent /\ engine[n] # Absent
          /\ call = Nobody
          /\ ops < MaxOps
          /\ call' = [op |-> "delete", node |-> n]
          /\ UNCHANGED <<cacheVars, historyVars>>
    /\ UNCHANGED <<engine, flushVars, replaced, commits, errors>>

\* The state is read again: what was queued meanwhile is dropped.
FinishDelete ==
    LET n == call.node
    IN  /\ call.op = "delete"
        /\ DetachedFromQueue(n)
        /\ \/ /\ n \in deletes
              /\ UNCHANGED <<cacheVars, historyVars>>
           \/ /\ n \notin deletes /\ DropQueued(n)
              /\ baseline' = [baseline EXCEPT ![n] = {}]
              /\ Record(n, 0)
           \/ /\ n \notin deletes /\ cache[n] = Absent
              /\ deletes' = deletes \cup {n}
              /\ Record(n, 0)
              /\ UNCHANGED <<cache, baseline>>
        /\ call' = Nobody
        /\ UNCHANGED <<engine, flushVars, replaced, commits, errors>>

\* BulkDeleteNodes and BulkDeleteEdges mark whatever they are given.
BulkDelete(x) ==
    /\ x \in Node => DetachedFromQueue(x)
    /\ Record(x, 0)
    /\ cache' = [cache EXCEPT ![x] = Absent]
    /\ deletes' = deletes \cup {x}
    /\ baseline' = IF x \in Node THEN [baseline EXCEPT ![x] = {}] ELSE baseline
    /\ UNCHANGED <<engine, call, flushVars, replaced, commits, errors>>

\* The caller has seen both ends.  BulkCreateEdges does the same for each edge.
CreateEdge(e) ==
    /\ \A n \in Ends[e] : View(n) # Absent
    /\ Record(e, Fresh)
    /\ Put(e, [p |-> Fresh, q |-> 0])
    /\ deletes' = deletes \ {e}
    /\ UNCHANGED <<baseline, engine, call, flushVars, commits, errors>>

UpdateEdge(e) ==
    /\ \A n \in Ends[e] : View(n) # Absent
    /\ "revive" \in Hazards \/ e \notin deletes
    /\ View(e) # Absent
    /\ Record(e, Fresh)
    /\ Put(e, [p |-> Fresh, q |-> 0])
    /\ UNCHANGED <<deletes, baseline, engine, call, flushVars, commits, errors>>

\* Holds the lock while it asks the engine.
DeleteEdge(e) ==
    /\ e \notin deletes
    /\ \/ DropQueued(e)
       \/ /\ cache[e] = Absent /\ engine[e] # Absent
          /\ deletes' = deletes \cup {e}
          /\ UNCHANGED cache
    /\ Record(e, 0)
    /\ UNCHANGED <<baseline, engine, call, flushVars, replaced, commits, errors>>

-----------------------------------------------------------------------------
(* Transactions on the engine below *)

\* What would be written over node n whatever the engine holds by then.
Unbased(n) ==
    \/ cache[n] # Absent /\ baseline[n] \subseteq {Absent}
    \/ InFlight(n) /\ n \notin tried /\ bases[n] = Absent
    \/ call # Nobody /\ call.op = "update" /\ call.node = n /\ call.base = Absent

\* Hazard "nobase": a write of n is queued or under way that has no baseline.
\* Hazard "window": the flush has read n and not yet written it.
TransactionCommit(n) ==
    /\ commits < MaxCommits
    /\ engine[n] # Absent
    /\ "nobase" \in Hazards \/ ~Unbased(n)
    /\ "window" \in Hazards \/ candidate[n] = Absent
    /\ commits' = commits + 1
    /\ engine' = [engine EXCEPT ![n].q = commits + 2]
    /\ UNCHANGED <<cacheVars, call, flushVars, replaced, historyVars, errors>>

-----------------------------------------------------------------------------
(* FlushWithResult; flushMu admits one at a time *)

Pending == deletes # {} \/ \E x \in Item : cache[x] # Absent

TakeSnapshot ==
    /\ flush = "idle" /\ Pending
    /\ flush' = "deleteNodes"
    /\ toWrite' = cache
    /\ toDelete' = deletes
    /\ bases' = [n \in Node |-> IF baseline[n] = {} THEN Absent
                                ELSE CHOOSE b \in baseline[n] : TRUE]
    /\ candidate' = [n \in Node |-> Absent]
    /\ tried' = {} /\ done' = {} /\ gone' = {} /\ replaced' = {}
    /\ UNCHANGED <<cacheVars, engine, call, historyVars, commits, errors>>

\* Deleting a node takes its edges with it.
Without(removed) ==
    [x \in Item |-> IF x \in removed \/ (x \in Edge /\ Ends[x] \cap removed # {})
                    THEN Absent ELSE engine[x]]

\* One bulk call, which does not mind absent items; if it fails, one by one,
\* where absent items fail too.
DeleteItems(items, here, next) ==
    /\ flush = here
    /\ \E ok \in SUBSET items :
          /\ \/ ok = items /\ errors' = errors
             \/ /\ ok \subseteq {x \in items : engine[x] # Absent}
                /\ errors < MaxErrors
                /\ errors' = errors + 1
          /\ engine' = Without(ok)
          /\ gone' = gone \cup ok
    /\ flush' = next
    /\ UNCHANGED <<cacheVars, call, toWrite, toDelete, bases, candidate, tried, done>>
    /\ UNCHANGED <<replaced, historyVars, commits>>

DeleteNodes == DeleteItems(toDelete \cap Node, "deleteNodes", "deleteEdges")
DeleteEdges == DeleteItems(toDelete \cap Edge, "deleteEdges", "writeNodes")

RebasePendingWins(base, pending, latest) == pending
\* Only what the update changed is carried over.
RebaseNodeUpdate(base, pending, latest) ==
    [p |-> IF pending.p = base.p THEN latest.p ELSE pending.p,
     q |-> IF pending.q = base.q THEN latest.q ELSE pending.q]

NodesLeft == {n \in Node : InFlight(n)} \ (toDelete \cup tried)

ReadLatest(n) ==
    /\ flush = "writeNodes"
    /\ n \in NodesLeft
    /\ \A m \in Node : candidate[m] = Absent
    /\ candidate' = [candidate EXCEPT ![n] =
            IF bases[n] = Absent \/ engine[n] \in {Absent, bases[n]} THEN toWrite[n]
            ELSE RebaseNodeUpdate(bases[n], toWrite[n], engine[n])]
    /\ UNCHANGED <<cacheVars, engine, call, flush, toWrite, toDelete, bases, tried, done, gone>>
    /\ UNCHANGED <<replaced, historyVars, commits, errors>>

\* The engine's UpdateNode creates the node if it is not there.
WriteNode(n) ==
    /\ candidate[n] # Absent
    /\ \/ /\ engine' = [engine EXCEPT ![n] = candidate[n]]
          /\ done' = done \cup {n}
          /\ UNCHANGED errors
       \/ /\ errors < MaxErrors
          /\ errors' = errors + 1
          /\ UNCHANGED <<engine, done>>
    /\ tried' = tried \cup {n}
    /\ candidate' = [candidate EXCEPT ![n] = Absent]
    /\ UNCHANGED <<cacheVars, call, flush, toWrite, toDelete, bases, gone>>
    /\ UNCHANGED <<replaced, historyVars, commits>>

WritableIfNew(e) == engine[e] = Absent /\ \A n \in Ends[e] : engine[n] # Absent
\* An edge the engine has is updated, one whose ends it has is created.
Writable(e) == engine[e] # Absent \/ \A n \in Ends[e] : engine[n] # Absent

WriteEdges ==
    /\ flush = "writeNodes" /\ NodesLeft = {}
    /\ LET edges == {e \in Edge : InFlight(e)} \ toDelete
       IN  \E ok \in SUBSET edges :
              /\ \/ ok = {e \in edges : Writable(e)} /\ errors' = errors
                 \/ /\ ok \subseteq {e \in edges : Writable(e)}
                    /\ errors < MaxErrors
                    /\ errors' = errors + 1
              /\ engine' = [x \in Item |-> IF x \in ok THEN toWrite[x] ELSE engine[x]]
              /\ done' = done \cup ok
    /\ flush' = "clear"
    /\ UNCHANGED <<cacheVars, call, toWrite, toDelete, bases, candidate, tried, gone>>
    /\ UNCHANGED <<replaced, historyVars, commits>>

\* Written, and still the same object.
ClearedIfWritten(x) == x \in done
Cleared(x) == x \in done /\ x \notin replaced

BaselineKept(n) == baseline[n]
BaselineAfterFlush(n) == IF Cleared(n) \/ n \in gone \cap deletes THEN {} ELSE baseline[n]

ClearFlushed ==
    /\ flush = "clear"
    /\ flush' = "idle"
    /\ cache' = [x \in Item |-> IF Cleared(x) THEN Absent ELSE cache[x]]
    /\ baseline' = [n \in Node |-> BaselineAfterFlush(n)]
    /\ deletes' = deletes \ gone
    /\ toWrite' = [x \in Item |-> Absent]
    /\ toDelete' = {}
    /\ bases' = [n \in Node |-> Absent]
    /\ tried' = {} /\ done' = {} /\ gone' = {} /\ replaced' = {}
    /\ UNCHANGED <<engine, call, candidate, historyVars, commits, errors>>

FlushStep ==
    \/ TakeSnapshot \/ DeleteNodes \/ DeleteEdges
    \/ \E n \in Node : ReadLatest(n) \/ WriteNode(n)
    \/ WriteEdges \/ ClearFlushed

Next ==
    \/ \E n \in Node :
          \/ CreateNode(n) \/ BeginUpdate(n) \/ UpdateNodeEmbedding(n) \/ DeleteNode(n)
          \/ TransactionCommit(n)
    \/ \E v \in 1..Fresh : FinishUpdate(v)
    \/ FinishDelete
    \/ \E e \in Edge : CreateEdge(e) \/ UpdateEdge(e) \/ DeleteEdge(e)
    \/ \E x \in Item : BulkDelete(x)
    \/ FlushStep

Spec == Init /\ [][Next]_vars

\* The ticker starts a flush whenever something is pending, and no flush stops
\* half way.
FairSpec == Spec /\ WF_vars(FlushStep)

-----------------------------------------------------------------------------
(* Properties *)

\* Every variable stays in its range, and a baseline is kept only for a node
\* that is queued (a baseline left behind by a flush would make the next update
\* of the node a change of something long gone).
TypeOK ==
    LET Content == [p : 0..(MaxOps + 1), q : 0..(MaxCommits + 1)]
    IN  /\ \A f \in {cache, engine, toWrite} : f \in [Item -> Content]
        /\ bases \in [Node -> Content] /\ candidate \in [Node -> Content]
        /\ deletes \subseteq Item /\ toDelete \subseteq Item
        /\ flush \in {"idle", "deleteNodes", "deleteEdges", "writeNodes", "clear"}
        /\ tried \cup done \cup gone \cup replaced \cup loose \subseteq Item
        /\ \A n \in Node : baseline[n] # {} =>
              cache[n] # Absent /\ baseline[n] \subseteq Content /\ Cardinality(baseline[n]) = 1

\* A reader sees the last write of every item, at every point of a flush and
\* whatever was written, deleted or created again while it ran.
ViewIsLast ==
    /\ \A n \in Node : View(n).p = last[n]
    /\ \A e \in Edge \ loose : View(e).p = last[e]

\* A flush takes nothing back that a transaction has committed to a node
\* (except by creating the node anew).
CommittedKept ==
    [][\A n \in Node :
          engine[n] # Absent /\ engine'[n] # Absent /\ engine'[n].q # 0
             => engine'[n].q >= engine[n].q]_engine

\* When writers stop, the caches empty and the engine ends up with the last
\* write of every item, whatever failed on the way.
Settles ==
    <>[](/\ ~Pending
         /\ \A x \in Item \ loose : engine[x].p = last[x])
=============================================================================
