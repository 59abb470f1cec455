------------------------------ MODULE Lifecycle ------------------------------
(***************************************************************************)
(* Pruning of old versions (pkg/storage/lifecycle, badger_lifecycle.go)    *)
(* beside the transactions of MVCC.  A cycle plans with what it finds, and *)
(* later, key after key, checks that the head is still the planned one,    *)
(* deletes versions and raises the floor, each in a Badger transaction of  *)
(* its own.  A plan is about one key here: which keys a cycle takes up     *)
(* depends on sampling, budgets, priorities and back-off, and each key is  *)
(* treated without regard to the others.                                   *)
(***************************************************************************)
EXTENDS MVCC

CONSTANTS
    Keep,          \* MaxVersionsPerKey
    MaxPrunes      \* bound: plans

ASSUME LifecycleAssumption == Keep \in Nat /\ MaxPrunes \in Nat

VARIABLES
    plan,          \* PrunePlanEntry under way
    prunes         \* plans so far

pruneVars == <<plan, prunes>>

NoPlan == [key |-> None, head |-> NoHead, floor |-> 0, delete |-> {}, fenced |-> FALSE]

Planning == plan # NoPlan

-----------------------------------------------------------------------------
(* Planning *)

MinOf(S) == CHOOSE x \in S : \A y \in S : x <= y

\* maxVersionsBoundVersion: the oldest version to be kept.
MaxVersionsBound(seqs) ==
    CHOOSE v \in seqs : Cardinality({s \in seqs : s < v}) = MaxOf({0, Cardinality(seqs) - Keep - 1})

\* ComputeSafeFloor.  No reader bounds it: the namespace of a key made of a
\* numeric identifier is not the one a reader is registered under.
\* The age bound need not be the version of a record.
SafeFloors(h, seqs) ==
    {MaxOf({h.floor, MinOf({MaxVersionsBound(seqs), ttl})}) : ttl \in 1 .. sequence}

\* Plan.  Head and versions are read in two views: a head that moved in
\* between fails the fence.
Plan(k) ==
    LET h == Store.head[k]
        seqs == {r.seq : r \in Store.ver[k]}
    IN  /\ ~Planning
        /\ prunes < MaxPrunes
        /\ h # NoHead
        /\ seqs # {}
        /\ \E f \in SafeFloors(h, seqs) :
             LET old == {s \in seqs : s < f /\ s # h.seq}
             IN  /\ old # {} \/ f # h.floor
                 /\ plan' = [key |-> k, head |-> h, floor |-> f, delete |-> old, fenced |-> FALSE]
        /\ prunes' = prunes + 1
        /\ UNCHANGED vars

-----------------------------------------------------------------------------
(* Applying *)

\* Changed: the head is not compared with the planned one.
FenceUnchecked ==
    /\ Planning /\ ~plan.fenced
    /\ plan' = [plan EXCEPT !.fenced = TRUE]
    /\ UNCHANGED <<vars, prunes>>

\* ReadMVCCHead and the comparison of its version.
Fence ==
    /\ Planning /\ ~plan.fenced
    /\ plan' = IF Store.head[plan.key].seq = plan.head.seq
               THEN [plan EXCEPT !.fenced = TRUE, !.head = Store.head[plan.key]]
               ELSE NoPlan
    /\ UNCHANGED <<vars, prunes>>

\* A Badger transaction of the pruner.
Write(db, heads) ==
    /\ commits' = Append(commits, [db |-> db, keys |-> {}, heads |-> heads,
                                   seq |-> Latest.seq, snap |-> Len(commits)])
    /\ UNCHANGED <<sequence, persisted, pc, beginVars, bufferVars, commitVars, done, crashes, prunes>>

\* Oldest first, in the order of the iterator.
DeleteMVCCVersion ==
    LET v == MinOf(plan.delete)
    IN  /\ plan.fenced /\ plan.delete # {}
        /\ Write([Store EXCEPT !.ver[plan.key] = {r \in @ : r.seq # v}], {})
        /\ plan' = [plan EXCEPT !.delete = @ \ {v}]

WriteMVCCHead ==
    /\ plan.fenced /\ plan.delete = {}
    /\ Write([Store EXCEPT !.head[plan.key] = [plan.head EXCEPT !.floor = plan.floor]], {plan.key})
    /\ plan' = NoPlan

-----------------------------------------------------------------------------
(* Specification *)

\* A transaction publishes.  Hazard "fence": what the pruner has compared.
PublishBesidePrune(t) ==
    /\ Publish(t)
    /\ "fence" \in Hazards \/ ~(plan.fenced /\ plan.key \in Touched(t))
    /\ UNCHANGED pruneVars

LifecycleInit ==
    /\ Init
    /\ plan = NoPlan /\ prunes = 0

LifecycleNext ==
    \/ \E t \in Tx :
         \/ (BeginTransaction(t) \/ Operate(t) \/ Prepare(t) \/ PersistSequence(t) \/ Rollback(t))
              /\ UNCHANGED pruneVars
         \/ PublishBesidePrune(t)
    \/ \E k \in Entity : Plan(k)
    \/ Fence \/ DeleteMVCCVersion \/ WriteMVCCHead
    \/ Crash /\ plan' = NoPlan /\ UNCHANGED prunes

lifecycleVars == <<vars, pruneVars>>

LifecycleSpec == LifecycleInit /\ [][LifecycleNext]_lifecycleVars

-----------------------------------------------------------------------------
(* Properties *)

\* The commits of k up to version v, and those after it.
UpTo(k, v) == {i \in DOMAIN commits : k \in commits[i].keys /\ commits[i].seq <= v}
After(k, v) == {i \in DOMAIN commits : k \in commits[i].keys /\ commits[i].seq > v}

\* What k held at version v: as the last commit up to v left it.
HeldAt(k, v) ==
    commits[CHOOSE i \in UpTo(k, v) : \A j \in UpTo(k, v) : commits[j].seq <= commits[i].seq].db.body[k]

\* The versions of k after v that are history: superseded, or tombstones.
HistoryAfter(k, v) ==
    {i \in After(k, v) : commits[i].db.body[k] = None \/ \E j \in After(k, v) : commits[j].seq > commits[i].seq}

\* History: a read at the version of any commit (GetNodeVisibleAt) finds what
\* was there then, however often it was updated, deleted and created since.
\* Pruning (maxVersionsBoundVersion, DeleteMVCCVersion, the floor) may take
\* it away once more than Keep versions of the history are newer, and never
\* puts anything else in its place, also if it stops half way.
HistoryReadable ==
    \A k \in Entity : \A v \in {commits[i].seq : i \in DOMAIN commits} :
        \/ VisibleAt(Store, k, v) = HeldAt(k, v)
        \/ VisibleAt(Store, k, v) = None /\ Cardinality(HistoryAfter(k, v)) > Keep

\* Pruning is safe for heads (the fence of PruneApplier.Apply): the head of an
\* entity is that of its last commit, tombstones included, whatever cycle was
\* overtaken by it.
HeadIsLast ==
    \A k \in Entity :
        LET last == MaxOf({i \in DOMAIN commits : k \in commits[i].keys})
            h == Store.head[k]
        IN  h # NoHead => h.seq = commits[last].seq /\ h.tomb = (commits[last].db.body[k] = None)
=============================================================================
