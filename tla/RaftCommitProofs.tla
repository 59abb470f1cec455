------------------------- MODULE RaftCommitProofs -------------------------
(***************************************************************************)
(* What is committed stays: leader completeness of the Raft replicator and *)
(* what follows from it, for every cluster and every bound.  The commit    *)
(* index never goes back, a majority holds what is committed, and the      *)
(* nodes' storages are one replicated storage.                             *)
(***************************************************************************)
EXTENDS RaftStepProofs

-----------------------------------------------------------------------------
(***************************************************************************)
(* What is, or may yet be, committed.                                      *)
(***************************************************************************)
Holds(lg, i, t) == i \in DOMAIN lg /\ lg[i].term = t

\* Node q holds entry i of term t, and so does every later candidate that has
\* its vote.
Kept(q, i, t) ==
    /\ Holds(log[q], i, t)
    /\ \A c \in Node, u \in Term :
          <<q, u, c>> \in ballots /\ u > t /\ Standing(c, u) => Holds(log[c], i, t)

\* Later leaders hold it and send it, and what is made after term t comes after it.
Covered(i, t) ==
    /\ \A c \in Node : state[c] = "leader" /\ currentTerm[c] > t => Holds(log[c], i, t)
    /\ \A k \in Links : k.entry.term > t /\ k.before <= t => k.before = t /\ k.index > i
    /\ \A m \in Requests : m.term > t =>
          i <= m.prevLogIndex \/ Holds(m.entries, i - m.prevLogIndex, t)

\* Node q has told leader n, or is about to, that it holds entry i.
Acked(n, q, i) ==
    \/ matchIndex[n][q] >= i
    \/ \E m \in Answers : /\ m.success /\ m.from = q /\ m.to = n
                          /\ m.waiter.term = currentTerm[n] /\ m.match >= i

\* A majority has left the leader's term and never told it that it holds i.
Blocked(n, i) ==
    \E W \in SUBSET Node :
        /\ Cardinality(W) >= votesNeeded
        /\ \A w \in W : currentTerm[w] > currentTerm[n] /\ ~Acked(n, w, i)

\* What a leader may still commit is held where it was acknowledged, and covered.
OpenInv ==
    \A n \in Node : state[n] = "leader" =>
        \A i \in DOMAIN log[n] : log[n][i].term = currentTerm[n] =>
            \/ Blocked(n, i)
            \/ /\ Covered(i, currentTerm[n])
               /\ \A q \in Node : Acked(n, q, i) => Kept(q, i, currentTerm[n])

\* Requests of term t agree with the logs that hold entry i of term t.
Agreed(i, t) ==
    \A m \in Requests, q \in Node : m.term = t /\ Holds(log[q], i, t) =>
        \A j \in DOMAIN m.entries :
            m.prevLogIndex + j <= i => m.entries[j].term = log[q][m.prevLogIndex + j].term

\* Entry i of term t is there to stay.
Safe(i, t) ==
    /\ Covered(i, t) /\ Agreed(i, t)
    /\ \E Q \in SUBSET Node : Cardinality(Q) >= votesNeeded /\ \A q \in Q : Kept(q, i, t)

\* Commit indexes, of nodes and in requests, are at such entries.
CommitInv ==
    /\ \A n \in Node : commitIndex[n] > 0 =>
          \E t \in Term : Safe(commitIndex[n], t) /\ Holds(log[n], commitIndex[n], t)
    /\ \A m \in Requests : m.leaderCommit > 0 =>
          \E t \in Term : /\ Safe(m.leaderCommit, t)
                          /\ \/ m.leaderCommit <= m.prevLogIndex /\ m.prevLogTerm >= t
                             \/ Holds(m.entries, m.leaderCommit - m.prevLogIndex, t)

AppliedInv ==
    \A n \in Node : /\ Len(applied[n]) = commitIndex[n]
                    /\ \A i \in 1 .. commitIndex[n] : applied[n][i] = log[n][i].cmd

SafeInv == OpenInv /\ CommitInv /\ AppliedInv

-----------------------------------------------------------------------------
(***************************************************************************)
(* Where an entry must be.                                                 *)
(***************************************************************************)
Known == Base /\ CampaignInv /\ ContInv /\ CarryInv

\* There is an entry i of term t.
Made(i, t) == \E l \in Links : l.index = i /\ l.entry.term = t

\* A log in the cluster.
Linked(lg) == lg \in Seq(Entry) /\ LinksOf(lg) \subseteq Links

\* Every log is.
LEMMA LogsLinked == TypeInv => \A n \in Node : Linked(log[n])
BY StepTypes, LinksAre DEF Linked

\* What a log holds was made.
LEMMA HeldIsMade ==
    ASSUME NEW lg, Linked(lg), NEW i, NEW t, Holds(lg, i, t)
    PROVE  Made(i, t) /\ i \in Nat /\ i >= 1 /\ t \in Term
<1>1. i \in DOMAIN lg /\ lg[i].term = t
  BY DEF Holds
<1>2. PICK k \in LinksOf(lg) : k.index = i /\ k.entry = lg[i]
  BY <1>1, LinkEntries
<1>3. i \in Nat /\ i >= 1 /\ lg[i] \in Entry
  BY <1>1, LastTypes DEF Linked
<1>4. t \in Term
  BY <1>1, <1>3 DEF Entry
<1> QED
  BY <1>1, <1>2, <1>3, <1>4 DEF Made, Linked

\* Logs that hold an entry agree up to it.
LEMMA HoldersMatch ==
    ASSUME LinkInv, NEW a, NEW b, Linked(a), Linked(b), NEW i, NEW t, Holds(a, i, t), Holds(b, i, t)
    PROVE  \A j \in 1 .. i : j \in DOMAIN a /\ j \in DOMAIN b /\ a[j] = b[j]
<1>1. a \in Seq(Entry) /\ b \in Seq(Entry) /\ i \in DOMAIN a \cap DOMAIN b /\ a[i].term = b[i].term
  BY DEF Linked, Holds
<1>2. \A k \in LinksOf(a), l \in LinksOf(b) : k.index = l.index /\ k.entry.term = l.entry.term => k = l
  BY DEF Linked, LinkInv, LinksUnique
<1>3. \A j \in 1 .. i : a[j] = b[j]
  BY <1>1, <1>2, LinksMatch
<1>4. \A j \in 1 .. i : j \in DOMAIN a /\ j \in DOMAIN b
  BY <1>1, LastTypes
<1> QED
  BY <1>3, <1>4

\* A leader holds what was made in its term.
LEMMA LeaderHoldsMade ==
    ASSUME LinkInv, NEW n \in Node, state[n] = "leader", NEW i, Made(i, currentTerm[n])
    PROVE  Holds(log[n], i, currentTerm[n])
<1>1. PICK l \in Links : l.index = i /\ l.entry.term = currentTerm[n]
  BY DEF Made
<1>2. l \in LinksOf(log[n])
  BY <1>1 DEF LinkInv, LeaderHolds
<1>3. PICK j \in DOMAIN log[n] : l = Link(j, TermAt(log[n], j - 1), log[n][j])
  BY <1>2 DEF LinksOf
<1>4. l.index = j /\ l.entry = log[n][j]
  BY <1>3 DEF Link
<1> QED
  BY <1>1, <1>4 DEF Holds

\* A log that ends a term at entry i or later holds entry i of it.
LEMMA ReachesSame ==
    ASSUME OrderInv, NEW lg, Linked(lg), NEW i \in Nat, NEW t, i >= 1, Made(i, t),
           NEW j \in DOMAIN lg, lg[j].term = t, i <= j
    PROVE  Holds(lg, i, t)
<1>1. /\ lg \in Seq(Entry) /\ DOMAIN lg = 1 .. Len(lg) /\ Len(lg) \in Nat
      /\ \A x \in DOMAIN lg : lg[x].term \in Nat
  BY LastTypes DEF Linked
<1>2. i \in DOMAIN lg /\ j \in Nat
  BY <1>1
<1>3. \A k \in LinksOf(lg) : k.before <= k.entry.term
  BY DEF Linked, OrderInv
<1>4. \A x \in i .. j : x \in DOMAIN lg /\ lg[x].term <= t
  <2> TAKE x \in i .. j
  <2>1. x \in DOMAIN lg /\ x <= j
    BY <1>1, <1>2
  <2> QED
    BY <1>1, <1>3, <2>1, Sorted
<1> SUFFICES ASSUME lg[i].term # t PROVE FALSE
  BY <1>2 DEF Holds
<1> DEFINE S == {x \in i .. j : lg[x].term = t}
<1>5. S \in SUBSET Nat /\ S # {}
  BY <1>2
<1>6. Min(S) \in S /\ \A y \in S : Min(S) <= y
  BY <1>5, MinOfNats
<1> DEFINE x == Min(S)
<1>7. x \in i .. j /\ lg[x].term = t /\ \A y \in i .. j : lg[y].term = t => x <= y
  BY <1>6
<1> HIDE DEF x, S
<1>8. x # i /\ x \in Nat /\ x > i
  <2>1. x # i
    BY <1>7
  <2> QED
    BY <1>2, <1>7, <2>1
<1>9. x - 1 \in i .. j /\ x - 1 < x /\ x - 1 \in Nat
  BY <1>2, <1>7, <1>8
<1>10. lg[x - 1].term # t
  BY <1>7, <1>8, <1>9
<1>11. x \in DOMAIN lg /\ x - 1 \in DOMAIN lg /\ lg[x - 1].term <= t /\ lg[x - 1].term \in Nat /\ t \in Nat
  BY <1>1, <1>4, <1>7, <1>9
<1>12. lg[x - 1].term < t
  BY <1>10, <1>11
<1>13. PICK k \in LinksOf(lg) : k.index = x /\ k.entry = lg[x] /\ k.before = TermAt(lg, x - 1)
  BY <1>11, LinkEntries
<1>14. k.entry.term = t /\ k.before < k.entry.term
  BY <1>7, <1>11, <1>12, <1>13 DEF TermAt
<1>15. PICK l \in Links : l.index = i /\ l.entry.term = t
  BY DEF Made
<1>16. k.index <= l.index
  BY <1>14, <1>15 DEF Linked, OrderInv
<1> QED
  BY <1>8, <1>13, <1>15, <1>16

\* So does a log with an entry of a later term, if the entry is covered.
LEMMA ReachesLater ==
    ASSUME OrderInv, NEW lg, Linked(lg), NEW i \in Nat, NEW t \in Term, i >= 1, Made(i, t), Covered(i, t),
           NEW j \in DOMAIN lg, lg[j].term > t
    PROVE  Holds(lg, i, t) /\ i < j
<1>1. /\ lg \in Seq(Entry) /\ DOMAIN lg = 1 .. Len(lg) /\ Len(lg) \in Nat
      /\ \A x \in DOMAIN lg : lg[x].term \in Nat
  BY LastTypes DEF Linked
<1>2. t \in Nat /\ j \in Nat /\ j >= 1
  BY <1>1, BoundsAssumption DEF Term
<1> DEFINE S == {x \in 1 .. j : lg[x].term > t}
<1>3. S \in SUBSET Nat /\ S # {}
  <2>1. j \in S
    BY <1>2
  <2> QED
    BY <2>1
<1>4. Min(S) \in S /\ \A y \in S : Min(S) <= y
  BY <1>3, MinOfNats
<1> DEFINE x == Min(S)
<1>5. x \in 1 .. j /\ lg[x].term > t /\ \A y \in 1 .. j : lg[y].term > t => x <= y
  BY <1>4
<1> HIDE DEF x, S
<1>6. x \in DOMAIN lg /\ x \in Nat /\ x <= j /\ x >= 1
  BY <1>1, <1>2, <1>5
<1>7. PICK k \in LinksOf(lg) : k.index = x /\ k.entry = lg[x] /\ k.before = TermAt(lg, x - 1)
  BY <1>6, LinkEntries
<1>8. TermAt(lg, x - 1) <= t
  <2>1. CASE x - 1 \in DOMAIN lg
    <3>1. x - 1 \in 1 .. j /\ ~(x <= x - 1)
      BY <1>1, <1>2, <1>6, <2>1
    <3>2. ~(lg[x - 1].term > t)
      BY <1>5, <3>1
    <3>3. lg[x - 1].term \in Nat
      BY <1>1, <2>1
    <3> QED
      BY <1>2, <2>1, <3>2, <3>3 DEF TermAt
  <2>2. CASE x - 1 \notin DOMAIN lg
    BY <1>2, <2>2 DEF TermAt
  <2> QED
    BY <2>1, <2>2
<1>9. k \in Links /\ k.entry.term > t /\ k.before <= t
  BY <1>5, <1>7, <1>8 DEF Linked
<1>10. TermAt(lg, x - 1) = t /\ x > i
  BY <1>7, <1>9 DEF Covered
<1>11. x - 1 \in DOMAIN lg /\ i <= x - 1 /\ i < j
  BY <1>1, <1>6, <1>10
<1>12. lg[x - 1].term = t
  BY <1>10, <1>11 DEF TermAt
<1>13. Holds(lg, i, t)
  BY <1>11, <1>12, ReachesSame
<1> QED
  BY <1>11, <1>13

\* Who has voted for a candidate that is not behind it has voted for a holder.
LEMMA VoteReaches ==
    ASSUME OrderInv, NEW lg, Linked(lg), NEW a, Linked(a), NEW i, NEW t, Holds(lg, i, t), Covered(i, t),
           UpToDate(LastTerm(a), Len(a), lg)
    PROVE  Holds(a, i, t)
<1>1. Made(i, t) /\ i \in Nat /\ i >= 1 /\ t \in Term
  BY HeldIsMade
<1>2. /\ lg \in Seq(Entry) /\ DOMAIN lg = 1 .. Len(lg) /\ Len(lg) \in Nat /\ LastTerm(lg) \in Nat
      /\ \A x \in DOMAIN lg : lg[x].term \in Nat
  BY LastTypes DEF Linked
<1>3. /\ a \in Seq(Entry) /\ DOMAIN a = 1 .. Len(a) /\ Len(a) \in Nat /\ LastTerm(a) \in Nat
      /\ \A x \in DOMAIN a : a[x].term \in Nat
  BY LastTypes DEF Linked
<1>4. t \in Nat
  BY <1>1, BoundsAssumption DEF Term
<1>5. i \in DOMAIN lg /\ lg[i].term = t /\ Len(lg) \in DOMAIN lg /\ i <= Len(lg)
  BY <1>2 DEF Holds
<1>6. LastTerm(lg) = lg[Len(lg)].term /\ t <= LastTerm(lg)
  <2>1. \A k \in LinksOf(lg) : k.before <= k.entry.term
    BY DEF Linked, OrderInv
  <2>2. lg[i].term <= lg[Len(lg)].term
    BY <1>2, <1>5, <2>1, Sorted
  <2> QED
    BY <1>5, <2>2 DEF LastTerm, TermAt
<1>7. CASE LastTerm(a) > t
  <2>1. Len(a) \in DOMAIN a
    <3>1. CASE Len(a) \notin DOMAIN a
      BY <1>4, <1>7, <3>1 DEF LastTerm, TermAt
    <3> QED
      BY <3>1
  <2>2. a[Len(a)].term > t
    BY <1>7, <2>1 DEF LastTerm, TermAt
  <2> QED
    BY <1>1, <2>1, <2>2, ReachesLater
<1>8. CASE ~(LastTerm(a) > t)
  <2>1. LastTerm(a) = LastTerm(lg) /\ Len(a) >= Len(lg) /\ LastTerm(lg) = t
    BY <1>2, <1>3, <1>4, <1>6, <1>8 DEF UpToDate
  <2>2. Len(a) \in DOMAIN a /\ i <= Len(a)
    BY <1>1, <1>2, <1>3, <1>5, <2>1
  <2>3. a[Len(a)].term = t
    BY <2>1, <2>2 DEF LastTerm, TermAt
  <2> QED
    BY <1>1, <2>2, <2>3, ReachesSame
<1> QED
  BY <1>7, <1>8

\* Requests of a leader's term agree with every log that holds an entry of it.
LEMMA AgreedOpen ==
    ASSUME TypeInv, LinkInv, SourceInv, NEW n \in Node, state[n] = "leader", NEW i,
           Holds(log[n], i, currentTerm[n])
    PROVE  Agreed(i, currentTerm[n])
<1> SUFFICES ASSUME NEW m \in Requests, NEW q \in Node, m.term = currentTerm[n],
                    Holds(log[q], i, currentTerm[n]), NEW j \in DOMAIN m.entries, m.prevLogIndex + j <= i
             PROVE  m.entries[j].term = log[q][m.prevLogIndex + j].term
  BY DEF Agreed
<1>1. PartOf(m, log[n])
  BY DEF SourceInv
<1>2. m.entries[j] = log[n][m.prevLogIndex + j]
  BY <1>1 DEF PartOf
<1>3. \A x \in 1 .. i : log[n][x] = log[q][x]
  BY HoldersMatch, LogsLinked
<1>4. i \in Nat
  BY HeldIsMade, LogsLinked
<1>5. m.prevLogIndex + j \in 1 .. i
  BY <1>4, CarryTypes
<1> QED
  BY <1>2, <1>3, <1>5

-----------------------------------------------------------------------------
(***************************************************************************)
(* What stays.                                                             *)
(***************************************************************************)
\* Every step is one of these.
Moves ==
    \/ Calm
    \/ \E n \in Node : Leads(n) \/ Sends(n) \/ Extends(n) \/ Commits(n)
    \/ \E n \in Node : \E m \in Requests : Merges(n, m)

\* What a merge leaves: the request's entries where they belong, what is below
\* them, and what does not conflict.
LEMMA MergeResult ==
    ASSUME NEW lg \in Seq(Entry), NEW prev \in 0 .. Len(lg), NEW es \in Seq(Entry)
    PROVE  /\ MergeEntries(lg, prev, es) \in Seq(Entry)
           /\ \A j \in 1 .. Len(es) : /\ prev + j \in DOMAIN MergeEntries(lg, prev, es)
                                     /\ MergeEntries(lg, prev, es)[prev + j].term = es[j].term
           /\ \A i \in 1 .. prev : /\ i \in DOMAIN MergeEntries(lg, prev, es)
                                   /\ MergeEntries(lg, prev, es)[i] = lg[i]
           /\ \A i \in DOMAIN lg : (\A j \in 1 .. Len(es) : prev + j <= i => es[j].term = lg[prev + j].term)
                 => i \in DOMAIN MergeEntries(lg, prev, es) /\ MergeEntries(lg, prev, es)[i] = lg[i]
<1> DEFINE r == MergeEntries(lg, prev, es)
<1>0. r \in Seq(Entry) /\ Len(r) >= prev + Len(es)
  BY MergeEntriesType
<1> DEFINE Same == r = lg /\ \A j \in 1 .. Len(es) : prev + j <= Len(lg) /\ lg[prev + j].term = es[j].term
           Cut(k) == /\ prev + k - 1 <= Len(lg)
                     /\ \A j \in 1 .. k - 1 : prev + j <= Len(lg) /\ lg[prev + j].term = es[j].term
                     /\ prev + k > Len(lg) \/ lg[prev + k].term # es[k].term
                     /\ Len(r) = prev + Len(es)
                     /\ \A i \in 1 .. prev + k - 1 : r[i] = lg[i]
                     /\ \A i \in k .. Len(es) : r[prev + i] = es[i]
           Good ==
             /\ \A j \in 1 .. Len(es) : prev + j \in DOMAIN r /\ r[prev + j].term = es[j].term
             /\ \A i \in 1 .. prev : i \in DOMAIN r /\ r[i] = lg[i]
             /\ \A i \in DOMAIN lg : (\A j \in 1 .. Len(es) : prev + j <= i => es[j].term = lg[prev + j].term)
                   => i \in DOMAIN r /\ r[i] = lg[i]
<1>4. Same \/ \E k \in 1 .. Len(es) : Cut(k)
  BY MergeShape
<1>5. Good => /\ \A j \in 1 .. Len(es) : prev + j \in DOMAIN r /\ r[prev + j].term = es[j].term
              /\ \A i \in 1 .. prev : i \in DOMAIN r /\ r[i] = lg[i]
              /\ \A i \in DOMAIN lg : (\A j \in 1 .. Len(es) : prev + j <= i => es[j].term = lg[prev + j].term)
                    => i \in DOMAIN r /\ r[i] = lg[i]
  OBVIOUS
<1> HIDE DEF r
<1>1. /\ r \in Seq(Entry) /\ Len(r) \in Nat /\ DOMAIN r = 1 .. Len(r)
      /\ Len(r) >= prev + Len(es)
      /\ Len(lg) \in Nat /\ DOMAIN lg = 1 .. Len(lg) /\ Len(es) \in Nat /\ prev \in Nat /\ prev <= Len(lg)
  BY <1>0, LenProperties
<1>2. ASSUME Same PROVE Good
  <2>1. \A j \in 1 .. Len(es) : prev + j \in DOMAIN r /\ r[prev + j].term = es[j].term
    BY <1>1, <1>2
  <2>2. \A i \in 1 .. prev : i \in DOMAIN r /\ r[i] = lg[i]
    BY <1>1, <1>2
  <2> QED
    BY <1>1, <1>2, <2>1, <2>2
<1>3. ASSUME NEW k \in 1 .. Len(es), Cut(k) PROVE Good
  <2>0. k \in Nat /\ k >= 1 /\ k <= Len(es)
    BY <1>1, <1>3
  <2>1. \A i \in Nat : i >= 1 /\ i < prev + k => i \in DOMAIN r /\ i \in 1 .. prev + k - 1
    BY <1>1, <1>3, <2>0
  <2>2. ASSUME NEW j \in 1 .. Len(es) PROVE prev + j \in DOMAIN r /\ r[prev + j].term = es[j].term
    <3>0. j \in Nat /\ j >= 1 /\ j <= Len(es)
      BY <1>1
    <3>1. prev + j \in DOMAIN r
      BY <1>1, <1>3, <3>0
    <3>2. CASE j < k
      <4>1. j \in 1 .. k - 1 /\ prev + j \in 1 .. prev + k - 1
        BY <1>1, <2>0, <3>0, <3>2
      <4> QED
        BY <1>3, <3>1, <4>1
    <3>3. CASE ~(j < k)
      <4>1. j \in k .. Len(es)
        BY <2>0, <3>0, <3>3
      <4> QED
        BY <1>3, <3>1, <4>1
    <3> QED
      BY <3>2, <3>3
  <2>3. ASSUME NEW i \in 1 .. prev PROVE i \in DOMAIN r /\ r[i] = lg[i]
    <3>1. i \in Nat /\ i >= 1 /\ i < prev + k
      BY <1>1, <2>0
    <3> QED
      BY <1>3, <2>1, <3>1
  <2>4. ASSUME NEW i \in DOMAIN lg, \A j \in 1 .. Len(es) : prev + j <= i => es[j].term = lg[prev + j].term
        PROVE  i \in DOMAIN r /\ r[i] = lg[i]
    <3>1. ~(prev + k <= i)
      <4>1. prev + k <= i => prev + k <= Len(lg)
        BY <1>1, <2>0
      <4>2. prev + k <= Len(lg) => ~(prev + k > Len(lg))
        BY <1>1, <2>0
      <4> QED
        BY <1>3, <2>4, <4>1, <4>2
    <3>2. i \in Nat /\ i >= 1 /\ i < prev + k
      BY <1>1, <2>0, <3>1
    <3> QED
      BY <1>3, <2>1, <3>2
  <2> QED
    BY <2>2, <2>3, <2>4
<1> HIDE DEF Same, Cut, Good
<1>6. Good
  BY <1>2, <1>3, <1>4
<1> QED
  BY <1>0, <1>5, <1>6 DEF r

\* The log of a follower after a merge.
LEMMA MergedLog ==
    ASSUME Base, NEW q \in Node, NEW m \in Requests, Merges(q, m)
    PROVE  /\ state[q] = "follower" /\ currentTerm[q] = m.term
           /\ m.prevLogIndex \in 0 .. Len(log[q]) /\ Linked(log'[q])
           /\ \A k \in Node \ {q} : log'[k] = log[k]
           /\ \A j \in DOMAIN m.entries : /\ m.prevLogIndex + j \in DOMAIN log'[q]
                                          /\ log'[q][m.prevLogIndex + j].term = m.entries[j].term
           /\ \A i \in 1 .. m.prevLogIndex : i \in DOMAIN log'[q] /\ log'[q][i] = log[q][i]
           /\ \A i \in DOMAIN log[q] :
                 (\A j \in DOMAIN m.entries : m.prevLogIndex + j <= i => m.entries[j].term = log[q][m.prevLogIndex + j].term)
                    => i \in DOMAIN log'[q] /\ log'[q][i] = log[q][i]
<1> DEFINE r == MergeEntries(log[q], m.prevLogIndex, m.entries)
<1>c. /\ LogCont(m) \in pend[q]
      /\ m.prevLogIndex = 0 \/ (/\ m.prevLogIndex \in DOMAIN log[q]
                                /\ log[q][m.prevLogIndex].term = m.prevLogTerm)
      /\ log' = [log EXCEPT ![q] = r]
  BY DEF Merges
<1>t. /\ m \in AppendReqs /\ log \in [Node -> Seq(Entry)] /\ log[q] \in Seq(Entry)
      /\ m.prevLogIndex \in Nat /\ m.entries \in Seq(Entry) /\ DOMAIN m.entries = 1 .. Len(m.entries)
      /\ DOMAIN log[q] = 1 .. Len(log[q]) /\ Len(log[q]) \in Nat
  BY StepTypes, CarryTypes, LastTypes DEF Base
<1>1. state[q] = "follower" /\ currentTerm[q] = m.term
  BY <1>c DEF LogCont, Base, LinkInv, WaiterInv
<1>2. log'[q] = r /\ \A k \in Node \ {q} : log'[k] = log[k]
  BY <1>c, <1>t
<1>3. LinksOf(r) \subseteq Links
  <2>1. m.prevLogIndex = 0 => m.prevLogTerm = 0
    BY DEF Base, LinkInv, DummyInv
  <2>2. LinksOf(r) \subseteq LinksOf(log[q]) \cup RequestLinks(m)
    BY <1>c, <1>t, <2>1, MergeLinks
  <2> HIDE DEF r
  <2> QED
    BY <2>2, LinksAre
<1>4. m.prevLogIndex \in 0 .. Len(log[q])
  BY <1>c, <1>t
<1>5. r = MergeEntries(log[q], m.prevLogIndex, m.entries)
  OBVIOUS
<1> HIDE DEF r
<1>6. /\ r \in Seq(Entry)
      /\ \A j \in 1 .. Len(m.entries) : m.prevLogIndex + j \in DOMAIN r /\ r[m.prevLogIndex + j].term = m.entries[j].term
      /\ \A i \in 1 .. m.prevLogIndex : i \in DOMAIN r /\ r[i] = log[q][i]
      /\ \A i \in DOMAIN log[q] :
            (\A j \in 1 .. Len(m.entries) : m.prevLogIndex + j <= i => m.entries[j].term = log[q][m.prevLogIndex + j].term)
               => i \in DOMAIN r /\ r[i] = log[q][i]
  <2> DEFINE lg == log[q]
             prev == m.prevLogIndex
             es == m.entries
  <2>1. lg \in Seq(Entry) /\ prev \in 0 .. Len(lg) /\ es \in Seq(Entry) /\ r = MergeEntries(lg, prev, es)
    BY <1>t, <1>4, <1>5
  <2> HIDE DEF lg, prev, es
  <2> DEFINE s == MergeEntries(lg, prev, es)
  <2>2. /\ s \in Seq(Entry)
        /\ \A j \in 1 .. Len(es) : prev + j \in DOMAIN s /\ s[prev + j].term = es[j].term
        /\ \A i \in 1 .. prev : i \in DOMAIN s /\ s[i] = lg[i]
        /\ \A i \in DOMAIN lg : (\A j \in 1 .. Len(es) : prev + j <= i => es[j].term = lg[prev + j].term)
              => i \in DOMAIN s /\ s[i] = lg[i]
    BY <2>1, MergeResult
  <2>3. r = s
    BY <2>1
  <2> HIDE DEF s
  <2> QED
    BY <2>2, <2>3 DEF lg, prev, es
<1> QED
  BY <1>1, <1>2, <1>3, <1>4, <1>6, <1>t DEF Linked

\* The log of a leader after a command.
LEMMA ExtendedLog ==
    ASSUME Base, NEW n \in Node, Extends(n)
    PROVE  /\ state[n] = "leader"
           /\ \A k \in Node \ {n} : log'[k] = log[k]
           /\ Len(log[n]) \in Nat /\ DOMAIN log[n] = 1 .. Len(log[n])
           /\ DOMAIN log'[n] = 1 .. Len(log[n]) + 1
           /\ \A i \in DOMAIN log[n] : i \in DOMAIN log'[n] /\ log'[n][i] = log[n][i]
           /\ log'[n][Len(log[n]) + 1].term = currentTerm[n]
           /\ LinksOf(log'[n]) = LinksOf(log[n])
                 \cup {Link(Len(log[n]) + 1, LastTerm(log[n]), log'[n][Len(log[n]) + 1])}
<1>1. PICK v \in Command :
         log' = [log EXCEPT ![n] = Append(log[n], [term |-> currentTerm[n], cmd |-> v])]
  BY DEF Extends
<1> DEFINE e == [term |-> currentTerm[n], cmd |-> v]
           lg == Append(log[n], e)
<1>2. state[n] = "leader"
  BY DEF Extends
<1>t. /\ log \in [Node -> Seq(Entry)] /\ log[n] \in Seq(Entry) /\ Len(log[n]) \in Nat
      /\ DOMAIN log[n] = 1 .. Len(log[n]) /\ currentTerm[n] \in Term
  BY StepTypes, LastTypes DEF Base
<1>3. e \in Entry /\ e.term = currentTerm[n]
  BY <1>t DEF Entry
<1>4. log'[n] = lg /\ \A k \in Node \ {n} : log'[k] = log[k]
  BY <1>1, <1>t
<1> HIDE DEF e
<1>5. /\ LinksOf(lg) = LinksOf(log[n]) \cup {Link(Len(log[n]) + 1, LastTerm(log[n]), e)}
      /\ lg \in Seq(Entry) /\ Len(lg) = Len(log[n]) + 1
      /\ \A i \in DOMAIN log[n] : lg[i] = log[n][i]
  BY <1>3, <1>t, AppendLinks
<1>6. lg[Len(log[n]) + 1] = e
  BY <1>3, <1>t, AppendProperties
<1> HIDE DEF lg
<1>7. DOMAIN lg = 1 .. Len(log[n]) + 1
  BY <1>5, LenProperties
<1>8. \A i \in DOMAIN log[n] : i \in DOMAIN lg
  BY <1>t, <1>7
<1> QED
  BY <1>2, <1>3, <1>4, <1>5, <1>6, <1>7, <1>8, <1>t

\* Logs change by merges and commands.
LEMMA LogMoves ==
    ASSUME TypeInv, Moves, NEW q \in Node
    PROVE  \/ log'[q] = log[q]
           \/ \E m \in Requests : Merges(q, m)
           \/ Extends(q)
<1>t. log \in [Node -> Seq(Entry)]
  BY StepTypes
<1>1. CASE Calm \/ \E n \in Node : Leads(n) \/ Sends(n) \/ Commits(n)
  BY <1>1 DEF Calm, Leads, Sends, Commits, logVars
<1>2. ASSUME NEW n \in Node, Extends(n), n # q PROVE log'[q] = log[q]
  BY <1>2, <1>t DEF Extends
<1>3. ASSUME NEW n \in Node, NEW m \in Requests, Merges(n, m), n # q PROVE log'[q] = log[q]
  BY <1>3, <1>t DEF Merges
<1> QED
  BY <1>1, <1>2, <1>3 DEF Moves

\* Who holds an entry that is covered keeps it.
LEMMA HoldsStays ==
    ASSUME Base, TermsInv, Moves, NEW q \in Node, NEW i, NEW t \in Term, Covered(i, t), Agreed(i, t), Holds(log[q], i, t)
    PROVE  Holds(log'[q], i, t)
<1>1. i \in DOMAIN log[q] /\ log[q][i].term = t
  BY DEF Holds
<1>2. CASE log'[q] = log[q]
  BY <1>2
<1>3. CASE Extends(q)
  BY <1>1, <1>3, ExtendedLog DEF Holds
<1>4. ASSUME NEW m \in Requests, Merges(q, m) PROVE Holds(log'[q], i, t)
  <2>1. /\ currentTerm[q] = m.term
        /\ \A j \in DOMAIN m.entries : /\ m.prevLogIndex + j \in DOMAIN log'[q]
                                       /\ log'[q][m.prevLogIndex + j].term = m.entries[j].term
        /\ \A x \in 1 .. m.prevLogIndex : x \in DOMAIN log'[q] /\ log'[q][x] = log[q][x]
        /\ (\A j \in DOMAIN m.entries : m.prevLogIndex + j <= i => m.entries[j].term = log[q][m.prevLogIndex + j].term)
              => i \in DOMAIN log'[q] /\ log'[q][i] = log[q][i]
    BY <1>1, <1>4, MergedLog
  <2>2. t \in Nat /\ m.term \in Nat /\ t <= m.term /\ i \in Nat /\ i >= 1 /\ m.prevLogIndex \in Nat
    <3>1. t <= currentTerm[q]
      BY <1>1 DEF TermsInv
    <3>2. i \in Nat /\ i >= 1
      BY HeldIsMade, LogsLinked DEF Base
    <3> QED
      BY <2>1, <3>1, <3>2, CarryTypes, BoundsAssumption DEF Base, Term
  <2>3. CASE m.term = t
    BY <1>1, <2>1, <2>3 DEF Agreed, Holds
  <2>4. CASE m.term > t
    <3>1. CASE i <= m.prevLogIndex
      <4>1. i \in 1 .. m.prevLogIndex
        BY <2>2, <3>1
      <4> QED
        BY <1>1, <2>1, <4>1 DEF Holds
    <3>2. CASE Holds(m.entries, i - m.prevLogIndex, t)
      <4>1. i - m.prevLogIndex \in DOMAIN m.entries /\ m.entries[i - m.prevLogIndex].term = t
        BY <3>2 DEF Holds
      <4>2. m.prevLogIndex + (i - m.prevLogIndex) = i
        BY <2>2
      <4>3. /\ m.prevLogIndex + (i - m.prevLogIndex) \in DOMAIN log'[q]
            /\ log'[q][m.prevLogIndex + (i - m.prevLogIndex)].term = t
        BY <2>1, <4>1
      <4> QED
        BY <4>2, <4>3 DEF Holds
    <3> QED
      BY <2>4, <3>1, <3>2 DEF Covered
  <2> QED
    BY <2>2, <2>3, <2>4
<1> QED
  BY <1>2, <1>3, <1>4, LogMoves DEF Base

\* What a leader sends is the end of its log.
LEMMA SentRequest ==
    ASSUME Base, PeerInv, NEW n \in Node, Sends(n)
    PROVE  /\ state[n] = "leader" /\ log' = log /\ Links' \subseteq Links
           /\ \E r : /\ Requests' \subseteq Requests \cup {r}
                     /\ r.from = n /\ r.term = currentTerm[n] /\ r.leaderCommit = commitIndex[n]
                     /\ PartOf(r, log[n]) /\ r.prevLogIndex + Len(r.entries) = Len(log[n])
                     /\ r.prevLogIndex \in 0 .. Len(log[n])
                     /\ Len(r.entries) \in Nat /\ DOMAIN r.entries = 1 .. Len(r.entries)
<1>1. PICK p \in Peers(n) : Requests' \subseteq Requests \cup
              {AppendReq(n, p, currentTerm[n], nextIndex[n][p] - 1, log[n], commitIndex[n])}
  BY DEF Sends
<1> DEFINE prev == nextIndex[n][p] - 1
           r == AppendReq(n, p, currentTerm[n], prev, log[n], commitIndex[n])
<1>c. state[n] = "leader" /\ log' = log
  BY DEF Sends, logVars
<1>2. p \in Node /\ log[n] \in Seq(Entry) /\ Len(log[n]) \in Nat /\ DOMAIN log[n] = 1 .. Len(log[n])
  BY StepTypes, LenProperties DEF Base, Peers
<1>3. prev \in 0 .. Len(log[n])
  <2>1. nextIndex[n][p] \in Nat \ {0}
    BY <1>2 DEF Base, TypeInv, PeerTypes
  <2>2. nextIndex[n][p] <= Len(log[n]) + 1
    BY <1>c, <1>2 DEF PeerInv
  <2> QED
    BY <1>2, <2>1, <2>2
<1> HIDE DEF prev
<1>4. /\ r.from = n /\ r.term = currentTerm[n] /\ r.leaderCommit = commitIndex[n]
      /\ r.prevLogIndex = prev /\ r.prevLogTerm = TermAt(log[n], prev)
      /\ r.entries = SubSeq(log[n], prev + 1, Len(log[n]))
  BY DEF AppendReq
<1>5. Requests' \subseteq Requests \cup {r}
  BY <1>1 DEF prev
<1> HIDE DEF r
<1>6. PartOf(r, log[n]) /\ r.prevLogIndex + Len(r.entries) = Len(log[n])
  BY <1>2, <1>3, <1>4, SentPart
<1>7. RequestLinks(r) \subseteq LinksOf(log[n])
  <2>1. prev \in Nat
    BY <1>2, <1>3
  <2> QED
    BY <1>2, <1>4, <2>1, SentLinks
<1>8. Links' \subseteq Links
  BY <1>c, <1>5, <1>7, LinksAre
<1>9. DOMAIN r.entries = 1 .. Len(r.entries) /\ Len(r.entries) \in Nat
  <2>1. r.entries \in Seq(Entry)
    <3>1. \A x \in prev + 1 .. Len(log[n]) : log[n][x] \in Entry
      BY <1>2, <1>3, ElementOfSeq
    <3>2. prev + 1 \in Int /\ Len(log[n]) \in Int
      BY <1>2, <1>3
    <3> QED
      BY <1>4, <3>1, <3>2, SubSeqProperties
  <2> QED
    BY <2>1, LenProperties
<1> QED
  BY <1>c, <1>3, <1>4, <1>5, <1>6, <1>8, <1>9

\* A log that holds an entry after a step agrees up to it with one that held it.
LEMMA NewHolders ==
    ASSUME Base, Moves, NEW q \in Node, NEW h \in Node, NEW i, NEW t,
           Holds(log'[q], i, t), Holds(log[h], i, t)
    PROVE  \A x \in 1 .. i : log'[q][x] = log[h][x]
<1>1. Linked(log[q]) /\ Linked(log[h])
  BY LogsLinked DEF Base
<1>2. i \in Nat /\ i >= 1 /\ Made(i, t)
  BY <1>1, HeldIsMade
<1>3. CASE log'[q] = log[q]
  <2>1. Holds(log[q], i, t)
    BY <1>3
  <2> QED
    BY <1>1, <1>3, <2>1, HoldersMatch DEF Base
<1>4. ASSUME NEW m \in Requests, Merges(q, m) PROVE \A x \in 1 .. i : log'[q][x] = log[h][x]
  <2>1. Linked(log'[q])
    BY <1>4, MergedLog
  <2> QED
    BY <1>1, <2>1, HoldersMatch DEF Base
<1>5. CASE Extends(q)
  <2>1. /\ state[q] = "leader" /\ Len(log[q]) \in Nat /\ DOMAIN log[q] = 1 .. Len(log[q])
        /\ DOMAIN log'[q] = 1 .. Len(log[q]) + 1
        /\ \A x \in DOMAIN log[q] : log'[q][x] = log[q][x]
        /\ log'[q][Len(log[q]) + 1].term = currentTerm[q]
    BY <1>5, ExtendedLog
  <2>2. i \in 1 .. Len(log[q]) + 1 /\ log'[q][i].term = t
    BY <2>1 DEF Holds
  <2>3. i # Len(log[q]) + 1
    <3> SUFFICES ASSUME i = Len(log[q]) + 1 PROVE FALSE
      OBVIOUS
    <3>1. t = currentTerm[q]
      BY <2>1, <2>2
    <3>2. i \in DOMAIN log[q]
      BY <1>2, <2>1, <3>1, LeaderHoldsMade DEF Base, Holds
    <3> QED
      BY <2>1, <3>2
  <2>4. i \in DOMAIN log[q]
    BY <2>1, <2>2, <2>3
  <2>5. Holds(log[q], i, t)
    BY <2>1, <2>2, <2>4 DEF Holds
  <2>6. \A x \in 1 .. i : log[q][x] = log[h][x]
    BY <1>1, <2>5, HoldersMatch DEF Base
  <2>7. \A x \in 1 .. i : x \in DOMAIN log[q]
    BY <1>2, <2>1, <2>4
  <2> QED
    BY <2>1, <2>6, <2>7
<1> QED
  BY <1>3, <1>4, <1>5, LogMoves DEF Base

\* Requests go on to agree with the logs that hold an entry.
LEMMA AgreedStays ==
    ASSUME Base, PeerInv, Moves, NEW h \in Node, NEW i, NEW t, Holds(log[h], i, t), Agreed(i, t)
    PROVE  Agreed(i, t)'
<1> SUFFICES ASSUME NEW m \in Requests', NEW q \in Node, m.term = t, Holds(log'[q], i, t),
                    NEW j \in DOMAIN m.entries, m.prevLogIndex + j <= i
             PROVE  m.entries[j].term = log'[q][m.prevLogIndex + j].term
  BY DEF Agreed
<1>1. \A x \in 1 .. i : log'[q][x] = log[h][x]
  BY NewHolders
<1>2. i \in Nat
  BY LogsLinked, HeldIsMade DEF Base
<1>3. CASE m \in Requests
  <2>1. m.entries[j].term = log[h][m.prevLogIndex + j].term
    BY <1>3 DEF Agreed
  <2>2. m.prevLogIndex + j \in 1 .. i
    BY <1>2, <1>3, CarryTypes DEF Base
  <2> QED
    BY <1>1, <2>1, <2>2
<1>4. ASSUME NEW n \in Node, Sends(n), m \notin Requests
      PROVE  m.entries[j].term = log'[q][m.prevLogIndex + j].term
  <2>1. /\ state[n] = "leader" /\ m.term = currentTerm[n] /\ PartOf(m, log[n])
        /\ m.prevLogIndex \in 0 .. Len(log[n]) /\ Len(log[n]) \in Nat
        /\ Len(m.entries) \in Nat /\ DOMAIN m.entries = 1 .. Len(m.entries)
    BY <1>4, SentRequest, StepTypes, LenProperties DEF Base
  <2>2. Holds(log[n], i, t)
    BY <2>1, LogsLinked, HeldIsMade, LeaderHoldsMade DEF Base
  <2>3. \A x \in 1 .. i : log[n][x] = log[h][x]
    BY <2>2, LogsLinked, HoldersMatch DEF Base
  <2>4. m.entries[j] = log[n][m.prevLogIndex + j]
    BY <2>1 DEF PartOf
  <2>5. m.prevLogIndex + j \in 1 .. i
    BY <1>2, <2>1
  <2> QED
    BY <1>1, <2>3, <2>4, <2>5
<1>5. m \in Requests \/ \E n \in Node : Sends(n)
  BY DEF Moves, Calm, Leads, Extends, Commits, Merges
<1> QED
  BY <1>3, <1>4, <1>5

\* A covered entry stays covered if new leaders hold it.
LEMMA CoveredStays ==
    ASSUME Base, CarryInv, Moves, NEW i \in Nat, NEW t \in Term, i >= 1, Made(i, t), Covered(i, t),
           \A n \in Node : Leads(n) /\ currentTerm[n] > t => Holds(log[n], i, t)
    PROVE  Covered(i, t)'
<1>a. \A c \in Node : state[c] = "leader" /\ currentTerm[c] > t => Holds(log[c], i, t)
  BY DEF Covered
<1>b. \A k \in Links : k.entry.term > t /\ k.before <= t => k.before = t /\ k.index > i
  BY DEF Covered
<1>c. \A m \in Requests : m.term > t =>
          i <= m.prevLogIndex \/ Holds(m.entries, i - m.prevLogIndex, t)
  BY DEF Covered
<1>t. state \in [Node -> {"follower", "candidate", "leader"}]
  BY StepTypes DEF Base
<1>1. CASE Calm \/ \E n \in Node : Commits(n)
  <2>1. log' = log /\ Requests' \subseteq Requests
    BY <1>1 DEF Calm, Commits, logVars
  <2>2. Links' \subseteq Links
    BY <2>1, LinksKept
  <2>3. \A c \in Node : state'[c] = "leader" => state[c] = "leader" /\ currentTerm'[c] = currentTerm[c]
    BY <1>1 DEF Calm, Commits
  <2> QED
    BY <1>a, <1>b, <1>c, <2>1, <2>2, <2>3 DEF Covered
<1>2. ASSUME NEW n \in Node, Leads(n) PROVE Covered(i, t)'
  <2>1. log' = log /\ Requests' \subseteq Requests /\ currentTerm' = currentTerm
    BY <1>2 DEF Leads, logVars
  <2>2. Links' \subseteq Links
    BY <2>1, LinksKept
  <2>3. \A c \in Node : state'[c] = "leader" => state[c] = "leader" \/ c = n
    BY <1>2, <1>t DEF Leads
  <2> QED
    BY <1>2, <1>a, <1>b, <1>c, <2>1, <2>2, <2>3 DEF Covered
<1>3. ASSUME NEW n \in Node, Sends(n) PROVE Covered(i, t)'
  <2>1. PICK r : /\ Requests' \subseteq Requests \cup {r}
                 /\ r.term = currentTerm[n]
                 /\ PartOf(r, log[n]) /\ r.prevLogIndex + Len(r.entries) = Len(log[n])
                 /\ r.prevLogIndex \in 0 .. Len(log[n])
                 /\ Len(r.entries) \in Nat /\ DOMAIN r.entries = 1 .. Len(r.entries)
    BY <1>3, SentRequest DEF CarryInv
  <2>2. state[n] = "leader" /\ log' = log /\ Links' \subseteq Links
    BY <1>3, SentRequest DEF CarryInv
  <2>3. UNCHANGED <<state, currentTerm>>
    BY <1>3 DEF Sends
  <2>4. ASSUME r.term > t, ~(i <= r.prevLogIndex) PROVE Holds(r.entries, i - r.prevLogIndex, t)
    <3>1. Holds(log[n], i, t)
      BY <1>a, <2>1, <2>2, <2>4
    <3>2. i \in DOMAIN log[n] /\ log[n][i].term = t
      BY <3>1 DEF Holds
    <3>3. Len(log[n]) \in Nat /\ DOMAIN log[n] = 1 .. Len(log[n])
      BY StepTypes, LenProperties DEF Base
    <3>4. /\ i - r.prevLogIndex \in DOMAIN r.entries
          /\ r.prevLogIndex + (i - r.prevLogIndex) = i
      BY <2>1, <2>4, <3>2, <3>3
    <3>5. r.entries[i - r.prevLogIndex] = log[n][r.prevLogIndex + (i - r.prevLogIndex)]
      BY <2>1, <3>4 DEF PartOf
    <3> QED
      BY <3>2, <3>4, <3>5 DEF Holds
  <2>5. \A m \in Requests' : m.term > t => i <= m.prevLogIndex \/ Holds(m.entries, i - m.prevLogIndex, t)
    BY <1>c, <2>1, <2>4
  <2> QED
    BY <1>a, <1>b, <2>2, <2>3, <2>5 DEF Covered
<1>4. ASSUME NEW n \in Node, NEW m \in Requests, Merges(n, m) PROVE Covered(i, t)'
  <2>1. state[n] = "follower" /\ Linked(log'[n]) /\ \A k \in Node \ {n} : log'[k] = log[k]
    BY <1>4, MergedLog
  <2>2. UNCHANGED <<state, currentTerm>> /\ Requests' \subseteq Requests
    BY <1>4 DEF Merges
  <2>3. Links' \subseteq Links
    BY <2>1, <2>2, LinksAre DEF Linked
  <2>4. \A c \in Node : state[c] = "leader" => log'[c] = log[c]
    BY <2>1
  <2> QED
    BY <1>a, <1>b, <1>c, <2>2, <2>3, <2>4 DEF Covered
<1>5. ASSUME NEW n \in Node, Extends(n) PROVE Covered(i, t)'
  <2> DEFINE l == Link(Len(log[n]) + 1, LastTerm(log[n]), log'[n][Len(log[n]) + 1])
  <2>1. /\ state[n] = "leader"
        /\ \A k \in Node \ {n} : log'[k] = log[k]
        /\ Len(log[n]) \in Nat /\ DOMAIN log[n] = 1 .. Len(log[n])
        /\ \A x \in DOMAIN log[n] : x \in DOMAIN log'[n] /\ log'[n][x] = log[n][x]
        /\ log'[n][Len(log[n]) + 1].term = currentTerm[n]
        /\ LinksOf(log'[n]) = LinksOf(log[n]) \cup {l}
    BY <1>5, ExtendedLog
  <2>2. UNCHANGED <<state, currentTerm>> /\ Requests' \subseteq Requests
    BY <1>5 DEF Extends
  <2>3. l.index = Len(log[n]) + 1 /\ l.before = LastTerm(log[n]) /\ l.entry.term = currentTerm[n]
    BY <2>1 DEF Link
  <2> HIDE DEF l
  <2>4. \A k \in Links' : k \in Links \/ k = l
    BY <2>1, <2>2, LinksAre
  <2>5. ASSUME currentTerm[n] > t PROVE LastTerm(log[n]) >= t /\ Len(log[n]) + 1 > i
    <3>1. i \in DOMAIN log[n] /\ log[n][i].term = t
      BY <1>a, <2>1, <2>5 DEF Holds
    <3>2. Len(log[n]) \in DOMAIN log[n] /\ i <= Len(log[n])
      BY <2>1, <3>1
    <3>3. log[n] \in Seq(Entry) /\ Linked(log[n])
      BY LogsLinked DEF Base, Linked
    <3>4. \A k \in LinksOf(log[n]) : k.before <= k.entry.term
      BY <3>3 DEF Linked, CarryInv, OrderInv
    <3>5. log[n][i].term <= log[n][Len(log[n])].term
      BY <3>1, <3>2, <3>3, <3>4, Sorted
    <3>6. log[n][Len(log[n])].term \in Nat /\ t \in Nat
      BY <3>2, <3>3, LastTypes, BoundsAssumption DEF Term
    <3> QED
      BY <2>1, <3>1, <3>2, <3>5, <3>6 DEF LastTerm, TermAt
  <2>6. LastTerm(log[n]) \in Nat /\ t \in Nat
    BY StepTypes, LastTypes, BoundsAssumption DEF Base, Term
  <2>7. l.entry.term > t /\ l.before <= t => l.before = t /\ l.index > i
    BY <2>3, <2>5, <2>6
  <2>8. \A c \in Node : state[c] = "leader" /\ currentTerm[c] > t => Holds(log'[c], i, t)
    BY <1>a, <2>1 DEF Holds
  <2> QED
    BY <1>b, <1>c, <2>2, <2>4, <2>7, <2>8 DEF Covered
<1> QED
  BY <1>1, <1>2, <1>3, <1>4, <1>5 DEF Moves

\* So do the logs of its voters' later candidates.
LEMMA KeptStays ==
    ASSUME Base, Base', CampaignInv, CarryInv, [Next]_vars, "mux" \notin Hazards, "restart" \notin Hazards,
           Grows, GoodVotes, Moves,
           NEW q \in Node, NEW i, NEW t \in Term, Covered(i, t), Agreed(i, t), Kept(q, i, t)
    PROVE  Kept(q, i, t)'
<1>1. Holds(log[q], i, t) /\ Holds(log'[q], i, t)
  BY HoldsStays DEF Kept, CarryInv
<1>2. ASSUME NEW c \in Node, NEW u \in Term, <<q, u, c>> \in ballots', u > t, Standing(c, u)'
      PROVE  Holds(log'[c], i, t)
  <2>1. log'[c] = log[c]
    BY <1>2, StandingLog
  <2>2. CASE <<q, u, c>> \in ballots
    <3>1. u <= currentTerm[c]
      BY <2>2 DEF CampaignInv
    <3>2. Standing(c, u) \/ currentTerm[c] < u
      BY <1>2, StandingKept DEF Base, Grows
    <3>3. u \in Nat /\ currentTerm[c] \in Nat
      BY StepTypes DEF Base
    <3>4. Standing(c, u)
      BY <3>1, <3>2, <3>3
    <3> QED
      BY <1>2, <2>1, <2>2, <3>4 DEF Kept
  <2>3. CASE <<q, u, c>> \notin ballots
    <3>1. UpToDate(LastTerm(log[c]), Len(log[c]), log[q])
      BY <1>2, <2>3 DEF GoodVotes
    <3> QED
      BY <1>1, <2>1, <3>1, LogsLinked, VoteReaches DEF Base, CarryInv
  <2> QED
    BY <2>2, <2>3
<1> QED
  BY <1>1, <1>2 DEF Kept

-----------------------------------------------------------------------------
(***************************************************************************)
(* What is safe stays safe.                                                *)
(***************************************************************************)
\* What a voter has kept, the candidate it elects holds.
LEMMA ElectedHold ==
    ASSUME Base, NEW n \in Node, Leads(n), NEW i, NEW t \in Term, currentTerm[n] > t,
           NEW p \in Node, <<p, currentTerm[n], n>> \in ballots, Kept(p, i, t)
    PROVE  Holds(log[n], i, t)
<1>1. currentTerm[n] \in Term /\ state[n] # "leader" /\ HasQuorum(n, currentTerm[n])
  BY StepTypes DEF Base, Leads
<1>2. Standing(n, currentTerm[n])
  BY <1>1, QuorumUnique DEF Base, Standing
<1> QED
  BY <1>1, <1>2 DEF Kept

\* A majority is not empty.
LEMMA SomeVoter ==
    ASSUME NEW Q \in SUBSET Node, Cardinality(Q) >= votesNeeded
    PROVE  \E q \in Node : q \in Q
<1>1. Q \cap Q # {}
  BY MajoritiesMeet
<1> QED
  BY <1>1

\* A safe entry was made.
LEMMA SafeIsMade ==
    ASSUME Base, NEW i, NEW t, Safe(i, t)
    PROVE  \E h \in Node : Kept(h, i, t) /\ Holds(log[h], i, t) /\ Made(i, t) /\ i \in Nat /\ i >= 1 /\ t \in Term
<1>1. PICK Q \in SUBSET Node : Cardinality(Q) >= votesNeeded /\ \A q \in Q : Kept(q, i, t)
  BY DEF Safe
<1>2. PICK h \in Node : h \in Q
  BY <1>1, SomeVoter
<1>3. Kept(h, i, t) /\ Holds(log[h], i, t)
  BY <1>1, <1>2 DEF Kept
<1>4. Made(i, t) /\ i \in Nat /\ i >= 1 /\ t \in Term
  BY <1>3, LogsLinked, HeldIsMade DEF Base
<1> QED
  BY <1>3, <1>4

\* What is safe stays safe.
LEMMA SafeStays ==
    ASSUME Base, Base', CampaignInv, CarryInv, [Next]_vars, "mux" \notin Hazards, "restart" \notin Hazards,
           Grows, GoodVotes, Moves, NEW i, NEW t, Safe(i, t)
    PROVE  Safe(i, t)'
<1>1. PICK h \in Node : Holds(log[h], i, t) /\ Made(i, t) /\ i \in Nat /\ i >= 1 /\ t \in Term
  BY SafeIsMade
<1>2. Covered(i, t) /\ Agreed(i, t)
  BY DEF Safe
<1>3. PICK Q \in SUBSET Node : Cardinality(Q) >= votesNeeded /\ \A q \in Q : Kept(q, i, t)
  BY DEF Safe
<1>4. ASSUME NEW n \in Node, Leads(n), currentTerm[n] > t PROVE Holds(log[n], i, t)
  <2>1. PICK P \in SUBSET Node : Cardinality(P) >= votesNeeded /\ \A p \in P : <<p, currentTerm[n], n>> \in ballots
    BY <1>4 DEF Leads, HasQuorum
  <2>2. PICK p \in Node : p \in P /\ p \in Q
    BY <1>3, <2>1, MajoritiesMeet
  <2> QED
    BY <1>1, <1>3, <1>4, <2>1, <2>2, ElectedHold
<1>5. Covered(i, t)'
  BY <1>1, <1>2, <1>4, CoveredStays
<1>6. Agreed(i, t)'
  BY <1>1, <1>2, AgreedStays DEF CarryInv
<1>7. \A q \in Q : Kept(q, i, t)'
  BY <1>1, <1>2, <1>3, KeptStays
<1> QED
  BY <1>3, <1>5, <1>6, <1>7 DEF Safe, votesNeeded

-----------------------------------------------------------------------------
(***************************************************************************)
(* What leaders may still commit.                                          *)
(***************************************************************************)
\* Who tells a leader more than before has merged its request.
LEMMA NewAcks ==
    ASSUME Base, CallInv, Moves, NEW n \in Node, state[n] = "leader", state'[n] = "leader",
           currentTerm'[n] = currentTerm[n], NEW w \in Node, NEW i \in Nat, Acked(n, w, i)'
    PROVE  \/ Acked(n, w, i)
           \/ \E m \in Requests : /\ Merges(w, m) /\ m.term = currentTerm[n]
                                  /\ m.prevLogIndex + Len(m.entries) >= i
<1>t. matchIndex \in [Node -> [Node -> Nat]]
  BY DEF Base, TypeInv, PeerTypes
<1>1. CASE matchIndex'[n][w] >= i
  <2>1. CASE Calm
    <3>1. Counts(n, w)
      BY <2>1 DEF Calm
    <3> QED
      BY <1>1, <3>1 DEF Counts, Acked
  <2>2. ASSUME NEW k \in Node, Leads(k) PROVE Acked(n, w, i)
    <3>1. k # n
      BY <2>2 DEF Leads
    <3>2. matchIndex'[n][w] = matchIndex[n][w]
      BY <1>t, <2>2, <3>1 DEF Leads
    <3> QED
      BY <1>1, <3>2 DEF Acked
  <2>3. CASE \/ \E k \in Node : Sends(k) \/ Extends(k) \/ Commits(k)
             \/ \E k \in Node : \E m \in Requests : Merges(k, m)
    <3>1. matchIndex' = matchIndex
      BY <2>3 DEF Sends, Extends, Commits, Merges, peerVars
    <3> QED
      BY <1>1, <3>1 DEF Acked
  <2> QED
    BY <2>1, <2>2, <2>3 DEF Moves
<1>2. ASSUME NEW a \in Answers', a.success, a.from = w, a.to = n, a.waiter.term = currentTerm[n], a.match >= i
      PROVE  \/ Acked(n, w, i)
             \/ \E m \in Requests : /\ Merges(w, m) /\ m.term = currentTerm[n]
                                    /\ m.prevLogIndex + Len(m.entries) >= i
  <2>1. CASE a \in Answers
    BY <1>2, <2>1 DEF Acked
  <2>2. CASE a \notin Answers
    <3>1. PICK k \in Node, m \in Requests :
             /\ Merges(k, m)
             /\ a = AppendResp(m, m.term, TRUE, m.prevLogIndex + Len(m.entries), 0)
      BY <1>2, <2>2 DEF Moves, Calm, Refusal, Leads, Sends, Extends, Commits, Merges
    <3>2. a.from = m.to /\ a.waiter = m.waiter /\ a.match = m.prevLogIndex + Len(m.entries)
      BY <3>1 DEF AppendResp
    <3>3. m.to = k
      <4>1. LogCont(m) \in pend[k] /\ LogCont(m).pc = "log" /\ LogCont(m).req = m
        BY <3>1 DEF Merges, LogCont
      <4> QED
        BY <4>1, StepTypes DEF Base
    <3>4. m.term = currentTerm[n]
      BY <1>2, <3>2 DEF CallInv
    <3> QED
      BY <1>2, <3>1, <3>2, <3>3, <3>4
  <2> QED
    BY <2>1, <2>2
<1>3. \/ matchIndex'[n][w] >= i
      \/ \E a \in Answers' : /\ a.success /\ a.from = w /\ a.to = n
                             /\ a.waiter.term = currentTerm'[n] /\ a.match >= i
  BY DEF Acked
<1> QED
  BY <1>1, <1>2, <1>3

\* A majority that has left a leader does not come back.
LEMMA BlockedStays ==
    ASSUME Base, Base', CallInv, Grows, Moves, NEW n \in Node, state[n] = "leader", state'[n] = "leader",
           currentTerm'[n] = currentTerm[n], NEW i \in Nat, Blocked(n, i)
    PROVE  Blocked(n, i)'
<1>1. PICK W \in SUBSET Node : /\ Cardinality(W) >= votesNeeded
                               /\ \A w \in W : currentTerm[w] > currentTerm[n] /\ ~Acked(n, w, i)
  BY DEF Blocked
<1>t. \A k \in Node : currentTerm[k] \in Nat /\ currentTerm'[k] \in Nat
  BY BoundsAssumption DEF Base, TypeInv, ServerTypes, Term
<1>2. ASSUME NEW w \in W PROVE currentTerm'[w] > currentTerm'[n] /\ ~Acked(n, w, i)'
  <2>1. w \in Node /\ currentTerm[w] > currentTerm[n] /\ ~Acked(n, w, i)
    BY <1>1
  <2>2. currentTerm'[w] > currentTerm'[n]
    <3>1. currentTerm'[w] >= currentTerm[w]
      BY <2>1 DEF Grows
    <3> QED
      BY <1>t, <2>1, <3>1
  <2>3. ~ \E m \in Requests : Merges(w, m) /\ m.term = currentTerm[n]
    <3>1. \A m \in Requests : Merges(w, m) => currentTerm[w] = m.term
      BY <2>1, MergedLog
    <3> QED
      BY <1>t, <2>1, <3>1
  <2> QED
    BY <2>1, <2>2, <2>3, NewAcks
<1> QED
  BY <1>1, <1>2 DEF Blocked, votesNeeded

\* Who has voted in a later term has left the leader.
LEMMA VotersBlock ==
    ASSUME Base, NEW n \in Node, NEW i, NEW d \in Node, NEW u \in Term, u > currentTerm[n],
           NEW P \in SUBSET Node, Cardinality(P) >= votesNeeded, \A p \in P : <<p, u, d>> \in ballots,
           \A p \in P : ~Acked(n, p, i)
    PROVE  Blocked(n, i)
<1>1. \A k \in Node : currentTerm[k] \in Nat
  BY StepTypes DEF Base
<1>2. u \in Nat
  BY StepTypes DEF Base
<1>3. \A p \in P : currentTerm[p] > currentTerm[n]
  <2> TAKE p \in P
  <2>1. u <= currentTerm[p]
    BY DEF Base, VoteInv, BallotInv
  <2> QED
    BY <1>1, <1>2, <2>1
<1> QED
  BY <1>3 DEF Blocked

\* Who merges a leader's request holds what it acknowledges.
LEMMA MergeAcks ==
    ASSUME Base, Base', CarryInv, NEW n \in Node, state[n] = "leader", NEW i, Holds(log[n], i, currentTerm[n]),
           NEW q \in Node, NEW m \in Requests, Merges(q, m), m.term = currentTerm[n],
           m.prevLogIndex + Len(m.entries) >= i
    PROVE  Kept(q, i, currentTerm[n])'
<1> DEFINE t == currentTerm[n]
<1>1. /\ currentTerm[q] = t /\ m.prevLogIndex \in 0 .. Len(log[q]) /\ Linked(log[q])
      /\ \A j \in DOMAIN m.entries : /\ m.prevLogIndex + j \in DOMAIN log'[q]
                                     /\ log'[q][m.prevLogIndex + j].term = m.entries[j].term
      /\ \A x \in 1 .. m.prevLogIndex : x \in DOMAIN log'[q] /\ log'[q][x] = log[q][x]
  BY MergedLog, LogsLinked DEF Base
<1>2. PartOf(m, log[n])
  BY DEF CarryInv, SourceInv
<1>3. i \in Nat /\ i >= 1 /\ t \in Term /\ t \in Nat
  BY LogsLinked, HeldIsMade, StepTypes DEF Base
<1>4. m.prevLogIndex \in Nat /\ Len(m.entries) \in Nat /\ DOMAIN m.entries = 1 .. Len(m.entries)
  BY CarryTypes DEF Base
<1>5. Holds(log'[q], i, t)
  <2>1. CASE i <= m.prevLogIndex
    <3>1. m.prevLogIndex \in DOMAIN log[q] /\ log[q][m.prevLogIndex].term = m.prevLogTerm
      <4>1. m.prevLogIndex # 0
        BY <1>3, <1>4, <2>1
      <4> QED
        BY <4>1 DEF Merges
    <3>2. i \in DOMAIN log[n] /\ m.prevLogIndex \in DOMAIN log[n] /\ log[n][i].term = t
      <4>1. Len(log[n]) \in Nat /\ DOMAIN log[n] = 1 .. Len(log[n])
        BY StepTypes, LenProperties DEF Base
      <4>2. m.prevLogIndex <= Len(log[n])
        BY <1>2, <1>4, <4>1 DEF PartOf
      <4> QED
        BY <1>3, <1>4, <2>1, <4>1, <4>2 DEF Holds
    <3>3. log[n][m.prevLogIndex].term = m.prevLogTerm
      BY <1>2, <3>2 DEF PartOf, TermAt
    <3>4. Holds(log[q], m.prevLogIndex, m.prevLogTerm) /\ Holds(log[n], m.prevLogIndex, m.prevLogTerm)
      BY <3>1, <3>2, <3>3 DEF Holds
    <3>5. \A x \in 1 .. m.prevLogIndex : log[q][x] = log[n][x]
      BY <3>4, LogsLinked, HoldersMatch DEF Base
    <3>6. i \in 1 .. m.prevLogIndex
      BY <1>3, <1>4, <2>1
    <3> QED
      BY <1>1, <3>2, <3>5, <3>6 DEF Holds
  <2>2. CASE ~(i <= m.prevLogIndex)
    <3>1. i - m.prevLogIndex \in DOMAIN m.entries /\ m.prevLogIndex + (i - m.prevLogIndex) = i
      BY <1>3, <1>4, <2>2
    <3>2. m.entries[i - m.prevLogIndex].term = t
      BY <1>2, <3>1 DEF PartOf, Holds
    <3>3. /\ m.prevLogIndex + (i - m.prevLogIndex) \in DOMAIN log'[q]
          /\ log'[q][m.prevLogIndex + (i - m.prevLogIndex)].term = t
      BY <1>1, <3>1, <3>2
    <3> QED
      BY <3>1, <3>3 DEF Holds
  <2> QED
    BY <2>1, <2>2
<1>6. currentTerm' = currentTerm /\ ballots' = ballots
  BY DEF Merges
<1>7. ASSUME NEW c \in Node, NEW u \in Term, <<q, u, c>> \in ballots, u > t PROVE FALSE
  <2>1. u <= currentTerm[q] /\ u \in Nat
    BY <1>7, StepTypes DEF Base, VoteInv, BallotInv
  <2> QED
    BY <1>1, <1>3, <1>7, <2>1
<1> QED
  BY <1>5, <1>6, <1>7 DEF Kept

\* What a leader may commit stays so while it leads.
LEMMA OpenKept ==
    ASSUME Base, Base', CampaignInv, CarryInv, [Next]_vars, "mux" \notin Hazards, "restart" \notin Hazards,
           Grows, GoodVotes, Moves, OpenInv,
           NEW n \in Node, state[n] = "leader", state'[n] = "leader", currentTerm'[n] = currentTerm[n],
           NEW i, NEW t \in Term, t = currentTerm[n], Holds(log[n], i, t)
    PROVE  \/ Blocked(n, i)'
           \/ Covered(i, t)' /\ \A q \in Node : Acked(n, q, i)' => Kept(q, i, t)'
<1>1. t = currentTerm[n]
  OBVIOUS
<1>2. Holds(log[n], i, t) /\ Made(i, t) /\ i \in Nat /\ i >= 1
  BY <1>1, LogsLinked, HeldIsMade DEF Base
<1>3. CASE Blocked(n, i)
  BY <1>2, <1>3, BlockedStays DEF CarryInv
<1>4. ASSUME ~Blocked(n, i)
      PROVE  Covered(i, t)' /\ \A q \in Node : Acked(n, q, i)' => Kept(q, i, t)'
  <2>1. Covered(i, t) /\ \A q \in Node : Acked(n, q, i) => Kept(q, i, t)
    BY <1>1, <1>2, <1>4 DEF OpenInv, Holds
  <2>2. Agreed(i, t)
    BY <1>1, <1>2, AgreedOpen DEF Base, CarryInv
  <2>3. ASSUME NEW d \in Node, Leads(d), currentTerm[d] > t PROVE Holds(log[d], i, t)
    <3>1. currentTerm[d] \in Term
      BY StepTypes DEF Base
    <3>2. PICK P \in SUBSET Node : Cardinality(P) >= votesNeeded /\ \A p \in P : <<p, currentTerm[d], d>> \in ballots
      BY <2>3 DEF Leads, HasQuorum
    <3>3. PICK p \in P : Acked(n, p, i)
      BY <1>1, <1>4, <2>3, <3>1, <3>2, VotersBlock
    <3>4. Kept(p, i, t)
      BY <2>1, <3>2, <3>3
    <3> QED
      BY <2>3, <3>2, <3>4, ElectedHold
  <2>4. Covered(i, t)'
    BY <1>2, <2>1, <2>3, CoveredStays
  <2>5. ASSUME NEW q \in Node, Acked(n, q, i)' PROVE Kept(q, i, t)'
    <3>1. CASE Acked(n, q, i)
      BY <2>1, <2>2, <3>1, KeptStays
    <3>2. ASSUME NEW m \in Requests, Merges(q, m), m.term = currentTerm[n], m.prevLogIndex + Len(m.entries) >= i
          PROVE  Kept(q, i, t)'
      <4>1. Kept(q, i, currentTerm[n])'
        BY <1>1, <1>2, <3>2, MergeAcks
      <4> QED
        BY <1>1, <4>1
    <3> QED
      BY <1>2, <2>5, <3>1, <3>2, NewAcks DEF CarryInv
  <2> QED
    BY <2>4, <2>5
<1> QED
  BY <1>1, <1>3, <1>4

\* Nobody knows of an entry that is new, unless it has left the term.
LEMMA OpenNew ==
    ASSUME Base, Base', CarryInv, NEW n \in Node, Extends(n),
           NEW i \in Nat, i = Len(log[n]) + 1, NEW t \in Term, t = currentTerm[n]
    PROVE  \/ Blocked(n, i)'
           \/ Covered(i, t)' /\ \A q \in Node : ~Acked(n, q, i)'
<1>1. t = currentTerm[n] /\ i = Len(log[n]) + 1
  OBVIOUS
<1>c. /\ state[n] = "leader" /\ Requests' \subseteq Requests /\ Answers' \subseteq Answers
      /\ UNCHANGED <<state, currentTerm, matchIndex, ballots>>
  BY DEF Extends, peerVars
<1>t. t \in Nat /\ matchIndex \in [Node -> [Node -> Nat]] /\ Len(log[n]) \in Nat
  BY <1>1, StepTypes, LenProperties DEF Base, TypeInv, PeerTypes
<1>2. \A q \in Node : ~Acked(n, q, i) /\ ~Acked(n, q, i)'
  <2> TAKE q \in Node
  <2>1. matchIndex[n][q] \in Nat /\ matchIndex[n][q] <= Len(log[n])
    BY <1>c, <1>t DEF CarryInv, PeerInv
  <2>2. ~(matchIndex[n][q] >= i) /\ ~(matchIndex'[n][q] >= i)
    BY <1>1, <1>c, <1>t, <2>1
  <2>3. \A a \in Answers : a.to = n /\ a.waiter.term = currentTerm[n] => ~(a.match >= i)
    <3> TAKE a \in Answers
    <3>1. a.match \in Nat
      BY CarryTypes DEF Base
    <3>2. a.to = n /\ a.waiter.term = currentTerm[n] => a.match <= Len(log[n])
      BY <1>c DEF CarryInv, PeerInv
    <3> QED
      BY <1>1, <1>t, <3>1, <3>2
  <2> QED
    BY <1>c, <2>2, <2>3 DEF Acked
<1>3. ASSUME NEW d \in Node, NEW u \in Term, u > t, HasQuorum(d, u) PROVE Blocked(n, i)'
  <2>1. PICK P \in SUBSET Node : Cardinality(P) >= votesNeeded /\ \A p \in P : <<p, u, d>> \in ballots
    BY <1>3 DEF HasQuorum
  <2>2. \A p \in P : currentTerm[p] > currentTerm[n]
    <3> TAKE p \in P
    <3>1. u <= currentTerm[p] /\ u \in Nat /\ currentTerm[p] \in Nat
      BY <2>1, StepTypes DEF Base, VoteInv, BallotInv
    <3> QED
      BY <1>1, <1>3, <1>t, <3>1
  <2> QED
    BY <1>c, <1>2, <2>1, <2>2 DEF Blocked, votesNeeded
<1>4. ASSUME \A d \in Node, u \in Term : u > t => ~HasQuorum(d, u) PROVE Covered(i, t)'
  <2>1. \A c \in Node : state'[c] = "leader" => ~(currentTerm'[c] > t)
    <3> TAKE c \in Node
    <3>1. state[c] = "leader" => HasQuorum(c, currentTerm[c]) /\ currentTerm[c] \in Term
      BY StepTypes DEF Base, VoteInv, LeaderInv
    <3> QED
      BY <1>c, <1>4, <3>1
  <2>2. \A k \in Links' : ~(k.entry.term > t)
    <3> TAKE k \in Links'
    <3> DEFINE l == Link(Len(log[n]) + 1, LastTerm(log[n]), log'[n][Len(log[n]) + 1])
    <3>1. /\ \A x \in Node \ {n} : log'[x] = log[x]
          /\ log'[n][Len(log[n]) + 1].term = currentTerm[n]
          /\ LinksOf(log'[n]) = LinksOf(log[n]) \cup {l}
      BY ExtendedLog
    <3>2. l.entry.term = t
      BY <1>1, <3>1 DEF Link
    <3> HIDE DEF l
    <3>3. k \in Links \/ k = l
      BY <1>c, <3>1, LinksAre
    <3>4. CASE k \in Links
      <4>1. PICK d \in Node : MadeBy(d, k.entry.term)
        BY <3>4 DEF Base, LinkInv, MadeInv
      <4>2. k.entry.term \in Term
        BY <3>4, LinkTerms DEF Base
      <4> QED
        BY <1>4, <4>1, <4>2 DEF MadeBy
    <3>5. CASE k = l
      BY <1>t, <3>2, <3>5
    <3> QED
      BY <3>3, <3>4, <3>5
  <2>3. \A m \in Requests' : ~(m.term > t)
    <3> TAKE m \in Requests'
    <3>1. m \in Requests /\ m.from \in Node /\ m.term \in Term
      BY <1>c, CarryTypes DEF Base
    <3>2. HasQuorum(m.from, m.term)
      BY <3>1 DEF CarryInv, CallInv, MadeBy
    <3> QED
      BY <1>4, <3>1, <3>2
  <2> QED
    BY <2>1, <2>2, <2>3 DEF Covered
<1> QED
  BY <1>2, <1>3, <1>4

\* What leaders may commit stays so.
LEMMA NextOpenInv ==
    ASSUME Base, Base', CampaignInv, CarryInv, [Next]_vars, "mux" \notin Hazards, "restart" \notin Hazards,
           Grows, GoodVotes, Moves, OpenInv
    PROVE  OpenInv'
<1>t. currentTerm' \in [Node -> Term] /\ \A n \in Node : currentTerm[n] \in Term
  BY StepTypes DEF Base, TypeInv, ServerTypes
<1>1. SUFFICES ASSUME NEW n \in Node, state'[n] = "leader", NEW i \in DOMAIN log'[n],
                      NEW t \in Term, t = currentTerm'[n], log'[n][i].term = t
               PROVE  \/ Blocked(n, i)'
                      \/ Covered(i, t)' /\ \A q \in Node : Acked(n, q, i)' => Kept(q, i, t)'
  BY <1>t DEF OpenInv
<1>2. CASE state[n] # "leader"
  <2>1. Leads(n) /\ log' = log /\ currentTerm' = currentTerm
    <3>1. ~Calm
      BY <1>1, <1>2 DEF Calm
    <3>2. ASSUME NEW k \in Node, Leads(k) PROVE k = n
      <4>1. state \in [Node -> {"follower", "candidate", "leader"}]
        BY StepTypes DEF Base
      <4> QED
        BY <1>1, <1>2, <3>2, <4>1 DEF Leads
    <3>3. \A k \in Node : ~Sends(k) /\ ~Extends(k) /\ ~Commits(k) /\ \A m \in Requests : ~Merges(k, m)
      BY <1>1, <1>2 DEF Sends, Extends, Commits, Merges
    <3>4. Leads(n)
      BY <3>1, <3>2, <3>3 DEF Moves
    <3> QED
      BY <3>4 DEF Leads, logVars
  <2>2. i \in DOMAIN log[n] /\ log[n][i].term = currentTerm[n]
    BY <1>1, <2>1
  <2>3. PICK k \in LinksOf(log[n]) : k.entry = log[n][i]
    BY <2>2, LinkEntries
  <2>4. k \in Links /\ k.entry.term = currentTerm[n]
    BY <2>2, <2>3, LinksAre
  <2>5. PICK c \in Node : MadeBy(c, currentTerm[n])
    BY <2>4 DEF Base, LinkInv, MadeInv
  <2>6. HasQuorum(n, currentTerm[n])
    BY <2>1 DEF Leads
  <2> QED
    BY <1>2, <2>5, <2>6, MadeByLeader
<1>3. CASE state[n] = "leader"
  <2>1. currentTerm'[n] = currentTerm[n]
    <3>1. state \in [Node -> {"follower", "candidate", "leader"}]
      BY StepTypes DEF Base
    <3> QED
      BY <1>1, <1>3, <3>1 DEF Moves, Calm, Leads, Sends, Extends, Commits, Merges
  <2>2. CASE Holds(log[n], i, t)
    BY <1>1, <1>3, <2>1, <2>2, OpenKept
  <2>3. CASE ~Holds(log[n], i, t)
    <3>1. log'[n] # log[n]
      BY <1>1, <2>3 DEF Holds
    <3>2. Extends(n)
      <4>1. \A m \in Requests : ~Merges(n, m)
        BY <1>3, MergedLog
      <4> QED
        BY <3>1, <4>1, LogMoves DEF Base
    <3>3. /\ Len(log[n]) \in Nat /\ DOMAIN log[n] = 1 .. Len(log[n])
          /\ DOMAIN log'[n] = 1 .. Len(log[n]) + 1
          /\ \A x \in DOMAIN log[n] : x \in DOMAIN log'[n] /\ log'[n][x] = log[n][x]
      BY <3>2, ExtendedLog
    <3>4. i \notin DOMAIN log[n]
      BY <1>1, <2>3, <3>3 DEF Holds
    <3>5. i = Len(log[n]) + 1 /\ i \in Nat
      BY <1>1, <3>3, <3>4
    <3> QED
      BY <1>1, <2>1, <3>2, <3>5, OpenNew
  <2> QED
    BY <2>2, <2>3
<1> QED
  BY <1>2, <1>3

-----------------------------------------------------------------------------
(***************************************************************************)
(* What is committed.                                                      *)
(***************************************************************************)
\* What a leader finds at a majority, in its term, is safe.
LEMMA CommitsSafe ==
    ASSUME Base, CarryInv, OpenInv, NEW n \in Node, state[n] = "leader", NEW i \in DOMAIN log[n],
           NEW t \in Term, t = currentTerm[n], log[n][i].term = t, HeldByMajority(n, i)
    PROVE  Safe(i, t) /\ Holds(log[n], i, t)
<1>1. Holds(log[n], i, t) /\ i \in Nat /\ t \in Nat
  <2>1. Holds(log[n], i, t)
    BY DEF Holds
  <2> QED
    BY <2>1, LogsLinked, HeldIsMade, StepTypes DEF Base
<1> DEFINE Q == ReplicatedTo(n, i)
<1>2. Q \in SUBSET Node /\ Cardinality(Q) >= votesNeeded
  <2>1. Q \in SUBSET Node
    BY DEF ReplicatedTo, Peers
  <2>2. IsFiniteSet(Q) /\ Cardinality(Q) \in Nat /\ Cardinality(Node) \in Nat
    BY <2>1, NodeAssumption, FS_Subset, FS_CardinalityType
  <2>3. Cardinality(Q) > Cardinality(Node) \div 2
    BY DEF HeldByMajority
  <2> HIDE DEF Q
  <2>4. \A a, b \in Nat : a > b \div 2 => a >= b \div 2 + 1
    OBVIOUS
  <2> QED
    BY <2>1, <2>2, <2>3, <2>4 DEF votesNeeded
<1>3. ~(currentTerm[n] > currentTerm[n]) /\ currentTerm[n] \in Nat
  BY StepTypes DEF Base
<1>4. \A q \in Q : q = n \/ Acked(n, q, i)
  BY DEF ReplicatedTo, Acked
<1> HIDE DEF Q
<1>5. ~Blocked(n, i)
  <2> SUFFICES ASSUME NEW W \in SUBSET Node, Cardinality(W) >= votesNeeded,
                      \A w \in W : currentTerm[w] > currentTerm[n] /\ ~Acked(n, w, i)
               PROVE  FALSE
    BY DEF Blocked
  <2>1. PICK w \in Node : w \in W /\ w \in Q
    BY <1>2, MajoritiesMeet
  <2> QED
    BY <1>3, <1>4, <2>1
<1>6. Covered(i, t) /\ \A q \in Node : Acked(n, q, i) => Kept(q, i, t)
  BY <1>5 DEF OpenInv
<1>7. Kept(n, i, t)
  <2>1. ASSUME NEW c \in Node, NEW u \in Term, <<n, u, c>> \in ballots, u > t PROVE FALSE
    <3>1. u <= currentTerm[n] /\ u \in Nat
      BY <2>1, StepTypes DEF Base, VoteInv, BallotInv
    <3> QED
      BY <1>1, <2>1, <3>1
  <2> QED
    BY <1>1, <2>1 DEF Kept
<1>8. \A q \in Q : Kept(q, i, t)
  BY <1>2, <1>4, <1>6, <1>7
<1>9. Agreed(i, t)
  BY <1>1, AgreedOpen DEF Base, CarryInv
<1> QED
  BY <1>1, <1>2, <1>6, <1>8, <1>9 DEF Safe

\* A node without peers is a majority.
LEMMA LonelySafe ==
    ASSUME Base, Base', CarryInv, NEW n \in Node, Extends(n), Peers(n) = {}, OpenInv',
           NEW i, i = Len(log[n]) + 1, NEW t \in Term, t = currentTerm[n]
    PROVE  Safe(i, t)' /\ Holds(log'[n], i, t)
<1>1. Node = {n} /\ {n} \in SUBSET Node
  BY DEF Peers
<1>2. Cardinality({n}) >= votesNeeded
  <2>1. Cardinality({n}) = 1
    BY FS_Singleton
  <2>2. 1 >= 1 \div 2 + 1
    OBVIOUS
  <2> QED
    BY <1>1, <2>1, <2>2 DEF votesNeeded
<1>c. UNCHANGED <<state, currentTerm, ballots>> /\ Requests' \subseteq Requests /\ state[n] = "leader"
  BY DEF Extends
<1>t. t \in Nat
  BY StepTypes DEF Base
<1>3. i \in DOMAIN log'[n] /\ log'[n][i].term = t
  <2>1. Len(log[n]) \in Nat /\ DOMAIN log'[n] = 1 .. Len(log[n]) + 1 /\ log'[n][Len(log[n]) + 1].term = currentTerm[n]
    BY ExtendedLog
  <2> QED
    BY <2>1
<1>4. Holds(log'[n], i, t)
  BY <1>3 DEF Holds
<1>5. ~Blocked(n, i)'
  <2> SUFFICES ASSUME NEW W \in SUBSET Node, Cardinality(W) >= votesNeeded,
                      \A w \in W : currentTerm'[w] > currentTerm'[n]
               PROVE  FALSE
    BY DEF Blocked, votesNeeded
  <2>1. PICK w \in Node : w \in W
    BY SomeVoter
  <2>2. currentTerm'[n] > currentTerm'[n]
    BY <1>1, <2>1
  <2> QED
    BY <1>c, <1>t, <2>2
<1>6. Covered(i, t)'
  <2>1. \/ Blocked(n, i)'
        \/ Covered(i, currentTerm[n])'
    BY <1>3, <1>c DEF OpenInv
  <2> QED
    BY <1>5, <1>c, <2>1
<1>7. Agreed(i, t)'
  <2>1. Requests = {}
    <3> SUFFICES ASSUME NEW m \in Requests PROVE FALSE
      OBVIOUS
    <3>1. CASE m \in msgs
      BY <1>1, <3>1, StepTypes DEF Base
    <3>2. ASSUME NEW k \in Node, NEW c \in pend[k], c.pc = "log", c.req = m PROVE FALSE
      <4>1. c.req \in AppendReqs /\ c.req.to = k /\ c.req.from # k
        BY <3>2, StepTypes DEF Base
      <4>2. c.req.from \in Node
        BY <4>1 DEF AppendReqs
      <4> QED
        BY <1>1, <4>1, <4>2
    <3> QED
      BY <3>1, <3>2, RequestsAre
  <2> QED
    BY <1>c, <2>1 DEF Agreed
<1>8. Kept(n, i, t)'
  <2>1. ASSUME NEW c \in Node, NEW u \in Term, <<n, u, c>> \in ballots', u > t PROVE FALSE
    <3>1. u <= currentTerm[n] /\ u \in Nat
      BY <1>c, <2>1, StepTypes DEF Base, VoteInv, BallotInv
    <3> QED
      BY <1>t, <2>1, <3>1
  <2> QED
    BY <1>4, <2>1 DEF Kept
<1>9. \E Q \in SUBSET Node : Cardinality(Q) >= votesNeeded /\ \A q \in Q : Kept(q, i, t)'
  <2>1. \A q \in {n} : Kept(q, i, t)'
    BY <1>8
  <2> QED
    BY <1>1, <1>2, <2>1
<1> QED
  BY <1>4, <1>6, <1>7, <1>9 DEF Safe, votesNeeded

\* How commit indexes move.
LEMMA CommitMoves ==
    ASSUME TypeInv, Moves, NEW n \in Node
    PROVE  \/ commitIndex'[n] = commitIndex[n] /\ applied'[n] = applied[n]
           \/ /\ log'[n] = log[n] /\ applied'[n] = ApplyUpTo(n, log[n], commitIndex'[n])
              /\ \/ commitIndex'[n] = commitIndex[n]
                 \/ /\ commitIndex'[n] > commitIndex[n] /\ commitIndex'[n] \in DOMAIN log[n]
                    /\ state[n] = "leader" /\ log[n][commitIndex'[n]].term = currentTerm[n]
                    /\ HeldByMajority(n, commitIndex'[n])
           \/ \E m \in Requests :
                 /\ Merges(n, m)
                 /\ commitIndex'[n] = FollowerCommit(commitIndex[n], m.leaderCommit, m.prevLogIndex + Len(m.entries))
                 /\ applied'[n] = ApplyUpTo(n, log'[n], commitIndex'[n])
           \/ /\ Extends(n) /\ Peers(n) = {} /\ commitIndex'[n] = Len(log[n]) + 1
              /\ \E v \in Command : /\ applied'[n] = Append(applied[n], v)
                                    /\ log'[n] = Append(log[n], [term |-> currentTerm[n], cmd |-> v])
<1>t. DOMAIN log = Node /\ DOMAIN commitIndex = Node /\ DOMAIN applied = Node
  BY DEF TypeInv, LogTypes
<1>1. CASE Calm \/ \E k \in Node : Leads(k) \/ Sends(k)
  BY <1>1 DEF Calm, Leads, Sends, logVars
<1>2. ASSUME NEW k \in Node, Extends(k), k # n PROVE commitIndex'[n] = commitIndex[n] /\ applied'[n] = applied[n]
  BY <1>2, <1>t DEF Extends
<1>3. ASSUME NEW k \in Node, Commits(k), k # n PROVE commitIndex'[n] = commitIndex[n] /\ applied'[n] = applied[n]
  BY <1>3, <1>t DEF Commits
<1>4. ASSUME NEW k \in Node, NEW m \in Requests, Merges(k, m), k # n
      PROVE  commitIndex'[n] = commitIndex[n] /\ applied'[n] = applied[n]
  BY <1>4, <1>t DEF Merges
<1>5. CASE Extends(n)
  BY <1>5, <1>t DEF Extends
<1>6. CASE Commits(n)
  BY <1>6, <1>t DEF Commits
<1>7. ASSUME NEW m \in Requests, Merges(n, m)
      PROVE  /\ commitIndex'[n] = FollowerCommit(commitIndex[n], m.leaderCommit, m.prevLogIndex + Len(m.entries))
             /\ applied'[n] = ApplyUpTo(n, log'[n], commitIndex'[n])
  BY <1>7, <1>t DEF Merges
<1> QED
  BY <1>1, <1>2, <1>3, <1>4, <1>5, <1>6, <1>7 DEF Moves

\* A request's commit index is at an entry that the merged log holds.
LEMMA MergedCommit ==
    ASSUME Base, CarryInv, Moves, CommitInv, NEW n \in Node, NEW m \in Requests, Merges(n, m), m.leaderCommit > 0
    PROVE  /\ m.leaderCommit <= m.prevLogIndex + Len(m.entries)
           /\ \E t \in Term : Safe(m.leaderCommit, t) /\ Holds(log'[n], m.leaderCommit, t)
<1> DEFINE i == m.leaderCommit
           prev == m.prevLogIndex
<1>1. PICK t \in Term : /\ Safe(i, t)
                        /\ \/ i <= prev /\ m.prevLogTerm >= t
                           \/ Holds(m.entries, i - prev, t)
  BY DEF CommitInv
<1>2. /\ i \in Nat /\ i >= 1 /\ prev \in Nat /\ Len(m.entries) \in Nat /\ DOMAIN m.entries = 1 .. Len(m.entries)
      /\ m.prevLogTerm \in Nat /\ t \in Nat
  BY CarryTypes, BoundsAssumption DEF Base, Term
<1>3. CASE Holds(m.entries, i - prev, t)
  <2>1. i - prev \in 1 .. Len(m.entries) /\ m.entries[i - prev].term = t
    BY <1>2, <1>3 DEF Holds
  <2>2. prev + (i - prev) = i /\ i <= prev + Len(m.entries)
    BY <1>2, <2>1
  <2>3. prev + (i - prev) \in DOMAIN log'[n] /\ log'[n][prev + (i - prev)].term = t
    BY <1>2, <2>1, MergedLog
  <2>4. Holds(log'[n], i, t)
    BY <2>2, <2>3 DEF Holds
  <2> QED
    BY <1>1, <2>2, <2>4
<1>4. CASE i <= prev /\ m.prevLogTerm >= t
  <2>1. prev \in DOMAIN log[n] /\ log[n][prev].term = m.prevLogTerm
    <3>1. prev # 0
      BY <1>2, <1>4
    <3> QED
      BY <3>1 DEF Merges
  <2>2. Covered(i, t) /\ Agreed(i, t) /\ Made(i, t)
    BY <1>1, SafeIsMade DEF Safe
  <2>3. Holds(log[n], i, t)
    <3>1. CASE m.prevLogTerm = t
      BY <1>2, <1>4, <2>1, <2>2, <3>1, LogsLinked, ReachesSame DEF Base, CarryInv
    <3>2. CASE m.prevLogTerm > t
      BY <1>2, <2>1, <2>2, <3>2, LogsLinked, ReachesLater DEF Base, CarryInv
    <3> QED
      BY <1>2, <1>4, <3>1, <3>2
  <2>4. Holds(log'[n], i, t)
    BY <2>2, <2>3, HoldsStays DEF CarryInv
  <2>5. i <= prev + Len(m.entries)
    BY <1>2, <1>4
  <2> QED
    BY <1>1, <2>4, <2>5
<1> QED
  BY <1>1, <1>3, <1>4

\* So a follower's commit index moves to the request's, or stays.
LEMMA MergeCommits ==
    ASSUME Base, CarryInv, Moves, CommitInv, NEW n \in Node, NEW m \in Requests, Merges(n, m)
    PROVE  LET ci == FollowerCommit(commitIndex[n], m.leaderCommit, m.prevLogIndex + Len(m.entries))
           IN  ci = commitIndex[n] \/ (ci = m.leaderCommit /\ ci > commitIndex[n])
<1> DEFINE lc == m.leaderCommit
           last == m.prevLogIndex + Len(m.entries)
<1>1. lc \in Nat /\ last \in Nat /\ commitIndex[n] \in Nat
  BY CarryTypes DEF Base, TypeInv, LogTypes
<1>2. CASE ~(lc > commitIndex[n])
  BY <1>2 DEF FollowerCommit
<1>3. CASE lc > commitIndex[n]
  <2>1. lc > 0
    BY <1>1, <1>3
  <2>2. lc <= last
    BY <2>1, MergedCommit
  <2> HIDE DEF lc, last
  <2>3. Min({lc, last}) \in {lc, last} /\ \A y \in {lc, last} : Min({lc, last}) <= y
    BY <1>1, MinOfNats
  <2>4. Min({lc, last}) = lc
    <3>1. Min({lc, last}) <= lc
      BY <2>3
    <3> QED
      BY <1>1, <2>2, <2>3, <3>1
  <2>5. FollowerCommit(commitIndex[n], lc, last) = lc
    BY <1>3, <2>4 DEF FollowerCommit
  <2> QED
    BY <1>3, <2>5 DEF lc, last
<1> QED
  BY <1>2, <1>3

\* The commit index is at an entry that stays.
LEMMA CommittedStays ==
    ASSUME Base, CarryInv, Moves, CommitInv, NEW n \in Node, commitIndex[n] > 0
    PROVE  \E t \in Term : /\ Safe(commitIndex[n], t)
                           /\ Holds(log[n], commitIndex[n], t) /\ Holds(log'[n], commitIndex[n], t)
<1>1. PICK t \in Term : Safe(commitIndex[n], t) /\ Holds(log[n], commitIndex[n], t)
  BY DEF CommitInv
<1>2. Holds(log'[n], commitIndex[n], t)
  BY <1>1, HoldsStays DEF CarryInv, Safe
<1> QED
  BY <1>1, <1>2

\* Commit indexes stay at such entries.
LEMMA NextCommitInv ==
    ASSUME Base, Base', CampaignInv, CarryInv, [Next]_vars, "mux" \notin Hazards, "restart" \notin Hazards,
           Grows, GoodVotes, Moves, OpenInv, OpenInv', CommitInv
    PROVE  CommitInv'
<1>s. \A i, t : Safe(i, t) => Safe(i, t)'
  BY SafeStays
<1>t. \A n \in Node : commitIndex[n] \in Nat /\ currentTerm[n] \in Term
  BY StepTypes DEF Base, TypeInv, LogTypes
<1>1. ASSUME NEW n \in Node, NEW i, i = commitIndex'[n], i > 0
      PROVE  \E t \in Term : Safe(i, t)' /\ Holds(log'[n], i, t)
  <2>1. CASE commitIndex'[n] = commitIndex[n]
    BY <1>1, <1>s, <2>1, CommittedStays
  <2>2. CASE /\ log'[n] = log[n]
             /\ commitIndex'[n] > commitIndex[n] /\ commitIndex'[n] \in DOMAIN log[n]
             /\ state[n] = "leader" /\ log[n][commitIndex'[n]].term = currentTerm[n]
             /\ HeldByMajority(n, commitIndex'[n])
    BY <1>1, <1>s, <1>t, <2>2, CommitsSafe
  <2>3. ASSUME NEW m \in Requests, Merges(n, m), i = m.leaderCommit
        PROVE  \E t \in Term : Safe(i, t)' /\ Holds(log'[n], i, t)
    BY <1>1, <1>s, <2>3, MergedCommit
  <2>4. CASE Extends(n) /\ Peers(n) = {} /\ commitIndex'[n] = Len(log[n]) + 1
    BY <1>1, <1>t, <2>4, LonelySafe
  <2> QED
    BY <1>1, <2>1, <2>2, <2>3, <2>4, CommitMoves, MergeCommits DEF Base
<1>2. ASSUME NEW m \in Requests', m.leaderCommit > 0
      PROVE  \E t \in Term : /\ Safe(m.leaderCommit, t)'
                             /\ \/ m.leaderCommit <= m.prevLogIndex /\ m.prevLogTerm >= t
                                \/ Holds(m.entries, m.leaderCommit - m.prevLogIndex, t)
  <2>1. CASE m \in Requests
    BY <1>2, <1>s, <2>1 DEF CommitInv
  <2>2. ASSUME NEW n \in Node, Sends(n), m \notin Requests
        PROVE  \E t \in Term : /\ Safe(m.leaderCommit, t)'
                               /\ \/ m.leaderCommit <= m.prevLogIndex /\ m.prevLogTerm >= t
                                  \/ Holds(m.entries, m.leaderCommit - m.prevLogIndex, t)
    <3>1. /\ m.leaderCommit = commitIndex[n]
          /\ PartOf(m, log[n]) /\ m.prevLogIndex + Len(m.entries) = Len(log[n])
          /\ m.prevLogIndex \in 0 .. Len(log[n])
          /\ Len(m.entries) \in Nat /\ DOMAIN m.entries = 1 .. Len(m.entries)
      BY <2>2, SentRequest DEF CarryInv
    <3> DEFINE i == m.leaderCommit
               prev == m.prevLogIndex
    <3>2. PICK t \in Term : Safe(i, t) /\ Holds(log[n], i, t)
      BY <1>2, <3>1 DEF CommitInv
    <3>3. /\ Len(log[n]) \in Nat /\ DOMAIN log[n] = 1 .. Len(log[n]) /\ log[n] \in Seq(Entry)
          /\ i \in DOMAIN log[n] /\ log[n][i].term = t
      BY <3>2, StepTypes, LenProperties DEF Base, Holds
    <3>4. CASE i <= prev
      <4>1. prev \in DOMAIN log[n]
        BY <3>1, <3>3, <3>4
      <4>2. \A k \in LinksOf(log[n]) : k.before <= k.entry.term
        BY LogsLinked DEF Base, Linked, CarryInv, OrderInv
      <4>3. log[n][i].term <= log[n][prev].term
        BY <3>3, <3>4, <4>1, <4>2, Sorted
      <4>4. log[n][prev].term \in Nat /\ t \in Nat
        BY <3>3, <4>1, LastTypes
      <4>5. m.prevLogTerm = log[n][prev].term
        BY <3>1, <4>1 DEF PartOf, TermAt
      <4>6. m.prevLogTerm >= t
        BY <3>3, <4>3, <4>4, <4>5
      <4> QED
        BY <1>s, <3>2, <3>4, <4>6
    <3>5. CASE ~(i <= prev)
      <4>1. i - prev \in DOMAIN m.entries /\ prev + (i - prev) = i
        BY <3>1, <3>3, <3>5
      <4>2. m.entries[i - prev].term = t
        BY <3>1, <3>3, <4>1 DEF PartOf
      <4> QED
        BY <1>s, <3>2, <4>1, <4>2 DEF Holds
    <3> QED
      BY <3>4, <3>5
  <2>3. m \in Requests \/ \E n \in Node : Sends(n)
    BY DEF Moves, Calm, Leads, Extends, Commits, Merges
  <2> QED
    BY <2>1, <2>2, <2>3
<1> QED
  BY <1>1, <1>2 DEF CommitInv

\* Commit indexes do not go back.
LEMMA CommitsAdvance ==
    ASSUME Base, CarryInv, Moves, CommitInv, NEW n \in Node
    PROVE  commitIndex'[n] >= commitIndex[n]
<1>1. commitIndex[n] \in Nat /\ Len(log[n]) \in Nat /\ commitIndex[n] >= commitIndex[n]
  <2>1. commitIndex[n] \in Nat /\ Len(log[n]) \in Nat
    BY StepTypes, LenProperties DEF Base, TypeInv, LogTypes
  <2> QED
    BY <2>1
<1>2. CASE Extends(n) /\ Peers(n) = {} /\ commitIndex'[n] = Len(log[n]) + 1
  <2>1. commitIndex[n] = Len(log[n])
    BY <1>2 DEF Base, TypeInv, LogTypes
  <2> QED
    BY <1>1, <1>2, <2>1
<1>3. ASSUME NEW m \in Requests, Merges(n, m),
             commitIndex'[n] = FollowerCommit(commitIndex[n], m.leaderCommit, m.prevLogIndex + Len(m.entries))
      PROVE  commitIndex'[n] >= commitIndex[n]
  <2>1. commitIndex'[n] = commitIndex[n] \/ (commitIndex'[n] = m.leaderCommit /\ commitIndex'[n] > commitIndex[n])
    BY <1>3, MergeCommits
  <2>2. m.leaderCommit \in Nat
    BY CarryTypes DEF Base
  <2> QED
    BY <1>1, <2>1, <2>2
<1>4. CASE /\ log'[n] = log[n]
           /\ \/ commitIndex'[n] = commitIndex[n]
              \/ commitIndex'[n] > commitIndex[n] /\ commitIndex'[n] \in DOMAIN log[n]
  <2>1. DOMAIN log[n] = 1 .. Len(log[n])
    BY StepTypes, LenProperties DEF Base
  <2> QED
    BY <1>1, <1>4, <2>1
<1> QED
  BY <1>1, <1>2, <1>3, <1>4, CommitMoves DEF Base

\* The apply loop appends the commands after lastApplied.
LEMMA ApplyUpToIs ==
    ASSUME TypeInv, NEW n \in Node, NEW lg \in Seq(Entry), NEW ci \in Nat,
           Len(applied[n]) <= ci, ci <= Len(lg)
    PROVE  /\ Len(ApplyUpTo(n, lg, ci)) = ci
           /\ \A i \in 1 .. Len(applied[n]) : ApplyUpTo(n, lg, ci)[i] = applied[n][i]
           /\ \A i \in Len(applied[n]) + 1 .. ci : ApplyUpTo(n, lg, ci)[i] = lg[i].cmd
<1> DEFINE ap == applied[n]
           es == SubSeq(lg, Len(ap) + 1, ci)
           cs == Cmds(es)
<1>1. ap \in Seq(Command) /\ Len(ap) \in Nat /\ Len(lg) \in Nat /\ DOMAIN lg = 1 .. Len(lg) /\ Len(ap) <= ci
  BY LenProperties DEF TypeInv, LogTypes
<1>2. ApplyUpTo(n, lg, ci) = ap \o cs
  BY DEF ApplyUpTo
<1> HIDE DEF ap
<1>3. /\ es \in Seq(Entry)
      /\ Len(es) = IF Len(ap) + 1 <= ci THEN ci - (Len(ap) + 1) + 1 ELSE 0
      /\ \A i \in 1 .. ci - (Len(ap) + 1) + 1 : es[i] = lg[(Len(ap) + 1) + i - 1]
  <2>1. \A i \in Len(ap) + 1 .. ci : lg[i] \in Entry
    BY <1>1, ElementOfSeq
  <2>2. Len(ap) + 1 \in Int /\ ci \in Int
    BY <1>1
  <2> QED
    BY <2>1, <2>2, SubSeqProperties
<1>4. Len(es) = ci - Len(ap)
  <2>1. CASE Len(ap) + 1 <= ci
    <3>1. Len(es) = ci - (Len(ap) + 1) + 1
      BY <1>3, <2>1
    <3> QED
      BY <1>1, <3>1
  <2>2. CASE ~(Len(ap) + 1 <= ci)
    <3>1. Len(es) = 0
      BY <1>3, <2>2
    <3>2. \A a, b \in Nat : a <= b /\ ~(a + 1 <= b) => b - a = 0
      OBVIOUS
    <3>3. ci - Len(ap) = 0
      BY <1>1, <2>2, <3>2
    <3> QED
      BY <3>1, <3>3
  <2> QED
    BY <2>1, <2>2
<1>5. \A i \in 1 .. Len(es) : es[i] = lg[Len(ap) + i]
  <2> TAKE i \in 1 .. Len(es)
  <2>1. i \in 1 .. ci - (Len(ap) + 1) + 1 /\ (Len(ap) + 1) + i - 1 = Len(ap) + i
    BY <1>1, <1>4
  <2>2. es[i] = lg[(Len(ap) + 1) + i - 1]
    BY <1>3, <2>1
  <2> QED
    BY <2>1, <2>2
<1>6. es \in Seq(Entry) /\ DOMAIN es = 1 .. Len(es) /\ Len(es) \in Nat
  BY <1>3, LenProperties
<1> HIDE DEF es
<1>7. cs \in Seq(Command) /\ Len(cs) = Len(es) /\ \A i \in 1 .. Len(es) : cs[i] = es[i].cmd
  <2>1. \A i \in 1 .. Len(es) : es[i].cmd \in Command
    <3>1. \A i \in 1 .. Len(es) : es[i] \in Entry
      BY <1>6, ElementOfSeq
    <3> QED
      BY <3>1 DEF Entry
  <2>2. cs = [i \in 1 .. Len(es) |-> es[i].cmd]
    BY <1>6 DEF Cmds
  <2>3. cs \in [1 .. Len(es) -> Command]
    BY <2>1, <2>2
  <2>4. cs \in Seq(Command)
    BY <1>6, <2>3, SeqDef
  <2>5. 1 .. Len(cs) = 1 .. Len(es) /\ Len(cs) \in Nat
    BY <2>2, <2>4, LenProperties
  <2> QED
    BY <1>6, <2>2, <2>4, <2>5
<1> HIDE DEF cs
<1> DEFINE r == ap \o cs
<1>8. Len(r) = ci /\ \A i \in 1 .. ci : r[i] = IF i <= Len(ap) THEN ap[i] ELSE cs[i - Len(ap)]
  <2>1. Len(ap) + Len(cs) = ci
    BY <1>1, <1>4, <1>7
  <2>2. Len(r) = Len(ap) + Len(cs) /\ \A i \in 1 .. Len(ap) + Len(cs) : r[i] = IF i <= Len(ap) THEN ap[i] ELSE cs[i - Len(ap)]
    <3>1. ap \in Seq(Command) /\ cs \in Seq(Command)
      BY <1>1, <1>7
    <3> HIDE DEF ap
    <3> QED
      BY <3>1, ConcatProperties
  <2> HIDE DEF r
  <2>3. 1 .. Len(ap) + Len(cs) = 1 .. ci
    BY <2>1
  <2> QED
    <3>1. Len(r) = ci
      BY <2>1, <2>2
    <3>2. ASSUME NEW i \in 1 .. ci PROVE r[i] = IF i <= Len(ap) THEN ap[i] ELSE cs[i - Len(ap)]
      <4>1. i \in 1 .. Len(ap) + Len(cs)
        BY <2>3
      <4> QED
        BY <2>2, <4>1
    <3> QED
      BY <3>1, <3>2
<1> HIDE DEF r
<1>9. \A i \in 1 .. Len(ap) : r[i] = ap[i]
  BY <1>1, <1>8
<1>10. \A i \in Len(ap) + 1 .. ci : r[i] = lg[i].cmd
  <2> TAKE i \in Len(ap) + 1 .. ci
  <2>1. i \in 1 .. ci /\ ~(i <= Len(ap)) /\ i - Len(ap) \in 1 .. Len(es) /\ Len(ap) + (i - Len(ap)) = i
    BY <1>1, <1>4
  <2>2. r[i] = cs[i - Len(ap)]
    BY <1>8, <2>1
  <2>3. cs[i - Len(ap)] = lg[Len(ap) + (i - Len(ap))].cmd
    BY <1>5, <1>7, <2>1
  <2> QED
    BY <2>1, <2>2, <2>3
<1> QED
  BY <1>2, <1>8, <1>9, <1>10 DEF r, ap

\* What is committed is in the log.
LEMMA CommittedInLog ==
    ASSUME TypeInv, CommitInv, NEW n \in Node
    PROVE  /\ commitIndex[n] \in Nat /\ commitIndex[n] <= Len(log[n])
           /\ log[n] \in Seq(Entry) /\ Len(log[n]) \in Nat /\ DOMAIN log[n] = 1 .. Len(log[n])
<1>1. /\ commitIndex[n] \in Nat
      /\ log[n] \in Seq(Entry) /\ Len(log[n]) \in Nat /\ DOMAIN log[n] = 1 .. Len(log[n])
  BY StepTypes, LenProperties DEF TypeInv, LogTypes
<1>2. commitIndex[n] > 0 => commitIndex[n] \in DOMAIN log[n]
  BY DEF CommitInv, Holds
<1> QED
  BY <1>1, <1>2

\* What is given to storage is what is committed, and is never taken back.
LEMMA AppliedGrows ==
    ASSUME Base, Base', CarryInv, Moves, CommitInv, AppliedInv, CommitInv', NEW n \in Node
    PROVE  /\ Len(applied'[n]) = commitIndex'[n]
           /\ \A i \in 1 .. commitIndex'[n] : applied'[n][i] = log'[n][i].cmd
           /\ \A i \in 1 .. commitIndex[n] : applied'[n][i] = applied[n][i]
<1>t. /\ commitIndex[n] \in Nat /\ commitIndex[n] <= Len(log[n]) /\ applied[n] \in Seq(Command)
      /\ log[n] \in Seq(Entry) /\ Len(log[n]) \in Nat /\ DOMAIN log[n] = 1 .. Len(log[n])
      /\ Len(applied[n]) = commitIndex[n]
  BY CommittedInLog DEF Base, TypeInv, LogTypes, AppliedInv
<1>n. commitIndex'[n] \in Nat /\ log'[n] \in Seq(Entry) /\ Len(log'[n]) \in Nat /\ DOMAIN log'[n] = 1 .. Len(log'[n])
  <2>1. commitIndex'[n] \in Nat /\ log'[n] \in Seq(Entry)
    BY DEF Base, TypeInv, LogTypes
  <2> QED
    BY <2>1, LenProperties
<1>m. commitIndex'[n] <= Len(log'[n])
  <2>1. commitIndex'[n] > 0 => commitIndex'[n] \in DOMAIN log'[n]
    BY DEF CommitInv, Holds
  <2> QED
    BY <1>n, <2>1
<1>g. commitIndex[n] <= commitIndex'[n]
  <2>1. commitIndex'[n] >= commitIndex[n]
    BY CommitsAdvance
  <2> QED
    BY <1>t, <1>n, <2>1
<1>a. \A i \in 1 .. commitIndex[n] : applied[n][i] = log[n][i].cmd
  BY DEF AppliedInv
<1>b. \A i \in 1 .. commitIndex[n] : log'[n][i] = log[n][i]
  <2>1. CASE commitIndex[n] > 0
    BY <2>1, CommittedStays, NewHolders
  <2>2. CASE ~(commitIndex[n] > 0)
    BY <1>t, <2>2
  <2> QED
    BY <2>1, <2>2
<1>1. CASE commitIndex'[n] = commitIndex[n] /\ applied'[n] = applied[n]
  BY <1>a, <1>b, <1>t, <1>1
<1>2. CASE applied'[n] = ApplyUpTo(n, log'[n], commitIndex'[n])
  <2>1. /\ Len(applied'[n]) = commitIndex'[n]
        /\ \A i \in 1 .. commitIndex[n] : applied'[n][i] = applied[n][i]
        /\ \A i \in commitIndex[n] + 1 .. commitIndex'[n] : applied'[n][i] = log'[n][i].cmd
    BY <1>2, <1>t, <1>n, <1>m, <1>g, ApplyUpToIs DEF Base
  <2>2. \A i \in 1 .. commitIndex'[n] : i \in 1 .. commitIndex[n] \/ i \in commitIndex[n] + 1 .. commitIndex'[n]
    BY <1>t, <1>n
  <2> QED
    BY <1>a, <1>b, <2>1, <2>2
<1>3. ASSUME NEW v \in Command, commitIndex'[n] = Len(log[n]) + 1, Peers(n) = {},
             applied'[n] = Append(applied[n], v), currentTerm[n] \in Term,
             log'[n] = Append(log[n], [term |-> currentTerm[n], cmd |-> v])
      PROVE  /\ Len(applied'[n]) = commitIndex'[n]
             /\ \A i \in 1 .. commitIndex'[n] : applied'[n][i] = log'[n][i].cmd
             /\ \A i \in 1 .. commitIndex[n] : applied'[n][i] = applied[n][i]
  <2> DEFINE e == [term |-> currentTerm[n], cmd |-> v]
             c == Len(log[n])
  <2>1. commitIndex[n] = c /\ c \in Nat
    BY <1>3, <1>t DEF Base, TypeInv, LogTypes
  <2>2. e \in Entry /\ e.cmd = v
    BY <1>3 DEF Entry
  <2> HIDE DEF e
  <2>3. log'[n][c + 1] = e
    <3>1. log'[n] = Append(log[n], e)
      BY <1>3 DEF e
    <3> QED
      BY <1>t, <2>2, <3>1, AppendProperties
  <2>4. /\ Len(applied'[n]) = c + 1 /\ applied'[n][c + 1] = v
        /\ \A i \in 1 .. c : applied'[n][i] = applied[n][i]
    BY <1>3, <1>t, <2>1, AppendProperties
  <2> HIDE DEF c
  <2>5. \A i \in 1 .. c + 1 : i \in 1 .. c \/ i = c + 1
    BY <2>1
  <2>6. commitIndex'[n] = c + 1
    BY <1>3 DEF c
  <2> QED
    BY <1>a, <1>b, <2>1, <2>2, <2>3, <2>4, <2>5, <2>6
<1> QED
  BY <1>1, <1>2, <1>3, CommitMoves, StepTypes DEF Base

\* Storages hold what is committed.
LEMMA NextAppliedInv ==
    ASSUME Base, Base', CarryInv, Moves, CommitInv, AppliedInv, CommitInv'
    PROVE  AppliedInv'
BY AppliedGrows DEF AppliedInv

-----------------------------------------------------------------------------
(***************************************************************************)
(* The invariant.                                                          *)
(***************************************************************************)
\* Nobody has voted, led, sent or committed anything at first.
LEMMA InitSafe == Init => CampaignInv /\ ContInv /\ CarryInv /\ SafeInv
<1> SUFFICES ASSUME Init PROVE CampaignInv /\ ContInv /\ CarryInv /\ SafeInv
  OBVIOUS
<1>1. /\ msgs = {} /\ ballots = {}
      /\ \A n \in Node : /\ pend[n] = {} /\ log[n] = <<>> /\ state[n] = "follower"
                         /\ commitIndex[n] = 0 /\ applied[n] = <<>>
  BY DEF Init
<1>2. Requests = {} /\ Answers = {}
  BY <1>1, RequestsAre DEF Answers
<1>3. LinksOf(<<>>) = {}
  BY DEF LinksOf
<1>4. Links = {}
  BY <1>1, <1>2, <1>3, LinksAre
<1>5. CampaignInv /\ ContInv
  BY <1>1 DEF CampaignInv, ContInv
<1>6. CarryInv
  BY <1>1, <1>2, <1>4 DEF CarryInv, CallInv, TermsInv, OrderInv, SourceInv, PeerInv
<1>7. OpenInv
  BY <1>1 DEF OpenInv
<1>8. CommitInv
  <2>1. ~(0 > 0)
    OBVIOUS
  <2> QED
    BY <1>1, <1>2, <2>1 DEF CommitInv
<1>9. AppliedInv
  BY <1>1 DEF AppliedInv
<1> QED
  BY <1>5, <1>6, <1>7, <1>8, <1>9 DEF SafeInv

\* What is committed stays, step by step.
LEMMA NextSafeInv ==
    ASSUME Known, Known', SafeInv, [Next]_vars, "mux" \notin Hazards, "restart" \notin Hazards
    PROVE  SafeInv'
<1>1. Base /\ Base' /\ CampaignInv /\ ContInv /\ CarryInv /\ OpenInv /\ CommitInv /\ AppliedInv
  BY DEF Known, SafeInv
<1>2. Grows /\ GoodVotes /\ Moves
  BY <1>1, StepRoles, VotesAreGood, CarryKinds DEF Grows, Moves
<1>3. OpenInv'
  BY <1>1, <1>2, NextOpenInv
<1>4. CommitInv'
  BY <1>1, <1>2, <1>3, NextCommitInv
<1>5. AppliedInv'
  BY <1>1, <1>2, <1>4, NextAppliedInv
<1> QED
  BY <1>3, <1>4, <1>5 DEF SafeInv

\* Leader completeness, and what it rests on, in every reachable state.
LEMMA SafeAlways ==
    ASSUME Hazards \cap {"append", "broadcast", "commit", "log", "send", "mux", "restart"} = {}
    PROVE  Spec => [](Known /\ SafeInv)
<1>h. /\ Hazards \cap {"append", "broadcast", "log", "mux", "restart"} = {}
      /\ Hazards \cap {"broadcast", "send", "commit", "mux", "restart"} = {}
      /\ "mux" \notin Hazards /\ "restart" \notin Hazards
  OBVIOUS
<1>1. Spec => []Base
  BY <1>h, LinksAlways, PTL DEF Base
<1>2. Base /\ Base' /\ CampaignInv /\ ContInv /\ CarryInv /\ [Next]_vars => CampaignInv' /\ ContInv' /\ CarryInv'
  BY <1>h, NextCampaignInv, NextContInv, NextCarryInv
<1>3. Init => CampaignInv /\ ContInv /\ CarryInv /\ SafeInv
  BY InitSafe
<1>4. Spec => [](Base /\ CampaignInv /\ ContInv /\ CarryInv)
  BY <1>1, <1>2, <1>3, PTL DEF Spec
<1>5. Known <=> Base /\ CampaignInv /\ ContInv /\ CarryInv
  BY DEF Known
<1>6. Spec => []Known
  BY <1>4, <1>5, PTL
<1>7. Known /\ Known' /\ SafeInv /\ [Next]_vars => SafeInv'
  BY <1>h, NextSafeInv
<1> QED
  BY <1>3, <1>6, <1>7, PTL DEF Spec

-----------------------------------------------------------------------------
(***************************************************************************)
(* Theorems about what is committed.                                       *)
(***************************************************************************)
\* What a step of the kinds does is what a step does.
LEMMA KnownMoves ==
    ASSUME Known, SafeInv, [Next]_vars, "mux" \notin Hazards, "restart" \notin Hazards
    PROVE  Base /\ CarryInv /\ Moves /\ CommitInv /\ AppliedInv
<1>1. Base /\ ContInv /\ CarryInv /\ CommitInv /\ AppliedInv
  BY DEF Known, SafeInv
<1> QED
  BY <1>1, CarryKinds DEF Moves

\* handleAppendEntriesRequest: the commit index never goes back, also when a
\* late request carries fewer entries than the node has committed.
THEOREM CommitsOnlyAdvance ==
    ASSUME Hazards \cap {"append", "broadcast", "commit", "log", "send", "mux", "restart"} = {}
    PROVE  Spec => CommitMonotone
<1>h. "mux" \notin Hazards /\ "restart" \notin Hazards
  OBVIOUS
<1>1. ASSUME Known, SafeInv, [Next]_vars, NEW n \in Node PROVE commitIndex'[n] >= commitIndex[n]
  BY <1>h, <1>1, KnownMoves, CommitsAdvance
<1>2. Known /\ SafeInv /\ [Next]_vars => [\A n \in Node : commitIndex'[n] >= commitIndex[n]]_vars
  BY <1>1
<1> QED
  BY <1>2, SafeAlways, PTL DEF Spec, CommitMonotone

\* What a node has given to storage is in the logs of a majority.
LEMMA SafeIsHeld ==
    ASSUME TypeInv, LinkInv, CommitInv, AppliedInv
    PROVE  CommittedOnMajority
<1> SUFFICES ASSUME NEW n \in Node, NEW i \in DOMAIN applied[n]
             PROVE  Cardinality({p \in Node : i \in DOMAIN log[p] /\ log[p][i].cmd = applied[n][i]}) >= votesNeeded
  BY DEF CommittedOnMajority
<1>1. /\ i \in 1 .. commitIndex[n] /\ applied[n][i] = log[n][i].cmd /\ commitIndex[n] > 0 /\ commitIndex[n] \in Nat
  <2>1. applied[n] \in Seq(Command) /\ commitIndex[n] \in Nat
    BY DEF TypeInv, LogTypes
  <2>2. DOMAIN applied[n] = 1 .. Len(applied[n]) /\ Len(applied[n]) = commitIndex[n]
    BY <2>1, LenProperties DEF AppliedInv
  <2>3. i \in 1 .. commitIndex[n] /\ commitIndex[n] > 0
    BY <2>1, <2>2
  <2> QED
    BY <2>1, <2>3 DEF AppliedInv
<1>2. PICK t \in Term : Safe(commitIndex[n], t) /\ Holds(log[n], commitIndex[n], t)
  BY <1>1 DEF CommitInv
<1>3. PICK Q \in SUBSET Node : Cardinality(Q) >= votesNeeded /\ \A q \in Q : Kept(q, commitIndex[n], t)
  BY <1>2 DEF Safe
<1> DEFINE H == {p \in Node : i \in DOMAIN log[p] /\ log[p][i].cmd = applied[n][i]}
<1>4. Q \subseteq H
  <2> SUFFICES ASSUME NEW q \in Q PROVE i \in DOMAIN log[q] /\ log[q][i].cmd = applied[n][i]
    BY <1>3
  <2>1. q \in Node /\ Holds(log[q], commitIndex[n], t)
    BY <1>3 DEF Kept
  <2>2. \A j \in 1 .. commitIndex[n] : j \in DOMAIN log[q] /\ log[q][j] = log[n][j]
    BY <1>2, <2>1, LogsLinked, HoldersMatch
  <2> QED
    BY <1>1, <2>2
<1>5. Cardinality(Q) <= Cardinality(H) /\ Cardinality(Q) \in Nat /\ Cardinality(H) \in Nat
  <2>1. H \subseteq Node
    OBVIOUS
  <2> HIDE DEF H
  <2>2. IsFiniteSet(H)
    BY <2>1, NodeAssumption, FS_Subset
  <2> QED
    BY <1>4, <2>2, FS_Subset, FS_CardinalityType
<1>6. votesNeeded \in Nat
  BY NodeAssumption, FS_CardinalityType DEF votesNeeded
<1> HIDE DEF H
<1>7. Cardinality(H) >= votesNeeded
  BY <1>3, <1>5, <1>6
<1> QED
  BY <1>7 DEF H

\* advanceCommitIndex: a command a node applied is at that index in the logs of
\* a majority, now and for ever after, whatever elections and losses come.
THEOREM CommittedIsKept ==
    ASSUME Hazards \cap {"append", "broadcast", "commit", "log", "send", "mux", "restart"} = {}
    PROVE  Spec => []CommittedOnMajority
<1>1. Known /\ SafeInv => CommittedOnMajority
  BY SafeIsHeld DEF Known, Base, SafeInv
<1> QED
  BY <1>1, SafeAlways, PTL

\* Sequences that agree one by one are prefixes.
LEMMA AgreeingPrefix ==
    ASSUME NEW S, NEW a \in Seq(S), NEW b \in Seq(S), Len(a) <= Len(b), \A j \in 1 .. Len(a) : a[j] = b[j]
    PROVE  IsPrefix(a, b)
<1>1. Len(a) \in Nat /\ Len(b) \in Nat /\ Len(a) <= Len(a)
  BY LenProperties
<1>2. SubSeq(a, 1, Len(a)) = SubSeq(b, 1, Len(a))
  BY <1>1, SameFirstPart
<1> QED
  BY <1>2 DEF IsPrefix

\* The longer of two committed logs holds what the shorter one has committed.
LEMMA CommittedAgree ==
    ASSUME Base, OrderInv, CommitInv, NEW q \in Node, NEW r \in Node,
           commitIndex[q] > 0, commitIndex[q] <= commitIndex[r]
    PROVE  \A x \in 1 .. commitIndex[q] : log[q][x] = log[r][x]
<1> DEFINE i == commitIndex[q]
           j == commitIndex[r]
<1>1. i \in Nat /\ j \in Nat /\ i >= 1 /\ j >= 1 /\ j > 0 /\ Linked(log[q]) /\ Linked(log[r])
  BY LogsLinked DEF Base, TypeInv, LogTypes
<1>2. PICK t \in Term : Safe(i, t) /\ Holds(log[q], i, t)
  BY DEF CommitInv
<1>3. PICK u \in Term : Safe(j, u) /\ Holds(log[r], j, u)
  BY <1>1 DEF CommitInv
<1> HIDE DEF i, j
<1>4. t \in Nat /\ u \in Nat /\ Made(i, t) /\ Made(j, u) /\ Covered(i, t) /\ Covered(j, u)
  BY <1>1, <1>2, <1>3, HeldIsMade, BoundsAssumption DEF Term, Safe
<1>5. i \in DOMAIN log[q] /\ log[q][i].term = t /\ j \in DOMAIN log[r] /\ log[r][j].term = u
  BY <1>2, <1>3 DEF Holds
<1>6. i <= j
  BY DEF i, j
<1>7. Holds(log[r], i, t)
  <2>1. CASE u = t
    BY <1>1, <1>4, <1>5, <1>6, <2>1, ReachesSame
  <2>2. CASE u > t
    BY <1>1, <1>4, <1>5, <2>2, ReachesLater
  <2>3. CASE t > u
    <3>1. j < i
      BY <1>1, <1>4, <1>5, <2>3, ReachesLater
    <3> QED
      BY <1>1, <1>6, <3>1
  <2> QED
    BY <1>4, <2>1, <2>2, <2>3
<1>8. \A x \in 1 .. i : log[q][x] = log[r][x]
  BY <1>1, <1>2, <1>7, HoldersMatch DEF Base
<1> QED
  BY <1>8 DEF i

\* The storage's prefixes are prefixes.
LEMMA StoragePrefix ==
    \A s, t : Storage!IsPrefix(s, t) <=> IsPrefix(s, t)
BY DEF Storage!IsPrefix, IsPrefix

\* What two nodes have given to storage is a prefix one of the other.
LEMMA AppliedComparable ==
    ASSUME Known, SafeInv
    PROVE  \A q, r \in Node : Storage!Comparable(applied[q], applied[r])
<1>1. Base /\ OrderInv /\ CommitInv /\ AppliedInv
  BY DEF Known, SafeInv, CarryInv
<1>2. ASSUME NEW q \in Node, NEW r \in Node, commitIndex[q] <= commitIndex[r]
      PROVE  IsPrefix(applied[q], applied[r])
  <2>1. /\ applied[q] \in Seq(Command) /\ applied[r] \in Seq(Command)
        /\ commitIndex[q] \in Nat /\ commitIndex[r] \in Nat
    BY <1>1 DEF Base, TypeInv, LogTypes
  <2>2. /\ Len(applied[q]) = commitIndex[q] /\ Len(applied[r]) = commitIndex[r]
        /\ \A x \in 1 .. commitIndex[q] : applied[q][x] = log[q][x].cmd
        /\ \A x \in 1 .. commitIndex[r] : applied[r][x] = log[r][x].cmd
    BY <1>1 DEF AppliedInv
  <2>3. \A x \in 1 .. commitIndex[q] : log[q][x] = log[r][x]
    <3>1. CASE commitIndex[q] > 0
      BY <1>1, <1>2, <3>1, CommittedAgree
    <3>2. CASE ~(commitIndex[q] > 0)
      BY <2>1, <3>2
    <3> QED
      BY <3>1, <3>2
  <2>4. \A x \in 1 .. commitIndex[q] : x \in 1 .. commitIndex[r]
    BY <1>2, <2>1
  <2>5. \A x \in 1 .. Len(applied[q]) : applied[q][x] = applied[r][x]
    BY <2>2, <2>3, <2>4
  <2>6. Len(applied[q]) <= Len(applied[r])
    BY <1>2, <2>2
  <2> QED
    BY <2>1, <2>5, <2>6, AgreeingPrefix
<1>3. \A q, r \in Node : commitIndex[q] <= commitIndex[r] \/ commitIndex[r] <= commitIndex[q]
  <2>1. \A q \in Node : commitIndex[q] \in Nat
    BY <1>1 DEF Base, TypeInv, LogTypes
  <2> QED
    BY <2>1
<1> QED
  BY <1>2, <1>3, StoragePrefix DEF Storage!Comparable

\* One node at a time gives to storage.
LEMMA OneApplies ==
    ASSUME TypeInv, Moves
    PROVE  \E n \in Node : applied' = [applied EXCEPT ![n] = applied'[n]]
<1>1. applied \in [Node -> Seq(Command)]
  BY DEF TypeInv, LogTypes
<1>2. CASE Calm \/ \E n \in Node : Leads(n) \/ Sends(n)
  <2>1. applied' = applied
    BY <1>2 DEF Calm, Leads, Sends, logVars
  <2>2. PICK n \in Node : TRUE
    BY NodeAssumption
  <2>3. applied = [applied EXCEPT ![n] = applied[n]]
    BY <1>1
  <2> QED
    BY <2>1, <2>2, <2>3
<1>3. ASSUME NEW n \in Node, NEW s, applied' = [applied EXCEPT ![n] = s]
      PROVE  applied' = [applied EXCEPT ![n] = applied'[n]]
  <2>1. applied'[n] = s
    BY <1>1, <1>3
  <2> QED
    BY <1>3, <2>1
<1>4. ASSUME NEW n \in Node, Extends(n) PROVE applied' = [applied EXCEPT ![n] = applied'[n]]
  <2>1. CASE applied' = applied
    BY <1>1, <2>1
  <2>2. ASSUME NEW v \in Command, applied' = [applied EXCEPT ![n] = Append(applied[n], v)]
        PROVE  applied' = [applied EXCEPT ![n] = applied'[n]]
    BY <1>3, <2>2
  <2> QED
    BY <1>4, <2>1, <2>2 DEF Extends
<1>5. ASSUME NEW n \in Node, Commits(n) PROVE applied' = [applied EXCEPT ![n] = applied'[n]]
  <2>1. PICK ci \in Nat : applied' = [applied EXCEPT ![n] = ApplyUpTo(n, log[n], ci)]
    BY <1>5 DEF Commits
  <2> QED
    BY <1>3, <2>1
<1>6. ASSUME NEW n \in Node, NEW m \in Requests, Merges(n, m) PROVE applied' = [applied EXCEPT ![n] = applied'[n]]
  <2>1. \E s : applied' = [applied EXCEPT ![n] = s]
    BY <1>6 DEF Merges
  <2> QED
    BY <1>3, <2>1
<1> QED
  BY <1>2, <1>4, <1>5, <1>6 DEF Moves

\* The apply loops implement the replicated storage: what the nodes give to
\* their storages is one sequence of commands, which no node leaves, reorders or
\* goes back in.
THEOREM StorageIsReplicated ==
    ASSUME Hazards \cap {"append", "broadcast", "commit", "log", "send", "mux", "restart"} = {}
    PROVE  Spec => ImplementsReplicatedLog
<1> DEFINE Inv == Known /\ SafeInv
<1>h. "mux" \notin Hazards /\ "restart" \notin Hazards
  OBVIOUS
<1>1. Init => Storage!Init
  BY DEF Init, Storage!Init
<1>2. ASSUME Known, SafeInv, CommitInv', Base', \A q, r \in Node : Storage!Comparable(applied'[q], applied'[r]), [Next]_vars
      PROVE  [Storage!Next]_applied
  <2>1. Base /\ CarryInv /\ Moves /\ CommitInv /\ AppliedInv
    BY <1>h, <1>2, KnownMoves
  <2>2. PICK n \in Node : applied' = [applied EXCEPT ![n] = applied'[n]]
    BY <2>1, OneApplies DEF Base
  <2>3. \A q \in Node \ {n} : applied'[q] = applied[q]
    <3>1. applied \in [Node -> Seq(Command)]
      BY <2>1 DEF Base, TypeInv, LogTypes
    <3> QED
      BY <2>2, <3>1
  <2>4. IsPrefix(applied[n], applied'[n])
    <3>1. /\ Len(applied'[n]) = commitIndex'[n] /\ Len(applied[n]) = commitIndex[n]
          /\ \A i \in 1 .. commitIndex[n] : applied'[n][i] = applied[n][i]
          /\ commitIndex'[n] >= commitIndex[n]
      BY <1>2, <2>1, AppliedGrows, CommitsAdvance DEF AppliedInv
    <3>2. /\ applied[n] \in Seq(Command) /\ applied'[n] \in Seq(Command)
          /\ commitIndex[n] \in Nat /\ commitIndex'[n] \in Nat
      BY <1>2, <2>1 DEF Base, TypeInv, LogTypes
    <3>3. Len(applied[n]) <= Len(applied'[n])
      BY <3>1, <3>2
    <3> QED
      BY <3>1, <3>2, <3>3, AgreeingPrefix
  <2>5. \A q \in Node : Storage!Comparable(applied'[n], applied[q])
    <3> TAKE q \in Node
    <3>1. CASE q = n
      BY <2>4, <3>1, StoragePrefix DEF Storage!Comparable
    <3>2. CASE q # n
      BY <1>2, <2>3, <3>2
    <3> QED
      BY <3>1, <3>2
  <2>6. Storage!Learn(n)
    BY <2>2, <2>4, <2>5, StoragePrefix DEF Storage!Learn
  <2> QED
    BY <2>6 DEF Storage!Next
<1> DEFINE Same == \A q, r \in Node : Storage!Comparable(applied[q], applied[r])
<1>3. Inv => Same
  BY AppliedComparable
<1>4. Inv => CommitInv /\ Base
  BY DEF Known, SafeInv
<1>5. Inv /\ CommitInv' /\ Base' /\ Same' /\ [Next]_vars => [Storage!Next]_applied
  BY <1>2
<1>6. Spec => []Inv
  BY SafeAlways
<1> HIDE DEF Inv, Same
<1> QED
  BY <1>1, <1>3, <1>4, <1>5, <1>6, PTL DEF Spec, ImplementsReplicatedLog, Storage!Spec
=============================================================================
