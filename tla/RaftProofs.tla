----------------------------- MODULE RaftProofs -----------------------------
(***************************************************************************)
(* Types, terms, votes and logs of the Raft replicator for every cluster,  *)
(* every bound and every interleaving of critical sections.  Type          *)
(* correctness under every hazard; that no running process takes back its  *)
(* term or its vote; election safety, as long as replies reach the call    *)
(* they answer ("mux" is ruled out) and no process restarts; and what      *)
(* follows for logs: whom a follower takes for the leader, that logs which *)
(* agree on the term of an entry agree on everything up to it, and that a  *)
(* leader only appends.                                                    *)
(***************************************************************************)
EXTENDS Raft, SequenceTheorems, FiniteSetTheorems, WellFoundedInduction, TLAPS

-----------------------------------------------------------------------------
(***************************************************************************)
(* Types.                                                                  *)
(***************************************************************************)
Waiter == [kind : {"vote", "append"}, term : Term]

VoteReqs ==
    [type : {"VoteReq"}, from : Node, to : Node, term : Term,
     lastLogIndex : Nat, lastLogTerm : Term, waiter : Waiter]

VoteResps ==
    [type : {"VoteResp"}, from : Node, to : Node, term : Term,
     granted : BOOLEAN, waiter : Waiter]

AppendReqs ==
    [type : {"AppendReq"}, from : Node, to : Node, term : Term,
     prevLogIndex : Nat, prevLogTerm : Term, entries : Seq(Entry),
     leaderCommit : Nat, waiter : Waiter]

AppendResps ==
    [type : {"AppendResp"}, from : Node, to : Node, term : Term,
     success : BOOLEAN, match : Nat, conflict : Nat, waiter : Waiter]

\* A message goes from one node to another.
MessageTypes ==
    \A m \in msgs : /\ m \in VoteReqs \cup VoteResps \cup AppendReqs \cup AppendResps
                    /\ m.from # m.to

\* A send is to a peer, and a request that waits for logMu came from one.
ContTyped(n, c) ==
    /\ c.pc = "send" => c.peer \in Peers(n)
    /\ c.pc = "log" => c.req \in AppendReqs /\ c.req.to = n /\ c.req.from # n

PendTypes ==
    /\ DOMAIN pend = Node
    /\ \A n \in Node : \A c \in pend[n] : ContTyped(n, c)

ServerTypes ==
    /\ state \in [Node -> {"follower", "candidate", "leader"}]
    /\ currentTerm \in [Node -> Term]
    /\ votedFor \in [Node -> Node \cup {None}]
    /\ leaderID \in [Node -> Node \cup {None}]
    /\ votes \in [Node -> SUBSET Node]
    /\ ballots \subseteq Node \X Term \X Node
    /\ issued \subseteq Command
    /\ restarts \in 0 .. MaxRestarts

PeerTypes ==
    /\ nextIndex \in [Node -> [Node -> Nat \ {0}]]
    /\ matchIndex \in [Node -> [Node -> Nat]]

\* lastApplied is at least commitIndex, so the apply loop reads only what the
\* log holds; a node without peers has committed all it has.
LogTypes ==
    /\ log \in [Node -> Seq(Entry)]
    /\ applied \in [Node -> Seq(Command)]
    /\ commitIndex \in [Node -> Nat]
    /\ \A n \in Node : Len(applied[n]) >= commitIndex[n]
    /\ \A n \in Node : Peers(n) = {} => commitIndex[n] = Len(log[n])

TypeInv == ServerTypes /\ PeerTypes /\ LogTypes /\ MessageTypes /\ PendTypes

\* The invariant contains the type invariant of the model.
LEMMA TypeInvImplies == TypeInv => TypeOK
BY DEF TypeInv, TypeOK, ServerTypes, PeerTypes, LogTypes

-----------------------------------------------------------------------------
(***************************************************************************)
(* The operators on logs.                                                  *)
(***************************************************************************)
\* A set of naturals that is not empty has a least element.
LEMMA MinOfNats ==
    ASSUME NEW S \in SUBSET Nat, S # {}
    PROVE  Min(S) \in S /\ \A y \in S : Min(S) <= y
<1> DEFINE R == OpToRel(<, Nat)
<1>1. PICK x \in S : \A y \in S : ~(<<y, x>> \in R)
  <2>1. IsWellFoundedOn(R, Nat)
    BY NatLessThanWellFounded
  <2> HIDE DEF R
  <2> QED
    BY <2>1, WFMin
<1>2. \A y \in S : x <= y
  <2> SUFFICES ASSUME NEW y \in S, ~(x <= y) PROVE FALSE
    OBVIOUS
  <2>1. y < x /\ x \in Nat /\ y \in Nat
    OBVIOUS
  <2>2. <<y, x>> \in {ss \in Nat \X Nat : ss[1] < ss[2]}
    BY <2>1
  <2>3. <<y, x>> \in R
    BY <2>2 DEF OpToRel
  <2> QED
    BY <2>3, <1>1
<1> QED
  BY <1>1, <1>2 DEF Min

\* A bounded one has a greatest.
LEMMA MaxOfNats ==
    ASSUME NEW k \in Nat, NEW S \in SUBSET (0 .. k), S # {}
    PROVE  Max(S) \in S /\ \A y \in S : Max(S) >= y
<1> DEFINE T == {j \in Nat : k - j \in S}
<1>1. PICK x \in T : \A y \in T : x <= y
  <2>1. T # {}
    <3>1. PICK s \in S : TRUE
      OBVIOUS
    <3>2. k - s \in Nat /\ k - (k - s) = s
      BY <3>1
    <3> QED
      BY <3>2
  <2> HIDE DEF T
  <2>2. T \in SUBSET Nat
    BY DEF T
  <2> QED
    BY <2>1, <2>2, MinOfNats
<1>2. \A y \in S : k - x >= y
  <2> SUFFICES ASSUME NEW y \in S PROVE k - x >= y
    OBVIOUS
  <2>1. y \in Nat /\ k - y \in Nat /\ k - (k - y) = y
    OBVIOUS
  <2>2. x <= k - y
    BY <1>1, <2>1
  <2> QED
    BY <2>1, <2>2
<1>3. k - x \in S
  OBVIOUS
<1> QED
  BY <1>2, <1>3 DEF Max

\* Assignments to a table of numbers per node and peer.
LEMMA TableUpdate ==
    ASSUME NEW S, NEW f \in [Node -> [Node -> S]], NEW n \in Node, NEW v \in S
    PROVE  /\ [f EXCEPT ![n] = [p \in Node |-> v]] \in [Node -> [Node -> S]]
           /\ \A p \in Node : [f EXCEPT ![n][p] = v] \in [Node -> [Node -> S]]
<1>1. [p \in Node |-> v] \in [Node -> S]
  OBVIOUS
<1>2. \A p \in Node : [f[n] EXCEPT ![p] = v] \in [Node -> S]
  OBVIOUS
<1> QED
  BY <1>1, <1>2

\* The term at an index is a term, also outside the log.
LEMMA TermAtType ==
    ASSUME NEW lg \in Seq(Entry), NEW i
    PROVE  TermAt(lg, i) \in Term
<1>1. 0 \in Term
  BY BoundsAssumption DEF Term
<1>2. CASE i \in DOMAIN lg
  <2>1. lg[i] \in Entry
    BY <1>2, LenProperties, ElementOfSeq
  <2> QED
    BY <1>2, <2>1 DEF TermAt, Entry
<1> QED
  BY <1>1, <1>2 DEF TermAt

\* The conflict index a follower answers with is an index of its log.
LEMMA FirstOfTermType ==
    ASSUME NEW lg \in Seq(Entry), NEW i \in 1 .. Len(lg)
    PROVE  FirstOfTerm(lg, i) \in 1 .. i
<1> DEFINE S == {j \in 1 .. i : \A k \in j .. i : lg[k].term = lg[i].term}
<1>1. i \in S
  OBVIOUS
<1>2. S \in SUBSET Nat
  OBVIOUS
<1>3. Min(S) \in S
  <2> HIDE DEF S
  <2> QED
    BY <1>1, <1>2, MinOfNats
<1> QED
  BY <1>3 DEF FirstOfTerm

\* The merged log holds everything up to the last entry of the request.
LEMMA MergeEntriesType ==
    ASSUME NEW lg \in Seq(Entry), NEW prev \in 0 .. Len(lg), NEW es \in Seq(Entry)
    PROVE  /\ MergeEntries(lg, prev, es) \in Seq(Entry)
           /\ Len(MergeEntries(lg, prev, es)) >= prev + Len(es)
<1> DEFINE new == {i \in DOMAIN es : \/ prev + i > Len(lg)
                                     \/ lg[prev + i].term # es[i].term}
<1>0. Len(lg) \in Nat /\ Len(es) \in Nat /\ DOMAIN es = 1 .. Len(es)
  BY LenProperties
<1>1. CASE new = {}
  <2>1. Len(es) > 0 => Len(es) \notin new
    BY <1>1
  <2>2. Len(es) > 0 => Len(es) \in DOMAIN es
    BY <1>0
  <2>3. prev + Len(es) <= Len(lg)
    BY <1>0, <2>1, <2>2
  <2> QED
    BY <1>0, <1>1, <2>3 DEF MergeEntries
<1>2. CASE new # {}
  <2>1. Min(new) \in new
    <3>1. new \in SUBSET Nat
      BY <1>0
    <3> HIDE DEF new
    <3> QED
      BY <3>1, <1>2, MinOfNats
  <2> DEFINE k == Min(new)
  <2>2. k \in 1 .. Len(es)
    BY <2>1, <1>0
  <2>3. \A j \in 1 .. k - 1 : j \notin new
    <3>1. new \in SUBSET Nat
      BY <1>0
    <3>2. \A y \in new : k <= y
      <4> HIDE DEF new
      <4> QED
        BY <3>1, <1>2, MinOfNats
    <3> HIDE DEF new
    <3> QED
      BY <3>2, <2>2, <1>0
  <2>4. prev + k - 1 <= Len(lg)
    <3>1. CASE k = 1
      BY <3>1, <1>0
    <3>2. CASE k > 1
      <4>1. k - 1 \in 1 .. k - 1 /\ k - 1 \in DOMAIN es
        BY <3>2, <2>2, <1>0
      <4>2. k - 1 \notin new
        BY <4>1, <2>3
      <4>3. ~(prev + (k - 1) > Len(lg))
        BY <4>1, <4>2
      <4> HIDE DEF k, new
      <4> QED
        BY <4>3, <2>2, <1>0
    <3> HIDE DEF k
    <3> QED
      BY <3>1, <3>2, <2>2
  <2>5. MergeEntries(lg, prev, es)
            = SubSeq(lg, 1, prev + k - 1) \o SubSeq(es, k, Len(es))
    BY <1>2 DEF MergeEntries
  <2> HIDE DEF k, new
  <2>6. /\ SubSeq(lg, 1, prev + k - 1) \in Seq(Entry)
        /\ Len(SubSeq(lg, 1, prev + k - 1)) = prev + k - 1
    BY <2>2, <2>4, <1>0, SubSeqProperties, ElementOfSeq
  <2>7. /\ SubSeq(es, k, Len(es)) \in Seq(Entry)
        /\ Len(SubSeq(es, k, Len(es))) = Len(es) - k + 1
    BY <2>2, <1>0, SubSeqProperties, ElementOfSeq
  <2> QED
    BY <2>2, <2>5, <2>6, <2>7, <1>0, ConcatProperties
<1> QED
  BY <1>1, <1>2

\* A follower's new commit index is its old one or within the request's entries.
LEMMA FollowerCommitType ==
    ASSUME NEW ci \in Nat, NEW lc \in Nat, NEW last \in Nat
    PROVE  /\ FollowerCommit(ci, lc, last) \in Nat
           /\ FollowerCommit(ci, lc, last) = ci \/ FollowerCommit(ci, lc, last) <= last
<1>1. Min({lc, last}) \in {lc, last} /\ Min({lc, last}) <= last
  <2>1. {lc, last} \in SUBSET Nat /\ {lc, last} # {} /\ last \in {lc, last}
    OBVIOUS
  <2> QED
    BY <2>1, MinOfNats
<1> QED
  BY <1>1 DEF FollowerCommit

\* The apply loop stays within the log, and ends at the commit index or above.
LEMMA ApplyUpToType ==
    ASSUME LogTypes, NEW n \in Node, NEW lg \in Seq(Entry), NEW ci \in Nat,
           ci <= Len(applied[n]) \/ ci <= Len(lg)
    PROVE  /\ ApplyUpTo(n, lg, ci) \in Seq(Command)
           /\ Len(ApplyUpTo(n, lg, ci)) >= ci
<1> DEFINE ap == applied[n]
           es == SubSeq(lg, Len(ap) + 1, ci)
<1>1. ap \in Seq(Command) /\ Len(ap) \in Nat /\ Len(lg) \in Nat
  BY LenProperties DEF LogTypes
<1>2. /\ es \in Seq(Entry)
      /\ Len(es) = IF Len(ap) + 1 <= ci THEN ci - Len(ap) ELSE 0
  <2>1. \A i \in Len(ap) + 1 .. ci : lg[i] \in Entry
    BY <1>1, ElementOfSeq
  <2> HIDE DEF ap
  <2> QED
    BY <2>1, <1>1, SubSeqProperties
<1>3. Cmds(es) \in Seq(Command) /\ Len(Cmds(es)) = Len(es)
  <2> HIDE DEF es
  <2>1. DOMAIN es = 1 .. Len(es) /\ Len(es) \in Nat
    BY <1>2, LenProperties
  <2>2. \A i \in 1 .. Len(es) : es[i].cmd \in Command
    <3>1. \A i \in 1 .. Len(es) : es[i] \in Entry
      BY <1>2, ElementOfSeq
    <3> QED
      BY <3>1 DEF Entry
  <2>3. Cmds(es) = [i \in 1 .. Len(es) |-> es[i].cmd]
    BY <2>1 DEF Cmds
  <2>4. Cmds(es) \in [1 .. Len(es) -> Command]
    BY <2>2, <2>3
  <2>5. Cmds(es) \in Seq(Command)
    BY <2>1, <2>4, SeqDef
  <2>6. 1 .. Len(Cmds(es)) = 1 .. Len(es) /\ Len(Cmds(es)) \in Nat
    BY <2>3, <2>5, LenProperties
  <2> QED
    BY <2>1, <2>5, <2>6
<1>4. ApplyUpTo(n, lg, ci) = ap \o Cmds(es)
  BY DEF ApplyUpTo
<1> HIDE DEF ap, es
<1> QED
  BY <1>1, <1>2, <1>3, <1>4, ConcatProperties

-----------------------------------------------------------------------------
(***************************************************************************)
(* Steps.                                                                  *)
(***************************************************************************)
\* A cluster that has just started satisfies the invariant.
LEMMA InitTypeInv == Init => TypeInv
<1> SUFFICES ASSUME Init PROVE TypeInv
  OBVIOUS
<1>1. 0 \in Term /\ 0 \in 0 .. MaxRestarts
  BY BoundsAssumption DEF Term
<1>2. ServerTypes /\ PeerTypes
  BY <1>1 DEF Init, ServerTypes, PeerTypes
<1>3. LogTypes
  BY EmptySeq DEF Init, LogTypes
<1>4. MessageTypes /\ PendTypes
  BY DEF Init, MessageTypes, PendTypes
<1> QED
  BY <1>2, <1>3, <1>4 DEF TypeInv

\* What elections do.
LEMMA ElectionTypes ==
    ASSUME TypeInv, NEW n \in Node,
           \/ StartElection(n)
           \/ \E t \in Term : RequestVotes(n, t)
           \/ \E t \in Term : BecomeLeader(n, t)
    PROVE  TypeInv'
<1> USE DEF TypeInv
<1>0. /\ log[n] \in Seq(Entry) /\ Len(log[n]) \in Nat
      /\ LastTerm(log[n]) \in Term
  BY LenProperties, TermAtType DEF LogTypes, LastTerm
<1>1. CASE StartElection(n)
  <2>1. currentTerm[n] + 1 \in Term
    BY <1>1, BoundsAssumption DEF StartElection, ServerTypes, Term
  <2>2. ServerTypes'
    BY <1>1, <2>1 DEF StartElection, ServerTypes, clientVars
  <2>3. PendTypes'
    BY <1>1 DEF StartElection, PendTypes, ContTyped, ElectCont
  <2> QED
    BY <1>1, <2>2, <2>3
       DEF StartElection, PeerTypes, LogTypes, MessageTypes, logVars, peerVars
<1>2. CASE \E t \in Term : RequestVotes(n, t)
  <2>1. PICK t \in Term : RequestVotes(n, t)
    BY <1>2
  <2>2. ServerTypes' /\ PeerTypes' /\ LogTypes'
    BY <2>1 DEF RequestVotes, ServerTypes, PeerTypes, LogTypes, serverVars, logVars,
                peerVars, clientVars
  <2>3. PendTypes'
    BY <2>1 DEF RequestVotes, PendTypes, ContTyped, LeadCont
  <2>4. \A p \in Peers(n) : /\ VoteReq(n, p, t, log[n]) \in VoteReqs
                            /\ VoteReq(n, p, t, log[n]).from
                                   # VoteReq(n, p, t, log[n]).to
    BY <1>0 DEF VoteReq, VoteReqs, Waiter, Peers
  <2>5. MessageTypes'
    BY <2>1, <2>4 DEF RequestVotes, MessageTypes
  <2> QED
    BY <2>2, <2>3, <2>5
<1>3. CASE \E t \in Term : BecomeLeader(n, t)
  <2>1. PICK t \in Term : BecomeLeader(n, t)
    BY <1>3
  <2>2. ServerTypes'
    BY <2>1 DEF BecomeLeader, ServerTypes, clientVars
  <2>3. PeerTypes'
    <3>1. \/ UNCHANGED <<nextIndex, matchIndex>>
          \/ /\ nextIndex' = [nextIndex EXCEPT ![n] =
                                [p \in Node |-> FirstNextIndex(log[n])]]
             /\ matchIndex' = [matchIndex EXCEPT ![n] = [p \in Node |-> 0]]
      BY <2>1 DEF BecomeLeader, peerVars
    <3>2. FirstNextIndex(log[n]) \in Nat \ {0}
      BY <1>0 DEF FirstNextIndex
    <3> QED
      <4> DEFINE first == FirstNextIndex(log[n])
      <4>1. CASE UNCHANGED <<nextIndex, matchIndex>>
        BY <4>1 DEF PeerTypes
      <4>2. [nextIndex EXCEPT ![n] = [p \in Node |-> first]]
               \in [Node -> [Node -> Nat \ {0}]]
        <5> HIDE DEF first
        <5> QED
          BY <3>2, TableUpdate DEF PeerTypes, first
      <4>3. [matchIndex EXCEPT ![n] = [p \in Node |-> 0]] \in [Node -> [Node -> Nat]]
        BY TableUpdate DEF PeerTypes
      <4> QED
        BY <3>1, <4>1, <4>2, <4>3 DEF PeerTypes
  <2>4. LogTypes' /\ MessageTypes'
    BY <2>1 DEF BecomeLeader, LogTypes, MessageTypes, logVars
  <2>5. PendTypes'
    BY <2>1 DEF BecomeLeader, PendTypes, ContTyped, SendConts, SendCont
  <2> QED
    BY <2>2, <2>3, <2>4, <2>5
<1> QED
  BY <1>1, <1>2, <1>3

\* The handlers of requests.
LEMMA RequestTypes ==
    ASSUME TypeInv, NEW m \in msgs,
           HandleVoteRequest(m.to, m) \/ HandleAppendEntries(m.to, m)
    PROVE  TypeInv'
<1> USE DEF TypeInv
<1> DEFINE n == m.to
<1>0. /\ n \in Node /\ m.from \in Node /\ m.from # n /\ m.term \in Term
      /\ m.waiter \in Waiter
      /\ m.type = "AppendReq" => m \in AppendReqs
      /\ currentTerm[n] \in Term
  BY DEF MessageTypes, VoteReqs, VoteResps, AppendReqs, AppendResps, ServerTypes
<1>1. PeerTypes' /\ LogTypes'
  BY DEF HandleVoteRequest, HandleAppendEntries, PeerTypes, LogTypes, peerVars,
         logVars
<1>2. ServerTypes'
  <2>1. CASE HandleVoteRequest(n, m)
    <3>1. ballots' \subseteq ballots \cup {<<n, m.term, m.from>>}
      BY <2>1 DEF HandleVoteRequest
    <3>2. <<n, m.term, m.from>> \in Node \X Term \X Node
      BY <1>0
    <3>3. ballots' \subseteq Node \X Term \X Node
      BY <3>1, <3>2 DEF ServerTypes
    <3> QED
      BY <2>1, <3>3, <1>0 DEF HandleVoteRequest, ServerTypes, clientVars
  <2>2. CASE HandleAppendEntries(n, m)
    BY <2>2, <1>0 DEF HandleAppendEntries, VoteAfterAppend, ServerTypes, clientVars,
                      serverVars
  <2> QED
    BY <2>1, <2>2
<1>3. PendTypes'
  <2>1. ContTyped(n, LogCont(m)) \/ pend' = pend
    BY <1>0 DEF HandleVoteRequest, HandleAppendEntries, ContTyped, LogCont
  <2>2. pend' = pend \/ pend' = [pend EXCEPT ![n] = @ \cup {LogCont(m)}]
    BY DEF HandleVoteRequest, HandleAppendEntries
  <2> QED
    BY <2>1, <2>2, <1>0 DEF PendTypes, ContTyped
<1>4. MessageTypes'
  <2>1. currentTerm'[n] \in Term
    BY <1>0, <1>2 DEF ServerTypes
  <2>2. \A t \in Term, b \in BOOLEAN :
           /\ VoteResp(m, t, b) \in VoteResps
           /\ VoteResp(m, t, b).from # VoteResp(m, t, b).to
    BY <1>0 DEF VoteResp, VoteResps
  <2>3. \A t \in Term :
           /\ AppendResp(m, t, FALSE, 0, 0) \in AppendResps
           /\ AppendResp(m, t, FALSE, 0, 0).from # AppendResp(m, t, FALSE, 0, 0).to
    BY <1>0 DEF AppendResp, AppendResps
  <2>4. CASE HandleVoteRequest(n, m)
    <3>1. PICK b \in BOOLEAN :
              msgs' = (msgs \ {m}) \cup {VoteResp(m, currentTerm'[n], b)}
      BY <2>4 DEF HandleVoteRequest, Reply
    <3> QED
      BY <3>1, <2>1, <2>2 DEF MessageTypes
  <2>5. CASE HandleAppendEntries(n, m)
    <3>1. \/ msgs' = msgs \ {m}
          \/ msgs' = (msgs \ {m}) \cup {AppendResp(m, currentTerm[n], FALSE, 0, 0)}
      BY <2>5 DEF HandleAppendEntries, Reply
    <3> QED
      <4>1. CASE msgs' = msgs \ {m}
        BY <4>1 DEF MessageTypes
      <4> DEFINE r == AppendResp(m, currentTerm[n], FALSE, 0, 0)
      <4>2. CASE msgs' = (msgs \ {m}) \cup {r}
        <5>1. r \in AppendResps /\ r.from # r.to
          BY <2>3, <1>0
        <5> HIDE DEF r
        <5> QED
          BY <5>1, <4>2 DEF MessageTypes
      <4> QED
        BY <3>1, <4>1, <4>2
  <2> QED
    BY <2>4, <2>5
<1> QED
  BY <1>1, <1>2, <1>3, <1>4

\* The handlers of replies.
LEMMA ReplyTypes ==
    ASSUME TypeInv, NEW m \in msgs,
           RequestVoteFromPeer(m.to, m) \/ HandleAppendEntriesResponse(m.to, m)
    PROVE  TypeInv'
<1> USE DEF TypeInv
<1> DEFINE n == m.to
<1>0. /\ n \in Node /\ m.from \in Node /\ m.term \in Term
      /\ Success(m) => m.match \in Nat
      /\ Conflict(m) \in Nat
  BY DEF MessageTypes, VoteReqs, VoteResps, AppendReqs, AppendResps, Success, Conflict
<1>1. LogTypes' /\ MessageTypes'
  BY DEF RequestVoteFromPeer, HandleAppendEntriesResponse, LogTypes, MessageTypes,
         logVars
<1>2. CASE RequestVoteFromPeer(n, m)
  <2>1. ServerTypes'
    BY <1>2, <1>0 DEF RequestVoteFromPeer, StepDown, ServerTypes, clientVars, serverVars
  <2>2. PeerTypes'
    BY <1>2 DEF RequestVoteFromPeer, PeerTypes, peerVars
  <2>3. PendTypes'
    BY <1>2, <1>0 DEF RequestVoteFromPeer, PendTypes, ContTyped, LeadCont
  <2> QED
    BY <1>1, <2>1, <2>2, <2>3
<1>3. CASE HandleAppendEntriesResponse(n, m)
  <2>1. ServerTypes'
    BY <1>3, <1>0 DEF HandleAppendEntriesResponse, StepDown, ServerTypes, clientVars,
                      serverVars
  <2>2. PeerTypes'
    <3> DEFINE p == m.from
               next == nextIndex[n][p]
    <3>1. next \in Nat \ {0}
      BY <1>0 DEF PeerTypes
    <3>2. PICK i \in Nat \ {0} :
             nextIndex' = nextIndex \/ nextIndex' = [nextIndex EXCEPT ![n][p] = i]
      <4>1. CASE nextIndex' = nextIndex
        BY <4>1, <3>1
      <4>2. CASE Success(m) /\ nextIndex' = [nextIndex EXCEPT ![n][p] = m.match + 1]
        <5>1. m.match + 1 \in Nat \ {0}
          BY <4>2, <1>0
        <5> QED
          BY <5>1, <4>2
      <4> DEFINE back == IF Conflict(m) > 0 THEN Conflict(m)
                         ELSE IF next > 1 THEN next - 1 ELSE next
      <4>3. CASE nextIndex' = [nextIndex EXCEPT ![n][p] = back]
        <5>1. back \in Nat \ {0}
          BY <1>0, <3>1
        <5> QED
          BY <5>1, <4>3
      <4> QED
        BY <1>3, <4>1, <4>2, <4>3 DEF HandleAppendEntriesResponse, peerVars
    <3>3. PICK j \in Nat :
             matchIndex' = matchIndex \/ matchIndex' = [matchIndex EXCEPT ![n][p] = j]
      BY <1>3, <1>0 DEF HandleAppendEntriesResponse, peerVars
    <3> QED
      <4>1. [nextIndex EXCEPT ![n][p] = i] \in [Node -> [Node -> Nat \ {0}]]
        BY <3>2, <1>0, TableUpdate DEF PeerTypes
      <4>2. [matchIndex EXCEPT ![n][p] = j] \in [Node -> [Node -> Nat]]
        BY <3>3, <1>0, TableUpdate DEF PeerTypes
      <4> QED
        BY <3>2, <3>3, <4>1, <4>2 DEF PeerTypes
  <2>3. PendTypes'
    BY <1>3, <1>0 DEF HandleAppendEntriesResponse, PendTypes, ContTyped, SignalCont
  <2> QED
    BY <1>1, <2>1, <2>2, <2>3
<1> QED
  BY <1>2, <1>3

\* Steps that touch neither the log nor a message: they start goroutines.
LEMMA GoroutineTypes ==
    ASSUME TypeInv, NEW n \in Node,
           \/ \E p \in Node : Heartbeat(n, p)
           \/ \E v \in Command : ProcessApply(n, v)
           \/ BroadcastAppend(n)
           \/ AdvanceCommitRead(n)
    PROVE  TypeInv'
<1> USE DEF TypeInv
<1>1. /\ PeerTypes' /\ LogTypes' /\ MessageTypes'
  BY DEF Heartbeat, ProcessApply, BroadcastAppend, AdvanceCommitRead, PeerTypes,
         LogTypes, MessageTypes, logVars, peerVars
<1>2. ServerTypes'
  BY DEF Heartbeat, ProcessApply, BroadcastAppend, AdvanceCommitRead, ServerTypes,
         serverVars, clientVars
<1>3. PendTypes'
  <2>1. /\ DOMAIN pend' = Node
        /\ \A k \in Node : \A c \in pend'[k] :
              \/ c \in pend[k]
              \/ k = n /\ (c.pc # "send" \/ c.peer \in Peers(n)) /\ c.pc # "log"
    <3>1. CASE \E p \in Node : Heartbeat(n, p)
      BY <3>1 DEF Heartbeat, PendTypes, SendCont
    <3>2. CASE \E v \in Command : ProcessApply(n, v)
      BY <3>2 DEF ProcessApply, PendTypes, AppendCont
    <3>3. CASE BroadcastAppend(n)
      BY <3>3 DEF BroadcastAppend, PendTypes, SendConts, SendCont
    <3>4. CASE AdvanceCommitRead(n)
      BY <3>4 DEF AdvanceCommitRead, PendTypes, CommitCont
    <3> QED
      BY <3>1, <3>2, <3>3, <3>4
  <2> QED
    BY <2>1 DEF PendTypes, ContTyped
<1> QED
  BY <1>1, <1>2, <1>3

\* replicateLogToPeer: the request goes to a peer and holds a part of the log.
LEMMA ReplicateTypes ==
    ASSUME TypeInv, NEW n \in Node, NEW p \in Node, NEW t \in Term,
           ReplicateLogToPeer(n, p, t)
    PROVE  TypeInv'
<1> USE DEF TypeInv
<1>1. ServerTypes' /\ PeerTypes' /\ LogTypes' /\ PendTypes'
  BY DEF ReplicateLogToPeer, ServerTypes, PeerTypes, LogTypes, PendTypes, serverVars,
         peerVars, logVars, clientVars
<1>2. p # n
  <2>1. SendCont(p, t).pc = "send" /\ SendCont(p, t).peer = p
    BY DEF SendCont
  <2> QED
    BY <2>1 DEF ReplicateLogToPeer, PendTypes, ContTyped, Peers
<1> DEFINE prev == nextIndex[n][p] - 1
           r == AppendReq(n, p, t, prev, log[n], commitIndex[n])
<1>3. prev \in Nat /\ log[n] \in Seq(Entry) /\ Len(log[n]) \in Nat
      /\ commitIndex[n] \in Nat
  BY LenProperties DEF PeerTypes, LogTypes
<1>4. r \in AppendReqs /\ r.from # r.to
  <2> HIDE DEF prev
  <2>1. SubSeq(log[n], prev + 1, Len(log[n])) \in Seq(Entry)
    BY <1>3, SubSeqProperties, ElementOfSeq
  <2>2. TermAt(log[n], prev) \in Term
    BY <1>3, TermAtType
  <2> QED
    BY <2>1, <2>2, <1>2, <1>3 DEF AppendReq, AppendReqs, Waiter
<1>5. msgs' = msgs \/ msgs' = msgs \cup {r}
  BY DEF ReplicateLogToPeer
<1> HIDE DEF r
<1>6. MessageTypes'
  BY <1>4, <1>5 DEF MessageTypes
<1> QED
  BY <1>1, <1>6

\* processApply under logMu: without peers the entry is committed as well.
LEMMA AppendToLogTypes ==
    ASSUME TypeInv, NEW n \in Node, NEW t \in Term, NEW v \in Command,
           AppendToLog(n, t, v)
    PROVE  TypeInv'
<1> USE DEF TypeInv
<1>1. ServerTypes' /\ PeerTypes' /\ MessageTypes'
  BY DEF AppendToLog, ServerTypes, PeerTypes, MessageTypes, serverVars, peerVars
<1>2. PendTypes'
  BY DEF AppendToLog, PendTypes, ContTyped, BroadcastCont
<1> DEFINE e == [term |-> t, cmd |-> v]
<1>3. /\ Append(log[n], e) \in Seq(Entry)
      /\ Len(Append(log[n], e)) = Len(log[n]) + 1
      /\ Append(applied[n], v) \in Seq(Command)
      /\ Len(Append(applied[n], v)) = Len(applied[n]) + 1
      /\ Len(log[n]) \in Nat /\ Len(applied[n]) \in Nat /\ commitIndex[n] \in Nat
  <2>1. e \in Entry
    BY DEF Entry
  <2> HIDE DEF e
  <2> QED
    BY <2>1, LenProperties, AppendProperties DEF LogTypes
<1>4. log' = [log EXCEPT ![n] = Append(log[n], e)]
  BY DEF AppendToLog
<1> HIDE DEF e
<1>5. LogTypes'
  <2>1. CASE Peers(n) = {}
    <3>1. /\ commitIndex' = [commitIndex EXCEPT ![n] = Len(log[n]) + 1]
          /\ applied' = [applied EXCEPT ![n] = Append(applied[n], v)]
      BY <2>1 DEF AppendToLog
    <3> QED
      BY <2>1, <3>1, <1>3, <1>4 DEF LogTypes, Peers
  <2>2. CASE Peers(n) # {}
    <3>1. UNCHANGED <<commitIndex, applied>>
      BY <2>2 DEF AppendToLog
    <3> QED
      BY <2>2, <3>1, <1>3, <1>4 DEF LogTypes, Peers
  <2> QED
    BY <2>1, <2>2
<1> QED
  BY <1>1, <1>2, <1>5

\* Setting the log, the commit index and what is applied of one node that has
\* peers, or has nothing left to commit.
LEMMA LogUpdate ==
    ASSUME LogTypes, NEW n \in Node, NEW lg \in Seq(Entry), NEW ci \in Nat,
           ci <= Len(applied[n]) \/ ci <= Len(lg),
           Peers(n) = {} => ci = Len(lg),
           log' = [log EXCEPT ![n] = lg],
           commitIndex' = [commitIndex EXCEPT ![n] = ci],
           applied' = [applied EXCEPT ![n] = ApplyUpTo(n, lg, ci)]
    PROVE  LogTypes'
<1>1. /\ ApplyUpTo(n, lg, ci) \in Seq(Command)
      /\ Len(ApplyUpTo(n, lg, ci)) >= ci
  BY ApplyUpToType
<1> QED
  BY <1>1 DEF LogTypes, Peers

\* advanceCommitIndex: the new commit index is the old one or within the log.
LEMMA AdvanceCommitTypes ==
    ASSUME TypeInv, NEW n \in Node, NEW t \in Term, AdvanceCommitIndex(n, t)
    PROVE  TypeInv'
<1> USE DEF TypeInv
<1>1. ServerTypes' /\ PeerTypes' /\ MessageTypes' /\ PendTypes'
  BY DEF AdvanceCommitIndex, ServerTypes, PeerTypes, MessageTypes, PendTypes,
         serverVars, peerVars, clientVars
<1> DEFINE held == {k \in commitIndex[n] + 1 .. Len(log[n]) :
                      log[n][k].term = t /\ HeldByMajority(n, k)}
           ci == Max({commitIndex[n]} \cup held)
<1>2. /\ log[n] \in Seq(Entry) /\ Len(log[n]) \in Nat /\ commitIndex[n] \in Nat
      /\ Len(applied[n]) \in Nat /\ Len(applied[n]) >= commitIndex[n]
      /\ Peers(n) = {} => commitIndex[n] = Len(log[n])
  BY LenProperties DEF LogTypes
<1>3. ci \in {commitIndex[n]} \cup held
  <2>1. {commitIndex[n]} \cup held \in SUBSET (0 .. commitIndex[n] + Len(log[n]))
    BY <1>2
  <2>2. commitIndex[n] + Len(log[n]) \in Nat /\ {commitIndex[n]} \cup held # {}
    BY <1>2
  <2> HIDE DEF held
  <2> QED
    BY <2>1, <2>2, MaxOfNats
<1>4. /\ commitIndex' = [commitIndex EXCEPT ![n] = ci]
      /\ applied' = [applied EXCEPT ![n] = ApplyUpTo(n, log[n], ci)]
      /\ log' = [log EXCEPT ![n] = log[n]]
  BY DEF AdvanceCommitIndex, LogTypes
<1>5. \/ ci = commitIndex[n]
      \/ ci \in commitIndex[n] + 1 .. Len(log[n])
  BY <1>3
<1> HIDE DEF ci
<1>6. LogTypes'
  <2>1. /\ ci \in Nat
        /\ ci <= Len(applied[n]) \/ ci <= Len(log[n])
        /\ Peers(n) = {} => ci = Len(log[n])
    BY <1>2, <1>5
  <2> QED
    BY <2>1, <1>2, <1>4, LogUpdate
<1> QED
  BY <1>1, <1>6

\* handleAppendEntriesRequest under logMu, one case per answer.
LEMMA AppendEntriesTypes ==
    ASSUME TypeInv, NEW n \in Node, NEW c \in pend[n], c.pc = "log",
           AppendEntriesToLog(n, c.req)
    PROVE  TypeInv'
<1> USE DEF TypeInv
<1> DEFINE m == c.req
           prev == m.prevLogIndex
           last == prev + Len(m.entries)
           lg == MergeEntries(log[n], prev, m.entries)
           ci == FollowerCommit(commitIndex[n], m.leaderCommit, last)
           Resp(b, i, j) == AppendResp(m, m.term, b, i, j)
<1>1. ServerTypes' /\ PeerTypes' /\ PendTypes'
  BY DEF AppendEntriesToLog, ServerTypes, PeerTypes, PendTypes, serverVars, peerVars,
         clientVars
<1>2. m \in AppendReqs /\ m.to = n /\ m.from # n
  BY DEF PendTypes, ContTyped
<1>3. /\ prev \in Nat /\ m.entries \in Seq(Entry) /\ m.leaderCommit \in Nat
      /\ m.term \in Term /\ Peers(n) # {}
  BY <1>2 DEF AppendReqs, Peers
<1>4. /\ log[n] \in Seq(Entry) /\ Len(log[n]) \in Nat /\ commitIndex[n] \in Nat
      /\ DOMAIN log[n] = 1 .. Len(log[n])
      /\ Len(applied[n]) \in Nat /\ Len(applied[n]) >= commitIndex[n]
      /\ last \in Nat
  BY <1>3, LenProperties DEF LogTypes
<1>5. ASSUME NEW b \in BOOLEAN, NEW i \in Nat, NEW j \in Nat,
             msgs' = msgs \cup {Resp(b, i, j)}
      PROVE  MessageTypes'
  <2>1. Resp(b, i, j) \in AppendResps /\ Resp(b, i, j).from # Resp(b, i, j).to
    BY <1>2 DEF AppendReqs, AppendResp, AppendResps
  <2> HIDE DEF Resp
  <2> QED
    BY <2>1, <1>5 DEF MessageTypes
<1>6. CASE /\ msgs' = msgs \cup {Resp(FALSE, 0, Len(log[n]) + 1)}
           /\ UNCHANGED logVars
  <2>1. Len(log[n]) + 1 \in Nat
    BY <1>4
  <2>2. LogTypes'
    BY <1>6 DEF LogTypes, logVars
  <2> HIDE DEF Resp
  <2> QED
    BY <1>1, <1>5, <1>6, <2>1, <2>2
<1>7. CASE /\ prev \in DOMAIN log[n]
           /\ msgs' = msgs \cup {Resp(FALSE, 0, FirstOfTerm(log[n], prev))}
           /\ UNCHANGED logVars
  <2>1. FirstOfTerm(log[n], prev) \in Nat
    <3>1. FirstOfTerm(log[n], prev) \in 1 .. prev
      BY <1>7, <1>4, FirstOfTermType
    <3> QED
      BY <3>1, <1>3
  <2>2. LogTypes'
    BY <1>7 DEF LogTypes, logVars
  <2> HIDE DEF Resp
  <2> QED
    BY <1>1, <1>5, <1>7, <2>1, <2>2
<1>8. CASE /\ prev = 0 \/ prev \in DOMAIN log[n]
           /\ log' = [log EXCEPT ![n] = lg]
           /\ commitIndex' = [commitIndex EXCEPT ![n] = ci]
           /\ applied' = [applied EXCEPT ![n] = ApplyUpTo(n, lg, ci)]
           /\ msgs' = msgs \cup {Resp(TRUE, last, 0)}
  <2>1. lg \in Seq(Entry) /\ Len(lg) >= last
    <3>1. prev \in 0 .. Len(log[n])
      BY <1>3, <1>4, <1>8
    <3> QED
      BY <3>1, <1>3, <1>4, MergeEntriesType
  <2>2. ci \in Nat /\ (ci = commitIndex[n] \/ ci <= last)
    <3> HIDE DEF last
    <3> QED
      BY <1>3, <1>4, FollowerCommitType
  <2>3. ci <= Len(applied[n]) \/ ci <= Len(lg)
    <3> HIDE DEF ci, lg, last
    <3>1. Len(lg) \in Nat
      BY <2>1, LenProperties
    <3> QED
      BY <2>1, <2>2, <3>1, <1>4
  <2>4. LogTypes'
    <3> HIDE DEF ci, lg
    <3> QED
      BY <2>1, <2>2, <2>3, <1>3, <1>8, LogUpdate
  <2>5. MessageTypes'
    <3> HIDE DEF Resp, last
    <3> QED
      BY <1>4, <1>5, <1>8
  <2> QED
    BY <1>1, <2>4, <2>5
<1> QED
  BY <1>6, <1>7, <1>8 DEF AppendEntriesToLog

\* What the code does not rule out.
LEMMA HazardTypes ==
    ASSUME TypeInv,
           \/ \E m1, m2 \in msgs : CrossReplies(m1, m2)
           \/ \E m \in msgs : LoseMessage(m)
           \/ \E n \in Node : Restart(n)
    PROVE  TypeInv'
<1> USE DEF TypeInv
<1>1. CASE \E m1, m2 \in msgs : CrossReplies(m1, m2)
  <2>1. PICK m1 \in msgs, m2 \in msgs : CrossReplies(m1, m2)
    BY <1>1
  <2> DEFINE AllMessages == VoteReqs \cup VoteResps \cup AppendReqs \cup AppendResps
             With(m, w) == [m EXCEPT !.waiter = w]
  <2>2. \A m \in AllMessages, w \in Waiter :
            /\ With(m, w) \in AllMessages
            /\ With(m, w).from = m.from /\ With(m, w).to = m.to
    <3> SUFFICES ASSUME NEW m \in AllMessages, NEW w \in Waiter
                 PROVE  /\ With(m, w) \in AllMessages
                        /\ With(m, w).from = m.from /\ With(m, w).to = m.to
      OBVIOUS
    <3>1. CASE m \in VoteReqs
      BY <3>1 DEF VoteReqs
    <3>2. CASE m \in VoteResps
      BY <3>2 DEF VoteResps
    <3>3. CASE m \in AppendReqs
      BY <3>3 DEF AppendReqs
    <3>4. CASE m \in AppendResps
      BY <3>4 DEF AppendResps
    <3> QED
      BY <3>1, <3>2, <3>3, <3>4
  <2>3. \A m \in AllMessages : m.waiter \in Waiter
    BY DEF VoteReqs, VoteResps, AppendReqs, AppendResps
  <2>4. msgs' = (msgs \ {m1, m2}) \cup {With(m1, m2.waiter), With(m2, m1.waiter)}
    BY <2>1 DEF CrossReplies
  <2>5. \A m \in msgs : m \in AllMessages /\ m.from # m.to
    BY DEF MessageTypes
  <2>6. \A m \in msgs' : m \in AllMessages /\ m.from # m.to
    <3> HIDE DEF AllMessages, With
    <3> QED
      BY <2>2, <2>3, <2>4, <2>5
  <2>7. MessageTypes'
    BY <2>6 DEF MessageTypes
  <2> QED
    BY <2>1, <2>7 DEF CrossReplies, ServerTypes, PeerTypes, LogTypes, PendTypes,
                      serverVars, peerVars, logVars, clientVars
<1>2. CASE \E m \in msgs : LoseMessage(m)
  BY <1>2 DEF LoseMessage, MessageTypes, ServerTypes, PeerTypes, LogTypes, PendTypes,
              serverVars, peerVars, logVars, clientVars
<1>3. CASE \E n \in Node : Restart(n)
  <2>1. PICK n \in Node : Restart(n)
    BY <1>3
  <2>2. ServerTypes'
    <3>1. 0 \in Term /\ restarts + 1 \in 0 .. MaxRestarts
      BY <2>1, BoundsAssumption DEF Restart, ServerTypes, Term
    <3> QED
      BY <2>1, <3>1 DEF Restart, ServerTypes
  <2>3. PeerTypes'
    <3>1. 1 \in Nat \ {0} /\ 0 \in Nat
      OBVIOUS
    <3> QED
      BY <2>1, <3>1, TableUpdate DEF Restart, PeerTypes
  <2>4. LogTypes'
    BY <2>1, EmptySeq DEF Restart, LogTypes, Peers
  <2>5. MessageTypes' /\ PendTypes'
    BY <2>1 DEF Restart, MessageTypes, PendTypes
  <2> QED
    BY <2>2, <2>3, <2>4, <2>5
<1> QED
  BY <1>1, <1>2, <1>3

-----------------------------------------------------------------------------
(***************************************************************************)
(* Theorems about types, terms and votes.                                  *)
(***************************************************************************)
\* Every step keeps the invariant, whatever the hazards.
LEMMA NextTypeInv ==
    ASSUME TypeInv, [Next]_vars
    PROVE  TypeInv'
<1>1. CASE UNCHANGED vars
  BY <1>1 DEF vars, serverVars, logVars, peerVars, clientVars, TypeInv, ServerTypes,
              PeerTypes, LogTypes, MessageTypes, PendTypes
<1>2. ASSUME NEW n \in Node, SectionStep(n)
      PROVE  TypeInv'
  BY <1>2, ElectionTypes, ReplicateTypes, AppendToLogTypes, GoroutineTypes,
     AdvanceCommitTypes, AppendEntriesTypes DEF SectionStep
<1>3. CASE \E n \in Node :
             \/ StartElection(n)
             \/ \E p \in Node : Heartbeat(n, p)
             \/ \E v \in Command : ProcessApply(n, v)
             \/ SectionStep(n)
             \/ Restart(n)
  BY <1>2, <1>3, ElectionTypes, GoroutineTypes, HazardTypes
<1>4. CASE \E m \in msgs :
             \/ HandleVoteRequest(m.to, m)
             \/ RequestVoteFromPeer(m.to, m)
             \/ HandleAppendEntries(m.to, m)
             \/ HandleAppendEntriesResponse(m.to, m)
             \/ LoseMessage(m)
  BY <1>4, RequestTypes, ReplyTypes, HazardTypes
<1>5. CASE \E m1, m2 \in msgs : CrossReplies(m1, m2)
  BY <1>5, HazardTypes
<1> QED
  BY <1>1, <1>3, <1>4, <1>5 DEF Next

\* The invariant holds in every reachable state.
LEMMA TypeInvAlways == Spec => []TypeInv
<1>1. TypeInv /\ [Next]_vars => TypeInv'
  BY NextTypeInv
<1> QED
  BY <1>1, InitTypeInv, PTL DEF Spec

\* In every cluster and under every hazard the fields of the replicator keep
\* their types: no step reads its log out of range, and nextIndex, which
\* replicateLogToPeer subtracts one from, never becomes 0.
THEOREM TypesHold == Spec => []TypeOK
BY TypeInvAlways, TypeInvImplies, PTL

\* One step: the term does not go back, nor the vote within it.
LEMMA TermStep ==
    ASSUME TypeInv, [Next]_vars, restarts' = restarts, NEW n \in Node
    PROVE  /\ currentTerm'[n] >= currentTerm[n]
           /\ currentTerm'[n] = currentTerm[n] /\ votedFor[n] # None
                => votedFor'[n] = votedFor[n]
<1> DEFINE Stable == /\ currentTerm'[n] >= currentTerm[n]
                     /\ currentTerm'[n] = currentTerm[n] /\ votedFor[n] # None
                           => votedFor'[n] = votedFor[n]
<1>0. /\ currentTerm \in [Node -> Nat] /\ votedFor \in [Node -> Node \cup {None}]
      /\ currentTerm[n] \in Nat
  BY DEF TypeInv, ServerTypes, Term
<1>1. CASE UNCHANGED <<currentTerm, votedFor>>
  BY <1>0, <1>1
<1>2. ASSUME NEW k \in Node, StartElection(k)
      PROVE  Stable
  BY <1>0, <1>2 DEF StartElection
<1>3. ASSUME NEW m \in msgs,
             \/ HandleVoteRequest(m.to, m)
             \/ RequestVoteFromPeer(m.to, m)
             \/ HandleAppendEntries(m.to, m)
             \/ HandleAppendEntriesResponse(m.to, m)
      PROVE  Stable
  <2>0. m.to \in Node /\ m.from \in Node /\ m.term \in Nat
    BY DEF TypeInv, MessageTypes, VoteReqs, VoteResps, AppendReqs, AppendResps, Term
  <2>1. CASE HandleVoteRequest(m.to, m)
    BY <2>0, <2>1, <1>0 DEF HandleVoteRequest, CanVote
  <2>2. CASE HandleAppendEntries(m.to, m)
    <3>1. \/ UNCHANGED <<currentTerm, votedFor>>
          \/ /\ m.term >= currentTerm[m.to]
             /\ currentTerm' = [currentTerm EXCEPT ![m.to] = m.term]
             /\ votedFor' = [votedFor EXCEPT ![m.to] = VoteAfterAppend(m.to, m)]
      BY <2>2 DEF HandleAppendEntries, serverVars
    <3>2. m.term > currentTerm[m.to] \/ VoteAfterAppend(m.to, m) = votedFor[m.to]
      BY DEF VoteAfterAppend
    <3> QED
      BY <3>1, <3>2, <2>0, <1>0
  <2>3. CASE RequestVoteFromPeer(m.to, m) \/ HandleAppendEntriesResponse(m.to, m)
    <3>1. \/ UNCHANGED <<currentTerm, votedFor>>
          \/ /\ m.term > currentTerm[m.to]
             /\ currentTerm' = [currentTerm EXCEPT ![m.to] = m.term]
             /\ votedFor' = [votedFor EXCEPT ![m.to] = None]
      BY <2>3 DEF RequestVoteFromPeer, HandleAppendEntriesResponse, StepDown, serverVars
    <3> QED
      BY <3>1, <2>0, <1>0
  <2> QED
    BY <1>3, <2>1, <2>2, <2>3
<1>4. ASSUME NEW k \in Node,
             \/ \E p \in Node : Heartbeat(k, p)
             \/ \E v \in Command : ProcessApply(k, v)
             \/ SectionStep(k)
      PROVE  UNCHANGED <<currentTerm, votedFor>>
  BY <1>4 DEF Heartbeat, ProcessApply, SectionStep, RequestVotes, BecomeLeader,
              ReplicateLogToPeer, AppendToLog, BroadcastAppend, AdvanceCommitRead,
              AdvanceCommitIndex, AppendEntriesToLog, serverVars
<1>5. ASSUME NEW k \in Node PROVE ~Restart(k)
  <2>1. restarts \in Int
    BY DEF TypeInv, ServerTypes
  <2> QED
    BY <2>1 DEF Restart
<1>6. (\E m \in msgs : LoseMessage(m)) \/ (\E m1, m2 \in msgs : CrossReplies(m1, m2))
        => UNCHANGED <<currentTerm, votedFor>>
  BY DEF LoseMessage, CrossReplies, serverVars
<1>7. UNCHANGED vars => UNCHANGED <<currentTerm, votedFor>>
  BY DEF vars, serverVars
<1> HIDE DEF Stable
<1>8. UNCHANGED <<currentTerm, votedFor>> => Stable
  BY <1>1 DEF Stable
<1>9. Stable
  BY <1>2, <1>3, <1>4, <1>5, <1>6, <1>7, <1>8 DEF Next
<1> QED
  BY <1>9 DEF Stable

\* startElection, handleVoteRequest, handleAppendEntriesRequest and the handlers
\* of replies: a process that keeps running never takes back its term, nor its
\* vote within a term, even when replies reach the wrong call.
THEOREM TermsAndVotesStable == Spec => TermAndVoteStable
<1>1. TypeInv /\ [Next]_vars
        => [restarts' = restarts =>
               \A n \in Node :
                  /\ currentTerm'[n] >= currentTerm[n]
                  /\ currentTerm'[n] = currentTerm[n] /\ votedFor[n] # None
                        => votedFor'[n] = votedFor[n]]_vars
  BY TermStep
<1> QED
  BY <1>1, TypeInvAlways, PTL DEF Spec, TermAndVoteStable

-----------------------------------------------------------------------------
(***************************************************************************)
(* Elections: the invariant of votes.                                      *)
(***************************************************************************)
\* The types the argument needs.
VoteTypes ==
    /\ state \in [Node -> {"follower", "candidate", "leader"}]
    /\ currentTerm \in [Node -> Term]
    /\ votedFor \in [Node -> Node \cup {None}]
    /\ votes \in [Node -> SUBSET Node]
    /\ ballots \subseteq Node \X Term \X Node
    /\ DOMAIN pend = Node

\* A majority voted for c in term t.
HasQuorum(c, t) ==
    \E Q \in SUBSET Node :
        /\ Cardinality(Q) >= votesNeeded
        /\ \A p \in Q : <<p, t, c>> \in ballots

\* A message names its nodes and its term, a vote request waits in its own
\* term, and a vote that was granted was cast in the term of the call.
MsgOK(m) ==
    /\ m.from \in Node /\ m.to \in Node /\ m.term \in Term
    /\ m.type = "VoteReq" => m.waiter.term = m.term
    /\ Granted(m) => <<m.from, m.waiter.term, m.to>> \in ballots

MessageInv == \A m \in msgs : MsgOK(m)

\* What waits for a lock: a node about to ask for votes has voted for itself,
\* a node about to lead has won its election, an append about to reach the log
\* came from a node, a send has a peer and a term.
ContOK(n, c) ==
    /\ c.pc = "elect" => c.term \in Term /\ <<n, c.term, n>> \in ballots
    /\ c.pc = "lead" => HasQuorum(n, c.term)
    /\ c.pc = "log" => /\ c.req.from \in Node /\ c.req.to \in Node
                       /\ c.req.term \in Term
    /\ c.pc = "send" => c.peer \in Node /\ c.term \in Term

PendInv == \A n \in Node : \A c \in pend[n] : ContOK(n, c)

\* A node votes in no term above its own, and in its own for votedFor.
BallotInv ==
    \A p \in Node, t \in Term, c \in Node :
        <<p, t, c>> \in ballots =>
            /\ t <= currentTerm[p]
            /\ t = currentTerm[p] => votedFor[p] = c

UniqueBallots ==
    \A p \in Node, t \in Term, c, d \in Node :
        <<p, t, c>> \in ballots /\ <<p, t, d>> \in ballots => c = d

\* A candidate counts votes of its own term only.
CandidateInv ==
    \A n \in Node : state[n] = "candidate" =>
        \A p \in votes[n] : <<p, currentTerm[n], n>> \in ballots

LeaderInv ==
    \A n \in Node : state[n] = "leader" => HasQuorum(n, currentTerm[n])

VoteInv ==
    /\ VoteTypes
    /\ MessageInv
    /\ PendInv
    /\ BallotInv
    /\ UniqueBallots
    /\ CandidateInv
    /\ LeaderInv

-----------------------------------------------------------------------------
(***************************************************************************)
(* Lemmas.                                                                 *)
(***************************************************************************)
\* Two sets of votesNeeded nodes have a node in common.
LEMMA MajoritiesMeet ==
    ASSUME NEW P \in SUBSET Node, NEW Q \in SUBSET Node,
           Cardinality(P) >= votesNeeded, Cardinality(Q) >= votesNeeded
    PROVE  P \cap Q # {}
<1>1. IsFiniteSet(Node) /\ IsFiniteSet(P) /\ IsFiniteSet(Q)
  BY NodeAssumption, FS_Subset
<1>2. /\ Cardinality(Node) \in Nat /\ Cardinality(P) \in Nat
      /\ Cardinality(Q) \in Nat
  BY <1>1, FS_CardinalityType
<1>3. SUFFICES ASSUME P \cap Q = {} PROVE FALSE
  OBVIOUS
<1>4. Cardinality(P \cup Q) = Cardinality(P) + Cardinality(Q)
  <2>1. Cardinality(P \cup Q)
            = Cardinality(P) + Cardinality(Q) - Cardinality(P \cap Q)
    BY <1>1, FS_Union
  <2>2. Cardinality(P \cap Q) = 0
    BY <1>3, FS_EmptySet
  <2> QED
    BY <2>1, <2>2, <1>2
<1>5. Cardinality(P \cup Q) <= Cardinality(Node)
  BY <1>1, FS_Subset
<1>6. 2 * votesNeeded > Cardinality(Node)
  BY <1>2 DEF votesNeeded
<1> QED
  <2>1. votesNeeded \in Nat
    BY <1>2 DEF votesNeeded
  <2> QED
    BY <2>1, <1>2, <1>4, <1>5, <1>6

\* Votes are never taken back: a majority stays one, and what waits and what is
\* in flight stays true.
LEMMA BallotsGrow ==
    ASSUME ballots \subseteq ballots'
    PROVE  /\ \A c, t : HasQuorum(c, t) => HasQuorum(c, t)'
           /\ \A n, c : ContOK(n, c) => ContOK(n, c)'
           /\ \A m : MsgOK(m) => MsgOK(m)'
<1>1. ASSUME NEW c, NEW t, HasQuorum(c, t)
      PROVE  HasQuorum(c, t)'
  BY <1>1 DEF HasQuorum, votesNeeded
<1> QED
  BY <1>1 DEF ContOK, MsgOK, Granted

\* The invariant gives the two properties of the model.
LEMMA VoteInvImplies ==
    VoteInv => OneVotePerTerm /\ LeaderWasElected /\ ElectionSafety
<1> SUFFICES ASSUME VoteInv
             PROVE  OneVotePerTerm /\ LeaderWasElected /\ ElectionSafety
  OBVIOUS
<1> USE DEF VoteInv
<1>1. OneVotePerTerm
  BY DEF OneVotePerTerm, VoteTypes, UniqueBallots
<1>2. LeaderWasElected
  <2> SUFFICES ASSUME NEW n \in Node, state[n] = "leader"
               PROVE  Elected(n, currentTerm[n])
    BY DEF LeaderWasElected
  <2>1. PICK Q \in SUBSET Node :
            /\ Cardinality(Q) >= votesNeeded
            /\ \A p \in Q : <<p, currentTerm[n], n>> \in ballots
    BY DEF LeaderInv, HasQuorum
  <2>2. Q \subseteq VotersOf(n, currentTerm[n])
    BY <2>1 DEF VotersOf
  <2>3. IsFiniteSet(VotersOf(n, currentTerm[n]))
    BY NodeAssumption, FS_Subset DEF VotersOf
  <2>4. /\ IsFiniteSet(Q)
        /\ Cardinality(Q) <= Cardinality(VotersOf(n, currentTerm[n]))
    BY <2>2, <2>3, FS_Subset
  <2>5. /\ Cardinality(Q) \in Nat /\ votesNeeded \in Int
        /\ Cardinality(VotersOf(n, currentTerm[n])) \in Nat
    BY <2>3, <2>4, NodeAssumption, FS_CardinalityType DEF votesNeeded
  <2> QED
    BY <2>1, <2>4, <2>5 DEF Elected
<1>3. ElectionSafety
  <2> SUFFICES ASSUME NEW m \in Node, NEW n \in Node,
                      state[m] = "leader", state[n] = "leader",
                      currentTerm[m] = currentTerm[n]
               PROVE  m = n
    BY DEF ElectionSafety
  <2>1. PICK P \in SUBSET Node :
            /\ Cardinality(P) >= votesNeeded
            /\ \A p \in P : <<p, currentTerm[m], m>> \in ballots
    BY DEF LeaderInv, HasQuorum
  <2>2. PICK Q \in SUBSET Node :
            /\ Cardinality(Q) >= votesNeeded
            /\ \A p \in Q : <<p, currentTerm[m], n>> \in ballots
    BY DEF LeaderInv, HasQuorum
  <2>3. PICK p \in Node : p \in P /\ p \in Q
    BY <2>1, <2>2, MajoritiesMeet
  <2> QED
    BY <2>1, <2>2, <2>3 DEF VoteTypes, UniqueBallots
<1> QED
  BY <1>1, <1>2, <1>3

\* A cluster that has just started satisfies the invariant.
LEMMA InitVoteInv == Init => VoteInv
<1> SUFFICES ASSUME Init PROVE VoteInv
  OBVIOUS
<1>1. 0 \in Term
  BY BoundsAssumption DEF Term
<1> QED
  BY <1>1 DEF Init, VoteInv, VoteTypes, MessageInv, PendInv, BallotInv,
              UniqueBallots, CandidateInv, LeaderInv

-----------------------------------------------------------------------------
(***************************************************************************)
(* Steps that change votes, terms or roles.                                *)
(***************************************************************************)
\* A new term has no vote of this node yet, so its vote for itself is the first.
LEMMA StartElectionStep ==
    ASSUME VoteInv, NEW n \in Node, StartElection(n)
    PROVE  VoteInv'
<1> USE DEF VoteInv
<1>0. PICK t \in Term : t = currentTerm[n] + 1 /\ currentTerm[n] < t
  BY BoundsAssumption DEF StartElection, VoteTypes, Term
<1>1. /\ currentTerm' = [currentTerm EXCEPT ![n] = t]
      /\ ballots' = ballots \cup {<<n, t, n>>}
      /\ state' = [state EXCEPT ![n] = "candidate"]
      /\ votedFor' = [votedFor EXCEPT ![n] = n]
      /\ votes' = [votes EXCEPT ![n] = {n}]
      /\ pend' = [pend EXCEPT ![n] = @ \cup {ElectCont(t)}]
      /\ msgs' = msgs
  BY <1>0 DEF StartElection
<1>2. ballots \subseteq ballots'
  BY <1>1
<1>3. \A p \in Node, u \in Term, c \in Node :
         <<p, u, c>> \in ballots' <=>
            <<p, u, c>> \in ballots \/ (p = n /\ u = t /\ c = n)
  BY <1>1
<1>4. \A c \in Node : <<n, t, c>> \notin ballots
  BY <1>0 DEF BallotInv, VoteTypes, Term
<1>5. VoteTypes'
  BY <1>1 DEF VoteTypes
<1>6. MessageInv'
  BY <1>1, <1>2, BallotsGrow DEF MessageInv
<1>7. PendInv'
  <2> SUFFICES ASSUME NEW k \in Node, NEW c \in pend'[k]
               PROVE  ContOK(k, c)'
    BY DEF PendInv
  <2>1. CASE c \in pend[k]
    BY <2>1, <1>2, BallotsGrow DEF PendInv
  <2>2. CASE k = n /\ c = ElectCont(t)
    BY <2>2, <1>1 DEF ContOK, ElectCont
  <2> QED
    BY <2>1, <2>2, <1>1 DEF VoteTypes
<1>8. BallotInv'
  BY <1>0, <1>1, <1>3 DEF BallotInv, VoteTypes, Term
<1>9. UniqueBallots'
  BY <1>3, <1>4 DEF UniqueBallots
<1>10. CandidateInv'
  BY <1>1, <1>2 DEF CandidateInv, VoteTypes
<1>11. LeaderInv'
  BY <1>1, <1>2 DEF LeaderInv, VoteTypes, HasQuorum, votesNeeded
<1> QED
  BY <1>5, <1>6, <1>7, <1>8, <1>9, <1>10, <1>11

\* The one node of a cluster without peers is its own majority.
LEMMA RequestVotesStep ==
    ASSUME VoteInv, NEW n \in Node, NEW t \in Term, RequestVotes(n, t)
    PROVE  VoteInv'
<1> USE DEF VoteInv
<1>1. /\ ElectCont(t) \in pend[n]
      /\ UNCHANGED <<state, currentTerm, votedFor, votes, ballots>>
  BY DEF RequestVotes, serverVars
<1>2. <<n, t, n>> \in ballots
  <2>1. ElectCont(t).pc = "elect" /\ ElectCont(t).term = t
    BY DEF ElectCont
  <2> QED
    BY <1>1, <2>1 DEF PendInv, ContOK
<1>3. /\ BallotInv' /\ UniqueBallots' /\ CandidateInv' /\ LeaderInv'
  BY <1>1 DEF BallotInv, UniqueBallots, CandidateInv, LeaderInv, HasQuorum,
              votesNeeded
<1>4. VoteTypes'
  BY <1>1 DEF RequestVotes, VoteTypes
<1>5. MessageInv'
  <2> SUFFICES ASSUME NEW m \in msgs' PROVE MsgOK(m)'
    BY DEF MessageInv
  <2>1. CASE m \in msgs
    BY <2>1, <1>1, BallotsGrow DEF MessageInv
  <2>2. CASE m \notin msgs
    <3>1. PICK p \in Peers(n) : m = VoteReq(n, p, t, log[n])
      BY <2>2 DEF RequestVotes
    <3> QED
      BY <3>1 DEF VoteReq, MsgOK, Granted, Peers
  <2> QED
    BY <2>1, <2>2
<1>6. PendInv'
  <2> SUFFICES ASSUME NEW k \in Node, NEW c \in pend'[k]
               PROVE  ContOK(k, c)'
    BY DEF PendInv
  <2>1. CASE c \in pend[k]
    BY <2>1, <1>1, BallotsGrow DEF PendInv
  <2>2. CASE c \notin pend[k]
    <3>1. k = n /\ Peers(n) = {} /\ c = LeadCont(t)
      BY <2>2 DEF RequestVotes, VoteTypes
    <3>2. Cardinality({n}) >= votesNeeded
      <4>1. Node = {n}
        BY <3>1 DEF Peers
      <4>2. Cardinality({n}) = 1
        BY FS_Singleton
      <4> QED
        BY <4>1, <4>2 DEF votesNeeded
    <3>3. HasQuorum(n, t)'
      <4>1. \A p \in {n} : <<p, t, n>> \in ballots'
        BY <1>1, <1>2
      <4> QED
        BY <4>1, <3>2 DEF HasQuorum, votesNeeded
    <3>4. c.term = t /\ c.pc = "lead"
      BY <3>1 DEF LeadCont
    <3> QED
      BY <3>1, <3>3, <3>4 DEF ContOK
  <2> QED
    BY <2>1, <2>2
<1> QED
  BY <1>3, <1>4, <1>5, <1>6

\* A request of a newer term frees the vote; a vote within the term is given
\* only where none was cast for another.
LEMMA HandleVoteRequestStep ==
    ASSUME VoteInv, NEW m \in msgs, HandleVoteRequest(m.to, m)
    PROVE  VoteInv'
<1> USE DEF VoteInv
<1> DEFINE n == m.to
           newer == m.term > currentTerm[n]
           grant == /\ m.term >= currentTerm[n]
                    /\ newer \/ votedFor[n] \in {None, m.from}
                    /\ UpToDate(m.lastLogTerm, m.lastLogIndex, log[n])
<1>1. /\ m.type = "VoteReq" /\ n \in Node /\ m.from \in Node /\ m.term \in Term
      /\ m.waiter.term = m.term
  BY DEF HandleVoteRequest, MessageInv, MsgOK
<1>2. /\ state' = IF newer THEN [state EXCEPT ![n] = "follower"] ELSE state
      /\ currentTerm' = IF newer THEN [currentTerm EXCEPT ![n] = m.term]
                        ELSE currentTerm
      /\ votedFor' = IF grant THEN [votedFor EXCEPT ![n] = m.from]
                     ELSE IF newer THEN [votedFor EXCEPT ![n] = None]
                     ELSE votedFor
      /\ ballots' = IF grant THEN ballots \cup {<<n, m.term, m.from>>}
                    ELSE ballots
      /\ msgs' = (msgs \ {m}) \cup {VoteResp(m, currentTerm'[n], grant)}
      /\ UNCHANGED <<votes, pend>>
  BY DEF HandleVoteRequest, CanVote, Reply
<1> HIDE DEF grant
<1>3. ballots \subseteq ballots'
  BY <1>2
<1>4. grant => \/ newer
               \/ m.term = currentTerm[n] /\ votedFor[n] \in {None, m.from}
  BY <1>1 DEF grant, VoteTypes, Term
<1>5. \A p \in Node, u \in Term, c \in Node :
         <<p, u, c>> \in ballots' <=>
            \/ <<p, u, c>> \in ballots
            \/ grant /\ p = n /\ u = m.term /\ c = m.from
  BY <1>2
<1>6. grant => \A c \in Node : <<n, m.term, c>> \in ballots => c = m.from
  BY <1>1, <1>4, NodeAssumption DEF BallotInv, VoteTypes, Term
<1>7. VoteTypes'
  BY <1>1, <1>2 DEF VoteTypes
<1>8. MessageInv'
  <2> SUFFICES ASSUME NEW r \in msgs'
               PROVE  MsgOK(r)'
    BY DEF MessageInv
  <2>1. CASE r \in msgs
    BY <2>1, <1>3, BallotsGrow DEF MessageInv
  <2>2. CASE r \notin msgs
    <3>1. r = VoteResp(m, currentTerm'[n], grant)
      BY <2>2, <1>2
    <3>2. currentTerm'[n] \in Term
      BY <1>1, <1>7 DEF VoteTypes
    <3>3. /\ r.from = n /\ r.to = m.from /\ r.term = currentTerm'[n]
          /\ r.type = "VoteResp" /\ r.granted = grant /\ r.waiter = m.waiter
      BY <3>1 DEF VoteResp
    <3>4. grant => <<n, m.term, m.from>> \in ballots'
      BY <1>2
    <3> QED
      BY <3>2, <3>3, <3>4, <1>1 DEF MsgOK, Granted
  <2> QED
    BY <2>1, <2>2
<1>9. PendInv'
  <2> SUFFICES ASSUME NEW k \in Node, NEW c \in pend[k]
               PROVE  ContOK(k, c)'
    BY <1>2 DEF PendInv
  <2> QED
    BY <1>3, BallotsGrow DEF PendInv
<1>10. BallotInv'
  <2> SUFFICES ASSUME NEW p \in Node, NEW u \in Term, NEW c \in Node,
                      <<p, u, c>> \in ballots'
               PROVE  /\ u <= currentTerm'[p]
                      /\ u = currentTerm'[p] => votedFor'[p] = c
    BY DEF BallotInv
  <2>1. CASE p # n
    BY <2>1, <1>1, <1>2, <1>5 DEF BallotInv, VoteTypes
  <2>2. CASE p = n /\ grant
    BY <2>2, <1>1, <1>2, <1>4, <1>5, <1>6 DEF BallotInv, VoteTypes, Term
  <2>3. CASE p = n /\ ~grant
    BY <2>3, <1>1, <1>2, <1>5 DEF BallotInv, VoteTypes, Term
  <2> QED
    BY <2>1, <2>2, <2>3
<1>11. UniqueBallots'
  BY <1>1, <1>5, <1>6 DEF UniqueBallots
<1>12. CandidateInv'
  BY <1>1, <1>2, <1>3 DEF CandidateInv, VoteTypes
<1>13. LeaderInv'
  BY <1>1, <1>2, <1>3 DEF LeaderInv, VoteTypes, HasQuorum, votesNeeded
<1> QED
  BY <1>7, <1>8, <1>9, <1>10, <1>11, <1>12, <1>13

\* A counted vote was cast for this candidate in its current term, so the last
\* one needed makes a majority of ballots.
LEMMA RequestVoteFromPeerStep ==
    ASSUME VoteInv, NEW m \in msgs, RequestVoteFromPeer(m.to, m)
    PROVE  VoteInv'
<1> USE DEF VoteInv
<1> DEFINE n == m.to
           counted == votes[n] \cup {m.from}
           won == Cardinality(counted) >= votesNeeded
<1>1. /\ n \in Node /\ m.from \in Node /\ m.term \in Term
      /\ Granted(m) => <<m.from, m.waiter.term, n>> \in ballots
  BY DEF MessageInv, MsgOK
<1>2. /\ msgs' = msgs \ {m}
      /\ ballots' = ballots
  BY DEF RequestVoteFromPeer
<1>3. MessageInv'
  BY <1>2, BallotsGrow DEF MessageInv
<1>4. UniqueBallots'
  BY <1>2 DEF UniqueBallots
<1>5. CASE m.term > currentTerm[n] /\ StepDown(n, m.term) /\ UNCHANGED <<votes, pend>>
  <2>1. VoteTypes'
    BY <1>1, <1>2, <1>5 DEF StepDown, VoteTypes
  <2>2. PendInv'
    BY <1>2, <1>5, BallotsGrow DEF PendInv
  <2>3. BallotInv'
    BY <1>1, <1>2, <1>5 DEF StepDown, BallotInv, VoteTypes, Term
  <2>4. CandidateInv'
    BY <1>1, <1>2, <1>5 DEF StepDown, CandidateInv, VoteTypes
  <2>5. LeaderInv'
    BY <1>1, <1>2, <1>5 DEF StepDown, LeaderInv, VoteTypes, HasQuorum, votesNeeded
  <2> QED
    BY <1>3, <1>4, <2>1, <2>2, <2>3, <2>4, <2>5
<1>6. CASE /\ currentTerm[n] = m.waiter.term /\ state[n] = "candidate"
           /\ Granted(m)
           /\ votes' = [votes EXCEPT ![n] = counted]
           /\ pend' = IF won
                      THEN [pend EXCEPT ![n] = @ \cup {LeadCont(m.waiter.term)}]
                      ELSE pend
           /\ UNCHANGED serverVars
  <2>1. VoteTypes'
    BY <1>1, <1>2, <1>6 DEF serverVars, VoteTypes
  <2>2. \A p \in counted : <<p, currentTerm[n], n>> \in ballots
    BY <1>1, <1>6 DEF CandidateInv
  <2>3. won => HasQuorum(n, currentTerm[n])
    <3>1. counted \in SUBSET Node
      BY <1>1 DEF VoteTypes
    <3> QED
      BY <3>1, <2>2 DEF HasQuorum
  <2>4. PendInv'
    <3> SUFFICES ASSUME NEW k \in Node, NEW c \in pend'[k]
                 PROVE  ContOK(k, c)'
      BY DEF PendInv
    <3>1. CASE c \in pend[k]
      BY <3>1, <1>2, BallotsGrow DEF PendInv
    <3>2. CASE c \notin pend[k]
      <4>1. k = n /\ won /\ c = LeadCont(m.waiter.term)
        BY <3>2, <1>1, <1>6 DEF VoteTypes
      <4>2. c.pc = "lead" /\ c.term = currentTerm[n]
        BY <4>1, <1>6 DEF LeadCont
      <4> QED
        BY <4>1, <4>2, <2>3, <1>2, BallotsGrow DEF ContOK
    <3> QED
      BY <3>1, <3>2
  <2>5. BallotInv'
    BY <1>2, <1>6 DEF serverVars, BallotInv
  <2>6. CandidateInv'
    BY <1>1, <1>2, <1>6, <2>2 DEF serverVars, CandidateInv, VoteTypes
  <2>7. LeaderInv'
    BY <1>2, <1>6 DEF serverVars, LeaderInv, HasQuorum, votesNeeded
  <2> QED
    BY <1>3, <1>4, <2>1, <2>4, <2>5, <2>6, <2>7
<1>7. CASE UNCHANGED <<serverVars, votes, pend>>
  BY <1>2, <1>3, <1>4, <1>7, BallotsGrow
     DEF serverVars, VoteTypes, PendInv, BallotInv, CandidateInv, LeaderInv,
         HasQuorum, votesNeeded
<1> QED
  BY <1>5, <1>6, <1>7 DEF RequestVoteFromPeer

\* becomeLeader checks the term only.  That is enough: whoever waits to lead in
\* a term has the votes of a majority in it.
LEMMA BecomeLeaderStep ==
    ASSUME VoteInv, NEW n \in Node, NEW t \in Term, BecomeLeader(n, t)
    PROVE  VoteInv'
<1> USE DEF VoteInv
<1>1. /\ LeadCont(t) \in pend[n]
      /\ UNCHANGED <<currentTerm, votedFor, votes, msgs, ballots>>
  BY DEF BecomeLeader
<1>2. HasQuorum(n, t)
  <2>1. LeadCont(t).pc = "lead" /\ LeadCont(t).term = t
    BY DEF LeadCont
  <2> QED
    BY <1>1, <2>1 DEF PendInv, ContOK
<1>3. MessageInv' /\ BallotInv' /\ UniqueBallots'
  BY <1>1, BallotsGrow DEF MessageInv, BallotInv, UniqueBallots
<1>4. \/ state' = state
      \/ state' = [state EXCEPT ![n] = "leader"] /\ currentTerm[n] = t
  BY DEF BecomeLeader, MayLead
<1>5. VoteTypes'
  BY <1>1, <1>4 DEF BecomeLeader, VoteTypes
<1>6. PendInv'
  <2> SUFFICES ASSUME NEW k \in Node, NEW c \in pend'[k]
               PROVE  ContOK(k, c)'
    BY DEF PendInv
  <2>1. CASE c \in pend[k]
    BY <2>1, <1>1, BallotsGrow DEF PendInv
  <2>2. CASE c \notin pend[k]
    <3>1. c \in SendConts(n, t)
      BY <2>2 DEF BecomeLeader, VoteTypes
    <3> QED
      BY <3>1 DEF ContOK, SendConts, SendCont, Peers
  <2> QED
    BY <2>1, <2>2
<1>7. CandidateInv'
  BY <1>1, <1>4 DEF CandidateInv, VoteTypes
<1>8. LeaderInv'
  BY <1>1, <1>2, <1>4 DEF LeaderInv, VoteTypes, HasQuorum, votesNeeded
<1> QED
  BY <1>3, <1>5, <1>6, <1>7, <1>8

\* A node that takes over a newer term follows: it leads and counts nothing.
LEMMA HandleAppendEntriesStep ==
    ASSUME VoteInv, NEW m \in msgs, HandleAppendEntries(m.to, m)
    PROVE  VoteInv'
<1> USE DEF VoteInv
<1> DEFINE n == m.to
<1>1. n \in Node /\ m.from \in Node /\ m.term \in Term
  BY DEF MessageInv, MsgOK
<1>2. UNCHANGED <<votes, ballots>>
  BY DEF HandleAppendEntries
<1>3. UniqueBallots'
  BY <1>2 DEF UniqueBallots
<1>4. CASE /\ Reply(m, AppendResp(m, currentTerm[n], FALSE, 0, 0))
           /\ UNCHANGED <<serverVars, pend>>
  <2>1. MessageInv'
    <3> SUFFICES ASSUME NEW r \in msgs'
                 PROVE  MsgOK(r)'
      BY <1>2, BallotsGrow DEF MessageInv
    <3>1. CASE r \in msgs
      BY <3>1, <1>2, BallotsGrow DEF MessageInv
    <3>2. CASE r = AppendResp(m, currentTerm[n], FALSE, 0, 0)
      BY <3>2, <1>1 DEF MsgOK, AppendResp, Granted, VoteTypes
    <3> QED
      BY <1>4, <3>1, <3>2 DEF Reply
  <2> QED
    BY <2>1, <1>2, <1>3, <1>4, BallotsGrow
       DEF serverVars, VoteTypes, PendInv, BallotInv, CandidateInv, LeaderInv,
           HasQuorum, votesNeeded
<1>5. CASE /\ m.term >= currentTerm[n]
           /\ currentTerm' = [currentTerm EXCEPT ![n] = m.term]
           /\ votedFor' = [votedFor EXCEPT ![n] = VoteAfterAppend(n, m)]
           /\ state' = [state EXCEPT ![n] = "follower"]
           /\ pend' = [pend EXCEPT ![n] = @ \cup {LogCont(m)}]
           /\ msgs' = msgs \ {m}
  <2>1. VoteTypes'
    BY <1>1, <1>2, <1>5 DEF VoteTypes, VoteAfterAppend
  <2>2. MessageInv'
    BY <1>2, <1>5, BallotsGrow DEF MessageInv
  <2>3. PendInv'
    <3> SUFFICES ASSUME NEW k \in Node, NEW c \in pend'[k]
                 PROVE  ContOK(k, c)'
      BY DEF PendInv
    <3>1. CASE c \in pend[k]
      BY <3>1, <1>2, BallotsGrow DEF PendInv
    <3>2. CASE c = LogCont(m)
      BY <3>2, <1>1 DEF ContOK, LogCont
    <3> QED
      BY <3>1, <3>2, <1>1, <1>5 DEF VoteTypes
  <2>4. BallotInv'
    <3> SUFFICES ASSUME NEW p \in Node, NEW t \in Term, NEW c \in Node, <<p, t, c>> \in ballots
                 PROVE  t <= currentTerm'[p] /\ (t = currentTerm'[p] => votedFor'[p] = c)
      BY <1>2 DEF BallotInv
    <3>1. t <= currentTerm[p] /\ (t = currentTerm[p] => votedFor[p] = c)
      BY DEF BallotInv
    <3>2. CASE p # n
      BY <1>5, <3>1, <3>2 DEF VoteTypes
    <3>3. CASE p = n
      <4>1. currentTerm'[n] = m.term /\ votedFor'[n] = VoteAfterAppend(n, m)
        BY <1>1, <1>5 DEF VoteTypes
      <4>2. t \in Int /\ m.term \in Int /\ currentTerm[n] \in Int
        BY <1>1 DEF VoteTypes, Term
      <4> QED
        BY <1>5, <3>1, <3>3, <4>1, <4>2 DEF VoteAfterAppend
    <3> QED
      BY <3>2, <3>3
  <2>5. CandidateInv'
    BY <1>1, <1>2, <1>5 DEF CandidateInv, VoteTypes
  <2>6. LeaderInv'
    BY <1>1, <1>2, <1>5 DEF LeaderInv, VoteTypes, HasQuorum, votesNeeded
  <2> QED
    BY <1>3, <2>1, <2>2, <2>3, <2>4, <2>5, <2>6
<1> QED
  BY <1>4, <1>5 DEF HandleAppendEntries

\* A reply of a newer term makes the leader a follower with a free vote.
LEMMA HandleAppendEntriesResponseStep ==
    ASSUME VoteInv, NEW m \in msgs, HandleAppendEntriesResponse(m.to, m)
    PROVE  VoteInv'
<1> USE DEF VoteInv
<1> DEFINE n == m.to
<1>1. n \in Node /\ m.term \in Term
  BY DEF MessageInv, MsgOK
<1>2. UNCHANGED <<votes, ballots>> /\ msgs' = msgs \ {m}
  BY DEF HandleAppendEntriesResponse
<1>3. UniqueBallots' /\ MessageInv'
  BY <1>2, BallotsGrow DEF UniqueBallots, MessageInv
<1>4. PendInv' /\ DOMAIN pend' = Node
  <2>1. pend' = pend \/ pend' = [pend EXCEPT ![n] = @ \cup {SignalCont}]
    BY DEF HandleAppendEntriesResponse
  <2>2. DOMAIN pend' = Node
    BY <2>1 DEF VoteTypes
  <2>3. SUFFICES ASSUME NEW k \in Node, NEW c \in pend'[k]
                 PROVE  ContOK(k, c)'
    BY <2>2 DEF PendInv
  <2>4. c \in pend[k] \/ c = SignalCont
    BY <2>1, <1>1 DEF VoteTypes
  <2> QED
    BY <2>4, <1>2, BallotsGrow DEF PendInv, ContOK, SignalCont
<1>5. CASE m.term > currentTerm[n] /\ StepDown(n, m.term)
  <2>1. VoteTypes'
    BY <1>1, <1>2, <1>4, <1>5 DEF StepDown, VoteTypes
  <2>2. BallotInv'
    BY <1>1, <1>2, <1>5 DEF StepDown, BallotInv, VoteTypes, Term
  <2>3. CandidateInv'
    BY <1>1, <1>2, <1>5 DEF StepDown, CandidateInv, VoteTypes
  <2>4. LeaderInv'
    BY <1>1, <1>2, <1>5 DEF StepDown, LeaderInv, VoteTypes, HasQuorum, votesNeeded
  <2> QED
    BY <1>3, <1>4, <2>1, <2>2, <2>3, <2>4
<1>6. CASE UNCHANGED serverVars
  BY <1>2, <1>3, <1>4, <1>6
     DEF serverVars, VoteTypes, BallotInv, CandidateInv, LeaderInv, HasQuorum,
         votesNeeded
<1> QED
  BY <1>5, <1>6 DEF HandleAppendEntriesResponse

-----------------------------------------------------------------------------
(***************************************************************************)
(* Steps that leave votes, terms and roles alone.                          *)
(***************************************************************************)
\* A continuation, and a message, such a step may add.
QuietCont(c) == \/ c.pc \notin {"elect", "lead", "log", "send"}
                \/ c.pc = "send" /\ c.peer \in Node /\ c.term \in Term

QuietMsg(m) == /\ m.from \in Node /\ m.to \in Node /\ m.term \in Term
               /\ m.type \notin {"VoteReq", "VoteResp"}

\* Only its new continuations and messages matter.
LEMMA QuietStep ==
    ASSUME VoteInv,
           UNCHANGED <<state, currentTerm, votedFor, votes, ballots>>,
           DOMAIN pend' = Node,
           \A n \in Node : \A c \in pend'[n] : c \in pend[n] \/ QuietCont(c),
           \A m \in msgs' : m \in msgs \/ QuietMsg(m)
    PROVE  VoteInv'
<1> USE DEF VoteInv
<1>1. VoteTypes' /\ BallotInv' /\ UniqueBallots' /\ CandidateInv'
  BY DEF VoteTypes, BallotInv, UniqueBallots, CandidateInv
<1>2. LeaderInv'
  BY DEF LeaderInv, HasQuorum, votesNeeded
<1>3. MessageInv'
  BY BallotsGrow DEF MessageInv, MsgOK, Granted, QuietMsg
<1>4. PendInv'
  BY BallotsGrow DEF PendInv, ContOK, QuietCont
<1> QED
  BY <1>1, <1>2, <1>3, <1>4

\* What replication, the apply loop and the commit loop do.
LEMMA LogSteps ==
    ASSUME VoteInv, NEW n \in Node,
           \/ \E p \in Node : Heartbeat(n, p)
           \/ \E v \in Command : ProcessApply(n, v)
           \/ \E p \in Node, t \in Term : ReplicateLogToPeer(n, p, t)
           \/ \E t \in Term, v \in Command : AppendToLog(n, t, v)
           \/ BroadcastAppend(n)
           \/ AdvanceCommitRead(n)
           \/ \E t \in Term : AdvanceCommitIndex(n, t)
           \/ \E c \in pend[n] : c.pc = "log" /\ AppendEntriesToLog(n, c.req)
    PROVE  VoteInv'
<1>0. currentTerm[n] \in Term /\ DOMAIN pend = Node
  BY DEF VoteInv, VoteTypes
<1>1. CASE \E p \in Node : Heartbeat(n, p)
  <2>1. PICK p \in Node : Heartbeat(n, p)
    BY <1>1
  <2> QED
    BY <2>1, <1>0, QuietStep DEF Heartbeat, QuietCont, SendCont, serverVars
<1>2. CASE \E v \in Command : ProcessApply(n, v)
  <2>1. PICK v \in Command : ProcessApply(n, v)
    BY <1>2
  <2> QED
    BY <2>1, <1>0, QuietStep DEF ProcessApply, QuietCont, AppendCont, serverVars
<1>3. CASE \E p \in Node, t \in Term : ReplicateLogToPeer(n, p, t)
  <2>1. PICK p \in Node, t \in Term : ReplicateLogToPeer(n, p, t)
    BY <1>3
  <2>2. QuietMsg(AppendReq(n, p, t, nextIndex[n][p] - 1, log[n], commitIndex[n]))
    BY DEF QuietMsg, AppendReq
  <2>3. \A m \in msgs' : m \in msgs \/ QuietMsg(m)
    BY <2>1, <2>2 DEF ReplicateLogToPeer
  <2> QED
    BY <2>1, <2>3, <1>0, QuietStep DEF ReplicateLogToPeer, serverVars
<1>4. CASE \E t \in Term, v \in Command : AppendToLog(n, t, v)
  <2>1. PICK t \in Term, v \in Command : AppendToLog(n, t, v)
    BY <1>4
  <2>2. QuietCont(BroadcastCont)
    BY DEF QuietCont, BroadcastCont
  <2>3. \A k \in Node : \A c \in pend'[k] : c \in pend[k] \/ QuietCont(c)
    BY <2>1, <2>2, <1>0 DEF AppendToLog
  <2>4. DOMAIN pend' = Node
    BY <2>1, <1>0 DEF AppendToLog
  <2> QED
    BY <2>1, <2>3, <2>4, QuietStep DEF AppendToLog, serverVars
<1>5. CASE BroadcastAppend(n)
  BY <1>5, <1>0, QuietStep
     DEF BroadcastAppend, QuietCont, SendConts, SendCont, Peers, serverVars
<1>6. CASE AdvanceCommitRead(n)
  BY <1>6, <1>0, QuietStep DEF AdvanceCommitRead, QuietCont, CommitCont, serverVars
<1>7. CASE \E t \in Term : AdvanceCommitIndex(n, t)
  BY <1>7, <1>0, QuietStep DEF AdvanceCommitIndex, serverVars
<1>8. CASE \E c \in pend[n] : c.pc = "log" /\ AppendEntriesToLog(n, c.req)
  <2>1. PICK c \in pend[n] : c.pc = "log" /\ AppendEntriesToLog(n, c.req)
    BY <1>8
  <2>2. c.req.from \in Node /\ c.req.to \in Node /\ c.req.term \in Term
    BY <2>1 DEF VoteInv, PendInv, ContOK
  <2>3. PICK r : msgs' = msgs \cup {r} /\ QuietMsg(r)
    <3>1. \A b, i, j : QuietMsg(AppendResp(c.req, c.req.term, b, i, j))
      BY <2>2 DEF QuietMsg, AppendResp
    <3> DEFINE q == c.req
               last == q.prevLogIndex + Len(q.entries)
               first == FirstOfTerm(log[n], q.prevLogIndex)
               len == Len(log[n]) + 1
    <3>2. \/ msgs' = msgs \cup {AppendResp(q, q.term, FALSE, 0, len)}
          \/ msgs' = msgs \cup {AppendResp(q, q.term, FALSE, 0, first)}
          \/ msgs' = msgs \cup {AppendResp(q, q.term, TRUE, last, 0)}
      BY <2>1 DEF AppendEntriesToLog
    <3> HIDE DEF last, first, len
    <3> QED
      BY <3>1, <3>2
  <2>4. \A m \in msgs' : m \in msgs \/ QuietMsg(m)
    BY <2>3
  <2> QED
    BY <2>1, <2>4, <1>0, QuietStep DEF AppendEntriesToLog, serverVars
<1> QED
  BY <1>1, <1>2, <1>3, <1>4, <1>5, <1>6, <1>7, <1>8

\* A lost message takes nothing away that the invariant needs.
LEMMA LoseMessageStep ==
    ASSUME VoteInv, NEW m \in msgs, LoseMessage(m)
    PROVE  VoteInv'
BY QuietStep DEF VoteInv, VoteTypes, LoseMessage, serverVars

-----------------------------------------------------------------------------
(***************************************************************************)
(* Theorems about elections.                                               *)
(***************************************************************************)
\* Every step keeps the invariant.
LEMMA NextVoteInv ==
    ASSUME "mux" \notin Hazards, "restart" \notin Hazards,
           VoteInv, [Next]_vars
    PROVE  VoteInv'
<1>1. CASE UNCHANGED vars
  BY <1>1, QuietStep DEF vars, serverVars, VoteInv, VoteTypes
<1>2. CASE \E n \in Node :
             \/ StartElection(n)
             \/ \E p \in Node : Heartbeat(n, p)
             \/ \E v \in Command : ProcessApply(n, v)
             \/ SectionStep(n)
             \/ Restart(n)
  BY <1>2, StartElectionStep, RequestVotesStep, BecomeLeaderStep, LogSteps
     DEF SectionStep, Restart
<1>3. CASE \E m \in msgs :
             \/ HandleVoteRequest(m.to, m)
             \/ RequestVoteFromPeer(m.to, m)
             \/ HandleAppendEntries(m.to, m)
             \/ HandleAppendEntriesResponse(m.to, m)
             \/ LoseMessage(m)
  BY <1>3, HandleVoteRequestStep, RequestVoteFromPeerStep, HandleAppendEntriesStep,
     HandleAppendEntriesResponseStep, LoseMessageStep
<1>4. CASE \E m1, m2 \in msgs : CrossReplies(m1, m2)
  BY <1>4 DEF CrossReplies
<1> QED
  BY <1>1, <1>2, <1>3, <1>4 DEF Next

\* The invariant holds in every reachable state.
LEMMA VoteInvAlways ==
    ASSUME "mux" \notin Hazards, "restart" \notin Hazards
    PROVE  Spec => []VoteInv
<1>1. VoteInv /\ [Next]_vars => VoteInv'
  BY NextVoteInv
<1> QED
  BY <1>1, InitVoteInv, PTL DEF Spec

\* startElection, handleVoteRequest: whatever critical sections, vote requests
\* and replies overtake each other, no node votes twice in one term.
THEOREM VotesOnce ==
    ASSUME "mux" \notin Hazards, "restart" \notin Hazards
    PROVE  Spec => []OneVotePerTerm
BY VoteInvAlways, VoteInvImplies, PTL

\* requestVoteFromPeer, becomeLeader: a leader was elected by a majority in its
\* own term, although mu is released between the count and the change of role.
THEOREM LeadersAreElected ==
    ASSUME "mux" \notin Hazards, "restart" \notin Hazards
    PROVE  Spec => []LeaderWasElected
BY VoteInvAlways, VoteInvImplies, PTL

\* becomeLeader: a term has at most one leader, in every cluster, as long as
\* replies reach the call they answer and no process restarts.
THEOREM ElectionsAreSafe ==
    ASSUME "mux" \notin Hazards, "restart" \notin Hazards
    PROVE  Spec => []ElectionSafety
BY VoteInvAlways, VoteInvImplies, PTL

-----------------------------------------------------------------------------
(***************************************************************************)
(* Who replicates.                                                         *)
(***************************************************************************)
\* Who sends an append was elected in the term it is sent in.
SenderInv ==
    /\ \A m \in msgs : m.type = "AppendReq" => HasQuorum(m.from, m.term)
    /\ \A n \in Node : \A c \in pend[n] :
          /\ c.pc = "send" => HasQuorum(n, c.term)
          /\ c.pc = "log" => HasQuorum(c.req.from, c.req.term)

\* A command that is about to reach the log, or its peers, is the leader's.
ApplierInv ==
    \A n \in Node : \A c \in pend[n] :
        /\ c.pc = "append" => state[n] = "leader" /\ currentTerm[n] = c.term
        /\ c.pc = "broadcast" => state[n] = "leader"

LeaderIDInv ==
    \A n \in Node : state[n] = "follower" /\ leaderID[n] # None
                       => HasQuorum(leaderID[n], currentTerm[n])

ReplicationInv == SenderInv /\ ApplierInv /\ LeaderIDInv

-----------------------------------------------------------------------------
(***************************************************************************)
(* What is in the logs.                                                    *)
(***************************************************************************)
\* An entry is linked to the term of the one before it.
Link(i, before, e) == [index |-> i, before |-> before, entry |-> e]

LinksOf(lg) == {Link(i, TermAt(lg, i - 1), lg[i]) : i \in DOMAIN lg}

\* A request carries the links of a part of a log.
TermBefore(m, i) == IF i = 1 THEN m.prevLogTerm ELSE m.entries[i - 1].term

RequestLinks(m) ==
    {Link(m.prevLogIndex + i, TermBefore(m, i), m.entries[i]) : i \in DOMAIN m.entries}

Requests == {m \in msgs : m.type = "AppendReq"}
               \cup (UNION {{c.req : c \in {d \in pend[n] : d.pc = "log"}} : n \in Node})

Links == (UNION {LinksOf(log[n]) : n \in Node}) \cup (UNION {RequestLinks(m) : m \in Requests})

\* A request that waits for logMu waits at a follower of its term.
WaiterInv ==
    \A n \in Node : \A c \in pend[n] :
        c.pc = "log" => state[n] = "follower" /\ currentTerm[n] = c.req.term

\* Whoever made an entry has led, and leads or has left the term.
MadeBy(c, t) == /\ HasQuorum(c, t)
                /\ currentTerm[c] >= t
                /\ currentTerm[c] = t => state[c] = "leader"

MadeInv == \A k \in Links : \E c \in Node : MadeBy(c, k.entry.term)

\* The dummy entry 0 has term 0.
DummyInv == \A m \in Requests : m.prevLogIndex = 0 => m.prevLogTerm = 0

LinksUnique ==
    \A k, l \in Links : k.index = l.index /\ k.entry.term = l.entry.term => k = l

\* A leader holds all entries of its term.
LeaderHolds ==
    \A n \in Node : state[n] = "leader" =>
        \A k \in Links : k.entry.term = currentTerm[n] => k \in LinksOf(log[n])

LinkInv == WaiterInv /\ MadeInv /\ DummyInv /\ LinksUnique /\ LeaderHolds

-----------------------------------------------------------------------------
(***************************************************************************)
(* The kinds of steps.                                                     *)
(***************************************************************************)
\* No request is sent, and nothing new waits to send or to reach a log.
NoRequest ==
    /\ \A m \in msgs' : m.type = "AppendReq" => m \in msgs
    /\ \A n \in Node : \A c \in pend'[n] :
          c \in pend[n] \/ c.pc \in {"elect", "lead", "signal", "commit"}
    /\ ballots \subseteq ballots'

\* Roles, terms and logs stay.
Quiet ==
    /\ NoRequest
    /\ UNCHANGED <<state, currentTerm, leaderID, log>>

\* A node enters a newer term, of no leader it knows, or as a candidate.
NewTerm(n) ==
    /\ NoRequest /\ Idle
    /\ \E t \in Term, s \in {"follower", "candidate"} :
          /\ t > currentTerm[n]
          /\ state' = [state EXCEPT ![n] = s]
          /\ currentTerm' = [currentTerm EXCEPT ![n] = t]
          /\ s = "follower" => leaderID' = [leaderID EXCEPT ![n] = None]
          /\ s = "candidate" => leaderID' = leaderID
    /\ UNCHANGED log

\* becomeLeader goes through.
Lead(n) ==
    /\ state[n] # "leader" /\ HasQuorum(n, currentTerm[n])
    /\ state' = [state EXCEPT ![n] = "leader"]
    /\ leaderID' = [leaderID EXCEPT ![n] = n]
    /\ \A k \in Node : \A c \in pend'[k] :
          c \in pend[k] \/ (k = n /\ c.pc = "send" /\ c.term = currentTerm[n])
    /\ UNCHANGED <<currentTerm, log, msgs, ballots>>

\* Goroutines of a leader: a command, and sends in its term.
Start(n) ==
    /\ \A k \in Node : \A c \in pend'[k] :
          c \in pend[k] \/ (k = n /\ c.pc \in {"send", "append"} /\ c.term = currentTerm[n])
    /\ UNCHANGED <<state, currentTerm, leaderID, log, msgs, ballots>>

\* A request is sent.
Send(n) ==
    /\ \E c \in pend[n] : c.pc = "send" /\ c.peer \in Peers(n) /\ c.term \in Term
          /\ LET r == AppendReq(n, c.peer, c.term, nextIndex[n][c.peer] - 1, log[n], commitIndex[n])
             IN  \A m \in msgs' : m \in msgs \/ m = r
    /\ \A k \in Node : pend'[k] \subseteq pend[k]
    /\ UNCHANGED <<state, currentTerm, leaderID, log, ballots>>

\* A request of this term or a newer one is accepted.
Accept(n, m) ==
    /\ Idle
    /\ m \in msgs /\ m.type = "AppendReq" /\ m.to = n /\ m.term >= currentTerm[n]
    /\ currentTerm' = [currentTerm EXCEPT ![n] = m.term]
    /\ state' = [state EXCEPT ![n] = "follower"]
    /\ leaderID' = [leaderID EXCEPT ![n] = m.from]
    /\ \A k \in Node : \A c \in pend'[k] : c \in pend[k] \/ (k = n /\ c = LogCont(m))
    /\ msgs' \subseteq msgs
    /\ UNCHANGED <<log, ballots>>

\* Its entries are merged.
Merge(n, m) ==
    /\ NoRequest
    /\ LogCont(m) \in pend[n]
    /\ m.prevLogIndex = 0 \/ (/\ m.prevLogIndex \in DOMAIN log[n]
                              /\ log[n][m.prevLogIndex].term = m.prevLogTerm)
    /\ log' = [log EXCEPT ![n] = MergeEntries(log[n], m.prevLogIndex, m.entries)]
    /\ UNCHANGED <<state, currentTerm, leaderID>>

\* A command reaches the leader's log.
Extend(n) ==
    /\ \E c \in pend[n], v \in Command :
          /\ c.pc = "append" /\ c.term \in Term
          /\ log' = [log EXCEPT ![n] = Append(log[n], [term |-> c.term, cmd |-> v])]
    /\ \A k \in Node : \A c \in pend'[k] :
          c \in pend[k] \/ (k = n /\ c.pc = "broadcast" /\ \E d \in pend[n] : d.pc = "append")
    /\ UNCHANGED <<state, currentTerm, leaderID, msgs, ballots>>

\* What there is of messages and goroutines.
LEMMA StepTypes ==
    ASSUME TypeInv
    PROVE  /\ DOMAIN pend = Node
           /\ state \in [Node -> {"follower", "candidate", "leader"}]
           /\ currentTerm \in [Node -> Term] /\ leaderID \in [Node -> Node \cup {None}]
           /\ log \in [Node -> Seq(Entry)]
           /\ Term \subseteq Nat
           /\ \A m \in msgs : /\ m.from \in Node /\ m.to \in Node /\ m.term \in Term /\ m.from # m.to
                              /\ m.type = "AppendReq" => m \in AppendReqs
           /\ \A n \in Node : \A c \in pend[n] :
                 c.pc = "log" => c.req \in AppendReqs /\ c.req.to = n /\ c.req.from # n
<1>1. \A m \in msgs : /\ m.from \in Node /\ m.to \in Node /\ m.term \in Term /\ m.from # m.to
                      /\ m.type = "AppendReq" => m \in AppendReqs
  BY DEF TypeInv, MessageTypes, VoteReqs, VoteResps, AppendReqs, AppendResps
<1>2. Term \subseteq Nat
  BY BoundsAssumption DEF Term
<1> QED
  BY <1>1, <1>2 DEF TypeInv, ServerTypes, LogTypes, PendTypes, ContTyped

\* What waits for a lock is as the votes say.
LEMMA ContsHold ==
    ASSUME VoteInv, NEW n \in Node, NEW c \in pend[n]
    PROVE  ContOK(n, c)
BY DEF VoteInv, PendInv

\* Elections.
LEMMA ElectionKinds ==
    ASSUME TypeInv, VoteInv, NEW n \in Node,
           StartElection(n) \/ (\E t \in Term : RequestVotes(n, t) \/ BecomeLeader(n, t))
    PROVE  Quiet \/ NewTerm(n) \/ Lead(n)
<1>t. /\ DOMAIN pend = Node /\ Term \subseteq Nat /\ currentTerm \in [Node -> Term]
      /\ state \in [Node -> {"follower", "candidate", "leader"}]
      /\ \A x \in msgs : x.to \in Node /\ x.term \in Term
  BY StepTypes
<1> USE <1>t
<1>1. CASE StartElection(n)
  <2> DEFINE t == currentTerm[n] + 1
  <2>1. t \in Term /\ t > currentTerm[n]
    BY <1>1, BoundsAssumption DEF StartElection, Term
  <2>2. /\ Idle /\ state' = [state EXCEPT ![n] = "candidate"]
        /\ currentTerm' = [currentTerm EXCEPT ![n] = t] /\ leaderID' = leaderID
        /\ UNCHANGED log
    BY <1>1 DEF StartElection, Free, logVars
  <2>3. NoRequest
    BY <1>1 DEF StartElection, NoRequest, ElectCont
  <2> HIDE DEF t
  <2> QED
    BY <2>1, <2>2, <2>3 DEF NewTerm
<1>2. ASSUME NEW t \in Term, RequestVotes(n, t) PROVE Quiet
  <2>1. \A m \in msgs' : m.type = "AppendReq" => m \in msgs
    BY <1>2 DEF RequestVotes, VoteReq
  <2>2. \A k \in Node : \A c \in pend'[k] : c \in pend[k] \/ c = LeadCont(t)
    BY <1>2 DEF RequestVotes
  <2>3. LeadCont(t).pc = "lead"
    BY DEF LeadCont
  <2>4. UNCHANGED <<state, currentTerm, leaderID, log, ballots>>
    BY <1>2 DEF RequestVotes, serverVars, logVars
  <2> QED
    BY <2>1, <2>2, <2>3, <2>4 DEF Quiet, NoRequest
<1>3. ASSUME NEW t \in Term, BecomeLeader(n, t) PROVE Quiet \/ Lead(n)
  <2>0. LeadCont(t) \in pend[n] /\ UNCHANGED <<currentTerm, log, msgs, ballots>>
    BY <1>3 DEF BecomeLeader, logVars
  <2>1. CASE ~MayLead(n, t)
    <3>1. pend' = [pend EXCEPT ![n] = @ \ {LeadCont(t)}] /\ UNCHANGED <<state, leaderID>>
      BY <1>3, <2>1 DEF BecomeLeader
    <3>2. \A k \in Node : pend'[k] \subseteq pend[k]
      BY <3>1
    <3> QED
      BY <2>0, <3>1, <3>2 DEF Quiet, NoRequest
  <2>2. CASE MayLead(n, t)
    <3>1. currentTerm[n] = t /\ state[n] # "leader"
      BY <2>2 DEF MayLead
    <3>2. HasQuorum(n, t)
      <4>1. LeadCont(t).pc = "lead" /\ LeadCont(t).term = t
        BY DEF LeadCont
      <4> QED
        BY <2>0, <4>1, ContsHold DEF ContOK
    <3>3. \A c \in SendConts(n, t) : c.pc = "send" /\ c.term = t
      BY DEF SendConts, SendCont
    <3>4. /\ pend' = [pend EXCEPT ![n] = (@ \ {LeadCont(t)}) \cup SendConts(n, t)]
          /\ state' = [state EXCEPT ![n] = "leader"] /\ leaderID' = [leaderID EXCEPT ![n] = n]
      BY <1>3, <2>2 DEF BecomeLeader
    <3>5. \A k \in Node : \A c \in pend'[k] : c \in pend[k] \/ (k = n /\ c \in SendConts(n, t))
      BY <3>4
    <3> QED
      BY <2>0, <3>1, <3>2, <3>3, <3>4, <3>5 DEF Lead
  <2> QED
    BY <2>1, <2>2
<1> QED
  BY <1>1, <1>2, <1>3

\* Votes and replies.
LEMMA ReplyKinds ==
    ASSUME TypeInv, VoteInv, NEW m \in msgs,
           \/ HandleVoteRequest(m.to, m) \/ RequestVoteFromPeer(m.to, m)
           \/ HandleAppendEntriesResponse(m.to, m) \/ LoseMessage(m)
    PROVE  Quiet \/ NewTerm(m.to)
<1>t. /\ DOMAIN pend = Node /\ Term \subseteq Nat /\ currentTerm \in [Node -> Term]
      /\ state \in [Node -> {"follower", "candidate", "leader"}]
      /\ \A x \in msgs : x.to \in Node /\ x.term \in Term
  BY StepTypes
<1> USE <1>t
<1> DEFINE n == m.to
<1>0. n \in Node /\ m.term \in Term
  OBVIOUS
<1>1. CASE HandleVoteRequest(n, m)
  <2>1. \A x \in msgs' : x.type = "AppendReq" => x \in msgs
    BY <1>1 DEF HandleVoteRequest, Reply, VoteResp
  <2>2. NoRequest
    BY <1>1, <2>1 DEF HandleVoteRequest, NoRequest
  <2>3. CASE m.term > currentTerm[n]
    BY <1>0, <1>1, <2>2, <2>3 DEF HandleVoteRequest, NewTerm, logVars
  <2>4. CASE ~(m.term > currentTerm[n])
    BY <1>1, <2>2, <2>4 DEF HandleVoteRequest, Quiet, logVars
  <2> QED
    BY <2>3, <2>4
<1>2. ASSUME NoRequest, Idle, m.term > currentTerm[n], StepDown(n, m.term), UNCHANGED log PROVE NewTerm(n)
  BY <1>0, <1>2 DEF StepDown, NewTerm
<1>3. CASE RequestVoteFromPeer(n, m)
  <2>0. LeadCont(m.waiter.term).pc = "lead"
    BY DEF LeadCont
  <2>1. NoRequest
    <3>1. msgs' = msgs \ {m} /\ ballots' = ballots
      BY <1>3 DEF RequestVoteFromPeer
    <3>2. pend' = pend \/ pend' = [pend EXCEPT ![n] = @ \cup {LeadCont(m.waiter.term)}]
      BY <1>3 DEF RequestVoteFromPeer
    <3>3. ASSUME NEW k \in Node, NEW c \in pend'[k] PROVE c \in pend[k] \/ c = LeadCont(m.waiter.term)
      BY <1>0, <3>2, <3>3
    <3> QED
      BY <2>0, <3>1, <3>3 DEF NoRequest
  <2>2. \/ m.term > currentTerm[n] /\ StepDown(n, m.term)
        \/ UNCHANGED serverVars
    BY <1>3 DEF RequestVoteFromPeer
  <2>3. Idle /\ UNCHANGED log
    BY <1>3 DEF RequestVoteFromPeer, logVars
  <2> QED
    BY <1>2, <2>1, <2>2, <2>3 DEF Quiet, serverVars
<1>4. CASE HandleAppendEntriesResponse(n, m)
  <2>1. NoRequest
    <3>0. SignalCont.pc = "signal"
      BY DEF SignalCont
    <3>1. msgs' = msgs \ {m} /\ ballots' = ballots
      BY <1>4 DEF HandleAppendEntriesResponse
    <3>2. pend' = pend \/ pend' = [pend EXCEPT ![n] = @ \cup {SignalCont}]
      BY <1>4 DEF HandleAppendEntriesResponse
    <3>3. ASSUME NEW k \in Node, NEW c \in pend'[k] PROVE c \in pend[k] \/ c = SignalCont
      BY <1>0, <3>2, <3>3
    <3> QED
      BY <3>0, <3>1, <3>3 DEF NoRequest
  <2>2. \/ m.term > currentTerm[n] /\ StepDown(n, m.term)
        \/ UNCHANGED serverVars
    BY <1>4 DEF HandleAppendEntriesResponse
  <2>3. Idle /\ UNCHANGED log
    BY <1>4 DEF HandleAppendEntriesResponse, logVars
  <2> QED
    BY <1>2, <2>1, <2>2, <2>3 DEF Quiet, serverVars
<1>5. CASE LoseMessage(m)
  BY <1>5 DEF LoseMessage, Quiet, NoRequest, serverVars, logVars
<1> QED
  BY <1>1, <1>3, <1>4, <1>5

\* Requests.
LEMMA RequestKinds ==
    ASSUME TypeInv, NEW m \in msgs, HandleAppendEntries(m.to, m)
    PROVE  Quiet \/ Accept(m.to, m)
<1>t. /\ DOMAIN pend = Node /\ Term \subseteq Nat /\ currentTerm \in [Node -> Term]
      /\ state \in [Node -> {"follower", "candidate", "leader"}]
      /\ \A x \in msgs : x.to \in Node /\ x.term \in Term
  BY StepTypes
<1> USE <1>t
<1> DEFINE n == m.to
<1>1. n \in Node /\ Idle /\ m.type = "AppendReq" /\ UNCHANGED <<log, ballots>>
  BY DEF HandleAppendEntries, Free, logVars
<1>2. CASE /\ Reply(m, AppendResp(m, currentTerm[n], FALSE, 0, 0))
           /\ UNCHANGED <<serverVars, pend>>
  <2>1. \A x \in msgs' : x.type = "AppendReq" => x \in msgs
    BY <1>2 DEF Reply, AppendResp
  <2> QED
    BY <1>1, <1>2, <2>1 DEF Quiet, NoRequest, serverVars
<1>3. CASE /\ m.term >= currentTerm[n]
           /\ currentTerm' = [currentTerm EXCEPT ![n] = m.term]
           /\ state' = [state EXCEPT ![n] = "follower"]
           /\ leaderID' = [leaderID EXCEPT ![n] = m.from]
           /\ pend' = [pend EXCEPT ![n] = @ \cup {LogCont(m)}]
           /\ msgs' = msgs \ {m}
  BY <1>1, <1>3 DEF Accept
<1> QED
  BY <1>2, <1>3 DEF HandleAppendEntries

\* The log of a follower.
LEMMA MergeKinds ==
    ASSUME TypeInv, NEW n \in Node, NEW c \in pend[n], c.pc = "log", AppendEntriesToLog(n, c.req)
    PROVE  Quiet \/ Merge(n, c.req)
<1>t. /\ DOMAIN pend = Node /\ Term \subseteq Nat /\ currentTerm \in [Node -> Term]
      /\ state \in [Node -> {"follower", "candidate", "leader"}]
      /\ \A x \in msgs : x.to \in Node /\ x.term \in Term
  BY StepTypes
<1> USE <1>t
<1> DEFINE m == c.req
           last == m.prevLogIndex + Len(m.entries)
           first == FirstOfTerm(log[n], m.prevLogIndex)
           len == Len(log[n]) + 1
<1>1. /\ LogCont(m) \in pend[n] /\ \A k \in Node : pend'[k] \subseteq pend[k]
      /\ UNCHANGED <<state, currentTerm, leaderID, ballots>>
  BY DEF AppendEntriesToLog, serverVars
<1>2. \A b, i, j : AppendResp(m, m.term, b, i, j).type = "AppendResp"
  BY DEF AppendResp
<1>3. \/ msgs' = msgs \cup {AppendResp(m, m.term, FALSE, 0, len)} /\ UNCHANGED log
      \/ msgs' = msgs \cup {AppendResp(m, m.term, FALSE, 0, first)} /\ UNCHANGED log
      \/ /\ msgs' = msgs \cup {AppendResp(m, m.term, TRUE, last, 0)}
         /\ m.prevLogIndex = 0 \/ (/\ m.prevLogIndex \in DOMAIN log[n]
                                   /\ log[n][m.prevLogIndex].term = m.prevLogTerm)
         /\ log' = [log EXCEPT ![n] = MergeEntries(log[n], m.prevLogIndex, m.entries)]
  BY DEF AppendEntriesToLog, logVars
<1> HIDE DEF last, first, len
<1>4. \A x \in msgs' : x.type = "AppendReq" => x \in msgs
  <2> DEFINE R(b, i, j) == AppendResp(m, m.term, b, i, j)
  <2>1. \/ msgs' = msgs \cup {R(FALSE, 0, len)}
        \/ msgs' = msgs \cup {R(FALSE, 0, first)}
        \/ msgs' = msgs \cup {R(TRUE, last, 0)}
    BY <1>3
  <2>2. /\ R(FALSE, 0, len).type = "AppendResp" /\ R(FALSE, 0, first).type = "AppendResp"
        /\ R(TRUE, last, 0).type = "AppendResp"
    BY <1>2
  <2> HIDE DEF R
  <2> QED
    BY <2>1, <2>2
<1>5. NoRequest
  BY <1>1, <1>4 DEF NoRequest
<1> QED
  BY <1>1, <1>3, <1>5 DEF Quiet, Merge

\* The leader's goroutines.
LEMMA LeaderKinds ==
    ASSUME TypeInv, NEW n \in Node,
           \/ \E p \in Node : Heartbeat(n, p)
           \/ \E v \in Command : ProcessApply(n, v)
           \/ BroadcastAppend(n)
    PROVE  /\ Start(n)
           /\ state[n] = "leader" \/ \E c \in pend[n] : c.pc = "broadcast"
           /\ (\A c \in pend[n] : c.pc # "broadcast") => Idle
<1>t. /\ DOMAIN pend = Node /\ Term \subseteq Nat /\ currentTerm \in [Node -> Term]
      /\ state \in [Node -> {"follower", "candidate", "leader"}]
      /\ \A x \in msgs : x.to \in Node /\ x.term \in Term
  BY StepTypes
<1> USE <1>t
<1>1. ASSUME NEW p \in Node, Heartbeat(n, p) PROVE Start(n) /\ state[n] = "leader" /\ Idle
  BY <1>1 DEF Heartbeat, Start, SendCont, Free, serverVars, logVars
<1>2. ASSUME NEW v \in Command, ProcessApply(n, v) PROVE Start(n) /\ state[n] = "leader" /\ Idle
  BY <1>2 DEF ProcessApply, Start, AppendCont, Free, serverVars, logVars
<1>3. ASSUME BroadcastAppend(n) PROVE Start(n) /\ \E c \in pend[n] : c.pc = "broadcast"
  <2>1. \A c \in SendConts(n, currentTerm[n]) : c.pc = "send" /\ c.term = currentTerm[n]
    BY DEF SendConts, SendCont
  <2>2. BroadcastCont.pc = "broadcast"
    BY DEF BroadcastCont
  <2> QED
    BY <1>3, <2>1, <2>2 DEF BroadcastAppend, Start, serverVars, logVars
<1> QED
  BY <1>1, <1>2, <1>3

\* What is sent and appended.
LEMMA SendKinds ==
    ASSUME TypeInv, NEW n \in Node,
           \/ \E p \in Node, t \in Term : ReplicateLogToPeer(n, p, t)
           \/ \E t \in Term, v \in Command : AppendToLog(n, t, v)
    PROVE  Send(n) \/ Extend(n)
<1>t. /\ DOMAIN pend = Node /\ Term \subseteq Nat /\ currentTerm \in [Node -> Term]
      /\ state \in [Node -> {"follower", "candidate", "leader"}]
      /\ \A x \in msgs : x.to \in Node /\ x.term \in Term
  BY StepTypes
<1> USE <1>t
<1>1. ASSUME NEW p \in Node, NEW t \in Term, ReplicateLogToPeer(n, p, t) PROVE Send(n)
  <2> DEFINE c == SendCont(p, t)
             r == AppendReq(n, p, t, nextIndex[n][p] - 1, log[n], commitIndex[n])
  <2>1. c \in pend[n] /\ c.pc = "send" /\ c.term = t /\ c.peer = p
    BY <1>1 DEF ReplicateLogToPeer, SendCont
  <2>2. c.peer \in Peers(n)
    BY <2>1 DEF TypeInv, PendTypes, ContTyped
  <2>3. /\ \A m \in msgs' : m \in msgs \/ m = r
        /\ \A k \in Node : pend'[k] \subseteq pend[k]
        /\ UNCHANGED <<state, currentTerm, leaderID, log, ballots>>
    BY <1>1 DEF ReplicateLogToPeer, serverVars, logVars
  <2> HIDE DEF c
  <2> QED
    BY <2>1, <2>2, <2>3 DEF Send
<1>2. ASSUME NEW t \in Term, NEW v \in Command, AppendToLog(n, t, v) PROVE Extend(n)
  <2> DEFINE c == AppendCont(t, v)
  <2>1. c \in pend[n] /\ c.pc = "append" /\ c.term = t
    BY <1>2 DEF AppendToLog, AppendCont
  <2>2. BroadcastCont.pc = "broadcast"
    BY DEF BroadcastCont
  <2>3. /\ log' = [log EXCEPT ![n] = Append(log[n], [term |-> t, cmd |-> v])]
        /\ UNCHANGED <<state, currentTerm, leaderID, msgs, ballots>>
        /\ \A k \in Node : \A d \in pend'[k] : d \in pend[k] \/ (k = n /\ d = BroadcastCont)
    BY <1>2 DEF AppendToLog, serverVars
  <2> HIDE DEF c
  <2> QED
    BY <2>1, <2>2, <2>3 DEF Extend
<1> QED
  BY <1>1, <1>2

\* The commit loop.
LEMMA CommitKinds ==
    ASSUME TypeInv, NEW n \in Node, AdvanceCommitRead(n) \/ \E t \in Term : AdvanceCommitIndex(n, t)
    PROVE  Quiet
<1>t. /\ DOMAIN pend = Node /\ Term \subseteq Nat /\ currentTerm \in [Node -> Term]
      /\ state \in [Node -> {"follower", "candidate", "leader"}]
      /\ \A x \in msgs : x.to \in Node /\ x.term \in Term
  BY StepTypes
<1> USE <1>t
<1>1. CASE AdvanceCommitRead(n)
  BY <1>1 DEF AdvanceCommitRead, Quiet, NoRequest, CommitCont, serverVars, logVars
<1>2. CASE \E t \in Term : AdvanceCommitIndex(n, t)
  BY <1>2 DEF AdvanceCommitIndex, Quiet, NoRequest, serverVars
<1> QED
  BY <1>1, <1>2

\* A goroutine or a timer of a leader.
StartStep(n) ==
    /\ Start(n)
    /\ state[n] = "leader" \/ \E c \in pend[n] : c.pc = "broadcast"
    /\ (\A c \in pend[n] : c.pc # "broadcast") => Idle

\* Every step is one of these.
LEMMA StepKinds ==
    ASSUME TypeInv, VoteInv, [Next]_vars, "mux" \notin Hazards, "restart" \notin Hazards
    PROVE  \/ Quiet
           \/ \E n \in Node : NewTerm(n) \/ Lead(n) \/ StartStep(n) \/ Send(n) \/ Extend(n)
           \/ \E n \in Node : \E m \in msgs : Accept(n, m)
           \/ \E n \in Node : \E c \in pend[n] : c.pc = "log" /\ Merge(n, c.req)
<1>1. CASE UNCHANGED vars
  BY <1>1 DEF vars, Quiet, NoRequest, serverVars, logVars
<1>2. ASSUME NEW n \in Node,
             \/ StartElection(n)
             \/ \E p \in Node : Heartbeat(n, p)
             \/ \E v \in Command : ProcessApply(n, v)
             \/ SectionStep(n)
             \/ Restart(n)
      PROVE  \/ Quiet
             \/ NewTerm(n) \/ Lead(n) \/ StartStep(n) \/ Send(n) \/ Extend(n)
             \/ \E c \in pend[n] : c.pc = "log" /\ Merge(n, c.req)
  BY <1>2, ElectionKinds, LeaderKinds, SendKinds, CommitKinds, MergeKinds
     DEF SectionStep, Restart, StartStep
<1>3. ASSUME NEW m \in msgs,
             \/ HandleVoteRequest(m.to, m)
             \/ RequestVoteFromPeer(m.to, m)
             \/ HandleAppendEntries(m.to, m)
             \/ HandleAppendEntriesResponse(m.to, m)
             \/ LoseMessage(m)
      PROVE  Quiet \/ NewTerm(m.to) \/ Accept(m.to, m)
  BY <1>3, ReplyKinds, RequestKinds
<1>4. \A m \in msgs : m.to \in Node
  BY StepTypes
<1>5. CASE \E m1, m2 \in msgs : CrossReplies(m1, m2)
  BY <1>5 DEF CrossReplies
<1> QED
  BY <1>1, <1>2, <1>3, <1>4, <1>5 DEF Next

-----------------------------------------------------------------------------
(***************************************************************************)
(* Who replicates, as long as nothing comes between the leader's check of  *)
(* its role, its append and its broadcast.                                 *)
(***************************************************************************)
\* A step that starts a handler overtakes none of the sections that may not be.
LEMMA IdleConts ==
    ASSUME Idle, NEW n \in Node, NEW c \in pend[n], c.pc \notin Hazards
    PROVE  FALSE
BY DEF Idle

\* Nothing is in flight at first.
LEMMA InitReplicationInv == Init => ReplicationInv
<1> SUFFICES ASSUME Init PROVE ReplicationInv
  OBVIOUS
<1>1. SenderInv /\ ApplierInv
  BY DEF Init, SenderInv, ApplierInv
<1>2. LeaderIDInv
  BY DEF Init, LeaderIDInv
<1> QED
  BY <1>1, <1>2 DEF ReplicationInv

\* Goroutines that only wait, and messages in flight, stay true.
LEMMA SenderKept ==
    ASSUME ReplicationInv, ballots \subseteq ballots',
           \A m \in msgs' : m.type = "AppendReq" => m \in msgs \/ HasQuorum(m.from, m.term),
           \A n \in Node : \A c \in pend'[n] :
               \/ c \in pend[n]
               \/ c.pc \notin {"send", "log"}
               \/ c.pc = "send" /\ HasQuorum(n, c.term)
               \/ c.pc = "log" /\ HasQuorum(c.req.from, c.req.term)
    PROVE  SenderInv'
<1>1. \A c, t : HasQuorum(c, t) => HasQuorum(c, t)'
  BY BallotsGrow
<1> QED
  BY <1>1 DEF ReplicationInv, SenderInv

\* The steps that leave roles and terms alone.
LEMMA SameRoles ==
    ASSUME ReplicationInv, ballots \subseteq ballots', UNCHANGED <<state, currentTerm, leaderID>>,
           \A n \in Node : \A c \in pend'[n] :
               \/ c \in pend[n]
               \/ c.pc \notin {"append", "broadcast"}
               \/ /\ state[n] = "leader"
                  /\ c.pc = "append" => currentTerm[n] = c.term
    PROVE  ApplierInv' /\ LeaderIDInv'
<1>1. \A c, t : HasQuorum(c, t) => HasQuorum(c, t)'
  BY BallotsGrow
<1>2. ApplierInv'
  BY DEF ReplicationInv, ApplierInv
<1>3. LeaderIDInv'
  BY <1>1 DEF ReplicationInv, LeaderIDInv
<1> QED
  BY <1>2, <1>3

\* The steps that replicate.
LEMMA ReplicationSteps ==
    ASSUME TypeInv, VoteInv, ReplicationInv, NEW n \in Node,
           Quiet \/ StartStep(n) \/ Send(n) \/ Extend(n) \/ \E c \in pend[n] : c.pc = "log" /\ Merge(n, c.req)
    PROVE  ReplicationInv'
<1>1. CASE Quiet \/ \E c \in pend[n] : c.pc = "log" /\ Merge(n, c.req)
  <2>1. NoRequest /\ UNCHANGED <<state, currentTerm, leaderID>>
    BY <1>1 DEF Quiet, Merge
  <2>2. SenderInv'
    BY <2>1, SenderKept DEF NoRequest
  <2>3. ApplierInv' /\ LeaderIDInv'
    BY <2>1, SameRoles DEF NoRequest
  <2> QED
    BY <2>2, <2>3 DEF ReplicationInv
<1>2. CASE StartStep(n)
  <2>1. state[n] = "leader"
    BY <1>2 DEF StartStep, ReplicationInv, ApplierInv
  <2>2. HasQuorum(n, currentTerm[n])
    BY <2>1 DEF VoteInv, LeaderInv
  <2>3. /\ \A k \in Node : \A c \in pend'[k] :
              c \in pend[k] \/ (k = n /\ c.pc \in {"send", "append"} /\ c.term = currentTerm[n])
        /\ UNCHANGED <<state, currentTerm, leaderID, msgs, ballots>>
    BY <1>2 DEF StartStep, Start
  <2>4. SenderInv'
    BY <2>2, <2>3, SenderKept
  <2>5. ApplierInv' /\ LeaderIDInv'
    BY <2>1, <2>3, SameRoles
  <2> QED
    BY <2>4, <2>5 DEF ReplicationInv
<1>3. CASE Send(n)
  <2>1. PICK c \in pend[n] : c.pc = "send"
          /\ \A m \in msgs' :
                m \in msgs \/ m = AppendReq(n, c.peer, c.term, nextIndex[n][c.peer] - 1, log[n], commitIndex[n])
    BY <1>3 DEF Send
  <2>2. HasQuorum(n, c.term)
    BY <2>1 DEF ReplicationInv, SenderInv
  <2>3. \A m \in msgs' : m \in msgs \/ HasQuorum(m.from, m.term)
    BY <2>1, <2>2 DEF AppendReq
  <2>4. (\A k \in Node : pend'[k] \subseteq pend[k]) /\ UNCHANGED <<state, currentTerm, leaderID, ballots>>
    BY <1>3 DEF Send
  <2>5. SenderInv'
    BY <2>3, <2>4, SenderKept
  <2>6. ApplierInv' /\ LeaderIDInv'
    BY <2>4, SameRoles
  <2> QED
    BY <2>5, <2>6 DEF ReplicationInv
<1>4. CASE Extend(n)
  <2>1. \A k \in Node : \A c \in pend'[k] :
          c \in pend[k] \/ (k = n /\ c.pc = "broadcast" /\ \E d \in pend[n] : d.pc = "append")
    BY <1>4 DEF Extend
  <2>2. UNCHANGED <<state, currentTerm, leaderID, msgs, ballots>>
    BY <1>4 DEF Extend
  <2>3. (\E d \in pend[n] : d.pc = "append") => state[n] = "leader"
    BY DEF ReplicationInv, ApplierInv
  <2>4. SenderInv'
    BY <2>1, <2>2, SenderKept
  <2>5. ApplierInv' /\ LeaderIDInv'
    BY <2>1, <2>2, <2>3, SameRoles
  <2> QED
    BY <2>4, <2>5 DEF ReplicationInv
<1> QED
  BY <1>1, <1>2, <1>3, <1>4

\* A node enters a newer term.
LEMMA NewTermReplication ==
    ASSUME TypeInv, ReplicationInv, NEW n \in Node, NewTerm(n), Hazards \cap {"append", "broadcast"} = {}
    PROVE  ReplicationInv'
<1>1. NoRequest /\ Idle
  BY DEF NewTerm
<1>2. SenderInv'
  BY <1>1, SenderKept DEF NoRequest
<1>3. ApplierInv'
  BY <1>1, IdleConts DEF NoRequest, ApplierInv
<1>4. LeaderIDInv'
  <2>1. PICK t \in Term, s \in {"follower", "candidate"} :
          /\ state' = [state EXCEPT ![n] = s]
          /\ currentTerm' = [currentTerm EXCEPT ![n] = t]
          /\ s = "follower" => leaderID' = [leaderID EXCEPT ![n] = None]
          /\ s = "candidate" => leaderID' = leaderID
    BY DEF NewTerm
  <2>2. \A c, u : HasQuorum(c, u) => HasQuorum(c, u)'
    BY <1>1, BallotsGrow DEF NoRequest
  <2> SUFFICES ASSUME NEW k \in Node, state'[k] = "follower", leaderID'[k] # None
               PROVE  HasQuorum(leaderID[k], currentTerm[k])'
    BY DEF LeaderIDInv
  <2>3. k # n
    BY <2>1, StepTypes
  <2>4. state[k] = "follower" /\ leaderID'[k] = leaderID[k] /\ currentTerm'[k] = currentTerm[k]
    BY <2>1, <2>3, StepTypes
  <2> QED
    BY <2>2, <2>4 DEF ReplicationInv, LeaderIDInv
<1> QED
  BY <1>2, <1>3, <1>4 DEF ReplicationInv

\* A candidate becomes the leader.
LEMMA LeadReplication ==
    ASSUME TypeInv, ReplicationInv, NEW n \in Node, Lead(n)
    PROVE  ReplicationInv'
<1>1. /\ state[n] # "leader" /\ HasQuorum(n, currentTerm[n])
      /\ state' = [state EXCEPT ![n] = "leader"]
      /\ leaderID' = [leaderID EXCEPT ![n] = n]
      /\ \A k \in Node : \A c \in pend'[k] :
            c \in pend[k] \/ (k = n /\ c.pc = "send" /\ c.term = currentTerm[n])
      /\ UNCHANGED <<currentTerm, msgs, ballots>>
  BY DEF Lead
<1>2. SenderInv'
  BY <1>1, SenderKept
<1>3. /\ state'[n] = "leader"
      /\ \A k \in Node \ {n} : state'[k] = state[k] /\ leaderID'[k] = leaderID[k]
  BY <1>1, StepTypes
<1>4. ApplierInv'
  BY <1>1, <1>3 DEF ReplicationInv, ApplierInv
<1>5. LeaderIDInv'
  <2>1. \A c, u : HasQuorum(c, u) => HasQuorum(c, u)'
    BY <1>1, BallotsGrow
  <2> QED
    BY <1>1, <1>3, <2>1 DEF ReplicationInv, LeaderIDInv
<1> QED
  BY <1>2, <1>4, <1>5 DEF ReplicationInv

\* A request is accepted.
LEMMA AcceptReplication ==
    ASSUME TypeInv, ReplicationInv, NEW n \in Node, NEW m \in msgs, Accept(n, m),
           Hazards \cap {"append", "broadcast"} = {}
    PROVE  ReplicationInv'
<1>1. /\ Idle /\ m.type = "AppendReq"
      /\ currentTerm' = [currentTerm EXCEPT ![n] = m.term]
      /\ state' = [state EXCEPT ![n] = "follower"]
      /\ leaderID' = [leaderID EXCEPT ![n] = m.from]
      /\ \A k \in Node : \A c \in pend'[k] : c \in pend[k] \/ (k = n /\ c = LogCont(m))
      /\ msgs' \subseteq msgs /\ ballots' = ballots
  BY DEF Accept
<1>2. HasQuorum(m.from, m.term) /\ LogCont(m).pc = "log" /\ LogCont(m).req = m
  BY <1>1 DEF ReplicationInv, SenderInv, LogCont
<1>3. SenderInv'
  BY <1>1, <1>2, SenderKept
<1>4. ApplierInv'
  BY <1>1, <1>2, IdleConts DEF ApplierInv
<1>5. LeaderIDInv'
  <2>1. \A c, u : HasQuorum(c, u) => HasQuorum(c, u)'
    BY <1>1, BallotsGrow
  <2>2. /\ leaderID'[n] = m.from /\ currentTerm'[n] = m.term
        /\ \A k \in Node \ {n} : /\ state'[k] = state[k] /\ leaderID'[k] = leaderID[k]
                                 /\ currentTerm'[k] = currentTerm[k]
    BY <1>1, StepTypes
  <2> QED
    BY <1>2, <2>1, <2>2 DEF ReplicationInv, LeaderIDInv
<1> QED
  BY <1>3, <1>4, <1>5 DEF ReplicationInv

\* Every step keeps it.
LEMMA NextReplicationInv ==
    ASSUME TypeInv, VoteInv, ReplicationInv, [Next]_vars,
           Hazards \cap {"append", "broadcast", "mux", "restart"} = {}
    PROVE  ReplicationInv'
<1>1. "mux" \notin Hazards /\ "restart" \notin Hazards /\ Hazards \cap {"append", "broadcast"} = {}
  OBVIOUS
<1>2. \E n \in Node : TRUE
  BY NodeAssumption
<1> QED
  BY <1>1, <1>2, StepKinds, ReplicationSteps, NewTermReplication, LeadReplication, AcceptReplication

\* A quorum of votes elects.
LEMMA QuorumElects ==
    ASSUME NEW n, NEW t, HasQuorum(n, t)
    PROVE  Elected(n, t)
<1>1. PICK Q \in SUBSET Node :
          /\ Cardinality(Q) >= votesNeeded
          /\ \A p \in Q : <<p, t, n>> \in ballots
  BY DEF HasQuorum
<1>2. Q \subseteq VotersOf(n, t)
  BY <1>1 DEF VotersOf
<1>3. IsFiniteSet(VotersOf(n, t))
  BY NodeAssumption, FS_Subset DEF VotersOf
<1>4. IsFiniteSet(Q) /\ Cardinality(Q) <= Cardinality(VotersOf(n, t))
  BY <1>2, <1>3, FS_Subset
<1>5. /\ Cardinality(Q) \in Nat /\ votesNeeded \in Int
      /\ Cardinality(VotersOf(n, t)) \in Nat
  BY <1>3, <1>4, NodeAssumption, FS_CardinalityType DEF votesNeeded
<1> QED
  BY <1>1, <1>4, <1>5 DEF Elected

\* Elections, requests and goroutines, in every reachable state.
LEMMA ReplicationAlways ==
    ASSUME Hazards \cap {"append", "broadcast", "mux", "restart"} = {}
    PROVE  Spec => [](TypeInv /\ VoteInv /\ ReplicationInv)
<1>1. "mux" \notin Hazards /\ "restart" \notin Hazards
  OBVIOUS
<1>2. TypeInv /\ VoteInv /\ ReplicationInv /\ [Next]_vars => ReplicationInv'
  BY NextReplicationInv
<1>3. Spec => []VoteInv
  BY <1>1, VoteInvAlways
<1>4. Spec => []TypeInv
  BY TypeInvAlways
<1> QED
  BY <1>2, <1>3, <1>4, InitReplicationInv, PTL DEF Spec

\* handleAppendEntriesRequest: the leader a follower knows, and forwards its
\* clients' writes to, was elected in the follower's term, as long as the apply
\* loop appends and broadcasts in one go; requests, sends, elections and commits
\* may overtake each other.
THEOREM FollowersKnowLeaders ==
    ASSUME Hazards \cap {"append", "broadcast", "mux", "restart"} = {}
    PROVE  Spec => []LeaderIDElected
<1>1. ReplicationInv => LeaderIDElected
  BY QuorumElects DEF ReplicationInv, LeaderIDInv, LeaderIDElected
<1> QED
  BY <1>1, ReplicationAlways, PTL

-----------------------------------------------------------------------------
(***************************************************************************)
(* Links.                                                                  *)
(***************************************************************************)
\* What a merge makes of a log: the log itself, or its part before the first
\* entry that conflicts and the request's entries from there on.
LEMMA MergeShape ==
    ASSUME NEW lg \in Seq(Entry), NEW prev \in 0 .. Len(lg), NEW es \in Seq(Entry)
    PROVE  \/ /\ MergeEntries(lg, prev, es) = lg
              /\ \A j \in 1 .. Len(es) : prev + j <= Len(lg) /\ lg[prev + j].term = es[j].term
           \/ \E k \in 1 .. Len(es) :
                 /\ prev + k - 1 <= Len(lg)
                 /\ \A j \in 1 .. k - 1 : prev + j <= Len(lg) /\ lg[prev + j].term = es[j].term
                 /\ prev + k > Len(lg) \/ lg[prev + k].term # es[k].term
                 /\ Len(MergeEntries(lg, prev, es)) = prev + Len(es)
                 /\ \A i \in 1 .. prev + k - 1 : MergeEntries(lg, prev, es)[i] = lg[i]
                 /\ \A i \in k .. Len(es) : MergeEntries(lg, prev, es)[prev + i] = es[i]
<1> DEFINE new == {i \in DOMAIN es : \/ prev + i > Len(lg)
                                     \/ lg[prev + i].term # es[i].term}
<1>0. Len(lg) \in Nat /\ Len(es) \in Nat /\ DOMAIN es = 1 .. Len(es)
  BY LenProperties
<1>1. CASE new = {}
  <2>1. ASSUME NEW j \in 1 .. Len(es) PROVE prev + j <= Len(lg) /\ lg[prev + j].term = es[j].term
    <3>1. j \notin new /\ j \in DOMAIN es
      BY <1>0, <1>1
    <3> QED
      BY <1>0, <3>1
  <2> QED
    BY <1>1, <2>1 DEF MergeEntries
<1>2. CASE new # {}
  <2> DEFINE k == Min(new)
  <2>1. k \in new /\ \A y \in new : k <= y
    <3>1. new \in SUBSET Nat
      BY <1>0
    <3> HIDE DEF new
    <3> QED
      BY <3>1, <1>2, MinOfNats
  <2>2. k \in 1 .. Len(es) /\ (prev + k > Len(lg) \/ lg[prev + k].term # es[k].term)
    BY <2>1, <1>0
  <2>3. MergeEntries(lg, prev, es) = SubSeq(lg, 1, prev + k - 1) \o SubSeq(es, k, Len(es))
    BY <1>2 DEF MergeEntries
  <2>4. ASSUME NEW j \in 1 .. k - 1 PROVE prev + j <= Len(lg) /\ lg[prev + j].term = es[j].term
    <3>1. j \notin new /\ j \in DOMAIN es
      <4> HIDE DEF new, k
      <4> QED
        BY <2>1, <2>2, <1>0
    <3> QED
      BY <3>1, <1>0
  <2> HIDE DEF k, new
  <2>5. prev + k - 1 <= Len(lg)
    <3>1. CASE k = 1
      BY <3>1, <1>0
    <3>2. CASE k > 1
      <4>1. k - 1 \in 1 .. k - 1
        BY <3>2, <2>2
      <4> QED
        BY <4>1, <2>4, <2>2, <1>0
    <3> QED
      BY <3>1, <3>2, <2>2
  <2> DEFINE a == SubSeq(lg, 1, prev + k - 1)
             b == SubSeq(es, k, Len(es))
  <2>6. /\ a \in Seq(Entry) /\ Len(a) = prev + k - 1
        /\ \A i \in 1 .. prev + k - 1 : a[i] = lg[i]
    BY <2>2, <2>5, <1>0, SubSeqProperties, ElementOfSeq
  <2>7. /\ b \in Seq(Entry) /\ Len(b) = Len(es) - k + 1
        /\ \A i \in 1 .. Len(es) - k + 1 : b[i] = es[k + i - 1]
    BY <2>2, <1>0, SubSeqProperties, ElementOfSeq
  <2> HIDE DEF a, b
  <2>8. /\ Len(a \o b) = Len(a) + Len(b)
        /\ \A i \in 1 .. Len(a) + Len(b) : (a \o b)[i] = IF i <= Len(a) THEN a[i] ELSE b[i - Len(a)]
    BY <2>6, <2>7, ConcatProperties
  <2>9. Len(a \o b) = prev + Len(es)
    BY <1>0, <2>2, <2>6, <2>7, <2>8
  <2>10. \A i \in 1 .. prev + k - 1 : (a \o b)[i] = lg[i]
    BY <1>0, <2>2, <2>6, <2>7, <2>8
  <2>11. ASSUME NEW i \in k .. Len(es) PROVE (a \o b)[prev + i] = es[i]
    <3>1. /\ prev + i \in 1 .. Len(a) + Len(b) /\ ~(prev + i <= Len(a))
          /\ prev + i - Len(a) = i - k + 1 /\ i - k + 1 \in 1 .. Len(es) - k + 1
          /\ k + (i - k + 1) - 1 = i
      BY <1>0, <2>2, <2>6, <2>7
    <3> QED
      BY <3>1, <2>7, <2>8
  <2>12. MergeEntries(lg, prev, es) = a \o b
    BY <2>3 DEF a, b
  <2> QED
    BY <2>2, <2>4, <2>5, <2>9, <2>10, <2>11, <2>12
<1> QED
  BY <1>1, <1>2

\* A merge makes no new link.
LEMMA MergeLinks ==
    ASSUME NEW lg \in Seq(Entry), NEW m \in AppendReqs,
           m.prevLogIndex = 0 => m.prevLogTerm = 0,
           \/ m.prevLogIndex = 0
           \/ m.prevLogIndex \in DOMAIN lg /\ lg[m.prevLogIndex].term = m.prevLogTerm
    PROVE  LinksOf(MergeEntries(lg, m.prevLogIndex, m.entries)) \subseteq LinksOf(lg) \cup RequestLinks(m)
<1> DEFINE prev == m.prevLogIndex
           es == m.entries
           mg == MergeEntries(lg, prev, es)
<1>0. /\ prev \in Nat /\ es \in Seq(Entry) /\ Len(es) \in Nat /\ DOMAIN es = 1 .. Len(es)
      /\ Len(lg) \in Nat /\ DOMAIN lg = 1 .. Len(lg) /\ prev \in 0 .. Len(lg)
  BY LenProperties DEF AppendReqs
<1>1. /\ mg \in Seq(Entry) /\ Len(mg) \in Nat /\ DOMAIN mg = 1 .. Len(mg)
  BY <1>0, MergeEntriesType, LenProperties
<1>2. TermAt(lg, prev) = m.prevLogTerm
  BY <1>0 DEF TermAt
<1> HIDE DEF mg, prev, es
<1>3. CASE mg = lg
  BY <1>3 DEF mg, prev, es
<1>4. ASSUME NEW k \in 1 .. Len(es),
             /\ prev + k - 1 <= Len(lg)
             /\ \A j \in 1 .. k - 1 : prev + j <= Len(lg) /\ lg[prev + j].term = es[j].term
             /\ Len(mg) = prev + Len(es)
             /\ \A i \in 1 .. prev + k - 1 : mg[i] = lg[i]
             /\ \A i \in k .. Len(es) : mg[prev + i] = es[i]
      PROVE  LinksOf(mg) \subseteq LinksOf(lg) \cup RequestLinks(m)
  <2> SUFFICES ASSUME NEW i \in 1 .. Len(mg)
               PROVE  Link(i, TermAt(mg, i - 1), mg[i]) \in LinksOf(lg) \cup RequestLinks(m)
    BY <1>1 DEF LinksOf
  <2>1. CASE i <= prev + k - 1
    <3>1. i \in DOMAIN lg /\ mg[i] = lg[i]
      BY <1>0, <1>4, <2>1
    <3>2. TermAt(mg, i - 1) = TermAt(lg, i - 1)
      <4>1. i - 1 \in DOMAIN mg <=> i - 1 \in DOMAIN lg
        BY <1>0, <1>1, <1>4, <2>1
      <4>2. i - 1 \in DOMAIN lg => mg[i - 1] = lg[i - 1]
        BY <1>0, <1>4, <2>1
      <4> QED
        BY <4>1, <4>2 DEF TermAt
    <3> QED
      BY <3>1, <3>2 DEF LinksOf
  <2>2. CASE i > prev + k - 1
    <3> DEFINE j == i - prev
    <3>1. j \in k .. Len(es) /\ prev + j = i /\ j \in DOMAIN es
      BY <1>0, <1>4, <2>2
    <3>2. mg[i] = es[j]
      BY <1>4, <3>1
    <3>3. TermAt(mg, i - 1) = TermBefore(m, j)
      <4>1. CASE j = 1
        <5>1. k = 1 /\ i - 1 = prev
          BY <1>0, <3>1, <4>1
        <5>2. TermAt(mg, prev) = TermAt(lg, prev)
          <6>1. prev \in DOMAIN mg <=> prev \in DOMAIN lg
            BY <1>0, <1>1, <1>4, <5>1
          <6>2. prev \in DOMAIN lg => mg[prev] = lg[prev]
            BY <1>0, <1>4, <5>1
          <6> QED
            BY <6>1, <6>2 DEF TermAt
        <5> QED
          BY <1>2, <4>1, <5>1, <5>2 DEF TermBefore
      <4>2. CASE j = k /\ j # 1
        <5>1. /\ k - 1 \in 1 .. k - 1 /\ i - 1 = prev + (k - 1) /\ i - 1 \in 1 .. prev + k - 1
              /\ i - 1 \in DOMAIN mg
          BY <1>0, <1>1, <3>1, <4>2
        <5>2. lg[prev + (k - 1)].term = es[k - 1].term /\ mg[i - 1] = lg[i - 1]
          BY <1>4, <5>1
        <5> QED
          BY <4>2, <5>1, <5>2 DEF TermAt, TermBefore, es
      <4>3. CASE j > k
        <5>1. j - 1 \in k .. Len(es) /\ i - 1 = prev + (j - 1) /\ i - 1 \in DOMAIN mg /\ j # 1
          BY <1>0, <1>1, <3>1, <4>3
        <5>2. mg[i - 1] = es[j - 1]
          BY <1>4, <5>1
        <5> QED
          BY <5>1, <5>2 DEF TermAt, TermBefore, es
      <4> QED
        BY <3>1, <4>1, <4>2, <4>3
    <3> QED
      BY <3>1, <3>2, <3>3 DEF RequestLinks, prev, es
  <2> QED
    BY <1>0, <1>1, <2>1, <2>2
<1>5. \/ /\ mg = lg
         /\ \A j \in 1 .. Len(es) : prev + j <= Len(lg) /\ lg[prev + j].term = es[j].term
      \/ \E k \in 1 .. Len(es) :
            /\ prev + k - 1 <= Len(lg)
            /\ \A j \in 1 .. k - 1 : prev + j <= Len(lg) /\ lg[prev + j].term = es[j].term
            /\ prev + k > Len(lg) \/ lg[prev + k].term # es[k].term
            /\ Len(mg) = prev + Len(es)
            /\ \A i \in 1 .. prev + k - 1 : mg[i] = lg[i]
            /\ \A i \in k .. Len(es) : mg[prev + i] = es[i]
  BY <1>0, MergeShape, Zenon DEF mg
<1>6. LinksOf(mg) \subseteq LinksOf(lg) \cup RequestLinks(m)
  BY <1>3, <1>4, <1>5
<1> QED
  BY <1>6 DEF mg, prev, es

\* A request carries links of its sender's log.
LEMMA SentLinks ==
    ASSUME NEW lg \in Seq(Entry), NEW prev \in Nat, NEW m,
           m.prevLogIndex = prev, m.prevLogTerm = TermAt(lg, prev),
           m.entries = SubSeq(lg, prev + 1, Len(lg))
    PROVE  /\ RequestLinks(m) \subseteq LinksOf(lg)
           /\ m.prevLogIndex = 0 => m.prevLogTerm = 0
<1> DEFINE es == SubSeq(lg, prev + 1, Len(lg))
<1>1. m.prevLogIndex = prev /\ m.prevLogTerm = TermAt(lg, prev) /\ m.entries = es
  OBVIOUS
<1>2. Len(lg) \in Nat /\ DOMAIN lg = 1 .. Len(lg)
  BY LenProperties
<1>3. /\ DOMAIN es = 1 .. Len(es) /\ Len(es) \in Nat
      /\ \A i \in 1 .. Len(es) : es[i] = lg[prev + i] /\ prev + i \in 1 .. Len(lg)
  <2>1. \A i \in prev + 1 .. Len(lg) : lg[i] \in Entry
    BY <1>2, ElementOfSeq
  <2>2. /\ es \in Seq(Entry)
        /\ Len(es) = IF prev + 1 <= Len(lg) THEN Len(lg) - (prev + 1) + 1 ELSE 0
        /\ \A i \in 1 .. Len(lg) - (prev + 1) + 1 : es[i] = lg[(prev + 1) + i - 1]
    BY <1>2, <2>1, SubSeqProperties
  <2> HIDE DEF es
  <2>3. DOMAIN es = 1 .. Len(es)
    BY <2>2, LenProperties
  <2>4. /\ Len(lg) - (prev + 1) + 1 = Len(lg) - prev
        /\ \A i \in Nat : (prev + 1) + i - 1 = prev + i
    BY <1>2
  <2>5. Len(es) = IF prev + 1 <= Len(lg) THEN Len(lg) - prev ELSE 0
    BY <2>2, <2>4
  <2>7. Len(es) \in Nat
    BY <2>2, LenProperties
  <2>6. ASSUME NEW i \in 1 .. Len(es) PROVE es[i] = lg[prev + i] /\ prev + i \in 1 .. Len(lg)
    <3>0. i \in Nat /\ i >= 1 /\ i <= Len(es)
      BY <2>7
    <3>1. prev + 1 <= Len(lg) /\ Len(es) = Len(lg) - prev
      <4>1. CASE ~(prev + 1 <= Len(lg))
        <5>1. Len(es) = 0
          BY <2>5, <4>1
        <5> QED
          BY <3>0, <5>1
      <4> QED
        BY <2>5, <4>1
    <3>2. i \in 1 .. Len(lg) - (prev + 1) + 1 /\ prev + i \in 1 .. Len(lg)
      BY <1>2, <3>0, <3>1
    <3>3. es[i] = lg[(prev + 1) + i - 1]
      BY <2>2, <3>2
    <3> QED
      BY <2>4, <3>0, <3>2, <3>3
  <2> QED
    BY <2>3, <2>6, <2>7
<1> HIDE DEF es
<1>4. ASSUME NEW i \in DOMAIN es
      PROVE  Link(prev + i, TermBefore(m, i), es[i]) \in LinksOf(lg)
  <2>1. prev + i \in DOMAIN lg /\ es[i] = lg[prev + i]
    BY <1>2, <1>3
  <2>2. TermBefore(m, i) = TermAt(lg, (prev + i) - 1)
    <3>1. CASE i = 1
      BY <1>1, <3>1 DEF TermBefore
    <3>2. CASE i # 1
      <4>0. i \in 1 .. Len(es) /\ Len(es) \in Nat /\ i \in Nat
        BY <1>3
      <4>1. i - 1 \in 1 .. Len(es) /\ (prev + i) - 1 \in DOMAIN lg /\ prev + (i - 1) = (prev + i) - 1
        BY <1>2, <2>1, <3>2, <4>0
      <4>2. es[i - 1] = lg[(prev + i) - 1]
        BY <1>3, <4>1
      <4> QED
        BY <1>1, <3>2, <4>1, <4>2 DEF TermBefore, TermAt
    <3> QED
      BY <3>1, <3>2
  <2>3. \A j \in DOMAIN lg : Link(j, TermAt(lg, j - 1), lg[j]) \in LinksOf(lg)
    BY DEF LinksOf
  <2>4. Link(prev + i, TermAt(lg, (prev + i) - 1), lg[prev + i]) \in LinksOf(lg)
    BY <2>1, <2>3
  <2> QED
    BY <2>1, <2>2, <2>4
<1>5. prev = 0 => TermAt(lg, prev) = 0
  BY <1>2 DEF TermAt
<1>6. RequestLinks(m) = {Link(prev + i, TermBefore(m, i), es[i]) : i \in DOMAIN es}
  BY <1>1 DEF RequestLinks
<1> QED
  BY <1>1, <1>4, <1>5, <1>6

\* A command makes one link, after the end of the log.
LEMMA AppendLinks ==
    ASSUME NEW lg \in Seq(Entry), NEW e \in Entry
    PROVE  /\ Append(lg, e) \in Seq(Entry) /\ Len(Append(lg, e)) = Len(lg) + 1
           /\ LinksOf(Append(lg, e)) = LinksOf(lg) \cup {Link(Len(lg) + 1, LastTerm(lg), e)}
           /\ Len(lg) \in Nat /\ DOMAIN lg = 1 .. Len(lg)
           /\ \A i \in DOMAIN lg : Append(lg, e)[i] = lg[i]
<1> DEFINE ap == Append(lg, e)
<1>1. /\ ap \in Seq(Entry) /\ Len(ap) = Len(lg) + 1 /\ Len(lg) \in Nat
      /\ DOMAIN lg = 1 .. Len(lg) /\ DOMAIN ap = 1 .. Len(lg) + 1
      /\ (\A i \in 1 .. Len(lg) : ap[i] = lg[i]) /\ ap[Len(lg) + 1] = e
  BY AppendProperties, LenProperties
<1> HIDE DEF ap
<1>2. ASSUME NEW i \in 1 .. Len(lg) + 1 PROVE TermAt(ap, i - 1) = TermAt(lg, i - 1)
  <2>1. (i - 1 \in DOMAIN ap <=> i - 1 \in DOMAIN lg) /\ (i - 1 \in DOMAIN lg => ap[i - 1] = lg[i - 1])
    BY <1>1
  <2> QED
    BY <2>1 DEF TermAt
<1>3. Len(lg) + 1 \in 1 .. Len(lg) + 1 /\ (Len(lg) + 1) - 1 = Len(lg)
  BY <1>1
<1>4. TermAt(ap, (Len(lg) + 1) - 1) = LastTerm(lg)
  BY <1>2, <1>3 DEF LastTerm
<1>5. LinksOf(ap) \subseteq LinksOf(lg) \cup {Link(Len(lg) + 1, LastTerm(lg), e)}
  <2> SUFFICES ASSUME NEW i \in 1 .. Len(lg) + 1
               PROVE  Link(i, TermAt(ap, i - 1), ap[i]) \in LinksOf(lg) \cup {Link(Len(lg) + 1, LastTerm(lg), e)}
    BY <1>1 DEF LinksOf
  <2>1. CASE i = Len(lg) + 1
    BY <1>1, <1>4, <2>1
  <2>2. CASE i # Len(lg) + 1
    <3>1. i \in DOMAIN lg /\ ap[i] = lg[i]
      BY <1>1, <2>2
    <3> QED
      BY <1>2, <3>1 DEF LinksOf
  <2> QED
    BY <2>1, <2>2
<1>6. LinksOf(lg) \subseteq LinksOf(ap)
  <2> SUFFICES ASSUME NEW i \in DOMAIN lg
               PROVE  Link(i, TermAt(lg, i - 1), lg[i]) \in LinksOf(ap)
    BY DEF LinksOf
  <2>1. i \in 1 .. Len(lg) + 1 /\ i \in DOMAIN ap /\ ap[i] = lg[i]
    BY <1>1
  <2> QED
    BY <1>2, <2>1 DEF LinksOf
<1>7. Link(Len(lg) + 1, LastTerm(lg), e) \in LinksOf(ap)
  <2>1. Len(lg) + 1 \in DOMAIN ap
    BY <1>1
  <2>2. Link(Len(lg) + 1, TermAt(ap, (Len(lg) + 1) - 1), ap[Len(lg) + 1]) \in LinksOf(ap)
    BY <2>1 DEF LinksOf
  <2> QED
    BY <1>1, <1>4, <2>2
<1> QED
  BY <1>1, <1>5, <1>6, <1>7 DEF ap

\* Logs whose links are unique agree up to every entry whose term they agree on.
LEMMA LinksMatch ==
    ASSUME NEW a \in Seq(Entry), NEW b \in Seq(Entry), NEW i \in DOMAIN a \cap DOMAIN b,
           a[i].term = b[i].term,
           \A k \in LinksOf(a), l \in LinksOf(b) : k.index = l.index /\ k.entry.term = l.entry.term => k = l
    PROVE  \A j \in 1 .. i : a[j] = b[j]
<1>0. /\ Len(a) \in Nat /\ DOMAIN a = 1 .. Len(a) /\ Len(b) \in Nat /\ DOMAIN b = 1 .. Len(b)
      /\ i \in Nat /\ i \in 1 .. Len(a) /\ i \in 1 .. Len(b)
  BY LenProperties
<1>1. ASSUME NEW j \in 1 .. i, a[j].term = b[j].term
      PROVE  a[j] = b[j] /\ TermAt(a, j - 1) = TermAt(b, j - 1)
  <2> DEFINE k == Link(j, TermAt(a, j - 1), a[j])
             l == Link(j, TermAt(b, j - 1), b[j])
  <2>1. k \in LinksOf(a) /\ l \in LinksOf(b)
    BY <1>0 DEF LinksOf
  <2>2. /\ k.index = j /\ k.entry = a[j] /\ k.before = TermAt(a, j - 1)
        /\ l.index = j /\ l.entry = b[j] /\ l.before = TermAt(b, j - 1)
    BY DEF Link
  <2> HIDE DEF k, l
  <2> QED
    BY <1>1, <2>1, <2>2
<1> DEFINE Bad == {j \in 0 .. i : j # 0 /\ a[j] # b[j]}
<1>2. ASSUME Bad # {} PROVE FALSE
  <2> DEFINE x == Max(Bad)
  <2>1. x \in Bad /\ \A y \in Bad : x >= y
    <3>1. Bad \in SUBSET (0 .. i)
      OBVIOUS
    <3> HIDE DEF Bad
    <3> QED
      BY <1>0, <1>2, <3>1, MaxOfNats
  <2>2. x \in 1 .. i /\ a[x] # b[x]
    BY <1>0, <2>1
  <2>3. a[x].term # b[x].term
    BY <1>1, <2>2
  <2>4. x # i
    BY <2>3
  <2>5. x + 1 \in 1 .. i /\ (x + 1) - 1 = x /\ x + 1 \in 0 .. i /\ x + 1 # 0 /\ ~(x >= x + 1)
    BY <1>0, <2>2, <2>4
  <2>6. x + 1 \notin Bad
    <3> HIDE DEF Bad, x
    <3> QED
      BY <2>1, <2>5
  <2>7. a[x + 1] = b[x + 1]
    BY <2>5, <2>6
  <2> HIDE DEF x, Bad
  <2>8. TermAt(a, (x + 1) - 1) = TermAt(b, (x + 1) - 1)
    BY <1>1, <2>5, <2>7
  <2>9. x \in DOMAIN a /\ x \in DOMAIN b
    BY <1>0, <2>2
  <2> QED
    BY <2>3, <2>5, <2>8, <2>9 DEF TermAt
<1> QED
  BY <1>0, <1>2

\* What is requested.
LEMMA RequestsAre ==
    /\ \A m : m \in Requests <=> \/ m \in msgs /\ m.type = "AppendReq"
                                 \/ \E n \in Node : \E c \in pend[n] : c.pc = "log" /\ c.req = m
    /\ \A m : m \in Requests' <=> \/ m \in msgs' /\ m.type = "AppendReq"
                                  \/ \E n \in Node : \E c \in pend'[n] : c.pc = "log" /\ c.req = m
<1>1. ASSUME NEW m
      PROVE  m \in Requests <=> \/ m \in msgs /\ m.type = "AppendReq"
                                \/ \E n \in Node : \E c \in pend[n] : c.pc = "log" /\ c.req = m
  BY DEF Requests
<1>2. ASSUME NEW m
      PROVE  m \in Requests' <=> \/ m \in msgs' /\ m.type = "AppendReq"
                                 \/ \E n \in Node : \E c \in pend'[n] : c.pc = "log" /\ c.req = m
  BY DEF Requests
<1> QED
  BY <1>1, <1>2

\* Where a link is.
LEMMA LinksAre ==
    /\ \A k : k \in Links <=> \/ \E n \in Node : k \in LinksOf(log[n])
                              \/ \E m \in Requests : k \in RequestLinks(m)
    /\ \A k : k \in Links' <=> \/ \E n \in Node : k \in LinksOf(log'[n])
                               \/ \E m \in Requests' : k \in RequestLinks(m)
<1>1. ASSUME NEW k
      PROVE  k \in Links <=> \/ \E n \in Node : k \in LinksOf(log[n])
                             \/ \E m \in Requests : k \in RequestLinks(m)
  <2>1. k \in UNION {LinksOf(log[n]) : n \in Node} <=> \E n \in Node : k \in LinksOf(log[n])
    BY Zenon
  <2>2. k \in UNION {RequestLinks(m) : m \in Requests} <=> \E m \in Requests : k \in RequestLinks(m)
    BY Zenon
  <2> DEFINE A == UNION {LinksOf(log[n]) : n \in Node}
             B == UNION {RequestLinks(m) : m \in Requests}
  <2>3. Links = A \cup B
    BY DEF Links
  <2>4. k \in A <=> \E n \in Node : k \in LinksOf(log[n])
    BY <2>1
  <2>5. k \in B <=> \E m \in Requests : k \in RequestLinks(m)
    BY <2>2
  <2> HIDE DEF A, B
  <2> QED
    BY <2>3, <2>4, <2>5, Zenon
<1>2. ASSUME NEW k
      PROVE  k \in Links' <=> \/ \E n \in Node : k \in LinksOf(log'[n])
                              \/ \E m \in Requests' : k \in RequestLinks(m)
  <2>1. k \in UNION {LinksOf(log'[n]) : n \in Node} <=> \E n \in Node : k \in LinksOf(log'[n])
    BY Zenon
  <2>2. k \in UNION {RequestLinks(m) : m \in Requests'} <=> \E m \in Requests' : k \in RequestLinks(m)
    BY Zenon
  <2> DEFINE A == UNION {LinksOf(log'[n]) : n \in Node}
             B == UNION {RequestLinks(m) : m \in Requests'}
  <2>3. Links' = A \cup B
    BY DEF Links
  <2>4. k \in A <=> \E n \in Node : k \in LinksOf(log'[n])
    BY <2>1
  <2>5. k \in B <=> \E m \in Requests' : k \in RequestLinks(m)
    BY <2>2
  <2> HIDE DEF A, B
  <2> QED
    BY <2>3, <2>4, <2>5, Zenon
<1> QED
  BY <1>1, <1>2

\* Two nodes do not win the same term.
LEMMA QuorumUnique ==
    ASSUME VoteInv, NEW t \in Term, NEW c \in Node, NEW d \in Node, HasQuorum(c, t), HasQuorum(d, t)
    PROVE  c = d
<1>1. PICK P \in SUBSET Node : Cardinality(P) >= votesNeeded /\ \A p \in P : <<p, t, c>> \in ballots
  BY DEF HasQuorum
<1>2. PICK Q \in SUBSET Node : Cardinality(Q) >= votesNeeded /\ \A p \in Q : <<p, t, d>> \in ballots
  BY DEF HasQuorum
<1>3. PICK p \in Node : p \in P /\ p \in Q
  BY <1>1, <1>2, MajoritiesMeet
<1> QED
  BY <1>1, <1>2, <1>3 DEF VoteInv, UniqueBallots

\* A request is nowhere but in flight or at a node that waits for logMu.
LEMMA RequestsKept ==
    ASSUME \A m \in msgs' : m.type = "AppendReq" => m \in msgs,
           \A n \in Node : \A c \in pend'[n] : c.pc = "log" => c \in pend[n] \/ c.req \in Requests
    PROVE  Requests' \subseteq Requests
BY RequestsAre

\* Links come from logs and requests.
LEMMA LinksKept ==
    ASSUME Requests' \subseteq Requests, UNCHANGED log
    PROVE  Links' \subseteq Links
BY LinksAre

\* The terms of links.
LEMMA LinkTerms ==
    ASSUME TypeInv
    PROVE  \A k \in Links : k.entry.term \in Term
<1>1. ASSUME NEW n \in Node, NEW k \in LinksOf(log[n]) PROVE k.entry.term \in Term
  <2>1. log[n] \in Seq(Entry)
    BY StepTypes
  <2>2. \A i \in DOMAIN log[n] : log[n][i] \in Entry
    BY <2>1, LenProperties, ElementOfSeq
  <2>3. PICK i \in DOMAIN log[n] : k = Link(i, TermAt(log[n], i - 1), log[n][i])
    BY <1>1 DEF LinksOf
  <2> QED
    BY <2>2, <2>3 DEF Link, Entry
<1>2. ASSUME NEW m \in Requests, NEW k \in RequestLinks(m) PROVE k.entry.term \in Term
  <2>1. m \in AppendReqs
    BY RequestsAre, StepTypes
  <2>2. m.entries \in Seq(Entry)
    BY <2>1 DEF AppendReqs
  <2>3. \A i \in DOMAIN m.entries : m.entries[i] \in Entry
    BY <2>2, LenProperties, ElementOfSeq
  <2>4. PICK i \in DOMAIN m.entries : k = Link(m.prevLogIndex + i, TermBefore(m, i), m.entries[i])
    BY <1>2 DEF RequestLinks
  <2> QED
    BY <2>3, <2>4 DEF Link, Entry
<1> QED
  BY <1>1, <1>2, LinksAre

\* Nothing is in any log at first.
LEMMA InitLinkInv == Init => LinkInv
<1> SUFFICES ASSUME Init PROVE LinkInv
  OBVIOUS
<1>1. msgs = {} /\ \A n \in Node : pend[n] = {} /\ log[n] = <<>> /\ state[n] = "follower"
  BY DEF Init
<1>2. Requests = {}
  BY <1>1, RequestsAre
<1>3. LinksOf(<<>>) = {}
  BY DEF LinksOf
<1>4. Links = {}
  BY <1>1, <1>2, <1>3, LinksAre
<1> QED
  BY <1>1, <1>2, <1>4 DEF LinkInv, WaiterInv, MadeInv, DummyInv, LinksUnique, LeaderHolds

\* The steps that make no link and leave roles and terms alone.
LEMMA SameLinks ==
    ASSUME LinkInv, Links' \subseteq Links, ballots \subseteq ballots', UNCHANGED <<state, currentTerm>>,
           \A m \in Requests' : m \in Requests \/ (m.prevLogIndex = 0 => m.prevLogTerm = 0),
           \A n \in Node : state[n] = "leader" => LinksOf(log'[n]) = LinksOf(log[n]),
           \A n \in Node : \A c \in pend'[n] : c.pc = "log" => c \in pend[n]
    PROVE  LinkInv'
<1>1. WaiterInv'
  BY DEF LinkInv, WaiterInv
<1>2. MadeInv'
  <2>1. \A c, t : HasQuorum(c, t) => HasQuorum(c, t)'
    BY BallotsGrow
  <2>2. \A c, t : MadeBy(c, t) => MadeBy(c, t)'
    BY <2>1 DEF MadeBy
  <2> QED
    BY <2>2 DEF LinkInv, MadeInv
<1>3. DummyInv'
  BY DEF LinkInv, DummyInv
<1>4. LinksUnique'
  BY DEF LinkInv, LinksUnique
<1>5. LeaderHolds'
  BY DEF LinkInv, LeaderHolds
<1> QED
  BY <1>1, <1>2, <1>3, <1>4, <1>5 DEF LinkInv

\* Steps of goroutines that leave the logs alone.
LEMMA QuietLinks ==
    ASSUME LinkInv, NEW n \in Node, Quiet \/ StartStep(n)
    PROVE  LinkInv'
<1>1. /\ \A m \in msgs' : m.type = "AppendReq" => m \in msgs
      /\ \A k \in Node : \A c \in pend'[k] : c.pc = "log" => c \in pend[k]
      /\ UNCHANGED <<state, currentTerm, log>> /\ ballots \subseteq ballots'
  BY DEF Quiet, NoRequest, StartStep, Start
<1>2. Requests' \subseteq Requests
  BY <1>1, RequestsKept
<1>3. Links' \subseteq Links
  BY <1>1, <1>2, LinksKept
<1> QED
  BY <1>1, <1>2, <1>3, SameLinks

\* A request carries only what is in its sender's log.
LEMMA SendLinks ==
    ASSUME TypeInv, LinkInv, NEW n \in Node, Send(n)
    PROVE  LinkInv'
<1>1. PICK c \in pend[n] :
        /\ c.peer \in Peers(n)
        /\ \A m \in msgs' :
              m \in msgs \/ m = AppendReq(n, c.peer, c.term, nextIndex[n][c.peer] - 1, log[n], commitIndex[n])
  BY DEF Send
<1> DEFINE prev == nextIndex[n][c.peer] - 1
           r == AppendReq(n, c.peer, c.term, prev, log[n], commitIndex[n])
<1>2. prev \in Nat /\ log[n] \in Seq(Entry)
  <2>1. nextIndex[n][c.peer] \in Nat \ {0}
    BY <1>1 DEF TypeInv, PeerTypes, Peers
  <2> QED
    BY <2>1, StepTypes
<1>3. \A m \in msgs' : m \in msgs \/ m = r
  BY <1>1
<1> HIDE DEF prev
<1>4. RequestLinks(r) \subseteq LinksOf(log[n]) /\ (r.prevLogIndex = 0 => r.prevLogTerm = 0)
  <2>1. /\ r.prevLogIndex = prev /\ r.prevLogTerm = TermAt(log[n], prev)
        /\ r.entries = SubSeq(log[n], prev + 1, Len(log[n]))
    BY DEF AppendReq
  <2> HIDE DEF r
  <2> QED
    BY <1>2, <2>1, SentLinks
<1> HIDE DEF r
<1>5. /\ \A k \in Node : pend'[k] \subseteq pend[k]
      /\ UNCHANGED <<state, currentTerm, log, ballots>>
  BY DEF Send
<1>6. \A m \in Requests' : m \in Requests \/ m = r
  BY <1>3, <1>5, RequestsAre
<1>7. Links' \subseteq Links
  BY <1>4, <1>5, <1>6, LinksAre
<1> QED
  BY <1>4, <1>5, <1>6, <1>7, SameLinks

\* A merge takes over links of its request.
LEMMA MergeKeepsLinks ==
    ASSUME TypeInv, LinkInv, NEW n \in Node, NEW m, Merge(n, m)
    PROVE  LinkInv'
<1>0. LogCont(m).pc = "log" /\ LogCont(m).req = m /\ LogCont(m) \in pend[n]
  BY DEF LogCont, Merge
<1>1. m \in AppendReqs /\ log[n] \in Seq(Entry) /\ log \in [Node -> Seq(Entry)]
  BY <1>0, StepTypes
<1>2. m \in Requests
  BY <1>0, RequestsAre
<1>3. /\ \A x \in msgs' : x.type = "AppendReq" => x \in msgs
      /\ \A k \in Node : \A c \in pend'[k] : c.pc = "log" => c \in pend[k]
      /\ ballots \subseteq ballots' /\ UNCHANGED <<state, currentTerm>>
      /\ log' = [log EXCEPT ![n] = MergeEntries(log[n], m.prevLogIndex, m.entries)]
      /\ m.prevLogIndex = 0 \/ (/\ m.prevLogIndex \in DOMAIN log[n]
                                /\ log[n][m.prevLogIndex].term = m.prevLogTerm)
  BY DEF Merge, NoRequest
<1>4. m.prevLogIndex = 0 => m.prevLogTerm = 0
  BY <1>2 DEF LinkInv, DummyInv
<1>5. LinksOf(log'[n]) \subseteq LinksOf(log[n]) \cup RequestLinks(m)
  <2>1. log'[n] = MergeEntries(log[n], m.prevLogIndex, m.entries)
    BY <1>1, <1>3
  <2>2. LinksOf(MergeEntries(log[n], m.prevLogIndex, m.entries)) \subseteq LinksOf(log[n]) \cup RequestLinks(m)
    BY <1>1, <1>3, <1>4, MergeLinks
  <2> QED
    BY <2>1, <2>2
<1>6. \A k \in Node \ {n} : log'[k] = log[k]
  BY <1>1, <1>3
<1>7. Requests' \subseteq Requests
  BY <1>3, RequestsKept
<1>8. Links' \subseteq Links
  BY <1>2, <1>5, <1>6, <1>7, LinksAre
<1>9. state[n] # "leader"
  BY <1>0 DEF LinkInv, WaiterInv
<1> QED
  BY <1>3, <1>6, <1>7, <1>8, <1>9, SameLinks

\* Nothing waits for logMu where nothing may be overtaken there.
LEMMA NoWaiters ==
    ASSUME Idle, "log" \notin Hazards
    PROVE  \A n \in Node : \A c \in pend[n] : c.pc # "log"
BY DEF Idle

\* The steps that change the role of one node and make no link.
LEMMA RoleLinks ==
    ASSUME TypeInv, LinkInv, NEW n \in Node, Requests' \subseteq Requests, UNCHANGED log,
           \A c, t : HasQuorum(c, t) => HasQuorum(c, t)',
           \A k \in Node \ {n} : state'[k] = state[k] /\ currentTerm'[k] = currentTerm[k],
           currentTerm'[n] \in Term, currentTerm'[n] >= currentTerm[n],
           \A k \in Links : /\ k.entry.term = currentTerm'[n] /\ MadeBy(n, currentTerm'[n])
                               => state'[n] = "leader"
                            /\ state'[n] = "leader" => k.entry.term # currentTerm'[n]
    PROVE  MadeInv' /\ DummyInv' /\ LinksUnique' /\ LeaderHolds'
<1>0. Links' \subseteq Links /\ \A k \in Links : k.entry.term \in Term
  BY LinksKept, LinkTerms
<1>1. MadeInv'
  <2> SUFFICES ASSUME NEW k \in Links PROVE \E c \in Node : MadeBy(c, k.entry.term)'
    BY <1>0 DEF MadeInv
  <2> DEFINE t == k.entry.term
  <2>1. PICK c \in Node : MadeBy(c, t)
    BY DEF LinkInv, MadeInv
  <2>2. t \in Term /\ Term \subseteq Nat /\ currentTerm[n] \in Term /\ currentTerm'[n] \in Term
    BY <1>0, StepTypes
  <2>3. HasQuorum(c, t) /\ currentTerm[c] >= t
    BY <2>1 DEF MadeBy
  <2>4. HasQuorum(c, t)'
    BY <2>3
  <2>5. CASE c # n
    BY <2>1, <2>4, <2>5 DEF MadeBy
  <2>6. CASE c = n
    <3>0. t \in Nat /\ currentTerm[n] \in Nat /\ currentTerm'[n] \in Nat /\ currentTerm[n] >= t
      BY <2>2, <2>3, <2>6
    <3>1. currentTerm'[n] >= t
      <4> HIDE DEF t
      <4> QED
        BY <3>0
    <3>2. currentTerm'[n] = t => state'[n] = "leader"
      BY <2>1, <2>6
    <3> QED
      BY <2>4, <2>6, <3>1, <3>2 DEF MadeBy
  <2> QED
    BY <2>5, <2>6
<1>2. DummyInv'
  BY DEF LinkInv, DummyInv
<1>3. LinksUnique'
  BY <1>0 DEF LinkInv, LinksUnique
<1>4. LeaderHolds'
  BY <1>0 DEF LinkInv, LeaderHolds
<1> QED
  BY <1>1, <1>2, <1>3, <1>4

\* A node that enters a newer term has left the term of everything it made.
LEMMA NewTermLinks ==
    ASSUME TypeInv, LinkInv, NEW n \in Node, NewTerm(n), "log" \notin Hazards
    PROVE  LinkInv'
<1>1. NoRequest /\ Idle /\ UNCHANGED log
  BY DEF NewTerm
<1>2. \A k \in Node : \A c \in pend[k] : c.pc # "log"
  BY <1>1, NoWaiters
<1>3. Requests' \subseteq Requests
  BY <1>1, RequestsKept DEF NoRequest
<1>4. WaiterInv'
  BY <1>1, <1>2 DEF NoRequest, WaiterInv
<1>5. \A c, t : HasQuorum(c, t) => HasQuorum(c, t)'
  BY <1>1, BallotsGrow DEF NoRequest
<1>6. PICK t \in Term, s \in {"follower", "candidate"} :
          /\ t > currentTerm[n]
          /\ state' = [state EXCEPT ![n] = s]
          /\ currentTerm' = [currentTerm EXCEPT ![n] = t]
  BY DEF NewTerm
<1>7. /\ \A k \in Node \ {n} : state'[k] = state[k] /\ currentTerm'[k] = currentTerm[k]
      /\ currentTerm'[n] = t /\ state'[n] # "leader"
      /\ currentTerm[n] \in Nat /\ t \in Nat
  BY <1>6, StepTypes
<1>8. currentTerm'[n] \in Term /\ currentTerm'[n] >= currentTerm[n] /\ ~(currentTerm[n] >= currentTerm'[n])
  BY <1>6, <1>7
<1>9. ~MadeBy(n, currentTerm'[n])
  BY <1>8 DEF MadeBy
<1>10. MadeInv' /\ DummyInv' /\ LinksUnique' /\ LeaderHolds'
  BY <1>1, <1>3, <1>5, <1>7, <1>8, <1>9, RoleLinks
<1> QED
  BY <1>4, <1>10 DEF LinkInv

\* There is no entry yet of the term of a new leader.
LEMMA LeadLinks ==
    ASSUME TypeInv, VoteInv, ReplicationInv, LinkInv, NEW n \in Node, Lead(n)
    PROVE  LinkInv'
<1>1. /\ state[n] # "leader" /\ HasQuorum(n, currentTerm[n])
      /\ state' = [state EXCEPT ![n] = "leader"]
      /\ \A k \in Node : \A c \in pend'[k] : c \in pend[k] \/ c.pc = "send"
      /\ UNCHANGED <<currentTerm, log, msgs, ballots>>
  BY DEF Lead
<1>2. /\ \A k \in Node \ {n} : state'[k] = state[k] /\ currentTerm'[k] = currentTerm[k]
      /\ currentTerm'[n] = currentTerm[n] /\ state'[n] = "leader"
      /\ currentTerm[n] \in Term /\ currentTerm[n] \in Nat
  BY <1>1, StepTypes
<1>3. Requests' \subseteq Requests
  BY <1>1, RequestsKept
<1>4. \A c, t : HasQuorum(c, t) => HasQuorum(c, t)'
  BY <1>1, BallotsGrow
<1>5. ASSUME NEW k \in Links PROVE k.entry.term # currentTerm[n]
  <2>1. PICK c \in Node : MadeBy(c, k.entry.term)
    BY DEF LinkInv, MadeInv
  <2>2. ASSUME k.entry.term = currentTerm[n] PROVE FALSE
    <3>1. HasQuorum(c, currentTerm[n]) /\ MadeBy(c, currentTerm[n])
      BY <2>1, <2>2 DEF MadeBy
    <3>2. c = n
      BY <1>1, <1>2, <3>1, QuorumUnique
    <3> QED
      BY <1>1, <3>1, <3>2 DEF MadeBy
  <2> QED
    BY <2>2
<1>6. WaiterInv'
  <2> SUFFICES ASSUME NEW k \in Node, NEW c \in pend'[k], c.pc = "log"
               PROVE  state'[k] = "follower" /\ currentTerm'[k] = c.req.term
    BY DEF WaiterInv
  <2>1. c \in pend[k]
    BY <1>1
  <2>2. state[k] = "follower" /\ currentTerm[k] = c.req.term /\ HasQuorum(c.req.from, c.req.term)
    BY <2>1 DEF LinkInv, WaiterInv, ReplicationInv, SenderInv
  <2>3. c.req.from \in Node /\ c.req.from # k
    BY <2>1, StepTypes DEF AppendReqs
  <2>4. k # n
    BY <1>1, <1>2, <2>2, <2>3, QuorumUnique
  <2> QED
    BY <1>2, <2>2, <2>4
<1>7. currentTerm'[n] \in Term /\ currentTerm'[n] >= currentTerm[n]
  BY <1>2
<1>8. MadeInv' /\ DummyInv' /\ LinksUnique' /\ LeaderHolds'
  BY <1>1, <1>2, <1>3, <1>4, <1>5, <1>7, RoleLinks
<1> QED
  BY <1>6, <1>8 DEF LinkInv

\* Who accepts a request leads no longer, and did not lead in the request's term.
LEMMA AcceptLinks ==
    ASSUME TypeInv, VoteInv, ReplicationInv, LinkInv, NEW n \in Node, NEW m \in msgs, Accept(n, m),
           "log" \notin Hazards
    PROVE  LinkInv'
<1>1. /\ Idle /\ m.type = "AppendReq" /\ m.to = n /\ m.term >= currentTerm[n]
      /\ currentTerm' = [currentTerm EXCEPT ![n] = m.term]
      /\ state' = [state EXCEPT ![n] = "follower"]
      /\ \A k \in Node : \A c \in pend'[k] : c \in pend[k] \/ (k = n /\ c = LogCont(m))
      /\ msgs' \subseteq msgs /\ UNCHANGED <<log, ballots>>
  BY DEF Accept
<1>2. /\ \A k \in Node \ {n} : state'[k] = state[k] /\ currentTerm'[k] = currentTerm[k]
      /\ currentTerm'[n] = m.term /\ state'[n] = "follower"
      /\ m.term \in Term /\ m.from \in Node /\ m.from # n
  BY <1>1, StepTypes
<1>3. HasQuorum(m.from, m.term) /\ LogCont(m).pc = "log" /\ LogCont(m).req = m /\ m \in Requests
  BY <1>1, RequestsAre DEF ReplicationInv, SenderInv, LogCont
<1>4. \A k \in Node : \A c \in pend[k] : c.pc # "log"
  BY <1>1, NoWaiters
<1>5. WaiterInv'
  BY <1>1, <1>2, <1>3, <1>4 DEF WaiterInv
<1>6. Requests' \subseteq Requests
  BY <1>1, <1>3, RequestsKept
<1>7. \A c, t : HasQuorum(c, t) => HasQuorum(c, t)'
  BY <1>1, BallotsGrow
<1>8. ~MadeBy(n, m.term)
  BY <1>2, <1>3, QuorumUnique DEF MadeBy
<1>9. MadeInv' /\ DummyInv' /\ LinksUnique' /\ LeaderHolds'
  BY <1>1, <1>2, <1>6, <1>7, <1>8, RoleLinks
<1> QED
  BY <1>5, <1>9 DEF LinkInv

\* A command gets an index its term has nowhere.
LEMMA ExtendLinks ==
    ASSUME TypeInv, VoteInv, ReplicationInv, LinkInv, NEW n \in Node, Extend(n)
    PROVE  LinkInv'
<1>1. PICK c \in pend[n], v \in Command :
          /\ c.pc = "append" /\ c.term \in Term
          /\ log' = [log EXCEPT ![n] = Append(log[n], [term |-> c.term, cmd |-> v])]
  BY DEF Extend
<1>2. /\ \A k \in Node : \A d \in pend'[k] : d.pc = "log" => d \in pend[k]
      /\ UNCHANGED <<state, currentTerm, msgs, ballots>>
  BY DEF Extend
<1> DEFINE e == [term |-> c.term, cmd |-> v]
           x == Link(Len(log[n]) + 1, LastTerm(log[n]), e)
           lg == Append(log[n], e)
<1>3. state[n] = "leader" /\ currentTerm[n] = c.term
  BY <1>1 DEF ReplicationInv, ApplierInv
<1>4. e \in Entry /\ log[n] \in Seq(Entry) /\ e.term = c.term /\ log \in [Node -> Seq(Entry)]
  BY <1>1, StepTypes DEF Entry
<1>5. log'[n] = lg /\ \A k \in Node \ {n} : log'[k] = log[k]
  BY <1>1, <1>4
<1>6. x.index = Len(log[n]) + 1 /\ x.entry = e
  BY DEF Link
<1> HIDE DEF e
<1>7. /\ LinksOf(lg) = LinksOf(log[n]) \cup {x}
      /\ Len(log[n]) \in Nat /\ DOMAIN log[n] = 1 .. Len(log[n])
  BY <1>4, AppendLinks
<1> HIDE DEF x, lg
<1>8. Requests' \subseteq Requests
  BY <1>2, RequestsKept
<1>9. \A k \in Links' : k \in Links \/ k = x
  BY <1>5, <1>7, <1>8, LinksAre
<1>10. ASSUME NEW k \in Links, k.entry.term = c.term PROVE k.index # x.index
  <2>1. k \in LinksOf(log[n])
    BY <1>3, <1>10 DEF LinkInv, LeaderHolds
  <2>2. PICK i \in DOMAIN log[n] : k = Link(i, TermAt(log[n], i - 1), log[n][i])
    BY <2>1 DEF LinksOf
  <2>3. k.index = i
    BY <2>2 DEF Link
  <2> QED
    BY <1>6, <1>7, <2>3
<1>11. HasQuorum(n, c.term) /\ c.term \in Term /\ c.term \in Nat
  BY <1>1, <1>3, StepTypes DEF VoteInv, LeaderInv
<1>12. WaiterInv'
  BY <1>2 DEF LinkInv, WaiterInv
<1>13. MadeInv'
  <2>1. \A d, t : HasQuorum(d, t) => HasQuorum(d, t)'
    BY <1>2, BallotsGrow
  <2>2. \A d, t : MadeBy(d, t) => MadeBy(d, t)'
    BY <1>2, <2>1 DEF MadeBy
  <2>3. MadeBy(n, c.term)
    BY <1>3, <1>11 DEF MadeBy
  <2>4. x.entry.term = c.term
    BY <1>4, <1>6
  <2> QED
    BY <1>9, <2>2, <2>3, <2>4 DEF LinkInv, MadeInv
<1>14. DummyInv'
  BY <1>8 DEF LinkInv, DummyInv
<1>15. LinksUnique'
  BY <1>4, <1>6, <1>9, <1>10 DEF LinkInv, LinksUnique
<1>16. LeaderHolds'
  <2> SUFFICES ASSUME NEW p \in Node, state[p] = "leader", NEW k \in Links', k.entry.term = currentTerm[p]
               PROVE  k \in LinksOf(log'[p])
    BY <1>2 DEF LeaderHolds
  <2>1. CASE k \in Links
    <3>1. k \in LinksOf(log[p])
      BY <2>1 DEF LinkInv, LeaderHolds
    <3> QED
      BY <1>5, <1>7, <3>1
  <2>2. CASE k = x
    <3>1. currentTerm[p] = c.term
      BY <1>4, <1>6, <2>2
    <3>2. HasQuorum(p, c.term)
      BY <3>1 DEF VoteInv, LeaderInv
    <3>3. p = n
      BY <1>11, <3>2, QuorumUnique
    <3> QED
      BY <1>5, <1>7, <2>2, <3>3
  <2> QED
    BY <1>9, <2>1, <2>2
<1> QED
  BY <1>12, <1>13, <1>14, <1>15, <1>16 DEF LinkInv

\* Every step keeps the links.
LEMMA NextLinkInv ==
    ASSUME TypeInv, VoteInv, ReplicationInv, LinkInv, [Next]_vars,
           Hazards \cap {"append", "broadcast", "log", "mux", "restart"} = {}
    PROVE  LinkInv'
<1>1. "mux" \notin Hazards /\ "restart" \notin Hazards /\ "log" \notin Hazards
  OBVIOUS
<1>2. \E n \in Node : TRUE
  BY NodeAssumption
<1> QED
  BY <1>1, <1>2, StepKinds, QuietLinks, NewTermLinks, LeadLinks, SendLinks, AcceptLinks,
     MergeKeepsLinks, ExtendLinks

\* The links, in every reachable state.
LEMMA LinksAlways ==
    ASSUME Hazards \cap {"append", "broadcast", "log", "mux", "restart"} = {}
    PROVE  Spec => [](TypeInv /\ VoteInv /\ ReplicationInv /\ LinkInv)
<1>1. Hazards \cap {"append", "broadcast", "mux", "restart"} = {}
  OBVIOUS
<1>2. TypeInv /\ VoteInv /\ ReplicationInv /\ LinkInv /\ [Next]_vars => LinkInv'
  BY NextLinkInv
<1> QED
  BY <1>1, <1>2, InitLinkInv, ReplicationAlways, PTL DEF Spec

-----------------------------------------------------------------------------
(***************************************************************************)
(* Theorems about the logs.                                                *)
(***************************************************************************)
\* A first part of a sequence is the elements in it.
LEMMA FirstPart ==
    ASSUME NEW S, NEW a \in Seq(S), NEW i \in Nat, i <= Len(a)
    PROVE  /\ SubSeq(a, 1, i) \in Seq(S) /\ Len(SubSeq(a, 1, i)) = i
           /\ \A j \in 1 .. i : SubSeq(a, 1, i)[j] = a[j]
<1>1. Len(a) \in Nat /\ \A j \in 1 .. i : a[j] \in S
  BY LenProperties, ElementOfSeq
<1> DEFINE s == SubSeq(a, 1, i)
<1>2. /\ s \in Seq(S) /\ Len(s) = (IF 1 <= i THEN i - 1 + 1 ELSE 0)
      /\ \A j \in 1 .. i - 1 + 1 : s[j] = a[1 + j - 1]
  BY <1>1, SubSeqProperties
<1> HIDE DEF s
<1>3. i - 1 + 1 = i /\ \A j \in 1 .. i : 1 + j - 1 = j
  OBVIOUS
<1>4. Len(s) = i
  <2>1. CASE 1 <= i
    BY <1>2, <1>3, <2>1
  <2>2. CASE ~(1 <= i)
    BY <1>2, <2>2
  <2> QED
    BY <2>1, <2>2
<1>5. \A j \in 1 .. i : s[j] = a[j]
  BY <1>2, <1>3
<1> QED
  BY <1>2, <1>4, <1>5 DEF s

\* Sequences that agree one by one agree on their first parts.
LEMMA SameFirstPart ==
    ASSUME NEW S, NEW a \in Seq(S), NEW b \in Seq(S), NEW i \in Nat, i <= Len(a), i <= Len(b),
           \A j \in 1 .. i : a[j] = b[j]
    PROVE  SubSeq(a, 1, i) = SubSeq(b, 1, i)
<1> DEFINE s == SubSeq(a, 1, i)
           t == SubSeq(b, 1, i)
<1>1. s \in Seq(S) /\ Len(s) = i /\ \A j \in 1 .. i : s[j] = a[j]
  BY FirstPart
<1>2. t \in Seq(S) /\ Len(t) = i /\ \A j \in 1 .. i : t[j] = b[j]
  BY FirstPart
<1> HIDE DEF s, t
<1>3. s = t
  BY <1>1, <1>2, SeqEqual
<1> QED
  BY <1>3 DEF s, t

\* handleAppendEntriesRequest: two logs that agree on the term of an entry
\* agree on everything up to it, as long as a handler that has checked the term
\* reaches the log, and the apply loop the log and the broadcast, before other
\* steps; sends, elections, commits, requests and replies may overtake each
\* other, be lost or be late.
THEOREM LogsMatch ==
    ASSUME Hazards \cap {"append", "broadcast", "log", "mux", "restart"} = {}
    PROVE  Spec => []LogMatching
<1>1. ASSUME TypeInv, LinkInv PROVE LogMatching
  <2> SUFFICES ASSUME NEW m \in Node, NEW n \in Node, NEW i \in DOMAIN log[m] \cap DOMAIN log[n],
                      log[m][i].term = log[n][i].term
               PROVE  SubSeq(log[m], 1, i) = SubSeq(log[n], 1, i)
    BY DEF LogMatching
  <2> DEFINE a == log[m]
             b == log[n]
  <2>1. a \in Seq(Entry) /\ b \in Seq(Entry)
    BY <1>1, StepTypes
  <2>2. \A k \in LinksOf(a), l \in LinksOf(b) : k.index = l.index /\ k.entry.term = l.entry.term => k = l
    BY <1>1, LinksAre DEF LinkInv, LinksUnique
  <2>3. i \in DOMAIN a \cap DOMAIN b /\ a[i].term = b[i].term
    OBVIOUS
  <2> HIDE DEF a, b
  <2>4. \A j \in 1 .. i : a[j] = b[j]
    BY <2>1, <2>2, <2>3, LinksMatch
  <2>5. i \in Nat /\ i <= Len(a) /\ i <= Len(b)
    BY <2>1, <2>3, LenProperties
  <2>6. SubSeq(a, 1, i) = SubSeq(b, 1, i)
    BY <2>1, <2>4, <2>5, SameFirstPart
  <2> QED
    BY <2>6 DEF a, b
<1> QED
  BY <1>1, LinksAlways, PTL

\* What a step does to the log of a node that leads before and after it.
LEMMA LeadersAppend ==
    ASSUME TypeInv, VoteInv, LinkInv, [Next]_vars, "mux" \notin Hazards, "restart" \notin Hazards,
           NEW n \in Node, state[n] = "leader"
    PROVE  \/ log'[n] = log[n]
           \/ \E e \in Entry : log'[n] = Append(log[n], e)
<1>0. log \in [Node -> Seq(Entry)]
  BY StepTypes
<1>1. CASE Quiet
  BY <1>1 DEF Quiet
<1>2. ASSUME NEW k \in Node, NewTerm(k) \/ Lead(k) \/ StartStep(k) \/ Send(k) PROVE log' = log
  BY <1>2 DEF NewTerm, Lead, StartStep, Start, Send
<1>3. ASSUME NEW k \in Node, NEW m \in msgs, Accept(k, m) PROVE log' = log
  BY <1>3 DEF Accept
<1>4. ASSUME NEW k \in Node, NEW c \in pend[k], c.pc = "log", Merge(k, c.req) PROVE log'[n] = log[n]
  <2>1. k # n
    BY <1>4 DEF LinkInv, WaiterInv
  <2> QED
    BY <1>0, <1>4, <2>1 DEF Merge
<1>5. ASSUME NEW k \in Node, Extend(k)
      PROVE  log'[n] = log[n] \/ \E e \in Entry : log'[n] = Append(log[n], e)
  <2>1. PICK c \in pend[k], v \in Command :
          /\ c.term \in Term
          /\ log' = [log EXCEPT ![k] = Append(log[k], [term |-> c.term, cmd |-> v])]
    BY <1>5 DEF Extend
  <2>2. [term |-> c.term, cmd |-> v] \in Entry
    BY <2>1 DEF Entry
  <2>3. CASE k = n
    BY <1>0, <2>1, <2>2, <2>3
  <2>4. CASE k # n
    BY <1>0, <2>1, <2>4
  <2> QED
    BY <2>3, <2>4
<1> QED
  BY <1>1, <1>2, <1>3, <1>4, <1>5, StepKinds

\* handleAppendEntriesRequest, processApply: a leader only appends to its log
\* while it leads: no request that waited for logMu cuts what it has appended.
THEOREM LeadersOnlyAppend ==
    ASSUME Hazards \cap {"append", "broadcast", "log", "mux", "restart"} = {}
    PROVE  Spec => LeaderAppendOnly
<1>1. ASSUME TypeInv, VoteInv, LinkInv, [Next]_vars, NEW n \in Node, state[n] = "leader"
      PROVE  IsPrefix(log[n], log'[n])
  <2> DEFINE a == log[n]
             b == log'[n]
  <2>1. a \in Seq(Entry)
    BY <1>1, StepTypes
  <2>2. b = a \/ \E e \in Entry : b = Append(a, e)
    BY <1>1, LeadersAppend
  <2> HIDE DEF a, b
  <2>3. /\ b \in Seq(Entry) /\ Len(a) \in Nat /\ Len(b) \in Nat /\ Len(a) <= Len(b)
        /\ \A j \in 1 .. Len(a) : a[j] = b[j]
    <3>1. CASE b = a
      BY <2>1, <3>1, LenProperties
    <3>2. ASSUME NEW e \in Entry, b = Append(a, e)
          PROVE  /\ b \in Seq(Entry) /\ Len(a) \in Nat /\ Len(b) \in Nat /\ Len(a) <= Len(b)
                 /\ \A j \in 1 .. Len(a) : a[j] = b[j]
      <4>1. /\ b \in Seq(Entry) /\ Len(b) = Len(a) + 1 /\ Len(a) \in Nat
            /\ \A j \in 1 .. Len(a) : a[j] = b[j]
        BY <2>1, <3>2, AppendLinks
      <4> QED
        BY <4>1
    <3> QED
      BY <2>2, <3>1, <3>2
  <2>4. SubSeq(a, 1, Len(a)) = SubSeq(b, 1, Len(a))
    BY <2>1, <2>3, SameFirstPart
  <2>5. IsPrefix(a, b)
    BY <2>3, <2>4 DEF IsPrefix
  <2> QED
    BY <2>5 DEF a, b
<1>3. TypeInv /\ VoteInv /\ LinkInv /\ [Next]_vars
        => [\A n \in Node : /\ state[n] = "leader" /\ state'[n] = "leader"
                            /\ currentTerm'[n] = currentTerm[n]
                            => IsPrefix(log[n], log'[n])]_vars
  BY <1>1
<1> QED
  BY <1>3, LinksAlways, PTL DEF Spec, LeaderAppendOnly
=============================================================================
