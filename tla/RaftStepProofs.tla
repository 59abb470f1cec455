-------------------------- MODULE RaftStepProofs --------------------------
(***************************************************************************)
(* What candidates, requests and replies of the Raft replicator carry, for *)
(* every cluster and every bound, and how each step changes the logs, the  *)
(* commit indexes and the replies under way: what the proofs about commits *)
(* rest on.  Elections, votes, requests and replies overtake each other,   *)
(* are late or lost; whoever has checked that it leads sends, appends and  *)
(* commits before it can be deposed, and who has checked a request's term  *)
(* reaches its log.                                                        *)
(***************************************************************************)
EXTENDS RaftProofs

-----------------------------------------------------------------------------
(***************************************************************************)
(* Candidates.                                                             *)
(***************************************************************************)
\* Node c has reached term t, does not lead, and nobody else has won it.
Standing(c, t) ==
    /\ currentTerm[c] = t /\ state[c] # "leader"
    /\ \A d \in Node : HasQuorum(d, t) => d = c

\* Votes, campaigns and requests for votes are in no term the candidate has not
\* reached; a request shows the end of the log its candidate still has.
CampaignInv ==
    /\ \A p \in Node, t \in Term, c \in Node : <<p, t, c>> \in ballots => t <= currentTerm[c]
    /\ \A n \in Node : \A c \in pend[n] : c.pc = "elect" => c.term <= currentTerm[n]
    /\ \A m \in msgs : m.type = "VoteReq" =>
          /\ m.term <= currentTerm[m.from]
          /\ Standing(m.from, m.term) =>
                m.lastLogTerm = LastTerm(log[m.from]) /\ m.lastLogIndex = Len(log[m.from])

\* What waits to send or to commit is the leader's.
ContInv ==
    \A n \in Node : \A c \in pend[n] :
        c.pc \in {"send", "commit"} => state[n] = "leader" /\ currentTerm[n] = c.term

-----------------------------------------------------------------------------
(***************************************************************************)
(* What requests and replies carry.                                        *)
(***************************************************************************)
Answers == {m \in msgs : m.type = "AppendResp"}

\* Who sent a request has led in its term.
CallInv ==
    /\ \A m \in Requests : MadeBy(m.from, m.term) /\ m.waiter.term = m.term
    /\ \A m \in Answers : MadeBy(m.to, m.waiter.term)

\* No entry is of a term above its holder's.
TermsInv ==
    /\ \A n \in Node : \A i \in DOMAIN log[n] : log[n][i].term <= currentTerm[n]
    /\ \A m \in Requests : \A i \in DOMAIN m.entries : m.entries[i].term <= m.term

\* Terms do not decrease along a log, and start once.
OrderInv ==
    /\ \A k \in Links : k.before <= k.entry.term
    /\ \A k, l \in Links : k.entry.term = l.entry.term /\ k.before < k.entry.term => k.index <= l.index

\* A request of a leader is a part of its log.
PartOf(m, lg) ==
    /\ m.prevLogIndex + Len(m.entries) <= Len(lg)
    /\ m.prevLogTerm = TermAt(lg, m.prevLogIndex)
    /\ \A i \in DOMAIN m.entries : m.entries[i] = lg[m.prevLogIndex + i]

SourceInv ==
    \A n \in Node : state[n] = "leader" =>
        \A m \in Requests : m.term = currentTerm[n] => PartOf(m, log[n])

\* A leader sends and counts nothing beyond its log.
PeerInv ==
    \A n \in Node : state[n] = "leader" =>
        /\ \A p \in Node : nextIndex[n][p] <= Len(log[n]) + 1 /\ matchIndex[n][p] <= Len(log[n])
        /\ \A m \in Answers : m.to = n /\ m.waiter.term = currentTerm[n] =>
              m.conflict <= Len(log[n]) /\ m.match <= Len(log[n])

CarryInv == CallInv /\ TermsInv /\ OrderInv /\ SourceInv /\ PeerInv

-----------------------------------------------------------------------------
(***************************************************************************)
(* What every step does to terms, roles and candidates.                    *)
(***************************************************************************)
Base == TypeInv /\ VoteInv /\ ReplicationInv /\ LinkInv

\* Ballots stay, terms grow, and a leader of a term leads as long as it is in it.
LEMMA StepRoles ==
    ASSUME Base, [Next]_vars, "mux" \notin Hazards, "restart" \notin Hazards
    PROVE  /\ ballots \subseteq ballots'
           /\ \A n \in Node : currentTerm'[n] >= currentTerm[n]
           /\ \A n \in Node : state[n] = "leader" /\ currentTerm'[n] = currentTerm[n] => state'[n] = "leader"
<1>t. /\ Term \subseteq Nat /\ currentTerm \in [Node -> Term]
      /\ state \in [Node -> {"follower", "candidate", "leader"}]
      /\ \A m \in msgs : m.from \in Node /\ m.to \in Node /\ m.term \in Term /\ m.from # m.to
  BY StepTypes DEF Base
<1>n. \A n \in Node : currentTerm[n] \in Nat /\ currentTerm[n] >= currentTerm[n]
  <2>1. \A n \in Node : currentTerm[n] \in Nat
    BY <1>t
  <2> QED
    BY <2>1
<1>1. CASE UNCHANGED <<state, currentTerm>> /\ ballots \subseteq ballots'
  BY <1>n, <1>1
<1>2. ASSUME NEW n \in Node, NewTerm(n)
      PROVE  /\ ballots \subseteq ballots'
             /\ \A k \in Node : currentTerm'[k] >= currentTerm[k]
             /\ \A k \in Node : state[k] = "leader" /\ currentTerm'[k] = currentTerm[k] => state'[k] = "leader"
  <2>1. PICK t \in Term, s \in {"follower", "candidate"} :
          /\ t > currentTerm[n]
          /\ state' = [state EXCEPT ![n] = s]
          /\ currentTerm' = [currentTerm EXCEPT ![n] = t]
    BY <1>2 DEF NewTerm
  <2>2. ballots \subseteq ballots'
    BY <1>2 DEF NewTerm, NoRequest
  <2>3. /\ currentTerm'[n] = t /\ t # currentTerm[n] /\ t >= currentTerm[n]
        /\ \A k \in Node \ {n} : currentTerm'[k] = currentTerm[k] /\ state'[k] = state[k]
    <3>1. t \in Nat /\ t # currentTerm[n] /\ t >= currentTerm[n]
      BY <1>t, <1>n, <2>1
    <3> QED
      BY <1>t, <2>1, <3>1
  <2> QED
    BY <1>n, <2>2, <2>3
<1>3. ASSUME NEW n \in Node, Lead(n)
      PROVE  /\ ballots \subseteq ballots'
             /\ \A k \in Node : currentTerm'[k] >= currentTerm[k]
             /\ \A k \in Node : state[k] = "leader" /\ currentTerm'[k] = currentTerm[k] => state'[k] = "leader"
  <2>1. /\ state' = [state EXCEPT ![n] = "leader"] /\ UNCHANGED <<currentTerm, ballots>>
    BY <1>3 DEF Lead
  <2>2. \A k \in Node : state[k] = "leader" => state'[k] = "leader"
    BY <1>t, <2>1
  <2> QED
    BY <1>n, <2>1, <2>2
<1>4. ASSUME NEW n \in Node, NEW m \in msgs, Accept(n, m)
      PROVE  /\ ballots \subseteq ballots'
             /\ \A k \in Node : currentTerm'[k] >= currentTerm[k]
             /\ \A k \in Node : state[k] = "leader" /\ currentTerm'[k] = currentTerm[k] => state'[k] = "leader"
  <2>1. /\ m.type = "AppendReq" /\ m.to = n /\ m.term >= currentTerm[n]
        /\ currentTerm' = [currentTerm EXCEPT ![n] = m.term]
        /\ state' = [state EXCEPT ![n] = "follower"]
        /\ ballots' = ballots
    BY <1>4 DEF Accept
  <2>2. HasQuorum(m.from, m.term)
    BY <2>1 DEF Base, ReplicationInv, SenderInv
  <2>3. /\ currentTerm'[n] = m.term
        /\ \A k \in Node \ {n} : currentTerm'[k] = currentTerm[k] /\ state'[k] = state[k]
    BY <1>t, <2>1
  <2>4. ~(state[n] = "leader" /\ m.term = currentTerm[n])
    <3> SUFFICES ASSUME state[n] = "leader", m.term = currentTerm[n] PROVE FALSE
      OBVIOUS
    <3>1. HasQuorum(n, m.term)
      BY DEF Base, VoteInv, LeaderInv
    <3>2. m.from = n
      BY <1>t, <2>2, <3>1, QuorumUnique DEF Base
    <3> QED
      BY <1>t, <2>1, <3>2
  <2> QED
    BY <1>n, <2>1, <2>3, <2>4
<1>5. Quiet => UNCHANGED <<state, currentTerm>> /\ ballots \subseteq ballots'
  BY DEF Quiet, NoRequest
<1>6. ASSUME NEW n \in Node, StartStep(n) \/ Send(n) \/ Extend(n)
      PROVE  UNCHANGED <<state, currentTerm>> /\ ballots \subseteq ballots'
  BY <1>6 DEF StartStep, Start, Send, Extend
<1>7. ASSUME NEW n \in Node, NEW m, Merge(n, m)
      PROVE  UNCHANGED <<state, currentTerm>> /\ ballots \subseteq ballots'
  BY <1>7 DEF Merge, NoRequest
<1> QED
  BY <1>1, <1>2, <1>3, <1>4, <1>5, <1>6, <1>7, StepKinds DEF Base

\* Who has led a term leads it or has left it, from then on.
LEMMA MadeKept ==
    ASSUME TypeInv, TypeInv', ballots \subseteq ballots',
           \A n \in Node : currentTerm'[n] >= currentTerm[n],
           \A n \in Node : state[n] = "leader" /\ currentTerm'[n] = currentTerm[n] => state'[n] = "leader",
           NEW c \in Node, NEW t \in Term, MadeBy(c, t)
    PROVE  MadeBy(c, t)'
<1>1. currentTerm[c] \in Nat /\ currentTerm'[c] \in Nat /\ t \in Nat
  BY BoundsAssumption DEF TypeInv, ServerTypes, Term
<1>2. HasQuorum(c, t)'
  BY BallotsGrow DEF MadeBy
<1>3. currentTerm[c] >= t /\ (currentTerm[c] = t => state[c] = "leader") /\ currentTerm'[c] >= currentTerm[c]
  BY DEF MadeBy
<1>4. currentTerm'[c] >= t
  BY <1>1, <1>3
<1>5. currentTerm'[c] = t => state'[c] = "leader"
  <2>1. currentTerm'[c] = t => currentTerm[c] = t
    BY <1>1, <1>3
  <2> QED
    BY <1>3, <2>1
<1> QED
  BY <1>2, <1>4, <1>5 DEF MadeBy

\* Nobody starts to stand for a term it had reached.
LEMMA StandingKept ==
    ASSUME TypeInv, TypeInv', ballots \subseteq ballots',
           \A n \in Node : currentTerm'[n] >= currentTerm[n],
           \A n \in Node : state[n] = "leader" /\ currentTerm'[n] = currentTerm[n] => state'[n] = "leader",
           NEW c \in Node, NEW t \in Term, Standing(c, t)'
    PROVE  Standing(c, t) \/ currentTerm[c] < t
<1>1. currentTerm[c] \in Nat /\ currentTerm'[c] \in Nat /\ t \in Nat
  BY BoundsAssumption DEF TypeInv, ServerTypes, Term
<1>2. /\ currentTerm'[c] = t /\ state'[c] # "leader"
      /\ \A d \in Node : HasQuorum(d, t)' => d = c
  BY DEF Standing
<1>3. \A d \in Node : HasQuorum(d, t) => HasQuorum(d, t)'
  BY BallotsGrow
<1>4. currentTerm[c] = t => state[c] # "leader"
  BY <1>2
<1>5. currentTerm[c] < t \/ currentTerm[c] = t
  BY <1>1, <1>2
<1> QED
  BY <1>2, <1>3, <1>4, <1>5 DEF Standing

\* The log of who stands for a term does not change.
LEMMA StandingLog ==
    ASSUME Base, [Next]_vars, "mux" \notin Hazards, "restart" \notin Hazards,
           NEW c \in Node, NEW t \in Term, Standing(c, t)'
    PROVE  log'[c] = log[c]
<1>0. log \in [Node -> Seq(Entry)]
  BY StepTypes DEF Base
<1>1. /\ Quiet => log' = log
      /\ \A n \in Node : NewTerm(n) \/ Lead(n) \/ StartStep(n) \/ Send(n) => log' = log
      /\ \A n \in Node : \A m \in msgs : Accept(n, m) => log' = log
  BY DEF Quiet, NewTerm, Lead, StartStep, Start, Send, Accept
<1>2. ASSUME NEW n \in Node, Extend(n) PROVE log'[c] = log[c]
  <2>1. PICK d \in pend[n], v \in Command :
          /\ d.pc = "append"
          /\ log' = [log EXCEPT ![n] = Append(log[n], [term |-> d.term, cmd |-> v])]
    BY <1>2 DEF Extend
  <2>2. state[n] = "leader" /\ state' = state
    BY <1>2, <2>1 DEF Extend, Base, ReplicationInv, ApplierInv
  <2>3. n # c
    BY <2>2 DEF Standing
  <2> QED
    BY <1>0, <2>1, <2>3
<1>3. ASSUME NEW n \in Node, NEW d \in pend[n], d.pc = "log", Merge(n, d.req) PROVE log'[c] = log[c]
  <2>1. /\ log' = [log EXCEPT ![n] = MergeEntries(log[n], d.req.prevLogIndex, d.req.entries)]
        /\ UNCHANGED <<state, currentTerm>> /\ ballots \subseteq ballots'
    BY <1>3 DEF Merge, NoRequest
  <2>2. currentTerm[n] = d.req.term /\ HasQuorum(d.req.from, d.req.term)
    BY <1>3 DEF Base, LinkInv, WaiterInv, ReplicationInv, SenderInv
  <2>3. d.req.from \in Node /\ d.req.from # n
    BY <1>3, StepTypes DEF Base, AppendReqs
  <2>4. HasQuorum(d.req.from, d.req.term)'
    BY <2>1, <2>2, BallotsGrow
  <2>5. n # c
    <3> SUFFICES ASSUME n = c PROVE FALSE
      OBVIOUS
    <3>1. d.req.term = t
      BY <2>1, <2>2 DEF Standing
    <3> QED
      BY <2>3, <2>4, <3>1 DEF Standing
  <2> QED
    BY <1>0, <2>1, <2>5
<1> QED
  BY <1>1, <1>2, <1>3, StepKinds DEF Base

\* No vote is cast or asked for.
NoVote ==
    /\ ballots' = ballots
    /\ \A m \in msgs' : m.type = "VoteReq" => m \in msgs
    /\ \A n \in Node : \A c \in pend'[n] : c.pc = "elect" => c \in pend[n]

\* Votes come from three actions.
LEMMA VoteKinds ==
    ASSUME Base, [Next]_vars, "mux" \notin Hazards, "restart" \notin Hazards
    PROVE  \/ NoVote
           \/ \E n \in Node : StartElection(n)
           \/ \E n \in Node, t \in Term : RequestVotes(n, t)
           \/ \E m \in msgs : HandleVoteRequest(m.to, m)
<1>t. DOMAIN pend = Node /\ \A m \in msgs : m.to \in Node
  BY StepTypes DEF Base
<1> USE <1>t
<1>1. CASE UNCHANGED vars
  BY <1>1 DEF vars, NoVote
<1>2. ASSUME NEW n \in Node, NEW t \in Term, BecomeLeader(n, t) PROVE NoVote
  <2>1. \A c \in SendConts(n, t) : c.pc = "send"
    BY DEF SendConts, SendCont
  <2>2. ballots' = ballots /\ msgs' = msgs
    BY <1>2 DEF BecomeLeader
  <2>3. \/ pend' = [pend EXCEPT ![n] = @ \ {LeadCont(t)}]
        \/ pend' = [pend EXCEPT ![n] = (@ \ {LeadCont(t)}) \cup SendConts(n, t)]
    BY <1>2 DEF BecomeLeader
  <2>4. \A k \in Node : \A c \in pend'[k] : c \in pend[k] \/ c \in SendConts(n, t)
    BY <2>3
  <2> QED
    BY <2>1, <2>2, <2>4 DEF NoVote
<1>3. ASSUME NEW n \in Node, (\E p \in Node : Heartbeat(n, p)) \/ (\E v \in Command : ProcessApply(n, v))
      PROVE  NoVote
  <2>1. ASSUME NEW p \in Node, Heartbeat(n, p) PROVE NoVote
    BY <2>1 DEF Heartbeat, NoVote, SendCont
  <2>2. ASSUME NEW v \in Command, ProcessApply(n, v) PROVE NoVote
    BY <2>2 DEF ProcessApply, NoVote, AppendCont
  <2> QED
    BY <1>3, <2>1, <2>2
<1>4. ASSUME NEW n \in Node, BroadcastAppend(n) PROVE NoVote
  <2>1. \A c \in SendConts(n, currentTerm[n]) : c.pc = "send"
    BY DEF SendConts, SendCont
  <2> QED
    BY <1>4, <2>1 DEF BroadcastAppend, NoVote
<1>5. ASSUME NEW n \in Node, NEW t \in Term, NEW v \in Command, AppendToLog(n, t, v) PROVE NoVote
  <2>1. BroadcastCont.pc = "broadcast"
    BY DEF BroadcastCont
  <2>2. \A k \in Node : \A c \in pend'[k] : c \in pend[k] \/ c = BroadcastCont
    BY <1>5 DEF AppendToLog
  <2>3. ballots' = ballots /\ msgs' = msgs
    BY <1>5 DEF AppendToLog
  <2> QED
    BY <2>1, <2>2, <2>3 DEF NoVote
<1>6. ASSUME NEW n \in Node, AdvanceCommitRead(n) \/ (\E t \in Term : AdvanceCommitIndex(n, t)) PROVE NoVote
  <2>1. CASE AdvanceCommitRead(n)
    <3>1. CommitCont(currentTerm[n]).pc = "commit"
      BY DEF CommitCont
    <3>2. \A k \in Node : \A c \in pend'[k] : c \in pend[k] \/ c = CommitCont(currentTerm[n])
      BY <2>1 DEF AdvanceCommitRead
    <3> QED
      BY <2>1, <3>1, <3>2 DEF AdvanceCommitRead, NoVote
  <2>2. ASSUME NEW t \in Term, AdvanceCommitIndex(n, t) PROVE NoVote
    BY <2>2 DEF AdvanceCommitIndex, NoVote
  <2> QED
    BY <1>6, <2>1, <2>2
<1>7. ASSUME NEW n \in Node, NEW p \in Node, NEW t \in Term, ReplicateLogToPeer(n, p, t) PROVE NoVote
  <2>1. AppendReq(n, p, t, nextIndex[n][p] - 1, log[n], commitIndex[n]).type = "AppendReq"
    BY DEF AppendReq
  <2>2. \A m \in msgs' : m \in msgs \/ m = AppendReq(n, p, t, nextIndex[n][p] - 1, log[n], commitIndex[n])
    BY <1>7 DEF ReplicateLogToPeer
  <2>3. ballots' = ballots /\ \A k \in Node : pend'[k] \subseteq pend[k]
    BY <1>7 DEF ReplicateLogToPeer
  <2> QED
    BY <2>1, <2>2, <2>3 DEF NoVote
<1>8. ASSUME NEW n \in Node, NEW c \in pend[n], c.pc = "log", AppendEntriesToLog(n, c.req) PROVE NoVote
  <2>1. \A m \in msgs' : m \in msgs \/ m.type = "AppendResp"
    BY <1>8 DEF AppendEntriesToLog, AppendResp
  <2>2. ballots' = ballots /\ \A k \in Node : pend'[k] \subseteq pend[k]
    BY <1>8 DEF AppendEntriesToLog
  <2> QED
    BY <2>1, <2>2 DEF NoVote
<1>9. ASSUME NEW m \in msgs, RequestVoteFromPeer(m.to, m) PROVE NoVote
  <2>1. LeadCont(m.waiter.term).pc = "lead"
    BY DEF LeadCont
  <2>2. msgs' = msgs \ {m} /\ ballots' = ballots
    BY <1>9 DEF RequestVoteFromPeer
  <2>3. pend' = pend \/ pend' = [pend EXCEPT ![m.to] = @ \cup {LeadCont(m.waiter.term)}]
    BY <1>9 DEF RequestVoteFromPeer
  <2>4. \A k \in Node : \A c \in pend'[k] : c \in pend[k] \/ c = LeadCont(m.waiter.term)
    BY <2>3
  <2> QED
    BY <2>1, <2>2, <2>4 DEF NoVote
<1>10. ASSUME NEW m \in msgs, HandleAppendEntriesResponse(m.to, m) PROVE NoVote
  <2>1. SignalCont.pc = "signal"
    BY DEF SignalCont
  <2>2. msgs' = msgs \ {m} /\ ballots' = ballots
    BY <1>10 DEF HandleAppendEntriesResponse
  <2>3. pend' = pend \/ pend' = [pend EXCEPT ![m.to] = @ \cup {SignalCont}]
    BY <1>10 DEF HandleAppendEntriesResponse
  <2>4. \A k \in Node : \A c \in pend'[k] : c \in pend[k] \/ c = SignalCont
    BY <2>3
  <2> QED
    BY <2>1, <2>2, <2>4 DEF NoVote
<1>11. ASSUME NEW m \in msgs, HandleAppendEntries(m.to, m) PROVE NoVote
  <2>1. LogCont(m).pc = "log" /\ AppendResp(m, currentTerm[m.to], FALSE, 0, 0).type = "AppendResp"
    BY DEF LogCont, AppendResp
  <2>2. ballots' = ballots /\ \A x \in msgs' : x \in msgs \/ x = AppendResp(m, currentTerm[m.to], FALSE, 0, 0)
    BY <1>11 DEF HandleAppendEntries, Reply
  <2>3. pend' = pend \/ pend' = [pend EXCEPT ![m.to] = @ \cup {LogCont(m)}]
    BY <1>11 DEF HandleAppendEntries
  <2>4. \A k \in Node : \A c \in pend'[k] : c \in pend[k] \/ c = LogCont(m)
    BY <2>3
  <2> QED
    BY <2>1, <2>2, <2>4 DEF NoVote
<1>12. ASSUME NEW m \in msgs, LoseMessage(m) PROVE NoVote
  BY <1>12 DEF LoseMessage, NoVote
<1>13. \A n \in Node : ~Restart(n)
  BY DEF Restart
<1>14. \A m1, m2 \in msgs : ~CrossReplies(m1, m2)
  BY DEF CrossReplies
<1>15. ASSUME NEW n \in Node, SectionStep(n) PROVE NoVote \/ \E t \in Term : RequestVotes(n, t)
  BY <1>2, <1>4, <1>5, <1>6, <1>7, <1>8, <1>15 DEF SectionStep
<1> QED
  BY <1>1, <1>3, <1>9, <1>10, <1>11, <1>12, <1>13, <1>14, <1>15 DEF Next

\* Who votes for a candidate that stands has no log that is ahead of its log.
GoodVotes ==
    \A p \in Node, t \in Term, c \in Node :
        <<p, t, c>> \in ballots' =>
            \/ <<p, t, c>> \in ballots
            \/ /\ t <= currentTerm'[c]
               /\ Standing(c, t)' => UpToDate(LastTerm(log[c]), Len(log[c]), log[p])

\* Terms and indexes at the end of a log are numbers.
LEMMA LastTypes ==
    ASSUME NEW lg \in Seq(Entry)
    PROVE  /\ LastTerm(lg) \in Nat /\ Len(lg) \in Nat /\ DOMAIN lg = 1 .. Len(lg)
           /\ \A i \in DOMAIN lg : lg[i] \in Entry /\ lg[i].term \in Nat
           /\ \A i : TermAt(lg, i) \in Nat
<1>1. Len(lg) \in Nat /\ DOMAIN lg = 1 .. Len(lg) /\ \A i \in DOMAIN lg : lg[i] \in Entry
  BY LenProperties, ElementOfSeq
<1>2. \A e \in Entry : e.term \in Nat
  BY BoundsAssumption DEF Entry, Term
<1>3. \A i : TermAt(lg, i) \in Nat
  BY <1>1, <1>2 DEF TermAt
<1> QED
  BY <1>1, <1>2, <1>3 DEF LastTerm

\* Votes that are cast are good ones.
LEMMA VotesAreGood ==
    ASSUME Base, Base', CampaignInv, [Next]_vars, "mux" \notin Hazards, "restart" \notin Hazards
    PROVE  GoodVotes
<1>t. /\ DOMAIN pend = Node /\ Term \subseteq Nat /\ currentTerm \in [Node -> Term]
      /\ log \in [Node -> Seq(Entry)]
      /\ \A m \in msgs : m.from \in Node /\ m.to \in Node /\ m.term \in Term /\ m.from # m.to
  BY StepTypes DEF Base
<1>r. /\ ballots \subseteq ballots'
      /\ \A n \in Node : currentTerm'[n] >= currentTerm[n]
      /\ \A n \in Node : state[n] = "leader" /\ currentTerm'[n] = currentTerm[n] => state'[n] = "leader"
  BY StepRoles
<1>n. \A n \in Node : currentTerm[n] \in Nat /\ currentTerm'[n] \in Nat
  BY <1>t, BoundsAssumption DEF Base, TypeInv, ServerTypes, Term
<1>1. CASE NoVote
  BY <1>1 DEF NoVote, GoodVotes
<1>2. ASSUME NEW n \in Node, StartElection(n) PROVE GoodVotes
  <2> DEFINE u == currentTerm[n] + 1
  <2>1. ballots' = ballots \cup {<<n, u, n>>} /\ currentTerm'[n] = u
    BY <1>t, <1>2 DEF StartElection
  <2>2. UpToDate(LastTerm(log[n]), Len(log[n]), log[n])
    <3>1. LastTerm(log[n]) \in Nat /\ Len(log[n]) \in Nat
      BY <1>t, LastTypes
    <3> QED
      BY <3>1 DEF UpToDate
  <2>3. u <= currentTerm'[n]
    BY <1>n, <2>1
  <2> HIDE DEF u
  <2> QED
    BY <2>1, <2>2, <2>3 DEF GoodVotes
<1>3. ASSUME NEW n \in Node, NEW t \in Term, RequestVotes(n, t) PROVE GoodVotes
  BY <1>3 DEF RequestVotes, GoodVotes
<1>4. ASSUME NEW m \in msgs, HandleVoteRequest(m.to, m) PROVE GoodVotes
  <2> DEFINE n == m.to
             c == m.from
  <2>1. n \in Node /\ c \in Node /\ m.type = "VoteReq" /\ m.term \in Term
    BY <1>t, <1>4 DEF HandleVoteRequest
  <2>2. \/ ballots' = ballots
        \/ /\ ballots' = ballots \cup {<<n, m.term, c>>}
           /\ UpToDate(m.lastLogTerm, m.lastLogIndex, log[n])
    BY <1>4 DEF HandleVoteRequest
  <2>3. m.term <= currentTerm[c]
    BY <2>1 DEF CampaignInv
  <2>4. m.term <= currentTerm'[c] /\ ~(currentTerm[c] < m.term)
    <3>1. m.term \in Nat /\ currentTerm[c] \in Nat /\ currentTerm'[c] \in Nat /\ currentTerm'[c] >= currentTerm[c]
      BY <1>t, <1>r, <1>n, <2>1
    <3> QED
      BY <2>3, <3>1
  <2>5. Standing(c, m.term)' => m.lastLogTerm = LastTerm(log[c]) /\ m.lastLogIndex = Len(log[c])
    <3> SUFFICES ASSUME Standing(c, m.term)'
                 PROVE  m.lastLogTerm = LastTerm(log[c]) /\ m.lastLogIndex = Len(log[c])
      OBVIOUS
    <3>1. Standing(c, m.term)
      BY <1>r, <2>1, <2>4, StandingKept DEF Base
    <3> QED
      BY <2>1, <3>1 DEF CampaignInv
  <2> QED
    BY <2>2, <2>4, <2>5 DEF GoodVotes
<1> QED
  BY <1>1, <1>2, <1>3, <1>4, VoteKinds

\* Campaigns stay in terms their candidates have reached.
LEMMA NextCampaignInv ==
    ASSUME Base, Base', CampaignInv, [Next]_vars, "mux" \notin Hazards, "restart" \notin Hazards
    PROVE  CampaignInv'
<1>t. /\ DOMAIN pend = Node /\ Term \subseteq Nat /\ currentTerm \in [Node -> Term]
      /\ \A m \in msgs : m.from \in Node /\ m.to \in Node /\ m.term \in Term /\ m.from # m.to
  BY StepTypes DEF Base
<1>r. /\ ballots \subseteq ballots'
      /\ \A n \in Node : currentTerm'[n] >= currentTerm[n]
      /\ \A n \in Node : state[n] = "leader" /\ currentTerm'[n] = currentTerm[n] => state'[n] = "leader"
  BY StepRoles
<1>n. \A n \in Node : currentTerm[n] \in Nat /\ currentTerm'[n] \in Nat
  BY <1>t, BoundsAssumption DEF Base, TypeInv, ServerTypes, Term
<1>1. ASSUME NEW p \in Node, NEW t \in Term, NEW c \in Node, <<p, t, c>> \in ballots' PROVE t <= currentTerm'[c]
  <2>1. CASE <<p, t, c>> \in ballots
    <3>1. t <= currentTerm[c] /\ t \in Nat
      BY <1>t, <2>1 DEF CampaignInv
    <3> QED
      BY <1>r, <1>n, <3>1
  <2>2. CASE <<p, t, c>> \notin ballots
    BY <1>1, <2>2, VotesAreGood DEF GoodVotes
  <2> QED
    BY <2>1, <2>2
<1>2. ASSUME NEW n \in Node, NEW c \in pend[n], c.pc = "elect" PROVE c.term <= currentTerm'[n]
  <2>1. c.term <= currentTerm[n]
    BY <1>2 DEF CampaignInv
  <2>2. c.term \in Nat
    BY <1>t, <1>2, ContsHold DEF Base, ContOK
  <2> QED
    BY <1>r, <1>n, <2>1, <2>2
<1>3. ASSUME NEW m \in msgs, m.type = "VoteReq"
      PROVE  /\ m.term <= currentTerm'[m.from]
             /\ Standing(m.from, m.term)' =>
                   m.lastLogTerm = LastTerm(log'[m.from]) /\ m.lastLogIndex = Len(log'[m.from])
  <2>1. m.term <= currentTerm[m.from] /\ m.term \in Nat
    BY <1>t, <1>3 DEF CampaignInv
  <2>2. m.term <= currentTerm'[m.from] /\ ~(currentTerm[m.from] < m.term)
    BY <1>t, <1>r, <1>n, <2>1
  <2>3. ASSUME Standing(m.from, m.term)'
        PROVE  m.lastLogTerm = LastTerm(log'[m.from]) /\ m.lastLogIndex = Len(log'[m.from])
    <3>1. Standing(m.from, m.term)
      BY <1>t, <1>r, <2>2, <2>3, StandingKept DEF Base
    <3>2. log'[m.from] = log[m.from]
      BY <1>t, <2>3, StandingLog
    <3> QED
      BY <1>3, <3>1, <3>2 DEF CampaignInv
  <2> QED
    BY <2>2, <2>3
<1> DEFINE Elects == \A n \in Node : \A c \in pend'[n] : c.pc = "elect" => c.term <= currentTerm'[n]
           Asks == \A m \in msgs' : m.type = "VoteReq" =>
                      /\ m.term <= currentTerm'[m.from]
                      /\ Standing(m.from, m.term)' =>
                            m.lastLogTerm = LastTerm(log'[m.from]) /\ m.lastLogIndex = Len(log'[m.from])
<1>4. Elects
  <2>1. CASE NoVote
    BY <1>2, <2>1 DEF NoVote
  <2>2. ASSUME NEW n \in Node, StartElection(n) PROVE Elects
    <3>1. \A k \in Node : \A c \in pend'[k] : c \in pend[k] \/ (k = n /\ c = ElectCont(currentTerm'[n]))
      BY <1>t, <2>2 DEF StartElection
    <3>2. ElectCont(currentTerm'[n]).term = currentTerm'[n] /\ currentTerm'[n] <= currentTerm'[n]
      BY <1>n DEF ElectCont
    <3> QED
      BY <1>2, <3>1, <3>2
  <2>3. ASSUME NEW n \in Node, NEW t \in Term, RequestVotes(n, t) PROVE Elects
    <3>1. LeadCont(t).pc = "lead" /\ \A k \in Node : \A c \in pend'[k] : c \in pend[k] \/ c = LeadCont(t)
      BY <1>t, <2>3 DEF RequestVotes, LeadCont
    <3> QED
      BY <1>2, <3>1
  <2>4. ASSUME NEW m \in msgs, HandleVoteRequest(m.to, m) PROVE Elects
    BY <1>2, <2>4 DEF HandleVoteRequest
  <2> QED
    BY <2>1, <2>2, <2>3, <2>4, VoteKinds
<1>5. Asks
  <2>1. CASE NoVote
    BY <1>3, <2>1 DEF NoVote
  <2>2. ASSUME NEW n \in Node, StartElection(n) PROVE Asks
    BY <1>3, <2>2 DEF StartElection
  <2>3. ASSUME NEW n \in Node, NEW t \in Term, RequestVotes(n, t) PROVE Asks
    <3>1. /\ UNCHANGED <<currentTerm, log>> /\ ElectCont(t) \in pend[n]
          /\ \A m \in msgs' : m \in msgs \/ \E p \in Peers(n) : m = VoteReq(n, p, t, log[n])
      BY <2>3 DEF RequestVotes, serverVars, logVars
    <3>2. ElectCont(t).pc = "elect" /\ ElectCont(t).term = t
      BY DEF ElectCont
    <3>3. t <= currentTerm'[n]
      BY <1>2, <3>1, <3>2
    <3>4. ASSUME NEW p PROVE LET m == VoteReq(n, p, t, log[n])
                             IN  /\ m.from = n /\ m.term = t
                                 /\ m.lastLogTerm = LastTerm(log[n]) /\ m.lastLogIndex = Len(log[n])
      BY DEF VoteReq
    <3> QED
      BY <1>3, <3>1, <3>3, <3>4
  <2>4. ASSUME NEW m \in msgs, HandleVoteRequest(m.to, m) PROVE Asks
    <3>1. \A x \in msgs' : x.type = "VoteReq" => x \in msgs
      BY <2>4 DEF HandleVoteRequest, Reply, VoteResp
    <3> QED
      BY <1>3, <3>1
  <2> QED
    BY <2>1, <2>2, <2>3, <2>4, VoteKinds
<1> QED
  BY <1>1, <1>4, <1>5 DEF CampaignInv

-----------------------------------------------------------------------------
(***************************************************************************)
(* What steps do to logs, commit indexes and replies.                      *)
(***************************************************************************)
\* A request is refused for what it builds on.
Refusal(m) ==
    /\ ~m.success /\ m.match = 0
    /\ \E r \in Requests : m.to = r.from /\ m.waiter = r.waiter /\ m.conflict <= r.prevLogIndex

\* A leader of this term takes over what an answer says.
Counts(n, p) ==
    /\ \/ matchIndex'[n][p] = matchIndex[n][p]
       \/ \E m \in Answers : /\ m.success /\ m.from = p /\ m.to = n
                             /\ m.waiter.term = currentTerm[n] /\ matchIndex'[n][p] = m.match
    /\ \/ nextIndex'[n][p] <= nextIndex[n][p]
       \/ \E m \in Answers : /\ m.to = n /\ m.waiter.term = currentTerm[n]
                             /\ nextIndex'[n][p] \in {m.match + 1, m.conflict}

\* Logs stay, nothing is committed or sent, and nobody starts to lead.
Calm ==
    /\ UNCHANGED logVars
    /\ Requests' \subseteq Requests
    /\ \A m \in Answers' : m \in Answers \/ Refusal(m)
    /\ \A n \in Node : state'[n] = "leader" =>
          /\ state[n] = "leader" /\ currentTerm'[n] = currentTerm[n]
          /\ \A p \in Node : Counts(n, p)

\* becomeLeader goes through.
Leads(n) ==
    /\ state[n] # "leader" /\ HasQuorum(n, currentTerm[n])
    /\ state' = [state EXCEPT ![n] = "leader"]
    /\ nextIndex' = [nextIndex EXCEPT ![n] = [p \in Node |-> Len(log[n]) + 1]]
    /\ matchIndex' = [matchIndex EXCEPT ![n] = [p \in Node |-> 0]]
    /\ Requests' \subseteq Requests /\ Answers' \subseteq Answers
    /\ UNCHANGED <<currentTerm, logVars, ballots>>

\* A leader sends a request.
Sends(n) ==
    /\ state[n] = "leader"
    /\ \E p \in Peers(n) :
          Requests' \subseteq Requests \cup
              {AppendReq(n, p, currentTerm[n], nextIndex[n][p] - 1, log[n], commitIndex[n])}
    /\ Answers' \subseteq Answers
    /\ UNCHANGED <<state, currentTerm, logVars, peerVars, ballots>>

\* A request is merged into a log and answered.
Merges(n, m) ==
    /\ m \in Requests /\ LogCont(m) \in pend[n]
    /\ m.prevLogIndex = 0 \/ (/\ m.prevLogIndex \in DOMAIN log[n]
                              /\ log[n][m.prevLogIndex].term = m.prevLogTerm)
    /\ LET last == m.prevLogIndex + Len(m.entries)
           lg == MergeEntries(log[n], m.prevLogIndex, m.entries)
           ci == FollowerCommit(commitIndex[n], m.leaderCommit, last)
       IN /\ log' = [log EXCEPT ![n] = lg]
          /\ commitIndex' = [commitIndex EXCEPT ![n] = ci]
          /\ applied' = [applied EXCEPT ![n] = ApplyUpTo(n, lg, ci)]
          /\ Answers' \subseteq Answers \cup {AppendResp(m, m.term, TRUE, last, 0)}
    /\ Requests' \subseteq Requests
    /\ UNCHANGED <<state, currentTerm, peerVars, ballots>>

\* A leader appends a command, and commits it if it has no peers.
Extends(n) ==
    /\ state[n] = "leader"
    /\ \E v \in Command :
          /\ log' = [log EXCEPT ![n] = Append(log[n], [term |-> currentTerm[n], cmd |-> v])]
          /\ \/ Peers(n) # {} /\ UNCHANGED <<commitIndex, applied>>
             \/ /\ Peers(n) = {}
                /\ commitIndex' = [commitIndex EXCEPT ![n] = Len(log[n]) + 1]
                /\ applied' = [applied EXCEPT ![n] = Append(applied[n], v)]
    /\ Requests' \subseteq Requests /\ Answers' \subseteq Answers
    /\ UNCHANGED <<state, currentTerm, peerVars, ballots>>

\* A leader commits an entry of its term that a majority holds.
Commits(n) ==
    /\ state[n] = "leader"
    /\ \E ci \in Nat :
          /\ commitIndex' = [commitIndex EXCEPT ![n] = ci]
          /\ applied' = [applied EXCEPT ![n] = ApplyUpTo(n, log[n], ci)]
          /\ \/ ci = commitIndex[n]
             \/ /\ ci > commitIndex[n] /\ ci \in DOMAIN log[n]
                /\ log[n][ci].term = currentTerm[n] /\ HeldByMajority(n, ci)
    /\ Requests' \subseteq Requests /\ Answers' \subseteq Answers
    /\ UNCHANGED <<state, currentTerm, log, peerVars, ballots>>

\* What waits to commit waits at the leader.
NewCommits ==
    \A n \in Node : \A c \in pend'[n] :
        c.pc = "commit" => c \in pend[n] \/ (state'[n] = "leader" /\ currentTerm'[n] = c.term)

\* A step that leaves logs and peers alone and sends no append is calm.
LEMMA CalmStep ==
    ASSUME UNCHANGED <<logVars, peerVars>>,
           \A m \in msgs' : m \in msgs \/ m.type \in {"VoteReq", "VoteResp"},
           \A n \in Node : \A c \in pend'[n] : c.pc = "log" => c \in pend[n] \/ c.req \in Requests,
           \A n \in Node : state'[n] = "leader" => state[n] = "leader" /\ currentTerm'[n] = currentTerm[n],
           TypeInv
    PROVE  Calm
<1>1. Requests' \subseteq Requests
  BY RequestsKept
<1>2. Answers' \subseteq Answers
  BY DEF Answers
<1>3. \A n, p \in Node : nextIndex'[n][p] <= nextIndex[n][p]
  BY DEF TypeInv, PeerTypes, peerVars
<1>4. \A n, p \in Node : Counts(n, p)
  BY <1>3 DEF Counts, peerVars
<1> QED
  BY <1>1, <1>2, <1>4 DEF Calm

\* Elections, votes, and what is lost.
LEMMA CalmElections ==
    ASSUME Base, NEW n \in Node,
           StartElection(n) \/ \E t \in Term : RequestVotes(n, t)
    PROVE  Calm /\ NewCommits
<1>t. /\ DOMAIN pend = Node /\ currentTerm \in [Node -> Term]
      /\ state \in [Node -> {"follower", "candidate", "leader"}]
  BY StepTypes DEF Base
<1>1. CASE StartElection(n)
  <2>1. ElectCont(currentTerm[n] + 1).pc = "elect"
    BY DEF ElectCont
  <2>2. \A k \in Node : \A c \in pend'[k] : c \in pend[k] \/ c = ElectCont(currentTerm[n] + 1)
    BY <1>t, <1>1 DEF StartElection
  <2>3. \A k \in Node : state'[k] = "leader" => state[k] = "leader" /\ currentTerm'[k] = currentTerm[k]
    BY <1>t, <1>1 DEF StartElection
  <2>4. UNCHANGED <<logVars, peerVars, msgs>>
    BY <1>1 DEF StartElection
  <2>5. Calm
    BY <2>1, <2>2, <2>3, <2>4, CalmStep DEF Base
  <2> QED
    BY <2>1, <2>2, <2>5 DEF NewCommits
<1>2. ASSUME NEW t \in Term, RequestVotes(n, t) PROVE Calm /\ NewCommits
  <2>1. LeadCont(t).pc = "lead"
    BY DEF LeadCont
  <2>2. \A k \in Node : \A c \in pend'[k] : c \in pend[k] \/ c = LeadCont(t)
    BY <1>t, <1>2 DEF RequestVotes
  <2>3. UNCHANGED <<logVars, peerVars, state, currentTerm>>
    BY <1>2 DEF RequestVotes, serverVars
  <2>4. \A m \in msgs' : m \in msgs \/ m.type \in {"VoteReq", "VoteResp"}
    BY <1>2 DEF RequestVotes, VoteReq
  <2>5. Calm
    BY <2>1, <2>2, <2>3, <2>4, CalmStep DEF Base
  <2> QED
    BY <2>1, <2>2, <2>5 DEF NewCommits
<1> QED
  BY <1>1, <1>2

\* Votes, and messages that are lost.
LEMMA CalmVotes ==
    ASSUME Base, NEW m \in msgs,
           HandleVoteRequest(m.to, m) \/ RequestVoteFromPeer(m.to, m) \/ LoseMessage(m)
    PROVE  Calm /\ NewCommits
<1>t. /\ DOMAIN pend = Node /\ currentTerm \in [Node -> Term]
      /\ state \in [Node -> {"follower", "candidate", "leader"}]
      /\ m.to \in Node
  BY StepTypes DEF Base
<1>1. CASE HandleVoteRequest(m.to, m)
  <2>1. UNCHANGED <<logVars, peerVars, pend>>
    BY <1>1 DEF HandleVoteRequest
  <2>2. \A x \in msgs' : x \in msgs \/ x.type \in {"VoteReq", "VoteResp"}
    BY <1>1 DEF HandleVoteRequest, Reply, VoteResp
  <2>3. \/ UNCHANGED <<state, currentTerm>>
        \/ /\ state' = [state EXCEPT ![m.to] = "follower"]
           /\ currentTerm' = [currentTerm EXCEPT ![m.to] = m.term]
    BY <1>1 DEF HandleVoteRequest
  <2>4. \A k \in Node : state'[k] = "leader" => state[k] = "leader" /\ currentTerm'[k] = currentTerm[k]
    BY <1>t, <2>3
  <2>5. Calm
    BY <2>1, <2>2, <2>4, CalmStep DEF Base
  <2> QED
    BY <2>1, <2>5 DEF NewCommits
<1>2. CASE RequestVoteFromPeer(m.to, m)
  <2>0. LeadCont(m.waiter.term).pc = "lead"
    BY DEF LeadCont
  <2>1. UNCHANGED <<logVars, peerVars>> /\ msgs' = msgs \ {m}
    BY <1>2 DEF RequestVoteFromPeer
  <2>2. pend' = pend \/ pend' = [pend EXCEPT ![m.to] = @ \cup {LeadCont(m.waiter.term)}]
    BY <1>2 DEF RequestVoteFromPeer
  <2>3. \A k \in Node : \A c \in pend'[k] : c \in pend[k] \/ c = LeadCont(m.waiter.term)
    BY <1>t, <2>2
  <2>4. \/ UNCHANGED <<state, currentTerm>>
        \/ /\ state' = [state EXCEPT ![m.to] = "follower"]
           /\ currentTerm' = [currentTerm EXCEPT ![m.to] = m.term]
    BY <1>2 DEF RequestVoteFromPeer, StepDown, serverVars
  <2>5. \A k \in Node : state'[k] = "leader" => state[k] = "leader" /\ currentTerm'[k] = currentTerm[k]
    BY <1>t, <2>4
  <2>6. Calm
    BY <2>0, <2>1, <2>3, <2>5, CalmStep DEF Base
  <2> QED
    BY <2>0, <2>3, <2>6 DEF NewCommits
<1>3. CASE LoseMessage(m)
  <2>1. UNCHANGED <<logVars, peerVars, pend, state, currentTerm>> /\ msgs' = msgs \ {m}
    BY <1>3 DEF LoseMessage, serverVars
  <2>2. Calm
    BY <2>1, CalmStep DEF Base
  <2> QED
    BY <2>1, <2>2 DEF NewCommits
<1> QED
  BY <1>1, <1>2, <1>3

\* Goroutines of a leader.
LEMMA CalmStarts ==
    ASSUME Base, NEW n \in Node,
           \/ \E p \in Node : Heartbeat(n, p)
           \/ \E v \in Command : ProcessApply(n, v)
           \/ BroadcastAppend(n)
           \/ AdvanceCommitRead(n)
    PROVE  Calm /\ NewCommits
<1>t. /\ DOMAIN pend = Node /\ currentTerm \in [Node -> Term]
      /\ state \in [Node -> {"follower", "candidate", "leader"}]
  BY StepTypes DEF Base
<1>1. UNCHANGED <<logVars, peerVars, state, currentTerm, msgs>>
  BY DEF Heartbeat, ProcessApply, BroadcastAppend, AdvanceCommitRead, serverVars
<1> DEFINE Waits == \A k \in Node : \A c \in pend'[k] :
                       \/ c \in pend[k]
                       \/ c.pc \in {"send", "append"}
                       \/ c.pc = "commit" /\ state[k] = "leader" /\ currentTerm[k] = c.term
<1>2. Waits
  <2>1. ASSUME NEW p \in Node, Heartbeat(n, p) PROVE Waits
    <3>1. SendCont(p, currentTerm[n]).pc = "send"
      BY DEF SendCont
    <3>2. \A k \in Node : \A c \in pend'[k] : c \in pend[k] \/ c = SendCont(p, currentTerm[n])
      BY <1>t, <2>1 DEF Heartbeat
    <3> QED
      BY <3>1, <3>2
  <2>2. ASSUME NEW v \in Command, ProcessApply(n, v) PROVE Waits
    <3>1. AppendCont(currentTerm[n], v).pc = "append"
      BY DEF AppendCont
    <3>2. \A k \in Node : \A c \in pend'[k] : c \in pend[k] \/ c = AppendCont(currentTerm[n], v)
      BY <1>t, <2>2 DEF ProcessApply
    <3> QED
      BY <3>1, <3>2
  <2>3. CASE BroadcastAppend(n)
    <3>1. \A c \in SendConts(n, currentTerm[n]) : c.pc = "send"
      BY DEF SendConts, SendCont
    <3>2. \A k \in Node : \A c \in pend'[k] : c \in pend[k] \/ c \in SendConts(n, currentTerm[n])
      BY <1>t, <2>3 DEF BroadcastAppend
    <3> QED
      BY <3>1, <3>2
  <2>4. CASE AdvanceCommitRead(n)
    <3>1. CommitCont(currentTerm[n]).pc = "commit" /\ CommitCont(currentTerm[n]).term = currentTerm[n]
      BY DEF CommitCont
    <3>2. \A k \in Node : \A c \in pend'[k] :
             c \in pend[k] \/ (k = n /\ state[n] = "leader" /\ c = CommitCont(currentTerm[n]))
      BY <1>t, <2>4 DEF AdvanceCommitRead
    <3> QED
      BY <3>1, <3>2
  <2> QED
    BY <2>1, <2>2, <2>3, <2>4
<1>3. Calm
  BY <1>1, <1>2, CalmStep DEF Base
<1> QED
  BY <1>1, <1>2, <1>3 DEF NewCommits

\* Requests that are accepted or refused for their term.
LEMMA CalmRequests ==
    ASSUME Base, NEW m \in msgs, HandleAppendEntries(m.to, m)
    PROVE  Calm /\ NewCommits
<1>t. /\ DOMAIN pend = Node /\ currentTerm \in [Node -> Term]
      /\ state \in [Node -> {"follower", "candidate", "leader"}]
      /\ m.to \in Node /\ (m.type = "AppendReq" => m \in AppendReqs)
  BY StepTypes DEF Base
<1>0. m.type = "AppendReq" /\ m \in Requests /\ UNCHANGED <<logVars, peerVars>> /\ m.prevLogIndex \in Nat
  BY <1>t, RequestsAre DEF HandleAppendEntries, AppendReqs
<1>1. CASE /\ Reply(m, AppendResp(m, currentTerm[m.to], FALSE, 0, 0))
           /\ UNCHANGED <<serverVars, pend>>
  <2> DEFINE a == AppendResp(m, currentTerm[m.to], FALSE, 0, 0)
  <2>1. /\ a.type = "AppendResp" /\ ~a.success /\ a.match = 0 /\ a.conflict = 0
        /\ a.to = m.from /\ a.waiter = m.waiter
    BY DEF AppendResp
  <2>2. \A x \in msgs' : x \in msgs \/ x = a
    BY <1>1 DEF Reply
  <2> HIDE DEF a
  <2>3. Requests' \subseteq Requests
    BY <1>1, <2>1, <2>2, RequestsKept
  <2>4. Refusal(a)
    BY <1>0, <2>1 DEF Refusal
  <2>5. \A x \in Answers' : x \in Answers \/ Refusal(x)
    BY <2>2, <2>4 DEF Answers
  <2>6. \A k, p \in Node : Counts(k, p)
    <3>1. \A k, p \in Node : nextIndex'[k][p] <= nextIndex[k][p]
      BY <1>0 DEF Base, TypeInv, PeerTypes, peerVars
    <3> QED
      BY <1>0, <3>1 DEF Counts, peerVars
  <2> QED
    BY <1>0, <1>1, <2>3, <2>5, <2>6 DEF Calm, NewCommits, serverVars
<1>2. CASE /\ currentTerm' = [currentTerm EXCEPT ![m.to] = m.term]
           /\ state' = [state EXCEPT ![m.to] = "follower"]
           /\ pend' = [pend EXCEPT ![m.to] = @ \cup {LogCont(m)}]
           /\ msgs' = msgs \ {m}
  <2>1. LogCont(m).pc = "log" /\ LogCont(m).req = m
    BY DEF LogCont
  <2>2. \A k \in Node : \A c \in pend'[k] : c \in pend[k] \/ c = LogCont(m)
    BY <1>t, <1>2
  <2>3. \A k \in Node : state'[k] = "leader" => state[k] = "leader" /\ currentTerm'[k] = currentTerm[k]
    BY <1>t, <1>2
  <2>4. Calm
    BY <1>0, <1>2, <2>1, <2>2, <2>3, CalmStep DEF Base
  <2> QED
    BY <2>1, <2>2, <2>4 DEF NewCommits
<1> QED
  BY <1>1, <1>2 DEF HandleAppendEntries

\* Replies to a leader, or to who has left its term.
LEMMA CalmReplies ==
    ASSUME Base, NEW m \in msgs, HandleAppendEntriesResponse(m.to, m)
    PROVE  Calm /\ NewCommits
<1> DEFINE n == m.to
           p == m.from
<1>t. /\ DOMAIN pend = Node /\ currentTerm \in [Node -> Term]
      /\ state \in [Node -> {"follower", "candidate", "leader"}]
      /\ n \in Node /\ p \in Node
  BY StepTypes DEF Base
<1>p. nextIndex \in [Node -> [Node -> Nat \ {0}]] /\ matchIndex \in [Node -> [Node -> Nat]]
  BY DEF Base, TypeInv, PeerTypes
<1>0. UNCHANGED logVars /\ msgs' = msgs \ {m}
  BY DEF HandleAppendEntriesResponse
<1>1. \A k \in Node : \A c \in pend'[k] : c \in pend[k] \/ c.pc = "signal"
  <2>1. SignalCont.pc = "signal"
    BY DEF SignalCont
  <2>2. pend' = pend \/ pend' = [pend EXCEPT ![n] = @ \cup {SignalCont}]
    BY DEF HandleAppendEntriesResponse
  <2> QED
    BY <1>t, <2>1, <2>2
<1>2. CASE UNCHANGED peerVars
  <2>1. \/ UNCHANGED <<state, currentTerm>>
        \/ /\ state' = [state EXCEPT ![n] = "follower"]
           /\ currentTerm' = [currentTerm EXCEPT ![n] = m.term]
    BY DEF HandleAppendEntriesResponse, StepDown, serverVars
  <2>2. \A k \in Node : state'[k] = "leader" => state[k] = "leader" /\ currentTerm'[k] = currentTerm[k]
    BY <1>t, <2>1
  <2>3. Calm
    BY <1>0, <1>1, <1>2, <2>2, CalmStep DEF Base
  <2> QED
    BY <1>1, <2>3 DEF NewCommits
<1>3. CASE \/ /\ Success(m)
              /\ matchIndex' = [matchIndex EXCEPT ![n][p] = m.match]
              /\ nextIndex' = [nextIndex EXCEPT ![n][p] = m.match + 1]
              /\ m.waiter.term = currentTerm[n] /\ UNCHANGED serverVars
           \/ /\ nextIndex' = [nextIndex EXCEPT ![n][p] =
                                  IF Conflict(m) > 0 THEN Conflict(m)
                                  ELSE IF @ > 1 THEN @ - 1 ELSE @]
              /\ m.waiter.term = currentTerm[n] /\ UNCHANGED <<serverVars, matchIndex>>
  <2>1. UNCHANGED <<state, currentTerm>>
    BY <1>3 DEF serverVars
  <2>2. Requests' \subseteq Requests /\ Answers' \subseteq Answers
    BY <1>0, <1>1, RequestsKept DEF Answers
  <2>3. \A k, q \in Node : nextIndex[k][q] \in Nat /\ nextIndex[k][q] <= nextIndex[k][q]
    BY <1>p
  <2>4. ASSUME NEW k \in Node, NEW q \in Node, k # n \/ q # p PROVE Counts(k, q)
    <3>1. matchIndex'[k][q] = matchIndex[k][q] /\ nextIndex'[k][q] = nextIndex[k][q]
      BY <1>t, <1>p, <1>3, <2>4
    <3> QED
      BY <2>3, <3>1 DEF Counts
  <2>5. Counts(n, p)
    <3>1. CASE /\ Success(m) /\ m.waiter.term = currentTerm[n]
               /\ matchIndex' = [matchIndex EXCEPT ![n][p] = m.match]
               /\ nextIndex' = [nextIndex EXCEPT ![n][p] = m.match + 1]
      <4>1. m \in Answers /\ m.success
        BY <3>1 DEF Success, Answers
      <4>2. matchIndex'[n][p] = m.match /\ nextIndex'[n][p] = m.match + 1
        BY <1>t, <1>p, <3>1
      <4> QED
        BY <3>1, <4>1, <4>2 DEF Counts
    <3>2. CASE /\ m.waiter.term = currentTerm[n] /\ UNCHANGED matchIndex
               /\ nextIndex' = [nextIndex EXCEPT ![n][p] =
                                  IF Conflict(m) > 0 THEN Conflict(m)
                                  ELSE IF @ > 1 THEN @ - 1 ELSE @]
      <4>1. CASE Conflict(m) > 0
        <5>1. m \in Answers /\ Conflict(m) = m.conflict
          BY <4>1 DEF Conflict, Answers
        <5>2. nextIndex'[n][p] = Conflict(m)
          BY <1>t, <1>p, <3>2, <4>1
        <5> QED
          BY <3>2, <5>1, <5>2 DEF Counts
      <4>2. CASE ~(Conflict(m) > 0)
        <5>1. nextIndex'[n][p] = IF nextIndex[n][p] > 1 THEN nextIndex[n][p] - 1 ELSE nextIndex[n][p]
          BY <1>t, <1>p, <3>2, <4>2
        <5>2. nextIndex'[n][p] <= nextIndex[n][p]
          BY <1>t, <2>3, <5>1
        <5> QED
          BY <3>2, <5>2 DEF Counts
      <4> QED
        BY <4>1, <4>2
    <3> QED
      BY <1>3, <3>1, <3>2
  <2>6. Calm
    BY <1>0, <2>1, <2>2, <2>4, <2>5 DEF Calm
  <2> QED
    BY <1>1, <2>6 DEF NewCommits
<1> QED
  BY <1>2, <1>3 DEF HandleAppendEntriesResponse

\* Who leads, sends, appends and commits.
LEMMA LeadStep ==
    ASSUME Base, NEW n \in Node, NEW t \in Term, BecomeLeader(n, t)
    PROVE  (Calm \/ Leads(n)) /\ NewCommits
<1>t. DOMAIN pend = Node
  BY StepTypes DEF Base
<1>1. /\ LeadCont(t) \in pend[n] /\ LeadCont(t).pc = "lead" /\ LeadCont(t).term = t
      /\ UNCHANGED <<currentTerm, logVars, msgs, ballots>>
  BY DEF BecomeLeader, LeadCont
<1>2. CASE ~MayLead(n, t)
  <2>1. /\ pend' = [pend EXCEPT ![n] = @ \ {LeadCont(t)}]
        /\ UNCHANGED <<state, peerVars>>
    BY <1>2 DEF BecomeLeader
  <2>2. \A k \in Node : pend'[k] \subseteq pend[k]
    BY <1>t, <2>1
  <2>3. Calm
    BY <1>1, <2>1, <2>2, CalmStep DEF Base
  <2> QED
    BY <2>2, <2>3 DEF NewCommits
<1>3. CASE MayLead(n, t)
  <2>1. /\ pend' = [pend EXCEPT ![n] = (@ \ {LeadCont(t)}) \cup SendConts(n, t)]
        /\ state' = [state EXCEPT ![n] = "leader"]
        /\ nextIndex' = [nextIndex EXCEPT ![n] = [p \in Node |-> Len(log[n]) + 1]]
        /\ matchIndex' = [matchIndex EXCEPT ![n] = [p \in Node |-> 0]]
    BY <1>3 DEF BecomeLeader, FirstNextIndex
  <2>2. \A c \in SendConts(n, t) : c.pc = "send"
    BY DEF SendConts, SendCont
  <2>3. \A k \in Node : \A c \in pend'[k] : c \in pend[k] \/ c.pc = "send"
    BY <1>t, <2>1, <2>2
  <2>4. Requests' \subseteq Requests /\ Answers' \subseteq Answers
    BY <1>1, <2>3, RequestsKept DEF Answers
  <2>5. HasQuorum(n, currentTerm[n]) /\ state[n] # "leader"
    BY <1>1, <1>3, ContsHold DEF Base, ContOK, MayLead
  <2> QED
    BY <1>1, <2>1, <2>3, <2>4, <2>5 DEF Leads, NewCommits
<1> QED
  BY <1>2, <1>3

\* A leader's goroutine sends, appends or commits.
LEMMA LeaderSteps ==
    ASSUME Base, ContInv, NEW n \in Node,
           \/ \E p \in Node, t \in Term : ReplicateLogToPeer(n, p, t)
           \/ \E t \in Term, v \in Command : AppendToLog(n, t, v)
           \/ \E t \in Term : AdvanceCommitIndex(n, t)
    PROVE  (Sends(n) \/ Extends(n) \/ Commits(n)) /\ NewCommits
<1>t. DOMAIN pend = Node /\ log \in [Node -> Seq(Entry)] /\ applied \in [Node -> Seq(Command)]
  BY StepTypes DEF Base, TypeInv, LogTypes
<1>1. ASSUME NEW p \in Node, NEW t \in Term, ReplicateLogToPeer(n, p, t) PROVE Sends(n) /\ NewCommits
  <2> DEFINE c == SendCont(p, t)
             r == AppendReq(n, p, t, nextIndex[n][p] - 1, log[n], commitIndex[n])
  <2>1. c \in pend[n] /\ c.pc = "send" /\ c.term = t /\ c.peer = p
    BY <1>1 DEF ReplicateLogToPeer, SendCont
  <2> HIDE DEF c
  <2>2. p \in Peers(n) /\ state[n] = "leader" /\ currentTerm[n] = t
    BY <2>1 DEF Base, TypeInv, PendTypes, ContTyped, ContInv
  <2>3. /\ \A m \in msgs' : m \in msgs \/ m = r
        /\ \A k \in Node : pend'[k] \subseteq pend[k]
        /\ UNCHANGED <<state, currentTerm, logVars, peerVars, ballots>>
    BY <1>1 DEF ReplicateLogToPeer, serverVars
  <2>4. r.type = "AppendReq" /\ r = AppendReq(n, p, currentTerm[n], nextIndex[n][p] - 1, log[n], commitIndex[n])
    BY <2>2 DEF AppendReq
  <2> HIDE DEF r
  <2>5. Requests' \subseteq Requests \cup {r}
    BY <2>3, RequestsAre
  <2>6. Answers' \subseteq Answers
    BY <2>3, <2>4 DEF Answers
  <2>7. Sends(n)
    BY <2>2, <2>3, <2>4, <2>5, <2>6 DEF Sends
  <2> QED
    BY <2>3, <2>7 DEF NewCommits
<1>2. ASSUME NEW t \in Term, NEW v \in Command, AppendToLog(n, t, v) PROVE Extends(n) /\ NewCommits
  <2> DEFINE c == AppendCont(t, v)
  <2>1. c \in pend[n] /\ c.pc = "append" /\ c.term = t /\ BroadcastCont.pc = "broadcast"
    BY <1>2 DEF AppendToLog, AppendCont, BroadcastCont
  <2> HIDE DEF c
  <2>2. state[n] = "leader" /\ currentTerm[n] = t
    BY <2>1 DEF Base, ReplicationInv, ApplierInv
  <2>3. \A k \in Node : \A d \in pend'[k] : d \in pend[k] \/ d = BroadcastCont
    <3>1. \E U \in {{}, {BroadcastCont}} : pend' = [pend EXCEPT ![n] = (@ \ {AppendCont(t, v)}) \cup U]
      <4>1. CASE Peers(n) = {}
        <5>1. pend[n] \ {AppendCont(t, v)} = (pend[n] \ {AppendCont(t, v)}) \cup {}
          OBVIOUS
        <5>2. pend' = [pend EXCEPT ![n] = pend[n] \ {AppendCont(t, v)}]
          BY <1>2, <4>1 DEF AppendToLog
        <5> QED
          BY <5>1, <5>2
      <4>2. CASE Peers(n) # {}
        BY <1>2, <4>2 DEF AppendToLog
      <4> QED
        BY <4>1, <4>2
    <3> QED
      BY <1>t, <3>1
  <2>4. /\ log' = [log EXCEPT ![n] = Append(log[n], [term |-> t, cmd |-> v])]
        /\ UNCHANGED <<state, currentTerm, peerVars, msgs, ballots>>
    BY <1>2 DEF AppendToLog, serverVars
  <2>5. \/ Peers(n) # {} /\ UNCHANGED <<commitIndex, applied>>
        \/ /\ Peers(n) = {}
           /\ commitIndex' = [commitIndex EXCEPT ![n] = Len(log[n]) + 1]
           /\ applied' = [applied EXCEPT ![n] = Append(applied[n], v)]
    BY <1>2 DEF AppendToLog
  <2>6. Requests' \subseteq Requests /\ Answers' \subseteq Answers
    BY <2>1, <2>3, <2>4, RequestsKept DEF Answers
  <2>7. Extends(n)
    BY <2>2, <2>4, <2>5, <2>6 DEF Extends
  <2> QED
    BY <2>1, <2>3, <2>7 DEF NewCommits
<1>3. ASSUME NEW t \in Term, AdvanceCommitIndex(n, t) PROVE Commits(n) /\ NewCommits
  <2> DEFINE c == CommitCont(t)
             held == {k \in commitIndex[n] + 1 .. Len(log[n]) :
                        log[n][k].term = t /\ HeldByMajority(n, k)}
             ci == Max({commitIndex[n]} \cup held)
  <2>1. c \in pend[n] /\ c.pc = "commit" /\ c.term = t
    BY <1>3 DEF AdvanceCommitIndex, CommitCont
  <2> HIDE DEF c
  <2>2. state[n] = "leader" /\ currentTerm[n] = t
    BY <2>1 DEF ContInv
  <2>3. commitIndex[n] \in Nat /\ Len(log[n]) \in Nat /\ DOMAIN log[n] = 1 .. Len(log[n])
    BY <1>t, LenProperties DEF Base, TypeInv, LogTypes
  <2>4. ci \in {commitIndex[n]} \cup held
    <3>1. {commitIndex[n]} \cup held \in SUBSET (0 .. commitIndex[n] + Len(log[n]))
      BY <2>3
    <3>2. commitIndex[n] + Len(log[n]) \in Nat /\ {commitIndex[n]} \cup held # {}
      BY <2>3
    <3> HIDE DEF held
    <3> QED
      BY <3>1, <3>2, MaxOfNats
  <2>5. /\ ci \in Nat
        /\ \/ ci = commitIndex[n]
           \/ /\ ci > commitIndex[n] /\ ci \in DOMAIN log[n]
              /\ log[n][ci].term = t /\ HeldByMajority(n, ci)
    <3>1. CASE ci = commitIndex[n]
      BY <2>3, <3>1
    <3>2. CASE ci \in held
      <4> HIDE DEF ci
      <4> QED
        BY <2>3, <3>2
    <3> QED
      BY <2>4, <3>1, <3>2
  <2>6. /\ commitIndex' = [commitIndex EXCEPT ![n] = ci]
        /\ applied' = [applied EXCEPT ![n] = ApplyUpTo(n, log[n], ci)]
        /\ UNCHANGED <<state, currentTerm, log, peerVars, msgs, ballots>>
        /\ \A k \in Node : pend'[k] \subseteq pend[k]
    BY <1>t, <1>3 DEF AdvanceCommitIndex, serverVars
  <2> HIDE DEF ci, held
  <2>7. Requests' \subseteq Requests /\ Answers' \subseteq Answers
    BY <2>6, RequestsKept DEF Answers
  <2>8. Commits(n)
    BY <2>2, <2>5, <2>6, <2>7 DEF Commits
  <2> QED
    BY <2>6, <2>8 DEF NewCommits
<1> QED
  BY <1>1, <1>2, <1>3

\* The log of a follower: refused, or merged.
LEMMA FollowerStep ==
    ASSUME Base, NEW n \in Node, NEW m, AppendEntriesToLog(n, m)
    PROVE  (Calm \/ Merges(n, m)) /\ NewCommits
<1>t. DOMAIN pend = Node /\ log \in [Node -> Seq(Entry)]
  BY StepTypes DEF Base
<1>1. /\ LogCont(m) \in pend[n] /\ LogCont(m).pc = "log" /\ LogCont(m).req = m
      /\ pend' = [pend EXCEPT ![n] = @ \ {LogCont(m)}]
      /\ UNCHANGED <<serverVars, peerVars, ballots>>
  BY DEF AppendEntriesToLog, LogCont
<1>2. m \in Requests /\ m \in AppendReqs
  BY <1>1, RequestsAre, StepTypes DEF Base
<1>3. \A k \in Node : pend'[k] \subseteq pend[k]
  BY <1>t, <1>1
<1>4. NewCommits
  BY <1>3 DEF NewCommits
<1>5. m.prevLogIndex \in Nat /\ Len(log[n]) \in Nat /\ DOMAIN log[n] = 1 .. Len(log[n])
  BY <1>t, <1>2, LenProperties DEF AppendReqs
<1>6. ASSUME NEW k \in Nat, k <= m.prevLogIndex, UNCHANGED logVars,
             msgs' = msgs \cup {AppendResp(m, m.term, FALSE, 0, k)}
      PROVE  Calm
  <2> DEFINE a == AppendResp(m, m.term, FALSE, 0, k)
  <2>1. /\ a.type = "AppendResp" /\ ~a.success /\ a.match = 0 /\ a.conflict = k
        /\ a.to = m.from /\ a.waiter = m.waiter
    BY DEF AppendResp
  <2>2. \A x \in msgs' : x \in msgs \/ x = a
    BY <1>6
  <2> HIDE DEF a
  <2>3. Requests' \subseteq Requests
    BY <1>3, <2>1, <2>2, RequestsKept
  <2>4. Refusal(a)
    BY <1>2, <1>6, <2>1 DEF Refusal
  <2>5. \A x \in Answers' : x \in Answers \/ Refusal(x)
    BY <2>2, <2>4 DEF Answers
  <2>6. \A i, p \in Node : Counts(i, p)
    <3>1. \A i, p \in Node : nextIndex'[i][p] <= nextIndex[i][p]
      BY <1>1 DEF Base, TypeInv, PeerTypes, peerVars
    <3> QED
      BY <1>1, <3>1 DEF Counts, peerVars
  <2> QED
    BY <1>1, <1>6, <2>3, <2>5, <2>6 DEF Calm, serverVars
<1>7. CASE /\ m.prevLogIndex > Len(log[n])
           /\ msgs' = msgs \cup {AppendResp(m, m.term, FALSE, 0, Len(log[n]) + 1)}
           /\ UNCHANGED logVars
  <2>1. Len(log[n]) + 1 \in Nat /\ Len(log[n]) + 1 <= m.prevLogIndex
    BY <1>5, <1>7
  <2> QED
    BY <1>4, <1>6, <1>7, <2>1
<1>8. CASE /\ m.prevLogIndex \in DOMAIN log[n]
           /\ msgs' = msgs \cup {AppendResp(m, m.term, FALSE, 0, FirstOfTerm(log[n], m.prevLogIndex))}
           /\ UNCHANGED logVars
  <2>1. FirstOfTerm(log[n], m.prevLogIndex) \in 1 .. m.prevLogIndex
    BY <1>t, <1>5, <1>8, FirstOfTermType
  <2>2. FirstOfTerm(log[n], m.prevLogIndex) \in Nat /\ FirstOfTerm(log[n], m.prevLogIndex) <= m.prevLogIndex
    BY <1>5, <2>1
  <2> QED
    BY <1>4, <1>6, <1>8, <2>2
<1>9. CASE LET last == m.prevLogIndex + Len(m.entries)
               lg == MergeEntries(log[n], m.prevLogIndex, m.entries)
               ci == FollowerCommit(commitIndex[n], m.leaderCommit, last)
           IN /\ m.prevLogIndex = 0 \/ (m.prevLogIndex \in DOMAIN log[n]
                             /\ log[n][m.prevLogIndex].term = m.prevLogTerm)
              /\ log' = [log EXCEPT ![n] = lg]
              /\ commitIndex' = [commitIndex EXCEPT ![n] = ci]
              /\ applied' = [applied EXCEPT ![n] = ApplyUpTo(n, lg, ci)]
              /\ msgs' = msgs \cup {AppendResp(m, m.term, TRUE, last, 0)}
  <2> DEFINE a == AppendResp(m, m.term, TRUE, m.prevLogIndex + Len(m.entries), 0)
  <2>1. a.type = "AppendResp"
    BY DEF AppendResp
  <2>2. \A x \in msgs' : x \in msgs \/ x = a
    BY <1>9
  <2> HIDE DEF a
  <2>3. Requests' \subseteq Requests
    BY <1>3, <2>1, <2>2, RequestsKept
  <2>4. Answers' \subseteq Answers \cup {a}
    BY <2>2 DEF Answers
  <2>5. Merges(n, m)
    BY <1>1, <1>2, <1>9, <2>3, <2>4 DEF Merges, serverVars, a
  <2> QED
    BY <1>4, <2>5
<1> QED
  BY <1>7, <1>8, <1>9 DEF AppendEntriesToLog

\* Every step is one of these.
LEMMA CarryKinds ==
    ASSUME Base, ContInv, [Next]_vars, "mux" \notin Hazards, "restart" \notin Hazards
    PROVE  /\ \/ Calm
              \/ \E n \in Node : Leads(n) \/ Sends(n) \/ Extends(n) \/ Commits(n)
              \/ \E n \in Node : \E m \in Requests : Merges(n, m)
           /\ NewCommits
<1>1. CASE UNCHANGED vars
  <2>1. UNCHANGED <<logVars, peerVars, msgs, pend, state, currentTerm>>
    BY <1>1 DEF vars, serverVars
  <2>2. Calm
    BY <2>1, CalmStep DEF Base
  <2> QED
    BY <2>1, <2>2 DEF NewCommits
<1>2. ASSUME NEW n \in Node, NEW m, AppendEntriesToLog(n, m)
      PROVE  (Calm \/ \E r \in Requests : Merges(n, r)) /\ NewCommits
  BY <1>2, FollowerStep DEF Merges
<1>3. \A n \in Node : ~Restart(n)
  BY DEF Restart
<1>4. \A m1, m2 \in msgs : ~CrossReplies(m1, m2)
  BY DEF CrossReplies
<1>5. ASSUME NEW n \in Node, SectionStep(n)
      PROVE  /\ \/ Calm \/ Leads(n) \/ Sends(n) \/ Extends(n) \/ Commits(n)
                \/ \E m \in Requests : Merges(n, m)
             /\ NewCommits
  <2>1. CASE \E t \in Term : RequestVotes(n, t)
    BY <2>1, CalmElections
  <2>2. CASE \E t \in Term : BecomeLeader(n, t)
    BY <2>2, LeadStep
  <2>3. CASE BroadcastAppend(n) \/ AdvanceCommitRead(n)
    BY <2>3, CalmStarts
  <2>4. CASE \/ \E p \in Node, t \in Term : ReplicateLogToPeer(n, p, t)
             \/ \E t \in Term, v \in Command : AppendToLog(n, t, v)
             \/ \E t \in Term : AdvanceCommitIndex(n, t)
    BY <2>4, LeaderSteps
  <2>5. CASE \E c \in pend[n] : c.pc = "log" /\ AppendEntriesToLog(n, c.req)
    BY <1>2, <2>5
  <2> QED
    BY <1>5, <2>1, <2>2, <2>3, <2>4, <2>5 DEF SectionStep
<1>6. ASSUME NEW n \in Node,
             StartElection(n) \/ (\E p \in Node : Heartbeat(n, p)) \/ (\E v \in Command : ProcessApply(n, v))
      PROVE  Calm /\ NewCommits
  BY <1>6, CalmElections, CalmStarts
<1>7. ASSUME NEW m \in msgs,
             \/ HandleVoteRequest(m.to, m) \/ RequestVoteFromPeer(m.to, m) \/ LoseMessage(m)
             \/ HandleAppendEntries(m.to, m) \/ HandleAppendEntriesResponse(m.to, m)
      PROVE  Calm /\ NewCommits
  BY <1>7, CalmVotes, CalmRequests, CalmReplies
<1> QED
  BY <1>1, <1>3, <1>4, <1>5, <1>6, <1>7 DEF Next

\* Who waits to send or to commit stays the leader: nobody is deposed meanwhile.
LEMMA NextContInv ==
    ASSUME Base, ContInv, [Next]_vars,
           Hazards \cap {"broadcast", "send", "commit", "mux", "restart"} = {}
    PROVE  ContInv'
<1>t. /\ currentTerm \in [Node -> Term] /\ state \in [Node -> {"follower", "candidate", "leader"}]
      /\ \A m \in msgs : m.to \in Node
  BY StepTypes DEF Base
<1>h. "mux" \notin Hazards /\ "restart" \notin Hazards
  OBVIOUS
<1>1. ASSUME NEW k \in Node, NEW c \in pend[k], c.pc \in {"send", "commit"}
      PROVE  state'[k] = "leader" /\ currentTerm'[k] = c.term
  <2>1. state[k] = "leader" /\ currentTerm[k] = c.term
    BY <1>1 DEF ContInv
  <2>2. ~Idle
    BY <1>1, IdleConts
  <2>3. CASE UNCHANGED <<state, currentTerm>>
    BY <2>1, <2>3
  <2>4. ASSUME NEW n \in Node, Lead(n) PROVE state'[k] = "leader" /\ currentTerm'[k] = c.term
    <3>1. state' = [state EXCEPT ![n] = "leader"] /\ currentTerm' = currentTerm
      BY <2>4 DEF Lead
    <3> QED
      BY <1>t, <2>1, <3>1
  <2>5. \/ UNCHANGED <<state, currentTerm>>
        \/ \E n \in Node : Lead(n)
        \/ Idle
    BY <1>h, StepKinds DEF Base, Quiet, NewTerm, StartStep, Start, Send, Extend, Accept, Merge
  <2> QED
    BY <2>2, <2>3, <2>4, <2>5
<1>2. ASSUME NEW k \in Node, NEW c \in pend'[k], c.pc = "commit"
      PROVE  state'[k] = "leader" /\ currentTerm'[k] = c.term
  <2>1. c \in pend[k] \/ (state'[k] = "leader" /\ currentTerm'[k] = c.term)
    BY <1>h, <1>2, CarryKinds DEF NewCommits
  <2> QED
    BY <1>1, <1>2, <2>1
<1>3. ASSUME NEW k \in Node, NEW c \in pend'[k], c.pc = "send"
      PROVE  c \in pend[k] \/ (state'[k] = "leader" /\ currentTerm'[k] = c.term)
  <2>1. CASE Quiet \/ (\E n \in Node : NewTerm(n)) \/ (\E n \in Node : \E d \in pend[n] : d.pc = "log" /\ Merge(n, d.req))
    BY <1>3, <2>1 DEF Quiet, NewTerm, Merge, NoRequest
  <2>2. ASSUME NEW n \in Node, Lead(n) PROVE c \in pend[k] \/ (state'[k] = "leader" /\ currentTerm'[k] = c.term)
    <3>1. c \in pend[k] \/ (k = n /\ c.term = currentTerm[n])
      BY <1>3, <2>2 DEF Lead
    <3>2. state' = [state EXCEPT ![n] = "leader"] /\ currentTerm' = currentTerm
      BY <2>2 DEF Lead
    <3> QED
      BY <1>t, <3>1, <3>2
  <2>3. ASSUME NEW n \in Node, StartStep(n) PROVE c \in pend[k] \/ (state'[k] = "leader" /\ currentTerm'[k] = c.term)
    <3>1. c \in pend[k] \/ (k = n /\ c.term = currentTerm[n])
      BY <1>3, <2>3 DEF StartStep, Start
    <3>2. state[n] = "leader"
      BY <2>3 DEF StartStep, Base, ReplicationInv, ApplierInv
    <3>3. state' = state /\ currentTerm' = currentTerm
      BY <2>3 DEF StartStep, Start
    <3> QED
      BY <3>1, <3>2, <3>3
  <2>4. ASSUME NEW n \in Node, Send(n) \/ Extend(n) PROVE c \in pend[k]
    BY <1>3, <2>4 DEF Send, Extend
  <2>5. ASSUME NEW n \in Node, NEW m \in msgs, Accept(n, m) PROVE c \in pend[k]
    <3>1. LogCont(m).pc = "log"
      BY DEF LogCont
    <3> QED
      BY <1>3, <2>5, <3>1 DEF Accept
  <2> QED
    BY <1>h, <2>1, <2>2, <2>3, <2>4, <2>5, StepKinds DEF Base
<1> QED
  BY <1>1, <1>2, <1>3 DEF ContInv

-----------------------------------------------------------------------------
(***************************************************************************)
(* Logs and requests.                                                      *)
(***************************************************************************)
\* Requests and answers have their types.
LEMMA CarryTypes ==
    ASSUME TypeInv
    PROVE  /\ \A m \in Requests : m \in AppendReqs
           /\ \A m \in Answers : m \in AppendResps
           /\ \A m \in Requests : /\ m.from \in Node /\ m.term \in Term /\ m.term \in Nat
                                  /\ m.prevLogIndex \in Nat /\ m.entries \in Seq(Entry)
                                  /\ m.leaderCommit \in Nat /\ m.prevLogTerm \in Nat
                                  /\ Len(m.entries) \in Nat /\ DOMAIN m.entries = 1 .. Len(m.entries)
           /\ \A m \in Answers : /\ m.from \in Node /\ m.to \in Node /\ m.match \in Nat /\ m.conflict \in Nat
                                 /\ m.waiter.term \in Term
<1>1. \A m \in Requests : m \in AppendReqs
  <2> TAKE m \in Requests
  <2>1. CASE m \in msgs /\ m.type = "AppendReq"
    BY <2>1, StepTypes
  <2>2. ASSUME NEW n \in Node, NEW c \in pend[n], c.pc = "log", c.req = m PROVE m \in AppendReqs
    BY <2>2, StepTypes
  <2> QED
    BY <2>1, <2>2, RequestsAre
<1>2. \A m \in Answers : m \in AppendResps
  BY DEF Answers, TypeInv, MessageTypes, VoteReqs, VoteResps, AppendReqs, AppendResps
<1>3. Term \subseteq Nat
  BY StepTypes
<1>4. ASSUME NEW m \in AppendReqs PROVE Len(m.entries) \in Nat /\ DOMAIN m.entries = 1 .. Len(m.entries)
  <2>1. m.entries \in Seq(Entry)
    BY DEF AppendReqs
  <2> QED
    BY <2>1, LenProperties
<1>5. \A m \in AppendReqs : /\ m.from \in Node /\ m.term \in Term
                            /\ m.prevLogIndex \in Nat /\ m.entries \in Seq(Entry)
                            /\ m.leaderCommit \in Nat /\ m.prevLogTerm \in Term
  BY DEF AppendReqs
<1>6. \A m \in AppendResps : /\ m.from \in Node /\ m.to \in Node /\ m.match \in Nat /\ m.conflict \in Nat
                             /\ m.waiter.term \in Term
  BY DEF AppendResps, Waiter
<1> QED
  BY <1>1, <1>2, <1>3, <1>4, <1>5, <1>6

\* Terms do not decrease along a log whose links do not.
LEMMA Sorted ==
    ASSUME NEW lg \in Seq(Entry), \A k \in LinksOf(lg) : k.before <= k.entry.term,
           NEW i \in DOMAIN lg, NEW j \in DOMAIN lg, i <= j
    PROVE  lg[i].term <= lg[j].term
<1>1. /\ DOMAIN lg = 1 .. Len(lg) /\ Len(lg) \in Nat
      /\ \A x \in DOMAIN lg : lg[x].term \in Nat
  BY LastTypes
<1>2. \A x \in DOMAIN lg : TermAt(lg, x - 1) <= lg[x].term
  <2> TAKE x \in DOMAIN lg
  <2> DEFINE k == Link(x, TermAt(lg, x - 1), lg[x])
  <2>1. k \in LinksOf(lg)
    BY DEF LinksOf
  <2>2. k.before = TermAt(lg, x - 1) /\ k.entry = lg[x]
    BY DEF Link
  <2> QED
    BY <2>1, <2>2
<1> DEFINE S == {x \in i .. Len(lg) : lg[x].term < lg[i].term}
<1>3. S = {}
  <2> SUFFICES ASSUME S # {} PROVE FALSE
    OBVIOUS
  <2>1. S \in SUBSET Nat
    BY <1>1
  <2>2. Min(S) \in S /\ \A y \in S : Min(S) <= y
    BY <2>1, MinOfNats
  <2> DEFINE x == Min(S)
  <2>3. x \in i .. Len(lg) /\ lg[x].term < lg[i].term
    BY <2>2
  <2>4. \A y \in i .. Len(lg) : lg[y].term < lg[i].term => x <= y
    BY <2>2
  <2> HIDE DEF x, S
  <2>5. x \in DOMAIN lg /\ x # i
    BY <1>1, <2>3
  <2>6. x - 1 \in i .. Len(lg) /\ x - 1 \in DOMAIN lg /\ x - 1 < x
    BY <1>1, <2>3, <2>5
  <2>7. ~(lg[x - 1].term < lg[i].term)
    BY <1>1, <2>3, <2>4, <2>6
  <2>8. lg[x - 1].term <= lg[x].term
    BY <1>2, <2>5, <2>6 DEF TermAt
  <2>9. lg[x - 1].term \in Nat /\ lg[i].term \in Nat /\ lg[x].term \in Nat
    BY <1>1, <2>5, <2>6
  <2> QED
    BY <2>3, <2>7, <2>8, <2>9
<1>4. ~(lg[j].term < lg[i].term)
  <2>1. j \in i .. Len(lg)
    BY <1>1
  <2> QED
    BY <1>3, <2>1
<1>5. lg[i].term \in Nat /\ lg[j].term \in Nat
  BY <1>1
<1> QED
  BY <1>4, <1>5

\* What is sent is a part of the sender's log.
LEMMA SentPart ==
    ASSUME NEW lg \in Seq(Entry), NEW prev \in 0 .. Len(lg), NEW m,
           m.prevLogIndex = prev, m.prevLogTerm = TermAt(lg, prev),
           m.entries = SubSeq(lg, prev + 1, Len(lg))
    PROVE  /\ PartOf(m, lg)
           /\ m.prevLogIndex + Len(m.entries) = Len(lg)
<1> DEFINE es == SubSeq(lg, prev + 1, Len(lg))
<1>1. m.prevLogIndex = prev /\ m.prevLogTerm = TermAt(lg, prev) /\ m.entries = es
  OBVIOUS
<1>2. Len(lg) \in Nat /\ DOMAIN lg = 1 .. Len(lg) /\ prev \in Nat /\ prev <= Len(lg)
  BY LenProperties
<1>3. \A i \in prev + 1 .. Len(lg) : lg[i] \in Entry
  BY <1>2, ElementOfSeq
<1>4. /\ es \in Seq(Entry)
      /\ Len(es) = IF prev + 1 <= Len(lg) THEN Len(lg) - (prev + 1) + 1 ELSE 0
      /\ \A i \in 1 .. Len(lg) - (prev + 1) + 1 : es[i] = lg[(prev + 1) + i - 1]
  BY <1>2, <1>3, SubSeqProperties
<1> HIDE DEF es
<1>5. DOMAIN es = 1 .. Len(es) /\ Len(es) \in Nat
  BY <1>4, LenProperties
<1>6. Len(es) = Len(lg) - prev
  <2>1. CASE prev + 1 <= Len(lg)
    <3>1. Len(es) = Len(lg) - (prev + 1) + 1
      BY <1>4, <2>1
    <3> QED
      BY <1>2, <3>1
  <2>2. CASE ~(prev + 1 <= Len(lg))
    <3>1. Len(es) = 0
      BY <1>4, <2>2
    <3>2. prev = Len(lg)
      <4>1. \A a, b \in Nat : a <= b /\ ~(a + 1 <= b) => a = b
        OBVIOUS
      <4> QED
        BY <1>2, <2>2, <4>1
    <3> QED
      BY <1>2, <3>1, <3>2
  <2> QED
    BY <2>1, <2>2
<1>7. \A i \in 1 .. Len(es) : es[i] = lg[prev + i]
  <2> TAKE i \in 1 .. Len(es)
  <2>1. i \in 1 .. Len(lg) - (prev + 1) + 1 /\ (prev + 1) + i - 1 = prev + i
    BY <1>2, <1>6
  <2>2. es[i] = lg[(prev + 1) + i - 1]
    BY <1>4, <2>1
  <2> QED
    BY <2>1, <2>2
<1>8. prev + Len(es) = Len(lg) /\ prev + Len(es) <= Len(lg)
  BY <1>2, <1>6
<1>9. \A i \in DOMAIN m.entries : m.entries[i] = lg[m.prevLogIndex + i]
  BY <1>1, <1>5, <1>7
<1>10. m.prevLogIndex + Len(m.entries) = Len(lg) /\ m.prevLogIndex + Len(m.entries) <= Len(lg)
  BY <1>1, <1>8
<1>11. m.prevLogTerm = TermAt(lg, m.prevLogIndex)
  OBVIOUS
<1> QED
  BY <1>9, <1>10, <1>11 DEF PartOf

\* It stays one when the log grows.
LEMMA AppendPart ==
    ASSUME NEW lg \in Seq(Entry), NEW e \in Entry, NEW m,
           m.prevLogIndex \in Nat, m.entries \in Seq(Entry), PartOf(m, lg)
    PROVE  PartOf(m, Append(lg, e))
<1> DEFINE b == Append(lg, e)
           i == m.prevLogIndex
<1>1. /\ b \in Seq(Entry) /\ Len(b) = Len(lg) + 1 /\ Len(lg) \in Nat /\ DOMAIN lg = 1 .. Len(lg)
      /\ \A x \in DOMAIN lg : b[x] = lg[x]
  BY AppendLinks
<1> HIDE DEF b
<1>2. DOMAIN b = 1 .. Len(b) /\ Len(m.entries) \in Nat /\ DOMAIN m.entries = 1 .. Len(m.entries)
  BY <1>1, LenProperties
<1>3. /\ i + Len(m.entries) <= Len(lg) /\ m.prevLogTerm = TermAt(lg, i)
      /\ \A x \in DOMAIN m.entries : m.entries[x] = lg[i + x]
  BY DEF PartOf
<1>4. i + Len(m.entries) <= Len(b) /\ i <= Len(lg)
  BY <1>1, <1>2, <1>3
<1>5. TermAt(b, i) = TermAt(lg, i)
  <2>1. i \in DOMAIN lg \/ i = 0
    BY <1>1, <1>4
  <2>2. i \in DOMAIN lg => i \in DOMAIN b
    BY <1>1, <1>2
  <2>3. i = 0 => i \notin DOMAIN b /\ i \notin DOMAIN lg
    BY <1>1, <1>2
  <2> QED
    BY <1>1, <2>1, <2>2, <2>3 DEF TermAt
<1>6. \A x \in DOMAIN m.entries : m.entries[x] = b[i + x]
  <2> TAKE x \in DOMAIN m.entries
  <2>1. i + x \in DOMAIN lg
    BY <1>1, <1>2, <1>3
  <2> QED
    BY <1>1, <1>3, <2>1
<1> QED
  BY <1>3, <1>4, <1>5, <1>6 DEF PartOf, b

\* The entries of a log are those of its links.
LEMMA LinkEntries ==
    ASSUME NEW lg, NEW i \in DOMAIN lg
    PROVE  \E k \in LinksOf(lg) : k.index = i /\ k.entry = lg[i] /\ k.before = TermAt(lg, i - 1)
<1> DEFINE k == Link(i, TermAt(lg, i - 1), lg[i])
<1>1. k \in LinksOf(lg)
  BY DEF LinksOf
<1>2. k.index = i /\ k.entry = lg[i] /\ k.before = TermAt(lg, i - 1)
  BY DEF Link
<1> QED
  BY <1>1, <1>2

\* Ballots stay, terms grow, and who leads a term leads as long as it is in it.
Grows ==
    /\ ballots \subseteq ballots'
    /\ \A n \in Node : currentTerm'[n] >= currentTerm[n]
    /\ \A n \in Node : state[n] = "leader" /\ currentTerm'[n] = currentTerm[n] => state'[n] = "leader"

\* A leader has made the entries of its term.
LEMMA LeadersMake ==
    ASSUME Base, NEW n \in Node, state[n] = "leader"
    PROVE  MadeBy(n, currentTerm[n]) /\ currentTerm[n] \in Term /\ currentTerm[n] \in Nat
<1>1. currentTerm[n] \in Term /\ currentTerm[n] \in Nat
  BY StepTypes DEF Base
<1>2. HasQuorum(n, currentTerm[n])
  BY DEF Base, VoteInv, LeaderInv
<1>3. currentTerm[n] >= currentTerm[n]
  BY <1>1
<1> QED
  BY <1>1, <1>2, <1>3 DEF MadeBy

\* Who has made entries in a leader's term is the leader.
LEMMA MadeByLeader ==
    ASSUME Base, NEW n \in Node, HasQuorum(n, currentTerm[n]), NEW c \in Node, MadeBy(c, currentTerm[n])
    PROVE  c = n /\ state[n] = "leader"
<1>1. currentTerm[n] \in Term
  BY StepTypes DEF Base
<1>2. c = n
  BY <1>1, QuorumUnique DEF Base, MadeBy
<1> QED
  BY <1>2 DEF MadeBy

-----------------------------------------------------------------------------
(***************************************************************************)
(* What requests and replies carry, step by step.                          *)
(***************************************************************************)
\* Who has led has led.
LEMMA CallKept ==
    ASSUME Base, Base', CallInv, Grows,
           \A m \in Requests' : m \in Requests \/ (/\ m.from \in Node /\ m.term \in Term
                                                   /\ MadeBy(m.from, m.term) /\ m.waiter.term = m.term),
           \A m \in Answers' : m \in Answers \/ (/\ m.to \in Node /\ m.waiter.term \in Term
                                                 /\ MadeBy(m.to, m.waiter.term))
    PROVE  CallInv'
<1>1. ASSUME NEW c \in Node, NEW t \in Term, MadeBy(c, t) PROVE MadeBy(c, t)'
  BY <1>1, MadeKept DEF Base, Grows
<1>2. ASSUME NEW m \in Requests' PROVE MadeBy(m.from, m.term)' /\ m.waiter.term = m.term
  <2>1. m.from \in Node /\ m.term \in Term /\ MadeBy(m.from, m.term) /\ m.waiter.term = m.term
    <3>1. CASE m \in Requests
      BY <3>1, CarryTypes DEF Base, CallInv
    <3> QED
      BY <3>1
  <2> QED
    BY <1>1, <2>1
<1>3. ASSUME NEW m \in Answers' PROVE MadeBy(m.to, m.waiter.term)'
  <2>1. m.to \in Node /\ m.waiter.term \in Term /\ MadeBy(m.to, m.waiter.term)
    <3>1. CASE m \in Answers
      BY <3>1, CarryTypes DEF Base, CallInv
    <3> QED
      BY <3>1
  <2> QED
    BY <1>1, <2>1
<1> QED
  BY <1>2, <1>3 DEF CallInv

\* Logs and requests that stay are in order.
LEMMA LogsStay ==
    ASSUME Base, Base', TermsInv, OrderInv, Grows, Requests' \subseteq Requests, log' = log
    PROVE  TermsInv' /\ OrderInv'
<1>1. Links' \subseteq Links
  BY LinksKept
<1>2. OrderInv'
  BY <1>1 DEF OrderInv
<1>3. ASSUME NEW n \in Node, NEW i \in DOMAIN log[n] PROVE log[n][i].term <= currentTerm'[n]
  <2>1. log[n][i].term \in Nat
    BY LastTypes, StepTypes DEF Base
  <2>2. currentTerm[n] \in Nat /\ currentTerm'[n] \in Nat
    BY BoundsAssumption DEF Base, TypeInv, ServerTypes, Term
  <2>3. log[n][i].term <= currentTerm[n] /\ currentTerm'[n] >= currentTerm[n]
    BY DEF TermsInv, Grows
  <2> QED
    BY <2>1, <2>2, <2>3
<1>4. TermsInv'
  BY <1>3 DEF TermsInv
<1> QED
  BY <1>2, <1>4

\* Replies, votes and losses.
LEMMA CalmCarry ==
    ASSUME Base, Base', CarryInv, Grows, Calm
    PROVE  CarryInv'
<1>t. /\ \A n \in Node : Len(log[n]) \in Nat
      /\ \A n, p \in Node : nextIndex[n][p] \in Nat /\ nextIndex'[n][p] \in Nat /\ matchIndex[n][p] \in Nat
  <2>1. \A n \in Node : Len(log[n]) \in Nat
    BY StepTypes, LastTypes DEF Base
  <2> QED
    BY <2>1 DEF Base, TypeInv, PeerTypes
<1>c. /\ log' = log /\ Requests' \subseteq Requests
      /\ \A m \in Answers' : m \in Answers \/ Refusal(m)
      /\ \A n \in Node : state'[n] = "leader" =>
            /\ state[n] = "leader" /\ currentTerm'[n] = currentTerm[n]
            /\ \A p \in Node : Counts(n, p)
  BY DEF Calm, logVars
<1>r. ASSUME NEW m \in Answers', Refusal(m)
      PROVE  /\ ~m.success /\ m.match = 0 /\ m.to \in Node /\ m.waiter.term \in Term
             /\ MadeBy(m.to, m.waiter.term)
             /\ \A n \in Node : state[n] = "leader" /\ m.waiter.term = currentTerm[n] => m.conflict <= Len(log[n])
  <2>1. PICK r \in Requests : m.to = r.from /\ m.waiter = r.waiter /\ m.conflict <= r.prevLogIndex
    BY <1>r DEF Refusal
  <2>2. /\ r.from \in Node /\ r.term \in Term /\ MadeBy(r.from, r.term) /\ r.waiter.term = r.term
        /\ r.prevLogIndex \in Nat /\ Len(r.entries) \in Nat
    BY CarryTypes DEF Base, CarryInv, CallInv
  <2>3. m.conflict \in Nat
    <3>1. m \in AppendResps
      BY DEF Answers, Base, TypeInv, MessageTypes, VoteReqs, VoteResps, AppendReqs, AppendResps
    <3> QED
      BY <3>1 DEF AppendResps
  <2>4. ASSUME NEW n \in Node, state[n] = "leader", m.waiter.term = currentTerm[n]
        PROVE  m.conflict <= Len(log[n])
    <3>1. PartOf(r, log[n])
      BY <2>1, <2>2, <2>4 DEF CarryInv, SourceInv
    <3>2. r.prevLogIndex <= Len(log[n])
      BY <1>t, <2>2, <3>1 DEF PartOf
    <3> QED
      BY <1>t, <2>1, <2>2, <2>3, <3>2
  <2> QED
    BY <1>r, <2>1, <2>2, <2>4 DEF Refusal
<1>1. CallInv'
  BY <1>c, <1>r, CallKept DEF CarryInv
<1>2. TermsInv' /\ OrderInv'
  BY <1>c, LogsStay DEF CarryInv
<1>3. SourceInv'
  <2> SUFFICES ASSUME NEW n \in Node, state'[n] = "leader", NEW m \in Requests', m.term = currentTerm'[n]
               PROVE  PartOf(m, log'[n])
    BY DEF SourceInv
  <2> QED
    BY <1>c DEF CarryInv, SourceInv
<1>4. PeerInv'
  <2> SUFFICES ASSUME NEW n \in Node, state'[n] = "leader"
               PROVE  /\ \A p \in Node : nextIndex'[n][p] <= Len(log[n]) + 1 /\ matchIndex'[n][p] <= Len(log[n])
                      /\ \A m \in Answers' : m.to = n /\ m.waiter.term = currentTerm'[n] =>
                            m.conflict <= Len(log[n]) /\ m.match <= Len(log[n])
    BY <1>c DEF PeerInv
  <2>1. state[n] = "leader" /\ currentTerm'[n] = currentTerm[n] /\ \A p \in Node : Counts(n, p)
    BY <1>c
  <2>2. /\ \A p \in Node : nextIndex[n][p] <= Len(log[n]) + 1 /\ matchIndex[n][p] <= Len(log[n])
        /\ \A m \in Answers : m.to = n /\ m.waiter.term = currentTerm[n] =>
              m.conflict <= Len(log[n]) /\ m.match <= Len(log[n])
    BY <2>1 DEF CarryInv, PeerInv
  <2>3. ASSUME NEW m \in Answers', m.to = n, m.waiter.term = currentTerm'[n]
        PROVE  m.conflict <= Len(log[n]) /\ m.match <= Len(log[n])
    <3>1. CASE m \in Answers
      BY <2>1, <2>2, <2>3, <3>1
    <3>2. CASE Refusal(m)
      <4>1. m.match = 0 /\ m.conflict <= Len(log[n])
        BY <1>r, <2>1, <2>3, <3>2
      <4> QED
        BY <1>t, <4>1
    <3> QED
      BY <1>c, <3>1, <3>2
  <2>4. ASSUME NEW p \in Node PROVE nextIndex'[n][p] <= Len(log[n]) + 1 /\ matchIndex'[n][p] <= Len(log[n])
    <3>1. matchIndex'[n][p] <= Len(log[n])
      BY <2>1, <2>2 DEF Counts
    <3>2. CASE nextIndex'[n][p] <= nextIndex[n][p]
      <4>1. nextIndex[n][p] <= Len(log[n]) + 1
        BY <2>2
      <4> QED
        BY <1>t, <3>1, <3>2, <4>1
    <3>3. ASSUME NEW m \in Answers, m.to = n, m.waiter.term = currentTerm[n],
                 nextIndex'[n][p] \in {m.match + 1, m.conflict}
          PROVE  nextIndex'[n][p] <= Len(log[n]) + 1
      <4>1. m.conflict <= Len(log[n]) /\ m.match <= Len(log[n])
        BY <2>2, <3>3
      <4>2. m.match \in Nat /\ m.conflict \in Nat
        BY CarryTypes DEF Base
      <4> QED
        BY <1>t, <3>3, <4>1, <4>2
    <3> QED
      BY <2>1, <3>1, <3>2, <3>3 DEF Counts
  <2> QED
    BY <2>3, <2>4
<1> QED
  BY <1>1, <1>2, <1>3, <1>4 DEF CarryInv

\* A new leader has sent nothing in its term, and sends from the end of its log.
LEMMA LeadsCarry ==
    ASSUME Base, Base', CarryInv, Grows, NEW n \in Node, Leads(n)
    PROVE  CarryInv'
<1>t. /\ \A k \in Node : Len(log[k]) \in Nat
      /\ state \in [Node -> {"follower", "candidate", "leader"}]
      /\ nextIndex \in [Node -> [Node -> Nat \ {0}]] /\ matchIndex \in [Node -> [Node -> Nat]]
  <2>1. \A k \in Node : Len(log[k]) \in Nat
    BY StepTypes, LastTypes DEF Base
  <2> QED
    BY <2>1 DEF Base, TypeInv, PeerTypes, ServerTypes
<1>c. /\ state[n] # "leader" /\ HasQuorum(n, currentTerm[n])
      /\ state' = [state EXCEPT ![n] = "leader"]
      /\ nextIndex' = [nextIndex EXCEPT ![n] = [p \in Node |-> Len(log[n]) + 1]]
      /\ matchIndex' = [matchIndex EXCEPT ![n] = [p \in Node |-> 0]]
      /\ Requests' \subseteq Requests /\ Answers' \subseteq Answers
      /\ UNCHANGED <<currentTerm, log>>
  BY DEF Leads, logVars
<1>k. \A k \in Node \ {n} : /\ state'[k] = state[k] /\ nextIndex'[k] = nextIndex[k]
                            /\ matchIndex'[k] = matchIndex[k]
  BY <1>t, <1>c
<1>1. CallInv'
  BY <1>c, CallKept DEF CarryInv
<1>2. TermsInv' /\ OrderInv'
  BY <1>c, LogsStay DEF CarryInv
<1>3. /\ \A m \in Requests : m.term # currentTerm[n]
      /\ \A m \in Answers : ~(m.to = n /\ m.waiter.term = currentTerm[n])
  <2>1. ASSUME NEW c \in Node, MadeBy(c, currentTerm[n]) PROVE FALSE
    BY <1>c, <2>1, MadeByLeader
  <2> QED
    BY <2>1, CarryTypes DEF Base, CarryInv, CallInv
<1>4. SourceInv'
  <2> SUFFICES ASSUME NEW k \in Node, state'[k] = "leader", NEW m \in Requests', m.term = currentTerm'[k]
               PROVE  PartOf(m, log'[k])
    BY DEF SourceInv
  <2>1. k # n
    BY <1>c, <1>3
  <2> QED
    BY <1>c, <1>k, <2>1 DEF CarryInv, SourceInv
<1>5. PeerInv'
  <2> SUFFICES ASSUME NEW k \in Node, state'[k] = "leader"
               PROVE  /\ \A p \in Node : nextIndex'[k][p] <= Len(log[k]) + 1 /\ matchIndex'[k][p] <= Len(log[k])
                      /\ \A m \in Answers' : m.to = k /\ m.waiter.term = currentTerm[k] =>
                            m.conflict <= Len(log[k]) /\ m.match <= Len(log[k])
    BY <1>c DEF PeerInv
  <2>1. CASE k # n
    BY <1>c, <1>k, <2>1 DEF CarryInv, PeerInv
  <2>2. CASE k = n
    <3>1. \A p \in Node : nextIndex'[n][p] = Len(log[n]) + 1 /\ matchIndex'[n][p] = 0
      BY <1>t, <1>c
    <3> QED
      BY <1>t, <1>c, <1>3, <2>2, <3>1
  <2> QED
    BY <2>1, <2>2
<1> QED
  BY <1>1, <1>2, <1>4, <1>5 DEF CarryInv

\* What a commit commits is nobody's request.
LEMMA CommitsCarry ==
    ASSUME Base, Base', CarryInv, Grows, NEW n \in Node, Commits(n)
    PROVE  CarryInv'
<1>c. /\ Requests' \subseteq Requests /\ Answers' \subseteq Answers
      /\ UNCHANGED <<state, currentTerm, log, nextIndex, matchIndex>>
  BY DEF Commits, peerVars
<1>1. CallInv'
  BY <1>c, CallKept DEF CarryInv
<1>2. TermsInv' /\ OrderInv'
  BY <1>c, LogsStay DEF CarryInv
<1>3. SourceInv'
  BY <1>c DEF CarryInv, SourceInv
<1>4. PeerInv'
  BY <1>c DEF CarryInv, PeerInv
<1> QED
  BY <1>1, <1>2, <1>3, <1>4 DEF CarryInv

\* A leader sends a part of its log.
LEMMA SendsCarry ==
    ASSUME Base, Base', CarryInv, Grows, NEW n \in Node, Sends(n)
    PROVE  CarryInv'
<1>1. PICK p \in Peers(n) : Requests' \subseteq Requests \cup
              {AppendReq(n, p, currentTerm[n], nextIndex[n][p] - 1, log[n], commitIndex[n])}
  BY DEF Sends
<1> DEFINE prev == nextIndex[n][p] - 1
           r == AppendReq(n, p, currentTerm[n], prev, log[n], commitIndex[n])
<1>c. /\ state[n] = "leader" /\ Answers' \subseteq Answers
      /\ UNCHANGED <<state, currentTerm, log, nextIndex, matchIndex>>
  BY DEF Sends, logVars, peerVars
<1>2. p \in Node /\ log[n] \in Seq(Entry) /\ Len(log[n]) \in Nat /\ DOMAIN log[n] = 1 .. Len(log[n])
  BY StepTypes, LenProperties DEF Base, Peers
<1>3. prev \in 0 .. Len(log[n])
  <2>1. nextIndex[n][p] \in Nat \ {0}
    BY <1>2 DEF Base, TypeInv, PeerTypes
  <2>2. nextIndex[n][p] <= Len(log[n]) + 1
    BY <1>c, <1>2 DEF CarryInv, PeerInv
  <2> QED
    BY <1>2, <2>1, <2>2
<1> HIDE DEF prev
<1>4. /\ r.from = n /\ r.term = currentTerm[n] /\ r.waiter.term = r.term
      /\ r.prevLogIndex = prev /\ r.prevLogTerm = TermAt(log[n], prev)
      /\ r.entries = SubSeq(log[n], prev + 1, Len(log[n]))
  BY DEF AppendReq
<1>5. Requests' \subseteq Requests \cup {r}
  BY <1>1 DEF prev
<1> HIDE DEF r
<1>6. PartOf(r, log[n])
  BY <1>2, <1>3, <1>4, SentPart
<1>7. RequestLinks(r) \subseteq LinksOf(log[n])
  <2>1. prev \in Nat
    BY <1>2, <1>3
  <2> QED
    BY <1>2, <1>4, <2>1, SentLinks
<1>8. Links' \subseteq Links
  BY <1>c, <1>5, <1>7, LinksAre
<1>m. MadeBy(n, currentTerm[n]) /\ currentTerm[n] \in Term /\ currentTerm[n] \in Nat
  BY <1>c, LeadersMake
<1>9. CallInv'
  BY <1>c, <1>4, <1>5, <1>m, CallKept DEF CarryInv
<1>10. OrderInv'
  BY <1>8 DEF CarryInv, OrderInv
<1>11. TermsInv'
  <2>1. ASSUME NEW i \in DOMAIN r.entries PROVE r.entries[i].term <= r.term
    <3>1. r.entries[i] = log[n][prev + i] /\ prev + Len(r.entries) <= Len(log[n])
      BY <1>4, <1>6 DEF PartOf
    <3>2. DOMAIN r.entries = 1 .. Len(r.entries) /\ Len(r.entries) \in Nat
      <4>1. r.entries \in Seq(Entry)
        <5>1. \A x \in prev + 1 .. Len(log[n]) : log[n][x] \in Entry
          BY <1>2, <1>3, ElementOfSeq
        <5>2. prev + 1 \in Int /\ Len(log[n]) \in Int
          BY <1>2, <1>3
        <5> QED
          BY <1>4, <5>1, <5>2, SubSeqProperties
      <4> QED
        BY <4>1, LenProperties
    <3>3. prev + i \in DOMAIN log[n]
      BY <1>2, <1>3, <3>1, <3>2
    <3>4. log[n][prev + i].term <= currentTerm[n]
      BY <3>3 DEF CarryInv, TermsInv
    <3> QED
      BY <1>4, <3>1, <3>4
  <2> QED
    BY <1>c, <1>5, <2>1 DEF CarryInv, TermsInv
<1>12. SourceInv'
  <2> SUFFICES ASSUME NEW k \in Node, state[k] = "leader", NEW m \in Requests', m.term = currentTerm[k]
               PROVE  PartOf(m, log[k])
    BY <1>c DEF SourceInv
  <2>1. CASE m \in Requests
    BY <2>1 DEF CarryInv, SourceInv
  <2>2. CASE m = r
    <3>1. HasQuorum(k, currentTerm[k]) /\ MadeBy(n, currentTerm[k])
      BY <1>4, <1>m, <2>2 DEF Base, VoteInv, LeaderInv
    <3>2. k = n
      BY <3>1, MadeByLeader
    <3> QED
      BY <1>6, <2>2, <3>2
  <2> QED
    BY <1>5, <2>1, <2>2
<1>13. PeerInv'
  BY <1>c DEF CarryInv, PeerInv
<1> QED
  BY <1>9, <1>10, <1>11, <1>12, <1>13 DEF CarryInv

\* A merge takes over entries of its request, and answers what it held.
LEMMA MergesCarry ==
    ASSUME Base, Base', CarryInv, Grows, NEW n \in Node, NEW m \in Requests, Merges(n, m)
    PROVE  CarryInv'
<1> DEFINE a == AppendResp(m, m.term, TRUE, m.prevLogIndex + Len(m.entries), 0)
<1>c. /\ LogCont(m) \in pend[n]
      /\ m.prevLogIndex = 0 \/ (/\ m.prevLogIndex \in DOMAIN log[n]
                                /\ log[n][m.prevLogIndex].term = m.prevLogTerm)
      /\ log' = [log EXCEPT ![n] = MergeEntries(log[n], m.prevLogIndex, m.entries)]
      /\ Answers' \subseteq Answers \cup {a}
      /\ Requests' \subseteq Requests
      /\ UNCHANGED <<state, currentTerm, nextIndex, matchIndex>>
  BY DEF Merges, peerVars
<1>a. /\ a.to = m.from /\ a.waiter = m.waiter /\ a.conflict = 0
      /\ a.match = m.prevLogIndex + Len(m.entries)
  BY DEF AppendResp
<1> HIDE DEF a
<1>t. /\ m \in AppendReqs /\ m.from \in Node /\ m.term \in Term
      /\ log \in [Node -> Seq(Entry)] /\ \A k \in Node : Len(log[k]) \in Nat
  <2>1. \A k \in Node : log[k] \in Seq(Entry) /\ Len(log[k]) \in Nat
    BY StepTypes, LenProperties DEF Base
  <2> QED
    BY <2>1, StepTypes, CarryTypes DEF Base
<1>1. state[n] = "follower" /\ currentTerm[n] = m.term
  BY <1>c DEF LogCont, Base, LinkInv, WaiterInv
<1>2. log'[n] = MergeEntries(log[n], m.prevLogIndex, m.entries) /\ \A k \in Node \ {n} : log'[k] = log[k]
  BY <1>c, <1>t
<1>3. LinksOf(log'[n]) \subseteq LinksOf(log[n]) \cup RequestLinks(m)
  <2>1. m.prevLogIndex = 0 => m.prevLogTerm = 0
    BY DEF Base, LinkInv, DummyInv
  <2>2. LinksOf(MergeEntries(log[n], m.prevLogIndex, m.entries)) \subseteq LinksOf(log[n]) \cup RequestLinks(m)
    BY <1>c, <1>t, <2>1, MergeLinks
  <2> QED
    BY <1>2, <2>2
<1>4. Links' \subseteq Links
  BY <1>c, <1>2, <1>3, LinksAre
<1>5. CallInv'
  <2>1. MadeBy(m.from, m.term) /\ m.waiter.term = m.term
    BY DEF CarryInv, CallInv
  <2> QED
    BY <1>a, <1>c, <1>t, <2>1, CallKept DEF CarryInv
<1>6. OrderInv'
  BY <1>4 DEF CarryInv, OrderInv
<1>7. TermsInv'
  <2>1. ASSUME NEW i \in DOMAIN log'[n] PROVE log'[n][i].term <= currentTerm[n]
    <3>1. PICK k \in LinksOf(log'[n]) : k.entry = log'[n][i]
      BY LinkEntries
    <3>2. CASE k \in LinksOf(log[n])
      <4>1. PICK j \in DOMAIN log[n] : k = Link(j, TermAt(log[n], j - 1), log[n][j])
        BY <3>2 DEF LinksOf
      <4>2. k.entry = log[n][j]
        BY <4>1 DEF Link
      <4> QED
        BY <3>1, <4>2 DEF CarryInv, TermsInv
    <3>3. CASE k \in RequestLinks(m)
      <4>1. PICK j \in DOMAIN m.entries : k = Link(m.prevLogIndex + j, TermBefore(m, j), m.entries[j])
        BY <3>3 DEF RequestLinks
      <4>2. k.entry = m.entries[j]
        BY <4>1 DEF Link
      <4> QED
        BY <1>1, <3>1, <4>2 DEF CarryInv, TermsInv
    <3> QED
      BY <1>3, <3>1, <3>2, <3>3
  <2> QED
    BY <1>c, <1>2, <2>1 DEF CarryInv, TermsInv
<1>8. SourceInv'
  <2> SUFFICES ASSUME NEW k \in Node, state[k] = "leader", NEW x \in Requests', x.term = currentTerm[k]
               PROVE  PartOf(x, log'[k])
    BY <1>c DEF SourceInv
  <2>1. k # n
    BY <1>1
  <2> QED
    BY <1>c, <1>2, <2>1 DEF CarryInv, SourceInv
<1>9. PeerInv'
  <2> SUFFICES ASSUME NEW k \in Node, state[k] = "leader"
               PROVE  /\ \A p \in Node : nextIndex[k][p] <= Len(log[k]) + 1 /\ matchIndex[k][p] <= Len(log[k])
                      /\ \A x \in Answers' : x.to = k /\ x.waiter.term = currentTerm[k] =>
                            x.conflict <= Len(log[k]) /\ x.match <= Len(log[k])
    <3>1. \A k \in Node : state[k] = "leader" => log'[k] = log[k]
      BY <1>1, <1>2
    <3> QED
      BY <1>c, <3>1 DEF PeerInv
  <2>1. ASSUME a.to = k, a.waiter.term = currentTerm[k]
        PROVE  a.conflict <= Len(log[k]) /\ a.match <= Len(log[k])
    <3>1. m.term = currentTerm[k]
      BY <1>a, <2>1 DEF CarryInv, CallInv
    <3>2. PartOf(m, log[k])
      BY <3>1 DEF CarryInv, SourceInv
    <3> QED
      BY <1>a, <1>t, <3>2 DEF PartOf
  <2> QED
    BY <1>c, <2>1 DEF CarryInv, PeerInv
<1> QED
  BY <1>5, <1>6, <1>7, <1>8, <1>9 DEF CarryInv

\* A new entry comes after all others of its term, or starts it.
LEMMA ExtendsCarry ==
    ASSUME Base, Base', CarryInv, Grows, NEW n \in Node, Extends(n)
    PROVE  CarryInv'
<1>1. PICK v \in Command :
         log' = [log EXCEPT ![n] = Append(log[n], [term |-> currentTerm[n], cmd |-> v])]
  BY DEF Extends
<1> DEFINE e == [term |-> currentTerm[n], cmd |-> v]
           x == Link(Len(log[n]) + 1, LastTerm(log[n]), e)
           lg == Append(log[n], e)
<1>c. /\ state[n] = "leader" /\ Answers' \subseteq Answers /\ Requests' \subseteq Requests
      /\ UNCHANGED <<state, currentTerm, nextIndex, matchIndex>>
  BY DEF Extends, peerVars
<1>m. MadeBy(n, currentTerm[n]) /\ currentTerm[n] \in Term /\ currentTerm[n] \in Nat
  BY <1>c, LeadersMake
<1>t. /\ log \in [Node -> Seq(Entry)] /\ log[n] \in Seq(Entry) /\ Len(log[n]) \in Nat
      /\ DOMAIN log[n] = 1 .. Len(log[n]) /\ LastTerm(log[n]) \in Nat
      /\ \A i \in DOMAIN log[n] : log[n][i].term \in Nat
      /\ \A k \in Node : Len(log[k]) \in Nat
  <2>1. \A k \in Node : log[k] \in Seq(Entry) /\ Len(log[k]) \in Nat
    BY StepTypes, LenProperties DEF Base
  <2> QED
    BY <2>1, StepTypes, LastTypes DEF Base
<1>2. e \in Entry /\ e.term = currentTerm[n]
  BY <1>m DEF Entry
<1>3. x.index = Len(log[n]) + 1 /\ x.entry = e /\ x.before = LastTerm(log[n])
  BY DEF Link
<1>4. log'[n] = lg /\ \A k \in Node \ {n} : log'[k] = log[k]
  BY <1>1, <1>t
<1> HIDE DEF e
<1>5. /\ LinksOf(lg) = LinksOf(log[n]) \cup {x}
      /\ lg \in Seq(Entry) /\ Len(lg) = Len(log[n]) + 1
      /\ \A i \in DOMAIN log[n] : lg[i] = log[n][i]
  BY <1>2, <1>t, AppendLinks
<1>6. lg[Len(log[n]) + 1] = e /\ DOMAIN lg = 1 .. Len(log[n]) + 1
  <2>1. lg[Len(log[n]) + 1] = e
    BY <1>2, <1>t, AppendProperties
  <2>2. DOMAIN lg = 1 .. Len(lg)
    BY <1>5, LenProperties
  <2> QED
    BY <1>5, <2>1, <2>2
<1> HIDE DEF x
<1>7. \A k \in Links' : k \in Links \/ k = x
  <2> HIDE DEF lg
  <2> QED
    BY <1>c, <1>4, <1>5, LinksAre
<1>8. CallInv'
  BY <1>c, CallKept DEF CarryInv
<1>9. TermsInv'
  <2> HIDE DEF lg
  <2>1. ASSUME NEW i \in DOMAIN lg PROVE lg[i].term <= currentTerm[n]
    <3>1. CASE i \in DOMAIN log[n]
      BY <1>5, <3>1 DEF CarryInv, TermsInv
    <3>2. CASE i = Len(log[n]) + 1
      <4>1. lg[i].term = currentTerm[n]
        BY <1>2, <1>6, <3>2
      <4> QED
        BY <1>m, <4>1
    <3> QED
      BY <1>t, <1>6, <3>1, <3>2
  <2> QED
    BY <1>c, <1>4, <2>1 DEF CarryInv, TermsInv
<1>10. x.before <= x.entry.term
  <2>1. LastTerm(log[n]) <= currentTerm[n]
    <3>1. CASE Len(log[n]) \in DOMAIN log[n]
      BY <3>1 DEF LastTerm, TermAt, CarryInv, TermsInv
    <3>2. CASE Len(log[n]) \notin DOMAIN log[n]
      BY <1>m, <3>2 DEF LastTerm, TermAt
    <3> QED
      BY <3>1, <3>2
  <2> QED
    BY <1>2, <1>3, <2>1
<1>11. ASSUME NEW l \in Links, l.entry.term = currentTerm[n]
       PROVE  l.index <= Len(log[n]) /\ l.index \in Nat /\ ~(LastTerm(log[n]) < currentTerm[n])
  <2>1. l \in LinksOf(log[n])
    BY <1>c, <1>11 DEF Base, LinkInv, LeaderHolds
  <2>2. PICK i \in DOMAIN log[n] : l = Link(i, TermAt(log[n], i - 1), log[n][i])
    BY <2>1 DEF LinksOf
  <2>3. l.index = i /\ l.entry = log[n][i]
    BY <2>2 DEF Link
  <2>4. \A k \in LinksOf(log[n]) : k.before <= k.entry.term
    BY LinksAre DEF CarryInv, OrderInv
  <2>5. Len(log[n]) \in DOMAIN log[n] /\ i <= Len(log[n]) /\ i \in Nat
    BY <1>t
  <2>6. log[n][i].term <= log[n][Len(log[n])].term
    BY <1>t, <2>4, <2>5, Sorted
  <2>7. LastTerm(log[n]) = log[n][Len(log[n])].term
    BY <2>5 DEF LastTerm, TermAt
  <2>8. currentTerm[n] <= LastTerm(log[n])
    BY <1>11, <2>3, <2>6, <2>7
  <2> QED
    BY <1>m, <1>t, <2>3, <2>5, <2>8
<1>12. OrderInv'
  <2>1. ASSUME NEW k \in Links' PROVE k.before <= k.entry.term
    BY <1>7, <1>10 DEF CarryInv, OrderInv
  <2>2. ASSUME NEW k \in Links', NEW l \in Links', k.entry.term = l.entry.term, k.before < k.entry.term
        PROVE  k.index <= l.index
    <3>1. CASE k \in Links /\ l \in Links
      BY <2>2, <3>1 DEF CarryInv, OrderInv
    <3>2. CASE k \in Links /\ l = x
      <4>1. k.index <= Len(log[n]) /\ k.index \in Nat
        BY <1>2, <1>3, <1>11, <2>2, <3>2
      <4> QED
        BY <1>t, <1>3, <3>2, <4>1
    <3>3. CASE k = x /\ l \in Links
      BY <1>2, <1>3, <1>11, <2>2, <3>3
    <3>4. CASE k = x /\ l = x
      BY <1>t, <1>3, <3>4
    <3> QED
      BY <1>7, <3>1, <3>2, <3>3, <3>4
  <2> QED
    BY <2>1, <2>2 DEF OrderInv
<1>13. SourceInv'
  <2> SUFFICES ASSUME NEW k \in Node, state[k] = "leader", NEW m \in Requests, m.term = currentTerm[k]
               PROVE  PartOf(m, log'[k])
    BY <1>c DEF SourceInv
  <2>1. PartOf(m, log[k])
    BY DEF CarryInv, SourceInv
  <2>2. CASE k = n
    <3>1. m.prevLogIndex \in Nat /\ m.entries \in Seq(Entry)
      BY CarryTypes DEF Base
    <3> QED
      BY <1>2, <1>4, <1>t, <2>1, <2>2, <3>1, AppendPart
  <2> QED
    BY <1>4, <2>1, <2>2
<1>14. PeerInv'
  <2> SUFFICES ASSUME NEW k \in Node, state[k] = "leader"
               PROVE  /\ \A p \in Node : nextIndex[k][p] <= Len(log'[k]) + 1 /\ matchIndex[k][p] <= Len(log'[k])
                      /\ \A m \in Answers : m.to = k /\ m.waiter.term = currentTerm[k] =>
                            m.conflict <= Len(log'[k]) /\ m.match <= Len(log'[k])
    BY <1>c DEF PeerInv
  <2>1. /\ \A p \in Node : nextIndex[k][p] <= Len(log[k]) + 1 /\ matchIndex[k][p] <= Len(log[k])
        /\ \A m \in Answers : m.to = k /\ m.waiter.term = currentTerm[k] =>
              m.conflict <= Len(log[k]) /\ m.match <= Len(log[k])
    BY DEF CarryInv, PeerInv
  <2>2. Len(log'[k]) \in Nat /\ Len(log[k]) <= Len(log'[k])
    <3>1. Len(log[k]) <= Len(log[k])
      BY <1>t
    <3> HIDE DEF lg
    <3>2. CASE k = n
      BY <1>t, <1>4, <1>5, <3>2
    <3> QED
      BY <1>t, <1>4, <3>1, <3>2
  <2>3. /\ \A p \in Node : nextIndex[k][p] \in Nat /\ matchIndex[k][p] \in Nat
        /\ \A m \in Answers : m.match \in Nat /\ m.conflict \in Nat
    BY CarryTypes DEF Base, TypeInv, PeerTypes
  <2>4. \A a \in Nat : a <= Len(log[k]) => a <= Len(log'[k])
    BY <1>t, <2>2
  <2>5. \A a \in Nat : a <= Len(log[k]) + 1 => a <= Len(log'[k]) + 1
    BY <1>t, <2>2
  <2> QED
    BY <2>1, <2>3, <2>4, <2>5
<1> QED
  BY <1>8, <1>9, <1>12, <1>13, <1>14 DEF CarryInv

\* Every step keeps what requests and replies carry.
LEMMA NextCarryInv ==
    ASSUME Base, Base', ContInv, CarryInv, [Next]_vars, "mux" \notin Hazards, "restart" \notin Hazards
    PROVE  CarryInv'
<1>1. Grows
  BY StepRoles DEF Grows
<1> QED
  BY <1>1, CarryKinds, CalmCarry, LeadsCarry, SendsCarry, ExtendsCarry, CommitsCarry, MergesCarry
=============================================================================
