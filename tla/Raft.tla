-------------------------------- MODULE Raft --------------------------------
(***************************************************************************)
(* The Raft replicator of pkg/replication/raft.go on a fixed set of peers, *)
(* at the granularity of its critical sections.                            *)
(*                                                                         *)
(* A handler that leaves one lock and takes another is two steps: what it  *)
(* still has to do is a record in pend[n], the set of goroutines of node n *)
(* that stand between two critical sections.  Hazards says which of the    *)
(* things the code does not rule out may happen:                           *)
(*   a section  other steps overtake a goroutine that waits to run this    *)
(*              section (see Sections); one that may not be overtaken runs *)
(*              before anything else starts;                               *)
(*   "late"     other steps overtake a vote request or a reply; without it *)
(*              only append requests stay in flight, and everything else   *)
(*              is handled, or lost, before anything new starts;           *)
(*   "mux"      several RPCs wait on one connection, whose read loop hands *)
(*              a reply to an arbitrary waiter (transport.go);             *)
(*   "restart"  a process restarts: nothing of the Raft state is persisted.*)
(* Requests and replies in flight are the set msgs; a message that is never*)
(* received is one the network lost.                                       *)
(***************************************************************************)
EXTENDS Integers, Sequences, FiniteSets, SequencesExt, FiniteSetsExt

CONSTANTS
    Node,           \* the configured cluster: config.NodeID and Raft.Peers
    Command,        \* client commands, each given to Apply once
    None,           \* the empty string of votedFor and leaderID
    Hazards,        \* what may go wrong, a subset of AllHazards
    MaxTerm,        \* bound on the term
    MaxElections,   \* bound on the elections started
    MaxPerTerm,     \* bound on the commands a leader takes in one term
    MaxCalls,       \* bound on the appends of one node that wait on one peer
    MaxRestarts     \* bound on restarts

Sections == {"elect", "lead", "send", "log", "append", "broadcast", "signal",
             "commit"}

AllHazards == Sections \cup {"late", "mux", "restart"}

ASSUME NodeAssumption == Node # {} /\ IsFiniteSet(Node) /\ None \notin Node
ASSUME HazardsAssumption == Hazards \subseteq AllHazards
ASSUME BoundsAssumption == /\ MaxTerm \in Nat /\ MaxElections \in Nat
                           /\ MaxPerTerm \in Nat /\ MaxCalls \in Nat
                           /\ MaxRestarts \in Nat

VARIABLES
    state,          \* StateFollower, StateCandidate or StateLeader (mu)
    currentTerm,    \* (mu)
    votedFor,       \* (mu)
    leaderID,       \* (mu)
    log,            \* entries after the dummy entry 0 (logMu)
    commitIndex,    \* (logMu)
    applied,        \* commands given to storage; lastApplied is its length
    nextIndex,      \* (peerMu)
    matchIndex,     \* (peerMu)
    votes,          \* the voters votesReceived counts in the last election
    pend,           \* goroutines between two critical sections
    msgs,           \* requests and replies in flight
    futures,        \* futures of the node's apply loop: [index, cmd]
    issued,         \* commands given to Apply
    ballots,        \* history: every vote cast, <<voter, term, candidate>>
    restarts

serverVars == <<state, currentTerm, votedFor, leaderID>>
logVars    == <<log, commitIndex, applied>>
peerVars   == <<nextIndex, matchIndex>>
clientVars == <<futures, issued>>
vars == <<serverVars, logVars, peerVars, votes, pend, msgs, clientVars,
          ballots, restarts>>

Peers(n) == Node \ {n}
Term     == 0 .. MaxTerm
Entry    == [term : Term, cmd : Command]

(***************************************************************************)
(* The log.  Index 0 is the dummy entry of NewRaftReplicator, of term 0.   *)
(***************************************************************************)
TermAt(lg, i) == IF i \in DOMAIN lg THEN lg[i].term ELSE 0

LastTerm(lg) == TermAt(lg, Len(lg))

AnyLogUpToDate(lastTerm, lastIndex, lg) == TRUE

\* logIsUpToDate of handleVoteRequest
UpToDate(lastTerm, lastIndex, lg) ==
    \/ lastTerm > LastTerm(lg)
    \/ lastTerm = LastTerm(lg) /\ lastIndex >= Len(lg)

\* The first index of the run of equal terms that index i of lg is in.
FirstOfTerm(lg, i) ==
    Min({j \in 1 .. i : \A k \in j .. i : lg[k].term = lg[i].term})

\* Entries es after index prev: the log is cut at the first entry that
\* conflicts and the rest appended; entries that match are left alone.
MergeEntries(lg, prev, es) ==
    LET new == {i \in DOMAIN es : \/ prev + i > Len(lg)
                                  \/ lg[prev + i].term # es[i].term}
    IN IF new = {} THEN lg
       ELSE SubSeq(lg, 1, prev + Min(new) - 1) \o SubSeq(es, Min(new), Len(es))

FollowerCommitSkipsFirst(ci, leaderCommit, last) ==
    IF leaderCommit > ci + 1 THEN Min({leaderCommit, last}) ELSE ci

FollowerCommitMayGoBack(ci, leaderCommit, last) == Min({leaderCommit, last})

\* The follower's commit index follows the leader's as far as the request's
\* entries reach.
FollowerCommit(ci, leaderCommit, last) ==
    IF leaderCommit > ci THEN Min({leaderCommit, last}) ELSE ci

Cmds(es) == [i \in DOMAIN es |-> es[i].cmd]

\* The apply loop: everything after lastApplied up to ci goes to storage.
ApplyUpTo(n, lg, ci) ==
    applied[n] \o Cmds(SubSeq(lg, Len(applied[n]) + 1, ci))

votesNeeded == Cardinality(Node) \div 2 + 1

(***************************************************************************)
(* Goroutines and messages.                                                *)
(***************************************************************************)
\* In pend[n]: what a goroutine does once it gets the next lock.
ElectCont(t)     == [pc |-> "elect", term |-> t]
AppendCont(t, v) == [pc |-> "append", term |-> t, cmd |-> v]
BroadcastCont    == [pc |-> "broadcast"]
LeadCont(t)      == [pc |-> "lead", term |-> t]
SendCont(p, t)   == [pc |-> "send", peer |-> p, term |-> t]
LogCont(m)       == [pc |-> "log", req |-> m]
SignalCont       == [pc |-> "signal"]
CommitCont(t)    == [pc |-> "commit", term |-> t]

SendConts(n, t) == {SendCont(p, t) : p \in Peers(n)}

Replies == {m \in msgs : m.type \in {"VoteResp", "AppendResp"}}

\* A handler may start: what still waits for a lock may be overtaken.
Idle == \A n \in Node : \A c \in pend[n] : c.pc \in Hazards

\* A step that answers no vote request and no reply may start.
Free == /\ Idle
        /\ "late" \in Hazards \/ \A m \in msgs : m.type = "AppendReq"

\* The read loop of a connection runs one inbound handler at a time.
ConnFree(n, from) == \A c \in pend[n] : c.pc = "log" => c.req.from # from

\* The apply loop and the commit loop are one goroutine each.
ApplyLoopFree(n)  == \A c \in pend[n] : c.pc \notin {"append", "broadcast"}
CommitLoopFree(n) == \A c \in pend[n] : c.pc # "commit"

VoteReq(n, p, t, lg) ==
    [type |-> "VoteReq", from |-> n, to |-> p, term |-> t,
     lastLogIndex |-> Len(lg), lastLogTerm |-> LastTerm(lg),
     waiter |-> [kind |-> "vote", term |-> t]]

VoteResp(m, t, granted) ==
    [type |-> "VoteResp", from |-> m.to, to |-> m.from, term |-> t,
     granted |-> granted, waiter |-> m.waiter]

AppendReq(n, p, t, prev, lg, ci) ==
    [type |-> "AppendReq", from |-> n, to |-> p, term |-> t,
     prevLogIndex |-> prev, prevLogTerm |-> TermAt(lg, prev),
     entries |-> SubSeq(lg, prev + 1, Len(lg)), leaderCommit |-> ci,
     waiter |-> [kind |-> "append", term |-> t]]

AppendResp(m, t, success, match, conflict) ==
    [type |-> "AppendResp", from |-> m.to, to |-> m.from, term |-> t,
     success |-> success, match |-> match, conflict |-> conflict,
     waiter |-> m.waiter]

\* The caller and the callee of the RPC a message belongs to.
Client(m) == IF m \in Replies THEN m.to ELSE m.from
Server(m) == IF m \in Replies THEN m.from ELSE m.to

\* Append calls of n to p that have not been answered.
Calls(n, p) == {m \in msgs : /\ m.type \in {"AppendReq", "AppendResp"}
                             /\ Client(m) = n /\ Server(m) = p}

GrantedWhateverItSays(m) == m.type = "VoteResp"

\* What a reply says to a waiter that decodes it as a vote, or as an append
\* response: fields the other message does not have are zero.
Granted(m)  == m.type = "VoteResp" /\ m.granted
Success(m)  == m.type = "AppendResp" /\ m.success
Conflict(m) == IF m.type = "AppendResp" THEN m.conflict ELSE 0

Reply(m, r) == msgs' = (msgs \ {m}) \cup {r}

(***************************************************************************)
(* Initially every node has just been created and started.                 *)
(***************************************************************************)
Init ==
    /\ state = [n \in Node |-> "follower"]
    /\ currentTerm = [n \in Node |-> 0]
    /\ votedFor = [n \in Node |-> None]
    /\ leaderID = [n \in Node |-> None]
    /\ log = [n \in Node |-> <<>>]
    /\ commitIndex = [n \in Node |-> 0]
    /\ applied = [n \in Node |-> <<>>]
    /\ nextIndex = [n \in Node |-> [p \in Node |-> 1]]
    /\ matchIndex = [n \in Node |-> [p \in Node |-> 0]]
    /\ votes = [n \in Node |-> {}]
    /\ pend = [n \in Node |-> {}]
    /\ msgs = {}
    /\ futures = [n \in Node |-> {}]
    /\ issued = {}
    /\ ballots = {}
    /\ restarts = 0

(***************************************************************************)
(* Elections.                                                              *)
(***************************************************************************)
\* The election timer fires on a node that is not the leader.  leaderID is
\* not cleared.
StartElection(n) ==
    /\ Free
    /\ state[n] # "leader"
    /\ currentTerm[n] < MaxTerm
    /\ Cardinality({b \in ballots : b[1] = b[3]}) < MaxElections
    /\ LET t == currentTerm[n] + 1 IN
       /\ currentTerm' = [currentTerm EXCEPT ![n] = t]
       /\ ballots' = ballots \cup {<<n, t, n>>}
       /\ pend' = [pend EXCEPT ![n] = @ \cup {ElectCont(t)}]
    /\ state' = [state EXCEPT ![n] = "candidate"]
    /\ votedFor' = [votedFor EXCEPT ![n] = n]
    /\ votes' = [votes EXCEPT ![n] = {n}]
    /\ UNCHANGED <<leaderID, logVars, peerVars, msgs, clientVars, restarts>>

\* startElection goes on under logMu: the requests carry the end of the log as
\* it is now.  Without peers the node leads at once.
RequestVotes(n, t) ==
    /\ ElectCont(t) \in pend[n]
    /\ IF Peers(n) = {}
       THEN /\ pend' = [pend EXCEPT ![n] = (@ \ {ElectCont(t)}) \cup {LeadCont(t)}]
            /\ UNCHANGED msgs
       ELSE /\ pend' = [pend EXCEPT ![n] = @ \ {ElectCont(t)}]
            /\ msgs' = msgs \cup {VoteReq(n, p, t, log[n]) : p \in Peers(n)}
    /\ UNCHANGED <<serverVars, logVars, peerVars, votes, clientVars, ballots,
                   restarts>>

CanVoteAgain(n, m) == TRUE

\* canVote: the vote of this term is free, or was given to this candidate.
CanVote(n, m) == m.term > currentTerm[n] \/ votedFor[n] \in {None, m.from}

\* A request of a newer term makes the node a follower of no leader; the vote
\* goes to the first candidate of the term whose log is up to date.
HandleVoteRequest(n, m) ==
    /\ Idle
    /\ m.type = "VoteReq" /\ m.to = n
    /\ ConnFree(n, m.from)
    /\ LET newer == m.term > currentTerm[n]
           grant == /\ m.term >= currentTerm[n]
                    /\ CanVote(n, m)
                    /\ UpToDate(m.lastLogTerm, m.lastLogIndex, log[n])
       IN /\ state' = IF newer THEN [state EXCEPT ![n] = "follower"] ELSE state
          /\ currentTerm' = IF newer THEN [currentTerm EXCEPT ![n] = m.term]
                            ELSE currentTerm
          /\ leaderID' = IF newer THEN [leaderID EXCEPT ![n] = None] ELSE leaderID
          /\ votedFor' = IF grant THEN [votedFor EXCEPT ![n] = m.from]
                         ELSE IF newer THEN [votedFor EXCEPT ![n] = None]
                         ELSE votedFor
          /\ ballots' = IF grant THEN ballots \cup {<<n, m.term, m.from>>}
                        ELSE ballots
          /\ Reply(m, VoteResp(m, currentTerm'[n], grant))
    /\ UNCHANGED <<logVars, peerVars, votes, pend, clientVars, restarts>>

StepDownKeepsLeaderID(n, t) ==
    /\ currentTerm' = [currentTerm EXCEPT ![n] = t]
    /\ state' = [state EXCEPT ![n] = "follower"]
    /\ votedFor' = [votedFor EXCEPT ![n] = None]
    /\ UNCHANGED leaderID

\* A reply of a newer term, to either kind of waiter.
StepDown(n, t) ==
    /\ currentTerm' = [currentTerm EXCEPT ![n] = t]
    /\ state' = [state EXCEPT ![n] = "follower"]
    /\ votedFor' = [votedFor EXCEPT ![n] = None]
    /\ leaderID' = [leaderID EXCEPT ![n] = None]

\* requestVoteFromPeer once the reply is in: the vote counts only in the
\* election the waiter belongs to, and the last one needed leads to becomeLeader
\* after mu is released.
RequestVoteFromPeer(n, m) ==
    /\ Idle
    /\ m \in Replies /\ m.to = n
    /\ m.waiter.kind = "vote"
    /\ msgs' = msgs \ {m}
    /\ LET current == currentTerm[n] = m.waiter.term /\ state[n] = "candidate"
           counted == votes[n] \cup {m.from}
       IN \/ /\ current
             /\ m.term > currentTerm[n]
             /\ StepDown(n, m.term)
             /\ UNCHANGED <<votes, pend>>
          \/ /\ current
             /\ m.term <= currentTerm[n]
             /\ Granted(m)
             /\ votes' = [votes EXCEPT ![n] = counted]
             /\ pend' = IF Cardinality(counted) >= votesNeeded
                        THEN [pend EXCEPT ![n] = @ \cup {LeadCont(m.waiter.term)}]
                        ELSE pend
             /\ UNCHANGED serverVars
          \/ /\ ~current \/ (m.term <= currentTerm[n] /\ ~Granted(m))
             /\ UNCHANGED <<serverVars, votes, pend>>
    /\ UNCHANGED <<logVars, peerVars, clientVars, ballots, restarts>>

MayLeadAnyTerm(n, t) == state[n] # "leader"

\* becomeLeader checks the term again, not that the node is still a candidate.
MayLead(n, t) == currentTerm[n] = t /\ state[n] # "leader"

NextIndexOnLastEntry(lg) == Len(lg)

\* A new leader sends from after the end of its log.
FirstNextIndex(lg) == Len(lg) + 1

BecomeLeader(n, t) ==
    /\ LeadCont(t) \in pend[n]
    /\ IF ~MayLead(n, t)
       THEN /\ pend' = [pend EXCEPT ![n] = @ \ {LeadCont(t)}]
            /\ UNCHANGED <<state, leaderID, peerVars>>
       ELSE /\ pend' = [pend EXCEPT ![n] =
                           (@ \ {LeadCont(t)}) \cup SendConts(n, t)]
            /\ state' = [state EXCEPT ![n] = "leader"]
            /\ leaderID' = [leaderID EXCEPT ![n] = n]
            /\ nextIndex' = [nextIndex EXCEPT ![n] =
                                [p \in Node |-> FirstNextIndex(log[n])]]
            /\ matchIndex' = [matchIndex EXCEPT ![n] = [p \in Node |-> 0]]
    /\ UNCHANGED <<currentTerm, votedFor, logVars, votes, msgs, clientVars,
                   ballots, restarts>>

(***************************************************************************)
(* Log replication.                                                        *)
(***************************************************************************)
\* A tick of runHeartbeats, or the peer's turn in it: a goroutine is started
\* for peer p.  It is not tied to the node still being the leader.
Heartbeat(n, p) ==
    /\ Free
    /\ state[n] = "leader"
    /\ p \in Peers(n)
    /\ Cardinality(Calls(n, p)) < MaxCalls
    /\ pend' = [pend EXCEPT ![n] = @ \cup {SendCont(p, currentTerm[n])}]
    /\ UNCHANGED <<serverVars, logVars, peerVars, votes, msgs, clientVars,
                   ballots, restarts>>

\* The request is built from nextIndex and the log as they are now, in the
\* term the goroutine was started for.  The goroutine gives up if it gets no
\* connection, which the bound MaxCalls makes the rule.
ReplicateLogToPeer(n, p, t) ==
    /\ SendCont(p, t) \in pend[n]
    /\ pend' = [pend EXCEPT ![n] = @ \ {SendCont(p, t)}]
    /\ msgs' = IF Cardinality(Calls(n, p)) < MaxCalls
               THEN msgs \cup {AppendReq(n, p, t, nextIndex[n][p] - 1, log[n],
                                         commitIndex[n])}
               ELSE msgs
    /\ UNCHANGED <<serverVars, logVars, peerVars, votes, clientVars, ballots,
                   restarts>>

VoteForgotten(n, m) == None

\* The vote is free again only if the request starts a new term.
VoteAfterAppend(n, m) == IF m.term > currentTerm[n] THEN None ELSE votedFor[n]

HandleAppendEntriesOfAnyTerm(n, m) ==
    /\ Free
    /\ m.type = "AppendReq" /\ m.to = n
    /\ ConnFree(n, m.from)
    /\ IF m.term < currentTerm[n] THEN UNCHANGED serverVars
       ELSE /\ currentTerm' = [currentTerm EXCEPT ![n] = m.term]
            /\ votedFor' = [votedFor EXCEPT ![n] = VoteAfterAppend(n, m)]
            /\ state' = [state EXCEPT ![n] = "follower"]
            /\ leaderID' = [leaderID EXCEPT ![n] = m.from]
    /\ pend' = [pend EXCEPT ![n] = @ \cup {LogCont(m)}]
    /\ msgs' = msgs \ {m}
    /\ UNCHANGED <<logVars, peerVars, votes, clientVars, ballots, restarts>>

\* handleAppendEntriesRequest under mu: a stale term is refused; otherwise the
\* sender is the leader, and the rest waits for logMu.
HandleAppendEntries(n, m) ==
    /\ Free
    /\ m.type = "AppendReq" /\ m.to = n
    /\ ConnFree(n, m.from)
    /\ \/ /\ m.term < currentTerm[n]
          /\ Reply(m, AppendResp(m, currentTerm[n], FALSE, 0, 0))
          /\ UNCHANGED <<serverVars, pend>>
       \/ /\ m.term >= currentTerm[n]
          /\ currentTerm' = [currentTerm EXCEPT ![n] = m.term]
          /\ votedFor' = [votedFor EXCEPT ![n] = VoteAfterAppend(n, m)]
          /\ state' = [state EXCEPT ![n] = "follower"]
          /\ leaderID' = [leaderID EXCEPT ![n] = m.from]
          /\ pend' = [pend EXCEPT ![n] = @ \cup {LogCont(m)}]
          /\ msgs' = msgs \ {m}
    /\ UNCHANGED <<logVars, peerVars, votes, clientVars, ballots, restarts>>

\* The same handler under logMu: the consistency check, the merge, the commit
\* index and the apply loop.  The term is not looked at again.
AppendEntriesToLog(n, m) ==
    /\ LogCont(m) \in pend[n]
    /\ pend' = [pend EXCEPT ![n] = @ \ {LogCont(m)}]
    /\ LET prev == m.prevLogIndex
           last == prev + Len(m.entries)
       IN \/ /\ prev > Len(log[n])
             /\ msgs' = msgs \cup
                   {AppendResp(m, m.term, FALSE, 0, Len(log[n]) + 1)}
             /\ UNCHANGED logVars
          \/ /\ prev \in DOMAIN log[n]
             /\ log[n][prev].term # m.prevLogTerm
             /\ msgs' = msgs \cup
                   {AppendResp(m, m.term, FALSE, 0, FirstOfTerm(log[n], prev))}
             /\ UNCHANGED logVars
          \/ /\ prev = 0 \/ (prev \in DOMAIN log[n]
                             /\ log[n][prev].term = m.prevLogTerm)
             /\ LET lg == MergeEntries(log[n], prev, m.entries)
                    ci == FollowerCommit(commitIndex[n], m.leaderCommit, last)
                IN /\ log' = [log EXCEPT ![n] = lg]
                   /\ commitIndex' = [commitIndex EXCEPT ![n] = ci]
                   /\ applied' = [applied EXCEPT ![n] = ApplyUpTo(n, lg, ci)]
             /\ msgs' = msgs \cup {AppendResp(m, m.term, TRUE, last, 0)}
    /\ UNCHANGED <<serverVars, peerVars, votes, clientVars, ballots, restarts>>

\* handleAppendEntriesResponse: a reply counts for the leader of the waiter's
\* term only; a success wakes the commit loop (commitCh holds one signal).
HandleAppendEntriesResponse(n, m) ==
    /\ Idle
    /\ m \in Replies /\ m.to = n
    /\ m.waiter.kind = "append"
    /\ msgs' = msgs \ {m}
    /\ LET p == m.from
           leading == state[n] = "leader" /\ currentTerm[n] = m.waiter.term
       IN \/ /\ m.term > currentTerm[n]
             /\ StepDown(n, m.term)
             /\ UNCHANGED <<peerVars, pend>>
          \/ /\ m.term <= currentTerm[n] /\ leading /\ Success(m)
             /\ IF m.match > matchIndex[n][p]
                THEN /\ matchIndex' = [matchIndex EXCEPT ![n][p] = m.match]
                     /\ nextIndex' = [nextIndex EXCEPT ![n][p] = m.match + 1]
                ELSE UNCHANGED peerVars
             /\ pend' = [pend EXCEPT ![n] = @ \cup {SignalCont}]
             /\ UNCHANGED serverVars
          \/ /\ m.term <= currentTerm[n] /\ leading /\ ~Success(m)
             /\ nextIndex' = [nextIndex EXCEPT ![n][p] =
                                 IF Conflict(m) > 0 THEN Conflict(m)
                                 ELSE IF @ > 1 THEN @ - 1 ELSE @]
             /\ UNCHANGED <<serverVars, matchIndex, pend>>
          \/ /\ m.term <= currentTerm[n] /\ ~leading
             /\ UNCHANGED <<serverVars, peerVars, pend>>
    /\ UNCHANGED <<logVars, votes, clientVars, ballots, restarts>>

(***************************************************************************)
(* Client commands: Apply, the apply loop, and the commit loop.            *)
(***************************************************************************)
\* processApply reads the role and the term under mu.  A node that is not the
\* leader answers with an error (or forwards to leaderAddr): nothing changes.
ProcessApply(n, v) ==
    /\ Free
    /\ v \in Command \ issued
    /\ state[n] = "leader"
    /\ ApplyLoopFree(n)
    /\ Cardinality({i \in DOMAIN log[n] : log[n][i].term = currentTerm[n]})
          < MaxPerTerm
    /\ issued' = issued \cup {v}
    /\ pend' = [pend EXCEPT ![n] = @ \cup {AppendCont(currentTerm[n], v)}]
    /\ UNCHANGED <<serverVars, logVars, peerVars, votes, msgs, futures, ballots,
                   restarts>>

\* It appends under logMu, in the term it read, and registers the future.
\* Without peers the entry is committed and applied at once.
AppendToLog(n, t, v) ==
    /\ AppendCont(t, v) \in pend[n]
    /\ LET index == Len(log[n]) + 1
           lg    == Append(log[n], [term |-> t, cmd |-> v])
       IN /\ log' = [log EXCEPT ![n] = lg]
          /\ futures' = [futures EXCEPT ![n] = @ \cup {[index |-> index, cmd |-> v]}]
          /\ IF Peers(n) = {}
             THEN /\ commitIndex' = [commitIndex EXCEPT ![n] = index]
                  /\ applied' = [applied EXCEPT ![n] = Append(@, v)]
                  /\ pend' = [pend EXCEPT ![n] = @ \ {AppendCont(t, v)}]
             ELSE /\ pend' = [pend EXCEPT ![n] =
                                 (@ \ {AppendCont(t, v)}) \cup {BroadcastCont}]
                  /\ UNCHANGED <<commitIndex, applied>>
    /\ UNCHANGED <<serverVars, peerVars, votes, msgs, issued, ballots, restarts>>

\* It reads the term again and replicates in that term, leader or not.
BroadcastAppend(n) ==
    /\ BroadcastCont \in pend[n]
    /\ pend' = [pend EXCEPT ![n] =
                   (@ \ {BroadcastCont}) \cup SendConts(n, currentTerm[n])]
    /\ UNCHANGED <<serverVars, logVars, peerVars, votes, msgs, clientVars,
                   ballots, restarts>>

\* advanceCommitIndex reads the role and the term under mu.
AdvanceCommitRead(n) ==
    /\ SignalCont \in pend[n]
    /\ CommitLoopFree(n)
    /\ pend' = [pend EXCEPT ![n] =
                   (@ \ {SignalCont}) \cup
                   (IF state[n] = "leader" THEN {CommitCont(currentTerm[n])} ELSE {})]
    /\ UNCHANGED <<serverVars, logVars, peerVars, votes, msgs, clientVars,
                   ballots, restarts>>

\* Servers that hold index k as far as leader n knows, itself included.
ReplicatedTo(n, k) == {n} \cup {p \in Peers(n) : matchIndex[n][p] >= k}

HeldByHalf(n, k) ==
    Cardinality(ReplicatedTo(n, k)) >= Cardinality(Node) \div 2

HeldByMajority(n, k) ==
    Cardinality(ReplicatedTo(n, k)) > Cardinality(Node) \div 2

\* Under logMu it commits the last entry of that term a majority holds, and
\* applies up to it.
AdvanceCommitIndex(n, t) ==
    /\ CommitCont(t) \in pend[n]
    /\ pend' = [pend EXCEPT ![n] = @ \ {CommitCont(t)}]
    /\ LET held == {k \in commitIndex[n] + 1 .. Len(log[n]) :
                      log[n][k].term = t /\ HeldByMajority(n, k)}
           ci == Max({commitIndex[n]} \cup held)
       IN /\ commitIndex' = [commitIndex EXCEPT ![n] = ci]
          /\ applied' = [applied EXCEPT ![n] = ApplyUpTo(n, log[n], ci)]
    /\ UNCHANGED <<serverVars, log, peerVars, votes, msgs, clientVars, ballots,
                   restarts>>

(***************************************************************************)
(* What the code does not rule out.                                        *)
(***************************************************************************)
\* readLoop takes any entry of pendingRPCs: two calls that wait on the
\* connection from n to p get each other's reply.
CrossReplies(m1, m2) ==
    /\ "mux" \in Hazards
    /\ Free
    /\ m1 \in Replies
    /\ Client(m1) = Client(m2) /\ Server(m1) = Server(m2)
    /\ m1.waiter # m2.waiter
    /\ msgs' = (msgs \ {m1, m2}) \cup
                  {[m1 EXCEPT !.waiter = m2.waiter], [m2 EXCEPT !.waiter = m1.waiter]}
    /\ UNCHANGED <<serverVars, logVars, peerVars, votes, pend, clientVars,
                   ballots, restarts>>

\* A connection fails: the caller of sendRPC gets an error and gives up.
LoseMessage(m) ==
    /\ Idle
    /\ msgs' = msgs \ {m}
    /\ UNCHANGED <<serverVars, logVars, peerVars, votes, pend, clientVars,
                   ballots, restarts>>

\* A process stops and NewRaftReplicator starts from nothing; its connections
\* break, the requests it already sent may still arrive.
Restart(n) ==
    /\ "restart" \in Hazards
    /\ restarts < MaxRestarts
    /\ restarts' = restarts + 1
    /\ state' = [state EXCEPT ![n] = "follower"]
    /\ currentTerm' = [currentTerm EXCEPT ![n] = 0]
    /\ votedFor' = [votedFor EXCEPT ![n] = None]
    /\ leaderID' = [leaderID EXCEPT ![n] = None]
    /\ log' = [log EXCEPT ![n] = <<>>]
    /\ commitIndex' = [commitIndex EXCEPT ![n] = 0]
    /\ applied' = [applied EXCEPT ![n] = <<>>]
    /\ nextIndex' = [nextIndex EXCEPT ![n] = [p \in Node |-> 1]]
    /\ matchIndex' = [matchIndex EXCEPT ![n] = [p \in Node |-> 0]]
    /\ votes' = [votes EXCEPT ![n] = {}]
    /\ pend' = [pend EXCEPT ![n] = {}]
    /\ msgs' = {m \in msgs : m.to # n}
    /\ futures' = [futures EXCEPT ![n] = {}]
    /\ UNCHANGED <<issued, ballots>>

\* A goroutine that waits for a lock goes on.
SectionStep(n) ==
    \/ \E t \in Term : RequestVotes(n, t)
    \/ \E t \in Term : BecomeLeader(n, t)
    \/ \E p \in Node, t \in Term : ReplicateLogToPeer(n, p, t)
    \/ \E t \in Term, v \in Command : AppendToLog(n, t, v)
    \/ BroadcastAppend(n)
    \/ AdvanceCommitRead(n)
    \/ \E t \in Term : AdvanceCommitIndex(n, t)
    \/ \E c \in pend[n] : c.pc = "log" /\ AppendEntriesToLog(n, c.req)

Next ==
    \/ \E n \in Node :
         \/ StartElection(n)
         \/ \E p \in Node : Heartbeat(n, p)
         \/ \E v \in Command : ProcessApply(n, v)
         \/ SectionStep(n)
         \/ Restart(n)
    \/ \E m \in msgs :
         \/ HandleVoteRequest(m.to, m)
         \/ RequestVoteFromPeer(m.to, m)
         \/ HandleAppendEntries(m.to, m)
         \/ HandleAppendEntriesResponse(m.to, m)
         \/ LoseMessage(m)
    \/ \E m1, m2 \in msgs : CrossReplies(m1, m2)

Spec == Init /\ [][Next]_vars

\* A vote message is handled or lost.
VoteStep ==
    \E m \in msgs : \/ RequestVoteFromPeer(m.to, m)
                    \/ HandleVoteRequest(m.to, m)
                    \/ m.type \in {"VoteReq", "VoteResp"} /\ LoseMessage(m)

\* The scheduler runs goroutines that can run (weak fairness); the ticker of a
\* leader keeps ticking, and a peer that is called again and again is reached in
\* the end, and so is its answer (strong fairness: the steps are not enabled
\* between two ticks, while another handler runs, or after a loss).
Fairness ==
    /\ WF_vars(\E n \in Node : SectionStep(n))
    /\ WF_vars(VoteStep)
    /\ \A p \in Node :
         /\ SF_vars(\E n \in Node : Heartbeat(n, p))
         /\ SF_vars(\E m \in msgs : HandleAppendEntries(p, m))
         /\ SF_vars(\E m \in msgs : m.from = p /\ HandleAppendEntriesResponse(m.to, m))

FairSpec == Spec /\ Fairness

-----------------------------------------------------------------------------
(***************************************************************************)
(* Properties.                                                             *)
(***************************************************************************)
\* Every variable has the type the Go struct gives it.
TypeOK ==
    /\ state \in [Node -> {"follower", "candidate", "leader"}]
    /\ currentTerm \in [Node -> Term]
    /\ votedFor \in [Node -> Node \cup {None}]
    /\ leaderID \in [Node -> Node \cup {None}]
    /\ \A n \in Node : log[n] \in Seq(Entry) /\ applied[n] \in Seq(Command)
    /\ commitIndex \in [Node -> Nat]
    /\ nextIndex \in [Node -> [Node -> Nat \ {0}]]
    /\ matchIndex \in [Node -> [Node -> Nat]]
    /\ votes \in [Node -> SUBSET Node]
    /\ ballots \subseteq Node \X Term \X Node
    /\ issued \subseteq Command
    /\ restarts \in 0 .. MaxRestarts

\* startElection and handleVoteRequest: no node ever votes for two candidates
\* in one term, whatever it did to its term in between.
OneVotePerTerm ==
    \A b, c \in ballots : b[1] = c[1] /\ b[2] = c[2] => b[3] = c[3]

\* The voters of candidate c in term t.
VotersOf(c, t) == {p \in Node : <<p, t, c>> \in ballots}

Elected(c, t) == Cardinality(VotersOf(c, t)) >= votesNeeded

\* requestVoteFromPeer and becomeLeader: a leader has the votes of a majority in
\* its own term, although mu is released between the count and the change.
LeaderWasElected ==
    \A n \in Node : state[n] = "leader" => Elected(n, currentTerm[n])

\* becomeLeader: two nodes are never both leader of one term.
ElectionSafety ==
    \A m, n \in Node :
        /\ state[m] = "leader" /\ state[n] = "leader"
        /\ currentTerm[m] = currentTerm[n]
        => m = n

\* handleAppendEntriesRequest: a follower's leaderID, which its clients' writes
\* are forwarded to, was elected in the follower's term.
LeaderIDElected ==
    \A n \in Node :
        state[n] = "follower" /\ leaderID[n] # None
            => Elected(leaderID[n], currentTerm[n])

\* handleAppendEntriesRequest: two logs that agree on the term of an entry
\* agree on everything up to it.
LogMatching ==
    \A m, n \in Node : \A i \in DOMAIN log[m] \cap DOMAIN log[n] :
        log[m][i].term = log[n][i].term
            => SubSeq(log[m], 1, i) = SubSeq(log[n], 1, i)

\* advanceCommitIndex: a command a node applied is at that index in the logs of
\* a majority, now and for ever after.
CommittedOnMajority ==
    \A n \in Node : \A i \in DOMAIN applied[n] :
        Cardinality({p \in Node : i \in DOMAIN log[p]
                                  /\ log[p][i].cmd = applied[n][i]}) >= votesNeeded

\* advanceCommitIndex and waitForCommit answer a future with success as soon as
\* lastApplied has reached its index.
AnsweredWithSuccess(n, f) == Len(applied[n]) >= f.index

\* A client told that its command was applied finds it at its index in what the
\* node that answered gave to storage.
AnswerIsTrue ==
    \A n \in Node : \A f \in futures[n] :
        AnsweredWithSuccess(n, f) => applied[n][f.index] = f.cmd

\* The handlers of requests and replies, and startElection: apart from a restart
\* nothing takes a node's term back, nor its vote within a term.
TermAndVoteStable ==
    [][restarts' = restarts =>
          \A n \in Node :
             /\ currentTerm'[n] >= currentTerm[n]
             /\ currentTerm'[n] = currentTerm[n] /\ votedFor[n] # None
                   => votedFor'[n] = votedFor[n]]_vars

\* A leader only appends to its log while it leads.
LeaderAppendOnly ==
    [][\A n \in Node :
          /\ state[n] = "leader" /\ state'[n] = "leader"
          /\ currentTerm'[n] = currentTerm[n]
          => IsPrefix(log[n], log'[n])]_vars

\* The commit index never goes back, also when a late request carries fewer
\* entries than the node has committed.
CommitMonotone ==
    [][\A n \in Node : commitIndex'[n] >= commitIndex[n]]_vars

Storage == INSTANCE ReplicatedLog WITH Replica <- Node

\* The apply loops: what the nodes give to their storages is one sequence of
\* commands, which no node leaves, reorders or goes back in.
ImplementsReplicatedLog == Storage!Spec

\* An entry of the leader's own term reaches the storage of every node, however
\* often appends and their replies are lost, unless the leader is deposed.
EntryReplicated ==
    \A n \in Node, e \in Entry :
        (state[n] = "leader" /\ e.term = currentTerm[n] /\ e \in Range(log[n]))
            ~> \/ state[n] # "leader"
               \/ \A p \in Node : e.cmd \in Range(applied[p])
=============================================================================
