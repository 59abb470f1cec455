------------------------------- MODULE MCRaft -------------------------------
(* Raft on two or three nodes.  Nodes and commands are interchangeable. *)
EXTENDS Raft, TLC

CONSTANTS n1, n2, n3, c1, c2

Nodes == {n1, n2, n3}
TwoNodes == {n1, n2}
NoCommand == {}
OneCommand == {c1}
TwoCommands == {c1, c2}
NoHazards == {}
ElectionRaces == {"elect", "lead", "late"}
Faults == {"elect", "lead", "late", "mux", "restart"}

\* What the log and its properties depend on: of the history of votes only the
\* number of elections, of the votes only those still being counted.
LogView ==
    <<serverVars, logVars, peerVars, pend, msgs, clientVars, restarts,
      [n \in Node |-> IF state[n] = "candidate" THEN votes[n] ELSE {}],
      Cardinality({b \in ballots : b[1] = b[3]})>>

Symmetry == Permutations(Nodes) \cup Permutations(TwoCommands)
TwoNodeSymmetry == Permutations(TwoNodes)
=============================================================================
