------------------------------- MODULE MCMVCC -------------------------------
(* Transactions on two nodes and the edge between them, and the pruner.      *)
(* Transactions are interchangeable, and so are the nodes.                   *)
EXTENDS Lifecycle, TLC

CONSTANTS t1, t2, n1, n2, e1

TwoTx == {t1, t2}
TwoNodes == {n1, n2}
OneEdge == {e1}
BothEnds == [e \in OneEdge |-> TwoNodes]
NoHazards == {}

\* The edge joins both nodes and both are labelled.
MVCCSymmetry == Permutations(Tx) \cup Permutations(Node)
=============================================================================
