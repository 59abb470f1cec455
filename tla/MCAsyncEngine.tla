--------------------------- MODULE MCAsyncEngine ---------------------------
(* The write-behind engine with a node and its edge.                          *)
EXTENDS AsyncEngine

CONSTANTS n1, e1

OneNode == {n1}
OneEdge == {e1}
OneEnd == [e \in {e1} |-> {n1}]

NoHazards == {}
=============================================================================
