------------------------------- MODULE MCWAL -------------------------------
(* The write-ahead log with two callers.  Callers, nodes and contents are    *)
(* interchangeable.                                                          *)
EXTENDS WAL, TLC

CONSTANTS w1, w2, k1, k2, v1, v2

TwoWriters == {w1, w2}
OneKey == {k1}
TwoKeys == {k1, k2}
TwoValues == {v1, v2}
OneValue == {v1}
Mutations == {"create", "update", "delete"}
AllKinds == Mutations \cup {"marker"}
Writes == {"update", "delete"}
NoHazards == {}
Unsynced == {"unsynced"}

Symmetry == Permutations(Writer) \cup Permutations(Key) \cup Permutations(Value)
=============================================================================
