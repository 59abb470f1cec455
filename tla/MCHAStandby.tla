---------------------------- MODULE MCHAStandby ----------------------------
(* Hot standby with two calls.                                               *)
EXTENDS HAStandby, TLC

CONSTANTS c1, c2

TwoClients == {c1, c2}
NoFailing == {}
NoHazards == {}

\* Calls differ in their names only (Failing must be empty).
ClientSymmetry == Permutations(Client)
=============================================================================
