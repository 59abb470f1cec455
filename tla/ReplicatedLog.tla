---------------------------- MODULE ReplicatedLog ----------------------------
(***************************************************************************)
(* What a replicated storage promises: every replica applies the commands  *)
(* of one and the same sequence, in its order, none twice and none skipped.*)
(***************************************************************************)
EXTENDS Sequences, SequencesExt

CONSTANTS Replica, Command

VARIABLE applied    \* applied[r]: the commands replica r has applied

Init == applied = [r \in Replica |-> <<>>]

Comparable(s, t) == IsPrefix(s, t) \/ IsPrefix(t, s)

\* Replica r applies some more commands.
Learn(r) ==
    /\ applied' = [applied EXCEPT ![r] = applied'[r]]
    /\ IsPrefix(applied[r], applied'[r])
    /\ \A q \in Replica : Comparable(applied'[r], applied[q])

Next == \E r \in Replica : Learn(r)

Spec == Init /\ [][Next]_applied
=============================================================================
