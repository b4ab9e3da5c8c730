----------------------------- MODULE MCLifecycle -----------------------------
(* Small instances of Lifecycle.                                           *)
EXTENDS Lifecycle, TLC

CONSTANTS w1, w2, r1

WorkersOne == {w1}
WorkersTwo == {w1, w2}
WorkersSymmetry == Permutations(WorkersTwo)
RevisionsOne == {r1}

=============================================================================
