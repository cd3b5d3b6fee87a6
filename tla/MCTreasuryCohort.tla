-------------------------- MODULE MCTreasuryCohort --------------------------
(* TreasuryCohort for TLC: the second CSV revises the first, the third adds a *)
(* date to it.  Legacy refreshes are interchangeable.                       *)
EXTENDS TreasuryCohort, TLC

MCKeys == <<{1, 2}, {1, 2}, {1, 2, 3}>>
Interchangeable == Permutations(Legacies)

=============================================================================
