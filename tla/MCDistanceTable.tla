-------------------------- MODULE MCDistanceTable --------------------------
(* Small instances of DistanceTable for TLC. *)
EXTENDS DistanceTable, TLC

CONSTANTS t1, t2, x1, x2

TwoThreads == {t1, t2}
TwoTables == {x1, x2}
NoNodeZero == {1}
WithHole == {0, 1, 3}                   \* node 2 has no directory
HoleArgs == {0, 2, 3, 4}
ZeroArg == {0}

SymmetryTwo == Permutations(TwoThreads) \cup Permutations(TwoTables)
=============================================================================
