---------------------------- MODULE MCTaskGraph ----------------------------
(* Model values and symmetry for checking TaskGraph alone.                 *)
EXTENDS TaskGraph, TLC

CONSTANTS g1, g2, t1, t2, t3, a1

MCGoal == {g1, g2}
MCTask == {t1, t2, t3}
MCAgent == {a1}

Symmetry == Permutations(MCGoal) \cup Permutations(MCTask)
=============================================================================
