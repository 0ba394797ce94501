-------------------------- MODULE MCOrchestration --------------------------
(* Model values and symmetry for checking Orchestration.                   *)
EXTENDS Orchestration, TLC

CONSTANTS g1, g2, t1, t2, t3, w1, w2, r1, self

OneGoal == {g1}
TwoGoals == {g1, g2}
TwoTasks == {t1, t2}
ThreeTasks == {t1, t2, t3}
OneWorker == {w1}
TwoWorkers == {w1, w2}
NoRemote == {}
OneRemote == {r1}
MCAgent == Local \cup Remote \cup {Self}

Symmetry == Permutations(Goal) \cup Permutations(Task) \cup Permutations(Local)
=============================================================================
