SPECIFICATION Spec
CONSTANTS
  g1 = g1
  g2 = g2
  t1 = t1
  t2 = t2
  t3 = t3
  a1 = a1
  None = None
  MaxRetries = 1
  Goal <- MCGoal
  Task <- MCTask
  Agent <- MCAgent
SYMMETRY Symmetry
INVARIANTS
  BlockedHasReason
  GoalReflectsTasks
  OwnerMatchesStatus
  GraphIsSound
  DependenciesRespected
  ActiveGoalHasWork
PROPERTIES
  TerminalIsFinal
CHECK_DEADLOCK FALSE
