SPECIFICATION OrchestrationSpec
CONSTANTS
  g1 = g1
  g2 = g2
  t1 = t1
  t2 = t2
  t3 = t3
  w1 = w1
  w2 = w2
  r1 = r1
  self = self
  None = None
  Self = self
  Goal <- TwoGoals
  Task <- TwoTasks
  Local <- TwoWorkers
  Remote <- OneRemote
  Agent <- MCAgent
  MaxWorkers = 2
  MaxRetries = 1
  MaxReplans = 1
  MaxRestarts = 1
  MaxCrashes = 1
  MaxInbox = 2
SYMMETRY Symmetry
INVARIANTS
  PhaseMatchesGoal
  
  
PROPERTIES
  ImplementsTaskGraph
CHECK_DEADLOCK FALSE
