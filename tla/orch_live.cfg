SPECIFICATION FairSpec
CONSTANTS
  g1 = g1
  g2 = g2
  t1 = t1
  t2 = t2
  t3 = t3
  w1 = w1
  w2 = w2
  r1 = r1
  self = self
  None = None
  Self = self
  Goal <- OneGoal
  Task <- ThreeTasks
  Local <- TwoWorkers
  Remote <- NoRemote
  Agent <- MCAgent
  MaxWorkers = 2
  MaxRetries = 0
  MaxReplans = 1
  MaxRestarts = 0
  MaxCrashes = 1
  MaxInbox = 1
PROPERTIES
  TickEnds
  DeadAssigneeReleased
  CompletedGoalLetGo
CHECK_DEADLOCK FALSE
