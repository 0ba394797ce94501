SPECIFICATION FairSpec
CONSTANTS
  m1 = m1
  m2 = m2
  Msg <- TwoMessages
  InboxRetries = 3
  Batch = 1
  MaxTurns = 3
  MaxErrors = 2
  MaxCrashes = 1
INVARIANTS
  ProcessedWasRead
  ReplaysAreBounded
PROPERTIES
  SessionEnds
  ImplementsInboxDelivery
CHECK_DEADLOCK FALSE
