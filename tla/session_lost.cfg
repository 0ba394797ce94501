SPECIFICATION Spec
CONSTANTS
  m1 = m1
  m2 = m2
  Msg <- OneMessage
  InboxRetries = 2
  Batch = 1
  MaxTurns = 3
  MaxErrors = 2
  MaxCrashes = 0
INVARIANTS
  ClaimsAreSettled
CHECK_DEADLOCK FALSE
