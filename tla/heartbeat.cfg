SPECIFICATION FairSpec
CONSTANTS
  inbox = inbox
  other = other
  s1 = s1
  Inbox = inbox
  None = None
  Job <- TwoJobs
  MaxMsg = 3
  Ids <- TwoIds
  IdOf <- FirstAgain
  Blocked <- SecondBlocked
  Slot <- OneSlot
  MaxWakes = 1
  MaxCrashes = 1
INVARIANTS
  NothingLost
  NoticedOnce
  RequestEndsSleep
PROPERTIES
  DueJobRuns
CHECK_DEADLOCK FALSE
