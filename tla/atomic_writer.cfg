SPECIFICATION FairSpec
CONSTANTS
  daemon = daemon
  tool = tool
  None = None
  Nobody = Nobody
  Proc <- TwoProcesses
  MAX_BACKUPS = 3
  MaxKills = 1
  MaxHarm = 1
  MaxFails = 2
INVARIANTS
  CopySurvives
PROPERTIES
  FileStaysGood
  LockIsFreed
