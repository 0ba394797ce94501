SPECIFICATION QuickSpec
CONSTANTS
  daemon = daemon
  tool = tool
  None = None
  Nobody = Nobody
  Proc <- TwoProcesses
  MAX_BACKUPS = 3
  MaxKills = 0
  MaxHarm = 0
  MaxFails = 0
INVARIANTS
  OneAtATime
