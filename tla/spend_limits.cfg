SPECIFICATION Spec
CONSTANTS
  edit_own_file = edit_own_file
  None = None
  Amount = {1, 2}
  MaxSingle = 2
  MaxHourly = 2
  MaxDaily = 3
  ConfirmAbove = 2
  MaxPerTurn = 2
  Limited <- Tools
  Limit <- Limits
  Window <- Hours
  Day <- Days
  LastHour = 2
  MaxFaults = 2
INVARIANTS
  MovedWithinCaps
  RatesHold
