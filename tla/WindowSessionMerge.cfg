SPECIFICATION Spec
CONSTANTS
  Milli = 1
  I32Half = 1000
  Configs <- SessionConfigs
  MinUtc <- MCMinUtc
  MaxUtc = 30
  Times = {0, 1, 2, 3}
  MaxItems = 3
  MaxNow = 2
  MaxCrashes = 0
INVARIANTS
  SessionItemsAccounted
