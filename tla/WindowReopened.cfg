SPECIFICATION Spec
CONSTANTS
  Milli = 1
  I32Half = 1000
  Configs <- TumblingConfigs
  MinUtc <- MCMinUtc
  MaxUtc = 30
  Times = {0, 1, 2, 3}
  MaxItems = 3
  MaxNow = 4
  MaxCrashes = 0
INVARIANTS
  ClosedOnce
