SPECIFICATION FairSpec
CONSTANTS
  Milli = 1
  I32Half = 50
  Configs <- AllConfigs
  MinUtc <- MCMinUtc
  MaxUtc = 30
  Times = {0, 1, 3}
  MaxItems = 3
  MaxNow = 2
  MaxCrashes = 1
INVARIANTS
  SlidingAssignment
  TypeOK
  SlidingItemsAccounted
  SessionsApart
  SystemClosedOnce
  OnTimeItemsTaken
PROPERTIES
  WatermarkAdvances
  WindowsClose
