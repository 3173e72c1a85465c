SPECIFICATION FairSpec
CONSTANTS
  w1 = w1
  w2 = w2
  a = a
  b = b
  Workers <- MCWorkers
  Keys <- MCKeys
  WorkerOf <- MCWorkerOf
  Configs <- MCConfigs
  Cooldown = 1
  MaxNow = 2
  Signals = TRUE
INVARIANTS TypeOK ItemsInOrder EofOnce FinalIsComplete SchedHasLogic SnapshotsCurrent
PROPERTIES WorkersStop Notified
CHECK_DEADLOCK FALSE
