SPECIFICATION Spec
CONSTANTS
  w1 = w1
  w2 = w2
  a = a
  b = b
  Workers <- MCWorkers
  Keys <- MCKeys
  WorkerOf <- MCWorkerOf
  Configs <- MCWithdrawn
  Cooldown = 1
  MaxNow = 2
  Signals = TRUE
INVARIANT NoneIsNotNotified
CHECK_DEADLOCK FALSE
