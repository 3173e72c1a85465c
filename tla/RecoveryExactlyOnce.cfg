SPECIFICATION Spec
CONSTANTS
  s1 = s1
  s2 = s2
  k1 = k1
  k2 = k2
  Srcs = {s1, s2}
  Keys = {k1, k2}
  Input <- TwoSources
  KeyHash <- TwoKeys
  BatchSizes = {1}
  ZeroInterval = TRUE
  MaxEpoch = 3
  Parts <- TwoParts
  ExPart <- ExParts
  FrontPart <- FrontParts
  SnapPart <- SnapParts
  WorkerCounts = {1, 2}
  Delays = {0}
  MaxRuns = 3
INVARIANTS
  ExactlyOnce
PROPERTIES
  ImplementsRecoveryPoint
