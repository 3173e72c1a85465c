SPECIFICATION Spec
CONSTANTS
  s1 = s1
  s2 = s2
  k1 = k1
  k2 = k2
  Srcs = {s1}
  Keys = {k1, k2}
  Input <- OneSource
  KeyHash <- TwoKeys
  BatchSizes = {1}
  ZeroInterval = FALSE
  MaxEpoch = 3
  Parts <- TwoParts
  ExPart <- ExParts
  FrontPart <- FrontParts
  SnapPart <- SnapParts
  WorkerCounts = {1}
  Delays = {0}
  MaxRuns = 3
INVARIANTS
  ExactlyOnce
