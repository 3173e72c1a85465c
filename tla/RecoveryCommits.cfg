SPECIFICATION Spec
CONSTANTS
  s1 = s1
  s2 = s2
  k1 = k1
  k2 = k2
  Srcs = {s1}
  Keys = {k1, k2}
  Input <- OneSource
  KeyHash <- TwoKeys
  BatchSizes = {0, 2}
  ZeroInterval = FALSE
  MaxEpoch = 2
  Parts <- TwoParts
  ExPart <- ExParts
  FrontPart <- FrontParts
  SnapPart <- SnapParts
  WorkerCounts = {2}
  Delays = {0, 2}
  MaxRuns = 3
INVARIANTS
  TypeOK
  CommittedNeverReplayed
  IInv
PROPERTIES
  ResumePointAdvances
