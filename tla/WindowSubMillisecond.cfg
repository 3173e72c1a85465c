SPECIFICATION Spec
CONSTANTS
  Milli = 2
  I32Half = 1000
  Lengths = {2}
  Offsets = {2}
  Aligns <- AroundZero
  MaxTime = 8
INVARIANTS
  AssignedExactly
