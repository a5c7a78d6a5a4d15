CONSTANTS
  RingParts = 4
  Cap = 2
  MaxBurst = 2
  Offsets = {0, 1}
  MaxParts = 8
  MaxGaps = 2
SPECIFICATION Spec
INVARIANT FramesWhole
INVARIANT TailKept
CHECK_DEADLOCK FALSE
