CONSTANTS
  A = A
  B = B
  T = T
  Files <- TwoFiles
  Directories <- Nested
  Nothing = Nothing
  Disc <- OneTrack
  MaxWork = 2
SPECIFICATION FairSpec
INVARIANT OrderFollowsRows
INVARIANT NoDuplicateRows
INVARIANT SparkleFollowsRows
PROPERTY EditsKeepCurrent
PROPERTY PeekIsNext
PROPERTY LoadsArrive
