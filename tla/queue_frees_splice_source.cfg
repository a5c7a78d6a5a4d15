CONSTANTS
  Tracks = {A, B}
  Ids = {1, 2, 3, 4}
  NoTrack = NoTrack
  NoSrc = NoSrc
  A = A
  B = B
  C = C
  Rows <- TwoRows
  QueueCap = 1
  Keys = {"start", "queue"}
  OutlastsTick = TRUE
  ReadsThrow = FALSE
SPECIFICATION AdvSpec
INVARIANT NextSrcLive
