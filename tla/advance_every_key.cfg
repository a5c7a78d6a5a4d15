CONSTANTS
  Tracks = {A, B}
  Ids = {1, 2, 3, 4}
  NoTrack = NoTrack
  NoSrc = NoSrc
  A = A
  B = B
  C = C
  Rows <- OneRow
  QueueCap = 1
  Keys = {"start", "enter", "next", "queue", "unqueue", "repeat", "pause", "stop", "device"}
  OutlastsTick = TRUE
  ReadsThrow = FALSE
SPECIFICATION AdvSpec
INVARIANT SilentUnlessPlaying
