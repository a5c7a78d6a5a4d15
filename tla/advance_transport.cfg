CONSTANTS
  Tracks = {A, B, C}
  Ids = {1, 2, 3, 4}
  NoTrack = NoTrack
  NoSrc = NoSrc
  A = A
  B = B
  C = C
  Rows <- ThreeRows
  QueueCap = 1
  Keys = {"start", "enter", "next", "pause", "stop"}
  OutlastsTick = TRUE
  ReadsThrow = FALSE
SPECIFICATION FairAdvSpec
INVARIANT NextSrcLive
INVARIANT TitleMatchesAudio
INVARIANT NoFreeInCallback
INVARIANT EndNeedsPlayback
PROPERTY NoRestartOfSplicedTrack
PROPERTY ArmConverges
