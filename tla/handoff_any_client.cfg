CONSTANTS
  Tracks = {A, B}
  Ids = {1, 2, 3, 4, 5}
  NoTrack = NoTrack
  NoSrc = NoSrc
  A = A
  B = B
SPECIFICATION Spec
SYMMETRY Symmetry
INVARIANT FileSrcLive
INVARIANT PositionReaderLive
