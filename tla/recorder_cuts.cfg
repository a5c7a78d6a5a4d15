CONSTANTS
  RingFrames = 4
  MaxBlock = 2
  Chunk = 3
  Offsets = {0, 2}
  Titles = {"song", "jingle"}
  Ads = {"jingle"}
  Discards = {TRUE, FALSE}
  Untitled = "none"
  MaxFrames = 6
SPECIFICATION FairRecSpec
INVARIANT UnreadFits
INVARIANT FramesConserved
PROPERTY NoRelabel
PROPERTY RecordingEnds
PROPERTY SplitActs
