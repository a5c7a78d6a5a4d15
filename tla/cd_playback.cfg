CONSTANTS
  LastTrack = 1
  Len = 2
  RingSlots = 3
  MaxErrors = 2
  Builds = {TRUE, FALSE}
  Repeats = {"off"}
  Targets = {1}
  Keys = {"play", "next", "stop", "pause", "seek", "load", "rip", "cancel"}
  MaxKeys = 1
  MaxTrayMoves = 1
SPECIFICATION FairSpec
INVARIANT SoundInOrder
INVARIANT EndNeedsDisc
PROPERTY TrackAdvances
PROPERTY EjectNoticed
