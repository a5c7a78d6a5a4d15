CONSTANTS
  RingSize = 4
  MaxBurst = 1
  Need = 2
  MaxAttempts = 1
  MaxLag = 1
  Codecs = {"MP3", "AAC"}
  FreedReads = FALSE
  FlushMeetsCallback = FALSE
  Total = 5
SPECIFICATION FairSpec
PROPERTY FeedRefined
PROPERTY BackpressureClears
PROPERTY CloseReturns
PROPERTY LostStationGivenUp
