CONSTANTS
  Urls = {u1, u2}
  Files = {f1, f2}
  NoUrl = NoUrl
  NoFile = NoFile
  CD = CD
  Silence = Silence
  Keys = {"station", "file", "track", "browse", "stop", "pause", "device", "record"}
  BrowseMeetsConnect = FALSE
  MaxKeys = 6
SPECIFICATION FairSpec
INVARIANT LastRequestHeard
INVARIANT OneSource
PROPERTY OpenUndisturbed
PROPERTY StationAnswered
