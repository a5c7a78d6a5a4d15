CONSTANTS
  LastTrack = 2
  Formats = {1, 2}
  Taggable = {1}
  Modes = {"AccurateRip", "CUETools", "LocalVerify", "Local"}
  LastCandidate = 1
  Blocks = 2
  Silent = {}
  PickerGuards = TRUE
  RenameFails = FALSE
  MaxFaults = 2
  MaxStarts = 2
SPECIFICATION Spec
INVARIANT RecordsOfTheFile
INVARIANT DoneIsComplete
INVARIANT NothingHalfDone
INVARIANT FirstPassSafe
CHECK_DEADLOCK FALSE
