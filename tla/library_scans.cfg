CONSTANTS
  r1 = r1
  r2 = r2
  a = a
  b = b
  Roots = {r1, r2}
  Default = r1
  Files = {a, b}
  Home <- Homes
  NoIndex = NoIndex
  DiskErrs = FALSE
  RemovalUnsaved = FALSE
  RemovesUnloaded = FALSE
  MaxWrites = 1
  MaxScans = 2
  MaxCrashes = 1
SPECIFICATION Spec
INVARIANT RecordsFresh
PROPERTY RecordsKept
CHECK_DEADLOCK FALSE
