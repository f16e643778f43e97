\* one binary built with sqlite_fts5, started twice
CONSTANTS
  Proc = {p1}
  Builds = {TRUE}
  Msg = {m1}
  Releases = {}
  MaxStarts = 2
  MaxFaults = 0
SPECIFICATION Spec
INVARIANT FTSWhenAvailable
CHECK_DEADLOCK FALSE
