\* two processes that open the store, with and without fts5, killed anywhere
\* after MaxStarts processes everything has ended
CONSTANTS
  Proc = {p1, p2}
  Builds = {TRUE, FALSE}
  Msg = {m1}
  Releases = {0, 7}
  MaxStarts = 3
  MaxFaults = 1
SPECIFICATION Spec
SYMMETRY Symmetric
INVARIANTS SchemaWhenOpen LoneOpenSucceeds SomebodyOpens SearchFindsAll StoresWhenOpen
CHECK_DEADLOCK FALSE
