\* two workers and a command after the same file, a queue of one, and the message
\* delivered under the address of its row or under another
CONSTANTS
  Msg = {m1}
  Hidden = {m1}
  Worker = {w1, w2}
  Command = {c1}
  QueueCap = 1
  MaxPanics = 1
  None = None
SPECIFICATION FairSpec
INVARIANTS MarkedHasFile TempsAreOwned QuietAfterReturn
PROPERTIES StoringGoesOn QueuedIsDownloaded StopReturns
