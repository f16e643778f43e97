\* two dispatchers, as whatsmeow's: RemoveEventHandler waits for running handlers
CONSTANTS
  m1 = m1  m2 = m2  m3 = m3  s1 = s1  x1 = x1
  node = node  hist = hist  None = None
  Events <- mcEvents
  Messages <- mcMessages
  Disconnects <- mcDisconnects
  Dispatchers <- mcTwo
  Feed <- mcFeedTwo
  QueueCap = 1
  MaxMessages = 2
  Once = TRUE
  LockedDispatch = TRUE
SPECIFICATION FairSpec
INVARIANTS AtMostOnce OrderUnlessCancelled EnrichedUnlessCancelled NothingLost
PROPERTIES LedgerSpec ShutdownCompletes AcceptedIsProcessed
