\* a caller that asks again and again for five messages, one of which cannot be
\* stored and one of which may be revoked
CONSTANTS
  N = 5
  Count = 2
  Requests = 2
  Caller = {c1}
  Unstorable = {2}
  Revocable = {5}
  MaxPending = 2
  MaxQueued = 1
  MaxFaults = 1
SPECIFICATION FairSpec
INVARIANTS BackfillTypeOK NoHoles StartIsReached
PROPERTIES GivesUpRightly CallReturns AskersGetAll
