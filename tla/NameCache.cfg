\* a lookup races a rename, a refresh and the refresh of a starting sync; names heal
CONSTANTS
  Group = {g1}
  Lookup = {f1}
  Renamer = {r1}
  Refresher = {r2, r3}
  Startup = {r3}
  MaxVersion = 2
  MaxFailures = 1
  None = None
SPECIFICATION FairSpec
INVARIANTS CacheIsCurrent FreshLookups
PROPERTY Converges
