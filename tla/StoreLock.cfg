\* three runs of the program, one file each; no symmetry, since the run has fairness
CONSTANTS
  Process = {p1, p2, p3}
  Inode = {i1, i2, i3}
  None = None
SPECIFICATION FairSpec
INVARIANTS MutexBeforeFirstDeath
PROPERTIES AloneUntilRelease FailsFast
