\* the exclusive lock docs/spec.md asks for
CONSTANTS
  Process = {p1, p2, p3}
  Inode = {i1, i2, i3}
  None = None
SPECIFICATION Spec
INVARIANT MutualExclusion
