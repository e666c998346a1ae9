\* Three threads for two slots; a root that keeps two directories.
CONSTANTS
  a = a
  b = b
  c = c
  Threads <- MCThreads
  Limit = 2
  MaxWorkspaces = 2
  MaxRequests = 4
SPECIFICATION Spec
SYMMETRY Symmetry
INVARIANTS
  LimitKept
  WorkspacesBounded
PROPERTY
  RefusedOnlyWhenFull
