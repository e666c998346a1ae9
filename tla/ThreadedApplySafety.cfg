\* Two pool threads and the caller; calls of 0 to 5 pixels, cut by the small
\* rule (2 pixels a thread below 4) and the bulk rule (1 pixel a thread).
CONSTANTS
  MaxThreads = 3
  SmallApply = 4
  SmallPerThread = 2
  BulkPerThread = 1
  NSrc = 1
  NDst = 2
  IndexLimit = 16
  Failures = {"Bad"}
  MaxPixels = 5
  Requests <- MCRequests
  Hardware = {0, 2}
SPECIFICATION Spec
INVARIANTS
  NoSharedApplyObject
  DisjointStrips
  TasksNotRaced
  InBounds
  NoUseAfterFree
  OkMeansTransformed
PROPERTY
  ImplementsBulkApply
  CallsReturn
