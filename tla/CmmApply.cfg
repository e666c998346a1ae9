\* Chains of up to four transforms, chunks of two pixels, products up to 8.
CONSTANTS
  Chains <- MCChains
  Widths = {2, 3}
  ChunkPixels = 2
  IndexLimit = 8
  MaxPixels = 5
SPECIFICATION Spec
INVARIANTS
  OkMeansImages
  WritesInside
  CrashOnlyWhenShort
CHECK_DEADLOCK FALSE
