\* Caches of one to three entries, calls of up to two of four pixel values, on
\* one of which the transform may fail.
CONSTANTS
  MaxCacheSize = 3
  Pixels <- MCPixels
  Image <- MCImage
  Junk = Junk
  Failures = {"Bad"}
  Failing = {1}
  MaxPixels = 2
SPECIFICATION Spec
INVARIANTS
  ListWellFormed
  KeysDistinct
  OkMeansImages
PROPERTIES
  ImplementsMruOrder
  ApplyReturns
