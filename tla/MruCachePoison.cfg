\* A transform fails once: what does the next call with that pixel return?
CONSTANTS
  MaxCacheSize = 2
  Pixels <- MCPixels
  Image <- MCImage
  Junk = Junk
  Failures = {"Bad"}
  Failing = {1}
  MaxPixels = 1
SPECIFICATION SafeSpec
INVARIANT
  OkAlwaysMeansImages
