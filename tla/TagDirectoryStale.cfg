\* The same, and half-loaded profiles of any size are written.
CONSTANTS
  Sigs <- MCSigs
  Contents <- MCContents
  Size <- MCSize
  HeadWords = 33
  EntryWords = 3
  Files <- MCFiles
  MaxTags = 3
  MaxEntries = 3
  LazyTags = 3
SPECIFICATION Spec
INVARIANT
  FindTagAlwaysHonest
