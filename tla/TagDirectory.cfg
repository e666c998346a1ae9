\* Three files, one of them broken, and three signatures; a profile may be written while tags of it
\* are not read yet, with at most one tag object alive, or when it is read completely.
CONSTANTS
  Sigs <- MCSigs
  Contents <- MCContents
  Size <- MCSize
  HeadWords = 33
  EntryWords = 3
  Files <- MCFiles
  MaxTags = 3
  MaxEntries = 3
  LazyTags = 1
SPECIFICATION Spec
INVARIANTS
  EntriesOwned
  FindTagHonest
  SharingKept
PROPERTY
  WriteFaithful
