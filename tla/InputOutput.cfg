\* Up to five bytes, a window in a window; three profiles and four IO objects.
CONSTANTS
  MaxBytes = 5
  MaxWindows = 2
  Offsets <- MCOffsets
  Word = 8
  prof1 = prof1
  prof2 = prof2
  prof3 = prof3
  io1 = io1
  io2 = io2
  io3 = io3
  io4 = io4
  Profiles <- MCProfiles
  Ios <- MCIos
  MaxNested = 2
SPECIFICATION MCSpec
SYMMETRY Symmetry
INVARIANTS
  BytesDefined
  ReadsItsOwn
  SeeksItsOwn
  OwnedOnce
  NoDangling
  InnerLetsGo
