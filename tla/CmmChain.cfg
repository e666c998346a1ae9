\* Up to three profiles, so a chain has two inner edges, and a second Begin.
CONSTANTS
  Profile <- MCProfile
  Sources = {"unknown", "Lab", "RGB"}
  Dests = {"unknown", "XYZ", "CMYK"}
  McsSamples = 3
  MaxAdds = 3
  MaxRefused = 1
  MaxBegins = 2
SPECIFICATION Spec
CHECK_DEADLOCK FALSE
INVARIANTS
  ChainLinked
  ConvertedOnce
  ProfilesOwnedOnce
