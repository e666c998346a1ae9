\* A refused profile between two that are not.
CONSTANTS
  Profile <- MCRefused
  Sources = {"RGB"}
  Dests = {"unknown"}
  McsSamples = 3
  MaxAdds = 3
  MaxRefused = 1
  MaxBegins = 1
SPECIFICATION Spec
CHECK_DEADLOCK FALSE
INVARIANT
  SpacesMatch
