\* Two threads, each with a call and one nested in its callback; two transforms
\* can be named and a third be under construction or in use after its deletion.
CONSTANTS
  a = a
  b = b
  x = x
  y = y
  z = z
  Threads <- MCThreads
  Cmms <- MCCmms
  MinHandle = 1
  MaxHandle = 3
  Limit = 2
  MaxRows = 2
  MaxDepth = 2
  MaxCalls = 4
SPECIFICATION Spec
SYMMETRY Symmetry
INVARIANTS
  NoHoldAndWait
  OneCallInCmm
  RefsExact
PROPERTIES
  HandlesRotate
  ImplementsTransformCalls
