\* Programs of up to eleven operations; three values fill the stack, and
\* sequences nest one deep.
CONSTANTS
  Programs <- MCPrograms
  NTemps = 1
  MaxStack = 3
  MaxDepth = 1
SPECIFICATION CalcSpec
INVARIANTS
  AcceptedProgramsRun
  StackWithinLimit
  TempsFresh
