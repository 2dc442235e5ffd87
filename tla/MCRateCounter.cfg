SPECIFICATION Spec
CONSTANTS
  Requests = {r1, r2, r3, r4, r5}
  Window = 2
  Limit = 1
  Factor = 2
  Life = 1
  Keep = 3
  MaxTime = 4
  MaxFails = 1
SYMMETRY Symmetric
INVARIANTS ShareAcrossWindows
CHECK_DEADLOCK FALSE
