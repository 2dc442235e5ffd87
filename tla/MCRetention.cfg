SPECIFICATION Spec
CONSTANTS
  j1 = j1
  j2 = j2
  j3 = j3
  w1 = w1
  w2 = w2
  Jobs = {j1, j2, j3}
  Windows = {w1, w2}
  None = None
  Workloads <- MCWorkloads
  MaxRows = 2
  RunMax = 2
  BatchMax = 2
  Floor = 1
  OverrideMax = 2
INVARIANTS WithinTheApproval ApprovedFirst ResultIsExact LiveRunIsComplete
