SPECIFICATION FairSpec
CONSTANTS
  i1 = i1
  i2 = i2
  j1 = j1
  Jobs = {j1}
  Invocations = {i1, i2}
  None = None
  MaxAttempts <- Attempts
  Batches <- DailyBatches
  TimeLimit = 2
  MinTimeLeft = 1
  LeaseMargin = 1
  LeaseMax = 2
  BackoffBase = 1
  BackoffMax = 2
  MaxJobs = 2
INVARIANTS LiveRunnerOwnsItsJob
PROPERTIES KeepsPromise EveryJobEnds
