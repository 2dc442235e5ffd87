SPECIFICATION Spec
CONSTANTS
  c1 = c1
  c2 = c2
  Containers = {c1, c2}
  Deployments <- MCDeployments
  Threshold <- MCThreshold
  OpenFor <- MCOpenFor
  MaxOpen <- MCMaxOpen
  MaxFailures = 2
  MaxStreak = 2
  MaxAge = 2
  Settings <- MCSettings
  TaskRole <- MCTaskRole
  Deadline = 2
  MinAttempt = 1
  Cap = 2
  Hold = 2
  ProfileTTL = 2
  ProfileRetry = 1
  MaxLost = 1
INVARIANTS BooksBalance WithinTheCap OverrunIsOneAttempt
PROPERTIES HeldAfterLoss SwitchReaches LeftAlone
