CONSTANTS
  RunIds <- Runs
  Specs <- ChainAndStray
  Store = "sqlite"
  MaxJobs = 2
  Workers = {w1, w2}
  Host = h
  Root = "r0"
  MaxContinuations = 1
  MaxExecutions = 2
  Reasons <- TwoReasons
  Settings <- SeveralHosts
SPECIFICATION Spec
INVARIANTS OneWorkerPerJob QueuedHasAttempts
PROPERTY JobsSettle
