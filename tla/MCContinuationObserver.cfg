CONSTANTS
  RunIds <- Runs
  Specs <- Chain
  Store = "memory"
  MaxJobs = 2
  Workers = {w1, w2}
  Host = h
  Root = "r0"
  MaxContinuations = 1
  MaxExecutions = 3
  Reasons <- AllReasons
  Settings <- Observing
SPECIFICATION Spec
PROPERTY ObserverKeepsOutcome
