CONSTANTS
  RunIds <- Runs
  Specs <- ChainAndStray
  Store = "memory"
  MaxJobs = 3
  Workers = {w1, w2}
  Host = h
  Root = "r0"
  MaxContinuations = 2
  MaxExecutions = 3
  Reasons <- AllReasons
  Settings <- OneProcess
SPECIFICATION Spec
INVARIANTS TypeOK ExecutionsCounted SucceededRunRecorded ContinuableCanContinue
INVARIANT NeverResumesBlank
PROPERTY OutcomeStands
SYMMETRY Symmetry
