CONSTANTS
  Tasks = {1, 2}
  Scoped = {1}
  Runners = {w1, w2}
  MaxAttempts = 2
  MaxCount = 2
  Results <- Endings
  MaxFaults = 1
  Settings <- Hosts
SPECIFICATION Spec
INVARIANTS TypeOK OneExecution CompletedIsMerged ReportLasts
PROPERTIES OutcomeStands TasksSettle
CHECK_DEADLOCK FALSE
