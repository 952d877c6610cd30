SPECIFICATION Spec
CONSTANTS
  Hosts = {h1, h2}
  Runs = {1, 2}
  Keys = {k1}
  NoKey = none
  MaxAppends = 4
  NoRun = 0
  Projects = {p1}
  MaxMax = 1
  MaxOps = 4
  Marks <- RunMarks
  Budgets <- Workloads
SYMMETRY Symmetry
INVARIANT TypeOK
INVARIANT GapFree
INVARIANT KeysMatchEvents
INVARIANT AnswersAgree
INVARIANT FollowersMissNothing
INVARIANT ClaimedOnce
INVARIANT UpdatesStand
INVARIANT ChainsBounded
PROPERTY OriginsStand
CHECK_DEADLOCK FALSE
