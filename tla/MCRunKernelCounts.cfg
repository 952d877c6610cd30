SPECIFICATION Spec
CONSTANTS
  Ids = {"i1", "i2"}
  TurnId = "turn"
  Sigs = {"a", "p"}
  Refused = {}
  PauseSigs = {"p"}
  Contents <- ShortContents
  LimitChoices <- BudgetLimits
  FailFast = FALSE
INVARIANT ExecutedMeansEntered
