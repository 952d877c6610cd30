SPECIFICATION Spec
CONSTANTS
  Ids = {"i1", "i2", "i3"}
  TurnId = "turn"
  Sigs = {"a", "b"}
  Refused = {}
  PauseSigs = {}
  Contents <- LongContents
  LimitChoices <- RepeatLimits
  FailFast = FALSE
INVARIANT CancelledRunSaysSo
