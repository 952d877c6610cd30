SPECIFICATION Spec
CONSTANTS
  Ids = {"i1", "i2"}
  TurnId = "turn"
  Sigs = {"a", "p", "r"}
  Refused = {"r"}
  PauseSigs = {"p"}
  Contents <- ShortContents
  LimitChoices <- MixedLimits
  FailFast = TRUE
INVARIANTS TypeOK WithinBudget RepeatBounded TranscriptMatchesLog NothingRunsBehindStop
PROPERTIES NoTurnAfterStop RunEnds
