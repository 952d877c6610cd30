SPECIFICATION Spec
CONSTANTS
  Index = {0, 1}
  Providers = {"openai", "anthropic"}
  OpenAIChunks <- Chunks
  MaxText = 2
  Reports <- AnthropicReports
INVARIANT TypeOK
INVARIANT NoHalfArgumentsRun
INVARIANT ContentIsWhatWasStreamed
INVARIANT BrokenStreamShows
INVARIANT UsageCountedOnce
INVARIANT LegacySeesTheTurn
INVARIANT RequestPairsCalls
INVARIANT FinishedTurnCanBeSent
PROPERTY KeepsContract
CHECK_DEADLOCK FALSE
