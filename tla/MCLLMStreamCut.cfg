SPECIFICATION Spec
CONSTANTS
  Index = {0, 1}
  Providers = {"openai", "anthropic"}
  OpenAIChunks <- Chunks
  MaxText = 1
  Reports <- AnthropicReports
INVARIANT CutCallNeverRuns
CHECK_DEADLOCK FALSE
