SPECIFICATION Spec
CONSTANTS
  Index = {0, 1}
  Providers = {"openai"}
  OpenAIChunks <- SummingChunks
  MaxText = 1
  Reports <- AnthropicReports
INVARIANT LegacySumNotAdded
CHECK_DEADLOCK FALSE
