SPECIFICATION Spec
CONSTANTS
  Leader = Leader
  tool = tool
  step = step
  None = None
  Descendants <- OneTool
  StepIds <- OneStep
  Tokens <- SomeTokens
  MaxAttempts = 1
  MaxCancels = 1
  MaxEvents = 0
PROPERTIES
  StoppedCallsAreReaped
CHECK_DEADLOCK FALSE
