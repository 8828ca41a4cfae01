SPECIFICATION Spec
CONSTANTS
  Leader = Leader
  tool = tool
  step = step
  None = None
  Descendants <- OneTool
  StepIds <- OneStep
  Tokens <- SomeTokens
  MaxAttempts = 2
  MaxCancels = 2
  MaxEvents = 2
INVARIANTS
  TypeOK
  OneLeader
  NoSurvivor
  UsageCountedOnce
PROPERTIES
  StoppedGroupsDie
  EveryAttemptEnds
CHECK_DEADLOCK FALSE
