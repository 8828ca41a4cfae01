SPECIFICATION Spec
CONSTANTS
  a = a
  b = b
  w = w
  scout = scout
  mutator = mutator
  None = None
  Calls <- ThreeCalls
  Agents <- TwoAgents
  AgentOf <- AgentOfCall
  Writers <- OneWriter
  Price <- AllPriced
  ValidationRetries <- ModelRetries
  Estimates <- ModelEstimates
  Usages <- ModelUsages
  MaxCalls = 4
  MaxTokens = 7
  MaxCost = 0
  MaxConcurrency = 1
  RetryLimit = 1
PROPERTIES
  NoStartAfterOverage
