SPECIFICATION Spec
CONSTANTS
  a = a
  b = b
  w = w
  scout = scout
  mutator = mutator
  None = None
  Calls <- ThreeCalls
  Agents <- TwoAgents
  AgentOf <- AgentOfCall
  Writers <- OneWriter
  Price <- Prices
  ValidationRetries <- ModelRetries
  Estimates <- ModelEstimates
  Usages <- ModelUsages
  MaxCalls = 4
  MaxTokens = 7
  MaxCost = 0
  MaxConcurrency = 2
  RetryLimit = 1
INVARIANTS
  TypeOK
  LedgerBalanced
  NoReservationLeaked
  CostViewsAgree
  AdmissionBound
  PermitsConserved
  RetriesBounded
PROPERTIES
  NoAdmissionAfterOverage
  EveryCallEnds
