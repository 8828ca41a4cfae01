SPECIFICATION Spec
CONSTANTS
  p = p
  q = q
  scan = scan
  probe = probe
  edit = edit
  check = check
  patch = patch
  None = None
  Runs <- BothRuns
  Plan <- TwoPlans
  DependsOn <- Dependencies
  Writers <- TwoEdits
  Verified <- OneVerified
  SelfPlanned <- OneRun
  Overseers <- NoRuns
INVARIANTS
  TypeOK
  DependenciesSucceeded
  NoUnreviewedSuccess
  TraceSound
  CauseIsLatest
  StatusTruthful
  WriterAlone
  NothingLeftRunning
PROPERTIES
  EveryRunEnds
