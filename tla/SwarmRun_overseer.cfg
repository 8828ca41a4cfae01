SPECIFICATION Spec
CONSTANTS
  p = p
  q = q
  scan = scan
  probe = probe
  edit = edit
  check = check
  patch = patch
  None = None
  Runs <- BothRuns
  Plan <- ShortPlans
  DependsOn <- NoDependencies
  Writers <- NoTasks
  Verified <- NoTasks
  SelfPlanned <- OneRun
  Overseers <- OneRun
INVARIANTS
  WriterAlone
