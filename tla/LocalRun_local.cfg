SPECIFICATION MCSpec
CONSTANTS
  code = code
  new = new
  cache = cache
  one = one
  two = two
  Absent = Absent
  NoAgent = NoAgent
  Files <- TheFiles
  Ignored <- IgnoredFiles
  Base <- BaseFiles
  Versions <- TheVersions
  Tasks <- AnyTaskShape
  Signals <- AnySignal
  Policies <- AnyPolicy
  Rules <- OneRule
INVARIANTS
  TypeOK
  WorkPreserved
  ManifestMarksComplete
  FailureLeavesTrail
  PlanSound
  RoutedSafely
CHECK_DEADLOCK FALSE
