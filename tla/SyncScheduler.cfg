CONSTANTS
  Jobs = {j1, j2}
  Manual = Manual
  Nobody = Nobody
  Events = {e1}
  ManualImports = TRUE
  LeaseTime = 1
  LongLease = 2
  Interval = 2
  MaxTime = 5
  MiddleTime = 4
  ShortTime = 2
  MaxDecisions = 1
SPECIFICATION MCSpec
SYMMETRY JobSymmetry
INVARIANTS JobsAreApart
PROPERTIES OwnerDecisionStands QueuedUntilCovered
CHECK_DEADLOCK FALSE
