CONSTANTS
  Runs = {r1, r2}
  NoRun = NoRun
  Orders = {o1, o2}
  Locations = {l1}
  LocationOf <- OneLocation
  MaxTime = 2
  Overlap = 1
  RestPages = {FALSE, TRUE}
  MappingChoices = {"mapped", "ignored"}
  Requests = {"exclude", "approve", "disconnect"}
SPECIFICATION MCSpec
SYMMETRY RunSymmetry
INVARIANTS LeasesAreReturned ApprovedMeansPublished WatermarkNeverSkipsOrders NewestVersionWins
PROPERTIES FencedSpec LateRunsPublishNothing
CHECK_DEADLOCK FALSE
