CONSTANTS
  Runs = {r1, r2}
  NoRun = NoRun
  Orders = {o1}
  Locations = {l1}
  LocationOf <- OneLocation
  MaxTime = 2
  Overlap = 1
  RestPages = {FALSE}
  MappingChoices = {}
  Requests = {"disconnect"}
SPECIFICATION TrustSpec
SYMMETRY RunSymmetry
INVARIANT DisconnectedKeepsNoSecret
CHECK_DEADLOCK FALSE
