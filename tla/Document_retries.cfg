CONSTANTS
  Users = {u1, u2}
  Schedulers = {s1}
  Nobody = Nobody
  MaxCopies = 1
  MaxFaults = 1
SPECIFICATION RetriesSpec
PROPERTIES DeletionCompletes CleanupCompletes
CHECK_DEADLOCK FALSE
