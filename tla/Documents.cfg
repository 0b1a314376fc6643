CONSTANTS
  Users = {u1, u2}
  Schedulers = {s1}
  Nobody = Nobody
  MaxCopies = 2
  MaxFaults = 2
SPECIFICATION MCSpec
SYMMETRY Symmetry
INVARIANTS ReleaseIsSound NoSilentResubmission NothingSurvivesDeletion EvidenceIsKept
CHECK_DEADLOCK FALSE
