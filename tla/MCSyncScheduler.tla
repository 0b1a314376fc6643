--------------------------- MODULE MCSyncScheduler ---------------------------
(* Small instances of SyncScheduler for TLC.  In one, jobs overtake one      *)
(* another and the owner decides.  In the others webhook events arrive:      *)
(* while jobs follow one another over several cycles, while the browser      *)
(* imports between them, and while two jobs overlap.                         *)
EXTENDS SyncScheduler, FiniteSets, TLC

CONSTANTS ShortTime, MiddleTime, LongLease

VARIABLE instance

Overtaking == INSTANCE SyncScheduler WITH MaxTime <- ShortTime, ManualImports <- FALSE
Cycles == INSTANCE SyncScheduler WITH LeaseTime <- LongLease, ManualImports <- FALSE
Browser == INSTANCE SyncScheduler WITH LeaseTime <- LongLease, MaxTime <- MiddleTime,
                                       MaxDecisions <- 0
Stalled == INSTANCE SyncScheduler WITH MaxTime <- MiddleTime, Interval <- 1,
                                       MaxDecisions <- 0, ManualImports <- FALSE

JobSymmetry == Permutations(Jobs)

MCInit ==
    /\ instance \in {"overtaking", "cycles", "browser", "stalled"}
    /\ Init
    /\ instance \in {"cycles", "stalled"} => sched.failures = 0

OneAtWork == Cardinality({j \in Jobs : pc'[j] # "idle"}) <= 1

MCNext ==
    /\ UNCHANGED instance
    /\ \/ instance = "overtaking" /\ Overtaking!Next /\ UNCHANGED received
       \/ instance = "cycles" /\ Cycles!Next /\ OneAtWork
       \/ instance = "browser" /\ Browser!Next /\ OneAtWork
       \/ instance = "stalled" /\ Stalled!Next /\ UNCHANGED valid

MCSpec == MCInit /\ [][MCNext]_<< vars, instance >>
=============================================================================
