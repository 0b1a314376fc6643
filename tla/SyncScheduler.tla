---------------------------- MODULE SyncScheduler ----------------------------
(***************************************************************************)
(* Background synchronization of one connection                            *)
(* (server/integrations/sync-scheduler.ts): the schedule row and its job   *)
(* lease, the jobs that overlapping scheduler ticks start for it, the      *)
(* owner's enable and pause requests                                       *)
(* (app/api/v1/integrations/schedule/route.ts), and the webhook receipts   *)
(* that wait for a pull.  One action is one awaited statement; a Worker    *)
(* may stall between two of them or be evicted.                            *)
(*                                                                         *)
(* Abstractions.  Time is in minutes.  An import is two steps, its start   *)
(* and its end, with the window it reads; SquareSync has its details.  The *)
(* owner's membership, consent, subscription and the connection's status   *)
(* are one flag, `valid`.                                                  *)
(***************************************************************************)
EXTENDS Naturals

CONSTANTS
  Jobs,          \* scheduler jobs that may be at work at once
  Manual,        \* an import started in the browser
  Nobody,        \* lease_owner IS NULL
  Events,        \* webhook deliveries with distinct event identifiers
  ManualImports, \* does the instance explore manual imports?
  LeaseTime,     \* how long a job lease lasts
  Interval,      \* interval_seconds
  MaxTime,       \* bound on the clock
  MaxDecisions   \* bound on the owner's enable and pause requests

ASSUME NameAssumption == Nobody \notin Jobs \cup {Manual} /\ Manual \notin Jobs
ASSUME TimeAssumption ==
  /\ LeaseTime \in Nat \ {0} /\ Interval \in Nat \ {0}
  /\ MaxTime \in Nat \ {0} /\ MaxDecisions \in Nat
ASSUME ManualAssumption == ManualImports \in BOOLEAN

VARIABLES
  now,        \* the clock, from 1; as a timestamp, 0 is NULL
  sched,      \* the integration_sync_schedules row
  valid,      \* the owner's grant would pass scheduledSyncContext
  request,    \* an enable request between its read and its write
  decisions,  \* history: how many times the owner enabled or paused
  received,   \* received_at of each webhook event
  processed,  \* events marked processed
  import,     \* who imports, and the window a paginated import left open
  covered,    \* history: end of the latest window pulled completely
  outside,    \* history: somebody else imported since a cycle began alone
  pc,         \* where each job is
  job         \* the locals of each job

owner == <<valid, request, decisions>>
data  == <<received, processed, import, covered, outside>>
vars  == <<now, sched, owner, data, pc, job>>

Time      == 0..MaxTime
Importers == Jobs \cup {Manual}
AtWork    == {"context", "cursor", "dispatch", "import", "events", "finish"}

\* One minute, doubled with every failure, at most an hour.
syncRetryDelay(failures) ==
  LET doublings == IF failures > 6 THEN 6 ELSE IF failures > 0 THEN failures - 1 ELSE 0
  IN IF 2 ^ doublings > 60 THEN 60 ELSE 2 ^ doublings

ResumeDelay == 1

NoRequest == [pending |-> FALSE, at |-> 0, generation |-> 0]
NoJob     == [generation |-> 0, failures |-> 0, cycle |-> 0, at |-> 0,
              claim |-> 0, status |-> "running", failed |-> 0, pause |-> FALSE,
              next |-> 0, window |-> 0]
-----------------------------------------------------------------------------
\* A schedule enabled and due, nothing imported, after no failure or several.
Init ==
  /\ now = 1
  /\ \E failures \in {0, 6} :
       sched = [enabled |-> TRUE, generation |-> 1, next |-> 1, owner |-> Nobody,
                expires |-> 0, failures |-> failures, cycle |-> 0,
                status |-> IF failures = 0 THEN "queued" ELSE "retrying"]
  /\ valid = TRUE
  /\ request = NoRequest
  /\ decisions = 0
  /\ received = [e \in Events |-> 0]
  /\ processed = {}
  /\ import = [by |-> Nobody, open |-> FALSE, end |-> 0]
  /\ covered = 0
  /\ outside = FALSE
  /\ pc = [j \in Jobs |-> "idle"]
  /\ job = [j \in Jobs |-> NoJob]

Goto(j, l) == pc' = [pc EXCEPT ![j] = l]
End(j, l)  == Goto(j, l) /\ job' = [job EXCEPT ![j] = NoJob]

LeaseFree(at) == sched.owner = Nobody \/ sched.expires <= at
Due(at)       == sched.enabled /\ sched.next <= at /\ LeaseFree(at)

\* runDuePosBatch: the batch picks the connection ...
Select(j) ==
  /\ pc[j] = "idle"
  /\ Due(now)
  /\ Goto(j, "selected")
  /\ UNCHANGED <<now, sched, owner, data, job>>

\* ... and reads its row again; runDueSchedule takes the time at once.
ReadSchedule(j) ==
  /\ pc[j] = "selected"
  /\ job' = [job EXCEPT ![j].generation = sched.generation,
                        ![j].failures = sched.failures,
                        ![j].cycle = IF sched.cycle # 0 THEN sched.cycle ELSE now,
                        ![j].at = now]
  /\ Goto(j, "read")
  /\ UNCHANGED <<now, sched, owner, data>>

\* Variant: a claim that does not look at the lease again.
MayClaimTaken(j) ==
  sched.generation = job[j].generation /\ sched.enabled /\ sched.next <= job[j].at

MayClaim(j) == sched.generation = job[j].generation /\ Due(job[j].at)

\* A cycle begins with nothing left open and nobody else at work.
BeginsAlone(j) ==
  sched.cycle = 0 /\ ~import.open /\ \A k \in Jobs \ {j} : pc[k] \notin AtWork

\* The claim, with the time taken before it.
Claim(j) ==
  /\ pc[j] = "read"
  /\ MayClaim(j)
  /\ sched' = [sched EXCEPT !.owner = j, !.expires = job[j].at + LeaseTime,
                            !.status = "running",
                            !.cycle = IF @ # 0 THEN @ ELSE job[j].cycle]
  /\ job' = [job EXCEPT ![j].claim = decisions]
  /\ outside' = (outside /\ ~BeginsAlone(j))
  /\ Goto(j, "context")
  /\ UNCHANGED <<now, owner, received, processed, import, covered>>

Coalesce(j) ==
  /\ pc[j] = "read"
  /\ ~MayClaim(j)
  /\ End(j, "idle")
  /\ UNCHANGED <<now, sched, owner, data>>

\* The catch block of runDueSchedule.
Fails(j, pause) ==
  job' = [job EXCEPT ![j].status = IF pause THEN "attention" ELSE "retrying",
                     ![j].pause = pause,
                     ![j].failed = job[j].failures + 1,
                     ![j].next = now + syncRetryDelay(job[j].failures + 1)]

\* scheduledSyncContext: a withdrawn grant fails with a code that pauses.
CheckContext(j) ==
  /\ pc[j] = "context"
  /\ IF valid THEN Goto(j, "cursor") /\ UNCHANGED job
              ELSE Goto(j, "finish") /\ Fails(j, TRUE)
  /\ UNCHANGED <<now, sched, owner, data>>

\* The window an import has to resume, 0 if the last one was complete.
SavedWindow == IF import.open THEN import.end ELSE 0

\* The provider's runSync reads the saved cursor ...
ReadCursor(j) ==
  /\ pc[j] = "cursor"
  /\ job' = [job EXCEPT ![j].window = SavedWindow]
  /\ Goto(j, "dispatch")
  /\ UNCHANGED <<now, sched, owner, data>>

\* The schedule row is no longer the job's.
Outsider(j) == sched.owner # j

\* ... then takes the connection's own lease, which may have run out ...
StartImport(j) ==
  /\ pc[j] = "dispatch"
  /\ import' = [import EXCEPT !.by = j]
  /\ job' = [job EXCEPT ![j].window = IF @ # 0 THEN @ ELSE now]
  /\ outside' = (outside \/ Outsider(j))
  /\ Goto(j, "import")
  /\ UNCHANGED <<now, sched, owner, received, processed, covered>>

\* ... or finds it taken.
ImportBusy(j) ==
  /\ pc[j] = "dispatch"
  /\ import.by # Nobody
  /\ job' = [job EXCEPT ![j].status = "waiting", ![j].next = now + ResumeDelay]
  /\ Goto(j, "finish")
  /\ UNCHANGED <<now, sched, owner, data>>

\* A page of window w is in and saved; `more` says whether pages remain.
Imported(w, more) ==
  /\ import' = [by |-> Nobody, open |-> more, end |-> w]
  /\ covered' = IF ~more /\ w > covered THEN w ELSE covered

EndImport(j) ==
  /\ pc[j] = "import"
  /\ import.by = j
  /\ \E more \in BOOLEAN :
       /\ Imported(job[j].window, more)
       /\ job' = [job EXCEPT ![j].status = IF more THEN "backfilling" ELSE "completed",
                             ![j].next = now + (IF more THEN ResumeDelay ELSE Interval)]
       /\ Goto(j, IF more THEN "finish" ELSE "events")
  /\ outside' = (outside \/ Outsider(j))
  /\ UNCHANGED <<now, sched, owner, received, processed>>

\* The import or a statement of the job throws; a provider that revoked the
\* token pauses the schedule.
Throw(j) ==
  /\ pc[j] \in AtWork \ {"finish"}
  /\ \E pause \in {FALSE, pc[j] = "import"} : Fails(j, pause)
  /\ import' = [import EXCEPT !.by = IF @ = j THEN Nobody ELSE @]
  /\ Goto(j, "finish")
  /\ UNCHANGED <<now, sched, owner, received, processed, covered, outside>>

\* A complete pull takes the events received before its cycle began.
ProcessEvents(j) ==
  /\ pc[j] = "events"
  /\ processed' = processed \cup
       {e \in Events : received[e] # 0 /\ received[e] < job[j].cycle}
  /\ Goto(j, "finish")
  /\ UNCHANGED <<now, sched, owner, received, import, covered, outside, job>>

\* Variant: every successful job closes the cycle.
CycleAfterEager(j) == IF job[j].status \in {"completed", "backfilling"} THEN 0 ELSE sched.cycle

CycleAfter(j) == IF job[j].status = "completed" THEN 0 ELSE sched.cycle

MayFinish(j) == sched.owner = j /\ sched.generation = job[j].generation

\* The last update of the job.
FinishJob(j) ==
  /\ pc[j] = "finish"
  /\ sched' = IF MayFinish(j)
              THEN [sched EXCEPT !.status = job[j].status, !.failures = job[j].failed,
                                 !.enabled = @ /\ ~job[j].pause, !.next = job[j].next,
                                 !.owner = Nobody, !.expires = 0,
                                 !.cycle = CycleAfter(j)]
              ELSE sched
  /\ End(j, "idle")
  /\ UNCHANGED <<now, owner, data>>

\* The Worker is evicted; its leases are left to expire.  The name j may serve a
\* later job: the dead one takes no more steps.
Crash(j) ==
  /\ pc[j] \in AtWork
  /\ End(j, "idle")
  /\ UNCHANGED <<now, sched, owner, data>>
-----------------------------------------------------------------------------
\* schedule/route.ts, enable: the present generation is read ...
BeginEnable ==
  /\ ~request.pending
  /\ decisions < MaxDecisions
  /\ valid
  /\ request' = [pending |-> TRUE, at |-> now, generation |-> sched.generation + 1]
  /\ UNCHANGED <<now, sched, valid, decisions, data, pc, job>>

\* ... and the row written with the next one.  The cycle is kept.
Enable ==
  /\ request.pending
  /\ request' = NoRequest
  /\ decisions' = decisions + 1
  /\ sched' = [sched EXCEPT !.enabled = TRUE, !.generation = request.generation,
                            !.next = request.at, !.status = "queued", !.failures = 0,
                            !.owner = Nobody, !.expires = 0]
  /\ UNCHANGED <<now, valid, data, pc, job>>

\* Variant: pausing keeps the lease of the job at work and its generation.
PauseOnly ==
  /\ decisions < MaxDecisions
  /\ decisions' = decisions + 1
  /\ sched' = [sched EXCEPT !.enabled = FALSE, !.status = "paused"]
  /\ UNCHANGED <<now, valid, request, data, pc, job>>

\* schedule/route.ts, pause.
Pause ==
  /\ decisions < MaxDecisions
  /\ decisions' = decisions + 1
  /\ sched' = [sched EXCEPT !.enabled = FALSE, !.generation = @ + 1,
                            !.status = "paused", !.owner = Nobody, !.expires = 0]
  /\ UNCHANGED <<now, valid, request, data, pc, job>>

\* Membership, consent, plan or connection change.
ChangeGrant ==
  /\ valid' = ~valid
  /\ UNCHANGED <<now, sched, request, decisions, data, pc, job>>

\* square/webhook/route.ts: a new event is queued; a redelivery changes nothing.
ReceiveEvent(e) ==
  /\ received[e] = 0
  /\ received' = [received EXCEPT ![e] = now]
  /\ UNCHANGED <<now, sched, owner, processed, import, covered, outside, pc, job>>

\* An import from the browser.  Its window is remembered in import.end while it
\* is at work.
StartManual ==
  /\ import.by = Nobody
  /\ import' = [by |-> Manual, open |-> import.open,
                            end |-> IF import.open THEN import.end ELSE now]
  /\ outside' = TRUE
  /\ UNCHANGED <<now, sched, owner, received, processed, covered, pc, job>>

EndManual ==
  /\ import.by = Manual
  /\ \E more \in BOOLEAN : Imported(import.end, more)
  /\ outside' = TRUE
  /\ UNCHANGED <<now, sched, owner, received, processed, pc, job>>

Pass ==
  /\ now < MaxTime
  /\ now' = now + 1
  /\ UNCHANGED <<sched, owner, data, pc, job>>
-----------------------------------------------------------------------------
Step(j) ==
  \/ Select(j) \/ ReadSchedule(j) \/ Claim(j) \/ Coalesce(j) \/ CheckContext(j)
  \/ ReadCursor(j) \/ StartImport(j) \/ ImportBusy(j) \/ EndImport(j) \/ Throw(j)
  \/ ProcessEvents(j) \/ FinishJob(j) \/ Crash(j)

Environment ==
  \/ BeginEnable \/ Enable \/ Pause \/ ChangeGrant \/ Pass
  \/ \E e \in Events : ReceiveEvent(e)
  \/ ManualImports /\ (StartManual \/ EndManual)

Next == (\E j \in Jobs : Step(j)) \/ Environment

Spec == Init /\ [][Next]_vars
-----------------------------------------------------------------------------
(***************************************************************************)
(* Properties.                                                             *)
(***************************************************************************)
LatestRun == MaxTime + IF Interval > 60 THEN Interval ELSE 60

Statuses == {"queued", "running", "completed", "waiting", "backfilling",
             "retrying", "attention", "paused"}

Rows ==
  [enabled : BOOLEAN, generation : Nat, next : 0..LatestRun, owner : Jobs \cup {Nobody},
   expires : Nat, failures : Nat, cycle : Time, status : Statuses]

Locals ==
  [generation : Nat, failures : Nat, cycle : Time, at : Time, claim : Nat,
   status : Statuses, failed : Nat, pause : BOOLEAN, next : 0..LatestRun,
   window : Time]

\* The rows and the locals of every job have their types.
TypeOK ==
  /\ now \in Time
  /\ sched \in Rows
  /\ valid \in BOOLEAN
  /\ request \in [pending : BOOLEAN, at : Time, generation : Nat]
  /\ decisions \in Nat
  /\ received \in [Events -> Time]
  /\ processed \in SUBSET Events
  /\ import \in [by : Importers \cup {Nobody}, open : BOOLEAN, end : Time]
  /\ covered \in Time
  /\ outside \in BOOLEAN
  /\ pc \in [Jobs -> {"idle", "selected", "read"} \cup AtWork]
  /\ job \in [Jobs -> Locals]

\* docs/POS_SYNC_OPERATIONS.md:23 has a durable lease: two jobs are at work on
\* one connection only if the lease of the earlier had run out when the later
\* took the time, or the owner paused or enabled the schedule in between.
OneJobAtATime ==
  \A j, k \in Jobs :
    j # k /\ pc[j] \in AtWork /\ pc[k] \in AtWork /\ job[j].claim = job[k].claim
    => job[j].at + LeaseTime <= job[k].at \/ job[k].at + LeaseTime <= job[j].at

\* The rows of the scheduler, and who may act on them.
JobsAreApart == TypeOK /\ OneJobAtATime

\* A job that was at work when the owner paused or enabled the schedule leaves
\* the row alone when it ends: it cannot undo a pause, pause a renewed grant,
\* or free the lease of a later job.
OwnerDecisionStands ==
  [][\A j \in Jobs :
       pc[j] = "finish" /\ pc'[j] = "idle" /\ job[j].claim # decisions
       => UNCHANGED sched]_vars

\* docs/POS_SYNC_OPERATIONS.md:27 says that webhook receipts remain queued until a
\* complete pull covers them.  The code keeps that as long as only jobs that hold the
\* schedule row import: a job then never closes an event received after the end of
\* the latest complete pull, over pages, failures, evictions and cycles.  An import
\* from the browser, or one by a job that stalled past its lease or was paused, ends
\* the promise until a cycle begins with nothing left open and nobody else at work:
\* it may leave a window that ended before the next cycle began, and the jobs of that
\* cycle, resuming it, close what was received in between.
QueuedUntilCovered ==
  [][~outside => \A e \in processed' \ processed : received[e] <= covered']_vars
-----------------------------------------------------------------------------
(***************************************************************************)
(* Why they hold.                                                          *)
(***************************************************************************)
\* The job that holds the lease claimed it after the owner's last decision: a
\* decision takes the lease away.
HolderIsCurrent ==
  \A j \in Jobs : pc[j] \in AtWork =>
    /\ job[j].claim <= decisions
    /\ sched.owner = j => job[j].claim = decisions

\* A job took its time in the past, and once its outcome is known, the next run
\* it will leave is not before that time.
LaterRuns ==
  \A j \in Jobs :
    job[j].at <= now /\ (pc[j] \in {"events", "finish"} => job[j].at <= job[j].next)

\* No job can claim the row until the lease of every earlier job of the same
\* grant has run out, whether that lease is still in the row, was replaced by
\* another's, or was given back with a next run after it.
ClaimsAreApart ==
  \A j \in Jobs :
    pc[j] \in AtWork /\ job[j].claim = decisions =>
      IF sched.owner = j THEN sched.expires = job[j].at + LeaseTime
      ELSE IF sched.owner # Nobody THEN job[j].at + LeaseTime + LeaseTime <= sched.expires
      ELSE job[j].at + LeaseTime <= sched.next

\* A cycle begins in the past; the job that holds the row is in one.
CyclesBegun ==
  /\ now # 0 /\ sched.cycle <= now
  /\ \A j \in Jobs :
       /\ job[j].cycle <= now
       /\ pc[j] \in {"read"} \cup AtWork => job[j].cycle # 0
       /\ pc[j] = "import" => job[j].window # 0
       /\ pc[j] \in AtWork /\ sched.owner = j => sched.cycle # 0

\* Unless somebody else imported: a window left open, or in the hands of the job that
\* holds the row, ends after the row's cycle began, and after the cycle of any job
\* that may still resume it; what a job has pulled completely covers its cycle, and
\* leaves nothing open until it has closed the row's.
WindowsInCycle ==
  ~outside =>
    /\ import.open => sched.cycle # 0 /\ sched.cycle <= import.end
    /\ \A j \in Jobs :
         /\ pc[j] \in {"dispatch", "import"} /\ sched.owner = j /\ job[j].window # 0 =>
              /\ sched.cycle <= job[j].window /\ job[j].cycle <= job[j].window
              /\ \A k \in Jobs : pc[k] = "read" => job[k].cycle <= job[j].window
         /\ pc[j] = "read" \/ (pc[j] \in {"context", "cursor"} /\ sched.owner = j)
              => (import.open => job[j].cycle <= import.end)
         /\ pc[j] = "events" => job[j].cycle <= covered
         /\ pc[j] \in {"events", "finish"} /\ sched.owner = j /\ job[j].status = "completed"
              => ~import.open
=============================================================================
