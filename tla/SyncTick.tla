------------------------------- MODULE SyncTick -------------------------------
(***************************************************************************)
(* One minute after another of the background scheduler, for all           *)
(* connections at once (server/integrations/sync-scheduler.ts:             *)
(* runDuePosBatch and runDueSchedule; sync-policy.ts).  SyncScheduler      *)
(* looks at what one connection's job does; here the connections compete   *)
(* for the few jobs that a tick starts.  Time is counted in minutes and    *)
(* kept relative to now.                                                   *)
(***************************************************************************)
EXTENDS Integers, FiniteSets, FiniteSetsExt

CONSTANTS Schedules,   \* enabled schedules, numbered in the order of their ids
          Workers,     \* jobs in flight at once
          Limit,       \* jobs that a tick starts, 3 in the code
          Interval,    \* minutes between syncs, 15 in the code
          LeaseTime,   \* minutes of a job's lease, 10 in the code
          MaxDelay,    \* longest retry delay, 60 minutes in the code
          MaxFailures, \* bound: consecutive failures of a schedule
          MaxLapses,   \* bound: leases that run out, of dead or slow jobs
          MaxLost,     \* bound: ticks that do not reach the service
          NoWorker

ASSUME TickAssumption ==
    /\ Schedules \subseteq Nat /\ Limit \in Nat \ {0} /\ Interval \in Nat \ {0}
    /\ LeaseTime \in Nat \ {0} /\ MaxDelay \in Nat \ {0}
    /\ MaxFailures \in Nat /\ MaxLapses \in Nat /\ MaxLost \in Nat
    /\ NoWorker \notin Workers /\ IsFiniteSet(Schedules) /\ IsFiniteSet(Workers)

VARIABLES
    overdue,   \* overdue[s]: minutes since next_run_at, negative before it
    started,   \* started[s]: minutes since COALESCE(last_started_at, 0)
    lease,     \* lease[s]: minutes until lease_expires_at; 0 is free
    owner,     \* owner[s]: lease_owner
    failures,  \* failures[s]: consecutive_failures
    job,       \* job[w]: what worker w does
    ticked,    \* has this minute's tick come?
    lapses, lost,
    passed,    \* history: ticks that left s waiting although due and free, since
               \* it was taken up or given its next_run_at
    failing    \* history: failures of s since its last success

tickVars == << overdue, started, lease, owner, failures, job, ticked, lapses, lost,
               passed, failing >>

\* The age of the epoch, which a schedule that never started takes for its start.
Never == 1000
Off == [pc |-> "off"]

TickTypeOK ==
    /\ overdue \in [Schedules -> Int]
    /\ started \in [Schedules -> Nat]
    /\ lease \in [Schedules -> 0..LeaseTime]
    /\ owner \in [Schedules -> Workers \cup {NoWorker}]
    /\ failures \in [Schedules -> 0..MaxFailures]
    /\ \A s \in Schedules : overdue[s] >= -Interval \/ overdue[s] >= -MaxDelay
    /\ ticked \in BOOLEAN /\ lapses \in 0..MaxLapses /\ lost \in 0..MaxLost

TickInit ==
    /\ overdue = [s \in Schedules |-> 0]
    /\ started = [s \in Schedules |-> Never]
    /\ lease = [s \in Schedules |-> 0]
    /\ owner = [s \in Schedules |-> NoWorker]
    /\ failures = [s \in Schedules |-> 0]
    /\ job = [w \in Workers |-> Off]
    /\ ticked = FALSE
    /\ lapses = 0 /\ lost = 0
    /\ passed = [s \in Schedules |-> 0]
    /\ failing = [s \in Schedules |-> 0]

Do(w, j) == job' = [job EXCEPT ![w] = j]

\* syncRetryDelay, in minutes.
RetryDelay(n) == Min({MaxDelay, 2 ^ Min({6, Max({0, n - 1})})})

\* nextSyncAt: the next page in a minute, else after the interval.
NextDelay(outcome, n) ==
    CASE outcome = "failed" -> RetryDelay(n)
      [] outcome = "more" -> 1
      [] outcome = "complete" -> Interval

-----------------------------------------------------------------------------
\* WHERE enabled and due and the lease is free.
Due == {s \in Schedules : overdue[s] >= 0 /\ lease[s] = 0}

\* Variant: in the order of their ids.
BeforeById(s, t) == s < t

\* ORDER BY next_run_at, COALESCE(last_started_at, 0), connection_id.
Before(s, t) ==
    \/ overdue[s] > overdue[t]
    \/ overdue[s] = overdue[t] /\ started[s] > started[t]
    \/ overdue[s] = overdue[t] /\ started[s] = started[t] /\ s < t

\* ... LIMIT.
Picked == {s \in Due : Cardinality({t \in Due \ {s} : Before(t, s)}) < Limit}

\* The tick arrives: every picked row is read by a worker of its own.  (An
\* instance has workers enough when it can; a tick without one is left out.)
Tick ==
    LET idle == {w \in Workers : job[w] = Off}
        place == CHOOSE f \in [Picked -> idle] :
                     \A s, t \in Picked : f[s] = f[t] => s = t
    IN /\ ~ticked
       /\ Cardinality(idle) >= Cardinality(Picked)
       /\ ticked' = TRUE
       /\ job' = [w \in Workers |->
              IF \E s \in Picked : place[s] = w
              THEN LET s == CHOOSE s \in Picked : place[s] = w
                   IN [pc |-> "read", schedule |-> s, failures |-> failures[s]]
              ELSE job[w]]
       /\ passed' = [s \in Schedules |->
              IF s \in Picked THEN 0 ELSE IF s \in Due THEN passed[s] + 1 ELSE passed[s]]
       /\ UNCHANGED << overdue, started, lease, owner, failures, lapses, lost, failing >>

\* The tick does not come in this minute.
LoseTick ==
    /\ ~ticked
    /\ lost < MaxLost
    /\ lost' = lost + 1
    /\ ticked' = TRUE
    /\ UNCHANGED << overdue, started, lease, owner, failures, job, lapses, passed, failing >>

\* A minute passes; a read row is claimed well within it.
Minute ==
    /\ ticked
    /\ \A w \in Workers : job[w].pc # "read"
    /\ ticked' = FALSE
    /\ overdue' = [s \in Schedules |-> overdue[s] + 1]
    /\ started' = [s \in Schedules |-> started[s] + 1]
    /\ lease' = [s \in Schedules |-> Max({0, lease[s] - 1})]
    /\ lapses' = lapses + Cardinality({s \in Schedules : lease[s] = 1})
    /\ lapses' <= MaxLapses
    /\ UNCHANGED << owner, failures, job, lost, passed, failing >>

\* The claim of runDueSchedule: still due, still free.
ClaimJob(w) ==
    LET s == job[w].schedule
    IN /\ job[w].pc = "read"
       /\ IF overdue[s] >= 0 /\ lease[s] = 0
          THEN /\ lease' = [lease EXCEPT ![s] = LeaseTime]
               /\ owner' = [owner EXCEPT ![s] = w]
               /\ started' = [started EXCEPT ![s] = 0]
               /\ Do(w, [job[w] EXCEPT !.pc = "run"])
          ELSE /\ Do(w, Off)
               /\ UNCHANGED << lease, owner, started >>
       /\ UNCHANGED << overdue, failures, ticked, lapses, lost, passed, failing >>

\* The end of the job, by the owner of the lease, expired or not.
FailuresAfter(w, outcome) == IF outcome = "failed" THEN job[w].failures + 1 ELSE 0

FinishJob(w, outcome) ==
    LET s == job[w].schedule
    IN /\ job[w].pc = "run"
       /\ outcome = "failed" => job[w].failures < MaxFailures
       /\ IF owner[s] = w
          THEN /\ failures' = [failures EXCEPT ![s] = FailuresAfter(w, outcome)]
               /\ overdue' = [overdue EXCEPT ![s] =
                                 -NextDelay(outcome, FailuresAfter(w, outcome))]
               /\ lease' = [lease EXCEPT ![s] = 0]
               /\ owner' = [owner EXCEPT ![s] = NoWorker]
               /\ failing' = [failing EXCEPT ![s] = IF outcome = "failed" THEN @ + 1 ELSE 0]
               /\ passed' = [passed EXCEPT ![s] = 0]
          ELSE UNCHANGED << failures, overdue, lease, owner, failing, passed >>
       /\ Do(w, Off)
       /\ UNCHANGED << started, ticked, lapses, lost >>

\* The process of a job dies; its lease runs out, and next_run_at stays.
JobDies(w) ==
    /\ job[w].pc = "run"
    /\ Do(w, Off)
    /\ UNCHANGED << overdue, started, lease, owner, failures, ticked, lapses, lost, passed,
                    failing >>

TickNext ==
    \/ Tick \/ LoseTick \/ Minute
    \/ \E w \in Workers :
          \/ ClaimJob(w) \/ JobDies(w)
          \/ \E outcome \in {"failed", "more", "complete"} : FinishJob(w, outcome)

TickSpec == TickInit /\ [][TickNext]_tickVars

-----------------------------------------------------------------------------
(* Properties.                                                             *)

\* "Oldest-due fairness": a schedule that is due waits for at most one job of
\* every other schedule, however often those are due again, and for one more
\* for each lease that ran out, whose job is taken up again in its old place.
OldestDueFirst ==
    \A s \in Schedules : passed[s] * Limit <= Cardinality(Schedules) - 1 + lapses

\* The failure count that spaces out the retries is the number of failures
\* since the last success, although a job writes it from what it read before
\* its claim.
FailuresCounted == failures = failing

\* Due schedules take their turns and retries are spaced by the failures.
TurnsAreFair == TickTypeOK /\ OldestDueFirst /\ FailuresCounted
=============================================================================
