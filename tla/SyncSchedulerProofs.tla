------------------------ MODULE SyncSchedulerProofs ------------------------
(***************************************************************************)
(* Theorems of SyncScheduler, for any number of jobs and events, any lease *)
(* and interval, any horizon, and with or without imports from the browser.*)
(***************************************************************************)
EXTENDS SyncScheduler, TLAPS

USE DEF Time

Places == {"idle", "selected", "read"} \cup AtWork

\* The backoff is at least a minute and at most an hour.
LEMMA DelayRange ==
  ASSUME NEW failures \in Nat
  PROVE  syncRetryDelay(failures) \in 1..60
<1> DEFINE d == IF failures > 6 THEN 6 ELSE IF failures > 0 THEN failures - 1 ELSE 0
<1>1. d \in {0, 1, 2, 3, 4, 5, 6} OBVIOUS
<1>2. /\ 2 ^ 0 = 1 /\ 2 ^ 1 = 2 /\ 2 ^ 2 = 4 /\ 2 ^ 3 = 8
      /\ 2 ^ 4 = 16 /\ 2 ^ 5 = 32 /\ 2 ^ 6 = 64
  OBVIOUS
<1>3. syncRetryDelay(failures) = IF 2 ^ d > 60 THEN 60 ELSE 2 ^ d BY DEF syncRetryDelay
<1> HIDE DEF d
<1>4. 2 ^ d \in {1, 2, 4, 8, 16, 32, 64} BY <1>1, <1>2
<1> QED BY <1>3, <1>4

\* The next runs a job may ask for are within the horizon, and not in the past.
LEMMA NextRuns ==
  ASSUME now \in Time, NEW wait \in Nat, wait <= 60 \/ wait = Interval
  PROVE  now + wait \in 0..LatestRun /\ now <= now + wait
BY TimeAssumption DEF LatestRun

LEMMA InitType == Init => TypeOK
<1> SUFFICES ASSUME Init PROVE TypeOK OBVIOUS
<1>1. LatestRun \in Nat \ {0} BY TimeAssumption DEF LatestRun
<1>2. sched \in Rows
  <2>1. PICK failures \in {0, 6} :
          sched = [enabled |-> TRUE, generation |-> 1, next |-> 1, owner |-> Nobody,
                   expires |-> 0, failures |-> failures, cycle |-> 0,
                   status |-> IF failures = 0 THEN "queued" ELSE "retrying"]
    BY DEF Init
  <2>2. sched.status \in Statuses BY <2>1 DEF Statuses
  <2> QED BY <1>1, <2>1, <2>2, TimeAssumption DEF Rows
<1>3. NoJob \in Locals BY <1>1, TimeAssumption DEF NoJob, Locals, Statuses
<1>4. pc \in [Jobs -> {"idle", "selected", "read"} \cup AtWork] BY DEF Init
<1>5. job \in [Jobs -> Locals] BY <1>3 DEF Init
<1>6. received \in [Events -> Time] BY TimeAssumption DEF Init
<1>7. import \in [by : Importers \cup {Nobody}, open : BOOLEAN, end : Time]
  BY TimeAssumption DEF Init
<1>8. now \in Time /\ covered \in Time /\ request \in [pending : BOOLEAN, at : Time, generation : Nat]
  BY TimeAssumption DEF Init, NoRequest
<1>9. /\ valid \in BOOLEAN /\ decisions \in Nat /\ processed \in SUBSET Events
      /\ outside \in BOOLEAN
  BY DEF Init
<1> QED BY <1>2, <1>4, <1>5, <1>6, <1>7, <1>8, <1>9 DEF TypeOK

\* The moves of a job between its steps.
LEMMA EndType ==
  ASSUME TypeOK, NEW j \in Jobs, NEW l \in Places, End(j, l)
  PROVE  pc' \in [Jobs -> Places] /\ job' \in [Jobs -> Locals]
<1>1. NoJob \in Locals BY TimeAssumption DEF NoJob, Locals, Statuses, LatestRun
<1> QED BY <1>1 DEF End, Goto, TypeOK, Places

LEMMA FailsType ==
  ASSUME TypeOK, NEW j \in Jobs, NEW pause \in BOOLEAN, Fails(j, pause)
  PROVE  /\ job' \in [Jobs -> Locals]
         /\ now <= job'[j].next
<1>1. job[j] \in Locals BY DEF TypeOK
<1>2. job[j].failures + 1 \in Nat BY <1>1 DEF Locals
<1> DEFINE delay == syncRetryDelay(job[j].failures + 1)
<1>3. delay \in 1..60 BY <1>2, DelayRange
<1>4. now + delay \in 0..LatestRun /\ now <= now + delay
  BY <1>3, NextRuns DEF TypeOK
<1> DEFINE status == IF pause THEN "attention" ELSE "retrying"
<1>5. status \in Statuses BY DEF Statuses
<1>6. job' = [job EXCEPT ![j].status = status, ![j].pause = pause,
                         ![j].failed = job[j].failures + 1, ![j].next = now + delay]
  BY DEF Fails
<1> HIDE DEF delay, status
<1> QED BY <1>1, <1>2, <1>4, <1>5, <1>6 DEF TypeOK, Locals

LEMMA StepType ==
  ASSUME TypeOK, NEW j \in Jobs, Step(j)
  PROVE  TypeOK'
<1> USE DEF TypeOK
<1>t. job[j] \in Locals /\ sched \in Rows /\ now \in Nat BY TimeAssumption
<1>1. CASE Select(j) BY <1>1 DEF Select, Goto, owner, data
<1>2. CASE ReadSchedule(j)
  <2> DEFINE cycle == IF sched.cycle # 0 THEN sched.cycle ELSE now
  <2>1. cycle \in Time BY <1>t DEF Rows
  <2>2. job' = [job EXCEPT ![j].generation = sched.generation,
                           ![j].failures = sched.failures, ![j].cycle = cycle, ![j].at = now]
    BY <1>2 DEF ReadSchedule
  <2> HIDE DEF cycle
  <2>3. job' \in [Jobs -> Locals] BY <1>t, <2>1, <2>2 DEF Locals, Rows
  <2> QED BY <1>2, <2>3 DEF ReadSchedule, Goto, owner, data
<1>3. CASE Claim(j)
  <2> DEFINE cycle == IF sched.cycle # 0 THEN sched.cycle ELSE job[j].cycle
  <2>1. cycle \in Time BY <1>t DEF Rows, Locals
  <2>2. sched' = [sched EXCEPT !.owner = j, !.expires = job[j].at + LeaseTime,
                               !.status = "running", !.cycle = cycle]
    BY <1>3 DEF Claim
  <2> HIDE DEF cycle
  <2>3. job[j].at + LeaseTime \in Nat BY <1>t, TimeAssumption DEF Locals
  <2>4. sched' \in Rows BY <1>t, <2>1, <2>2, <2>3 DEF Rows, Statuses
  <2>5. job' \in [Jobs -> Locals] BY <1>3, <1>t DEF Claim, Locals
  <2> QED BY <1>3, <2>4, <2>5 DEF Claim, Goto, AtWork, owner, data
<1>4. CASE Coalesce(j)
  BY <1>4, EndType DEF Coalesce, Places, owner, data
<1>5. CASE CheckContext(j)
  <2>1. job' \in [Jobs -> Locals] BY <1>5, FailsType DEF CheckContext
  <2> QED BY <1>5, <2>1 DEF CheckContext, Goto, AtWork, owner, data
<1>6. CASE ReadCursor(j)
  <2>1. SavedWindow \in Time BY TimeAssumption DEF SavedWindow
  <2>2. job' \in [Jobs -> Locals] BY <1>6, <1>t, <2>1 DEF ReadCursor, Locals
  <2> QED BY <1>6, <2>2 DEF ReadCursor, Goto, AtWork, owner, data
<1>7. CASE StartImport(j)
  <2> DEFINE window == IF job[j].window # 0 THEN job[j].window ELSE now
  <2>1. window \in Time BY <1>t DEF Locals
  <2>2. job' = [job EXCEPT ![j].window = window] BY <1>7 DEF StartImport
  <2> HIDE DEF window
  <2>3. job' \in [Jobs -> Locals] BY <1>t, <2>1, <2>2 DEF Locals
  <2> QED BY <1>7, <2>3 DEF StartImport, Goto, AtWork, Importers, owner
<1>8. CASE ImportBusy(j)
  <2>1. now + ResumeDelay \in 0..LatestRun BY NextRuns DEF ResumeDelay
  <2>2. job' \in [Jobs -> Locals] BY <1>8, <1>t, <2>1 DEF ImportBusy, Locals, Statuses
  <2> QED BY <1>8, <2>2 DEF ImportBusy, Goto, AtWork, owner, data
<1>9. CASE EndImport(j)
  <2>1. PICK more \in BOOLEAN :
          /\ Imported(job[j].window, more)
          /\ job' = [job EXCEPT ![j].status = IF more THEN "backfilling" ELSE "completed",
                                ![j].next = now + (IF more THEN ResumeDelay ELSE Interval)]
          /\ Goto(j, IF more THEN "finish" ELSE "events")
    BY <1>9 DEF EndImport
  <2> DEFINE wait == IF more THEN ResumeDelay ELSE Interval
             status == IF more THEN "backfilling" ELSE "completed"
  <2>2. wait \in Nat /\ (wait <= 60 \/ wait = Interval) BY TimeAssumption DEF ResumeDelay
  <2>3. now + wait \in 0..LatestRun BY <2>2, NextRuns
  <2>4. status \in Statuses BY DEF Statuses
  <2>5. job' = [job EXCEPT ![j].status = status, ![j].next = now + wait] BY <2>1
  <2> HIDE DEF wait, status
  <2>6. job' \in [Jobs -> Locals] BY <1>t, <2>3, <2>4, <2>5 DEF Locals
  <2>7. import' \in [by : Importers \cup {Nobody}, open : BOOLEAN, end : Time] /\ covered' \in Time
    BY <1>t, <2>1 DEF Imported, Locals
  <2>8. pc' \in [Jobs -> Places] BY <2>1 DEF Goto, Places, AtWork
  <2> QED BY <1>9, <2>6, <2>7, <2>8 DEF EndImport, Places, owner
<1>10. CASE Throw(j)
  <2>1. job' \in [Jobs -> Locals] BY <1>10, FailsType, ZenonT(60) DEF Throw
  <2>2. import' \in [by : Importers \cup {Nobody}, open : BOOLEAN, end : Time]
    BY <1>10 DEF Throw
  <2> QED BY <1>10, <2>1, <2>2 DEF Throw, Goto, AtWork, owner
<1>11. CASE ProcessEvents(j)
  BY <1>11 DEF ProcessEvents, Goto, AtWork, owner
<1>12. CASE FinishJob(j)
  <2>1. CycleAfter(j) \in Time BY <1>t, TimeAssumption DEF CycleAfter, Rows
  <2>2. (sched.enabled /\ ~job[j].pause) \in BOOLEAN OBVIOUS
  <2>3. sched' \in Rows BY <1>12, <1>t, <2>1, <2>2 DEF FinishJob, Rows, Locals
  <2>4. pc' \in [Jobs -> Places] /\ job' \in [Jobs -> Locals]
    BY <1>12, EndType DEF FinishJob, Places
  <2> QED BY <1>12, <2>3, <2>4 DEF FinishJob, Places, owner, data
<1>13. CASE Crash(j)
  BY <1>13, EndType DEF Crash, Places, owner, data
<1> QED BY <1>1, <1>2, <1>3, <1>4, <1>5, <1>6, <1>7, <1>8, <1>9, <1>10, <1>11, <1>12, <1>13
        DEF Step

LEMMA EnvironmentType ==
  ASSUME TypeOK, Environment
  PROVE  TypeOK'
<1> USE DEF TypeOK
<1>t. sched \in Rows /\ now \in Nat BY TimeAssumption
<1>r. \A x \in Time : x \in 0..LatestRun BY TimeAssumption DEF LatestRun
<1>1. CASE BeginEnable BY <1>1, <1>t DEF BeginEnable, Rows, data
<1>2. CASE Enable
  <2>1. sched' \in Rows BY <1>2, <1>t, <1>r DEF Enable, Rows, Statuses
  <2> QED BY <1>2, <2>1, TimeAssumption DEF Enable, NoRequest, data
<1>3. CASE Pause
  <2>1. sched' = [sched EXCEPT !.enabled = FALSE, !.generation = sched.generation + 1,
                               !.status = "paused", !.owner = Nobody, !.expires = 0]
    BY <1>3 DEF Pause
  <2>2. sched.generation + 1 \in Nat BY <1>t DEF Rows
  <2>3. sched' \in Rows BY <1>t, <2>1, <2>2 DEF Rows, Statuses
  <2> QED BY <1>3, <2>3 DEF Pause, data
<1>4. CASE ChangeGrant BY <1>4 DEF ChangeGrant, data
<1>5. CASE Pass BY <1>5, TimeAssumption DEF Pass, owner, data
<1>6. CASE \E e \in Events : ReceiveEvent(e) BY <1>6 DEF ReceiveEvent, owner
<1>7. CASE StartManual
  <2>1. import' \in [by : Importers \cup {Nobody}, open : BOOLEAN, end : Time]
    BY <1>7 DEF StartManual, Importers
  <2> QED BY <1>7, <2>1 DEF StartManual, owner
<1>8. CASE EndManual
  <2>1. import' \in [by : Importers \cup {Nobody}, open : BOOLEAN, end : Time] /\ covered' \in Time
    BY <1>8 DEF EndManual, Imported
  <2> QED BY <1>8, <2>1 DEF EndManual, owner
<1> QED BY <1>1, <1>2, <1>3, <1>4, <1>5, <1>6, <1>7, <1>8 DEF Environment

\* The row and the locals of every job have their types; in particular no
\* number of failures puts the next run more than an hour off.
THEOREM Typing == Spec => []TypeOK
<1>1. Init => TypeOK BY InitType
<1>2. TypeOK /\ [Next]_vars => TypeOK'
  <2> SUFFICES ASSUME TypeOK, [Next]_vars PROVE TypeOK' OBVIOUS
  <2>1. CASE Next BY <2>1, StepType, EnvironmentType DEF Next
  <2>2. CASE UNCHANGED vars BY <2>2 DEF TypeOK, vars, owner, data
  <2> QED BY <2>1, <2>2
<1> QED BY <1>1, <1>2, PTL DEF Spec
-----------------------------------------------------------------------------
\* Most steps leave the row and the owner's decisions alone, and no job comes to
\* work by them.
Quiet ==
  /\ sched' = sched /\ decisions' = decisions
  /\ \A i \in Jobs : pc'[i] \in AtWork =>
       pc[i] \in AtWork /\ job'[i].claim = job[i].claim /\ job'[i].at = job[i].at

LEMMA QuietSteps ==
  ASSUME TypeOK, [Next]_vars
  PROVE  Quiet \/ (\E j \in Jobs : Claim(j) \/ FinishJob(j)) \/ Enable \/ Pause
<1> USE DEF TypeOK, AtWork, Quiet
<1>1. ASSUME NEW j \in Jobs, Step(j) PROVE Quiet \/ Claim(j) \/ FinishJob(j)
  <2>t. job[j] \in Locals OBVIOUS
  <2>1. CASE Select(j) BY <2>1 DEF Select, Goto, owner
  <2>2. CASE ReadSchedule(j) BY <2>2 DEF ReadSchedule, Goto, owner
  <2>3. CASE Coalesce(j) BY <2>3 DEF Coalesce, End, Goto, owner
  <2>4. CASE CheckContext(j) BY <2>4, <2>t DEF CheckContext, Fails, Goto, owner, Locals
  <2>5. CASE ReadCursor(j) BY <2>5, <2>t DEF ReadCursor, Goto, owner, Locals
  <2>6. CASE StartImport(j) BY <2>6, <2>t DEF StartImport, Goto, owner, Locals
  <2>7. CASE ImportBusy(j) BY <2>7, <2>t DEF ImportBusy, Goto, owner, Locals
  <2>8. CASE EndImport(j)
    <3>1. PICK more \in BOOLEAN :
            /\ job' = [job EXCEPT ![j].status = IF more THEN "backfilling" ELSE "completed",
                                  ![j].next = now + (IF more THEN ResumeDelay ELSE Interval)]
            /\ Goto(j, IF more THEN "finish" ELSE "events")
      BY <2>8 DEF EndImport
    <3>2. job'[j].claim = job[j].claim /\ job'[j].at = job[j].at BY <2>t, <3>1 DEF Locals
    <3>3. \A i \in Jobs : i # j => job'[i] = job[i] BY <3>1
    <3>4. \A i \in Jobs : i # j => pc'[i] = pc[i] BY <3>1 DEF Goto
    <3> QED BY <2>8, <3>2, <3>3, <3>4 DEF EndImport, owner
  <2>9. CASE Throw(j) BY <2>9, <2>t DEF Throw, Fails, Goto, owner, Locals
  <2>10. CASE ProcessEvents(j) BY <2>10 DEF ProcessEvents, Goto, owner
  <2>11. CASE Crash(j) BY <2>11 DEF Crash, End, Goto, owner
  <2> QED BY <1>1, <2>1, <2>2, <2>3, <2>4, <2>5, <2>6, <2>7, <2>8, <2>9, <2>10, <2>11
          DEF Step
<1>2. ASSUME Environment PROVE Quiet \/ Enable \/ Pause
  BY <1>2 DEF Environment, BeginEnable, ChangeGrant, Pass, ReceiveEvent, StartManual,
              EndManual, owner, data
<1>3. CASE UNCHANGED vars BY <1>3 DEF vars, owner
<1> QED BY <1>1, <1>2, <1>3 DEF Next

LEMMA ClaimedJob ==
  ASSUME TypeOK, NEW j \in Jobs, Claim(j)
  PROVE  /\ job'[j].claim = decisions /\ job'[j].at = job[j].at
         /\ \A i \in Jobs : i # j => pc'[i] = pc[i] /\ job'[i] = job[i]
         /\ sched'.owner = j /\ sched'.expires = job[j].at + LeaseTime
         /\ pc[j] = "read" /\ decisions' = decisions
<1>1. job[j] \in Locals /\ sched \in Rows BY DEF TypeOK
<1> QED BY <1>1 DEF Claim, Goto, owner, TypeOK, Locals, Rows

LEMMA FinishedJob ==
  ASSUME TypeOK, NEW j \in Jobs, FinishJob(j)
  PROVE  /\ pc[j] = "finish" /\ pc'[j] = "idle" /\ decisions' = decisions
         /\ \A i \in Jobs : i # j => pc'[i] = pc[i] /\ job'[i] = job[i]
         /\ MayFinish(j) => sched'.owner = Nobody /\ sched'.next = job[j].next
         /\ ~MayFinish(j) => sched' = sched
<1>1. sched \in Rows BY DEF TypeOK
<1> QED BY <1>1 DEF FinishJob, End, Goto, owner, TypeOK, Rows

\* A decision of the owner takes the lease away and outdates every claim.
LEMMA Decided ==
  ASSUME TypeOK, Enable \/ Pause
  PROVE  /\ sched'.owner = Nobody /\ decisions' = decisions + 1
         /\ pc' = pc /\ job' = job
<1>1. sched \in Rows BY DEF TypeOK
<1> QED BY <1>1 DEF Enable, Pause, Rows

LEMMA InitHolder == Init => HolderIsCurrent /\ LaterRuns /\ ClaimsAreApart /\ OneJobAtATime
BY DEF Init, HolderIsCurrent, LaterRuns, ClaimsAreApart, OneJobAtATime, AtWork, NoJob

LEMMA HolderStep ==
  ASSUME TypeOK, HolderIsCurrent, [Next]_vars
  PROVE  HolderIsCurrent'
<1> USE DEF HolderIsCurrent
<1>t. decisions \in Nat /\ \A i \in Jobs : job[i].claim \in Nat BY DEF TypeOK, Locals
<1>1. CASE Quiet BY <1>1 DEF Quiet
<1>2. CASE \E j \in Jobs : Claim(j)
  <2>1. PICK j \in Jobs : Claim(j) BY <1>2
  <2> QED BY <1>t, <2>1, ClaimedJob
<1>3. CASE \E j \in Jobs : FinishJob(j)
  <2>1. PICK j \in Jobs : FinishJob(j) BY <1>3
  <2>2. "idle" \notin AtWork BY DEF AtWork
  <2> QED BY <2>1, <2>2, FinishedJob, NameAssumption
<1>4. CASE Enable \/ Pause BY <1>4, <1>t, Decided, NameAssumption
<1> QED BY <1>1, <1>2, <1>3, <1>4, QuietSteps

LEMMA LaterStep ==
  ASSUME TypeOK, LaterRuns, [Next]_vars
  PROVE  LaterRuns'
<1> USE DEF LaterRuns, TypeOK
<1>t. now \in Nat /\ \A i \in Jobs : job[i] \in Locals /\ job[i].at \in Nat
  BY TimeAssumption DEF Locals
<1>1. ASSUME NEW j \in Jobs, Step(j) PROVE LaterRuns'
  <2>1. now' = now /\ \A i \in Jobs : i # j => pc'[i] = pc[i] /\ job'[i] = job[i]
    BY <1>1 DEF Step, Select, ReadSchedule, Claim, Coalesce, CheckContext, ReadCursor,
       StartImport, ImportBusy, EndImport, Throw, ProcessEvents, FinishJob, Crash,
       Fails, End, Goto
  <2>2. /\ job'[j].at <= now
        /\ pc'[j] \in {"events", "finish"} => job'[j].at <= job'[j].next
    <3>1. CASE Select(j) BY <3>1 DEF Select, Goto
    <3>2. CASE ReadSchedule(j) BY <1>t, <3>2 DEF ReadSchedule, Goto, Locals
    <3>3. CASE Claim(j) BY <1>t, <3>3 DEF Claim, Goto, Locals
    <3>4. CASE Coalesce(j) \/ FinishJob(j) \/ Crash(j)
      BY <1>t, <3>4 DEF Coalesce, FinishJob, Crash, End, Goto, NoJob
    <3>5. ASSUME NEW pause \in BOOLEAN, Fails(j, pause)
          PROVE job'[j].at <= now /\ job'[j].at <= job'[j].next
      <4>1. now <= job'[j].next BY <3>5, FailsType
      <4>2. job'[j].at = job[j].at BY <1>t, <3>5 DEF Fails, Locals
      <4>3. job'[j].next \in Nat BY <3>5, FailsType, TimeAssumption DEF Locals, LatestRun
      <4> QED BY <1>t, <4>1, <4>2, <4>3
    <3>6. CASE CheckContext(j) BY <3>5, <3>6 DEF CheckContext, Goto
    <3>7. CASE ReadCursor(j) BY <1>t, <3>7 DEF ReadCursor, Goto, Locals
    <3>8. CASE StartImport(j) BY <1>t, <3>8 DEF StartImport, Goto, Locals
    <3>9. CASE ImportBusy(j) BY <1>t, <3>9 DEF ImportBusy, Goto, Locals, ResumeDelay
    <3>10. CASE EndImport(j)
      <4>1. PICK more \in BOOLEAN :
              job' = [job EXCEPT ![j].status = IF more THEN "backfilling" ELSE "completed",
                                 ![j].next = now + (IF more THEN ResumeDelay ELSE Interval)]
        BY <3>10 DEF EndImport
      <4> DEFINE wait == IF more THEN ResumeDelay ELSE Interval
      <4>2. wait \in Nat BY TimeAssumption DEF ResumeDelay
      <4>3. job'[j].at = job[j].at /\ job'[j].next = now + wait BY <1>t, <4>1 DEF Locals
      <4> HIDE DEF wait
      <4> QED BY <1>t, <4>2, <4>3
    <3>11. CASE Throw(j) BY <3>5, <3>11 DEF Throw
    <3>12. CASE ProcessEvents(j)
      BY <3>12 DEF ProcessEvents, Goto
    <3> QED BY <1>1, <3>1, <3>2, <3>3, <3>4, <3>6, <3>7, <3>8, <3>9, <3>10, <3>11, <3>12
            DEF Step
  <2> QED BY <2>1, <2>2
<1>2. ASSUME Environment PROVE LaterRuns'
  <2>1. pc' = pc /\ job' = job /\ (now' = now \/ now' = now + 1)
    BY <1>2 DEF Environment, BeginEnable, Enable, Pause, ChangeGrant, Pass, ReceiveEvent,
                StartManual, EndManual
  <2> QED BY <1>t, <2>1
<1>3. CASE UNCHANGED vars BY <1>3 DEF vars
<1> QED BY <1>1, <1>2, <1>3 DEF Next
-----------------------------------------------------------------------------
\* The times and counters the following lemmas compute with.
Numbers ==
  /\ LeaseTime \in Nat \ {0}
  /\ decisions \in Nat /\ sched.expires \in Nat /\ sched.next \in Nat
  /\ \A i \in Jobs : job[i].claim \in Nat /\ job[i].at \in Nat /\ job[i].next \in Nat

LEMMA NumbersType == TypeOK => Numbers
<1>1. LatestRun \in Nat BY TimeAssumption DEF LatestRun
<1> QED BY <1>1, TimeAssumption DEF TypeOK, Rows, Locals, Numbers

\* Whoever claims the row does so after the lease of every other job of the
\* same grant.
LEMMA ClaimFollowsLeases ==
  ASSUME TypeOK, ClaimsAreApart, NEW j \in Jobs, Claim(j),
         NEW i \in Jobs \ {j}, pc[i] \in AtWork, job[i].claim = decisions
  PROVE  job[i].at + LeaseTime <= job[j].at
<1> USE NumbersType DEF ClaimsAreApart, Numbers
<1>1. sched.next <= job[j].at /\ (sched.owner = Nobody \/ sched.expires <= job[j].at)
  BY DEF Claim, MayClaim, Due, LeaseFree
<1>2. CASE sched.owner = i BY <1>1, <1>2, NameAssumption
<1>3. CASE sched.owner # i /\ sched.owner # Nobody BY <1>1, <1>3
<1>4. CASE sched.owner = Nobody BY <1>1, <1>4, NameAssumption
<1> QED BY <1>2, <1>3, <1>4

\* Claims keep apart.
LEMMA ApartStep ==
  ASSUME TypeOK, HolderIsCurrent, LaterRuns, ClaimsAreApart, [Next]_vars
  PROVE  ClaimsAreApart'
<1> USE DEF ClaimsAreApart, Numbers
<1>t. Numbers BY NumbersType
<1>1. CASE Quiet BY <1>1 DEF Quiet
<1>2. CASE \E j \in Jobs : Claim(j)
  <2>1. PICK j \in Jobs : Claim(j) BY <1>2
  <2>2. \A i \in Jobs \ {j} : pc[i] \in AtWork /\ job[i].claim = decisions =>
          job[i].at + LeaseTime <= job[j].at
    BY <2>1, ClaimFollowsLeases
  <2>3. ASSUME NEW i \in Jobs, i # j, pc'[i] \in AtWork, job'[i].claim = decisions'
        PROVE  job'[i].at + LeaseTime + LeaseTime <= sched'.expires
    <3>1. pc[i] \in AtWork /\ job[i].claim = decisions /\ job'[i].at = job[i].at
      BY <2>1, <2>3, ClaimedJob
    <3> QED BY <1>t, <2>1, <2>2, <2>3, <3>1, ClaimedJob
  <2> QED BY <2>1, <2>3, ClaimedJob, NameAssumption
<1>3. CASE \E j \in Jobs : FinishJob(j)
  <2>1. PICK j \in Jobs : FinishJob(j) BY <1>3
  <2>2. "idle" \notin AtWork /\ "finish" \in AtWork BY DEF AtWork
  <2>3. CASE ~MayFinish(j) BY <2>1, <2>2, <2>3, FinishedJob
  <2>4. CASE MayFinish(j)
    <3>1. sched.owner = j /\ pc[j] = "finish" BY <2>1, <2>4, FinishedJob DEF MayFinish
    <3>2. sched.expires = job[j].at + LeaseTime /\ job[j].at <= job[j].next
      BY <2>2, <3>1 DEF HolderIsCurrent, LaterRuns
    <3>3. ASSUME NEW i \in Jobs, pc'[i] \in AtWork, job'[i].claim = decisions'
          PROVE  job'[i].at + LeaseTime <= sched'.next
      <4>1. /\ i # j /\ pc[i] \in AtWork /\ job[i].claim = decisions
            /\ job'[i].at = job[i].at /\ sched'.next = job[j].next
        BY <2>1, <2>2, <2>4, <3>3, FinishedJob
      <4>2. job[i].at + LeaseTime + LeaseTime <= sched.expires
        BY <3>1, <4>1, NameAssumption
      <4> QED BY <1>t, <3>2, <4>1, <4>2
    <3>4. sched'.owner = Nobody BY <2>1, <2>4, FinishedJob
    <3> QED BY <3>3, <3>4, NameAssumption
  <2> QED BY <2>3, <2>4
<1>4. CASE Enable \/ Pause BY <1>4, <1>t, Decided DEF HolderIsCurrent
<1> QED BY <1>1, <1>2, <1>3, <1>4, QuietSteps

\* Jobs at work under the same grant keep apart, also after the owner decides.
LEMMA JobsStep ==
  ASSUME TypeOK, HolderIsCurrent, ClaimsAreApart, OneJobAtATime, [Next]_vars
  PROVE  OneJobAtATime'
<1> USE DEF OneJobAtATime
<1>1. CASE Quiet BY <1>1 DEF Quiet
<1>2. CASE \E j \in Jobs : Claim(j)
  <2>1. PICK j \in Jobs : Claim(j) BY <1>2
  <2>2. \A i \in Jobs \ {j} : pc[i] \in AtWork /\ job[i].claim = decisions =>
          job[i].at + LeaseTime <= job[j].at
    BY <2>1, ClaimFollowsLeases
  <2>3. ASSUME NEW i \in Jobs, i # j, pc'[i] \in AtWork, job'[i].claim = job'[j].claim
        PROVE  job'[i].at + LeaseTime <= job'[j].at
    BY <2>1, <2>2, <2>3, ClaimedJob
  <2>4. \A i, k \in Jobs : i # j /\ k # j /\ i # k /\ pc'[i] \in AtWork /\ pc'[k] \in AtWork
                           /\ job'[i].claim = job'[k].claim =>
          \/ job'[i].at + LeaseTime <= job'[k].at
          \/ job'[k].at + LeaseTime <= job'[i].at
    BY <2>1, ClaimedJob
  <2> QED BY <2>3, <2>4
<1>3. CASE \E j \in Jobs : FinishJob(j)
  <2>1. PICK j \in Jobs : FinishJob(j) BY <1>3
  <2>2. "idle" \notin AtWork BY DEF AtWork
  <2> QED BY <2>1, <2>2, FinishedJob
<1>4. CASE Enable \/ Pause BY <1>4, Decided
<1> QED BY <1>1, <1>2, <1>3, <1>4, QuietSteps

\* Steps that leave the row, the import and the history alone.
Apart == now' = now /\ sched' = sched /\ import' = import /\ covered' = covered /\ outside' = outside

Others(j) == \A i \in Jobs : i # j => pc'[i] = pc[i] /\ job'[i] = job[i]

\* What the lemmas about cycles compute with.
CycleTypes ==
  /\ now \in Nat /\ sched \in Rows /\ sched.cycle \in Nat /\ sched.owner \in Jobs \cup {Nobody}
  /\ import.end \in Nat /\ covered \in Nat /\ outside \in BOOLEAN
  /\ import \in [by : Importers \cup {Nobody}, open : BOOLEAN, end : Time]
  /\ pc \in [Jobs -> Places] /\ job \in [Jobs -> Locals]
  /\ \A i \in Jobs : job[i] \in Locals /\ job[i].cycle \in Nat /\ job[i].window \in Nat

LEMMA CycleTyping == TypeOK => CycleTypes
BY TimeAssumption DEF TypeOK, Rows, Locals, Places, CycleTypes

LEMMA InitCycles == Init => CyclesBegun /\ WindowsInCycle
<1> SUFFICES ASSUME Init PROVE CyclesBegun /\ WindowsInCycle OBVIOUS
<1>1. /\ now = 1 /\ sched.cycle = 0 /\ ~import.open
      /\ \A j \in Jobs : pc[j] = "idle" /\ job[j].cycle = 0
  BY DEF Init, NoJob
<1> QED BY <1>1 DEF CyclesBegun, WindowsInCycle, AtWork

\* A step of one job keeps both.
LEMMA CyclesStep ==
  ASSUME TypeOK, CyclesBegun, WindowsInCycle, NEW j \in Jobs, Step(j)
  PROVE  CyclesBegun' /\ WindowsInCycle'
<1> USE DEF CyclesBegun, WindowsInCycle, Others
<1>t. CycleTypes BY CycleTyping
<1>1. CASE Select(j) \/ Coalesce(j) \/ Crash(j)
  <2>1. Apart /\ Others(j) /\ pc'[j] \in {"idle", "selected"} /\ job'[j].cycle \in {0, job[j].cycle}
    BY <1>t, <1>1 DEF Select, Coalesce, Crash, End, Goto, NoJob, Apart, data, CycleTypes
  <2> QED BY <1>t, <2>1, NameAssumption DEF Apart, AtWork, CycleTypes
<1>2. CASE ReadSchedule(j)
  <2>1. /\ Apart /\ Others(j) /\ pc'[j] = "read"
        /\ job'[j].cycle = IF sched.cycle # 0 THEN sched.cycle ELSE now
    BY <1>t, <1>2 DEF ReadSchedule, Goto, Apart, data, CycleTypes, Locals
  <2>2. job'[j].cycle \in Nat /\ job'[j].cycle # 0 /\ job'[j].cycle <= now
    BY <1>t, <2>1 DEF CycleTypes
  <2>3. CyclesBegun' BY <1>t, <2>1, <2>2 DEF Apart, AtWork, CycleTypes
  <2>4. WindowsInCycle' BY <1>t, <2>1, <2>2 DEF Apart, AtWork, CycleTypes
  <2> QED BY <2>3, <2>4
<1>3. CASE Claim(j)
  <2>1. /\ pc[j] = "read" /\ pc'[j] = "context" /\ Others(j)
        /\ now' = now /\ import' = import /\ covered' = covered
        /\ job'[j].cycle = job[j].cycle /\ sched'.owner = j
        /\ sched'.cycle = IF sched.cycle # 0 THEN sched.cycle ELSE job[j].cycle
        /\ outside' = (outside /\ ~BeginsAlone(j))
    BY <1>t, <1>3 DEF Claim, Goto, CycleTypes, Locals, Rows
  <2>2. CyclesBegun' BY <1>t, <2>1 DEF AtWork, CycleTypes
  <2>3. WindowsInCycle'
    <3>1. CASE ~outside BY <1>t, <2>1, <3>1 DEF AtWork, CycleTypes
    <3>2. CASE outside /\ BeginsAlone(j)
      <4>1. ~import.open /\ \A k \in Jobs \ {j} : pc[k] \notin AtWork
        BY <3>2 DEF BeginsAlone
      <4> QED BY <2>1, <4>1 DEF AtWork
    <3>3. CASE outside /\ ~BeginsAlone(j) BY <2>1, <3>3
    <3> QED BY <1>t, <3>1, <3>2, <3>3 DEF CycleTypes
  <2> QED BY <2>2, <2>3
<1>4. CASE CheckContext(j)
  <2>1. /\ Apart /\ Others(j) /\ pc[j] = "context" /\ pc'[j] \in {"cursor", "finish"}
        /\ job'[j].cycle = job[j].cycle
        /\ pc'[j] = "finish" => job'[j].status # "completed"
    BY <1>t, <1>4 DEF CheckContext, Fails, Goto, Apart, data, CycleTypes, Locals
  <2> QED BY <1>t, <2>1 DEF Apart, AtWork, CycleTypes
<1>5. CASE ReadCursor(j)
  <2>1. /\ Apart /\ Others(j) /\ pc[j] = "cursor" /\ pc'[j] = "dispatch"
        /\ job'[j].cycle = job[j].cycle
        /\ job'[j].window = IF import.open THEN import.end ELSE 0
    BY <1>t, <1>5 DEF ReadCursor, SavedWindow, Goto, Apart, data, CycleTypes, Locals
  <2>2. CyclesBegun' BY <1>t, <2>1 DEF Apart, AtWork, CycleTypes
  <2>3. WindowsInCycle' BY <1>t, <2>1 DEF Apart, AtWork, CycleTypes
  <2> QED BY <2>2, <2>3
<1>6. CASE StartImport(j)
  <2>1. /\ Others(j) /\ pc[j] = "dispatch" /\ pc'[j] = "import"
        /\ now' = now /\ sched' = sched /\ covered' = covered
        /\ import'.open = import.open /\ import'.end = import.end
        /\ job'[j].cycle = job[j].cycle
        /\ job'[j].window = IF job[j].window # 0 THEN job[j].window ELSE now
        /\ outside' = (outside \/ sched.owner # j)
    BY <1>t, <1>6 DEF StartImport, Outsider, Goto, CycleTypes, Locals
  <2>2. CyclesBegun' BY <1>t, <2>1 DEF AtWork, CycleTypes
  <2>3. WindowsInCycle' BY <1>t, <2>1 DEF AtWork, CycleTypes
  <2> QED BY <2>2, <2>3
<1>7. CASE ImportBusy(j)
  <2>1. /\ Apart /\ Others(j) /\ pc[j] = "dispatch" /\ pc'[j] = "finish"
        /\ job'[j].cycle = job[j].cycle /\ job'[j].status = "waiting"
    BY <1>t, <1>7 DEF ImportBusy, Goto, Apart, data, CycleTypes, Locals
  <2> QED BY <1>t, <2>1 DEF Apart, AtWork, CycleTypes
<1>8. CASE EndImport(j)
  <2>1. PICK more \in BOOLEAN :
          /\ Imported(job[j].window, more)
          /\ job' = [job EXCEPT ![j].status = IF more THEN "backfilling" ELSE "completed",
                                ![j].next = now + (IF more THEN ResumeDelay ELSE Interval)]
          /\ Goto(j, IF more THEN "finish" ELSE "events")
    BY <1>8 DEF EndImport
  <2>2. /\ Others(j) /\ pc'[j] = (IF more THEN "finish" ELSE "events")
        /\ job'[j].cycle = job[j].cycle
        /\ job'[j].status = IF more THEN "backfilling" ELSE "completed"
    BY <1>t, <2>1 DEF Goto, CycleTypes, Locals
  <2>3. /\ pc[j] = "import" /\ now' = now /\ sched' = sched
        /\ import'.open = more /\ import'.end = job[j].window
        /\ covered' \in Nat /\ covered <= covered' /\ (~more => job[j].window <= covered')
        /\ outside' = (outside \/ sched.owner # j)
    BY <1>t, <1>8, <2>1 DEF EndImport, Imported, Outsider, CycleTypes
  <2>4. CyclesBegun' BY <1>t, <2>2, <2>3 DEF AtWork, CycleTypes
  <2>5. ASSUME ~outside' PROVE WindowsInCycle'
    <3>1. ~outside /\ sched.owner = j BY <1>t, <2>3, <2>5 DEF CycleTypes
    <3>2. /\ sched.cycle # 0 /\ sched.cycle <= job[j].window /\ job[j].cycle <= job[j].window
          /\ \A k \in Jobs : pc[k] = "read" => job[k].cycle <= job[j].window
      BY <2>3, <3>1 DEF AtWork
    <3>3. import'.open => sched'.cycle # 0 /\ sched'.cycle <= import'.end BY <2>3, <3>2
    <3>4. \A i \in Jobs : i # j => sched'.owner # i BY <2>3, <3>1
    <3>5. ASSUME NEW i \in Jobs, pc'[i] = "events" PROVE job'[i].cycle <= covered'
      BY <1>t, <2>2, <2>3, <3>1, <3>2, <3>5 DEF CycleTypes
    <3>6. ASSUME NEW i \in Jobs, pc'[i] = "read" PROVE import'.open => job'[i].cycle <= import'.end
      BY <2>2, <2>3, <3>2, <3>6
    <3> QED BY <2>2, <2>3, <3>3, <3>4, <3>5, <3>6
  <2> QED BY <2>4, <2>5
<1>9. CASE Throw(j)
  <2>1. /\ Others(j) /\ pc'[j] = "finish" /\ pc[j] \in AtWork
        /\ now' = now /\ sched' = sched /\ covered' = covered /\ outside' = outside
        /\ import'.open = import.open /\ import'.end = import.end
        /\ job'[j].cycle = job[j].cycle /\ job'[j].status # "completed"
    BY <1>t, <1>9 DEF Throw, Fails, Goto, CycleTypes, Locals
  <2> QED BY <1>t, <2>1 DEF AtWork, CycleTypes
<1>10. CASE ProcessEvents(j)
  <2>1. /\ Apart /\ Others(j) /\ pc[j] = "events" /\ pc'[j] = "finish" /\ job' = job
    BY <1>t, <1>10 DEF ProcessEvents, Goto, Apart, CycleTypes
  <2> QED BY <1>t, <2>1 DEF Apart, AtWork, CycleTypes
<1>11. CASE FinishJob(j)
  <2>1. /\ Others(j) /\ pc[j] = "finish" /\ pc'[j] = "idle" /\ job'[j].cycle = 0
        /\ now' = now /\ import' = import /\ covered' = covered /\ outside' = outside
    BY <1>t, <1>11 DEF FinishJob, End, Goto, NoJob, data, CycleTypes
  <2>2. CASE MayFinish(j)
    <3>1. /\ sched.owner = j /\ sched'.owner = Nobody
          /\ sched'.cycle = IF job[j].status = "completed" THEN 0 ELSE sched.cycle
      BY <1>t, <1>11, <2>2 DEF FinishJob, MayFinish, CycleAfter, CycleTypes, Rows
    <3>2. \A i \in Jobs : sched'.owner # i BY <3>1, NameAssumption
    <3>3. CyclesBegun' BY <1>t, <2>1, <3>1, <3>2 DEF AtWork, CycleTypes
    <3>4. WindowsInCycle' BY <1>t, <2>1, <3>1, <3>2 DEF AtWork, CycleTypes
    <3> QED BY <3>3, <3>4
  <2>3. CASE ~MayFinish(j)
    <3>1. sched' = sched BY <1>11, <2>3 DEF FinishJob
    <3> QED BY <1>t, <2>1, <3>1 DEF AtWork, CycleTypes
  <2> QED BY <2>2, <2>3
<1> QED BY <1>1, <1>2, <1>3, <1>4, <1>5, <1>6, <1>7, <1>8, <1>9, <1>10, <1>11 DEF Step

\* So does a step of the owner, the provider, the browser and the clock.
LEMMA CyclesEnvironment ==
  ASSUME TypeOK, CyclesBegun, WindowsInCycle, Environment
  PROVE  CyclesBegun' /\ WindowsInCycle'
<1> USE DEF CyclesBegun, WindowsInCycle
<1>t. CycleTypes BY CycleTyping
<1>1. pc' = pc /\ job' = job
  BY DEF Environment, BeginEnable, Enable, Pause, ChangeGrant, Pass, ReceiveEvent,
         StartManual, EndManual
<1>2. CASE BeginEnable \/ ChangeGrant \/ \E e \in Events : ReceiveEvent(e)
  <2>1. Apart BY <1>2 DEF BeginEnable, ChangeGrant, ReceiveEvent, Apart, data
  <2> QED BY <1>1, <2>1 DEF Apart
<1>3. CASE Enable \/ Pause
  <2>1. /\ now' = now /\ import' = import /\ covered' = covered /\ outside' = outside
        /\ sched'.cycle = sched.cycle /\ sched'.owner = Nobody
    BY <1>t, <1>3 DEF Enable, Pause, data, CycleTypes, Rows
  <2> QED BY <1>1, <2>1, NameAssumption
<1>4. CASE Pass
  <2>1. /\ now' = now + 1 /\ sched' = sched /\ import' = import /\ covered' = covered
        /\ outside' = outside
    BY <1>4 DEF Pass, data
  <2>2. CyclesBegun' BY <1>t, <1>1, <2>1 DEF CycleTypes
  <2> QED BY <1>1, <2>1, <2>2
<1>5. CASE StartManual \/ EndManual
  <2>1. now' = now /\ sched' = sched /\ outside' BY <1>5 DEF StartManual, EndManual
  <2> QED BY <1>1, <2>1
<1> QED BY <1>2, <1>3, <1>4, <1>5 DEF Environment

Inductive ==
  /\ TypeOK /\ HolderIsCurrent /\ LaterRuns /\ ClaimsAreApart /\ OneJobAtATime
  /\ CyclesBegun /\ WindowsInCycle

\* The conjunction that the steps preserve.
LEMMA InductiveHolds == Spec => []Inductive
<1>1. Init => Inductive BY InitType, InitHolder, InitCycles DEF Inductive
<1>2. Inductive /\ [Next]_vars => Inductive'
  <2> SUFFICES ASSUME Inductive, [Next]_vars PROVE Inductive' OBVIOUS
  <2>1. TypeOK'
    <3>1. CASE Next BY <3>1, StepType, EnvironmentType DEF Next, Inductive
    <3>2. CASE UNCHANGED vars BY <3>2 DEF Inductive, TypeOK, vars, owner, data
    <3> QED BY <3>1, <3>2
  <2>2. CyclesBegun' /\ WindowsInCycle'
    <3>1. CASE Next BY <3>1, CyclesStep, CyclesEnvironment DEF Next, Inductive
    <3>2. CASE UNCHANGED vars
      BY <3>2 DEF Inductive, CyclesBegun, WindowsInCycle, vars, data
    <3> QED BY <3>1, <3>2
  <2> QED BY <2>1, <2>2, HolderStep, LaterStep, ApartStep, JobsStep DEF Inductive
<1> QED BY <1>1, <1>2, PTL DEF Spec

\* However late the jobs of overlapping ticks are, two of them are at work on a
\* connection only once the lease of the earlier has run out or the owner has
\* decided anew (runDueSchedule's claim).
THEOREM JobsKeepApart == Spec => []JobsAreApart
<1>1. Inductive => JobsAreApart BY DEF Inductive, JobsAreApart
<1> QED BY <1>1, InductiveHolds, PTL

\* A job that was at work when the owner paused or enabled the schedule leaves
\* the row alone when it ends (runDueSchedule's last update).
THEOREM OwnerDecides == Spec => OwnerDecisionStands
<1> DEFINE A == \A j \in Jobs : pc[j] = "finish" /\ pc'[j] = "idle" /\ job[j].claim # decisions
                                => UNCHANGED sched
<1>1. Inductive /\ [Next]_vars => [A]_vars
  <2> SUFFICES ASSUME Inductive, Next, NEW j \in Jobs, pc[j] = "finish", pc'[j] = "idle",
                      job[j].claim # decisions
               PROVE  sched' = sched
    OBVIOUS
  <2>1. TypeOK /\ sched.owner # j BY DEF Inductive, HolderIsCurrent, AtWork
  <2>2. CASE Environment
    BY <2>2 DEF Environment, BeginEnable, Enable, Pause, ChangeGrant, Pass, ReceiveEvent,
                StartManual, EndManual
  <2>3. ASSUME NEW i \in Jobs, Step(i) PROVE sched' = sched
    <3>1. CASE i = j
      BY <2>1, <2>3, <3>1 DEF Step, Select, ReadSchedule, Claim, Coalesce, CheckContext,
         ReadCursor, StartImport, ImportBusy, EndImport, Throw, ProcessEvents, FinishJob,
         Crash, MayFinish
    <3>2. CASE i # j
      BY <2>1, <2>3, <3>2 DEF Step, Select, ReadSchedule, Claim, Coalesce, CheckContext,
         ReadCursor, StartImport, ImportBusy, EndImport, Throw, ProcessEvents, FinishJob,
         Crash, End, Goto, TypeOK
    <3> QED BY <3>1, <3>2
  <2> QED BY <2>2, <2>3 DEF Next
<1> QED BY <1>1, InductiveHolds, PTL DEF Spec, OwnerDecisionStands

\* As long as only jobs that hold the schedule row import, no job closes a webhook
\* receipt before a complete pull reaches past it (the job's processed-event update).
THEOREM ReceiptsStayQueued == Spec => QueuedUntilCovered
<1> DEFINE A == ~outside => \A e \in processed' \ processed : received[e] <= covered'
<1>1. Inductive /\ [Next]_vars => [A]_vars
  <2> SUFFICES ASSUME Inductive, Next, ~outside, NEW e \in processed' \ processed
               PROVE  received[e] <= covered'
    OBVIOUS
  <2>1. PICK j \in Jobs : ProcessEvents(j)
    BY DEF Next, Environment, BeginEnable, Enable, Pause, ChangeGrant, Pass, ReceiveEvent,
       StartManual, EndManual, Step, Select, ReadSchedule, Claim, Coalesce, CheckContext,
       ReadCursor, StartImport, ImportBusy, EndImport, Throw, FinishJob, Crash, data
  <2>2. e \in Events /\ received[e] < job[j].cycle /\ pc[j] = "events" /\ covered' = covered
    BY <2>1 DEF ProcessEvents
  <2>3. job[j].cycle <= covered BY <2>2 DEF Inductive, WindowsInCycle
  <2>4. received[e] \in Nat /\ job[j].cycle \in Nat /\ covered \in Nat
    BY <2>2, TimeAssumption DEF Inductive, TypeOK, Locals
  <2> QED BY <2>2, <2>3, <2>4
<1> QED BY <1>1, InductiveHolds, PTL DEF Spec, QueuedUntilCovered
=============================================================================
