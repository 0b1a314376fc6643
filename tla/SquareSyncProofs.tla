-------------------------- MODULE SquareSyncProofs --------------------------
(***************************************************************************)
(* Theorems of SquareSync, for any number of attempts, orders and          *)
(* locations, any horizon and any overlap.                                 *)
(***************************************************************************)
EXTENDS SquareSync, WellFoundedInduction, TLAPS

\* A nonempty set of numbers has a least element.
LEMMA LeastNumber ==
  ASSUME NEW T, T \subseteq Nat, T # {}
  PROVE  \E x \in T : \A y \in T : x <= y
<1>1. PICK x \in T : \A y \in T : <<y, x>> \notin OpToRel(<, Nat)
  BY NatLessThanWellFounded, WFMin, Zenon
<1>2. ASSUME NEW y \in T PROVE ~(y < x)
  <2>1. <<y, x>> \in Nat \X Nat OBVIOUS
  <2> QED BY <1>1, <2>1, Zenon DEF OpToRel
<1>3. \A y \in T : x <= y BY <1>2
<1> QED BY <1>3

\* A nonempty bounded set of numbers has a greatest element.
LEMMA GreatestNumber ==
  ASSUME NEW n \in Nat, NEW T, T \subseteq 0..n, T # {}
  PROVE  \E x \in T : \A y \in T : y <= x
<1> DEFINE D == {n - x : x \in T}
<1>1. D \subseteq Nat BY SMT
<1>2. D # {}
  <2>1. PICK x : x \in T OBVIOUS
  <2>2. n - x \in D BY <2>1
  <2> QED BY <2>2
<1>3. PICK d \in D : \A e \in D : d <= e BY <1>1, <1>2, LeastNumber
<1>4. PICK x \in T : d = n - x BY <1>3
<1>5. ASSUME NEW y \in T PROVE y <= x
  <2>1. n - y \in D OBVIOUS
  <2>2. n - x <= n - y BY <1>3, <1>4, <2>1
  <2> QED BY <2>2
<1> QED BY <1>5

USE DEF Time, Versions

LEMMA WindowType ==
  ASSUME TypeOK, NEW c \in Cursors
  PROVE  BeginWindow(c) \in Cursors
<1>1. now \in Time BY DEF TypeOK
<1>2. BackFrom(c.watermark) \in Time
  BY BoundAssumption DEF BackFrom, Cursors
<1> QED BY <1>1, <1>2, BoundAssumption DEF BeginWindow, Cursors

LEMMA StagedType ==
  ASSUME TypeOK, NEW part, NEW stamp \in Nat
  PROVE  StagedWith(part, stamp) \in [Orders -> [Versions -> Nat]]
BY DEF TypeOK, StagedWith

LEMMA LatestType ==
  ASSUME NEW o
  PROVE  LatestStaged(o) \in Time
<1>1. CASE \E v \in Versions : IsLatest(o, v)
  BY <1>1, BoundAssumption DEF LatestStaged
<1>2. CASE ~\E v \in Versions : IsLatest(o, v)
  BY <1>2, BoundAssumption DEF LatestStaged
<1> QED BY <1>1, <1>2

LEMMA InitType == Init => TypeOK
<1> SUFFICES ASSUME Init PROVE TypeOK OBVIOUS
<1>1. NoCursor \in Cursors BY BoundAssumption DEF NoCursor, Cursors
<1>2. NoRows \in [Orders -> Time] BY BoundAssumption DEF NoRows
<1>3. NoJob \in Jobs BY <1>1, <1>2, BoundAssumption DEF NoJob, Jobs
<1>4. NewConnection \in Connections
  BY <1>1 DEF NewConnection, Connections
<1>5. EstablishedConnection \in Connections
  BY <1>1 DEF EstablishedConnection, NewConnection, NoCursor, Connections, Cursors
<1>6. conn \in Connections BY <1>4, <1>5 DEF Init
<1>7. metrics \in [version : Nat, rows : [Orders -> Time]]
  BY <1>2, <1>6 DEF Init, Connections
<1>8. mapping \in [Locations -> [status : Statuses, since : Time]]
  BY BoundAssumption DEF Init, Statuses
<1>9. job \in [Runs -> Jobs] BY <1>3 DEF Init
<1>10. pc \in [Runs -> {"idle", "read"} \cup Working \cup Ending \cup Over]
  BY DEF Init
<1>11. staged \in [Orders -> [Versions -> Nat]] BY DEF Init
<1>12. now \in Time /\ updatedAt \in [Orders -> Time]
  BY BoundAssumption DEF Init
<1>13. secret \in BOOLEAN /\ leaving \in BOOLEAN /\ stamps \in Nat
  BY DEF Init
<1> QED BY <1>6, <1>7, <1>8, <1>9, <1>10, <1>11, <1>12, <1>13 DEF TypeOK

\* The moves of an attempt between its steps.
LEMMA GotoType ==
  ASSUME TypeOK, NEW r \in Runs,
         NEW l \in {"idle", "read"} \cup Working \cup Ending \cup Over, Goto(r, l)
  PROVE  pc' \in [Runs -> {"idle", "read"} \cup Working \cup Ending \cup Over]
BY DEF TypeOK, Goto

LEMMA EndType ==
  ASSUME TypeOK, NEW r \in Runs, NEW l \in Over, End(r, l)
  PROVE  /\ pc' \in [Runs -> {"idle", "read"} \cup Working \cup Ending \cup Over]
         /\ job' \in [Runs -> Jobs]
<1>1. Goto(r, l) BY DEF End
<1>2. NoCursor \in Cursors BY BoundAssumption DEF NoCursor, Cursors
<1>3. NoRows \in [Orders -> Time] BY BoundAssumption DEF NoRows
<1>4. NoJob \in Jobs BY <1>2, <1>3, BoundAssumption DEF NoJob, Jobs
<1>5. job' \in [Runs -> Jobs] BY <1>4 DEF End, TypeOK
<1> QED BY <1>1, <1>5, GotoType

\* What a fetched page changes among the locals of its attempt.
LEMMA FetchedPage ==
  ASSUME TypeOK, NEW r \in Runs, FetchPage(r)
  PROVE  /\ job'[r].cursor = job[r].cursor /\ job'[r].window = job[r].window
         /\ job'[r].mapped = job[r].mapped
         /\ job'[r].ticket = job[r].ticket /\ job'[r].promotion = job[r].promotion
         /\ job'[r].orders \in {0} \cup {updatedAt[o] : o \in Remaining(r)}
         /\ job'[r].got = {<<o, updatedAt[o]>> : o \in
               {p \in Remaining(r) : job'[r].orders = 0 \/ updatedAt[p] <= job'[r].orders}}
         /\ \A o, v : <<o, v>> \in job'[r].got => v = updatedAt[o]
         /\ pc'[r] = "renew"
<1>1. PICK rest \in RestPages, token \in {0} \cup {updatedAt[o] : o \in Remaining(r)} :
        job' = [job EXCEPT
          ![r].got = {<<o, updatedAt[o]>> : o \in
                       {p \in Remaining(r) : token = 0 \/ updatedAt[p] <= token}},
          ![r].orders = token,
          ![r].rest = rest]
  BY DEF FetchPage
<1> DEFINE page(t) == {<<o, updatedAt[o]>> : o \in
                            {p \in Remaining(r) : t = 0 \/ updatedAt[p] <= t}}
<1>2. pc'[r] = "renew" BY DEF FetchPage, Goto, TypeOK
<1>3. job' = [job EXCEPT ![r].got = page(token), ![r].orders = token, ![r].rest = rest]
  BY <1>1
<1>4. job[r] \in Jobs /\ job \in [Runs -> Jobs] BY DEF TypeOK
<1> HIDE DEF page
<1>5. /\ job'[r].cursor = job[r].cursor /\ job'[r].window = job[r].window
      /\ job'[r].mapped = job[r].mapped
      /\ job'[r].got = page(token) /\ job'[r].orders = token /\ job'[r].rest = rest
      /\ job'[r].ticket = job[r].ticket /\ job'[r].promotion = job[r].promotion
  BY <1>3, <1>4 DEF Jobs
<1>6. \A o, v : <<o, v>> \in page(token) => v = updatedAt[o] BY DEF page
<1>7. \A o, v : <<o, v>> \in job'[r].got => v = updatedAt[o] BY <1>5, <1>6
<1> QED BY <1>1, <1>2, <1>5, <1>7 DEF page

LEMMA AttemptType ==
  ASSUME TypeOK, NEW r \in Runs, Attempt(r)
  PROVE  TypeOK'
<1> USE DEF provider, owned, staging, attempts
<1>0. /\ job[r] \in Jobs
      /\ job[r].window \in Cursors
      /\ job[r].cursor \in Cursors
      /\ conn \in Connections
  BY DEF TypeOK, Jobs
<1>1. CASE ReadConnection(r)
  <2>1. job' \in [Runs -> Jobs]
    BY <1>0, <1>1 DEF ReadConnection, TypeOK, Jobs, Connections
  <2> QED BY <1>1, <2>1, GotoType DEF ReadConnection, TypeOK, Working
<1>2. CASE AcquireLease(r)
  <2>1. BeginWindow(job[r].cursor) \in Cursors
    BY <1>0, WindowType
  <2> DEFINE version == conn.version + 1
  <2>v. version \in Nat BY <1>0 DEF Connections
  <2>2. conn' = [conn EXCEPT !.owner = r, !.live = TRUE, !.version = version]
    BY <1>2 DEF AcquireLease
  <2>3. job' = [job EXCEPT ![r].ticket = version, ![r].window = BeginWindow(job[r].cursor)]
    BY <1>2 DEF AcquireLease
  <2> HIDE DEF version
  <2>5. conn' \in Connections BY <1>0, <2>v, <2>2, NoRunAssumption DEF Connections
  <2>6. job' \in [Runs -> Jobs] BY <1>0, <2>v, <2>1, <2>3 DEF TypeOK, Jobs
  <2>4. pc' \in [Runs -> {"idle", "read"} \cup Working \cup Ending \cup Over]
    BY <1>2, GotoType DEF AcquireLease, Working
  <2> QED BY <1>2, <2>4, <2>5, <2>6 DEF AcquireLease, TypeOK
<1>3. CASE Coalesce(r)
  BY <1>3, EndType DEF Coalesce, TypeOK, Over
<1>4. CASE StageHistory(r)
  <2>1. conn' \in Connections
    BY <1>4 DEF StageHistory, TypeOK, Connections
  <2> QED BY <1>4, <2>1, GotoType DEF StageHistory, TypeOK, Working
<1>5. CASE ReadMappings(r)
  <2>1. job' \in [Runs -> Jobs]
    BY <1>0, <1>5 DEF ReadMappings, TypeOK, Jobs
  <2> QED BY <1>5, <2>1, GotoType DEF ReadMappings, TypeOK, Working
<1>6. CASE RefreshToken(r)
  BY <1>6, GotoType DEF RefreshToken, TypeOK, Working
<1>7. CASE SaveToken(r)
  BY <1>7, GotoType DEF SaveToken, TypeOK, Working
<1>8. CASE FetchPage(r)
  <2>1. PICK rest \in RestPages, token \in {0} \cup {updatedAt[o] : o \in Remaining(r)} :
          job' = [job EXCEPT
            ![r].got = {<<o, updatedAt[o]>> : o \in
                         {p \in Remaining(r) : token = 0 \/ updatedAt[p] <= token}},
            ![r].orders = token,
            ![r].rest = rest]
    BY <1>8 DEF FetchPage
  <2>2. \A o \in Remaining(r) : o \in Orders /\ updatedAt[o] \in Versions
    BY <1>0, BoundAssumption DEF Remaining, TypeOK, Cursors
  <2>3. token \in Time BY <2>2, BoundAssumption
  <2>4. rest \in BOOLEAN BY RestAssumption
  <2>5. {<<o, updatedAt[o]>> : o \in
           {p \in Remaining(r) : token = 0 \/ updatedAt[p] <= token}}
          \in SUBSET (Orders \X Versions)
    BY <2>2
  <2>6. job' \in [Runs -> Jobs]
    BY <1>0, <2>1, <2>3, <2>4, <2>5 DEF TypeOK, Jobs
  <2> QED BY <1>8, <2>6, GotoType DEF FetchPage, TypeOK, Working
<1>9. CASE RenewBeforeWrite(r)
  <2> DEFINE stamp == stamps + 1
  <2>s. stamp \in Nat BY DEF TypeOK
  <2>j. job' = [job EXCEPT ![r].stamp = stamp] BY <1>9 DEF RenewBeforeWrite
  <2>t. stamps' \in Nat BY <1>9, <2>s DEF RenewBeforeWrite
  <2> HIDE DEF stamp
  <2>1. job' \in [Runs -> Jobs] BY <1>0, <2>s, <2>j DEF TypeOK, Jobs
  <2> QED BY <1>9, <2>1, <2>t, GotoType DEF RenewBeforeWrite, TypeOK, Working
<1>10. CASE WriteStaging(r)
  <2>1. staged' \in [Orders -> [Versions -> Nat]]
    BY <1>0, <1>10, StagedType DEF WriteStaging, Jobs
  <2> QED BY <1>10, <2>1, GotoType DEF WriteStaging, TypeOK, Working
<1>11. CASE SkipPublication(r)
  BY <1>11, GotoType DEF SkipPublication, TypeOK, Working
<1>12. CASE RenewBeforePublish(r)
  BY <1>12, GotoType DEF RenewBeforePublish, TypeOK, Working
<1>13. CASE BuildRows(r)
  <2>1. job' \in [Runs -> Jobs]
    BY <1>0, <1>13, LatestType DEF BuildRows, TypeOK, Jobs
  <2> QED BY <1>13, <2>1, GotoType DEF BuildRows, TypeOK, Working
<1>14. CASE PublishBatch(r)
  <2>1. metrics' \in [version : Nat, rows : [Orders -> Time]]
    BY <1>0, <1>14 DEF PublishBatch, Jobs
  <2> QED BY <1>14, <2>1, GotoType DEF PublishBatch, TypeOK, Working
<1>15. CASE Finish(r)
  <2>1. CursorAfter(r) \in Cursors
    BY <1>0 DEF CursorAfter, Cursors, Jobs
  <2>2. PromotionAfter(r) \in {"blocked", "staging", "approved"}
    BY <1>0 DEF PromotionAfter, Jobs
  <2>3. /\ HasMore(r) \in BOOLEAN /\ Publishes(r) \in BOOLEAN
        /\ RefreshesHistory(r) \in BOOLEAN
    BY <1>0 DEF HasMore, Publishes, RefreshesHistory, Jobs, Cursors
  <2> DEFINE synced     == IF HasMore(r) THEN job[r].synced ELSE TRUE
             authorized == job[r].authorized /\ ~RefreshesHistory(r) /\ ~Publishes(r)
             reviewable == ~HasMore(r) /\ job[r].allResolved
  <2>f. synced \in BOOLEAN /\ authorized \in BOOLEAN /\ reviewable \in BOOLEAN
    BY <1>0, <2>3 DEF Jobs
  <2>c. conn' = [Released EXCEPT
                   !.cursor = CursorAfter(r), !.synced = synced,
                   !.promotion = PromotionAfter(r), !.authorized = authorized,
                   !.reviewable = reviewable]
    BY <1>15 DEF Finish
  <2> HIDE DEF synced, authorized, reviewable
  <2>4. conn' \in Connections
    BY <1>0, <2>1, <2>2, <2>f, <2>c DEF Released, Connections
  <2> QED BY <1>15, <2>4, EndType DEF Finish, TypeOK, Over
<1>16. CASE Throw(r)
  <2>1. staged' \in [Orders -> [Versions -> Nat]]
    BY <1>0, <1>16, StagedType DEF Throw, Jobs
  <2> QED BY <1>16, <2>1, GotoType DEF Throw, TypeOK, Ending
<1>17. CASE Demote(r)
  <2>1. conn' \in Connections
    BY <1>17 DEF Demote, TypeOK, Connections
  <2> QED BY <1>17, <2>1, GotoType DEF Demote, TypeOK, Ending
<1>18. CASE ReleaseLease(r)
  <2>1. conn' \in Connections
    BY <1>18 DEF ReleaseLease, Released, TypeOK, Connections
  <2> QED BY <1>18, <2>1, EndType DEF ReleaseLease, TypeOK, Over
<1>19. CASE Crash(r)
  <2>1. staged' \in [Orders -> [Versions -> Nat]]
    BY <1>0, <1>19, StagedType DEF Crash, Jobs
  <2> QED BY <1>19, <2>1, EndType DEF Crash, TypeOK, Over
<1> QED
  BY <1>1, <1>2, <1>3, <1>4, <1>5, <1>6, <1>7, <1>8, <1>9, <1>10, <1>11, <1>12,
     <1>13, <1>14, <1>15, <1>16, <1>17, <1>18, <1>19 DEF Attempt

LEMMA EnvironmentType ==
  ASSUME TypeOK, Environment
  PROVE  TypeOK'
<1> USE DEF provider, owned, staging, attempts
<1>1. CASE Expire
  BY <1>1 DEF Expire, TypeOK, Connections
<1>2. CASE \E o \in Orders : UpdateOrder(o)
  BY <1>2, BoundAssumption DEF UpdateOrder, TypeOK
<1>3. CASE \E l \in Locations, s \in MappingChoices : MapLocation(l, s)
  BY <1>3, ChoicesAssumption DEF MapLocation, TypeOK, Statuses
<1>4. CASE ExcludeData
  BY <1>4 DEF ExcludeData, TypeOK, Connections
<1>5. CASE ClearExpiredLease
  BY <1>5 DEF ClearExpiredLease, Released, TypeOK, Connections
<1>6. CASE ApproveData
  BY <1>6 DEF ApproveData, TypeOK, Connections
<1>7. CASE DeleteSecret
  BY <1>7 DEF DeleteSecret, TypeOK
<1>8. CASE Disconnect
  BY <1>8 DEF Disconnect, TypeOK, Connections
<1> QED BY <1>1, <1>2, <1>3, <1>4, <1>5, <1>6, <1>7, <1>8 DEF Environment

LEMMA TypeStep == ASSUME TypeOK, [Next]_vars PROVE TypeOK'
<1>1. CASE \E r \in Runs : Attempt(r) BY <1>1, AttemptType
<1>2. CASE Environment BY <1>2, EnvironmentType
<1>3. CASE UNCHANGED vars
  BY <1>3 DEF vars, provider, owned, staging, attempts, TypeOK
<1> QED BY <1>1, <1>2, <1>3 DEF Next

\* Every row and every local of every attempt has its type: in particular page
\* tokens and window bounds stay within the time that has passed.
THEOREM Typing == Spec => []TypeOK
<1>1. TypeOK /\ [Next]_vars => TypeOK' BY TypeStep
<1> QED BY <1>1, InitType, PTL DEF Spec
-----------------------------------------------------------------------------
(***************************************************************************)
(* The lease.                                                              *)
(***************************************************************************)
LeaseInv == TypeOK /\ OwnersAtWork /\ OnePublicationPerTerm

LEMMA LeaseInit == Init => LeaseInv
<1> SUFFICES ASSUME Init PROVE LeaseInv OBVIOUS
<1>1. TypeOK BY InitType
<1>2. conn.owner = NoRun
  <2>1. NewConnection.owner = NoRun /\ EstablishedConnection.owner = NoRun
    BY DEF NewConnection, EstablishedConnection
  <2> QED BY <2>1 DEF Init
<1>3. \A r \in Runs : pc[r] = "idle" BY DEF Init
<1>4. OwnersAtWork BY <1>2, <1>3, NoRunAssumption DEF OwnersAtWork, Working, Ending
<1>5. OnePublicationPerTerm
  BY <1>1, <1>3 DEF Init, OnePublicationPerTerm, Working, TypeOK, Connections
<1> QED BY <1>1, <1>4, <1>5 DEF LeaseInv

\* An attempt moves alone.
LEMMA OthersStay ==
  ASSUME TypeOK, NEW r \in Runs, Attempt(r), NEW q \in Runs, q # r
  PROVE  pc'[q] = pc[q] /\ job'[q] = job[q]
BY DEF TypeOK, Attempt, Goto, End, attempts,
   AcquireLease, ReadConnection, Coalesce, StageHistory, ReadMappings, RefreshToken, SaveToken,
   FetchPage, RenewBeforeWrite, WriteStaging, SkipPublication, RenewBeforePublish, BuildRows,
   PublishBatch, Finish, Throw, Demote, ReleaseLease, Crash

\* What a step other than the acquisition does to the lease.
LeaseEffect(r) ==
  /\ conn'.version = conn.version
  /\ \/ conn'.owner = conn.owner /\ conn'.live = conn.live
     \/ conn.owner = r /\ conn'.owner = NoRun /\ conn'.live = FALSE
  /\ \/ /\ pc[r] \in {"idle", "read"} /\ pc'[r] \in {"read", "done"}
        /\ UNCHANGED <<conn, metrics>>
     \/ /\ pc[r] \in Working \cup Ending /\ pc'[r] \in (Working \ {"finish"}) \cup Ending
        /\ pc'[r] \in Working => pc[r] \in Working \ {"finish"}
        /\ job'[r].ticket = job[r].ticket /\ UNCHANGED metrics
     \/ /\ pc[r] \in Working /\ pc'[r] = "finish"
        /\ job'[r].ticket = job[r].ticket
        /\ \/ UNCHANGED metrics
           \/ pc[r] = "publish" /\ MayPublish(r) /\ conn' = conn /\ metrics'.version = job[r].ticket
     \/ /\ pc[r] \in Working \cup Ending /\ pc'[r] = "crashed" /\ UNCHANGED metrics
     \/ pc'[r] = "done" /\ conn'.owner # r /\ UNCHANGED metrics

LEMMA AttemptOnLease ==
  ASSUME TypeOK, OwnersAtWork, NEW r \in Runs, Attempt(r), ~AcquireLease(r)
  PROVE  LeaseEffect(r)
<1> USE DEF LeaseEffect, provider, owned, staging, attempts
<1>0. /\ job \in [Runs -> Jobs] /\ job[r] \in Jobs
      /\ pc \in [Runs -> {"idle", "read"} \cup Working \cup Ending \cup Over]
      /\ conn \in Connections
  BY DEF TypeOK
<1> USE DEF Jobs, Connections
<1>1. CASE ReadConnection(r)
  BY <1>0, <1>1, NoRunAssumption DEF ReadConnection, Goto, Working, Ending
<1>2. CASE Coalesce(r)
  BY <1>0, <1>2, NoRunAssumption DEF Coalesce, Goto, Working, Ending, End
<1>3. CASE StageHistory(r)
  BY <1>0, <1>3, NoRunAssumption DEF StageHistory, Goto, Working, Ending, Holds
<1>4. CASE ReadMappings(r)
  BY <1>0, <1>4, NoRunAssumption DEF ReadMappings, Goto, Working, Ending
<1>5. CASE RefreshToken(r)
  BY <1>0, <1>5, NoRunAssumption DEF RefreshToken, Goto, Working, Ending
<1>6. CASE SaveToken(r)
  BY <1>0, <1>6, NoRunAssumption DEF SaveToken, Goto, Working, Ending
<1>7. CASE FetchPage(r)
  <2>2. job'[r].ticket = job[r].ticket BY <1>0, <1>7, FetchedPage
  <2> QED BY <1>0, <1>7, <2>2 DEF FetchPage, Goto, Working, Ending
<1>8. CASE RenewBeforeWrite(r)
  BY <1>0, <1>8, NoRunAssumption DEF RenewBeforeWrite, Goto, Working, Ending
<1>9. CASE WriteStaging(r)
  BY <1>0, <1>9, NoRunAssumption DEF WriteStaging, Goto, Working, Ending
<1>10. CASE SkipPublication(r)
  BY <1>0, <1>10, NoRunAssumption DEF SkipPublication, Goto, Working, Ending
<1>11. CASE RenewBeforePublish(r)
  BY <1>0, <1>11, NoRunAssumption DEF RenewBeforePublish, Goto, Working, Ending
<1>12. CASE BuildRows(r)
  BY <1>0, <1>12, NoRunAssumption DEF BuildRows, Goto, Working, Ending
<1>13. CASE PublishBatch(r)
  BY <1>0, <1>13, NoRunAssumption DEF PublishBatch, Goto, Working, Ending, MayPublish, CanRenew
<1>14. CASE Finish(r)
  <2>1. PICK cursor, synced, promotion, authorized, reviewable :
          conn' = [Released EXCEPT !.cursor = cursor, !.synced = synced,
                     !.promotion = promotion, !.authorized = authorized,
                     !.reviewable = reviewable]
    BY <1>14 DEF Finish
  <2>2. conn'.owner = NoRun /\ conn'.version = conn.version /\ conn'.live = FALSE
    BY <1>0, <2>1 DEF Released
  <2>3. pc'[r] = "done" BY <1>0, <1>14 DEF Finish, Goto, End
  <2> QED BY <1>14, <2>2, <2>3, NoRunAssumption DEF Finish, Holds
<1>15. CASE Throw(r)
  BY <1>0, <1>15, NoRunAssumption DEF Throw, Goto, Working, Ending
<1>16. CASE Demote(r)
  BY <1>0, <1>16, NoRunAssumption DEF Demote, Goto, Working, Ending, Holds
<1>17. CASE ReleaseLease(r)
  BY <1>0, <1>17, NoRunAssumption DEF ReleaseLease, Goto, Working, Ending, Released, End, OwnersAtWork, Holds, Over
<1>18. CASE Crash(r)
  BY <1>0, <1>18, NoRunAssumption DEF Crash, Goto, Working, Ending, End
<1> QED BY <1>1, <1>2, <1>3, <1>4, <1>5, <1>6, <1>7, <1>8, <1>9, <1>10, <1>11, <1>12, <1>13, <1>14, <1>15, <1>16, <1>17, <1>18 DEF Attempt

LEMMA EnvironmentOnLease ==
  ASSUME TypeOK, Environment
  PROVE  /\ UNCHANGED <<pc, job, metrics>>
         /\ conn'.version = conn.version
         /\ \/ conn'.owner = conn.owner /\ conn'.live = conn.live
            \/ conn'.owner = conn.owner /\ LeaseActive /\ conn'.live = FALSE
            \/ conn'.owner = NoRun /\ conn'.live = FALSE
<1> USE DEF attempts, TypeOK, Connections
<1>1. CASE Expire BY <1>1 DEF Expire
<1>2. CASE \E o \in Orders : UpdateOrder(o) BY <1>2 DEF UpdateOrder
<1>3. CASE \E l \in Locations, s \in MappingChoices : MapLocation(l, s)
  BY <1>3 DEF MapLocation
<1>4. CASE ExcludeData BY <1>4 DEF ExcludeData
<1>5. CASE ClearExpiredLease BY <1>5 DEF ClearExpiredLease, Released
<1>6. CASE ApproveData BY <1>6 DEF ApproveData
<1>7. CASE DeleteSecret BY <1>7 DEF DeleteSecret
<1>8. CASE Disconnect BY <1>8 DEF Disconnect
<1> QED BY <1>1, <1>2, <1>3, <1>4, <1>5, <1>6, <1>7, <1>8 DEF Environment

\* Nobody comes to hold the lease by what another attempt does, or by the owner.
LEMMA OthersHold ==
  ASSUME LeaseInv, NEW r \in Runs, Attempt(r), NEW q \in Runs, q # r, Holds(q)'
  PROVE  Holds(q)
<1>1. pc'[q] = pc[q] /\ job'[q] = job[q] BY OthersStay DEF LeaseInv
<1>2. CASE AcquireLease(r)
  BY <1>2 DEF AcquireLease, Holds, LeaseInv, TypeOK, Connections
<1>3. CASE ~AcquireLease(r)
  <2>1. LeaseEffect(r) BY <1>3, AttemptOnLease DEF LeaseInv
  <2> QED BY <1>1, <2>1, NoRunAssumption DEF LeaseEffect, Holds
<1> QED BY <1>2, <1>3

LEMMA EnvironmentHolds ==
  ASSUME LeaseInv, Environment, NEW q \in Runs, Holds(q)'
  PROVE  Holds(q)
<1>1. /\ UNCHANGED job /\ conn'.version = conn.version
      /\ conn'.owner = conn.owner \/ conn'.owner = NoRun
  BY EnvironmentOnLease DEF LeaseInv
<1> QED BY <1>1, NoRunAssumption DEF Holds

LEMMA LeaseStep == ASSUME LeaseInv, [Next]_vars PROVE LeaseInv'
<1> USE DEF LeaseInv
<1>t. TypeOK' BY TypeStep
<1>0. conn.version \in Nat /\ metrics.version \in Nat
  BY DEF TypeOK, Connections
<1>1. ASSUME NEW r \in Runs, AcquireLease(r) PROVE LeaseInv'
  <2>1. \A q \in Runs \ {r} : pc'[q] = pc[q] /\ job'[q] = job[q]
    BY <1>1, OthersStay DEF Attempt
  <2>2. /\ conn'.owner = r /\ conn'.version = conn.version + 1
        /\ metrics' = metrics
        /\ pc'[r] \in Working /\ job'[r].ticket = conn.version + 1
    BY <1>1 DEF AcquireLease, Goto, TypeOK, Connections, Jobs, Working, staging
  <2>3. OwnersAtWork'
    BY <1>0, <2>1, <2>2 DEF OwnersAtWork
  <2>4. OnePublicationPerTerm'
    BY <1>0, <2>1, <2>2 DEF OnePublicationPerTerm, Holds
  <2> QED BY <1>t, <2>3, <2>4
<1>2. ASSUME NEW r \in Runs, Attempt(r), ~AcquireLease(r) PROVE LeaseInv'
  <2>1. \A q \in Runs \ {r} : pc'[q] = pc[q] /\ job'[q] = job[q]
    BY <1>2, OthersStay
  <2>2. LeaseEffect(r) BY <1>2, AttemptOnLease
  <2>3. OwnersAtWork'
    BY <1>0, <2>1, <2>2, NoRunAssumption DEF OwnersAtWork, LeaseEffect, Working, Ending
  <2>4. OnePublicationPerTerm'
    BY <1>0, <2>1, <2>2, NoRunAssumption DEF OnePublicationPerTerm, LeaseEffect, Holds,
       CanRenew, MayPublish, OwnersAtWork, Working, Ending
  <2> QED BY <1>t, <2>3, <2>4
<1>3. CASE Environment
  <2>1. UNCHANGED <<pc, job, metrics>>
    BY <1>3, EnvironmentOnLease
  <2>2. conn'.version = conn.version /\ conn'.owner \in {conn.owner, NoRun}
    BY <1>3, EnvironmentOnLease
  <2>3. OwnersAtWork'
    BY <2>1, <2>2, NoRunAssumption DEF OwnersAtWork
  <2>4. OnePublicationPerTerm'
    BY <2>1, <2>2, NoRunAssumption DEF OnePublicationPerTerm, Holds
  <2> QED BY <1>t, <2>3, <2>4
<1>4. CASE UNCHANGED vars
  BY <1>4, <1>t DEF vars, attempts, OwnersAtWork, OnePublicationPerTerm, Holds
<1> QED BY <1>1, <1>2, <1>3, <1>4 DEF Next

\* An attempt that was not evicted leaves no lease behind, on any exit path: a
\* leaked lease would keep the connection from importing until it expired.
THEOREM LeaseNotLeaked == Spec => []NoLeakedLease
<1>1. LeaseInv /\ [Next]_vars => LeaseInv' BY LeaseStep
<1>2. LeaseInv => NoLeakedLease
  BY DEF LeaseInv, OwnersAtWork, NoLeakedLease, Working, Ending
<1> QED BY <1>1, <1>2, LeaseInit, PTL DEF Spec

\* Every way out of an attempt gives back both columns of the lease, and the
\* rows keep their types (the last updates and the finally block of sync/square.ts).
THEOREM LeasesComeBack == Spec => []LeasesAreReturned
<1>1. TypeOK /\ NoLeakedLease => LeasesAreReturned BY DEF LeasesAreReturned
<1> QED BY <1>1, Typing, LeaseNotLeaked, PTL

\* The lease follows the abstract specification: whoever publishes does so in
\* the term in force, once, and publications come in the order of the terms.
THEOREM ImportsAreFenced == Spec => FencedSpec
<1>1. Init => Fence!Init
  <2> SUFFICES ASSUME Init PROVE Fence!Init OBVIOUS
  <2>1. /\ NewConnection.owner = NoRun /\ EstablishedConnection.owner = NoRun
        /\ NewConnection.live = FALSE /\ EstablishedConnection.live = FALSE
        /\ NewConnection.version = 0 /\ EstablishedConnection.version = 1
    BY DEF NewConnection, EstablishedConnection
  <2> QED BY <2>1 DEF Init, Fence!Init
<1>2. ASSUME LeaseInv, [Next]_vars PROVE [Fence!Next]_(Fence!vars)
  <2> USE DEF Fence!Next, Fence!vars
  <2>0. /\ conn.version \in Nat /\ metrics.version \in Nat
        /\ conn.owner \in Runs \cup {NoRun} /\ conn.live \in BOOLEAN
    BY <1>2 DEF LeaseInv, TypeOK, Connections
  <2>1. ASSUME NEW r \in Runs, AcquireLease(r) PROVE Fence!Grant(r)
    BY <1>2, <2>1 DEF Fence!Grant, AcquireLease, LeaseActive, LeaseInv, TypeOK, Connections
  <2>2. ASSUME NEW r \in Runs, Attempt(r), ~AcquireLease(r)
        PROVE  Fence!Drop \/ Fence!Publish \/ UNCHANGED Fence!vars
    <3>1. LeaseEffect(r) BY <1>2, <2>2, AttemptOnLease DEF LeaseInv
    <3>2. CASE UNCHANGED metrics
      BY <3>1, <3>2 DEF LeaseEffect, Fence!Drop
    <3>3. CASE ~UNCHANGED metrics
      <4>1. /\ MayPublish(r) /\ conn' = conn /\ metrics'.version = job[r].ticket
            /\ pc[r] = "publish"
        BY <3>1, <3>3 DEF LeaseEffect
      <4>2. /\ conn.owner # NoRun /\ conn.live
            /\ metrics.version < conn.version /\ metrics'.version = conn.version
        BY <1>2, <4>1, NoRunAssumption DEF MayPublish, CanRenew, Holds, LeaseInv,
           OnePublicationPerTerm, Working
      <4> QED BY <4>1, <4>2 DEF Fence!Publish
    <3> QED BY <3>2, <3>3
  <2>3. CASE Environment
    BY <1>2, <2>3, EnvironmentOnLease DEF LeaseInv, LeaseActive, Fence!Drop, Fence!Lapse
  <2>4. CASE UNCHANGED vars BY <2>4 DEF vars
  <2> QED BY <1>2, <2>1, <2>2, <2>3, <2>4 DEF Next
<1> QED BY <1>1, <1>2, LeaseStep, LeaseInit, PTL DEF Spec, FencedSpec, Fence!Spec

\* What the abstract specification promises: the snapshot is never from a term
\* that was not granted, and publications come in the order of the terms.
THEOREM FenceHolds ==
  Fence!Spec => []Fence!PublishedInTerm /\ Fence!PublicationsInOrder
<1>1. Fence!Init => Fence!PublishedInTerm
  BY DEF Fence!Init, Fence!PublishedInTerm
<1>2. Fence!PublishedInTerm /\ [Fence!Next]_(Fence!vars) => Fence!PublishedInTerm'
  BY DEF Fence!PublishedInTerm, Fence!Next, Fence!Grant, Fence!Lapse, Fence!Drop,
         Fence!Publish, Fence!vars
<1>3. Fence!PublishedInTerm /\ [Fence!Next]_(Fence!vars)
        => [(metrics.version)' >= metrics.version]_(Fence!vars)
  BY DEF Fence!PublishedInTerm, Fence!Next, Fence!Grant, Fence!Lapse, Fence!Drop,
         Fence!Publish, Fence!vars
<1> QED BY <1>1, <1>2, <1>3, PTL DEF Fence!Spec, Fence!PublicationsInOrder

\* The same of the imports themselves: an attempt that lost the lease cannot
\* replace what a later attempt published.
THEOREM ImportsPublishInOrder ==
  Spec => []Fence!PublishedInTerm /\ Fence!PublicationsInOrder
BY ImportsAreFenced, FenceHolds DEF FencedSpec

\* Once the owner has disconnected the source, an import still in flight cannot
\* replace the published snapshot.
THEOREM NothingPublishedAfterDisconnect == Spec => DisconnectedNeverPublishes
<1>1. ASSUME LeaseInv, [Next]_vars, conn.status = "revoked" PROVE UNCHANGED metrics
  <2>1. ASSUME NEW r \in Runs, Attempt(r) PROVE UNCHANGED metrics
    <3>1. CASE AcquireLease(r) BY <3>1 DEF AcquireLease
    <3>2. CASE ~AcquireLease(r)
      <4>1. LeaseEffect(r) BY <1>1, <2>1, <3>2, AttemptOnLease DEF LeaseInv
      <4> QED BY <1>1, <4>1 DEF LeaseEffect, MayPublish
    <3> QED BY <3>1, <3>2
  <2>2. CASE Environment BY <1>1, <2>2, EnvironmentOnLease DEF LeaseInv
  <2>3. CASE UNCHANGED vars BY <2>3 DEF vars
  <2> QED BY <1>1, <2>1, <2>2, <2>3 DEF Next
<1>2. LeaseInv /\ [Next]_vars =>
        [conn.status = "revoked" => UNCHANGED metrics]_vars
  BY <1>1
<1>3. LeaseInv /\ [Next]_vars => LeaseInv' BY LeaseStep
<1> QED BY <1>2, <1>3, LeaseInit, PTL DEF Spec, DisconnectedNeverPublishes
-----------------------------------------------------------------------------
(***************************************************************************)
(* Approval.                                                               *)
(***************************************************************************)
ApprovalInv == LeaseInv /\ ApprovalsFollowPublication

LEMMA ApprovalInit == Init => ApprovalInv
<1> SUFFICES ASSUME Init PROVE ApprovalInv OBVIOUS
<1>1. conn.promotion = "approved" => metrics.version # 0
  <2>1. NewConnection.promotion = "staging" BY DEF NewConnection
  <2>2. EstablishedConnection.version = 1 BY DEF EstablishedConnection, NewConnection
  <2> QED BY <2>1, <2>2 DEF Init
<1>2. \A r \in Runs : pc[r] = "idle" /\ job[r].promotion = "staging"
  BY DEF Init, NoJob
<1> QED BY <1>1, <1>2, LeaseInit DEF ApprovalInv, ApprovalsFollowPublication

\* The published version never returns to zero.
LEMMA PublicationGrows ==
  ASSUME LeaseInv, [Next]_vars
  PROVE  metrics.version # 0 => metrics'.version # 0
<1>1. ASSUME NEW r \in Runs, Attempt(r) PROVE metrics.version # 0 => metrics'.version # 0
  <2>1. CASE AcquireLease(r) BY <2>1 DEF AcquireLease
  <2>2. CASE ~AcquireLease(r)
    <3>1. LeaseEffect(r) BY <1>1, <2>2, AttemptOnLease DEF LeaseInv
    <3>2. pc[r] = "publish" => job[r].ticket # 0
      BY DEF LeaseInv, OwnersAtWork, Working
    <3> QED BY <3>1, <3>2 DEF LeaseEffect
  <2> QED BY <2>1, <2>2
<1>2. CASE Environment BY <1>2, EnvironmentOnLease DEF LeaseInv
<1>3. CASE UNCHANGED vars BY <1>3 DEF vars
<1> QED BY <1>1, <1>2, <1>3 DEF Next

LEMMA ApprovalStep == ASSUME ApprovalInv, [Next]_vars PROVE ApprovalInv'
<1> USE DEF ApprovalInv, provider, owned, staging, attempts
<1>l. LeaseInv' BY LeaseStep
<1>p. metrics.version # 0 => metrics'.version # 0 BY PublicationGrows
<1>t. /\ job \in [Runs -> Jobs] /\ conn \in Connections
      /\ pc \in [Runs -> {"idle", "read"} \cup Working \cup Ending \cup Over]
  BY DEF LeaseInv, TypeOK
<1>1. ASSUME NEW r \in Runs, Attempt(r) PROVE ApprovalsFollowPublication'
  <2>1. \A q \in Runs \ {r} : pc'[q] = pc[q] /\ job'[q] = job[q]
    BY <1>1, OthersStay DEF LeaseInv
  <2>2. \A q \in Runs \ {r} :
          /\ job'[q].promotion = "approved" => metrics'.version # 0
          /\ pc'[q] \in {"build", "publish"} => Publishes(q)'
          /\ pc'[q] = "finish" /\ Publishes(q)' => metrics'.version # 0
    BY <1>p, <2>1 DEF ApprovalsFollowPublication, Publishes, RefreshesHistory, HasMore
  <2> DEFINE Own == /\ conn'.promotion = "approved" => metrics'.version # 0
                    /\ job'[r].promotion = "approved" => metrics'.version # 0
                    /\ pc'[r] \in {"build", "publish"} => Publishes(r)'
                    /\ pc'[r] = "finish" /\ Publishes(r)' => metrics'.version # 0
  <2>3. ASSUME Own PROVE ApprovalsFollowPublication'
    BY <2>2, <2>3 DEF ApprovalsFollowPublication
  <2>4. Own
    <3> USE DEF ApprovalsFollowPublication, Publishes, RefreshesHistory, HasMore, Jobs, Connections
    <3>1. CASE ReadConnection(r)
      BY <1>p, <1>t, <3>1 DEF ReadConnection, Goto
    <3>2. CASE AcquireLease(r)
      BY <1>p, <1>t, <3>2 DEF AcquireLease, Goto
    <3>3. CASE Coalesce(r)
      BY <1>p, <1>t, <3>3 DEF Coalesce, Goto, End, NoJob
    <3>4. CASE StageHistory(r)
      BY <1>p, <1>t, <3>4 DEF StageHistory, Goto
    <3>5. CASE ReadMappings(r)
      BY <1>p, <1>t, <3>5 DEF ReadMappings, Goto
    <3>6. CASE RefreshToken(r)
      BY <1>p, <1>t, <3>6 DEF RefreshToken, Goto
    <3>7. CASE SaveToken(r)
      BY <1>p, <1>t, <3>7 DEF SaveToken, Goto
    <3>8. CASE FetchPage(r)
      <4>2. job'[r].promotion = job[r].promotion
        BY <1>t, <3>8, FetchedPage DEF LeaseInv
      <4>3. pc'[r] = "renew" BY <3>8, FetchedPage DEF LeaseInv
      <4> QED BY <1>p, <3>8, <4>2, <4>3 DEF FetchPage
    <3>9. CASE RenewBeforeWrite(r)
      BY <1>p, <1>t, <3>9 DEF RenewBeforeWrite, Goto
    <3>10. CASE WriteStaging(r)
      BY <1>p, <1>t, <3>10 DEF WriteStaging, Goto
    <3>11. CASE SkipPublication(r)
      BY <1>p, <1>t, <3>11 DEF SkipPublication, Goto
    <3>12. CASE RenewBeforePublish(r)
      BY <1>p, <1>t, <3>12 DEF RenewBeforePublish, Goto
    <3>13. CASE BuildRows(r)
      BY <1>p, <1>t, <3>13 DEF BuildRows, Goto
    <3>14. CASE PublishBatch(r)
      <4>1. job[r].ticket # 0 BY <3>14 DEF PublishBatch, LeaseInv, OwnersAtWork, Working
      <4>2. metrics'.version # 0 BY <3>14, <4>1 DEF PublishBatch
      <4>3. pc'[r] = "finish" BY <1>t, <3>14 DEF PublishBatch, Goto
      <4> QED BY <1>t, <4>2, <4>3
    <3>15. CASE Finish(r)
      <4>1. PICK cursor, synced, authorized, reviewable :
              conn' = [Released EXCEPT !.cursor = cursor, !.synced = synced,
                         !.promotion = PromotionAfter(r), !.authorized = authorized,
                         !.reviewable = reviewable]
        BY <3>15 DEF Finish
      <4>2. conn'.promotion = PromotionAfter(r) BY <1>t, <4>1 DEF Released
      <4>3. PromotionAfter(r) = "approved" => metrics.version # 0
        BY <3>15 DEF Finish, PromotionAfter
      <4>4. pc'[r] = "done" /\ job'[r].promotion = "staging"
        BY <1>t, <3>15 DEF Finish, Goto, End, NoJob
      <4> QED BY <1>p, <4>2, <4>3, <4>4
    <3>16. CASE Throw(r)
      BY <1>p, <1>t, <3>16 DEF Throw, Goto
    <3>17. CASE Demote(r)
      BY <1>p, <1>t, <3>17 DEF Demote, Goto
    <3>18. CASE ReleaseLease(r)
      BY <1>p, <1>t, <3>18 DEF ReleaseLease, Goto, Released, End, NoJob
    <3>19. CASE Crash(r)
      BY <1>p, <1>t, <3>19 DEF Crash, Goto, End, NoJob
    <3> QED BY <1>1, <3>1, <3>2, <3>3, <3>4, <3>5, <3>6, <3>7, <3>8, <3>9, <3>10, <3>11, <3>12, <3>13, <3>14, <3>15, <3>16, <3>17, <3>18, <3>19 DEF Attempt
  <2> QED BY <2>3, <2>4
<1>2. CASE Environment
  <2>1. UNCHANGED <<pc, job, metrics>> BY <1>2, EnvironmentOnLease DEF LeaseInv
  <2>2. conn'.promotion = "approved" => conn.promotion = "approved"
    BY <1>2, <1>t DEF Environment, Expire, UpdateOrder, MapLocation, ExcludeData,
       ClearExpiredLease, ApproveData, DeleteSecret, Disconnect, Released, Connections
  <2> QED
    BY <1>l, <2>1, <2>2 DEF ApprovalsFollowPublication, Publishes, RefreshesHistory, HasMore
<1>3. CASE UNCHANGED vars
  BY <1>3, <1>l DEF vars, ApprovalsFollowPublication, Publishes, RefreshesHistory, HasMore
<1> QED BY <1>l, <1>1, <1>2, <1>3 DEF Next

\* Reports read the metrics of approved connections only, and an approved
\* connection has published: stale promotions read before the lease and failed
\* attempts never approve a source without a snapshot.
THEOREM ApprovalMeansSnapshot == Spec => []ApprovedMeansPublished
<1>1. ApprovalInv /\ [Next]_vars => ApprovalInv' BY ApprovalStep
<1>2. ApprovalInv => ApprovedMeansPublished
  BY DEF ApprovalInv, ApprovalsFollowPublication, ApprovedMeansPublished
<1> QED BY <1>1, <1>2, ApprovalInit, PTL DEF Spec
-----------------------------------------------------------------------------
(***************************************************************************)
(* Staging.                                                                *)
(***************************************************************************)
PageInv == LeaseInv /\ StampsFollowVersions /\ PagesAreCurrent

LEMMA PageInit == Init => PageInv
<1> SUFFICES ASSUME Init PROVE PageInv OBVIOUS
<1>1. /\ \A o \in Orders : updatedAt[o] = 0 /\ now = 0
      /\ \A o \in Orders : \A v \in Versions : staged[o][v] = 0
      /\ stamps = 0
      /\ \A r \in Runs : pc[r] = "idle" /\ job[r].got = {}
  BY DEF Init, NoJob
<1>2. StampsFollowVersions BY <1>1 DEF StampsFollowVersions, Stamped
<1>3. PagesAreCurrent BY <1>1 DEF PagesAreCurrent
<1> QED BY <1>2, <1>3, LeaseInit DEF PageInv

\* A step that fetches, stamps and stages nothing.
Quiet ==
  /\ UNCHANGED <<staged, stamps, updatedAt, now>>
  /\ \A r \in Runs :
       /\ job'[r].got = job[r].got \/ job'[r].got = {}
       /\ Stamped(r)' => Stamped(r) /\ job'[r].stamp = job[r].stamp
       /\ pc'[r] = "renew" /\ Holds(r)' => pc[r] = "renew" /\ Holds(r)

LEMMA QuietKeepsPages ==
  ASSUME PageInv, Quiet
  PROVE  StampsFollowVersions' /\ PagesAreCurrent'
<1> USE DEF PageInv, Quiet
<1>1. \A r \in Runs : \A x : x \in job'[r].got => x \in job[r].got
  OBVIOUS
<1>2. StampsFollowVersions' BY <1>1 DEF StampsFollowVersions
<1>3. PagesAreCurrent' BY <1>1 DEF PagesAreCurrent
<1> QED BY <1>2, <1>3

\* An attempt writes part of its page, and leaves.
LEMMA WritingKeepsPages ==
  ASSUME PageInv, NEW r \in Runs, Stamped(r), NEW part, part \subseteq job[r].got,
         staged' = StagedWith(part, job[r].stamp),
         UNCHANGED <<stamps, updatedAt, now, conn>>,
         pc'[r] \notin {"write", "renew"},
         job'[r].got = job[r].got \/ job'[r].got = {},
         \A q \in Runs \ {r} : pc'[q] = pc[q] /\ job'[q] = job[q]
  PROVE  StampsFollowVersions' /\ PagesAreCurrent'
<1> USE DEF PageInv
<1>1. \A o \in Orders : \A v \in Versions :
        staged'[o][v] = IF staged[o][v] = 0 /\ <<o, v>> \in part THEN job[r].stamp
                        ELSE staged[o][v]
  BY DEF StagedWith
<1>2. \A q \in Runs : Stamped(q)' =>
        /\ q # r /\ Stamped(q) /\ job'[q].stamp = job[q].stamp
        /\ job'[q].got = job[q].got
  BY DEF Stamped
<1>3. /\ job[r].stamp \in 1..stamps
      /\ stamps \in Nat
      /\ \A o \in Orders : \A v \in Versions : staged[o][v] \in Nat
  BY DEF StampsFollowVersions, LeaseInv, TypeOK
<1>4. StampsFollowVersions'
  <2>1. ASSUME NEW o \in Orders, NEW v \in Versions PROVE staged'[o][v] <= stamps'
    <3>1. staged[o][v] <= stamps BY DEF StampsFollowVersions
    <3>2. job[r].stamp <= stamps BY <1>3
    <3>3. staged'[o][v] = job[r].stamp \/ staged'[o][v] = staged[o][v] BY <1>1
    <3> QED BY <3>1, <3>2, <3>3
  <2>2. \A q \in Runs : Stamped(q)' => job'[q].stamp \in 1..stamps'
    BY <1>2 DEF StampsFollowVersions
  <2>3. ASSUME NEW o \in Orders, NEW v \in Versions, NEW w \in Versions, v < w
        PROVE  /\ staged'[o][v] # 0 /\ staged'[o][w] # 0 => staged'[o][v] < staged'[o][w]
               /\ \A q \in Runs : Stamped(q)' =>
                    /\ <<o, v>> \in job'[q].got /\ staged'[o][w] # 0 => job'[q].stamp < staged'[o][w]
                    /\ <<o, w>> \in job'[q].got /\ staged'[o][v] # 0 => staged'[o][v] < job'[q].stamp
                    /\ \A x \in Runs :
                         Stamped(x)' /\ <<o, v>> \in job'[q].got /\ <<o, w>> \in job'[x].got =>
                           job'[q].stamp < job'[x].stamp
    <3>1. ~(<<o, v>> \in job[r].got /\ <<o, w>> \in job[r].got)
      BY <2>3 DEF PagesAreCurrent
    <3>2. staged'[o][v] # 0 /\ staged'[o][w] # 0 => staged'[o][v] < staged'[o][w]
      BY <1>1, <1>3, <2>3, <3>1 DEF StampsFollowVersions
    <3>3. ASSUME NEW q \in Runs, Stamped(q)'
          PROVE  /\ <<o, v>> \in job'[q].got /\ staged'[o][w] # 0 => job'[q].stamp < staged'[o][w]
                 /\ <<o, w>> \in job'[q].got /\ staged'[o][v] # 0 => staged'[o][v] < job'[q].stamp
                 /\ \A x \in Runs :
                      Stamped(x)' /\ <<o, v>> \in job'[q].got /\ <<o, w>> \in job'[x].got =>
                        job'[q].stamp < job'[x].stamp
      BY <1>1, <1>2, <1>3, <2>3, <3>3 DEF StampsFollowVersions
    <3> QED BY <3>2, <3>3
  <2> QED BY <2>1, <2>2, <2>3 DEF StampsFollowVersions
<1>5. PagesAreCurrent'
  <2>1. \A q \in Runs : \A x : x \in job'[q].got => x \in job[q].got
    OBVIOUS
  <2>2. \A q \in Runs : pc'[q] = "renew" /\ Holds(q)' =>
          q # r /\ pc[q] = "renew" /\ Holds(q)
    BY DEF Holds
  <2>3. \A o \in Orders : \A v \in Versions :
          staged'[o][v] # 0 => staged[o][v] # 0 \/ <<o, v>> \in job[r].got
    BY <1>1
  <2>4. ASSUME NEW o \in Orders, NEW v \in Versions
        PROVE  /\ staged'[o][v] # 0 => v <= updatedAt'[o]
               /\ \A q \in Runs : <<o, v>> \in job'[q].got => v <= updatedAt'[o]
    BY <2>1, <2>3 DEF PagesAreCurrent
  <2>5. ASSUME NEW q \in Runs, pc'[q] = "renew", Holds(q)',
               NEW o \in Orders, NEW v \in Versions, NEW w \in Versions,
               <<o, v>> \in job'[q].got
        PROVE  /\ staged'[o][w] # 0 => w <= v
               /\ \A x \in Runs : Stamped(x)' /\ <<o, w>> \in job'[x].got => w <= v
    <3>1. q # r /\ pc[q] = "renew" /\ Holds(q) /\ <<o, v>> \in job[q].got
      BY <2>1, <2>2, <2>5
    <3>2. staged'[o][w] # 0 => w <= v
      BY <2>3, <3>1 DEF PagesAreCurrent
    <3>3. ASSUME NEW x \in Runs, Stamped(x)', <<o, w>> \in job'[x].got PROVE w <= v
      BY <1>2, <2>1, <3>1, <3>3 DEF PagesAreCurrent
    <3> QED BY <3>2, <3>3
  <2>6. /\ \A o \in Orders : updatedAt'[o] <= now'
        /\ \A q \in Runs, o \in Orders : \A v, w \in Versions :
             <<o, v>> \in job'[q].got /\ <<o, w>> \in job'[q].got => v = w
    BY <2>1 DEF PagesAreCurrent
  <2> QED BY <2>4, <2>5, <2>6 DEF PagesAreCurrent
<1> QED BY <1>4, <1>5

LEMMA FetchingKeepsPages ==
  ASSUME PageInv, NEW r \in Runs, FetchPage(r)
  PROVE  StampsFollowVersions' /\ PagesAreCurrent'
<1> USE DEF PageInv, provider, owned, staging
<1>0. TypeOK BY DEF LeaseInv
<1>1. \A q \in Runs \ {r} : pc'[q] = pc[q] /\ job'[q] = job[q]
  BY <1>0, OthersStay DEF Attempt
<1>2. UNCHANGED <<staged, stamps, updatedAt, now, conn>> BY DEF FetchPage
<1>3. pc'[r] = "renew" /\ job'[r].ticket = job[r].ticket
  BY <1>0, FetchedPage
<1>4. \A o \in Orders : \A v \in Versions :
        <<o, v>> \in job'[r].got => v = updatedAt[o]
  BY <1>0, FetchedPage
<1>5. \A q \in Runs : Stamped(q)' => q # r /\ Stamped(q) /\ job'[q] = job[q]
  BY <1>1, <1>3 DEF Stamped
<1>6. StampsFollowVersions' BY <1>2, <1>5 DEF StampsFollowVersions
<1>7. PagesAreCurrent'
  <2>1. ASSUME NEW q \in Runs, NEW o \in Orders, NEW v \in Versions, NEW w \in Versions,
               <<o, v>> \in job'[q].got, <<o, w>> \in job'[q].got
        PROVE  v = w
    BY <1>1, <1>4, <2>1 DEF PagesAreCurrent
  <2>2. ASSUME NEW q \in Runs, NEW o \in Orders, NEW v \in Versions, <<o, v>> \in job'[q].got
        PROVE  v <= updatedAt[o]
    <3>1. updatedAt[o] \in Nat BY <1>0, BoundAssumption DEF TypeOK
    <3>2. CASE q = r BY <1>4, <2>2, <3>1, <3>2
    <3>3. CASE q # r BY <1>1, <2>2, <3>3 DEF PagesAreCurrent
    <3> QED BY <3>2, <3>3
  <2>3. ASSUME NEW q \in Runs, pc'[q] = "renew", Holds(q)',
               NEW o \in Orders, NEW v \in Versions, NEW w \in Versions,
               <<o, v>> \in job'[q].got
        PROVE  /\ staged'[o][w] # 0 => w <= v
               /\ \A x \in Runs : Stamped(x)' /\ <<o, w>> \in job'[x].got => w <= v
    <3>1. CASE q = r
      BY <1>2, <1>4, <1>5, <2>2, <2>3, <3>1 DEF PagesAreCurrent
    <3>2. CASE q # r
      BY <1>1, <1>2, <1>5, <2>3, <3>2 DEF PagesAreCurrent, Holds
    <3> QED BY <3>1, <3>2
  <2> QED BY <1>2, <2>1, <2>2, <2>3 DEF PagesAreCurrent
<1> QED BY <1>6, <1>7

LEMMA StampingKeepsPages ==
  ASSUME PageInv, NEW r \in Runs, RenewBeforeWrite(r)
  PROVE  StampsFollowVersions' /\ PagesAreCurrent'
<1> USE DEF PageInv, provider, owned, staging
<1>0. TypeOK BY DEF LeaseInv
<1>1. \A q \in Runs \ {r} : pc'[q] = pc[q] /\ job'[q] = job[q]
  BY <1>0, OthersStay DEF Attempt
<1>2. /\ UNCHANGED <<staged, updatedAt, now, conn>>
      /\ stamps' = stamps + 1 /\ stamps \in Nat
      /\ pc[r] = "renew" /\ Holds(r)
  BY <1>0 DEF RenewBeforeWrite, CanRenew, TypeOK
<1>3. /\ pc'[r] = "write" /\ job'[r].stamp = stamps + 1 /\ job'[r].got = job[r].got
  BY <1>0 DEF RenewBeforeWrite, Goto, TypeOK, Jobs
<1>4. \A q \in Runs : job'[q].got = job[q].got BY <1>1, <1>3
<1>5. \A q \in Runs : Stamped(q)' =>
        \/ q = r
        \/ q # r /\ Stamped(q) /\ job'[q].stamp = job[q].stamp
  BY <1>1 DEF Stamped
<1>6. \A o \in Orders : \A v \in Versions : staged[o][v] \in Nat
  BY <1>0 DEF TypeOK
<1>7. StampsFollowVersions'
  <2>1. \A o \in Orders : \A v \in Versions : staged'[o][v] <= stamps'
    BY <1>2, <1>6 DEF StampsFollowVersions
  <2>2. \A q \in Runs : Stamped(q)' => job'[q].stamp \in 1..stamps'
    BY <1>2, <1>3, <1>5 DEF StampsFollowVersions
  <2>3. ASSUME NEW o \in Orders, NEW v \in Versions, NEW w \in Versions, v < w,
               NEW q \in Runs, Stamped(q)'
        PROVE  /\ <<o, v>> \in job'[q].got /\ staged'[o][w] # 0 => job'[q].stamp < staged'[o][w]
               /\ <<o, w>> \in job'[q].got /\ staged'[o][v] # 0 => staged'[o][v] < job'[q].stamp
               /\ \A x \in Runs :
                    Stamped(x)' /\ <<o, v>> \in job'[q].got /\ <<o, w>> \in job'[x].got =>
                      job'[q].stamp < job'[x].stamp
    <3>1. <<o, v>> \in job[r].got =>
            /\ staged[o][w] = 0
            /\ \A x \in Runs : Stamped(x) => <<o, w>> \notin job[x].got
            /\ <<o, w>> \notin job[r].got
      BY <1>2, <2>3 DEF PagesAreCurrent
    <3>2. <<o, v>> \in job'[q].got /\ staged'[o][w] # 0 => job'[q].stamp < staged'[o][w]
      <4>1. CASE q = r BY <1>2, <1>4, <3>1, <4>1
      <4>2. CASE q # r
        BY <1>2, <1>4, <1>5, <2>3, <4>2 DEF StampsFollowVersions
      <4> QED BY <4>1, <4>2
    <3>3. <<o, w>> \in job'[q].got /\ staged'[o][v] # 0 => staged'[o][v] < job'[q].stamp
      <4>1. CASE q = r
        <5>1. staged[o][v] <= stamps /\ staged[o][v] \in Nat
          BY <1>6 DEF StampsFollowVersions
        <5> QED BY <1>2, <1>3, <4>1, <5>1
      <4>2. CASE q # r
        BY <1>2, <1>4, <1>5, <2>3, <4>2 DEF StampsFollowVersions
      <4> QED BY <4>1, <4>2
    <3>4. ASSUME NEW x \in Runs, Stamped(x)', <<o, v>> \in job'[q].got, <<o, w>> \in job'[x].got
          PROVE  job'[q].stamp < job'[x].stamp
      <4>1. CASE q = r BY <1>4, <1>5, <3>1, <3>4, <4>1
      <4>2. CASE q # r
        BY <1>2, <1>3, <1>4, <1>5, <2>3, <3>4, <4>2 DEF StampsFollowVersions
      <4> QED BY <4>1, <4>2
    <3> QED BY <3>2, <3>3, <3>4
  <2>4. \A o \in Orders : \A v, w \in Versions : v < w =>
          (staged'[o][v] # 0 /\ staged'[o][w] # 0 => staged'[o][v] < staged'[o][w])
    BY <1>2 DEF StampsFollowVersions
  <2> QED BY <2>1, <2>2, <2>3, <2>4 DEF StampsFollowVersions
<1>8. PagesAreCurrent'
  <2>1. \A q \in Runs : pc'[q] = "renew" /\ Holds(q)' =>
          q # r /\ pc[q] = "renew" /\ conn.owner = q
    BY <1>1, <1>2, <1>3 DEF Holds
  <2>2. \A q \in Runs : ~(pc'[q] = "renew" /\ Holds(q)')
    BY <1>2, <2>1 DEF Holds
  <2> QED BY <1>2, <1>4, <2>2 DEF PagesAreCurrent
<1> QED BY <1>7, <1>8

\* Actions of an attempt that leave provider and staging alone.
LEMMA QuietAttempt ==
  ASSUME PageInv, NEW r \in Runs, Attempt(r),
         ~FetchPage(r), ~RenewBeforeWrite(r), ~WriteStaging(r), ~Throw(r), ~Crash(r)
  PROVE  Quiet
<1> USE DEF provider, owned, staging, attempts, Jobs, Connections
<1>t. /\ job \in [Runs -> Jobs] /\ conn \in Connections
      /\ pc \in [Runs -> {"idle", "read"} \cup Working \cup Ending \cup Over]
  BY DEF PageInv, LeaseInv, TypeOK
<1>1. \A q \in Runs \ {r} : pc'[q] = pc[q] /\ job'[q] = job[q]
  BY OthersStay DEF PageInv, LeaseInv
<1>2. /\ UNCHANGED <<staged, stamps, updatedAt, now>>
      /\ pc'[r] \notin {"write", "renew"}
      /\ job'[r].got = job[r].got \/ job'[r].got = {}
    <3>1. CASE ReadConnection(r)
      BY <1>t, <3>1 DEF ReadConnection, Goto
    <3>2. CASE AcquireLease(r)
      BY <1>t, <3>2 DEF AcquireLease, Goto
    <3>3. CASE Coalesce(r)
      BY <1>t, <3>3 DEF Coalesce, Goto, End, NoJob
    <3>4. CASE StageHistory(r)
      BY <1>t, <3>4 DEF StageHistory, Goto
    <3>5. CASE ReadMappings(r)
      BY <1>t, <3>5 DEF ReadMappings, Goto
    <3>6. CASE RefreshToken(r)
      BY <1>t, <3>6 DEF RefreshToken, Goto
    <3>7. CASE SaveToken(r)
      BY <1>t, <3>7 DEF SaveToken, Goto
    <3>8. CASE SkipPublication(r)
      BY <1>t, <3>8 DEF SkipPublication, Goto
    <3>9. CASE RenewBeforePublish(r)
      BY <1>t, <3>9 DEF RenewBeforePublish, Goto
    <3>10. CASE BuildRows(r)
      BY <1>t, <3>10 DEF BuildRows, Goto
    <3>11. CASE PublishBatch(r)
      BY <1>t, <3>11 DEF PublishBatch, Goto
    <3>12. CASE Finish(r)
      BY <1>t, <3>12 DEF Finish, Goto, End, NoJob
    <3>13. CASE Demote(r)
      BY <1>t, <3>13 DEF Demote, Goto
    <3>14. CASE ReleaseLease(r)
      BY <1>t, <3>14 DEF ReleaseLease, Goto, End, NoJob
    <3> QED BY <3>1, <3>2, <3>3, <3>4, <3>5, <3>6, <3>7, <3>8, <3>9, <3>10, <3>11, <3>12, <3>13, <3>14 DEF Attempt
<1>3. ASSUME NEW q \in Runs, q # r, Holds(q)' PROVE Holds(q)
  BY <1>3, OthersHold DEF PageInv
<1> QED BY <1>1, <1>2, <1>3 DEF Quiet, Stamped

LEMMA PageStep == ASSUME PageInv, [Next]_vars PROVE PageInv'
<1> USE DEF PageInv
<1>l. LeaseInv' BY LeaseStep
<1>t. TypeOK BY DEF LeaseInv
<1>1. ASSUME NEW r \in Runs, Attempt(r) PROVE StampsFollowVersions' /\ PagesAreCurrent'
  <2>0. \A q \in Runs \ {r} : pc'[q] = pc[q] /\ job'[q] = job[q]
    BY <1>1, <1>t, OthersStay
  <2>1. CASE FetchPage(r) BY <2>1, FetchingKeepsPages
  <2>2. CASE RenewBeforeWrite(r) BY <2>2, StampingKeepsPages
  <2>3. CASE WriteStaging(r)
    <3>1. /\ Stamped(r) /\ staged' = StagedWith(job[r].got, job[r].stamp)
          /\ UNCHANGED <<stamps, updatedAt, now, conn>>
          /\ pc'[r] = "decide" /\ job' = job
      BY <1>t, <2>3 DEF WriteStaging, Stamped, Goto, TypeOK, provider, staging
    <3> QED BY <2>0, <3>1, WritingKeepsPages
  <2>4. CASE Throw(r) \/ Crash(r)
    <3>1. PICK part \in Written(r) : staged' = StagedWith(part, job[r].stamp)
      BY <2>4 DEF Throw, Crash
    <3>2. /\ UNCHANGED <<stamps, updatedAt, now, conn>>
          /\ pc'[r] \in {"catch", "crashed"}
          /\ job'[r].got = job[r].got \/ job'[r].got = {}
      BY <1>t, <2>4 DEF Throw, Crash, Goto, End, NoJob, TypeOK, provider, staging
    <3>3. CASE Stamped(r)
      <4>1. part \subseteq job[r].got BY <3>3 DEF Written, Stamped
      <4> QED BY <2>0, <3>1, <3>2, <3>3, <4>1, WritingKeepsPages
    <3>4. CASE ~Stamped(r)
      <4>1. staged' = staged
        BY <1>t, <3>1, <3>4 DEF Written, Stamped, StagedWith, TypeOK
      <4>2. Quiet
        BY <2>0, <3>2, <4>1 DEF Quiet, Stamped, Holds
      <4> QED BY <4>2, QuietKeepsPages
    <3> QED BY <3>3, <3>4
  <2> QED BY <1>1, <2>1, <2>2, <2>3, <2>4, QuietAttempt, QuietKeepsPages
<1>2. CASE \E o \in Orders : UpdateOrder(o)
  <2>1. PICK o \in Orders : UpdateOrder(o) BY <1>2
  <2>2. /\ UNCHANGED <<staged, stamps, pc, job, conn>>
        /\ now' = now + 1 /\ updatedAt' = [updatedAt EXCEPT ![o] = now + 1]
    BY <2>1 DEF UpdateOrder, staging, attempts
  <2>3. \A p \in Orders : updatedAt[p] <= updatedAt'[p] /\ updatedAt'[p] <= now'
    BY <1>t, <2>2, BoundAssumption DEF PagesAreCurrent, TypeOK
  <2>4. StampsFollowVersions' BY <2>2 DEF StampsFollowVersions, Stamped
  <2>5. \A p \in Orders : updatedAt[p] \in Nat /\ updatedAt'[p] \in Nat
    BY <1>t, <1>l, BoundAssumption DEF LeaseInv, TypeOK
  <2>6. PagesAreCurrent'
    <3>1. \A q \in Runs : /\ job'[q] = job[q] /\ pc'[q] = pc[q]
                          /\ Stamped(q)' = Stamped(q) /\ Holds(q)' = Holds(q)
      BY <2>2 DEF Stamped, Holds
    <3>2. ASSUME NEW p \in Orders, NEW v \in Versions
          PROVE  /\ staged'[p][v] # 0 => v <= updatedAt'[p]
                 /\ \A r \in Runs : <<p, v>> \in job'[r].got => v <= updatedAt'[p]
      BY <2>2, <2>3, <2>5 DEF PagesAreCurrent
    <3> QED BY <2>2, <2>3, <3>1, <3>2 DEF PagesAreCurrent
  <2> QED BY <1>l, <2>4, <2>6
<1>3. CASE Environment /\ ~\E o \in Orders : UpdateOrder(o)
  <2>1. UNCHANGED <<staged, stamps, updatedAt, now>>
    BY <1>3 DEF Environment, Expire, MapLocation, ExcludeData, ClearExpiredLease,
       ApproveData, DeleteSecret, Disconnect, provider, staging
  <2>2. Quiet
    <3>1. /\ UNCHANGED <<pc, job>> /\ conn'.version = conn.version
          /\ conn'.owner = conn.owner \/ conn'.owner = NoRun
      BY <1>3, <1>t, EnvironmentOnLease
    <3>2. \A q \in Runs : Holds(q)' => Holds(q)
      BY <3>1, NoRunAssumption DEF Holds
    <3>3. \A q \in Runs : Stamped(q)' => Stamped(q) BY <3>1 DEF Stamped
    <3> QED BY <2>1, <3>1, <3>2, <3>3 DEF Quiet
  <2> QED BY <1>l, <2>2, QuietKeepsPages
<1>4. CASE UNCHANGED vars
  <2>1. UNCHANGED <<staged, stamps, updatedAt, now, pc, job, conn>>
    BY <1>4 DEF vars, provider, staging, attempts
  <2>2. \A q \in Runs : Holds(q)' = Holds(q) /\ Stamped(q)' = Stamped(q)
    BY <2>1 DEF Holds, Stamped
  <2>3. Quiet BY <2>1, <2>2 DEF Quiet
  <2> QED BY <1>l, <2>3, QuietKeepsPages
<1> QED BY <1>l, <1>1, <1>2, <1>3, <1>4 DEF Next

\* Writes to staging never check the lease, yet a superseded attempt cannot make
\* an older version of an order outrank a newer one.
THEOREM NewestVersionOutranks == Spec => []NewestVersionWins
<1>1. PageInv /\ [Next]_vars => PageInv' BY PageStep
<1>2. PageInv => NewestVersionWins
  BY DEF PageInv, StampsFollowVersions, NewestVersionWins
<1> QED BY <1>1, <1>2, PageInit, PTL DEF Spec
-----------------------------------------------------------------------------
(***************************************************************************)
(* Publication.                                                            *)
(***************************************************************************)
SnapshotInv == PageInv /\ SnapshotsAreStaged

LEMMA SnapshotInit == Init => SnapshotInv
<1> SUFFICES ASSUME Init PROVE SnapshotInv OBVIOUS
<1>1. \A o \in Orders : metrics.rows[o] = 0 BY DEF Init, NoRows
<1>2. \A r \in Runs : pc[r] = "idle" BY DEF Init
<1> QED BY <1>1, <1>2, PageInit DEF SnapshotInv, SnapshotsAreStaged

\* A staged row stays as it is.
LEMMA StagingIsKept ==
  ASSUME TypeOK, [Next]_vars, NEW o \in Orders, NEW v \in Versions, staged[o][v] # 0
  PROVE  staged'[o][v] = staged[o][v]
<1> USE DEF staging
<1>1. ASSUME NEW part, NEW stamp, staged' = StagedWith(part, stamp)
      PROVE  staged'[o][v] = staged[o][v]
  BY <1>1 DEF StagedWith
<1>2. ASSUME NEW r \in Runs, Attempt(r) PROVE staged'[o][v] = staged[o][v]
  <2>1. CASE WriteStaging(r) \/ Throw(r) \/ Crash(r)
    BY <1>1, <2>1 DEF WriteStaging, Throw, Crash
  <2>2. CASE ~(WriteStaging(r) \/ Throw(r) \/ Crash(r))
    <3>1. staged' = staged
      BY <1>2, <2>2 DEF Attempt,
     ReadConnection, AcquireLease, Coalesce, StageHistory, ReadMappings, RefreshToken,
     SaveToken, FetchPage, RenewBeforeWrite, SkipPublication, RenewBeforePublish,
     BuildRows, Finish, Demote, ReleaseLease, PublishBatch
    <3> QED BY <3>1
  <2> QED BY <2>1, <2>2
<1>3. CASE Environment
  <2>1. staged' = staged
    BY <1>3 DEF Environment, Expire, UpdateOrder, MapLocation, ExcludeData,
       ClearExpiredLease, ApproveData, DeleteSecret, Disconnect
  <2> QED BY <2>1
<1>4. CASE UNCHANGED vars BY <1>4 DEF vars
<1> QED BY <1>2, <1>3, <1>4 DEF Next

\* The newest staged version of an order is the one that reports show.
LEMMA LatestIsNewest ==
  ASSUME TypeOK, NewestVersionWins, NEW o \in Orders, NEW m \in Versions, staged[o][m] # 0
  PROVE  /\ LatestStaged(o) \in Versions /\ m <= LatestStaged(o)
         /\ staged[o][LatestStaged(o)] # 0
<1> DEFINE S == {v \in Versions : staged[o][v] # 0}
<1>1. S \subseteq 0..MaxTime /\ S # {} BY BoundAssumption
<1>2. PICK n \in S : \A v \in S : v <= n
  BY <1>1, BoundAssumption, GreatestNumber
<1>3. \A v \in Versions : staged[o][v] \in Nat BY DEF TypeOK
<1>4. ASSUME NEW v \in Versions PROVE staged[o][v] <= staged[o][n]
  <2>1. CASE staged[o][v] = 0 BY <1>3, <2>1
  <2>2. CASE v = n BY <1>3, <2>2
  <2>3. CASE staged[o][v] # 0 /\ v # n
    BY <1>2, <1>3, <2>3, BoundAssumption DEF NewestVersionWins
  <2> QED BY <2>1, <2>2, <2>3
<1>5. IsLatest(o, n) BY <1>4 DEF IsLatest
<1>6. LatestStaged(o) \in Versions /\ IsLatest(o, LatestStaged(o))
  BY <1>5 DEF LatestStaged
<1>7. m <= LatestStaged(o)
  <2> SUFFICES ASSUME LatestStaged(o) < m PROVE FALSE
    BY <1>6, BoundAssumption
  <2>1. staged[o][LatestStaged(o)] < staged[o][m]
    BY <1>6 DEF IsLatest, NewestVersionWins
  <2>2. staged[o][m] <= staged[o][LatestStaged(o)] BY <1>6 DEF IsLatest
  <2> QED BY <1>3, <1>6, <2>1, <2>2
<1> QED BY <1>6, <1>7 DEF IsLatest

LEMMA OnlyPublishBatchPublishes ==
  ASSUME NEW r \in Runs, Attempt(r), ~PublishBatch(r)
  PROVE  UNCHANGED metrics
BY DEF Attempt,
     ReadConnection, AcquireLease, Coalesce, StageHistory, ReadMappings, RefreshToken,
     SaveToken, FetchPage, RenewBeforeWrite, WriteStaging, SkipPublication, RenewBeforePublish,
     BuildRows, Finish, Throw, Demote, ReleaseLease, Crash

LEMMA SnapshotStep == ASSUME SnapshotInv, [Next]_vars PROVE SnapshotInv'
<1> USE DEF SnapshotInv
<1>p. PageInv' BY PageStep
<1>t. TypeOK /\ TypeOK' /\ LeaseInv BY <1>p DEF PageInv, LeaseInv
<1>k. \A o \in Orders : \A v \in Versions : staged[o][v] # 0 => staged'[o][v] # 0
  BY <1>t, StagingIsKept
<1>v. /\ \A o \in Orders : metrics.rows[o] \in Time
      /\ \A r \in Runs, o \in Orders : job[r].rows[o] \in Time
  BY <1>t DEF TypeOK, Jobs
<1>m. \A o \in Orders : metrics.rows[o] # 0 => staged'[o][metrics.rows[o]] # 0
  BY <1>k, <1>v, BoundAssumption DEF SnapshotsAreStaged
<1> DEFINE Kept(q) == pc'[q] = "publish" /\ Holds(q)' =>
                        /\ pc[q] = "publish" /\ Holds(q) /\ job'[q].rows = job[q].rows
                        /\ UNCHANGED metrics
           Fine(q) == pc'[q] = "publish" /\ Holds(q)' =>
                        \A o \in Orders :
                          /\ job'[q].rows[o] # 0 => staged'[o][job'[q].rows[o]] # 0
                          /\ metrics'.rows[o] <= job'[q].rows[o]
<1>1. ASSUME NEW q \in Runs, Kept(q) PROVE Fine(q)
  BY <1>1, <1>k, <1>v, BoundAssumption DEF SnapshotsAreStaged
<1> HIDE DEF Kept
<1>2. ASSUME NEW r \in Runs, Attempt(r) PROVE SnapshotsAreStaged'
  <2>0. \A q \in Runs \ {r} : pc'[q] = pc[q] /\ job'[q] = job[q] /\ (Holds(q)' => Holds(q))
    BY <1>2, <1>t, OthersStay, OthersHold
  <2>1. CASE PublishBatch(r)
    <3>1. /\ metrics'.rows = job[r].rows /\ pc[r] = "publish" /\ pc'[r] = "finish"
          /\ Holds(r)
      BY <1>t, <2>1 DEF PublishBatch, Goto, MayPublish, CanRenew, TypeOK
    <3>2. \A o \in Orders : metrics'.rows[o] # 0 => staged'[o][metrics'.rows[o]] # 0
      BY <1>k, <1>v, <3>1, BoundAssumption DEF SnapshotsAreStaged
    <3>3. \A q \in Runs : ~(pc'[q] = "publish" /\ Holds(q)')
      BY <2>0, <3>1 DEF Holds
    <3> QED BY <3>2, <3>3 DEF SnapshotsAreStaged
  <2>2. CASE BuildRows(r)
    <3>1. /\ UNCHANGED <<metrics, staged>>
          /\ \A o \in Orders : job'[r].rows[o] = LatestStaged(o)
      BY <1>t, <2>2 DEF BuildRows, TypeOK, Jobs, staging
    <3>2. NewestVersionWins BY DEF PageInv, StampsFollowVersions, NewestVersionWins
    <3>3. ASSUME NEW o \in Orders PROVE /\ LatestStaged(o) # 0 => staged[o][LatestStaged(o)] # 0
                                       /\ metrics.rows[o] <= LatestStaged(o)
      <4>1. CASE metrics.rows[o] # 0
        BY <1>t, <1>v, <3>2, <4>1, LatestIsNewest, BoundAssumption DEF SnapshotsAreStaged
      <4>2. CASE metrics.rows[o] = 0
        <5>1. LatestStaged(o) \in Time BY LatestType
        <5>2. LatestStaged(o) # 0 => staged[o][LatestStaged(o)] # 0
          BY BoundAssumption DEF LatestStaged, IsLatest
        <5> QED BY <4>2, <5>1, <5>2
      <4> QED BY <4>1, <4>2
    <3>4. Fine(r) BY <3>1, <3>3
    <3>5. \A q \in Runs \ {r} : Fine(q) BY <1>1, <2>0, <3>1 DEF Kept
    <3> QED BY <1>m, <3>1, <3>4, <3>5 DEF SnapshotsAreStaged
  <2>3. CASE ~PublishBatch(r) /\ ~BuildRows(r)
    <3>1. UNCHANGED metrics BY <1>2, <2>3, OnlyPublishBatchPublishes
    <3>2. pc'[r] # "publish"
      BY <1>2, <1>t, <2>3 DEF Attempt, Goto, End, TypeOK,
     ReadConnection, AcquireLease, Coalesce, StageHistory, ReadMappings, RefreshToken,
     SaveToken, FetchPage, RenewBeforeWrite, WriteStaging, SkipPublication, RenewBeforePublish,
     Finish, Throw, Demote, ReleaseLease, Crash
    <3>3. \A q \in Runs : Fine(q) BY <1>1, <2>0, <3>1, <3>2 DEF Kept
    <3> QED BY <1>m, <3>1, <3>3 DEF SnapshotsAreStaged
  <2> QED BY <2>1, <2>2, <2>3
<1>3. CASE Environment
  <2>1. UNCHANGED <<pc, job, metrics>> /\ \A q \in Runs : Holds(q)' => Holds(q)
    BY <1>3, <1>t, EnvironmentOnLease, EnvironmentHolds
  <2>2. \A q \in Runs : Fine(q) BY <1>1, <2>1 DEF Kept
  <2> QED BY <1>p, <1>m, <2>1, <2>2 DEF SnapshotsAreStaged
<1>4. CASE UNCHANGED vars
  <2>1. UNCHANGED <<pc, job, metrics, conn>> BY <1>4 DEF vars, attempts
  <2>2. \A q \in Runs : Fine(q) BY <1>1, <2>1 DEF Kept, Holds
  <2> QED BY <1>p, <1>m, <2>1, <2>2 DEF SnapshotsAreStaged
<1> QED BY <1>p, <1>2, <1>3, <1>4 DEF Next

\* The published snapshot never goes back to an older version of an order, in
\* particular not when a stalled attempt wakes up after a newer publication.
THEOREM PublicationNeverRegresses == Spec => PublishedNeverRegresses
<1>1. ASSUME SnapshotInv, [Next]_vars
      PROVE  \A o \in Orders : metrics'.rows[o] >= metrics.rows[o]
  <2>1. CASE UNCHANGED metrics
    BY <1>1, <2>1, BoundAssumption DEF SnapshotInv, PageInv, LeaseInv, TypeOK
  <2>2. CASE ~UNCHANGED metrics
    <3>1. PICK r \in Runs : PublishBatch(r)
      BY <1>1, <2>2, OnlyPublishBatchPublishes, EnvironmentOnLease
         DEF Next, vars, SnapshotInv, PageInv, LeaseInv
    <3>2. /\ metrics'.rows = job[r].rows /\ pc[r] = "publish" /\ Holds(r)
      BY <3>1 DEF PublishBatch, MayPublish, CanRenew
    <3>3. \A o \in Orders : job[r].rows[o] \in Nat /\ metrics.rows[o] \in Nat
      BY <1>1, BoundAssumption DEF SnapshotInv, PageInv, LeaseInv, TypeOK, Jobs
    <3> QED BY <1>1, <3>2, <3>3 DEF SnapshotInv, SnapshotsAreStaged
  <2> QED BY <2>1, <2>2
<1>2. SnapshotInv /\ [Next]_vars =>
        [\A o \in Orders : metrics'.rows[o] >= metrics.rows[o]]_vars
  BY <1>1
<1>3. SnapshotInv /\ [Next]_vars => SnapshotInv' BY SnapshotStep
<1> QED BY <1>2, <1>3, SnapshotInit, PTL DEF Spec, PublishedNeverRegresses

\* An attempt that stalled past its lease, or past a disconnection, neither takes
\* an order back to an older version nor publishes for a revoked connection.
THEOREM LateRunsAreHarmless == Spec => LateRunsPublishNothing
BY PublicationNeverRegresses, NothingPublishedAfterDisconnect DEF LateRunsPublishNothing
-----------------------------------------------------------------------------
(***************************************************************************)
(* The watermark.                                                          *)
(***************************************************************************)
CursorInv == PageInv /\ CursorsAreHonest

\* What the passing of a step may do to orders and mappings: nothing that lies
\* in the past becomes due.
World ==
  /\ now <= now'
  /\ \A o \in Orders : Due(o)' /\ updatedAt'[o] <= now =>
                        Due(o) /\ updatedAt'[o] = updatedAt[o]
  /\ \A l \in Locations : mapping'[l].status = "mapped" /\ mapping'[l].since < now =>
                           mapping[l].status = "mapped" /\ mapping[l].since = mapping'[l].since
  /\ \A o \in Orders : \A v \in Versions : staged[o][v] # 0 => staged'[o][v] # 0

LEMMA AttemptKeepsTime ==
  ASSUME NEW r \in Runs, Attempt(r)
  PROVE  UNCHANGED <<now, updatedAt, mapping>>
BY DEF provider, owned, Attempt, PublishBatch,
     ReadConnection, AcquireLease, Coalesce, StageHistory, ReadMappings, RefreshToken,
     SaveToken, FetchPage, RenewBeforeWrite, WriteStaging, SkipPublication, RenewBeforePublish,
     BuildRows, Finish, Throw, Demote, ReleaseLease, Crash

LEMMA WorldStep == ASSUME PageInv, [Next]_vars PROVE World
<1> USE DEF provider, owned
<1>t. /\ TypeOK /\ TypeOK'
      /\ \A o \in Orders : updatedAt[o] <= now
  BY PageStep DEF PageInv, LeaseInv, PagesAreCurrent
<1>k. \A o \in Orders : \A v \in Versions : staged[o][v] # 0 => staged'[o][v] # 0
  BY <1>t, StagingIsKept
<1>n. /\ now \in Nat
      /\ \A o \in Orders : updatedAt[o] \in Nat /\ LocationOf[o] \in Locations
  BY <1>t, BoundAssumption, LocationAssumption DEF TypeOK
<1>1. CASE UNCHANGED <<now, updatedAt, mapping>>
  BY <1>k, <1>n, <1>1 DEF World, Due
<1>2. ASSUME NEW o \in Orders, UpdateOrder(o) PROVE World
  <2>1. /\ now' = now + 1 /\ updatedAt' = [updatedAt EXCEPT ![o] = now + 1]
        /\ mapping' = mapping
    BY <1>2 DEF UpdateOrder
  <2>2. \A p \in Orders : updatedAt'[p] <= now => updatedAt'[p] = updatedAt[p]
    BY <1>t, <1>n, <2>1 DEF TypeOK
  <2> QED BY <1>k, <1>n, <2>1, <2>2 DEF World, Due
<1>3. ASSUME NEW l \in Locations, NEW s \in MappingChoices, MapLocation(l, s) PROVE World
  <2>1. /\ now' = now /\ updatedAt' = updatedAt
        /\ mapping' = [mapping EXCEPT ![l] = [status |-> s, since |-> now]]
    BY <1>3 DEF MapLocation
  <2>2. \A k \in Locations \ {l} : mapping'[k] = mapping[k]
    BY <1>t, <2>1 DEF TypeOK
  <2>3. mapping'[l].since = now BY <1>t, <2>1 DEF TypeOK
  <2>4. \A o \in Orders : Due(o)' /\ updatedAt'[o] <= now =>
                          Due(o) /\ updatedAt'[o] = updatedAt[o]
    BY <1>t, <1>n, <2>1, <2>2, <2>3 DEF Due
  <2> QED BY <1>k, <1>n, <2>1, <2>2, <2>3, <2>4 DEF World
<1>4. ASSUME NEW r \in Runs, Attempt(r) PROVE UNCHANGED <<now, updatedAt, mapping>>
  BY <1>4, AttemptKeepsTime
<1>5. CASE Environment
  BY <1>1, <1>2, <1>3, <1>5 DEF Environment, Expire, ExcludeData, ClearExpiredLease,
     ApproveData, DeleteSecret, Disconnect
<1>6. CASE UNCHANGED vars BY <1>1, <1>6 DEF vars
<1> QED BY <1>1, <1>4, <1>5, <1>6 DEF Next

LEMMA DueIsTimed ==
  ASSUME TypeOK, NEW o \in Orders, Due(o)
  PROVE  updatedAt[o] \in Versions
<1>1. /\ updatedAt[o] \in Time
      /\ mapping[LocationOf[o]].since \in Time
  BY LocationAssumption DEF TypeOK
<1> QED BY <1>1, BoundAssumption DEF Due

\* Promises outlive a step.
LEMMA PromisesLast ==
  ASSUME PageInv, PageInv', World
  PROVE  /\ \A c \in Cursors : Honest(c) => Honest(c)'
         /\ \A c \in Cursors : \A orders, got :
              c.end <= now /\ ReadUpTo(c, orders, got) => ReadUpTo(c, orders, got)'
<1>t. TypeOK /\ TypeOK' BY DEF PageInv, LeaseInv
<1>n. now \in Nat /\ now' \in Nat /\ MaxTime \in Nat
      /\ \A o \in Orders : updatedAt'[o] \in Nat
  BY <1>t, BoundAssumption DEF TypeOK
<1>1. ASSUME NEW o \in Orders, Due(o)', updatedAt'[o] <= now
      PROVE  /\ Due(o) /\ updatedAt'[o] = updatedAt[o]
             /\ staged[o][updatedAt[o]] # 0 => staged'[o][updatedAt'[o]] # 0
  BY <1>t, <1>1, DueIsTimed DEF World
<1>2. ASSUME NEW c \in Cursors, NEW orders, NEW got, c.end <= now, ReadUpTo(c, orders, got)
      PROVE  ReadUpTo(c, orders, got)'
  <2> SUFFICES ASSUME NEW o \in Orders, Due(o)', updatedAt'[o] \in c.start..c.end,
                      orders = 0 \/ updatedAt'[o] <= orders
               PROVE  staged'[o][updatedAt'[o]] # 0 \/ <<o, updatedAt'[o]>> \in got
    BY DEF ReadUpTo
  <2>1. c.start \in Nat /\ c.end \in Nat BY <1>n DEF Cursors
  <2>2. updatedAt'[o] <= now BY <1>2, <1>n, <2>1
  <2>3. Due(o) /\ updatedAt'[o] = updatedAt[o] BY <1>1, <2>2
  <2>4. staged[o][updatedAt[o]] # 0 \/ <<o, updatedAt[o]>> \in got
    BY <1>2, <2>3 DEF ReadUpTo
  <2> QED BY <1>1, <2>2, <2>3, <2>4
<1>3. ASSUME NEW c \in Cursors, Honest(c) PROVE Honest(c)'
  <2>1. /\ c.watermark \in Nat /\ c.end \in Nat
        /\ c.watermark <= now' /\ c.end <= now'
    BY <1>3, <1>n DEF Honest, World, Cursors
  <2>2. \A o \in Orders : Due(o)' /\ updatedAt'[o] <= c.watermark =>
                          staged'[o][updatedAt'[o]] # 0
    BY <1>1, <1>3, <1>n, <2>1 DEF Honest
  <2>3. Resumes(c) => ReadUpTo(c, c.orders, {})'
    BY <1>2, <1>3 DEF Honest
  <2> QED BY <1>3, <2>1, <2>2, <2>3 DEF Honest
<1> QED BY <1>2, <1>3

LEMMA CursorInit == Init => CursorInv
<1> SUFFICES ASSUME Init PROVE CursorInv OBVIOUS
<1>1. NewConnection.cursor = NoCursor BY DEF NewConnection
<1>2. EstablishedConnection.cursor = [NoCursor EXCEPT !.financial = TRUE]
  BY DEF EstablishedConnection, NewConnection, NoCursor
<1>3. /\ now = 0 /\ \A o \in Orders : updatedAt[o] = 0
      /\ \A o \in Orders : mapping[LocationOf[o]].since = 0
      /\ \A r \in Runs : pc[r] = "idle" /\ job[r].cursor = NoCursor
  BY LocationAssumption DEF Init, NoJob
<1>4. \A o \in Orders : ~Due(o) BY <1>3 DEF Due
<1>5. ASSUME NEW c, c \in {NoCursor, [NoCursor EXCEPT !.financial = TRUE]}
      PROVE  Honest(c)
  BY <1>3, <1>4, <1>5 DEF Honest, Resumes, NoCursor
<1>6. Honest(conn.cursor) BY <1>1, <1>2, <1>5 DEF Init
<1>7. \A r \in Runs : HonestAttempt(r) BY <1>3, <1>5 DEF HonestAttempt, Working
<1> QED BY <1>6, <1>7, PageInit DEF CursorInv, CursorsAreHonest

\* The attempt of a step keeps the locals its promises are about.
Stays(r) ==
  /\ job'[r].cursor = job[r].cursor
  /\ pc'[r] \in Working => pc[r] \in Working /\ job'[r].window = job[r].window
  /\ pc'[r] \in Working \ {"history", "mappings"} =>
       pc[r] \in Working \ {"history", "mappings"} /\ job'[r].mapped = job[r].mapped
  /\ pc'[r] \in {"renew", "write"} =>
       /\ pc[r] \in {"renew", "write"}
       /\ job'[r].orders = job[r].orders /\ job'[r].got = job[r].got
  /\ pc'[r] \in {"decide", "build", "publish", "finish"} =>
       /\ pc[r] \in {"decide", "build", "publish", "finish"}
       /\ job'[r].orders = job[r].orders

LEMMA StaysHonest ==
  ASSUME CursorInv, PageInv', World, NEW r \in Runs, Stays(r)
  PROVE  HonestAttempt(r)'
<1> USE DEF CursorInv
<1>t. job[r].cursor \in Cursors /\ job[r].window \in Cursors
  BY DEF PageInv, LeaseInv, TypeOK, Jobs
<1>n. now \in Nat /\ job[r].window.end \in Nat
  BY <1>t, BoundAssumption DEF PageInv, LeaseInv, TypeOK, Cursors
<1>s. \A l \in Locations : mapping'[l].since \in Nat
  BY BoundAssumption DEF PageInv, LeaseInv, TypeOK
<1>h. HonestAttempt(r) BY DEF CursorsAreHonest
<1>1. Honest(job[r].cursor)' BY <1>t, <1>h, PromisesLast DEF HonestAttempt, Honest, Stays
<1>2. ASSUME pc'[r] \in Working
      PROVE  /\ Honest(job[r].window) /\ Honest(job[r].window)'
             /\ IF Resumes(job'[r].cursor) THEN job'[r].window = job'[r].cursor
                ELSE job'[r].window.orders = 0
             /\ job'[r].window = job[r].window
             /\ job[r].window.end <= now
  BY <1>2, <1>t, <1>h, PromisesLast DEF HonestAttempt, Honest, Stays
<1>3. ASSUME pc'[r] \in Working \ {"history", "mappings"}, NEW l \in Locations,
             mapping'[l].status = "mapped", mapping'[l].since < job'[r].window.end
      PROVE  l \in job'[r].mapped
  <2>1. mapping'[l].since < now BY <1>2, <1>3, <1>n, <1>s
  <2>2. mapping[l].status = "mapped" /\ mapping[l].since < job[r].window.end
    BY <1>2, <1>3, <2>1 DEF World
  <2> QED BY <1>3, <1>h, <2>2 DEF HonestAttempt, Stays
<1>4. ASSUME pc'[r] \in {"renew", "write"}
      PROVE  ReadUpTo(job[r].window, job[r].orders, job[r].got)'
  <2>1. pc'[r] \in Working /\ pc[r] \in {"renew", "write"}
        /\ job'[r].orders = job[r].orders /\ job'[r].got = job[r].got
    BY <1>4 DEF Stays, Working
  <2>2. ReadUpTo(job[r].window, job[r].orders, job[r].got)
    BY <1>h, <2>1 DEF HonestAttempt
  <2> QED BY <1>2, <1>t, <2>1, <2>2, PromisesLast DEF ReadUpTo
<1>5. ASSUME pc'[r] \in {"decide", "build", "publish", "finish"}
      PROVE  ReadUpTo(job[r].window, job[r].orders, {})'
  <2>1. pc'[r] \in Working /\ pc[r] \in {"decide", "build", "publish", "finish"}
        /\ job'[r].orders = job[r].orders
    BY <1>5 DEF Stays, Working
  <2>2. ReadUpTo(job[r].window, job[r].orders, {})
    BY <1>h, <2>1 DEF HonestAttempt
  <2>3. \A c \in Cursors : \A orders :
          c.end <= now /\ ReadUpTo(c, orders, {}) => ReadUpTo(c, orders, {})'
    BY PromisesLast
  <2>4. ReadUpTo(job[r].window, job[r].orders, {})'
    BY <1>2, <1>t, <2>1, <2>2, <2>3 DEF ReadUpTo
  <2> QED BY <2>4
<1> QED BY <1>1, <1>2, <1>3, <1>4, <1>5 DEF HonestAttempt

\* The moves that keep the promising locals.
LEMMA StayingAttempt ==
  ASSUME TypeOK, NEW r \in Runs, Attempt(r),
         ~ReadConnection(r), ~AcquireLease(r), ~Coalesce(r), ~ReadMappings(r),
         ~FetchPage(r), ~WriteStaging(r), ~Finish(r), ~ReleaseLease(r), ~Crash(r)
  PROVE  Stays(r) /\ conn'.cursor = conn.cursor
<1> USE DEF provider, owned, staging, attempts, Jobs, Connections, Goto, Stays, Working
<1>t. /\ job \in [Runs -> Jobs] /\ conn \in Connections
      /\ pc \in [Runs -> {"idle", "read"} \cup Working \cup Ending \cup Over]
  BY DEF TypeOK
<1>1. CASE StageHistory(r) BY <1>t, <1>1 DEF StageHistory
<1>2. CASE RefreshToken(r) BY <1>t, <1>2 DEF RefreshToken
<1>3. CASE SaveToken(r) BY <1>t, <1>3 DEF SaveToken
<1>4. CASE RenewBeforeWrite(r) BY <1>t, <1>4 DEF RenewBeforeWrite
<1>5. CASE SkipPublication(r) BY <1>t, <1>5 DEF SkipPublication
<1>6. CASE RenewBeforePublish(r) BY <1>t, <1>6 DEF RenewBeforePublish
<1>7. CASE BuildRows(r) BY <1>t, <1>7 DEF BuildRows
<1>8. CASE PublishBatch(r) BY <1>t, <1>8 DEF PublishBatch
<1>9. CASE Throw(r) BY <1>t, <1>9 DEF Throw
<1>10. CASE Demote(r) BY <1>t, <1>10 DEF Demote
<1> QED BY <1>1, <1>2, <1>3, <1>4, <1>5, <1>6, <1>7, <1>8, <1>9, <1>10 DEF Attempt

\* A cursor that asks for nothing promises nothing beyond its watermark.
LEMMA HonestWindow ==
  ASSUME TypeOK, NEW c \in Cursors, Honest(c)
  PROVE  Honest(BeginWindow(c))
<1>1. CASE Resumes(c) BY <1>1 DEF BeginWindow
<1>2. CASE ~Resumes(c)
  <2> DEFINE w == BeginWindow(c)
  <2>1. /\ w.watermark = IF c.financial THEN c.watermark ELSE 0
        /\ w.start = IF c.financial THEN BackFrom(c.watermark) ELSE 0
        /\ w.end = now /\ w.orders = 0 /\ w.rest = FALSE
    BY <1>2 DEF BeginWindow
  <2>2. /\ now \in Nat /\ c.watermark \in Nat /\ Overlap \in Nat
        /\ c.watermark <= now
    BY BoundAssumption DEF TypeOK, Cursors, Honest
  <2>3. BackFrom(c.watermark) \in Nat /\ BackFrom(c.watermark) <= c.watermark
    BY <2>2 DEF BackFrom
  <2>4. /\ w.start <= w.watermark /\ w.start <= w.end
        /\ w.watermark <= now /\ w.end <= now
        /\ w.watermark = 0 \/ w.watermark = c.watermark
    BY <2>1, <2>2, <2>3
  <2>5. ASSUME NEW o \in Orders, Due(o), updatedAt[o] <= w.watermark
        PROVE  staged[o][updatedAt[o]] # 0
    <3>1. updatedAt[o] \in Versions BY <2>5, DueIsTimed
    <3>2. w.watermark = c.watermark BY <2>4, <2>5, <3>1, BoundAssumption
    <3> QED BY <2>5, <3>2 DEF Honest
  <2>6. ~Resumes(w) BY <2>1 DEF Resumes
  <2> QED BY <2>4, <2>5, <2>6 DEF Honest
<1> QED BY <1>1, <1>2

\* A page and what was read before it reach up to the new page token.
LEMMA FetchReads ==
  ASSUME TypeOK, NEW r \in Runs, HonestAttempt(r), FetchPage(r)
  PROVE  ReadUpTo(job[r].window, job'[r].orders, job'[r].got)
<1> DEFINE w == job[r].window
           t == job'[r].orders
<1>w. w \in Cursors BY DEF TypeOK, Jobs
<1>n. w.start \in Nat /\ w.end \in Nat /\ w.orders \in Nat
  BY <1>w, BoundAssumption DEF Cursors
<1>h. /\ Honest(w)
      /\ IF Resumes(job[r].cursor) THEN w = job[r].cursor ELSE w.orders = 0
      /\ \A l \in Locations : mapping[l].status = "mapped" /\ mapping[l].since < w.end =>
           l \in job[r].mapped
  BY DEF FetchPage, HonestAttempt, Working
<1>f. job'[r].got = {<<o, updatedAt[o]>> : o \in
                       {p \in Remaining(r) : t = 0 \/ updatedAt[p] <= t}}
  BY FetchedPage
<1> HIDE DEF w, t
<1> SUFFICES ASSUME NEW o \in Orders, Due(o), updatedAt[o] \in w.start..w.end,
                    t = 0 \/ updatedAt[o] <= t
             PROVE  staged[o][updatedAt[o]] # 0 \/ <<o, updatedAt[o]>> \in job'[r].got
  BY DEF ReadUpTo, w, t
<1>1. updatedAt[o] \in Versions BY DueIsTimed
<1>2. LocationOf[o] \in job[r].mapped
  <2>1. /\ LocationOf[o] \in Locations /\ mapping[LocationOf[o]].status = "mapped"
        /\ mapping[LocationOf[o]].since \in Nat
        /\ mapping[LocationOf[o]].since < updatedAt[o]
    BY LocationAssumption, BoundAssumption DEF Due, TypeOK
  <2>2. mapping[LocationOf[o]].since < w.end
    BY <1>1, <1>n, <2>1, BoundAssumption
  <2> QED BY <1>h, <2>1, <2>2
<1>3. CASE o \in Remaining(r) BY <1>3, <1>f
<1>4. CASE o \notin Remaining(r)
  <2>1. OrdersCompleted(r) \/ ~(updatedAt[o] > w.orders)
    BY <1>2, <1>4 DEF Remaining, w
  <2>2. CASE OrdersCompleted(r)
    <3>1. Resumes(w) /\ w.orders = 0 BY <1>h, <2>2 DEF OrdersCompleted, w
    <3> QED BY <1>h, <3>1 DEF Honest, ReadUpTo
  <2>3. CASE ~(updatedAt[o] > w.orders)
    <3>1. updatedAt[o] <= w.orders /\ w.orders # 0
      BY <1>1, <1>n, <2>3, BoundAssumption
    <3>2. Resumes(w) BY <1>h, <3>1
    <3> QED BY <1>h, <3>1, <3>2 DEF Honest, ReadUpTo
  <2> QED BY <2>1, <2>2, <2>3
<1> QED BY <1>3, <1>4

LEMMA ActingAttempt ==
  ASSUME CursorInv, PageInv', World, NEW r \in Runs, Attempt(r)
  PROVE  Honest(conn.cursor)' /\ HonestAttempt(r)'
<1> USE DEF CursorInv
<1>t. /\ TypeOK /\ TypeOK'
      /\ job \in [Runs -> Jobs] /\ conn \in Connections
      /\ job[r] \in Jobs
      /\ pc \in [Runs -> {"idle", "read"} \cup Working \cup Ending \cup Over]
      /\ job[r].cursor \in Cursors /\ job[r].window \in Cursors /\ conn.cursor \in Cursors
  BY DEF PageInv, LeaseInv, TypeOK, Jobs, Connections
<1>h. Honest(conn.cursor) /\ HonestAttempt(r) BY DEF CursorsAreHonest
<1>u. UNCHANGED <<now, updatedAt, mapping>> BY AttemptKeepsTime
<1>d. \A o \in Orders : Due(o)' = Due(o) BY <1>u DEF Due
<1>p. \A c \in Cursors : Honest(c) => Honest(c)' BY PromisesLast
<1>q. \A c \in Cursors : \A orders, got :
        c.end <= now /\ ReadUpTo(c, orders, got) => ReadUpTo(c, orders, got)'
  BY PromisesLast
<1>c. conn'.cursor = conn.cursor => Honest(conn.cursor)'
  BY <1>t, <1>h, <1>p DEF Honest
<1>j. ASSUME job'[r] = NoJob, pc'[r] \notin Working PROVE HonestAttempt(r)'
  <2>1. job'[r].cursor = NoCursor BY <1>j DEF NoJob
  <2>2. NoCursor \in Cursors BY BoundAssumption DEF NoCursor, Cursors
  <2>3. \A o \in Orders : ~(Due(o) /\ updatedAt[o] <= 0)
    BY <1>t, DueIsTimed, BoundAssumption
  <2>4. now \in Nat BY <1>t, BoundAssumption DEF TypeOK
  <2>5. Honest(NoCursor) BY <2>3, <2>4 DEF Honest, Resumes, NoCursor
  <2>6. Honest(NoCursor)' BY <1>p, <2>2, <2>5
  <2>7. Honest(job[r].cursor)' BY <2>1, <2>6 DEF Honest
  <2> QED BY <1>j, <2>7 DEF HonestAttempt, Working
<1>1. CASE ReadConnection(r)
  <2>1. /\ pc'[r] = "read" /\ job'[r].cursor = conn.cursor /\ conn'.cursor = conn.cursor
    BY <1>t, <1>1 DEF ReadConnection, Goto, Jobs
  <2>2. Honest(job[r].cursor)' BY <1>t, <1>h, <1>p, <2>1 DEF Honest
  <2> QED BY <1>c, <2>1, <2>2 DEF HonestAttempt, Working
<1>2. CASE AcquireLease(r)
  <2> DEFINE w == BeginWindow(job[r].cursor)
  <2>1. /\ pc'[r] \in {"history", "mappings"} /\ conn'.cursor = conn.cursor
        /\ job'[r].cursor = job[r].cursor /\ job'[r].window = w
    BY <1>t, <1>2 DEF AcquireLease, Goto, Jobs, Connections
  <2>2. Honest(w) /\ w \in Cursors
    BY <1>t, <1>h, HonestWindow, WindowType DEF HonestAttempt
  <2>3. IF Resumes(job[r].cursor) THEN w = job[r].cursor ELSE w.orders = 0
    BY DEF BeginWindow
  <2> HIDE DEF w
  <2>4. job'[r].window \in Cursors BY <2>1, <2>2
  <2>5. Honest(job[r].cursor)' BY <1>t, <1>h, <1>p, <2>1 DEF Honest, HonestAttempt
  <2>6. Honest(job[r].window)' BY <1>p, <2>1, <2>2 DEF Honest
  <2> QED BY <1>c, <2>1, <2>3, <2>5, <2>6 DEF HonestAttempt, Working
<1>3. CASE Coalesce(r) \/ ReleaseLease(r) \/ Crash(r)
  <2>1. job'[r] = NoJob /\ pc'[r] \in {"done", "crashed"}
    BY <1>t, <1>3 DEF Coalesce, ReleaseLease, Crash, End, Goto
  <2>2. conn'.cursor = conn.cursor
    BY <1>t, <1>3 DEF Coalesce, ReleaseLease, Crash, Released, Connections
  <2> QED BY <1>c, <1>j, <2>1, <2>2 DEF Working
<1>4. CASE ReadMappings(r)
  <2>1. /\ pc'[r] = "fetch" /\ conn' = conn
        /\ job'[r].cursor = job[r].cursor /\ job'[r].window = job[r].window
        /\ job'[r].mapped = {l \in Locations : mapping[l].status = "mapped"}
        /\ pc[r] = "mappings"
    BY <1>t, <1>4 DEF ReadMappings, Goto, Jobs
  <2>2. Honest(job[r].cursor)' /\ Honest(job[r].window)'
    BY <1>t, <1>h, <1>p, <2>1 DEF Honest, HonestAttempt, Working
  <2> QED BY <1>c, <1>h, <1>u, <2>1, <2>2 DEF HonestAttempt, Working
<1>5. CASE FetchPage(r)
  <2>1. /\ pc'[r] = "renew" /\ pc[r] = "fetch" /\ conn' = conn
        /\ job'[r].cursor = job[r].cursor /\ job'[r].window = job[r].window
        /\ job'[r].mapped = job[r].mapped
    BY <1>t, <1>5, FetchedPage DEF FetchPage, Jobs
  <2>2. Honest(job[r].cursor)' /\ Honest(job[r].window)' /\ Honest(job[r].window)
    BY <1>t, <1>h, <1>p, <2>1 DEF Honest, HonestAttempt, Working
  <2>3. ReadUpTo(job[r].window, job'[r].orders, job'[r].got)
    BY <1>t, <1>h, <1>5, FetchReads
  <2>4. staged' = staged BY <1>5 DEF FetchPage, staging
  <2>5. ReadUpTo(job[r].window, job[r].orders, job[r].got)'
    BY <1>u, <1>d, <2>1, <2>3, <2>4 DEF ReadUpTo
  <2> QED BY <1>c, <1>h, <1>u, <2>1, <2>2, <2>5 DEF HonestAttempt, Working
<1>6. CASE WriteStaging(r)
  <2>1. /\ pc'[r] = "decide" /\ pc[r] = "write" /\ conn' = conn /\ job' = job
        /\ staged' = StagedWith(job[r].got, job[r].stamp)
    BY <1>t, <1>6 DEF WriteStaging, Goto
  <2>2. Honest(job[r].cursor)' /\ Honest(job[r].window)'
    BY <1>t, <1>h, <1>p, <2>1 DEF Honest, HonestAttempt, Working
  <2>3. ReadUpTo(job[r].window, job[r].orders, job[r].got)
    BY <1>h, <2>1 DEF HonestAttempt
  <2>4. job[r].stamp # 0
    BY <2>1 DEF PageInv, StampsFollowVersions, Stamped
  <2>5. ASSUME NEW o \in Orders, Due(o), <<o, updatedAt[o]>> \in job[r].got
        PROVE  staged'[o][updatedAt[o]] # 0
    <3>1. updatedAt[o] \in Versions BY <1>t, <2>5, DueIsTimed
    <3> QED BY <2>1, <2>4, <2>5, <3>1 DEF StagedWith
  <2>6. ASSUME NEW o \in Orders, Due(o), staged[o][updatedAt[o]] # 0
        PROVE  staged'[o][updatedAt[o]] # 0
    BY <1>t, <2>6, DueIsTimed DEF World
  <2>7. ReadUpTo(job[r].window, job[r].orders, {})'
    BY <1>u, <1>d, <2>1, <2>3, <2>5, <2>6 DEF ReadUpTo
  <2> QED BY <1>c, <1>h, <1>u, <2>1, <2>2, <2>7 DEF HonestAttempt, Working
<1>7. CASE Finish(r)
  <2> DEFINE w == job[r].window
             c == CursorAfter(r)
  <2>1. pc[r] = "finish" /\ staged' = staged /\ job'[r] = NoJob /\ pc'[r] = "done"
    BY <1>t, <1>7 DEF Finish, End, Goto, staging
  <2>2. conn'.cursor = c
    <3>1. PICK synced, authorized, promotion, reviewable :
            conn' = [Released EXCEPT !.cursor = CursorAfter(r), !.synced = synced,
                       !.promotion = promotion, !.authorized = authorized,
                       !.reviewable = reviewable]
      BY <1>7 DEF Finish
    <3> QED BY <1>t, <3>1 DEF Released, Connections
  <2>3. Honest(w) /\ ReadUpTo(w, job[r].orders, {})
    BY <1>h, <2>1 DEF HonestAttempt, Working
  <2>4. /\ c.start = w.start /\ c.end = w.end
        /\ c.orders = job[r].orders /\ c.rest = job[r].rest
        /\ c.watermark = IF HasMore(r) THEN w.watermark ELSE w.end
    BY <1>t DEF CursorAfter, Cursors
  <2>5. /\ w.start \in Nat /\ w.end \in Nat /\ w.watermark \in Nat /\ now \in Nat
        /\ MaxTime \in Nat
    BY <1>t, BoundAssumption, SMTT(60) DEF Cursors, TypeOK
  <2> HIDE DEF w, c
  <2>6. /\ c.start <= c.watermark /\ c.start <= c.end
        /\ c.watermark <= now /\ c.end <= now
    BY <2>3, <2>4, <2>5 DEF Honest
  <2>7. Resumes(c) => ReadUpTo(c, c.orders, {})
    BY <2>3, <2>4 DEF ReadUpTo
  <2>8. ASSUME NEW o \in Orders, Due(o), updatedAt[o] <= c.watermark
        PROVE  staged[o][updatedAt[o]] # 0
    <3>1. updatedAt[o] \in Versions BY <1>t, <2>8, DueIsTimed
    <3>2. CASE updatedAt[o] <= w.watermark BY <2>3, <2>8, <3>2 DEF Honest
    <3>3. CASE ~(updatedAt[o] <= w.watermark)
      <4>1. ~HasMore(r) /\ updatedAt[o] <= w.end BY <2>4, <2>8, <3>3
      <4>2. job[r].orders = 0 BY <4>1 DEF HasMore
      <4>3. updatedAt[o] \in w.start..w.end
        BY <2>3, <2>5, <3>1, <3>3, <4>1 DEF Honest
      <4> QED BY <2>3, <2>8, <4>2, <4>3 DEF ReadUpTo
    <3> QED BY <3>2, <3>3
  <2>9. Honest(c) BY <2>6, <2>7, <2>8 DEF Honest
  <2>10. Honest(conn.cursor)'
    BY <1>u, <1>d, <2>1, <2>2, <2>9 DEF Honest, ReadUpTo
  <2> QED BY <1>j, <2>1, <2>10 DEF Working
<1>8. CASE ~(\/ ReadConnection(r) \/ AcquireLease(r) \/ Coalesce(r) \/ ReadMappings(r)
             \/ FetchPage(r) \/ WriteStaging(r) \/ Finish(r) \/ ReleaseLease(r)
             \/ Crash(r))
  <2>1. Stays(r) /\ conn'.cursor = conn.cursor BY <1>t, <1>8, StayingAttempt
  <2> QED BY <1>c, <2>1, StaysHonest
<1> QED BY <1>1, <1>2, <1>3, <1>4, <1>5, <1>6, <1>7, <1>8

LEMMA CursorStep == ASSUME CursorInv, [Next]_vars PROVE CursorInv'
<1> USE DEF CursorInv
<1>p. PageInv' BY PageStep
<1>w. World BY WorldStep
<1>t. TypeOK /\ conn.cursor \in Cursors BY DEF PageInv, LeaseInv, TypeOK, Connections
<1>1. ASSUME NEW r \in Runs, Attempt(r) PROVE CursorsAreHonest'
  <2>1. Honest(conn.cursor)' /\ HonestAttempt(r)' BY <1>1, <1>p, <1>w, ActingAttempt
  <2>2. ASSUME NEW q \in Runs, q # r PROVE HonestAttempt(q)'
    <3>1. pc'[q] = pc[q] /\ job'[q] = job[q] BY <1>1, <1>t, <2>2, OthersStay
    <3>2. Stays(q) BY <3>1 DEF Stays
    <3> QED BY <1>p, <1>w, <3>2, StaysHonest
  <2> QED BY <2>1, <2>2 DEF CursorsAreHonest
<1>2. ASSUME UNCHANGED <<pc, job>>, conn'.cursor = conn.cursor PROVE CursorsAreHonest'
  <2>1. \A q \in Runs : Stays(q) BY <1>2 DEF Stays
  <2>2. \A q \in Runs : HonestAttempt(q)' BY <1>p, <1>w, <2>1, StaysHonest
  <2>3. \A c \in Cursors : Honest(c) => Honest(c)' BY <1>p, <1>w, PromisesLast
  <2>4. Honest(conn.cursor)' BY <1>2, <1>t, <2>3 DEF Honest, CursorsAreHonest
  <2> QED BY <2>2, <2>4 DEF CursorsAreHonest
<1>3. CASE Environment
  <2>1. conn'.cursor = conn.cursor
    BY <1>3, <1>t DEF Environment, Expire, UpdateOrder, MapLocation, ExcludeData,
       ClearExpiredLease, ApproveData, DeleteSecret, Disconnect, Released, TypeOK,
       Connections
  <2> QED BY <1>2, <1>3, <1>p, <1>t, <2>1, EnvironmentOnLease
<1>4. CASE UNCHANGED vars BY <1>2, <1>4, <1>p DEF vars, attempts
<1> QED BY <1>p, <1>1, <1>3, <1>4 DEF Next

\* The saved watermark is a promise that nothing before it need be asked for
\* again: every order of a mapped location that changed after the mapping and up
\* to the watermark is staged in its present version, whatever attempts
\* overlapped, resumed a page chain, worked on a stale cursor or were evicted.
THEOREM WatermarkIsKept == Spec => []WatermarkNeverSkipsOrders
<1>1. CursorInv /\ [Next]_vars => CursorInv' BY CursorStep
<1>2. CursorInv => WatermarkNeverSkipsOrders
  BY DEF CursorInv, CursorsAreHonest, Honest, Due, WatermarkNeverSkipsOrders
<1> QED BY <1>1, <1>2, CursorInit, PTL DEF Spec
=============================================================================
