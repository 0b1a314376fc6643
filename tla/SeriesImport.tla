---------------------------- MODULE SeriesImport ----------------------------
(***************************************************************************)
(* The Lightspeed R-Series import (integrations/sync/lightspeed-r.ts).     *)
(* Sales are read by two chains of pages: a historical one of all that     *)
(* changed since the watermark, and a recent one of the last 24 hours, so  *)
(* that today does not wait behind the history.  The watermark moves when  *)
(* every feed has been read to its end.  An approved source is hidden      *)
(* while its days are rebuilt.                                             *)
(*                                                                         *)
(* Abstractions.  A page holds one sale (100 in the code); sales are       *)
(* numbered in the order of the list.  A sale's version is the hour of its *)
(* last change; a filter includes the hour it begins with.  Items,         *)
(* customers and the other feeds are whether they have ended.  An unmapped *)
(* shop counts as an odd sale: both keep the cursor.  A batch lands while  *)
(* the lease that was renewed for it runs (five minutes).                  *)
(*                                                                         *)
(* A run reads the row, and asks for the lease afterwards; nothing tells   *)
(* it that another run published, or the owner decided, in between, and    *)
(* nothing makes a run come every day.  The histories `exposed` and        *)
(* `missed` say what that costs.                                           *)
(***************************************************************************)
EXTENDS Naturals, FiniteSetsExt

CONSTANTS SeriesRuns,  \* runs of the import, each again and again
          NoSeries,    \* no lease
          LastSale, LastHour,  \* bounds
          RecentHours  \* 24 in the code

ASSUME SeriesAssumption ==
    /\ NoSeries \notin SeriesRuns
    /\ RecentHours \in Nat \ {0} /\ LastHour \in Nat \ {0} /\ LastSale \in Nat \ {0}

VARIABLES
    hour,
    changed,  \* changed[s]: the hour of a sale's last change, 0 before it exists
    odd,      \* sales that cannot be normalized
    shop,     \* the connection row
    kept,     \* kept[s]: the newest of its versions in integration_staged_sales
    days,     \* daily_business_metrics: all of them, or some deleted or missing
    turn,     \* turn[r]: a run's step and locals
    exposed,  \* history: broken days were left, or shown, by a run that read another row
    missed    \* history: hours between two recent sweeps more than a day apart

seriesVars == << hour, changed, odd, shop, kept, days, turn, exposed, missed >>

Sales == 1..LastSale
Hours == 0..LastHour

\* A saved next URL: the last sale read and the filter; without one, after is 0.
NoChain == [after |-> 0, since |-> 0]
Chains == [after : 0..LastSale, since : Hours]

\* lastSyncCursor.  History: sweep, the hour in which its recent chain began.
Checkpoints == [mark : Hours, all : Chains, recent : Chains, sweep : Hours,
                allDone : BOOLEAN, restDone : BOOLEAN]
NoCheckpoint == [mark |-> 0, all |-> NoChain, recent |-> NoChain, sweep |-> 0,
                 allDone |-> FALSE, restDone |-> FALSE]

Unstarted == [pc |-> "idle"]
Turns == [pc : {"read", "history", "recent", "rest", "stage", "hide", "delete", "insert", "save"},
          row : [status : {"staging", "approved"}, authorized : BOOLEAN],
          was : Checkpoints, next : Checkpoints, got : SUBSET (Sales \X Hours),
          warned : BOOLEAN, hidden : BOOLEAN,
          stale : BOOLEAN]  \* history: the lease was of another row than the one read

SeriesTypeOK ==
    /\ hour \in Hours /\ changed \in [Sales -> 0..hour] /\ odd \subseteq Sales
    /\ shop \in [owner : SeriesRuns \cup {NoSeries}, live : BOOLEAN,
                 status : {"staging", "approved"}, authorized : BOOLEAN,
                 reviewable : BOOLEAN, cursor : Checkpoints]
    /\ shop.live => shop.owner # NoSeries
    /\ kept \in [Sales -> Hours] /\ days \in {"whole", "partial"}
    /\ turn \in [SeriesRuns -> {Unstarted} \cup Turns]
    /\ exposed \in BOOLEAN /\ missed \subseteq Hours

SeriesInit ==
    /\ hour = 1 /\ changed = [s \in Sales |-> 0] /\ odd \in {{}, {1}}
    /\ \E status \in {"staging", "approved"} :
          shop = [owner |-> NoSeries, live |-> FALSE, status |-> status, authorized |-> FALSE,
                  reviewable |-> FALSE, cursor |-> NoCheckpoint]
    /\ kept = [s \in Sales |-> 0] /\ days = "whole"
    /\ turn = [r \in SeriesRuns |-> Unstarted]
    /\ exposed = FALSE /\ missed = {}

-----------------------------------------------------------------------------
(* The shop, the clock, and the owner's decisions.                         *)

\* At most once in an hour.
Change(s) ==
    /\ changed[s] < hour /\ changed' = [changed EXCEPT ![s] = hour]
    /\ UNCHANGED << hour, odd, shop, kept, days, turn, exposed, missed >>

PutRight ==
    /\ odd # {} /\ odd' = {}
    /\ UNCHANGED << hour, changed, shop, kept, days, turn, exposed, missed >>

HourPasses ==
    /\ hour < LastHour /\ hour' = hour + 1
    /\ UNCHANGED << changed, odd, shop, kept, days, turn, exposed, missed >>

\* exclude_data: not during a live import.
Exclude ==
    /\ ~shop.live
    /\ shop' = [shop EXCEPT !.status = "staging", !.authorized = FALSE]
    /\ UNCHANGED << hour, changed, odd, kept, days, turn, exposed, missed >>

\* approve_data: the reviewed import is the last one, without a warning; the
\* next one will publish.  An expired lease is cleared.
Authorize ==
    /\ shop.status = "staging" /\ shop.reviewable /\ ~shop.live
    /\ \E s \in Sales : kept[s] # 0
    /\ shop' = [shop EXCEPT !.owner = NoSeries, !.authorized = TRUE]
    /\ UNCHANGED << hour, changed, odd, kept, days, turn, exposed, missed >>

-----------------------------------------------------------------------------
(* A run.                                                                  *)

RowOf(c) == [status |-> c.status, authorized |-> c.authorized]

ReadShop(r) ==
    /\ turn[r] = Unstarted
    /\ turn' = [turn EXCEPT ![r] =
           [pc |-> "read", row |-> RowOf(shop), was |-> shop.cursor, next |-> shop.cursor,
            got |-> {}, warned |-> FALSE, hidden |-> FALSE, stale |-> FALSE]]
    /\ UNCHANGED << hour, changed, odd, shop, kept, days, exposed, missed >>

\* The lease, or the active run is answered.
LeaseShop(r) ==
    /\ turn[r].pc = "read"
    /\ \/ /\ ~shop.live /\ shop' = [shop EXCEPT !.owner = r, !.live = TRUE]
          /\ turn' = [turn EXCEPT ![r].pc = "history", ![r].stale = turn[r].row # RowOf(shop)]
       \/ shop.live /\ turn' = [turn EXCEPT ![r] = Unstarted] /\ UNCHANGED shop
    /\ UNCHANGED << hour, changed, odd, kept, days, exposed, missed >>

AheadOf(c) == {s \in Sales : s > c.after /\ changed[s] # 0 /\ changed[s] >= c.since}

\* One page of a chain, and the URL of the next.
PageOf(c) == IF AheadOf(c) = {} THEN {} ELSE {<< Min(AheadOf(c)), changed[Min(AheadOf(c))] >>}
After(c) == IF Cardinality(AheadOf(c)) <= 1 THEN NoChain ELSE [c EXCEPT !.after = Min(AheadOf(c))]

\* The history is asked until it has ended in this cycle.
FetchHistory(r) ==
    LET was == turn[r].was
        c == IF was.all # NoChain THEN was.all ELSE [after |-> 0, since |-> was.mark]
    IN /\ turn[r].pc = "history"
       /\ turn' = [turn EXCEPT ![r].pc = "recent",
              ![r].got = IF was.allDone THEN {} ELSE PageOf(c),
              ![r].next.all = IF was.allDone THEN NoChain ELSE After(c),
              ![r].next.allDone = was.allDone \/ After(c) = NoChain]
       /\ UNCHANGED << hour, changed, odd, shop, kept, days, exposed, missed >>

DayAgo == IF hour > RecentHours THEN hour - RecentHours ELSE 0

\* Variant: every run begins with the first recent page.
RecentFromStart(was) == [after |-> 0, since |-> DayAgo]

\* A recent chain is gone through before the next one begins.
RecentChain(was) == IF was.recent # NoChain THEN was.recent ELSE [after |-> 0, since |-> DayAgo]

FetchRecent(r) ==
    LET was == turn[r].was
        c == RecentChain(was)
    IN /\ turn[r].pc = "recent"
       /\ turn' = [turn EXCEPT ![r].pc = "rest",
              ![r].got = @ \cup PageOf(c),
              ![r].next.recent = After(c),
              ![r].next.sweep = IF was.recent # NoChain THEN was.sweep ELSE hour]
       /\ UNCHANGED << hour, changed, odd, shop, kept, days, exposed, missed >>

\* The other feeds, one after another.  One that is unavailable is left out, and
\* keeps the history open; sales that cannot be normalized are counted.
FetchRest(r) ==
    /\ turn[r].pc = "rest"
    /\ \E done, covered \in BOOLEAN :
          /\ turn[r].was.restDone => done
          /\ turn' = [turn EXCEPT ![r].pc = "stage",
                 ![r].next.restDone = done,
                 ![r].next.allDone = @ /\ covered,
                 ![r].warned = \E p \in turn[r].got : p[1] \in odd,
                 ![r].got = {p \in @ : p[1] \notin odd}]
    /\ UNCHANGED << hour, changed, odd, shop, kept, days, exposed, missed >>

Renewed(r) == shop.owner = r /\ shop.live

\* publishCanonical: the source is approved, or was authorized, and no warning.
Publishes(r) ==
    (turn[r].row.status = "approved" \/ turn[r].row.authorized) /\ ~turn[r].warned

StageSales(r) ==
    /\ turn[r].pc = "stage" /\ Renewed(r)
    /\ kept' = [s \in Sales |-> Max({kept[s]} \cup {v \in Hours : << s, v >> \in turn[r].got})]
    /\ turn' = [turn EXCEPT ![r].pc = IF ~Publishes(r) THEN "save"
                                      ELSE IF turn[r].row.status = "approved" THEN "hide"
                                      ELSE "delete"]
    /\ UNCHANGED << hour, changed, odd, shop, days, exposed, missed >>

HideSource(r) ==
    /\ turn[r].pc = "hide" /\ shop.owner = r /\ shop.status = "approved"
    /\ shop' = [shop EXCEPT !.status = "staging", !.authorized = TRUE]
    /\ turn' = [turn EXCEPT ![r].pc = "delete", ![r].hidden = TRUE]
    /\ UNCHANGED << hour, changed, odd, kept, days, exposed, missed >>

DeleteDays(r) ==
    /\ turn[r].pc = "delete" /\ Renewed(r)
    /\ days' = "partial" /\ turn' = [turn EXCEPT ![r].pc = "insert"]
    /\ exposed' = (turn[r].stale /\ shop.status = "approved")
    /\ UNCHANGED << hour, changed, odd, shop, kept, missed >>

InsertDays(r) ==
    /\ turn[r].pc = "insert" /\ Renewed(r)
    /\ days' = "whole" /\ turn' = [turn EXCEPT ![r].pc = "save"]
    /\ exposed' = FALSE
    /\ UNCHANGED << hour, changed, odd, shop, kept, missed >>

\* nextCheckpoint: when every chain has ended, the watermark is this moment.
NextCheckpoint(r) ==
    LET next == turn[r].next
    IN IF next.allDone /\ next.restDone /\ next.recent = NoChain
       THEN [NoCheckpoint EXCEPT !.mark = hour, !.sweep = next.sweep]
       ELSE next

\* Broken days are shown, by a run that read another row or as before.
StillExposed(r, status) ==
    days = "partial" /\ status = "approved" /\ (exposed \/ turn[r].stale)

\* Between the recent sweeps of two cursors lies more than a day.
Skipped(was, next) == {t \in Hours : was.sweep <= t /\ t + RecentHours < next.sweep}

\* A warning keeps the cursor and the last approved figures.
SaveShop(r) ==
    /\ turn[r].pc = "save" /\ Renewed(r)
    /\ LET approved == Publishes(r) \/ turn[r].row.status = "approved"
       IN shop' = [owner |-> NoSeries, live |-> FALSE,
                   status |-> IF approved THEN "approved" ELSE "staging",
                   authorized |-> ~approved /\ turn[r].row.authorized,
                   reviewable |-> ~turn[r].warned,
                   cursor |-> IF turn[r].warned THEN turn[r].was ELSE NextCheckpoint(r)]
    /\ missed' = IF turn[r].warned THEN missed
                 ELSE missed \cup Skipped(turn[r].was, turn[r].next)
    /\ exposed' = StillExposed(r, shop'.status)
    /\ turn' = [turn EXCEPT ![r] = Unstarted]
    /\ UNCHANGED << hour, changed, odd, kept, days >>

\* A failed call or a lost lease.  The row returns to what was read, or to a
\* hidden source that the next run will publish again.
FailTurn(r) ==
    /\ turn[r].pc \notin {"idle", "read"}
    /\ shop' = IF shop.owner # r THEN shop
               ELSE [shop EXCEPT
                        !.owner = NoSeries, !.live = FALSE, !.reviewable = FALSE,
                        !.status = IF turn[r].hidden THEN "staging" ELSE turn[r].row.status,
                        !.authorized = turn[r].hidden \/ turn[r].row.authorized]
    /\ exposed' = IF shop.owner = r THEN StillExposed(r, shop'.status) ELSE exposed
    /\ turn' = [turn EXCEPT ![r] = Unstarted]
    /\ UNCHANGED << hour, changed, odd, kept, days, missed >>

\* An eviction.
DropTurn(r) ==
    /\ turn[r] # Unstarted /\ turn' = [turn EXCEPT ![r] = Unstarted]
    /\ UNCHANGED << hour, changed, odd, shop, kept, days, exposed, missed >>

ShopLeaseExpires ==
    /\ shop.live /\ shop' = [shop EXCEPT !.live = FALSE]
    /\ UNCHANGED << hour, changed, odd, kept, days, turn, exposed, missed >>

SeriesNext ==
    \/ \E s \in Sales : Change(s)
    \/ PutRight \/ HourPasses \/ Exclude \/ Authorize \/ ShopLeaseExpires
    \/ \E r \in SeriesRuns :
          \/ ReadShop(r) \/ LeaseShop(r) \/ FetchHistory(r) \/ FetchRecent(r) \/ FetchRest(r)
          \/ StageSales(r) \/ HideSource(r) \/ DeleteDays(r) \/ InsertDays(r)
          \/ SaveShop(r) \/ FailTurn(r) \/ DropTurn(r)

SeriesSpec == SeriesInit /\ [][SeriesNext]_seriesVars

-----------------------------------------------------------------------------
(* Properties.                                                             *)

\* "Keep the existing publication gate closed while bounded write batches and
\* lease renewals complete": an approved source shows days that are deleted or
\* half inserted only where they were deleted, or its approval was written back,
\* by a run whose lease came after the row it had read was changed; never
\* through a failure, an eviction, a takeover or a decision of the owner alone,
\* and no longer once a run has built the days again.
GateIsClosed == shop.status = "approved" /\ ~exposed => days = "whole"

\* "Failed normalization preserves the previous cursor so records are retried",
\* and nothing strands behind a long history: the newest version of every sale
\* is staged, or the saved cursor will still come to it, unless it is of an hour
\* that lay between two recent sweeps more than a day apart.  A run that saves a
\* cursor made of an old one loses nothing.
SalesAreCovered ==
    LET c == shop.cursor
        history == IF c.all # NoChain THEN c.all ELSE [after |-> 0, since |-> c.mark]
    IN \A s \in Sales : changed[s] # 0 =>
          \/ changed[s] = kept[s]
          \/ ~c.allDone /\ s \in AheadOf(history)
          \/ c.recent # NoChain /\ s \in AheadOf(c.recent)
          \/ changed[s] >= c.sweep \/ changed[s] \in missed

\* The import is complete, and is shown whole.
SeriesIsSound == SeriesTypeOK /\ GateIsClosed /\ SalesAreCovered
=============================================================================
