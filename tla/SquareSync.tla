----------------------------- MODULE SquareSync -----------------------------
(***************************************************************************)
(* The Square import of one connection: the connection row and its sync    *)
(* lease (server/integrations/connection.ts), the import attempts that     *)
(* compete for it (server/integrations/sync/square.ts), and the requests   *)
(* of the owner that touch the same row (approve, exclude, map and         *)
(* disconnect).  One action is one awaited database statement, one atomic  *)
(* D1 batch or one provider request; a Worker may stall between any two of *)
(* them, or be evicted.                                                    *)
(*                                                                         *)
(* Abstractions.  The clock `now` counts provider-side order updates, so   *)
(* two updates never share an instant.  Whether the lease has expired is a *)
(* flag that Expire may clear at any moment: a stall has no bounded length.*)
(* Of the four paginated feeds only the orders feed has contents; the      *)
(* others are the flag `rest` (some other feed still has a page).  Costs,  *)
(* catalogue, customers and money are left out.                            *)
(***************************************************************************)
EXTENDS Naturals, FiniteSets

CONSTANTS
  Runs,           \* import attempts, manual or scheduled; each executes once
  NoRun,          \* sync_lease_owner IS NULL
  Orders,         \* orders of the Square seller
  Locations,      \* locations of the Square seller, all discovered
  LocationOf,     \* the location an order belongs to
  MaxTime,        \* bound on provider-side order updates
  Overlap,        \* how far a new window reaches back before the watermark
  RestPages,      \* what the other feeds may answer: does a page remain?
  MappingChoices, \* the location decisions still open to the owner
  Requests        \* the other requests an instance explores

ASSUME NoRunAssumption    == NoRun \notin Runs
ASSUME BoundAssumption    == MaxTime \in Nat /\ Overlap \in Nat
ASSUME LocationAssumption == LocationOf \in [Orders -> Locations]
ASSUME RestAssumption     == FALSE \in RestPages /\ RestPages \subseteq BOOLEAN
ASSUME ChoicesAssumption  ==
  /\ MappingChoices \subseteq {"mapped", "unmapped", "ignored"}
  /\ Requests \subseteq {"exclude", "approve", "disconnect"}

VARIABLES
  now,        \* number of provider-side updates so far
  updatedAt,  \* updated_at of each order at the provider, 0 before it exists
  mapping,    \* integration_location_mappings: status and last change
  secret,     \* does integration_secrets hold this connection's tokens
  leaving,    \* a disconnect request is between its two writes
  conn,       \* the integration_connections row
  staged,     \* integration_staged_sales: staged_at rank of [order][version]
  stamps,     \* how many staged_at values have been taken
  metrics,    \* daily_business_metrics of this connection, with its writer
  pc,         \* where each attempt is
  job         \* the locals of each attempt

provider == <<now, updatedAt>>
owned    == <<mapping, secret, leaving>>
staging  == <<staged, stamps>>
attempts == <<pc, job>>
vars     == <<provider, owned, conn, staging, metrics, attempts>>

Time     == 0..MaxTime
Versions == 1..MaxTime
Statuses == {"mapped", "unmapped", "ignored"}
Cursors  == [financial : BOOLEAN, watermark : Time, start : Time, end : Time,
             orders : Time, rest : BOOLEAN]

NoCursor == [financial |-> FALSE, watermark |-> 0, start |-> 0, end |-> 0,
             orders |-> 0, rest |-> FALSE]
NoRows   == [o \in Orders |-> 0]
NoJob    == [cursor |-> NoCursor, promotion |-> "staging",
             authorized |-> FALSE, synced |-> FALSE, ticket |-> 0,
             window |-> NoCursor, mapped |-> {}, allResolved |-> FALSE,
             got |-> {}, orders |-> 0, rest |-> FALSE, stamp |-> 0,
             rows |-> NoRows]

Working == {"history", "mappings", "fetch", "save_token", "renew", "write",
            "decide", "build", "publish", "finish"}
Ending  == {"catch", "release"}
Over    == {"done", "crashed"}

(***************************************************************************)
(* The lease (connection.ts).                                              *)
(***************************************************************************)
LeaseActive == conn.owner # NoRun /\ conn.live
Holds(r)    == conn.owner = r /\ conn.version = job[r].ticket

\* Variant: a renewal that succeeds without looking at the row.
CanRenewBlind(r) == TRUE

CanRenew(r) == Holds(r) /\ conn.live

Released == [conn EXCEPT !.owner = NoRun, !.live = FALSE]

(***************************************************************************)
(* The window of an attempt (beginSquareSyncWindow and                     *)
(* beginSquareFinancialWindow): continue a saved window while any of its   *)
(* feeds has a page left, else open one that reaches back from the         *)
(* watermark.  A cursor of the old importer is discarded.                  *)
(***************************************************************************)
Resumes(c) == c.financial /\ (c.orders # 0 \/ c.rest)

BackFrom(w) == IF w > Overlap THEN w - Overlap ELSE 0

BeginWindow(c) ==
  IF Resumes(c) THEN c
  ELSE [financial |-> c.financial,
        watermark |-> IF c.financial THEN c.watermark ELSE 0,
        start     |-> IF c.financial THEN BackFrom(c.watermark) ELSE 0,
        end       |-> now, orders |-> 0, rest |-> FALSE]

RefreshesHistory(r) == ~job[r].cursor.financial

\* A resumed window without an orders token has the orders feed completed.
OrdersCompleted(r) == Resumes(job[r].cursor) /\ job[r].window.orders = 0

\* Orders the next page can hold: in the window, at a mapped location, past the
\* page token.
Remaining(r) ==
  {o \in Orders : /\ ~OrdersCompleted(r)
                  /\ LocationOf[o] \in job[r].mapped
                  /\ updatedAt[o] > job[r].window.orders
                  /\ updatedAt[o] \in job[r].window.start..job[r].window.end}

HasMore(r) == job[r].orders # 0 \/ job[r].rest

\* publish of l.141, from the promotion fields of the row as first read.
Publishes(r) == /\ ~RefreshesHistory(r)
                /\ job[r].authorized \/ job[r].promotion = "approved"
                /\ job[r].allResolved
                /\ ~HasMore(r)

\* INSERT ... ON CONFLICT DO NOTHING: a version keeps its first staged_at.
StagedWith(part, stamp) ==
  [o \in Orders |-> [v \in Versions |->
     IF staged[o][v] = 0 /\ <<o, v>> \in part THEN stamp ELSE staged[o][v]]]

IsLatest(o, v) ==
  staged[o][v] # 0 /\ \A w \in Versions : staged[o][w] <= staged[o][v]

\* The version of an order whose row has the latest staged_at, 0 if none.
LatestStaged(o) ==
  IF \E v \in Versions : IsLatest(o, v)
  THEN CHOOSE v \in Versions : IsLatest(o, v) ELSE 0
-----------------------------------------------------------------------------
\* A connection fresh from the OAuth callback, and one whose reviewed history
\* was published before.
NewConnection ==
  [status |-> "connected", promotion |-> "staging", authorized |-> FALSE,
   owner |-> NoRun, live |-> FALSE, version |-> 0, cursor |-> NoCursor,
   synced |-> FALSE, reviewable |-> FALSE]

EstablishedConnection ==
  [NewConnection EXCEPT !.promotion = "approved", !.version = 1,
                        !.cursor.financial = TRUE, !.synced = TRUE,
                        !.reviewable = TRUE]

Init ==
  /\ now = 0
  /\ updatedAt = [o \in Orders |-> 0]
  /\ mapping \in [Locations -> [status : {"mapped", "unmapped"}, since : {0}]]
  /\ secret = TRUE
  /\ leaving = FALSE
  /\ \/ conn = NewConnection
     \/ conn = EstablishedConnection /\ \A l \in Locations : mapping[l].status = "mapped"
  /\ staged = [o \in Orders |-> [v \in Versions |-> 0]]
  /\ stamps = 0
  /\ metrics = [version |-> conn.version, rows |-> NoRows]
  /\ pc = [r \in Runs |-> "idle"]
  /\ job = [r \in Runs |-> NoJob]

Goto(r, l) == pc' = [pc EXCEPT ![r] = l]

\* The attempt ends and its locals with it.
End(r, l) == Goto(r, l) /\ job' = [job EXCEPT ![r] = NoJob]
(***************************************************************************)
(* An import attempt (runSync of sync/square.ts).                          *)
(***************************************************************************)
\* requireOwnedIntegrationConnection: the row is read before the lease is taken.
ReadConnection(r) ==
  /\ pc[r] = "idle"
  /\ conn.status = "connected"
  /\ job' = [job EXCEPT ![r].cursor = conn.cursor,
                        ![r].promotion = conn.promotion,
                        ![r].authorized = conn.authorized,
                        ![r].synced = conn.synced]
  /\ Goto(r, "read")
  /\ UNCHANGED <<provider, owned, conn, staging, metrics>>

\* Variant: a lease is taken whoever holds it.
AcquireLeaseByForce(r) ==
  /\ pc[r] = "read"
  /\ conn' = [conn EXCEPT !.owner = r, !.live = TRUE, !.version = @ + 1]
  /\ job' = [job EXCEPT ![r].ticket = conn.version + 1,
                        ![r].window = BeginWindow(job[r].cursor)]
  /\ Goto(r, IF RefreshesHistory(r) THEN "history" ELSE "mappings")
  /\ UNCHANGED <<provider, owned, staging, metrics>>

\* A free or expired lease is taken and the version raised, whatever the status
\* of the connection is by now.  The window opens after that.
AcquireLease(r) ==
  /\ pc[r] = "read"
  /\ ~LeaseActive
  /\ conn' = [conn EXCEPT !.owner = r, !.live = TRUE, !.version = @ + 1]
  /\ job' = [job EXCEPT ![r].ticket = conn.version + 1,
                        ![r].window = BeginWindow(job[r].cursor)]
  /\ Goto(r, IF RefreshesHistory(r) THEN "history" ELSE "mappings")
  /\ UNCHANGED <<provider, owned, staging, metrics>>

Coalesce(r) ==
  /\ pc[r] = "read"
  /\ LeaseActive
  /\ End(r, "done")
  /\ UNCHANGED <<provider, owned, conn, staging, metrics>>

\* History of the old importer returns to staging; a lost lease goes unnoticed.
StageHistory(r) ==
  /\ pc[r] = "history"
  /\ conn' = IF Holds(r)
             THEN [conn EXCEPT !.promotion = "staging", !.authorized = FALSE]
             ELSE conn
  /\ Goto(r, "mappings")
  /\ UNCHANGED <<provider, owned, staging, metrics, job>>

ReadMappings(r) ==
  /\ pc[r] = "mappings"
  /\ job' = [job EXCEPT
       ![r].mapped      = {l \in Locations : mapping[l].status = "mapped"},
       ![r].allResolved = \A l \in Locations : mapping[l].status # "unmapped"]
  /\ Goto(r, "fetch")
  /\ UNCHANGED <<provider, owned, conn, staging, metrics>>

\* accessToken with a token about to expire: the row is read, Square is asked
\* for a new token, and only then is the row written back.
RefreshToken(r) ==
  /\ pc[r] = "fetch"
  /\ secret
  /\ Goto(r, "save_token")
  /\ UNCHANGED <<provider, owned, conn, staging, metrics, job>>

\* saveSquareTokens: an upsert, which restores a row deleted in the meantime.
SaveToken(r) ==
  /\ pc[r] = "save_token"
  /\ secret' = TRUE
  /\ Goto(r, "fetch")
  /\ UNCHANGED <<provider, mapping, leaving, conn, staging, metrics, job>>

\* One page of every unfinished feed.  The orders feed is sorted by updated_at:
\* a page is a nonempty prefix of what remains and its token the position of
\* its last order; without a token the page is the rest of the feed.
FetchPage(r) ==
  /\ pc[r] = "fetch"
  /\ secret
  /\ job[r].mapped # {} \/ OrdersCompleted(r)
  /\ \E rest \in RestPages, token \in {0} \cup {updatedAt[o] : o \in Remaining(r)} :
       /\ rest => ~Resumes(job[r].cursor) \/ job[r].window.rest
       /\ job' = [job EXCEPT
            ![r].got = {<<o, updatedAt[o]>> : o \in
                         {p \in Remaining(r) : token = 0 \/ updatedAt[p] <= token}},
            ![r].orders = token,
            ![r].rest = rest]
  /\ Goto(r, "renew")
  /\ UNCHANGED <<provider, owned, conn, staging, metrics>>

\* The staged_at of the page is taken, then the lease is renewed.
RenewBeforeWrite(r) ==
  /\ pc[r] = "renew"
  /\ CanRenew(r)
  /\ stamps' = stamps + 1
  /\ job' = [job EXCEPT ![r].stamp = stamps + 1]
  /\ Goto(r, "write")
  /\ UNCHANGED <<provider, owned, conn, staged, metrics>>

\* Commerce rows and staged sales: nothing checks the lease from here on.
WriteStaging(r) ==
  /\ pc[r] = "write"
  /\ staged' = StagedWith(job[r].got, job[r].stamp)
  /\ Goto(r, "decide")
  /\ UNCHANGED <<provider, owned, conn, stamps, metrics, job>>

SkipPublication(r) ==
  /\ pc[r] = "decide"
  /\ ~Publishes(r)
  /\ Goto(r, "finish")
  /\ UNCHANGED <<provider, owned, conn, staging, metrics, job>>

RenewBeforePublish(r) ==
  /\ pc[r] = "decide"
  /\ Publishes(r)
  /\ CanRenew(r)
  /\ Goto(r, "build")
  /\ UNCHANGED <<provider, owned, conn, staging, metrics, job>>

BuildRows(r) ==
  /\ pc[r] = "build"
  /\ job' = [job EXCEPT ![r].rows = [o \in Orders |-> LatestStaged(o)]]
  /\ Goto(r, "publish")
  /\ UNCHANGED <<provider, owned, conn, staging, metrics>>

\* Variant: the batch asks for a connected row only.
MayPublishUnfenced(r) == conn.status = "connected"

\* The first statement of the atomic batch aborts it unless this holds.
MayPublish(r) == conn.status = "connected" /\ CanRenew(r)

PublishBatch(r) ==
  /\ pc[r] = "publish"
  /\ MayPublish(r)
  /\ metrics' = [version |-> job[r].ticket, rows |-> job[r].rows]
  /\ Goto(r, "finish")
  /\ UNCHANGED <<provider, owned, conn, staging, job>>

\* Variant: the watermark moves with every page.
CursorAfterEager(r) ==
  [job[r].window EXCEPT !.financial = TRUE, !.orders = job[r].orders,
                        !.rest = job[r].rest, !.watermark = job[r].window.end]

\* The cursor an attempt leaves: the watermark moves when no page is left.
CursorAfter(r) ==
  [job[r].window EXCEPT !.financial = TRUE,
                        !.orders    = job[r].orders,
                        !.rest      = job[r].rest,
                        !.watermark = IF HasMore(r) THEN @ ELSE job[r].window.end]

\* Variant: a complete pull approves the source by itself.
PromotionAfterEager(r) ==
  IF RefreshesHistory(r) THEN "staging"
  ELSE IF HasMore(r) THEN job[r].promotion ELSE "approved"

PromotionAfter(r) ==
  IF RefreshesHistory(r) THEN "staging"
  ELSE IF HasMore(r)     THEN job[r].promotion
  ELSE IF Publishes(r)   THEN "approved" ELSE "staging"

\* The last update of a successful attempt also frees the lease.  It needs the
\* lease to be this attempt's still, expired or not, and asks nothing of status.
Finish(r) ==
  /\ pc[r] = "finish"
  /\ Holds(r)
  /\ conn' = [Released EXCEPT
       !.cursor     = CursorAfter(r),
       !.synced     = IF HasMore(r) THEN job[r].synced ELSE TRUE,
       !.promotion  = PromotionAfter(r),
       !.authorized = job[r].authorized /\ ~RefreshesHistory(r) /\ ~Publishes(r),
       !.reviewable = ~HasMore(r) /\ job[r].allResolved]
  /\ End(r, "done")
  /\ UNCHANGED <<provider, owned, staging, metrics>>

\* The rows an attempt may have written when it stops: any part of its page.
Written(r) == IF pc[r] = "write" THEN SUBSET job[r].got ELSE {{}}

\* Any awaited call may throw: provider, storage, validation, or a lost lease.
Throw(r) ==
  /\ pc[r] \in Working
  /\ \E part \in Written(r) : staged' = StagedWith(part, job[r].stamp)
  /\ Goto(r, "catch")
  /\ UNCHANGED <<provider, owned, conn, stamps, metrics, job>>

\* The catch block returns the source to staging if the lease is still held.
Demote(r) ==
  /\ pc[r] = "catch"
  /\ conn' = IF Holds(r)
             THEN [conn EXCEPT !.promotion = "staging", !.authorized = FALSE,
                               !.reviewable = FALSE]
             ELSE conn
  /\ Goto(r, "release")
  /\ UNCHANGED <<provider, owned, staging, metrics, job>>

\* Variant: a lease that has expired is not given back.
ReleaseLeaseIfLive(r) ==
  /\ pc[r] = "release"
  /\ conn' = IF CanRenew(r) THEN Released ELSE conn
  /\ End(r, "done")
  /\ UNCHANGED <<provider, owned, staging, metrics>>

ReleaseLease(r) ==
  /\ pc[r] = "release"
  /\ conn' = IF Holds(r) THEN Released ELSE conn
  /\ End(r, "done")
  /\ UNCHANGED <<provider, owned, staging, metrics>>

\* The Worker is evicted: nothing more of the attempt runs.  The same happens
\* when acquireIntegrationSyncLease fails to read back the version, before the
\* try block is entered.
Crash(r) ==
  /\ pc[r] \in Working \cup Ending
  /\ \E part \in Written(r) : staged' = StagedWith(part, job[r].stamp)
  /\ End(r, "crashed")
  /\ UNCHANGED <<provider, owned, conn, stamps, metrics>>
-----------------------------------------------------------------------------
(***************************************************************************)
(* Everything else that happens to the connection.                         *)
(***************************************************************************)
\* Five minutes pass since the lease was last renewed.
Expire ==
  /\ LeaseActive
  /\ conn' = [conn EXCEPT !.live = FALSE]
  /\ UNCHANGED <<provider, owned, staging, metrics, attempts>>

\* An order appears or changes at Square.
UpdateOrder(o) ==
  /\ now < MaxTime
  /\ now' = now + 1
  /\ updatedAt' = [updatedAt EXCEPT ![o] = now + 1]
  /\ UNCHANGED <<owned, conn, staging, metrics, attempts>>

\* locations/route.ts: a location decision of an owner or admin.
MapLocation(l, status) ==
  /\ conn.status = "connected"
  /\ mapping[l].status # status
  /\ mapping' = [mapping EXCEPT ![l] = [status |-> status, since |-> now]]
  /\ UNCHANGED <<provider, secret, leaving, conn, staging, metrics, attempts>>

\* integrations/route.ts, exclude_data.
ExcludeData ==
  /\ conn.status = "connected"
  /\ ~LeaseActive
  /\ conn' = [conn EXCEPT !.promotion = "staging", !.authorized = FALSE]
  /\ UNCHANGED <<provider, owned, staging, metrics, attempts>>

\* integrations/route.ts, approve_data: an expired lease is cleared first ...
ClearExpiredLease ==
  /\ conn.status = "connected"
  /\ conn.promotion = "staging"
  /\ conn.synced
  /\ conn.owner # NoRun
  /\ ~conn.live
  /\ conn' = Released
  /\ UNCHANGED <<provider, owned, staging, metrics, attempts>>

\* ... and the reviewed import authorizes the next complete one to publish.
ApproveData ==
  /\ conn.status = "connected"
  /\ conn.promotion = "staging"
  /\ conn.synced
  /\ conn.reviewable
  /\ conn.owner = NoRun
  /\ \A l \in Locations : mapping[l].status # "unmapped"
  /\ \E o \in Orders : LatestStaged(o) # 0
  /\ conn' = [conn EXCEPT !.authorized = TRUE]
  /\ UNCHANGED <<provider, owned, staging, metrics, attempts>>

\* disconnect/route.ts deletes the tokens, then revokes the connection; it
\* leaves the lease alone.
DeleteSecret ==
  /\ ~leaving
  /\ secret' = FALSE
  /\ leaving' = TRUE
  /\ UNCHANGED <<provider, mapping, conn, staging, metrics, attempts>>

Disconnect ==
  /\ leaving
  /\ leaving' = FALSE
  /\ conn' = [conn EXCEPT !.status = "revoked", !.promotion = "blocked",
                          !.authorized = FALSE]
  /\ UNCHANGED <<provider, mapping, secret, staging, metrics, attempts>>
-----------------------------------------------------------------------------
Attempt(r) ==
  \/ ReadConnection(r) \/ AcquireLease(r) \/ Coalesce(r) \/ StageHistory(r)
  \/ ReadMappings(r) \/ RefreshToken(r) \/ SaveToken(r) \/ FetchPage(r)
  \/ RenewBeforeWrite(r) \/ WriteStaging(r) \/ SkipPublication(r)
  \/ RenewBeforePublish(r) \/ BuildRows(r) \/ PublishBatch(r) \/ Finish(r)
  \/ Throw(r) \/ Demote(r) \/ ReleaseLease(r) \/ Crash(r)

Environment ==
  \/ Expire
  \/ \E o \in Orders : UpdateOrder(o)
  \/ \E l \in Locations, s \in MappingChoices : MapLocation(l, s)
  \/ "exclude" \in Requests /\ ExcludeData
  \/ "approve" \in Requests /\ (ClearExpiredLease \/ ApproveData)
  \/ "disconnect" \in Requests /\ (DeleteSecret \/ Disconnect)

Next == (\E r \in Runs : Attempt(r)) \/ Environment

Spec == Init /\ [][Next]_vars
-----------------------------------------------------------------------------
(***************************************************************************)
(* Properties.                                                             *)
(***************************************************************************)
\* A lease without an owner has no expiry either.
Connections ==
  {c \in [status : {"connected", "revoked"}, promotion : {"blocked", "staging", "approved"},
          authorized : BOOLEAN, owner : Runs \cup {NoRun}, live : BOOLEAN,
          version : Nat, cursor : Cursors, synced : BOOLEAN, reviewable : BOOLEAN] :
     c.live => c.owner # NoRun}

Jobs ==
  [cursor : Cursors, promotion : {"blocked", "staging", "approved"},
   authorized : BOOLEAN, synced : BOOLEAN, ticket : Nat, window : Cursors,
   mapped : SUBSET Locations, allResolved : BOOLEAN,
   got : SUBSET (Orders \X Versions), orders : Time, rest : BOOLEAN,
   stamp : Nat, rows : [Orders -> Time]]

\* The rows and the locals of every attempt have their types, and the two lease
\* columns are set and cleared together.
TypeOK ==
  /\ now \in Time
  /\ updatedAt \in [Orders -> Time]
  /\ mapping \in [Locations -> [status : Statuses, since : Time]]
  /\ secret \in BOOLEAN
  /\ leaving \in BOOLEAN
  /\ conn \in Connections
  /\ staged \in [Orders -> [Versions -> Nat]]
  /\ stamps \in Nat
  /\ metrics \in [version : Nat, rows : [Orders -> Time]]
  /\ pc \in [Runs -> {"idle", "read"} \cup Working \cup Ending \cup Over]
  /\ job \in [Runs -> Jobs]

\* The saved watermark is a promise that nothing before it need be asked for
\* again: an order of a mapped location that changed after the mapping and up
\* to the watermark is staged in its present version, whatever attempts
\* overlapped, resumed a page chain, worked on a stale cursor or were evicted.
WatermarkNeverSkipsOrders ==
  \A o \in Orders :
    /\ mapping[LocationOf[o]].status = "mapped"
    /\ updatedAt[o] > mapping[LocationOf[o]].since
    /\ updatedAt[o] <= conn.cursor.watermark
    => staged[o][updatedAt[o]] # 0

\* Reports rank the staged versions of an order by staged_at.  Although writes
\* to staging never check the lease, a superseded attempt cannot make an older
\* version outrank a newer one.
NewestVersionWins ==
  \A o \in Orders : \A v, w \in Versions :
    v < w /\ staged[o][v] # 0 /\ staged[o][w] # 0 => staged[o][v] < staged[o][w]

\* An attempt that entered its try block and was not evicted leaves no lease
\* behind, on any exit path, whatever happened to the lease in the meantime.
NoLeakedLease == \A r \in Runs : pc[r] = "done" => conn.owner # r

\* Every way out of an attempt gives the lease back, and both of its columns.
LeasesAreReturned == TypeOK /\ NoLeakedLease

\* Reports read a connection only when it is approved: an approved connection
\* has a published snapshot.
ApprovedMeansPublished == conn.promotion = "approved" => metrics.version # 0

\* The published snapshot never goes back to an older version of an order, in
\* particular not when a stalled attempt wakes up after a newer publication.
PublishedNeverRegresses ==
  [][\A o \in Orders : metrics'.rows[o] >= metrics.rows[o]]_vars

\* Once the connection is disconnected an import still in flight cannot replace
\* the published snapshot.
DisconnectedNeverPublishes ==
  [][conn.status = "revoked" => UNCHANGED metrics]_vars

\* What an attempt that is late in any way may not do to the published snapshot.
LateRunsPublishNothing == PublishedNeverRegresses /\ DisconnectedNeverPublishes

\* What the lease promises of publication, whatever is published.
Fence == INSTANCE FencedPublication
           WITH Holders <- Runs, Nobody <- NoRun, holder <- conn.owner,
                live <- conn.live, term <- conn.version,
                published <- metrics.version

FencedSpec == Fence!Spec
-----------------------------------------------------------------------------
(***************************************************************************)
(* The inductive invariants behind the theorems of SquareSyncProofs.       *)
(***************************************************************************)
\* Only an attempt at work, or evicted at work, owns the lease, and an owner
\* at work has the version of the row as its ticket.
OwnersAtWork ==
  \A r \in Runs :
    /\ conn.owner = r => pc[r] \in Working \cup Ending \cup {"crashed"}
    /\ pc[r] \in Working \cup Ending =>
         /\ job[r].ticket \in 1..conn.version
         /\ conn.owner = r => job[r].ticket = conn.version

\* The holder has not published yet when its turn to publish comes.
OnePublicationPerTerm ==
  /\ metrics.version <= conn.version
  /\ \A r \in Runs : Holds(r) /\ pc[r] \in Working \ {"finish"} =>
                       metrics.version < conn.version

\* Whatever will write "approved" into the row knows of a publication.
ApprovalsFollowPublication ==
  /\ conn.promotion = "approved" => metrics.version # 0
  /\ \A r \in Runs :
       /\ job[r].promotion = "approved" => metrics.version # 0
       /\ pc[r] \in {"build", "publish"} => Publishes(r)
       /\ pc[r] = "finish" /\ Publishes(r) => metrics.version # 0

\* The attempts with a page in hand and its staged_at taken.
Stamped(r) == pc[r] = "write"

\* Versions that are staged or about to be are in the order of their stamps:
\* a page fetched under a lease that was lost is stamped before it was lost,
\* and never after a newer page.
StampsFollowVersions ==
  /\ \A o \in Orders : \A v \in Versions : staged[o][v] <= stamps
  /\ \A r \in Runs : Stamped(r) => job[r].stamp \in 1..stamps
  /\ \A o \in Orders : \A v, w \in Versions : v < w =>
       /\ staged[o][v] # 0 /\ staged[o][w] # 0 => staged[o][v] < staged[o][w]
       /\ \A r \in Runs : Stamped(r) =>
            /\ <<o, v>> \in job[r].got /\ staged[o][w] # 0 => job[r].stamp < staged[o][w]
            /\ <<o, w>> \in job[r].got /\ staged[o][v] # 0 => staged[o][v] < job[r].stamp
            /\ \A q \in Runs : Stamped(q) /\ <<o, v>> \in job[r].got /\ <<o, w>> \in job[q].got =>
                                job[r].stamp < job[q].stamp

\* What is known of an order is not ahead of the provider, and the page of the
\* lease holder is not behind anything stamped.
PagesAreCurrent ==
  /\ \A o \in Orders : updatedAt[o] <= now
  /\ \A r \in Runs, o \in Orders : \A v, w \in Versions :
       <<o, v>> \in job[r].got /\ <<o, w>> \in job[r].got => v = w
  /\ \A o \in Orders : \A v \in Versions :
       /\ staged[o][v] # 0 => v <= updatedAt[o]
       /\ \A r \in Runs : <<o, v>> \in job[r].got => v <= updatedAt[o]
  /\ \A r \in Runs : pc[r] = "renew" /\ Holds(r) =>
       \A o \in Orders : \A v, w \in Versions : <<o, v>> \in job[r].got =>
         /\ staged[o][w] # 0 => w <= v
         /\ \A q \in Runs : Stamped(q) /\ <<o, w>> \in job[q].got => w <= v

\* What is published, or about to be, is staged, and the holder's rows are not
\* behind the published ones.
SnapshotsAreStaged ==
  /\ \A o \in Orders : metrics.rows[o] # 0 => staged[o][metrics.rows[o]] # 0
  /\ \A r \in Runs : pc[r] = "publish" /\ Holds(r) =>
       \A o \in Orders :
         /\ job[r].rows[o] # 0 => staged[o][job[r].rows[o]] # 0
         /\ metrics.rows[o] <= job[r].rows[o]

\* An order the importer has to have: its location was mapped before its last
\* change.
Due(o) == /\ mapping[LocationOf[o]].status = "mapped"
          /\ updatedAt[o] > mapping[LocationOf[o]].since

\* The orders feed of window c has been read up to the page token `orders`, or
\* to its end if there is none.
ReadUpTo(c, orders, got) ==
  \A o \in Orders :
    /\ Due(o)
    /\ updatedAt[o] \in c.start..c.end
    /\ orders = 0 \/ updatedAt[o] <= orders
    => staged[o][updatedAt[o]] # 0 \/ <<o, updatedAt[o]>> \in got

\* A cursor promises what its watermark and its page token say.
Honest(c) ==
  /\ c.start <= c.watermark /\ c.start <= c.end
  /\ c.watermark <= now /\ c.end <= now
  /\ \A o \in Orders : Due(o) /\ updatedAt[o] <= c.watermark => staged[o][updatedAt[o]] # 0
  /\ Resumes(c) => ReadUpTo(c, c.orders, {})

\* What the locals of an attempt promise on the way to its last update.
HonestAttempt(r) ==
  /\ Honest(job[r].cursor)
  /\ pc[r] \in Working => /\ Honest(job[r].window)
                          /\ IF Resumes(job[r].cursor)
                             THEN job[r].window = job[r].cursor
                             ELSE job[r].window.orders = 0
  /\ pc[r] \in Working \ {"history", "mappings"} =>
       \A l \in Locations :
         mapping[l].status = "mapped" /\ mapping[l].since < job[r].window.end =>
           l \in job[r].mapped
  /\ pc[r] \in {"renew", "write"} =>
       ReadUpTo(job[r].window, job[r].orders, job[r].got)
  /\ pc[r] \in {"decide", "build", "publish", "finish"} =>
       ReadUpTo(job[r].window, job[r].orders, {})

\* Every cursor in circulation is honest, and the attempts keep it so.
CursorsAreHonest == Honest(conn.cursor) /\ \A r \in Runs : HonestAttempt(r)
=============================================================================
