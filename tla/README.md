# Vanteloq in TLA+

Models, model checks and proofs for the parts of Vanteloq in which several
requests, background jobs and outside services touch the same rows. The program
is one Cloudflare Worker (a Next application with a D1 database, R2 object
storage, Supabase sign-in and Azure document services). A Worker has no memory
that outlives a request: everything that coordinates two requests is a column,
a unique key, a trigger or an atomic D1 batch. That is why the modules are about
rows, leases, generations and compare-and-set updates, and why one action of a
model is one awaited statement, batch or provider call. Between any two of them
a request may stall for any time, fail, or be evicted without running its catch
and finally blocks.

## 1. Inventory

| Component | State it keeps | Operations | Interacts with | Status |
| --- | --- | --- | --- | --- |
| Square import (`server/integrations/sync/square.ts`, `connection.ts`, `square.ts`) | `integration_connections` (status, promotion, lease, version, cursor), staged sales, commerce rows, daily metrics, secrets | run an import attempt, take, renew and return the lease, refresh the token | Square, scheduler, owner's requests | partly: without the OAuth callback and the content of records |
| Review and approval of imported data (`api/v1/integrations/route.ts`) | promotion columns | approve, exclude | the same connection rows | partly: Square, Plaid, marketing |
| Background synchronization (`sync-scheduler.ts`, `sync-policy.ts`, `schedule/route.ts`) | schedules (lease, generation, next run, cycle), tick receipts | tick, claim, dispatch, finish, enable, pause | imports, receipts, cleanups | partly: without two enable requests at once |
| Webhook receipts (`square/webhook/route.ts`) | webhook events | queue, mark processed | scheduler | partly: without signatures and duplicates |
| Document processing (`document-processing.ts`, Azure clients) | documents (stage, lock, references), the object in R2 | process one step, resume, retry, clean up | Azure scan and extraction, R2 | partly: without missing configuration and content |
| Document deletion and cleanup (`document-deletion.ts`, `document-cleanup-scheduler.ts`) | tombstone, retry lease | request, resume, automatic retry | the copies above, accounting triggers | partly: without the retry delay and damaged rows |
| Accounting evidence (`bank-statement.ts`, `purchasing/route.ts`, triggers of `drizzle/0051`, `0052`) | statement imports, invoice matches, document status | approve, undo, match | documents | modelled |
| Document ingestion and email inbox (`document-ingest.ts`, `document-email.ts`) | upload intents, deliveries, grants of an address | reserve, write, commit, clean up, receive | R2, documents | modelled |
| Account deletion (`account-deletion.ts`) | job with stage, lease, sealed plan | request, confirm, bill, dispose, erase, forget | Supabase, Stripe, R2, all tables | modelled |
| Integration authorization (`integrations/*/authorize`, `callback`) | connection rows, OAuth states | authorize, call back, disconnect | providers | partly: Shopify and QuickBooks |
| Shopify store lock (`shopify-store-lock.ts`) | one lock row a store | claim, release if unused | authorizations, disconnects | modelled |
| Other POS imports (`integrations/sync/*`) | cursors, staged rows, lines and days | import a run's pages, publish | providers, owner's costs | partly: Deel and Shopify's publication left out |
| Marketing and finance providers (`marketing-routes.ts`, `plaid.ts`, `quickbooks.ts`) | connection rows, tokens, cursors, measurements, bank lines | select, sample, review, refresh, exchange, import, disconnect, erase | providers, reviewers | partly: Slack and the authorization of marketing left out |
| Provider privacy requests | requests and results | export, erase | provider rows | not modelled |
| Billing and entitlements (`server/billing/`) | checkout attempt, subscription row, Stripe events | check out, apply events, decide access | Stripe, account deletion | modelled |
| Team invitations and access (`team-*.ts`, `governance/route.ts`) | invitation grant, user and membership rows | invite, accept, manage, remove, decide access | the identity console | modelled |
| Communications, advisor | consents, messages, requests | send with consent, answer once | message and model providers | not modelled |
| BookLoQ ledger and metric imports | journals, periods, categories, statements, matches | post, reverse, lock, import, match | documents | partly: metric imports left out |
| Pure planning algorithms (`domain/`) | none | reorder engine, cash flow, lots, review queue, invoice amounts | pages | partly: statistical forecasts left out |
| Purchasing (`purchasing/route.ts`) | order, lines, receipts, matches | draft, approve, send, receive, invoice | documents | partly: suppliers and lists left out |
| Reporting sources (`source-authority.ts`, `reports/route.ts`) | mappings, choices | report, choose | imports | modelled |
| Schema and migrations (`db/schema.ts`, `drizzle/`) | columns, keys, triggers | | all of the above | partly: what the modelled components rely on |
| User interface, request handling and sessions | none that the server does not keep | render, route, validate | all of the above | not modelled |

What makes each correct, and what is hard about it:

* *Imports.* Reports may only read what a complete, reviewed import published.
  A run reads the row before it takes the lease, holds a lease of five minutes
  that a stall can outlast, and writes rows without looking at the lease again.
  A cursor is a promise never to ask for older changes again, kept by several
  runs that continue one another's page chains, also past midnight, past a list
  that shifts, and past records that could not be read.
* *Scheduler.* Ticks overlap; jobs outlive their lease; the owner pauses or
  renews the grant while a job runs; receipts are closed by a cutoff in time; a
  few jobs a tick have to be shared fairly.
* *Documents.* An original must not leave quarantine before its scan copy is
  gone, no copy may survive a confirmed deletion, nothing may be sent to a
  provider twice without being asked for, evidence may not be deleted, and no
  object may be in the bucket that no row names.
* *Money.* Two checkouts must not both be paid, events arrive late, twice and
  out of order, and an account that is closed must not be charged again.
* *People.* Two databases without a common transaction decide who is let in;
  several clerks act on the order, the journal or the statement they read a
  while ago.
* *Figures.* Rounding up and capping down meet at boundaries; weeks, days and
  buckets must neither lose nor repeat an amount.

`PROJECT.json` lists every component with what is left out of it, and every
hazard with the line where it bites and the properties that would catch it.

## 2. Modules

| Module | Models | Theorems in |
| --- | --- | --- |
| `FencedPublication` | abstract specification: one publisher at a time, publications in the order of the leases; `SquareSync` implements it | `SquareSyncProofs` |
| `SquareSync` | the connection row, import attempts, the owner's requests, orders at Square | `SquareSyncProofs` |
| `SquareTrust` | `SquareSync` with the owner's last decision as history, against what documents say | |
| `SyncScheduler` | one schedule row, jobs, the owner's decisions, webhook receipts | `SyncSchedulerProofs` |
| `SyncTick` | many schedules competing for the jobs of a tick | `WorkspaceProofs` |
| `DocumentPipeline` | one document: row, object, provider copies, requests, ticks | `DocumentProofs` |
| `DeletionJob` | what others see of an account deletion; extended by the next two | |
| `Billing` | checkout, Stripe sessions and subscriptions, webhook deliveries | `ClosingProofs` |
| `DocumentIngest` | uploads, email deliveries, invoice originals, cleaners | `ClosingProofs` |
| `AccountDeletion` | the deletion job; extends both, so that they go on around it | `ClosingProofs` |
| `FeedCycles` | Stripe, Clover and Shopify: feeds read page by page over many runs | `ImportProofs` |
| `PaymentDays` | Moneris: payments read day by day | `ImportProofs` |
| `SeriesImport` | Lightspeed R: history beside recent sweeps, and the gate of a published source | `ImportProofs` |
| `BankFeed` | Plaid: exchange, import, notices, approval, disconnection, erasure | `ImportProofs` |
| `QuickBooksGrant` | authorization, refresh and removal of a company | `ProviderProofs` |
| `MarketingMeasurements` | Google and Meta: selection, sample, review, refresh | `ProviderProofs` |
| `ReportSources` | which connection a report counts, and how that is chosen | `ProviderProofs` |
| `TeamAccess` | invitation, acceptance, removal, sign-up, the access decision | `WorkspaceProofs` |
| `StoreConnection` | authorizations of one Shopify store and its lock | `WorkspaceProofs` |
| `StatementImport` | bank statements: import, undo, match, deletion of the document | `AccountingProofs` |
| `Purchasing` | one purchase order from draft to invoice | `AccountingProofs` |
| `Ledger` | journals, reversals, periods, categories | `AccountingProofs` |
| `OwnerCosts` | the owner's costs beside an import that writes the same lines | `AccountingProofs` |
| `ReorderEngine`, `CashFlow` | reorder recommendation; thirteen-week forecast, buckets, suggested matches | `AccountingProofs` |
| `StockLots`, `ReviewQueue` | lots by risk; the review queue and invoice amounts | |

The `MC` modules are the instances that TLC explores. Most put several modules
side by side with a variable `focus` (`instance`, `cycling`, `ticking`) that is
chosen at the start and lets one of them move, so that one run answers the
questions of a group. They contain only bounds, inputs and symmetry, except
`MCFigures`, which joins the properties of `StockLots` and `ReviewQueue`. A
definition whose comment starts with "Variant:" is the code with a plausible
mistake (a dropped guard, a missing reset). No specification uses it; each shows
that a property would notice the mistake.

Every module begins with the code files it models and what it abstracts from.
The following says more where state and actions need an explanation.

### SquareSync

`conn` is the `integration_connections` row: `owner`, `live` and `version` are
the lease columns, `promotion` and `authorized` the approval, `cursor` the saved
`lastSyncCursor`, `reviewable` that the last error allows approval. `pc[r]` is
the await an attempt stands at and `job[r]` its locals, so what it read early
and uses late is visible: `job[r].cursor` and `job[r].promotion` are the values
of line 41 of `sync/square.ts`, before the lease. An attempt runs through

    ReadConnection, AcquireLease (or Coalesce), StageHistory, ReadMappings,
    FetchPage (with RefreshToken and SaveToken), RenewBeforeWrite, WriteStaging,
    SkipPublication or RenewBeforePublish, BuildRows, PublishBatch, Finish

and leaves by `Throw`, `Demote`, `ReleaseLease` from any of them, or by `Crash`.
`staged[o][v]` is the `staged_at` rank of version `v` of order `o`; a version is
the time of the change at Square. `metrics` is what reports read, with the
version of the lease that wrote it.

Abstractions. Time is the number of changes at Square. Expiry of the lease is
the flag `live`, which `Expire` clears at any moment, so every length of stall
is covered. Lease times are compared in whole seconds by the code; the flag
stands for the comparison. `staged_at` is in milliseconds, taken after the lease
was acquired and at least one network request; the model takes the stamps of two
attempts to differ. The Square order feed is sorted by `updated_at` and its page
token is the position of the last order of the page. An order changed while its
page chain is open leaves the window (`end_at`), and returns in the next one.
A page chain continued by a later attempt is given the mapped locations of that
attempt. The other three feeds are one flag. A written page is one action
because its batches commute with everything the properties look at; a failed or
evicted attempt leaves any part of it. The owner's requests are one step each:
their last update repeats the checks they began with (the sync version and the
lease).

### SyncScheduler

`sched` is the schedule row, in minutes. A job selects a due schedule, reads
the row, claims it, checks the owner's grant, reads the import's cursor, imports
under the import's own lease (`import.by`), marks receipts and finishes if lease
owner and generation are still its own. `Enable` is a read and a write, as in
the route. `covered` is a history variable: the end of the latest window pulled
completely. `decisions` counts the owner's decisions, and a job remembers how
many there were when it claimed. `outside`, also history, is set when somebody
imports who does not hold the schedule row (the browser, or a job that outlived
its lease or was paused) and cleared when a cycle begins with nothing left open
and nobody else at work. `QueuedUntilCovered` makes its promise while it is not
set. The documents make it without a condition (`docs/POS_SYNC_OPERATIONS.md:27`),
and that is more than the code does: a browser import leaves a window open that
ends before the next scheduled cycle begins, an event arrives in between, and the
cycle, resuming that window, closes the event although no pull has reached it.
The run explores these states; without the condition TLC finds the violation in
the instances `browser` and `stalled`.

### DocumentPipeline

`row.json` is `extracted_json`: of `processing` before a deletion, of `deletion`
after it. A worker is a request or a scheduler tick, `job[w]` its copy of the
row. `Save` is the guarded update every step ends with; it changes nothing once
the lock is another's. `scans` and `results` are the copies that exist at Azure,
`tracked` (history) those the row ever referred to. `LoseAnswer` carries a
provider request out and loses the answer. A copy the row never knew of, because
the submission's answer was lost, is outside the promises of the code and of the
properties; Azure removes it by its own retention.

The lease of a worker that is dead may run out at any time. A lease that runs
out while its owner is at work is a stall, one of the faults `MaxFaults` bounds,
like an error, a lost answer and an eviction.

### SyncTick

One schedule is a record of when it is next due, relative to now, and of its
lease. `Tick` selects the `Limit` oldest due schedules at once, as the code does
before its first await; the jobs then claim, fail, finish a page or a cycle, or
die, in any order. `passed` counts the jobs started ahead of a due schedule and
`lapses` the leases that ran out; `failing` counts failures since a success,
independently of the column `failures`.

### Billing, DocumentIngest, AccountDeletion

`DeletionJob` holds what everybody else looks at: the stage of the job and
whether the workspace is still there. `Billing` and `DocumentIngest` extend it
and are guarded by it as the SQL of their writes is; `AccountDeletion` extends
both and moves it. So the three share one state and the deletion meets requests
in every place they can stand.

In `Billing`, `attempt` is the checkout attempt row and `session[a]`,
`stripe[a]` are Stripe's side of attempt `a`, whose idempotency key makes them
one for each attempt. A delivery claims a receipt, reads the row's version,
retrieves the subscription and writes under the version it read; a claim runs
out while its worker works on. A canceled subscription may have further events,
because the route handles those of its invoices too (`webhook/route.ts:51`). Such
an event, handled first, makes an earlier event of the subscription bought since
look stale (`route.ts:75-77`): the row stays cancelled while Stripe bills, until a
later event of the new subscription arrives. `SettledMeansCurrent` therefore speaks
of the running subscription unless it is `Overtaken`;
`BILLING_ENTITLEMENT_FOUNDATION.md:56` makes the promise without that condition.
The part `late` of the run explores these states, and without the condition TLC
finds the violation there.

In `DocumentIngest`, `objects` is the bucket by key, `intents` and `doc` the
rows that name a key. Reservation, put and commit are separate, each may fail
after it took effect, and cleaners, which anybody starts, check for a commit,
delete the object and drop the intent one after the other. A delivery with two
attachments is repeated, taken over, or loses its grant in between.

An attempt of `AccountDeletion` renews its lease between any two stages, so it
finds out late that another has taken over. Its plan is sealed once and read by
later attempts; what it knows of Stripe and of the bucket it has read before.

### Provider imports and connections

`FeedCycles`, `PaymentDays` and `SeriesImport` have the same frame: a run reads
the cursor, takes the lease, fetches, writes all or part, renews, saves; fails,
or is dropped at any of these points, and the lease may lapse under it. What
differs is what a cursor means: a position in a growing list that may be read
from either end (`FeedCycles`), a day and a frozen end of a page chain
(`PaymentDays`), two chains and a watermark behind a gate that hides a published
source while its days are rebuilt (`SeriesImport`).

A run of `SeriesImport` reads the row (`sync/lightspeed-r.ts:167`) and asks for
the lease afterwards (`:184`), and nothing compares the two; nor does anything
make a run come every day. The model lets both happen, and two histories say what
they cost. `exposed`: a run that has read "not approved" deletes the days of a
source that was approved meanwhile, and leaves it shown should it fail then;
`GateIsClosed` exempts this, until a run has built the days again, and nothing
else. `missed`: the recent sweep covers 24 hours, so that between two sweeps
further apart lie hours that a history which has ended does not cover either;
`SalesAreCovered` exempts the sales of these hours. The comment at `:713-716`
("the preserved watermark prevents older sales from being skipped during a longer
provider-side outage") is about secondary feeds that are down: the history is
then read again from the watermark, which the property covers.

The histories of `BankFeed` are `past.late` and `past.crossed`. An import renews
its lease and writes in the next call, which asks for no lease (`plaid.ts:698-699`,
`739-740`, `748-749`): `RenewForWrite` and `WriteLine` are two steps. A line
written after the lease has passed on may be older than the one it replaces, for
good, or appear after an erasure; `past.late` holds these lines until an owner of
the lease writes them again. And a request may write over the row of another
institution than the one it had read, or of none: the report of a failed first
import, whose statement has no condition on status or item
(`plaid/exchange/route.ts:105-115`); an import that took its lease for an
institution it had read before, and fails (`plaid.ts:787-814`); and the erasure that checks and then acts
(`plaid.ts:966`), which the run `bank_erasure` shows. `past.crossed` records it.
Token, cursor and erasure are promised until then, the approval of what was shown
also afterwards. Dropping any of these exemptions makes `imports` fail, but for
the one of the cursor, which takes three requests at work.

`QuickBooksGrant` numbers the tokens Intuit issues, because each refresh makes
the last one invalid: what must not happen is that the newest is the one that
was thrown away. `MarketingMeasurements` counts evictions, stalls and overtaken
requests (`lapses`); that approved measurements are those reviewed is promised
only without one, the rest with any number. `ReportSources` splits a report into
its four reads.

`StoreConnection` lets an authorization make a row pending at any moment, as the
code does, also while a callback or a disconnect of the row is at work. That
breaks the lock (run `store_overlap`). The history variable `overtaken` has the
rows to which it happened, and takes them out of the promises until they are
authorized again undisturbed; no action reads it. A callback that died, or a
disconnect that overtook a callback, may also leave a token behind on a failed
or revoked row, so `FailedKeepsNoToken` speaks of rows whose requests have
ended, none of them by dying.

### People, orders, books

`TeamAccess` has two databases, the console's `grant` and the workspace's rows.
Every request asks both (`Access`). An acceptance is a lookup, a write and a
report to the console that may be lost; a removal is noted first at the console
and then in the workspace; `Subjects` are the identities that own the address in
turn.

`Purchasing`, `Ledger` and `StatementImport` give each person a hand (`desk`,
`task`, `hand`) that holds what a handler has read and not yet used. The batch
at the end has the conditions of its SQL and of the triggers, and no more. Two
receipts entered at once in `Purchasing` write line quantities from what they
have read: the later overwrites the sum of the earlier, so the lines say less
than has arrived (`purchasing/route.ts:1258`). The history variable `overlapped`
records it. `Backed` promises that the lines say exactly the sum of the receipts
until that happened and never more than it, `DocumentsFollow` that the status of
an invoice's document is the outcome of its latest match.

`OwnerCosts` lets an import write products, lines and days while requests write
an owner's cost into the same. A request beside an import may be overtaken by
it: the day then keeps the old cost until the next import. `DayIsItsLines`
therefore speaks of days published by an import that ran without a request.

### Figures

`ReorderEngine`, `CashFlow`, `StockLots` and `ReviewQueue` translate pure
functions. Each has one step: an input is chosen, then answered. Their
properties compare the answer with a reference that does not follow the code's
steps: a balance that an item enters exactly once, a spend that leaves the
threshold intact, an order of lots that no pair contradicts. Arithmetic is
exact; amounts and quantities are integers in the code, rates are chosen so that
its floating-point factors are whole.

## 3. Runs

Runs that pass explore their instances completely; the violation runs stop at
the counterexample. Symmetry is used in runs without liveness properties only.
`CHECK_DEADLOCK FALSE` everywhere, because requests and attempts execute once,
clocks, events and faults are bounded, and a deleted workspace has nothing left
to do.

| Run | Question | Bounds |
| --- | --- | --- |
| `square` | leases come back, approval means a snapshot, watermark, order of versions, fencing, late runs | 2 attempts, 2 changes at Square; either 1 order with approve, exclude and disconnect, or 2 orders of 1 location with pages of any length, other feeds and the owner's mapping |
| `scheduler` | one job at a time, the owner's decision stands, receipts stay queued | 2 jobs; `overtaking`: overlapping, lease of 1 minute, 2 minutes, 1 decision; `cycles`: one after another, lease of 2 minutes, 5 minutes, 1 event, 1 decision; `browser`: the same for 4 minutes with imports from the browser between them; `stalled`: overlapping, lease and interval of 1 minute, 4 minutes, 1 event |
| `documents` | release after scan, no silent resubmission, nothing left, evidence kept | 2 requests, 2 faults; either 2 copies of each kind and 2 explicit retries, or a tick beside them, 1 copy of each kind and whole extractions |
| `document_retries` | deletion and cleanup complete | 2 requests and 1 tick, 1 copy of each kind, 1 fault, whole extractions, fairness |
| `closing` | billing, intake, and the deletion around them | `requests`: 2 checkouts, 3 events; `late`: 1 checkout at a time, 4 events, none of an open invoice; `deliveries`: 2 overlapping, failing, stalling, 2 events; 2 originals and 1 cleaner with, in turn, `mail`: 2 deliveries of 2 equal attachments while documents are deleted, `both`: a delivery beside an upload, `uploads`: 2 uploads while documents are deleted; `billing`: a deletion by 2 attempts, one at work at a time, beside a checkout, a delivery and 1 event; `files`: a deletion beside uploads and invoices |
| `imports` | no record, payment, sale or bank line is passed over | 2 runs; 2 feeds with 2 records in all; days of 3 moments, 4 moments in all, 1 payment unclear at a time; 2 sales or 1 behind the gate, 3 hours; 2 institutions, 2 movements, 3 happenings, a second change meeting imports only, a second change or institution no approval and no lost login; steps that write over another row are checked and not continued |
| `figures` | what an owner decides by | inputs on both sides of each rounding, cap, week and bucket; 2 products and 2 cost requests; 2 connections of 1 store, 5 changes; 2 authorizations, 2 refreshes, 1 fault; 2 resources with 2 syncs, an editor and a clerk, 1 resource once all have met or with 1 lapse |
| `workspace` | people and connections at once | 2 identities and 2 generations; 2 people, 2 lines, 3 receipts, 2 invoices; 3 journals, 2 periods, 2 writers, 3 categories for 2 codes; 3 reviews of 2 documents, 2 clerks; 2 workspaces, 3 rows and 3 attempts for a store; 2 schedules for a tick of 1 |
| `trust_exclude`, `trust_secret` | two statements of documents that do not hold | 2 attempts, 1 order, 2 changes |
| `store_overlap` | a store connected twice | as `workspace` |
| `bank_erasure` | an erased feed that is connected | 2 requests, 1 institution |

Two processes of a kind are enough where every conflict is between one that
holds a lease, a claim or a read and one that took it over, and because either
may start from any state the other left; the theorems remove the bound. Two
changes at Square give an order two versions, or two orders one each: what
overtaking needs. In the scheduler the lease and the interval are one or two
minutes, so that jobs outlive leases within the clock. In the documents one
fault suffices for each known way to fail; two allow a stall after a lost
answer. Three events are a creation, a change and a cancellation. Three moments
a day let a page chain open on one day and end on the next. Three journal keys
are an original and two attempts to reverse it.

What an instance leaves out on purpose, because the promise does not hold there,
are incomplete extractions in the instance of `documents` with a tick (section
*What the runs found*). Elsewhere the property itself names what the code lets
through, and the run reaches it.

### Fairness

Safety runs assume none. `document_retries` uses the fairness of
`DocumentPipeline`: a worker that is at work goes on (`WF` of its next step,
where throwing or being evicted is also going on), a lease runs out once its
owner stopped renewing it, and the scheduler goes on selecting due rows, as its
external timer makes it. Errors are bounded by `MaxFaults`, which is what
eventual success of a provider means here. No fairness is assumed of users:
nobody has to press Retry.

`InvitedGetsIn` uses `TeamFairness`: a request that has begun runs to its end
(`WF` of its lookups and writes), a colleague who is invited and not let in
tries again (`WF` of `~Access(s) /\ AcceptRow(s)`), and the console answers one
of infinitely many tries (`SF` of `AcceptFinalize` with its success), since its
failures are independent of who asks. Nothing is assumed of owners.

### What the runs found

`PROJECT.json` quotes the line and the statement for each.

* `trust_exclude`: an automatic import of a page that is not the last writes back
  the approval an owner has withdrawn.
* `trust_secret`: a token refresh in flight while the owner disconnects restores
  the deleted credentials.
* `store_overlap`: a callback connects its row without asking whether the lock of
  the store is still held. A disconnect gives it up, an authorization makes the
  row pending again, and two workspaces are connected to one store.
* `bank_erasure`: an erasure that found the bank feed disconnected drops the
  token of an institution connected since.

Smaller points that came up while modelling, which no run reports:

* disconnecting does not stop an import in flight from staging sales
  (`sync/square.ts:111`); an eviction while rows are written leaves a source
  approved, because only the catch block demotes it (`:213`); the orders of a
  location mapped late are not fetched again, because one watermark serves all
  locations (`:71`, `:193`);
* a run of the R-Series import may delete the days of a source that was approved
  between its reading and its lease, and sales that change between two recent
  sweeps more than a day apart wait for the next history (`exposed`, `missed`);
  a bank line may be written by an import that has lost its lease, and a failed
  first import may report on a feed that was disconnected (`past`);
* webhook receipts are closed although the pull ended before them when an import
  from the browser left an older window open, or when a job stalled past its
  lease between reading the import's cursor and taking the import's lease (the
  condition of `QueuedUntilCovered`);
* the object's metadata are written under the etag of its content only, which a
  newer claim does not change (`document-processing.ts:234`); an explicit retry
  after an incomplete extraction forgets the earlier result (`:244`), so that a
  confirmed deletion leaves it at the provider, which is why
  `NothingSurvivesDeletion` speaks of results only where extractions are whole;
* the PDF of an invoice is written before any row names it, so an eviction
  leaves an object that only the account deletion removes.

## 4. Proofs

Eight modules of proofs extend the modules they are about. Every theorem holds
for all values of the constants that satisfy the modules' assumptions, which say
no more than that bounds are numbers and names differ; further hypotheses are
stated in the theorem. `PROJECT.json` lists the theorems a reader should know.

| Theorem | Property | Rests on |
| --- | --- | --- |
| `SquareSyncProofs` | | |
| `LeasesComeBack` | `LeasesAreReturned` | `OwnersAtWork` |
| `ImportsAreFenced` | `FencedSpec` (refinement) | `OwnersAtWork`, `OnePublicationPerTerm` |
| `ImportsPublishInOrder` | what `FencedPublication` promises (`FenceHolds`) | `ImportsAreFenced` |
| `ApprovalMeansSnapshot` | `ApprovedMeansPublished` | `ApprovalsFollowPublication` |
| `LateRunsAreHarmless` | `LateRunsPublishNothing` | `SnapshotsAreStaged`, the guard of the batch |
| `NewestVersionOutranks` | `NewestVersionWins` | `StampsFollowVersions`, `PagesAreCurrent` |
| `WatermarkIsKept` | `WatermarkNeverSkipsOrders` | `CursorsAreHonest` |
| `SyncSchedulerProofs` | | |
| `JobsKeepApart` | `JobsAreApart` | `HolderIsCurrent`, `LaterRuns`, `ClaimsAreApart` |
| `OwnerDecides` | `OwnerDecisionStands` | `HolderIsCurrent` |
| `ReceiptsStayQueued` | `QueuedUntilCovered` | `WindowsInCycle`, `CyclesBegun` |
| `DocumentProofs` | | |
| `ReleaseSound`, `NeverSentTwice`, `NothingLeft`, `EvidenceKept` | the four properties of `documents` | `DocumentInv` |
| `ClosingProofs` | | |
| `BillingSound` | `BillingIsSound` | `ClosingInv` |
| `ClosingSound` | `ClosedIsNotBilled` | `ClosingInv` |
| `IntakeSound` | `IntakeIsSound` | `ClosingInv` |
| `CompletionSound` | `CompletionIsClean` | `ClosingInv` |
| `ImportProofs` | | |
| `NoRecordIsSkipped` | `FeedsAreSound` | `FeedInv` |
| `NoPaymentIsPassedOver` | `PaymentsAreWhole` | `PaymentInv` |
| `TheGateStaysClosed`, `NoSaleIsStranded` | `GateIsClosed`, `SeriesIsSound` | `GateInv`, `SaleInv` |
| `BankFeedSound`, `ApprovalIsOfTheShown` | `BankFeedIsSound`, and its part `ApprovedAsShown` | `BankInv` until a request writes over another's row, `ApprovalsHold` always |
| `ProviderProofs` | | |
| `GrantsAreSound`, `RemovalsAreFinal` | `GrantIsSound`, and that no callback undoes a removal | `GrantInv` |
| `MeasurementsStand` | `MeasurementsAreSound` | `MeasureInv` |
| `SourcesStand` (`ReportsCountOnce`, `ChoicesAreInformed`) | `SourcesAreSound` | `SourceInv` |
| `WorkspaceProofs` | | |
| `AccessStandsOnConsent`, `NothingTaken` | `AccessIsSound`, `NothingIsTakenOver` | `TeamInv` |
| `StoresStand`, `OneWorkspaceHoldsTheStore` | `StoresAreSound`, and what remains of the statement that `store_overlap` refutes | `StoreInv` |
| `DueTakeTurns` | `TurnsAreFair` | `TickInv` |
| `AccountingProofs` | | |
| `StatementsStand` | `StatementsAreSound` | `StatementInv` |
| `OrdersSound`, `OrdersGoForward` | `OrdersAreSound`, `OrderNeverGoesBack` | `PurchasingInv`, `ReceiptsHold` |
| `JournalsCountOnce`, `BooksStandStill` | `LedgerIsSound`, `BooksAreStable` | `LedgerInv` |
| `CostsStand` | `CostsAreSound` | `CostInv` |
| `CashStands` | `CashIsSound` | `AnswersFollow`, the lemmas about sums |
| `ReordersAreSound` | `RecommendationIsSound` | the lemmas about rounding and caps |

The arguments, and why the invariants are needed:

*Square.* `NewestVersionWins` alone is not inductive, because an attempt that
lost its lease still holds a page it will write. What saves the code is that
such a page was stamped before the lease was lost and its successor's page is
stamped later and was fetched later; `StampsFollowVersions` says so of pages in
hand and `PagesAreCurrent` says that the holder's page is not behind anything
stamped. `WatermarkNeverSkipsOrders` needs a promise about every cursor in
circulation, not the saved one only, because an attempt works on a cursor it
read before it had the lease: `CursorsAreHonest` says what a watermark and a
page token promise, wherever they are kept, and what each step of an attempt
adds to that promise. It is preserved although nothing compares the saved cursor
with the one read, because a promise once true of staged rows stays true: rows
are never removed and time only moves on. The same argument, for lists, days and
bank changes, carries `FeedInv`, `PaymentInv` and `BankInv`.

*Scheduler.* `OneJobAtATime` compares two jobs, but a claim looks only at the
row. What makes the row enough is `ClaimsAreApart`: as long as a job of the
present grant is at work, the row keeps others away until its lease has run out,
be it by that lease, by the later lease that replaced it, or, once that one is
given back, by the next run, which `LaterRuns` puts after the time its job had
taken. `HolderIsCurrent` is why generation and lease owner agree: the owner's
decision takes the lease away, so whoever holds it claimed afterwards. Receipts
are closed by the start of a job's cycle, and the window that was pulled was read
from the import's cursor: `WindowsInCycle` says that, unless somebody else
imported, a window still open or in hand ends after the start of every cycle that
may yet resume it. For
`SyncTick`, each tick that passes a connection over takes `Limit` of those ahead
of it, and only a lease that runs out puts one of them back there.

*Documents.* A worker whose lease ran out goes on with the row it has read, so
`WorkerFits` says what its locals are good for at each place it can stand;
`RowFits` and `CopiesKnown` say that a reference the row ever held is held by
the row, is in the hands of whoever holds the claim, or is gone;
`SubmissionsCounted` adds up submissions made, about to be made and still asked
for, and bounds them by the retries.

*Closing.* Billing rests on `SessionsFollow`: of all attempts ever made only the
one on record may still be paid or run. Intake rests on `KeysFollow`: a key
belongs to one content, and while its writer may still put or commit it, its
intent is there. The deletion rests on both: once it is requested no attempt row
is inserted, and once it is confirmed no intent is. `StagesFollow` and
`ClosingsFollow` say what an attempt that was overtaken still knows,
`DisposalFollows` that behind a list of the bucket that came back empty nothing
is left that could fill it. `SettledMeansCurrent` rests on `LastEventCounts`, that what is
written after the last event was handled is what Stripe says, and on
`EventsSettle`, that an event set aside is older than what is on record.

*Providers.* `GrantInv` says of each place of a callback which row and which
tokens it can still write; `Undisturbed`, that without a fault the newest token
is stored or in the hands of its refresh. `MeasureInv` does the same for a sync
and the selection it was started for; `Calm` adds what holds while nothing was
evicted, stalled or overtaken. `SourceInv` says what a report has read that
cannot become untrue: two connections it would count for one store and channel
cannot both be resolved from one reading.

*People and stores.* The console hears of an acceptance by the invitation's id
and not by its generation. `AcceptedSelf` is what has to be kept: the identity
that is about to be reported accepted the current generation, if anybody has.
`StoreInv`: unless its row was overtaken, whichever request is about to connect
it holds the lock.

*Books.* `StatementInv`, `PurchasingInv` and `LedgerInv` say of what a handler
read that it is still true, or that the condition of its batch will notice.
`CostInv` says that a line without its owner's cost is about to get it from a
request, or is not published and the import's own pass is to come
(`LinesFollow`), and that an import that is alone publishes the sum of the lines
as they are (`AloneHolds`).

*Sums.* Receipts, costs and weeks are folds over finite sets. The library's
induction theorems take an operator as a parameter, which no installed prover
instantiates. The proofs use the smallest exception instead: if a sum were
wrong, there would be a smallest set or least number for which it is, and the
definition of the fold contradicts it.

Only model-checked, and why:

* `FiguresAreSound`: the rotation and the queue are sorted by a library operator
  that chooses among all permutations; that one exists for every finite input is
  an induction of the kind above, over sequences, and the scales are compared
  step by step over the boundary inputs.
* Liveness (`DeletionCompletes`, `CleanupCompletes`, `InvitedGetsIn`) is out of
  the prover's reach.

## 5. Not modelled, and what could follow

* Provider privacy requests, which share the order of erasures with the account
  deletion, and the bank feed's erasure, which is modelled.
* Communications (consent read before a message is sent) and the advisor
  (requests answered once): one request each, with an idempotency key.
* Two enable requests at once in the scheduler; the choice among several
  documents in a cleanup tick; the authorization of Clover, Stripe, Lightspeed,
  Deel, Slack, Google and Meta, whose routes have the shape of Shopify's and no lock;
  Moneris, which is connected by a key.
* The publication of Shopify, Clover and Stripe days, which follows Square's.
* Metric imports from files, forecasts and retail intelligence: floating-point
  statistics of one request, a matter for unit tests.

Out of reach: pages and their formatting, provider payloads, prompts and
answers, and money arithmetic inside an import.
