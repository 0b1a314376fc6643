------------------------------ MODULE FeedCycles ------------------------------
(***************************************************************************)
(* Imports that read several feeds of a provider page by page, over many   *)
(* runs, and begin again when every feed has been read to its end:         *)
(* server/integrations/sync/stripe.ts, clover.ts and shopify-pos.ts.  The  *)
(* cursor is read before the lease is taken.  A feed is a growing list;    *)
(* its records are numbered in the order of their creation.                *)
(***************************************************************************)
EXTENDS Naturals, FiniteSets

CONSTANTS ImportRuns,  \* runs of the import, each again and again
          NoRun,
          Feeds,       \* orders, payments, ...
          PageSize,    \* records that a run reads of a feed
          MaxRecords   \* bound: records of a feed

ASSUME FeedAssumption ==
    NoRun \notin ImportRuns /\ PageSize \in Nat \ {0} /\ MaxRecords \in Nat \ {0}

VARIABLES
    provider,  \* whose import
    newest,    \* newest[f]: the provider lists the newest record first
    born,      \* born[f]: records of a feed so far
    bad,       \* records that cannot be normalized
    conn,      \* owner and live: the lease; cursor: lastSyncCursor
    stored,    \* stored[f]: records in the database
    run,       \* run[r]: its step and locals
    whole      \* history: whole[f]: records that the last finished cycle promised

feedVars == << provider, newest, born, bad, conn, stored, run, whole >>

Records == 1..MaxRecords

\* Where a cycle stands: at[f] is a record's id, or an offset (Clover); 0 is
\* null.  History: from[f], the records there were when its first page was read.
Fresh == [at |-> [f \in Feeds |-> 0], complete |-> [f \in Feeds |-> FALSE],
          from |-> [f \in Feeds |-> 0]]
Cursors == [at : [Feeds -> 0..MaxRecords], complete : [Feeds -> BOOLEAN],
            from : [Feeds -> 0..MaxRecords]]

Idle == [pc |-> "idle"]
Steps == {"read", "fetch", "write", "renew", "save"}
Locals == [pc : Steps, cursor : Cursors, read : Cursors, page : [Feeds -> SUBSET Records],
           usable : [Feeds -> SUBSET Records], toFetch : SUBSET Feeds, ended : SUBSET Feeds]

FeedTypeOK ==
    /\ provider \in {"stripe", "clover", "shopify"}
    /\ newest \in [Feeds -> BOOLEAN] /\ born \in [Feeds -> 0..MaxRecords]
    /\ bad \in [Feeds -> SUBSET Records] /\ stored \in [Feeds -> SUBSET Records]
    /\ conn \in [owner : ImportRuns \cup {NoRun}, live : BOOLEAN, cursor : Cursors]
    /\ conn.live => conn.owner # NoRun
    /\ run \in [ImportRuns -> {Idle} \cup Locals]
    /\ whole \in [Feeds -> 0..MaxRecords]

FeedInit ==
    /\ provider \in {"stripe", "clover", "shopify"}
    /\ newest \in [Feeds -> BOOLEAN]
    /\ provider = "stripe" => \A f \in Feeds : newest[f]
    /\ born = [f \in Feeds |-> 0]
    /\ bad \in [Feeds -> {{}, {MaxRecords}}]
    /\ provider = "shopify" => \A f \in Feeds : bad[f] = {}
    /\ conn = [owner |-> NoRun, live |-> FALSE, cursor |-> Fresh]
    /\ stored = [f \in Feeds |-> {}]
    /\ run = [r \in ImportRuns |-> Idle]
    /\ whole = [f \in Feeds |-> 0]

-----------------------------------------------------------------------------
(* The provider.                                                           *)

Create(f) ==
    /\ born[f] < MaxRecords
    /\ born' = [born EXCEPT ![f] = @ + 1]
    /\ UNCHANGED << provider, newest, bad, conn, stored, run, whole >>

\* A record that needed a review is put right.
Correct(f) ==
    /\ bad[f] # {}
    /\ bad' = [bad EXCEPT ![f] = {}]
    /\ UNCHANGED << provider, newest, born, conn, stored, run, whole >>

\* What a list holds behind a position: a record, or a number of records.
Ahead(f, at) ==
    {i \in 1..born[f] :
        CASE newest[f] /\ provider = "clover" -> i <= born[f] - at
          [] newest[f] /\ provider # "clover" -> at = 0 \/ i < at
          [] OTHER -> i > at}

\* Of two records of a list, the one that comes first.
Before(f, i, j) == IF newest[f] THEN i > j ELSE i < j

\* The next page of a feed.
Page(f, at) ==
    {i \in Ahead(f, at) : Cardinality({j \in Ahead(f, at) : Before(f, j, i)}) < PageSize}

-----------------------------------------------------------------------------
(* A run.                                                                  *)

Go(r, from, to) == run[r].pc = from /\ run' = [run EXCEPT ![r].pc = to]

\* The connection is read, with its cursor.
ReadCursor(r) ==
    /\ run[r] = Idle
    /\ run' = [run EXCEPT ![r] = [pc |-> "read", cursor |-> conn.cursor, read |-> conn.cursor,
                                  page |-> [f \in Feeds |-> {}],
                                  usable |-> [f \in Feeds |-> {}], toFetch |-> Feeds,
                                  ended |-> {}]]
    /\ UNCHANGED << provider, newest, born, bad, conn, stored, whole >>

\* The lease is taken, or another run has it.
TakeLease(r) ==
    /\ run[r].pc = "read"
    /\ \/ ~conn.live /\ conn' = [conn EXCEPT !.owner = r, !.live = TRUE]
          /\ Go(r, "read", "fetch")
       \/ conn.live /\ run' = [run EXCEPT ![r] = Idle] /\ UNCHANGED conn
    /\ UNCHANGED << provider, newest, born, bad, stored, whole >>

\* The pages of the feeds are read at once, or one after another.  A feed that
\* has been read to its end is not asked again in this cycle.  Clover's list has
\* ended when a page is not full; the others say so.
FetchFeed(r, f) ==
    LET c == run[r].cursor
        page == IF c.complete[f] THEN {} ELSE Page(f, c.at[f])
        ends == IF provider = "clover" THEN Cardinality(page) < PageSize
                ELSE c.complete[f] \/ page = Ahead(f, c.at[f])
    IN /\ run[r].pc = "fetch" /\ f \in run[r].toFetch
       /\ run' = [run EXCEPT
              ![r].toFetch = @ \ {f},
              ![r].page[f] = page, ![r].usable[f] = page \ bad[f],
              ![r].ended = IF ends THEN @ \cup {f} ELSE @,
              ![r].cursor.from[f] = IF c.complete[f] \/ c.at[f] # 0 THEN @ ELSE born[f]]
       /\ UNCHANGED << provider, newest, born, bad, conn, stored, whole >>

\* Clover and Shopify renew the lease before they write.
RenewAfterFetch(r) ==
    /\ run[r].pc = "fetch" /\ run[r].toFetch = {}
    /\ provider # "stripe" => conn.owner = r /\ conn.live
    /\ Go(r, "fetch", "write")
    /\ UNCHANGED << provider, newest, born, bad, conn, stored, whole >>

\* Records that could not be normalized are left out, and counted.
Warned(r) == run[r].usable # run[r].page

WriteRecords(r) ==
    /\ Go(r, "write", "renew")
    /\ stored' = [f \in Feeds |-> stored[f] \cup run[r].usable[f]]
    /\ UNCHANGED << provider, newest, born, bad, conn, whole >>

\* The batches, or the single inserts, stop before the end: the run fails.
WriteSome(r) ==
    /\ run[r].pc = "write"
    /\ \E f \in Feeds, some \in SUBSET Records :
          /\ some \subseteq run[r].usable[f]
          /\ stored' = [stored EXCEPT ![f] = @ \cup some]
    /\ run' = [run EXCEPT ![r] = Idle]
    /\ conn' = IF conn.owner = r THEN [conn EXCEPT !.owner = NoRun, !.live = FALSE] ELSE conn
    /\ UNCHANGED << provider, newest, born, bad, whole >>

RenewBeforeSave(r) ==
    /\ conn.owner = r /\ conn.live
    /\ Go(r, "renew", "save")
    /\ UNCHANGED << provider, newest, born, bad, conn, stored, whole >>

-----------------------------------------------------------------------------
(* The cursor that a run saves.                                            *)

\* The last record of a page, as a cursor; an empty page has none.
LastOf(f, page) ==
    IF page = {} THEN 0 ELSE CHOOSE i \in page : \A j \in page : j = i \/ Before(f, j, i)

Complete(r) == run[r].ended = Feeds

\* Variant: records in review do not keep the cursor.
StripeCursorPastReview(r) ==
    IF Complete(r) THEN Fresh
    ELSE [run[r].cursor EXCEPT
             !.complete = [f \in Feeds |-> f \in run[r].ended],
             !.at = [f \in Feeds |-> IF f \in run[r].ended THEN 0
                                     ELSE LastOf(f, run[r].page[f])]]

\* Records in review keep the cursor; the end of all feeds begins a new cycle.
StripeCursor(r) ==
    IF Warned(r) THEN run[r].read
    ELSE IF Complete(r) THEN Fresh
    ELSE [run[r].cursor EXCEPT
             !.complete = [f \in Feeds |-> f \in run[r].ended],
             !.at = [f \in Feeds |-> IF f \in run[r].ended THEN 0
                                     ELSE LastOf(f, run[r].page[f])]]

\* Offsets grow by what was read; a feed that has ended keeps its own.
CloverCheckpoint(r) ==
    IF Complete(r) THEN Fresh
    ELSE [run[r].cursor EXCEPT
             !.complete = [f \in Feeds |-> @[f] \/ f \in run[r].ended],
             !.at = [f \in Feeds |->
                        IF run[r].cursor.complete[f] \/ f \in run[r].ended THEN @[f]
                        ELSE @[f] + Cardinality(run[r].page[f])]]

CloverCursor(r) == IF Warned(r) THEN run[r].read ELSE CloverCheckpoint(r)

\* The flags are those of this run's pages; a feed that was not asked has an
\* empty one, without a next.
ShopifyCursor(r) ==
    IF Complete(r) THEN Fresh
    ELSE [run[r].cursor EXCEPT
             !.complete = [f \in Feeds |-> f \in run[r].ended],
             !.at = [f \in Feeds |-> LastOf(f, run[r].page[f])]]

NextCursor(r) ==
    CASE provider = "stripe"  -> StripeCursor(r)
      [] provider = "clover"  -> CloverCursor(r)
      [] provider = "shopify" -> ShopifyCursor(r)

\* The connection is updated if the lease is still the run's, and released.
SaveCursor(r) ==
    /\ run[r].pc = "save"
    /\ conn.owner = r
    /\ conn' = [owner |-> NoRun, live |-> FALSE, cursor |-> NextCursor(r)]
    /\ whole' = IF Complete(r) /\ ~Warned(r) THEN run[r].cursor.from ELSE whole
    /\ run' = [run EXCEPT ![r] = Idle]
    /\ UNCHANGED << provider, newest, born, bad, stored >>

\* A run that fails at any call, or finds its lease lost, releases what is its own.
Fail(r) ==
    /\ run[r].pc \in Steps \ {"read"}
    /\ run' = [run EXCEPT ![r] = Idle]
    /\ conn' = IF conn.owner = r THEN [conn EXCEPT !.owner = NoRun, !.live = FALSE] ELSE conn
    /\ UNCHANGED << provider, newest, born, bad, stored, whole >>

\* An eviction: nothing is released.
Die(r) ==
    /\ run[r] # Idle
    /\ run' = [run EXCEPT ![r] = Idle]
    /\ UNCHANGED << provider, newest, born, bad, conn, stored, whole >>

\* Five minutes without a renewal.
LeaseExpires ==
    /\ conn.live
    /\ conn' = [conn EXCEPT !.live = FALSE]
    /\ UNCHANGED << provider, newest, born, bad, stored, run, whole >>

FeedNext ==
    \/ \E f \in Feeds : Create(f) \/ Correct(f)
    \/ LeaseExpires
    \/ \E r \in ImportRuns :
          \/ ReadCursor(r) \/ TakeLease(r) \/ RenewAfterFetch(r) \/ WriteRecords(r)
          \/ WriteSome(r) \/ RenewBeforeSave(r) \/ SaveCursor(r) \/ Fail(r) \/ Die(r)
          \/ \E f \in Feeds : FetchFeed(r, f)

FeedSpec == FeedInit /\ [][FeedNext]_feedVars

-----------------------------------------------------------------------------
(* Properties.                                                             *)

\* What a cursor has left behind is in the database: of the records there were
\* when its cycle reached the feed, each is stored or still ahead.  Runs may work
\* on a cursor that others have moved on from, and may lose their lease while
\* they write.
Keeps(c) ==
    \A f \in Feeds : \A i \in 1..c.from[f] :
        \/ i \in stored[f]
        \/ ~c.complete[f] /\ i \in Ahead(f, c.at[f])

CursorsAreHonest == Keeps(conn.cursor)

\* "backfillComplete": after a cycle has ended, all that its feeds held when it
\* first asked them is in the database.
CycleIsWhole == \A f \in Feeds : 1..whole[f] \subseteq stored[f]

\* A provider's feeds are read without a gap.
FeedsAreSound == FeedTypeOK /\ CursorsAreHonest /\ CycleIsWhole
=============================================================================
