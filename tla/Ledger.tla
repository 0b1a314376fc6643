------------------------------- MODULE Ledger -------------------------------
(***************************************************************************)
(* Manual journals, accounting periods and categories of BookLoQ           *)
(* (app/api/v1/bookloq/journals/route.ts, app/api/v1/bookloq/actions/      *)
(* route.ts).  A journal is posted or reversed by a handler that reads the *)
(* replay key, the period and the original one after the other and writes  *)
(* in one batch; what holds the batch to them are the unique indexes of    *)
(* journal_entries and the triggers of drizzle/0039.  Periods are locked   *)
(* and unlocked meanwhile, and clients repeat a request under its key.     *)
(***************************************************************************)
EXTENDS Naturals, FiniteSets, FiniteSetsExt

CONSTANTS Keys,        \* idempotency keys that clients use
          Periods,     \* accounting periods
          Writers,     \* requests in flight at once
          Items,       \* month-end items, by period
          Categories,  \* category requests (ids chosen by the client)
          Codes,       \* account codes of one category group, 100 in the code
          MaxLocks,    \* bound: lock and unlock calls
          MaxReopens,  \* bound: month-end items set
          Nothing

ASSUME LedgerAssumption ==
    /\ Nothing \notin Keys /\ Codes \subseteq Nat /\ Nothing \notin Codes
    /\ \A S \in SUBSET Codes : S # {} => \E m \in S : \A x \in S : m <= x
    /\ MaxLocks \in Nat /\ MaxReopens \in Nat
    /\ Items \subseteq Periods \X Nat

VARIABLES
    journal,   \* journal[k]: the journal_entries row posted under key k
    period,    \* period[p]: accounting_periods.status
    item,      \* item[i]: is the month-end item complete?
    task,      \* task[w]: the handler in flight and what it has read
    account,   \* account[c]: code of the category created by request c
    locks, reopens

ledgerVars == << journal, period, item, task, account, locks, reopens >>

Ready == [pc |-> "ready"]
Open == {"open", "review"}

\* The unique index on the workspace's key makes the key a journal's name.
Entry == [status : {"posted", "reversed"}, period : Periods,
          reverses : Keys \cup {Nothing}]
NoEntry == [status |-> "none"]
Posted(k) == journal[k] # NoEntry
Reversals(k) == {r \in Keys : Posted(r) /\ journal[r].reverses = k}

LedgerTypeOK ==
    /\ journal \in [Keys -> Entry \cup {NoEntry}]
    /\ period \in [Periods -> {"open", "review", "locked"}]
    /\ item \in [Items -> BOOLEAN]
    /\ DOMAIN task = Writers
    /\ account \in [Categories -> Codes \cup {Nothing}]
    /\ locks \in 0..MaxLocks /\ reopens \in 0..MaxReopens

LedgerInit ==
    /\ journal = [k \in Keys |-> NoEntry]
    /\ period = [p \in Periods |-> "open"]
    /\ item = [i \in Items |-> FALSE]
    /\ task = [w \in Writers |-> Ready]
    /\ account = [c \in Categories |-> Nothing]
    /\ locks = 0 /\ reopens = 0

Turn(w, t) == task' = [task EXCEPT ![w] = t]

-----------------------------------------------------------------------------
(* Journals.                                                               *)

\* The checks of POST: no journal under the key (else it is replayed), and an
\* unlocked period for the date.
ReadForPosting(w, k, p) ==
    /\ task[w] = Ready
    /\ ~Posted(k)
    /\ period[p] \in Open
    /\ Turn(w, [pc |-> "post", key |-> k, period |-> p])
    /\ UNCHANGED << journal, period, item, account, locks, reopens >>

\* PATCH: no journal under the key, the original posted ...
ReadOriginal(w, k, original) ==
    /\ task[w] = Ready
    /\ ~Posted(k)
    /\ Posted(original) /\ journal[original].status = "posted"
    /\ Turn(w, [pc |-> "original", key |-> k, original |-> original])
    /\ UNCHANGED << journal, period, item, account, locks, reopens >>

\* ... without a reversal, and an unlocked period.
ReadForReversing(w, p) ==
    /\ task[w].pc = "original"
    /\ Turn(w, IF Reversals(task[w].original) = {} /\ period[p] \in Open
               THEN [pc |-> "reverse", key |-> task[w].key, period |-> p,
                     original |-> task[w].original]
               ELSE Ready)
    /\ UNCHANGED << journal, period, item, account, locks, reopens >>

\* Variants: what was read before the batch is trusted.
ReversalFreeAsRead(original) == TRUE
PeriodAvailableAsRead(p) == TRUE

\* What the database lets in: the key is new, the original has no reversal
\* yet, and the trigger finds the period unlocked now.
KeyFree(k) == ~Posted(k)
ReversalFree(original) == Reversals(original) = {}
PeriodAvailable(p) == period[p] \in Open

\* The batch of POST.
PostJournal(w) ==
    /\ task[w].pc = "post"
    /\ Turn(w, Ready)
    /\ journal' = IF KeyFree(task[w].key) /\ PeriodAvailable(task[w].period)
                  THEN [journal EXCEPT ![task[w].key] =
                          [status |-> "posted", period |-> task[w].period,
                           reverses |-> Nothing]]
                  ELSE journal
    /\ UNCHANGED << period, item, account, locks, reopens >>

\* The batch of PATCH: the reversal with debits and credits exchanged, and the
\* original marked, if it is still posted.
ReverseJournal(w) ==
    LET t == task[w]
    IN /\ t.pc = "reverse"
       /\ Turn(w, Ready)
       /\ journal' = IF /\ KeyFree(t.key) /\ ReversalFree(t.original)
                        /\ PeriodAvailable(t.period)
                     THEN [k \in Keys |->
                             IF k = t.key THEN [status |-> "posted", period |-> t.period,
                                                reverses |-> t.original]
                             ELSE IF k = t.original THEN [journal[k] EXCEPT !.status = "reversed"]
                             ELSE journal[k]]
                     ELSE journal
       /\ UNCHANGED << period, item, account, locks, reopens >>

-----------------------------------------------------------------------------
(* Closing a period.                                                       *)

\* month_end_status: any item, whatever its period's status.
SetItem(i, done) ==
    /\ reopens < MaxReopens
    /\ reopens' = reopens + 1
    /\ item' = [item EXCEPT ![i] = done]
    /\ UNCHANGED << journal, period, task, account, locks >>

\* lock_period counts the incomplete items, and then locks.
ReadForLocking(w, p) ==
    /\ task[w] = Ready
    /\ locks < MaxLocks
    /\ locks' = locks + 1
    /\ \A i \in Items : i[1] = p => item[i]
    /\ Turn(w, [pc |-> "lock", period |-> p])
    /\ UNCHANGED << journal, period, item, account, reopens >>

LockPeriod(w) ==
    /\ task[w].pc = "lock"
    /\ period' = [period EXCEPT ![task[w].period] = "locked"]
    /\ Turn(w, Ready)
    /\ UNCHANGED << journal, item, account, locks, reopens >>

\* unlock_period, with a reason, of a locked one.
UnlockPeriod(p) ==
    /\ locks < MaxLocks
    /\ locks' = locks + 1
    /\ period[p] = "locked"
    /\ period' = [period EXCEPT ![p] = "review"]
    /\ UNCHANGED << journal, item, task, account, reopens >>

-----------------------------------------------------------------------------
(* create_category.                                                        *)

FreeCodes == Codes \ {account[c] : c \in Categories}

\* A request id that has made its category is replayed; the conflict and the
\* limit refuse.
ReadForCategory(w, c) ==
    /\ task[w] = Ready
    /\ account[c] = Nothing
    /\ Turn(w, [pc |-> "category", request |-> c])
    /\ UNCHANGED << journal, period, item, account, locks, reopens >>

\* The insert takes the lowest free code inside the statement; ON CONFLICT(id)
\* DO NOTHING leaves the category of a repeated request alone.
CreateCategory(w) ==
    /\ task[w].pc = "category"
    /\ Turn(w, Ready)
    /\ account' = IF account[task[w].request] = Nothing /\ FreeCodes # {}
                  THEN [account EXCEPT ![task[w].request] = Min(FreeCodes)]
                  ELSE account
    /\ UNCHANGED << journal, period, item, locks, reopens >>

-----------------------------------------------------------------------------
JournalNext ==
    \/ \E w \in Writers :
          \/ \E k \in Keys, p \in Periods : ReadForPosting(w, k, p)
          \/ \E k, original \in Keys : ReadOriginal(w, k, original)
          \/ \E p \in Periods : ReadForReversing(w, p) \/ ReadForLocking(w, p)
          \/ PostJournal(w) \/ ReverseJournal(w) \/ LockPeriod(w)
    \/ \E i \in Items, done \in BOOLEAN : SetItem(i, done)
    \/ \E p \in Periods : UnlockPeriod(p)

CategoryNext ==
    \E w \in Writers : CreateCategory(w) \/ \E c \in Categories : ReadForCategory(w, c)

LedgerNext == JournalNext \/ CategoryNext

LedgerSpec == LedgerInit /\ [][LedgerNext]_ledgerVars

-----------------------------------------------------------------------------
(* Properties.                                                             *)

\* Nothing is posted into a period, nor reversed into it, while it is locked:
\* also by a handler that saw it open before.
LockedStaysShut ==
    [][\A k \in Keys : journal'[k] # journal[k] /\ journal[k] = NoEntry
          => period[journal'[k].period] # "locked"]_ledgerVars

\* A journal counts once or not at all: it is marked reversed exactly when one
\* other journal reverses it, however many people reverse it at once and
\* however often they retry.
ReversedOnce ==
    \A k \in Keys : Posted(k) =>
        /\ Cardinality(Reversals(k)) = IF journal[k].status = "reversed" THEN 1 ELSE 0
        /\ k \notin Reversals(k)

\* A key names one journal for ever: a retry under it, late or concurrent,
\* neither posts another nor turns it into something else.
KeyKeepsItsJournal ==
    [][\A k \in Keys : Posted(k) =>
          /\ journal'[k].period = journal[k].period
          /\ journal'[k].reverses = journal[k].reverses]_ledgerVars

\* Overlapping requests for new categories never share a code, and a repeated
\* one keeps the code it got.
CodesDistinct ==
    [][/\ \A c, d \in Categories :
             account'[c] = account'[d] /\ account'[c] # Nothing => c = d
       /\ \A c \in Categories : account[c] # Nothing => account'[c] = account[c]]_ledgerVars

\* A journal and its reversal balance.
LedgerIsSound == LedgerTypeOK /\ ReversedOnce

\* What the books say under a period, a key or a code is not changed later.
BooksAreStable == LockedStaysShut /\ KeyKeepsItsJournal /\ CodesDistinct
=============================================================================
