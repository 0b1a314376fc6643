------------------------------ MODULE BankFeed ------------------------------
(***************************************************************************)
(* The bank feed of a workspace (server/integrations/plaid.ts and the      *)
(* routes of integrations/plaid): connecting an institution, importing its *)
(* movements under a lease, notices of Plaid, disconnecting, erasing, and  *)
(* the approval of what was imported.                                      *)
(*                                                                         *)
(* Abstractions.  Plaid numbers its changes, and refuses to page through a *)
(* list that changes: a completed fetch is a snapshot.  Accounts, balances *)
(* and categories are left out; a movement without an account fails the    *)
(* run like any other call.  Consents and audits are left out.             *)
(*                                                                         *)
(* Two things that the code lets happen are on record in `past`: a write   *)
(* that lands after its lease has passed on, and a request that writes     *)
(* over a row which is not the one it had read.                            *)
(***************************************************************************)
EXTENDS Naturals, FiniteSets

CONSTANTS BankJobs,    \* requests and deliveries at work
          NoBankJob,
          BankLines,   \* movements of an institution
          MaxItems, MaxChanges,  \* bounds: institutions connected, changes at Plaid,
          MaxHappenings          \* and both together

ASSUME BankAssumption ==
    /\ NoBankJob \notin BankJobs
    /\ MaxItems \in Nat /\ MaxChanges \in Nat /\ MaxHappenings \in Nat

VARIABLES
    plaid,     \* Plaid: the latest item, and those that are active
    bank,      \* bank[m]: a movement's last change, and whether it was removed
    changes,   \* changes at Plaid so far
    feed,      \* the connection row
    token,     \* integration_secrets: the item whose token is stored, 0 is none
    lines,     \* lines[<<i, m>>]: financial_transactions, by item and movement
    job,       \* job[j]: a request's step and locals
    past       \* history: items of evicted exchanges, whether the lines (late ones
               \* aside) are those last shown for approval, the furthest cursor that
               \* this item has had, the lines last written without the lease, and
               \* whether a request wrote over a row that was not its own

bankVars == << plaid, bank, changes, feed, token, lines, job, past >>

Items == 1..MaxItems
NoItem == 0
Counts == 0..MaxChanges
Absent == [at |-> 0, gone |-> FALSE]
Facts == [at : Counts, gone : BOOLEAN]
NoFacts == [m \in BankLines |-> Absent]

Rows == Items \X BankLines
NoRows == [r \in Rows |-> Absent]

Unoccupied == [pc |-> "idle"]

BankTypeOK ==
    /\ plaid \in [latest : 0..MaxItems, active : SUBSET Items]
    /\ bank \in [BankLines -> Facts] /\ changes \in Counts
    /\ feed \in [status : {"not_connected", "pending", "connected", "error", "revoked"},
                 item : 0..MaxItems, promotion : {"blocked", "staging", "approved"},
                 cursor : Counts, synced : BOOLEAN, failed : BOOLEAN, erased : BOOLEAN,
                 owner : BankJobs \cup {NoBankJob}, live : BOOLEAN]
    /\ feed.live => feed.owner # NoBankJob
    /\ token \in 0..MaxItems
    /\ lines \in [Rows -> Facts]
    /\ past.lost \subseteq Items /\ past.shown \in BOOLEAN
    /\ past.furthest \in Counts /\ past.late \subseteq Rows /\ past.crossed \in BOOLEAN

BankInit ==
    /\ plaid = [latest |-> 0, active |-> {}]
    /\ bank = NoFacts /\ changes = 0
    /\ feed = [status |-> "not_connected", item |-> NoItem, promotion |-> "blocked",
               cursor |-> 0, synced |-> FALSE, failed |-> FALSE, erased |-> FALSE,
               owner |-> NoBankJob, live |-> FALSE]
    /\ token = NoItem /\ lines = NoRows
    /\ job = [j \in BankJobs |-> Unoccupied]
    /\ past = [lost |-> {}, shown |-> FALSE, furthest |-> 0, late |-> {}, crossed |-> FALSE]

-----------------------------------------------------------------------------
(* The bank, and Plaid.                                                    *)

Happens == plaid.latest + changes < MaxHappenings

\* A movement appears, is modified, or is removed for good.
BankChanges(m, gone) ==
    /\ plaid.latest # 0 /\ changes < MaxChanges /\ Happens /\ ~bank[m].gone
    /\ gone => bank[m].at # 0
    /\ changes' = changes + 1
    /\ bank' = [bank EXCEPT ![m] = [at |-> changes + 1, gone |-> gone]]
    /\ UNCHANGED << plaid, feed, token, lines, job, past >>

\* A lease ends after five minutes without a renewal.
BankLeaseExpires ==
    /\ feed.live /\ feed' = [feed EXCEPT !.live = FALSE]
    /\ UNCHANGED << plaid, bank, changes, token, lines, job, past >>

-----------------------------------------------------------------------------
(* Steps.                                                                  *)

At(j, pc) == job[j].pc = pc
To(j, pc) == job' = [job EXCEPT ![j].pc = pc]
Leave(j) == job' = [job EXCEPT ![j] = Unoccupied]

Owns(j) == feed.owner = j
LeaseHeld(j) == Owns(j) /\ feed.live
Unleased(row) == [row EXCEPT !.owner = NoBankJob, !.live = FALSE]
Released(j) == IF Owns(j) THEN Unleased(feed) ELSE feed

Disconnected == feed.status \in {"not_connected", "revoked"}

\* A request writes to the row of another institution, or of none.
Crossing(wrong) == past' = [past EXCEPT !.crossed = @ \/ wrong]

\* The approvals under way end: they find another sync_version.
Overtaken(jobs) ==
    [i \in BankJobs |-> IF jobs[i].pc = "approve" THEN Unoccupied ELSE jobs[i]]

\* The lines are no longer those that an approval under way has shown.
Reshown(jobs) == [i \in BankJobs |-> IF jobs[i].pc = "approve" THEN [jobs[i] EXCEPT !.shown = FALSE]
                                     ELSE jobs[i]]

\* credentials(): the token, with the row it belongs to.
Credentials == token # NoItem /\ feed.status \in {"connected", "error"}

ReadCredentials(j, use) ==
    /\ job[j].pc = IF use = "first" THEN "first" ELSE "idle"
    /\ Credentials
    /\ job' = [job EXCEPT ![j] =
           [pc |-> "lease", use |-> use, item |-> token, status |-> feed.status,
            cursor |-> feed.cursor, next |-> 0, got |-> NoFacts]]
    /\ UNCHANGED << plaid, bank, changes, feed, token, lines, past >>

\* The first import of an exchange finds no token any more.
CredentialsGone(j) ==
    /\ At(j, "first") /\ ~Credentials
    /\ To(j, "report")
    /\ UNCHANGED << plaid, bank, changes, feed, token, lines, past >>

LeaseFeed(j) ==
    /\ At(j, "lease")
    /\ IF feed.live
       THEN /\ UNCHANGED feed
            /\ IF job[j].use = "first" THEN To(j, "report") ELSE Leave(j)
       ELSE /\ feed' = [feed EXCEPT !.owner = j, !.live = TRUE]
            /\ job' = Overtaken([job EXCEPT ![j].pc = IF job[j].use = "disconnect" THEN "remove"
                                                      ELSE "stage"])
    /\ UNCHANGED << plaid, bank, changes, token, lines, past >>

-----------------------------------------------------------------------------
(* syncPlaidTransactions.                                                  *)

\* The row that this run may write.
Current(j) ==
    /\ feed.status \in {"connected", "error"} /\ feed.item = job[j].item /\ Owns(j)

\* Variant: an import leaves the approval as it is until its end.
StagedAtEnd(row) == [row EXCEPT !.failed = FALSE]

\* What is about to be imported is not approved.
Staged(row) == [row EXCEPT !.promotion = "staging", !.failed = FALSE]

StageFeed(j) ==
    /\ At(j, "stage") /\ Current(j)
    /\ feed' = Staged(feed) /\ To(j, "fetch")
    /\ UNCHANGED << plaid, bank, changes, token, lines, past >>

\* All changes since the cursor; the lease is renewed after each page.
FetchChanges(j) ==
    /\ At(j, "fetch") /\ LeaseHeld(j)
    /\ job[j].item \in plaid.active
    /\ job' = [job EXCEPT ![j].pc = "write", ![j].next = changes,
                          ![j].got = [m \in BankLines |-> IF bank[m].at > job[j].cursor THEN bank[m]
                                                          ELSE Absent]]
    /\ UNCHANGED << plaid, bank, changes, feed, token, lines, past >>

\* The lease is renewed for each movement, and for the last write.
RenewForWrite(j) ==
    /\ At(j, "write") /\ LeaseHeld(j) /\ To(j, "renewed")
    /\ UNCHANGED << plaid, bank, changes, feed, token, lines, past >>

\* Each movement is written by itself, whoever holds the lease by then.
WriteLine(j, m) ==
    /\ At(j, "renewed") /\ job[j].got[m] # Absent
    /\ lines' = [lines EXCEPT ![<<job[j].item, m>>] =
                     IF job[j].got[m].gone /\ @ = Absent THEN Absent ELSE job[j].got[m]]
    /\ LET jobs == [job EXCEPT ![j].pc = "write", ![j].got[m] = Absent]
           row == <<job[j].item, m>>
       IN IF Owns(j)
          THEN /\ job' = Reshown(jobs)
               /\ past' = [past EXCEPT !.shown = FALSE, !.late = @ \ {row}]
          ELSE /\ job' = jobs
               /\ past' = [past EXCEPT !.late = @ \cup {row}]
    /\ UNCHANGED << plaid, bank, changes, feed, token >>

\* The cursor moves, the data wait for approval, and the notice is processed.
FinishImport(j) ==
    /\ At(j, "renewed") /\ job[j].got = NoFacts /\ Current(j)
    /\ feed' = Unleased([feed EXCEPT !.status = "connected", !.cursor = job[j].next,
                                     !.synced = TRUE, !.failed = FALSE, !.promotion = "staging"])
    /\ past' = [past EXCEPT !.furthest = IF job[j].next > @ THEN job[j].next ELSE @]
    /\ Leave(j)
    /\ UNCHANGED << plaid, bank, changes, token, lines >>

\* Any call failed, the row has changed or the lease is lost.  A lost login asks
\* for a repair; otherwise the row returns to the status that was read.
FailImport(j, repair) ==
    /\ job[j].pc \in {"stage", "fetch", "write", "renewed"} /\ (repair => At(j, "fetch"))
    /\ feed' = IF ~Owns(j) THEN feed
               ELSE [Released(j) EXCEPT !.status = IF repair THEN "error" ELSE job[j].status,
                                        !.promotion = IF repair THEN "blocked" ELSE "staging",
                                        !.failed = TRUE]
    /\ IF job[j].use = "first" THEN To(j, "report") ELSE Leave(j)
    /\ Crossing(Owns(j) /\ feed.item # job[j].item)
    /\ UNCHANGED << plaid, bank, changes, token, lines >>

-----------------------------------------------------------------------------
(* exchangePlaidPublicToken, and the first import.                         *)

\* claimPlaidConnection: one exchange at a time, and only without an institution.
ClaimFeed(j) ==
    /\ job[j] = Unoccupied /\ Disconnected
    /\ feed' = Unleased([feed EXCEPT !.status = "pending", !.failed = FALSE])
    /\ job' = Overtaken([job EXCEPT ![j] = [pc |-> "claimed", was |-> feed.status,
                                            item |-> NoItem]])
    /\ UNCHANGED << plaid, bank, changes, token, lines, past >>

\* restorePlaidConnectionClaim
RestoreClaim(j) ==
    feed' = [feed EXCEPT !.status = job[j].was, !.item = NoItem, !.promotion = "blocked",
                         !.synced = FALSE, !.cursor = 0, !.failed = FALSE]

\* A new item, with movements of its own.
ExchangeToken(j) ==
    /\ At(j, "claimed") /\ plaid.latest < MaxItems /\ Happens
    /\ plaid' = [latest |-> plaid.latest + 1, active |-> plaid.active \cup {plaid.latest + 1}]
    /\ bank' = NoFacts
    /\ job' = [job EXCEPT ![j].pc = "exchanged", ![j].item = plaid.latest + 1]
    /\ UNCHANGED << changes, feed, token, lines, past >>

ExchangeFails(j) ==
    /\ At(j, "claimed") /\ RestoreClaim(j) /\ Leave(j)
    /\ UNCHANGED << plaid, bank, changes, token, lines, past >>

SaveToken(j) ==
    /\ At(j, "exchanged") /\ token' = job[j].item /\ To(j, "saved")
    /\ UNCHANGED << plaid, bank, changes, feed, lines, past >>

ConnectFeed(j) ==
    /\ At(j, "saved") /\ feed.status = "pending"
    /\ feed' = [feed EXCEPT !.status = "connected", !.item = job[j].item, !.promotion = "staging",
                            !.erased = FALSE, !.failed = FALSE, !.cursor = 0]
    /\ past' = [past EXCEPT !.furthest = 0] /\ To(j, "first")
    /\ UNCHANGED << plaid, bank, changes, token, lines >>

\* A call fails after the exchange, or the claim is gone.
GiveUp(j) ==
    /\ job[j].pc \in {"exchanged", "saved"} /\ To(j, "undo")
    /\ UNCHANGED << plaid, bank, changes, feed, token, lines, past >>

\* The authorization is given back, or the feed is kept for a cleanup.
RemoveExchanged(j) ==
    /\ At(j, "undo")
    /\ plaid' = [plaid EXCEPT !.active = @ \ {job[j].item}] /\ To(j, "undone")
    /\ UNCHANGED << bank, changes, feed, token, lines, past >>

RemovalFails(j) ==
    /\ At(j, "undo")
    /\ feed' = [feed EXCEPT !.status = "error", !.item = job[j].item, !.promotion = "blocked",
                            !.erased = FALSE, !.failed = TRUE]
    /\ Leave(j)
    /\ UNCHANGED << plaid, bank, changes, token, lines, past >>

DropExchanged(j) ==
    /\ At(j, "undone") /\ token' = NoItem /\ To(j, "restore")
    /\ UNCHANGED << plaid, bank, changes, feed, lines, past >>

RestoreExchanged(j) ==
    /\ At(j, "restore") /\ RestoreClaim(j) /\ Leave(j)
    /\ UNCHANGED << plaid, bank, changes, token, lines, past >>

\* The first import failed: the row says so, whatever has become of it.
Report(j) ==
    /\ At(j, "report")
    /\ \E repair \in BOOLEAN :
          feed' = [feed EXCEPT !.status = IF repair THEN "error" ELSE "connected",
                               !.promotion = IF repair THEN "blocked" ELSE "staging",
                               !.failed = TRUE]
    /\ Crossing(feed.item # job[j].item) /\ Leave(j)
    /\ UNCHANGED << plaid, bank, changes, token, lines >>

-----------------------------------------------------------------------------
(* disconnectPlaid and deletePlaidConsumerData.                            *)

\* item/remove; it fails for an item that is removed already.
RemoveItem(j) ==
    /\ At(j, "remove") /\ job[j].item \in plaid.active
    /\ plaid' = [plaid EXCEPT !.active = @ \ {job[j].item}] /\ To(j, "drop")
    /\ UNCHANGED << bank, changes, feed, token, lines, past >>

DropToken(j) ==
    /\ At(j, "drop") /\ token' = NoItem /\ To(j, "revoke")
    /\ UNCHANGED << plaid, bank, changes, feed, lines, past >>

\* The last successful import stays on record.
RevokeFeed(j) ==
    /\ At(j, "revoke") /\ Owns(j)
    /\ feed' = Unleased([feed EXCEPT !.status = "revoked", !.item = NoItem,
                                     !.promotion = "blocked", !.cursor = 0, !.failed = FALSE])
    /\ past' = [past EXCEPT !.furthest = 0] /\ Leave(j)
    /\ UNCHANGED << plaid, bank, changes, token, lines >>

DisconnectFails(j) ==
    /\ job[j].pc \in {"remove", "drop", "revoke"}
    /\ feed' = Released(j) /\ Leave(j)
    /\ UNCHANGED << plaid, bank, changes, token, lines, past >>

CheckDisconnected(j) ==
    /\ job[j] = Unoccupied /\ Disconnected
    /\ job' = [job EXCEPT ![j] = [pc |-> "erase"]]
    /\ UNCHANGED << plaid, bank, changes, feed, token, lines, past >>

\* One batch.  Reviewed movements stay without their source, out of Plaid's reach.
EraseData(j) ==
    /\ At(j, "erase")
    /\ lines' = NoRows /\ token' = NoItem
    /\ past' = [past EXCEPT !.shown = FALSE, !.late = {}, !.crossed = @ \/ ~Disconnected]
    /\ feed' = Unleased([feed EXCEPT !.status = "revoked", !.item = NoItem,
                                     !.promotion = "blocked", !.cursor = 0, !.synced = FALSE,
                                     !.failed = FALSE, !.erased = TRUE])
    /\ job' = Reshown(Overtaken([job EXCEPT ![j] = Unoccupied]))
    /\ UNCHANGED << plaid, bank, changes >>

-----------------------------------------------------------------------------
(* Approval, notices, evictions.                                           *)

Approvable == feed.promotion = "staging" /\ feed.synced /\ ~feed.failed

\* The request's checks; an expired lease is cleared.
ReadForApproval(j) ==
    /\ job[j] = Unoccupied /\ feed.status = "connected" /\ Approvable /\ ~feed.live
    /\ feed' = Unleased(feed)
    /\ job' = [job EXCEPT ![j] = [pc |-> "approve", cursor |-> feed.cursor, shown |-> TRUE]]
    /\ UNCHANGED << plaid, bank, changes, token, lines, past >>

ApproveFeed(j) ==
    /\ At(j, "approve")
    /\ IF /\ feed.status = "connected" /\ Approvable
          /\ feed.cursor = job[j].cursor /\ feed.owner = NoBankJob
       THEN /\ feed' = [feed EXCEPT !.promotion = "approved"]
            /\ past' = [past EXCEPT !.shown = job[j].shown]
       ELSE UNCHANGED << feed, past >>
    /\ Leave(j)
    /\ UNCHANGED << plaid, bank, changes, token, lines >>

ExcludeFeed ==
    /\ feed.status = "connected" /\ ~feed.live
    /\ feed' = [feed EXCEPT !.promotion = "staging"]
    /\ UNCHANGED << plaid, bank, changes, token, lines, job, past >>

\* settlePlaidWebhookEvent: a login is lost or repaired.
Notice(repaired) ==
    /\ feed.item # NoItem /\ feed.status \in {"connected", "error"}
    /\ feed' = [feed EXCEPT !.status = IF repaired THEN "connected" ELSE "error",
                            !.promotion = IF repaired THEN "staging" ELSE "blocked",
                            !.failed = ~repaired]
    /\ UNCHANGED << plaid, bank, changes, token, lines, job, past >>

\* The Worker is gone; an item whose token it had not stored is lost.
EvictJob(j) ==
    /\ job[j] # Unoccupied /\ Leave(j)
    /\ past' = IF job[j].pc \in {"exchanged", "saved", "undo"}
               THEN [past EXCEPT !.lost = @ \cup {job[j].item}] ELSE past
    /\ UNCHANGED << plaid, bank, changes, feed, token, lines >>

BankNext ==
    \/ \E m \in BankLines, gone \in BOOLEAN : BankChanges(m, gone)
    \/ BankLeaseExpires \/ ExcludeFeed
    \/ \E repaired \in BOOLEAN : Notice(repaired)
    \/ \E j \in BankJobs :
          \/ \E use \in {"import", "first", "disconnect"} : ReadCredentials(j, use)
          \/ CredentialsGone(j) \/ LeaseFeed(j) \/ StageFeed(j) \/ FetchChanges(j)
          \/ RenewForWrite(j) \/ \E m \in BankLines : WriteLine(j, m)
          \/ FinishImport(j)
          \/ \E repair \in BOOLEAN : FailImport(j, repair)
          \/ ClaimFeed(j) \/ ExchangeToken(j) \/ ExchangeFails(j) \/ SaveToken(j)
          \/ ConnectFeed(j) \/ GiveUp(j) \/ RemoveExchanged(j) \/ RemovalFails(j)
          \/ DropExchanged(j) \/ RestoreExchanged(j) \/ Report(j)
          \/ RemoveItem(j) \/ DropToken(j) \/ RevokeFeed(j) \/ DisconnectFails(j)
          \/ CheckDisconnected(j) \/ EraseData(j)
          \/ ReadForApproval(j) \/ ApproveFeed(j) \/ EvictJob(j)

BankSpec == BankInit /\ [][BankNext]_bankVars

-----------------------------------------------------------------------------
(* Properties.                                                             *)

\* "The cursor was not advanced": every change that the saved cursor has passed is in
\* the books, whoever failed or took over while it was written.  Not so for a line that
\* a run wrote last after its lease had passed on, and not after a request has written
\* over another institution's row.
CursorIsKept ==
    ~past.crossed /\ feed.item # NoItem /\ feed.item = plaid.latest =>
        \A m \in BankLines :
            bank[m].at <= feed.cursor /\ <<feed.item, m>> \notin past.late =>
                \/ lines[<<feed.item, m>>] = bank[m]
                \/ lines[<<feed.item, m>>] = Absent /\ bank[m].gone

\* "Fresh balances and imported transactions remain isolated until a finance
\* connection reviewer explicitly approves": what is approved is what was shown, but
\* for lines that landed after their lease had passed on (`shown` leaves them aside).
ApprovedAsShown == feed.promotion = "approved" => past.shown

\* A feed that is not connected holds no token and no authorization at Plaid, unless a
\* request has written over another institution's row.
RevokedHoldsNothing ==
    LET held == {job[j].item : j \in {i \in BankJobs : job[i].pc \in {"exchanged", "saved", "undo"}}}
    IN Disconnected /\ ~past.crossed =>
           token = NoItem /\ plaid.active \subseteq held \cup past.lost

\* What has been erased stays erased until an institution is connected again, but for
\* lines that an import of before the disconnect had still to write.
ErasedStaysErased ==
    feed.erased /\ ~past.crossed =>
        /\ \A r \in Rows \ past.late : lines[r] = Absent
        /\ Disconnected => token = NoItem

\* A slower import never takes the cursor back behind what a notice of updates,
\* processed since, had reported.
CursorStandsFirm == feed.item # NoItem /\ ~past.crossed => feed.cursor >= past.furthest

\* "Plaid must already be disconnected.  If it is active or needs repair, the API
\* fails closed": an erasure, which drops the token, never finds a feed connected.
ErasedOnlyDisconnected ==
    [][\A j \in BankJobs : EraseData(j) => feed.status \notin {"connected", "error"}]_bankVars

\* The bank feed can be trusted.
BankFeedIsSound ==
    /\ BankTypeOK /\ CursorIsKept /\ ApprovedAsShown /\ RevokedHoldsNothing
    /\ ErasedStaysErased /\ CursorStandsFirm
=============================================================================
