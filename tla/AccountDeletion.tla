--------------------------- MODULE AccountDeletion ---------------------------
(***************************************************************************)
(* The deletion of a workspace (account-deletion.ts), while its billing    *)
(* and its document intake go on: the job row with its stage, its sealed   *)
(* plan and its lease, and the attempts that advance it.  The browser that *)
(* confirmed the deletion repeats the call until it is answered "deleted", *)
(* so attempts overlap, stall and are evicted anywhere.                    *)
(***************************************************************************)
EXTENDS Billing, DocumentIngest

CONSTANTS Attempters   \* calls of advanceDeletion in flight at a time

VARIABLES
    job,       \* the other columns of the job row
    lease,     \* lease_until: whose value it is, and whether it lies ahead
    identity,  \* whether the identity provider still has the owner's sign-in
    dat, dmy   \* where an attempt stands, and its locals

deletionVars == <<job, lease, identity, dat, dmy>>
NoAdvance == [stage |-> "none", plan |-> 0, billed |-> FALSE, row |-> NoAttempt, keys |-> {}]
NoJob == [plan |-> 0, billed |-> FALSE]
others == <<billingVars, ingestVars>>

DeletionInit ==
    /\ stage = "none" /\ workspace = "present"
    /\ job = NoJob
    /\ lease = [by |-> Nobody, live |-> FALSE]
    /\ identity = "kept"
    /\ dat = [d \in Attempters |-> "idle"] /\ dmy = [d \in Attempters |-> NoAdvance]

Advance(d, to, locals) ==
    /\ dat' = [dat EXCEPT ![d] = to]
    /\ dmy' = [dmy EXCEPT ![d] = IF to \in {"idle", "release"} THEN NoAdvance ELSE locals]

Continue(d, to) == Advance(d, to, dmy[d])

(* POST of the deletion route.  The subscription in the plan was read a    *)
(* few statements before.                                                  *)
RequestClosure ==
    /\ stage = "none"
    /\ \E sub \in {0, record.sub} : job' = [NoJob EXCEPT !.plan = sub]
    /\ stage' = "checking"
    /\ UNCHANGED <<others, workspace, lease, identity, dat, dmy>>

-----------------------------------------------------------------------------
(* The lease of two minutes.                                               *)

AcquireJob(d) ==
    /\ dat[d] = "idle" /\ stage \notin {"none", "completed"} /\ ~lease.live
    /\ lease' = [by |-> d, live |-> TRUE]
    /\ Continue(d, "read")
    /\ UNCHANGED <<others, jobVars, job, identity>>

(* Two minutes pass; the holder may still be at work.                      *)
JobLeaseExpires ==
    /\ lease.live /\ lease' = [lease EXCEPT !.live = FALSE]
    /\ UNCHANGED <<others, jobVars, job, identity, dat, dmy>>

(* renewLease, which throws when the lease ran out or is another's.        *)
Renewals ==
    [renew1 |-> "confirm", renew2 |-> "billing", renew3 |-> "milestone",
     renew4 |-> "list", renew5 |-> "delete", renew6 |-> "erase",
     renew7 |-> "identity", renew8 |-> "marketing", renew9 |-> "complete"]

RenewJob(d) ==
    /\ dat[d] \in DOMAIN Renewals
    /\ IF lease = [by |-> d, live |-> TRUE]
         THEN Continue(d, Renewals[dat[d]]) ELSE Continue(d, "release")
    /\ UNCHANGED <<others, jobVars, job, lease, identity>>

(* Any check, statement or provider call may throw.                        *)
ThrowAdvance(d) ==
    /\ dat[d] \notin {"idle", "release"} /\ Continue(d, "release")
    /\ UNCHANGED <<others, jobVars, job, lease, identity>>

EvictAdvance(d) ==
    /\ dat[d] # "idle" /\ Continue(d, "idle")
    /\ UNCHANGED <<others, jobVars, job, lease, identity>>

(* A delayed attempt must not unlock a newer attempt's lease.              *)
ReleaseJob(d) ==
    /\ dat[d] = "release"
    /\ lease' = IF lease.by = d THEN [by |-> Nobody, live |-> FALSE] ELSE lease
    /\ Continue(d, "idle")
    /\ UNCHANGED <<others, jobVars, job, identity>>

-----------------------------------------------------------------------------
(* The stages.                                                             *)

(* The stage is read again under the lease.  A job that was completed, or  *)
(* fell back from it, has no plan and no workspace to go on with.          *)
ReadJob(d) ==
    /\ dat[d] = "read"
    /\ IF ~Named THEN Continue(d, "release")
       ELSE Advance(d, CASE stage = "checking" -> "renew1"
                         [] stage = "confirmed" -> "review"
                         [] OTHER -> "dispose2",
              [NoAdvance EXCEPT !.stage = stage, !.plan = job.plan, !.billed = job.billed])
    /\ UNCHANGED <<others, jobVars, job, lease, identity>>

(* After the identity service has verified who owns what.                  *)
ConfirmJob(d) ==
    /\ dat[d] = "confirm"
    /\ stage' = "confirmed" /\ job' = [job EXCEPT !.plan = dmy[d].plan]
    /\ Continue(d, "review")
    /\ UNCHANGED <<others, workspace, lease, identity>>

(* A connection or a member that came since makes it throw.                *)
ReviewJob(d) ==
    /\ dat[d] = "review"
    /\ Continue(d, IF dmy[d].billed THEN "dispose1" ELSE "renew2")
    /\ UNCHANGED <<others, jobVars, job, lease, identity>>

(* A checkout may have finished since the plan was made.                   *)
ReadBilling(d) ==
    /\ dat[d] = "billing"
    /\ Advance(d, IF record.sub \notin {0, dmy[d].plan} THEN "save_plan" ELSE "close",
         [dmy[d] EXCEPT !.plan = IF record.sub = 0 THEN @ ELSE record.sub])
    /\ UNCHANGED <<others, jobVars, job, lease, identity>>

SavePlan(d) ==
    /\ dat[d] = "save_plan"
    /\ job' = IF stage = "confirmed" THEN [job EXCEPT !.plan = dmy[d].plan] ELSE job
    /\ Continue(d, "close")
    /\ UNCHANGED <<others, jobVars, lease, identity>>

(* closeCheckoutBeforeDeletion: the attempt's session is submitted again   *)
(* if its name is not known, looked up, and expired if it is open.         *)
CloseCheckout(d) ==
    /\ dat[d] = "close"
    /\ IF attempt = NoAttempt THEN Continue(d, "cancel")
       ELSE Advance(d, IF attempt.known THEN "inspect" ELSE "submit", [dmy[d] EXCEPT !.row = attempt])
    /\ UNCHANGED <<others, jobVars, job, lease, identity>>

SubmitForClosing(d) ==
    /\ dat[d] = "submit"
    /\ Submitted(dmy[d].row)
    /\ Continue(d, "save")
    /\ UNCHANGED <<stripe, paid, events, receipt, rowVars, requestVars, hookVars,
                   ingestVars, jobVars, job, lease, identity>>

SaveForClosing(d) ==
    /\ dat[d] = "save"
    /\ attempt' = IF attempt.id = dmy[d].row.id THEN [attempt EXCEPT !.known = TRUE] ELSE attempt
    /\ Continue(d, IF attempt.id = dmy[d].row.id THEN "inspect" ELSE "release")
    /\ UNCHANGED <<stripeVars, receipt, nextId, record, requestVars, hookVars,
                   ingestVars, jobVars, job, lease, identity>>

(* Variant: a session that cannot be paid any more counts as closed.       *)
InspectSessionLoosely(d) ==
    /\ dat[d] = "inspect"
    /\ Continue(d, IF Payable(dmy[d].row.id) THEN "expire" ELSE "cancel")
    /\ UNCHANGED <<others, jobVars, job, lease, identity>>

InspectSession(d) ==
    /\ dat[d] = "inspect"
    /\ LET a == dmy[d].row.id
       IN  Continue(d, CASE Payable(a) -> "expire"
                         [] session[a].state = "expired" -> "cancel"
                         [] OTHER -> IF dmy[d].plan = a THEN "cancel" ELSE "release")
    /\ UNCHANGED <<others, jobVars, job, lease, identity>>

(* Stripe refuses to expire a session that was paid a moment before.       *)
ExpireForClosing(d) ==
    /\ dat[d] = "expire"
    /\ LET a == dmy[d].row.id
       IN  IF Payable(a)
             THEN /\ session' = [session EXCEPT ![a].state = "expired"]
                  /\ Continue(d, "cancel")
             ELSE UNCHANGED session /\ Continue(d, "release")
    /\ UNCHANGED <<stripe, paid, events, receipt, rowVars, requestVars, hookVars,
                   ingestVars, jobVars, job, lease, identity>>

(* Stripe issues an event of it (if the bound leaves room for one).        *)
CancelSubscription(d) ==
    /\ dat[d] = "cancel"
    /\ LET sub == dmy[d].plan
       IN  IF sub # 0 /\ stripe[sub] # "canceled"
             THEN /\ stripe' = [stripe EXCEPT ![sub] = "canceled"]
                  /\ IF Len(events) < MaxEvents THEN Issue(sub) ELSE UNCHANGED events
             ELSE UNCHANGED <<stripe, events>>
    /\ Continue(d, "renew3")
    /\ UNCHANGED <<session, paid, receipt, rowVars, requestVars, hookVars,
                   ingestVars, jobVars, job, lease, identity>>

SaveMilestone(d) ==
    /\ dat[d] = "milestone"
    /\ job' = [job EXCEPT !.billed = TRUE]
    /\ Continue(d, "dispose1")
    /\ UNCHANGED <<others, jobVars, lease, identity>>

-----------------------------------------------------------------------------
(* deleteWorkspaceObjects, before and after the rows are erased.           *)

Done(d) == IF dmy[d].stage = "local_deleted" THEN "renew7" ELSE "renew6"

(* Variant: only failed uploads are waited for.                            *)
AssertCleaned(d) ==
    /\ dat[d] \in {"dispose1", "dispose2"}
    /\ IF \E c \in Contents : intents[c].state = "cleanup"
         THEN Continue(d, "release")
         ELSE Advance(d, "renew4", [dmy[d] EXCEPT !.stage =
                IF dat[d] = "dispose1" THEN "confirmed" ELSE "local_deleted"])
    /\ UNCHANGED <<others, jobVars, job, lease, identity>>

(* The cleanup that precedes this check is that of a cleaner.              *)
AssertDisposed(d) ==
    /\ dat[d] \in {"dispose1", "dispose2"}
    /\ IF \E c \in Contents : intents[c] # NoIntent
         THEN Continue(d, "release")
         ELSE Advance(d, "renew4", [dmy[d] EXCEPT !.stage =
                IF dat[d] = "dispose1" THEN "confirmed" ELSE "local_deleted"])
    /\ UNCHANGED <<others, jobVars, job, lease, identity>>

ListObjects(d) ==
    /\ dat[d] = "list"
    /\ Advance(d, IF objects = {} THEN Done(d) ELSE "renew5", [dmy[d] EXCEPT !.keys = objects])
    /\ UNCHANGED <<others, jobVars, job, lease, identity>>

DeleteObjects(d) ==
    /\ dat[d] = "delete"
    /\ objects' = objects \ dmy[d].keys
    /\ Advance(d, "renew4", [dmy[d] EXCEPT !.keys = {}])
    /\ UNCHANGED <<billingVars, nextKey, intents, doc, invoices, origin, mailVars, granted,
                   at, up, cat, cup, jobVars, job, lease, identity>>

(* One batch.  With the workspace row go the rows that reference it.       *)
EraseLocal(d) ==
    /\ dat[d] = "erase"
    /\ workspace' = IF workspace = "present" THEN "erased" ELSE workspace
    /\ stage' = "local_deleted"
    /\ record' = NoSubscription /\ attempt' = NoAttempt
    /\ doc' = [c \in Contents |-> NoDocument]
    /\ received' = {} /\ source' = [i \in Attachments |-> 0]
    /\ delivery' = [status |-> "none", by |-> Nobody, live |-> FALSE]
    /\ Continue(d, "dispose2")
    /\ UNCHANGED <<stripeVars, receipt, nextId, requestVars, hookVars,
                   objects, nextKey, intents, invoices, origin, granted, at, up, cat, cup,
                   job, lease, identity>>

-----------------------------------------------------------------------------
(* What is left outside.                                                   *)

(* The sign-in is removed at the identity provider; the answer may be lost.*)
RemoveIdentity(d) ==
    /\ dat[d] = "identity"
    /\ identity' = "removed"
    /\ \E answered \in BOOLEAN : Continue(d, IF answered THEN "renew8" ELSE "release")
    /\ UNCHANGED <<others, jobVars, job, lease>>

EraseMarketing(d) ==
    /\ dat[d] = "marketing"
    /\ Continue(d, "renew9")
    /\ UNCHANGED <<others, jobVars, job, lease, identity>>

(* The plan and the identifiers are dropped.                               *)
CompleteJob(d) ==
    /\ dat[d] = "complete"
    /\ stage' = "completed" /\ workspace' = "forgotten" /\ job' = NoJob
    /\ Continue(d, "release")
    /\ UNCHANGED <<others, lease, identity>>

AttemptStep(d) ==
    \/ AcquireJob(d) \/ RenewJob(d) \/ ThrowAdvance(d) \/ EvictAdvance(d) \/ ReleaseJob(d)
    \/ ReadJob(d) \/ ConfirmJob(d) \/ ReviewJob(d) \/ ReadBilling(d) \/ SavePlan(d)
    \/ CloseCheckout(d) \/ SubmitForClosing(d) \/ SaveForClosing(d) \/ InspectSession(d)
    \/ ExpireForClosing(d) \/ CancelSubscription(d) \/ SaveMilestone(d)
    \/ AssertDisposed(d) \/ ListObjects(d) \/ DeleteObjects(d) \/ EraseLocal(d)
    \/ RemoveIdentity(d) \/ EraseMarketing(d) \/ CompleteJob(d)

DeletionNext ==
    \/ RequestClosure \/ JobLeaseExpires
    \/ \E d \in Attempters : AttemptStep(d)

-----------------------------------------------------------------------------
(* The whole: checkouts, webhooks, mail, uploads and invoices go on while  *)
(* the workspace is being deleted, one statement or call at a time.        *)
closingVars == <<others, jobVars, deletionVars>>

ClosingInit == BillingInit /\ IngestInit /\ DeletionInit

ClosingNext ==
    \/ BillingNext /\ UNCHANGED <<ingestVars, deletionVars>>
    \/ IngestNext /\ UNCHANGED <<billingVars, deletionVars>>
    \/ DeletionNext

ClosingSpec == ClosingInit /\ [][ClosingNext]_closingVars

-----------------------------------------------------------------------------
(* The type invariant of this module.                                      *)
DeletionTypeOK ==
    /\ stage \in Stages /\ workspace \in {"present", "erased", "forgotten"}
    /\ job.plan \in {0} \cup Attempts /\ job.billed \in BOOLEAN
    /\ lease.by \in Attempters \cup {Nobody}
    /\ identity \in {"kept", "removed"}
    /\ \A d \in Attempters : dmy[d].keys \subseteq Originals

(* Once the billing milestone is recorded, which lets a retry skip it, and *)
(* ever after, no subscription of the workspace runs and no payment page   *)
(* can be paid, whatever checkouts and webhooks were on their way.         *)
ClosedIsNotBilled ==
    job.billed \/ ~WorkspaceExists =>
        \A a \in Attempts : stripe[a] \notin Running /\ ~Payable(a)

(* Completion is declared when nothing is left: no original, no upload     *)
(* that could still create one, no sign-in and nothing billed.             *)
CompletionIsClean ==
    [][workspace = "erased" /\ workspace' = "forgotten" =>
         /\ objects \subseteq invoices
         /\ \A c \in Contents : intents[c] = NoIntent
         /\ identity = "removed"]_deletionVars

=============================================================================
