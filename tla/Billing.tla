------------------------------ MODULE Billing ------------------------------
(***************************************************************************)
(* Checkout and subscription of one workspace: the checkout attempt row    *)
(* and its Stripe session, the subscription row, the webhook events that   *)
(* synchronize it and the access it grants.                                *)
(*                                                                         *)
(* A request is one call of the checkout route, a hook one delivery of a   *)
(* webhook event; each of their actions is one awaited statement or one    *)
(* call to Stripe, and either may end anywhere.  A session is named by its *)
(* attempt, because the attempt is its idempotency key, and a subscription *)
(* by the session it was bought in.                                        *)
(***************************************************************************)
EXTENDS Naturals, Sequences, FiniteSets, DeletionJob

CONSTANTS
    Requests,     \* checkout requests in flight at a time
    Hooks,        \* webhook deliveries in flight at a time
    Selections,   \* what the owner can choose to buy
    MaxAttempts,  \* bound: checkout attempts
    MaxEvents,    \* bound: changes of subscriptions at Stripe
    Changes       \* bound: the statuses Stripe changes subscriptions to

ASSUME BoundsAssumption == MaxAttempts \in Nat \ {0} /\ MaxEvents \in Nat

Attempts == 1 .. MaxAttempts
NoAttempt == [id |-> 0]
NoSubscription ==
    [sub |-> 0, status |-> "none", trial |-> FALSE, converted |-> FALSE, seen |-> 0]

(* "active" is an active subscription with a paid invoice, "invoiced" one  *)
(* that is active while the first invoice after its trial is still open.   *)
Running == {"trialing", "invoiced", "active", "past_due"}
Statuses == Running \cup {"none", "canceled"}

VARIABLES
    session,   \* attempt id -> its checkout session at Stripe
    stripe,    \* attempt id -> status at Stripe of the subscription it bought
    paid,      \* history: subscriptions of which an invoice was paid
    events,    \* the events Stripe has issued, in order
    receipt,   \* event number -> its receipt row
    attempt,   \* the billing_checkout_attempts row
    nextId,    \* the next attempt id
    record,    \* the tenant_subscriptions row
    step, my,  \* where a checkout request stands, and its locals
    hook, our  \* the same for a webhook delivery

stripeVars == <<session, stripe, paid, events>>
requestVars == <<step, my>>
hookVars == <<hook, our>>
rowVars == <<attempt, nextId, record>>
billingVars == <<stripeVars, receipt, rowVars, requestVars, hookVars>>

NoLocals ==
    [sel |-> 0, sub |-> 0, status |-> "none", row |-> NoAttempt, got |-> "none"]
NoDelivery == [event |-> 0, current |-> FALSE, status |-> "none", retry |-> 0]

BillingInit ==
    /\ session = [a \in Attempts |-> [state |-> "none", trial |-> FALSE]]
    /\ paid = {}
    /\ stripe = [a \in Attempts |-> "none"]
    /\ events = <<>>
    /\ receipt = [e \in 1 .. MaxEvents |-> "waiting"]
    /\ attempt = NoAttempt /\ nextId = 1
    /\ record = NoSubscription
    /\ step = [r \in Requests |-> "idle"] /\ my = [r \in Requests |-> NoLocals]
    /\ hook = [h \in Hooks |-> "idle"] /\ our = [h \in Hooks |-> NoDelivery]

-----------------------------------------------------------------------------
(* Stripe and its customer.                                                *)

(* An event is dated in seconds, so two may carry the same date.           *)
Issue(sub) ==
    /\ Len(events) < MaxEvents
    /\ \E later \in {0, 1} :
         LET last == IF events = <<>> THEN 0 ELSE events[Len(events)].created
         IN  events' = Append(events, [sub |-> sub, created |-> last + later])

(* Open at Stripe; "offered" once somebody has been given the page.        *)
Payable(a) == session[a].state \in {"open", "offered"}

(* A session completes when the page somebody was given is paid.           *)
CompleteSession(a) ==
    /\ session[a].state = "offered"
    /\ session' = [session EXCEPT ![a].state = "complete"]
    /\ stripe' = [stripe EXCEPT ![a] = IF session[a].trial THEN "trialing" ELSE "active"]
    /\ paid' = IF session[a].trial THEN paid ELSE paid \cup {a}
    /\ Issue(a)
    /\ UNCHANGED <<receipt, rowVars, requestVars, hookVars, jobVars>>

(* A session expires an hour after its attempt was saved.                  *)
SessionTimesOut(a) ==
    /\ Payable(a)
    /\ session' = [session EXCEPT ![a].state = "expired"]
    /\ UNCHANGED <<stripe, paid, events, receipt, rowVars, requestVars, hookVars, jobVars>>

(* Also an invoice of a canceled subscription has events.                  *)
ChangeSubscription(a, to) ==
    /\ to \in Changes
    /\ to \in CASE stripe[a] = "trialing" -> {"invoiced", "canceled"}
                [] stripe[a] = "invoiced" -> {"active", "past_due", "canceled"}
                [] stripe[a] = "active" -> {"past_due", "canceled"}
                [] stripe[a] = "past_due" -> {"active", "canceled"}
                [] stripe[a] = "canceled" -> {"canceled"}
                [] OTHER -> {}
    /\ stripe' = [stripe EXCEPT ![a] = to]
    /\ paid' = IF to = "active" THEN paid \cup {a} ELSE paid
    /\ Issue(a)
    /\ UNCHANGED <<session, receipt, rowVars, requestVars, hookVars, jobVars>>

-----------------------------------------------------------------------------
(* A checkout request.                                                     *)

(* stripe_subscription_id is set and its status is not a final one.        *)
Subscribed(rec) == rec.sub # 0 /\ rec.status # "canceled"

Go(r, to, locals) ==
    /\ step' = [step EXCEPT ![r] = to]
    /\ my' = [my EXCEPT ![r] = IF to = "idle" THEN NoLocals ELSE locals]

(* A request may fail in any statement and be evicted after any: nothing   *)
(* is undone.  This also stands for giving up after three rounds, and for  *)
(* refusing to submit again what was first submitted 23 hours ago.         *)
Abandon(r) ==
    /\ step[r] # "idle" /\ Go(r, "idle", NoLocals)
    /\ UNCHANGED <<stripeVars, receipt, rowVars, hookVars, jobVars>>

(* What a round reads first.  It goes on with this while others write.     *)
ReadSubscription(r, locals) ==
    IF Subscribed(record)
      THEN Go(r, "idle", NoLocals)
      ELSE Go(r, "attempt", [locals EXCEPT !.sub = record.sub, !.status = record.status])

BeginCheckout(r) ==
    /\ step[r] = "idle"
    /\ WorkspaceExists /\ ~Erasing
    /\ \E s \in Selections : ReadSubscription(r, [NoLocals EXCEPT !.sel = s])
    /\ UNCHANGED <<stripeVars, receipt, rowVars, hookVars, jobVars>>

NextRound(r) ==
    /\ step[r] = "again"
    /\ ReadSubscription(r, my[r])
    /\ UNCHANGED <<stripeVars, receipt, rowVars, hookVars, jobVars>>

TrialEligible(r) == my[r].sub = 0

(* Where the request goes once it has read the attempt row.                *)
GoWith(r, row) ==
    IF row.known THEN Go(r, "retrieve", [my[r] EXCEPT !.row = row])
                 ELSE Go(r, "submit", [my[r] EXCEPT !.row = row])

ReadAttempt(r) ==
    /\ step[r] = "attempt"
    /\ IF attempt = NoAttempt THEN Go(r, "insert", my[r]) ELSE GoWith(r, attempt)
    /\ UNCHANGED <<stripeVars, receipt, rowVars, hookVars, jobVars>>

(* One conditional insert; a row that is already there is left alone.      *)
InsertAttempt(r) ==
    /\ step[r] = "insert" /\ nextId \in Attempts
    /\ LET permitted ==
             /\ WorkspaceExists /\ ~Recorded /\ ~Subscribed(record)
             /\ TrialEligible(r) => record.sub = 0
             /\ attempt = NoAttempt
       IN  /\ attempt' = IF permitted
                 THEN [id |-> nextId, sel |-> my[r].sel, trial |-> TrialEligible(r), known |-> FALSE]
                 ELSE attempt
           /\ nextId' = IF permitted THEN nextId + 1 ELSE nextId
    /\ Go(r, "reread", my[r])
    /\ UNCHANGED <<stripeVars, receipt, record, hookVars, jobVars>>

RereadAttempt(r) ==
    /\ step[r] = "reread"
    /\ IF attempt = NoAttempt THEN Go(r, "idle", NoLocals) ELSE GoWith(r, attempt)
    /\ UNCHANGED <<stripeVars, receipt, rowVars, hookVars, jobVars>>

(* Creates the session of an attempt, or returns the one it already has.   *)
Submitted(row) ==
    session' = IF session[row.id].state = "none"
                 THEN [session EXCEPT ![row.id] = [state |-> "open", trial |-> row.trial]]
                 ELSE session

SubmitSession(r) ==
    /\ step[r] = "submit"
    /\ Submitted(my[r].row)
    /\ Go(r, "retrieve", my[r])
    /\ UNCHANGED <<stripe, paid, events, receipt, rowVars, hookVars, jobVars>>

(* Variant: a completed session is taken for one that was used up.         *)
AfterSessionHasty(r, got) ==
    LET row == my[r].row
    IN  IF got \in {"open", "offered"}
          THEN IF row.sel = my[r].sel /\ row.trial = TrialEligible(r) THEN "offer" ELSE "expire"
          ELSE "delete"

(* What is done about the session as Stripe described it.                  *)
AfterSession(r, got) ==
    LET row == my[r].row
    IN  CASE got = "complete" ->
               IF my[r].sub = row.id /\ my[r].status = "canceled" THEN "delete" ELSE "idle"
          [] got \in {"open", "offered"} ->
               IF row.sel = my[r].sel /\ row.trial = TrialEligible(r) THEN "offer" ELSE "expire"
          [] OTHER -> "delete"

(* From here on the request needs the name of the attempt only.            *)
Conclude(r, got) ==
    Go(r, AfterSession(r, got), [NoLocals EXCEPT !.sel = my[r].sel, !.row = [id |-> my[r].row.id]])

RetrieveSession(r) ==
    /\ step[r] = "retrieve"
    /\ LET got == session[my[r].row.id].state
       IN  IF my[r].row.known THEN Conclude(r, got)
                              ELSE Go(r, "save", [my[r] EXCEPT !.got = got])
    /\ UNCHANGED <<stripeVars, receipt, rowVars, hookVars, jobVars>>

(* The session is saved in the row it was submitted for; if another row    *)
(* has taken its place the request gives up.                               *)
SaveSession(r) ==
    /\ step[r] = "save"
    /\ IF attempt.id = my[r].row.id
         THEN /\ attempt' = [attempt EXCEPT !.known = TRUE]
              /\ Conclude(r, my[r].got)
         ELSE /\ Go(r, "idle", NoLocals) /\ UNCHANGED attempt
    /\ UNCHANGED <<stripeVars, receipt, nextId, record, hookVars, jobVars>>

ExpireSession(r) ==
    /\ step[r] = "expire"
    /\ LET a == my[r].row.id
       IN  IF Payable(a)
             THEN /\ session' = [session EXCEPT ![a].state = "expired"]
                  /\ Go(r, "delete", my[r])
             ELSE /\ UNCHANGED session /\ Go(r, "idle", NoLocals)
    /\ UNCHANGED <<stripe, paid, events, receipt, rowVars, hookVars, jobVars>>

(* The last check before the payment page is handed out.                   *)
OfferSession(r) ==
    /\ step[r] = "offer"
    /\ LET a == my[r].row.id
           permitted == attempt.id = a /\ ~Recorded /\ ~Subscribed(record)
       IN  session' = IF permitted /\ session[a].state = "open"
                        THEN [session EXCEPT ![a].state = "offered"] ELSE session
    /\ Go(r, "idle", NoLocals)
    /\ UNCHANGED <<stripe, paid, events, receipt, rowVars, hookVars, jobVars>>

(* Compare and delete, then begin again.                                   *)
DeleteAttempt(r) ==
    /\ step[r] = "delete"
    /\ attempt' = IF attempt.id = my[r].row.id THEN NoAttempt ELSE attempt
    /\ Go(r, "again", [NoLocals EXCEPT !.sel = my[r].sel])
    /\ UNCHANGED <<stripeVars, receipt, nextId, record, hookVars, jobVars>>

CheckoutStep(r) ==
    \/ BeginCheckout(r) \/ Abandon(r)
    \/ NextRound(r) \/ ReadAttempt(r) \/ InsertAttempt(r) \/ RereadAttempt(r)
    \/ SubmitSession(r) \/ RetrieveSession(r) \/ SaveSession(r) \/ ExpireSession(r)
    \/ OfferSession(r) \/ DeleteAttempt(r)

-----------------------------------------------------------------------------
(* A delivery of a webhook event.                                          *)

Deliver(h, to, delivery) ==
    /\ hook' = [hook EXCEPT ![h] = to]
    /\ our' = [our EXCEPT ![h] = IF to = "idle" THEN NoDelivery ELSE delivery]

(* A receipt waits if it is new, if its last claim failed, or if that      *)
(* claim is two minutes old; only then it is claimed.                      *)
ClaimEvent(h) ==
    /\ hook[h] = "idle"
    /\ \E e \in 1 .. Len(events) :
         /\ receipt[e] = "waiting"
         /\ receipt' = [receipt EXCEPT ![e] = "processing"]
         /\ Deliver(h, "read", [NoDelivery EXCEPT !.event = e])
    /\ UNCHANGED <<stripeVars, rowVars, requestVars, jobVars>>

(* The claim of a delivery that stalls or was evicted becomes two minutes  *)
(* old.                                                                    *)
ClaimRunsOut(e) ==
    /\ receipt[e] = "processing"
    /\ receipt' = [receipt EXCEPT ![e] = "waiting"]
    /\ UNCHANGED <<stripeVars, rowVars, requestVars, hookVars, jobVars>>

(* Any statement may throw; the catch block marks the receipt.  It does so *)
(* whoever holds the claim by then.                                        *)
FailDelivery(h) ==
    /\ hook[h] # "idle"
    /\ receipt' = [receipt EXCEPT ![our[h].event] = "waiting"]
    /\ Deliver(h, "idle", NoDelivery)
    /\ UNCHANGED <<stripeVars, rowVars, requestVars, jobVars>>

EvictDelivery(h) ==
    /\ hook[h] # "idle" /\ Deliver(h, "idle", NoDelivery)
    /\ UNCHANGED <<stripeVars, receipt, rowVars, requestVars, jobVars>>

(* The version is read before Stripe is asked.  An event that does not     *)
(* name the workspace finds the row by the subscription, and reads version *)
(* zero if it finds none.  "current" says that the version read is still   *)
(* the one in the row: every write clears it for all deliveries.           *)
ReadVersion(h) ==
    /\ hook[h] = "read"
    /\ \E named \in BOOLEAN :
         LET found == named \/ record.sub = events[our[h].event].sub
         IN  Deliver(h, "retrieve", [our[h] EXCEPT !.current = found \/ record.sub = 0])
    /\ UNCHANGED <<stripeVars, receipt, rowVars, requestVars, jobVars>>

RetrieveSubscription(h) ==
    /\ hook[h] = "retrieve"
    /\ Deliver(h, "persist", [our[h] EXCEPT !.status = stripe[events[our[h].event].sub]])
    /\ UNCHANGED <<stripeVars, receipt, rowVars, requestVars, jobVars>>

(* The trial of a subscription counts if it was accepted before, or if it  *)
(* is the workspace's first and was bought in the attempt on record.       *)
TrialAccepted(sub) ==
    \/ record.sub = sub /\ record.trial
    \/ record.sub \in {0, sub} /\ attempt.id = sub /\ attempt.trial

(* Variant: the version is not compared.                                   *)
MayReplaceBlindly(sub, status, current, created) ==
    /\ WorkspaceExists
    /\ record.seen <= created
    /\ \/ record.sub \in {0, sub}
       \/ record.status = "canceled" /\ status \in {"trialing", "invoiced", "active"}

(* The conditions of the update: nobody wrote since the version was read,  *)
(* the event is not older than the last one, and another subscription is   *)
(* taken over only from a final one.                                       *)
MayReplace(sub, status, current, created) ==
    /\ WorkspaceExists /\ current
    /\ record.seen <= created
    /\ \/ record.sub \in {0, sub}
       \/ record.status = "canceled" /\ status \in {"trialing", "invoiced", "active"}

Snapshot(sub, status, created) ==
    LET trial == session[sub].trial
        same == record.sub = sub
    IN  [sub |-> sub, status |-> status, trial |-> trial,
         converted |-> trial /\ ((same /\ record.converted) \/ status = "active"),
         seen |-> created]

(* Row, add-on and receipt are one batch.  A refused update is stale if a  *)
(* later event was seen and a conflict otherwise, which is tried once more *)
(* from the version on.                                                    *)
PersistSubscription(h) ==
    /\ hook[h] = "persist"
    /\ LET e == our[h].event
           sub == events[e].sub
           created == events[e].created
           accepted == session[sub].trial => TrialAccepted(sub)
           write == accepted /\ MayReplace(sub, our[h].status, our[h].current, created)
           stale == accepted /\ ~write /\ record.seen > created
           again == accepted /\ ~write /\ ~stale /\ our[h].retry = 0
       IN  /\ record' = IF write THEN Snapshot(sub, our[h].status, created) ELSE record
           /\ receipt' = IF again THEN receipt ELSE
                [receipt EXCEPT ![e] = CASE write -> "processed" [] stale -> "ignored" [] OTHER -> "waiting"]
           /\ hook' = [hook EXCEPT ![h] = IF again THEN "read" ELSE "idle"]
           /\ our' = [g \in Hooks |->
                CASE g = h -> IF again THEN [NoDelivery EXCEPT !.event = e, !.retry = 1] ELSE NoDelivery
                  [] OTHER -> [our[g] EXCEPT !.current = @ /\ ~write]]
    /\ UNCHANGED <<stripeVars, attempt, nextId, requestVars, jobVars>>

HookStep(h) ==
    \/ ClaimEvent(h) \/ ReadVersion(h) \/ RetrieveSubscription(h)
    \/ PersistSubscription(h) \/ FailDelivery(h) \/ EvictDelivery(h)

-----------------------------------------------------------------------------
(* subscriptionGrantsAccess: an active subscription, once a trial that     *)
(* preceded it has been paid for, or an accepted trial.                    *)
GrantsAccess(rec) ==
    \/ rec.status \in {"invoiced", "active"} /\ (rec.trial => rec.converted)
    \/ rec.status = "trialing" /\ rec.trial

StripeStep ==
    \/ \E a \in Attempts : CompleteSession(a) \/ SessionTimesOut(a)
    \/ \E a \in Attempts, to \in Statuses : ChangeSubscription(a, to)

BillingNext ==
    \/ StripeStep
    \/ \E r \in Requests : CheckoutStep(r)
    \/ \E h \in Hooks : HookStep(h)
    \/ \E e \in 1 .. MaxEvents : ClaimRunsOut(e)

-----------------------------------------------------------------------------
(* The type invariant of this module.                                      *)
BillingTypeOK ==
    /\ \A a \in Attempts :
         /\ session[a].state \in {"none", "open", "offered", "complete", "expired"}
         /\ stripe[a] \in Statuses
    /\ paid \subseteq Attempts
    /\ Len(events) <= MaxEvents
    /\ \A e \in 1 .. MaxEvents :
         receipt[e] \in {"waiting", "processing", "processed", "ignored"}
    /\ attempt.id \in {0} \cup Attempts /\ nextId \in 1 .. MaxAttempts + 1
    /\ record.sub \in {0} \cup Attempts /\ record.status \in Statuses

(* Nobody pays twice: whatever two requests, a changed selection, lost     *)
(* answers and late webhooks do, at most one subscription of the workspace *)
(* is running, and while one runs no other payment page can be paid.       *)
NobodyPaysTwice ==
    \A a, b \in Attempts : a # b /\ stripe[a] \in Running =>
        /\ stripe[b] \notin Running
        /\ ~Payable(b)

(* A workspace gets one free trial, however its checkouts interleave.      *)
OneTrial ==
    \A a, b \in Attempts :
        /\ stripe[a] # "none" /\ stripe[b] # "none"
        /\ session[a].trial /\ session[b].trial
        => a = b

(* Another subscription, one that is canceled by then, has an event that   *)
(* is later than every event of this one.                                  *)
Overtaken(a) ==
    \E e \in 1 .. Len(events) :
        /\ events[e].sub # a
        /\ \A d \in 1 .. Len(events) :
              events[d].sub = a => events[d].created < events[e].created

(* Once every event has been processed or set aside as stale, the row says *)
(* what Stripe says of the subscription it names, in whatever order, how   *)
(* often and by how many deliveries at a time the events were handled, and *)
(* it names the one that runs, unless that one was overtaken.  If it was,  *)
(* the later event may have been handled first; the update then sets the   *)
(* running subscription aside as stale, until it has a later event itself. *)
(* docs/BILLING_ENTITLEMENT_FOUNDATION.md:56 promises the row without this *)
(* condition, and line 89 registers the webhook for events that end with a *)
(* cancellation; but the route handles invoices as well.                   *)
SettledMeansCurrent ==
    /\ stage = "none"
    /\ \A e \in 1 .. Len(events) : receipt[e] \in {"processed", "ignored"}
    => \A a \in Attempts :
         /\ stripe[a] \in Running /\ ~Overtaken(a) => record.sub = a
         /\ record.sub = a => record.status = stripe[a]

(* Access is granted for a paid subscription or for the trial of the first *)
(* one; an active status before the first payment after a trial is not     *)
(* enough.                                                                 *)
ServiceIsEarned ==
    GrantsAccess(record) =>
        \/ record.sub \in paid
        \/ record.status = "trialing" /\ \A a \in 1 .. record.sub - 1 : stripe[a] = "none"

(* The customer's money: one subscription, one trial.  The row that access *)
(* is decided by: current, and never ahead of payment.                     *)
BillingIsSound ==
    /\ BillingTypeOK /\ NobodyPaysTwice /\ OneTrial
    /\ SettledMeansCurrent /\ ServiceIsEarned
=============================================================================
