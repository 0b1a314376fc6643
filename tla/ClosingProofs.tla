---------------------------- MODULE ClosingProofs ----------------------------
(***************************************************************************)
(* Theorems of a workspace that is billed, takes documents in and may be   *)
(* deleted meanwhile (AccountDeletion with Billing and DocumentIngest),    *)
(* for any number of requests, deliveries, writers, cleaners and attempts, *)
(* attempts that overlap, stall or are evicted included.                   *)
(*                                                                         *)
(* Billing rests on the checkout attempt row: of all attempts ever made    *)
(* only the one on record may still be paid or have a running subscription *)
(* (SessionsFollow).  Intake rests on the keys of originals: a key belongs *)
(* to one content, and as long as its writer may still put or commit it,   *)
(* its intent is there.  The deletion rests on both, because once it is    *)
(* requested no attempt row is inserted and once it is confirmed no intent *)
(* is.                                                                     *)
(***************************************************************************)
EXTENDS AccountDeletion, TLAPS

-----------------------------------------------------------------------------
(* Billing: the types of its state.                                        *)

SessionStates == {"none", "open", "offered", "complete", "expired"}
FullRows == [id : Attempts, sel : {0} \cup Selections, trial : BOOLEAN, known : BOOLEAN]
NamedRows == [id : {0} \cup Attempts] \cup FullRows

Subscriptions ==
    [sub : {0} \cup Attempts, status : Statuses, trial : BOOLEAN, converted : BOOLEAN,
     seen : Nat]

CheckoutLocals ==
    [sel : {0} \cup Selections, sub : {0} \cup Attempts, status : Statuses,
     row : NamedRows, got : SessionStates]

CheckoutSteps ==
    {"idle", "attempt", "insert", "reread", "submit", "retrieve", "save", "expire",
     "offer", "delete", "again"}

WebhookLocals ==
    [event : 0 .. MaxEvents, current : BOOLEAN, status : Statuses, retry : {0, 1}]

BillingTypes ==
    /\ session \in [Attempts -> [state : SessionStates, trial : BOOLEAN]]
    /\ stripe \in [Attempts -> Statuses]
    /\ paid \subseteq Attempts
    /\ events \in Seq([sub : Attempts, created : Nat]) /\ Len(events) <= MaxEvents
    /\ receipt \in [1 .. MaxEvents -> {"waiting", "processing", "processed", "ignored"}]
    /\ attempt \in {NoAttempt} \cup FullRows
    /\ nextId \in 1 .. MaxAttempts + 1
    /\ record \in Subscriptions
    /\ step \in [Requests -> CheckoutSteps] /\ my \in [Requests -> CheckoutLocals]
    /\ hook \in [Hooks -> {"idle", "read", "retrieve", "persist"}]
    /\ our \in [Hooks -> WebhookLocals]

-----------------------------------------------------------------------------
(* Billing: what its rows and its requests say of Stripe.                  *)

\* Nothing will ever be charged through this attempt again.
Over(a) ==
    \/ session[a].state = "expired"
    \/ (session[a].state = "complete" /\ stripe[a] = "canceled")

\* Only the attempt on record, which is the latest, may still be paid or run.
SessionsFollow ==
    /\ \A a \in Attempts :
         /\ stripe[a] # "none" <=> session[a].state = "complete"
         /\ a >= nextId => session[a].state = "none"
         /\ a < nextId /\ a # attempt.id => Over(a)
    /\ attempt.id \in {0, nextId - 1}
    /\ attempt.id # 0 /\ attempt.known => session[attempt.id].state # "none"

\* What a request has read or done stays true while it goes on, however slowly.
RequestFollows(r) ==
    /\ step[r] \in {"submit", "retrieve", "save"} => my[r].row \in FullRows
    /\ step[r] \in {"submit", "retrieve", "save", "expire", "offer", "delete"} =>
         my[r].row.id \in Attempts /\ my[r].row.id < nextId
    /\ step[r] \in {"retrieve", "save", "expire", "offer"} => session[my[r].row.id].state # "none"
    /\ step[r] = "save" =>
         /\ my[r].got # "none"
         /\ my[r].got \in {"expired", "complete"} => session[my[r].row.id].state = my[r].got
    /\ step[r] = "delete" => Over(my[r].row.id)
    /\ my[r].sub # 0 /\ my[r].status = "canceled" => stripe[my[r].sub] = "canceled"

RequestsFollow == \A r \in Requests : RequestFollows(r)

\* The row names a subscription there was, and never says more than was earned.
RecordFollows ==
    /\ record.sub = 0 => record = NoSubscription
    /\ record.sub # 0 =>
         /\ stripe[record.sub] # "none"
         /\ record.status = "canceled" => stripe[record.sub] = "canceled"
         /\ record.trial = session[record.sub].trial
         /\ record.converted \/ record.status = "active" => record.sub \in paid
         /\ \E e \in 1 .. Len(events) :
              events[e].sub = record.sub /\ events[e].created = record.seen

\* A delivery holds an event that was issued and a status that was true.
DeliveryFollows(h) ==
    /\ hook[h] # "idle" => our[h].event \in 1 .. Len(events)
    /\ hook[h] = "persist" =>
         LET sub == events[our[h].event].sub
         IN  /\ our[h].status = "canceled" => stripe[sub] = "canceled"
             /\ our[h].status = "active" => sub \in paid

DeliveriesFollow == \A h \in Hooks : DeliveryFollows(h)

EventsFollow ==
    /\ \A e \in 1 .. Len(events) : stripe[events[e].sub] # "none"
    /\ \A e \in 1 .. MaxEvents : e > Len(events) => receipt[e] = "waiting"
    /\ \A d, e \in 1 .. Len(events) : d <= e => events[d].created <= events[e].created
    /\ \A a \in Attempts : stripe[a] # "none" =>
         \E e \in 1 .. Len(events) : events[e].sub = a

\* A subscription without a trial, or active, was paid for.
PaidFollows ==
    \A a \in Attempts :
        (stripe[a] # "none" /\ ~session[a].trial) \/ stripe[a] = "active" => a \in paid

-----------------------------------------------------------------------------
(* Billing: trials.                                                        *)

\* Nothing was bought before this attempt.
Untried(a) == \A b \in Attempts : b < a => stripe[b] = "none"

\* A trial is offered only as long as nothing was bought, and whoever deletes a
\* completed attempt has seen the subscription on record.
Customer == record.sub # 0 \/ stage # "none"

RequestTries(r) ==
    /\ step[r] = "submit" /\ my[r].row.trial => Untried(my[r].row.id)
    /\ my[r].sub # 0 => Customer
    /\ step[r] = "delete" /\ stripe[my[r].row.id] # "none" => Customer

TrialsFollow ==
    /\ attempt.id # 0 /\ attempt.trial => Untried(attempt.id)
    /\ \A a \in Attempts : session[a].state # "none" /\ session[a].trial => Untried(a)
    /\ \A r \in Requests : RequestTries(r)
    /\ ~Customer =>
         \A a \in Attempts : a # attempt.id => stripe[a] = "none"

-----------------------------------------------------------------------------
(* Billing: what a row is worth once every event is settled.               *)

LastEvent == Len(events)

\* After the last event was written, whatever is written is what Stripe says:
\* every other delivery has to read the version, and then Stripe, again.
LastEventCounts ==
    stage = "none" /\ LastEvent # 0 =>
        /\ receipt[LastEvent] # "ignored"
        /\ receipt[LastEvent] = "processed" =>
             record.sub # 0 /\ record.status = stripe[record.sub]
        /\ \A h \in Hooks :
             hook[h] = "persist"
               /\ (our[h].event = LastEvent \/ (our[h].current /\ receipt[LastEvent] = "processed"))
             => our[h].status = stripe[events[our[h].event].sub]

\* An event that was processed leaves its subscription on record unless it is
\* final, and one that was set aside is older than what is on record.
EventsSettle ==
    stage = "none" =>
        \A e \in 1 .. Len(events) :
            /\ receipt[e] = "processed" /\ stripe[events[e].sub] # "canceled"
                 => record.sub = events[e].sub
            /\ receipt[e] = "ignored" => events[e].created < record.seen

BillingInv ==
    /\ BillingTypes /\ SessionsFollow /\ RequestsFollow /\ RecordFollows
    /\ DeliveriesFollow /\ EventsFollow /\ PaidFollows /\ TrialsFollow
    /\ LastEventCounts /\ EventsSettle

-----------------------------------------------------------------------------
(* Deletion: its types, and what it has made sure of about billing.        *)

Places ==
    {"idle", "read", "confirm", "review", "billing", "save_plan", "close", "submit", "save",
     "inspect", "expire", "cancel", "milestone", "dispose1", "dispose2", "list", "delete",
     "erase", "identity", "marketing", "complete", "release", "renew1", "renew2", "renew3",
     "renew4", "renew5", "renew6", "renew7", "renew8", "renew9"}

AdvanceLocals ==
    [stage : Stages, plan : {0} \cup Attempts, billed : BOOLEAN, row : NamedRows,
     keys : SUBSET Originals]

DeletionTypes ==
    /\ stage \in Stages /\ workspace \in {"present", "erased", "forgotten"}
    /\ job \in [plan : {0} \cup Attempts, billed : BOOLEAN]
    /\ lease \in [by : Attempters \cup {Nobody}, live : BOOLEAN]
    /\ identity \in {"kept", "removed"}
    /\ dat \in [Attempters -> Places] /\ dmy \in [Attempters -> AdvanceLocals]

\* Every attempt that was ever made is over.
AllOver == \A a \in Attempts : a < nextId => Over(a)

\* Behind the milestone of billing, and where a confirmed stage is needed.
BillingDone ==
    {"renew3", "milestone", "dispose1", "dispose2", "renew4", "list", "renew5", "delete",
     "renew6", "erase", "renew7", "identity", "renew8", "marketing", "renew9", "complete"}
Confirmed == BillingDone \cup
    {"review", "renew2", "billing", "save_plan", "close", "submit", "save", "inspect",
     "expire", "cancel"}

\* A job is never forgotten before the rows are erased, and goes back only from
\* an end that nobody comes from.
StagesFollow ==
    /\ workspace = "present" => stage \in {"none", "checking", "confirmed"}
    /\ workspace = "erased" => stage \in {"confirmed", "local_deleted"}
    /\ workspace = "forgotten" => stage # "none"
    /\ job.billed => stage # "none"
    /\ \A d \in Attempters :
         /\ dat[d] # "idle" \/ dmy[d].billed => stage # "none"
         /\ dat[d] \in Confirmed => stage # "checking"

\* What an attempt knows at a place of the checkout it is closing.
ClosingKnown(place, known) ==
    /\ known.plan # 0 => stripe[known.plan] # "none"
    /\ known.billed => AllOver
    /\ place \in {"submit", "save"} => known.row \in FullRows
    /\ place \in {"submit", "save", "inspect", "expire"} =>
         /\ known.row.id \in Attempts /\ known.row.id < nextId
         /\ \A a \in Attempts : a < nextId /\ a # known.row.id => Over(a)
    /\ place = "submit" => (known.row.trial => Untried(known.row.id))
    /\ place \in {"save", "inspect", "expire"} => session[known.row.id].state # "none"
    /\ place = "cancel" =>
         \A a \in Attempts : a < nextId =>
             Over(a) \/ (a = known.plan /\ session[a].state = "complete")
    /\ place \in BillingDone => AllOver

ClosingFollows(d) == ClosingKnown(dat[d], dmy[d])

ClosingsFollow ==
    /\ job.plan # 0 => stripe[job.plan] # "none"
    /\ job.billed \/ workspace # "present" => AllOver
    /\ \A d \in Attempters : ClosingFollows(d)

DeletionInv == DeletionTypes /\ StagesFollow /\ ClosingsFollow

-----------------------------------------------------------------------------
(* Billing: what stays.                                                    *)

\* Subscriptions, sessions and events only go on, and of the subscriptions only
\* that of the attempt on record does.
Onward ==
    /\ nextId <= nextId' /\ paid \subseteq paid'
    /\ \A a \in Attempts :
         /\ session[a].state # "none" =>
              session'[a].state # "none" /\ session'[a].trial = session[a].trial
         /\ session[a].state \in {"complete", "expired"} => session'[a].state = session[a].state
         /\ stripe[a] # "none" => stripe'[a] # "none"
         /\ stripe[a] = "canceled" => stripe'[a] = "canceled"
         /\ a # attempt.id \/ Over(a) => stripe'[a] = stripe[a]
    /\ Len(events) <= Len(events')
    /\ \A e \in 1 .. Len(events) : events'[e] = events[e]

LEMMA OverStays ==
  ASSUME Onward, NEW a \in Attempts, Over(a) PROVE Over(a)'
BY DEF Onward, Over

LEMMA UntriedStays ==
  ASSUME BillingTypes, SessionsFollow, Onward, NEW a \in Attempts, a < nextId, Untried(a)
  PROVE  Untried(a)'
<1> SUFFICES ASSUME NEW b \in Attempts, b < a PROVE stripe'[b] = "none"
  BY DEF Untried
<1>1. a \in Nat /\ b \in Nat \ {0} /\ nextId \in Nat
  BY BoundsAssumption DEF Attempts, BillingTypes
<1>2. b # attempt.id
  BY <1>1 DEF SessionsFollow
<1> QED BY <1>2 DEF Onward, Untried

LEMMA RequestKept ==
  ASSUME BillingTypes, Onward, nextId' \in Nat, NEW r \in Requests, RequestFollows(r),
         step'[r] = step[r], my'[r] = my[r]
  PROVE  RequestFollows(r)'
<1>1. nextId \in Nat /\ \A a \in Attempts : a \in Nat
  BY BoundsAssumption DEF Attempts, BillingTypes
<1>2. my[r] \in CheckoutLocals
  BY DEF BillingTypes
<1>3. my[r].sub # 0 => my[r].sub \in Attempts
  BY <1>2 DEF CheckoutLocals
<1>4. step[r] = "delete" => Over(my[r].row.id)'
  BY OverStays DEF RequestFollows
<1>5. my[r].sub # 0 /\ my[r].status = "canceled" => stripe'[my[r].sub] = "canceled"
  BY <1>3 DEF RequestFollows, Onward
<1>6. step[r] \in {"submit", "retrieve", "save", "expire", "offer", "delete"} =>
        my[r].row.id \in Attempts /\ my[r].row.id < nextId'
  BY <1>1 DEF RequestFollows, Onward
<1>7. step[r] \in {"retrieve", "save", "expire", "offer"} =>
        session'[my[r].row.id].state # "none"
  BY DEF RequestFollows, Onward
<1>8. step[r] = "save" =>
         /\ my[r].got # "none"
         /\ my[r].got \in {"expired", "complete"} => session'[my[r].row.id].state = my[r].got
  BY DEF RequestFollows, Onward
<1> QED BY <1>4, <1>5, <1>6, <1>7, <1>8 DEF RequestFollows

LEMMA RequestTriesOn ==
  ASSUME BillingTypes, SessionsFollow, Onward, NEW r \in Requests,
         RequestFollows(r), RequestTries(r), Customer => Customer',
         step'[r] = step[r], my'[r] = my[r]
  PROVE  RequestTries(r)'
<1>1. step[r] = "submit" /\ my[r].row.trial => Untried(my[r].row.id)'
  BY UntriedStays DEF RequestFollows, RequestTries
<1>2. step[r] = "delete" /\ stripe'[my[r].row.id] # "none" => Customer
  <2> SUFFICES ASSUME step[r] = "delete", stripe'[my[r].row.id] # "none"
               PROVE  Customer
    OBVIOUS
  <2>1. my[r].row.id \in Attempts /\ Over(my[r].row.id)
    BY DEF RequestFollows
  <2>2. stripe[my[r].row.id] # "none"
    BY <2>1 DEF Onward
  <2> QED BY <2>2 DEF RequestTries
<1> QED BY <1>1, <1>2 DEF RequestTries

\* Where neither Stripe's side nor the record changes, what is said of them stays.
LEMMA BooksKept ==
  ASSUME BillingInv, Onward,
         UNCHANGED <<stripe, paid, events, receipt, record, hookVars, stage>>
  PROVE  /\ RecordFollows' /\ DeliveriesFollow' /\ EventsFollow' /\ PaidFollows'
         /\ LastEventCounts' /\ EventsSettle'
<1> USE DEF BillingInv, hookVars
<1>1. \A a \in Attempts : stripe[a] # "none" => session'[a].trial = session[a].trial
  BY DEF SessionsFollow, Onward
<1>2. RecordFollows'
  <2>1. record.sub # 0 => record.sub \in Attempts
    BY DEF BillingTypes, Subscriptions
  <2>2. record.sub # 0 => session'[record.sub].trial = session[record.sub].trial
    BY <1>1, <2>1 DEF RecordFollows
  <2> QED BY <2>2 DEF RecordFollows
<1>3. DeliveriesFollow' /\ EventsFollow'
  BY DEF DeliveriesFollow, DeliveryFollows, EventsFollow
<1>4. PaidFollows'
  BY <1>1 DEF PaidFollows
<1>5. LastEventCounts' /\ EventsSettle'
  BY DEF LastEventCounts, LastEvent, EventsSettle
<1> QED BY <1>2, <1>3, <1>4, <1>5

\* A request goes on and changes nothing else.
LEMMA RequestMoves ==
  ASSUME BillingInv, NEW r \in Requests, NEW to \in CheckoutSteps, NEW l \in CheckoutLocals,
         UNCHANGED <<stripeVars, receipt, rowVars, hookVars, stage>>,
         step' = [step EXCEPT ![r] = to], my' = [my EXCEPT ![r] = l],
         RequestFollows(r)', RequestTries(r)'
  PROVE  BillingInv'
<1> USE DEF BillingInv
<1>1. BillingTypes'
  BY DEF BillingTypes, stripeVars, rowVars, hookVars
<1>2. Onward
  BY BoundsAssumption DEF Onward, stripeVars, rowVars, BillingTypes
<1>3. SessionsFollow'
  BY DEF SessionsFollow, stripeVars, rowVars, Over
<1>4. \A q \in Requests : RequestFollows(q)' /\ RequestTries(q)'
  <2> SUFFICES ASSUME NEW q \in Requests, q # r PROVE RequestFollows(q)' /\ RequestTries(q)'
    OBVIOUS
  <2>1. step'[q] = step[q] /\ my'[q] = my[q]
    BY DEF BillingTypes
  <2>2. nextId' \in Nat /\ (Customer => Customer')
    BY BoundsAssumption DEF BillingTypes, rowVars, Customer
  <2> QED BY <1>2, <2>1, <2>2, RequestKept, RequestTriesOn DEF RequestsFollow, TrialsFollow
<1>5. TrialsFollow'
  BY <1>4 DEF TrialsFollow, Untried, Customer, stripeVars, rowVars
<1>6. UNCHANGED <<stripe, paid, events, receipt, record, hookVars, stage>>
  BY DEF stripeVars, rowVars
<1> QED BY <1>1, <1>2, <1>3, <1>4, <1>5, <1>6, BooksKept DEF RequestsFollow

\* A request moves on a session; nothing is begun or offered that was not.
LEMMA RequestStays ==
  ASSUME BillingInv, Onward, nextId' \in Nat, UNCHANGED <<record, stage>>, NEW q \in Requests,
         step'[q] = step[q], my'[q] = my[q]
  PROVE  RequestFollows(q)' /\ RequestTries(q)'
<1>1. Customer => Customer'
  BY DEF Customer
<1> QED BY <1>1, RequestKept, RequestTriesOn
      DEF BillingInv, RequestsFollow, TrialsFollow

\* One session changes: the rest of what is known follows from its change.
LEMMA SessionMoves ==
  ASSUME BillingInv, NEW a \in Attempts, NEW st \in SessionStates, NEW trial \in BOOLEAN,
         session' = [session EXCEPT ![a] = [state |-> st, trial |-> trial]],
         UNCHANGED <<stripe, paid, events, receipt, rowVars, hookVars, jobVars>>,
         session[a].state \notin {"complete", "expired"}, st \notin {"none", "complete"},
         session[a].state # "none" => trial = session[a].trial,
         a < nextId, trial => Untried(a),
         step' \in [Requests -> CheckoutSteps], my' \in [Requests -> CheckoutLocals],
         \A q \in Requests :
             \/ step'[q] = step[q] /\ my'[q] = my[q]
             \/ RequestFollows(q)' /\ RequestTries(q)'
  PROVE  BillingInv' /\ Onward
<1> USE DEF BillingInv
<1>1. BillingTypes'
  BY DEF BillingTypes, rowVars, hookVars
<1>2. \A b \in Attempts :
         session'[b] = IF b = a THEN [state |-> st, trial |-> trial] ELSE session[b]
  BY DEF BillingTypes
<1>3. Onward
  BY <1>2, BoundsAssumption DEF Onward, rowVars, BillingTypes, Over
<1>4. SessionsFollow'
  <2>1. attempt.id # 0 => attempt.id \in Attempts
    BY DEF BillingTypes, FullRows, NoAttempt
  <2>2. attempt'.id # 0 /\ attempt'.known => session'[attempt'.id].state # "none"
    BY <1>2, <2>1 DEF SessionsFollow, rowVars
  <2>3. \A b \in Attempts : stripe[b] # "none" <=> session'[b].state = "complete"
    BY <1>2 DEF SessionsFollow
  <2>4. \A b \in Attempts : b >= nextId => session'[b].state = "none"
    BY <1>2, BoundsAssumption DEF SessionsFollow, BillingTypes, Attempts
  <2>5. \A b \in Attempts : b < nextId /\ b # attempt.id => Over(b)'
    BY <1>3, OverStays DEF SessionsFollow
  <2> QED BY <2>2, <2>3, <2>4, <2>5 DEF SessionsFollow, rowVars
<1>5. \A q \in Requests : RequestFollows(q)' /\ RequestTries(q)'
  <2>1. nextId' \in Nat
    BY BoundsAssumption DEF BillingTypes, rowVars
  <2> QED BY <1>3, <2>1, RequestStays DEF rowVars, jobVars
<1>6. TrialsFollow'
  <2>1. \A b \in Attempts : session'[b].state # "none" /\ session'[b].trial => Untried(b)
    BY <1>2 DEF TrialsFollow
  <2> QED BY <1>5, <2>1 DEF TrialsFollow, Untried, Customer, rowVars, jobVars
<1>7. UNCHANGED <<stripe, paid, events, receipt, record, hookVars, stage>>
  BY DEF rowVars, jobVars
<1> QED BY <1>1, <1>3, <1>4, <1>5, <1>6, <1>7, BooksKept DEF RequestsFollow

-----------------------------------------------------------------------------
(* A checkout request.                                                     *)

LEMMA FreshLocals ==
  /\ NoLocals \in CheckoutLocals
  /\ \A s \in Selections : [NoLocals EXCEPT !.sel = s] \in CheckoutLocals
BY DEF NoLocals, NoAttempt, CheckoutLocals, NamedRows, SessionStates, Statuses

\* A request that has ended, or begins anew, has nothing to keep true.
LEMMA NothingToKeep ==
  ASSUME BillingTypes, NEW r \in Requests, NEW to \in {"idle", "again"}, NEW m \in CheckoutLocals,
         m.sub = 0, step' = [step EXCEPT ![r] = to], my' = [my EXCEPT ![r] = m]
  PROVE  RequestFollows(r)' /\ RequestTries(r)'
<1>1. step'[r] = to /\ my'[r] = m
  BY DEF BillingTypes
<1> QED BY <1>1 DEF RequestFollows, RequestTries

LEMMA EndRequest ==
  ASSUME BillingInv, NEW r \in Requests, Go(r, "idle", NoLocals),
         UNCHANGED <<stripeVars, receipt, rowVars, hookVars, stage>>
  PROVE  BillingInv'
<1>1. step' = [step EXCEPT ![r] = "idle"] /\ my' = [my EXCEPT ![r] = NoLocals]
  BY DEF Go
<1>2. "idle" \in CheckoutSteps /\ NoLocals.sub = 0
  BY DEF CheckoutSteps, NoLocals
<1>3. RequestFollows(r)' /\ RequestTries(r)'
  BY <1>1, <1>2, FreshLocals, NothingToKeep DEF BillingInv
<1> QED BY <1>1, <1>2, <1>3, FreshLocals, RequestMoves

\* A round begins with what the record says, which is true of Stripe.
LEMMA ReadSubscriptionStep ==
  ASSUME BillingInv, NEW r \in Requests, NEW l \in CheckoutLocals,
         ReadSubscription(r, l), UNCHANGED <<stripeVars, receipt, rowVars, hookVars, stage>>
  PROVE  BillingInv'
<1>1. CASE Subscribed(record)
  BY <1>1, EndRequest DEF ReadSubscription
<1>2. CASE ~Subscribed(record)
  <2> DEFINE m == [l EXCEPT !.sub = record.sub, !.status = record.status]
  <2>1. step' = [step EXCEPT ![r] = "attempt"] /\ my' = [my EXCEPT ![r] = m]
    BY <1>2 DEF ReadSubscription, Go
  <2>2. m \in CheckoutLocals /\ m.sub = record.sub /\ m.status = record.status
    BY DEF CheckoutLocals, BillingInv, BillingTypes, Subscriptions
  <2>3. step'[r] = "attempt" /\ my'[r] = m
    BY <2>1 DEF BillingInv, BillingTypes
  <2>4. RequestFollows(r)'
    BY <2>2, <2>3 DEF RequestFollows, BillingInv, RecordFollows, stripeVars
  <2>5. RequestTries(r)'
    BY <2>2, <2>3 DEF RequestTries, Customer, rowVars
  <2>6. "attempt" \in CheckoutSteps
    BY DEF CheckoutSteps
  <2> HIDE DEF m
  <2> QED BY <2>1, <2>2, <2>4, <2>5, <2>6, RequestMoves
<1> QED BY <1>1, <1>2

\* What a request still knows when its locals change elsewhere.
LEMMA KnownRow ==
  ASSUME BillingInv, NEW r \in Requests
  PROVE  /\ my[r] \in CheckoutLocals
         /\ step[r] \in {"submit", "retrieve", "save"} => my[r].row \in FullRows
         /\ step[r] \in {"submit", "retrieve", "save", "expire", "offer", "delete"} =>
              my[r].row.id \in Attempts /\ my[r].row.id < nextId
         /\ step[r] \in {"retrieve", "save", "expire", "offer"} =>
              session[my[r].row.id].state # "none"
         /\ step[r] = "save" => my[r].got # "none"
         /\ step[r] = "save" /\ my[r].got \in {"expired", "complete"} =>
              session[my[r].row.id].state = my[r].got
         /\ step[r] = "delete" => Over(my[r].row.id)
         /\ my[r].sub # 0 => Customer
         /\ my[r].sub # 0 /\ my[r].status = "canceled" => stripe[my[r].sub] = "canceled"
BY DEF BillingInv, BillingTypes, RequestsFollow, RequestFollows, TrialsFollow, RequestTries

\* The attempt on record is one to go on with.
LEMMA KnownAttempt ==
  ASSUME BillingInv
  PROVE  /\ attempt.id = 0 <=> attempt = NoAttempt
         /\ attempt # NoAttempt => attempt \in FullRows /\ attempt.id \in Attempts
         /\ attempt # NoAttempt => attempt.id < nextId /\ nextId = attempt.id + 1
         /\ attempt # NoAttempt /\ attempt.known => session[attempt.id].state # "none"
         /\ attempt # NoAttempt /\ attempt.trial => Untried(attempt.id)
<1>1. attempt.id = 0 <=> attempt = NoAttempt
  BY BoundsAssumption DEF BillingInv, BillingTypes, FullRows, NoAttempt, Attempts
<1>2. attempt # NoAttempt => attempt \in FullRows /\ attempt.id \in Attempts
  BY DEF BillingInv, BillingTypes, FullRows
<1>3. attempt # NoAttempt => attempt.id < nextId /\ nextId = attempt.id + 1
  BY <1>1, <1>2, BoundsAssumption DEF BillingInv, BillingTypes, SessionsFollow, Attempts
<1> QED BY <1>1, <1>2, <1>3 DEF BillingInv, SessionsFollow, TrialsFollow

LEMMA GoWithAttempt ==
  ASSUME BillingInv, NEW r \in Requests, attempt # NoAttempt, GoWith(r, attempt),
         UNCHANGED <<stripeVars, receipt, rowVars, hookVars, stage>>
  PROVE  BillingInv'
<1> DEFINE m == [my[r] EXCEPT !.row = attempt]
           to == IF attempt.known THEN "retrieve" ELSE "submit"
<1>1. my[r] \in CheckoutLocals /\ attempt \in FullRows
  BY KnownRow, KnownAttempt
<1>2. m \in CheckoutLocals /\ m.row = attempt /\ m.sub = my[r].sub /\ m.status = my[r].status
  BY <1>1 DEF CheckoutLocals, NamedRows
<1>3. step' = [step EXCEPT ![r] = to] /\ my' = [my EXCEPT ![r] = m]
  BY DEF GoWith, Go
<1>4. step'[r] = to /\ my'[r] = m
  BY <1>3 DEF BillingInv, BillingTypes
<1>5. RequestFollows(r)'
  BY <1>1, <1>2, <1>4, KnownAttempt, KnownRow DEF RequestFollows, stripeVars, rowVars
<1>6. RequestTries(r)'
  BY <1>1, <1>2, <1>4, KnownAttempt, KnownRow
     DEF RequestTries, Customer, Untried, stripeVars, rowVars
<1>7. to \in CheckoutSteps
  BY DEF CheckoutSteps
<1> HIDE DEF m, to
<1> QED BY <1>2, <1>3, <1>5, <1>6, <1>7, RequestMoves

LEMMA AbandonStep == ASSUME BillingInv, NEW r \in Requests, Abandon(r) PROVE BillingInv'
BY EndRequest DEF Abandon, jobVars

LEMMA BeginCheckoutStep == ASSUME BillingInv, NEW r \in Requests, BeginCheckout(r) PROVE BillingInv'
<1>1. PICK s \in Selections : ReadSubscription(r, [NoLocals EXCEPT !.sel = s])
  BY DEF BeginCheckout
<1> QED BY <1>1, FreshLocals, ReadSubscriptionStep DEF BeginCheckout, jobVars

LEMMA NextRoundStep == ASSUME BillingInv, NEW r \in Requests, NextRound(r) PROVE BillingInv'
BY ReadSubscriptionStep, KnownRow DEF NextRound, jobVars

LEMMA ReadAttemptStep == ASSUME BillingInv, NEW r \in Requests, ReadAttempt(r) PROVE BillingInv'
<1>1. UNCHANGED <<stripeVars, receipt, rowVars, hookVars, stage>>
  BY DEF ReadAttempt, jobVars
<1>2. CASE attempt # NoAttempt
  BY <1>1, <1>2, GoWithAttempt DEF ReadAttempt
<1>3. CASE attempt = NoAttempt
  <2>1. step' = [step EXCEPT ![r] = "insert"] /\ my' = [my EXCEPT ![r] = my[r]]
    BY <1>3 DEF ReadAttempt, Go
  <2>2. step'[r] = "insert" /\ my'[r] = my[r]
    BY <2>1 DEF BillingInv, BillingTypes
  <2>3. RequestFollows(r)' /\ RequestTries(r)'
    BY <1>1, <2>2, KnownRow DEF RequestFollows, RequestTries, Customer, stripeVars, rowVars
  <2>4. my[r] \in CheckoutLocals /\ "insert" \in CheckoutSteps
    BY KnownRow DEF CheckoutSteps
  <2> QED BY <1>1, <2>1, <2>3, <2>4, RequestMoves
<1> QED BY <1>2, <1>3

LEMMA RereadAttemptStep == ASSUME BillingInv, NEW r \in Requests, RereadAttempt(r) PROVE BillingInv'
BY EndRequest, GoWithAttempt DEF RereadAttempt, jobVars

\* Once the deletion is requested no attempt is inserted.  Before, the new one
\* finds all others over; a trial is for a workspace that never bought anything.
LEMMA InsertAttemptStep ==
  ASSUME BillingInv, StagesFollow, NEW r \in Requests, InsertAttempt(r) PROVE BillingInv'
<1> DEFINE new == [id |-> nextId, sel |-> my[r].sel, trial |-> TrialEligible(r), known |-> FALSE]
<1> USE DEF BillingInv
<1>1. /\ step' = [step EXCEPT ![r] = "reread"] /\ my' = [my EXCEPT ![r] = my[r]]
      /\ UNCHANGED <<stripeVars, receipt, record, hookVars, jobVars>> /\ nextId \in Attempts
  BY DEF InsertAttempt, Go
<1>2. step'[r] = "reread" /\ my' = my
  BY <1>1 DEF BillingTypes
<1>3. \/ attempt' = attempt /\ nextId' = nextId
      \/ /\ attempt' = new /\ nextId' = nextId + 1 /\ attempt = NoAttempt
         /\ WorkspaceExists /\ ~Recorded
         /\ TrialEligible(r) => record.sub = 0
  BY DEF InsertAttempt
<1>4. CASE attempt' = attempt /\ nextId' = nextId
  <2>1. RequestFollows(r)' /\ RequestTries(r)'
    BY <1>1, <1>2, KnownRow DEF RequestFollows, RequestTries, Customer, stripeVars, jobVars
  <2>2. my[r] \in CheckoutLocals /\ "reread" \in CheckoutSteps
    BY KnownRow DEF CheckoutSteps
  <2> QED BY <1>1, <1>4, <2>1, <2>2, RequestMoves DEF rowVars, jobVars
<1>5. CASE attempt' = new /\ attempt = NoAttempt /\ nextId' = nextId + 1
           /\ WorkspaceExists /\ ~Recorded /\ (TrialEligible(r) => record.sub = 0)
  <2>1. stage = "none"
    BY <1>5 DEF StagesFollow, WorkspaceExists, Recorded, Named
  <2>2. attempt.id = 0 /\ nextId \in Attempts /\ nextId \in Nat \ {0}
    BY <1>1, <1>5, KnownAttempt, BoundsAssumption DEF Attempts
  <2>3. new \in FullRows /\ new.id = nextId /\ ~new.known /\ (new.trial => record.sub = 0)
    <3>1. my[r].sel \in {0} \cup Selections
      BY KnownRow DEF CheckoutLocals
    <3> QED BY <3>1, <1>5, <2>2 DEF FullRows, TrialEligible
  <2>4. session[nextId].state = "none" /\ stripe[nextId] = "none"
    BY <2>2 DEF SessionsFollow, BillingTypes
  <2> HIDE DEF new
  <2>5. BillingTypes'
    BY <1>1, <1>2, <1>5, <2>2, <2>3, BoundsAssumption
       DEF BillingTypes, stripeVars, hookVars, Attempts, CheckoutSteps
  <2>6. Onward
    BY <1>1, <1>5, <2>2, BoundsAssumption DEF Onward, stripeVars, BillingTypes
  <2>7. SessionsFollow'
    <3>1. \A a \in Attempts : a < nextId + 1 /\ a # nextId => a < nextId /\ a # 0
      BY <2>2 DEF Attempts
    <3>2. \A a \in Attempts : a < nextId' /\ a # attempt'.id => Over(a)'
      BY <1>1, <1>5, <2>2, <2>3, <3>1 DEF SessionsFollow, Over, stripeVars
    <3>3. \A a \in Attempts : a >= nextId' => a >= nextId
      BY <1>5, <2>2 DEF Attempts
    <3> QED BY <1>1, <1>5, <2>2, <2>3, <3>2, <3>3 DEF SessionsFollow, stripeVars
  <2>8. \A q \in Requests : RequestFollows(q)' /\ RequestTries(q)'
    <3> TAKE q \in Requests
    <3>1. CASE q = r
      BY <1>1, <1>2, <3>1, KnownRow
         DEF RequestFollows, RequestTries, Customer, stripeVars, jobVars
    <3>2. CASE q # r
      <4>1. step'[q] = step[q] /\ my'[q] = my[q] /\ nextId' \in Nat
        BY <1>1, <1>2, <1>5, <2>2, <3>2 DEF BillingTypes
      <4> QED BY <1>1, <2>6, <4>1, RequestStays DEF jobVars
    <3> QED BY <3>1, <3>2
  <2>9. TrialsFollow'
    <3>1. record.sub = 0 => \A a \in Attempts : stripe[a] = "none"
      BY <2>1, <2>2 DEF TrialsFollow, Customer, Attempts
    <3> QED BY <1>1, <1>5, <2>3, <2>8, <3>1
            DEF TrialsFollow, Untried, Customer, stripeVars, jobVars
  <2> QED BY <1>1, <2>5, <2>6, <2>7, <2>8, <2>9, BooksKept
          DEF stripeVars, jobVars, RequestsFollow
<1> QED BY <1>3, <1>4, <1>5

\* A change of the session that leaves the attempt rows alone.
LEMMA SubmittedStep ==
  ASSUME BillingInv, NEW row \in FullRows, row.id < nextId, Submitted(row),
         row.trial => Untried(row.id),
         UNCHANGED <<stripe, paid, events, receipt, rowVars, hookVars, jobVars>>,
         step' \in [Requests -> CheckoutSteps], my' \in [Requests -> CheckoutLocals],
         \A q \in Requests :
             \/ step'[q] = step[q] /\ my'[q] = my[q]
             \/ RequestFollows(q)' /\ RequestTries(q)'
  PROVE  BillingInv' /\ Onward
<1>1. row.id \in Attempts /\ row.trial \in BOOLEAN
  BY DEF FullRows
<1>2. CASE session[row.id].state = "none"
  <2>1. session' = [session EXCEPT ![row.id] = [state |-> "open", trial |-> row.trial]]
    BY <1>2 DEF Submitted
  <2>2. "open" \in SessionStates
    BY DEF SessionStates
  <2> QED BY <1>1, <1>2, <2>1, <2>2, SessionMoves
<1>3. CASE session[row.id].state # "none"
  <2>1. session' = session
    BY <1>3 DEF Submitted
  <2> USE DEF BillingInv
  <2>2. BillingTypes' /\ Onward
    BY <2>1, BoundsAssumption DEF BillingTypes, rowVars, hookVars, Onward
  <2>3. SessionsFollow'
    BY <2>1 DEF SessionsFollow, Over, rowVars
  <2>4. \A q \in Requests : RequestFollows(q)' /\ RequestTries(q)'
    <3>1. nextId' \in Nat
      BY BoundsAssumption DEF BillingTypes, rowVars
    <3> QED BY <2>2, <3>1, RequestStays DEF rowVars, jobVars
  <2>5. TrialsFollow'
    BY <2>1, <2>4 DEF TrialsFollow, Untried, Customer, rowVars, jobVars
  <2> QED BY <2>2, <2>3, <2>4, <2>5, BooksKept DEF RequestsFollow, rowVars, jobVars
<1> QED BY <1>2, <1>3

LEMMA SubmitSessionStep ==
  ASSUME BillingInv, NEW r \in Requests, SubmitSession(r) PROVE BillingInv' /\ Onward
<1> DEFINE row == my[r].row
<1>1. /\ row \in FullRows /\ row.id \in Attempts /\ row.id < nextId /\ step[r] = "submit"
      /\ row.trial => Untried(row.id)
  BY KnownRow DEF SubmitSession, BillingInv, TrialsFollow, RequestTries
<1>2. /\ Submitted(row) /\ step' = [step EXCEPT ![r] = "retrieve"]
      /\ my' = [my EXCEPT ![r] = my[r]]
      /\ UNCHANGED <<stripe, paid, events, receipt, rowVars, hookVars, jobVars>>
  BY DEF SubmitSession, Go
<1>3. /\ step' \in [Requests -> CheckoutSteps] /\ my' = my /\ step'[r] = "retrieve"
      /\ my' \in [Requests -> CheckoutLocals]
      /\ \A q \in Requests \ {r} : step'[q] = step[q]
  BY <1>2 DEF BillingInv, BillingTypes, CheckoutSteps
<1>4. session'[row.id].state # "none"
  BY <1>1, <1>2 DEF Submitted, BillingInv, BillingTypes
<1>5. RequestFollows(r)' /\ RequestTries(r)'
  BY <1>1, <1>2, <1>3, <1>4, KnownRow
     DEF RequestFollows, RequestTries, Customer, rowVars, jobVars
<1> HIDE DEF row
<1> QED BY <1>1, <1>2, <1>3, <1>5, SubmittedStep

\* What is concluded from a session as Stripe described it.  A completed one is
\* used up only if its subscription is on record as canceled.
LEMMA ConcludeStep ==
  ASSUME BillingInv, NEW r \in Requests, step[r] \in {"retrieve", "save"}, NEW got \in SessionStates,
         got # "none",
         got \in {"expired", "complete"} => session[my[r].row.id].state = got,
         Conclude(r, got), UNCHANGED <<stripeVars, record, nextId, jobVars>>
  PROVE  /\ \E to \in CheckoutSteps, m \in CheckoutLocals :
               step' = [step EXCEPT ![r] = to] /\ my' = [my EXCEPT ![r] = m]
         /\ RequestFollows(r)' /\ RequestTries(r)'
<1> DEFINE a == my[r].row.id
           to == AfterSession(r, got)
           l == [NoLocals EXCEPT !.sel = my[r].sel, !.row = [id |-> a]]
           m == IF to = "idle" THEN NoLocals ELSE l
<1>1. a \in Attempts /\ a < nextId /\ my[r] \in CheckoutLocals /\ session[a].state # "none"
  BY KnownRow
<1>2. l \in CheckoutLocals /\ l.row.id = a /\ l.sub = 0
  BY <1>1 DEF NoLocals, CheckoutLocals, NamedRows, NoAttempt, SessionStates, Statuses
<1>3. /\ to \in {"delete", "idle", "offer", "expire"}
      /\ to = "delete" => \/ got = "expired"
                          \/ got = "complete" /\ my[r].sub = a /\ my[r].status = "canceled"
  BY DEF AfterSession, SessionStates
<1>4. m \in CheckoutLocals /\ to \in CheckoutSteps
  BY <1>2, <1>3, FreshLocals DEF CheckoutSteps
<1>5. step' = [step EXCEPT ![r] = to] /\ my' = [my EXCEPT ![r] = m]
  BY DEF Conclude, Go
<1>6. step'[r] = to /\ my'[r] = m
  BY <1>5 DEF BillingInv, BillingTypes
<1>7. to = "delete" => Over(a) /\ (stripe[a] # "none" => Customer)
  <2>1. a # 0
    BY <1>1 DEF Attempts
  <2>2. CASE got = "expired"
    BY <1>1, <2>2 DEF Over, BillingInv, SessionsFollow
  <2>3. CASE got = "complete" /\ my[r].sub = a /\ my[r].status = "canceled"
    BY <2>1, <2>3, KnownRow DEF Over
  <2> QED BY <1>3, <2>2, <2>3
<1>8. m.sub = 0 /\ (to # "idle" => m.row.id = a)
  BY <1>2 DEF NoLocals
<1> HIDE DEF to, l, m
<1>9. RequestFollows(r)'
  BY <1>1, <1>3, <1>6, <1>7, <1>8 DEF RequestFollows, stripeVars, Over
<1>10. RequestTries(r)'
  BY <1>3, <1>6, <1>7, <1>8 DEF RequestTries, Customer, stripeVars, jobVars
<1> QED BY <1>4, <1>5, <1>9, <1>10

LEMMA SessionEdit ==
  ASSUME BillingTypes, NEW a \in Attempts, NEW st
  PROVE  [session EXCEPT ![a].state = st]
           = [session EXCEPT ![a] = [state |-> st, trial |-> session[a].trial]]
<1>1. session[a] \in [state : SessionStates, trial : BOOLEAN]
  BY DEF BillingTypes
<1>2. [session[a] EXCEPT !.state = st] = [state |-> st, trial |-> session[a].trial]
  BY <1>1
<1> QED BY <1>2

LEMMA RetrieveSessionStep ==
  ASSUME BillingInv, NEW r \in Requests, RetrieveSession(r) PROVE BillingInv'
<1> DEFINE a == my[r].row.id
           got == session[a].state
<1>1. /\ a \in Attempts /\ my[r] \in CheckoutLocals /\ got # "none" /\ step[r] = "retrieve"
      /\ UNCHANGED <<stripeVars, receipt, rowVars, hookVars, jobVars>>
  BY KnownRow DEF RetrieveSession
<1>2. got \in SessionStates
  BY <1>1 DEF BillingInv, BillingTypes
<1>3. CASE my[r].row.known
  <2>1. Conclude(r, got)
    BY <1>3 DEF RetrieveSession
  <2> HIDE DEF got
  <2> QED BY <1>1, <1>2, <2>1, ConcludeStep, RequestMoves DEF rowVars, jobVars, got
<1>4. CASE ~my[r].row.known
  <2> DEFINE m == [my[r] EXCEPT !.got = got]
  <2>1. step' = [step EXCEPT ![r] = "save"] /\ my' = [my EXCEPT ![r] = m]
    BY <1>4 DEF RetrieveSession, Go
  <2>2. /\ m \in CheckoutLocals /\ m.row = my[r].row /\ m.sub = my[r].sub
        /\ m.status = my[r].status /\ m.got = got
    BY <1>1, <1>2 DEF CheckoutLocals
  <2>3. step'[r] = "save" /\ my'[r] = m
    BY <2>1 DEF BillingInv, BillingTypes
  <2>4. RequestFollows(r)'
    BY <1>1, <2>2, <2>3, KnownRow DEF RequestFollows, stripeVars, rowVars
  <2>5. RequestTries(r)'
    BY <1>1, <2>2, <2>3, KnownRow DEF RequestTries, Customer, rowVars, jobVars
  <2>6. "save" \in CheckoutSteps
    BY DEF CheckoutSteps
  <2> HIDE DEF m, got
  <2> QED BY <1>1, <2>1, <2>2, <2>4, <2>5, <2>6, RequestMoves DEF jobVars
<1> QED BY <1>3, <1>4

\* The session's name is saved in the row it was submitted for.
LEMMA AttemptNamed ==
  ASSUME BillingInv, attempt # NoAttempt, session[attempt.id].state # "none",
         attempt' = [attempt EXCEPT !.known = TRUE],
         UNCHANGED <<stripeVars, receipt, nextId, record, hookVars, jobVars>>,
         step' \in [Requests -> CheckoutSteps], my' \in [Requests -> CheckoutLocals],
         \A q \in Requests :
             \/ step'[q] = step[q] /\ my'[q] = my[q]
             \/ RequestFollows(q)' /\ RequestTries(q)'
  PROVE  BillingInv' /\ Onward
<1> USE DEF BillingInv
<1>1. attempt \in FullRows
  BY KnownAttempt
<1>2. attempt' \in FullRows /\ attempt'.id = attempt.id /\ attempt'.trial = attempt.trial
  BY <1>1 DEF FullRows
<1>3. BillingTypes' /\ Onward
  BY <1>2, BoundsAssumption DEF BillingTypes, stripeVars, hookVars, Onward
<1>4. SessionsFollow'
  BY <1>2 DEF SessionsFollow, Over, stripeVars
<1>5. \A q \in Requests : RequestFollows(q)' /\ RequestTries(q)'
  <2>1. nextId' \in Nat
    BY BoundsAssumption DEF BillingTypes
  <2> QED BY <1>3, <2>1, RequestStays DEF jobVars
<1>6. TrialsFollow'
  BY <1>2, <1>5 DEF TrialsFollow, Untried, Customer, stripeVars, jobVars
<1> QED BY <1>3, <1>4, <1>5, <1>6, BooksKept DEF RequestsFollow, stripeVars, jobVars

LEMMA SaveSessionStep ==
  ASSUME BillingInv, NEW r \in Requests, SaveSession(r) PROVE BillingInv' /\ Onward
<1> DEFINE a == my[r].row.id
<1>1. /\ a \in Attempts /\ my[r] \in CheckoutLocals /\ step[r] = "save"
      /\ my[r].got \in SessionStates /\ my[r].got # "none" /\ session[a].state # "none"
      /\ my[r].got \in {"expired", "complete"} => session[a].state = my[r].got
      /\ UNCHANGED <<stripeVars, receipt, nextId, record, hookVars, jobVars>>
  BY KnownRow DEF SaveSession, CheckoutLocals
<1>2. CASE attempt.id # a
  <2>1. Go(r, "idle", NoLocals) /\ UNCHANGED attempt
    BY <1>2 DEF SaveSession
  <2>2. BillingInv'
    BY <1>1, <2>1, EndRequest DEF rowVars, jobVars
  <2>3. Onward
    BY <1>1, <2>1, BoundsAssumption DEF Onward, stripeVars, BillingInv, BillingTypes
  <2> QED BY <2>2, <2>3
<1>3. CASE attempt.id = a
  <2>1. Conclude(r, my[r].got) /\ attempt' = [attempt EXCEPT !.known = TRUE]
    BY <1>3 DEF SaveSession
  <2>2. /\ \E to \in CheckoutSteps, m \in CheckoutLocals :
             step' = [step EXCEPT ![r] = to] /\ my' = [my EXCEPT ![r] = m]
        /\ RequestFollows(r)' /\ RequestTries(r)'
    BY <1>1, <2>1, ConcludeStep
  <2>3. /\ step' \in [Requests -> CheckoutSteps] /\ my' \in [Requests -> CheckoutLocals]
        /\ \A q \in Requests \ {r} : step'[q] = step[q] /\ my'[q] = my[q]
    BY <2>2 DEF BillingInv, BillingTypes
  <2>4. attempt # NoAttempt
    BY <1>1, <1>3, KnownAttempt DEF Attempts
  <2> QED BY <1>1, <1>3, <2>1, <2>2, <2>3, <2>4, AttemptNamed
<1> QED BY <1>2, <1>3

LEMMA ExpireSessionStep ==
  ASSUME BillingInv, NEW r \in Requests, ExpireSession(r) PROVE BillingInv' /\ Onward
<1> DEFINE a == my[r].row.id
<1>1. /\ a \in Attempts /\ a < nextId /\ my[r] \in CheckoutLocals /\ step[r] = "expire"
      /\ UNCHANGED <<stripe, paid, events, receipt, rowVars, hookVars, jobVars>>
  BY KnownRow DEF ExpireSession
<1>2. CASE ~Payable(a)
  <2>1. UNCHANGED session /\ Go(r, "idle", NoLocals)
    BY <1>2 DEF ExpireSession
  <2>2. BillingInv'
    BY <1>1, <2>1, EndRequest DEF stripeVars, jobVars
  <2>3. Onward
    BY <1>1, <2>1, BoundsAssumption DEF Onward, rowVars, BillingInv, BillingTypes
  <2> QED BY <2>2, <2>3
<1>3. CASE Payable(a)
  <2>1. /\ session' = [session EXCEPT ![a].state = "expired"]
        /\ step' = [step EXCEPT ![r] = "delete"] /\ my' = [my EXCEPT ![r] = my[r]]
    BY <1>3 DEF ExpireSession, Go
  <2>2. session' = [session EXCEPT ![a] = [state |-> "expired", trial |-> session[a].trial]]
    BY <1>1, <2>1, SessionEdit DEF BillingInv
  <2>3. /\ step' \in [Requests -> CheckoutSteps] /\ my' = my /\ step'[r] = "delete"
        /\ my' \in [Requests -> CheckoutLocals]
        /\ \A q \in Requests \ {r} : step'[q] = step[q]
    BY <2>1 DEF BillingInv, BillingTypes, CheckoutSteps
  <2>4. session'[a].state = "expired" /\ stripe'[a] = "none"
    BY <1>1, <1>3, <2>1 DEF BillingInv, BillingTypes, SessionsFollow, Payable
  <2>5. RequestFollows(r)' /\ RequestTries(r)'
    BY <1>1, <2>3, <2>4, KnownRow
       DEF RequestFollows, RequestTries, Customer, Over, rowVars, jobVars
  <2>6. "expired" \in SessionStates /\ session[a].trial \in BOOLEAN
    BY <1>1 DEF SessionStates, BillingInv, BillingTypes
  <2>7. session[a].state # "none" /\ (session[a].trial => Untried(a))
    BY <1>1, KnownRow DEF BillingInv, TrialsFollow
  <2> HIDE DEF a
  <2> QED BY <1>1, <1>3, <2>2, <2>3, <2>5, <2>6, <2>7, SessionMoves DEF Payable
<1> QED BY <1>2, <1>3

LEMMA OfferSessionStep ==
  ASSUME BillingInv, NEW r \in Requests, OfferSession(r) PROVE BillingInv' /\ Onward
<1> DEFINE a == my[r].row.id
<1>1. /\ a \in Attempts /\ a < nextId /\ step[r] = "offer" /\ Go(r, "idle", NoLocals)
      /\ UNCHANGED <<stripe, paid, events, receipt, rowVars, hookVars, jobVars>>
  BY KnownRow DEF OfferSession
<1>2. CASE session' = session
  <2>1. BillingInv'
    BY <1>1, <1>2, EndRequest DEF stripeVars, jobVars
  <2>2. Onward
    BY <1>1, <1>2, BoundsAssumption DEF Onward, rowVars, BillingInv, BillingTypes
  <2> QED BY <2>1, <2>2
<1>3. CASE session' # session
  <2>1. session[a].state = "open" /\ session' = [session EXCEPT ![a].state = "offered"]
    BY <1>3 DEF OfferSession
  <2>2. session' = [session EXCEPT ![a] = [state |-> "offered", trial |-> session[a].trial]]
    BY <1>1, <2>1, SessionEdit DEF BillingInv
  <2>3. step' = [step EXCEPT ![r] = "idle"] /\ my' = [my EXCEPT ![r] = NoLocals]
    BY <1>1 DEF Go
  <2>4. /\ step' \in [Requests -> CheckoutSteps] /\ my' \in [Requests -> CheckoutLocals]
        /\ \A q \in Requests \ {r} : step'[q] = step[q] /\ my'[q] = my[q]
    BY <2>3, FreshLocals DEF BillingInv, BillingTypes, CheckoutSteps
  <2>5. RequestFollows(r)' /\ RequestTries(r)'
    BY <2>3, FreshLocals, NothingToKeep DEF BillingInv, NoLocals
  <2>6. "offered" \in SessionStates /\ session[a].trial \in BOOLEAN
    BY <1>1 DEF SessionStates, BillingInv, BillingTypes
  <2>7. session[a].trial => Untried(a)
    BY <1>1, <2>1 DEF BillingInv, TrialsFollow
  <2> HIDE DEF a
  <2> QED BY <1>1, <2>1, <2>2, <2>4, <2>5, <2>6, <2>7, SessionMoves
<1> QED BY <1>2, <1>3

\* The row of an attempt that is over may go.
LEMMA DeleteAttemptStep ==
  ASSUME BillingInv, NEW r \in Requests, DeleteAttempt(r) PROVE BillingInv' /\ Onward
<1> DEFINE a == my[r].row.id
           m == [NoLocals EXCEPT !.sel = my[r].sel]
<1> USE DEF BillingInv
<1>1. /\ a \in Attempts /\ a < nextId /\ step[r] = "delete" /\ my[r] \in CheckoutLocals /\ Over(a)
      /\ attempt' = IF attempt.id = a THEN NoAttempt ELSE attempt
      /\ step' = [step EXCEPT ![r] = "again"] /\ my' = [my EXCEPT ![r] = m]
      /\ UNCHANGED <<stripeVars, receipt, nextId, record, hookVars, jobVars>>
  BY KnownRow DEF DeleteAttempt, Go
<1>2. m \in CheckoutLocals /\ m.sub = 0
  BY <1>1 DEF NoLocals, CheckoutLocals, NamedRows, NoAttempt, SessionStates, Statuses
<1> HIDE DEF m
<1>3. BillingTypes' /\ Onward
  BY <1>1, <1>2, BoundsAssumption
     DEF BillingTypes, stripeVars, hookVars, Onward, CheckoutSteps
<1>4. NoAttempt.id = 0
  BY DEF NoAttempt
<1>5. SessionsFollow'
  BY <1>1, <1>4 DEF SessionsFollow, Over, stripeVars
<1>6. \A q \in Requests : RequestFollows(q)' /\ RequestTries(q)'
  <2>1. nextId' \in Nat
    BY <1>1, BoundsAssumption DEF BillingTypes
  <2>2. RequestFollows(r)' /\ RequestTries(r)'
    BY <1>1, <1>2, NothingToKeep
  <2>3. \A q \in Requests \ {r} : step'[q] = step[q] /\ my'[q] = my[q]
    BY <1>1 DEF BillingTypes
  <2> QED BY <1>1, <1>3, <2>1, <2>2, <2>3, RequestStays DEF jobVars
<1>7. TrialsFollow'
  <2>1. RequestTries(r)
    BY DEF TrialsFollow
  <2>2. stripe[a] # "none" => Customer
    BY <1>1, <2>1 DEF RequestTries
  <2>3. ~Customer' => \A b \in Attempts : b # attempt'.id => stripe'[b] = "none"
    BY <1>1, <2>2 DEF TrialsFollow, Customer, stripeVars, jobVars
  <2> QED BY <1>1, <1>4, <1>6, <2>3 DEF TrialsFollow, Untried, Customer, stripeVars, jobVars
<1> QED BY <1>1, <1>3, <1>5, <1>6, <1>7, BooksKept DEF RequestsFollow, stripeVars, jobVars

LEMMA CheckoutKeeps ==
  ASSUME BillingInv, StagesFollow, NEW r \in Requests, CheckoutStep(r) PROVE BillingInv'
BY BeginCheckoutStep, AbandonStep, NextRoundStep, ReadAttemptStep, InsertAttemptStep,
   RereadAttemptStep, SubmitSessionStep, RetrieveSessionStep, SaveSessionStep,
   ExpireSessionStep, OfferSessionStep, DeleteAttemptStep
   DEF CheckoutStep

-----------------------------------------------------------------------------
(* Stripe.                                                                 *)

LEMMA SessionTimesOutStep ==
  ASSUME BillingInv, NEW a \in Attempts, SessionTimesOut(a) PROVE BillingInv' /\ Onward
<1>1. /\ session' = [session EXCEPT ![a] = [state |-> "expired", trial |-> session[a].trial]]
      /\ UNCHANGED <<stripe, paid, events, receipt, rowVars, requestVars, hookVars, jobVars>>
      /\ Payable(a)
  BY SessionEdit DEF SessionTimesOut, BillingInv
<1>2. "expired" \in SessionStates /\ session[a].trial \in BOOLEAN
  BY DEF SessionStates, BillingInv, BillingTypes
<1>3. session[a].state \in {"open", "offered"} /\ a < nextId
  BY <1>1, BoundsAssumption DEF Payable, BillingInv, BillingTypes, SessionsFollow, Attempts
<1>4. session[a].trial => Untried(a)
  BY <1>3 DEF BillingInv, TrialsFollow
<1>5. step' \in [Requests -> CheckoutSteps] /\ my' \in [Requests -> CheckoutLocals]
  BY <1>1 DEF BillingInv, BillingTypes, requestVars
<1>6. \A q \in Requests : step'[q] = step[q] /\ my'[q] = my[q]
  BY <1>1 DEF requestVars
<1> QED BY <1>1, <1>2, <1>3, <1>4, <1>5, <1>6, SessionMoves

LEMMA ElementOfSeq ==
  ASSUME NEW S, NEW s \in Seq(S), NEW i \in 1 .. Len(s) PROVE s[i] \in S
OBVIOUS

LEMMA EventType ==
  ASSUME BillingTypes, NEW e \in 1 .. Len(events)
  PROVE  /\ events[e] \in [sub : Attempts, created : Nat]
         /\ events[e].sub \in Attempts /\ events[e].created \in Nat
<1>1. events[e] \in [sub : Attempts, created : Nat]
  BY ElementOfSeq DEF BillingTypes
<1> QED BY <1>1

\* An event is the last, and dated so.
LEMMA IssueLast ==
  ASSUME BillingInv, NEW a \in Attempts, Issue(a)
  PROVE  /\ events' \in Seq([sub : Attempts, created : Nat])
         /\ Len(events') = Len(events) + 1 /\ Len(events') <= MaxEvents
         /\ \A e \in 1 .. Len(events) : events'[e] = events[e]
         /\ events'[Len(events) + 1].sub = a
         /\ \A e \in 1 .. Len(events) : events[e].created <= events'[Len(events) + 1].created
<1> DEFINE last == IF events = <<>> THEN 0 ELSE events[Len(events)].created
<1>1. PICK later \in {0, 1} : events' = Append(events, [sub |-> a, created |-> last + later])
  BY DEF Issue
<1>2. events \in Seq([sub : Attempts, created : Nat]) /\ Len(events) \in Nat
  BY DEF BillingInv, BillingTypes
<1>3. last \in Nat /\ \A e \in 1 .. Len(events) : events[e].created <= last
  <2>1. CASE events = <<>>
    BY <2>1
  <2>2. CASE events # <<>>
    <3>1. Len(events) \in 1 .. Len(events)
      BY <1>2, <2>2
    <3>2. events[Len(events)].created \in Nat
      BY <3>1, EventType DEF BillingInv
    <3>3. \A e \in 1 .. Len(events) : e <= Len(events)
      BY <1>2
    <3> QED BY <2>2, <3>1, <3>2, <3>3 DEF BillingInv, EventsFollow
  <2> QED BY <2>1, <2>2
<1> DEFINE new == [sub |-> a, created |-> last + later]
<1>4. new \in [sub : Attempts, created : Nat] /\ new.sub = a /\ last <= new.created
  BY <1>3
<1> HIDE DEF new, last
<1>5. events' = Append(events, new)
  BY <1>1 DEF new, last
<1>6. /\ events' \in Seq([sub : Attempts, created : Nat]) /\ Len(events') = Len(events) + 1
      /\ \A e \in 1 .. Len(events) : events'[e] = events[e]
      /\ events'[Len(events) + 1] = new
  BY <1>2, <1>4, <1>5
<1>7. \A e \in 1 .. Len(events) : events[e].created \in Nat
  BY EventType DEF BillingInv
<1>8. \A e \in 1 .. Len(events) : events[e].created <= new.created
  BY <1>3, <1>4, <1>7
<1> QED BY <1>2, <1>4, <1>6, <1>8, BoundsAssumption DEF Issue

\* A subscription changes and Stripe issues an event of it (or none, if the
\* bound leaves no room and the workspace is being deleted).
LEMMA StripeMoves ==
  ASSUME BillingInv, NEW a \in Attempts, NEW to \in Statuses \ {"none"},
         stripe' = [stripe EXCEPT ![a] = to],
         session[a].state \in {"offered", "complete"},
         session' = [session EXCEPT ![a] = [state |-> "complete", trial |-> session[a].trial]],
         stripe[a] = "canceled" => to = "canceled",
         paid' \in {paid, paid \cup {a}},
         (stripe[a] = "none" /\ ~session[a].trial) \/ to = "active" => a \in paid',
         Issue(a) \/ (events' = events /\ stage # "none" /\ stripe[a] # "none"),
         UNCHANGED <<receipt, rowVars, requestVars, hookVars, stage>>
  PROVE  BillingInv' /\ Onward
<1> USE DEF BillingInv
<1>1. /\ \A b \in Attempts : stripe'[b] = IF b = a THEN to ELSE stripe[b]
      /\ \A b \in Attempts : session'[b].trial = session[b].trial
      /\ \A b \in Attempts : session'[b].state = IF b = a THEN "complete" ELSE session[b].state
  BY DEF BillingTypes
<1>2. /\ events' \in Seq([sub : Attempts, created : Nat]) /\ Len(events') <= MaxEvents
      /\ Len(events) \in Nat /\ Len(events') \in {Len(events), Len(events) + 1}
      /\ \A e \in 1 .. Len(events) : events'[e] = events[e]
  BY IssueLast DEF BillingTypes
<1>3. session[a].trial \in BOOLEAN /\ a < nextId /\ a \in Nat /\ nextId \in Nat
  BY BoundsAssumption DEF BillingTypes, SessionsFollow, Attempts
<1>4. a = attempt.id \/ stripe[a] = "canceled"
  BY <1>3 DEF SessionsFollow, Over
<1>5. BillingTypes'
  BY <1>2, <1>3 DEF BillingTypes, rowVars, requestVars, hookVars, SessionStates
<1>6. Onward
  <2>1. nextId <= nextId' /\ paid \subseteq paid'
    BY <1>3 DEF rowVars
  <2>2. stripe[a] # "none" => session[a].state = "complete"
    BY DEF SessionsFollow
  <2>3. a # attempt.id \/ Over(a) => stripe'[a] = stripe[a]
    BY <1>1, <1>4 DEF Over
  <2>4. \A b \in Attempts :
         /\ session[b].state # "none" =>
              session'[b].state # "none" /\ session'[b].trial = session[b].trial
         /\ session[b].state \in {"complete", "expired"} => session'[b].state = session[b].state
         /\ stripe[b] # "none" => stripe'[b] # "none"
         /\ stripe[b] = "canceled" => stripe'[b] = "canceled"
    <3> TAKE b \in Attempts
    <3>1. CASE b = a
      <4>1. /\ stripe'[a] = to /\ to # "none"
            /\ session'[a].trial = session[a].trial /\ session'[a].state = "complete"
        BY <1>1
      <4>2. session[a].state \in {"complete", "expired"} => session'[a].state = session[a].state
        BY <4>1
      <4>3. stripe[a] = "canceled" => stripe'[a] = "canceled"
        BY <4>1
      <4> QED BY <3>1, <4>1, <4>2, <4>3
    <3>2. CASE b # a
      BY <1>1, <3>2
    <3> QED BY <3>1, <3>2
  <2>5. \A b \in Attempts : b # attempt.id \/ Over(b) => stripe'[b] = stripe[b]
    BY <1>1, <2>3
  <2>6. Len(events) <= Len(events')
    BY <1>2
  <2> QED BY <1>2, <2>1, <2>4, <2>5, <2>6 DEF Onward
<1>7. SessionsFollow'
  <2>1. \A b \in Attempts : b < nextId /\ b # attempt.id => Over(b)'
    BY <1>6, OverStays DEF SessionsFollow
  <2>2. \A b \in Attempts : stripe'[b] # "none" <=> session'[b].state = "complete"
    BY <1>1 DEF SessionsFollow
  <2>3. \A b \in Attempts : b >= nextId => session'[b].state = "none"
    BY <1>1, <1>3 DEF SessionsFollow, Attempts
  <2>4. attempt.id # 0 /\ attempt.known => session'[attempt.id].state # "none"
    BY <1>1, KnownAttempt
  <2> QED BY <2>1, <2>2, <2>3, <2>4 DEF SessionsFollow, rowVars
<1>8. \A q \in Requests : RequestFollows(q)' /\ RequestTries(q)'
  BY <1>3, <1>6, RequestStays DEF rowVars, requestVars
<1>9. RecordFollows'
  <2>1. record.sub # 0 => record.sub \in Attempts
    BY DEF BillingTypes, Subscriptions
  <2>2. \A e \in 1 .. Len(events) : e \in 1 .. Len(events')
    BY <1>2
  <2>3. record' = record
    BY DEF rowVars
  <2>4. CASE record.sub = 0
    BY <2>3, <2>4 DEF RecordFollows
  <2>5. CASE record.sub # 0
    <3>1. /\ stripe'[record.sub] # "none"
          /\ record.status = "canceled" => stripe'[record.sub] = "canceled"
      BY <1>6, <2>1, <2>5 DEF RecordFollows, Onward
    <3>2. record.trial = session'[record.sub].trial
      BY <1>1, <2>1, <2>5 DEF RecordFollows
    <3>3. record.converted \/ record.status = "active" => record.sub \in paid'
      BY <1>6, <2>5 DEF RecordFollows, Onward
    <3>4. PICK e \in 1 .. Len(events) :
             events[e].sub = record.sub /\ events[e].created = record.seen
      BY <2>5 DEF RecordFollows
    <3>5. e \in 1 .. Len(events') /\ events'[e] = events[e]
      BY <1>2, <2>2
    <3> QED BY <2>3, <2>5, <3>1, <3>2, <3>3, <3>4, <3>5 DEF RecordFollows
  <2> QED BY <2>4, <2>5
<1>10. DeliveriesFollow'
  <2> SUFFICES ASSUME NEW h \in Hooks PROVE DeliveryFollows(h)'
    BY DEF DeliveriesFollow
  <2>1. hook[h] # "idle" => our[h].event \in 1 .. Len(events)
    BY DEF DeliveriesFollow, DeliveryFollows
  <2>2. hook[h] # "idle" => our[h].event \in 1 .. Len(events')
    BY <1>2, <2>1
  <2>3. hook[h] # "idle" => events[our[h].event].sub \in Attempts
    BY <2>1, EventType
  <2> QED BY <1>2, <1>6, <2>1, <2>2, <2>3
          DEF DeliveriesFollow, DeliveryFollows, Onward, hookVars
<1>11. EventsFollow' /\ LastEventCounts' /\ EventsSettle'
  <2>1. \A e \in 1 .. Len(events) : events[e].sub \in Attempts /\ events[e].created \in Nat
    BY EventType
  <2>2. CASE events' = events /\ stage # "none" /\ stripe[a] # "none"
    <3>1. EventsFollow'
      BY <1>1, <2>1, <2>2 DEF EventsFollow
    <3>2. LastEventCounts' /\ EventsSettle'
      BY <2>2 DEF LastEventCounts, EventsSettle
    <3> QED BY <3>1, <3>2
  <2>3. CASE Issue(a)
    <3> DEFINE n == Len(events) + 1
    <3>1. /\ Len(events') = n /\ n \in 1 .. MaxEvents /\ Len(events) \in Nat
          /\ events'[n].sub = a
          /\ \A e \in 1 .. Len(events) : events[e].created <= events'[n].created
      BY <2>3, IssueLast, BoundsAssumption DEF BillingTypes
    <3>2. events'[n].created \in Nat
      <4>1. n \in 1 .. Len(events')
        BY <3>1
      <4>2. events' \in Seq([sub : Attempts, created : Nat])
        BY <1>2
      <4> HIDE DEF n
      <4>3. events'[n] \in [sub : Attempts, created : Nat]
        BY <4>1, <4>2, ElementOfSeq
      <4> QED BY <4>3
    <3>3. \A e \in 1 .. n : e \in 1 .. Len(events) \/ e = n
      BY <3>1
    <3>4. receipt[n] = "waiting"
      BY <3>1 DEF EventsFollow
    <3> HIDE DEF n
    <3>5. EventsFollow'
      <4>1. \A e \in 1 .. n : stripe'[events'[e].sub] # "none"
        BY <1>1, <1>2, <2>1, <3>1, <3>3 DEF EventsFollow
      <4>2. \A e \in 1 .. MaxEvents : e > n => receipt[e] = "waiting"
        BY <3>1 DEF EventsFollow, n
      <4>3. \A d, e \in 1 .. n : d <= e => events'[d].created <= events'[e].created
        BY <1>2, <2>1, <3>1, <3>2, <3>3 DEF EventsFollow, n
      <4>4. \A b \in Attempts : stripe'[b] # "none" => \E e \in 1 .. n : events'[e].sub = b
        <5> TAKE b \in Attempts
        <5>1. CASE b = a
          <6>1. n \in 1 .. n
            BY <3>1
          <6> QED BY <3>1, <5>1, <6>1
        <5>2. CASE b # a
          <6>1. \A e \in 1 .. Len(events) : e \in 1 .. n
            BY <3>1 DEF n
          <6> QED BY <1>1, <1>2, <5>2, <6>1 DEF EventsFollow
        <5> QED BY <5>1, <5>2
      <4> QED BY <3>1, <4>1, <4>2, <4>3, <4>4 DEF EventsFollow
    <3>6. LastEventCounts'
      <4>1. \A h \in Hooks : hook[h] = "persist" => our[h].event # n
        BY <3>1 DEF DeliveriesFollow, DeliveryFollows, n
      <4> QED BY <3>1, <3>4, <4>1 DEF LastEventCounts, LastEvent, hookVars
    <3>7. EventsSettle'
      <4> SUFFICES ASSUME stage = "none", NEW e \in 1 .. n
                   PROVE  /\ receipt[e] = "processed" /\ stripe'[events'[e].sub] # "canceled"
                               => record.sub = events'[e].sub
                          /\ receipt[e] = "ignored" => events'[e].created < record.seen
        BY <3>1 DEF EventsSettle, rowVars
      <4>1. CASE e = n BY <3>4, <4>1
      <4>2. CASE e \in 1 .. Len(events)
        <5>1. stripe'[events[e].sub] # "canceled" => stripe[events[e].sub] # "canceled"
          BY <1>1, <2>1, <4>2
        <5> QED BY <1>2, <4>2, <5>1 DEF EventsSettle
      <4> QED BY <3>3, <4>1, <4>2
    <3> QED BY <3>5, <3>6, <3>7
  <2> QED BY <2>2, <2>3
<1>12. PaidFollows'
  BY <1>1 DEF PaidFollows
<1>13. TrialsFollow'
  <2>1. \A b \in Attempts : session'[b].state # "none" /\ session'[b].trial => Untried(b)'
    <3> TAKE b \in Attempts
    <3>1. session'[b].state # "none" => session[b].state # "none"
      BY <1>1
    <3>2. session[b].state # "none" => b < nextId
      BY <1>3 DEF SessionsFollow, Attempts
    <3> QED BY <1>1, <1>6, <3>1, <3>2, UntriedStays DEF TrialsFollow
  <2>2. attempt.id # 0 /\ attempt.trial => Untried(attempt.id)'
    <3>1. attempt.id # 0 =>
            /\ attempt.id \in Attempts /\ attempt.id < nextId
            /\ attempt.trial => Untried(attempt.id)
      BY KnownAttempt DEF TrialsFollow
    <3>2. CASE attempt.id # 0 /\ attempt.trial
      <4>1. PICK b : b = attempt.id
        OBVIOUS
      <4>2. b \in Attempts /\ b < nextId /\ Untried(b)
        BY <3>1, <3>2, <4>1
      <4>3. Untried(b)' /\ attempt' = attempt
        BY <1>6, <4>2, UntriedStays DEF rowVars
      <4> QED BY <4>1, <4>3 DEF Untried
    <3> QED BY <3>2
  <2>3. ~Customer => \A b \in Attempts : b # attempt.id => stripe'[b] = "none"
    BY <1>6 DEF TrialsFollow, Onward
  <2> QED BY <1>8, <2>1, <2>2, <2>3 DEF TrialsFollow, Customer, Untried, rowVars
<1> QED BY <1>5, <1>6, <1>7, <1>8, <1>9, <1>10, <1>11, <1>12, <1>13 DEF RequestsFollow

LEMMA CompleteSessionStep ==
  ASSUME BillingInv, NEW a \in Attempts, CompleteSession(a) PROVE BillingInv' /\ Onward
<1> DEFINE to == IF session[a].trial THEN "trialing" ELSE "active"
<1>1. /\ session[a].state = "offered" /\ stripe' = [stripe EXCEPT ![a] = to]
      /\ session' = [session EXCEPT ![a] = [state |-> "complete", trial |-> session[a].trial]]
      /\ paid' = IF session[a].trial THEN paid ELSE paid \cup {a}
      /\ Issue(a)
      /\ UNCHANGED <<receipt, rowVars, requestVars, hookVars, jobVars>>
  BY SessionEdit DEF CompleteSession, BillingInv
<1>2. stripe[a] = "none"
  BY <1>1 DEF BillingInv, SessionsFollow, BillingTypes
<1>3. to \in Statuses \ {"none"} /\ (to = "active" => ~session[a].trial)
  BY DEF Statuses, Running
<1> HIDE DEF to
<1> QED BY <1>1, <1>2, <1>3, StripeMoves DEF jobVars

\* A subscription is there because its session completed.
LEMMA SessionOfSubscription ==
  ASSUME BillingInv, NEW a \in Attempts, stripe[a] # "none"
  PROVE  /\ session[a].state = "complete"
         /\ session = [session EXCEPT ![a] = [state |-> "complete", trial |-> session[a].trial]]
<1>1. session[a].state = "complete" /\ session[a] \in [state : SessionStates, trial : BOOLEAN]
  BY DEF BillingInv, SessionsFollow, BillingTypes
<1>2. session[a] = [state |-> "complete", trial |-> session[a].trial]
  BY <1>1
<1>3. \E S : session \in [Attempts -> S]
  BY DEF BillingInv, BillingTypes
<1> QED BY <1>1, <1>2, <1>3

LEMMA ChangeSubscriptionStep ==
  ASSUME BillingInv, NEW a \in Attempts, NEW to \in Statuses, ChangeSubscription(a, to)
  PROVE  BillingInv' /\ Onward
<1>1. /\ to # "none" /\ stripe[a] # "none"
      /\ stripe[a] = "canceled" => to = "canceled"
  BY DEF ChangeSubscription
<1>2. /\ stripe' = [stripe EXCEPT ![a] = to] /\ session' = session /\ Issue(a)
      /\ paid' = IF to = "active" THEN paid \cup {a} ELSE paid
      /\ UNCHANGED <<receipt, rowVars, requestVars, hookVars, stage>>
  BY DEF ChangeSubscription, jobVars
<1> QED BY <1>1, <1>2, SessionOfSubscription, StripeMoves

LEMMA StripeKeeps == ASSUME BillingInv, StripeStep PROVE BillingInv' /\ Onward
BY CompleteSessionStep, SessionTimesOutStep, ChangeSubscriptionStep DEF StripeStep

-----------------------------------------------------------------------------
(* A delivery of a webhook event.                                          *)

Receipts == {"waiting", "processing", "processed", "ignored"}

LEMMA ReceiptMarked ==
  ASSUME BillingTypes, NEW e \in 1 .. MaxEvents, NEW mark \in Receipts,
         receipt' = [receipt EXCEPT ![e] = mark]
  PROVE  receipt' \in [1 .. MaxEvents -> Receipts] /\ Len(events) \in Nat
<1>1. receipt \in [1 .. MaxEvents -> Receipts] /\ Len(events) \in Nat
  BY DEF BillingTypes, Receipts
<1> QED BY <1>1

\* What a delivery leaves alone stays; the rest is its own to show.
LEMMA HookMoves ==
  ASSUME BillingInv, UNCHANGED <<stripeVars, attempt, nextId, requestVars, jobVars>>,
         record' \in Subscriptions, receipt' \in [1 .. MaxEvents -> Receipts],
         hook' \in [Hooks -> {"idle", "read", "retrieve", "persist"}],
         our' \in [Hooks -> WebhookLocals],
         record'.sub = 0 => record.sub = 0,
         \A e \in 1 .. MaxEvents : e > Len(events) => receipt'[e] = "waiting",
         RecordFollows', DeliveriesFollow', LastEventCounts', EventsSettle'
  PROVE  BillingInv'
<1> USE DEF BillingInv
<1>1. BillingTypes'
  BY DEF BillingTypes, stripeVars, requestVars, Receipts
<1>2. Onward
  BY BoundsAssumption DEF Onward, stripeVars, BillingTypes
<1>3. SessionsFollow'
  BY DEF SessionsFollow, Over, stripeVars
<1>4. Customer => Customer'
  BY DEF Customer, jobVars
<1>5. \A q \in Requests : RequestFollows(q)' /\ RequestTries(q)'
  <2>1. nextId' \in Nat
    BY BoundsAssumption DEF BillingTypes
  <2> QED BY <1>2, <1>4, <2>1, RequestKept, RequestTriesOn
          DEF requestVars, RequestsFollow, TrialsFollow
<1>6. EventsFollow' /\ PaidFollows'
  BY DEF EventsFollow, PaidFollows, stripeVars
<1>7. TrialsFollow'
  BY <1>4, <1>5 DEF TrialsFollow, Untried, stripeVars
<1> QED BY <1>1, <1>3, <1>5, <1>6, <1>7 DEF RequestsFollow

\* A delivery that does not write: a receipt may be claimed or given back.
LEMMA DeliveryMoves ==
  ASSUME BillingInv, UNCHANGED <<stripeVars, rowVars, requestVars, jobVars>>,
         receipt' \in [1 .. MaxEvents -> Receipts],
         \A e \in 1 .. MaxEvents :
             receipt'[e] = receipt[e] \/ receipt'[e] \in {"waiting", "processing"},
         \A e \in 1 .. MaxEvents : e > Len(events) => receipt'[e] = "waiting",
         hook' \in [Hooks -> {"idle", "read", "retrieve", "persist"}],
         our' \in [Hooks -> WebhookLocals],
         \A g \in Hooks :
             \/ hook'[g] = hook[g] /\ our'[g] = our[g]
             \/ /\ hook'[g] # "idle" => our'[g].event \in 1 .. Len(events)
                /\ hook'[g] = "persist" => our'[g].status = stripe[events[our'[g].event].sub]
  PROVE  BillingInv'
<1> USE DEF BillingInv
<1>1. RecordFollows'
  BY DEF RecordFollows, stripeVars, rowVars
<1>2. DeliveriesFollow'
  <2> SUFFICES ASSUME NEW g \in Hooks PROVE DeliveryFollows(g)'
    BY DEF DeliveriesFollow
  <2>1. CASE hook'[g] = hook[g] /\ our'[g] = our[g]
    BY <2>1 DEF DeliveriesFollow, DeliveryFollows, stripeVars
  <2>2. CASE /\ hook'[g] # "idle" => our'[g].event \in 1 .. Len(events)
             /\ hook'[g] = "persist" => our'[g].status = stripe[events[our'[g].event].sub]
    <3>1. hook'[g] # "idle" => events[our'[g].event].sub \in Attempts
      BY <2>2, EventType
    <3> QED BY <2>2, <3>1 DEF DeliveryFollows, PaidFollows, stripeVars
  <2> QED BY <2>1, <2>2
<1>3. LastEvent # 0 => LastEvent \in 1 .. MaxEvents
  BY BoundsAssumption DEF BillingTypes, LastEvent
<1>4. LastEventCounts'
  <2> SUFFICES ASSUME stage = "none", LastEvent # 0
               PROVE  /\ receipt'[LastEvent] # "ignored"
                      /\ receipt'[LastEvent] = "processed" =>
                           record.sub # 0 /\ record.status = stripe[record.sub]
                      /\ \A h \in Hooks :
                           hook'[h] = "persist"
                             /\ (our'[h].event = LastEvent
                                   \/ (our'[h].current /\ receipt'[LastEvent] = "processed"))
                           => our'[h].status = stripe[events[our'[h].event].sub]
    BY DEF LastEventCounts, LastEvent, stripeVars, rowVars, jobVars
  <2>1. receipt'[LastEvent] = receipt[LastEvent] \/ receipt'[LastEvent] \in {"waiting", "processing"}
    BY <1>3
  <2> QED BY <2>1 DEF LastEventCounts
<1>5. EventsSettle'
  <2>1. \A e \in 1 .. Len(events) : e \in 1 .. MaxEvents
    BY BoundsAssumption DEF BillingTypes
  <2> QED BY <2>1 DEF EventsSettle, stripeVars, rowVars, jobVars
<1>6. record' \in Subscriptions /\ record' = record
  BY DEF BillingTypes, rowVars
<1> QED BY <1>1, <1>2, <1>4, <1>5, <1>6, HookMoves DEF rowVars

LEMMA NoDeliveryType ==
  /\ NoDelivery \in WebhookLocals
  /\ \A e \in 1 .. MaxEvents, retry \in {0, 1} :
        LET d == [NoDelivery EXCEPT !.event = e, !.retry = retry]
        IN  d \in WebhookLocals /\ d.event = e
  /\ \A e \in 1 .. MaxEvents :
        LET d == [NoDelivery EXCEPT !.event = e]
        IN  d \in WebhookLocals /\ d.event = e
<1>1. /\ MaxEvents \in Nat /\ 0 \in 0 .. MaxEvents
      /\ \A e \in 1 .. MaxEvents : e \in 0 .. MaxEvents
  BY BoundsAssumption
<1>2. "none" \in Statuses
  BY DEF Statuses
<1>3. NoDelivery \in WebhookLocals
  BY <1>1, <1>2 DEF NoDelivery, WebhookLocals
<1>4. ASSUME NEW e \in 1 .. MaxEvents, NEW retry \in {0, 1}
      PROVE  LET d == [NoDelivery EXCEPT !.event = e, !.retry = retry]
             IN  d \in WebhookLocals /\ d.event = e
  BY <1>1, <1>3 DEF WebhookLocals
<1>5. ASSUME NEW e \in 1 .. MaxEvents
      PROVE  LET d == [NoDelivery EXCEPT !.event = e]
             IN  d \in WebhookLocals /\ d.event = e
  BY <1>1, <1>3 DEF WebhookLocals
<1> QED BY <1>3, <1>4, <1>5

\* What Deliver does, to the delivery and to the others.
LEMMA DeliverTo ==
  ASSUME BillingTypes, NEW h \in Hooks, NEW to \in {"idle", "read", "retrieve", "persist"},
         NEW d \in WebhookLocals, Deliver(h, to, d)
  PROVE  /\ hook' \in [Hooks -> {"idle", "read", "retrieve", "persist"}]
         /\ our' \in [Hooks -> WebhookLocals]
         /\ hook'[h] = to /\ (to # "idle" => our'[h] = d)
         /\ \A g \in Hooks \ {h} : hook'[g] = hook[g] /\ our'[g] = our[g]
BY NoDeliveryType DEF Deliver, BillingTypes

LEMMA ClaimEventStep == ASSUME BillingInv, NEW h \in Hooks, ClaimEvent(h) PROVE BillingInv'
<1> USE DEF BillingInv
<1>1. PICK e \in 1 .. Len(events) :
         /\ receipt' = [receipt EXCEPT ![e] = "processing"]
         /\ Deliver(h, "read", [NoDelivery EXCEPT !.event = e])
  BY DEF ClaimEvent
<1>2. e \in 1 .. MaxEvents /\ e <= Len(events) /\ Len(events) \in Nat
  BY BoundsAssumption DEF BillingTypes
<1>3. [NoDelivery EXCEPT !.event = e] \in WebhookLocals /\ [NoDelivery EXCEPT !.event = e].event = e
  BY <1>2, NoDeliveryType
<1>4. /\ hook' \in [Hooks -> {"idle", "read", "retrieve", "persist"}]
      /\ our' \in [Hooks -> WebhookLocals]
      /\ hook'[h] = "read" /\ our'[h].event = e
      /\ \A g \in Hooks \ {h} : hook'[g] = hook[g] /\ our'[g] = our[g]
  BY <1>1, <1>3, DeliverTo
<1>5. receipt' \in [1 .. MaxEvents -> Receipts]
  BY <1>1 DEF BillingTypes, Receipts
<1>6. \A k \in 1 .. MaxEvents : receipt'[k] = IF k = e THEN "processing" ELSE receipt[k]
  BY <1>1 DEF BillingTypes
<1>7. \A k \in 1 .. MaxEvents : k > Len(events) => receipt'[k] = "waiting"
  BY <1>2, <1>6 DEF EventsFollow
<1>8. UNCHANGED <<stripeVars, rowVars, requestVars, jobVars>>
  BY DEF ClaimEvent
<1> QED BY <1>4, <1>5, <1>6, <1>7, <1>8, DeliveryMoves

\* A receipt that is given back.
LEMMA GivenBack ==
  ASSUME BillingInv, NEW e \in 1 .. MaxEvents, receipt' = [receipt EXCEPT ![e] = "waiting"]
  PROVE  /\ receipt' \in [1 .. MaxEvents -> Receipts]
         /\ \A k \in 1 .. MaxEvents :
               receipt'[k] = receipt[k] \/ receipt'[k] \in {"waiting", "processing"}
         /\ \A k \in 1 .. MaxEvents : k > Len(events) => receipt'[k] = "waiting"
<1>1. \A k \in 1 .. MaxEvents : receipt'[k] = IF k = e THEN "waiting" ELSE receipt[k]
  BY DEF BillingInv, BillingTypes
<1> QED BY <1>1 DEF BillingInv, BillingTypes, EventsFollow, Receipts

LEMMA ClaimRunsOutStep ==
  ASSUME BillingInv, NEW e \in 1 .. MaxEvents, ClaimRunsOut(e) PROVE BillingInv'
<1>1. /\ receipt' = [receipt EXCEPT ![e] = "waiting"]
      /\ UNCHANGED <<stripeVars, rowVars, requestVars, hookVars, jobVars>>
  BY DEF ClaimRunsOut
<1>2. /\ hook' \in [Hooks -> {"idle", "read", "retrieve", "persist"}]
      /\ our' \in [Hooks -> WebhookLocals]
      /\ \A g \in Hooks : hook'[g] = hook[g] /\ our'[g] = our[g]
  BY <1>1 DEF hookVars, BillingInv, BillingTypes
<1> QED BY <1>1, <1>2, GivenBack, DeliveryMoves

\* The delivery in hand has an event.
LEMMA HeldEvent ==
  ASSUME BillingInv, NEW h \in Hooks, hook[h] # "idle"
  PROVE  /\ our[h] \in WebhookLocals
         /\ our[h].event \in 1 .. Len(events) /\ our[h].event \in 1 .. MaxEvents
         /\ events[our[h].event].sub \in Attempts /\ events[our[h].event].created \in Nat
<1>1. our[h] \in WebhookLocals /\ our[h].event \in 1 .. Len(events)
  BY DEF BillingInv, BillingTypes, DeliveriesFollow, DeliveryFollows
<1>2. our[h].event \in 1 .. MaxEvents
  BY <1>1, BoundsAssumption DEF BillingInv, BillingTypes
<1> QED BY <1>1, <1>2, EventType DEF BillingInv

LEMMA FailDeliveryStep == ASSUME BillingInv, NEW h \in Hooks, FailDelivery(h) PROVE BillingInv'
<1>1. /\ receipt' = [receipt EXCEPT ![our[h].event] = "waiting"] /\ Deliver(h, "idle", NoDelivery)
      /\ UNCHANGED <<stripeVars, rowVars, requestVars, jobVars>> /\ hook[h] # "idle"
  BY DEF FailDelivery
<1>2. /\ hook' \in [Hooks -> {"idle", "read", "retrieve", "persist"}]
      /\ our' \in [Hooks -> WebhookLocals] /\ hook'[h] = "idle"
      /\ \A g \in Hooks \ {h} : hook'[g] = hook[g] /\ our'[g] = our[g]
  BY <1>1, NoDeliveryType, DeliverTo DEF BillingInv
<1>3. our[h].event \in 1 .. MaxEvents
  BY <1>1, HeldEvent
<1> QED BY <1>1, <1>2, <1>3, GivenBack, DeliveryMoves

\* The receipts are left as they are.
LEMMA SameReceipts ==
  ASSUME BillingInv, receipt' = receipt
  PROVE  /\ receipt' \in [1 .. MaxEvents -> Receipts]
         /\ \A k \in 1 .. MaxEvents :
               receipt'[k] = receipt[k] \/ receipt'[k] \in {"waiting", "processing"}
         /\ \A k \in 1 .. MaxEvents : k > Len(events) => receipt'[k] = "waiting"
BY DEF BillingInv, BillingTypes, EventsFollow, Receipts

LEMMA EvictDeliveryStep == ASSUME BillingInv, NEW h \in Hooks, EvictDelivery(h) PROVE BillingInv'
<1>1. /\ Deliver(h, "idle", NoDelivery) /\ receipt' = receipt
      /\ UNCHANGED <<stripeVars, rowVars, requestVars, jobVars>>
  BY DEF EvictDelivery
<1>2. /\ hook' \in [Hooks -> {"idle", "read", "retrieve", "persist"}]
      /\ our' \in [Hooks -> WebhookLocals] /\ hook'[h] = "idle"
      /\ \A g \in Hooks \ {h} : hook'[g] = hook[g] /\ our'[g] = our[g]
  BY <1>1, NoDeliveryType, DeliverTo DEF BillingInv
<1> QED BY <1>1, <1>2, SameReceipts, DeliveryMoves

LEMMA ReadVersionStep == ASSUME BillingInv, NEW h \in Hooks, ReadVersion(h) PROVE BillingInv'
<1>1. PICK named \in BOOLEAN :
         Deliver(h, "retrieve", [our[h] EXCEPT !.current =
             (named \/ record.sub = events[our[h].event].sub) \/ record.sub = 0])
  BY DEF ReadVersion
<1> DEFINE current == (named \/ record.sub = events[our[h].event].sub) \/ record.sub = 0
           d == [our[h] EXCEPT !.current = current]
<1>2. /\ receipt' = receipt /\ UNCHANGED <<stripeVars, rowVars, requestVars, jobVars>>
      /\ hook[h] # "idle"
  BY DEF ReadVersion
<1>3. our[h] \in WebhookLocals /\ our[h].event \in 1 .. Len(events)
  BY <1>2, HeldEvent
<1>4. current \in BOOLEAN
  OBVIOUS
<1>5. Deliver(h, "retrieve", d)
  BY <1>1
<1> HIDE DEF current
<1>6. d \in WebhookLocals /\ d.event = our[h].event
  BY <1>3, <1>4 DEF WebhookLocals
<1> HIDE DEF d
<1>7. /\ hook' \in [Hooks -> {"idle", "read", "retrieve", "persist"}]
      /\ our' \in [Hooks -> WebhookLocals] /\ hook'[h] = "retrieve"
      /\ our'[h].event \in 1 .. Len(events)
      /\ \A g \in Hooks \ {h} : hook'[g] = hook[g] /\ our'[g] = our[g]
  BY <1>3, <1>5, <1>6, DeliverTo DEF BillingInv
<1> QED BY <1>2, <1>7, SameReceipts, DeliveryMoves

LEMMA RetrieveSubscriptionStep ==
  ASSUME BillingInv, NEW h \in Hooks, RetrieveSubscription(h) PROVE BillingInv'
<1> DEFINE status == stripe[events[our[h].event].sub]
           d == [our[h] EXCEPT !.status = status]
<1>1. /\ receipt' = receipt /\ UNCHANGED <<stripeVars, rowVars, requestVars, jobVars>>
      /\ hook[h] # "idle" /\ Deliver(h, "persist", d)
  BY DEF RetrieveSubscription
<1>2. our[h] \in WebhookLocals /\ our[h].event \in 1 .. Len(events) /\ status \in Statuses
  BY <1>1, HeldEvent DEF BillingInv, BillingTypes
<1>3. d \in WebhookLocals /\ d.event = our[h].event /\ d.status = status
  BY <1>2 DEF WebhookLocals
<1> HIDE DEF d
<1>4. /\ hook' \in [Hooks -> {"idle", "read", "retrieve", "persist"}]
      /\ our' \in [Hooks -> WebhookLocals] /\ hook'[h] = "persist" /\ our'[h] = d
      /\ \A g \in Hooks \ {h} : hook'[g] = hook[g] /\ our'[g] = our[g]
  BY <1>1, <1>3, DeliverTo DEF BillingInv
<1> QED BY <1>1, <1>2, <1>3, <1>4, SameReceipts, DeliveryMoves

\* The date on record is that of an event of the subscription on record.
LEMMA RecordDated ==
  ASSUME BillingInv, NEW e \in 1 .. Len(events), record.seen > events[e].created
  PROVE  /\ record.sub \in Attempts /\ stripe[record.sub] # "none"
         /\ \E k \in 1 .. Len(events) : k > e /\ events[k].sub = record.sub
<1> USE DEF BillingInv
<1>1. record.sub # 0
  <2>1. events[e].created \in Nat
    BY EventType
  <2> QED BY <2>1 DEF RecordFollows, NoSubscription
<1>2. record.sub \in Attempts /\ stripe[record.sub] # "none"
  BY <1>1 DEF BillingTypes, Subscriptions, RecordFollows
<1>3. PICK k \in 1 .. Len(events) : events[k].sub = record.sub /\ events[k].created = record.seen
  BY <1>1 DEF RecordFollows
<1>4. ~(k <= e)
  <2>1. events[e].created \in Nat /\ events[k].created \in Nat
    BY EventType
  <2> QED BY <1>3, <2>1 DEF EventsFollow
<1>5. k > e
  BY <1>4, BoundsAssumption DEF BillingTypes
<1> QED BY <1>2, <1>3, <1>5

\* A later event was seen: this one is set aside.
LEMMA SetAside ==
  ASSUME BillingInv, NEW h \in Hooks, hook[h] = "persist",
         record.seen > events[our[h].event].created,
         receipt' = [receipt EXCEPT ![our[h].event] = "ignored"],
         Deliver(h, "idle", NoDelivery), UNCHANGED <<stripeVars, rowVars, requestVars, jobVars>>
  PROVE  BillingInv'
<1> DEFINE e == our[h].event
<1> USE DEF BillingInv
<1>1. e \in 1 .. Len(events) /\ e \in 1 .. MaxEvents /\ events[e].sub \in Attempts
  BY HeldEvent
<1>2. /\ hook' \in [Hooks -> {"idle", "read", "retrieve", "persist"}]
      /\ our' \in [Hooks -> WebhookLocals] /\ hook'[h] = "idle"
      /\ \A g \in Hooks \ {h} : hook'[g] = hook[g] /\ our'[g] = our[g]
  BY NoDeliveryType, DeliverTo
<1>3. \A k \in 1 .. MaxEvents : receipt'[k] = IF k = e THEN "ignored" ELSE receipt[k]
  BY DEF BillingTypes
<1>4. receipt' \in [1 .. MaxEvents -> Receipts] /\ Len(events) \in Nat
  BY <1>1, ReceiptMarked DEF Receipts
<1>5. PICK k \in 1 .. Len(events) : k > e /\ events[k].sub = record.sub
  BY <1>1, RecordDated
<1>6. record.sub \in Attempts /\ stripe[record.sub] # "none"
  BY <1>1, RecordDated
<1> HIDE DEF e
<1>7. \A i \in 1 .. MaxEvents : i > Len(events) => receipt'[i] = "waiting"
  BY <1>1, <1>3, <1>4 DEF EventsFollow
<1>8. RecordFollows'
  BY DEF RecordFollows, stripeVars, rowVars
<1>9. DeliveriesFollow'
  BY <1>2 DEF DeliveriesFollow, DeliveryFollows, stripeVars
<1>10. LastEventCounts'
  <2>1. e # LastEvent
    BY <1>1, <1>4, <1>5 DEF LastEvent
  <2>2. LastEvent # 0 => receipt'[LastEvent] = receipt[LastEvent]
    <3>1. LastEvent # 0 => LastEvent \in 1 .. MaxEvents
      BY BoundsAssumption DEF BillingTypes, LastEvent
    <3> QED BY <1>3, <2>1, <3>1
  <2> QED BY <1>2, <2>2 DEF LastEventCounts, LastEvent, stripeVars, rowVars, jobVars
<1>11. EventsSettle'
  <2>1. events[e].created < record.seen
    <3>1. events[e].created \in Nat /\ record.seen \in Nat
      BY <1>1, EventType DEF BillingTypes, Subscriptions
    <3> QED BY <3>1 DEF e
  <2>2. \A i \in 1 .. Len(events) : i \in 1 .. MaxEvents
    BY BoundsAssumption DEF BillingTypes
  <2> QED BY <1>3, <2>1, <2>2 DEF EventsSettle, stripeVars, rowVars, jobVars
<1>12. record' \in Subscriptions /\ record' = record
  BY DEF BillingTypes, rowVars
<1> QED BY <1>2, <1>4, <1>7, <1>8, <1>9, <1>10, <1>11, <1>12, HookMoves DEF rowVars

\* The row is written.  From now on only a delivery that reads it again can write.
LEMMA Written ==
  ASSUME BillingInv, NEW h \in Hooks, hook[h] = "persist",
         MayReplace(events[our[h].event].sub, our[h].status, our[h].current,
                    events[our[h].event].created),
         record' = Snapshot(events[our[h].event].sub, our[h].status, events[our[h].event].created),
         receipt' = [receipt EXCEPT ![our[h].event] = "processed"],
         hook' = [hook EXCEPT ![h] = "idle"],
         our' \in [Hooks -> WebhookLocals],
         \A g \in Hooks \ {h} :
             /\ our'[g].event = our[g].event /\ our'[g].status = our[g].status
             /\ our'[g].current = FALSE,
         UNCHANGED <<stripeVars, attempt, nextId, requestVars, jobVars>>
  PROVE  BillingInv'
<1> DEFINE e == our[h].event
           sub == events[e].sub
           created == events[e].created
           status == our[h].status
<1> USE DEF BillingInv
<1>1. /\ e \in 1 .. Len(events) /\ e \in 1 .. MaxEvents /\ sub \in Attempts /\ created \in Nat
      /\ our[h] \in WebhookLocals
  BY HeldEvent
<1>2. /\ status = "canceled" => stripe[sub] = "canceled"
      /\ status = "active" => sub \in paid
      /\ stripe[sub] # "none" /\ status \in Statuses
  BY <1>1 DEF DeliveriesFollow, DeliveryFollows, EventsFollow, WebhookLocals
<1>3. session[sub].trial \in BOOLEAN /\ record.converted \in BOOLEAN /\ sub # 0
  BY <1>1, BoundsAssumption DEF BillingTypes, Subscriptions, Attempts
<1>4. /\ record' \in Subscriptions /\ record'.sub = sub /\ record'.status = status
      /\ record'.trial = session[sub].trial /\ record'.seen = created
      /\ record'.converted => (record.sub = sub /\ record.converted) \/ status = "active"
  BY <1>1, <1>2, <1>3 DEF Snapshot, Subscriptions
<1>5. /\ our[h].current = TRUE
      /\ record.sub \in {0, sub} \/ record.status = "canceled"
  BY <1>1 DEF MayReplace, WebhookLocals
<1>6. /\ hook' \in [Hooks -> {"idle", "read", "retrieve", "persist"}] /\ hook'[h] = "idle"
      /\ \A g \in Hooks \ {h} : hook'[g] = hook[g]
  BY DEF BillingTypes
<1>7. \A k \in 1 .. MaxEvents : receipt'[k] = IF k = e THEN "processed" ELSE receipt[k]
  BY DEF BillingTypes
<1>8. receipt' \in [1 .. MaxEvents -> Receipts] /\ Len(events) \in Nat
  BY <1>1, ReceiptMarked DEF Receipts
<1>9. \A k \in 1 .. MaxEvents : k > Len(events) => receipt'[k] = "waiting"
  BY <1>1, <1>7, <1>8 DEF EventsFollow
<1>10. RecordFollows'
  <2>1. record'.converted => sub \in paid
    BY <1>2, <1>3, <1>4 DEF RecordFollows
  <2> QED BY <1>1, <1>2, <1>3, <1>4, <2>1 DEF RecordFollows, stripeVars
<1>11. DeliveriesFollow'
  BY <1>6 DEF DeliveriesFollow, DeliveryFollows, stripeVars
<1>12. LastEventCounts'
  <2> SUFFICES ASSUME stage = "none", LastEvent # 0
               PROVE  /\ receipt'[LastEvent] # "ignored"
                      /\ receipt'[LastEvent] = "processed" =>
                           record'.sub # 0 /\ record'.status = stripe[record'.sub]
                      /\ \A g \in Hooks :
                           hook'[g] = "persist"
                             /\ (our'[g].event = LastEvent
                                   \/ (our'[g].current /\ receipt'[LastEvent] = "processed"))
                           => our'[g].status = stripe[events[our'[g].event].sub]
    BY DEF LastEventCounts, LastEvent, stripeVars, jobVars
  <2>1. LastEvent \in 1 .. MaxEvents
    BY BoundsAssumption DEF BillingTypes, LastEvent
  <2>2. receipt'[LastEvent] # "ignored"
    BY <1>7, <2>1 DEF LastEventCounts
  <2>3. receipt'[LastEvent] = "processed" => status = stripe[sub]
    <3>1. e = LastEvent \/ receipt'[LastEvent] = receipt[LastEvent]
      BY <1>7, <2>1
    <3> QED BY <1>5, <3>1 DEF LastEventCounts
  <2>4. ASSUME NEW g \in Hooks, hook'[g] = "persist",
               our'[g].event = LastEvent
                 \/ (our'[g].current /\ receipt'[LastEvent] = "processed")
        PROVE  our'[g].status = stripe[events[our'[g].event].sub]
    <3>1. g # h
      BY <1>6, <2>4
    <3>2. our[g].event = LastEvent /\ hook[g] = "persist"
      BY <1>6, <2>4, <3>1
    <3> QED BY <3>1, <3>2 DEF LastEventCounts
  <2> QED BY <1>3, <1>4, <2>2, <2>3, <2>4
<1>13. EventsSettle'
  <2> SUFFICES ASSUME stage = "none", NEW k \in 1 .. Len(events)
               PROVE  /\ receipt'[k] = "processed" /\ stripe[events[k].sub] # "canceled"
                           => sub = events[k].sub
                      /\ receipt'[k] = "ignored" => events[k].created < created
    BY <1>4 DEF EventsSettle, stripeVars, jobVars
  <2>0. k \in 1 .. MaxEvents
    BY BoundsAssumption DEF BillingTypes
  <2>1. CASE k = e
    BY <1>7, <2>0, <2>1
  <2>2. CASE k # e /\ receipt'[k] = "processed" /\ stripe[events[k].sub] # "canceled"
    <3>1. receipt[k] = "processed"
      BY <1>7, <2>0, <2>2
    <3>2. record.sub = events[k].sub
      BY <2>2, <3>1 DEF EventsSettle
    <3>3. record.sub # 0
      BY <3>2, EventType, BoundsAssumption DEF Attempts
    <3>4. record.status # "canceled"
      BY <2>2, <3>2, <3>3 DEF RecordFollows
    <3> QED BY <1>5, <2>2, <3>2, <3>3, <3>4
  <2>3. CASE k # e /\ receipt'[k] = "ignored"
    <3>1. events[k].created < record.seen
      BY <1>7, <2>0, <2>3 DEF EventsSettle
    <3>2. record.seen <= created
      BY DEF MayReplace
    <3>3. events[k].created \in Nat /\ record.seen \in Nat
      BY EventType DEF BillingTypes, Subscriptions
    <3> QED BY <1>1, <2>3, <3>1, <3>2, <3>3
  <2> QED BY <2>1, <2>2, <2>3
<1> QED BY <1>3, <1>4, <1>6, <1>8, <1>9, <1>10, <1>11, <1>12, <1>13, HookMoves

LEMMA PersistSubscriptionStep ==
  ASSUME BillingInv, NEW h \in Hooks, PersistSubscription(h) PROVE BillingInv'
<1> DEFINE e == our[h].event
           sub == events[e].sub
           created == events[e].created
           accepted == session[sub].trial => TrialAccepted(sub)
           write == accepted /\ MayReplace(sub, our[h].status, our[h].current, created)
           stale == accepted /\ ~write /\ record.seen > created
           again == accepted /\ ~write /\ ~stale /\ our[h].retry = 0
           fresh == IF again THEN [NoDelivery EXCEPT !.event = e, !.retry = 1] ELSE NoDelivery
<1> USE DEF BillingInv
<1>1. /\ record' = IF write THEN Snapshot(sub, our[h].status, created) ELSE record
      /\ receipt' = IF again THEN receipt ELSE
           [receipt EXCEPT ![e] = CASE write -> "processed" [] stale -> "ignored" [] OTHER -> "waiting"]
      /\ hook' = [hook EXCEPT ![h] = IF again THEN "read" ELSE "idle"]
      /\ our' = [g \in Hooks |->
           CASE g = h -> fresh [] OTHER -> [our[g] EXCEPT !.current = @ /\ ~write]]
      /\ UNCHANGED <<stripeVars, attempt, nextId, requestVars, jobVars>> /\ hook[h] = "persist"
  BY DEF PersistSubscription
<1>2. e \in 1 .. Len(events) /\ e \in 1 .. MaxEvents
  BY <1>1, HeldEvent
<1>3. fresh \in WebhookLocals /\ (again => fresh.event = e)
  BY <1>2, NoDeliveryType
<1>4. write \in BOOLEAN /\ (stale => ~write)
  BY DEF MayReplace
<1> HIDE DEF e, sub, created, accepted, write, stale, again, fresh
<1>5. \A g \in Hooks : [our[g] EXCEPT !.current = @ /\ ~write] \in WebhookLocals
  BY <1>4 DEF BillingTypes, WebhookLocals
<1>6. our'[h] = fresh /\ our' \in [Hooks -> WebhookLocals]
  BY <1>1, <1>3, <1>5
<1>7. \A g \in Hooks \ {h} :
         /\ our'[g] = [our[g] EXCEPT !.current = @ /\ ~write] /\ our[g] \in WebhookLocals
  BY <1>1 DEF BillingTypes
<1>8. CASE write
  <2>1. record' = Snapshot(sub, our[h].status, created) /\ ~again
    BY <1>1, <1>8 DEF again
  <2>2. receipt' = [receipt EXCEPT ![e] = "processed"] /\ hook' = [hook EXCEPT ![h] = "idle"]
    BY <1>1, <1>4, <1>8, <2>1
  <2>3. \A g \in Hooks \ {h} :
             /\ our'[g].event = our[g].event /\ our'[g].status = our[g].status
             /\ our'[g].current = FALSE
    BY <1>7, <1>8 DEF WebhookLocals
  <2>4. MayReplace(sub, our[h].status, our[h].current, created)
    BY <1>8 DEF write
  <2> QED BY <1>1, <1>6, <2>1, <2>2, <2>3, <2>4, Written DEF e, sub, created
<1>9. CASE ~write
  <2>1. ASSUME NEW g \in Hooks \ {h} PROVE our'[g] = our[g]
    <3>1. our[g].current \in BOOLEAN
      BY <1>7 DEF WebhookLocals
    <3>2. (our[g].current /\ ~write) = our[g].current
      BY <1>9, <3>1
    <3>3. our'[g] = [our[g] EXCEPT !.current = our[g].current]
      BY <1>7, <3>2
    <3> QED BY <1>7, <3>3 DEF WebhookLocals
  <2>2. UNCHANGED <<stripeVars, rowVars, requestVars, jobVars>>
    BY <1>1, <1>9 DEF rowVars
  <2>3. /\ hook' \in [Hooks -> {"idle", "read", "retrieve", "persist"}]
        /\ hook'[h] = IF again THEN "read" ELSE "idle"
        /\ \A g \in Hooks \ {h} : hook'[g] = hook[g]
    BY <1>1 DEF BillingTypes
  <2>4. CASE stale
    <3>1. ~again /\ record.seen > created
      BY <2>4 DEF stale, again
    <3>2. receipt' = [receipt EXCEPT ![e] = "ignored"] /\ hook' = [hook EXCEPT ![h] = "idle"]
      BY <1>1, <1>9, <2>4, <3>1
    <3>3. our' = [our EXCEPT ![h] = NoDelivery]
      <4>1. fresh = NoDelivery
        BY <3>1 DEF fresh
      <4> QED BY <1>1, <1>6, <2>1, <4>1 DEF BillingTypes
    <3> QED BY <1>1, <2>2, <3>1, <3>2, <3>3, SetAside DEF Deliver, e, created
  <2>5. CASE again
    <3>1. receipt' = receipt /\ hook'[h] = "read" /\ our'[h].event = e
      BY <1>1, <1>3, <1>6, <2>3, <2>5
    <3> QED BY <1>2, <1>6, <2>1, <2>2, <2>3, <3>1, SameReceipts, DeliveryMoves
  <2>6. CASE ~stale /\ ~again
    <3>1. receipt' = [receipt EXCEPT ![e] = "waiting"] /\ hook'[h] = "idle"
      BY <1>1, <1>9, <2>3, <2>6
    <3> QED BY <1>2, <1>6, <2>1, <2>2, <2>3, <3>1, GivenBack, DeliveryMoves
  <2> QED BY <2>4, <2>5, <2>6
<1> QED BY <1>8, <1>9

LEMMA HookKeeps == ASSUME BillingInv, NEW h \in Hooks, HookStep(h) PROVE BillingInv'
BY ClaimEventStep, ReadVersionStep, RetrieveSubscriptionStep, PersistSubscriptionStep,
   FailDeliveryStep, EvictDeliveryStep DEF HookStep

LEMMA BillingKeeps == ASSUME BillingInv, StagesFollow, BillingNext PROVE BillingInv'
BY StripeKeeps, CheckoutKeeps, HookKeeps, ClaimRunsOutStep DEF BillingNext

-----------------------------------------------------------------------------
(* The deletion and billing.                                               *)

\* Only the insertion of an attempt row takes a new attempt, and the deletion
\* stops it.
LEMMA BillingGoesOn ==
  ASSUME BillingInv, StagesFollow, BillingNext
  PROVE  Onward /\ (stage # "none" => nextId' = nextId)
<1>1. /\ nextId \in Nat /\ nextId' = nextId /\ UNCHANGED stripeVars => Onward
      /\ nextId \in Nat
  BY BoundsAssumption DEF Onward, stripeVars, BillingInv, BillingTypes
<1>2. CASE StripeStep
  BY <1>2, StripeKeeps
     DEF StripeStep, CompleteSession, SessionTimesOut, ChangeSubscription, rowVars
<1>3. ASSUME NEW r \in Requests, CheckoutStep(r)
      PROVE  Onward /\ (stage # "none" => nextId' = nextId)
  <2>1. CASE BeginCheckout(r) \/ Abandon(r) \/ NextRound(r) \/ ReadAttempt(r)
             \/ RereadAttempt(r) \/ RetrieveSession(r)
    <3>1. UNCHANGED <<stripeVars, rowVars>>
      BY <2>1 DEF BeginCheckout, Abandon, NextRound, ReadAttempt, RereadAttempt, RetrieveSession
    <3> QED BY <1>1, <3>1 DEF rowVars
  <2>2. CASE InsertAttempt(r)
    <3>1. /\ UNCHANGED stripeVars
          /\ \/ nextId' = nextId
             \/ nextId' = nextId + 1 /\ WorkspaceExists /\ ~Recorded
      BY <2>2 DEF InsertAttempt
    <3>2. WorkspaceExists /\ ~Recorded => stage = "none"
      BY DEF StagesFollow, WorkspaceExists, Recorded, Named
    <3>3. nextId <= nextId'
      BY <1>1, <3>1
    <3>4. Onward
      BY <3>1, <3>3, BoundsAssumption DEF Onward, stripeVars, BillingInv, BillingTypes
    <3> QED BY <3>1, <3>2, <3>4
  <2>3. CASE SubmitSession(r)
    BY <2>3, SubmitSessionStep DEF SubmitSession, rowVars
  <2>4. CASE SaveSession(r)
    BY <2>4, SaveSessionStep DEF SaveSession
  <2>5. CASE ExpireSession(r)
    BY <2>5, ExpireSessionStep DEF ExpireSession, rowVars
  <2>6. CASE OfferSession(r)
    BY <2>6, OfferSessionStep DEF OfferSession, rowVars
  <2>7. CASE DeleteAttempt(r)
    BY <2>7, DeleteAttemptStep DEF DeleteAttempt
  <2> QED BY <1>3, <2>1, <2>2, <2>3, <2>4, <2>5, <2>6, <2>7 DEF CheckoutStep
<1>4. ASSUME NEW h \in Hooks, HookStep(h) PROVE UNCHANGED stripeVars /\ nextId' = nextId
  BY <1>4 DEF HookStep, ClaimEvent, ReadVersion, RetrieveSubscription, PersistSubscription,
              FailDelivery, EvictDelivery, rowVars
<1>5. ASSUME NEW e \in 1 .. MaxEvents, ClaimRunsOut(e) PROVE UNCHANGED stripeVars /\ nextId' = nextId
  BY <1>5 DEF ClaimRunsOut, rowVars
<1> QED BY <1>1, <1>2, <1>3, <1>4, <1>5 DEF BillingNext

LEMMA AllOverStays ==
  ASSUME Onward, nextId' = nextId, AllOver PROVE AllOver'
BY OverStays DEF AllOver

\* What an attempt knows stays true while it stands still, however long.
LEMMA ClosingKept ==
  ASSUME BillingInv, DeletionInv, Onward, stage # "none" => nextId' = nextId,
         NEW d \in Attempters, dat'[d] = dat[d], dmy'[d] = dmy[d]
  PROVE  ClosingFollows(d)'
<1> DEFINE place == dat[d]
           known == dmy[d]
<1>1. ClosingKnown(place, known) /\ known \in AdvanceLocals
  BY DEF DeletionInv, DeletionTypes, ClosingsFollow, ClosingFollows
<1>2. place # "idle" \/ known.billed => nextId' = nextId
  BY DEF DeletionInv, StagesFollow
<1>3. known.plan # 0 => known.plan \in Attempts
  BY <1>1 DEF AdvanceLocals
<1> HIDE DEF place, known
<1>4. known.plan # 0 => stripe'[known.plan] # "none"
  BY <1>1, <1>3 DEF ClosingKnown, Onward
<1>5. known.billed => AllOver'
  BY <1>1, <1>2, AllOverStays DEF ClosingKnown
<1>6. place \in {"submit", "save", "inspect", "expire"} =>
        /\ known.row.id < nextId'
        /\ \A a \in Attempts : a < nextId' /\ a # known.row.id => Over(a)'
  BY <1>1, <1>2, OverStays DEF ClosingKnown
<1>7. place = "submit" => (known.row.trial => Untried(known.row.id)')
  <2> SUFFICES ASSUME place = "submit", known.row.trial PROVE Untried(known.row.id)'
    OBVIOUS
  <2>1. PICK a : a = known.row.id
    OBVIOUS
  <2>2. a \in Attempts /\ a < nextId /\ Untried(a)
    BY <1>1, <2>1 DEF ClosingKnown
  <2>3. Untried(a)' /\ known' = known
    BY <2>2, UntriedStays DEF BillingInv, known
  <2> QED BY <2>1, <2>3 DEF Untried
<1>8. place \in {"save", "inspect", "expire"} => session'[known.row.id].state # "none"
  BY <1>1 DEF ClosingKnown, Onward
<1>9. place = "cancel" =>
        \A a \in Attempts : a < nextId' =>
            Over(a)' \/ (a = known.plan /\ session'[a].state = "complete")
  BY <1>1, <1>2, OverStays DEF ClosingKnown, Onward
<1>10. place \in BillingDone => AllOver'
  BY <1>1, <1>2, AllOverStays DEF ClosingKnown, BillingDone
<1> QED BY <1>1, <1>4, <1>5, <1>6, <1>7, <1>8, <1>9, <1>10
        DEF ClosingKnown, ClosingFollows, place, known

LEMMA OthersGoOn ==
  ASSUME BillingInv, DeletionInv, Onward, stage # "none" => nextId' = nextId,
         UNCHANGED <<deletionVars, jobVars>>
  PROVE  DeletionInv'
<1>1. DeletionTypes' /\ StagesFollow'
  BY DEF DeletionInv, DeletionTypes, StagesFollow, deletionVars, jobVars
<1>2. job.plan # 0 => stripe'[job.plan] # "none"
  BY DEF DeletionInv, DeletionTypes, ClosingsFollow, Onward
<1>3. job.billed \/ workspace # "present" => AllOver'
  <2>1. workspace # "present" => stage # "none"
    BY DEF DeletionInv, StagesFollow, DeletionTypes
  <2>2. job.billed => stage # "none"
    BY DEF DeletionInv, StagesFollow
  <2> QED BY <2>1, <2>2, AllOverStays DEF DeletionInv, ClosingsFollow
<1>4. \A d \in Attempters : ClosingFollows(d)'
  BY ClosingKept DEF deletionVars
<1> QED BY <1>1, <1>2, <1>3, <1>4 DEF DeletionInv, ClosingsFollow, deletionVars, jobVars

LEMMA BillingLeavesJob == ASSUME BillingNext PROVE UNCHANGED jobVars
BY DEF BillingNext, StripeStep, CompleteSession, SessionTimesOut, ChangeSubscription,
     CheckoutStep, BeginCheckout, Abandon, NextRound, ReadAttempt, InsertAttempt,
     RereadAttempt, SubmitSession, RetrieveSession, SaveSession, ExpireSession,
     OfferSession, DeleteAttempt, HookStep, ClaimEvent, ReadVersion, RetrieveSubscription,
     PersistSubscription, FailDelivery, EvictDelivery, ClaimRunsOut

LEMMA BillingKeepsDeletion ==
  ASSUME BillingInv, DeletionInv, BillingNext, UNCHANGED deletionVars PROVE DeletionInv'
<1>1. UNCHANGED jobVars
  BY BillingLeavesJob
<1> QED BY <1>1, BillingGoesOn, OthersGoOn DEF DeletionInv

\* The deletion goes on, and billing is as it was.
LEMMA BillingStays ==
  ASSUME BillingInv, UNCHANGED billingVars, stage # "none" => stage' # "none"
  PROVE  BillingInv' /\ Onward
<1> USE DEF BillingInv, billingVars
<1>1. BillingTypes'
  BY DEF BillingTypes, stripeVars, rowVars, requestVars, hookVars
<1>2. Onward
  BY BoundsAssumption DEF Onward, stripeVars, rowVars, BillingTypes
<1>3. SessionsFollow'
  BY DEF SessionsFollow, Over, stripeVars, rowVars
<1>4. Customer => Customer'
  BY DEF Customer, rowVars
<1>5. \A q \in Requests : RequestFollows(q)' /\ RequestTries(q)'
  <2>1. nextId' \in Nat
    BY BoundsAssumption DEF BillingTypes, rowVars
  <2> QED BY <1>2, <1>4, <2>1, RequestKept, RequestTriesOn
          DEF requestVars, RequestsFollow, TrialsFollow
<1>6. RecordFollows' /\ DeliveriesFollow'
  BY DEF RecordFollows, DeliveriesFollow, DeliveryFollows, stripeVars, rowVars, hookVars
<1>7. EventsFollow' /\ PaidFollows'
  BY DEF EventsFollow, PaidFollows, stripeVars
<1>8. TrialsFollow'
  BY <1>4, <1>5 DEF TrialsFollow, Untried, stripeVars, rowVars
<1>9. LastEventCounts' /\ EventsSettle'
  BY DEF LastEventCounts, LastEvent, EventsSettle, stripeVars, rowVars, hookVars
<1> QED BY <1>1, <1>2, <1>3, <1>5, <1>6, <1>7, <1>8, <1>9 DEF RequestsFollow

LEMMA RequestClosureStep ==
  ASSUME BillingInv, DeletionInv, RequestClosure PROVE BillingInv' /\ DeletionInv'
<1>1. BillingInv' /\ Onward
  BY BillingStays DEF RequestClosure, others
<1>2. /\ stage = "none" /\ stage' = "checking"
      /\ UNCHANGED <<billingVars, workspace, lease, identity, dat, dmy>>
  BY DEF RequestClosure, others
<1>3. /\ job' \in [plan : {0} \cup Attempts, billed : BOOLEAN] /\ ~job'.billed
      /\ job'.plan \in {0, record.sub}
  BY DEF RequestClosure, NoJob, BillingInv, BillingTypes, Subscriptions
<1>4. workspace = "present" /\ \A d \in Attempters : dat[d] = "idle" /\ ~dmy[d].billed
  BY <1>2 DEF DeletionInv, StagesFollow, DeletionTypes
<1>5. DeletionTypes' /\ StagesFollow'
  BY <1>2, <1>3, <1>4 DEF DeletionInv, DeletionTypes, StagesFollow, Stages, Confirmed, BillingDone
<1>6. \A d \in Attempters : ClosingFollows(d)'
  BY <1>1, <1>2, ClosingKept
<1>7. job'.plan # 0 => stripe'[job'.plan] # "none"
  BY <1>2, <1>3 DEF BillingInv, RecordFollows, billingVars, stripeVars
<1> QED BY <1>1, <1>2, <1>3, <1>4, <1>5, <1>6, <1>7 DEF DeletionInv, ClosingsFollow

\* An attempt goes to a place with what it knows, or has nothing to know.
LEMMA AdvanceTo ==
  ASSUME DeletionTypes, NEW d \in Attempters, NEW to \in Places,
         NEW l, to \notin {"idle", "release"} => l \in AdvanceLocals, Advance(d, to, l)
  PROVE  /\ dat' \in [Attempters -> Places] /\ dmy' \in [Attempters -> AdvanceLocals]
         /\ dat'[d] = to
         /\ dmy'[d] = IF to \in {"idle", "release"} THEN NoAdvance ELSE l
         /\ \A c \in Attempters \ {d} : dat'[c] = dat[c] /\ dmy'[c] = dmy[c]
<1>1. NoAdvance \in AdvanceLocals
  BY DEF NoAdvance, AdvanceLocals, NoAttempt, NamedRows, Stages
<1> QED BY <1>1 DEF Advance, DeletionTypes

\* An attempt moves on, and the job with it.
LEMMA JobMoves ==
  ASSUME BillingInv, DeletionInv, Onward, nextId' = nextId,
         NEW d \in Attempters, NEW to \in Places,
         NEW l, to \notin {"idle", "release"} => l \in AdvanceLocals, Advance(d, to, l),
         stage # "none",
         stage' \in Stages, workspace' \in {"present", "erased", "forgotten"},
         job' \in [plan : {0} \cup Attempts, billed : BOOLEAN],
         lease' \in [by : Attempters \cup {Nobody}, live : BOOLEAN],
         identity' \in {"kept", "removed"},
         workspace' = "present" => stage' \in {"checking", "confirmed"},
         workspace' = "erased" => stage' \in {"confirmed", "local_deleted"},
         stage' # "none", stage' = "checking" => stage = "checking" /\ to \notin Confirmed,
         job'.plan # 0 => stripe'[job'.plan] # "none",
         job'.billed \/ workspace' # "present" => AllOver',
         to \notin {"idle", "release"} => ClosingKnown(to, l)'
  PROVE  DeletionInv'
<1> USE DEF DeletionInv
<1>1. /\ dat' \in [Attempters -> Places] /\ dmy' \in [Attempters -> AdvanceLocals]
      /\ dat'[d] = to
      /\ dmy'[d] = IF to \in {"idle", "release"} THEN NoAdvance ELSE l
      /\ \A c \in Attempters \ {d} : dat'[c] = dat[c] /\ dmy'[c] = dmy[c]
  BY AdvanceTo
<1>2. DeletionTypes'
  BY <1>1 DEF DeletionTypes
<1>3. StagesFollow'
  <2>1. \A c \in Attempters : dat'[c] \in Confirmed => stage' # "checking"
    BY <1>1 DEF StagesFollow
  <2> QED BY <2>1 DEF StagesFollow
<1>4. \A c \in Attempters : ClosingFollows(c)'
  <2> TAKE c \in Attempters
  <2>1. CASE c # d
    BY <1>1, <2>1, ClosingKept
  <2>2. CASE c = d /\ to \notin {"idle", "release"}
    BY <1>1, <2>2 DEF ClosingFollows, ClosingKnown, Over, Untried, AllOver
  <2>3. CASE c = d /\ to \in {"idle", "release"}
    BY <1>1, <2>3 DEF ClosingFollows, ClosingKnown, NoAdvance, BillingDone
  <2> QED BY <2>1, <2>2, <2>3
<1> QED BY <1>2, <1>3, <1>4 DEF ClosingsFollow

\* An attempt moves on and nothing else does, but for the lease.
LEMMA AttemptMoves ==
  ASSUME BillingInv, DeletionInv, NEW d \in Attempters, NEW to \in Places,
         NEW l, to \notin {"idle", "release"} => l \in AdvanceLocals, Advance(d, to, l),
         stage # "none", UNCHANGED <<billingVars, jobVars, job, identity>>,
         lease' \in [by : Attempters \cup {Nobody}, live : BOOLEAN],
         to \in Confirmed => stage # "checking",
         to \notin {"idle", "release"} => ClosingKnown(to, l)
  PROVE  BillingInv' /\ DeletionInv'
<1>1. BillingInv' /\ Onward /\ nextId' = nextId
  BY BillingStays DEF billingVars, rowVars, jobVars
<1>2. to \notin {"idle", "release"} => ClosingKnown(to, l)'
  BY DEF ClosingKnown, Over, Untried, AllOver, billingVars, stripeVars, rowVars
<1>3. /\ workspace' = "present" => stage' \in {"checking", "confirmed"}
      /\ workspace' = "erased" => stage' \in {"confirmed", "local_deleted"}
      /\ stage' # "none" /\ (stage' = "checking" => stage = "checking" /\ to \notin Confirmed)
  BY DEF DeletionInv, StagesFollow, jobVars
<1>4. /\ job'.plan # 0 => stripe'[job'.plan] # "none"
      /\ job'.billed \/ workspace' # "present" => AllOver'
  BY DEF DeletionInv, ClosingsFollow, AllOver, Over, billingVars, stripeVars, rowVars, jobVars
<1>5. /\ stage' \in Stages /\ workspace' \in {"present", "erased", "forgotten"}
      /\ job' \in [plan : {0} \cup Attempts, billed : BOOLEAN]
      /\ identity' \in {"kept", "removed"}
  BY DEF DeletionInv, DeletionTypes, jobVars
<1> HIDE DEF DeletionInv
<1> QED BY <1>1, <1>2, <1>3, <1>4, <1>5, JobMoves

LEMMA KnownClosing ==
  ASSUME DeletionInv, NEW d \in Attempters
  PROVE  /\ dmy[d] \in AdvanceLocals /\ dat[d] \in Places
         /\ lease \in [by : Attempters \cup {Nobody}, live : BOOLEAN]
         /\ ClosingKnown(dat[d], dmy[d])
         /\ dat[d] # "idle" \/ dmy[d].billed => stage # "none"
         /\ dat[d] \in Confirmed => stage # "checking"
BY DEF DeletionInv, DeletionTypes, StagesFollow, ClosingsFollow, ClosingFollows

\* An attempt that stops has nothing to know.
LEMMA StopMoves ==
  ASSUME BillingInv, DeletionInv, NEW d \in Attempters, dat[d] # "idle",
         NEW to \in {"idle", "release"}, NEW l, Advance(d, to, l),
         UNCHANGED <<billingVars, jobVars, job, identity>>,
         lease' \in [by : Attempters \cup {Nobody}, live : BOOLEAN]
  PROVE  BillingInv' /\ DeletionInv'
<1>1. to \in Places /\ to \notin Confirmed /\ stage # "none"
  BY KnownClosing DEF Places, Confirmed, BillingDone
<1> QED BY <1>1, AttemptMoves

LEMMA AcquireJobStep ==
  ASSUME BillingInv, DeletionInv, NEW d \in Attempters, AcquireJob(d)
  PROVE  BillingInv' /\ DeletionInv'
<1>1. /\ stage # "none" /\ Advance(d, "read", dmy[d])
      /\ lease' = [by |-> d, live |-> TRUE]
      /\ UNCHANGED <<billingVars, jobVars, job, identity>>
  BY DEF AcquireJob, Continue, others
<1>2. /\ "read" \in Places /\ "read" \notin Confirmed
      /\ lease' \in [by : Attempters \cup {Nobody}, live : BOOLEAN]
  BY <1>1 DEF Places, Confirmed, BillingDone
<1>3. ClosingKnown("read", dmy[d]) /\ dmy[d] \in AdvanceLocals
  BY KnownClosing DEF ClosingKnown, BillingDone
<1> QED BY <1>1, <1>2, <1>3, AttemptMoves

LEMMA JobLeaseExpiresStep ==
  ASSUME BillingInv, DeletionInv, JobLeaseExpires PROVE BillingInv' /\ DeletionInv'
<1>1. UNCHANGED <<billingVars, jobVars, job, identity, dat, dmy>>
  BY DEF JobLeaseExpires, others
<1>2. BillingInv' /\ Onward /\ nextId' = nextId
  BY <1>1, BillingStays DEF billingVars, rowVars, jobVars
<1>3. DeletionTypes' /\ StagesFollow'
  BY <1>1 DEF JobLeaseExpires, DeletionInv, DeletionTypes, StagesFollow, jobVars
<1>4. \A d \in Attempters : ClosingFollows(d)'
  BY <1>1, <1>2, ClosingKept
<1>5. /\ job'.plan # 0 => stripe'[job'.plan] # "none"
      /\ job'.billed \/ workspace' # "present" => AllOver'
  BY <1>1 DEF DeletionInv, ClosingsFollow, AllOver, Over, billingVars, stripeVars, rowVars, jobVars
<1> QED BY <1>2, <1>3, <1>4, <1>5 DEF DeletionInv, ClosingsFollow

\* A renewal goes where it was going, or stops.
LEMMA RenewJobStep ==
  ASSUME BillingInv, DeletionInv, NEW d \in Attempters, RenewJob(d)
  PROVE  BillingInv' /\ DeletionInv'
<1> DEFINE to == Renewals[dat[d]]
<1>1. /\ dat[d] \in DOMAIN Renewals
      /\ Advance(d, to, dmy[d]) \/ Advance(d, "release", dmy[d])
      /\ UNCHANGED <<billingVars, jobVars, job, lease, identity>>
  BY DEF RenewJob, Continue, others
<1>2. /\ dat[d] # "idle"
      /\ to \in {"confirm", "billing", "milestone", "list", "delete", "erase", "identity",
                 "marketing", "complete"}
      /\ to \in Confirmed => dat[d] \in Confirmed
      /\ to \in BillingDone => dat[d] \in BillingDone
  BY <1>1 DEF Renewals, Confirmed, BillingDone
<1>3. to \in Places /\ to \notin {"idle", "release"}
  BY <1>2 DEF Places
<1>4. ClosingKnown(to, dmy[d])
  BY <1>2, KnownClosing DEF ClosingKnown
<1> HIDE DEF to
<1>5. CASE Advance(d, to, dmy[d])
  BY <1>1, <1>2, <1>3, <1>4, <1>5, KnownClosing, AttemptMoves
<1>6. CASE Advance(d, "release", dmy[d])
  BY <1>1, <1>2, <1>6, KnownClosing, StopMoves
<1> QED BY <1>1, <1>5, <1>6

LEMMA StopSteps ==
  ASSUME BillingInv, DeletionInv, NEW d \in Attempters,
         ThrowAdvance(d) \/ EvictAdvance(d) \/ ReleaseJob(d)
  PROVE  BillingInv' /\ DeletionInv'
<1>1. /\ dat[d] # "idle" /\ UNCHANGED <<billingVars, jobVars, job, identity>>
      /\ Advance(d, "idle", dmy[d]) \/ Advance(d, "release", dmy[d])
      /\ lease' \in {lease, [by |-> Nobody, live |-> FALSE]}
  BY DEF ThrowAdvance, EvictAdvance, ReleaseJob, Continue, others
<1>2. lease' \in [by : Attempters \cup {Nobody}, live : BOOLEAN]
  <2>1. lease \in [by : Attempters \cup {Nobody}, live : BOOLEAN]
    BY KnownClosing
  <2>2. [by |-> Nobody, live |-> FALSE] \in [by : Attempters \cup {Nobody}, live : BOOLEAN]
    OBVIOUS
  <2> QED BY <1>1, <2>1, <2>2
<1> QED BY <1>1, <1>2, StopMoves

\* An attempt that reads or checks something goes on, or stops.
LEMMA CheckMoves ==
  ASSUME BillingInv, DeletionInv, NEW d \in Attempters, dat[d] # "idle",
         NEW to \in Places, NEW l \in AdvanceLocals,
         Advance(d, to, l) \/ Advance(d, "release", l),
         UNCHANGED <<others, jobVars, job, lease, identity>>,
         to \in Confirmed => stage # "checking", ClosingKnown(to, l)
  PROVE  BillingInv' /\ DeletionInv'
<1>1. lease' \in [by : Attempters \cup {Nobody}, live : BOOLEAN] /\ stage # "none"
  BY KnownClosing
<1>2. UNCHANGED <<billingVars, jobVars, job, identity>>
  BY DEF others
<1>3. CASE Advance(d, to, l)
  BY <1>1, <1>2, <1>3, AttemptMoves
<1>4. CASE Advance(d, "release", l)
  BY <1>1, <1>2, <1>4, StopMoves
<1> QED BY <1>3, <1>4

LEMMA ReadJobStep ==
  ASSUME BillingInv, DeletionInv, NEW d \in Attempters, ReadJob(d)
  PROVE  BillingInv' /\ DeletionInv'
<1> DEFINE to == CASE stage = "checking" -> "renew1" [] stage = "confirmed" -> "review"
                   [] OTHER -> "dispose2"
           l == [NoAdvance EXCEPT !.stage = stage, !.plan = job.plan, !.billed = job.billed]
<1>1. dat[d] # "idle" /\ UNCHANGED <<others, jobVars, job, lease, identity>> /\ stage # "none"
  BY KnownClosing DEF ReadJob
<1>2. CASE ~Named
  BY <1>1, <1>2, KnownClosing, CheckMoves, StopMoves DEF ReadJob, Continue, others
<1>3. CASE Named
  <2>1. Advance(d, to, l)
    BY <1>3 DEF ReadJob
  <2>2. /\ l \in AdvanceLocals /\ l.plan = job.plan /\ l.billed = job.billed
        /\ to \in {"renew1", "review", "dispose2"}
    BY DEF NoAdvance, AdvanceLocals, NoAttempt, NamedRows, DeletionInv, DeletionTypes
  <2>3. to = "dispose2" => workspace # "present"
    BY <1>1 DEF DeletionInv, StagesFollow
  <2>4. to \in Places /\ (to \in Confirmed => stage # "checking")
    BY DEF Places, Confirmed, BillingDone
  <2> HIDE DEF to, l
  <2>5. ClosingKnown(to, l)
    BY <2>2, <2>3 DEF ClosingKnown, BillingDone, DeletionInv, ClosingsFollow
  <2> QED BY <1>1, <2>1, <2>2, <2>4, <2>5, CheckMoves
<1> QED BY <1>2, <1>3

LEMMA ConfirmJobStep ==
  ASSUME BillingInv, DeletionInv, NEW d \in Attempters, ConfirmJob(d)
  PROVE  BillingInv' /\ DeletionInv'
<1>0. PICK l : l = dmy[d]
  OBVIOUS
<1>1. /\ dat[d] = "confirm" /\ stage' = "confirmed" /\ job' = [job EXCEPT !.plan = dmy[d].plan]
      /\ Advance(d, "review", l)
      /\ UNCHANGED <<billingVars, workspace, lease, identity>>
  BY <1>0 DEF ConfirmJob, Continue, others, Advance
<1>2. /\ BillingInv' /\ Onward /\ nextId' = nextId
      /\ l \in AdvanceLocals /\ ClosingKnown(dat[d], l) /\ stage # "none"
      /\ lease' \in [by : Attempters \cup {Nobody}, live : BOOLEAN]
  BY <1>0, <1>1, KnownClosing, BillingStays DEF billingVars, rowVars
<1>3. /\ job' \in [plan : {0} \cup Attempts, billed : BOOLEAN]
      /\ job'.plan = l.plan /\ job'.billed = job.billed
  BY <1>0, <1>1, <1>2 DEF DeletionInv, DeletionTypes, AdvanceLocals
<1>4. ClosingKnown("review", l)'
  BY <1>1, <1>2
     DEF ClosingKnown, BillingDone, AllOver, Over, billingVars, stripeVars, rowVars
<1>5. job'.plan # 0 => stripe'[job'.plan] # "none"
  BY <1>1, <1>2, <1>3 DEF ClosingKnown, billingVars, stripeVars
<1>6. job'.billed \/ workspace' # "present" => AllOver'
  BY <1>1, <1>3
     DEF DeletionInv, ClosingsFollow, AllOver, Over, billingVars, stripeVars, rowVars
<1>7. /\ "review" \in Places /\ stage' \in Stages /\ workspace' \in {"present", "erased", "forgotten"}
      /\ identity' \in {"kept", "removed"}
  BY <1>1 DEF Places, Stages, DeletionInv, DeletionTypes
<1> QED BY <1>1, <1>2, <1>3, <1>4, <1>5, <1>6, <1>7, JobMoves

LEMMA ReviewJobStep ==
  ASSUME BillingInv, DeletionInv, NEW d \in Attempters, ReviewJob(d)
  PROVE  BillingInv' /\ DeletionInv'
<1> DEFINE to == IF dmy[d].billed THEN "dispose1" ELSE "renew2"
<1>1. /\ dat[d] = "review" /\ Advance(d, to, dmy[d])
      /\ UNCHANGED <<others, jobVars, job, lease, identity>>
  BY DEF ReviewJob, Continue
<1>2. to \in Places /\ stage # "checking" /\ dmy[d] \in AdvanceLocals
  BY <1>1, KnownClosing DEF Places, Confirmed
<1>3. ClosingKnown(to, dmy[d])
  BY KnownClosing DEF ClosingKnown, BillingDone
<1> HIDE DEF to
<1> QED BY <1>1, <1>2, <1>3, CheckMoves

LEMMA ReadBillingStep ==
  ASSUME BillingInv, DeletionInv, NEW d \in Attempters, ReadBilling(d)
  PROVE  BillingInv' /\ DeletionInv'
<1> DEFINE to == IF record.sub \notin {0, dmy[d].plan} THEN "save_plan" ELSE "close"
           plan == IF record.sub = 0 THEN dmy[d].plan ELSE record.sub
           l == [dmy[d] EXCEPT !.plan = plan]
<1>1. /\ dat[d] = "billing" /\ UNCHANGED <<others, jobVars, job, lease, identity>>
      /\ dmy[d] \in AdvanceLocals /\ stage # "checking" /\ ClosingKnown(dat[d], dmy[d])
  BY KnownClosing DEF ReadBilling, Confirmed
<1>2. Advance(d, to, l)
  BY <1>1 DEF ReadBilling, AdvanceLocals
<1>3. plan \in {0} \cup Attempts /\ (plan # 0 => stripe[plan] # "none")
  BY <1>1 DEF BillingInv, BillingTypes, Subscriptions, RecordFollows, AdvanceLocals, ClosingKnown
<1> HIDE DEF plan
<1>4. l \in AdvanceLocals /\ l.plan = plan /\ l.billed = dmy[d].billed
  BY <1>1, <1>3 DEF AdvanceLocals
<1>5. to \in Places
  BY DEF Places
<1>6. ClosingKnown(to, l)
  BY <1>1, <1>3, <1>4 DEF ClosingKnown, BillingDone
<1> HIDE DEF to, l
<1> QED BY <1>1, <1>2, <1>4, <1>5, <1>6, CheckMoves

\* The job row takes over what an attempt knows.
LEMMA RowMoves ==
  ASSUME BillingInv, DeletionInv, NEW d \in Attempters, NEW l, l = dmy[d],
         NEW to \in Places \ {"idle", "release"},
         dat[d] \in Confirmed, Advance(d, to, l), ClosingKnown(to, l),
         job' \in [plan : {0} \cup Attempts, billed : BOOLEAN],
         job'.plan \in {job.plan, l.plan}, job'.billed => job.billed \/ AllOver,
         UNCHANGED <<others, jobVars, lease, identity>>
  PROVE  BillingInv' /\ DeletionInv'
<1>1. /\ BillingInv' /\ Onward /\ nextId' = nextId
      /\ l \in AdvanceLocals /\ stage # "none" /\ stage # "checking"
      /\ lease' \in [by : Attempters \cup {Nobody}, live : BOOLEAN]
      /\ UNCHANGED <<billingVars, stripeVars, rowVars, jobVars>>
  BY KnownClosing, BillingStays DEF others, billingVars, rowVars, jobVars, Confirmed, BillingDone
<1>2. ClosingKnown(to, l)'
  BY <1>1 DEF ClosingKnown, AllOver, Over, Untried, stripeVars, rowVars
<1>3. job'.plan # 0 => stripe'[job'.plan] # "none"
  BY <1>1, KnownClosing DEF ClosingKnown, stripeVars, DeletionInv, ClosingsFollow
<1>4. job'.billed \/ workspace' # "present" => AllOver'
  BY <1>1 DEF DeletionInv, ClosingsFollow, AllOver, Over, stripeVars, rowVars, jobVars
<1>5. /\ stage' \in Stages /\ workspace' \in {"present", "erased", "forgotten"}
      /\ identity' \in {"kept", "removed"}
      /\ workspace' = "present" => stage' \in {"checking", "confirmed"}
      /\ workspace' = "erased" => stage' \in {"confirmed", "local_deleted"}
      /\ stage' # "none" /\ stage' # "checking"
  BY <1>1 DEF DeletionInv, DeletionTypes, StagesFollow, jobVars
<1> QED BY <1>1, <1>2, <1>3, <1>4, <1>5, JobMoves

LEMMA SavePlanStep ==
  ASSUME BillingInv, DeletionInv, NEW d \in Attempters, SavePlan(d)
  PROVE  BillingInv' /\ DeletionInv'
<1>0. PICK l : l = dmy[d]
  OBVIOUS
<1>1. /\ dat[d] = "save_plan" /\ Advance(d, "close", l)
      /\ UNCHANGED <<others, jobVars, lease, identity>>
      /\ job' \in {job, [job EXCEPT !.plan = l.plan]}
  BY <1>0 DEF SavePlan, Continue, Advance
<1>2. /\ job' \in [plan : {0} \cup Attempts, billed : BOOLEAN]
      /\ job'.plan \in {job.plan, l.plan} /\ job'.billed = job.billed
  BY <1>0, <1>1, KnownClosing DEF DeletionInv, DeletionTypes, AdvanceLocals
<1>3. ClosingKnown("close", l)
  BY <1>0, <1>1, KnownClosing DEF ClosingKnown, BillingDone
<1>4. "close" \in Places \ {"idle", "release"} /\ dat[d] \in Confirmed
  BY <1>1 DEF Places, Confirmed
<1> QED BY <1>0, <1>1, <1>2, <1>3, <1>4, RowMoves

LEMMA SaveMilestoneStep ==
  ASSUME BillingInv, DeletionInv, NEW d \in Attempters, SaveMilestone(d)
  PROVE  BillingInv' /\ DeletionInv'
<1>0. PICK l : l = dmy[d]
  OBVIOUS
<1>1. /\ dat[d] = "milestone" /\ Advance(d, "dispose1", l)
      /\ UNCHANGED <<others, jobVars, lease, identity>>
      /\ job' = [job EXCEPT !.billed = TRUE]
  BY <1>0 DEF SaveMilestone, Continue, Advance
<1>2. job' \in [plan : {0} \cup Attempts, billed : BOOLEAN] /\ job'.plan = job.plan
  BY <1>1 DEF DeletionInv, DeletionTypes
<1>3. ClosingKnown("dispose1", l) /\ AllOver
  BY <1>0, <1>1, KnownClosing DEF ClosingKnown, BillingDone
<1>4. "dispose1" \in Places \ {"idle", "release"} /\ dat[d] \in Confirmed
  BY <1>1 DEF Places, Confirmed, BillingDone
<1> QED BY <1>0, <1>1, <1>2, <1>3, <1>4, RowMoves

\* Only the attempt on record can still be open, so only that one is looked at.
LEMMA CloseCheckoutStep ==
  ASSUME BillingInv, DeletionInv, NEW d \in Attempters, CloseCheckout(d)
  PROVE  BillingInv' /\ DeletionInv'
<1>1. /\ dat[d] = "close" /\ UNCHANGED <<others, jobVars, job, lease, identity>>
      /\ dmy[d] \in AdvanceLocals /\ stage # "checking" /\ ClosingKnown(dat[d], dmy[d])
  BY KnownClosing DEF CloseCheckout, Confirmed
<1>2. \A a \in Attempts : a < nextId /\ a # attempt.id => Over(a)
  BY DEF BillingInv, SessionsFollow
<1>3. CASE attempt = NoAttempt
  <2>1. ClosingKnown("cancel", dmy[d])
    <3>1. \A a \in Attempts : a # 0
      BY BoundsAssumption DEF Attempts
    <3> QED BY <1>1, <1>2, <1>3, <3>1 DEF ClosingKnown, BillingDone, NoAttempt
  <2> QED BY <1>1, <1>3, <2>1, CheckMoves DEF CloseCheckout, Continue, Places
<1>4. CASE attempt # NoAttempt
  <2> DEFINE to == IF attempt.known THEN "inspect" ELSE "submit"
             l == [dmy[d] EXCEPT !.row = attempt]
  <2>1. Advance(d, to, l)
    BY <1>4 DEF CloseCheckout
  <2>2. /\ l \in AdvanceLocals /\ l.row = attempt /\ l.plan = dmy[d].plan
        /\ l.billed = dmy[d].billed /\ to \in Places
    BY <1>1, <1>4, KnownAttempt DEF AdvanceLocals, NamedRows, Places
  <2>3. ClosingKnown(to, l)
    BY <1>1, <1>2, <1>4, <2>2, KnownAttempt DEF ClosingKnown, BillingDone
  <2> HIDE DEF to, l
  <2> QED BY <1>1, <2>1, <2>2, <2>3, CheckMoves
<1> QED BY <1>3, <1>4

LEMMA InspectSessionStep ==
  ASSUME BillingInv, DeletionInv, NEW d \in Attempters, InspectSession(d)
  PROVE  BillingInv' /\ DeletionInv'
<1> DEFINE a == dmy[d].row.id
           l == dmy[d]
<1>1. /\ dat[d] = "inspect" /\ UNCHANGED <<others, jobVars, job, lease, identity>>
      /\ dmy[d] \in AdvanceLocals /\ stage # "checking" /\ ClosingKnown(dat[d], dmy[d])
  BY KnownClosing DEF InspectSession, Confirmed
<1>2. /\ a \in Attempts /\ a < nextId /\ session[a].state # "none"
      /\ \A b \in Attempts : b < nextId /\ b # a => Over(b)
  BY <1>1 DEF ClosingKnown
<1>3. session[a].state \in SessionStates
  BY <1>2 DEF BillingInv, BillingTypes
<1>4. \/ Payable(a) /\ Advance(d, "expire", dmy[d])
      \/ session[a].state \in {"complete", "expired"}
         /\ \/ Advance(d, "release", dmy[d])
            \/ (session[a].state = "expired" \/ dmy[d].plan = a) /\ Advance(d, "cancel", dmy[d])
  BY <1>2, <1>3 DEF InspectSession, Continue, Payable, SessionStates
<1>5. CASE Advance(d, "release", dmy[d])
  BY <1>1, <1>5, KnownClosing, StopMoves DEF others
<1>6. CASE Payable(a) /\ Advance(d, "expire", dmy[d])
  <2>1. ClosingKnown("expire", dmy[d])
    BY <1>1 DEF ClosingKnown, BillingDone
  <2> QED BY <1>1, <1>6, <2>1, CheckMoves DEF Places
<1>7. CASE /\ session[a].state \in {"complete", "expired"}
           /\ session[a].state = "expired" \/ dmy[d].plan = a
           /\ Advance(d, "cancel", dmy[d])
  <2>1. \A b \in Attempts : b < nextId =>
           Over(b) \/ (b = dmy[d].plan /\ session[b].state = "complete")
    BY <1>2, <1>7 DEF Over
  <2>2. ClosingKnown("cancel", dmy[d])
    BY <1>1, <2>1 DEF ClosingKnown, BillingDone
  <2> QED BY <1>1, <1>7, <2>2, CheckMoves DEF Places
<1> QED BY <1>4, <1>5, <1>6, <1>7

LEMMA AssertDisposedStep ==
  ASSUME BillingInv, DeletionInv, NEW d \in Attempters, AssertDisposed(d)
  PROVE  BillingInv' /\ DeletionInv'
<1> DEFINE l == [dmy[d] EXCEPT !.stage =
                   IF dat[d] = "dispose1" THEN "confirmed" ELSE "local_deleted"]
<1>1. /\ dat[d] \in {"dispose1", "dispose2"} /\ UNCHANGED <<others, jobVars, job, lease, identity>>
      /\ dmy[d] \in AdvanceLocals /\ ClosingKnown(dat[d], dmy[d])
  BY KnownClosing DEF AssertDisposed
<1>2. Advance(d, "release", dmy[d]) \/ Advance(d, "renew4", l)
  BY DEF AssertDisposed, Continue
<1>3. l \in AdvanceLocals /\ l.plan = dmy[d].plan /\ l.billed = dmy[d].billed
  BY <1>1 DEF AdvanceLocals, Stages
<1>4. ClosingKnown("renew4", l) /\ "renew4" \in Places /\ stage # "checking" /\ dat[d] # "idle"
  BY <1>1, <1>3, KnownClosing DEF ClosingKnown, BillingDone, Confirmed, Places
<1> HIDE DEF l
<1>5. CASE Advance(d, "release", dmy[d])
  BY <1>1, <1>4, <1>5, KnownClosing, StopMoves DEF others
<1>6. CASE Advance(d, "renew4", l)
  BY <1>1, <1>3, <1>4, <1>6, CheckMoves
<1> QED BY <1>2, <1>5, <1>6

LEMMA ListObjectsStep ==
  ASSUME BillingInv, DeletionInv, objects \subseteq Originals, NEW d \in Attempters, ListObjects(d)
  PROVE  BillingInv' /\ DeletionInv'
<1> DEFINE to == IF objects = {} THEN Done(d) ELSE "renew5"
           l == [dmy[d] EXCEPT !.keys = objects]
<1>1. /\ dat[d] = "list" /\ UNCHANGED <<others, jobVars, job, lease, identity>>
      /\ dmy[d] \in AdvanceLocals /\ stage # "checking" /\ ClosingKnown(dat[d], dmy[d])
  BY KnownClosing DEF ListObjects, Confirmed, BillingDone
<1>2. Advance(d, to, l)
  BY DEF ListObjects
<1>3. l \in AdvanceLocals /\ l.plan = dmy[d].plan /\ l.billed = dmy[d].billed
  BY <1>1 DEF AdvanceLocals
<1>4. to \in {"renew5", "renew6", "renew7"} /\ to \in Places
  BY DEF Done, Places
<1>5. ClosingKnown(to, l)
  BY <1>1, <1>3, <1>4 DEF ClosingKnown, BillingDone
<1> HIDE DEF to, l
<1> QED BY <1>1, <1>2, <1>3, <1>5, <1>4, CheckMoves

LEMMA OutsideSteps ==
  ASSUME BillingInv, DeletionInv, NEW d \in Attempters,
         DeleteObjects(d) \/ RemoveIdentity(d) \/ EraseMarketing(d)
  PROVE  BillingInv' /\ DeletionInv'
<1>1. /\ dat[d] \in {"delete", "identity", "marketing"}
      /\ UNCHANGED <<billingVars, jobVars, job, lease>> /\ identity' \in {identity, "removed"}
      /\ \E to \in {"renew4", "renew8", "renew9", "release"}, l \in {dmy[d], [dmy[d] EXCEPT !.keys = {}]} :
           Advance(d, to, l)
  BY DEF DeleteObjects, RemoveIdentity, EraseMarketing, Continue, others
<1>2. PICK to \in {"renew4", "renew8", "renew9", "release"},
           l \in {dmy[d], [dmy[d] EXCEPT !.keys = {}]} : Advance(d, to, l)
  BY <1>1
<1>3. /\ dmy[d] \in AdvanceLocals /\ stage # "none" /\ stage # "checking"
      /\ ClosingKnown(dat[d], dmy[d]) /\ lease' \in [by : Attempters \cup {Nobody}, live : BOOLEAN]
  BY <1>1, KnownClosing DEF Confirmed, BillingDone
<1>4. l \in AdvanceLocals /\ l.plan = dmy[d].plan /\ l.billed = dmy[d].billed
  BY <1>3 DEF AdvanceLocals
<1>5. AllOver
  BY <1>1, <1>3 DEF ClosingKnown, BillingDone
<1>6. to \in Places /\ BillingInv' /\ Onward /\ nextId' = nextId
  BY <1>1, BillingStays DEF Places, billingVars, rowVars, jobVars
<1>7. ClosingKnown(to, l)' /\ AllOver'
  BY <1>1, <1>3, <1>4, <1>5
     DEF ClosingKnown, AllOver, Over, Untried, billingVars, stripeVars, rowVars
<1>8. /\ job'.plan # 0 => stripe'[job'.plan] # "none"
      /\ workspace' = "present" => stage' \in {"checking", "confirmed"}
      /\ workspace' = "erased" => stage' \in {"confirmed", "local_deleted"}
      /\ stage' # "none" /\ stage' # "checking"
  BY <1>1, <1>3 DEF DeletionInv, ClosingsFollow, StagesFollow, jobVars, billingVars, stripeVars
<1>9. /\ stage' \in Stages /\ workspace' \in {"present", "erased", "forgotten"}
      /\ job' \in [plan : {0} \cup Attempts, billed : BOOLEAN]
      /\ identity' \in {"kept", "removed"}
  BY <1>1 DEF DeletionInv, DeletionTypes, jobVars
<1> QED BY <1>2, <1>3, <1>4, <1>6, <1>7, <1>8, <1>9, JobMoves

LEMMA CompleteJobStep ==
  ASSUME BillingInv, DeletionInv, NEW d \in Attempters, CompleteJob(d)
  PROVE  BillingInv' /\ DeletionInv'
<1>1. /\ dat[d] = "complete" /\ Advance(d, "release", dmy[d])
      /\ stage' = "completed" /\ workspace' = "forgotten" /\ job' = NoJob
      /\ UNCHANGED <<billingVars, lease, identity>>
  BY DEF CompleteJob, Continue, others
<1>2. BillingInv' /\ Onward /\ nextId' = nextId
  BY <1>1, BillingStays DEF billingVars, rowVars
<1>3. AllOver /\ stage # "none" /\ lease' \in [by : Attempters \cup {Nobody}, live : BOOLEAN]
  BY <1>1, KnownClosing DEF ClosingKnown, BillingDone
<1>4. AllOver'
  BY <1>2, <1>3, AllOverStays
<1>5. /\ "release" \in Places /\ stage' \in Stages /\ workspace' \in {"present", "erased", "forgotten"}
      /\ job' \in [plan : {0} \cup Attempts, billed : BOOLEAN] /\ job'.plan = 0
      /\ identity' \in {"kept", "removed"}
  BY <1>1 DEF Places, Stages, NoJob, DeletionInv, DeletionTypes
<1> QED BY <1>1, <1>2, <1>3, <1>4, <1>5, JobMoves

\* With the workspace its attempt row and its subscription row go; every
\* attempt is over by then.
LEMMA EraseLocalStep ==
  ASSUME BillingInv, DeletionInv, NEW d \in Attempters, EraseLocal(d)
  PROVE  BillingInv' /\ DeletionInv'
<1> USE DEF BillingInv
<1>0. PICK l : l = dmy[d]
  OBVIOUS
<1>1. /\ dat[d] = "erase" /\ Advance(d, "dispose2", l)
      /\ workspace' = IF workspace = "present" THEN "erased" ELSE workspace
      /\ stage' = "local_deleted" /\ record' = NoSubscription /\ attempt' = NoAttempt
      /\ UNCHANGED <<stripeVars, receipt, nextId, requestVars, hookVars, job, lease, identity>>
  BY <1>0 DEF EraseLocal, Continue, Advance
<1>2. /\ AllOver /\ stage # "none" /\ l \in AdvanceLocals /\ ClosingKnown(dat[d], l)
      /\ lease' \in [by : Attempters \cup {Nobody}, live : BOOLEAN]
  BY <1>0, <1>1, KnownClosing DEF ClosingKnown, BillingDone
<1>3. Onward
  BY <1>1, BoundsAssumption DEF Onward, stripeVars, BillingTypes
<1>4. AllOver'
  BY <1>1, <1>2, <1>3, AllOverStays
<1>5. NoSubscription \in Subscriptions /\ NoSubscription.sub = 0 /\ NoAttempt.id = 0
  BY DEF NoSubscription, Subscriptions, Statuses, NoAttempt
<1>6. BillingTypes'
  BY <1>1, <1>5 DEF BillingTypes, stripeVars, requestVars, hookVars
<1>7. SessionsFollow'
  BY <1>1, <1>4, <1>5 DEF SessionsFollow, AllOver, stripeVars
<1>8. Customer'
  BY <1>1 DEF Customer
<1>9. \A q \in Requests : RequestFollows(q)' /\ RequestTries(q)'
  <2>1. nextId' \in Nat
    BY <1>1, BoundsAssumption DEF BillingTypes
  <2> QED BY <1>1, <1>3, <1>8, <2>1, RequestKept, RequestTriesOn
          DEF requestVars, RequestsFollow, TrialsFollow
<1>10. TrialsFollow'
  BY <1>1, <1>5, <1>8, <1>9 DEF TrialsFollow, Untried, stripeVars
<1>11. RecordFollows' /\ DeliveriesFollow' /\ EventsFollow' /\ PaidFollows'
  BY <1>1, <1>5 DEF RecordFollows, DeliveriesFollow, DeliveryFollows, EventsFollow, PaidFollows,
                    stripeVars, hookVars
<1>12. LastEventCounts' /\ EventsSettle'
  BY <1>1 DEF LastEventCounts, EventsSettle, stripeVars
<1>13. BillingInv'
  BY <1>6, <1>7, <1>9, <1>10, <1>11, <1>12 DEF RequestsFollow
<1>14. ClosingKnown("dispose2", l)'
  BY <1>1, <1>2, <1>4 DEF ClosingKnown, BillingDone, stripeVars
<1>15. job'.plan # 0 => stripe'[job'.plan] # "none"
  BY <1>1 DEF DeletionInv, ClosingsFollow, stripeVars
<1>16. /\ "dispose2" \in Places /\ stage' \in Stages
       /\ workspace' \in {"erased", "forgotten"}
       /\ job' \in [plan : {0} \cup Attempts, billed : BOOLEAN]
       /\ identity' \in {"kept", "removed"}
  BY <1>1 DEF Places, Stages, DeletionInv, DeletionTypes
<1> QED BY <1>1, <1>2, <1>3, <1>4, <1>13, <1>14, <1>15, <1>16, JobMoves

\* The attempt acts on Stripe; the job row stays as it is.
LEMMA ClosingMoves ==
  ASSUME BillingInv, DeletionInv, NEW d \in Attempters, NEW l, l = dmy[d], NEW to \in Places,
         Advance(d, to, l), dat[d] \in Confirmed,
         Onward, nextId' = nextId, UNCHANGED <<jobVars, job, lease, identity>>,
         to \notin {"idle", "release"} => ClosingKnown(to, l)'
  PROVE  DeletionInv'
<1>1. /\ l \in AdvanceLocals /\ stage # "none" /\ stage # "checking"
      /\ lease' \in [by : Attempters \cup {Nobody}, live : BOOLEAN]
  BY KnownClosing DEF Confirmed, BillingDone
<1>2. job'.plan # 0 => stripe'[job'.plan] # "none"
  BY DEF Onward, DeletionInv, DeletionTypes, ClosingsFollow
<1>3. job'.billed \/ workspace' # "present" => AllOver'
  BY AllOverStays DEF DeletionInv, ClosingsFollow, jobVars
<1>4. /\ stage' \in Stages /\ workspace' \in {"present", "erased", "forgotten"}
      /\ job' \in [plan : {0} \cup Attempts, billed : BOOLEAN]
      /\ identity' \in {"kept", "removed"}
      /\ workspace' = "present" => stage' \in {"checking", "confirmed"}
      /\ workspace' = "erased" => stage' \in {"confirmed", "local_deleted"}
      /\ stage' # "none" /\ stage' # "checking"
  BY <1>1 DEF DeletionInv, DeletionTypes, StagesFollow, jobVars
<1> QED BY <1>1, <1>2, <1>3, <1>4, JobMoves

LEMMA SubmitForClosingStep ==
  ASSUME BillingInv, DeletionInv, NEW d \in Attempters, SubmitForClosing(d)
  PROVE  BillingInv' /\ DeletionInv'
<1>0. PICK l : l = dmy[d]
  OBVIOUS
<1> DEFINE row == l.row
<1>1. /\ dat[d] = "submit" /\ Submitted(row) /\ Advance(d, "save", l)
      /\ UNCHANGED <<stripe, paid, events, receipt, rowVars, requestVars, hookVars,
                     jobVars, job, lease, identity>>
  BY <1>0 DEF SubmitForClosing, Continue, Advance
<1>2. ClosingKnown(dat[d], l)
  BY <1>0, KnownClosing
<1>3. /\ row \in FullRows /\ row.id < nextId /\ row.id \in Attempts
      /\ row.trial => Untried(row.id)
  BY <1>1, <1>2 DEF ClosingKnown
<1> HIDE DEF row
<1>4. /\ step' \in [Requests -> CheckoutSteps] /\ my' \in [Requests -> CheckoutLocals]
      /\ \A q \in Requests : step'[q] = step[q] /\ my'[q] = my[q]
  BY <1>1 DEF requestVars, BillingInv, BillingTypes
<1>5. BillingInv' /\ Onward
  BY <1>1, <1>3, <1>4, SubmittedStep
<1>6. session'[row.id].state # "none"
  BY <1>1, <1>3 DEF Submitted, BillingInv, BillingTypes
<1>7. ClosingKnown("save", l)'
  <2>1. \A a \in Attempts : a < nextId /\ a # row.id => Over(a)'
    BY <1>1, <1>2, <1>5, OverStays DEF ClosingKnown, row
  <2>2. l.billed => AllOver'
    BY <1>1, <1>2, <1>5, AllOverStays DEF ClosingKnown, rowVars
  <2> QED BY <1>1, <1>2, <1>3, <1>6, <2>1, <2>2 DEF ClosingKnown, BillingDone, row, rowVars
<1> QED BY <1>0, <1>1, <1>5, <1>7, ClosingMoves DEF Places, Confirmed, rowVars

LEMMA SaveForClosingStep ==
  ASSUME BillingInv, DeletionInv, NEW d \in Attempters, SaveForClosing(d)
  PROVE  BillingInv' /\ DeletionInv'
<1>0. PICK l : l = dmy[d]
  OBVIOUS
<1>1. /\ dat[d] = "save"
      /\ UNCHANGED <<stripeVars, receipt, nextId, record, requestVars, hookVars,
                     jobVars, job, lease, identity>>
  BY DEF SaveForClosing
<1>2. ClosingKnown(dat[d], l)
  BY <1>0, KnownClosing
<1>3. CASE attempt.id = l.row.id
  <2>1. attempt' = [attempt EXCEPT !.known = TRUE] /\ Advance(d, "inspect", l)
    BY <1>0, <1>3 DEF SaveForClosing, Continue, Advance
  <2>2. attempt # NoAttempt /\ session[attempt.id].state # "none"
    BY <1>1, <1>2, <1>3, KnownAttempt, BoundsAssumption DEF ClosingKnown, Attempts
  <2>3. /\ step' \in [Requests -> CheckoutSteps] /\ my' \in [Requests -> CheckoutLocals]
        /\ \A q \in Requests : step'[q] = step[q] /\ my'[q] = my[q]
    BY <1>1 DEF requestVars, BillingInv, BillingTypes
  <2>4. BillingInv' /\ Onward
    BY <1>1, <2>1, <2>2, <2>3, AttemptNamed
  <2>5. ClosingKnown("inspect", l)'
    BY <1>1, <1>2 DEF ClosingKnown, BillingDone, AllOver, Over, stripeVars
  <2> QED BY <1>0, <1>1, <2>1, <2>4, <2>5, ClosingMoves DEF Places, Confirmed
<1>4. CASE attempt.id # l.row.id
  <2>1. attempt' = attempt /\ Advance(d, "release", l)
    BY <1>0, <1>4 DEF SaveForClosing, Continue, Advance
  <2> QED BY <1>1, <2>1, KnownClosing, StopMoves DEF billingVars, rowVars
<1> QED BY <1>3, <1>4

LEMMA ExpireForClosingStep ==
  ASSUME BillingInv, DeletionInv, NEW d \in Attempters, ExpireForClosing(d)
  PROVE  BillingInv' /\ DeletionInv'
<1>0. PICK l : l = dmy[d]
  OBVIOUS
<1> DEFINE a == l.row.id
<1>1. /\ dat[d] = "expire"
      /\ UNCHANGED <<stripe, paid, events, receipt, rowVars, requestVars, hookVars,
                     jobVars, job, lease, identity>>
  BY DEF ExpireForClosing
<1>2. ClosingKnown(dat[d], l)
  BY <1>0, KnownClosing
<1>3. /\ a \in Attempts /\ a < nextId
      /\ \A b \in Attempts : b < nextId /\ b # a => Over(b)
  BY <1>1, <1>2 DEF ClosingKnown
<1>4. CASE Payable(a)
  <2>1. /\ session' = [session EXCEPT ![a] = [state |-> "expired", trial |-> session[a].trial]]
        /\ Advance(d, "cancel", l)
    BY <1>0, <1>3, <1>4, SessionEdit DEF ExpireForClosing, Continue, Advance, BillingInv
  <2>2. /\ "expired" \in SessionStates /\ session[a].trial \in BOOLEAN
        /\ session[a].state \in {"open", "offered"} /\ (session[a].trial => Untried(a))
    BY <1>3, <1>4 DEF SessionStates, BillingInv, BillingTypes, TrialsFollow, Payable
  <2>3. /\ step' \in [Requests -> CheckoutSteps] /\ my' \in [Requests -> CheckoutLocals]
        /\ \A q \in Requests : step'[q] = step[q] /\ my'[q] = my[q]
    BY <1>1 DEF requestVars, BillingInv, BillingTypes
  <2>4. session'[a].state = "expired"
    BY <1>3, <2>1 DEF BillingInv, BillingTypes
  <2> HIDE DEF a
  <2>5. BillingInv' /\ Onward
    BY <1>1, <1>3, <2>1, <2>2, <2>3, SessionMoves
  <2>6. \A b \in Attempts : b < nextId => Over(b)'
    BY <1>3, <2>4, <2>5, OverStays DEF Over
  <2>7. ClosingKnown("cancel", l)'
    BY <1>1, <1>2, <2>6 DEF ClosingKnown, BillingDone, AllOver, rowVars
  <2> QED BY <1>0, <1>1, <2>1, <2>5, <2>7, ClosingMoves DEF Places, Confirmed, rowVars
<1>5. CASE ~Payable(a)
  <2>1. session' = session /\ Advance(d, "release", l)
    BY <1>0, <1>5 DEF ExpireForClosing, Continue, Advance
  <2> QED BY <1>1, <2>1, KnownClosing, StopMoves DEF billingVars, stripeVars
<1> QED BY <1>4, <1>5

LEMMA CancelSubscriptionStep ==
  ASSUME BillingInv, DeletionInv, NEW d \in Attempters, CancelSubscription(d)
  PROVE  BillingInv' /\ DeletionInv'
<1>0. PICK l : l = dmy[d]
  OBVIOUS
<1> DEFINE sub == l.plan
<1>1. /\ dat[d] = "cancel" /\ Advance(d, "renew3", l)
      /\ UNCHANGED <<session, paid, receipt, rowVars, requestVars, hookVars,
                     jobVars, job, lease, identity>>
  BY <1>0 DEF CancelSubscription, Continue, Advance
<1>2. /\ ClosingKnown(dat[d], l) /\ l \in AdvanceLocals /\ stage # "none"
      /\ \A a \in Attempts : a < nextId =>
            Over(a) \/ (a = sub /\ session[a].state = "complete")
  BY <1>0, <1>1, KnownClosing DEF ClosingKnown
<1>3. CASE sub # 0 /\ stripe[sub] # "canceled"
  <2>1. /\ stripe' = [stripe EXCEPT ![sub] = "canceled"]
        /\ Issue(sub) \/ events' = events
    BY <1>0, <1>3 DEF CancelSubscription
  <2>2. sub \in Attempts /\ stripe[sub] # "none" /\ "canceled" \in Statuses \ {"none"}
    BY <1>2, <1>3 DEF ClosingKnown, AdvanceLocals, Statuses
  <2> HIDE DEF sub
  <2>3. /\ session[sub].state \in {"offered", "complete"} /\ stage' = stage
        /\ session' = [session EXCEPT ![sub] = [state |-> "complete", trial |-> session[sub].trial]]
    BY <1>1, <2>2, SessionOfSubscription DEF jobVars
  <2>4. BillingInv' /\ Onward
    BY <1>1, <1>2, <1>3, <2>1, <2>2, <2>3, StripeMoves
  <2>5. stripe'[sub] = "canceled"
    BY <2>1, <2>2 DEF BillingInv, BillingTypes
  <2>6. AllOver'
    BY <1>1, <1>2, <2>4, <2>5, OverStays DEF AllOver, Over, rowVars
  <2>7. ClosingKnown("renew3", l)'
    BY <1>2, <2>4, <2>6 DEF ClosingKnown, BillingDone, Onward, AdvanceLocals
  <2> QED BY <1>0, <1>1, <2>4, <2>7, ClosingMoves DEF Places, Confirmed, rowVars
<1>4. CASE sub = 0 \/ stripe[sub] = "canceled"
  <2>1. UNCHANGED <<stripe, events>>
    BY <1>0, <1>4 DEF CancelSubscription
  <2>2. UNCHANGED <<billingVars, jobVars, job, identity>> /\ lease' = lease
    BY <1>1, <2>1 DEF billingVars, stripeVars
  <2>3. AllOver
    BY <1>2, <1>4, BoundsAssumption DEF AllOver, Over, Attempts
  <2>4. ClosingKnown("renew3", l) /\ "renew3" \in Places /\ stage # "checking"
    BY <1>1, <1>2, <2>3, KnownClosing DEF ClosingKnown, BillingDone, Confirmed, Places
  <2> QED BY <1>1, <1>2, <2>2, <2>4, KnownClosing, AttemptMoves
<1> QED BY <1>3, <1>4

LEMMA DeletionKeeps ==
  ASSUME BillingInv, DeletionInv, objects \subseteq Originals, DeletionNext
  PROVE  BillingInv' /\ DeletionInv'
<1> SUFFICES ASSUME NEW d \in Attempters, AttemptStep(d) PROVE BillingInv' /\ DeletionInv'
  BY RequestClosureStep, JobLeaseExpiresStep DEF DeletionNext
<1> QED BY AcquireJobStep, RenewJobStep, StopSteps, ReadJobStep, ConfirmJobStep, ReviewJobStep,
           ReadBillingStep, SavePlanStep, CloseCheckoutStep, SubmitForClosingStep,
           SaveForClosingStep, InspectSessionStep, ExpireForClosingStep,
           CancelSubscriptionStep, SaveMilestoneStep, AssertDisposedStep, ListObjectsStep,
           EraseLocalStep, OutsideSteps, CompleteJobStep
        DEF AttemptStep

-----------------------------------------------------------------------------
(* Intake: the types of its state.                                         *)

IntentRows ==
    [id : {0} \cup Originals, state : {"none", "writing", "cleanup"},
     by : Cleaners \cup {Nobody}, live : BOOLEAN]

DocumentRows ==
    [id : {0} \cup Originals, state : {"none", "kept", "deletion_pending", "removed"}]

Uploads ==
    [content : Contents \cup {Nobody}, id : {0} \cup Originals, index : Nat,
     current : BOOLEAN, found : {0} \cup Originals,
     state : {"none", "kept", "deletion_pending", "removed"}]

\* Where a writer has a content, holds a key, and may still store under it.
Storing == {"find", "pending", "reserve", "put", "commit", "mark", "recheck", "duplicate"}
Holding == {"put", "commit", "mark"}
Writing == {"put", "commit"}
Invoicing == {"put_invoice", "commit_invoice", "remove_invoice"}

WriterPlaces ==
    Storing \cup Invoicing \cup {"idle", "claim", "attachment", "finish", "release"}
CleanerPlaces == {"idle", "check", "delete", "drop", "unclaim"}

IntakeTypes ==
    /\ objects \subseteq Originals /\ invoices \subseteq Originals
    /\ nextKey \in 1 .. MaxOriginals + 1
    /\ intents \in [Contents -> IntentRows] /\ doc \in [Contents -> DocumentRows]
    /\ received \subseteq Attachments /\ origin \in [Originals -> {0} \cup Attachments]
    /\ granted \in BOOLEAN
    /\ delivery \in [status : {"none", "processing", "complete"}, by : Writers \cup {Nobody},
                     live : BOOLEAN]
    /\ at \in [Writers -> WriterPlaces] /\ up \in [Writers -> Uploads]
    /\ cat \in [Cleaners -> CleanerPlaces]
    /\ cup \in [Cleaners -> [content : Contents \cup {Nobody}, id : {0} \cup Originals]]

-----------------------------------------------------------------------------
(* Intake: to whom a key belongs.                                          *)

\* A key is given out once: to one intent, then to one document, or to an invoice.
KeysFollow ==
    /\ \A o \in invoices : o < nextKey
    /\ \A c \in Contents :
         /\ intents[c].id < nextKey /\ intents[c].id \notin invoices
         /\ doc[c].id < nextKey /\ doc[c].id \notin invoices
         /\ intents[c].id = 0 => intents[c] = NoIntent
         /\ doc[c].id = 0 => doc[c] = NoDocument
         /\ \A d \in Contents :
              /\ intents[c].id # 0 => intents[c].id # doc[d].id
              /\ c # d /\ intents[c].id # 0 => intents[c].id # intents[d].id
              /\ c # d /\ doc[c].id # 0 => doc[c].id # doc[d].id

\* Before the workspace is being erased.
Alive == ~Erasing /\ WorkspaceExists

\* Who may still store or commit under a key has its intent, and for mail the
\* attachments before its own were received.
WriterKnown(place, known) ==
    /\ place \in Storing => known.content \in Contents /\ known.index \in {0} \cup Attachments
    /\ place \in Holding =>
         known.id \in Originals /\ known.id < nextKey /\ known.id \notin invoices
    /\ place \in Writing =>
         intents[known.content].id = known.id /\ intents[known.content].state = "writing"
    /\ place \in Invoicing => known.id \in invoices
    /\ place = "commit" /\ Alive => known.id \in objects
    /\ place \in {"claim", "attachment", "finish"} => known.index # 0
    /\ place = "finish" => known.index \notin Attachments
    /\ WorkspaceExists => \A j \in Attachments : j < known.index => j \in received

WritersFollow ==
    /\ \A w \in Writers : WriterKnown(at[w], up[w])
    /\ \A v, w \in Writers : v # w /\ at[v] \in Holding /\ at[w] \in Holding => up[v].id # up[w].id

\* Who may still delete under a key knows that its write has returned.
CleanerKnown(place, known) ==
    /\ place # "idle" =>
         /\ known.content \in Contents /\ known.id \in Originals
         /\ known.id < nextKey /\ known.id \notin invoices
         /\ \A c \in Contents :
              /\ intents[c].id = known.id => intents[c].state = "cleanup"
              /\ doc[c].id # known.id
    /\ place = "drop" => known.id \notin objects

CleanersFollow == \A k \in Cleaners : CleanerKnown(cat[k], cup[k])

StoreFollows ==
    /\ EveryOriginalIsNamed /\ KeptMeansStored
    /\ \A c \in Contents : doc[c].state = "removed" => doc[c].id \notin objects

MailFollows ==
    /\ StoredOnce /\ CompleteMeansReceived
    /\ WorkspaceExists => \A o \in Originals : origin[o] # 0 => origin[o] \in received

IntakeInv ==
    /\ IntakeTypes /\ KeysFollow /\ WritersFollow /\ CleanersFollow
    /\ StoreFollows /\ MailFollows

-----------------------------------------------------------------------------
(* Deletion: what it has made sure of about originals and the sign-in.     *)

Cleared == \A c \in Contents : intents[c] = NoIntent

\* Behind the list that came back empty, and behind the removal of the sign-in.
Emptied ==
    {"renew7", "identity", "renew8", "marketing", "renew9", "complete"}
SignedOff == {"renew8", "marketing", "renew9", "complete"}

\* Once the rows are erased nothing is reserved any more: what was found
\* disposed of stays so.
DisposalKnown(place, known) ==
    /\ workspace = "erased" =>
         /\ place \in {"renew4", "list", "renew5", "delete"} /\ known.stage = "local_deleted" => Cleared
         /\ place \in Emptied => Cleared /\ objects \subseteq invoices
    /\ place \in {"dispose2", "identity"} \cup Emptied => workspace # "present"
    /\ place \in {"renew4", "list", "renew5", "delete"} /\ known.stage = "local_deleted" =>
         workspace # "present"
    /\ place \in SignedOff => identity = "removed"

DisposalFollows == \A d \in Attempters : DisposalKnown(dat[d], dmy[d])

-----------------------------------------------------------------------------
(* Intake: what stays.                                                     *)

\* Keys are given out in order, and the workspace is not revived.
KeysGoOn ==
    /\ nextKey <= nextKey' /\ invoices \subseteq invoices'
    /\ \A o \in invoices' : o \in invoices \/ o >= nextKey
    /\ WorkspaceExists' => WorkspaceExists /\ received \subseteq received'
    /\ Alive' => Alive

LEMMA KeyNumbers ==
  ASSUME IntakeTypes
  PROVE  /\ nextKey \in Nat \ {0} /\ \A o \in Originals : o \in Nat \ {0}
         /\ \A c \in Contents : intents[c] \in IntentRows /\ doc[c] \in DocumentRows
         /\ \A c \in Contents : intents[c].id \in Nat /\ doc[c].id \in Nat
         /\ \A w \in Writers : at[w] \in WriterPlaces /\ up[w] \in Uploads /\ up[w].id \in Nat
         /\ \A k \in Cleaners : cup[k].id \in Nat
<1>1. nextKey \in Nat \ {0} /\ \A o \in Originals : o \in Nat \ {0}
  BY MailAssumption DEF IntakeTypes, Originals
<1>2. \A c \in Contents : intents[c] \in IntentRows /\ doc[c] \in DocumentRows
  BY DEF IntakeTypes
<1>3. \A w \in Writers : at[w] \in WriterPlaces /\ up[w] \in Uploads
  BY DEF IntakeTypes
<1>4. \A k \in Cleaners : cup[k] \in [content : Contents \cup {Nobody}, id : {0} \cup Originals]
  BY DEF IntakeTypes
<1> QED BY <1>1, <1>2, <1>3, <1>4 DEF IntentRows, DocumentRows, Uploads

\* A writer that stands still, however long, keeps what it knows, if it is not
\* robbed of its intent or of its object.
LEMMA WriterKept ==
  ASSUME IntakeInv, KeysGoOn, NEW w \in Writers,
         at'[w] = at[w], up'[w].content = up[w].content, up'[w].id = up[w].id,
         up'[w].index = up[w].index,
         at[w] \in Writing =>
             intents'[up[w].content].id = up[w].id /\ intents'[up[w].content].state = "writing",
         at[w] = "commit" /\ Alive' => up[w].id \in objects \cap objects' \/ up[w].id \notin objects,
         nextKey' \in Nat
  PROVE  WriterKnown(at[w], up[w])'
<1>1. WriterKnown(at[w], up[w])
  BY DEF IntakeInv, WritersFollow
<1>2. at[w] \in Holding => up[w].id < nextKey' /\ up[w].id \notin invoices'
  BY <1>1, KeyNumbers DEF WriterKnown, IntakeInv, KeysGoOn
<1>3. at[w] \in Invoicing => up[w].id \in invoices'
  BY <1>1 DEF WriterKnown, KeysGoOn
<1>4. at[w] = "commit" /\ Alive' => up[w].id \in objects'
  BY <1>1 DEF WriterKnown, KeysGoOn
<1>5. WorkspaceExists' => \A j \in Attachments : j < up[w].index => j \in received'
  BY <1>1 DEF WriterKnown, KeysGoOn
<1> QED BY <1>1, <1>2, <1>3, <1>4, <1>5 DEF WriterKnown

LEMMA CleanersKept ==
  ASSUME IntakeInv, KeysGoOn, nextKey' \in Nat,
         \A k \in Cleaners :
             \/ /\ cat'[k] = cat[k] /\ cup'[k] = cup[k]
                /\ cat[k] = "drop" => cup[k].id \notin objects'
             \/ CleanerKnown(cat[k], cup[k])',
         \A c \in Contents :
             \/ /\ intents'[c].id = intents[c].id
                /\ intents[c].state = "cleanup" => intents'[c].state = "cleanup"
             \/ intents'[c].id = 0 \/ intents'[c].id >= nextKey,
         \A c \in Contents :
             \/ doc'[c].id = doc[c].id \/ doc'[c].id = 0
             \/ \E d \in Contents : intents[d].id = doc'[c].id /\ intents[d].state = "writing"
  PROVE  CleanersFollow'
<1> SUFFICES ASSUME NEW k \in Cleaners, cat'[k] = cat[k], cup'[k] = cup[k],
                    cat[k] = "drop" => cup[k].id \notin objects'
             PROVE  CleanerKnown(cat[k], cup[k])'
  BY DEF CleanersFollow
<1>1. CleanerKnown(cat[k], cup[k]) /\ cup[k].id \in Nat /\ nextKey \in Nat
  BY KeyNumbers DEF IntakeInv, CleanersFollow
<1>2. CASE cat[k] = "idle"
  BY <1>2 DEF CleanerKnown
<1>3. CASE cat[k] # "idle"
  <2>1. /\ cup[k].content \in Contents /\ cup[k].id \in Originals /\ cup[k].id # 0
        /\ cup[k].id < nextKey /\ cup[k].id \notin invoices
        /\ \A c \in Contents : /\ intents[c].id = cup[k].id => intents[c].state = "cleanup"
                               /\ doc[c].id # cup[k].id
    BY <1>1, <1>3, KeyNumbers DEF CleanerKnown, IntakeInv
  <2>2. cup[k].id < nextKey' /\ cup[k].id \notin invoices'
    BY <1>1, <2>1 DEF KeysGoOn
  <2>3. \A c \in Contents : intents'[c].id = cup[k].id => intents'[c].state = "cleanup"
    BY <1>1, <2>1
  <2>4. \A c \in Contents : doc'[c].id # cup[k].id
    BY <2>1
  <2> QED BY <2>1, <2>2, <2>3, <2>4 DEF CleanerKnown
<1> QED BY <1>2, <1>3

\* Writers hold different keys.
LEMMA ApartStays ==
  ASSUME IntakeInv,
         \A v \in Writers : at'[v] \in Holding => at[v] \in Holding /\ up'[v].id = up[v].id
  PROVE  \A v, w \in Writers : v # w /\ at'[v] \in Holding /\ at'[w] \in Holding
                                  => up'[v].id # up'[w].id
BY DEF IntakeInv, WritersFollow

-----------------------------------------------------------------------------
(* Intake: steps of a writer that store nothing.                           *)

LEMMA NoUploadKnown ==
  /\ NoUpload \in Uploads /\ NoUpload.index = 0 /\ NoUpload.content = Nobody
  /\ \A i \in Nat : [NoUpload EXCEPT !.index = i] \in Uploads
BY DEF NoUpload, Uploads

\* Writers move on; at most a receipt is added and the delivery's row changes.
LEMMA WritersMove ==
  ASSUME IntakeInv, UNCHANGED <<storeVars, cat, cup, jobVars>>,
         received \subseteq received', received' \subseteq Attachments, granted' \in BOOLEAN,
         delivery' \in [status : {"none", "processing", "complete"},
                        by : Writers \cup {Nobody}, live : BOOLEAN],
         CompleteMeansReceived',
         at' \in [Writers -> WriterPlaces], up' \in [Writers -> Uploads],
         \A v \in Writers :
             \/ /\ at'[v] = at[v] /\ up'[v].content = up[v].content
                /\ up'[v].id = up[v].id /\ up'[v].index = up[v].index
             \/ /\ WriterKnown(at[v], up[v])'
                /\ at'[v] \in Holding => at[v] \in Holding /\ up'[v].id = up[v].id
  PROVE  IntakeInv'
<1> USE DEF IntakeInv
<1>1. IntakeTypes' /\ nextKey' \in Nat
  BY KeyNumbers DEF IntakeTypes, storeVars
<1>2. KeysGoOn
  BY KeyNumbers DEF KeysGoOn, storeVars, jobVars, Alive, Erasing, Named, WorkspaceExists
<1>3. KeysFollow'
  BY DEF KeysFollow, storeVars
<1>4. WritersFollow'
  <2>1. \A v \in Writers : WriterKnown(at[v], up[v])'
    <3> SUFFICES ASSUME NEW v \in Writers, at'[v] = at[v], up'[v].content = up[v].content,
                        up'[v].id = up[v].id, up'[v].index = up[v].index
                 PROVE  WriterKnown(at[v], up[v])'
      OBVIOUS
    <3>1. at[v] \in Writing => intents'[up[v].content].id = up[v].id
                                 /\ intents'[up[v].content].state = "writing"
      BY DEF WritersFollow, WriterKnown, storeVars
    <3>2. up[v].id \in objects \cap objects' \/ up[v].id \notin objects
      BY DEF storeVars
    <3> QED BY <1>1, <1>2, <3>1, <3>2, WriterKept
  <2>2. \A v, w \in Writers : v # w /\ at'[v] \in Holding /\ at'[w] \in Holding
                                  => up'[v].id # up'[w].id
    BY ApartStays
  <2> QED BY <2>1, <2>2 DEF WritersFollow
<1>5. CleanersFollow'
  BY <1>1, <1>2, CleanersKept DEF storeVars, CleanersFollow, CleanerKnown
<1>6. StoreFollows'
  BY DEF StoreFollows, EveryOriginalIsNamed, KeptMeansStored, storeVars, jobVars, Erasing,
         Named, WorkspaceExists
<1>7. MailFollows'
  BY DEF MailFollows, StoredOnce, storeVars, jobVars, WorkspaceExists
<1> QED BY <1>1, <1>3, <1>4, <1>5, <1>6, <1>7

\* One writer moves on.
LEMMA WriterTo ==
  ASSUME IntakeTypes, NEW w \in Writers, NEW to \in WriterPlaces, NEW l \in Uploads, Write(w, to, l)
  PROVE  /\ at' \in [Writers -> WriterPlaces] /\ up' \in [Writers -> Uploads]
         /\ at'[w] = to /\ up'[w] = IF to = "idle" THEN NoUpload ELSE l
         /\ \A v \in Writers \ {w} : at'[v] = at[v] /\ up'[v] = up[v]
BY NoUploadKnown DEF Write, IntakeTypes

LEMMA WriterMoves ==
  ASSUME IntakeInv, NEW w \in Writers, NEW to \in WriterPlaces, NEW l \in Uploads, Write(w, to, l),
         UNCHANGED <<storeVars, granted, cat, cup, jobVars>>,
         received \subseteq received', received' \subseteq Attachments,
         delivery' \in [status : {"none", "processing", "complete"},
                        by : Writers \cup {Nobody}, live : BOOLEAN],
         CompleteMeansReceived',
         to # "idle" => WriterKnown(to, l)',
         to \in Holding => at[w] \in Holding /\ l.id = up[w].id
  PROVE  IntakeInv'
<1>1. /\ at' \in [Writers -> WriterPlaces] /\ up' \in [Writers -> Uploads]
      /\ at'[w] = to /\ up'[w] = IF to = "idle" THEN NoUpload ELSE l
      /\ \A v \in Writers \ {w} : at'[v] = at[v] /\ up'[v] = up[v]
  BY WriterTo DEF IntakeInv
<1>2. WriterKnown("idle", NoUpload)'
  BY NoUploadKnown DEF WriterKnown, Storing, Holding, Writing, Invoicing, Attachments
<1>3. WriterKnown(at[w], up[w])'
  BY <1>1, <1>2 DEF WriterKnown
<1>4. at'[w] \in Holding => at[w] \in Holding /\ up'[w].id = up[w].id
  BY <1>1 DEF Holding
<1>5. granted' \in BOOLEAN
  BY DEF IntakeInv, IntakeTypes
<1> QED BY <1>1, <1>3, <1>4, <1>5, WritersMove

\* A writer that reads or stops: all that is shared stays.
LEMMA WriterReads ==
  ASSUME IntakeInv, NEW w \in Writers, NEW to \in WriterPlaces, NEW l \in Uploads, Write(w, to, l),
         UNCHANGED <<storeVars, mailVars, granted, cat, cup, jobVars>>,
         to # "idle" => WriterKnown(to, l),
         to \in Holding => at[w] \in Holding /\ l.id = up[w].id
  PROVE  IntakeInv'
<1>1. to # "idle" => WriterKnown(to, l)'
  BY DEF WriterKnown, Alive, Erasing, Named, WorkspaceExists, storeVars, mailVars, jobVars
<1>2. /\ received \subseteq received' /\ received' \subseteq Attachments
      /\ delivery' \in [status : {"none", "processing", "complete"},
                        by : Writers \cup {Nobody}, live : BOOLEAN]
      /\ CompleteMeansReceived'
  BY DEF IntakeInv, IntakeTypes, MailFollows, CompleteMeansReceived, mailVars
<1> QED BY <1>1, <1>2, WriterMoves

LEMMA KnownWriter ==
  ASSUME IntakeInv, NEW w \in Writers
  PROVE  /\ WriterKnown(at[w], up[w]) /\ up[w] \in Uploads /\ at[w] \in WriterPlaces
         /\ up[w].index \in Nat
BY KeyNumbers DEF IntakeInv, WritersFollow, Uploads

\* Leave ends the request, or the delivery by its finally block.
LEMMA LeaveTo ==
  ASSUME IntakeInv, NEW w \in Writers, Leave(w)
  PROVE  \E to \in {"idle", "release"}, l \in Uploads :
            Write(w, to, l) /\ (to # "idle" => WriterKnown(to, l))
<1>1. up[w].index \in Nat /\ WriterKnown(at[w], up[w])
  BY KnownWriter
<1>2. CASE up[w].index > 0
  <2> DEFINE l == [NoUpload EXCEPT !.index = up[w].index]
  <2>1. Write(w, "release", l) /\ l \in Uploads /\ l.index = up[w].index
    BY <1>1, <1>2, NoUploadKnown DEF Leave, NoUpload
  <2>2. WriterKnown("release", l)
    BY <1>1, <2>1 DEF WriterKnown, Storing, Holding, Writing, Invoicing
  <2> QED BY <2>1, <2>2
<1>3. CASE ~(up[w].index > 0)
  <2>1. Write(w, "idle", NoUpload) /\ NoUpload \in Uploads
    BY <1>3, NoUploadKnown DEF Leave
  <2> QED BY <2>1
<1> QED BY <1>2, <1>3

LEMMA LeaveStep ==
  ASSUME IntakeInv, NEW w \in Writers, Leave(w),
         UNCHANGED <<storeVars, mailVars, granted, cat, cup, jobVars>>
  PROVE  IntakeInv'
<1>1. PICK to \in {"idle", "release"}, l \in Uploads :
         Write(w, to, l) /\ (to # "idle" => WriterKnown(to, l))
  BY LeaveTo
<1>2. to \in WriterPlaces /\ to \notin Holding
  BY DEF WriterPlaces, Holding
<1> QED BY <1>1, <1>2, WriterReads

\* From one place of storing to another a writer knows what it knew.
LEMMA StoringOn ==
  ASSUME IntakeInv, NEW w \in Writers, at[w] \in Storing, NEW to \in Storing \ Holding,
         NEW l, l.content = up[w].content, l.index = up[w].index
  PROVE  WriterKnown(to, l) /\ to \in WriterPlaces
BY KnownWriter DEF WriterKnown, Storing, Holding, Writing, Invoicing, WriterPlaces

LEMMA BeginUploadStep ==
  ASSUME IntakeInv, NEW w \in Writers, BeginUpload(w) PROVE IntakeInv'
<1>1. PICK c \in Contents : Write(w, "find", [NoUpload EXCEPT !.content = c])
  BY DEF BeginUpload
<1> DEFINE l == [NoUpload EXCEPT !.content = c]
<1>2. l \in Uploads /\ l.content = c /\ l.index = 0
  BY DEF NoUpload, Uploads
<1>3. "find" \in WriterPlaces /\ "find" \notin Holding /\ WriterKnown("find", l)
  BY <1>2 DEF WriterPlaces, Storing, Holding, Writing, Invoicing, WriterKnown, Attachments
<1> HIDE DEF l
<1>4. UNCHANGED <<storeVars, mailVars, granted, cat, cup, jobVars>>
  BY DEF BeginUpload
<1> QED BY <1>1, <1>2, <1>3, <1>4, WriterReads DEF l

LEMMA StopWriterSteps ==
  ASSUME IntakeInv, NEW w \in Writers, Throw(w) \/ Evict(w) PROVE IntakeInv'
<1>1. UNCHANGED <<storeVars, mailVars, granted, cat, cup, jobVars>>
      /\ (Leave(w) \/ Write(w, "idle", NoUpload))
  BY DEF Throw, Evict
<1>2. "idle" \in WriterPlaces /\ "idle" \notin Holding /\ NoUpload \in Uploads
  BY NoUploadKnown DEF WriterPlaces, Holding
<1>3. CASE Write(w, "idle", NoUpload)
  BY <1>1, <1>2, <1>3, WriterReads
<1>4. CASE Leave(w)
  BY <1>1, <1>4, LeaveStep
<1> QED BY <1>1, <1>3, <1>4

\* What a writer notes of a document it found.
LEMMA FoundNoted ==
  ASSUME IntakeInv, NEW w \in Writers, up[w].content \in Contents
  PROVE  LET existing == doc[up[w].content]
             l == [up[w] EXCEPT !.found = existing.id, !.state = existing.state]
         IN  l \in Uploads /\ l.content = up[w].content /\ l.index = up[w].index
<1>1. up[w] \in Uploads /\ doc[up[w].content] \in DocumentRows
  BY DEF IntakeInv, IntakeTypes
<1> QED BY <1>1 DEF Uploads, DocumentRows

LEMMA FindExistingStep ==
  ASSUME IntakeInv, NEW w \in Writers, FindExisting(w) PROVE IntakeInv'
<1> DEFINE existing == doc[up[w].content]
           l == [up[w] EXCEPT !.found = existing.id, !.state = existing.state]
<1>1. /\ at[w] = "find" /\ UNCHANGED <<storeVars, mailVars, granted, cat, cup, jobVars>>
      /\ Write(w, "duplicate", l) \/ Write(w, "pending", up[w])
  BY DEF FindExisting
<1>2. at[w] \in Storing /\ up[w] \in Uploads /\ up[w].content \in Contents
  BY <1>1, KnownWriter DEF Storing, WriterKnown
<1>3. l \in Uploads /\ l.content = up[w].content /\ l.index = up[w].index
  BY <1>2, FoundNoted
<1> HIDE DEF l
<1>4. {"duplicate", "pending"} \subseteq Storing \ Holding
  BY DEF Storing, Holding
<1>5. CASE Write(w, "duplicate", l)
  BY <1>1, <1>2, <1>3, <1>4, <1>5, StoringOn, WriterReads
<1>6. CASE Write(w, "pending", up[w])
  BY <1>1, <1>2, <1>4, <1>6, StoringOn, WriterReads
<1> QED BY <1>1, <1>5, <1>6

LEMMA CheckPendingStep ==
  ASSUME IntakeInv, NEW w \in Writers, CheckPending(w) PROVE IntakeInv'
<1>1. /\ at[w] = "pending" /\ UNCHANGED <<storeVars, mailVars, granted, cat, cup, jobVars>>
      /\ Write(w, "reserve", up[w]) \/ Leave(w)
  BY DEF CheckPending
<1>2. at[w] \in Storing /\ up[w] \in Uploads /\ "reserve" \in Storing \ Holding
  BY <1>1, KnownWriter DEF Storing, Holding
<1>3. CASE Write(w, "reserve", up[w])
  BY <1>1, <1>2, <1>3, StoringOn, WriterReads
<1>4. CASE Leave(w)
  BY <1>1, <1>4, LeaveStep
<1> QED BY <1>1, <1>3, <1>4

LEMMA FindDuplicateStep ==
  ASSUME IntakeInv, NEW w \in Writers, FindDuplicate(w) PROVE IntakeInv'
<1> DEFINE existing == doc[up[w].content]
           l == [up[w] EXCEPT !.found = existing.id, !.state = existing.state]
<1>1. /\ at[w] = "recheck" /\ UNCHANGED <<storeVars, mailVars, granted, cat, cup, jobVars>>
      /\ Write(w, "duplicate", l) \/ Leave(w)
  BY DEF FindDuplicate
<1>2. at[w] \in Storing /\ up[w] \in Uploads /\ up[w].content \in Contents
  BY <1>1, KnownWriter DEF Storing, WriterKnown
<1>3. l \in Uploads /\ l.content = up[w].content /\ l.index = up[w].index
  BY <1>2, FoundNoted
<1> HIDE DEF l
<1>4. "duplicate" \in Storing \ Holding
  BY DEF Storing, Holding
<1>5. CASE Write(w, "duplicate", l)
  BY <1>1, <1>2, <1>3, <1>4, <1>5, StoringOn, WriterReads
<1>6. CASE Leave(w)
  BY <1>1, <1>6, LeaveStep
<1> QED BY <1>1, <1>5, <1>6

\* The writer goes on to the next attachment once it has its receipt.
LEMMA NextKnown ==
  ASSUME IntakeInv, NEW w \in Writers, up[w].index \in Attachments,
         received \subseteq received', WorkspaceExists' => WorkspaceExists,
         WorkspaceExists' => up[w].index \in received'
  PROVE  \E l \in Uploads :
            l = [NoUpload EXCEPT !.index = up[w].index + 1] /\ WriterKnown("attachment", l)'
<1> DEFINE i == up[w].index
<1>1. i \in Nat \ {0} /\ i + 1 \in Nat /\ i + 1 # 0
  BY DEF Attachments
<1>2. PICK n \in Nat : n = i + 1
  BY <1>1
<1> DEFINE l == [NoUpload EXCEPT !.index = n]
<1>3. l \in Uploads /\ l.index = n
  BY NoUploadKnown DEF NoUpload
<1>4. WorkspaceExists' => \A j \in Attachments : j < i => j \in received'
  BY KnownWriter DEF WriterKnown
<1>5. WorkspaceExists' => \A j \in Attachments : j < n => j \in received'
  BY <1>1, <1>2, <1>4 DEF Attachments
<1>6. WriterKnown("attachment", l)'
  BY <1>1, <1>2, <1>3, <1>5 DEF WriterKnown, Storing, Holding, Writing, Invoicing
<1> QED BY <1>2, <1>3, <1>6

\* What a writer knows outside of storing stays, as receipts are only added.
LEMMA KnownOn ==
  ASSUME NEW to \in {"release", "attachment", "finish"}, NEW l, WriterKnown(to, l),
         received \subseteq received', WorkspaceExists' => WorkspaceExists
  PROVE  WriterKnown(to, l)'
BY DEF WriterKnown, Storing, Holding, Writing, Invoicing

\* The row of the delivery changes with a writer's step, or receipts are added.
LEMMA MailMoves ==
  ASSUME IntakeInv, NEW w \in Writers, NEW to \in {"idle", "release", "attachment", "finish"},
         NEW l \in Uploads, Write(w, to, l),
         UNCHANGED <<storeVars, granted, cat, cup, jobVars>>,
         received \subseteq received', received' \subseteq Attachments,
         delivery' \in [status : {"none", "processing", "complete"},
                        by : Writers \cup {Nobody}, live : BOOLEAN],
         CompleteMeansReceived',
         to # "idle" => WriterKnown(to, l) \/ WriterKnown(to, l)'
  PROVE  IntakeInv'
<1>1. to # "idle" => WriterKnown(to, l)'
  BY KnownOn DEF jobVars, WorkspaceExists
<1>2. to \in WriterPlaces /\ to \notin Holding
  BY DEF WriterPlaces, Holding
<1> QED BY <1>1, <1>2, WriterMoves

LEMMA RecordDuplicateStep ==
  ASSUME IntakeInv, NEW w \in Writers, RecordDuplicate(w) PROVE IntakeInv'
<1> DEFINE i == up[w].index
           insert == i > 0 /\ Guard(w) /\ i \notin received
<1>1. /\ at[w] = "duplicate" /\ UNCHANGED <<storeVars, delivery, granted, cat, cup, jobVars>>
      /\ received' = IF insert THEN received \cup {i} ELSE received
      /\ \/ i > 0 /\ (insert \/ i \in received)
              /\ Write(w, "attachment", [NoUpload EXCEPT !.index = i + 1])
         \/ Leave(w)
  BY DEF RecordDuplicate
<1>2. i \in {0} \cup Attachments /\ (i > 0 => i \in Attachments)
  BY <1>1, KnownWriter DEF WriterKnown, Storing, Attachments
<1>3. received \subseteq received' /\ received' \subseteq Attachments
  BY <1>1, <1>2 DEF IntakeInv, IntakeTypes
<1>4. /\ delivery' \in [status : {"none", "processing", "complete"},
                        by : Writers \cup {Nobody}, live : BOOLEAN]
      /\ CompleteMeansReceived'
  BY <1>1, <1>3 DEF IntakeInv, IntakeTypes, MailFollows, CompleteMeansReceived
<1>5. CASE Leave(w)
  <2>1. PICK to \in {"idle", "release"}, l \in Uploads :
           Write(w, to, l) /\ (to # "idle" => WriterKnown(to, l))
    BY <1>5, LeaveTo
  <2> QED BY <1>1, <1>3, <1>4, <2>1, MailMoves
<1>6. CASE /\ i > 0 /\ (insert \/ i \in received)
           /\ Write(w, "attachment", [NoUpload EXCEPT !.index = i + 1])
  <2>1. i \in Attachments /\ i \in received' /\ (WorkspaceExists' => WorkspaceExists)
    BY <1>1, <1>2, <1>6 DEF jobVars, WorkspaceExists
  <2>2. PICK l \in Uploads :
           l = [NoUpload EXCEPT !.index = i + 1] /\ WriterKnown("attachment", l)'
    BY <1>3, <2>1, NextKnown
  <2> QED BY <1>1, <1>3, <1>4, <1>6, <2>2, MailMoves
<1> QED BY <1>1, <1>5, <1>6

-----------------------------------------------------------------------------
(* Intake: the delivery of the email.                                      *)

LEMMA BeginDeliveryStep ==
  ASSUME IntakeInv, NEW w \in Writers, BeginDelivery(w) PROVE IntakeInv'
<1> DEFINE l == [NoUpload EXCEPT !.index = 1]
<1>1. /\ Write(w, "claim", l) /\ UNCHANGED <<storeVars, mailVars, granted, cat, cup, jobVars>>
  BY DEF BeginDelivery
<1>2. l \in Uploads /\ l.index = 1
  BY DEF NoUpload, Uploads
<1> HIDE DEF l
<1>3. "claim" \in WriterPlaces /\ "claim" \notin Holding /\ WriterKnown("claim", l)
  BY <1>2 DEF WriterPlaces, Storing, Holding, Writing, Invoicing, WriterKnown, Attachments
<1> QED BY <1>1, <1>2, <1>3, WriterReads

LEMMA ClaimDeliveryStep ==
  ASSUME IntakeInv, NEW w \in Writers, ClaimDelivery(w) PROVE IntakeInv'
<1>1. at[w] = "claim" /\ UNCHANGED <<storeVars, received, source, granted, cat, cup, jobVars>>
  BY DEF ClaimDelivery
<1>2. received \subseteq received' /\ received' \subseteq Attachments
  BY <1>1 DEF IntakeInv, IntakeTypes
<1>3. CASE Write(w, "idle", NoUpload) /\ delivery' = delivery
  <2>1. /\ delivery' \in [status : {"none", "processing", "complete"},
                          by : Writers \cup {Nobody}, live : BOOLEAN]
        /\ CompleteMeansReceived'
    BY <1>1, <1>3 DEF IntakeInv, IntakeTypes, MailFollows, CompleteMeansReceived
  <2> QED BY <1>1, <1>2, <1>3, <2>1, NoUploadKnown, MailMoves
<1>4. CASE /\ delivery' = [status |-> "processing", by |-> w, live |-> TRUE]
           /\ Write(w, "attachment", up[w])
  <2>1. /\ delivery' \in [status : {"none", "processing", "complete"},
                          by : Writers \cup {Nobody}, live : BOOLEAN]
        /\ CompleteMeansReceived'
    BY <1>4 DEF CompleteMeansReceived
  <2>2. WriterKnown("attachment", up[w]) /\ up[w] \in Uploads
    BY <1>1, KnownWriter DEF WriterKnown, Storing, Holding, Writing, Invoicing
  <2> QED BY <1>1, <1>2, <1>4, <2>1, <2>2, MailMoves
<1> QED BY <1>3, <1>4 DEF ClaimDelivery

LEMMA NextAttachmentStep ==
  ASSUME IntakeInv, NEW w \in Writers, NextAttachment(w) PROVE IntakeInv'
<1> DEFINE i == up[w].index
           f == [up[w] EXCEPT !.content = Mail[i], !.current = TRUE]
           n == [up[w] EXCEPT !.index = i + 1]
<1>1. /\ at[w] = "attachment" /\ UNCHANGED <<storeVars, mailVars, granted, cat, cup, jobVars>>
      /\ \/ i \notin Attachments /\ Write(w, "finish", up[w])
         \/ i \in Attachments /\ i \in received /\ Write(w, "attachment", n)
         \/ i \in Attachments /\ Write(w, "find", f)
         \/ Leave(w)
  <2>1. received \subseteq Attachments
    BY DEF IntakeInv, IntakeTypes
  <2> QED BY <2>1 DEF NextAttachment
<1>2. /\ WriterKnown("attachment", up[w]) /\ up[w] \in Uploads /\ i \in Nat /\ i # 0
  BY <1>1, KnownWriter DEF WriterKnown
<1>3. CASE i \notin Attachments /\ Write(w, "finish", up[w])
  <2>1. WriterKnown("finish", up[w]) /\ "finish" \in WriterPlaces /\ "finish" \notin Holding
    BY <1>2, <1>3 DEF WriterKnown, Storing, Holding, Writing, Invoicing, WriterPlaces
  <2> QED BY <1>1, <1>2, <1>3, <2>1, WriterReads
<1>4. CASE i \in Attachments /\ i \in received /\ Write(w, "attachment", n)
  <2>1. n \in Uploads /\ n.index = i + 1 /\ i + 1 \in Nat /\ i + 1 # 0
    BY <1>2 DEF Uploads
  <2>2. WorkspaceExists => \A j \in Attachments : j < i + 1 => j \in received
    BY <1>2, <1>4 DEF WriterKnown, Attachments
  <2> HIDE DEF n
  <2>3. WriterKnown("attachment", n)
    BY <2>1, <2>2 DEF WriterKnown, Storing, Holding, Writing, Invoicing
  <2>4. "attachment" \in WriterPlaces /\ "attachment" \notin Holding
    BY DEF WriterPlaces, Holding
  <2> QED BY <1>1, <1>4, <2>1, <2>3, <2>4, WriterReads
<1>5. CASE i \in Attachments /\ Write(w, "find", f)
  <2>1. Mail[i] \in Contents
    BY <1>5, MailAssumption, ElementOfSeq DEF Attachments
  <2>2. f \in Uploads /\ f.index = i /\ f.content \in Contents
    BY <1>2, <2>1 DEF Uploads
  <2> HIDE DEF f
  <2>3. WriterKnown("find", f)
    BY <1>2, <1>5, <2>2 DEF WriterKnown, Storing, Holding, Writing, Invoicing
  <2>4. "find" \in WriterPlaces /\ "find" \notin Holding
    BY DEF WriterPlaces, Storing, Holding
  <2> QED BY <1>1, <1>5, <2>2, <2>3, <2>4, WriterReads
<1>6. CASE Leave(w)
  BY <1>1, <1>6, LeaveStep
<1> QED BY <1>1, <1>3, <1>4, <1>5, <1>6

\* The delivery is complete once the writer is past the last attachment.
LEMMA FinishDeliveryStep ==
  ASSUME IntakeInv, NEW w \in Writers, FinishDelivery(w) PROVE IntakeInv'
<1>1. /\ at[w] = "finish" /\ UNCHANGED <<storeVars, received, source, granted, cat, cup, jobVars>>
      /\ \/ delivery' = delivery
         \/ WorkspaceExists /\ delivery' = [status |-> "complete", by |-> Nobody, live |-> FALSE]
      /\ Leave(w)
  BY DEF FinishDelivery
<1>2. received \subseteq received' /\ received' \subseteq Attachments
  BY <1>1 DEF IntakeInv, IntakeTypes
<1>3. delivery' \in [status : {"none", "processing", "complete"},
                     by : Writers \cup {Nobody}, live : BOOLEAN]
  <2>1. [status |-> "complete", by |-> Nobody, live |-> FALSE]
          \in [status : {"none", "processing", "complete"},
               by : Writers \cup {Nobody}, live : BOOLEAN]
    OBVIOUS
  <2> QED BY <1>1, <2>1 DEF IntakeInv, IntakeTypes
<1>4. WorkspaceExists => received = Attachments
  <2> SUFFICES ASSUME WorkspaceExists, NEW j \in Attachments PROVE j \in received
    BY DEF IntakeInv, IntakeTypes
  <2>1. /\ up[w].index \in Nat \ {0} /\ up[w].index \notin Attachments
        /\ j < up[w].index => j \in received
    BY <1>1, KnownWriter DEF WriterKnown
  <2>2. Len(Mail) \in Nat
    BY MailAssumption
  <2> QED BY <2>1, <2>2 DEF Attachments
<1>5. CompleteMeansReceived'
  BY <1>1, <1>4 DEF IntakeInv, MailFollows, CompleteMeansReceived
<1>6. PICK to \in {"idle", "release"}, l \in Uploads :
         Write(w, to, l) /\ (to # "idle" => WriterKnown(to, l))
  BY <1>1, LeaveTo
<1> QED BY <1>1, <1>2, <1>3, <1>5, <1>6, MailMoves

LEMMA ReleaseDeliveryStep ==
  ASSUME IntakeInv, NEW w \in Writers, ReleaseDelivery(w) PROVE IntakeInv'
<1>1. /\ UNCHANGED <<storeVars, received, source, granted, cat, cup, jobVars>>
      /\ delivery' \in {delivery, [delivery EXCEPT !.by = Nobody, !.live = FALSE]}
      /\ Write(w, "idle", NoUpload)
  BY DEF ReleaseDelivery
<1>2. /\ received \subseteq received' /\ received' \subseteq Attachments
      /\ delivery' \in [status : {"none", "processing", "complete"},
                        by : Writers \cup {Nobody}, live : BOOLEAN]
      /\ delivery'.status = delivery.status
  BY <1>1 DEF IntakeInv, IntakeTypes
<1>3. CompleteMeansReceived'
  BY <1>1, <1>2 DEF IntakeInv, MailFollows, CompleteMeansReceived
<1> QED BY <1>1, <1>2, <1>3, NoUploadKnown, MailMoves

LEMMA MailboxSteps ==
  ASSUME IntakeInv, DeliveryLeaseExpires \/ WithdrawGrant \/ ReviseGrant PROVE IntakeInv'
<1>1. /\ UNCHANGED <<storeVars, received, at, cat, cup, jobVars>>
      /\ granted' \in {granted, FALSE}
      /\ delivery' \in {delivery, [delivery EXCEPT !.live = FALSE]}
      /\ \/ up' = up
         \/ up' = [w \in Writers |-> [up[w] EXCEPT !.current = FALSE]]
  BY DEF DeliveryLeaseExpires, WithdrawGrant, ReviseGrant, mailVars
<1>2. /\ received \subseteq received' /\ received' \subseteq Attachments /\ granted' \in BOOLEAN
      /\ delivery' \in [status : {"none", "processing", "complete"},
                        by : Writers \cup {Nobody}, live : BOOLEAN]
      /\ delivery'.status = delivery.status
      /\ at' \in [Writers -> WriterPlaces]
  BY <1>1 DEF IntakeInv, IntakeTypes
<1>3. CompleteMeansReceived'
  BY <1>1, <1>2 DEF IntakeInv, MailFollows, CompleteMeansReceived
<1>4. /\ up' \in [Writers -> Uploads]
      /\ \A v \in Writers : /\ up'[v].content = up[v].content
                            /\ up'[v].id = up[v].id /\ up'[v].index = up[v].index
  <2>1. \A v \in Writers : LET l == [up[v] EXCEPT !.current = FALSE]
                           IN  /\ l \in Uploads /\ l.content = up[v].content
                               /\ l.id = up[v].id /\ l.index = up[v].index
    BY ZenonT(60) DEF IntakeInv, IntakeTypes, Uploads
  <2>2. up \in [Writers -> Uploads]
    BY DEF IntakeInv, IntakeTypes
  <2> QED BY <1>1, <2>1, <2>2
<1> QED BY <1>1, <1>2, <1>3, <1>4, WritersMove

-----------------------------------------------------------------------------
(* Intake: intents that are marked, claimed or dropped.                    *)

CleanerLocals == [content : Contents \cup {Nobody}, id : {0} \cup Originals]

\* Rows of intents change but keep their keys, or go with their objects.
LEMMA IntentsMove ==
  ASSUME IntakeInv, UNCHANGED <<objects, nextKey, doc, invoices, origin, mailVars, granted, jobVars>>,
         intents' \in [Contents -> IntentRows],
         \A c \in Contents :
             \/ /\ intents'[c].id = intents[c].id
                /\ intents'[c].state \in {intents[c].state, "cleanup"}
                /\ intents[c].id = 0 => intents'[c] = intents[c]
             \/ intents'[c] = NoIntent /\ intents[c].id \notin objects,
         at' \in [Writers -> WriterPlaces], up' \in [Writers -> Uploads],
         \A v \in Writers :
             \/ /\ at'[v] = at[v] /\ up'[v] = up[v]
                /\ at[v] \in Writing => intents'[up[v].content].state = "writing"
             \/ /\ WriterKnown(at[v], up[v])'
                /\ at'[v] \in Holding => at[v] \in Holding /\ up'[v].id = up[v].id,
         cat' \in [Cleaners -> CleanerPlaces], cup' \in [Cleaners -> CleanerLocals],
         \A k \in Cleaners :
             (cat'[k] = cat[k] /\ cup'[k] = cup[k]) \/ CleanerKnown(cat[k], cup[k])'
  PROVE  IntakeInv'
<1> USE DEF IntakeInv
<1>1. IntakeTypes' /\ nextKey' \in Nat
  BY KeyNumbers DEF IntakeTypes, mailVars, CleanerLocals
<1>2. KeysGoOn
  BY KeyNumbers DEF KeysGoOn, mailVars, jobVars, Alive, Erasing, Named, WorkspaceExists
<1>3. NoIntent.id = 0 /\ NoIntent.state = "none"
  BY DEF NoIntent
<1>4. \A c \in Contents : intents'[c].id \in {intents[c].id, 0}
  BY <1>3
<1>5. KeysFollow'
  <2>1. \A c \in Contents :
          /\ intents'[c].id < nextKey /\ intents'[c].id \notin invoices
          /\ intents'[c].id = 0 => intents'[c] = NoIntent
    <3> TAKE c \in Contents
    <3>1. 0 < nextKey /\ 0 \notin invoices
      BY KeyNumbers DEF IntakeTypes
    <3> QED BY <1>4, <3>1 DEF KeysFollow
  <2>2. \A c, d \in Contents :
          /\ intents'[c].id # 0 => intents'[c].id # doc[d].id
          /\ c # d /\ intents'[c].id # 0 => intents'[c].id # intents'[d].id
    BY <1>4 DEF KeysFollow
  <2> QED BY <2>1, <2>2 DEF KeysFollow
<1>6. WritersFollow'
  <2>1. \A v \in Writers : WriterKnown(at[v], up[v])'
    <3> SUFFICES ASSUME NEW v \in Writers, at'[v] = at[v], up'[v] = up[v],
                        at[v] \in Writing => intents'[up[v].content].state = "writing"
                 PROVE  WriterKnown(at[v], up[v])'
      OBVIOUS
    <3>1. at[v] \in Writing => up[v].content \in Contents /\ intents[up[v].content].id = up[v].id
      BY KnownWriter DEF WriterKnown, Storing, Writing
    <3>2. at[v] \in Writing => intents'[up[v].content].id = up[v].id
      BY <1>3, <3>1
    <3>3. up[v].id \in objects \cap objects' \/ up[v].id \notin objects
      OBVIOUS
    <3> QED BY <1>1, <1>2, <3>2, <3>3, WriterKept
  <2>2. \A v \in Writers : at'[v] \in Holding => at[v] \in Holding /\ up'[v].id = up[v].id
    OBVIOUS
  <2> QED BY <2>1, <2>2, ApartStays DEF WritersFollow
<1>7. CleanersFollow'
  <2>1. \A c \in Contents :
          \/ /\ intents'[c].id = intents[c].id
             /\ intents[c].state = "cleanup" => intents'[c].state = "cleanup"
          \/ intents'[c].id = 0
    BY <1>3
  <2>2. \A k \in Cleaners :
          \/ /\ cat'[k] = cat[k] /\ cup'[k] = cup[k]
             /\ cat[k] = "drop" => cup[k].id \notin objects'
          \/ CleanerKnown(cat[k], cup[k])'
    BY DEF CleanersFollow, CleanerKnown
  <2> QED BY <1>1, <1>2, <2>1, <2>2, CleanersKept
<1>8. StoreFollows'
  <2>1. EveryOriginalIsNamed'
    <3> SUFFICES ASSUME WorkspaceExists, NEW o \in objects, o \notin invoices,
                        NEW c \in Contents, o = intents[c].id
                 PROVE  o = intents'[c].id
      BY DEF StoreFollows, EveryOriginalIsNamed, jobVars, WorkspaceExists
    <3> QED OBVIOUS
  <2>2. KeptMeansStored'
    BY DEF StoreFollows, KeptMeansStored, jobVars, Erasing, Named, WorkspaceExists
  <2> QED BY <2>1, <2>2 DEF StoreFollows
<1>9. MailFollows'
  BY DEF MailFollows, StoredOnce, CompleteMeansReceived, mailVars, jobVars, WorkspaceExists
<1> QED BY <1>1, <1>5, <1>6, <1>7, <1>8, <1>9

LEMMA CleanerTo ==
  ASSUME IntakeTypes, NEW k \in Cleaners, NEW to \in CleanerPlaces, NEW l \in CleanerLocals,
         Clean(k, to, l)
  PROVE  /\ cat' \in [Cleaners -> CleanerPlaces] /\ cup' \in [Cleaners -> CleanerLocals]
         /\ cat'[k] = to /\ (to # "idle" => cup'[k] = l)
         /\ \A j \in Cleaners \ {k} : cat'[j] = cat[j] /\ cup'[j] = cup[j]
<1>1. NoCleanup \in CleanerLocals
  BY DEF NoCleanup, CleanerLocals
<1>2. cat \in [Cleaners -> CleanerPlaces] /\ cup \in [Cleaners -> CleanerLocals]
  BY DEF IntakeTypes, CleanerLocals
<1> QED BY <1>1, <1>2 DEF Clean

\* A cleaner moves on, with the intents; the writers are left alone.
LEMMA CleanerMoves ==
  ASSUME IntakeInv,
         UNCHANGED <<objects, nextKey, doc, invoices, origin, mailVars, granted, at, up, jobVars>>,
         NEW k \in Cleaners, NEW to \in CleanerPlaces, NEW l \in CleanerLocals, Clean(k, to, l),
         to # "idle" => CleanerKnown(to, l)',
         intents' \in [Contents -> IntentRows],
         \A c \in Contents :
             \/ /\ intents'[c].id = intents[c].id /\ intents'[c].state = intents[c].state
                /\ intents[c].id = 0 => intents'[c] = intents[c]
             \/ /\ intents'[c] = NoIntent /\ intents[c].id \notin objects
                /\ intents[c].state # "writing"
  PROVE  IntakeInv'
<1>1. /\ cat' \in [Cleaners -> CleanerPlaces] /\ cup' \in [Cleaners -> CleanerLocals]
      /\ cat'[k] = to /\ (to # "idle" => cup'[k] = l)
      /\ \A j \in Cleaners \ {k} : cat'[j] = cat[j] /\ cup'[j] = cup[j]
  BY CleanerTo DEF IntakeInv
<1>2. CleanerKnown(cat[k], cup[k])'
  BY <1>1 DEF CleanerKnown
<1>3. \A j \in Cleaners : (cat'[j] = cat[j] /\ cup'[j] = cup[j]) \/ CleanerKnown(cat[j], cup[j])'
  BY <1>1, <1>2
<1>4. at' \in [Writers -> WriterPlaces] /\ up' \in [Writers -> Uploads]
  BY DEF IntakeInv, IntakeTypes
<1>5. \A v \in Writers :
         /\ at'[v] = at[v] /\ up'[v] = up[v]
         /\ at[v] \in Writing => intents'[up[v].content].state = "writing"
  <2> TAKE v \in Writers
  <2>1. at[v] \in Writing => up[v].content \in Contents /\ intents[up[v].content].state = "writing"
    BY KnownWriter DEF WriterKnown, Storing, Writing
  <2> QED BY <2>1
<1>6. \A c \in Contents :
         \/ /\ intents'[c].id = intents[c].id
            /\ intents'[c].state \in {intents[c].state, "cleanup"}
            /\ intents[c].id = 0 => intents'[c] = intents[c]
         \/ intents'[c] = NoIntent /\ intents[c].id \notin objects
  OBVIOUS
<1> QED BY <1>1, <1>3, <1>4, <1>5, <1>6, IntentsMove

\* Only the lease of one row changes, and the row was there.
LEMMA LeaseEdit ==
  ASSUME IntakeInv, NEW c \in Contents, intents[c].id # 0, NEW by \in Cleaners \cup {Nobody},
         NEW live \in BOOLEAN,
         \/ intents' = [intents EXCEPT ![c].by = by, ![c].live = live]
         \/ intents' = [intents EXCEPT ![c].live = live]
         \/ intents' = intents
  PROVE  /\ intents' \in [Contents -> IntentRows]
         /\ \A d \in Contents :
               /\ intents'[d].id = intents[d].id /\ intents'[d].state = intents[d].state
               /\ intents[d].id = 0 => intents'[d] = intents[d]
<1>1. intents \in [Contents -> IntentRows] /\ intents[c] \in IntentRows
  BY DEF IntakeInv, IntakeTypes
<1> DEFINE a == [intents[c] EXCEPT !.by = by, !.live = live]
           b == [intents[c] EXCEPT !.live = live]
<1>2. /\ a \in IntentRows /\ a.id = intents[c].id /\ a.state = intents[c].state
      /\ b \in IntentRows /\ b.id = intents[c].id /\ b.state = intents[c].state
  BY <1>1 DEF IntentRows
<1>3. intents' \in {intents, [intents EXCEPT ![c] = a], [intents EXCEPT ![c] = b]}
  BY <1>1 DEF IntentRows
<1> HIDE DEF a, b
<1> QED BY <1>1, <1>2, <1>3

LEMMA IntentLeaseExpiresStep ==
  ASSUME IntakeInv, NEW c \in Contents, IntentLeaseExpires(c) PROVE IntakeInv'
<1>1. /\ intents[c].live /\ intents' = [intents EXCEPT ![c].live = FALSE]
      /\ UNCHANGED <<objects, nextKey, doc, invoices, origin, mailVars, granted, at, up, cat, cup, jobVars>>
  BY DEF IntentLeaseExpires
<1>2. intents[c].id # 0
  BY <1>1 DEF IntakeInv, KeysFollow, NoIntent
<1>3. /\ intents' \in [Contents -> IntentRows]
      /\ \A d \in Contents :
            /\ intents'[d].id = intents[d].id /\ intents'[d].state = intents[d].state
            /\ intents[d].id = 0 => intents'[d] = intents[d]
  BY <1>1, <1>2, LeaseEdit
<1>4. /\ at' \in [Writers -> WriterPlaces] /\ up' \in [Writers -> Uploads]
      /\ cat' \in [Cleaners -> CleanerPlaces] /\ cup' \in [Cleaners -> CleanerLocals]
  BY <1>1 DEF IntakeInv, IntakeTypes, CleanerLocals
<1>5. \A v \in Writers :
         /\ at'[v] = at[v] /\ up'[v] = up[v]
         /\ at[v] \in Writing => intents'[up[v].content].state = "writing"
  <2> TAKE v \in Writers
  <2>1. at[v] \in Writing => up[v].content \in Contents /\ intents[up[v].content].state = "writing"
    BY KnownWriter DEF WriterKnown, Storing, Writing
  <2> QED BY <1>1, <1>3, <2>1
<1>6. \A c2 \in Contents :
         /\ intents'[c2].id = intents[c2].id
         /\ intents'[c2].state \in {intents[c2].state, "cleanup"}
         /\ intents[c2].id = 0 => intents'[c2] = intents[c2]
  BY <1>3
<1>7. \A k \in Cleaners : cat'[k] = cat[k] /\ cup'[k] = cup[k]
  BY <1>1
<1> QED BY <1>1, <1>3, <1>4, <1>5, <1>6, <1>7, IntentsMove

-----------------------------------------------------------------------------
(* Intake: a cleaner of an intent.                                         *)

\* An intent that is to be cleaned up is told by its key from all the others.
LEMMA ClaimIntentStep ==
  ASSUME IntakeInv, NEW k \in Cleaners, ClaimIntent(k) PROVE IntakeInv'
<1>1. PICK c \in Contents :
         /\ intents[c].state = "cleanup"
         /\ intents' = [intents EXCEPT ![c].by = k, ![c].live = TRUE]
         /\ Clean(k, "check", [content |-> c, id |-> intents[c].id])
  BY DEF ClaimIntent
<1>2. UNCHANGED <<objects, nextKey, doc, invoices, origin, mailVars, granted, at, up, jobVars>>
  BY DEF ClaimIntent
<1>3. PICK o : o = intents[c].id
  OBVIOUS
<1>4. /\ o # 0 /\ o \in Originals /\ o < nextKey /\ o \notin invoices
      /\ \A d \in Contents : doc[d].id # o /\ (intents[d].id = o => d = c)
  <2>1. intents[c].id # 0
    BY <1>1 DEF IntakeInv, KeysFollow, NoIntent
  <2>2. intents[c] \in IntentRows
    BY DEF IntakeInv, IntakeTypes
  <2> QED BY <1>3, <2>1, <2>2 DEF IntakeInv, KeysFollow, IntentRows
<1>5. /\ intents' \in [Contents -> IntentRows]
      /\ \A d \in Contents :
            /\ intents'[d].id = intents[d].id /\ intents'[d].state = intents[d].state
            /\ intents[d].id = 0 => intents'[d] = intents[d]
  BY <1>1, <1>3, <1>4, LeaseEdit
<1> DEFINE l == [content |-> c, id |-> o]
<1>6. l \in CleanerLocals /\ l.content = c /\ l.id = o /\ "check" \in CleanerPlaces
  BY <1>4 DEF CleanerLocals, CleanerPlaces
<1>7. Clean(k, "check", l)
  BY <1>1, <1>3
<1> HIDE DEF l
<1>8. CleanerKnown("check", l)'
  BY <1>1, <1>2, <1>4, <1>5, <1>6 DEF CleanerKnown
<1> QED BY <1>2, <1>5, <1>6, <1>7, <1>8, CleanerMoves

LEMMA KnownCleaner ==
  ASSUME IntakeInv, NEW k \in Cleaners
  PROVE  CleanerKnown(cat[k], cup[k]) /\ cup[k] \in CleanerLocals
BY DEF IntakeInv, IntakeTypes, CleanersFollow, CleanerLocals

LEMMA CheckCommittedStep ==
  ASSUME IntakeInv, NEW k \in Cleaners, CheckCommitted(k) PROVE IntakeInv'
<1>0. PICK l : l = cup[k]
  OBVIOUS
<1>1. PICK to \in {"unclaim", "delete"} : Clean(k, to, l)
  BY <1>0 DEF CheckCommitted
<1>2. cat[k] = "check" /\ UNCHANGED <<storeVars, mailVars, granted, at, up, jobVars>>
  BY DEF CheckCommitted
<1>3. CleanerKnown(to, l)' /\ l \in CleanerLocals /\ to \in CleanerPlaces
  BY <1>0, <1>2, KnownCleaner DEF CleanerKnown, storeVars, CleanerPlaces
<1>4. intents' \in [Contents -> IntentRows] /\ intents' = intents
  BY <1>2 DEF storeVars, IntakeInv, IntakeTypes
<1> QED BY <1>1, <1>2, <1>3, <1>4, CleanerMoves DEF storeVars

\* What is dropped has no object left, and its write had returned.
LEMMA DropIntentStep ==
  ASSUME IntakeInv, NEW k \in Cleaners, DropIntent(k) PROVE IntakeInv'
<1>0. PICK l : l = cup[k]
  OBVIOUS
<1>1. /\ cat[k] = "drop" /\ Clean(k, "unclaim", l)
      /\ \/ intents' = intents
         \/ intents[l.content].id = l.id /\ intents' = [intents EXCEPT ![l.content] = NoIntent]
      /\ UNCHANGED <<objects, nextKey, doc, invoices, origin, mailVars, granted, at, up, jobVars>>
  BY <1>0 DEF DropIntent
<1>2. CleanerKnown("drop", l) /\ l \in CleanerLocals /\ "unclaim" \in CleanerPlaces
  BY <1>0, <1>1, KnownCleaner DEF CleanerPlaces
<1>3. /\ l.content \in Contents /\ l.id \in Originals /\ l.id \notin objects /\ l.id # 0
      /\ \A c \in Contents : intents[c].id = l.id => intents[c].state = "cleanup"
  BY <1>2, KeyNumbers DEF CleanerKnown, IntakeInv
<1>4. NoIntent \in IntentRows /\ NoIntent.id = 0 /\ intents \in [Contents -> IntentRows]
  BY DEF NoIntent, IntentRows, IntakeInv, IntakeTypes
<1>5. /\ intents' \in [Contents -> IntentRows]
      /\ \A c \in Contents :
           \/ intents'[c] = intents[c]
           \/ /\ intents'[c] = NoIntent /\ intents[c].id \notin objects
              /\ intents[c].state # "writing"
  BY <1>1, <1>3, <1>4
<1>6. CleanerKnown("unclaim", l)'
  BY <1>1, <1>2, <1>3, <1>4, <1>5 DEF CleanerKnown
<1> QED BY <1>1, <1>2, <1>5, <1>6, CleanerMoves

LEMMA EndCleaningSteps ==
  ASSUME IntakeInv, NEW k \in Cleaners, Unclaim(k) \/ EvictCleaner(k) PROVE IntakeInv'
<1> DEFINE c == cup[k].content
<1>1. /\ cat[k] # "idle" /\ Clean(k, "idle", NoCleanup)
      /\ UNCHANGED <<objects, nextKey, doc, invoices, origin, mailVars, granted, at, up, jobVars>>
      /\ \/ intents' = intents
         \/ intents' = [intents EXCEPT ![c].by = Nobody, ![c].live = FALSE] /\ intents[c].id = cup[k].id
  BY DEF Unclaim, EvictCleaner, storeVars
<1>2. c \in Contents /\ cup[k].id # 0
  BY <1>1, KnownCleaner, KeyNumbers DEF CleanerKnown, IntakeInv
<1> HIDE DEF c
<1>3. NoCleanup \in CleanerLocals /\ "idle" \in CleanerPlaces
  BY DEF NoCleanup, CleanerLocals, CleanerPlaces
<1>4. CASE intents' = intents
  <2>1. intents' \in [Contents -> IntentRows]
    BY <1>4 DEF IntakeInv, IntakeTypes
  <2> QED BY <1>1, <1>3, <1>4, <2>1, CleanerMoves
<1>5. CASE intents' = [intents EXCEPT ![c].by = Nobody, ![c].live = FALSE] /\ intents[c].id = cup[k].id
  <2>1. /\ intents' \in [Contents -> IntentRows]
        /\ \A d \in Contents :
              /\ intents'[d].id = intents[d].id /\ intents'[d].state = intents[d].state
              /\ intents[d].id = 0 => intents'[d] = intents[d]
    BY <1>2, <1>5, LeaseEdit
  <2> QED BY <1>1, <1>3, <2>1, CleanerMoves
<1> QED BY <1>1, <1>4, <1>5

-----------------------------------------------------------------------------
(* Intake: the object store.                                               *)

\* What is put has an intent or is an invoice; what is deleted is no kept
\* document's and nobody's who is about to commit.
LEMMA ObjectsMove ==
  ASSUME IntakeInv, UNCHANGED <<nextKey, intents, doc, invoices, origin, mailVars, granted, jobVars>>,
         objects' \subseteq Originals,
         \A o \in objects' \ objects :
             o \in invoices \/ \E c \in Contents : intents[c].id = o /\ intents[c].state = "writing",
         Alive => \A o \in objects \ objects' :
             /\ \A c \in Contents : doc[c].id = o => doc[c].state # "kept"
             /\ \A v \in Writers : at[v] = "commit" => up[v].id # o,
         at' \in [Writers -> WriterPlaces], up' \in [Writers -> Uploads],
         \A v \in Writers :
             \/ at'[v] = at[v] /\ up'[v] = up[v]
             \/ /\ WriterKnown(at[v], up[v])'
                /\ at'[v] \in Holding => at[v] \in Holding /\ up'[v].id = up[v].id,
         cat' \in [Cleaners -> CleanerPlaces], cup' \in [Cleaners -> CleanerLocals],
         \A k \in Cleaners :
             (cat'[k] = cat[k] /\ cup'[k] = cup[k]) \/ CleanerKnown(cat[k], cup[k])'
  PROVE  IntakeInv'
<1> USE DEF IntakeInv
<1>1. IntakeTypes' /\ nextKey' \in Nat
  BY KeyNumbers DEF IntakeTypes, mailVars, CleanerLocals
<1>2. KeysGoOn /\ (Alive' => Alive)
  BY KeyNumbers DEF KeysGoOn, mailVars, jobVars, Alive, Erasing, Named, WorkspaceExists
<1>3. KeysFollow'
  BY DEF KeysFollow
<1>4. WritersFollow'
  <2>1. \A v \in Writers : WriterKnown(at[v], up[v])'
    <3> SUFFICES ASSUME NEW v \in Writers, at'[v] = at[v], up'[v] = up[v]
                 PROVE  WriterKnown(at[v], up[v])'
      OBVIOUS
    <3>1. at[v] \in Writing => intents[up[v].content].id = up[v].id
                                 /\ intents[up[v].content].state = "writing"
      BY KnownWriter DEF WriterKnown
    <3>2. at[v] = "commit" /\ Alive' => up[v].id \in objects \cap objects' \/ up[v].id \notin objects
      BY <1>2
    <3> QED BY <1>1, <1>2, <3>1, <3>2, WriterKept
  <2>2. \A v \in Writers : at'[v] \in Holding => at[v] \in Holding /\ up'[v].id = up[v].id
    OBVIOUS
  <2> QED BY <2>1, <2>2, ApartStays DEF WritersFollow
<1>5. CleanersFollow'
  <2>1. ASSUME NEW k \in Cleaners, cat[k] = "drop" PROVE cup[k].id \notin objects'
    <3>1. CleanerKnown("drop", cup[k])
      BY <2>1, KnownCleaner
    <3>2. /\ cup[k].id \notin objects /\ cup[k].id \notin invoices
          /\ \A c \in Contents : intents[c].id = cup[k].id => intents[c].state = "cleanup"
      BY <3>1 DEF CleanerKnown
    <3> QED BY <3>2
  <2> QED BY <1>1, <1>2, <2>1, CleanersKept
<1>6. StoreFollows'
  <2>1. EveryOriginalIsNamed'
    BY DEF StoreFollows, EveryOriginalIsNamed, jobVars, WorkspaceExists
  <2>2. KeptMeansStored'
    BY <1>2 DEF StoreFollows, KeptMeansStored, Alive
  <2>3. ASSUME NEW c \in Contents, doc[c].state = "removed", doc[c].id \in objects' PROVE FALSE
    <3>1. doc[c].id \notin objects /\ doc[c].id \notin invoices
      BY <2>3 DEF StoreFollows, KeysFollow
    <3>2. PICK d \in Contents : intents[d].id = doc[c].id
      BY <2>3, <3>1
    <3>3. doc[c].id # 0
      BY <2>3, KeyNumbers
    <3> QED BY <3>2, <3>3 DEF KeysFollow
  <2> QED BY <2>1, <2>2, <2>3 DEF StoreFollows
<1>7. MailFollows'
  BY DEF MailFollows, StoredOnce, CompleteMeansReceived, mailVars, jobVars, WorkspaceExists
<1> QED BY <1>1, <1>3, <1>4, <1>5, <1>6, <1>7

\* A writer changes the object store; the cleaners are left alone.
LEMMA WriterStores ==
  ASSUME IntakeInv, UNCHANGED <<nextKey, intents, doc, invoices, origin, mailVars, granted, cat, cup, jobVars>>,
         objects' \subseteq Originals,
         \A o \in objects' \ objects :
             o \in invoices \/ \E c \in Contents : intents[c].id = o /\ intents[c].state = "writing",
         Alive => \A o \in objects \ objects' :
             /\ \A c \in Contents : doc[c].id = o => doc[c].state # "kept"
             /\ \A v \in Writers : at[v] = "commit" => up[v].id # o,
         NEW w \in Writers, NEW to \in WriterPlaces, NEW l \in Uploads, Write(w, to, l),
         to # "idle" => WriterKnown(to, l)',
         to \in Holding => at[w] \in Holding /\ l.id = up[w].id
  PROVE  IntakeInv'
<1>1. /\ at' \in [Writers -> WriterPlaces] /\ up' \in [Writers -> Uploads]
      /\ at'[w] = to /\ up'[w] = IF to = "idle" THEN NoUpload ELSE l
      /\ \A v \in Writers \ {w} : at'[v] = at[v] /\ up'[v] = up[v]
  BY WriterTo DEF IntakeInv
<1>2. WriterKnown("idle", NoUpload)'
  BY NoUploadKnown DEF WriterKnown, Storing, Holding, Writing, Invoicing, Attachments
<1>3. WriterKnown(at[w], up[w])'
  BY <1>1, <1>2 DEF WriterKnown
<1>4. at'[w] \in Holding => at[w] \in Holding /\ up'[w].id = up[w].id
  BY <1>1 DEF Holding
<1>5. \A v \in Writers :
         \/ at'[v] = at[v] /\ up'[v] = up[v]
         \/ /\ WriterKnown(at[v], up[v])'
            /\ at'[v] \in Holding => at[v] \in Holding /\ up'[v].id = up[v].id
  BY <1>1, <1>3, <1>4
<1>6. cat' \in [Cleaners -> CleanerPlaces] /\ cup' \in [Cleaners -> CleanerLocals]
  BY DEF IntakeInv, IntakeTypes, CleanerLocals
<1>7. \A k \in Cleaners : cat'[k] = cat[k] /\ cup'[k] = cup[k]
  OBVIOUS
<1> QED BY <1>1, <1>5, <1>6, <1>7, ObjectsMove

LEMMA PutObjectStep ==
  ASSUME IntakeInv, NEW w \in Writers, PutObject(w) PROVE IntakeInv'
<1>0. PICK l : l = up[w]
  OBVIOUS
<1>1. /\ at[w] = "put"
      /\ UNCHANGED <<nextKey, intents, doc, invoices, origin, mailVars, granted, cat, cup, jobVars>>
  BY DEF PutObject
<1>2. PICK stored, answered \in BOOLEAN :
         /\ answered => stored
         /\ objects' = IF stored THEN objects \cup {l.id} ELSE objects
         /\ Write(w, IF answered THEN "commit" ELSE "mark", l)
  BY <1>0 DEF PutObject
<1>3. /\ WriterKnown("put", l) /\ l \in Uploads
  BY <1>0, <1>1, KnownWriter
<1>4. /\ l.content \in Contents /\ l.index \in {0} \cup Attachments
      /\ l.id \in Originals /\ l.id < nextKey /\ l.id \notin invoices
      /\ intents[l.content].id = l.id /\ intents[l.content].state = "writing"
      /\ WorkspaceExists => \A j \in Attachments : j < l.index => j \in received
  BY <1>3 DEF WriterKnown, Storing, Holding, Writing
<1>5. PICK to \in {"commit", "mark"} : Write(w, to, l) /\ (to = "commit" => l.id \in objects')
  BY <1>2
<1>6. WriterKnown(to, l)'
  BY <1>1, <1>4, <1>5
     DEF WriterKnown, Storing, Holding, Writing, Invoicing, mailVars, jobVars, WorkspaceExists
<1>7. /\ objects' \subseteq Originals /\ objects \subseteq objects'
      /\ \A o \in objects' \ objects :
            \E c \in Contents : intents[c].id = o /\ intents[c].state = "writing"
  BY <1>2, <1>4 DEF IntakeInv, IntakeTypes
<1>8. to \in WriterPlaces /\ at[w] \in Holding /\ l.id = up[w].id
  BY <1>0, <1>1 DEF WriterPlaces, Storing, Holding
<1> QED BY <1>1, <1>3, <1>5, <1>6, <1>7, <1>8, WriterStores

-----------------------------------------------------------------------------
(* Intake: an invoice.                                                     *)

LEMMA PutInvoiceStep ==
  ASSUME IntakeInv, NEW w \in Writers, PutInvoice(w) PROVE IntakeInv'
<1>0. PICK l : l = up[w]
  OBVIOUS
<1>1. /\ at[w] = "put_invoice" /\ objects' = objects \cup {l.id} /\ Write(w, "commit_invoice", l)
      /\ UNCHANGED <<nextKey, intents, doc, invoices, origin, mailVars, granted, cat, cup, jobVars>>
  BY <1>0 DEF PutInvoice
<1>2. WriterKnown("put_invoice", l) /\ l \in Uploads
  BY <1>0, <1>1, KnownWriter
<1>3. l.id \in invoices
  BY <1>2 DEF WriterKnown, Invoicing
<1>4. WriterKnown("commit_invoice", l)'
  BY <1>1, <1>2, <1>3
     DEF WriterKnown, Storing, Holding, Writing, Invoicing, mailVars, jobVars, WorkspaceExists
<1>5. objects' \subseteq Originals
  BY <1>1, <1>3 DEF IntakeInv, IntakeTypes
<1>6. "commit_invoice" \in WriterPlaces /\ "commit_invoice" \notin Holding
  BY DEF WriterPlaces, Invoicing, Holding
<1> QED BY <1>1, <1>2, <1>3, <1>4, <1>5, <1>6, WriterStores

LEMMA CommitInvoiceStep ==
  ASSUME IntakeInv, NEW w \in Writers, CommitInvoice(w) PROVE IntakeInv'
<1>1. PICK to \in {"idle", "remove_invoice"} : Write(w, to, up[w])
  BY DEF CommitInvoice
<1>2. at[w] = "commit_invoice" /\ UNCHANGED <<storeVars, mailVars, granted, cat, cup, jobVars>>
  BY DEF CommitInvoice
<1>3. to # "idle" => WriterKnown(to, up[w])
  BY <1>2, KnownWriter DEF WriterKnown, Storing, Holding, Writing, Invoicing
<1>4. to \in WriterPlaces /\ to \notin Holding /\ up[w] \in Uploads
  BY KnownWriter DEF WriterPlaces, Invoicing, Holding
<1> QED BY <1>1, <1>2, <1>3, <1>4, WriterReads

LEMMA RemoveInvoiceStep ==
  ASSUME IntakeInv, NEW w \in Writers, RemoveInvoice(w) PROVE IntakeInv'
<1>1. /\ at[w] = "remove_invoice" /\ objects' = objects \ {up[w].id} /\ Write(w, "idle", NoUpload)
      /\ UNCHANGED <<nextKey, intents, doc, invoices, origin, mailVars, granted, cat, cup, jobVars>>
  BY DEF RemoveInvoice
<1>2. up[w].id \in invoices
  BY <1>1, KnownWriter DEF WriterKnown, Invoicing
<1>3. /\ \A c \in Contents : doc[c].id # up[w].id
      /\ \A v \in Writers : at[v] = "commit" => up[v].id # up[w].id
  BY <1>2, KnownWriter DEF IntakeInv, KeysFollow, WriterKnown, Holding
<1>4. objects' \subseteq Originals /\ NoUpload \in Uploads
  BY <1>1, NoUploadKnown DEF IntakeInv, IntakeTypes
<1>5. "idle" \in WriterPlaces /\ "idle" \notin Holding
  BY DEF WriterPlaces, Holding
<1> QED BY <1>1, <1>3, <1>4, <1>5, WriterStores

\* No document is at a key that is cleaned up, and nobody commits under it.
LEMMA DeleteObjectStep ==
  ASSUME IntakeInv, NEW k \in Cleaners, DeleteObject(k) PROVE IntakeInv'
<1>0. PICK l : l = cup[k]
  OBVIOUS
<1>1. /\ cat[k] = "delete"
      /\ UNCHANGED <<nextKey, intents, doc, invoices, origin, mailVars, granted, at, up, jobVars>>
  BY DEF DeleteObject
<1>2. PICK deleted, answered \in BOOLEAN :
         /\ answered => deleted
         /\ objects' = IF deleted THEN objects \ {l.id} ELSE objects
         /\ Clean(k, IF answered THEN "drop" ELSE "unclaim", l)
  BY <1>0 DEF DeleteObject
<1>3. CleanerKnown("delete", l) /\ l \in CleanerLocals
  BY <1>0, <1>1, KnownCleaner
<1>4. PICK to \in {"drop", "unclaim"} : Clean(k, to, l) /\ (to = "drop" => l.id \notin objects')
  BY <1>2
<1>5. /\ objects' \subseteq objects /\ \A o \in objects \ objects' : o = l.id
      /\ objects' \subseteq Originals
  BY <1>2 DEF IntakeInv, IntakeTypes
<1>6. /\ \A c \in Contents : doc[c].id # l.id /\ (intents[c].id = l.id => intents[c].state = "cleanup")
  BY <1>3 DEF CleanerKnown
<1>7. ASSUME NEW v \in Writers, at[v] = "commit" PROVE up[v].id # l.id
  <2>1. /\ up[v].content \in Contents /\ intents[up[v].content].id = up[v].id
        /\ intents[up[v].content].state = "writing"
    BY <1>7, KnownWriter DEF WriterKnown, Storing, Writing
  <2> QED BY <1>6, <2>1
<1>8. CleanerKnown(to, l)'
  BY <1>1, <1>3, <1>4 DEF CleanerKnown
<1>9. /\ cat' \in [Cleaners -> CleanerPlaces] /\ cup' \in [Cleaners -> CleanerLocals]
      /\ cat'[k] = to /\ cup'[k] = l
      /\ \A j \in Cleaners \ {k} : cat'[j] = cat[j] /\ cup'[j] = cup[j]
  BY <1>3, <1>4, CleanerTo DEF IntakeInv, CleanerPlaces
<1>10. CleanerKnown(cat[k], cup[k])'
  BY <1>8, <1>9 DEF CleanerKnown
<1>11. \A j \in Cleaners : (cat'[j] = cat[j] /\ cup'[j] = cup[j]) \/ CleanerKnown(cat[j], cup[j])'
  BY <1>9, <1>10
<1>12. at' \in [Writers -> WriterPlaces] /\ up' \in [Writers -> Uploads]
  BY <1>1 DEF IntakeInv, IntakeTypes
<1>13. \A v \in Writers : at'[v] = at[v] /\ up'[v] = up[v]
  BY <1>1
<1> QED BY <1>1, <1>5, <1>6, <1>7, <1>9, <1>11, <1>12, <1>13, ObjectsMove

LEMMA CleanerKeeps ==
  ASSUME IntakeInv, NEW k \in Cleaners, CleanerStep(k) PROVE IntakeInv'
BY ClaimIntentStep, CheckCommittedStep, DeleteObjectStep, DropIntentStep, EndCleaningSteps
   DEF CleanerStep

-----------------------------------------------------------------------------
(* Intake: the deletion of a document.                                     *)

\* The row of a document goes on to its end, and its object with it.
LEMMA DocumentMoves ==
  ASSUME IntakeInv, NEW c \in Contents, NEW row \in DocumentRows, doc[c].id # 0,
         UNCHANGED <<nextKey, intents, invoices, origin, received, delivery, granted,
                     at, up, cat, cup, jobVars>>,
         doc' = [doc EXCEPT ![c] = row], objects' \in {objects, objects \ {doc[c].id}},
         row.state # "kept",
         \/ row.id = doc[c].id /\ (row.state = "removed" => doc[c].id \notin objects')
         \/ row = NoDocument /\ doc[c].id \notin objects
  PROVE  IntakeInv'
<1> USE DEF IntakeInv
<1>1. /\ doc' \in [Contents -> DocumentRows] /\ doc'[c] = row
      /\ \A d \in Contents \ {c} : doc'[d] = doc[d]
      /\ NoDocument.id = 0 /\ NoDocument.state = "none"
  BY DEF IntakeTypes, NoDocument
<1>2. IntakeTypes' /\ nextKey' \in Nat
  BY <1>1, KeyNumbers DEF IntakeTypes
<1>3. KeysGoOn /\ (Alive' => Alive)
  BY KeyNumbers DEF KeysGoOn, jobVars, Alive, Erasing, Named, WorkspaceExists
<1>4. \A d \in Contents : doc'[d].id \in {doc[d].id, 0}
  BY <1>1
<1>5. KeysFollow'
  <2>1. 0 < nextKey /\ 0 \notin invoices
    BY KeyNumbers DEF IntakeTypes
  <2>2. \A d \in Contents : doc'[d].id < nextKey /\ doc'[d].id \notin invoices
    BY <1>4, <2>1 DEF KeysFollow
  <2>3. \A d \in Contents : doc'[d].id = 0 => doc'[d] = NoDocument
    BY <1>1 DEF KeysFollow
  <2>4. \A b, d \in Contents :
          /\ intents[b].id # 0 => intents[b].id # doc'[d].id
          /\ b # d /\ doc'[b].id # 0 => doc'[b].id # doc'[d].id
    BY <1>4 DEF KeysFollow
  <2> QED BY <2>2, <2>3, <2>4 DEF KeysFollow
<1>6. WritersFollow'
  <2>1. ASSUME NEW v \in Writers PROVE WriterKnown(at[v], up[v])'
    <3>1. at[v] \in Writing => up[v].content \in Contents /\ intents[up[v].content].id = up[v].id
                                 /\ intents[up[v].content].state = "writing"
      BY KnownWriter DEF WriterKnown, Storing, Writing
    <3>2. at[v] = "commit" => up[v].id # doc[c].id
      <4> SUFFICES ASSUME at[v] = "commit" PROVE up[v].id # doc[c].id
        OBVIOUS
      <4>1. up[v].id \in Originals /\ at[v] \in Writing
        BY KnownWriter DEF WriterKnown, Holding, Writing
      <4> QED BY <3>1, <4>1, KeyNumbers DEF KeysFollow
    <3>3. at[v] = "commit" /\ Alive' => up[v].id \in objects \cap objects' \/ up[v].id \notin objects
      BY <3>2
    <3> QED BY <1>2, <1>3, <3>1, <3>3, WriterKept
  <2>2. \A v \in Writers : at'[v] \in Holding => at[v] \in Holding /\ up'[v].id = up[v].id
    OBVIOUS
  <2> QED BY <2>1, <2>2, ApartStays DEF WritersFollow
<1>7. CleanersFollow'
  <2>1. \A k \in Cleaners : cat[k] = "drop" => cup[k].id \notin objects'
    BY DEF CleanersFollow, CleanerKnown
  <2> QED BY <1>2, <1>3, <1>4, <2>1, CleanersKept
<1>8. StoreFollows'
  <2>1. EveryOriginalIsNamed'
    <3> SUFFICES ASSUME WorkspaceExists, NEW o \in objects', o \notin invoices, NEW d \in Contents,
                        o \in {intents[d].id, doc[d].id}
                 PROVE  \E b \in Contents : o \in {intents[b].id, doc'[b].id}
      BY DEF StoreFollows, EveryOriginalIsNamed, jobVars, WorkspaceExists
    <3>1. o = doc[c].id => row.id = doc[c].id
      OBVIOUS
    <3> QED BY <1>1, <3>1
  <2>2. KeptMeansStored'
    <3> SUFFICES ASSUME Alive, NEW d \in Contents, doc'[d].state = "kept"
                 PROVE  doc'[d].id \in objects'
      BY <1>3 DEF KeptMeansStored, Alive
    <3>1. d # c /\ doc[d].state = "kept" /\ doc[d].id \in objects
      BY <1>1 DEF StoreFollows, KeptMeansStored, Alive
    <3>2. doc[d].id # doc[c].id
      BY <3>1 DEF KeysFollow
    <3> QED BY <1>1, <3>1, <3>2
  <2>3. \A d \in Contents : doc'[d].state = "removed" => doc'[d].id \notin objects'
    BY <1>1 DEF StoreFollows
  <2> QED BY <2>1, <2>2, <2>3 DEF StoreFollows
<1>9. MailFollows'
  BY DEF MailFollows, StoredOnce, CompleteMeansReceived, jobVars, WorkspaceExists
<1> QED BY <1>2, <1>5, <1>6, <1>7, <1>8, <1>9

LEMMA DocumentKeeps ==
  ASSUME IntakeInv, NEW c \in Contents, DocumentStep(c) PROVE IntakeInv'
<1>1. doc[c] \in DocumentRows /\ doc \in [Contents -> DocumentRows]
  BY DEF IntakeInv, IntakeTypes
<1>2. doc[c].state \in {"kept", "deletion_pending", "removed"}
  BY DEF DocumentStep, RequestDeletion, RemoveOriginal, RemoveRow
<1>3. doc[c].id # 0
  BY <1>2 DEF IntakeInv, KeysFollow, NoDocument
<1>4. UNCHANGED <<nextKey, intents, invoices, origin, received, delivery, granted,
                  at, up, cat, cup, jobVars>>
  BY DEF DocumentStep, RequestDeletion, RemoveOriginal, RemoveRow, mailVars
<1>5. CASE RequestDeletion(c)
  <2> DEFINE row == [id |-> doc[c].id, state |-> "deletion_pending"]
  <2>1. row \in DocumentRows /\ row.id = doc[c].id /\ row.state = "deletion_pending"
    BY <1>1 DEF DocumentRows
  <2>2. [doc[c] EXCEPT !.state = "deletion_pending"] = row
    BY <1>1 DEF DocumentRows
  <2>3. doc' = [doc EXCEPT ![c] = row] /\ objects' = objects
    BY <1>1, <1>5, <2>2 DEF RequestDeletion
  <2> HIDE DEF row
  <2> QED BY <1>3, <1>4, <2>1, <2>3, DocumentMoves
<1>6. CASE RemoveOriginal(c)
  <2> DEFINE row == [id |-> doc[c].id, state |-> "removed"]
  <2>1. row \in DocumentRows /\ row.id = doc[c].id /\ row.state = "removed"
    BY <1>1 DEF DocumentRows
  <2>2. [doc[c] EXCEPT !.state = "removed"] = row
    BY <1>1 DEF DocumentRows
  <2>3. doc' = [doc EXCEPT ![c] = row] /\ objects' = objects \ {doc[c].id}
    BY <1>1, <1>6, <2>2 DEF RemoveOriginal
  <2> HIDE DEF row
  <2> QED BY <1>3, <1>4, <2>1, <2>3, DocumentMoves
<1>7. CASE RemoveRow(c)
  <2>1. doc' = [doc EXCEPT ![c] = NoDocument] /\ objects' = objects /\ doc[c].state = "removed"
    BY <1>7 DEF RemoveRow
  <2>2. NoDocument \in DocumentRows /\ NoDocument.state # "kept" /\ doc[c].id \notin objects
    BY <2>1 DEF NoDocument, DocumentRows, IntakeInv, StoreFollows
  <2> QED BY <1>3, <1>4, <2>1, <2>2, DocumentMoves
<1> QED BY <1>5, <1>6, <1>7 DEF DocumentStep

-----------------------------------------------------------------------------
(* Intake: new keys.                                                       *)

\* A key is given out; nobody knew it.
LEMMA KeyGiven ==
  ASSUME IntakeInv, UNCHANGED <<objects, doc, origin, mailVars, granted, cat, cup, jobVars>>,
         nextKey \in Originals, nextKey' = nextKey + 1,
         \/ invoices' = invoices \cup {nextKey} /\ intents' = intents
         \/ invoices' = invoices /\ \E c \in Contents :
              /\ intents[c] = NoIntent
              /\ intents' = [intents EXCEPT ![c] = [NoIntent EXCEPT !.id = nextKey, !.state = "writing"]],
         NEW w \in Writers, NEW to \in WriterPlaces, NEW l \in Uploads, Write(w, to, l),
         to # "idle", l.id = nextKey, WriterKnown(to, l)'
  PROVE  IntakeInv'
<1> USE DEF IntakeInv
<1> DEFINE new == [NoIntent EXCEPT !.id = nextKey, !.state = "writing"]
<1>1. nextKey \in Nat \ {0} /\ nextKey' \in Nat /\ nextKey < nextKey' /\ nextKey' \in 1 .. MaxOriginals + 1
  BY KeyNumbers, MailAssumption DEF Originals
<1>2. new \in IntentRows /\ new.id = nextKey /\ new.state = "writing" /\ NoIntent.id = 0
  BY DEF NoIntent, IntentRows
<1> HIDE DEF new
<1>3. /\ \A c \in Contents :
           \/ intents'[c] = intents[c]
           \/ intents[c] = NoIntent /\ intents'[c] = new /\ invoices' = invoices
      /\ \A c, d \in Contents : intents'[c] # intents[c] /\ intents'[d] # intents[d] => c = d
      /\ intents' \in [Contents -> IntentRows]
  <2>1. intents \in [Contents -> IntentRows]
    BY DEF IntakeTypes
  <2> QED BY <1>2, <2>1 DEF new
<1>4. /\ at' \in [Writers -> WriterPlaces] /\ up' \in [Writers -> Uploads]
      /\ at'[w] = to /\ up'[w] = l
      /\ \A v \in Writers \ {w} : at'[v] = at[v] /\ up'[v] = up[v]
  BY WriterTo
<1>5. invoices' \subseteq Originals /\ invoices' \in {invoices, invoices \cup {nextKey}}
  BY DEF IntakeTypes
<1>6. IntakeTypes'
  BY <1>1, <1>3, <1>4, <1>5 DEF IntakeTypes, mailVars
<1>7. KeysGoOn
  BY <1>1, <1>5 DEF KeysGoOn, mailVars, jobVars, Alive, Erasing, Named, WorkspaceExists
<1>8. /\ \A o \in invoices : o < nextKey /\ o \in Nat
      /\ \A c \in Contents : intents[c].id < nextKey /\ doc[c].id < nextKey
                             /\ intents[c].id \in Nat /\ doc[c].id \in Nat
  BY KeyNumbers DEF KeysFollow, IntakeTypes
<1>9. KeysFollow'
  <2>1. \A o \in invoices' : o < nextKey'
    BY <1>1, <1>5, <1>8
  <2>2. \A c \in Contents :
          /\ intents'[c].id < nextKey' /\ intents'[c].id \notin invoices'
          /\ doc[c].id < nextKey' /\ doc[c].id \notin invoices'
    <3> TAKE c \in Contents
    <3>1. doc[c].id < nextKey' /\ doc[c].id # nextKey /\ doc[c].id \notin invoices
      BY <1>1, <1>8 DEF KeysFollow
    <3>2. CASE intents'[c] = intents[c]
      <4>1. intents[c].id < nextKey' /\ intents[c].id # nextKey /\ intents[c].id \notin invoices
        BY <1>1, <1>8 DEF KeysFollow
      <4> QED BY <1>5, <3>1, <3>2, <4>1
    <3>3. CASE intents'[c] = new /\ invoices' = invoices
      <4>1. nextKey \notin invoices
        BY <1>1, <1>8
      <4> QED BY <1>1, <1>2, <1>5, <3>1, <3>3, <4>1
    <3> QED BY <1>3, <3>2, <3>3
  <2>3. \A c \in Contents : intents'[c].id = 0 => intents'[c] = NoIntent
    BY <1>1, <1>2, <1>3 DEF KeysFollow
  <2>4. \A c, d \in Contents : intents'[c].id # 0 => intents'[c].id # doc[d].id
    BY <1>1, <1>2, <1>3, <1>8 DEF KeysFollow
  <2>5. \A c, d \in Contents : c # d /\ intents'[c].id # 0 => intents'[c].id # intents'[d].id
    <3> TAKE c, d \in Contents
    <3>1. intents[c].id # nextKey /\ intents[d].id # nextKey
      BY <1>1, <1>8
    <3> QED BY <1>2, <1>3, <3>1 DEF KeysFollow
  <2> QED BY <2>1, <2>2, <2>3, <2>4, <2>5 DEF KeysFollow
<1>10. WritersFollow'
  <2>1. ASSUME NEW v \in Writers, v # w PROVE WriterKnown(at[v], up[v])'
    <3>1. at[v] \in Writing =>
             /\ up[v].content \in Contents /\ up[v].id \in Originals /\ up[v].id # 0
             /\ intents[up[v].content].id = up[v].id /\ intents[up[v].content].state = "writing"
      BY KnownWriter, KeyNumbers DEF WriterKnown, Storing, Holding, Writing
    <3>2. at[v] \in Writing => intents'[up[v].content].id = up[v].id
                                 /\ intents'[up[v].content].state = "writing"
      BY <1>2, <1>3, <3>1
    <3>3. up[v].id \in objects \cap objects' \/ up[v].id \notin objects
      OBVIOUS
    <3> QED BY <1>1, <1>4, <1>7, <2>1, <3>2, <3>3, WriterKept
  <2>2. WriterKnown(at[w], up[w])'
    BY <1>4 DEF WriterKnown
  <2>3. \A v \in Writers : at[v] \in Holding => up[v].id # nextKey
    BY <1>1, KnownWriter, KeyNumbers DEF WriterKnown
  <2>4. \A u, v \in Writers : u # v /\ at'[u] \in Holding /\ at'[v] \in Holding
                                  => up'[u].id # up'[v].id
    BY <1>4, <2>3 DEF WritersFollow
  <2> QED BY <2>1, <2>2, <2>4 DEF WritersFollow
<1>11. CleanersFollow'
  <2>1. \A c \in Contents :
           \/ /\ intents'[c].id = intents[c].id
              /\ intents[c].state = "cleanup" => intents'[c].state = "cleanup"
           \/ intents'[c].id >= nextKey
    BY <1>1, <1>2, <1>3
  <2>2. \A k \in Cleaners : cat[k] = "drop" => cup[k].id \notin objects'
    BY DEF CleanersFollow, CleanerKnown
  <2> QED BY <1>1, <1>7, <2>1, <2>2, CleanersKept
<1>12. StoreFollows'
  <2>1. EveryOriginalIsNamed'
    <3> SUFFICES ASSUME WorkspaceExists, NEW o \in objects, o \notin invoices,
                        NEW c \in Contents, o = intents[c].id
                 PROVE  o = intents'[c].id
      BY <1>5 DEF StoreFollows, EveryOriginalIsNamed, jobVars, WorkspaceExists
    <3>1. o # 0
      BY KeyNumbers DEF IntakeTypes
    <3> QED BY <1>2, <1>3, <3>1
  <2>2. KeptMeansStored'
    BY DEF StoreFollows, KeptMeansStored, jobVars, Erasing, Named, WorkspaceExists
  <2> QED BY <2>1, <2>2 DEF StoreFollows
<1>13. MailFollows'
  BY DEF MailFollows, StoredOnce, CompleteMeansReceived, mailVars, jobVars, WorkspaceExists
<1> QED BY <1>6, <1>9, <1>10, <1>11, <1>12, <1>13

LEMMA ReserveStep ==
  ASSUME IntakeInv, NEW w \in Writers, Reserve(w) PROVE IntakeInv'
<1>1. at[w] = "reserve"
      /\ UNCHANGED <<objects, doc, invoices, origin, mailVars, granted, cat, cup, jobVars>>
  BY DEF Reserve
<1>2. CASE Leave(w) /\ UNCHANGED <<intents, nextKey>>
  BY <1>1, <1>2, LeaveStep DEF storeVars
<1>3. CASE ~(Leave(w) /\ UNCHANGED <<intents, nextKey>>)
  <2>0. PICK u, o : u = up[w] /\ o = nextKey
    OBVIOUS
  <2> DEFINE c == u.content
             l == [u EXCEPT !.id = o]
             new == [NoIntent EXCEPT !.id = o, !.state = "writing"]
  <2>1. /\ intents[c] = NoIntent /\ o \in Originals /\ nextKey' = o + 1
        /\ intents' = [intents EXCEPT ![c] = new] /\ Write(w, "put", l)
    BY <1>3, <2>0 DEF Reserve
  <2>2. WriterKnown("reserve", u) /\ u \in Uploads
    BY <1>1, <2>0, KnownWriter
  <2>3. /\ c \in Contents /\ u.index \in {0} \cup Attachments
        /\ WorkspaceExists => \A j \in Attachments : j < u.index => j \in received
    BY <2>2 DEF WriterKnown, Storing
  <2>4. l \in Uploads /\ l.id = o /\ l.content = c /\ l.index = u.index
    BY <2>1, <2>2 DEF Uploads
  <2>5. intents'[c].id = o /\ intents'[c].state = "writing"
    BY <2>1, <2>3 DEF IntakeInv, IntakeTypes, NoIntent
  <2>6. o < nextKey' /\ o \notin invoices
    BY <2>0, <2>1, KeyNumbers DEF IntakeInv, KeysFollow, IntakeTypes
  <2>7. /\ intents[c] = NoIntent
        /\ intents' = [intents EXCEPT ![c] = [NoIntent EXCEPT !.id = nextKey, !.state = "writing"]]
    BY <2>0, <2>1
  <2> HIDE DEF c, l, new
  <2>8. WriterKnown("put", l)'
    BY <1>1, <2>1, <2>3, <2>4, <2>5, <2>6
       DEF WriterKnown, Storing, Holding, Writing, Invoicing, mailVars, jobVars, WorkspaceExists
  <2>9. "put" \in WriterPlaces
    BY DEF WriterPlaces, Storing
  <2> QED BY <1>1, <2>0, <2>1, <2>3, <2>4, <2>7, <2>8, <2>9, KeyGiven
<1> QED BY <1>2, <1>3

LEMMA BeginInvoiceStep ==
  ASSUME IntakeInv, NEW w \in Writers, BeginInvoice(w) PROVE IntakeInv'
<1>0. PICK o : o = nextKey
  OBVIOUS
<1> DEFINE l == [NoUpload EXCEPT !.id = o]
<1>1. /\ o \in Originals /\ nextKey' = o + 1 /\ invoices' = invoices \cup {o}
      /\ Write(w, "put_invoice", l)
      /\ UNCHANGED <<objects, intents, doc, origin, mailVars, granted, cat, cup, jobVars>>
  BY <1>0 DEF BeginInvoice
<1>2. l \in Uploads /\ l.id = o /\ l.index = 0
  BY <1>1 DEF NoUpload, Uploads
<1> HIDE DEF l
<1>3. WriterKnown("put_invoice", l)' /\ "put_invoice" \in WriterPlaces
  BY <1>1, <1>2 DEF WriterKnown, Storing, Holding, Writing, Invoicing, Attachments, WriterPlaces
<1> QED BY <1>0, <1>1, <1>2, <1>3, KeyGiven

-----------------------------------------------------------------------------
(* Intake: a document is committed, or its intent given up.                *)

\* The batch that inserts a document takes its key over from the intent.
LEMMA Committed ==
  ASSUME IntakeInv, UNCHANGED <<objects, nextKey, invoices, delivery, granted, cat, cup, jobVars>>,
         NEW w \in Writers, at[w] = "commit",
         NEW c \in Contents, NEW o \in Originals, NEW i \in {0} \cup Attachments,
         up[w].content = c, up[w].id = o, Alive, i \notin received,
         intents[c].id = o, intents[c].state = "writing", doc[c] = NoDocument,
         doc' = [doc EXCEPT ![c] = [id |-> o, state |-> "kept"]],
         intents' = [intents EXCEPT ![c] = NoIntent],
         received' = (IF i > 0 THEN received \cup {i} ELSE received),
         origin' = [origin EXCEPT ![o] = i],
         NEW to \in {"mark", "attachment", "idle"}, NEW l \in Uploads, Write(w, to, l),
         to # "idle" => WriterKnown(to, l)', to = "mark" => l.id = o
  PROVE  IntakeInv'
<1> USE DEF IntakeInv
<1> DEFINE row == [id |-> o, state |-> "kept"]
<1>1. /\ row \in DocumentRows /\ row.id = o /\ row.state = "kept"
      /\ NoIntent \in IntentRows /\ NoIntent.id = 0 /\ NoIntent.state = "none"
      /\ NoDocument.id = 0 /\ o # 0 /\ o \in Nat
  BY KeyNumbers DEF DocumentRows, IntentRows, NoIntent, NoDocument
<1>2. /\ doc'[c] = row /\ \A d \in Contents \ {c} : doc'[d] = doc[d]
      /\ doc' \in [Contents -> DocumentRows]
  BY <1>1 DEF IntakeTypes
<1>3. /\ intents'[c] = NoIntent /\ \A d \in Contents \ {c} : intents'[d] = intents[d]
      /\ intents' \in [Contents -> IntentRows]
  BY <1>1 DEF IntakeTypes
<1> HIDE DEF row
<1>4. /\ at' \in [Writers -> WriterPlaces] /\ up' \in [Writers -> Uploads]
      /\ at'[w] = to /\ (to # "idle" => up'[w] = l) /\ (to = "idle" => up'[w] = NoUpload)
      /\ \A v \in Writers \ {w} : at'[v] = at[v] /\ up'[v] = up[v]
  <2>1. to \in WriterPlaces
    BY DEF WriterPlaces, Storing
  <2> QED BY <2>1, WriterTo
<1>5. received \subseteq received' /\ received' \subseteq Attachments
  BY DEF IntakeTypes
<1>6. /\ origin' \in [Originals -> {0} \cup Attachments]
      /\ origin'[o] = i /\ \A b \in Originals \ {o} : origin'[b] = origin[b]
  BY DEF IntakeTypes
<1>7. nextKey' \in Nat /\ o < nextKey /\ o \notin invoices
  BY KeyNumbers DEF KeysFollow
<1>8. IntakeTypes'
  BY <1>2, <1>3, <1>4, <1>5, <1>6 DEF IntakeTypes
<1>9. KeysGoOn
  BY <1>5, KeyNumbers DEF KeysGoOn, jobVars, Alive, Erasing, Named, WorkspaceExists
<1>10. \A d \in Contents \ {c} : intents[d].id # o /\ doc[d].id # o
  BY <1>1 DEF KeysFollow
<1>11. KeysFollow'
  <2>1. \A d \in Contents :
          /\ intents'[d].id < nextKey /\ intents'[d].id \notin invoices
          /\ intents'[d].id = 0 => intents'[d] = NoIntent
    <3> TAKE d \in Contents
    <3>1. 0 < nextKey /\ 0 \notin invoices
      BY KeyNumbers DEF IntakeTypes
    <3>2. CASE d = c
      BY <1>1, <1>3, <3>1, <3>2
    <3>3. CASE d # c
      BY <1>3, <3>3 DEF KeysFollow
    <3> QED BY <3>2, <3>3
  <2>2. \A d \in Contents :
          /\ doc'[d].id < nextKey /\ doc'[d].id \notin invoices
          /\ doc'[d].id = 0 => doc'[d] = NoDocument
    BY <1>1, <1>2, <1>7 DEF KeysFollow
  <2>3. \A d, e \in Contents :
          /\ intents'[d].id # 0 => intents'[d].id # doc'[e].id
          /\ d # e /\ intents'[d].id # 0 => intents'[d].id # intents'[e].id
          /\ d # e /\ doc'[d].id # 0 => doc'[d].id # doc'[e].id
    <3> TAKE d, e \in Contents
    <3>1. intents'[d].id # 0 => d # c /\ intents'[d] = intents[d] /\ intents[d].id # o
      BY <1>1, <1>3, <1>10
    <3>2. doc'[e].id = o \/ (e # c /\ doc'[e] = doc[e])
      BY <1>1, <1>2
    <3>3. intents'[e].id = 0 \/ (e # c /\ intents'[e] = intents[e])
      BY <1>1, <1>3
    <3>4. d # e /\ doc'[d].id # 0 => doc'[d].id # doc'[e].id
      <4>1. CASE d = c
        BY <1>1, <1>2, <1>10, <4>1
      <4>2. CASE d # c /\ e = c
        BY <1>1, <1>2, <1>10, <4>2
      <4>3. CASE d # c /\ e # c
        BY <1>2, <4>3 DEF KeysFollow
      <4> QED BY <4>1, <4>2, <4>3
    <3>5. intents'[d].id # 0 => intents'[d].id # doc'[e].id
      BY <3>1, <3>2 DEF KeysFollow
    <3>6. d # e /\ intents'[d].id # 0 => intents'[d].id # intents'[e].id
      BY <3>1, <3>3 DEF KeysFollow
    <3> QED BY <3>4, <3>5, <3>6
  <2>4. \A b \in invoices' : b < nextKey'
    BY DEF KeysFollow
  <2> QED BY <2>1, <2>2, <2>3, <2>4 DEF KeysFollow
<1>12. WritersFollow'
  <2>1. ASSUME NEW v \in Writers, v # w PROVE WriterKnown(at[v], up[v])'
    <3>1. at[v] \in Writing => /\ up[v].content \in Contents /\ up[v].id # o
                               /\ intents[up[v].content].id = up[v].id
                               /\ intents[up[v].content].state = "writing"
      BY <2>1, KnownWriter DEF WriterKnown, WritersFollow, Storing, Holding, Writing
    <3>2. at[v] \in Writing => intents'[up[v].content].id = up[v].id
                                 /\ intents'[up[v].content].state = "writing"
      BY <1>3, <3>1
    <3>3. up[v].id \in objects \cap objects' \/ up[v].id \notin objects
      OBVIOUS
    <3> QED BY <1>4, <1>7, <1>9, <2>1, <3>2, <3>3, WriterKept
  <2>2. WriterKnown(at[w], up[w])'
    <3>1. WriterKnown("idle", NoUpload)'
      BY NoUploadKnown DEF WriterKnown, Storing, Holding, Writing, Invoicing, Attachments
    <3> QED BY <1>4, <3>1 DEF WriterKnown
  <2>3. \A v \in Writers : at'[v] \in Holding => at[v] \in Holding /\ up'[v].id = up[v].id
    BY <1>4 DEF Holding
  <2> QED BY <2>1, <2>2, <2>3, ApartStays DEF WritersFollow
<1>13. CleanersFollow'
  <2>1. \A d \in Contents :
          \/ /\ intents'[d].id = intents[d].id
             /\ intents[d].state = "cleanup" => intents'[d].state = "cleanup"
          \/ intents'[d].id = 0
    BY <1>1, <1>3
  <2>2. \A d \in Contents :
          \/ doc'[d].id = doc[d].id
          \/ \E e \in Contents : intents[e].id = doc'[d].id /\ intents[e].state = "writing"
    BY <1>1, <1>2
  <2>3. \A k \in Cleaners : cat[k] = "drop" => cup[k].id \notin objects'
    BY DEF CleanersFollow, CleanerKnown
  <2> QED BY <1>7, <1>9, <2>1, <2>2, <2>3, CleanersKept
<1>14. StoreFollows'
  <2>1. EveryOriginalIsNamed'
    <3> SUFFICES ASSUME NEW b \in objects, b \notin invoices, NEW d \in Contents,
                        b \in {intents[d].id, doc[d].id}
                 PROVE  \E e \in Contents : b \in {intents'[e].id, doc'[e].id}
      BY DEF StoreFollows, EveryOriginalIsNamed, Alive
    <3>1. CASE d = c
      <4>1. b # 0
        BY KeyNumbers DEF IntakeTypes
      <4> QED BY <1>1, <1>2, <3>1, <4>1
    <3>2. CASE d # c
      BY <1>2, <1>3, <3>2
    <3> QED BY <3>1, <3>2
  <2>2. KeptMeansStored'
    <3>1. o \in objects
      BY KnownWriter DEF WriterKnown
    <3> QED BY <1>1, <1>2, <3>1 DEF StoreFollows, KeptMeansStored, Alive
  <2>3. \A d \in Contents : doc'[d].state = "removed" => doc'[d].id \notin objects'
    BY <1>1, <1>2 DEF StoreFollows
  <2> QED BY <2>1, <2>2, <2>3 DEF StoreFollows
<1>15. MailFollows'
  <2>1. StoredOnce'
    <3>1. \A b \in Originals : origin[b] # 0 => origin[b] # i
      BY DEF MailFollows, Alive
    <3> QED BY <1>6, <3>1 DEF MailFollows, StoredOnce
  <2>2. CompleteMeansReceived'
    BY <1>5 DEF MailFollows, CompleteMeansReceived
  <2>3. \A b \in Originals : origin'[b] # 0 => origin'[b] \in received'
    BY <1>5, <1>6 DEF MailFollows, Alive, Attachments
  <2> QED BY <2>1, <2>2, <2>3 DEF MailFollows
<1> QED BY <1>8, <1>11, <1>12, <1>13, <1>14, <1>15

LEMMA CommitOriginalStep ==
  ASSUME IntakeInv, NEW w \in Writers, CommitOriginal(w) PROVE IntakeInv'
<1>0. PICK u : u = up[w]
  OBVIOUS
<1> DEFINE c == u.content
           i == u.index
           o == u.id
           permitted ==
             /\ Guard(w) /\ intents[c].id = o /\ intents[c].state = "writing"
             /\ WorkspaceExists /\ doc[c] = NoDocument /\ i \notin received
<1>1. /\ at[w] = "commit"
      /\ UNCHANGED <<objects, nextKey, invoices, delivery, granted, cat, cup, jobVars>>
  BY DEF CommitOriginal
<1>2. WriterKnown("commit", u) /\ u \in Uploads
  BY <1>0, <1>1, KnownWriter
<1>3. /\ c \in Contents /\ i \in {0} \cup Attachments /\ o \in Originals
      /\ o < nextKey /\ o \notin invoices
      /\ WorkspaceExists => \A j \in Attachments : j < i => j \in received
  BY <1>2 DEF WriterKnown, Storing, Holding
<1>4. "mark" \in WriterPlaces /\ at[w] \in Holding
  BY <1>1 DEF WriterPlaces, Storing, Holding
<1>5. CASE ~permitted
  <2>1. Write(w, "mark", u) /\ UNCHANGED <<storeVars, mailVars, granted, cat, cup, jobVars>>
    BY <1>0, <1>1, <1>5 DEF CommitOriginal, storeVars, mailVars
  <2>2. WriterKnown("mark", u)
    BY <1>2 DEF WriterKnown, Storing, Holding, Writing, Invoicing
  <2> QED BY <1>0, <1>2, <1>4, <2>1, <2>2, WriterReads
<1>6. CASE permitted
  <2>1. /\ doc' = [doc EXCEPT ![c] = [id |-> o, state |-> "kept"]]
        /\ intents' = [intents EXCEPT ![c] = NoIntent]
        /\ received' = (IF i > 0 THEN received \cup {i} ELSE received)
        /\ origin' = [origin EXCEPT ![o] = i]
        /\ \/ Write(w, "mark", u)
           \/ i > 0 /\ Write(w, "attachment", [NoUpload EXCEPT !.index = i + 1])
           \/ Write(w, "idle", NoUpload)
    BY <1>0, <1>6 DEF CommitOriginal
  <2>2. /\ Alive /\ i \notin received /\ intents[c].id = o /\ intents[c].state = "writing"
        /\ doc[c] = NoDocument
    BY <1>6 DEF Guard, Alive
  <2>3. received \subseteq received'
    BY <2>1
  <2>4. \E to \in {"mark", "attachment", "idle"}, l \in Uploads :
           /\ Write(w, to, l) /\ (to # "idle" => WriterKnown(to, l)')
           /\ to = "mark" => l.id = o
    <3>1. CASE Write(w, "mark", u)
      <4>1. WriterKnown("mark", u)'
        BY <1>1, <1>2, <1>3, <2>3
           DEF WriterKnown, Storing, Holding, Writing, Invoicing, jobVars, WorkspaceExists
      <4> QED BY <1>2, <3>1, <4>1
    <3>2. CASE i > 0 /\ Write(w, "attachment", [NoUpload EXCEPT !.index = i + 1])
      <4>1. i \in Attachments /\ i \in received' /\ (WorkspaceExists' => WorkspaceExists)
        BY <1>1, <1>3, <2>1, <3>2 DEF Attachments, jobVars, WorkspaceExists
      <4>2. PICK l \in Uploads :
               l = [NoUpload EXCEPT !.index = i + 1] /\ WriterKnown("attachment", l)'
        BY <1>0, <2>3, <4>1, NextKnown
      <4> QED BY <3>2, <4>2
    <3>3. CASE Write(w, "idle", NoUpload)
      BY <3>3, NoUploadKnown
    <3> QED BY <2>1, <3>1, <3>2, <3>3
  <2>5. PICK to \in {"mark", "attachment", "idle"}, l \in Uploads :
           /\ Write(w, to, l) /\ (to # "idle" => WriterKnown(to, l)')
           /\ to = "mark" => l.id = o
    BY <2>4
  <2> QED BY <1>0, <1>1, <1>3, <2>1, <2>2, <2>5, Committed
<1> QED BY <1>5, <1>6

\* Only the writer that held the intent marks it.
LEMMA MarkForCleanupStep ==
  ASSUME IntakeInv, NEW w \in Writers, MarkForCleanup(w) PROVE IntakeInv'
<1>0. PICK u : u = up[w]
  OBVIOUS
<1> DEFINE c == u.content
           gone == [intents[c] EXCEPT !.state = "cleanup"]
<1>1. /\ at[w] = "mark" /\ Write(w, "recheck", u)
      /\ intents' = IF intents[c].id = u.id THEN [intents EXCEPT ![c].state = "cleanup"] ELSE intents
      /\ UNCHANGED <<objects, nextKey, doc, invoices, origin, mailVars, granted, cat, cup, jobVars>>
  BY <1>0 DEF MarkForCleanup
<1>2. WriterKnown("mark", u) /\ u \in Uploads
  BY <1>0, <1>1, KnownWriter
<1>3. /\ c \in Contents /\ u.id \in Originals /\ u.index \in {0} \cup Attachments /\ u.id # 0
      /\ WorkspaceExists => \A j \in Attachments : j < u.index => j \in received
  BY <1>2, KeyNumbers DEF WriterKnown, Storing, Holding, IntakeInv
<1>4. intents \in [Contents -> IntentRows] /\ intents[c] \in IntentRows
  BY <1>3 DEF IntakeInv, IntakeTypes
<1>5. gone \in IntentRows /\ gone.id = intents[c].id /\ gone.state = "cleanup"
  BY <1>4 DEF IntentRows
<1>6. intents' = intents \/ (intents[c].id = u.id /\ intents' = [intents EXCEPT ![c] = gone])
  BY <1>1
<1> HIDE DEF gone
<1>7. /\ intents' \in [Contents -> IntentRows]
      /\ \A d \in Contents :
           /\ intents'[d].id = intents[d].id
           /\ intents'[d].state \in {intents[d].state, "cleanup"}
           /\ intents[d].id = 0 => intents'[d] = intents[d]
      /\ \A d \in Contents : intents'[d] = intents[d] \/ intents[d].id = u.id
  BY <1>3, <1>4, <1>5, <1>6
<1>8. /\ at' \in [Writers -> WriterPlaces] /\ up' \in [Writers -> Uploads]
      /\ at'[w] = "recheck" /\ up'[w] = u
      /\ \A v \in Writers \ {w} : at'[v] = at[v] /\ up'[v] = up[v]
  <2>1. "recheck" \in WriterPlaces
    BY DEF WriterPlaces, Storing
  <2> QED BY <1>1, <1>2, <2>1, WriterTo DEF IntakeInv
<1>9. WriterKnown("recheck", u)'
  BY <1>1, <1>3 DEF WriterKnown, Storing, Holding, Writing, Invoicing, mailVars, jobVars, WorkspaceExists
<1>10. WriterKnown(at[w], up[w])'
  BY <1>8, <1>9 DEF WriterKnown
<1>11. ASSUME NEW v \in Writers, v # w
       PROVE  /\ at'[v] = at[v] /\ up'[v] = up[v]
              /\ at[v] \in Writing => intents'[up[v].content].state = "writing"
  <2>1. at[v] \in Writing => /\ up[v].content \in Contents /\ up[v].id # u.id
                             /\ intents[up[v].content].id = up[v].id
                             /\ intents[up[v].content].state = "writing"
    BY <1>0, <1>1, <1>11, KnownWriter
       DEF WriterKnown, IntakeInv, WritersFollow, Storing, Holding, Writing
  <2> QED BY <1>7, <1>8, <1>11, <2>1
<1>12. at'[w] \notin Holding
  BY <1>8 DEF Holding
<1>13. \A v \in Writers :
         \/ /\ at'[v] = at[v] /\ up'[v] = up[v]
            /\ at[v] \in Writing => intents'[up[v].content].state = "writing"
         \/ /\ WriterKnown(at[v], up[v])'
            /\ at'[v] \in Holding => at[v] \in Holding /\ up'[v].id = up[v].id
  BY <1>10, <1>11, <1>12
<1>14. cat' \in [Cleaners -> CleanerPlaces] /\ cup' \in [Cleaners -> CleanerLocals]
  BY <1>1 DEF IntakeInv, IntakeTypes, CleanerLocals
<1>15. \A k \in Cleaners : cat'[k] = cat[k] /\ cup'[k] = cup[k]
  BY <1>1
<1> QED BY <1>1, <1>7, <1>8, <1>13, <1>14, <1>15, IntentsMove

LEMMA StoreKeeps ==
  ASSUME IntakeInv, NEW w \in Writers, StoreStep(w) PROVE IntakeInv'
BY BeginUploadStep, FindExistingStep, CheckPendingStep, ReserveStep, PutObjectStep,
   CommitOriginalStep, MarkForCleanupStep, FindDuplicateStep, RecordDuplicateStep, StopWriterSteps
   DEF StoreStep

LEMMA IngestKeeps ==
  ASSUME IntakeInv, IngestNext PROVE IntakeInv'
<1>1. CASE \E w \in Writers : DeliveryStep(w)
  BY <1>1, BeginDeliveryStep, ClaimDeliveryStep, NextAttachmentStep, FinishDeliveryStep,
     ReleaseDeliveryStep DEF DeliveryStep
<1>2. CASE \E w \in Writers : InvoiceStep(w)
  BY <1>2, BeginInvoiceStep, PutInvoiceStep, CommitInvoiceStep, RemoveInvoiceStep DEF InvoiceStep
<1> QED BY <1>1, <1>2, StoreKeeps, CleanerKeeps, DocumentKeeps, IntentLeaseExpiresStep,
           MailboxSteps DEF IngestNext

-----------------------------------------------------------------------------
(* Deletion: what it does to the intake.                                   *)

\* A step of billing or of the deletion that leaves the rows of the intake.
LEMMA IngestStays ==
  ASSUME IntakeInv, UNCHANGED ingestVars, WorkspaceExists' => WorkspaceExists, Alive' => Alive
  PROVE  IntakeInv'
<1> USE DEF IntakeInv, ingestVars, storeVars, mailVars
<1>1. IntakeTypes' /\ KeysFollow' /\ nextKey' \in Nat
  BY KeyNumbers DEF IntakeTypes, KeysFollow
<1>2. KeysGoOn
  BY KeyNumbers DEF KeysGoOn
<1>3. WritersFollow'
  BY DEF WritersFollow, WriterKnown
<1>4. CleanersFollow'
  BY DEF CleanersFollow, CleanerKnown
<1>5. StoreFollows'
  BY DEF StoreFollows, EveryOriginalIsNamed, KeptMeansStored, Alive
<1>6. MailFollows'
  BY DEF MailFollows, StoredOnce, CompleteMeansReceived
<1> QED BY <1>1, <1>3, <1>4, <1>5, <1>6

\* What the deletion lists and deletes: the workspace is being erased.
LEMMA DeleteObjectsKeeps ==
  ASSUME IntakeInv, DeletionInv, NEW d \in Attempters, DeleteObjects(d) PROVE IntakeInv'
<1>1. /\ dat[d] = "delete" /\ objects' = objects \ dmy[d].keys
      /\ UNCHANGED <<nextKey, intents, doc, invoices, origin, mailVars, granted,
                     at, up, cat, cup, jobVars>>
  BY DEF DeleteObjects
<1>2. ~Alive
  BY <1>1, KnownClosing DEF DeletionInv, StagesFollow, Confirmed, BillingDone, Alive, Erasing,
                            Named, WorkspaceExists
<1>3. /\ objects' \subseteq Originals /\ at' \in [Writers -> WriterPlaces] /\ up' \in [Writers -> Uploads]
      /\ cat' \in [Cleaners -> CleanerPlaces] /\ cup' \in [Cleaners -> CleanerLocals]
  BY <1>1 DEF IntakeInv, IntakeTypes, CleanerLocals
<1> QED BY <1>1, <1>2, <1>3, ObjectsMove

LEMMA EraseLocalKeeps ==
  ASSUME IntakeInv, NEW d \in Attempters, EraseLocal(d), workspace \in {"present", "erased", "forgotten"}
  PROVE  IntakeInv'
<1> USE DEF IntakeInv
<1>1. /\ ~WorkspaceExists' /\ ~Alive'
      /\ doc' = [c \in Contents |-> NoDocument] /\ received' = {}
      /\ delivery' = [status |-> "none", by |-> Nobody, live |-> FALSE]
      /\ UNCHANGED <<objects, nextKey, intents, invoices, origin, granted, at, up, cat, cup>>
  BY DEF EraseLocal, WorkspaceExists, Alive
<1>2. NoDocument \in DocumentRows /\ NoDocument.id = 0 /\ NoDocument.state = "none"
  BY DEF NoDocument, DocumentRows
<1>3. \A c \in Contents : doc'[c] = NoDocument
  BY <1>1
<1>4. IntakeTypes' /\ nextKey' \in Nat
  BY <1>1, <1>2, KeyNumbers DEF IntakeTypes
<1>5. KeysGoOn
  BY <1>1, KeyNumbers DEF KeysGoOn
<1>6. KeysFollow'
  <2>1. 0 < nextKey /\ 0 \notin invoices
    BY KeyNumbers DEF IntakeTypes
  <2> QED BY <1>1, <1>2, <1>3, <2>1 DEF KeysFollow
<1>7. WritersFollow'
  BY <1>1 DEF WritersFollow, WriterKnown
<1>8. CleanersFollow'
  <2>1. \A k \in Cleaners : cat'[k] # "idle" => cup'[k].id # 0
    BY <1>1, KeyNumbers DEF CleanersFollow, CleanerKnown
  <2> QED BY <1>1, <1>2, <1>3, <2>1 DEF CleanersFollow, CleanerKnown
<1>9. StoreFollows'
  BY <1>1, <1>2, <1>3 DEF StoreFollows, EveryOriginalIsNamed, KeptMeansStored, Alive
<1>10. MailFollows'
  BY <1>1 DEF MailFollows, StoredOnce, CompleteMeansReceived
<1> QED BY <1>4, <1>6, <1>7, <1>8, <1>9, <1>10

LEMMA DeletionKeepsIntake ==
  ASSUME IntakeInv, DeletionInv, DeletionNext PROVE IntakeInv'
<1>1. workspace \in {"present", "erased", "forgotten"}
  BY DEF DeletionInv, DeletionTypes
<1>2. CASE \E d \in Attempters : DeleteObjects(d) \/ EraseLocal(d)
  BY <1>1, <1>2, DeleteObjectsKeeps, EraseLocalKeeps
<1>3. CASE ~(\E d \in Attempters : DeleteObjects(d) \/ EraseLocal(d))
  <2>1. /\ UNCHANGED ingestVars
        /\ workspace' \in {workspace, "forgotten"}
        /\ UNCHANGED jobVars \/ workspace' = "forgotten" \/ stage' = "confirmed" \/ stage = "none"
    <3>1. CASE RequestClosure \/ JobLeaseExpires
      BY <3>1 DEF RequestClosure, JobLeaseExpires, others, jobVars
    <3>2. CASE \E d \in Attempters :
                 \/ AcquireJob(d) \/ RenewJob(d) \/ ThrowAdvance(d) \/ EvictAdvance(d)
                 \/ ReleaseJob(d) \/ ReadJob(d) \/ ReviewJob(d) \/ ReadBilling(d) \/ SavePlan(d)
                 \/ CloseCheckout(d) \/ InspectSession(d) \/ SaveMilestone(d)
                 \/ AssertDisposed(d) \/ ListObjects(d) \/ RemoveIdentity(d) \/ EraseMarketing(d)
      BY <3>2 DEF AcquireJob, RenewJob, ThrowAdvance, EvictAdvance, ReleaseJob, ReadJob,
                  ReviewJob, ReadBilling, SavePlan, CloseCheckout, InspectSession,
                  SaveMilestone, AssertDisposed, ListObjects, RemoveIdentity, EraseMarketing,
                  others, jobVars
    <3>3. CASE \E d \in Attempters :
                 SubmitForClosing(d) \/ SaveForClosing(d) \/ ExpireForClosing(d) \/ CancelSubscription(d)
      BY <3>3 DEF SubmitForClosing, SaveForClosing, ExpireForClosing, CancelSubscription, jobVars
    <3>4. CASE \E d \in Attempters : ConfirmJob(d) \/ CompleteJob(d)
      BY <3>4 DEF ConfirmJob, CompleteJob, others
    <3> QED BY <1>3, <3>1, <3>2, <3>3, <3>4 DEF DeletionNext, AttemptStep
  <2>2. WorkspaceExists' => WorkspaceExists
    BY <1>1, <2>1 DEF WorkspaceExists
  <2>3. Alive' => Alive
    BY <1>1, <2>1 DEF Alive, Erasing, Named, WorkspaceExists, jobVars
  <2> QED BY <2>1, <2>2, <2>3, IngestStays
<1> QED BY <1>2, <1>3

LEMMA BillingKeepsIntake ==
  ASSUME IntakeInv, BillingNext, UNCHANGED ingestVars PROVE IntakeInv'
<1>1. UNCHANGED jobVars
  BY BillingLeavesJob
<1> QED BY <1>1, IngestStays DEF jobVars, Alive, Erasing, Named, WorkspaceExists

-----------------------------------------------------------------------------
(* Disposal: what was found disposed of stays so.                          *)

LEMMA IngestLeavesJob == ASSUME IngestNext PROVE UNCHANGED jobVars
<1>1. CASE \E w \in Writers : StoreStep(w)
  BY <1>1 DEF StoreStep, BeginUpload, FindExisting, CheckPending, Reserve, PutObject,
              CommitOriginal, MarkForCleanup, FindDuplicate, RecordDuplicate, Throw, Evict
<1>2. CASE \E w \in Writers : DeliveryStep(w) \/ InvoiceStep(w)
  BY <1>2 DEF DeliveryStep, BeginDelivery, ClaimDelivery, NextAttachment, FinishDelivery,
              ReleaseDelivery, InvoiceStep, BeginInvoice, PutInvoice, CommitInvoice, RemoveInvoice
<1>3. CASE \E k \in Cleaners : CleanerStep(k)
  BY <1>3 DEF CleanerStep, ClaimIntent, CheckCommitted, DeleteObject, DropIntent, Unclaim,
              EvictCleaner
<1>4. CASE ~(\/ \E w \in Writers : StoreStep(w) \/ DeliveryStep(w) \/ InvoiceStep(w)
             \/ \E k \in Cleaners : CleanerStep(k))
  BY <1>4 DEF IngestNext, DocumentStep, RequestDeletion, RemoveOriginal, RemoveRow,
              IntentLeaseExpires, DeliveryLeaseExpires, WithdrawGrant, ReviseGrant
<1> QED BY <1>1, <1>2, <1>3, <1>4

\* Nobody reserves while the workspace is being erased, and who reserved before
\* has an intent until the write has returned.
LEMMA ClearedStays ==
  ASSUME IntakeInv, IngestNext, Erasing, Cleared
  PROVE  Cleared' /\ (objects \subseteq invoices => objects' \subseteq invoices')
<1>1. /\ NoIntent.id = 0 /\ NoIntent.state = "none" /\ ~NoIntent.live
      /\ intents \in [Contents -> IntentRows]
  BY DEF NoIntent, IntakeInv, IntakeTypes
<1>2. CASE \E w \in Writers : StoreStep(w)
  <2>1. PICK w \in Writers : StoreStep(w)
    BY <1>2
  <2>2. ~Guard(w)
    BY DEF Guard
  <2>3. at[w] \notin Writing
    <3>1. at[w] \in Writing => /\ up[w].content \in Contents /\ up[w].id # 0
                               /\ intents[up[w].content].id = up[w].id
      BY KnownWriter, KeyNumbers DEF WriterKnown, Storing, Holding, Writing, IntakeInv
    <3> QED BY <1>1, <3>1 DEF Cleared
  <2>4. at[w] = "mark" => up[w].content \in Contents /\ up[w].id # 0
    BY KnownWriter, KeyNumbers DEF WriterKnown, Storing, Holding, IntakeInv
  <2>5. CASE MarkForCleanup(w)
    <3>1. at[w] = "mark" /\ UNCHANGED <<objects, invoices>>
          /\ intents' = IF intents[up[w].content].id = up[w].id
                          THEN [intents EXCEPT ![up[w].content].state = "cleanup"] ELSE intents
      BY <2>5 DEF MarkForCleanup
    <3>2. intents[up[w].content].id = 0
      BY <1>1, <2>4, <3>1 DEF Cleared
    <3> QED BY <2>4, <3>1, <3>2 DEF Cleared
  <2>6. CASE Reserve(w)
    BY <2>2, <2>6 DEF Reserve, Cleared
  <2>7. CASE PutObject(w) \/ CommitOriginal(w)
    BY <2>3, <2>7 DEF PutObject, CommitOriginal, Writing
  <2>8. CASE ~(MarkForCleanup(w) \/ Reserve(w) \/ PutObject(w) \/ CommitOriginal(w))
    <3>1. UNCHANGED <<objects, invoices, intents>>
      BY <2>1, <2>8 DEF StoreStep, BeginUpload, FindExisting, CheckPending, FindDuplicate,
                        RecordDuplicate, Throw, Evict, storeVars
    <3> QED BY <3>1 DEF Cleared
  <2> QED BY <2>5, <2>6, <2>7, <2>8
<1>3. CASE \E w \in Writers : DeliveryStep(w) \/ InvoiceStep(w)
  <2>1. PICK w \in Writers : DeliveryStep(w) \/ InvoiceStep(w)
    BY <1>3
  <2>2. at[w] \in Invoicing => up[w].id \in invoices
    BY KnownWriter DEF WriterKnown
  <2>3. /\ intents' = intents /\ invoices \subseteq invoices'
        /\ objects' \subseteq objects \cup (IF at[w] \in Invoicing THEN {up[w].id} ELSE {})
    BY <2>1 DEF DeliveryStep, BeginDelivery, ClaimDelivery, NextAttachment, FinishDelivery,
                ReleaseDelivery, InvoiceStep, BeginInvoice, PutInvoice, CommitInvoice,
                RemoveInvoice, storeVars, Invoicing
  <2> QED BY <2>2, <2>3 DEF Cleared
<1>4. CASE \E k \in Cleaners : CleanerStep(k)
  <2>1. PICK k \in Cleaners : CleanerStep(k)
    BY <1>4
  <2>2. cat[k] # "idle" => cup[k].content \in Contents /\ cup[k].id # 0
    BY KnownCleaner, KeyNumbers DEF CleanerKnown, IntakeInv
  <2>3. cat[k] # "idle" => intents[cup[k].content].id # cup[k].id
    BY <1>1, <2>2 DEF Cleared
  <2>4. ~ClaimIntent(k)
    BY <1>1 DEF ClaimIntent, Cleared
  <2>5. intents' = intents /\ invoices' = invoices /\ objects' \subseteq objects
    BY <2>1, <2>3, <2>4 DEF CleanerStep, CheckCommitted, DeleteObject, DropIntent, Unclaim,
                            EvictCleaner, storeVars
  <2> QED BY <2>5 DEF Cleared
<1>5. CASE ~(\/ \E w \in Writers : StoreStep(w) \/ DeliveryStep(w) \/ InvoiceStep(w)
             \/ \E k \in Cleaners : CleanerStep(k))
  <2>1. ASSUME NEW c \in Contents PROVE ~IntentLeaseExpires(c)
    BY <1>1 DEF IntentLeaseExpires, Cleared
  <2>2. intents' = intents /\ invoices' = invoices /\ objects' \subseteq objects
    BY <1>5, <2>1 DEF IngestNext, DocumentStep, RequestDeletion, RemoveOriginal, RemoveRow,
                      DeliveryLeaseExpires, WithdrawGrant, ReviseGrant, storeVars
  <2> QED BY <2>2 DEF Cleared
<1> QED BY <1>2, <1>3, <1>4, <1>5

LEMMA IngestKeepsDisposal ==
  ASSUME IntakeInv, DeletionInv, DisposalFollows, IngestNext, UNCHANGED deletionVars
  PROVE  DisposalFollows'
<1>1. UNCHANGED <<stage, workspace, identity, dat, dmy>>
  BY IngestLeavesJob DEF jobVars, deletionVars
<1>2. workspace = "erased" => Erasing
  BY DEF DeletionInv, StagesFollow, Erasing, Named
<1>3. workspace = "erased" /\ Cleared =>
         Cleared' /\ (objects \subseteq invoices => objects' \subseteq invoices')
  BY <1>2, ClearedStays
<1> QED BY <1>1, <1>3 DEF DisposalFollows, DisposalKnown

\* An attempt moves on; the intents are as they were and no original came.
LEMMA DisposalMoves ==
  ASSUME DisposalFollows, UNCHANGED <<intents, invoices>>, objects' \subseteq objects,
         workspace' = "present" => workspace = "present",
         workspace' = "erased" => workspace \in {"present", "erased"},
         identity' \in {identity, "removed"},
         \A d \in Attempters :
             (dat'[d] = dat[d] /\ dmy'[d] = dmy[d]) \/ DisposalKnown(dat[d], dmy[d])'
  PROVE  DisposalFollows'
<1> SUFFICES ASSUME NEW d \in Attempters, dat'[d] = dat[d], dmy'[d] = dmy[d]
             PROVE  DisposalKnown(dat[d], dmy[d])'
  BY DEF DisposalFollows
<1>1. DisposalKnown(dat[d], dmy[d])
  BY DEF DisposalFollows
<1>2. Cleared => Cleared'
  BY DEF Cleared
<1> QED BY <1>1, <1>2 DEF DisposalKnown

\* A place where nothing about originals or the sign-in is relied on.
Unbound == Places \ ({"dispose2", "renew4", "list", "renew5", "delete"} \cup Emptied)

LEMMA UnboundKnown ==
  ASSUME NEW to \in Unbound, NEW l PROVE DisposalKnown(to, l) /\ DisposalKnown(to, l)'
BY DEF DisposalKnown, Unbound, Emptied, SignedOff

\* One attempt goes to a place and leaves all else but its lease and job.
LEMMA DisposalTo ==
  ASSUME DeletionInv, DisposalFollows, NEW d \in Attempters, NEW to \in Places, NEW l,
         Advance(d, to, l), UNCHANGED <<intents, invoices>>, objects' \subseteq objects,
         workspace' = "present" => workspace = "present",
         workspace' = "erased" => workspace \in {"present", "erased"},
         identity' \in {identity, "removed"},
         to \notin Unbound => DisposalKnown(to, l)'
  PROVE  DisposalFollows'
<1>1. /\ dat'[d] = to /\ dmy'[d] = IF to \in {"idle", "release"} THEN NoAdvance ELSE l
      /\ \A c \in Attempters \ {d} : dat'[c] = dat[c] /\ dmy'[c] = dmy[c]
  BY DEF Advance, DeletionInv, DeletionTypes
<1>2. to \in {"idle", "release"} => to \in Unbound
  BY DEF Unbound, Emptied
<1>3. DisposalKnown(dat[d], dmy[d])'
  <2>1. CASE to \in Unbound
    <3>1. PICK m : m = dmy'[d]
      OBVIOUS
    <3>2. DisposalKnown(to, m)'
      BY <2>1, UnboundKnown
    <3> QED BY <1>1, <3>1, <3>2 DEF DisposalKnown
  <2>2. CASE to \notin Unbound
    BY <1>1, <1>2, <2>2 DEF DisposalKnown
  <2> QED BY <2>1, <2>2
<1> QED BY <1>1, <1>3, DisposalMoves

LEMMA UnboundSteps ==
  ASSUME DeletionInv, DisposalFollows, NEW d \in Attempters,
         \/ AcquireJob(d) \/ ThrowAdvance(d) \/ EvictAdvance(d) \/ ReleaseJob(d) \/ ConfirmJob(d)
         \/ ReviewJob(d) \/ ReadBilling(d) \/ SavePlan(d) \/ CloseCheckout(d) \/ SubmitForClosing(d)
         \/ SaveForClosing(d) \/ InspectSession(d) \/ ExpireForClosing(d)
         \/ CancelSubscription(d) \/ SaveMilestone(d) \/ CompleteJob(d)
  PROVE  DisposalFollows'
<1>1. PICK to \in {"idle", "release", "read", "review", "renew2", "save_plan", "close", "submit",
                  "save", "inspect", "expire", "cancel", "renew3", "dispose1"} :
        \E l : Advance(d, to, l)
  BY DEF AcquireJob, ThrowAdvance, EvictAdvance, ReleaseJob, ConfirmJob, ReviewJob, ReadBilling,
         SavePlan, CloseCheckout, SubmitForClosing, SaveForClosing, InspectSession,
         ExpireForClosing, CancelSubscription, SaveMilestone, CompleteJob, Continue
<1>2. PICK l : Advance(d, to, l)
  BY <1>1
<1>3. to \in Places /\ to \in Unbound
  BY DEF Places, Unbound, Emptied
<1>4. /\ UNCHANGED <<intents, invoices, objects, identity>>
      /\ workspace' \in {workspace, "forgotten"}
  BY DEF AcquireJob, ThrowAdvance, EvictAdvance, ReleaseJob, ConfirmJob, ReviewJob, ReadBilling,
         SavePlan, CloseCheckout, SubmitForClosing, SaveForClosing, InspectSession,
         ExpireForClosing, CancelSubscription, SaveMilestone, CompleteJob, others, jobVars,
         ingestVars, storeVars
<1>5. /\ workspace' = "present" => workspace = "present"
      /\ workspace' = "erased" => workspace \in {"present", "erased"}
  BY <1>4
<1> QED BY <1>2, <1>3, <1>4, <1>5, DisposalTo

\* What an attempt relies on at a place holds as it goes there.
LEMMA DisposalGoes ==
  ASSUME DeletionInv, DisposalFollows, NEW d \in Attempters, NEW to \in Places, NEW l,
         Advance(d, to, l), UNCHANGED <<objects, intents, invoices, workspace>>,
         identity' \in {identity, "removed"},
         to \notin Unbound => DisposalKnown(to, l) \/ (to = "renew8" /\ DisposalKnown("renew7", l) /\ identity' = "removed")
  PROVE  DisposalFollows'
<1>1. to \notin Unbound => DisposalKnown(to, l)'
  BY DEF DisposalKnown, Cleared, Emptied, SignedOff
<1>2. /\ workspace' = "present" => workspace = "present"
      /\ workspace' = "erased" => workspace \in {"present", "erased"}
      /\ objects' \subseteq objects
  OBVIOUS
<1> QED BY <1>1, <1>2, DisposalTo

LEMMA KnownDisposal ==
  ASSUME DisposalFollows, NEW d \in Attempters PROVE DisposalKnown(dat[d], dmy[d])
BY DEF DisposalFollows

LEMMA RenewDisposal ==
  ASSUME DeletionInv, DisposalFollows, NEW d \in Attempters, RenewJob(d) PROVE DisposalFollows'
<1>0. PICK l : l = dmy[d]
  OBVIOUS
<1>1. UNCHANGED <<objects, intents, invoices, workspace, identity>> /\ dat[d] \in DOMAIN Renewals
  BY DEF RenewJob, others, jobVars, ingestVars, storeVars
<1>2. Advance(d, "release", l) \/ Advance(d, Renewals[dat[d]], l)
  BY <1>0 DEF RenewJob, Continue
<1>3. DisposalKnown(dat[d], l)
  BY <1>0, KnownDisposal
<1>4. CASE Advance(d, "release", l)
  BY <1>1, <1>4, DisposalGoes DEF Places, Unbound, Emptied
<1>5. CASE Advance(d, Renewals[dat[d]], l)
  <2>1. PICK to : to = Renewals[dat[d]]
    OBVIOUS
  <2>2. to \in Places /\ (to \notin Unbound => DisposalKnown(to, l))
    BY <1>1, <1>3, <2>1 DEF Renewals, Places, Unbound, DisposalKnown, Emptied, SignedOff
  <2> QED BY <1>1, <1>5, <2>1, <2>2, DisposalGoes
<1> QED BY <1>2, <1>4, <1>5

LEMMA ReadDisposal ==
  ASSUME DeletionInv, DisposalFollows, NEW d \in Attempters, ReadJob(d) PROVE DisposalFollows'
<1> DEFINE l == [NoAdvance EXCEPT !.stage = stage, !.plan = job.plan, !.billed = job.billed]
<1>1. UNCHANGED <<objects, intents, invoices, workspace, identity>> /\ dat[d] = "read"
  BY DEF ReadJob, others, jobVars, ingestVars, storeVars
<1>2. \/ Advance(d, "release", dmy[d])
      \/ Named /\ \/ stage = "checking" /\ Advance(d, "renew1", l)
                  \/ stage = "confirmed" /\ Advance(d, "review", l)
                  \/ stage \notin {"checking", "confirmed"} /\ Advance(d, "dispose2", l)
  BY DEF ReadJob, Continue
<1> HIDE DEF l
<1>3. CASE Advance(d, "release", dmy[d])
  BY <1>1, <1>3, DisposalGoes DEF Places, Unbound, Emptied
<1>4. CASE Advance(d, "renew1", l) \/ Advance(d, "review", l)
  BY <1>1, <1>4, DisposalGoes DEF Places, Unbound, Emptied
<1>5. CASE Named /\ stage \notin {"checking", "confirmed"} /\ Advance(d, "dispose2", l)
  <2>1. workspace # "present"
    BY <1>1, <1>5, KnownClosing DEF DeletionInv, StagesFollow
  <2>2. DisposalKnown("dispose2", l) /\ "dispose2" \in Places
    BY <2>1 DEF DisposalKnown, Emptied, SignedOff, Places
  <2> QED BY <1>1, <1>5, <2>2, DisposalGoes
<1> QED BY <1>2, <1>3, <1>4, <1>5

LEMMA AssertDisposedDisposal ==
  ASSUME DeletionInv, DisposalFollows, NEW d \in Attempters, AssertDisposed(d) PROVE DisposalFollows'
<1> DEFINE l == [dmy[d] EXCEPT !.stage =
                   IF dat[d] = "dispose1" THEN "confirmed" ELSE "local_deleted"]
<1>1. UNCHANGED <<objects, intents, invoices, workspace, identity>>
      /\ dat[d] \in {"dispose1", "dispose2"} /\ dmy[d] \in AdvanceLocals
      /\ DisposalKnown(dat[d], dmy[d])
  BY KnownClosing, KnownDisposal DEF AssertDisposed, others, jobVars, ingestVars, storeVars
<1>2. Advance(d, "release", dmy[d]) \/ (Advance(d, "renew4", l) /\ Cleared)
  BY DEF AssertDisposed, Continue, Cleared
<1>3. l.stage = IF dat[d] = "dispose1" THEN "confirmed" ELSE "local_deleted"
  BY <1>1 DEF AdvanceLocals
<1> HIDE DEF l
<1>4. CASE Advance(d, "release", dmy[d])
  BY <1>1, <1>4, DisposalGoes DEF Places, Unbound, Emptied
<1>5. CASE Advance(d, "renew4", l) /\ Cleared
  <2>1. DisposalKnown("renew4", l) /\ "renew4" \in Places
    BY <1>1, <1>3, <1>5 DEF DisposalKnown, Emptied, SignedOff, Places
  <2> QED BY <1>1, <1>5, <2>1, DisposalGoes
<1> QED BY <1>2, <1>4, <1>5

LEMMA ListDisposal ==
  ASSUME DeletionInv, DisposalFollows, NEW d \in Attempters, ListObjects(d) PROVE DisposalFollows'
<1>0. PICK l : l = [dmy[d] EXCEPT !.keys = objects]
  OBVIOUS
<1>1. UNCHANGED <<objects, intents, invoices, workspace, identity>> /\ dat[d] = "list"
      /\ dmy[d] \in AdvanceLocals /\ DisposalKnown("list", dmy[d])
  BY KnownClosing, KnownDisposal DEF ListObjects, others, jobVars, ingestVars, storeVars
<1>2. l.stage = dmy[d].stage
  BY <1>0, <1>1 DEF AdvanceLocals
<1>3. PICK to \in {"renew5", "renew6", "renew7"} :
         /\ Advance(d, to, l)
         /\ to = "renew7" => objects = {} /\ dmy[d].stage = "local_deleted"
  BY <1>0 DEF ListObjects, Done
<1>4. to \in Places /\ (to \notin Unbound => DisposalKnown(to, l))
  BY <1>1, <1>2, <1>3 DEF DisposalKnown, Emptied, SignedOff, Places, Unbound
<1> QED BY <1>1, <1>3, <1>4, DisposalGoes

LEMMA DeleteDisposal ==
  ASSUME DeletionInv, DisposalFollows, NEW d \in Attempters, DeleteObjects(d) PROVE DisposalFollows'
<1>0. PICK l : l = [dmy[d] EXCEPT !.keys = {}]
  OBVIOUS
<1>1. UNCHANGED <<intents, invoices, workspace, identity>> /\ dat[d] = "delete"
      /\ objects' \subseteq objects /\ Advance(d, "renew4", l)
      /\ dmy[d] \in AdvanceLocals /\ DisposalKnown("delete", dmy[d])
  BY <1>0, KnownClosing, KnownDisposal DEF DeleteObjects, jobVars
<1>2. l.stage = dmy[d].stage
  BY <1>0, <1>1 DEF AdvanceLocals
<1>3. DisposalKnown("renew4", l)' /\ "renew4" \in Places
  BY <1>1, <1>2 DEF DisposalKnown, Emptied, SignedOff, Places, Cleared
<1>4. /\ workspace' = "present" => workspace = "present"
      /\ workspace' = "erased" => workspace \in {"present", "erased"}
  BY <1>1
<1> QED BY <1>1, <1>3, <1>4, DisposalTo

LEMMA EraseDisposal ==
  ASSUME DeletionInv, DisposalFollows, NEW d \in Attempters, EraseLocal(d) PROVE DisposalFollows'
<1>0. PICK l : l = dmy[d]
  OBVIOUS
<1>1. UNCHANGED <<objects, intents, invoices, identity>> /\ Advance(d, "dispose2", l)
      /\ workspace' = IF workspace = "present" THEN "erased" ELSE workspace
  BY <1>0 DEF EraseLocal, Continue
<1>2. workspace' # "present" /\ (workspace' = "erased" => workspace \in {"present", "erased"})
  BY <1>1
<1>3. DisposalKnown("dispose2", l)' /\ "dispose2" \in Places
  BY <1>2 DEF DisposalKnown, Emptied, SignedOff, Places
<1> QED BY <1>1, <1>2, <1>3, DisposalTo

LEMMA OutsideDisposal ==
  ASSUME DeletionInv, DisposalFollows, NEW d \in Attempters, RemoveIdentity(d) \/ EraseMarketing(d)
  PROVE  DisposalFollows'
<1>0. PICK l : l = dmy[d]
  OBVIOUS
<1>1. UNCHANGED <<objects, intents, invoices, workspace>> /\ DisposalKnown(dat[d], l)
  BY <1>0, KnownDisposal DEF RemoveIdentity, EraseMarketing, others, jobVars, ingestVars, storeVars
<1>2. CASE RemoveIdentity(d)
  <2>1. /\ dat[d] = "identity" /\ identity' = "removed"
        /\ Advance(d, "renew8", l) \/ Advance(d, "release", l)
    BY <1>0, <1>2 DEF RemoveIdentity, Continue
  <2>2. DisposalKnown("renew7", l) /\ {"renew8", "release"} \subseteq Places /\ "release" \in Unbound
    BY <1>1, <2>1 DEF DisposalKnown, Emptied, SignedOff, Places, Unbound
  <2> QED BY <1>1, <2>1, <2>2, DisposalGoes
<1>3. CASE EraseMarketing(d)
  <2>1. dat[d] = "marketing" /\ identity' = identity /\ Advance(d, "renew9", l)
    BY <1>0, <1>3 DEF EraseMarketing, Continue
  <2>2. DisposalKnown("renew9", l) /\ "renew9" \in Places
    BY <1>1, <2>1 DEF DisposalKnown, Emptied, SignedOff, Places
  <2> QED BY <1>1, <2>1, <2>2, DisposalGoes
<1> QED BY <1>2, <1>3

LEMMA DeletionKeepsDisposal ==
  ASSUME DeletionInv, DisposalFollows, DeletionNext PROVE DisposalFollows'
<1>1. CASE RequestClosure \/ JobLeaseExpires
  <2>1. UNCHANGED <<objects, intents, invoices, workspace, identity, dat, dmy>>
    BY <1>1 DEF RequestClosure, JobLeaseExpires, others, jobVars, ingestVars, storeVars
  <2> QED BY <2>1 DEF DisposalFollows, DisposalKnown, Cleared
<1>2. CASE \E d \in Attempters : AttemptStep(d)
  BY <1>2, UnboundSteps, RenewDisposal, ReadDisposal, AssertDisposedDisposal, ListDisposal,
     DeleteDisposal, EraseDisposal, OutsideDisposal DEF AttemptStep
<1> QED BY <1>1, <1>2 DEF DeletionNext

-----------------------------------------------------------------------------
(* The invariant of the whole.                                             *)

ClosingInv == BillingInv /\ DeletionInv /\ IntakeInv /\ DisposalFollows

LEMMA BillingStarts == ASSUME BillingInit, stage = "none" PROVE BillingInv
<1> USE DEF BillingInit
<1>1. /\ 0 \in Nat /\ 1 \in 1 .. MaxAttempts + 1 /\ MaxEvents \in Nat
      /\ \A a \in Attempts : a >= 1 /\ a # 0
  BY BoundsAssumption DEF Attempts
<1>2. /\ <<>> \in Seq([sub : Attempts, created : Nat]) /\ Len(events) = 0
      /\ 1 .. Len(events) = {}
  OBVIOUS
<1>3. /\ [state |-> "none", trial |-> FALSE] \in [state : SessionStates, trial : BOOLEAN]
      /\ "none" \in Statuses /\ NoSubscription \in Subscriptions
  BY DEF SessionStates, Statuses, NoSubscription, Subscriptions
<1>4. NoLocals \in CheckoutLocals
  <2>1. NoAttempt \in NamedRows
    BY DEF NoAttempt, NamedRows
  <2> QED BY <1>3, <2>1 DEF NoLocals, CheckoutLocals, SessionStates
<1>5. NoDelivery \in WebhookLocals
  BY <1>1, <1>3 DEF NoDelivery, WebhookLocals
<1>6. BillingTypes
  <2>1. events \in Seq([sub : Attempts, created : Nat]) /\ Len(events) <= MaxEvents
    BY <1>1, <1>2
  <2>2. /\ session \in [Attempts -> [state : SessionStates, trial : BOOLEAN]]
        /\ stripe \in [Attempts -> Statuses] /\ record \in Subscriptions
        /\ receipt \in [1 .. MaxEvents -> {"waiting", "processing", "processed", "ignored"}]
    BY <1>3
  <2>3. /\ step \in [Requests -> CheckoutSteps] /\ my \in [Requests -> CheckoutLocals]
        /\ hook \in [Hooks -> {"idle", "read", "retrieve", "persist"}]
        /\ our \in [Hooks -> WebhookLocals]
    BY <1>4, <1>5 DEF CheckoutSteps
  <2> QED BY <1>1, <2>1, <2>2, <2>3 DEF BillingTypes
<1>7. SessionsFollow
  <2>1. attempt.id = 0 /\ nextId = 1
    BY DEF NoAttempt
  <2>2. \A a \in Attempts : ~(a < 1) /\ session[a].state = "none" /\ stripe[a] = "none"
    BY <1>1 DEF Attempts
  <2> QED BY <2>1, <2>2 DEF SessionsFollow
<1>8. RequestsFollow
  BY DEF RequestsFollow, RequestFollows, NoLocals
<1>9. RecordFollows /\ DeliveriesFollow
  BY DEF RecordFollows, DeliveriesFollow, DeliveryFollows, NoSubscription
<1>10. EventsFollow /\ PaidFollows
  BY <1>2 DEF EventsFollow, PaidFollows
<1>11. TrialsFollow
  BY DEF TrialsFollow, RequestTries, NoLocals, NoAttempt
<1>12. LastEventCounts /\ EventsSettle
  BY <1>2 DEF LastEventCounts, LastEvent, EventsSettle
<1> QED BY <1>6, <1>7, <1>8, <1>9, <1>10, <1>11, <1>12 DEF BillingInv

LEMMA DeletionStarts == ASSUME DeletionInit PROVE DeletionInv /\ DisposalFollows
<1> USE DEF DeletionInit
<1>1. /\ NoAdvance \in AdvanceLocals /\ ~NoAdvance.billed /\ NoAdvance.plan = 0
      /\ NoJob \in [plan : {0} \cup Attempts, billed : BOOLEAN] /\ ~NoJob.billed /\ NoJob.plan = 0
  BY DEF NoAdvance, AdvanceLocals, NoAttempt, NamedRows, Stages, NoJob
<1>2. DeletionTypes
  BY <1>1 DEF DeletionTypes, Stages, Places
<1>3. \A d \in Attempters : dat[d] = "idle" /\ dmy[d] = NoAdvance
  OBVIOUS
<1>4. StagesFollow /\ ClosingsFollow
  BY <1>1, <1>3 DEF StagesFollow, ClosingsFollow, ClosingFollows, ClosingKnown, Confirmed, BillingDone
<1>5. DisposalFollows
  BY <1>3 DEF DisposalFollows, DisposalKnown, Emptied, SignedOff
<1> QED BY <1>2, <1>4, <1>5 DEF DeletionInv

LEMMA IntakeStarts == ASSUME IngestInit PROVE IntakeInv
<1> USE DEF IngestInit
<1>1. /\ NoIntent \in IntentRows /\ NoDocument \in DocumentRows /\ NoUpload \in Uploads
      /\ NoCleanup \in [content : Contents \cup {Nobody}, id : {0} \cup Originals]
      /\ 1 \in 1 .. MaxOriginals + 1 /\ 0 < 1
  BY NoUploadKnown, MailAssumption DEF NoIntent, IntentRows, NoDocument, DocumentRows, NoCleanup
<1>2. IntakeTypes
  BY <1>1 DEF IntakeTypes, WriterPlaces, CleanerPlaces
<1>3. \A c \in Contents : intents[c] = NoIntent /\ doc[c] = NoDocument
  OBVIOUS
<1>4. NoIntent.id = 0 /\ NoDocument.id = 0 /\ NoDocument.state = "none" /\ NoUpload.index = 0
  BY DEF NoIntent, NoDocument, NoUpload
<1>5. KeysFollow
  BY <1>1, <1>3, <1>4 DEF KeysFollow
<1>6. WritersFollow
  BY <1>4 DEF WritersFollow, WriterKnown, Storing, Holding, Writing, Invoicing, Attachments
<1>7. CleanersFollow
  BY DEF CleanersFollow, CleanerKnown
<1>8. StoreFollows
  BY <1>3, <1>4 DEF StoreFollows, EveryOriginalIsNamed, KeptMeansStored
<1>9. MailFollows
  BY DEF MailFollows, StoredOnce, CompleteMeansReceived
<1> QED BY <1>2, <1>5, <1>6, <1>7, <1>8, <1>9 DEF IntakeInv

LEMMA ClosingStutters == ASSUME ClosingInv, UNCHANGED closingVars PROVE ClosingInv'
<1>1. UNCHANGED <<billingVars, ingestVars, jobVars, deletionVars>>
  BY DEF closingVars, others
<1>2. BillingInv'
  BY <1>1, BillingStays DEF ClosingInv, jobVars
<1>3. IntakeInv'
  BY <1>1, IngestStays DEF ClosingInv, jobVars, Alive, Erasing, Named, WorkspaceExists
<1>4. DeletionInv'
  BY <1>1, OthersGoOn, BillingStays DEF ClosingInv, DeletionInv, jobVars, billingVars, rowVars
<1>5. DisposalFollows'
  BY <1>1 DEF ClosingInv, DisposalFollows, DisposalKnown, Cleared, ingestVars, storeVars,
              deletionVars, jobVars
<1> QED BY <1>2, <1>3, <1>4, <1>5 DEF ClosingInv

LEMMA ClosingKeeps == ASSUME ClosingInv, [ClosingNext]_closingVars PROVE ClosingInv'
<1> USE DEF ClosingInv
<1>1. CASE BillingNext /\ UNCHANGED <<ingestVars, deletionVars>>
  <2>1. BillingInv' /\ DeletionInv' /\ IntakeInv'
    BY <1>1, BillingKeeps, BillingKeepsDeletion, BillingKeepsIntake DEF DeletionInv
  <2>2. UNCHANGED jobVars
    BY <1>1, BillingLeavesJob
  <2>3. DisposalFollows'
    BY <1>1, <2>2 DEF DisposalFollows, DisposalKnown, Cleared, ingestVars, storeVars,
                      deletionVars, jobVars
  <2> QED BY <2>1, <2>3
<1>2. CASE IngestNext /\ UNCHANGED <<billingVars, deletionVars>>
  <2>1. UNCHANGED jobVars
    BY <1>2, IngestLeavesJob
  <2>2. BillingInv'
    BY <1>2, <2>1, BillingStays DEF jobVars
  <2>3. DeletionInv'
    BY <1>2, <2>1, OthersGoOn, BillingStays DEF DeletionInv, jobVars, billingVars, rowVars
  <2> QED BY <1>2, <2>2, <2>3, IngestKeeps, IngestKeepsDisposal
<1>3. CASE DeletionNext
  <2>1. BillingInv' /\ DeletionInv'
    BY <1>3, DeletionKeeps DEF IntakeInv, IntakeTypes
  <2> QED BY <1>3, <2>1, DeletionKeepsIntake, DeletionKeepsDisposal
<1> QED BY <1>1, <1>2, <1>3, ClosingStutters DEF ClosingNext

LEMMA ClosingInvariant == ClosingSpec => []ClosingInv
<1>1. ClosingInit => ClosingInv
  BY BillingStarts, DeletionStarts, IntakeStarts DEF ClosingInit, ClosingInv, DeletionInit
<1>2. ClosingInv /\ [ClosingNext]_closingVars => ClosingInv'
  BY ClosingKeeps
<1> QED BY <1>1, <1>2, PTL DEF ClosingSpec

-----------------------------------------------------------------------------
(* Theorems.                                                               *)

LEMMA OverIsOver ==
  ASSUME BillingInv, NEW a \in Attempts, a < nextId => Over(a)
  PROVE  stripe[a] \in {"none", "canceled"} /\ ~Payable(a)
<1>1. CASE a < nextId
  BY <1>1 DEF BillingInv, SessionsFollow, Over, Payable
<1>2. CASE ~(a < nextId)
  <2>1. session[a].state = "none"
    BY <1>2, BoundsAssumption DEF BillingInv, SessionsFollow, BillingTypes, Attempts
  <2> QED BY <2>1 DEF BillingInv, SessionsFollow, Payable
<1> QED BY <1>1, <1>2

LEMMA BillingFollows ==
  ASSUME BillingInv PROVE BillingTypeOK /\ NobodyPaysTwice /\ OneTrial /\ ServiceIsEarned
<1> USE DEF BillingInv
<1>1. BillingTypeOK
  <2>1. \A a \in Attempts : session[a] \in [state : SessionStates, trial : BOOLEAN]
    BY DEF BillingTypes
  <2>2. attempt.id \in {0} \cup Attempts
    BY DEF BillingTypes, NoAttempt, FullRows
  <2>3. record.sub \in {0} \cup Attempts /\ record.status \in Statuses
    BY DEF BillingTypes, Subscriptions
  <2> QED BY <2>1, <2>2, <2>3 DEF BillingTypes, BillingTypeOK, SessionStates
<1>2. NobodyPaysTwice
  <2> SUFFICES ASSUME NEW a \in Attempts, NEW b \in Attempts, a # b, stripe[a] \in Running
               PROVE  stripe[b] \notin Running /\ ~Payable(b)
    BY DEF NobodyPaysTwice
  <2>1. a = attempt.id
    <3>1. a < nextId /\ ~Over(a)
      BY OverIsOver DEF Running
    <3> QED BY <3>1 DEF SessionsFollow
  <2>2. b < nextId => Over(b)
    BY <2>1 DEF SessionsFollow
  <2> QED BY <2>2, OverIsOver DEF Running
<1>3. OneTrial
  <2> SUFFICES ASSUME NEW a \in Attempts, NEW b \in Attempts, a < b,
                      stripe[a] # "none", stripe[b] # "none", session[b].trial
               PROVE  FALSE
    BY DEF OneTrial, Attempts
  <2> QED BY DEF TrialsFollow, Untried, SessionsFollow
<1>4. ServiceIsEarned
  <2> SUFFICES ASSUME GrantsAccess(record), record.sub \notin paid
               PROVE  record.status = "trialing" /\ \A a \in 1 .. record.sub - 1 : stripe[a] = "none"
    BY DEF ServiceIsEarned
  <2>1. record.sub # 0
    BY DEF RecordFollows, NoSubscription, GrantsAccess
  <2>2. record.sub \in Attempts
    BY <2>1 DEF BillingTypes, Subscriptions
  <2>3. record.trial = session[record.sub].trial /\ stripe[record.sub] # "none" /\ ~record.converted
    BY <2>1 DEF RecordFollows
  <2>4. record.status = "trialing" /\ session[record.sub].trial
    BY <2>2, <2>3 DEF GrantsAccess, PaidFollows
  <2>5. Untried(record.sub)
    BY <2>2, <2>3, <2>4 DEF TrialsFollow, SessionsFollow
  <2> QED BY <2>2, <2>4, <2>5, BoundsAssumption DEF Untried, Attempts
<1> QED BY <1>1, <1>2, <1>3, <1>4

\* The customer's money, whatever is clicked, repeated or evicted at whatever
\* moment (checkout route and webhook, while the account deletion closes the
\* billing): never two subscriptions that charge or can be bought, never two
\* trials, and access is for what was paid or for the first trial.  Once the events
\* are handled, in whatever order, how often and by how many deliveries at a time
\* that was, the row by which access is decided is current (the webhook's claim, its
\* version check and its second look at Stripe); it names the running subscription
\* unless another has a later event.
THEOREM BillingSound == ClosingSpec => []BillingIsSound
<1>1. ClosingInv => BillingIsSound
  <2> SUFFICES ASSUME ClosingInv PROVE BillingIsSound
    OBVIOUS
  <2> USE DEF ClosingInv, BillingInv
  <2>1. SettledMeansCurrent
    <3> SUFFICES ASSUME stage = "none", NEW a \in Attempts,
                        \A e \in 1 .. Len(events) : receipt[e] \in {"processed", "ignored"}
                 PROVE  /\ stripe[a] \in Running /\ ~Overtaken(a) => record.sub = a
                        /\ record.sub = a => record.status = stripe[a]
      BY DEF SettledMeansCurrent
    <3>1. ASSUME stripe[a] \in Running, record.sub # a PROVE Overtaken(a)
      <4>1. stripe[a] # "none" /\ stripe[a] # "canceled"
        BY <3>1 DEF Running
      <4>2. \A d \in 1 .. Len(events) : events[d].sub = a => events[d].created < record.seen
        BY <3>1, <4>1 DEF EventsSettle
      <4>3. PICK d \in 1 .. Len(events) : events[d].sub = a
        BY <4>1 DEF EventsFollow
      <4>4. record.seen # 0
        <5>1. events[d].created \in Nat
          BY EventType
        <5> QED BY <4>2, <4>3, <5>1
      <4>5. record.sub # 0
        BY <4>4 DEF RecordFollows, NoSubscription
      <4>6. PICK e \in 1 .. Len(events) :
               events[e].sub = record.sub /\ events[e].created = record.seen
        BY <4>5 DEF RecordFollows
      <4> QED BY <3>1, <4>2, <4>6 DEF Overtaken
    <3>2. ASSUME record.sub = a PROVE record.status = stripe[a]
      <4>1. a # 0
        BY BoundsAssumption DEF Attempts
      <4>2. PICK e \in 1 .. Len(events) : TRUE
        BY <3>2, <4>1 DEF RecordFollows
      <4>3. Len(events) \in Nat
        BY DEF BillingTypes
      <4>4. LastEvent \in 1 .. Len(events) /\ LastEvent # 0
        BY <4>2, <4>3 DEF LastEvent
      <4> QED BY <3>2, <4>4 DEF LastEventCounts
    <3> QED BY <3>1, <3>2
  <2> QED BY <2>1, BillingFollows DEF BillingIsSound
<1> QED BY <1>1, ClosingInvariant, PTL

\* Once the deletion has recorded that billing is closed, which lets a retry
\* skip it, no subscription runs and no page can be paid, ever after: a checkout
\* that was on its way finds the job row (advanceDeletion, checkout route).
THEOREM ClosingSound == ClosingSpec => []ClosedIsNotBilled
<1>1. ClosingInv => ClosedIsNotBilled
  <2> SUFFICES ASSUME ClosingInv, job.billed \/ ~WorkspaceExists, NEW a \in Attempts
               PROVE  stripe[a] \notin Running /\ ~Payable(a)
    BY DEF ClosedIsNotBilled
  <2>1. a < nextId => Over(a)
    BY DEF ClosingInv, DeletionInv, ClosingsFollow, AllOver, WorkspaceExists
  <2> QED BY <2>1, OverIsOver DEF ClosingInv, Running
<1> QED BY <1>1, ClosingInvariant, PTL

\* Originals, documents and mail (document-ingest.ts, the email route): each
\* original that is stored is named by a row until it is gone, no kept document
\* loses its original to a cleanup, and each attachment is received once.
THEOREM IntakeSound == ClosingSpec => []IntakeIsSound
<1>1. ClosingInv => IntakeIsSound
  <2> SUFFICES ASSUME ClosingInv PROVE IntakeIsSound
    OBVIOUS
  <2> USE DEF ClosingInv, IntakeInv
  <2>1. IngestTypeOK
    <3>1. \A c \in Contents : intents[c] \in IntentRows /\ doc[c] \in DocumentRows
      BY KeyNumbers
    <3> QED BY <3>1 DEF IngestTypeOK, IntakeTypes, IntentRows, DocumentRows
  <2> QED BY <2>1 DEF IntakeIsSound, StoreFollows, MailFollows
<1> QED BY <1>1, ClosingInvariant, PTL

\* The deletion is declared complete only when no original is left, no upload can
\* still bring one, and the sign-in is gone (completeJob behind its own checks),
\* however many attempts overlapped, stalled or were evicted on the way.
THEOREM CompletionSound == ClosingSpec => CompletionIsClean
<1> DEFINE clean == /\ objects \subseteq invoices
                    /\ \A c \in Contents : intents[c] = NoIntent
                    /\ identity = "removed"
<1>1. ASSUME ClosingInv, [ClosingNext]_closingVars
      PROVE  [workspace = "erased" /\ workspace' = "forgotten" => clean]_deletionVars
  <2>1. CASE UNCHANGED deletionVars
    BY <2>1
  <2>2. CASE DeletionNext /\ workspace = "erased" /\ workspace' = "forgotten"
    <3>1. PICK d \in Attempters : CompleteJob(d)
      BY <2>2 DEF DeletionNext, RequestClosure, JobLeaseExpires, AttemptStep, AcquireJob,
                  RenewJob, ThrowAdvance, EvictAdvance, ReleaseJob, ReadJob, ConfirmJob,
                  ReviewJob, ReadBilling, SavePlan, CloseCheckout, SubmitForClosing,
                  SaveForClosing, InspectSession, ExpireForClosing, CancelSubscription,
                  SaveMilestone, AssertDisposed, ListObjects, DeleteObjects, EraseLocal,
                  RemoveIdentity, EraseMarketing, jobVars
    <3>2. dat[d] = "complete"
      BY <3>1 DEF CompleteJob
    <3>3. DisposalKnown("complete", dmy[d])
      BY <1>1, <3>2, KnownDisposal DEF ClosingInv
    <3>4. Cleared /\ objects \subseteq invoices /\ identity = "removed"
      BY <2>2, <3>3 DEF DisposalKnown, Emptied, SignedOff
    <3> QED BY <3>4 DEF Cleared
  <2>3. CASE DeletionNext /\ ~(workspace = "erased" /\ workspace' = "forgotten")
    BY <2>3
  <2>4. UNCHANGED closingVars => UNCHANGED deletionVars
    BY DEF closingVars
  <2> QED BY <1>1, <2>1, <2>2, <2>3, <2>4 DEF ClosingNext
<1> QED BY <1>1, ClosingInvariant, PTL DEF ClosingSpec, CompletionIsClean
=============================================================================
