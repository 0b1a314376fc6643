------------------------- MODULE MCAccountDeletion -------------------------
(***************************************************************************)
(* Small instances of AccountDeletion for TLC.  One behaviour looks at one *)
(* part: without a deletion, overlapping checkout requests, a subscription *)
(* that follows a canceled one which still has events, overlapping         *)
(* webhook deliveries, mail, mail beside an upload, or uploads; or a       *)
(* deletion with billing or with the document intake around it.            *)
(***************************************************************************)
EXTENDS AccountDeletion, TLC

CONSTANT c1
VARIABLE focus

TwoAttachments == <<c1, c1>>
vars == <<billingVars, ingestVars, jobVars, deletionVars, focus>>

\* Bounds: events when deliveries overlap, and around a deletion.
EventsOfRequests == 3
EventsOverlapping == 2
EventsOfClosing == 1

(* Requests have the names of writers.                                     *)
Symmetry == Permutations(Requests) \cup Permutations(Attempters)

Init ==
    /\ BillingInit /\ IngestInit /\ DeletionInit
    /\ focus \in {"requests", "late", "deliveries", "mail", "both", "uploads", "billing", "files"}

(* One process of a kind after another, each left anywhere.                *)
InTurn(p, place) == \A q \in DOMAIN place \ {p} : place[q] = "idle"

Checkout == \E r \in Requests : (focus = "requests" \/ InTurn(r, step)) /\ CheckoutStep(r)

(* Deliveries that may fail and stall, and one that answers some time.     *)
Webhooks ==
    \/ \E h \in Hooks : HookStep(h)
    \/ \E e \in 1 .. MaxEvents : ClaimRunsOut(e)

Webhook ==
    LET h == CHOOSE h \in Hooks : TRUE
    IN  ClaimEvent(h) \/ ReadVersion(h) \/ RetrieveSubscription(h) \/ PersistSubscription(h)

Intake ==
    \/ \E w \in Writers : StoreStep(w)
    \/ \E k \in Cleaners : CleanerStep(k)
    \/ \E c \in Contents : IntentLeaseExpires(c)

Correspondence ==
    \/ \E w \in Writers : DeliveryStep(w)
    \/ DeliveryLeaseExpires \/ WithdrawGrant \/ ReviseGrant

Discarding == \E c \in Contents : DocumentStep(c)

(* Bounds: mail alone while its documents are deleted, or beside an upload. *)
Uploading == {w \in Writers : at[w] # "idle" /\ up[w].index = 0}
NoUploads == Uploading' = {}
OneUpload == Cardinality(Uploading') <= 1

AttemptInTurn == \E d \in Attempters : InTurn(d, dat) /\ AttemptStep(d)

Next ==
    /\ UNCHANGED focus
    /\ \/ /\ focus = "requests" /\ (StripeStep \/ Checkout \/ Webhook)
          /\ Len(events') <= EventsOfRequests
          /\ UNCHANGED <<ingestVars, deletionVars>>
       \/ /\ focus = "late" /\ (StripeStep \/ Checkout \/ Webhook)
          /\ \A a \in Attempts : stripe'[a] # "invoiced"
          /\ UNCHANGED <<ingestVars, deletionVars>>
       \/ /\ focus = "deliveries" /\ (StripeStep \/ Checkout \/ Webhooks)
          /\ Len(events') <= EventsOverlapping
          /\ UNCHANGED <<ingestVars, deletionVars>>
       \/ /\ focus = "billing" /\ (StripeStep \/ Checkout \/ Webhook)
          /\ Len(events') <= EventsOfClosing
          /\ \A a \in Attempts : stripe'[a] # "invoiced"
          /\ UNCHANGED <<ingestVars, deletionVars>>
       \/ /\ focus = "mail" /\ (Intake \/ Correspondence \/ Discarding) /\ NoUploads
          /\ UNCHANGED <<billingVars, deletionVars>>
       \/ /\ focus = "both" /\ (Intake \/ Correspondence) /\ OneUpload
          /\ UNCHANGED <<billingVars, deletionVars>>
       \/ /\ focus = "uploads" /\ (Intake \/ Discarding)
          /\ UNCHANGED <<billingVars, deletionVars>>
       \/ /\ focus = "files" /\ (Intake \/ \E w \in Writers : InvoiceStep(w))
          /\ UNCHANGED <<billingVars, deletionVars>>
       \/ focus = "billing" /\ DeletionNext
       \/ focus = "files" /\ (RequestClosure \/ JobLeaseExpires \/ AttemptInTurn)

Spec == Init /\ [][Next]_vars
=============================================================================
