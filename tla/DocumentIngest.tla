--------------------------- MODULE DocumentIngest ---------------------------
(***************************************************************************)
(* How originals get into quarantine: uploads from the browser, the        *)
(* attachments of one forwarded email whose delivery may be repeated, and  *)
(* the PDFs of customer invoices, which take a shorter way.                *)
(*                                                                         *)
(* The object store and the database cannot be written together.  An       *)
(* intent row is written before the object and removed with the insertion  *)
(* of the document; cleaners remove the objects of intents that are known  *)
(* to have failed.  A writer is one request, a cleaner one call of         *)
(* cleanupDocumentIngests for one row, which uploads, deliveries, the      *)
(* inbox settings, the account deletion and the scheduled tick all make.   *)
(***************************************************************************)
EXTENDS Naturals, Sequences, FiniteSets, DeletionJob

CONSTANTS
    Writers,     \* requests that store an original
    Cleaners,    \* cleanups in flight at a time
    Nobody,      \* the holder of a lease nobody holds
    Contents,    \* digests of files
    Mail,        \* the attachments of the email, a sequence of contents
    MaxOriginals \* bound: object keys handed out

ASSUME MailAssumption == Mail \in Seq(Contents) /\ MaxOriginals \in Nat

Originals == 1 .. MaxOriginals
Attachments == 1 .. Len(Mail)
NoIntent == [id |-> 0, state |-> "none", by |-> Nobody, live |-> FALSE]
NoDocument == [id |-> 0, state |-> "none"]

VARIABLES
    objects,   \* the originals in the object store
    nextKey,   \* the next original's key
    intents,   \* content -> its row of document_ingest_intents
    doc,       \* content -> its row of workspace_documents
    invoices,  \* the keys that are those of invoice PDFs
    received,  \* attachments with a row in document_email_sources
    source,    \* attachment -> document_id of that row, 0 for NULL
    origin,    \* history: original -> the attachment it was committed for
    granted,   \* whether the forwarding address is authorized
    delivery,  \* the row of document_email_deliveries
    at, up,    \* where a writer stands, and its locals
    cat, cup   \* the same for a cleaner

storeVars == <<objects, nextKey, intents, doc, invoices, origin>>
mailVars == <<received, source, delivery>>
ingestVars == <<storeVars, mailVars, granted, at, up, cat, cup>>

NoUpload == [content |-> Nobody, id |-> 0, index |-> 0, current |-> FALSE, found |-> 0, state |-> "none"]
NoCleanup == [content |-> Nobody, id |-> 0]

IngestInit ==
    /\ objects = {} /\ nextKey = 1
    /\ intents = [c \in Contents |-> NoIntent]
    /\ doc = [c \in Contents |-> NoDocument]
    /\ invoices = {}
    /\ received = {} /\ source = [i \in Attachments |-> 0]
    /\ origin = [o \in Originals |-> 0]
    /\ granted = TRUE
    /\ delivery = [status |-> "none", by |-> Nobody, live |-> FALSE]
    /\ at = [w \in Writers |-> "idle"] /\ up = [w \in Writers |-> NoUpload]
    /\ cat = [k \in Cleaners |-> "idle"] /\ cup = [k \in Cleaners |-> NoCleanup]

Write(w, to, locals) ==
    /\ at' = [at EXCEPT ![w] = to]
    /\ up' = [up EXCEPT ![w] = IF to = "idle" THEN NoUpload ELSE locals]

(* The last steps of a delivery are in its finally block; other writers    *)
(* just end.                                                               *)
Leave(w) ==
    IF up[w].index > 0 THEN Write(w, "release", [NoUpload EXCEPT !.index = up[w].index])
                       ELSE Write(w, "idle", NoUpload)

-----------------------------------------------------------------------------
(* Storing an original.                                                    *)

(* What every statement that stores is guarded by: the workspace is not    *)
(* being erased and, for mail, the authorization is the one that was read  *)
(* and the delivery is still leased to this request.                       *)
MailGuard(w) ==
    /\ WorkspaceExists
    /\ granted /\ up[w].current
    /\ delivery.by = w /\ delivery.live

Guard(w) == ~Erasing /\ (up[w].index > 0 => MailGuard(w))

BeginUpload(w) ==
    /\ at[w] = "idle"
    /\ WorkspaceExists /\ ~Erasing
    /\ \E c \in Contents : Write(w, "find", [NoUpload EXCEPT !.content = c])
    /\ UNCHANGED <<storeVars, mailVars, granted, cat, cup, jobVars>>

(* Any check or statement may throw.                                       *)
Throw(w) ==
    /\ at[w] \in {"find", "pending", "reserve", "mark", "recheck", "duplicate",
                  "attachment", "finish"}
    /\ Leave(w)
    /\ UNCHANGED <<storeVars, mailVars, granted, cat, cup, jobVars>>

(* A request may be evicted after any statement.                           *)
Evict(w) ==
    /\ at[w] # "idle" /\ Write(w, "idle", NoUpload)
    /\ UNCHANGED <<storeVars, mailVars, granted, cat, cup, jobVars>>

FindExisting(w) ==
    /\ at[w] = "find"
    /\ LET existing == doc[up[w].content]
       IN  IF existing.id # 0
             THEN Write(w, "duplicate", [up[w] EXCEPT !.found = existing.id, !.state = existing.state])
             ELSE Write(w, "pending", up[w])
    /\ UNCHANGED <<storeVars, mailVars, granted, cat, cup, jobVars>>

CheckPending(w) ==
    /\ at[w] = "pending"
    /\ IF intents[up[w].content] = NoIntent THEN Write(w, "reserve", up[w]) ELSE Leave(w)
    /\ UNCHANGED <<storeVars, mailVars, granted, cat, cup, jobVars>>

(* The intent is there before the object: one per digest, by a unique key. *)
Reserve(w) ==
    /\ at[w] = "reserve"
    /\ LET c == up[w].content
       IN  IF Guard(w) /\ intents[c] = NoIntent
             THEN /\ nextKey \in Originals
                  /\ nextKey' = nextKey + 1
                  /\ intents' = [intents EXCEPT ![c] = [NoIntent EXCEPT !.id = nextKey, !.state = "writing"]]
                  /\ Write(w, "put", [up[w] EXCEPT !.id = nextKey])
             ELSE Leave(w) /\ UNCHANGED <<intents, nextKey>>
    /\ UNCHANGED <<objects, doc, invoices, origin, mailVars, granted, cat, cup, jobVars>>

(* The upload may fail with or without having been carried out.            *)
PutObject(w) ==
    /\ at[w] = "put"
    /\ \E stored, answered \in BOOLEAN :
         /\ answered => stored
         /\ objects' = IF stored THEN objects \cup {up[w].id} ELSE objects
         /\ Write(w, IF answered THEN "commit" ELSE "mark", up[w])
    /\ UNCHANGED <<nextKey, intents, doc, invoices, origin, mailVars, granted, cat, cup, jobVars>>

(* One batch: the document, its email source, and the intent's removal.  A *)
(* unique or foreign key that fails takes back all of it.                  *)
CommitOriginal(w) ==
    /\ at[w] = "commit"
    /\ LET c == up[w].content
           i == up[w].index
           o == up[w].id
           permitted ==
             /\ Guard(w) /\ intents[c].id = o /\ intents[c].state = "writing"
             /\ WorkspaceExists /\ doc[c] = NoDocument /\ i \notin received
       IN  IF permitted
             THEN /\ doc' = [doc EXCEPT ![c] = [id |-> o, state |-> "kept"]]
                  /\ intents' = [intents EXCEPT ![c] = NoIntent]
                  /\ received' = IF i > 0 THEN received \cup {i} ELSE received
                  /\ source' = IF i > 0 THEN [source EXCEPT ![i] = o] ELSE source
                  /\ origin' = [origin EXCEPT ![o] = i]
                  /\ \E answered \in BOOLEAN :
                       IF ~answered THEN Write(w, "mark", up[w])
                       ELSE IF i > 0
                         THEN Write(w, "attachment", [NoUpload EXCEPT !.index = i + 1])
                         ELSE Write(w, "idle", NoUpload)
             ELSE /\ Write(w, "mark", up[w])
                  /\ UNCHANGED <<doc, intents, received, source, origin>>
    /\ UNCHANGED <<objects, nextKey, invoices, delivery, granted, cat, cup, jobVars>>

(* The catch block: a write that is known to have returned may be cleaned. *)
MarkForCleanup(w) ==
    /\ at[w] = "mark"
    /\ LET c == up[w].content
       IN  intents' = IF intents[c].id = up[w].id
                        THEN [intents EXCEPT ![c].state = "cleanup"] ELSE intents
    /\ Write(w, "recheck", up[w])
    /\ UNCHANGED <<objects, nextKey, doc, invoices, origin, mailVars, granted, cat, cup, jobVars>>

FindDuplicate(w) ==
    /\ at[w] = "recheck"
    /\ LET existing == doc[up[w].content]
       IN  IF existing.id \notin {0, up[w].id}
             THEN Write(w, "duplicate", [up[w] EXCEPT !.found = existing.id, !.state = existing.state])
             ELSE Leave(w)
    /\ UNCHANGED <<storeVars, mailVars, granted, cat, cup, jobVars>>

(* Variant: goes on although nothing was recorded.                         *)
RecordDuplicateUnchecked(w) ==
    /\ at[w] = "duplicate"
    /\ LET i == up[w].index
           insert == i > 0 /\ Guard(w) /\ i \notin received
       IN  /\ received' = IF insert THEN received \cup {i} ELSE received
           /\ source' = IF insert THEN [source EXCEPT ![i] = up[w].found] ELSE source
           /\ IF i > 0 THEN Write(w, "attachment", [NoUpload EXCEPT !.index = i + 1]) ELSE Leave(w)
    /\ UNCHANGED <<storeVars, delivery, granted, cat, cup, jobVars>>

(* An attachment that is already stored gets its source row, which names   *)
(* the document unless that is gone or being deleted.                      *)
RecordDuplicate(w) ==
    /\ at[w] = "duplicate"
    /\ LET i == up[w].index
           insert == i > 0 /\ Guard(w) /\ i \notin received
           known == doc[up[w].content]
           kept == known.id = up[w].found /\ known.state = "kept"
       IN  /\ received' = IF insert THEN received \cup {i} ELSE received
           /\ source' = IF insert THEN [source EXCEPT ![i] = IF kept THEN up[w].found ELSE 0] ELSE source
           /\ IF i > 0 /\ (insert \/ i \in received) /\ up[w].state = "kept"
                THEN Write(w, "attachment", [NoUpload EXCEPT !.index = i + 1])
                ELSE Leave(w)
    /\ UNCHANGED <<storeVars, delivery, granted, cat, cup, jobVars>>

StoreStep(w) ==
    \/ BeginUpload(w) \/ FindExisting(w) \/ CheckPending(w) \/ Reserve(w)
    \/ PutObject(w) \/ CommitOriginal(w) \/ MarkForCleanup(w) \/ FindDuplicate(w)
    \/ RecordDuplicate(w) \/ Throw(w) \/ Evict(w)

-----------------------------------------------------------------------------
(* The delivery of the email, any number of times.                         *)

(* The address, the authorization and an earlier delivery are read.        *)
BeginDelivery(w) ==
    /\ at[w] = "idle" /\ Mail # <<>>
    /\ WorkspaceExists /\ granted /\ ~Erasing
    /\ delivery.status # "complete"
    /\ Write(w, "claim", [NoUpload EXCEPT !.index = 1])
    /\ UNCHANGED <<storeVars, mailVars, granted, cat, cup, jobVars>>

ClaimDelivery(w) ==
    /\ at[w] = "claim"
    /\ IF WorkspaceExists /\ delivery.status # "complete" /\ ~delivery.live
         THEN /\ delivery' = [status |-> "processing", by |-> w, live |-> TRUE]
              /\ Write(w, "attachment", up[w])
         ELSE Write(w, "idle", NoUpload) /\ UNCHANGED delivery
    /\ UNCHANGED <<storeVars, received, source, granted, cat, cup, jobVars>>

(* An attachment that was received before is skipped, also if its original *)
(* was deleted since.  Otherwise the authorization is read anew.           *)
NextAttachment(w) ==
    /\ at[w] = "attachment"
    /\ LET i == up[w].index
       IN  CASE i \notin Attachments -> Write(w, "finish", up[w])
             [] i \in received -> Write(w, "attachment", [up[w] EXCEPT !.index = i + 1])
             [] OTHER ->
                  IF granted /\ ~Erasing
                    THEN Write(w, "find", [up[w] EXCEPT !.content = Mail[i], !.current = TRUE])
                    ELSE Leave(w)
    /\ UNCHANGED <<storeVars, mailVars, granted, cat, cup, jobVars>>

(* Authorized once more, then compared again by the update itself.         *)
FinishDelivery(w) ==
    /\ at[w] = "finish"
    /\ delivery' = IF delivery.by = w /\ delivery.live /\ granted /\ ~Erasing /\ WorkspaceExists
                     THEN [status |-> "complete", by |-> Nobody, live |-> FALSE]
                     ELSE delivery
    /\ Leave(w)
    /\ UNCHANGED <<storeVars, received, source, granted, cat, cup, jobVars>>

(* The finally block gives up only the lease that is still its own.        *)
ReleaseDelivery(w) ==
    /\ at[w] = "release"
    /\ delivery' = IF delivery.by = w THEN [delivery EXCEPT !.by = Nobody, !.live = FALSE] ELSE delivery
    /\ Write(w, "idle", NoUpload)
    /\ UNCHANGED <<storeVars, received, source, granted, cat, cup, jobVars>>

(* Two minutes pass, whether or not the request is still at work.          *)
DeliveryLeaseExpires ==
    /\ delivery.live
    /\ delivery' = [delivery EXCEPT !.live = FALSE]
    /\ UNCHANGED <<storeVars, received, source, granted, at, up, cat, cup, jobVars>>

DeliveryStep(w) ==
    \/ BeginDelivery(w) \/ ClaimDelivery(w) \/ NextAttachment(w)
    \/ FinishDelivery(w) \/ ReleaseDelivery(w)

(* The address is disabled or replaced, or who authorized it is suspended. *)
WithdrawGrant ==
    /\ granted /\ granted' = FALSE
    /\ UNCHANGED <<storeVars, mailVars, at, up, cat, cup, jobVars>>

(* The role, the permissions or the subscription change and still allow    *)
(* it, but what a request has read of them is no longer what is there:     *)
(* "current" is the comparison its guard makes.                            *)
ReviseGrant ==
    /\ up' = [w \in Writers |-> [up[w] EXCEPT !.current = FALSE]]
    /\ UNCHANGED <<storeVars, mailVars, granted, at, cat, cup, jobVars>>

-----------------------------------------------------------------------------
(* An invoice PDF is put first and has no intent; only the request itself  *)
(* removes it when its rows are refused.                                   *)

BeginInvoice(w) ==
    /\ at[w] = "idle" /\ nextKey \in Originals
    /\ WorkspaceExists /\ ~Erasing
    /\ nextKey' = nextKey + 1 /\ invoices' = invoices \cup {nextKey}
    /\ Write(w, "put_invoice", [NoUpload EXCEPT !.id = nextKey])
    /\ UNCHANGED <<objects, intents, doc, origin, mailVars, granted, cat, cup, jobVars>>

PutInvoice(w) ==
    /\ at[w] = "put_invoice"
    /\ objects' = objects \cup {up[w].id}
    /\ Write(w, "commit_invoice", up[w])
    /\ UNCHANGED <<nextKey, intents, doc, invoices, origin, mailVars, granted, cat, cup, jobVars>>

CommitInvoice(w) ==
    /\ at[w] = "commit_invoice"
    /\ Write(w, IF WorkspaceExists THEN "idle" ELSE "remove_invoice", up[w])
    /\ UNCHANGED <<storeVars, mailVars, granted, cat, cup, jobVars>>

RemoveInvoice(w) ==
    /\ at[w] = "remove_invoice"
    /\ objects' = objects \ {up[w].id}
    /\ Write(w, "idle", NoUpload)
    /\ UNCHANGED <<nextKey, intents, doc, invoices, origin, mailVars, granted, cat, cup, jobVars>>

InvoiceStep(w) == BeginInvoice(w) \/ PutInvoice(w) \/ CommitInvoice(w) \/ RemoveInvoice(w)

-----------------------------------------------------------------------------
(* A cleaner of one intent.                                                *)

Clean(k, to, locals) ==
    /\ cat' = [cat EXCEPT ![k] = to]
    /\ cup' = [cup EXCEPT ![k] = IF to = "idle" THEN NoCleanup ELSE locals]

(* Variant: also claims a write that may still be under way.               *)
ClaimAnyIntent(k) ==
    /\ cat[k] = "idle"
    /\ \E c \in Contents :
         /\ intents[c] # NoIntent /\ ~intents[c].live
         /\ intents' = [intents EXCEPT ![c].by = k, ![c].live = TRUE]
         /\ Clean(k, "check", [content |-> c, id |-> intents[c].id])
    /\ UNCHANGED <<objects, nextKey, doc, invoices, origin, mailVars, granted, at, up, jobVars>>

ClaimIntent(k) ==
    /\ cat[k] = "idle"
    /\ \E c \in Contents :
         /\ intents[c].state = "cleanup" /\ ~intents[c].live
         /\ intents' = [intents EXCEPT ![c].by = k, ![c].live = TRUE]
         /\ Clean(k, "check", [content |-> c, id |-> intents[c].id])
    /\ UNCHANGED <<objects, nextKey, doc, invoices, origin, mailVars, granted, at, up, jobVars>>

(* Never delete an original whose transaction committed.                   *)
CheckCommitted(k) ==
    /\ cat[k] = "check"
    /\ Clean(k, IF doc[cup[k].content].id = cup[k].id THEN "unclaim" ELSE "delete", cup[k])
    /\ UNCHANGED <<storeVars, mailVars, granted, at, up, jobVars>>

DeleteObject(k) ==
    /\ cat[k] = "delete"
    /\ \E deleted, answered \in BOOLEAN :
         /\ answered => deleted
         /\ objects' = IF deleted THEN objects \ {cup[k].id} ELSE objects
         /\ Clean(k, IF answered THEN "drop" ELSE "unclaim", cup[k])
    /\ UNCHANGED <<nextKey, intents, doc, invoices, origin, mailVars, granted, at, up, jobVars>>

DropIntent(k) ==
    /\ cat[k] = "drop"
    /\ LET c == cup[k].content
       IN  intents' = IF intents[c].id = cup[k].id /\ intents[c].by = k
                        THEN [intents EXCEPT ![c] = NoIntent] ELSE intents
    /\ Clean(k, "unclaim", cup[k])
    /\ UNCHANGED <<objects, nextKey, doc, invoices, origin, mailVars, granted, at, up, jobVars>>

Unclaim(k) ==
    /\ cat[k] = "unclaim"
    /\ LET c == cup[k].content
       IN  intents' = IF intents[c].id = cup[k].id /\ intents[c].by = k
                        THEN [intents EXCEPT ![c].by = Nobody, ![c].live = FALSE] ELSE intents
    /\ Clean(k, "idle", NoCleanup)
    /\ UNCHANGED <<objects, nextKey, doc, invoices, origin, mailVars, granted, at, up, jobVars>>

EvictCleaner(k) ==
    /\ cat[k] # "idle" /\ Clean(k, "idle", NoCleanup)
    /\ UNCHANGED <<storeVars, mailVars, granted, at, up, jobVars>>

CleanerStep(k) ==
    \/ ClaimIntent(k) \/ CheckCommitted(k) \/ DeleteObject(k)
    \/ DropIntent(k) \/ Unclaim(k) \/ EvictCleaner(k)

IntentLeaseExpires(c) ==
    /\ intents[c].live
    /\ intents' = [intents EXCEPT ![c].live = FALSE]
    /\ UNCHANGED <<objects, nextKey, doc, invoices, origin, mailVars, granted, at, up, cat, cup, jobVars>>

-----------------------------------------------------------------------------
(* The deletion of a document, as DocumentPipeline has it in detail: the   *)
(* row is a tombstone until the original is gone, and then removed.        *)

RequestDeletion(c) ==
    /\ doc[c].state = "kept" /\ ~Erasing
    /\ doc' = [doc EXCEPT ![c].state = "deletion_pending"]
    /\ UNCHANGED <<objects, nextKey, intents, invoices, origin, mailVars, granted, at, up, cat, cup, jobVars>>

RemoveOriginal(c) ==
    /\ doc[c].state = "deletion_pending"
    /\ doc' = [doc EXCEPT ![c].state = "removed"]
    /\ objects' = objects \ {doc[c].id}
    /\ UNCHANGED <<nextKey, intents, invoices, origin, mailVars, granted, at, up, cat, cup, jobVars>>

(* A trigger empties the source rows that name it.                         *)
RemoveRow(c) ==
    /\ doc[c].state = "removed"
    /\ source' = [i \in Attachments |-> IF source[i] = doc[c].id THEN 0 ELSE source[i]]
    /\ doc' = [doc EXCEPT ![c] = NoDocument]
    /\ UNCHANGED <<objects, nextKey, intents, invoices, origin, received, delivery, granted, at, up, cat, cup, jobVars>>

DocumentStep(c) == RequestDeletion(c) \/ RemoveOriginal(c) \/ RemoveRow(c)

IngestNext ==
    \/ \E w \in Writers : StoreStep(w) \/ DeliveryStep(w) \/ InvoiceStep(w)
    \/ \E k \in Cleaners : CleanerStep(k)
    \/ \E c \in Contents : DocumentStep(c) \/ IntentLeaseExpires(c)
    \/ DeliveryLeaseExpires \/ WithdrawGrant \/ ReviseGrant

-----------------------------------------------------------------------------
(* The type invariant of this module.                                      *)
IngestTypeOK ==
    /\ objects \subseteq Originals /\ invoices \subseteq Originals
    /\ nextKey \in 1 .. MaxOriginals + 1
    /\ \A c \in Contents :
         /\ intents[c].id \in {0} \cup Originals
         /\ intents[c].state \in {"none", "writing", "cleanup"}
         /\ intents[c].by \in Cleaners \cup {Nobody}
         /\ doc[c].id \in {0} \cup Originals
         /\ doc[c].state \in {"none", "kept", "deletion_pending", "removed"}
    /\ received \subseteq Attachments
    /\ delivery.status \in {"none", "processing", "complete"}
    /\ delivery.by \in Writers \cup {Nobody}
    /\ granted \in BOOLEAN

(* No original is ever in the object store without a row that leads to it: *)
(* whatever fails, is evicted or is cleaned twice, an intent or a document *)
(* names it until it is gone.  Invoice PDFs do not have this.              *)
EveryOriginalIsNamed ==
    WorkspaceExists => \A o \in objects :
        o \in invoices \/ \E c \in Contents : o \in {intents[c].id, doc[c].id}

(* A document that is kept has its original, however many cleanups run     *)
(* around a commit whose answer was lost.                                  *)
KeptMeansStored ==
    ~Erasing /\ WorkspaceExists =>
        \A c \in Contents : doc[c].state = "kept" => doc[c].id \in objects

(* However often an email is delivered, overlapping or after the owner     *)
(* deleted what it brought, one attachment is stored at most once.         *)
StoredOnce ==
    \A a, b \in Originals : origin[a] # 0 /\ origin[a] = origin[b] => a = b

(* A delivery is reported as received only when each of its attachments    *)
(* was accepted.                                                           *)
CompleteMeansReceived == delivery.status = "complete" => received = Attachments

(* Nothing is stored that no row leads to, nothing kept is missing, and each *)
(* attachment of an email is received once and none is forgotten.          *)
IntakeIsSound ==
    /\ IngestTypeOK /\ EveryOriginalIsNamed /\ KeptMeansStored
    /\ StoredOnce /\ CompleteMeansReceived
=============================================================================
