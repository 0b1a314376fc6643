-------------------------- MODULE DocumentPipeline --------------------------
(***************************************************************************)
(* One uploaded document: its workspace_documents row, its original in R2, *)
(* and the temporary copies that a scan and an extraction leave at Azure.  *)
(* Requests process it (server/document-processing.ts), delete it          *)
(* (document-deletion.ts) or clean up after it, scheduler ticks retry      *)
(* deletions and cleanups (document-cleanup-scheduler.ts), and accounting  *)
(* may approve it.  One action is one awaited statement, provider request  *)
(* or object-store call.                                                   *)
(*                                                                         *)
(* Abstractions.  `json` is the extracted_json column: of `processing`     *)
(* before deletion, of `deletion` after it.  A lease is live until         *)
(* ExpireLease says otherwise.  All services are configured and the stored *)
(* bytes never change, so the object's etag, a digest of them, is matched  *)
(* whenever the object exists.  Notices, permissions and backoff times are *)
(* left out: what is due may be picked at any time.                        *)
(***************************************************************************)
EXTENDS Naturals

CONSTANTS
  Users,          \* requests that may be at work at once
  Schedulers,     \* scheduler ticks that may be at work at once
  Nobody,         \* no lock, no retry lease
  MaxCopies,      \* bound on scans, on extractions and on explicit retries
  MaxFaults       \* bound on errors, lost answers, evictions and stalls

ASSUME WorkerAssumption ==
  Users \cap Schedulers = {} /\ Nobody \notin Users \cup Schedulers
ASSUME CountAssumption ==
  MaxCopies \in Nat \ {0} /\ MaxFaults \in Nat

VARIABLES
  row,      \* the workspace_documents row
  linked,   \* an accounting record refers to the document
  object,   \* the original in R2 and its securityState
  verdict,  \* what Defender will say of these bytes
  whole,    \* does every extraction return as many pages as the file has?
  scans,    \* scan copies in existence
  results,  \* extraction results in existence
  sent,     \* how many scans and extractions were requested
  leading,  \* the ticks whose retry lease has not run out
  tracked,  \* history: the copies the row has ever referred to
  retries,  \* history: how many explicit retries took the claim
  faults,   \* how many faults so far
  pc,       \* where each worker is
  job       \* the locals of each worker

file  == <<verdict, whole>>
azure == <<scans, results, sent>>
past  == <<tracked, retries>>
vars  == <<row, linked, object, file, azure, leading, past, faults, pc, job>>

Workers == Users \cup Schedulers
Copies  == 0..MaxCopies     \* 0: no reference
Stopped == {"failed", "scanning", "starting"}

Empty == [stage |-> "none", lock |-> Nobody, live |-> FALSE, op |-> 0,
          scan |-> 0, receipt |-> FALSE, cleanup |-> FALSE, error |-> "none",
          text |-> FALSE, removed |-> FALSE, retry |-> Nobody]
NoJob == [json |-> Empty, status |-> "gone", scan |-> "pending",
          security |-> "quarantined", extraction |-> "not_configured",
          again |-> FALSE]

Processing == {"claim", "drop_scan", "get", "save_scanning", "submit_scan",
               "save_scan", "poll_scan", "save_waiting", "save_receipt",
               "drop_copy", "renew", "put", "save_verdict", "save_starting",
               "submit_result", "save_reading", "poll_result", "save_again",
               "save_complete", "drop_result", "save_final"}
Deleting   == {"d_start", "d_read", "d_claim", "d_original", "d_result", "d_scan",
               "d_original_save", "d_result_save", "d_scan_save", "d_finish"}
Other      == {"idle", "interrupt", "undo_scan", "undo_result", "catch", "c_read",
               "c_claim", "c_drop", "c_save", "d_release", "t_claim", "t_finish"}
-----------------------------------------------------------------------------
\* An upload waiting in quarantine, or one read to its end whose result could
\* not be deleted at once.
Init ==
  /\ \/ /\ row = [status |-> "review_required", security |-> "quarantined",
                  scan |-> "pending", extraction |-> "not_configured", json |-> Empty]
        /\ object = [exists |-> TRUE, security |-> "quarantined"]
        /\ verdict \in {"clean", "blocked"}
        /\ results = {}
        /\ sent = [scan |-> 0, result |-> 0]
     \/ /\ row = [status |-> "review_required", security |-> "clean",
                  scan |-> "clean", extraction |-> "complete",
                  json |-> [Empty EXCEPT !.stage = "complete", !.op = 1,
                                         !.cleanup = TRUE, !.text = TRUE]]
        /\ object = [exists |-> TRUE, security |-> "clean"]
        /\ verdict = "clean"
        /\ results = {1}
        /\ sent = [scan |-> 1, result |-> 1]
  /\ whole \in BOOLEAN
  /\ linked = FALSE
  /\ scans = {}
  /\ tracked = [scan |-> {}, result |-> results]
  /\ leading = {}
  /\ retries = 0
  /\ faults = 0
  /\ pc = [w \in Workers |-> "idle"]
  /\ job = [w \in Workers |-> NoJob]

Goto(w, l) == pc' = [pc EXCEPT ![w] = l]
End(w)     == Goto(w, "idle") /\ job' = [job EXCEPT ![w] = NoJob]

\* A request ends; a tick still has its retry lease to give back.
Return(w) == IF w \in Schedulers
             THEN Goto(w, "t_finish") /\ job' = [job EXCEPT ![w] = NoJob]
             ELSE End(w)

Fault == faults < MaxFaults /\ faults' = faults + 1

\* The row as read.
Snapshot(again) == [json |-> row.json, status |-> row.status, scan |-> row.scan,
                    security |-> row.security, extraction |-> row.extraction,
                    again |-> again]

\* WHERE extracted_json = what was read.
Same(w) == row.json = job[w].json

\* Variant: the lock is given back and its lease time left behind.
UnlockedInPart(j) == [j EXCEPT !.lock = Nobody]

Unlocked(j)  == [j EXCEPT !.lock = Nobody, !.live = FALSE]
Locked(w, j) == [j EXCEPT !.lock = w, !.live = TRUE]

\* The references of the row are remembered.
Track(j) == tracked' = [scan   |-> tracked.scan \cup ({j.scan} \ {0}),
                        result |-> tracked.result \cup ({j.op} \ {0})]
Present  == row.status \notin {"deletion_pending", "gone"}
-----------------------------------------------------------------------------
(***************************************************************************)
(* processDocument.                                                        *)
(***************************************************************************)
\* A request without `again` only marks what was interrupted.
ReadDocument(w, again) ==
  /\ pc[w] = "idle"
  /\ row.status = "review_required"
  /\ row.security # "rejected"
  /\ ~row.json.live
  /\ row.json.stage # "blocked"
  /\ row.json.stage = "complete" => row.json.cleanup
  /\ IF again THEN row.json.stage \in Stopped ELSE row.json.stage # "failed"
  /\ job' = [job EXCEPT ![w] = Snapshot(again)]
  /\ Goto(w, IF ~again /\ row.json.stage \in Stopped THEN "interrupt" ELSE "claim")
  /\ UNCHANGED <<row, linked, object, file, azure, leading, past, faults>>

MarkInterrupted(w) ==
  /\ pc[w] = "interrupt"
  /\ row' = IF Same(w)
            THEN [row EXCEPT !.json = [Unlocked(@) EXCEPT !.stage = "failed",
                                                          !.error = "interrupted"]]
            ELSE row
  /\ End(w)
  /\ UNCHANGED <<linked, object, file, azure, leading, past, faults>>

\* The step a retry returns to.
RetryStage(j, scan, security) ==
  IF scan = "clean" /\ security = "clean"
  THEN IF j.op # 0 /\ j.error # "incomplete" THEN "reading" ELSE "scanned"
  ELSE IF j.scan # 0 /\ j.error # "rescan" THEN "scan_waiting" ELSE "queued"

\* The job as claimed: a new authorization, a retry, or the saved step.
Resumed(w) ==
  LET l == job[w] IN
  IF l.json.stage = "none" THEN [Empty EXCEPT !.stage = "queued"]
  ELSE IF l.again
  THEN [l.json EXCEPT !.stage = RetryStage(l.json, l.scan, l.security), !.error = "none"]
  ELSE l.json

FirstStep(j) ==
  IF j.scan # 0 /\ j.stage # "scan_waiting" THEN "drop_scan"
  ELSE IF j.stage = "complete" THEN "drop_result"
  ELSE IF j.stage = "reading"  THEN "poll_result" ELSE "get"

Claim(w) ==
  /\ pc[w] = "claim"
  /\ job[w].again => retries < MaxCopies
  /\ IF Same(w) /\ row.status = "review_required"
     THEN LET j == Locked(w, Resumed(w)) IN
          /\ row' = [row EXCEPT !.json = j]
          /\ job' = [job EXCEPT ![w].json = j]
          /\ retries' = IF job[w].again THEN retries + 1 ELSE retries
          /\ Goto(w, FirstStep(j))
     ELSE End(w) /\ UNCHANGED <<row, retries>>
  /\ UNCHANGED <<linked, object, file, azure, leading, tracked, faults>>

\* Every save asks that the claim is still this worker's.
CanSave(w) == row.json.lock = w /\ row.status = "review_required"

\* save(stage, release) of the locals; then `next`, or `lost` if refused.
Save(w, stage, release, next, lost) ==
  LET j == [job[w].json EXCEPT !.stage = stage]
      s == IF release THEN Unlocked(j) ELSE Locked(w, j) IN
  /\ IF CanSave(w)
     THEN /\ row' = [row EXCEPT !.json = s, !.scan = job[w].scan,
                                !.security = job[w].security,
                                !.extraction = job[w].extraction]
          /\ Track(s)
          /\ IF next = "idle" THEN End(w)
             ELSE Goto(w, next) /\ job' = [job EXCEPT ![w].json = s]
     ELSE /\ UNCHANGED <<row, tracked>>
          /\ IF lost = "idle" THEN End(w) ELSE Goto(w, lost) /\ UNCHANGED job
  /\ UNCHANGED <<linked, object, file, azure, leading, retries, faults>>

\* The copy of a scan that has to be repeated goes first.
DropScan(w) ==
  /\ pc[w] = "drop_scan"
  /\ scans' = scans \ {job[w].json.scan}
  /\ job' = [job EXCEPT ![w].json.scan = 0, ![w].json.receipt = FALSE]
  /\ Goto(w, "get")
  /\ UNCHANGED <<row, linked, object, file, results, sent, leading, past, faults>>

\* What makes a step fail without any fault: the original, the scan copy or the
\* result is gone, or the file was not found clean or never released.
MustThrow(w) ==
  \/ pc[w] = "get" /\ ~object.exists
  \/ /\ pc[w] = "get" /\ job[w].json.stage = "scanned"
     /\ ~(job[w].scan = "clean" /\ job[w].security = "clean" /\ object.security = "clean")
  \/ pc[w] = "poll_scan" /\ job[w].json.scan \notin scans
  \/ pc[w] = "poll_result" /\ job[w].json.op \notin results

GetOriginal(w) ==
  /\ pc[w] = "get"
  /\ ~MustThrow(w)
  /\ Goto(w, CASE job[w].json.stage = "queued"  -> "save_scanning"
               [] job[w].json.stage = "scanned" -> "save_starting"
               [] OTHER -> IF job[w].json.receipt THEN "save_receipt" ELSE "poll_scan")
  /\ UNCHANGED <<row, linked, object, file, azure, leading, past, faults, job>>

\* Variant: the claim is not asked for before the provider is.
SaveScanningAnyway(w) ==
  pc[w] = "save_scanning" /\ Save(w, "scanning", FALSE, "submit_scan", "submit_scan")

SaveScanning(w) == pc[w] = "save_scanning" /\ Save(w, "scanning", FALSE, "submit_scan", "idle")

SubmitScan(w) ==
  /\ pc[w] = "submit_scan"
  /\ sent.scan < MaxCopies
  /\ sent' = [sent EXCEPT !.scan = @ + 1]
  /\ scans' = scans \cup {sent.scan + 1}
  /\ job' = [job EXCEPT ![w].json.scan = sent.scan + 1, ![w].json.receipt = FALSE,
                        ![w].scan = "pending", ![w].security = "quarantined"]
  /\ Goto(w, "save_scan")
  /\ UNCHANGED <<row, linked, object, file, results, leading, past, faults>>

SaveScan(w) == pc[w] = "save_scan" /\ Save(w, "scan_waiting", TRUE, "idle", "undo_scan")

\* A copy whose reference could not be saved is deleted on a best effort.
UndoScan(w) ==
  /\ pc[w] = "undo_scan"
  /\ \/ scans' = scans \ {job[w].json.scan} /\ UNCHANGED faults
     \/ Fault /\ UNCHANGED scans
  /\ End(w)
  /\ UNCHANGED <<row, linked, object, file, results, sent, leading, past>>

\* Defender has not decided yet, or it has.
PollScan(w) ==
  /\ pc[w] = "poll_scan"
  /\ ~MustThrow(w)
  /\ \/ Goto(w, "save_waiting") /\ UNCHANGED job
     \/ Goto(w, "save_receipt") /\ job' = [job EXCEPT ![w].json.receipt = TRUE]
  /\ UNCHANGED <<row, linked, object, file, azure, leading, past, faults>>

SaveWaiting(w) == pc[w] = "save_waiting" /\ Save(w, "scan_waiting", TRUE, "idle", "idle")

\* Variant: the original is released before the scan copy is removed.
SaveReceiptOnly(w) == pc[w] = "save_receipt" /\ Save(w, "scan_waiting", FALSE, "renew", "idle")

\* The verdict is saved before the copy is deleted, the copy before the claim
\* is renewed, and the claim before the original is released.
SaveReceipt(w) == pc[w] = "save_receipt" /\ Save(w, "scan_waiting", FALSE, "drop_copy", "idle")

DropCopy(w) ==
  /\ pc[w] = "drop_copy"
  /\ scans' = scans \ {job[w].json.scan}
  /\ job' = [job EXCEPT ![w].json.scan = 0, ![w].json.receipt = FALSE,
                        ![w].json.error = "none"]
  /\ Goto(w, "renew")
  /\ UNCHANGED <<row, linked, object, file, results, sent, leading, past, faults>>

Renew(w) ==
  /\ pc[w] = "renew"
  /\ IF CanSave(w)
     THEN /\ row' = [row EXCEPT !.json.live = TRUE]
          /\ job' = [job EXCEPT ![w].scan = verdict,
                       ![w].security = IF verdict = "clean" THEN "clean" ELSE "rejected"]
          /\ Goto(w, "put")
     ELSE End(w) /\ UNCHANGED row
  /\ UNCHANGED <<linked, object, file, azure, leading, past, faults>>

\* The conditional write of the same bytes with their new securityState.
Put(w) ==
  /\ pc[w] = "put"
  /\ IF object.exists
     THEN /\ object' = [object EXCEPT !.security = job[w].security]
          /\ job' = [job EXCEPT ![w].extraction =
                                  IF verdict = "clean" THEN "pending" ELSE "not_configured"]
          /\ Goto(w, "save_verdict")
     ELSE End(w) /\ UNCHANGED object
  /\ UNCHANGED <<row, linked, file, azure, leading, past, faults>>

SaveVerdict(w) ==
  /\ pc[w] = "save_verdict"
  /\ Save(w, IF verdict = "clean" THEN "scanned" ELSE "blocked", TRUE, "idle", "idle")

SaveStarting(w) == pc[w] = "save_starting" /\ Save(w, "starting", FALSE, "submit_result", "idle")

\* The reference of an earlier result is overwritten.
SubmitResult(w) ==
  /\ pc[w] = "submit_result"
  /\ sent.result < MaxCopies
  /\ sent' = [sent EXCEPT !.result = @ + 1]
  /\ results' = results \cup {sent.result + 1}
  /\ job' = [job EXCEPT ![w].json.op = sent.result + 1, ![w].json.error = "none",
                        ![w].extraction = "pending"]
  /\ Goto(w, "save_reading")
  /\ UNCHANGED <<row, linked, object, file, scans, leading, past, faults>>

SaveReading(w) == pc[w] = "save_reading" /\ Save(w, "reading", TRUE, "idle", "undo_result")

UndoResult(w) ==
  /\ pc[w] = "undo_result"
  /\ \/ results' = results \ {job[w].json.op} /\ UNCHANGED faults
     \/ Fault /\ UNCHANGED results
  /\ End(w)
  /\ UNCHANGED <<row, linked, object, file, scans, sent, leading, past>>

\* The analysis is running, complete, or complete with pages missing.
PollResult(w) ==
  /\ pc[w] = "poll_result"
  /\ ~MustThrow(w)
  /\ \/ Goto(w, "save_again") /\ UNCHANGED job
     \/ /\ Goto(w, "save_complete")
        /\ job' = [job EXCEPT ![w].json.text = TRUE, ![w].json.cleanup = TRUE,
                              ![w].json.error = "none", ![w].extraction = "complete"]
     \/ /\ ~whole
        /\ Goto(w, "catch")
        /\ job' = [job EXCEPT ![w].json.error = "incomplete"]
  /\ UNCHANGED <<row, linked, object, file, azure, leading, past, faults>>

SaveAgain(w) == pc[w] = "save_again" /\ Save(w, "reading", TRUE, "idle", "idle")

SaveComplete(w) == pc[w] = "save_complete" /\ Save(w, "complete", FALSE, "drop_result", "idle")

\* Failing to delete a result leaves its reference for a later cleanup.
DropResult(w) ==
  /\ pc[w] = "drop_result"
  /\ \/ /\ results' = results \ {job[w].json.op}
        /\ job' = [job EXCEPT ![w].json.op = 0, ![w].json.cleanup = FALSE]
        /\ UNCHANGED faults
     \/ Fault /\ UNCHANGED <<results, job>>
  /\ Goto(w, "save_final")
  /\ UNCHANGED <<row, linked, object, file, scans, sent, leading, past>>

SaveFinal(w) == pc[w] = "save_final" /\ Save(w, "complete", TRUE, "idle", "idle")

\* Any awaited call throws.  A scan that timed out or did not complete, or an
\* original that changed, asks for a new scan.
Throw(w) ==
  /\ pc[w] \in Processing \ {"claim", "drop_result"}
  /\ IF MustThrow(w) THEN UNCHANGED faults ELSE Fault
  /\ \E error \in IF pc[w] \in {"get", "poll_scan", "drop_copy"}
                  THEN {"interrupted", "rescan"} ELSE {"interrupted"} :
       job' = [job EXCEPT ![w].json.error = error,
                 ![w].json.stage = IF pc[w] \in {"save_complete", "save_final"}
                                   THEN "complete" ELSE @]
  /\ Goto(w, "catch")
  /\ UNCHANGED <<row, linked, object, file, azure, leading, past>>

\* The provider did the work, its answer is lost.
LoseAnswer(w) ==
  /\ Fault
  /\ \/ /\ pc[w] = "submit_scan" /\ sent.scan < MaxCopies
        /\ sent' = [sent EXCEPT !.scan = @ + 1]
        /\ scans' = scans \cup {sent.scan + 1}
        /\ UNCHANGED results
     \/ /\ pc[w] = "submit_result" /\ sent.result < MaxCopies
        /\ sent' = [sent EXCEPT !.result = @ + 1]
        /\ results' = results \cup {sent.result + 1}
        /\ UNCHANGED scans
     \/ /\ pc[w] \in {"drop_scan", "drop_copy"}
        /\ scans' = scans \ {job[w].json.scan}
        /\ UNCHANGED <<results, sent>>
  /\ job' = [job EXCEPT ![w].json.error = "interrupted"]
  /\ Goto(w, "catch")
  /\ UNCHANGED <<row, linked, object, file, leading, past>>

\* The catch block saves with the locals it has: a verdict reached before the
\* error is kept, even if the original was not released.
Catch(w) ==
  LET l    == job[w]
      done == l.scan \in {"clean", "blocked"}
      full == l.json.stage = "complete" /\ l.json.text
      s    == [Unlocked(l.json) EXCEPT !.stage = IF full THEN "complete" ELSE "failed"] IN
  /\ pc[w] = "catch"
  /\ IF CanSave(w)
     THEN /\ row' = [row EXCEPT !.json = s,
               !.scan = IF done THEN l.scan ELSE "failed",
               !.security = IF done THEN l.security ELSE "quarantined",
               !.extraction = IF full THEN l.extraction
                              ELSE IF l.scan = "clean" THEN "failed" ELSE "not_configured"]
          /\ Track(s)
     ELSE UNCHANGED <<row, tracked>>
  /\ End(w)
  /\ UNCHANGED <<linked, object, file, azure, leading, retries, faults>>
-----------------------------------------------------------------------------
(***************************************************************************)
(* cleanupCompletedDocument.  A completed document has no scan copy left,  *)
(* so only its extraction result is in question.                           *)
(***************************************************************************)
Completed == /\ Present
             /\ row.extraction = "complete"
             /\ row.json.stage = "complete" /\ row.json.text
             /\ row.json.op # 0

\* Variant: a claim left behind stands in the way of cleanup.
CleanableUnclaimed == Completed /\ row.json.lock = Nobody

Cleanable == Completed /\ ~row.json.live

\* A tick goes on only under its own retry lease.
Leads(w) == w \in Schedulers => row.json.retry = w /\ w \in leading

RequestCleanup(w) ==
  /\ pc[w] = "idle"
  /\ Cleanable
  /\ Goto(w, "c_read")
  /\ UNCHANGED <<row, linked, object, file, azure, leading, past, faults, job>>

ReadForCleanup(w) ==
  /\ pc[w] = "c_read"
  /\ IF Cleanable /\ Leads(w)
     THEN Goto(w, "c_claim") /\ job' = [job EXCEPT ![w] = Snapshot(FALSE)]
     ELSE Return(w)
  /\ UNCHANGED <<row, linked, object, file, azure, leading, past, faults>>

ClaimCleanup(w) ==
  /\ pc[w] = "c_claim"
  /\ IF Same(w) /\ Present
     THEN /\ row' = [row EXCEPT !.json = Locked(w, @)]
          /\ job' = [job EXCEPT ![w].json = Locked(w, @)]
          /\ Goto(w, "c_drop")
     ELSE Return(w) /\ UNCHANGED row
  /\ UNCHANGED <<linked, object, file, azure, leading, past, faults>>

CleanupResult(w) ==
  /\ pc[w] = "c_drop"
  /\ \/ /\ results' = results \ {job[w].json.op}
        /\ job' = [job EXCEPT ![w].json.op = 0, ![w].json.cleanup = FALSE,
                              ![w].json.error = "none"]
        /\ UNCHANGED faults
     \/ Fault /\ job' = [job EXCEPT ![w].json.cleanup = TRUE] /\ UNCHANGED results
  /\ Goto(w, "c_save")
  /\ UNCHANGED <<row, linked, object, file, scans, sent, leading, past>>

\* The save, or the release alone if it throws.
SaveCleanup(w) ==
  /\ pc[w] = "c_save"
  /\ \E j \in {job[w].json, row.json} :
       /\ IF j = job[w].json THEN UNCHANGED faults ELSE Fault
       /\ row' = IF Present /\ row.json.lock = w
                 THEN [row EXCEPT !.json = Unlocked(j)] ELSE row
  /\ Return(w)
  /\ UNCHANGED <<linked, object, file, azure, leading, past>>
-----------------------------------------------------------------------------
(***************************************************************************)
(* deleteDocument, with the triggers of drizzle/0052.                      *)
(***************************************************************************)
MayDelete == Present /\ row.status # "approved" /\ ~linked /\ row.json.lock = Nobody

RequestDeletion(w) ==
  /\ pc[w] = "idle"
  /\ \/ MayDelete /\ Goto(w, "d_start") /\ job' = [job EXCEPT ![w] = Snapshot(FALSE)]
     \/ row.status = "deletion_pending" /\ Goto(w, "d_read") /\ UNCHANGED job
  /\ UNCHANGED <<row, linked, object, file, azure, leading, past, faults>>

\* Extracted text goes at once; the references to remaining copies stay.
StartDeletion(w) ==
  /\ pc[w] = "d_start"
  /\ IF Same(w) /\ MayDelete
     THEN /\ row' = [row EXCEPT !.status = "deletion_pending", !.security = "quarantined",
                                !.json = [Empty EXCEPT !.op = job[w].json.op,
                                                       !.scan = job[w].json.scan]]
          /\ Goto(w, "d_read")
          /\ job' = [job EXCEPT ![w] = NoJob]
     ELSE End(w) /\ UNCHANGED row
  /\ UNCHANGED <<linked, object, file, azure, leading, past, faults>>

ReadTombstone(w) ==
  /\ pc[w] = "d_read"
  /\ IF row.status = "deletion_pending" /\ ~row.json.live /\ Leads(w)
     THEN Goto(w, "d_claim") /\ job' = [job EXCEPT ![w] = Snapshot(FALSE)]
     ELSE Return(w)
  /\ UNCHANGED <<row, linked, object, file, azure, leading, past, faults>>

\* Each remaining copy is tried once: the original, the result, the scan copy.
NextCopy(j, from) ==
  IF from = "d_claim" /\ ~j.removed THEN "d_original"
  ELSE IF from \in {"d_claim", "d_original_save"} /\ j.op # 0 THEN "d_result"
  ELSE IF from # "d_scan_save" /\ j.scan # 0 THEN "d_scan" ELSE "d_finish"

ClaimDeletion(w) ==
  /\ pc[w] = "d_claim"
  /\ IF Same(w) /\ row.status = "deletion_pending"
     THEN LET j == Locked(w, row.json) IN
          /\ row' = [row EXCEPT !.json = j]
          /\ job' = [job EXCEPT ![w].json = j]
          /\ Goto(w, NextCopy(j, "d_claim"))
     ELSE Return(w) /\ UNCHANGED row
  /\ UNCHANGED <<linked, object, file, azure, leading, past, faults>>

\* Deleting a copy succeeds, or fails and leaves its reference.
DeleteCopy(w) ==
  /\ \/ /\ UNCHANGED faults
        /\ \/ /\ pc[w] = "d_original"
              /\ object' = [object EXCEPT !.exists = FALSE]
              /\ job' = [job EXCEPT ![w].json.removed = TRUE]
              /\ UNCHANGED <<scans, results>>
           \/ /\ pc[w] = "d_result"
              /\ results' = results \ {job[w].json.op}
              /\ job' = [job EXCEPT ![w].json.op = 0]
              /\ UNCHANGED <<object, scans>>
           \/ /\ pc[w] = "d_scan"
              /\ scans' = scans \ {job[w].json.scan}
              /\ job' = [job EXCEPT ![w].json.scan = 0]
              /\ UNCHANGED <<object, results>>
     \/ /\ pc[w] \in {"d_original", "d_result", "d_scan"}
        /\ Fault
        /\ UNCHANGED <<object, scans, results, job>>
  /\ Goto(w, CASE pc[w] = "d_original" -> "d_original_save"
               [] pc[w] = "d_result" -> "d_result_save" [] OTHER -> "d_scan_save")
  /\ UNCHANGED <<row, linked, file, sent, leading, past>>

Tombstone(w) == row.status = "deletion_pending" /\ row.json.lock = w

SaveDeletion(w) ==
  /\ pc[w] \in {"d_original_save", "d_result_save", "d_scan_save"}
  /\ IF Tombstone(w)
     THEN /\ row' = [row EXCEPT !.json = Locked(w, job[w].json)]
          /\ Goto(w, NextCopy(job[w].json, pc[w]))
          /\ UNCHANGED job
     ELSE Return(w) /\ UNCHANGED row
  /\ UNCHANGED <<linked, object, file, azure, leading, past, faults>>

\* Variant: the tombstone goes although a result is left.
DisposedButResult(j) == j.removed /\ j.scan = 0

Disposed(j) == j.removed /\ j.op = 0 /\ j.scan = 0

FinishDeletion(w) ==
  /\ pc[w] = "d_finish"
  /\ IF ~Disposed(job[w].json) THEN Goto(w, "d_release") /\ UNCHANGED <<row, job>>
     ELSE /\ row' = IF Tombstone(w) THEN [row EXCEPT !.status = "gone", !.json = Empty]
                    ELSE row
          /\ Return(w)
  /\ UNCHANGED <<linked, object, file, azure, leading, past, faults>>

\* A statement of the deletion throws; the lease is given back all the same.
ThrowDeletion(w) ==
  /\ pc[w] \in {"d_original_save", "d_result_save", "d_scan_save", "d_finish"}
  /\ Fault
  /\ Goto(w, "d_release")
  /\ UNCHANGED <<row, linked, object, file, azure, leading, past, job>>

ReleaseDeletion(w) ==
  /\ pc[w] = "d_release"
  /\ row' = IF Tombstone(w) THEN [row EXCEPT !.json = Unlocked(@)] ELSE row
  /\ Return(w)
  /\ UNCHANGED <<linked, object, file, azure, leading, past, faults>>
-----------------------------------------------------------------------------
(***************************************************************************)
(* runDocumentCleanupTick.                                                 *)
(***************************************************************************)
\* Variant: a deletion whose request died is not due.
DueUnclaimed == Cleanable \/ (row.status = "deletion_pending" /\ row.json.lock = Nobody)

\* A tombstone or a result to clean up.
Due == Cleanable \/ (row.status = "deletion_pending" /\ ~row.json.live)

\* The row must not be on lease to a tick.  A tick's name is used again only
\* when its last lease has run out.
SelectDue(w) ==
  /\ pc[w] = "idle"
  /\ row.json.retry \notin leading
  /\ w \notin leading
  /\ Due
  /\ job' = [job EXCEPT ![w] = Snapshot(FALSE)]
  /\ Goto(w, "t_claim")
  /\ UNCHANGED <<row, linked, object, file, azure, leading, past, faults>>

\* The retry lease, unless the audit of the attempt fails after it is taken.
ClaimRetry(w) ==
  /\ pc[w] = "t_claim"
  /\ IF Same(w) /\ row.status = job[w].status
     THEN /\ row' = [row EXCEPT !.json.retry = w]
          /\ leading' = leading \cup {w}
          /\ job' = [job EXCEPT ![w] = NoJob]
          /\ \/ /\ Goto(w, IF row.status = "deletion_pending" THEN "d_read" ELSE "c_read")
                /\ UNCHANGED faults
             \/ Goto(w, "t_finish") /\ Fault
     ELSE End(w) /\ UNCHANGED <<row, leading, faults>>
  /\ UNCHANGED <<linked, object, file, azure, past>>

FinishTick(w) ==
  /\ pc[w] = "t_finish"
  /\ row' = IF row.json.retry = w
            THEN [row EXCEPT !.json.retry = Nobody] ELSE row
  /\ End(w)
  /\ UNCHANGED <<linked, object, file, azure, leading, past, faults>>
-----------------------------------------------------------------------------
\* A reviewed statement, or an invoice matched exactly or with a difference, of
\* a document found clean; a document supports one record.
RecordEvidence ==
  /\ row.security = "clean" /\ row.scan = "clean"
  /\ ~linked
  /\ linked' = TRUE
  /\ \E status \in {"approved", "review_required"} : row' = [row EXCEPT !.status = status]
  /\ UNCHANGED <<object, file, azure, leading, past, faults, pc, job>>

\* Variant: an approval that began before the deletion did is let through.
ApproveAnyway ==
  row.status # "gone" /\ linked = FALSE /\ linked' = TRUE /\ row.scan = "clean"
  /\ UNCHANGED <<row, object, file, azure, leading, past, faults, pc, job>>

Approve == Present /\ RecordEvidence

\* A worker is evicted; its name may serve a later request.
Crash(w) ==
  /\ pc[w] # "idle"
  /\ Fault
  /\ End(w)
  /\ UNCHANGED <<row, linked, object, file, azure, leading, past>>

\* A lease outlives its time: its owner is dead, or stalled, which is a fault.
\* A request that has not claimed yet is not the owner, whatever its name.
Unclaimed == {"idle", "interrupt", "claim", "c_read", "c_claim", "d_start", "d_read", "d_claim"}
AtWork(w) == w # Nobody /\ pc[w] \notin Unclaimed

ExpireLease ==
  /\ row.json.live
  /\ IF AtWork(row.json.lock) THEN Fault ELSE UNCHANGED faults
  /\ row' = [row EXCEPT !.json.live = FALSE]
  /\ UNCHANGED <<linked, object, file, azure, leading, past, pc, job>>

ExpireRetry(w) ==
  /\ w \in leading
  /\ IF pc[w] # "idle" THEN Fault ELSE UNCHANGED faults
  /\ leading' = leading \ {w}
  /\ UNCHANGED <<row, linked, object, file, azure, past, pc, job>>
-----------------------------------------------------------------------------
Process(w) ==
  \/ MarkInterrupted(w) \/ Claim(w) \/ DropScan(w) \/ GetOriginal(w)
  \/ SaveScanning(w) \/ SubmitScan(w) \/ SaveScan(w) \/ UndoScan(w)
  \/ PollScan(w) \/ SaveWaiting(w) \/ SaveReceipt(w) \/ DropCopy(w)
  \/ Renew(w) \/ Put(w) \/ SaveVerdict(w) \/ SaveStarting(w)
  \/ SubmitResult(w) \/ SaveReading(w) \/ UndoResult(w) \/ PollResult(w)
  \/ SaveAgain(w) \/ SaveComplete(w) \/ DropResult(w) \/ SaveFinal(w) \/ Catch(w)

Cleanup(w) == ReadForCleanup(w) \/ ClaimCleanup(w) \/ CleanupResult(w) \/ SaveCleanup(w)

Delete(w) ==
  \/ StartDeletion(w) \/ ReadTombstone(w) \/ ClaimDeletion(w) \/ DeleteCopy(w)
  \/ SaveDeletion(w) \/ FinishDeletion(w) \/ ReleaseDeletion(w)

Tick(w) == ClaimRetry(w) \/ FinishTick(w)

\* Everything a worker does once it has begun.
Advance(w) == Process(w) \/ Cleanup(w) \/ Delete(w) \/ Tick(w)

Begin(w) == \/ \E again \in BOOLEAN : ReadDocument(w, again)
            \/ RequestCleanup(w) \/ RequestDeletion(w)

Fail(w) == Throw(w) \/ LoseAnswer(w) \/ ThrowDeletion(w) \/ Crash(w)

Next ==
  \/ \E w \in Users : Begin(w)
  \/ \E w \in Schedulers : SelectDue(w) \/ ExpireRetry(w)
  \/ \E w \in Workers : Advance(w) \/ Fail(w)
  \/ Approve \/ ExpireLease

Spec == Init /\ [][Next]_vars

\* Requests and ticks at work go on unless they fail, leases run out, and the
\* scheduler goes on picking what is due.
Fairness ==
  /\ WF_vars(ExpireLease)
  /\ \A w \in Workers : WF_vars(Advance(w))
  /\ \A w \in Schedulers : WF_vars(SelectDue(w)) /\ WF_vars(ExpireRetry(w))

FairSpec == Spec /\ Fairness
-----------------------------------------------------------------------------
(***************************************************************************)
(* Properties.                                                             *)
(***************************************************************************)
Documents ==
  [stage : {"none", "queued", "scan_waiting", "scanned", "reading", "complete",
            "blocked"} \cup Stopped,
   lock : Workers \cup {Nobody}, live : BOOLEAN, op : Copies, scan : Copies,
   receipt : BOOLEAN, cleanup : BOOLEAN,
   error : {"none", "interrupted", "rescan", "incomplete"}, text : BOOLEAN,
   removed : BOOLEAN, retry : Workers \cup {Nobody}]

Statuses    == {"review_required", "approved", "deletion_pending", "gone"}
Securities  == {"quarantined", "clean", "rejected"}
Scans       == {"pending", "failed", "clean", "blocked"}
Extractions == {"not_configured", "pending", "complete", "failed"}

DocumentRows == [status : Statuses, security : Securities, scan : Scans,
                 extraction : Extractions, json : Documents]
Locals == [json : Documents, status : Statuses, scan : Scans, security : Securities,
           extraction : Extractions, again : BOOLEAN]

\* The row, the locals of every worker and the copies have their types; only
\* a claimed row has a lease, and a completed document has no scan copy left.
TypeOK ==
  /\ row \in DocumentRows /\ linked \in BOOLEAN
  /\ object \in [exists : BOOLEAN, security : Securities]
  /\ verdict \in {"clean", "blocked"} /\ whole \in BOOLEAN
  /\ scans \subseteq 1..MaxCopies /\ results \subseteq 1..MaxCopies
  /\ sent \in [scan : Copies, result : Copies]
  /\ tracked \in [scan : SUBSET (1..MaxCopies), result : SUBSET (1..MaxCopies)]
  /\ leading \subseteq Schedulers
  /\ retries \in Copies /\ faults \in 0..MaxFaults
  /\ pc \in [Workers -> Processing \cup Deleting \cup Other]
  /\ job \in [Workers -> Locals]
  /\ row.json.lock = Nobody => ~row.json.live
  /\ row.json.stage = "complete" => row.json.scan = 0 /\ row.json.text

Downloadable == /\ row.security = "clean" /\ row.scan = "clean" /\ Present
                /\ object.exists /\ object.security = "clean"

\* docs/document-processing-setup.md:25: a scanning copy is deleted before the
\* original is released, whichever of several overlapping requests releases it.
\* A document that can be downloaded was found clean and has no scanning copy
\* the row ever knew of.
ReleasedAfterScan == Downloadable => verdict = "clean" /\ scans \cap tracked.scan = {}

\* The row is well formed, its lock with its time included, and an original
\* leaves quarantine only once its scan copy is gone.
ReleaseIsSound == TypeOK /\ ReleasedAfterScan

\* docs/document-processing-setup.md:26: an interrupted submission waits for an
\* explicit retry; a second scan or a second extraction is never sent silently.
NoSilentResubmission == sent.scan <= 1 + retries /\ sent.result <= 1 + retries

\* document-deletion.ts:33: the tombstone is kept until each copy is removed.
\* A deleted document has no original and no scanning copy it ever knew of: no
\* request still at work brings the original back.
DeletionLeavesNothing ==
  row.status = "gone" => ~object.exists /\ scans \cap tracked.scan = {}

\* The same of its extraction results, once complete extractions are all there is.
DeletionLeavesNoResult ==
  row.status = "gone" /\ whole => results \cap tracked.result = {}

\* Nothing of a deleted document is left, here or at the provider.
NothingSurvivesDeletion == DeletionLeavesNothing /\ DeletionLeavesNoResult

\* drizzle/0052: deletion and accounting approval exclude each other, also when
\* they are requested at the same time.
EvidenceIsKept == linked => row.status # "deletion_pending" /\ object.exists

\* docs/document-processing-setup.md:25: a deletion once accepted is retried
\* until it is complete.
DeletionCompletes == row.status = "deletion_pending" ~> row.status = "gone"

\* A completed extraction does not keep its result at the provider for ever.
CleanupCompletes == row.json.stage = "complete" /\ row.json.op # 0 ~> row.json.op = 0
=============================================================================
