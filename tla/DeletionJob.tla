---------------------------- MODULE DeletionJob ----------------------------
(***************************************************************************)
(* What every other part of the program looks at while a workspace is      *)
(* being deleted: the stage of the deletion job and whether the workspace  *)
(* row is still there.  AccountDeletion moves them; billing and document   *)
(* intake are guarded by them.                                             *)
(***************************************************************************)
VARIABLES
    stage,     \* of the account_deletion_jobs row, "none" without a row
    workspace  \* "present", "erased", or "forgotten": the job was completed
               \* and no longer names the workspace it erased

jobVars == <<stage, workspace>>

Stages == {"none", "checking", "confirmed", "local_deleted", "completed"}

Named == workspace # "forgotten"

(* stage <> 'completed': what stops a new checkout.                        *)
Recorded == stage \in {"checking", "confirmed", "local_deleted"} /\ Named

(* stage IN ('confirmed','local_deleted'): what stops ordinary requests.   *)
Erasing == stage \in {"confirmed", "local_deleted"} /\ Named

(* The workspace row, on which subscription, checkout attempt, documents   *)
(* and deliveries depend by foreign keys.                                  *)
WorkspaceExists == workspace = "present"
=============================================================================
