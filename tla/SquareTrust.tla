----------------------------- MODULE SquareTrust -----------------------------
(***************************************************************************)
(* The Square import watched against what the project's documents say of   *)
(* it.  A history variable records the owner's decision, which the row     *)
(* forgets.                                                                *)
(***************************************************************************)
EXTENDS SquareSync

VARIABLE decision  \* the owner's last decision about this source

trustVars == <<vars, decision>>

TrustInit == Init /\ decision = "none"

TrustNext ==
  /\ Next
  /\ decision' = IF \E r \in Runs : pc'[r] # pc[r] THEN decision
                 ELSE IF conn'.authorized /\ ~conn.authorized THEN "approve"
                 ELSE IF ExcludeData THEN "exclude" ELSE decision

TrustSpec == TrustInit /\ [][TrustNext]_trustVars

\* docs/POS_SYNC_OPERATIONS.md:23: automatic jobs never approve a source.  Once
\* the owner excludes it, it stays out of reports until the owner approves it.
ExclusionStands == decision = "exclude" => conn.promotion # "approved"

\* docs/compliance/DATA_RETENTION_AND_DISPOSAL_POLICY.md:40: the connection's
\* secrets are gone once it is disconnected.
DisconnectedKeepsNoSecret == conn.status = "revoked" => ~secret
=============================================================================
