--------------------------- MODULE StatementImport ---------------------------
(***************************************************************************)
(* Reviewed bank statements of one manual bank account: their import, its  *)
(* undo, the matching of the imported movements and the deletion of the    *)
(* statement's document (server/bank-statement.ts, app/api/v1/bookloq/     *)
(* statements/route.ts, match_transaction in app/api/v1/bookloq/actions/   *)
(* route.ts).  Each handler reads first and writes later; the triggers of  *)
(* drizzle/0051 and drizzle/0052 check again at the write.                 *)
(***************************************************************************)
EXTENDS Naturals, FiniteSets

CONSTANTS Documents,   \* scanned statement documents
          Reviews,     \* what people type from them: document, dates, rows
          Targets,     \* bills, invoices and receipts to match
          Clerks       \* requests in flight at once

ASSUME StatementAssumption ==
    \A r \in Reviews : /\ r.document \in Documents
                       /\ r.first \in Nat /\ r.last \in Nat /\ r.first <= r.last
                       /\ r.rows \subseteq Nat

VARIABLES
    imports,    \* approved bank_statement_imports, named by fingerprint
    movements,  \* financial_transactions of the account: review and row
    reconciled, \* those marked reconciled
    matches,    \* confirmed bookloq_transaction_matches
    paper,      \* paper[d]: status of the document
    hand        \* hand[c]: what clerk c has read and not yet written

statementVars == << imports, movements, reconciled, matches, paper, hand >>

Empty == [pc |-> "empty"]
Movements == {[review |-> r, row |-> n] : r \in Reviews, n \in UNION {x.rows : x \in Reviews}}
MovementsOf(r) == {[review |-> r, row |-> n] : n \in r.rows}
Overlap(r, q) == r.first <= q.last /\ q.first <= r.last

StatementTypeOK ==
    /\ imports \subseteq Reviews
    /\ movements \subseteq Movements
    /\ reconciled \subseteq Movements
    /\ matches \subseteq [movement : Movements, target : Targets]
    /\ paper \in [Documents -> {"review_required", "approved", "deletion_pending", "deleted"}]
    /\ DOMAIN hand = Clerks

StatementInit ==
    /\ imports = {} /\ movements = {} /\ reconciled = {} /\ matches = {}
    /\ paper = [d \in Documents |-> "review_required"]
    /\ hand = [c \in Clerks |-> Empty]

Hold(c, h) == hand' = [hand EXCEPT ![c] = h]

\* prepareStatement: the document is reviewable, it has no import (one with
\* the same fingerprint is answered as a replay) and no import overlaps.
Prepare(c, r) ==
    /\ hand[c] = Empty
    /\ paper[r.document] = "review_required"
    /\ \A q \in imports : q.document # r.document /\ ~Overlap(r, q)
    /\ Hold(c, [pc |-> "import", review |-> r])
    /\ UNCHANGED << imports, movements, reconciled, matches, paper >>


\* bank_statement_import_guard and the unique index on the document.
ImportAccepted(r) ==
    /\ paper[r.document] = "review_required"
    /\ \A q \in imports : q.document # r.document
    /\ \A q \in imports : ~Overlap(r, q)

\* commitStatement: import, movements and the document in one batch.
CommitStatement(c) ==
    LET r == hand[c].review
    IN /\ hand[c].pc = "import"
       /\ Hold(c, Empty)
       /\ IF ImportAccepted(r)
          THEN /\ imports' = imports \cup {r}
               /\ movements' = movements \cup MovementsOf(r)
               /\ paper' = [paper EXCEPT ![r.document] = "approved"]
          ELSE UNCHANGED << imports, movements, paper >>
       /\ UNCHANGED << reconciled, matches >>

\* match_transaction: the movement is there, and not matched to another record.
ReadForMatch(c, m, target) ==
    /\ hand[c] = Empty
    /\ m \in movements
    /\ \A x \in matches : x.movement = m => x.target = target
    /\ Hold(c, [pc |-> "match", movement |-> m, target |-> target])
    /\ UNCHANGED << imports, movements, reconciled, matches, paper >>

\* The match row; its foreign key refuses a movement that is gone.
ConfirmMatch(c) ==
    /\ hand[c].pc = "match"
    /\ IF hand[c].movement \in movements
       THEN /\ matches' = matches \cup
                   {[movement |-> hand[c].movement, target |-> hand[c].target]}
            /\ Hold(c, [hand[c] EXCEPT !.pc = "mark"])
       ELSE /\ Hold(c, Empty)
            /\ UNCHANGED matches
    /\ UNCHANGED << imports, movements, reconciled, paper >>

\* ... and then the movement is marked, in a statement of its own.
MarkReconciled(c) ==
    /\ hand[c].pc = "mark"
    /\ reconciled' = reconciled \cup ({hand[c].movement} \cap movements)
    /\ Hold(c, Empty)
    /\ UNCHANGED << imports, movements, matches, paper >>

\* Variant: a confirmed match is not looked for.
UndoableUnreconciled(r) ==
    /\ MovementsOf(r) \subseteq movements
    /\ MovementsOf(r) \cap reconciled = {}

\* bank_statement_undo_guard: every row is there, unreconciled and unmatched.
Undoable(r) ==
    /\ MovementsOf(r) \subseteq movements
    /\ MovementsOf(r) \cap reconciled = {}
    /\ \A x \in matches : x.movement \notin MovementsOf(r)

\* undoStatement: one DELETE; its trigger removes the movements and reopens
\* the document.
UndoStatement(r) ==
    /\ r \in imports
    /\ Undoable(r)
    /\ imports' = imports \ {r}
    /\ movements' = movements \ MovementsOf(r)
    /\ paper' = [paper EXCEPT ![r.document] =
                    IF @ = "approved" THEN "review_required" ELSE @]
    /\ UNCHANGED << reconciled, matches, hand >>

\* document_deletion_start_guard: not approved, and no import names it.
DeletionAllowed(d) ==
    /\ paper[d] = "review_required"
    /\ \A q \in imports : q.document # d

BeginDeletion(d) ==
    /\ DeletionAllowed(d)
    /\ paper' = [paper EXCEPT ![d] = "deletion_pending"]
    /\ UNCHANGED << imports, movements, reconciled, matches, hand >>

FinishDeletion(d) ==
    /\ paper[d] = "deletion_pending"
    /\ paper' = [paper EXCEPT ![d] = "deleted"]
    /\ UNCHANGED << imports, movements, reconciled, matches, hand >>

StatementNext ==
    \/ \E c \in Clerks :
          \/ \E r \in Reviews : Prepare(c, r)
          \/ CommitStatement(c)
          \/ \E m \in movements, target \in Targets : ReadForMatch(c, m, target)
          \/ ConfirmMatch(c) \/ MarkReconciled(c)
    \/ \E r \in Reviews : UndoStatement(r)
    \/ \E d \in Documents : BeginDeletion(d) \/ FinishDeletion(d)

StatementSpec == StatementInit /\ [][StatementNext]_statementVars

-----------------------------------------------------------------------------
(* Properties.                                                             *)

\* No bank movement is counted twice: two approved imports never come from one
\* document or cover a common day, however their reviews and undos interleave.
NoDoubleMovements ==
    \A r, q \in imports : r # q => r.document # q.document /\ ~Overlap(r, q)

\* An import is whole or not there at all, and no movement outlives it.
ImportsAreWhole == movements = UNION {MovementsOf(r) : r \in imports}

\* What has been matched stays: an undo at the same time as a match removes
\* neither the movement nor its statement.
MatchedStays ==
    \A x \in matches : x.movement \in movements /\ x.movement.review \in imports

\* The document of an import is kept and approved as long as the import
\* stands, and open for review or deletion otherwise.
PaperFollowsImport ==
    \A d \in Documents :
        (paper[d] = "approved") <=> (\E r \in imports : r.document = d)

\* The movements of the account are those of its approved statements.
StatementsAreSound ==
    /\ StatementTypeOK
    /\ NoDoubleMovements /\ ImportsAreWhole /\ MatchedStays /\ PaperFollowsImport
=============================================================================
