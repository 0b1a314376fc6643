----------------------------- MODULE Purchasing -----------------------------
(***************************************************************************)
(* One purchase order from draft to invoice                                *)
(* (app/api/v1/purchasing/route.ts).  Several people act on it at once:    *)
(* every handler reads the order, decides, and writes in one batch whose   *)
(* order update names the statuses it may leave.  The line quantities, the *)
(* goods receipts, the invoice matches and the documents are written       *)
(* without such a guard.                                                   *)
(***************************************************************************)
EXTENDS Naturals, FiniteSets, FiniteSetsExt

CONSTANTS People,      \* members who may work on orders
          Lines,       \* the order's lines
          Ordered,     \* quantity of every line
          Deliveries,  \* receipts that people enter: quantities by line
          Invoices,    \* clean invoice documents
          MaxReceipts, \* bound: receipts entered
          NoOne

ASSUME PurchasingAssumption ==
    /\ NoOne \notin People
    /\ Ordered \in Nat \ {0} /\ MaxReceipts \in Nat
    /\ Deliveries \subseteq [Lines -> Nat]

VARIABLES
    order,          \* purchase_orders row
    received,       \* received[l]: purchase_order_lines.received_quantity
    goodsReceipts,  \* goods_receipts rows: number and quantities
    invoiceMatches, \* invoice_matches rows: document and outcome
    document,       \* document[d]: workspace_documents.status
    desk,           \* desk[p]: what p has read and not yet written
    overlapped      \* history: a receipt was written over another's, unread

purchasingVars ==
    << order, received, goodsReceipts, invoiceMatches, document, desk, overlapped >>

Free == [pc |-> "free"]
Receivable == {"sent", "partially_received"}
Invoiceable == {"received", "partially_invoiced"}

PurchasingTypeOK ==
    /\ order \in [status : {"none", "draft", "awaiting_approval", "approved", "invoiced"}
                             \cup Receivable \cup Invoiceable,
                  creator : People \cup {NoOne}, approver : People \cup {NoOne},
                  dated : BOOLEAN]
    /\ received \in [Lines -> Nat]
    /\ goodsReceipts \subseteq [no : 1..MaxReceipts, quantity : Deliveries]
    /\ invoiceMatches \subseteq [document : Invoices, status : {"matched", "price_mismatch"}]
    /\ document \in [Invoices -> {"uploaded", "review_required", "approved"}]
    /\ DOMAIN desk = People
    /\ overlapped \in BOOLEAN

PurchasingInit ==
    /\ order = [status |-> "none", creator |-> NoOne, approver |-> NoOne,
                dated |-> FALSE]
    /\ received = [l \in Lines |-> 0]
    /\ goodsReceipts = {}
    /\ invoiceMatches = {}
    /\ document = [d \in Invoices |-> "uploaded"]
    /\ desk = [p \in People |-> Free]
    /\ overlapped = FALSE

\* create: lines and order in one batch; only here is it sent for approval.
Create(p, submit, dated) ==
    /\ desk[p] = Free
    /\ order.status = "none"
    /\ order' = [status |-> IF submit THEN "awaiting_approval" ELSE "draft",
                 creator |-> p, approver |-> NoOne, dated |-> dated]
    /\ UNCHANGED << received, goodsReceipts, invoiceMatches, document, desk, overlapped >>

\* approve: one guarded update, by somebody other than the creator.
Approve(p) ==
    /\ desk[p] = Free
    /\ order.status = "awaiting_approval"
    /\ order.creator # p
    /\ order' = [order EXCEPT !.status = "approved", !.approver = p]
    /\ UNCHANGED << received, goodsReceipts, invoiceMatches, document, desk, overlapped >>

\* set_commitment_date: any order that is not cancelled or closed, two
\* statuses that no handler sets.
SetCommitmentDate(p) ==
    /\ desk[p] = Free
    /\ order.status # "none"
    /\ order' = [order EXCEPT !.dated = TRUE]
    /\ UNCHANGED << received, goodsReceipts, invoiceMatches, document, desk, overlapped >>

\* mark_sent: the date is checked on the row as read, the status as written.
ReadForSending(p) ==
    /\ desk[p] = Free
    /\ order.dated
    /\ desk' = [desk EXCEPT ![p] = [pc |-> "send"]]
    /\ UNCHANGED << order, received, goodsReceipts, invoiceMatches, document, overlapped >>

MarkSent(p) ==
    /\ desk[p].pc = "send"
    /\ desk' = [desk EXCEPT ![p] = Free]
    /\ order' = IF order.status = "approved" THEN [order EXCEPT !.status = "sent"] ELSE order
    /\ UNCHANGED << received, goodsReceipts, invoiceMatches, document, overlapped >>

\* receive: status and lines as read.
ReadForReceiving(p, quantity) ==
    /\ desk[p] = Free
    /\ order.status \in Receivable
    /\ \E l \in Lines : quantity[l] > 0
    /\ desk' = [desk EXCEPT ![p] = [pc |-> "receive", seen |-> received,
                                    quantity |-> quantity]]
    /\ UNCHANGED << order, received, goodsReceipts, invoiceMatches, document, overlapped >>

\* Variant: the status is written over any other.
StatusAfterReceiptUnguarded(total) ==
    IF \A l \in Lines : total[l] >= Ordered THEN "received" ELSE "partially_received"

\* What receiving makes of the order's status.
StatusAfterReceipt(total) ==
    IF order.status \notin Receivable THEN order.status
    ELSE IF \A l \in Lines : total[l] >= Ordered THEN "received" ELSE "partially_received"

\* Variant: the new total is added to what is stored.
ArrivedOnStored(p, l) == received[l] + desk[p].seen[l] + desk[p].quantity[l]

\* The line's new quantity, from the one that was read.
Arrived(p, l) == desk[p].seen[l] + desk[p].quantity[l]

Receive(p) ==
    LET total == [l \in Lines |-> Arrived(p, l)]
    IN /\ desk[p].pc = "receive"
       /\ Cardinality(goodsReceipts) < MaxReceipts
       /\ received' = total
       /\ goodsReceipts' = goodsReceipts \cup
              {[no |-> Cardinality(goodsReceipts) + 1, quantity |-> desk[p].quantity]}
       /\ order' = [order EXCEPT !.status = StatusAfterReceipt(total)]
       /\ desk' = [desk EXCEPT ![p] = Free]
       /\ overlapped' = (overlapped \/ desk[p].seen # received)
       /\ UNCHANGED << invoiceMatches, document >>

\* match_invoice: a clean invoice, an order whose goods have arrived, as read.
ReadForMatching(p, d, equal) ==
    /\ desk[p] = Free
    /\ order.status \in Invoiceable
    /\ desk' = [desk EXCEPT ![p] = [pc |-> "match", document |-> d,
                     status |-> IF equal THEN "matched" ELSE "price_mismatch"]]
    /\ UNCHANGED << order, received, goodsReceipts, invoiceMatches, document, overlapped >>

StatusAfterMatch(outcome) ==
    IF order.status \notin Invoiceable THEN order.status
    ELSE IF outcome = "matched" THEN "invoiced" ELSE "partially_invoiced"

MatchInvoice(p) ==
    /\ desk[p].pc = "match"
    /\ invoiceMatches' = invoiceMatches \cup
           {[document |-> desk[p].document, status |-> desk[p].status]}
    /\ order' = [order EXCEPT !.status = StatusAfterMatch(desk[p].status)]
    /\ document' = [document EXCEPT ![desk[p].document] =
                        IF desk[p].status = "matched" THEN "approved" ELSE "review_required"]
    /\ desk' = [desk EXCEPT ![p] = Free]
    /\ UNCHANGED << received, goodsReceipts, overlapped >>

PurchasingNext ==
    \E p \in People :
        \/ \E submit, dated \in BOOLEAN : Create(p, submit, dated)
        \/ Approve(p)
        \/ SetCommitmentDate(p)
        \/ ReadForSending(p) \/ MarkSent(p)
        \/ \E quantity \in Deliveries : ReadForReceiving(p, quantity)
        \/ Receive(p)
        \/ \E d \in Invoices, equal \in BOOLEAN : ReadForMatching(p, d, equal)
        \/ MatchInvoice(p)

PurchasingSpec == PurchasingInit /\ [][PurchasingNext]_purchasingVars

-----------------------------------------------------------------------------
(* Properties.                                                             *)

Stage(s) == CASE s = "none" -> 0
              [] s \in {"draft", "awaiting_approval"} -> 1
              [] s = "approved" -> 2
              [] s = "sent" -> 3
              [] s = "partially_received" -> 4
              [] s = "received" -> 5
              [] s = "partially_invoiced" -> 6
              [] s = "invoiced" -> 7

\* An order never goes back: a receipt or an invoice entered from a screen
\* that shows an older state does not reopen what others have completed.
OrderNeverGoesBack == [][Stage(order'.status) >= Stage(order.status)]_order

\* What the lines say has arrived is backed by goods receipts: never more than
\* their sum, and exactly their sum until two people enter receipts at once.
Backed ==
    \A l \in Lines :
        LET sum == MapThenSumSet(LAMBDA x : x.quantity[l], goodsReceipts)
        IN received[l] <= sum /\ (~overlapped => received[l] = sum)

\* Goods are on order only after a second person approved and a cash date was
\* recorded, whatever order the requests came in.
SentIsApprovedAndDated ==
    Stage(order.status) >= 3 =>
        order.dated /\ order.approver \notin {NoOne, order.creator}

\* An order is invoiced exactly when some invoice equal to it was matched.
InvoicedMeansMatched ==
    (order.status = "invoiced") <=> (\E m \in invoiceMatches : m.status = "matched")

\* What the matches of an invoice document came to.
Outcomes(d) == {m.status : m \in {n \in invoiceMatches : n.document = d}}

\* An invoice document is approved or sent back for review only by a match of
\* it with that outcome, and every match leaves it one or the other: the one
\* that an order was invoiced on is approved unless another match of it differed.
DocumentsFollow ==
    \A d \in Invoices : /\ document[d] = "uploaded" => Outcomes(d) = {}
                        /\ document[d] = "approved" => "matched" \in Outcomes(d)
                        /\ document[d] = "review_required" => "price_mismatch" \in Outcomes(d)

\* Every status of an order, and of the documents matched to it, stands for what
\* people and suppliers did.
OrdersAreSound ==
    /\ PurchasingTypeOK /\ Backed /\ SentIsApprovedAndDated
    /\ InvoicedMeansMatched /\ DocumentsFollow
=============================================================================
