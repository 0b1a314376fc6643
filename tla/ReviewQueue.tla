----------------------------- MODULE ReviewQueue -----------------------------
(***************************************************************************)
(* The accounting review queue (domain/bookloq-review-queue.ts) and the    *)
(* amounts of a customer invoice (domain/invoice-amounts.ts).  The queue   *)
(* mixes five kinds of work by a score; an item is what its kind's score   *)
(* looks at.                                                               *)
(***************************************************************************)
EXTENDS Integers, FiniteSetsExt, Sequences, SequencesExt

CONSTANTS Backlogs,    \* sets of open work, a set of sets of records
          InvoiceSets, \* invoices, as sequences of lines
          Largest      \* the largest amount, Number.MAX_SAFE_INTEGER in the code

VARIABLES
    backlog,  \* alerts, transactions, bills, close controls and documents
    queue,    \* buildBookloqReviewQueue
    invoice,  \* the lines of an invoice
    billed    \* invoiceLineAmounts of each line, and invoiceTotals

reviewVars == << backlog, queue, invoice, billed >>

Unbilled == [status |-> "none", lines |-> << >>, subtotal |-> 0, tax |-> 0]

ReviewInit ==
    /\ backlog \in Backlogs /\ queue = << >>
    /\ invoice \in InvoiceSets /\ billed = Unbilled

-----------------------------------------------------------------------------
Magnitude(x) == Max({x, -x})


AmountWeight(cents) == Min({400, (Magnitude(cents) + 500) \div 1000})
Aged(days, limit) == Min({Max({0, days}), limit})

LowConfidence(t) == t.confidence < 7000

Pays(b) == Max({0, b.total - b.paid})

\* What needs a review.
IsOpen(w) ==
    CASE w.kind = "alert" -> w.status = "open"
      [] w.kind = "transaction" -> w.category # "confirmed" \/ w.reconciliation # "reconciled"
      [] w.kind = "bill" -> /\ w.status \notin {"paid", "void", "written_off"}
                            /\ Pays(w) > 0 /\ w.age > 0
      [] w.kind = "close" -> w.status # "complete"
      [] w.kind = "document" -> w.status \in {"uploaded", "review_required"}

SeverityScore == [critical |-> 1000, attention |-> 700, opportunity |-> 400,
                  informational |-> 200]

DocumentIsHigh(d) == d.security # "clean" \/ d.extraction = "failed"

TransactionScore(t) ==
    550 + AmountWeight(t.amount) + (IF LowConfidence(t) THEN 180 ELSE 0) + Aged(t.age, 90)

CloseScore(c) == (IF c.status = "blocked" THEN 1050 ELSE 520) + Aged(c.age, 90)

ScoreOf(w) ==
    CASE w.kind = "alert" -> SeverityScore[w.severity] + AmountWeight(w.amount) + Aged(w.age, 90)
      [] w.kind = "transaction" -> TransactionScore(w)
      [] w.kind = "bill" -> 650 + AmountWeight(Pays(w)) + Aged(w.age, 120)
      [] w.kind = "close" -> CloseScore(w)
      [] w.kind = "document" -> (IF DocumentIsHigh(w) THEN 720 ELSE 480) + Aged(w.age, 90)

PriorityOf(w) ==
    CASE w.kind = "alert" -> IF w.severity = "critical" THEN "high"
                             ELSE IF w.severity = "attention" THEN "medium" ELSE "low"
      [] w.kind = "transaction" ->
            IF Magnitude(w.amount) >= 250000 \/ LowConfidence(w) THEN "high"
            ELSE IF Magnitude(w.amount) >= 50000 THEN "medium" ELSE "low"
      [] w.kind = "bill" -> IF w.age >= 30 \/ Pays(w) >= 250000 THEN "high" ELSE "medium"
      [] w.kind = "close" -> IF w.status = "blocked" THEN "high" ELSE "medium"
      [] w.kind = "document" -> IF DocumentIsHigh(w) THEN "high" ELSE "medium"

\* By score; what ties is ordered by amount and title, here in any order.
BuildQueue ==
    /\ queue = << >>
    /\ queue' = SetToSortSeq({w \in backlog : IsOpen(w)},
                             LAMBDA v, w : ScoreOf(v) > ScoreOf(w))
    /\ UNCHANGED << backlog, invoice, billed >>

-----------------------------------------------------------------------------
(* Half-up rounding per line, quantities in thousandths, rates in basis    *)
(* points.                                                                 *)

LineSubtotal(l) == (l.milli * l.price + 500) \div 1000
LineTax(l) == (LineSubtotal(l) * l.rate + 5000) \div 10000
SumOver(lines, of(_)) == MapThenSumSet(LAMBDA i : of(lines[i]), DOMAIN lines)

Fits(lines) ==
    /\ \A i \in DOMAIN lines : LineSubtotal(lines[i]) + LineTax(lines[i]) <= Largest
    /\ SumOver(lines, LineSubtotal) + SumOver(lines, LineTax) <= Largest

ComputeInvoice ==
    /\ billed = Unbilled
    /\ billed' = IF ~Fits(invoice) THEN [Unbilled EXCEPT !.status = "refused"]
                 ELSE [status |-> "billed",
                       lines |-> [i \in DOMAIN invoice |->
                                     [subtotal |-> LineSubtotal(invoice[i]),
                                      tax |-> LineTax(invoice[i])]],
                       subtotal |-> SumOver(invoice, LineSubtotal),
                       tax |-> SumOver(invoice, LineTax)]
    /\ UNCHANGED << backlog, queue, invoice >>

ReviewNext == BuildQueue \/ ComputeInvoice

ReviewSpec == ReviewInit /\ [][ReviewNext]_reviewVars

-----------------------------------------------------------------------------
(* Properties.                                                             *)

\* "A blocked close control can invalidate every downstream statement, so it
\* outranks ordinary transaction review": also the review of the largest
\* amount, unless its category is doubtful as well.
BlockedCloseComesFirst ==
    \A i, j \in DOMAIN queue :
        /\ queue[i].kind = "transaction" /\ ~LowConfidence(queue[i])
        /\ queue[j].kind = "close" /\ queue[j].status = "blocked"
        => j < i

\* Neither its age nor the money behind it lifts an alert that is only an
\* opportunity or information above a critical one.  (An alert that asks for
\* attention can be lifted so.)
WorseComesFirst ==
    \A i, j \in DOMAIN queue :
        /\ queue[i].kind = "alert" /\ queue[i].severity \in {"opportunity", "informational"}
        /\ queue[j].kind = "alert" /\ queue[j].severity = "critical"
        => j < i

\* An invoice is off by at most half a cent a line from its exact subtotal, and
\* its tax from the exact tax of the rounded lines; and a customer who adds up
\* the printed lines gets the printed totals.
InvoiceAddsUp ==
    billed.status = "billed" =>
        /\ billed.subtotal = SumOver(billed.lines, LAMBDA l : l.subtotal)
        /\ billed.tax = SumOver(billed.lines, LAMBDA l : l.tax)
        /\ billed.subtotal + billed.tax <= Largest
        /\ Magnitude(1000 * billed.subtotal - SumOver(invoice, LAMBDA l : l.milli * l.price))
               <= 500 * Len(invoice)
        /\ Magnitude(10000 * billed.tax
                     - SumOver([i \in DOMAIN invoice |->
                                   billed.lines[i].subtotal * invoice[i].rate], LAMBDA x : x))
               <= 5000 * Len(invoice)

\* What matters most comes first, and what is billed adds up.
QueueIsSound == BlockedCloseComesFirst /\ WorseComesFirst /\ InvoiceAddsUp
=============================================================================
