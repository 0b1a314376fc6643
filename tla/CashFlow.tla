------------------------------- MODULE CashFlow -------------------------------
(***************************************************************************)
(* Cash: the thirteen-week forecast with the amount that purchasing may    *)
(* spend (domain/thirteen-week-cash-flow.ts), the cash activity of a       *)
(* reporting window and the suggested matches of a bank movement           *)
(* (domain/bookloq-cash-management.ts).  Days are numbers, day 0 is a      *)
(* Monday.                                                                 *)
(***************************************************************************)
EXTENDS Integers, FiniteSets, FiniteSetsExt

CONSTANTS Forecasts,  \* inputs of the forecast, a set of records
          Windows,    \* reporting windows of the cash activity, in days
          Pairings,   \* pairs of a bank movement and a candidate to match
          NoCash      \* null: an unknown balance, an answer not yet given

ASSUME CashAssumption ==
    /\ NoCash \notin Int
    /\ Windows \subseteq Nat \ {0}
    /\ \A in \in Forecasts :
          /\ in.asOf \in Int /\ in.opening \in Int \cup {NoCash} /\ in.threshold \in Nat
          /\ in.whole \in BOOLEAN /\ IsFiniteSet(in.items)
          /\ \A i \in in.items : /\ i.due \in Int /\ i.amount \in Nat
                                  /\ i.direction \in {"in", "out"}

VARIABLES
    books,    \* the input: a forecast, a window or a movement, with its kind
    forecast, \* buildThirteenWeekCashFlow's answer
    activity, \* buildBusinessCashSummary's buckets
    match     \* rankTransactionMatches' answer

cashVars == << books, forecast, activity, match >>

CashInit ==
    /\ books \in [kind : {"forecast"}, in : Forecasts]
                 \cup [kind : {"activity"}, in : Windows]
                 \cup [kind : {"match"}, in : Pairings]
    /\ forecast = NoCash /\ activity = NoCash /\ match = NoCash

-----------------------------------------------------------------------------
(* The forecast.                                                           *)

\* mondayOnOrBefore.
FirstWeek(in) == in.asOf - (in.asOf % 7)
Weeks == 1..13
WeekStart(in, w) == FirstWeek(in) + (w - 1) * 7
WeekEnd(in, w) == WeekStart(in, w) + 6

Signed(item) == IF item.direction = "in" THEN item.amount ELSE -item.amount
Total(items) == MapThenSumSet(Signed, items)

\* An overdue item counts from today.
Effective(in, item) == Max({in.asOf, item.due})
WeekItems(in, w) == {i \in in.items : Effective(in, i) \in WeekStart(in, w)..WeekEnd(in, w)}
Certain(items) == {i \in items : i.certainty = "confirmed"}

\* The balance of the bank is shown only where nothing forbids it.
Withholding == {"demonstration_data", "bookloq_inactive", "finance_permissions_required",
                "bank_data_unavailable"}
OpeningCash(in) == IF in.blocks \cap Withholding # {} THEN NoCash ELSE in.opening

\* Closing balances, carried from week to week.
Closing(in, items) ==
    LET cash[w \in 0..13] == IF w = 0 THEN OpeningCash(in)
                             ELSE cash[w - 1] + Total(WeekItems(in, w) \cap items)
    IN IF OpeningCash(in) = NoCash THEN [w \in Weeks |-> NoCash]
       ELSE [w \in Weeks |-> cash[w]]

\* Variant: what is overdue is not counted.
ConfirmedOutflowsAhead(in) ==
    -Total({i \in Certain(in.items) : i.direction = "out" /\ i.due \in in.asOf..WeekEnd(in, 13)})

ConfirmedOutflows(in) ==
    -Total({i \in Certain(in.items) : i.direction = "out" /\ i.due <= WeekEnd(in, 13)})

\* What is owed: the caller may give the sum over all days instead (bookloq/route.ts).
Obligations(in) ==
    IF in.whole THEN -Total({i \in Certain(in.items) : i.direction = "out"})
    ELSE ConfirmedOutflows(in)

CapacityStatus(in) ==
    IF OpeningCash(in) = NoCash THEN "unavailable"
    ELSE IF "foreign_currency_obligations" \in in.blocks THEN "currency_review_required"
    ELSE IF "undated_purchase_commitments" \in in.blocks THEN "commitment_date_required"
    ELSE "available"

Capacity(in) ==
    IF CapacityStatus(in) # "available" THEN NoCash
    ELSE Max({0, in.opening - in.threshold - Obligations(in)})

BuildForecast ==
    /\ books.kind = "forecast" /\ forecast = NoCash
    /\ forecast' = [planning |-> Closing(books.in, books.in.items),
                    conservative |-> Closing(books.in, Certain(books.in.items)),
                    capacity |-> Capacity(books.in)]
    /\ UNCHANGED << books, activity, match >>

-----------------------------------------------------------------------------
(* The cash activity: a window of days cut into buckets.                   *)

Buckets(days) == Min({days, IF days > 90 THEN 12 ELSE 6})

BucketDays(days, b) ==
    ((b - 1) * days) \div Buckets(days) .. (b * days) \div Buckets(days) - 1

BuildActivity ==
    /\ books.kind = "activity" /\ activity = NoCash
    /\ activity' = [b \in 1..Buckets(books.in) |-> BucketDays(books.in, b)]
    /\ UNCHANGED << books, forecast, match >>

-----------------------------------------------------------------------------
(* A suggested match, in points of ten thousand.                           *)

Apart(x, y) == IF x > y THEN x - y ELSE y - x
Points(holds, points) == IF holds THEN points ELSE 0

MatchScore(m) ==
    Points(m.amount = m.candidate.amount, 5500)
    + Points(m.candidate.reference \in m.words, 2000)
    + Points(Apart(m.day, m.candidate.day) <= 7, 1500)
    + Points(m.candidate.label \cap m.words # {}, 1000)

SuggestMatch ==
    /\ books.kind = "match" /\ match = NoCash
    /\ match' = IF MatchScore(books.in) >= 5500
                THEN [suggested |-> TRUE, score |-> Min({10000, MatchScore(books.in)})]
                ELSE [suggested |-> FALSE, score |-> 0]
    /\ UNCHANGED << books, forecast, activity >>

CashNext == BuildForecast \/ BuildActivity \/ SuggestMatch

CashSpec == CashInit /\ [][CashNext]_cashVars

-----------------------------------------------------------------------------
(* Properties.                                                             *)

\* Every item that is due before the end of the forecast, an overdue one too,
\* moves the planned balance exactly once, in some week and never again.
EveryItemOnce ==
    forecast # NoCash /\ OpeningCash(books.in) # NoCash =>
        forecast.planning[13] =
            books.in.opening + Total({i \in books.in.items : i.due <= WeekEnd(books.in, 13)})

\* What purchasing may spend can be spent today: if no expected or confirmed
\* receipt arrives, and every confirmed payment leaves in its week, the balance
\* still never falls below the safety threshold.
CapacityIsSafe ==
    forecast # NoCash /\ forecast.capacity # NoCash /\ forecast.capacity > 0 =>
        \A w \in Weeks :
            books.in.opening - forecast.capacity
            - MapThenSumSet(LAMBDA i : i.amount,
                  {i \in books.in.items : /\ i.direction = "out"
                                          /\ i.certainty = "confirmed"
                                          /\ Effective(books.in, i) <= WeekEnd(books.in, w)})
                >= books.in.threshold

\* Every day of a reporting window is in exactly one bucket of its chart, for
\* every length of the window: the chart adds up to the headline totals.
EveryDayOnce ==
    activity # NoCash =>
        \A day \in 0..(books.in - 1) :
            Cardinality({b \in DOMAIN activity : day \in activity[b]}) = 1

\* A match is never suggested for another amount: reference, date and name
\* together do not reach the score that a suggestion needs.
SuggestedAmountsAgree ==
    match # NoCash /\ match.suggested =>
        books.in.amount = books.in.candidate.amount

\* The forecast, its purchasing capacity, the charts and the suggestions.
CashIsSound ==
    EveryItemOnce /\ CapacityIsSafe /\ EveryDayOnce /\ SuggestedAmountsAgree
=============================================================================
