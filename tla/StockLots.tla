------------------------------ MODULE StockLots ------------------------------
(***************************************************************************)
(* Lots with a shelf life (domain/inventory-lifecycle.ts): how much at     *)
(* risk a lot is, and which lot is to be sold first.  Days count from      *)
(* today; the monthly velocity is exact, the code rounds it to hundredths. *)
(***************************************************************************)
EXTENDS Integers, FiniteSetsExt, Sequences, SequencesExt

CONSTANTS Shelves,   \* sets of lots to assess and sort
          NoDate     \* null

VARIABLES
    shelf,      \* the lots
    assessment, \* assessInventoryLot of each of them
    rotation    \* fefoSort

lotVars == << shelf, assessment, rotation >>

LotInit ==
    /\ shelf \in Shelves
    /\ assessment = << >> /\ rotation = << >>

\* The earlier one of the two dates.
TrackedDate(lot) ==
    LET dates == {lot.expiration, lot.bestBefore} \ {NoDate}
    IN IF dates = {} THEN NoDate ELSE Min(dates)

HasDemand(lot) == lot.sold # NoDate /\ lot.history >= 7
EvidenceDays(lot) == Max({1, Min({30, lot.history})})

\* Units left at the tracked date: what is there, less what is sold by then.
CeilOf(x, d) == -((-x) \div d)
Projected(lot) ==
    Max({0, CeilOf(lot.quantity * EvidenceDays(lot)
                   - lot.sold * Max({0, TrackedDate(lot)}), EvidenceDays(lot))})
Surplus(lot) == HasDemand(lot) /\ Projected(lot) > 0

\* Variant: the last day is left out.
RiskOfLastDayOut(lot) ==
    LET days == TrackedDate(lot)
    IN IF lot.quantity = 0 THEN "healthy"
       ELSE IF days = NoDate THEN "untracked"
       ELSE IF days < 0 THEN "expired"
       ELSE IF days \in 1..14 \/ (Surplus(lot) /\ days <= 30) THEN "urgent"
       ELSE IF Surplus(lot) /\ days <= 90 THEN "at_risk"
       ELSE IF (Surplus(lot) /\ days <= 180) \/ days <= 60 THEN "monitor"
       ELSE "healthy"

RiskOf(lot) ==
    LET days == TrackedDate(lot)
    IN IF lot.quantity = 0 THEN "healthy"
       ELSE IF days = NoDate THEN "untracked"
       ELSE IF days < 0 THEN "expired"
       ELSE IF days <= 14 \/ (Surplus(lot) /\ days <= 30) THEN "urgent"
       ELSE IF Surplus(lot) /\ days <= 90 THEN "at_risk"
       ELSE IF (Surplus(lot) /\ days <= 180) \/ days <= 60 THEN "monitor"
       ELSE "healthy"

ConfidenceOf(lot) ==
    IF ~HasDemand(lot) THEN "unavailable"
    ELSE IF lot.history >= 90 THEN "high"
    ELSE IF lot.history >= 30 THEN "moderate" ELSE "low"

\* First expired, first out; then as received, then by id.
SortDay(lot) == IF TrackedDate(lot) = NoDate THEN 1000000 ELSE TrackedDate(lot)
SoldBefore(a, b) ==
    \/ SortDay(a) < SortDay(b)
    \/ SortDay(a) = SortDay(b) /\ a.received < b.received
    \/ SortDay(a) = SortDay(b) /\ a.received = b.received /\ a.id < b.id

AssessLots ==
    /\ assessment = << >>
    /\ assessment' = [lot \in shelf |-> [risk |-> RiskOf(lot), confidence |-> ConfidenceOf(lot)]]
    /\ rotation' = SetToSortSeq(shelf, SoldBefore)
    /\ UNCHANGED shelf

LotSpec == LotInit /\ [][AssessLots]_lotVars

-----------------------------------------------------------------------------
(* Properties.                                                             *)

Severity == [healthy |-> 0, untracked |-> 0, monitor |-> 1, at_risk |-> 2, urgent |-> 3,
             expired |-> 4]

\* Of two lots that differ only in their dates, the one that goes off sooner is
\* never said to be at less risk: the steps of the scale leave no gap where the
\* projected surplus disappears.
SoonerIsNoMilder ==
    \A a, b \in DOMAIN assessment :
        /\ [a EXCEPT !.expiration = b.expiration, !.bestBefore = b.bestBefore, !.id = b.id] = b
        /\ TrackedDate(a) # NoDate /\ TrackedDate(b) # NoDate
        /\ TrackedDate(a) <= TrackedDate(b)
        => Severity[assessment[a].risk] >= Severity[assessment[b].risk]

\* The rotation never sells a lot while one that goes off earlier is there, so
\* every expired lot comes before every lot that can still be sold.
ExpiredComesFirst ==
    \A i, j \in DOMAIN rotation :
        i < j /\ assessment[rotation[j]].risk = "expired"
        => TrackedDate(rotation[i]) # NoDate /\ TrackedDate(rotation[i]) < 0

\* Lots are assessed and rotated by when they go off.
LotsAreRanked == SoonerIsNoMilder /\ ExpiredComesFirst
=============================================================================
