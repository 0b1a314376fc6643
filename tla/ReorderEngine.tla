---------------------------- MODULE ReorderEngine ----------------------------
(***************************************************************************)
(* The reorder recommendation (domain/reorder-engine.ts): a function of a  *)
(* product's stock, demand, supplier terms, cash and limits.  Factors are  *)
(* counted in twentieths and the arithmetic is exact; the code's is        *)
(* floating point, which may differ in the last unit of a forecast.  Lead  *)
(* times are perfect squares, so that the square root is a whole number.   *)
(***************************************************************************)
EXTENDS Integers, FiniteSetsExt

CONSTANTS ReorderRequests,   \* the inputs given to the engine, a set of records
          Null        \* a missing optional input

\* assertInputs.
ASSUME ReorderAssumption ==
    /\ Null \notin Nat
    /\ \A in \in ReorderRequests :
          /\ in.onHand \in Nat /\ in.incoming \in Nat /\ in.demand \in Nat /\ in.review \in Nat
          /\ in.lead \in Nat /\ \E r \in 0..in.lead : r * r = in.lead
          /\ in.z \in Nat /\ in.deviation \in Nat \cup {Null}
          /\ in.season \in Nat /\ in.promotion \in Nat /\ in.weather \in Nat
          /\ in.pack \in Nat \ {0} /\ in.cost \in Nat \ {0}
          /\ in.minimum \in Nat /\ in.minimumSpend \in Nat
          /\ in.cash \in Nat /\ in.threshold \in Nat /\ in.commitments \in Nat
          /\ in.shelfLife \in Nat \cup {Null} /\ in.storage \in Nat \cup {Null}
          /\ in.history \in Nat /\ in.age \in Nat /\ in.expiring \in Nat

VARIABLES
    reorder,       \* the inputs of one recommendation
    recommendation \* what the engine answers, Null before it does

reorderVars == << reorder, recommendation >>

ReorderInit == reorder \in ReorderRequests /\ recommendation = Null

-----------------------------------------------------------------------------
CeilDiv(x, d) == -((-x) \div d)
AtLeastZero(x) == Max({0, x})
RoundUp(x, pack) == CeilDiv(AtLeastZero(x), pack) * pack
RoundDown(x, pack) == (AtLeastZero(x) \div pack) * pack
SqrtOf(n) == CHOOSE r \in 0..n : r * r = n

\* Demand over lead and review time, times four factors in twentieths.
DemandUnits(in, factor) ==
    CeilDiv(in.demand * (in.lead + in.review) * in.season * in.promotion * in.weather * factor,
            160000)

SafetyStock(in) ==
    IF in.deviation = Null THEN CeilDiv(in.demand * in.lead, 4)
    ELSE in.z * in.deviation * SqrtOf(in.lead)

NetNeed(in, factor) ==
    AtLeastZero(DemandUnits(in, factor) + SafetyStock(in)
                - AtLeastZero(in.onHand - in.expiring) - in.incoming)

\* The need, raised to the supplier's minimum in units and in money, in packs.
MinimumSpendUnits(in) == CeilDiv(in.minimumSpend, in.cost)

Unconstrained(in, factor) ==
    LET need == NetNeed(in, factor)
    IN IF need = 0 THEN 0
       ELSE RoundUp(Max({need, in.minimum, MinimumSpendUnits(in)}), in.pack)

\* Variant: the safety threshold may be spent.
CashForOrderToTheLast(in) == AtLeastZero(in.cash - in.commitments)

CashForOrder(in) == AtLeastZero(in.cash - in.threshold - in.commitments)

CashCap(in) == RoundDown(CashForOrder(in) \div in.cost, in.pack)

\* The caps that apply: storage and shelf life may be unknown.
StorageCap(in) ==
    IF in.storage = Null THEN {}
    ELSE {RoundDown(in.storage - in.onHand - in.incoming, in.pack)}

ShelfLifeCap(in) ==
    IF in.shelfLife = Null \/ in.demand = 0 THEN {}
    ELSE {RoundDown((in.demand * in.shelfLife * in.season * in.promotion) \div 400
                    - in.onHand - in.incoming, in.pack)}

Caps(in) == {CashCap(in)} \cup StorageCap(in) \cup ShelfLifeCap(in)

BoundedOrder(in, factor) == Min({Unconstrained(in, factor)} \cup Caps(in))

Confidence(in) ==
    IF in.deviation # Null /\ in.history >= 56 /\ in.age <= 24 THEN "high"
    ELSE IF in.history >= 28 /\ in.age <= 72 THEN "medium" ELSE "low"

Constrained(in) == \E c \in Caps(in) : c < Unconstrained(in, 20)

ReviewStatus(in) ==
    LET order == BoundedOrder(in, 20)
    IN IF Unconstrained(in, 20) = 0 THEN "no_order"
       ELSE IF order = 0 \/ order < in.minimum THEN "blocked"
       ELSE IF Constrained(in) \/ Confidence(in) = "low" THEN "review_required"
       ELSE "ready_for_review"

StockoutDays(in) ==
    (AtLeastZero(in.onHand - in.expiring) + in.incoming) \div in.demand

Urgency(in) ==
    IF ReviewStatus(in) = "no_order" THEN "hold"
    ELSE IF in.demand > 0 /\ StockoutDays(in) <= in.lead THEN "urgent" ELSE "normal"

\* Conservative, recommended, growth: 0.85, 1 and 1.2 of the demand.
Scenarios == {17, 20, 24}

\* calculateReorderRecommendation: the order, and the three scenarios.
Recommend ==
    /\ recommendation = Null
    /\ recommendation' =
          [status |-> ReviewStatus(reorder),
           urgency |-> Urgency(reorder),
           scenarios |-> [f \in Scenarios |-> BoundedOrder(reorder, f)],
           cashAfter |-> reorder.cash - reorder.commitments
                         - BoundedOrder(reorder, 20) * reorder.cost]
    /\ UNCHANGED reorder

ReorderSpec == ReorderInit /\ [][Recommend]_reorderVars

-----------------------------------------------------------------------------
(* Properties, about the answer.                                           *)

Units == recommendation.scenarios[20]

\* A recommended order, in every scenario, leaves the cash threshold and every
\* commitment untouched, fits into the storage beside the stock that is there
\* or coming, and is sold within its shelf life, in whole packs.
OrderIsAffordable ==
    recommendation # Null =>
        \A f \in Scenarios :
            LET units == recommendation.scenarios[f]
                stock == units + reorder.onHand + reorder.incoming
            IN units > 0 =>
                  /\ reorder.cash - reorder.commitments - units * reorder.cost
                         >= reorder.threshold
                  /\ reorder.storage # Null => stock <= reorder.storage
                  /\ reorder.shelfLife # Null /\ reorder.demand > 0 =>
                        stock * 400 <= reorder.demand * reorder.shelfLife
                                         * reorder.season * reorder.promotion
                  /\ units % reorder.pack = 0

\* An order is called ready only if nobody has to look for what is wrong with
\* it: it covers the whole expected need and both of the supplier's minimums.
ReadyIsComplete ==
    recommendation # Null /\ recommendation.status = "ready_for_review" =>
        /\ Units >= NetNeed(reorder, 20)
        /\ Units >= reorder.minimum
        /\ Units * reorder.cost >= reorder.minimumSpend
        /\ reorder.history >= 28 /\ reorder.age <= 72

\* The scenarios come in the order of their names.
ScenariosAreOrdered ==
    recommendation # Null =>
        /\ recommendation.scenarios[17] <= Units
        /\ Units <= recommendation.scenarios[24]

\* What the engine recommends can be paid, stored and sold, and is called ready
\* only when it is enough.
RecommendationIsSound == OrderIsAffordable /\ ReadyIsComplete /\ ScenariosAreOrdered
=============================================================================
