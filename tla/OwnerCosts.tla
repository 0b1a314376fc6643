------------------------------ MODULE OwnerCosts ------------------------------
(***************************************************************************)
(* Product costs that the owner enters, beside an X-Series import that     *)
(* brings the provider's (app/api/v1/inventory-costs/route.ts, server/     *)
(* inventory-costs.ts, server/integrations/sync/lightspeed.ts).  The       *)
(* import works under a lease, the owner's request does not: both write    *)
(* the sale lines and the daily cost, statement by statement.  A line is a *)
(* unit of its product, and all lines fall on one day.                     *)
(***************************************************************************)
EXTENDS Naturals, FiniteSets, FiniteSetsExt

CONSTANTS Products,      \* products, each with one sale line
          OwnerAmounts,  \* costs that the owner enters
          ProviderCosts, \* costs that the provider knows
          CostRequests,  \* requests of the owner
          MaxSyncs,      \* bound: imports
          NoCost         \* null

ASSUME CostAssumption ==
    /\ IsFiniteSet(Products) /\ MaxSyncs \in Nat
    /\ OwnerAmounts \subseteq Nat /\ ProviderCosts \subseteq Nat /\ NoCost \notin Nat

VARIABLES
    ownerCost,    \* commerce_products.owner_cost_cents
    defaultCost,  \* commerce_products.default_cost_cents
    line,         \* commerce_sale_lines: cost_cents and cost_known
    staged,       \* integration_staged_sales.cost_cents
    metric,       \* daily_business_metrics.cost_of_goods_cents, NoCost: no row
    promotion,    \* data_promotion_status
    sync,         \* the import at work, with what it read
    request,      \* request[r]: the owner's
    syncs,
    settled       \* history: no request died, or overlapped with an import,
                  \* since the last import that ran alone

costVars == << ownerCost, defaultCost, line, staged, metric, promotion, sync, request, syncs,
               settled >>

Costs == OwnerAmounts \cup ProviderCosts \cup {0, NoCost}
Resting == [pc |-> "rest"]

CostTypeOK ==
    /\ ownerCost \in [Products -> OwnerAmounts \cup {NoCost}]
    /\ defaultCost \in [Products -> ProviderCosts \cup {NoCost}]
    /\ line \in [Products -> [cost : Costs \ {NoCost}, known : BOOLEAN]]
    /\ staged \in [Products -> Costs \ {NoCost}]
    /\ metric \in Nat \cup {NoCost}
    /\ promotion \in {"staging", "approved"}
    /\ syncs \in 0..MaxSyncs /\ settled \in BOOLEAN

CostInit ==
    /\ ownerCost = [p \in Products |-> NoCost]
    /\ defaultCost = [p \in Products |-> NoCost]
    /\ line = [p \in Products |-> [cost |-> 0, known |-> FALSE]]
    /\ staged = [p \in Products |-> 0]
    /\ metric = NoCost
    /\ promotion = "staging"
    /\ sync = Resting
    /\ request = [r \in CostRequests |-> Resting]
    /\ syncs = 0 /\ settled = TRUE

SumCosts == MapThenSumSet(LAMBDA p : line[p].cost, Products)
Owned == {p \in Products : ownerCost[p] # NoCost}
Active == {r \in CostRequests : request[r].pc \notin {"rest", "done", "dead"}}

-----------------------------------------------------------------------------
(* applyOwnerInventoryCosts, statement by statement.                       *)

\* Variant: only lines that the provider gave no cost.
ApplyToUnknownLines ==
    line' = [p \in Products |-> IF p \in Owned /\ ~line[p].known
                                THEN [line[p] EXCEPT !.cost = ownerCost[p]] ELSE line[p]]

\* Lines of products with an owner's cost get it.
ApplyToLines ==
    line' = [p \in Products |-> IF p \in Owned THEN [line[p] EXCEPT !.cost = ownerCost[p]]
                                ELSE line[p]]

\* Sales with such a line get the sum of their lines.
ApplyToSales == staged' = [p \in Products |-> IF p \in Owned THEN line[p].cost ELSE staged[p]]

\* Days with such a line get the sum of theirs, if the day has a row.
ApplyToDay == metric' = IF metric # NoCost /\ Owned # {} THEN SumCosts ELSE metric

-----------------------------------------------------------------------------
(* The import.                                                             *)

SyncAt(from, to) == sync.pc = from /\ sync' = [sync EXCEPT !.pc = to]

\* The lease is taken, and what was published is withdrawn.
BeginSync ==
    /\ sync.pc = "rest"
    /\ syncs < MaxSyncs
    /\ syncs' = syncs + 1
    /\ sync' = [pc |-> "products", alone |-> Active = {}, publish |-> FALSE, sum |-> 0]
    /\ promotion' = "staging"
    /\ UNCHANGED << ownerCost, defaultCost, line, staged, metric, request, settled >>

\* Changed products bring the provider's cost and leave the owner's.
WriteProducts ==
    /\ SyncAt("products", "lines")
    /\ \E changed \in SUBSET Products, c \in ProviderCosts \cup {NoCost} :
          defaultCost' = [p \in Products |-> IF p \in changed THEN c ELSE defaultCost[p]]
    /\ UNCHANGED << ownerCost, line, staged, metric, promotion, request, syncs, settled >>

\* Changed sales are replaced, with the provider's cost or none.
WriteLines ==
    /\ SyncAt("lines", "check")
    /\ \E changed \in SUBSET Products, c \in ProviderCosts \cup {NoCost} :
          LET cost == IF c = NoCost THEN 0 ELSE c
          IN /\ line' = [p \in Products |->
                            IF p \in changed THEN [cost |-> cost, known |-> c # NoCost]
                            ELSE line[p]]
             /\ staged' = [p \in Products |-> IF p \in changed THEN cost ELSE staged[p]]
    /\ UNCHANGED << ownerCost, defaultCost, metric, promotion, request, syncs, settled >>

\* Is there an owner's cost at all?
CheckOverrides ==
    /\ SyncAt("check", IF Owned = {} THEN "fill" ELSE "apply")
    /\ UNCHANGED << ownerCost, defaultCost, line, staged, metric, promotion, request, syncs,
                    settled >>

SyncLines ==
    /\ SyncAt("apply", "sales")
    /\ ApplyToLines
    /\ UNCHANGED << ownerCost, defaultCost, staged, metric, promotion, request, syncs, settled >>

SyncSales ==
    /\ SyncAt("sales", "fill")
    /\ ApplyToSales
    /\ UNCHANGED << ownerCost, defaultCost, line, metric, promotion, request, syncs, settled >>

\* Lines that the provider gave no cost get the product's.
ProductCost(p) == IF p \in Owned THEN ownerCost[p] ELSE defaultCost[p]

FillUnknown ==
    /\ SyncAt("fill", "count")
    /\ line' = [p \in Products |->
           IF line[p].known THEN line[p]
           ELSE [line[p] EXCEPT !.cost = IF ProductCost(p) = NoCost THEN 0 ELSE ProductCost(p)]]
    /\ UNCHANGED << ownerCost, defaultCost, staged, metric, promotion, request, syncs, settled >>

\* Nothing is published while a line has no cost.
Uncosted == {p \in Products : ~line[p].known /\ line[p].cost = 0 /\ ProductCost(p) = NoCost}

CountMissing ==
    /\ sync.pc = "count"
    /\ sync' = [sync EXCEPT !.publish = (Uncosted = {}),
                            !.pc = IF Uncosted = {} THEN "sum" ELSE "finish"]
    /\ UNCHANGED << ownerCost, defaultCost, line, staged, metric, promotion, request, syncs,
                    settled >>

SumSales ==
    /\ sync.pc = "sum"
    /\ sync' = [sync EXCEPT !.pc = "publish", !.sum = SumCosts]
    /\ UNCHANGED << ownerCost, defaultCost, line, staged, metric, promotion, request, syncs,
                    settled >>

\* The days are deleted and written from what was summed, in one batch.
PublishDays ==
    /\ SyncAt("publish", "finish")
    /\ metric' = sync.sum
    /\ UNCHANGED << ownerCost, defaultCost, line, staged, promotion, request, syncs, settled >>

FinishSync ==
    /\ sync.pc = "finish"
    /\ sync' = Resting
    /\ promotion' = IF sync.publish THEN "approved" ELSE "staging"
    /\ settled' = IF sync.publish /\ sync.alone THEN TRUE ELSE settled /\ sync.alone
    /\ UNCHANGED << ownerCost, defaultCost, line, staged, metric, request, syncs >>

\* The import fails or dies; what it had withdrawn stays withdrawn.
SyncFails ==
    /\ sync.pc # "rest"
    /\ sync' = Resting
    /\ settled' = FALSE
    /\ UNCHANGED << ownerCost, defaultCost, line, staged, metric, promotion, request, syncs >>

-----------------------------------------------------------------------------
(* The owner's request.                                                    *)

RequestAt(r, from, to) ==
    /\ request[r].pc = from
    /\ request' = [request EXCEPT ![r].pc = to]
    /\ sync' = IF sync.pc = "rest" THEN sync ELSE [sync EXCEPT !.alone = FALSE]

\* Products of approved connections are read; the lease is not looked at.
ReadProducts(r, p, c) ==
    /\ request[r].pc = "rest"
    /\ promotion = "approved"
    /\ request' = [request EXCEPT ![r] = [pc |-> "read", product |-> p, cost |-> c]]
    /\ sync' = IF sync.pc = "rest" THEN sync ELSE [sync EXCEPT !.alone = FALSE]
    /\ UNCHANGED << ownerCost, defaultCost, line, staged, metric, promotion, syncs, settled >>

SaveCost(r) ==
    /\ RequestAt(r, "read", "lines")
    /\ ownerCost' = [ownerCost EXCEPT ![request[r].product] = request[r].cost]
    /\ UNCHANGED << defaultCost, line, staged, metric, promotion, syncs, settled >>

RequestLines(r) ==
    /\ RequestAt(r, "lines", "sales")
    /\ ApplyToLines
    /\ UNCHANGED << ownerCost, defaultCost, staged, metric, promotion, syncs, settled >>

RequestSales(r) ==
    /\ RequestAt(r, "sales", "day")
    /\ ApplyToSales
    /\ UNCHANGED << ownerCost, defaultCost, line, metric, promotion, syncs, settled >>

RequestDay(r) ==
    /\ RequestAt(r, "day", "done")
    /\ ApplyToDay
    /\ UNCHANGED << ownerCost, defaultCost, line, staged, promotion, syncs, settled >>

RequestDies(r) ==
    /\ r \in Active
    /\ request' = [request EXCEPT ![r].pc = "dead"]
    /\ sync' = IF sync.pc = "rest" THEN sync ELSE [sync EXCEPT !.alone = FALSE]
    /\ settled' = FALSE
    /\ UNCHANGED << ownerCost, defaultCost, line, staged, metric, promotion, syncs >>

CostNext ==
    \/ BeginSync \/ WriteProducts \/ WriteLines \/ CheckOverrides \/ SyncLines \/ SyncSales
    \/ FillUnknown \/ CountMissing \/ SumSales \/ PublishDays \/ FinishSync \/ SyncFails
    \/ \E r \in CostRequests :
          \/ \E p \in Products, c \in OwnerAmounts : ReadProducts(r, p, c)
          \/ SaveCost(r) \/ RequestLines(r) \/ RequestSales(r) \/ RequestDay(r) \/ RequestDies(r)

CostSpec == CostInit /\ [][CostNext]_costVars

-----------------------------------------------------------------------------
(* Properties.                                                             *)

\* "Provider refreshes may update their own cost fields, but cannot erase an
\* owner's explicit cost": in published data the line of a product has the
\* owner's cost, though import and request write the lines in any order and
\* neither waits for the other.  Only a request that died may leave it undone.
OwnerCostReachesLines ==
    /\ promotion = "approved"
    /\ \A r \in CostRequests : request[r].pc \in {"rest", "done"}
    => \A p \in Owned : line[p].cost = ownerCost[p]

\* The published cost of a day is the cost of its lines, once an import has run
\* without a request beside it.  (A request beside an import may be overtaken by
\* it: the day then keeps the old cost until the next import, see README.)
DayIsItsLines ==
    promotion = "approved" /\ settled /\ Active = {} => metric = SumCosts

\* What is published has a cost for every line, the provider's or a product's.
PublishedIsCosted == promotion = "approved" => Uncosted = {}

\* Lines and days have the owner's costs, and no line is without one.
CostsAreSound == CostTypeOK /\ OwnerCostReachesLines /\ DayIsItsLines /\ PublishedIsCosted
=============================================================================
