------------------------------ MODULE MCFigures ------------------------------
(* The figures that the workspace shows and the choices behind them, its    *)
(* marketing measurements, and the grants of the company's own books at     *)
(* QuickBooks, one module at a time: the others keep a fixed first state.   *)
EXTENDS ReorderEngine, CashFlow, StockLots, ReviewQueue, OwnerCosts, ReportSources,
        QuickBooksGrant, MarketingMeasurements, TLC

CONSTANTS c1, c2

VARIABLE focus

\* Reorder: stock, supplier terms, cash and limits at both sides of their edges.
MCRequests ==
    [onHand : {0, 7}, incoming : {0}, demand : {0, 3}, deviation : {Null, 1}, lead : {4},
     review : {3}, z : {2}, season : {20, 26}, promotion : {20}, weather : {20},
     pack : {1, 6}, minimum : {0, 10}, minimumSpend : {0, 700}, cost : {25},
     cash : {500, 2000}, threshold : {300}, commitments : {100}, shelfLife : {Null, 5},
     storage : {Null, 25}, history : {10, 60}, age : {12, 100}, expiring : {0, 3}]

\* Forecast: overdue, on both sides of a week's and of the horizon's end.
Item(due, amount, direction, certainty) ==
    [due |-> due, amount |-> amount, direction |-> direction, certainty |-> certainty]
MCItems == { Item(-10, 100, "out", "confirmed"), Item(6, 70, "out", "confirmed"),
             Item(7, 900, "in", "expected"), Item(13, 300, "in", "confirmed"),
             Item(90, 250, "out", "confirmed"), Item(91, 40, "out", "confirmed"),
             Item(40, 60, "out", "expected") }
MCForecasts ==
    [asOf : {0, 3, 6}, opening : {NoCash, 1000}, threshold : {200}, whole : BOOLEAN,
     items : SUBSET MCItems,
     blocks : {{}, {"bank_data_unavailable"}, {"foreign_currency_obligations"},
               {"undated_purchase_commitments"}}]
MCWindows == 1..366
MCPairings ==
    [amount : {100, 200}, day : {0, 7, 8}, words : SUBSET {"reference", "acme"},
     candidate : [amount : {100}, day : {0}, reference : {"reference", "other"},
                  label : SUBSET {"acme"}]]

\* Two lots of one product, and the days of the scale's steps.
Lot(id, expiration, best, quantity, sold, history) ==
    [id |-> id, expiration |-> expiration, bestBefore |-> best, quantity |-> quantity,
     sold |-> sold, history |-> history, received |-> 0]
MCDays == {NoDate, -1, 0, 14, 15, 30, 31, 60, 61, 90, 91, 180, 181}
MCShelves ==
    {{Lot(1, x, NoDate, q, s[1], s[2]), Lot(2, y, best, q, s[1], s[2]),
      Lot(3, -5, 200, 4, s[1], s[2])} :
         x \in MCDays, y \in MCDays, best \in {NoDate, 20}, q \in {0, 20},
         s \in {<< NoDate, 30 >>, << 3, 30 >>, << 20, 60 >>, << 1, 7 >>}}

\* Up to three pieces of open work, of the heaviest and the lightest kind.
Alert(severity, amount, age) ==
    [kind |-> "alert", status |-> "open", severity |-> severity, amount |-> amount, age |-> age]
Transaction(amount, confidence, age) ==
    [kind |-> "transaction", category |-> "suggested", reconciliation |-> "matched",
     amount |-> amount, confidence |-> confidence, age |-> age]
MCWork ==
    {Alert("critical", 0, 0), Alert("attention", 900000, 200),
     Alert("opportunity", 900000, 200), Alert("informational", 0, 0),
     Transaction(-900000, 9000, 400), Transaction(900000, 5000, 400), Transaction(10, 9000, 0),
     [kind |-> "bill", status |-> "approved", total |-> 500000, paid |-> 100, age |-> 400],
     [kind |-> "bill", status |-> "paid", total |-> 500, paid |-> 500, age |-> 40],
     [kind |-> "close", status |-> "blocked", age |-> 0],
     [kind |-> "close", status |-> "in_progress", age |-> 200],
     [kind |-> "document", status |-> "uploaded", security |-> "clean",
      extraction |-> "failed", age |-> 200]}
MCBacklogs == {b \in SUBSET MCWork : Cardinality(b) <= 3}

MCLines == [milli : {1, 333, 1500}, price : {1, 5, 1000}, rate : {0, 1300, 9999}]
MCInvoices == {<< >>} \cup {<< l >> : l \in MCLines} \cup (MCLines \X MCLines)

\* Authorizations, and requests, are anonymous: they begin in the order of
\* their numbers.  Workspaces, too: the first is a chosen one.
Begun(a) == grant[a].pc # "idle"
Called(k) == keeper[k].pc # "idle"
GrantsInOrder ==
    /\ \A a \in Authorizations : ~Begun(a) /\ Begun(a)' =>
            \A b \in Authorizations : b < a => Begun(b)
    /\ \A k \in Keepers : ~Called(k) /\ Called(k)' =>
            \A j \in Keepers : j < k => Called(j)

\* So are syncs and clerks.  Where nothing is evicted, stalled or overtaken, requests
\* of all kinds meet, and two resources are measured until they all do; where something
\* is, there is one resource, and either an editor or a clerk beside the syncs.
Synced(x) == syncJob[x].pc # "idle"
Busied(c) == clerk[c].pc # "idle"
MeasuresInOrder ==
    /\ \A x \in Syncs : ~Synced(x) /\ Synced(x)' =>
            \A y \in Syncs : y < x => Synced(y)
    /\ \A c \in Clerks : ~Busied(c) /\ Busied(c)' =>
            \A d \in Clerks : d < c => Busied(d)
AResource == CHOOSE r \in Resources : TRUE
AllMet ==
    /\ \A x \in Syncs : Synced(x)'
    /\ \E e \in Editors : editor'[e].pc # "idle"
    /\ \E c \in Clerks : Busied(c)'
Uninterrupted ==
    /\ lapses' = 0
    /\ AllMet => chosen'.of \subseteq {AResource}
Narrow ==
    /\ chosen'.of \subseteq {AResource}
    /\ (\E e \in Editors : editor'[e].pc # "idle") => \A c \in Clerks : clerk'[c].pc = "idle"

AWorkspace == CHOOSE w \in Workspaces : TRUE

MCChannels == [c \in Connections |-> "retail"]

FirstRequest == CHOOSE x \in MCRequests : TRUE

MCInit ==
    /\ focus \in {"reorder", "cash", "lots", "review", "invoice", "costs", "sources",
                 "grants", "samples", "lapses"}
    /\ focus # "reorder" => reorder = FirstRequest
    /\ focus # "cash" => books = [kind |-> "activity", in |-> 7]
    /\ focus # "review" => backlog = {}
    /\ focus # "invoice" => invoice = << >>
    /\ focus # "sources" => manual = {}
    /\ GrantInit /\ home[1] = AWorkspace
    /\ focus # "grants" => \A a \in Authorizations : home[a] = AWorkspace
    /\ MeasureInit
    /\ focus = "lapses" => chosen.of \subseteq {AResource}
    /\ focus \notin {"samples", "lapses"} => chosen.of = {}
    /\ ReorderInit /\ CashInit /\ ReviewInit /\ CostInit /\ SourceInit
    /\ \/ focus = "lots" /\ LotInit
       \/ focus # "lots" /\ shelf = {} /\ assessment = << >> /\ rotation = << >>
    /\ focus # "sources" => \A c \in Connections : source[c].store = Nowhere

MCNext ==
    \/ /\ focus = "reorder" /\ Recommend
       /\ UNCHANGED << focus, cashVars, lotVars, reviewVars, costVars, sourceVars, grantVars,
                       measureVars >>
    \/ /\ focus = "cash" /\ CashNext
       /\ UNCHANGED << focus, reorderVars, lotVars, reviewVars, costVars, sourceVars, grantVars,
                       measureVars >>
    \/ /\ focus = "lots" /\ AssessLots
       /\ UNCHANGED << focus, reorderVars, cashVars, reviewVars, costVars, sourceVars, grantVars,
                       measureVars >>
    \/ /\ focus \in {"review", "invoice"} /\ ReviewNext
       /\ UNCHANGED << focus, reorderVars, cashVars, lotVars, costVars, sourceVars, grantVars,
                       measureVars >>
    \/ /\ focus = "costs" /\ CostNext
       /\ UNCHANGED << focus, reorderVars, cashVars, lotVars, reviewVars, sourceVars, grantVars,
                       measureVars >>
    \/ /\ focus = "sources" /\ SourceNext
       /\ UNCHANGED << focus, reorderVars, cashVars, lotVars, reviewVars, costVars, grantVars,
                       measureVars >>
    \/ /\ focus = "grants" /\ GrantNext /\ GrantsInOrder
       /\ UNCHANGED << focus, reorderVars, cashVars, lotVars, reviewVars, costVars,
                       sourceVars, measureVars >>
    \/ /\ focus \in {"samples", "lapses"} /\ MeasureNext /\ MeasuresInOrder
       /\ focus = "samples" => Uninterrupted
       /\ focus = "lapses" => Narrow
       /\ UNCHANGED << focus, reorderVars, cashVars, lotVars, reviewVars, costVars,
                       sourceVars, grantVars >>

MCSpec ==
    MCInit /\ [][MCNext]_<< focus, reorderVars, cashVars, lotVars, reviewVars,
                            costVars, sourceVars, grantVars, measureVars >>

\* The lists that people work through from the top, lots by their risk and open
\* work by its weight, and the invoices that are added up from their lines.
FiguresAreSound == LotsAreRanked /\ QueueIsSound
=============================================================================
