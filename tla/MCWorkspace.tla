----------------------------- MODULE MCWorkspace -----------------------------
(* The work of people and connections in one workspace: who is let in, what  *)
(* is ordered, what the books say, and what syncs.  One module at a time     *)
(* moves; the others keep their first state.                                 *)
EXTENDS TeamAccess, Purchasing, Ledger, StatementImport, StoreConnection, SyncTick, TLC

CONSTANTS l1, l2, m1, m2

VARIABLE focus

\* Deliveries of both lines, and of either one to its full quantity.
MCDeliveries == {l1 :> 1 @@ l2 :> 1, l1 :> 2 @@ l2 :> 0, l1 :> 0 @@ l2 :> 2}

MCItems == {<< m1, 1 >>}

\* Two documents of one account; the days of b overlap both statements of a.
Review(paperOf, first, last, rows) ==
    [document |-> paperOf, first |-> first, last |-> last, rows |-> rows]
MCReviews == {Review("a", 1, 2, {1, 2}), Review("a", 3, 3, {1}), Review("b", 2, 3, {1})}

\* Attempts and rows of a store are anonymous: they are taken in the order of
\* their numbers.  Workspaces and providers are, too: the first attempt is by a
\* chosen workspace, under a chosen provider.
Touched == {r \in Rows : row[r] # Unused \/ \E a \in Attempts : attempt[a].row = r}
Started(a) == attempt[a].pc # "none"
InOrder ==
    \A a \in Attempts : ~Started(a) /\ Started(a)' =>
        /\ \A b \in Attempts : b < a => Started(b)
        /\ attempt'[a].pc = "new" => \A r \in Rows \ Touched : attempt'[a].row <= r
        /\ Touched = {} => /\ attempt'[a].org = CHOOSE o \in Orgs : TRUE
                           /\ attempt'[a].kind = CHOOSE k \in Kinds : TRUE

\* At most two requests on the store are between two of their statements at once,
\* one attempt fails at a time, and only the first one dies.
StoreBound ==
    /\ Cardinality({a \in Attempts : attempt'[a].pc \notin {"none", "open", "over", "dead"}})
         + Cardinality({d \in Closers : closer'[d].pc \notin {"none", "done"}}) <= 2
    /\ Cardinality({a \in Attempts :
                       attempt'[a].pc \in {"failed", "cleared", "marked", "dead"}}) <= 1
    /\ \A a, b \in Attempts : attempt'[a].pc = "dead" /\ b < a => ~Started(b)

MCInit ==
    /\ focus \in {"team", "order", "journals", "categories", "statements", "store", "tick"}
    /\ TeamInit /\ PurchasingInit /\ LedgerInit /\ StatementInit /\ StoreInit /\ TickInit
    /\ focus # "team" => live = CHOOSE s \in Subjects : TRUE

MCNext ==
    \/ /\ focus = "team" /\ TeamNext
       /\ UNCHANGED << focus, purchasingVars, ledgerVars, statementVars, storeVars, tickVars >>
    \/ /\ focus = "order" /\ PurchasingNext
       /\ UNCHANGED << focus, teamVars, ledgerVars, statementVars, storeVars, tickVars >>
    \/ /\ focus = "journals" /\ JournalNext
       /\ UNCHANGED << focus, teamVars, purchasingVars, statementVars, storeVars, tickVars >>
    \/ /\ focus = "categories" /\ CategoryNext
       /\ UNCHANGED << focus, teamVars, purchasingVars, statementVars, storeVars, tickVars >>
    \/ /\ focus = "statements" /\ StatementNext
       /\ UNCHANGED << focus, teamVars, purchasingVars, ledgerVars, storeVars, tickVars >>
    \/ /\ focus = "store" /\ StoreNext /\ InOrder /\ StoreBound
       /\ UNCHANGED << focus, teamVars, purchasingVars, ledgerVars, statementVars, tickVars >>
    \/ /\ focus = "tick" /\ TickNext
       /\ UNCHANGED << focus, teamVars, purchasingVars, ledgerVars, statementVars, storeVars >>

MCSpec ==
    /\ MCInit
    /\ [][MCNext]_<< focus, teamVars, purchasingVars, ledgerVars, statementVars, storeVars,
                     tickVars >>
    /\ TeamFairness

\* Only the store moves.
StoreOnly ==
    /\ focus = "store" /\ MCInit
    /\ [][MCNext]_<< focus, teamVars, purchasingVars, ledgerVars, statementVars, storeVars,
                     tickVars >>
=============================================================================
