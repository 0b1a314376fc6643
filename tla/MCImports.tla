----------------------------- MODULE MCImports -----------------------------
(* Small instances of the provider imports and of the bank feed, one at a  *)
(* time: the others keep a fixed first state.                              *)
EXTENDS FeedCycles, PaymentDays, SeriesImport, BankFeed, TLC

VARIABLE focus

\* Bound: records of all feeds of a provider.
MaxRecordsInAll == 2

\* Either the gate of the R-Series source, over one sale and two overlapping
\* runs that end every feed, or the sales of a source in staging, whose runs
\* come one after another.
SeriesGate ==
    /\ hour' = 1 /\ changed'[2] = 0
    /\ \A r \in SeriesRuns :
          turn'[r].pc = "stage" => turn'[r].next.restDone /\ turn'[r].next.allDone
SeriesSales ==
    /\ Cardinality({r \in SeriesRuns : turn'[r] # Unstarted}) <= 1
    /\ shop'.status = "staging" /\ ~shop'.authorized

\* The three imports have the same runs, and bank jobs have their names;
\* movements at the bank have those of feeds.
Symmetry == Permutations(ImportRuns) \cup Permutations(Feeds)

\* One payment at a time is unclear.
PaymentsBound == Cardinality(unclear') <= 1

\* A request that writes over a row which is not its own has done its harm.  A second
\* change at the bank meets imports and no other request; neither it nor a second
\* institution meets an approval or a lost login.
OnlyImports ==
    \A j \in BankJobs :
        \/ job'[j].pc \in {"idle", "first", "stage", "fetch", "write", "renewed", "report"}
        \/ job'[j].pc = "lease" /\ job'[j].use # "disconnect"
NoReview == /\ feed'.promotion # "approved" /\ feed'.status # "error"
            /\ \A j \in BankJobs : job'[j].pc # "approve"
BankBound ==
    /\ ~past.crossed
    /\ changes' > 1 => OnlyImports
    /\ changes' > 1 \/ plaid'.latest > 1 => NoReview

MCInit ==
    /\ focus \in {"cycles", "payments", "series gate", "series sales", "bank"}
    /\ FeedInit /\ PaymentInit /\ SeriesInit /\ BankInit
    /\ focus # "cycles" => provider = "stripe" /\ \A f \in Feeds : bad[f] = {}
    /\ focus \notin {"series gate", "series sales"} => odd = {}
    /\ focus # "series gate" => shop.status = "staging"

MCNext ==
    \/ /\ focus = "cycles" /\ FeedNext
       /\ MapThenSumSet(LAMBDA f : born'[f], Feeds) <= MaxRecordsInAll
       /\ UNCHANGED << focus, paymentVars, seriesVars, bankVars >>
    \/ /\ focus = "payments" /\ PaymentNext /\ PaymentsBound
       /\ UNCHANGED << focus, feedVars, seriesVars, bankVars >>
    \/ /\ focus = "series gate" /\ SeriesNext /\ SeriesGate
       /\ UNCHANGED << focus, feedVars, paymentVars, bankVars >>
    \/ /\ focus = "series sales" /\ SeriesNext /\ SeriesSales
       /\ UNCHANGED << focus, feedVars, paymentVars, bankVars >>
    \/ /\ focus = "bank" /\ BankNext /\ BankBound
       /\ UNCHANGED << focus, feedVars, paymentVars, seriesVars >>

MCSpec == MCInit /\ [][MCNext]_<< focus, feedVars, paymentVars, seriesVars, bankVars >>
=============================================================================
