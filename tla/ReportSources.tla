---------------------------- MODULE ReportSources ----------------------------
(***************************************************************************)
(* Which source a sales report counts (server/integrations/                *)
(* source-authority.ts, daily-sales-scope.ts, domain/                      *)
(* provider-report-contracts.ts) and how an owner chooses it (POST         *)
(* app/api/v1/reports).  Several connections may report one store's sales; *)
(* adding them up would count a sale twice.  A report reads mappings,      *)
(* choices, facts and rows one after the other while imports and owners    *)
(* change them.                                                            *)
(***************************************************************************)
EXTENDS Naturals, FiniteSets

CONSTANTS Locations,   \* the workspace's stores
          Connections, \* provider connections, each with one outlet
          ChannelOf,   \* defaultCommerceChannel of the connection's provider
          Admins,      \* owners' requests that choose a source
          Reports,     \* requests of a report
          MaxChanges,  \* bound: changes by imports and settings
          Nowhere

ASSUME SourceAssumption == Nowhere \notin Locations \cup Connections

VARIABLES
    source,   \* source[c]: connection status, promotion, lease, mapped store
    facts,    \* connections with published rows for their outlet
    manual,   \* stores with a manual summary
    choice,   \* integration_source_authorities: by store and channel
    admin,    \* admin[a]: a choice in the making
    report,   \* report[r]: what a report has read, and its rows
    changes

sourceVars == << source, facts, manual, choice, admin, report, changes >>

Channels == {ChannelOf[c] : c \in Connections}
NoChoice == [connection |-> Nowhere, version |-> 0]
NotBegun == [pc |-> "none"]

SourceTypeOK ==
    /\ source \in [Connections -> [status : {"connected", "revoked"}, approved : BOOLEAN,
                                   leased : BOOLEAN, store : Locations \cup {Nowhere}]]
    /\ facts \subseteq Connections /\ manual \subseteq Locations
    /\ \A l \in Locations, ch \in Channels :
          /\ choice[l][ch].connection \in Connections \cup {Nowhere}
          /\ choice[l][ch].connection # Nowhere => ChannelOf[choice[l][ch].connection] = ch
          /\ choice[l][ch].version = 0 <=> choice[l][ch].connection = Nowhere

SourceInit ==
    /\ \E stores \in [Connections -> Locations \cup {Nowhere}] :
          source = [c \in Connections |-> [status |-> "connected", approved |-> FALSE,
                                           leased |-> FALSE, store |-> stores[c]]]
    /\ facts = {} /\ manual \in SUBSET Locations
    /\ choice = [l \in Locations |-> [ch \in Channels |-> NoChoice]]
    /\ admin = [a \in Admins |-> NotBegun]
    /\ report = [r \in Reports |-> NotBegun]
    /\ changes = 0

\* Approved, connected and not syncing: approvedFactSource and the eligibility
\* of a choice.
Trusted(s) == s.status = "connected" /\ s.approved /\ ~s.leased

-----------------------------------------------------------------------------
(* What imports and settings change.                                       *)

Changed ==
    /\ changes < MaxChanges
    /\ changes' = changes + 1
    /\ UNCHANGED << manual, choice, admin, report >>

\* An import begins: nothing of the source is to be read until it ends.
BeginImport(c) ==
    /\ Changed
    /\ source[c].status = "connected" /\ ~source[c].leased
    /\ source' = [source EXCEPT ![c].leased = TRUE, ![c].approved = FALSE]
    /\ UNCHANGED facts

\* It publishes, or it ends with what it has still in review.
EndImport(c) ==
    /\ Changed
    /\ source[c].leased
    /\ \E published \in BOOLEAN :
          /\ published => source[c].store # Nowhere
          /\ source' = [source EXCEPT ![c].leased = FALSE, ![c].approved = published]
          /\ facts' = IF published THEN facts \cup {c} ELSE facts

\* An outlet is mapped to a store, or to none.
Remap(c) ==
    /\ Changed
    /\ ~source[c].leased
    /\ \E l \in Locations \cup {Nowhere} : source' = [source EXCEPT ![c].store = l]
    /\ UNCHANGED facts

\* A disconnected source keeps its rows.
Disconnect(c) ==
    /\ Changed
    /\ source' = [source EXCEPT ![c].status = "revoked", ![c].approved = FALSE,
                                ![c].leased = FALSE]
    /\ UNCHANGED facts

-----------------------------------------------------------------------------
(* The choice: it saves only over the version its maker was shown.         *)

SeeChoices(a, l, ch) ==
    /\ admin[a].pc = "none"
    /\ admin' = [admin EXCEPT ![a] = [pc |-> "seen", store |-> l, channel |-> ch,
                                      version |-> choice[l][ch].version]]
    /\ UNCHANGED << source, facts, manual, choice, report, changes >>

\* The mapping and the facts are read first, outside of the write.
Eligible(c, l) == Trusted(source[c]) /\ source[c].store = l /\ c \in facts

ReadEligible(a, c) ==
    /\ admin[a].pc = "seen"
    /\ ChannelOf[c] = admin[a].channel
    /\ Eligible(c, admin[a].store)
    /\ admin' = [admin EXCEPT ![a] = [pc |-> "save", store |-> @.store, channel |-> @.channel,
                                      version |-> @.version, connection |-> c]]
    /\ UNCHANGED << source, facts, manual, choice, report, changes >>

\* The write checks everything again: a first choice is inserted if there is
\* none, a later one updates the version that was seen.
SaveChoice(a) ==
    LET w == admin[a]
        saves == /\ Eligible(w.connection, w.store)
                 /\ choice[w.store][w.channel].version = w.version
    IN /\ w.pc = "save"
       /\ choice' = IF saves
                    THEN [choice EXCEPT ![w.store][w.channel] =
                             [connection |-> w.connection, version |-> w.version + 1]]
                    ELSE choice
       /\ admin' = [admin EXCEPT ![a] = [pc |-> IF saves THEN "saved" ELSE "refused"]]
       /\ UNCHANGED << source, facts, manual, report, changes >>

-----------------------------------------------------------------------------
(* The report.                                                             *)

Got(r, w) ==
    /\ report' = [report EXCEPT ![r] = w]
    /\ UNCHANGED << source, facts, manual, choice, admin, changes >>

ReadMappings(r) ==
    /\ report[r].pc = "none"
    /\ Got(r, [pc |-> "choices", sources |-> source])

ReadChoices(r) ==
    /\ report[r].pc = "choices"
    /\ Got(r, [pc |-> "facts", sources |-> report[r].sources, choices |-> choice])

\* The candidates of a store and channel, as read.
Candidates(w, l, ch) == {c \in Connections : w.sources[c].store = l /\ ChannelOf[c] = ch}
Usable(w, c) == Trusted(w.sources[c]) /\ c \in w.facts

\* The connection that is counted, Nowhere if none is, or that the owner has to
\* choose.
Resolved(w, l, ch) ==
    LET all == Candidates(w, l, ch)
        usable == {c \in all : Usable(w, c)}
        preferred == w.choices[l][ch].connection
        gone == \A c \in all \cap {preferred} : w.sources[c].status # "connected"
    IN IF preferred # Nowhere
       THEN IF preferred \in usable THEN preferred
            ELSE IF gone /\ usable = {} THEN Nowhere
            ELSE "conflict"
       ELSE IF \E c \in all : c \in w.facts /\ c \notin usable THEN "conflict"
       ELSE IF usable = {} THEN Nowhere
       ELSE IF Cardinality(usable) = 1 THEN CHOOSE c \in usable : TRUE
       ELSE "conflict"

ReadFacts(r) ==
    LET w == [pc |-> "rows", sources |-> report[r].sources, choices |-> report[r].choices,
              facts |-> facts]
    IN /\ report[r].pc = "facts"
       /\ Got(r, w)

\* Variant: every source that can be used is counted.
AnswersOfAll(w) ==
    {t \in Locations \X Channels \X Connections :
        t[3] \in Candidates(w, t[1], t[2]) /\ Usable(w, t[3])}

\* Rows of the selected sources that are still trusted, and manual summaries of
\* the stores without one; nothing at all while a choice is open.
Answers(w) == {<< l, ch, Resolved(w, l, ch) >> : l \in Locations, ch \in Channels}
Selected(w) == {s \in Answers(w) : s[3] \in Connections}

ReadRows(r) ==
    LET w == report[r]
        open == \E s \in Answers(w) : s[3] = "conflict"
    IN /\ w.pc = "rows"
       /\ Got(r, [pc |-> "done", sources |-> w.sources,
                  rows |-> IF open THEN {}
                           ELSE {s[3] : s \in {t \in Selected(w) : Trusted(source[t[3]])
                                                                   /\ t[3] \in facts}},
                  manual |-> IF open THEN {}
                             ELSE manual \ {s[1] : s \in Selected(w)}])

SourceNext ==
    \/ \E c \in Connections : BeginImport(c) \/ EndImport(c) \/ Remap(c) \/ Disconnect(c)
    \/ \E a \in Admins :
          \/ \E l \in Locations, ch \in Channels : SeeChoices(a, l, ch)
          \/ \E c \in Connections : ReadEligible(a, c)
          \/ SaveChoice(a)
    \/ \E r \in Reports : ReadMappings(r) \/ ReadChoices(r) \/ ReadFacts(r) \/ ReadRows(r)

SourceSpec == SourceInit /\ [][SourceNext]_sourceVars

-----------------------------------------------------------------------------
(* Properties.                                                             *)

\* A report never counts a sale twice: of each store and channel it adds up at
\* most one connection's rows, and no manual summary to them, whatever was
\* remapped, imported or chosen between its four reads.
CountedOnce ==
    \A r \in Reports : report[r].pc = "done" =>
        /\ \A c, d \in report[r].rows :
              /\ report[r].sources[c].store = report[r].sources[d].store
              /\ ChannelOf[c] = ChannelOf[d]
              => c = d
        /\ \A c \in report[r].rows : report[r].sources[c].store \notin report[r].manual

\* A choice replaces only the choice that its maker was shown, and only by a
\* source that has something to report when it is saved.
Informed ==
    \A l \in Locations, ch \in Channels :
       choice'[l][ch] # choice[l][ch] =>
          \E a \in Admins : /\ admin[a].pc = "save" /\ admin[a].version = choice[l][ch].version
                            /\ Eligible(choice'[l][ch].connection, l)

ChoiceIsInformed == [][Informed]_sourceVars

\* What a report adds up.
ReportsAreSound == SourceTypeOK /\ CountedOnce

\* What is counted, and who has decided that it is: no step ends in a report
\* that counts a sale twice, or replaces a choice that its maker has not seen.
SourcesAreSound == [][ReportsAreSound' /\ Informed]_sourceVars
=============================================================================
