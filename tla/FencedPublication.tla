-------------------------- MODULE FencedPublication --------------------------
(***************************************************************************)
(* What the sync lease of server/integrations/connection.ts promises every *)
(* provider import: holders follow one another in numbered terms, a holder *)
(* whose lease lapsed may be replaced at any time, and the published       *)
(* snapshot is only ever replaced in the term in force.  Imports are shown *)
(* to implement it.                                                        *)
(***************************************************************************)
EXTENDS Naturals

CONSTANTS Holders, Nobody

VARIABLES
  holder,    \* who holds the lease
  live,      \* the lease has not lapsed
  term,      \* number of the current or last grant
  published  \* term in which the published snapshot was written

vars == <<holder, live, term, published>>

Init ==
  /\ holder = Nobody
  /\ live = FALSE
  /\ term \in Nat
  /\ published \in 0..term

\* acquireIntegrationSyncLease
Grant(h) ==
  /\ holder = Nobody \/ ~live
  /\ holder' = h
  /\ live' = TRUE
  /\ term' = term + 1
  /\ UNCHANGED published

\* The time to live of the lease passes.
Lapse == holder # Nobody /\ live' = FALSE /\ UNCHANGED <<holder, term, published>>

\* releaseIntegrationSyncLease, or an owner's request clearing a lapsed lease.
Drop == holder' = Nobody /\ live' = FALSE /\ UNCHANGED <<term, published>>

\* The guarded batch of an import.
Publish ==
  /\ holder # Nobody
  /\ live
  /\ published < term
  /\ published' = term
  /\ UNCHANGED <<holder, live, term>>

Next == (\E h \in Holders : Grant(h)) \/ Lapse \/ Drop \/ Publish

Spec == Init /\ [][Next]_vars

\* Publications come in the order of their terms and never from the future: a
\* holder that lost the lease cannot replace what a later holder published.
PublishedInTerm == term \in Nat /\ published \in 0..term

PublicationsInOrder == [][published' >= published]_vars
=============================================================================
